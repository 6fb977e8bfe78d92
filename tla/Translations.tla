---------------------------- MODULE Translations ----------------------------
(***************************************************************************)
(* The pure translations of the program.  One step picks an input of one   *)
(* topic; what a translation must mean is an invariant.  The inputs are    *)
(* parameters: any that have the form the code's own types give them.      *)
(***************************************************************************)
EXTENDS Routes, Settings, Inbound, Speed

CONSTANTS
  RouteLists,     \* the panel's lists of routes
  CustomLists,    \* the panel's own lists of sing-box rules
  Destinations,   \* the names and addresses that connections go to
  SettingCases,   \* configuration files, each with an environment
  PanelSeconds,   \* the panel's intervals
  InboundCases,   \* the panel's configurations of a node, each with a fallback
  UserLists,      \* the users of a node
  ReadingLists    \* the readings of the byte counter, in the order of the updates

\* Only a domain begins with a dot; a dot alone, the domain of nobody, is left out.
Entries ==
  {e \in [kind : {"domain", "cidr", "badcidr"}, path : Seq(Nat), upper : BOOLEAN, dot : BOOLEAN] :
     e.dot => e.kind = "domain" /\ e.path # <<>>}

ASSUME RoutesAssumption ==
  /\ RouteLists \subseteq Seq([action : STRING, value : STRING, match : SUBSET Entries])
  /\ CustomLists \subseteq Seq([match : SUBSET Entries, outbound : STRING])
  /\ Destinations \subseteq Entries

Durations == [text : {"unset", "bad", "set"}, ticks : Int]
Nodes == [id : STRING, enabled : {"unset", "true", "false"}]

ASSUME SettingsAssumption ==
  /\ SettingCases \subseteq
       [file : [url : STRING, token : STRING, tokenEnv : STRING, nodes : Seq(Nodes),
                pull : Durations, report : Durations],
        env : [url : STRING, token : STRING, named : STRING, node : STRING]]
  /\ PanelSeconds \subseteq Int

\* A text of TLS material tells where it was written.
PairKeys == {"certificate_path", "cert_path", "key_path", "cert_content", "certificate", "cert_key", "key"}

ASSUME InboundAssumption ==
  \A case \in InboundCases :
    /\ \A k \in PairKeys \intersect DOMAIN case.cfg.cert : case.cfg.cert[k] \in {"", "panel"}
    /\ {case.fallback.certPath, case.fallback.keyPath, case.fallback.cert, case.fallback.key}
         \subseteq {"", "file"}

\* The panel's users have different UUIDs.
ASSUME UsersAssumption == \A users \in UserLists : \A u, v \in users : u.uuid = v.uuid => u = v

ASSUME ReadingsAssumption ==
  ReadingLists \subseteq Seq([ok : BOOLEAN, bytes : 0 .. CounterRange - 1, at : Int])

-----------------------------------------------------------------------------
VARIABLE input

Blank0 == [topic |-> "none"]

Init == input = Blank0

Pick(inputs) == input = Blank0 /\ input' \in inputs

PickRoutes == Pick([topic : {"routes"}, routes : RouteLists, custom : CustomLists])
PickSettings == Pick([topic : {"settings"}, case : SettingCases])
PickInbound == Pick([topic : {"inbound"}, case : InboundCases])
PickUsers == Pick([topic : {"users"}, users : UserLists])
PickReadings == Pick([topic : {"readings"}, readings : ReadingLists])

Next == PickRoutes \/ PickSettings \/ PickInbound \/ PickUsers \/ PickReadings

Spec == Init /\ [][Next]_input

-----------------------------------------------------------------------------
(* The invariants: what each translation must mean, for every input.       *)

\* compilePanelRoutes and build keep the order and the meaning of the routes.
RoutesKeepMeaning ==
  input.topic = "routes" => \A dest \in Destinations : FirstRouteDecides(input.custom, input.routes, dest)

\* compileRoutes of mieru blocks what compilePanelRoutes blocks, but for entries
\* with a leading dot.
RuntimesBlockAlike == input.topic = "routes" => \A dest \in Destinations : RuntimesAgree(input.routes, dest)

\* Of the configurations that load and the numbers of the panel, it is only those
\* numbers that overflow a duration which make time.NewTicker panic.
TickersPanicOnlyOnOverflow ==
  input.topic = "settings" => \A seconds \in PanelSeconds : PanicsOnOverflow(input.case.file, input.case.env, seconds)

\* An accepted inbound has the whole of one pair of TLS material.
MaterialNeverMixed == input.topic = "inbound" => MaterialIsWhole(input.case.cfg, input.case.fallback)

\* An accepted inbound is of the type the node-type header announces.
ServesAnnouncedType == input.topic = "inbound" => TypeIsAnnounced(input.case.cfg, input.case.fallback)

\* Users are found again under the name an inbound gave them.
UsersResolve ==
  input.topic = "users" => \A type \in Protocols \union {"mieru"} : NamesResolve(type, input.users)

\* The speeds that the loops of several nodes report share out what went through
\* the host, but for the bytes of an overtaken reading, which count twice.
ReportedSpeedsAddUp == input.topic = "readings" => SpeedsAddUp(input.readings)
=============================================================================
