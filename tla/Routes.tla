------------------------------- MODULE Routes -------------------------------
(***************************************************************************)
(* The translation of the panel's routes into what the two runtimes obey.  *)
(* A domain or a network is the sequence of its labels, or of its bits,    *)
(* from the root on, so that "a.example.com is under example.com" and      *)
(* "10.1.0.1 is in 10.0.0.0/8" are both a matter of prefixes.  An entry is *)
(* a record of its kind, "domain", "cidr" or "badcidr" (a slash, but no    *)
(* network), its path, whether it was written with capitals and, of a      *)
(* domain, whether it begins with a dot, which trimming "*." leaves there. *)
(* What a route lists is a set of entries: a rule matches if any of its do.*)
(***************************************************************************)
EXTENDS Integers, Sequences, SequencesExt

\* strings.ToLower on the spellings of actions that occur.
LowerAction(a) == IF a = "BLOCK" THEN "block" ELSE a

\* Nothing is left of an entry when "*." and spaces are trimmed.
Blank(entry) == entry.kind = "domain" /\ entry.path = <<>>

Covers(entry, dest) == entry.kind = dest.kind /\ IsPrefix(entry.path, dest.path)

\* The library compares a name in lower case with rules as they were written;
\* a domain_suffix with a leading dot matches what is below the domain only.
SingMatches(entry, dest) ==
  Covers(entry, dest) /\ ~entry.upper /\ (entry.dot => entry.path # dest.path)

\* mieru compares in lower case, and a name is the entry or ends with a dot and
\* the entry: a name never ends with an entry that has a dot of its own.
MieruMatches(entry, dest) == Covers(entry, dest) /\ ~entry.dot

Refused == [ok |-> FALSE]

-----------------------------------------------------------------------------
(* sing-box: a list of rules, of which the first that matches decides.     *)

\* The outbound of a route, "" if its action is an error.
OutboundOf(route) ==
  LET action == LowerAction(route.action)
  IN  CASE action = "direct" -> "direct"
        [] action \in {"block", "reject"} -> "block"
        [] action = "proxy" -> route.value
        [] OTHER -> ""

\* One rule for the entries, none if there are no entries.
RuleFor(entries, outbound) ==
  IF entries = {} THEN <<>> ELSE <<[match |-> entries, outbound |-> outbound]>>

\* Mutant: an entry that is empty goes on as a suffix, of which every name ends.
RulesOfBlankToo(route) ==
  RuleFor({e \in route.match : e.kind = "domain"}, OutboundOf(route))
    \o RuleFor({e \in route.match : e.kind # "domain"}, OutboundOf(route))

\* The rules of one route: its domains, then its networks.
RulesOf(route) ==
  RuleFor({e \in route.match : e.kind = "domain" /\ ~Blank(e)}, OutboundOf(route))
    \o RuleFor({e \in route.match : e.kind # "domain"}, OutboundOf(route))

compilePanelRoutes(routes) ==
  IF \E i \in DOMAIN routes : OutboundOf(routes[i]) = ""
    THEN Refused
    ELSE [ok |-> TRUE, rules |-> FlattenSeq([i \in DOMAIN routes |-> RulesOf(routes[i])])]

\* build: the panel's own sing-box rules come before its routes.
RouteSection(custom, routes) ==
  LET standard == compilePanelRoutes(routes)
  IN  IF standard.ok THEN [ok |-> TRUE, rules |-> custom \o standard.rules] ELSE Refused

\* The library refuses a rule with a malformed network.
LibraryAccepts(rules) ==
  \A i \in DOMAIN rules : \A e \in rules[i].match : e.kind # "badcidr"

Hits(rules, dest) == {i \in DOMAIN rules : \E e \in rules[i].match : SingMatches(e, dest)}

\* The outbound of a connection: the first rule's that matches, else final.
Chosen(rules, dest) ==
  IF Hits(rules, dest) = {} THEN "direct" ELSE rules[Min(Hits(rules, dest))].outbound

-----------------------------------------------------------------------------
(* mieru: what is blocked, and nothing else.                               *)

\* Mutant: "reject" passes as if it were "direct".
BlockingBlockOnly(routes) == {i \in DOMAIN routes : LowerAction(routes[i].action) = "block"}

\* The routes that block; those with action "direct" are skipped.
Blocking(routes) == {i \in DOMAIN routes : LowerAction(routes[i].action) \in {"block", "reject"}}

compileRoutes(routes) ==
  LET entries == UNION {routes[i].match : i \in Blocking(routes)}
  IN  IF \/ \E i \in DOMAIN routes : LowerAction(routes[i].action) \notin {"direct", "block", "reject"}
         \/ \E e \in entries : e.kind = "badcidr"
        THEN Refused
        ELSE [ok |-> TRUE, blocks |-> {e \in entries : ~Blank(e)}]

blocked(blocks, dest) == \E e \in blocks : MieruMatches(e, dest)

-----------------------------------------------------------------------------
(* What the translations must mean.                                        *)

\* A route speaks of a destination if one of the names or networks it lists
\* covers it; an entry without a name speaks of nobody.
SpeaksOf(route, dest) == \E e \in route.match : ~Blank(e) /\ SingMatches(e, dest)

\* The first route that speaks of the destination decides, unless a custom
\* rule already has: splitting routes into rules changes neither the order
\* nor the answer, and an empty list never catches everything.
FirstRouteDecides(custom, routes, dest) ==
  LET section == RouteSection(custom, routes)
      speaking == {i \in DOMAIN routes : SpeaksOf(routes[i], dest)}
  IN  section.ok =>
        Chosen(section.rules, dest) =
          (CASE Hits(custom, dest) # {} -> Chosen(custom, dest)
             [] Hits(custom, dest) = {} /\ speaking # {} -> OutboundOf(routes[Min(speaking)])
             [] OTHER -> "direct")

\* Of a list of routes that both runtimes accept, mieru lets through what
\* sing-box blocks only where an entry with a leading dot says so, which it
\* does not match.  It blocks more only where an earlier "direct" makes an
\* exception, which it does not know, or where the entry has capitals, which
\* sing-box does not match.
RuntimesAgree(routes, dest) ==
  LET sing == RouteSection(<<>>, routes)
      mieru == compileRoutes(routes)
      exception == \E i \in DOMAIN routes : LowerAction(routes[i].action) = "direct" /\ SpeaksOf(routes[i], dest)
      capitals == \E i \in DOMAIN routes : \E e \in routes[i].match : e.upper
      dotted == \E i \in Blocking(routes) : \E e \in routes[i].match : e.dot /\ SingMatches(e, dest)
  IN  (sing.ok /\ LibraryAccepts(sing.rules) /\ mieru.ok) =>
        /\ Chosen(sing.rules, dest) = "block" => blocked(mieru.blocks, dest) \/ dotted
        /\ (blocked(mieru.blocks, dest) /\ ~exception /\ ~capitals) => Chosen(sing.rules, dest) = "block"
=============================================================================
