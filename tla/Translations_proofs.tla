------------------------ MODULE Translations_proofs -------------------------
(***************************************************************************)
(* Proofs about the translations, for all inputs of the form that the      *)
(* assumptions of Translations give them.                                  *)
(***************************************************************************)
EXTENDS Translations, FiniteSums

\* What has been picked is an input of the topic it says it is of.
InputOK ==
  /\ input.topic = "routes" => input.routes \in RouteLists /\ input.custom \in CustomLists
  /\ input.topic = "settings" => input.case \in SettingCases
  /\ input.topic = "inbound" => input.case \in InboundCases
  /\ input.topic = "users" => input.users \in UserLists
  /\ input.topic = "readings" => input.readings \in ReadingLists

\* The input is of the form its topic gives it, in every reachable state.
THEOREM InputsPicked == Spec => []InputOK
<1>1. Init => InputOK
  BY DEF Init, Blank0, InputOK
<1>2. InputOK /\ [Next]_input => InputOK'
  <2> SUFFICES ASSUME InputOK, [Next]_input PROVE InputOK'
    OBVIOUS
  <2>1. CASE PickRoutes
    BY <2>1 DEF PickRoutes, Pick, InputOK
  <2>2. CASE PickSettings
    BY <2>2 DEF PickSettings, Pick, InputOK
  <2>3. CASE PickInbound
    BY <2>3 DEF PickInbound, Pick, InputOK
  <2>4. CASE PickUsers
    BY <2>4 DEF PickUsers, Pick, InputOK
  <2>5. CASE PickReadings
    BY <2>5 DEF PickReadings, Pick, InputOK
  <2>6. CASE UNCHANGED input
    BY <2>6 DEF InputOK
  <2> QED BY <2>1, <2>2, <2>3, <2>4, <2>5, <2>6 DEF Next
<1> QED BY <1>1, <1>2, PTL DEF Spec

-----------------------------------------------------------------------------
(* Settings.                                                               *)

\* A number is its quotient and remainder, and no others.
LEMMA OnlyRemainder ==
  ASSUME NEW m \in Nat \ {0}, NEW a \in Int, NEW q \in Int, NEW r \in 0 .. m - 1, a = m * q + r
  PROVE  a % m = r
<1> DEFINE p == a \div m
           t == a % m
<1>1. p \in Int /\ t \in 0 .. m - 1 /\ a = m * p + t
  OBVIOUS
<1> HIDE DEF p, t
<1>2. m * (p - q) = r - t
  BY <1>1
<1>3. p - q >= 1 => m * (p - q) >= m
  BY <1>1
<1>4. p - q <= -1 => m * (p - q) <= -m
  BY <1>1
<1>5. p - q = 0
  BY <1>1, <1>2, <1>3, <1>4
<1> QED BY <1>1, <1>2, <1>5 DEF t

\* Wrapping takes the upper half of the range below zero.
LEMMA WrapSplits ==
  ASSUME NEW x \in Int
  PROVE  LET bits == x % (2 * HalfRange)
         IN  WrapDuration(x) = IF bits < HalfRange THEN bits ELSE bits - 2 * HalfRange
<1> DEFINE m == 2 * HalfRange
           q == x \div m
           bits == x % m
<1>1. HalfRange \in Nat \ {0} /\ m \in Nat \ {0}
  BY DurationAssumption DEF DurationAssumption
<1>2. q \in Int /\ bits \in 0 .. m - 1 /\ x = m * q + bits
  <2> HIDE DEF m
  <2> QED BY <1>1
<1> HIDE DEF q, bits
<1>3. CASE bits < HalfRange
  <2>1. bits + HalfRange \in 0 .. m - 1 /\ x + HalfRange = m * q + (bits + HalfRange) /\ x + HalfRange \in Int
    BY <1>1, <1>2, <1>3
  <2>2. (x + HalfRange) % m = bits + HalfRange
    <3> HIDE DEF m
    <3> QED BY <1>1, <1>2, <2>1, OnlyRemainder
  <2> QED BY <1>1, <1>2, <1>3, <2>2 DEF WrapDuration, bits
<1>4. CASE ~(bits < HalfRange)
  <2>1. bits - HalfRange \in 0 .. m - 1 /\ x + HalfRange = m * (q + 1) + (bits - HalfRange) /\ x + HalfRange \in Int
    BY <1>1, <1>2, <1>4
  <2>2. (x + HalfRange) % m = bits - HalfRange
    <3>1. q + 1 \in Int
      BY <1>2
    <3> HIDE DEF m
    <3> QED BY <1>1, <2>1, <3>1, OnlyRemainder
  <2> QED BY <1>1, <1>2, <1>4, <2>2 DEF WrapDuration, bits
<1> QED BY <1>3, <1>4 DEF bits

\* A ticker's period is positive but where the panel's number overflows, and no
\* number that fits a duration does.
LEMMA PanicsExactly ==
  ASSUME NEW local \in Int, local >= 0, NEW seconds \in Int
  PROVE  /\ interval(local, seconds) <= 0 <=> local = 0 /\ Overflows(seconds)
         /\ seconds * Second < HalfRange => ~Overflows(seconds)
<1>1. Second \in Nat \ {0} /\ HalfRange \in Nat \ {0} /\ 60 * Second < HalfRange
  BY DurationAssumption DEF DurationAssumption
<1>2. ASSUME NEW x \in Int, x > 0, x < HalfRange PROVE x % (2 * HalfRange) = x
  <2>1. 2 * HalfRange \in Nat \ {0} /\ x = (2 * HalfRange) * 0 + x /\ x \in 0 .. 2 * HalfRange - 1
    BY <1>1, <1>2
  <2> QED BY <2>1, OnlyRemainder
<1>3. ASSUME seconds * Second < HalfRange PROVE ~Overflows(seconds)
  <2> SUFFICES ASSUME seconds > 0 PROVE ~Overflows(seconds)
    BY DEF Overflows
  <2> DEFINE x == seconds * Second
  <2>1. x \in Int /\ x > 0
    BY <1>1
  <2>2. x % (2 * HalfRange) = x
    <3>1. x < HalfRange
      BY <1>3
    <3> HIDE DEF x
    <3> QED BY <1>2, <2>1, <3>1
  <2>3. ~(x = 0 \/ x >= HalfRange)
    BY <1>1, <1>3, <2>1
  <2> QED BY <2>2, <2>3 DEF Overflows
<1> SUFFICES interval(local, seconds) <= 0 <=> local = 0 /\ Overflows(seconds)
  BY <1>3
<1>4. CASE local > 0
  BY <1>4 DEF interval
<1>5. CASE local = 0 /\ seconds <= 0
  <2>1. 60 * Second \in Int /\ 60 * Second > 0
    BY <1>1
  <2> DEFINE x == 60 * Second
  <2>2. WrapDuration(x) = x
    BY <1>1, <1>2, <2>1, WrapSplits
  <2> QED BY <1>1, <1>5, <2>1, <2>2 DEF interval, Overflows
<1>6. CASE local = 0 /\ seconds > 0
  <2> DEFINE x == seconds * Second
             bits == x % (2 * HalfRange)
  <2>1. x \in Int
    BY <1>1
  <2>2. bits \in 0 .. 2 * HalfRange - 1
    <3>1. 2 * HalfRange \in Nat \ {0}
      BY <1>1
    <3> HIDE DEF x
    <3> QED BY <2>1, <3>1
  <2>3. interval(local, seconds) = WrapDuration(x)
    BY <1>6 DEF interval
  <2>4. WrapDuration(x) = IF bits < HalfRange THEN bits ELSE bits - 2 * HalfRange
    <3> HIDE DEF x
    <3> QED BY <2>1, WrapSplits
  <2>5. Overflows(seconds) <=> bits = 0 \/ bits >= HalfRange
    BY <1>6 DEF Overflows
  <2> HIDE DEF x, bits
  <2> QED BY <1>1, <1>6, <2>2, <2>3, <2>4, <2>5
<1> QED BY <1>4, <1>5, <1>6

\* Whatever configuration loads and whatever interval the panel sends, a ticker
\* of runNode panics exactly when it has no local interval and the panel's
\* overflows.
THEOREM OnlyOverflowPanics == Spec => []TickersPanicOnlyOnOverflow
<1>1. InputOK => TickersPanicOnlyOnOverflow
  <2> SUFFICES ASSUME InputOK, input.topic = "settings", NEW seconds \in PanelSeconds
               PROVE  PanicsOnOverflow(input.case.file, input.case.env, seconds)
    BY DEF TickersPanicOnlyOnOverflow
  <2> DEFINE file == input.case.file
             env == input.case.env
             loaded == Load(file, env)
  <2>1. SUFFICES ASSUME loaded.ok
                 PROVE  /\ \A local \in {Parsed(loaded.cfg.pull), Parsed(loaded.cfg.report)} :
                             interval(local, seconds) <= 0 <=> local = 0 /\ Overflows(seconds)
                        /\ seconds * Second < HalfRange => ~Overflows(seconds)
    BY Zenon DEF PanicsOnOverflow
  <2>2. seconds \in Int /\ input.case \in SettingCases
    BY SettingsAssumption DEF SettingsAssumption, InputOK
  <2>3. file.pull \in Durations /\ file.report \in Durations
    BY <2>2, SettingsAssumption DEF SettingsAssumption
  <2>4. /\ loaded.cfg = applyEnvironment(file, env)
        /\ Validate(applyEnvironment(file, env))
    BY <2>1 DEF Load
  <2>5. loaded.cfg.pull = file.pull /\ loaded.cfg.report = file.report
    <3> HIDE DEF file, env, loaded
    <3>1. applyEnvironment(file, env).pull = file.pull /\ applyEnvironment(file, env).report = file.report
      BY DEF applyEnvironment
    <3> QED BY <2>4, <3>1
  <2>6. Parsed(file.pull) >= 0 /\ Parsed(file.report) >= 0
    BY <2>4, <2>5 DEF Validate
  <2>7. Parsed(file.pull) \in Int /\ Parsed(file.report) \in Int
    BY <2>3 DEF Parsed, Durations
  <2> QED BY <2>1, <2>2, <2>5, <2>6, <2>7, PanicsExactly
<1> QED BY <1>1, InputsPicked, PTL

-----------------------------------------------------------------------------
(* Least and greatest elements.                                            *)

\* Min of a set of numbers up to n is its least element.
LEMMA MinIsLeast ==
  ASSUME NEW n \in Nat, NEW S \in SUBSET (1 .. n), S # {}
  PROVE  Min(S) \in S /\ \A y \in S : Min(S) <= y
<1> DEFINE HasLeast(T) == \E x \in T : \A y \in T : x <= y
           Reached == {k \in Nat : \A T \in SUBSET Nat : T \cap 0 .. k # {} => HasLeast(T)}
<1>1. 0 \in Reached
  <2> SUFFICES ASSUME NEW T \in SUBSET Nat, T \cap 0 .. 0 # {} PROVE HasLeast(T)
    OBVIOUS
  <2>1. 0 \in T /\ \A y \in T : 0 <= y
    OBVIOUS
  <2> QED BY <2>1
<1>2. ASSUME NEW k \in 0 .. n - 1, k \in Reached PROVE k + 1 \in Reached
  <2> SUFFICES ASSUME NEW T \in SUBSET Nat, T \cap 0 .. k + 1 # {} PROVE HasLeast(T)
    OBVIOUS
  <2>1. CASE T \cap 0 .. k # {}
    BY <1>2, <2>1
  <2>2. CASE T \cap 0 .. k = {}
    <3>1. \A y \in T : y \in Nat /\ y >= k + 1
      BY <2>2
    <3>2. k + 1 \in T
      BY <3>1
    <3> QED BY <3>1, <3>2
  <2> QED BY <2>1, <2>2
<1>3. n \in Reached
  <2> HIDE DEF Reached
  <2> QED BY <1>1, <1>2, CountUp
<1>4. S \in SUBSET Nat /\ S \cap 0 .. n # {}
  <2>1. \A x \in S : x \in Nat /\ x \in 0 .. n
    OBVIOUS
  <2> QED BY <2>1
<1>5. HasLeast(S)
  BY <1>3, <1>4
<1> QED BY <1>5 DEF Min

-----------------------------------------------------------------------------
(* Inbounds.                                                               *)

\* What is served has the name that the node-type header gives it, in every
\* protocol and version that createRuntime accepts.
THEOREM TypeIsTrue == Spec => []ServesAnnouncedType
<1>1. \A cfg, fallback : TypeIsAnnounced(cfg, fallback)
  <2> SUFFICES ASSUME NEW cfg, NEW fallback, createRuntime(cfg, fallback).ok
               PROVE  createRuntime(cfg, fallback).type = NodeType(cfg)
    BY DEF TypeIsAnnounced
  <2>1. CASE cfg.protocol = "mieru"
    <3>1. createRuntime(cfg, fallback) = NewMieru(cfg)
      BY <2>1 DEF createRuntime
    <3>2. NewMieru(cfg) # Fails
      BY <3>1 DEF Fails
    <3>3. NewMieru(cfg) = [ok |-> TRUE, type |-> "mieru", port |-> cfg.port, tls |-> [ok |-> TRUE, kind |-> "none"]]
      BY <3>2, Zenon DEF NewMieru
    <3>4. NewMieru(cfg).type = "mieru"
      BY <3>3
    <3> QED BY <2>1, <3>1, <3>4 DEF NodeType, Lower
  <2>2. CASE cfg.protocol # "mieru"
    <3>1. createRuntime(cfg, fallback) = build(cfg, fallback)
      BY <2>2 DEF createRuntime
    <3>2. build(cfg, fallback).type = ServedType(cfg) /\ ServedType(cfg) \in Protocols
      BY <3>1 DEF build, Fails
    <3>3. cfg.protocol \in Protocols
      BY <3>2 DEF ServedType, Protocols
    <3>4. Lower(cfg.protocol) = cfg.protocol
      BY <3>3 DEF Lower, Protocols
    <3> QED BY <3>1, <3>2, <3>4 DEF NodeType, ServedType
  <2> QED BY <2>1, <2>2
<1>2. InputOK => ServesAnnouncedType
  BY <1>1 DEF ServesAnnouncedType
<1> QED BY <1>2, InputsPicked, PTL

\* What the panel's object holds of a pair was written in the panel.
PanelTexts(raw) == \A k \in PairKeys \intersect DOMAIN raw : raw[k] \in {"", "panel"}

\* A key's value in the panel's object was written in the panel.
LEMMA ValueFromPanel ==
  ASSUME NEW raw, NEW keys \in Seq(PairKeys),
         PanelTexts(raw)
  PROVE  Value(raw, keys) \in {"", "panel"}
<1> DEFINE present == {i \in DOMAIN keys : keys[i] \in DOMAIN raw}
<1>1. CASE present = {}
  BY <1>1 DEF Value
<1>2. CASE present # {}
  <2>1. Len(keys) \in Nat /\ present \in SUBSET (1 .. Len(keys))
    <3>1. DOMAIN keys = 1 .. Len(keys) /\ Len(keys) \in Nat
      OBVIOUS
    <3> QED BY <3>1
  <2>2. Min(present) \in present
    BY <1>2, <2>1, MinIsLeast
  <2>3. keys[Min(present)] \in PairKeys \cap DOMAIN raw
    <3>1. \A i \in present : i \in DOMAIN keys /\ keys[i] \in PairKeys /\ keys[i] \in DOMAIN raw
      OBVIOUS
    <3> HIDE DEF present
    <3> QED BY <2>2, <3>1
  <2> HIDE DEF present
  <2>4. Value(raw, keys) = raw[keys[Min(present)]]
    BY <1>2 DEF Value, present
  <2> QED BY <2>3, <2>4 DEF PanelTexts
<1> QED BY <1>1, <1>2

\* The texts of a pair come from one place, and "" is a text that is missing.
From(s, place) == {s.certPath, s.keyPath, s.cert, s.key} \subseteq {"", place}

LEMMA PairsFromOnePlace ==
  ASSUME NEW raw, NEW fallback, From(fallback, "file"),
         PanelTexts(raw)
  PROVE  From(Selected(raw, fallback), "file") \/ From(Selected(raw, fallback), "panel")
<1>1. CASE DOMAIN raw = {}
  BY <1>1 DEF Selected
<1>2. CASE DOMAIN raw # {}
  <2>1. /\ <<"certificate_path", "cert_path">> \in Seq(PairKeys)
        /\ <<"key_path">> \in Seq(PairKeys)
        /\ <<"cert_content", "certificate">> \in Seq(PairKeys)
        /\ <<"cert_key", "key">> \in Seq(PairKeys)
    <3>1. \A x, y \in PairKeys : <<x>> \in Seq(PairKeys) /\ <<x, y>> \in Seq(PairKeys)
      OBVIOUS
    <3>2. {"certificate_path", "cert_path", "key_path", "cert_content", "certificate", "cert_key", "key"}
            \subseteq PairKeys
      BY DEF PairKeys
    <3> QED BY <3>1, <3>2
  <2>2. /\ fromMap(raw).certPath \in {"", "panel"} /\ fromMap(raw).keyPath \in {"", "panel"}
        /\ fromMap(raw).cert \in {"", "panel"} /\ fromMap(raw).key \in {"", "panel"}
    BY <2>1, ValueFromPanel DEF fromMap
  <2> QED BY <1>2, <2>2 DEF Selected, From
<1> QED BY <1>1, <1>2

\* Two texts of one place, as far as both are there.
Matching(cert, key) == cert # "" /\ key # "" => cert = key

Paired(kind, cert, key) == kind # "reality" /\ (kind \in {"paths", "content"} => Matching(cert, key))

LEMMA MaterialIsPair ==
  ASSUME NEW kind, NEW cert, NEW key, Paired(kind, cert, key), Material(kind, cert, key).ok
  PROVE  IsWhole(Material(kind, cert, key))
<1> DEFINE m == Material(kind, cert, key)
<1>1. m # Fails
  BY DEF Fails
<1>2. cert # "" /\ key # ""
  BY <1>1, Zenon DEF Material
<1>3. m = [ok |-> TRUE, kind |-> kind, cert |-> cert, key |-> key]
  BY <1>1, Zenon DEF Material
<1> HIDE DEF m
<1>4. m.kind = kind /\ m.cert = cert /\ m.key = key
  BY <1>3
<1>5. IsWhole(m)
  BY <1>2, <1>4, Zenon DEF IsWhole, Paired, Matching
<1> QED BY <1>5 DEF m

LEMMA ResolvedIsWhole ==
  ASSUME NEW raw, NEW fallback, From(fallback, "file"), NEW name,
         PanelTexts(raw),
         Resolve(raw, fallback, name).ok
  PROVE  Resolve(raw, fallback, name).kind = "none" \/ IsWhole(Resolve(raw, fallback, name))
<1> DEFINE s == Selected(raw, fallback)
           mode == Lower(s.mode)
           r == Resolve(raw, fallback, name)
<1>1. From(s, "file") \/ From(s, "panel")
  BY PairsFromOnePlace
<1>2. CASE mode \in {"", "none"}
  BY <1>2 DEF Resolve
<1>3. CASE mode = "file"
  <2>1. r = Material("paths", s.certPath, s.keyPath)
    BY <1>3 DEF Resolve
  <2>2. Matching(s.certPath, s.keyPath)
    BY <1>1 DEF From, Matching
  <2> HIDE DEF s
  <2> QED BY <2>1, <2>2, MaterialIsPair DEF Paired
<1>4. CASE mode = "content"
  <2>1. r = Material("content", s.cert, s.key)
    BY <1>4 DEF Resolve
  <2>2. Matching(s.cert, s.key)
    BY <1>1 DEF From, Matching
  <2> HIDE DEF s
  <2> QED BY <2>1, <2>2, MaterialIsPair DEF Paired
<1>5. CASE mode = "self-signed"
  <2>1. r = Material("paths", "disk", "disk")
    BY <1>5 DEF Resolve
  <2> QED BY <2>1, MaterialIsPair DEF Paired, Matching
<1>6. CASE mode \in {"http-01", "dns-01"}
  <2>1. \E cert, key : r = Material("acme", cert, key)
    BY <1>6 DEF Resolve
  <2> QED BY <2>1, MaterialIsPair DEF Paired, Matching
<1>7. CASE mode \notin {"", "none", "file", "content", "self-signed", "http-01", "dns-01"}
  BY <1>7 DEF Resolve, Fails
<1> QED BY <1>2, <1>3, <1>4, <1>5, <1>6, <1>7

\* So is the section of REALITY.
LEMMA RealityIsWhole ==
  ASSUME NEW settings, NEW port, buildRealityInboundTLS(settings, port).ok
  PROVE  buildRealityInboundTLS(settings, port).kind = "reality" /\ IsWhole(buildRealityInboundTLS(settings, port))
<1> DEFINE tls == buildRealityInboundTLS(settings, port)
           name == Setting(settings, "server_name")
           key == Setting(settings, "private_key")
           checked == realityServerPort(port)
<1>1. tls # Fails
  BY DEF Fails
<1>2. name # "" /\ key # ""
  BY <1>1, Zenon DEF buildRealityInboundTLS
<1>3. tls = [ok |-> TRUE, kind |-> "reality", cert |-> name, key |-> key, port |-> checked.port]
  BY <1>1, Zenon DEF buildRealityInboundTLS
<1>4. checked # Fails
  <2>1. checked.ok
    BY <1>1, Zenon DEF buildRealityInboundTLS
  <2> QED BY <2>1 DEF Fails
<1>5. ValidPort(port.whole)
  BY <1>4, Zenon DEF realityServerPort
<1>6. checked.port = port.whole
  <2>1. checked = [ok |-> TRUE, port |-> port.whole]
    BY <1>4, Zenon DEF realityServerPort
  <2> HIDE DEF checked
  <2> QED BY <2>1
<1> HIDE DEF tls, name, key, checked
<1>7. tls.kind = "reality" /\ tls.cert = name /\ tls.key = key /\ tls.port = port.whole
  BY <1>3, <1>6
<1>8. tls.kind \notin {"paths", "content"}
  BY <1>7
<1>9. tls.kind = "reality" /\ IsWhole(tls)
  BY <1>2, <1>5, <1>7, <1>8, Zenon DEF IsWhole
<1> QED BY <1>9 DEF tls

\* An inbound that must have TLS and is accepted has both halves of one pair.
THEOREM PairsAreWhole == Spec => []MaterialNeverMixed
<1>1. InputOK => MaterialNeverMixed
  <2> SUFFICES ASSUME InputOK, input.topic = "inbound"
               PROVE  MaterialIsWhole(input.case.cfg, input.case.fallback)
    BY DEF MaterialNeverMixed
  <2> DEFINE cfg == input.case.cfg
             fallback == input.case.fallback
             inbound == createRuntime(cfg, fallback)
             tls == TlsSection(cfg, fallback)
             material == Resolve(cfg.cert, fallback, cfg.serverName)
  <2>1. SUFFICES ASSUME inbound.ok, inbound.type # "mieru", requiresTLS(inbound.type, cfg)
                 PROVE  inbound.tls.kind # "none" /\ IsWhole(inbound.tls)
    <3> HIDE DEF cfg, fallback
    <3>1. MaterialIsWhole(cfg, fallback)
      BY Zenon DEF MaterialIsWhole
    <3> QED BY <3>1 DEF cfg, fallback
  <2>2. /\ PanelTexts(cfg.cert)
        /\ From(fallback, "file")
    BY InboundAssumption DEF InboundAssumption, InputOK, From, PanelTexts
  <2> HIDE DEF cfg, fallback
  <2>3. inbound = build(cfg, fallback)
    BY <2>1 DEF createRuntime, NewMieru, Fails
  <2>4. inbound.tls = tls /\ tls.ok /\ inbound.type = ServedType(cfg)
    BY <2>1, <2>3 DEF build, Fails
  <2>5. CASE cfg.tls = 2
    <3>1. tls = buildRealityInboundTLS(cfg.settings, cfg.realityPort)
      BY <2>1, <2>4, <2>5 DEF TlsSection
    <3>2. tls.kind = "reality" /\ IsWhole(tls)
      BY <2>4, <3>1, RealityIsWhole
    <3>3. tls.kind # "none"
      BY <3>2
    <3> QED BY <2>4, <3>2, <3>3
  <2>6. CASE cfg.tls # 2
    <3>1. tls = IF material.ok /\ material.kind = "none" THEN Fails ELSE material
      BY <2>1, <2>4, <2>6 DEF TlsSection
    <3>2. tls = material /\ material.ok /\ material.kind # "none"
      BY <2>4, <3>1 DEF Fails
    <3> QED BY <2>2, <2>4, <3>2, ResolvedIsWhole
  <2> QED BY <2>5, <2>6
<1> QED BY <1>1, InputsPicked, PTL

-----------------------------------------------------------------------------
(* Users.                                                                  *)

\* The name that an inbound gives a user leads the tracker back to that user.
THEOREM NamesLeadBack == Spec => []UsersResolve
<1>1. InputOK => UsersResolve
  <2> SUFFICES ASSUME InputOK, input.topic = "users", NEW type \in Protocols \union {"mieru"},
                      \A u \in input.users : ~u.uuid.digits, NEW user \in input.users
               PROVE  resolveUser(type, input.users, UserName(type, user)) = user.id
    BY DEF UsersResolve, NamesResolve
  <2>1. \A u, v \in input.users : u.uuid = v.uuid => u = v
    BY UsersAssumption DEF UsersAssumption, InputOK
  <2>2. UserBySecret(input.users, user.uuid) = user.id
    BY <2>1 DEF UserBySecret
  <2>3. CASE type \in {"socks", "http", "naive", "mieru"}
    BY <2>2, <2>3 DEF UserName, resolveUser
  <2>4. CASE type \notin {"socks", "http", "naive", "mieru"}
    BY <2>4 DEF UserName, resolveUser, Text
  <2> QED BY <2>3, <2>4
<1> QED BY <1>1, InputsPicked, PTL
-----------------------------------------------------------------------------
(* Routes.                                                                 *)

\* Texts, literals included: the provers do not know a literal for a STRING.
Tags == STRING \union {"direct", "block", ""}
Rules == [match : SUBSET Entries, outbound : Tags]
PanelRoutes == [action : STRING, value : STRING, match : SUBSET Entries]

\* The first rule that matches the destination has this outbound.
Decides(rules, dest, out) ==
  \E i \in Hits(rules, dest) : rules[i].outbound = out /\ \A j \in Hits(rules, dest) : i <= j

LEMMA HitsAreIndices ==
  ASSUME NEW R, NEW rules \in Seq(R), NEW dest
  PROVE  Len(rules) \in Nat /\ Hits(rules, dest) \in SUBSET (1 .. Len(rules))
<1>1. Len(rules) \in Nat /\ DOMAIN rules = 1 .. Len(rules)
  OBVIOUS
<1> QED BY <1>1 DEF Hits

\* Chosen is the outbound of the first rule that matches.
LEMMA ChosenDecides ==
  ASSUME NEW R, NEW rules \in Seq(R), NEW dest
  PROVE  /\ Hits(rules, dest) # {} => Decides(rules, dest, Chosen(rules, dest))
         /\ \A out : Decides(rules, dest, out) => Chosen(rules, dest) = out
<1> DEFINE hits == Hits(rules, dest)
<1>1. Len(rules) \in Nat /\ hits \in SUBSET (1 .. Len(rules))
  BY HitsAreIndices
<1> HIDE DEF hits
<1>2. ASSUME hits # {}
      PROVE  Min(hits) \in hits /\ \A j \in hits : Min(hits) <= j
  BY <1>1, <1>2, MinIsLeast
<1>3. hits # {} => Chosen(rules, dest) = rules[Min(hits)].outbound
  BY DEF Chosen, hits
<1>4. ASSUME NEW out, NEW i \in hits, rules[i].outbound = out, \A j \in hits : i <= j
      PROVE  Chosen(rules, dest) = out
  <2>1. Min(hits) \in hits /\ Min(hits) <= i
    BY <1>2, <1>4
  <2>2. \A j \in hits : j \in Int
    BY <1>1
  <2>3. Min(hits) = i
    BY <1>4, <2>1, <2>2
  <2> QED BY <1>3, <1>4, <2>3
<1> QED BY <1>2, <1>3, <1>4 DEF Decides, hits

\* Of two lists one after the other the first decides if it can.
LEMMA FirstListDecides ==
  ASSUME NEW R, NEW a \in Seq(R), NEW b \in Seq(R), NEW dest
  PROVE  /\ a \o b \in Seq(R)
         /\ \A out : Decides(a, dest, out) => Decides(a \o b, dest, out)
         /\ \A out : Hits(a, dest) = {} /\ Decides(b, dest, out) => Decides(a \o b, dest, out)
         /\ Hits(a, dest) = {} /\ Hits(b, dest) = {} => Hits(a \o b, dest) = {}
<1> DEFINE n == Len(a)
           both == a \o b
<1>1. /\ n \in Nat /\ DOMAIN a = 1 .. n
      /\ Len(b) \in Nat /\ DOMAIN b = 1 .. Len(b)
      /\ both \in Seq(R) /\ DOMAIN both = 1 .. n + Len(b)
  OBVIOUS
<1>2. /\ \A i \in 1 .. n : both[i] = a[i]
      /\ \A i \in 1 .. Len(b) : both[n + i] = b[i]
  OBVIOUS
<1> HIDE DEF n, both
<1>3. \A i \in 1 .. n : i \in Hits(both, dest) <=> i \in Hits(a, dest)
  BY <1>1, <1>2 DEF Hits
<1>4. \A i \in 1 .. Len(b) : n + i \in Hits(both, dest) <=> i \in Hits(b, dest)
  BY <1>1, <1>2 DEF Hits
<1>5. \A i \in Hits(both, dest) : i \in 1 .. n \/ \E k \in 1 .. Len(b) : i = n + k
  <2> SUFFICES ASSUME NEW i \in Hits(both, dest), i \notin 1 .. n PROVE \E k \in 1 .. Len(b) : i = n + k
    OBVIOUS
  <2>1. i \in 1 .. n + Len(b)
    BY <1>1 DEF Hits
  <2>2. i - n \in 1 .. Len(b) /\ i = n + (i - n)
    BY <1>1, <2>1
  <2> QED BY <2>2
<1>6. Hits(a, dest) \in SUBSET (1 .. n) /\ Hits(b, dest) \in SUBSET (1 .. Len(b))
  BY HitsAreIndices DEF n
<1>7. ASSUME NEW out, Decides(a, dest, out) PROVE Decides(both, dest, out)
  <2>1. PICK i \in Hits(a, dest) : a[i].outbound = out /\ \A j \in Hits(a, dest) : i <= j
    BY <1>7 DEF Decides
  <2>2. i \in 1 .. n /\ i \in Hits(both, dest) /\ both[i].outbound = out
    BY <1>2, <1>3, <1>6, <2>1
  <2>3. \A j \in Hits(both, dest) : i <= j
    BY <1>1, <1>3, <1>5, <2>1, <2>2
  <2> QED BY <2>2, <2>3 DEF Decides
<1>8. ASSUME NEW out, Hits(a, dest) = {}, Decides(b, dest, out) PROVE Decides(both, dest, out)
  <2>1. PICK i \in Hits(b, dest) : b[i].outbound = out /\ \A j \in Hits(b, dest) : i <= j
    BY <1>8 DEF Decides
  <2>2. i \in 1 .. Len(b) /\ n + i \in Hits(both, dest) /\ both[n + i].outbound = out
    BY <1>2, <1>4, <1>6, <2>1
  <2>3. \A j \in Hits(both, dest) : n + i <= j
    BY <1>1, <1>3, <1>4, <1>5, <1>8, <2>1, <2>2
  <2> QED BY <2>2, <2>3 DEF Decides
<1>9. ASSUME Hits(a, dest) = {}, Hits(b, dest) = {} PROVE Hits(both, dest) = {}
  BY <1>3, <1>4, <1>5, <1>9
<1> QED BY <1>1, <1>7, <1>8, <1>9 DEF both

\* A rule made of some entries decides for what one of them matches.
LEMMA RuleForDecides ==
  ASSUME NEW entries \in SUBSET Entries, NEW outbound \in Tags, NEW dest
  PROVE  /\ RuleFor(entries, outbound) \in Seq(Rules)
         /\ (\E e \in entries : SingMatches(e, dest)) => Decides(RuleFor(entries, outbound), dest, outbound)
         /\ ~(\E e \in entries : SingMatches(e, dest)) => Hits(RuleFor(entries, outbound), dest) = {}
<1> DEFINE rule == [match |-> entries, outbound |-> outbound]
           rules == RuleFor(entries, outbound)
<1>1. CASE entries = {}
  <2>1. rules = <<>>
    BY <1>1 DEF RuleFor
  <2> HIDE DEF rules
  <2>2. rules \in Seq(Rules) /\ Hits(rules, dest) = {}
    BY <2>1 DEF Hits
  <2> QED BY <1>1, <2>2 DEF rules
<1>2. CASE entries # {}
  <2>1. rule \in Rules /\ rule.match = entries /\ rule.outbound = outbound
    BY DEF Rules
  <2>2. rules = <<rule>>
    BY <1>2 DEF RuleFor
  <2> HIDE DEF rule, rules
  <2>3. rules \in Seq(Rules) /\ DOMAIN rules = {1} /\ rules[1] = rule
    BY <2>1, <2>2
  <2>4. \A i : i \in Hits(rules, dest) <=> i = 1 /\ \E e \in entries : SingMatches(e, dest)
    BY <2>1, <2>3 DEF Hits
  <2>5. (\E e \in entries : SingMatches(e, dest)) => Decides(rules, dest, outbound)
    BY <2>1, <2>3, <2>4 DEF Decides
  <2>6. ~(\E e \in entries : SingMatches(e, dest)) => Hits(rules, dest) = {}
    BY <2>4
  <2> QED BY <2>3, <2>5, <2>6 DEF rules
<1> QED BY <1>1, <1>2

\* The rules of a route decide for what the route speaks of.
LEMMA RouteDecides ==
  ASSUME NEW route \in PanelRoutes, NEW dest
  PROVE  /\ RulesOf(route) \in Seq(Rules)
         /\ SpeaksOf(route, dest) => Decides(RulesOf(route), dest, OutboundOf(route))
         /\ ~SpeaksOf(route, dest) => Hits(RulesOf(route), dest) = {}
<1> DEFINE names == {e \in route.match : e.kind = "domain" /\ ~Blank(e)}
           networks == {e \in route.match : e.kind # "domain"}
           out == OutboundOf(route)
           a == RuleFor(names, out)
           b == RuleFor(networks, out)
<1>1. names \in SUBSET Entries /\ networks \in SUBSET Entries
  BY DEF PanelRoutes
<1>2. out \in Tags
  <2>1. route.value \in STRING
    BY DEF PanelRoutes
  <2>2. out \in {"direct", "block", "", route.value}
    BY Zenon DEF OutboundOf
  <2> HIDE DEF out
  <2> QED BY <2>1, <2>2 DEF Tags
<1>3. RulesOf(route) = a \o b
  BY DEF RulesOf
<1>4. SpeaksOf(route, dest) <=>
        (\E e \in names : SingMatches(e, dest)) \/ (\E e \in networks : SingMatches(e, dest))
  BY DEF SpeaksOf, Blank
<1> HIDE DEF names, networks, out
<1>5. /\ a \in Seq(Rules)
      /\ (\E e \in names : SingMatches(e, dest)) => Decides(a, dest, out)
      /\ ~(\E e \in names : SingMatches(e, dest)) => Hits(a, dest) = {}
  BY <1>1, <1>2, RuleForDecides
<1>6. /\ b \in Seq(Rules)
      /\ (\E e \in networks : SingMatches(e, dest)) => Decides(b, dest, out)
      /\ ~(\E e \in networks : SingMatches(e, dest)) => Hits(b, dest) = {}
  BY <1>1, <1>2, RuleForDecides
<1> HIDE DEF a, b
<1>7. a \o b \in Seq(Rules)
  BY <1>5, <1>6, FirstListDecides
<1>8. SpeaksOf(route, dest) => Decides(a \o b, dest, out)
  BY <1>4, <1>5, <1>6, FirstListDecides
<1>9. ~SpeaksOf(route, dest) => Hits(a \o b, dest) = {}
  BY <1>4, <1>5, <1>6, FirstListDecides
<1> QED BY <1>3, <1>7, <1>8, <1>9 DEF out

\* FlattenSeq puts one sequence after the other.
LEMMA Flattened ==
  ASSUME NEW R, NEW seqs \in Seq(Seq(R)), seqs # <<>>
  PROVE  \E f : /\ f[1] = seqs[1]
                /\ \A i \in 2 .. Len(seqs) : f[i] = f[i - 1] \o seqs[i]
                /\ f[Len(seqs)] = FlattenSeq(seqs)
<1> DEFINE n == Len(seqs)
           Step(f, i) == IF i = 1 THEN seqs[i] ELSE f[i - 1] \o seqs[i]
           UpTo(k, f) == \A i \in 1 .. k : f[i] = Step(f, i)
           Reached == {k \in Nat : \E f : UpTo(k, f)}
<1>1. n \in Nat /\ n > 0
  OBVIOUS
<1>2. 0 \in Reached
  OBVIOUS
<1>3. ASSUME NEW k \in 0 .. n - 1, k \in Reached PROVE k + 1 \in Reached
  <2>1. PICK f : UpTo(k, f)
    BY <1>3
  <2> DEFINE g == [i \in 1 .. k + 1 |-> IF i = k + 1 THEN Step(f, i) ELSE f[i]]
  <2>2. ASSUME NEW i \in 1 .. k + 1 PROVE g[i] = Step(g, i)
    <3>1. i # 1 => i - 1 \in 1 .. k
      OBVIOUS
    <3>2. i # 1 => g[i - 1] = f[i - 1]
      BY <3>1
    <3>3. Step(g, i) = Step(f, i)
      BY <3>2
    <3>4. CASE i = k + 1
      BY <3>3, <3>4
    <3>5. CASE i # k + 1
      <4>1. i \in 1 .. k
        BY <3>5
      <4> QED BY <2>1, <3>3, <3>5, <4>1
    <3> QED BY <3>4, <3>5
  <2> HIDE DEF g
  <2>3. UpTo(k + 1, g)
    BY <2>2
  <2>4. k + 1 \in Nat
    OBVIOUS
  <2> HIDE DEF UpTo
  <2> QED BY <2>3, <2>4
<1>4. n \in Reached
  <2> HIDE DEF n, Reached
  <2> QED BY <1>1, <1>2, <1>3, CountUp
<1>5. PICK h : UpTo(n, h)
  BY <1>4
<1> DEFINE f0 == [i \in 1 .. n |-> h[i]]
<1>6. f0 = [i \in 1 .. n |-> Step(f0, i)]
  <2>1. ASSUME NEW i \in 1 .. n PROVE f0[i] = Step(f0, i)
    <3>1. i # 1 => f0[i - 1] = h[i - 1]
      BY <1>1
    <3> QED BY <1>5, <3>1
  <2> HIDE DEF Step
  <2> QED BY <2>1
<1> DEFINE flatten == CHOOSE f : f = [i \in 1 .. n |-> Step(f, i)]
<1>7. flatten = [i \in 1 .. n |-> Step(flatten, i)]
  <2> HIDE DEF Step, f0, n
  <2> QED BY <1>6, Zenon
<1>8. FlattenSeq(seqs) = flatten[n]
  <2>1. Len(seqs) # 0
    BY <1>1
  <2> QED BY <2>1, Zenon DEF FlattenSeq
<1> HIDE DEF flatten
<1>9. \A i \in 1 .. n : flatten[i] = Step(flatten, i)
  <2> HIDE DEF Step
  <2> QED BY <1>7
<1>10. flatten[1] = seqs[1]
  BY <1>1, <1>9
<1>11. \A i \in 2 .. n : flatten[i] = flatten[i - 1] \o seqs[i]
  <2> SUFFICES ASSUME NEW i \in 2 .. n PROVE flatten[i] = flatten[i - 1] \o seqs[i]
    OBVIOUS
  <2>1. i \in 1 .. n /\ i # 1
    BY <1>1
  <2> QED BY <1>9, <2>1
<1> QED BY <1>8, <1>10, <1>11

\* After any number of routes the first that speaks of the destination decides.
LEMMA RoutesDecide ==
  ASSUME NEW routes \in Seq(PanelRoutes), NEW dest
  PROVE  LET rules == FlattenSeq([i \in DOMAIN routes |-> RulesOf(routes[i])])
         IN  /\ rules \in Seq(Rules)
             /\ (\A i \in DOMAIN routes : ~SpeaksOf(routes[i], dest)) => Hits(rules, dest) = {}
             /\ \A i \in DOMAIN routes :
                  SpeaksOf(routes[i], dest) /\ (\A j \in DOMAIN routes : j < i => ~SpeaksOf(routes[j], dest))
                    => Decides(rules, dest, OutboundOf(routes[i]))
<1> DEFINE n == Len(routes)
           parts == [i \in DOMAIN routes |-> RulesOf(routes[i])]
           Speaks(i) == SpeaksOf(routes[i], dest)
           Meant(k, rules) ==
             /\ rules \in Seq(Rules)
             /\ (\A i \in 1 .. k : ~Speaks(i)) => Hits(rules, dest) = {}
             /\ \A i \in 1 .. k : Speaks(i) /\ (\A j \in 1 .. i - 1 : ~Speaks(j))
                                    => Decides(rules, dest, OutboundOf(routes[i]))
<1>1. n \in Nat /\ DOMAIN routes = 1 .. n
  OBVIOUS
<1>2. ASSUME NEW i \in 1 .. n
      PROVE  /\ parts[i] \in Seq(Rules)
             /\ Speaks(i) => Decides(parts[i], dest, OutboundOf(routes[i]))
             /\ ~Speaks(i) => Hits(parts[i], dest) = {}
  <2>1. parts[i] = RulesOf(routes[i]) /\ routes[i] \in PanelRoutes
    BY <1>1
  <2> QED BY <2>1, RouteDecides
<1>3. parts \in Seq(Seq(Rules)) /\ Len(parts) = n
  BY <1>1, <1>2
<1>4. SUFFICES Meant(n, FlattenSeq(parts))
  BY <1>1
<1>5. CASE n = 0
  <2>1. FlattenSeq(parts) = parts /\ parts = <<>>
    BY <1>3, <1>5 DEF FlattenSeq
  <2>2. <<>> \in Seq(Rules) /\ Hits(<<>>, dest) = {}
    BY DEF Hits
  <2> HIDE DEF parts
  <2> QED BY <1>5, <2>1, <2>2
<1>6. CASE n > 0
  <2> HIDE DEF n, parts
  <2>1. PICK f : /\ f[1] = parts[1]
                 /\ \A i \in 2 .. n : f[i] = f[i - 1] \o parts[i]
                 /\ f[n] = FlattenSeq(parts)
    <3>1. parts # <<>>
      BY <1>3, <1>6
    <3> QED BY <1>3, <3>1, Flattened
  <2> DEFINE Reached == {k \in Nat : Meant(k + 1, f[k + 1])}
  <2> HIDE DEF Speaks
  <2>2. 0 \in Reached
    <3>1. 1 \in 1 .. n
      BY <1>1, <1>6
    <3>2. /\ f[1] \in Seq(Rules)
          /\ Speaks(1) => Decides(f[1], dest, OutboundOf(routes[1]))
          /\ ~Speaks(1) => Hits(f[1], dest) = {}
      BY <1>2, <2>1, <3>1
    <3>3. \A i \in 1 .. 1 : i = 1
      OBVIOUS
    <3>4. 1 \in 1 .. 1 /\ 0 + 1 = 1
      OBVIOUS
    <3>5. Meant(1, f[1])
      BY <3>2, <3>3, <3>4
    <3>6. Meant(0 + 1, f[0 + 1])
      BY <3>4, <3>5
    <3> HIDE DEF Meant
    <3> QED BY <3>6
  <2>3. ASSUME NEW k \in 0 .. (n - 1) - 1, k \in Reached PROVE k + 1 \in Reached
    <3> DEFINE m == k + 1
               a == f[m]
               b == parts[m + 1]
    <3>1. m \in Nat /\ m + 1 \in 1 .. n /\ m + 1 \in 2 .. n /\ m >= 1
      BY <1>1
    <3>2. f[m + 1] = a \o b
      <4>1. (m + 1) - 1 = m
        BY <3>1
      <4> HIDE DEF m
      <4> QED BY <2>1, <3>1, <4>1
    <3>3. Meant(m, a)
      BY <2>3
    <3>4. /\ b \in Seq(Rules)
          /\ Speaks(m + 1) => Decides(b, dest, OutboundOf(routes[m + 1]))
          /\ ~Speaks(m + 1) => Hits(b, dest) = {}
      BY <1>2, <3>1
    <3> HIDE DEF a, b, m
    <3>5. /\ a \o b \in Seq(Rules)
          /\ \A out : Decides(a, dest, out) => Decides(a \o b, dest, out)
          /\ \A out : Hits(a, dest) = {} /\ Decides(b, dest, out) => Decides(a \o b, dest, out)
          /\ Hits(a, dest) = {} /\ Hits(b, dest) = {} => Hits(a \o b, dest) = {}
      BY <3>3, <3>4, FirstListDecides
    <3>6. ASSUME \A i \in 1 .. m + 1 : ~Speaks(i) PROVE Hits(a \o b, dest) = {}
      BY <3>1, <3>3, <3>4, <3>5, <3>6
    <3>7. ASSUME NEW i \in 1 .. m + 1, Speaks(i), \A j \in 1 .. i - 1 : ~Speaks(j)
          PROVE  Decides(a \o b, dest, OutboundOf(routes[i]))
      <4>1. CASE i \in 1 .. m
        BY <3>3, <3>5, <3>7, <4>1
      <4>2. CASE i = m + 1
        <5>1. \A j \in 1 .. m : ~Speaks(j)
          BY <3>1, <3>7, <4>2
        <5>2. Hits(a, dest) = {}
          BY <3>3, <5>1
        <5> QED BY <3>4, <3>5, <3>7, <4>2, <5>2
      <4> QED BY <3>1, <4>1, <4>2
    <3>8. Meant(m + 1, a \o b)
      BY <3>5, <3>6, <3>7
    <3> HIDE DEF Meant
    <3> QED BY <3>1, <3>2, <3>8 DEF m
  <2>4. n - 1 \in Reached
    <3>1. n - 1 \in Nat
      BY <1>1, <1>6
    <3> HIDE DEF Reached
    <3> QED BY <2>2, <2>3, <3>1, CountUp
  <2>5. Meant((n - 1) + 1, f[(n - 1) + 1]) /\ (n - 1) + 1 = n
    BY <1>1, <2>4
  <2> HIDE DEF Meant
  <2> QED BY <2>1, <2>5
<1> QED BY <1>1, <1>5, <1>6

LEMMA SeqGrows ==
  ASSUME NEW S, NEW T, S \subseteq T, NEW s \in Seq(S)
  PROVE  s \in Seq(T)
<1>1. Len(s) \in Nat /\ DOMAIN s = 1 .. Len(s) /\ s = [i \in 1 .. Len(s) |-> s[i]]
  OBVIOUS
<1>2. \A i \in 1 .. Len(s) : s[i] \in T
  OBVIOUS
<1> QED BY <1>1, <1>2

\* The rules that build makes of the panel's routes, after its own rules, mean
\* what the routes say: the first that speaks of a destination decides, in
\* spite of the split into domains and networks and of entries that are blank.
LEMMA FirstDecides ==
  ASSUME NEW custom \in Seq(Rules), NEW routes \in Seq(PanelRoutes), NEW dest
  PROVE  FirstRouteDecides(custom, routes, dest)
<1> DEFINE section == RouteSection(custom, routes)
           rules == FlattenSeq([i \in DOMAIN routes |-> RulesOf(routes[i])])
           speaking == {i \in DOMAIN routes : SpeaksOf(routes[i], dest)}
           Means == Chosen(custom \o rules, dest) =
                      (CASE Hits(custom, dest) # {} -> Chosen(custom, dest)
                         [] Hits(custom, dest) = {} /\ speaking # {} -> OutboundOf(routes[Min(speaking)])
                         [] OTHER -> "direct")
<1>1. /\ rules \in Seq(Rules)
      /\ (\A i \in DOMAIN routes : ~SpeaksOf(routes[i], dest)) => Hits(rules, dest) = {}
      /\ \A i \in DOMAIN routes :
           SpeaksOf(routes[i], dest) /\ (\A j \in DOMAIN routes : j < i => ~SpeaksOf(routes[j], dest))
             => Decides(rules, dest, OutboundOf(routes[i]))
  BY RoutesDecide
<1>2. section.ok => section.rules = custom \o rules
  <2> HIDE DEF rules
  <2>1. compilePanelRoutes(routes).ok => compilePanelRoutes(routes).rules = rules
    BY DEF compilePanelRoutes, Refused, rules
  <2> QED BY <2>1 DEF RouteSection, Refused
<1>3. SUFFICES Means
  <2> HIDE DEF rules
  <2> QED BY <1>2, Zenon DEF FirstRouteDecides
<1> HIDE DEF rules
<1>4. /\ custom \o rules \in Seq(Rules)
      /\ \A out : Decides(custom, dest, out) => Decides(custom \o rules, dest, out)
      /\ \A out : Hits(custom, dest) = {} /\ Decides(rules, dest, out) => Decides(custom \o rules, dest, out)
      /\ Hits(custom, dest) = {} /\ Hits(rules, dest) = {} => Hits(custom \o rules, dest) = {}
  BY <1>1, FirstListDecides
<1>5. CASE Hits(custom, dest) # {}
  <2>1. Decides(custom, dest, Chosen(custom, dest))
    BY <1>5, ChosenDecides
  <2>2. Chosen(custom \o rules, dest) = Chosen(custom, dest)
    BY <1>4, <2>1, ChosenDecides
  <2> QED BY <1>5, <2>2, Zenon
<1>6. CASE Hits(custom, dest) = {} /\ speaking # {}
  <2>1. Len(routes) \in Nat /\ DOMAIN routes = 1 .. Len(routes)
    OBVIOUS
  <2>2. Min(speaking) \in speaking /\ \A j \in speaking : Min(speaking) <= j
    BY <1>6, <2>1, MinIsLeast
  <2> DEFINE i == Min(speaking)
  <2>3. i \in DOMAIN routes /\ SpeaksOf(routes[i], dest)
    BY <2>2
  <2>4. \A j \in DOMAIN routes : j < i => ~SpeaksOf(routes[j], dest)
    <3>1. \A j \in DOMAIN routes : SpeaksOf(routes[j], dest) => i <= j
      BY <2>2
    <3> HIDE DEF i
    <3> QED BY <2>1, <2>3, <3>1
  <2> HIDE DEF i
  <2>5. Decides(rules, dest, OutboundOf(routes[i]))
    BY <1>1, <2>3, <2>4
  <2>6. Chosen(custom \o rules, dest) = OutboundOf(routes[i])
    BY <1>4, <1>6, <2>5, ChosenDecides
  <2> HIDE DEF speaking
  <2> QED BY <1>6, <2>6, Zenon DEF i
<1>7. CASE Hits(custom, dest) = {} /\ speaking = {}
  <2>1. Hits(rules, dest) = {}
    BY <1>1, <1>7
  <2>2. Hits(custom \o rules, dest) = {}
    BY <1>4, <1>7, <2>1
  <2>3. Chosen(custom \o rules, dest) = "direct"
    BY <2>2 DEF Chosen
  <2> HIDE DEF speaking
  <2> QED BY <1>7, <2>3, Zenon
<1> QED BY <1>5, <1>6, <1>7

\* For every list of routes, custom rules and destination, in every reachable
\* state: the outbound that sing-box chooses is the one the routes ask for.
THEOREM RoutesMeanWhatTheySay == Spec => []RoutesKeepMeaning
<1>1. InputOK => RoutesKeepMeaning
  <2> SUFFICES ASSUME InputOK, input.topic = "routes", NEW dest \in Destinations
               PROVE  FirstRouteDecides(input.custom, input.routes, dest)
    BY DEF RoutesKeepMeaning
  <2>1. /\ input.routes \in Seq(PanelRoutes)
        /\ input.custom \in Seq([match : SUBSET Entries, outbound : STRING])
    BY RoutesAssumption DEF RoutesAssumption, InputOK, PanelRoutes
  <2>2. [match : SUBSET Entries, outbound : STRING] \subseteq Rules
    BY DEF Rules, Tags
  <2>3. input.custom \in Seq(Rules)
    BY <2>1, <2>2, SeqGrows
  <2> QED BY <2>1, <2>3, FirstDecides
<1> QED BY <1>1, InputsPicked, PTL

\* What the first route that speaks of the destination does is what sing-box
\* does; without such a route the connection is direct.
LEMMA SingChooses ==
  ASSUME NEW routes \in Seq(PanelRoutes), NEW dest, RouteSection(<<>>, routes).ok
  PROVE  LET chosen == Chosen(RouteSection(<<>>, routes).rules, dest)
             speaking == {i \in DOMAIN routes : SpeaksOf(routes[i], dest)}
         IN  \/ speaking = {} /\ chosen = "direct"
             \/ \E i \in speaking : chosen = OutboundOf(routes[i])
<1> DEFINE chosen == Chosen(RouteSection(<<>>, routes).rules, dest)
           speaking == {i \in DOMAIN routes : SpeaksOf(routes[i], dest)}
<1>1. <<>> \in Seq(Rules) /\ Hits(<<>>, dest) = {}
  BY DEF Hits
<1>2. FirstRouteDecides(<<>>, routes, dest)
  BY <1>1, FirstDecides
<1>3. chosen = (CASE Hits(<<>>, dest) # {} -> Chosen(<<>>, dest)
                  [] Hits(<<>>, dest) = {} /\ speaking # {} -> OutboundOf(routes[Min(speaking)])
                  [] OTHER -> "direct")
  BY <1>2, Zenon DEF FirstRouteDecides
<1>4. CASE speaking = {}
  <2>1. chosen = "direct"
    <3> HIDE DEF chosen, speaking
    <3> QED BY <1>1, <1>3, <1>4, Zenon
  <2> QED BY <1>4, <2>1
<1>5. CASE speaking # {}
  <2>1. Len(routes) \in Nat /\ speaking \in SUBSET (1 .. Len(routes))
    OBVIOUS
  <2>2. Min(speaking) \in speaking
    BY <1>5, <2>1, MinIsLeast
  <2>3. chosen = OutboundOf(routes[Min(speaking)])
    <3> HIDE DEF chosen, speaking
    <3> QED BY <1>1, <1>3, <1>5, Zenon
  <2> QED BY <2>2, <2>3
<1> QED BY <1>4, <1>5

\* What mieru accepts has no action but the three it knows, and it blocks every
\* entry, which is not blank, of the routes that block.
LEMMA MieruBlocks ==
  ASSUME NEW routes, compileRoutes(routes).ok
  PROVE  /\ \A i \in DOMAIN routes : LowerAction(routes[i].action) \in {"direct", "block", "reject"}
         /\ \A e : e \in compileRoutes(routes).blocks <=>
                     ~Blank(e) /\ \E i \in Blocking(routes) : e \in routes[i].match
<1> DEFINE entries == UNION {routes[i].match : i \in Blocking(routes)}
           blocks == {e \in entries : ~Blank(e)}
<1>1. compileRoutes(routes) # Refused
  BY DEF Refused
<1>2. \A i \in DOMAIN routes : LowerAction(routes[i].action) \in {"direct", "block", "reject"}
  BY <1>1, Zenon DEF compileRoutes
<1>3. compileRoutes(routes) = [ok |-> TRUE, blocks |-> blocks]
  BY <1>1, Zenon DEF compileRoutes
<1>4. compileRoutes(routes).blocks = blocks
  <2> HIDE DEF blocks
  <2> QED BY <1>3
<1>5. \A e : e \in blocks <=> ~Blank(e) /\ \E i \in Blocking(routes) : e \in routes[i].match
  BY Zenon
<1> QED BY <1>2, <1>4, <1>5, Zenon

\* Of every list of routes that both runtimes accept, mieru blocks what sing-box
\* blocks, less only because of leading dots, and more only because of exceptions
\* and of capitals.
THEOREM RuntimesBlockTheSame == Spec => []RuntimesBlockAlike
<1>1. InputOK => RuntimesBlockAlike
  <2> SUFFICES ASSUME InputOK, input.topic = "routes", NEW dest \in Destinations
               PROVE  RuntimesAgree(input.routes, dest)
    BY DEF RuntimesBlockAlike
  <2> DEFINE routes == input.routes
             sing == RouteSection(<<>>, routes)
             mieru == compileRoutes(routes)
             chosen == Chosen(sing.rules, dest)
             blocking == blocked(mieru.blocks, dest)
             exception == \E i \in DOMAIN routes : LowerAction(routes[i].action) = "direct" /\ SpeaksOf(routes[i], dest)
             capitals == \E i \in DOMAIN routes : \E e \in routes[i].match : e.upper
             dotted == \E i \in Blocking(routes) : \E e \in routes[i].match : e.dot /\ SingMatches(e, dest)
             speaking == {i \in DOMAIN routes : SpeaksOf(routes[i], dest)}
  <2>1. routes \in Seq(PanelRoutes)
    BY RoutesAssumption DEF RoutesAssumption, InputOK, PanelRoutes
  <2>2. SUFFICES ASSUME sing.ok, mieru.ok
                 PROVE  /\ chosen = "block" => blocking \/ dotted
                        /\ (blocking /\ ~exception /\ ~capitals) => chosen = "block"
    BY Zenon DEF RuntimesAgree
  <2> HIDE DEF routes
  <2>3. \/ speaking = {} /\ chosen = "direct"
        \/ \E i \in speaking : chosen = OutboundOf(routes[i])
    BY <2>1, <2>2, SingChooses, Zenon
  <2>4. /\ \A i \in DOMAIN routes : LowerAction(routes[i].action) \in {"direct", "block", "reject"}
        /\ \A e : e \in mieru.blocks <=> ~Blank(e) /\ \E i \in Blocking(routes) : e \in routes[i].match
    BY <2>2, MieruBlocks, Zenon
  <2>5. \A i \in DOMAIN routes :
          /\ i \in Blocking(routes) => OutboundOf(routes[i]) = "block"
          /\ i \notin Blocking(routes) =>
               OutboundOf(routes[i]) = "direct" /\ LowerAction(routes[i].action) = "direct"
    BY <2>4 DEF Blocking, OutboundOf
  <2> HIDE DEF mieru, chosen
  <2>6. ASSUME chosen = "block", ~dotted PROVE blocking
    <3>1. PICK i \in speaking : OutboundOf(routes[i]) = "block"
      BY <2>3, <2>6
    <3>2. i \in Blocking(routes)
      BY <2>5, <3>1
    <3>3. PICK e \in routes[i].match : ~Blank(e) /\ SingMatches(e, dest)
      BY <3>1 DEF SpeaksOf
    <3>4. e \in mieru.blocks /\ MieruMatches(e, dest)
      BY <2>4, <2>6, <3>2, <3>3 DEF SingMatches, MieruMatches
    <3> QED BY <3>4 DEF blocked
  <2>7. ASSUME blocking, ~exception, ~capitals PROVE chosen = "block"
    <3>1. PICK e \in mieru.blocks : MieruMatches(e, dest)
      BY <2>7 DEF blocked
    <3>2. PICK i \in Blocking(routes) : ~Blank(e) /\ e \in routes[i].match
      BY <2>4, <3>1
    <3>3. i \in DOMAIN routes
      BY DEF Blocking
    <3>4. SpeaksOf(routes[i], dest)
      BY <2>7, <3>1, <3>2, <3>3 DEF SpeaksOf, SingMatches, MieruMatches
    <3>5. PICK k \in speaking : chosen = OutboundOf(routes[k])
      BY <2>3, <3>3, <3>4
    <3>6. k \in Blocking(routes)
      BY <2>5, <2>7, <3>5
    <3> QED BY <2>5, <3>5, <3>6
  <2> QED BY <2>6, <2>7
<1> QED BY <1>1, InputsPicked, PTL

-----------------------------------------------------------------------------
(* Speeds.                                                                 *)

\* Max of a set of numbers up to n is its greatest element.
LEMMA MaxIsGreatest ==
  ASSUME NEW n \in Nat, NEW S \in SUBSET (1 .. n), S # {}
  PROVE  Max(S) \in S /\ \A y \in S : y <= Max(S)
<1> DEFINE HasGreatest(T) == \E x \in T : \A y \in T : x >= y
           Reached == {k \in Nat : \A T \in SUBSET (0 .. k) : T # {} => HasGreatest(T)}
<1>1. 0 \in Reached
  <2> SUFFICES ASSUME NEW T \in SUBSET (0 .. 0), T # {} PROVE HasGreatest(T)
    OBVIOUS
  <2>1. \A x, y \in T : x >= y
    OBVIOUS
  <2> QED BY <2>1
<1>2. ASSUME NEW k \in 0 .. n - 1, k \in Reached PROVE k + 1 \in Reached
  <2> SUFFICES ASSUME NEW T \in SUBSET (0 .. k + 1), T # {} PROVE HasGreatest(T)
    OBVIOUS
  <2>1. CASE k + 1 \in T
    <3>1. \A y \in T : k + 1 >= y
      OBVIOUS
    <3> QED BY <2>1, <3>1
  <2>2. CASE k + 1 \notin T
    <3>1. \A y \in T : y \in 0 .. k
      BY <2>2
    <3> QED BY <1>2, <3>1
  <2> QED BY <2>1, <2>2
<1>3. n \in Reached
  <2> HIDE DEF Reached
  <2> QED BY <1>1, <1>2, CountUp
<1>4. S \in SUBSET (0 .. n)
  <2>1. \A x \in S : x \in 0 .. n
    OBVIOUS
  <2> QED BY <2>1
<1>5. HasGreatest(S)
  BY <1>3, <1>4
<1>6. Max(S) \in S /\ \A y \in S : Max(S) >= y
  BY <1>5 DEF Max
<1> QED BY <1>6

Readings == [ok : BOOLEAN, bytes : 0 .. CounterRange - 1, at : Int]
Speeds == [bytes : Nat, time : Nat \ {0}]
Shots == [ready : BOOLEAN, last : 0 .. CounterRange - 1, at : Int, speed : Speeds]

LEMMA ShotStep ==
  ASSUME NEW s \in Shots, NEW r \in Readings
  PROVE  /\ Collect(s, r) \in Shots
         /\ ~r.ok => /\ Collect(s, r).ready = s.ready /\ Collect(s, r).last = s.last
                     /\ Collect(s, r).at = s.at /\ Collect(s, r).speed = NoSpeed
         /\ r.ok => /\ Collect(s, r).ready /\ Collect(s, r).last = r.bytes
                    /\ Collect(s, r).at = r.at /\ Collect(s, r).speed = SpeedOf(s, r)
         /\ ~s.ready => SpeedOf(s, r) = NoSpeed
         /\ s.ready /\ s.at < r.at =>
              SpeedOf(s, r) = IF r.bytes >= s.last THEN [bytes |-> r.bytes - s.last, time |-> r.at - s.at] ELSE NoSpeed
<1>1. CounterRange \in Nat \ {0}
  BY CounterAssumption DEF CounterAssumption
<1>2. /\ s.ready \in BOOLEAN /\ s.last \in 0 .. CounterRange - 1 /\ s.at \in Int
      /\ r.ok \in BOOLEAN /\ r.bytes \in 0 .. CounterRange - 1 /\ r.at \in Int
  BY DEF Shots, Readings
<1>3. r.bytes >= s.last => (r.bytes - s.last) % CounterRange = r.bytes - s.last
  BY <1>1, <1>2
<1>4. SpeedOf(s, r) \in Speeds /\ NoSpeed \in Speeds
  BY <1>2, <1>3 DEF SpeedOf, NoSpeed, Speeds
<1>5. Collect(s, r) \in Shots
  <2>1. s.speed \in Speeds
    BY DEF Shots
  <2> QED BY <1>1, <1>2, <1>4, <2>1 DEF Collect, update, Shots
<1>6. ~r.ok => /\ Collect(s, r).ready = s.ready /\ Collect(s, r).last = s.last
               /\ Collect(s, r).at = s.at /\ Collect(s, r).speed = NoSpeed
  BY DEF Collect
<1>7. r.ok => /\ Collect(s, r).ready /\ Collect(s, r).last = r.bytes
              /\ Collect(s, r).at = r.at /\ Collect(s, r).speed = SpeedOf(s, r)
  BY DEF Collect, update
<1>8. ~s.ready => SpeedOf(s, r) = NoSpeed
  BY DEF SpeedOf
<1>9. s.ready /\ s.at < r.at =>
        SpeedOf(s, r) = IF r.bytes >= s.last THEN [bytes |-> r.bytes - s.last, time |-> r.at - s.at] ELSE NoSpeed
  BY <1>2, <1>3 DEF SpeedOf
<1> QED BY <1>5, <1>6, <1>7, <1>8, <1>9

\* A speed over the time it was measured in is the bytes it was made of.
LEMMA SpeedTimesTime ==
  ASSUME NEW d \in Int, NEW g \in Nat \ {0}
  PROVE  (d * g) \div g = d
<1> DEFINE a == d * g
           p == a \div g
           t == a % g
<1>1. a \in Int /\ a = g * d + 0
  OBVIOUS
<1>2. p \in Int /\ t \in 0 .. g - 1 /\ a = g * p + t
  <2> HIDE DEF a
  <2> QED BY <1>1
<1>3. t = 0
  <2> HIDE DEF a
  <2> QED BY <1>1, OnlyRemainder
<1> HIDE DEF p, t
<1>4. g * (p - d) = 0
  BY <1>1, <1>2, <1>3
<1>5. p - d >= 1 => g * (p - d) >= g
  BY <1>2
<1>6. p - d <= -1 => g * (p - d) <= -g
  BY <1>2
<1>7. p = d
  BY <1>2, <1>4, <1>5, <1>6
<1> QED BY <1>7 DEF p

\* The snapshot after each report comes from the one before.
LEMMA SnapshotsFollow ==
  ASSUME NEW readings \in Seq(Readings)
  PROVE  LET after == Snapshots(readings)
         IN  /\ after[0] = Snapshot0
             /\ \A i \in 1 .. Len(readings) : after[i] = Collect(after[i - 1], readings[i])
<1> DEFINE n == Len(readings)
           Step(f, i) == IF i = 0 THEN Snapshot0 ELSE Collect(f[i - 1], readings[i])
           UpTo(k, f) == \A i \in 0 .. k : f[i] = Step(f, i)
           Reached == {k \in Nat : \E f : UpTo(k, f)}
<1>1. n \in Nat
  OBVIOUS
<1>2. 0 \in Reached
  <2> DEFINE f == [i \in 0 .. 0 |-> Snapshot0]
  <2>1. UpTo(0, f)
    OBVIOUS
  <2> HIDE DEF UpTo, f
  <2> QED BY <2>1
<1>3. ASSUME NEW k \in 0 .. n - 1, k \in Reached PROVE k + 1 \in Reached
  <2>1. PICK f : UpTo(k, f)
    BY <1>3
  <2> DEFINE g == [i \in 0 .. k + 1 |-> IF i = k + 1 THEN Step(f, i) ELSE f[i]]
  <2>2. ASSUME NEW i \in 0 .. k + 1 PROVE g[i] = Step(g, i)
    <3>1. i # 0 => i - 1 \in 0 .. k
      OBVIOUS
    <3>2. i # 0 => g[i - 1] = f[i - 1]
      BY <3>1
    <3>3. Step(g, i) = Step(f, i)
      BY <3>2
    <3>4. CASE i = k + 1
      BY <3>3, <3>4
    <3>5. CASE i # k + 1
      <4>1. i \in 0 .. k
        BY <3>5
      <4> QED BY <2>1, <3>3, <3>5, <4>1
    <3> QED BY <3>4, <3>5
  <2> HIDE DEF g
  <2>3. UpTo(k + 1, g)
    BY <2>2
  <2>4. k + 1 \in Nat
    OBVIOUS
  <2> HIDE DEF UpTo
  <2> QED BY <2>3, <2>4
<1>4. n \in Reached
  <2> HIDE DEF n, Reached
  <2> QED BY <1>1, <1>2, <1>3, CountUp
<1>5. PICK h : UpTo(n, h)
  BY <1>4
<1> DEFINE f0 == [i \in 0 .. n |-> h[i]]
<1>6. f0 = [i \in 0 .. n |-> Step(f0, i)]
  <2>1. ASSUME NEW i \in 0 .. n PROVE f0[i] = Step(f0, i)
    <3>1. i # 0 => f0[i - 1] = h[i - 1]
      BY <1>1
    <3> QED BY <1>5, <3>1
  <2> HIDE DEF Step
  <2> QED BY <2>1
<1> DEFINE after == CHOOSE f : f = [i \in 0 .. n |-> Step(f, i)]
<1>7. after = [i \in 0 .. n |-> Step(after, i)]
  <2> HIDE DEF Step, f0, n
  <2> QED BY <1>6, Zenon
<1>8. Snapshots(readings) = after
  BY Zenon DEF Snapshots
<1> HIDE DEF after
<1>9. \A i \in 0 .. n : after[i] = Step(after, i)
  <2> HIDE DEF Step
  <2> QED BY <1>7
<1>10. after[0] = Snapshot0
  BY <1>1, <1>9
<1>11. \A i \in 1 .. n : after[i] = Collect(after[i - 1], readings[i])
  <2> SUFFICES ASSUME NEW i \in 1 .. n PROVE after[i] = Collect(after[i - 1], readings[i])
    OBVIOUS
  <2>1. i \in 0 .. n /\ i # 0
    BY <1>1
  <2> QED BY <1>9, <2>1
<1> QED BY <1>8, <1>10, <1>11

\* Every snapshot is well typed: no speed is ever negative.
LEMMA SnapshotsTyped ==
  ASSUME NEW readings \in Seq(Readings)
  PROVE  \A i \in 0 .. Len(readings) : Snapshots(readings)[i] \in Shots
<1> DEFINE after == Snapshots(readings)
           n == Len(readings)
           Reached == {k \in Nat : \A i \in 0 .. k : after[i] \in Shots}
<1>1. /\ after[0] = Snapshot0
      /\ \A i \in 1 .. n : after[i] = Collect(after[i - 1], readings[i])
  BY SnapshotsFollow
<1>2. n \in Nat /\ \A i \in 1 .. n : readings[i] \in Readings
  OBVIOUS
<1> HIDE DEF after, n
<1>3. Snapshot0 \in Shots
  BY CounterAssumption DEF CounterAssumption, Snapshot0, NoSpeed, Speeds, Shots
<1>4. 0 \in Reached
  BY <1>1, <1>3
<1>5. ASSUME NEW k \in 0 .. n - 1, k \in Reached PROVE k + 1 \in Reached
  <2>1. k + 1 \in 1 .. n /\ (k + 1) - 1 = k /\ k \in 0 .. k
    BY <1>2
  <2>2. after[k + 1] = Collect(after[k], readings[k + 1])
    BY <1>1, <2>1
  <2>3. after[k] \in Shots /\ readings[k + 1] \in Readings
    BY <1>2, <1>5, <2>1
  <2>4. after[k + 1] \in Shots
    BY <2>2, <2>3, ShotStep
  <2> QED BY <1>5, <2>4
<1>6. n \in Reached
  <2> HIDE DEF Reached
  <2> QED BY <1>2, <1>4, <1>5, CountUp
<1> QED BY <1>6 DEF after, n

\* After n reports: the snapshot is that of the last reading, and what has been
\* reported is as SpeedsAddUp says of all of them.
Upto(readings, n) == {i \in Good(readings) : i <= n}

Reported(readings) == [n \in DOMAIN readings |-> StandsFor(readings, n)]
Fallen(readings) == [n \in Later(readings) |-> FellBy(readings, n)]

AddsUp(readings, n) ==
  LET s == Snapshots(readings)[n]
      sum == SumFunctionOnSet(Reported(readings), 1 .. n)
      fallen == SumFunctionOnSet(Fallen(readings), {i \in Later(readings) : i <= n})
  IN  /\ Upto(readings, n) = {} => ~s.ready /\ sum = 0
      /\ \A m \in Upto(readings, n) :
           (\A i \in Upto(readings, n) : i <= m) =>
             /\ s.ready /\ s.last = readings[m].bytes /\ s.at = readings[m].at
             /\ sum = readings[m].bytes - readings[Min(Good(readings))].bytes + fallen

\* The sets and functions the sums are over.
LEMMA SpeedSets ==
  ASSUME NEW readings \in Seq(Readings)
  PROVE  /\ Len(readings) \in Nat /\ DOMAIN readings = 1 .. Len(readings)
         /\ \A i \in 1 .. Len(readings) : readings[i] \in Readings
         /\ Good(readings) \in SUBSET (1 .. Len(readings))
         /\ \A i \in Good(readings) : readings[i].bytes \in Nat
         /\ \A i \in 1 .. Len(readings) : Reported(readings)[i] = StandsFor(readings, i) /\ Reported(readings)[i] \in Int
         /\ Good(readings) # {} =>
              /\ Min(Good(readings)) \in Good(readings) /\ \A i \in Good(readings) : Min(Good(readings)) <= i
              /\ Max(Good(readings)) \in Good(readings) /\ \A i \in Good(readings) : i <= Max(Good(readings))
         /\ \A n \in Later(readings) :
              /\ n \in Good(readings) /\ Before(readings, n) \in Upto(readings, n - 1)
              /\ \A i \in Upto(readings, n - 1) : i <= Before(readings, n)
              /\ Fallen(readings)[n] = FellBy(readings, n) /\ Fallen(readings)[n] \in Nat
<1> DEFINE N == Len(readings)
           good == Good(readings)
<1>1. N \in Nat /\ DOMAIN readings = 1 .. N /\ \A i \in 1 .. N : readings[i] \in Readings
  OBVIOUS
<1>2. good \in SUBSET (1 .. N)
  BY <1>1 DEF Good
<1>3. \A i \in good : readings[i].bytes \in Nat
  <2>1. \A r \in Readings : r.bytes \in Nat
    BY CounterAssumption DEF CounterAssumption, Readings
  <2> QED BY <1>1, <1>2, <2>1
<1> HIDE DEF N, good
<1>5. good # {} => /\ Min(good) \in good /\ \A i \in good : Min(good) <= i
                   /\ Max(good) \in good /\ \A i \in good : i <= Max(good)
  BY <1>1, <1>2, MinIsLeast, MaxIsGreatest
<1>6. ASSUME NEW n \in Later(readings)
      PROVE  /\ n \in good /\ Before(readings, n) \in Upto(readings, n - 1)
             /\ \A i \in Upto(readings, n - 1) : i <= Before(readings, n)
             /\ Fallen(readings)[n] = FellBy(readings, n) /\ Fallen(readings)[n] \in Nat
  <2> DEFINE S == {i \in good : i < n}
  <2>1. n \in good /\ n # Min(good)
    BY DEF Later, good
  <2>2. Min(good) \in S /\ S \in SUBSET (1 .. N)
    <3>1. Min(good) \in good /\ Min(good) <= n
      BY <1>5, <2>1
    <3>2. \A i \in good : i \in Int
      BY <1>1, <1>2
    <3>3. Min(good) < n
      BY <2>1, <3>1, <3>2
    <3> QED BY <1>2, <3>1, <3>3
  <2>3. Max(S) \in S /\ \A i \in S : i <= Max(S)
    <3> HIDE DEF S
    <3> QED BY <1>1, <2>2, MaxIsGreatest
  <2>4. Before(readings, n) = Max(S)
    BY DEF Before, good
  <2>5. S = Upto(readings, n - 1)
    BY <1>1, <1>2, <2>1 DEF Upto, good
  <2>6. Before(readings, n) \in good
    BY <2>3, <2>4
  <2>7. FellBy(readings, n) \in Nat
    BY <1>3, <2>1, <2>6 DEF FellBy
  <2> HIDE DEF S
  <2> QED BY <2>1, <2>3, <2>4, <2>5, <2>7 DEF Fallen
<1>4. ASSUME NEW i \in 1 .. N
      PROVE  Reported(readings)[i] = StandsFor(readings, i) /\ Reported(readings)[i] \in Int
  <2> DEFINE speed == Snapshots(readings)[i].speed
  <2>1. Reported(readings)[i] = StandsFor(readings, i)
    BY <1>1 DEF Reported
  <2>2. speed \in Speeds
    <3>1. i \in 0 .. N
      BY <1>1
    <3>2. Snapshots(readings)[i] \in Shots
      BY <3>1, SnapshotsTyped DEF N
    <3> QED BY <3>2 DEF Shots
  <2>3. speed.bytes \in Nat /\ speed.time \in Nat \ {0}
    BY <2>2 DEF Speeds
  <2>4. CASE i \in Later(readings)
    <3>1. Before(readings, i) \in 1 .. N
      BY <1>2, <1>6, <2>4 DEF Upto, good
    <3>2. readings[i].at \in Int /\ readings[Before(readings, i)].at \in Int
      BY <1>1, <3>1 DEF Readings
    <3> DEFINE a == speed.bytes * Gap(readings, i)
    <3>3. a \in Int
      BY <2>3, <3>2 DEF Gap
    <3>4. StandsFor(readings, i) = a \div speed.time
      BY <2>4 DEF StandsFor
    <3> HIDE DEF a, speed
    <3> QED BY <2>1, <2>3, <3>3, <3>4
  <2>5. CASE i \notin Later(readings)
    BY <2>1, <2>3, <2>5 DEF StandsFor
  <2> QED BY <2>4, <2>5
<1> QED BY <1>1, <1>2, <1>3, <1>4, <1>5, <1>6 DEF N, good

\* What a report without one before it, or without a reading, stands for: nothing;
\* what the others do: the bytes since the reading before, if there are more.
LEMMA StandsForWhat ==
  ASSUME NEW readings \in Seq(Readings), NEW i \in 1 .. Len(readings),
         NEW speed, speed = Snapshots(readings)[i].speed
  PROVE  /\ i \notin Later(readings) /\ speed = NoSpeed => StandsFor(readings, i) = 0
         /\ \A was \in Nat :
              i \in Later(readings) /\ readings[Before(readings, i)].at < readings[i].at
                /\ speed = (IF readings[i].bytes >= was
                              THEN [bytes |-> readings[i].bytes - was, time |-> Gap(readings, i)] ELSE NoSpeed)
              => StandsFor(readings, i) = IF readings[i].bytes >= was THEN readings[i].bytes - was ELSE 0
<1>1. i \notin Later(readings) /\ speed = NoSpeed => StandsFor(readings, i) = 0
  BY DEF StandsFor, NoSpeed
<1>2. ASSUME NEW was \in Nat, i \in Later(readings), readings[Before(readings, i)].at < readings[i].at,
             speed = IF readings[i].bytes >= was
                       THEN [bytes |-> readings[i].bytes - was, time |-> Gap(readings, i)] ELSE NoSpeed
      PROVE  StandsFor(readings, i) = IF readings[i].bytes >= was THEN readings[i].bytes - was ELSE 0
  <2> DEFINE is == readings[i].bytes
             g == Gap(readings, i)
  <2>1. is \in Nat /\ g \in Nat \ {0}
    <3>1. i \in Good(readings) /\ Before(readings, i) \in 1 .. Len(readings)
      BY <1>2, SpeedSets DEF Upto
    <3>2. readings[i].at \in Int /\ readings[Before(readings, i)].at \in Int
      BY <3>1, SpeedSets DEF Readings
    <3> QED BY <1>2, <3>1, <3>2, SpeedSets DEF Gap
  <2>2. StandsFor(readings, i) = (speed.bytes * g) \div speed.time
    BY <1>2 DEF StandsFor
  <2> HIDE DEF is, g
  <2>3. CASE is >= was
    <3>1. speed.bytes = is - was /\ speed.time = g
      BY <1>2, <2>3 DEF is, g
    <3>2. is - was \in Int
      BY <2>1
    <3>3. ((is - was) * g) \div g = is - was
      <4> DEFINE d == is - was
      <4> HIDE DEF d
      <4>1. d \in Int => (d * g) \div g = d
        BY <2>1, SpeedTimesTime
      <4> QED BY <3>2, <4>1 DEF d
    <3> QED BY <2>2, <2>3, <3>1, <3>3 DEF is
  <2>4. CASE ~(is >= was)
    <3>1. speed.bytes = 0 /\ speed.time = 1
      BY <1>2, <2>4 DEF is, NoSpeed
    <3>2. (0 * g) \div 1 = 0
      BY <2>1
    <3> QED BY <2>2, <2>4, <3>1, <3>2 DEF is
  <2> QED BY <2>3, <2>4
<1> QED BY <1>1, <1>2

\* One more report keeps the account.
LEMMA AddsUpOnce ==
  ASSUME NEW readings \in Seq(Readings), NEW n \in Nat, n < Len(readings), AddsUp(readings, n),
         \A i \in Later(readings) : readings[Before(readings, i)].at < readings[i].at
  PROVE  AddsUp(readings, n + 1)
<1> DEFINE next == n + 1
           good == Good(readings)
           rep == Reported(readings)
           fell == Fallen(readings)
           s == Snapshots(readings)[n]
           t == Snapshots(readings)[next]
           r == readings[next]
           before == Upto(readings, n)
           sum == SumFunctionOnSet(rep, 1 .. n)
           worth == StandsFor(readings, next)
           fallen == SumFunctionOnSet(fell, {i \in Later(readings) : i <= n})
           least == readings[Min(good)].bytes
<1>1. next \in 1 .. Len(readings) /\ r \in Readings
  BY SpeedSets
<1>2. s \in Shots /\ t = Collect(s, r)
  <2>1. next - 1 = n /\ n \in 0 .. Len(readings)
    BY <1>1
  <2> QED BY <1>1, <2>1, SnapshotsTyped, SnapshotsFollow
<1>3. SumFunctionOnSet(rep, 1 .. next) = sum + worth /\ sum \in Int /\ worth \in Int
  <2>1. \A i \in 1 .. next : rep[i] \in Int
    BY <1>1, SpeedSets
  <2>2. rep[next] = worth
    BY <1>1, SpeedSets
  <2>3. IsFiniteSet(1 .. next) /\ IsFiniteSet(1 .. n)
    BY <1>1, FS_Interval
  <2>4. next \in 1 .. next /\ (1 .. next) \ {next} = 1 .. n /\ \A i \in 1 .. n : i \in 1 .. next
    BY <1>1
  <2> HIDE DEF rep, next, worth
  <2>5. SumFunctionOnSet(rep, 1 .. next) = rep[next] + SumFunctionOnSet(rep, 1 .. n)
    <3> DEFINE S == 1 .. next
    <3>1. next \in S /\ IsFiniteSet(S) /\ \A i \in S : rep[i] \in Int
      BY <2>1, <2>3, <2>4
    <3> HIDE DEF S
    <3>2. SumFunctionOnSet(rep, S) = rep[next] + SumFunctionOnSet(rep, S \ {next})
      BY <3>1, SumRemove
    <3> QED BY <2>4, <3>2 DEF S
  <2>6. sum \in Int
    BY <2>1, <2>3, <2>4, SumInt
  <2>7. worth \in Int
    BY <2>1, <2>2, <2>4
  <2> QED BY <2>2, <2>5, <2>6, <2>7
<1>4. fallen \in Nat
  <2> DEFINE L == {i \in Later(readings) : i <= n}
  <2>1. L \in SUBSET (1 .. Len(readings)) /\ \A i \in L : fell[i] \in Nat
    BY SpeedSets
  <2> HIDE DEF L, fell
  <2>2. IsFiniteSet(L)
    <3>1. IsFiniteSet(1 .. Len(readings))
      BY SpeedSets, FS_Interval
    <3> QED BY <2>1, <3>1, FS_Subset
  <2>3. SumFunctionOnSet(fell, L) \in Nat
    BY <2>1, <2>2, SumNat
  <2> QED BY <2>3 DEF L
<1>5. \A i \in good : i \in Int /\ (i <= next <=> i <= n \/ i = next)
  BY SpeedSets
<1>6. /\ before = {} => ~s.ready /\ sum = 0
      /\ \A m \in before :
           (\A i \in before : i <= m) =>
             /\ s.ready /\ s.last = readings[m].bytes /\ s.at = readings[m].at
             /\ sum = readings[m].bytes - least + fallen
  BY DEF AddsUp
<1>7. CASE ~r.ok
  <2>1. next \notin good /\ next \notin Later(readings)
    BY <1>7 DEF Good, Later
  <2>2. Upto(readings, next) = before
    BY <1>5, <2>1 DEF Upto
  <2>3. {i \in Later(readings) : i <= next} = {i \in Later(readings) : i <= n}
    BY <1>5, <2>1 DEF Later
  <2>4. t.ready = s.ready /\ t.last = s.last /\ t.at = s.at /\ t.speed = NoSpeed
    BY <1>1, <1>2, <1>7, ShotStep
  <2>5. SumFunctionOnSet(rep, 1 .. next) = sum
    <3>1. worth = 0
      BY <1>1, <2>1, <2>4, StandsForWhat
    <3> HIDE DEF worth, rep, sum
    <3> QED BY <1>3, <3>1
  <2> HIDE DEF s, t, r, rep, fell, before, good, least, next
  <2>6. AddsUp(readings, next)
    BY <1>6, <2>2, <2>3, <2>4, <2>5 DEF AddsUp, s, t, rep, fell, good, least
  <2> QED BY <2>6 DEF next
<1>8. CASE r.ok
  <2>1. next \in good
    BY <1>1, <1>8, SpeedSets DEF Good
  <2>2. Upto(readings, next) = before \union {next}
    BY <1>5, <2>1 DEF Upto
  <2>3. t.ready /\ t.last = r.bytes /\ t.at = r.at /\ t.speed = SpeedOf(s, r)
    BY <1>1, <1>2, <1>8, ShotStep
  <2>4. \A i \in before : i \in Int /\ i < next
    BY <1>5 DEF Upto
  <2>5. SUFFICES sum + worth = r.bytes - least + SumFunctionOnSet(fell, {i \in Later(readings) : i <= next})
    <3>1. \A m \in Upto(readings, next) : (\A i \in Upto(readings, next) : i <= m) => m = next
      BY <1>1, <2>2, <2>4
    <3>2. Upto(readings, next) # {}
      BY <2>2
    <3> HIDE DEF s, t, rep, fell, before, good, least, next, sum, worth
    <3>3. AddsUp(readings, next)
      BY <1>3, <2>3, <2>5, <3>1, <3>2 DEF AddsUp, t, rep, fell, good, least, r
    <3> QED BY <3>3 DEF next
  <2>6. CASE before = {}
    <3>1. Min(good) = next
      BY <1>5, <2>1, <2>6, SpeedSets DEF Upto
    <3>2. {i \in Later(readings) : i <= next} = {}
      BY <1>5, <2>6, <3>1 DEF Later, Upto
    <3>3. SumFunctionOnSet(fell, {i \in Later(readings) : i <= next}) = 0
      BY <3>2, SumEmpty
    <3>4. worth = 0 /\ sum = 0
      <4>1. t.speed = NoSpeed /\ sum = 0
        BY <1>1, <1>2, <1>6, <2>3, <2>6, ShotStep
      <4>2. next \notin Later(readings)
        BY <3>1 DEF Later
      <4> QED BY <1>1, <4>1, <4>2, StandsForWhat
    <3>5. least = r.bytes /\ r.bytes \in Nat
      BY <2>1, <3>1, SpeedSets
    <3> QED BY <3>3, <3>4, <3>5
  <2>7. CASE before # {}
    <3> DEFINE m == Before(readings, next)
    <3>1. next \in Later(readings)
      <4>1. PICK i \in before : TRUE
        BY <2>7
      <4>2. i \in good /\ i < next /\ Min(good) <= i
        BY <2>4, SpeedSets DEF Upto
      <4>3. Min(good) # next
        BY <1>5, <2>1, <4>2, SpeedSets
      <4> QED BY <2>1, <4>3 DEF Later
    <3>2. next - 1 = n
      OBVIOUS
    <3>3. m \in before /\ \A i \in before : i <= m
      BY <3>1, <3>2, SpeedSets
    <3>4. /\ s.ready /\ s.last = readings[m].bytes /\ s.at = readings[m].at
          /\ sum = readings[m].bytes - least + fallen
      BY <1>6, <3>3
    <3>5. readings[m].at < r.at
      BY <3>1
    <3>6. worth = IF r.bytes >= s.last THEN r.bytes - s.last ELSE 0
      <4>1. s.last \in Nat
        BY <1>2, CounterAssumption DEF CounterAssumption, Shots
      <4>2. t.speed = IF r.bytes >= s.last THEN [bytes |-> r.bytes - s.last, time |-> r.at - s.at] ELSE NoSpeed
        BY <1>1, <1>2, <2>3, <3>4, <3>5, ShotStep
      <4>3. r.at - s.at = Gap(readings, next)
        BY <3>4 DEF Gap
      <4> DEFINE was == s.last
                 speed == t.speed
      <4>4. speed = IF r.bytes >= was THEN [bytes |-> r.bytes - was, time |-> Gap(readings, next)] ELSE NoSpeed
        BY <4>2, <4>3
      <4>5. was \in Nat
        BY <4>1
      <4> HIDE DEF was, next, speed
      <4>6. StandsFor(readings, next) = IF r.bytes >= was THEN r.bytes - was ELSE 0
        BY <1>1, <3>1, <3>5, <4>4, <4>5, StandsForWhat DEF speed
      <4> QED BY <4>6 DEF was
    <3>7. fell[next] = IF r.bytes < readings[m].bytes THEN readings[m].bytes - r.bytes ELSE 0
      BY <3>1, SpeedSets DEF FellBy
    <3>8. SumFunctionOnSet(fell, {i \in Later(readings) : i <= next}) = fell[next] + fallen
      <4> DEFINE L == {i \in Later(readings) : i <= next}
      <4>1. L \in SUBSET (1 .. Len(readings)) /\ \A i \in L : fell[i] \in Int
        BY SpeedSets
      <4>2. next \in L /\ L \ {next} = {i \in Later(readings) : i <= n}
        BY <1>5, <3>1 DEF Later
      <4> HIDE DEF L, fell, next
      <4>3. IsFiniteSet(L)
        <5>1. IsFiniteSet(1 .. Len(readings))
          BY SpeedSets, FS_Interval
        <5> QED BY <4>1, <5>1, FS_Subset
      <4>4. SumFunctionOnSet(fell, L) = fell[next] + SumFunctionOnSet(fell, L \ {next})
        BY <4>1, <4>2, <4>3, SumRemove
      <4> QED BY <4>2, <4>4 DEF L
    <3>9. r.bytes \in Nat /\ readings[m].bytes \in Nat /\ least \in Nat
      <4>1. m \in good /\ Min(good) \in good
        BY <2>1, <3>3, SpeedSets DEF Upto
      <4> QED BY <2>1, <4>1, SpeedSets
    <3> DEFINE was == readings[m].bytes
               is == r.bytes
    <3>10. worth = (IF is >= was THEN is - was ELSE 0) /\ fell[next] = (IF is < was THEN was - is ELSE 0)
      BY <3>4, <3>6, <3>7
    <3> HIDE DEF worth, is, was, fell, least, next, sum, fallen
    <3>11. worth - fell[next] = is - was /\ fell[next] \in Nat /\ worth \in Int
      BY <3>9, <3>10 DEF is, was
    <3>12. sum = was - least + fallen
      BY <3>4 DEF was
    <3>13. sum + worth = is - least + (fell[next] + fallen)
      <4>1. is \in Int /\ was \in Int /\ least \in Int
        BY <3>9 DEF is, was
      <4>2. sum \in Int /\ fallen \in Int
        BY <1>3, <1>4
      <4> DEFINE by == worth
                 short == fell[next]
      <4>3. by \in Int /\ short \in Int /\ by - short = is - was
        BY <3>11
      <4> HIDE DEF by, short
      <4>4. sum + by = is - least + (short + fallen)
        BY <3>12, <4>1, <4>2, <4>3
      <4> QED BY <4>4 DEF by, short
    <3> QED BY <3>8, <3>13 DEF is
  <2> QED BY <2>6, <2>7
<1>9. r.ok \in BOOLEAN
  BY <1>1 DEF Readings
<1> QED BY <1>7, <1>8, <1>9

\* The whole account, for a sequence of reports of any length.
LEMMA AllAddUp ==
  ASSUME NEW readings \in Seq(Readings)
  PROVE  SpeedsAddUp(readings)
<1> DEFINE N == Len(readings)
           good == Good(readings)
           sum == SumFunctionOnSet(Reported(readings), 1 .. N)
           fallen == SumFunctionOnSet(Fallen(readings), Later(readings))
<1>1. N \in Nat /\ DOMAIN readings = 1 .. N
  BY SpeedSets
<1>2. SUFFICES ASSUME good # {}, \A i \in Later(readings) : readings[Before(readings, i)].at < readings[i].at
               PROVE  sum = readings[Max(good)].bytes - readings[Min(good)].bytes + fallen
  BY <1>1, Zenon DEF SpeedsAddUp, Reported, Fallen
<1> DEFINE Reached == {n \in Nat : AddsUp(readings, n)}
<1>3. 0 \in Reached
  <2>1. Upto(readings, 0) = {}
    BY SpeedSets DEF Upto
  <2>2. ~Snapshots(readings)[0].ready
    BY SnapshotsFollow DEF Snapshot0
  <2>3. 1 .. 0 = {} /\ SumFunctionOnSet(Reported(readings), {}) = 0
    BY SumEmpty
  <2> QED BY <2>1, <2>2, <2>3 DEF AddsUp
<1>4. ASSUME NEW n \in 0 .. N - 1, n \in Reached PROVE n + 1 \in Reached
  <2>1. n \in Nat /\ n < Len(readings) /\ n + 1 \in Nat
    BY <1>1
  <2> QED BY <1>2, <1>4, <2>1, AddsUpOnce
<1>5. AddsUp(readings, N)
  <2>1. N \in Reached
    <3> HIDE DEF N, Reached
    <3> QED BY <1>1, <1>3, <1>4, CountUp
  <2> QED BY <2>1
<1>6. Upto(readings, N) = good /\ {i \in Later(readings) : i <= N} = Later(readings)
  BY SpeedSets DEF Upto, Later
<1>7. Max(good) \in good /\ \A i \in good : i <= Max(good)
  BY <1>2, SpeedSets
<1> HIDE DEF N, good
<1> QED BY <1>5, <1>6, <1>7 DEF AddsUp, good

\* The speeds that the report loops of all nodes send, in whatever order their
\* readings arrive and however many they are, each over the time it was measured
\* in, come to what went through the host between the first reading and the last
\* and what overtaken readings took back.
THEOREM SpeedsShareTheTraffic == Spec => []ReportedSpeedsAddUp
<1>1. InputOK => ReportedSpeedsAddUp
  <2> SUFFICES ASSUME InputOK, input.topic = "readings" PROVE SpeedsAddUp(input.readings)
    BY DEF ReportedSpeedsAddUp
  <2>1. input.readings \in Seq(Readings)
    BY ReadingsAssumption DEF ReadingsAssumption, InputOK, Readings
  <2> QED BY <2>1, AllAddUp
<1> QED BY <1>1, InputsPicked, PTL
=============================================================================
