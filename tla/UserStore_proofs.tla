-------------------------- MODULE UserStore_proofs --------------------------
(***************************************************************************)
(* Proofs about module UserStore, for any nodes, users, user lists,        *)
(* sources and connections.                                                *)
(***************************************************************************)
EXTENDS UserStore, FiniteSetTheorems, TLAPS

\* A worker is idle with nothing left to store, or its list is one of the
\* panel's and holds what is left of it.
TodoOK ==
  \A n \in Nodes :
    IF step[n] = "idle" THEN todo[n] = {} ELSE list[n] \in Lists /\ todo[n] \subseteq DOMAIN list[n]

TypeInv == TypeOK /\ TodoOK

LEMMA TypeInvariant == Spec => []TypeInv
<1> USE UserStoreAssumption DEF UserStoreAssumption, applyVars
<1>1. Init => TypeInv
  BY DEF Init, TypeInv, TypeOK, TodoOK
<1>2. TypeInv /\ [Next]_vars => TypeInv'
  <2> SUFFICES ASSUME TypeInv, [Next]_vars PROVE TypeInv'
    OBVIOUS
  <2> USE DEF TypeInv, TypeOK, TodoOK
  <2>1. ASSUME NEW n \in Nodes, NEW l \in Lists, ReplaceSecrets(n, l) PROVE TypeInv'
    BY <2>1 DEF ReplaceSecrets
  <2>2. ASSUME NEW n \in Nodes, NEW u \in Users, ReplaceUser(n, u) PROVE TypeInv'
    <3>1. list[n] \in Lists /\ u \in DOMAIN list[n]
      BY <2>2 DEF ReplaceUser
    <3>2. list[n][u] \in Nat
      BY <3>1
    <3>3. limit' \in [Users -> Nat]
      BY <2>2, <3>2 DEF ReplaceUser
    <3> QED BY <2>2, <3>3 DEF ReplaceUser
  <2>3. ASSUME NEW n \in Nodes, Serve(n) PROVE TypeInv'
    <3>1. DOMAIN list[n] \subseteq Users
      BY <2>3 DEF Serve
    <3> QED BY <2>3, <3>1 DEF Serve
  <2>4. ASSUME NEW n \in Nodes, ServeFailed(n) PROVE TypeInv'
    BY <2>4 DEF ServeFailed
  <2>5. ASSUME NEW c \in Conns, NEW n \in Nodes, NEW u \in Users, NEW s \in Sources \cup {NoSource},
               Connect(c, n, u, s)
        PROVE  TypeInv'
    <3>1. [phase |-> "auth", node |-> n, user |-> u, source |-> s] \in Attempt
      BY DEF Attempt
    <3> HIDE DEF Attempt
    <3> QED BY <2>5, <3>1 DEF Connect
  <2>6. ASSUME NEW c \in Conns, conn[c].phase # "new",
               NEW p \in {"resolved", "open", "refused", "closed"},
               conn' = [conn EXCEPT ![c].phase = p]
        PROVE  conn' \in [Conns -> Attempt \cup {New}]
    <3>1. conn[c] \in Attempt
      BY <2>6 DEF New
    <3>2. [conn[c] EXCEPT !.phase = p] \in Attempt
      BY <3>1 DEF Attempt
    <3> QED BY <2>6, <3>2
  <2>7. ASSUME NEW c \in Conns, Resolve(c) PROVE TypeInv'
    BY <2>7, <2>6 DEF Resolve
  <2>8. ASSUME NEW c \in Conns, Open(c) PROVE TypeInv'
    <3>1. conn' \in [Conns -> Attempt \cup {New}]
      BY <2>8, <2>6 DEF Open
    <3>2. conn[c] \in Attempt
      BY <2>8 DEF Open, New
    <3>3. conn[c].user \in Users /\ conn[c].source \in Sources \cup {NoSource}
      BY <3>2 DEF Attempt
    <3>4. left' \in [Users -> [Sources -> 0..TTL]]
      <4>1. CASE UNCHANGED left
        BY <4>1
      <4>2. CASE /\ conn[c].source \in Sources
                 /\ left' = [left EXCEPT ![conn[c].user][conn[c].source] = TTL]
        <5>1. TTL \in 0..TTL
          OBVIOUS
        <5> QED BY <4>2, <5>1, <3>3
      <4> QED BY <2>8, <3>3, <4>1, <4>2 DEF Open
    <3>5. age' \in [Conns -> 0..TTL]
      BY <2>8 DEF Open
    <3> QED BY <2>8, <3>1, <3>4, <3>5 DEF Open
  <2>9. ASSUME NEW c \in Conns, CloseConn(c) PROVE TypeInv'
    BY <2>9, <2>6 DEF CloseConn
  <2>10. CASE Tick
    <3>1. left' \in [Users -> [Sources -> 0..TTL]]
      BY <2>10 DEF Tick
    <3>2. age' \in [Conns -> 0..TTL]
      BY <2>10 DEF Tick
    <3> QED BY <2>10, <3>1, <3>2 DEF Tick
  <2>11. CASE UNCHANGED vars
    BY <2>11 DEF vars
  <2> QED BY <2>1, <2>2, <2>3, <2>4, <2>5, <2>7, <2>8, <2>9, <2>10, <2>11
          DEF Next, ApplyStep, ConnStep
<1> QED BY <1>1, <1>2, PTL DEF Spec

\* The maps, limits, devices and connections of the store keep their types.
THEOREM TypeCorrect == Spec => []TypeOK
BY TypeInvariant, PTL DEF TypeInv

-----------------------------------------------------------------------------
\* Why a served user is known: while an apply is under way the users of its
\* list are in their shards already, or among those still to be put there.
KnownInv ==
  /\ ServedKnown
  /\ \A n \in Nodes : step[n] = "shards" => DOMAIN list[n] \subseteq known \cup todo[n]

\* Whatever the workers of the nodes interleave, a runtime only authenticates
\* users that Store.Open will find.
THEOREM ServedUsersKnown == Spec => []ServedKnown
<1> USE UserStoreAssumption DEF UserStoreAssumption, applyVars
<1>1. Init => KnownInv
  BY DEF Init, KnownInv, ServedKnown
<1>2. TypeInv /\ KnownInv /\ [Next]_vars => KnownInv'
  <2> SUFFICES ASSUME TypeInv, KnownInv, [Next]_vars PROVE KnownInv'
    OBVIOUS
  <2>t. TodoOK /\ todo \in [Nodes -> SUBSET Users] /\ list \in [Nodes -> Lists \cup {<< >>}]
        /\ served \in [Nodes -> SUBSET Users] /\ step \in [Nodes -> {"idle", "shards"}]
    BY DEF TypeInv, TypeOK
  <2> USE DEF KnownInv, ServedKnown
  <2>1. ASSUME NEW n \in Nodes, NEW l \in Lists, ReplaceSecrets(n, l) PROVE KnownInv'
    BY <2>1, <2>t DEF ReplaceSecrets, TodoOK
  <2>2. ASSUME NEW n \in Nodes, NEW u \in Users, ReplaceUser(n, u) PROVE KnownInv'
    BY <2>2, <2>t DEF ReplaceUser
  <2>3. ASSUME NEW n \in Nodes, Serve(n) PROVE KnownInv'
    BY <2>3, <2>t DEF Serve
  <2>4. ASSUME NEW n \in Nodes, ServeFailed(n) PROVE KnownInv'
    BY <2>4, <2>t DEF ServeFailed
  <2>5. ASSUME UNCHANGED <<bySecret, known, applyVars>> PROVE KnownInv'
    BY <2>5
  <2>6. ASSUME NEW c \in Conns, ConnStep(c) PROVE KnownInv'
    BY <2>6, <2>5 DEF ConnStep, Connect, Resolve, Open, CloseConn
  <2>7. CASE Tick \/ UNCHANGED vars
    BY <2>7, <2>5 DEF Tick, vars
  <2> QED BY <2>1, <2>2, <2>3, <2>4, <2>6, <2>7 DEF Next, ApplyStep
<1> QED BY <1>1, <1>2, TypeInvariant, PTL DEF Spec, KnownInv

-----------------------------------------------------------------------------
\* Why an address counts for a TTL: a connection that was admitted less than
\* that ago is open or closed, and its address has what is left of the TTL.
AgeInv ==
  \A c \in Conns : age[c] < TTL =>
    /\ conn[c].phase \in {"open", "closed"}
    /\ conn[c].source \in Sources => left[conn[c].user][conn[c].source] >= TTL - age[c]

\* A change of phase leaves the rest of a connection alone.
LEMMA PhaseStep ==
  ASSUME TypeInv, NEW c \in Conns, conn[c].phase # "new", NEW p,
         conn' = [conn EXCEPT ![c].phase = p]
  PROVE  /\ conn'[c].phase = p
         /\ conn'[c].user = conn[c].user /\ conn'[c].source = conn[c].source
         /\ \A d \in Conns \ {c} : conn'[d] = conn[d]
         /\ conn[c].user \in Users /\ conn[c].source \in Sources \cup {NoSource}
<1>1. conn \in [Conns -> Attempt \cup {New}]
  BY DEF TypeInv, TypeOK
<1>2. conn[c] \in Attempt
  BY <1>1 DEF New
<1>3. conn'[c] = [conn[c] EXCEPT !.phase = p] /\ \A d \in Conns \ {c} : conn'[d] = conn[d]
  BY <1>1
<1> QED BY <1>2, <1>3 DEF Attempt

\* Only an admission starts a connection's age.
LEMMA NotAdmitted ==
  ASSUME TypeInv, AgeInv, NEW c \in Conns, ~(conn[c].phase \in {"open", "closed"})
  PROVE  age[c] = TTL
<1>1. age[c] \in 0..TTL
  BY DEF TypeInv, TypeOK
<1>2. ~(age[c] < TTL)
  BY DEF AgeInv
<1> QED BY <1>1, <1>2, UserStoreAssumption DEF UserStoreAssumption

\* An admission makes its address as young as its connection.
LEMMA OpenRenews ==
  ASSUME TypeInv, AgeInv, NEW c \in Conns, Open(c)
  PROVE  AgeInv'
<1> USE UserStoreAssumption DEF UserStoreAssumption
<1> DEFINE u == conn[c].user
           s == conn[c].source
           admitted == u \in known /\ (s = NoSource \/ Admits(u, s))
<1>1. /\ conn[c].phase = "resolved"
      /\ conn' = [conn EXCEPT ![c].phase = IF admitted THEN "open" ELSE "refused"]
      /\ age' = [age EXCEPT ![c] = IF admitted THEN 0 ELSE @]
      /\ IF admitted /\ s # NoSource THEN left' = [left EXCEPT ![u][s] = TTL] ELSE left' = left
  BY DEF Open
<1>t. left \in [Users -> [Sources -> 0..TTL]] /\ age \in [Conns -> 0..TTL]
  BY DEF TypeInv, TypeOK
<1> HIDE DEF admitted
<1>2. /\ u \in Users /\ s \in Sources \cup {NoSource}
      /\ conn'[c].phase = IF admitted THEN "open" ELSE "refused"
      /\ conn'[c].user = u /\ conn'[c].source = s
      /\ \A d \in Conns \ {c} : conn'[d] = conn[d]
  BY <1>1, PhaseStep
<1>3. age[c] = TTL
  BY <1>1, NotAdmitted
<1>4. \A v \in Users, r \in Sources : left'[v][r] >= left[v][r]
  <2>1. CASE admitted /\ s # NoSource
    BY <2>1, <1>1, <1>2, <1>t
  <2>2. CASE ~(admitted /\ s # NoSource)
    BY <2>2, <1>1, <1>t
  <2> QED BY <2>1, <2>2
<1>5. ASSUME age'[c] < TTL
      PROVE  conn'[c].phase = "open" /\ (s \in Sources => left'[u][s] >= TTL - age'[c])
  <2>1. admitted /\ age'[c] = 0
    BY <1>1, <1>3, <1>5, <1>t
  <2>2. s \in Sources => left'[u][s] = TTL
    BY <2>1, <1>1, <1>2, <1>t
  <2> QED BY <2>1, <2>2, <1>2
<1>6. ASSUME NEW d \in Conns \ {c}, age'[d] < TTL
      PROVE  /\ conn'[d].phase \in {"open", "closed"}
             /\ conn'[d].source \in Sources =>
                  left'[conn'[d].user][conn'[d].source] >= TTL - age'[d]
  <2>1. age'[d] = age[d] /\ conn'[d] = conn[d] /\ age[d] \in 0..TTL
    BY <1>1, <1>2, <1>t
  <2>2. conn[d].phase \in {"open", "closed"}
    BY <1>6, <2>1 DEF AgeInv
  <2>3. conn[d].user \in Users
    <3>1. conn[d] \in Attempt
      BY <2>2 DEF TypeInv, TypeOK, New
    <3> QED BY <3>1 DEF Attempt
  <2>4. ASSUME conn[d].source \in Sources
        PROVE  left'[conn[d].user][conn[d].source] >= TTL - age[d]
    <3>1. left[conn[d].user][conn[d].source] >= TTL - age[d]
      BY <1>6, <2>1, <2>4 DEF AgeInv
    <3>2. /\ left[conn[d].user][conn[d].source] \in 0..TTL
          /\ left'[conn[d].user][conn[d].source] >= left[conn[d].user][conn[d].source]
      BY <1>4, <1>t, <2>3, <2>4
    <3>3. left'[conn[d].user][conn[d].source] \in 0..TTL
      <4>1. left' \in [Users -> [Sources -> 0..TTL]]
        <5>1. CASE admitted /\ s # NoSource
          <6>1. TTL \in 0..TTL
            OBVIOUS
          <6> QED BY <5>1, <6>1, <1>1, <1>2, <1>t
        <5>2. CASE ~(admitted /\ s # NoSource)
          BY <5>2, <1>1, <1>t
        <5> QED BY <5>1, <5>2
      <4> QED BY <4>1, <2>3, <2>4
    <3> QED BY <3>1, <3>2, <3>3, <2>1
  <2> QED BY <2>1, <2>2, <2>4
<1> QED BY <1>2, <1>5, <1>6 DEF AgeInv

LEMMA AgesTold == Spec => []AgeInv
<1> USE UserStoreAssumption DEF UserStoreAssumption
<1>1. Init => AgeInv
  BY DEF Init, AgeInv
<1>2. TypeInv /\ AgeInv /\ [Next]_vars => AgeInv'
  <2> SUFFICES ASSUME TypeInv, AgeInv, [Next]_vars PROVE AgeInv'
    OBVIOUS
  <2>t. /\ left \in [Users -> [Sources -> 0..TTL]] /\ age \in [Conns -> 0..TTL]
        /\ conn \in [Conns -> Attempt \cup {New}]
    BY DEF TypeInv, TypeOK
  <2>1. ASSUME UNCHANGED <<left, conn, age>> PROVE AgeInv'
    BY <2>1 DEF AgeInv
  <2>2. ASSUME NEW n \in Nodes, ApplyStep(n) PROVE AgeInv'
    BY <2>2, <2>1 DEF ApplyStep, ReplaceSecrets, ReplaceUser, Serve, ServeFailed
  <2>3. ASSUME NEW c \in Conns, Resolve(c) PROVE AgeInv'
    <3> DEFINE p == IF Resolves(conn[c].node, conn[c].user) THEN "resolved" ELSE "refused"
    <3>1. conn[c].phase = "auth" /\ conn' = [conn EXCEPT ![c].phase = p] /\ UNCHANGED <<left, age>>
      BY <2>3 DEF Resolve
    <3> HIDE DEF p
    <3>2. age[c] = TTL
      BY <3>1, NotAdmitted
    <3>3. \A d \in Conns \ {c} : conn'[d] = conn[d]
      BY <3>1, PhaseStep
    <3> QED BY <2>t, <3>1, <3>2, <3>3 DEF AgeInv
  <2>4. ASSUME NEW c \in Conns, CloseConn(c) PROVE AgeInv'
    <3>1. conn[c].phase = "open" /\ conn' = [conn EXCEPT ![c].phase = "closed"]
          /\ UNCHANGED <<left, age>>
      BY <2>4 DEF CloseConn
    <3>2. /\ conn'[c].phase = "closed" /\ conn'[c].user = conn[c].user
          /\ conn'[c].source = conn[c].source
          /\ \A d \in Conns \ {c} : conn'[d] = conn[d]
      BY <3>1, PhaseStep
    <3> QED BY <3>1, <3>2 DEF AgeInv
  <2>5. ASSUME NEW c \in Conns, NEW n \in Nodes, NEW u \in Users, NEW s \in Sources \cup {NoSource},
               Connect(c, n, u, s)
        PROVE  AgeInv'
    <3>1. /\ conn[c] = New /\ UNCHANGED <<left, age>>
          /\ conn' = [conn EXCEPT ![c] = [phase |-> "auth", node |-> n, user |-> u, source |-> s]]
      BY <2>5 DEF Connect
    <3>2. age[c] = TTL
      BY <3>1, NotAdmitted DEF New
    <3>3. \A d \in Conns \ {c} : conn'[d] = conn[d]
      BY <3>1, <2>t
    <3> QED BY <2>t, <3>1, <3>2, <3>3 DEF AgeInv
  <2>6. CASE Tick
    <3>1. /\ left' = [u \in Users |-> [s \in Sources |-> IF left[u][s] > 0 THEN left[u][s] - 1 ELSE 0]]
          /\ age' = [c \in Conns |-> IF age[c] < TTL THEN age[c] + 1 ELSE TTL]
          /\ UNCHANGED conn
      BY <2>6 DEF Tick
    <3> SUFFICES ASSUME NEW c \in Conns, age'[c] < TTL
                 PROVE  /\ conn[c].phase \in {"open", "closed"}
                        /\ conn[c].source \in Sources =>
                             left'[conn[c].user][conn[c].source] >= TTL - age'[c]
      BY <3>1 DEF AgeInv
    <3>2. age[c] \in 0..TTL /\ age[c] < TTL /\ age'[c] = age[c] + 1
      BY <3>1, <2>t
    <3>3. conn[c].phase \in {"open", "closed"}
      BY <3>2 DEF AgeInv
    <3>4. ASSUME conn[c].source \in Sources
          PROVE  left'[conn[c].user][conn[c].source] >= TTL - age'[c]
      <4>1. conn[c].user \in Users
        <5>1. conn[c] \in Attempt
          BY <2>t, <3>3 DEF New
        <5> QED BY <5>1 DEF Attempt
      <4>2. left[conn[c].user][conn[c].source] >= TTL - age[c]
        BY <3>2, <3>4 DEF AgeInv
      <4> QED BY <2>t, <3>1, <3>2, <3>4, <4>1, <4>2
    <3> QED BY <3>3, <3>4
  <2>7. CASE UNCHANGED vars
    BY <2>7, <2>1 DEF vars
  <2> QED BY <2>2, <2>3, <2>4, <2>5, <2>6, <2>7, OpenRenews DEF Next, ConnStep
<1> QED BY <1>1, <1>2, TypeInvariant, PTL DEF Spec

\* However the nodes apply lists and connections come and go, an address counts
\* as a device of its user for a whole TTL after each admission from it.
THEOREM AddressesCount == Spec => []RecentSourcesLive
<1>1. TypeInv /\ AgeInv => RecentSourcesLive
  <2> USE UserStoreAssumption DEF UserStoreAssumption
  <2> SUFFICES ASSUME TypeInv, AgeInv, NEW u \in Users, NEW s \in RecentOf(u)
               PROVE  s \in Live(u)
    BY DEF RecentSourcesLive
  <2>1. s \in Sources
    BY DEF RecentOf
  <2>2. PICK c \in Conns : age[c] < TTL /\ conn[c].user = u /\ conn[c].source = s
    BY DEF RecentOf
  <2>3. left[u][s] >= TTL - age[c]
    BY <2>1, <2>2 DEF AgeInv
  <2>4. age[c] \in 0..TTL /\ left[u][s] \in 0..TTL
    BY <2>1 DEF TypeInv, TypeOK
  <2> QED BY <2>1, <2>2, <2>3, <2>4 DEF Live
<1> QED BY <1>1, AgesTold, TypeInvariant, PTL

-----------------------------------------------------------------------------
\* Why the device limit holds: a known user has its limit from some list, an
\* unknown one has no devices, and devices are only added within such a limit.
Allowed(u) == \E l \in Lists : u \in DOMAIN l /\ (l[u] = 0 \/ Cardinality(Live(u)) <= l[u])

DeviceInv ==
  /\ \A u \in known : \E l \in Lists : u \in DOMAIN l /\ limit[u] = l[u]
  /\ \A u \in Users \ known : Live(u) = {}
  /\ \A u \in Users : Live(u) = {} \/ Allowed(u)

\* Fewer devices than allowed are allowed.
LEMMA FewerAllowed ==
  ASSUME TypeInv, NEW u \in Users, Live(u)' \subseteq Live(u), Live(u) = {} \/ Allowed(u)
  PROVE  Live(u)' = {} \/ Allowed(u)'
<1> USE UserStoreAssumption DEF UserStoreAssumption
<1>1. Live(u) \subseteq Sources
  BY DEF Live
<1>2. /\ Cardinality(Live(u)) \in Nat /\ Cardinality(Live(u)') \in Nat
      /\ Cardinality(Live(u)') <= Cardinality(Live(u))
  BY <1>1, FS_Subset, FS_CardinalityType
<1>3. CASE Live(u) = {}
  BY <1>3
<1>4. CASE Allowed(u)
  <2>1. PICK l \in Lists : u \in DOMAIN l /\ (l[u] = 0 \/ Cardinality(Live(u)) <= l[u])
    BY <1>4 DEF Allowed
  <2>2. l[u] \in Nat
    BY <2>1
  <2>3. l[u] = 0 \/ Cardinality(Live(u)') <= l[u]
    BY <1>2, <2>1, <2>2
  <2> QED BY <2>1, <2>3 DEF Allowed
<1> QED BY <1>3, <1>4

\* What Open does when it admits an address: it becomes live, and the devices of
\* the user stay allowed by the list its limit is from, or by that of before.
LEMMA OpenAdmits ==
  ASSUME TypeInv, DeviceInv, NEW c \in Conns, Open(c),
         NEW u, u = conn[c].user, NEW s, s = conn[c].source,
         s # NoSource, u \in known, Admits(u, s)
  PROVE  DeviceInv'
<1> USE UserStoreAssumption DEF UserStoreAssumption
<1>1. /\ conn[c].phase = "resolved" /\ conn' = [conn EXCEPT ![c].phase = "open"]
      /\ left' = [left EXCEPT ![u][s] = TTL]
      /\ UNCHANGED <<known, limit>>
  BY DEF Open
<1>2. u \in Users /\ s \in Sources
  BY <1>1, PhaseStep
<1>t. left \in [Users -> [Sources -> 0..TTL]] /\ limit \in [Users -> Nat]
  BY DEF TypeInv, TypeOK
<1>3. Live(u)' = Live(u) \cup {s}
  BY <1>1, <1>2, <1>t DEF Live
<1>4. \A v \in Users \ {u} : Live(v)' = Live(v)
  BY <1>1, <1>2, <1>t DEF Live
<1>5. IsFiniteSet(Live(u)) /\ Cardinality(Live(u)) \in Nat
  <2>1. Live(u) \subseteq Sources
    BY DEF Live
  <2> QED BY <2>1, FS_Subset, FS_CardinalityType
<1>6. Allowed(u)'
  <2>1. CASE s \in Live(u)
    <3>1. Live(u)' = Live(u) /\ Live(u) # {}
      BY <1>3, <2>1
    <3> QED BY <3>1, <1>2 DEF DeviceInv, Allowed
  <2>2. CASE s \notin Live(u)
    <3>1. PICK l \in Lists : u \in DOMAIN l /\ limit[u] = l[u]
      BY DEF DeviceInv
    <3>2. limit[u] = 0 \/ Cardinality(Live(u)) < limit[u]
      BY <2>2 DEF Admits
    <3>3. Cardinality(Live(u) \cup {s}) = Cardinality(Live(u)) + 1
      BY <1>5, <2>2, FS_AddElement
    <3>4. limit[u] \in Nat
      BY <1>2, <1>t
    <3>5. l[u] = 0 \/ Cardinality(Live(u)') <= l[u]
      BY <1>3, <1>5, <3>1, <3>2, <3>3, <3>4
    <3> QED BY <3>1, <3>5 DEF Allowed
  <2> QED BY <2>1, <2>2
<1>7. ASSUME NEW v \in Users \ {u} PROVE Live(v)' = {} \/ Allowed(v)'
  BY <1>4, FewerAllowed DEF DeviceInv
<1>8. \A v \in Users \ known' : Live(v)' = {}
  BY <1>1, <1>4 DEF DeviceInv
<1>9. \A v \in known' : \E l \in Lists : v \in DOMAIN l /\ limit'[v] = l[v]
  BY <1>1 DEF DeviceInv
<1> QED BY <1>6, <1>7, <1>8, <1>9 DEF DeviceInv

LEMMA DevicesAllowed == Spec => []DeviceInv
<1> USE UserStoreAssumption DEF UserStoreAssumption
<1>1. Init => DeviceInv
  <2> SUFFICES ASSUME Init PROVE DeviceInv
    OBVIOUS
  <2>1. \A u \in Users : Live(u) = {}
    BY DEF Init, Live
  <2>2. known = {}
    BY DEF Init
  <2> QED BY <2>1, <2>2 DEF DeviceInv
<1>2. TypeInv /\ DeviceInv /\ [Next]_vars => DeviceInv'
  <2> SUFFICES ASSUME TypeInv, DeviceInv, [Next]_vars PROVE DeviceInv'
    OBVIOUS
  <2>t. /\ TodoOK /\ left \in [Users -> [Sources -> 0..TTL]] /\ limit \in [Users -> Nat]
        /\ known \subseteq Users
    BY DEF TypeInv, TypeOK
  <2>1. ASSUME UNCHANGED <<known, limit>>, \A u \in Users : Live(u)' \subseteq Live(u)
        PROVE  DeviceInv'
    <3>1. \A u \in Users : Live(u)' = {} \/ Allowed(u)'
      BY <2>1, FewerAllowed DEF DeviceInv
    <3>2. \A u \in Users \ known' : Live(u)' = {}
      BY <2>1 DEF DeviceInv
    <3>3. \A u \in known' : \E l \in Lists : u \in DOMAIN l /\ limit'[u] = l[u]
      BY <2>1 DEF DeviceInv
    <3> QED BY <3>1, <3>2, <3>3 DEF DeviceInv
  <2>2. ASSUME UNCHANGED <<known, limit, left>> PROVE DeviceInv'
    <3>1. \A u \in Users : Live(u)' \subseteq Live(u)
      BY <2>2 DEF Live
    <3> QED BY <2>1, <2>2, <3>1
  <2>3. ASSUME NEW n \in Nodes, NEW u \in Users, ReplaceUser(n, u) PROVE DeviceInv'
    <3>1. /\ list[n] \in Lists /\ u \in DOMAIN list[n]
          /\ known' = known \cup {u}
          /\ limit' = [limit EXCEPT ![u] = list[n][u]]
          /\ left' = left
      BY <2>3, <2>t DEF ReplaceUser, TodoOK, TypeInv, TypeOK
    <3>2. \A v \in Users : Live(v)' = Live(v)
      BY <3>1 DEF Live
    <3>3. \A v \in known' : \E l \in Lists : v \in DOMAIN l /\ limit'[v] = l[v]
      BY <2>t, <3>1 DEF DeviceInv
    <3>4. \A v \in Users \ known' : Live(v)' = {}
      BY <3>1, <3>2 DEF DeviceInv
    <3>5. \A v \in Users : Live(v)' = {} \/ Allowed(v)'
      BY <3>2, FewerAllowed DEF DeviceInv
    <3> QED BY <3>3, <3>4, <3>5 DEF DeviceInv
  <2>4. ASSUME NEW n \in Nodes, (\E l \in Lists : ReplaceSecrets(n, l)) \/ Serve(n) \/ ServeFailed(n)
        PROVE  DeviceInv'
    BY <2>4, <2>2 DEF ReplaceSecrets, Serve, ServeFailed
  <2>5. ASSUME NEW c \in Conns, Resolve(c) \/ CloseConn(c) PROVE DeviceInv'
    BY <2>5, <2>2 DEF Resolve, CloseConn
  <2>6. ASSUME NEW c \in Conns, NEW n \in Nodes, NEW u \in Users, NEW s \in Sources \cup {NoSource},
               Connect(c, n, u, s)
        PROVE  DeviceInv'
    BY <2>6, <2>2 DEF Connect
  <2>7. ASSUME NEW c \in Conns, Open(c) PROVE DeviceInv'
    <3> DEFINE u == conn[c].user
               s == conn[c].source
    <3>1. CASE s # NoSource /\ u \in known /\ Admits(u, s)
      BY <3>1, <2>7, OpenAdmits
    <3>2. CASE ~(s # NoSource /\ u \in known /\ Admits(u, s))
      BY <3>2, <2>7, <2>2 DEF Open
    <3> QED BY <3>1, <3>2
  <2>8. CASE Tick
    <3>1. /\ left' = [u \in Users |-> [s \in Sources |-> IF left[u][s] > 0 THEN left[u][s] - 1 ELSE 0]]
          /\ UNCHANGED <<known, limit>>
      BY <2>8 DEF Tick
    <3>2. \A u \in Users : Live(u)' \subseteq Live(u)
      BY <2>t, <3>1 DEF Live
    <3> QED BY <2>1, <3>1, <3>2
  <2>9. CASE UNCHANGED vars
    BY <2>9, <2>2 DEF vars
  <2> QED BY <2>3, <2>4, <2>5, <2>6, <2>7, <2>8, <2>9 DEF Next, ApplyStep, ConnStep
<1> QED BY <1>1, <1>2, TypeInvariant, PTL DEF Spec

\* Whatever lists the nodes apply in whatever order, within any TTL a user is
\* admitted from no more addresses, over all nodes, than some list allows it.
THEOREM DeviceLimitHolds == Spec => []DevicesWithinLimit
<1>1. TypeInv /\ RecentSourcesLive /\ DeviceInv => DevicesWithinLimit
  <2> USE UserStoreAssumption DEF UserStoreAssumption
  <2> SUFFICES ASSUME TypeInv, RecentSourcesLive, DeviceInv, NEW u \in Users, RecentOf(u) # {}
               PROVE  \E l \in Lists :
                        u \in DOMAIN l /\ (l[u] = 0 \/ Cardinality(RecentOf(u)) <= l[u])
    BY DEF DevicesWithinLimit
  <2>1. RecentOf(u) \subseteq Live(u) /\ Live(u) \subseteq Sources
    BY DEF RecentSourcesLive, Live
  <2>2. /\ Cardinality(Live(u)) \in Nat /\ Cardinality(RecentOf(u)) \in Nat
        /\ Cardinality(RecentOf(u)) <= Cardinality(Live(u))
    BY <2>1, FS_Subset, FS_CardinalityType
  <2>3. PICK l \in Lists : u \in DOMAIN l /\ (l[u] = 0 \/ Cardinality(Live(u)) <= l[u])
    BY <2>1 DEF DeviceInv, Allowed
  <2>4. l[u] \in Nat
    BY <2>3
  <2> QED BY <2>2, <2>3, <2>4
<1> QED BY <1>1, AddressesCount, DevicesAllowed, TypeInvariant, PTL

-----------------------------------------------------------------------------
\* Why a common user is resolved: every secret map but the first, empty one is
\* that of a list, and nobody is served or about to be under the empty one.
SecretsInv ==
  \/ /\ bySecret = {}
     /\ \A n \in Nodes : step[n] = "idle" /\ served[n] = {}
  \/ CommonUsers \subseteq bySecret

\* ReplaceUsers of one node never takes away a user that every list names, while
\* users are added and removed; run userstore_secrets shows it for the others.
THEOREM CommonUsersResolve == Spec => []CommonResolve
<1> USE UserStoreAssumption DEF UserStoreAssumption, applyVars
<1>1. Init => SecretsInv
  BY DEF Init, SecretsInv
<1>2. TypeInv /\ SecretsInv /\ [Next]_vars => SecretsInv'
  <2> SUFFICES ASSUME TypeInv, SecretsInv, [Next]_vars PROVE SecretsInv'
    OBVIOUS
  <2>t. TodoOK
    BY DEF TypeInv
  <2> USE DEF SecretsInv
  <2>1. ASSUME NEW n \in Nodes, NEW l \in Lists, ReplaceSecrets(n, l) PROVE SecretsInv'
    <3>1. bySecret' = DOMAIN l
      BY <2>1 DEF ReplaceSecrets
    <3>2. CommonUsers \subseteq DOMAIN l
      BY DEF CommonUsers
    <3> QED BY <3>1, <3>2
  <2>2. ASSUME UNCHANGED <<bySecret, step, served>> PROVE SecretsInv'
    BY <2>2
  <2>3. ASSUME NEW n \in Nodes, NEW u \in Users, ReplaceUser(n, u) PROVE SecretsInv'
    BY <2>3, <2>2 DEF ReplaceUser
  <2>4. ASSUME NEW n \in Nodes, Serve(n) \/ ServeFailed(n) PROVE SecretsInv'
    <3>1. step[n] = "shards" /\ bySecret' = bySecret
      BY <2>4 DEF Serve, ServeFailed
    <3> QED BY <3>1
  <2>5. ASSUME NEW c \in Conns, ConnStep(c) PROVE SecretsInv'
    BY <2>5, <2>2 DEF ConnStep, Connect, Resolve, Open, CloseConn
  <2>6. CASE Tick \/ UNCHANGED vars
    BY <2>6, <2>2 DEF Tick, vars
  <2> QED BY <2>1, <2>3, <2>4, <2>5, <2>6 DEF Next, ApplyStep
<1>3. SecretsInv => CommonResolve
  <2> SUFFICES ASSUME SecretsInv, NEW n \in SecretNodes
               PROVE  served[n] \cap CommonUsers \subseteq bySecret
    BY DEF CommonResolve
  <2> QED BY DEF SecretsInv
<1> QED BY <1>1, <1>2, <1>3, TypeInvariant, PTL DEF Spec
=============================================================================
