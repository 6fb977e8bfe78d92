--------------------------- MODULE Traffic_proofs ---------------------------
(***************************************************************************)
(* Proofs about module Traffic, for any nodes, users and connections.      *)
(***************************************************************************)
EXTENDS Traffic, FiniteSums, FiniteSetTheorems, TLAPS

\* Every counter of the traffic accounting keeps its type: no flush, close or
\* commit (TrackedConn.flush, Store.Close, Store.Commit) makes one negative.
THEOREM TypeCorrect == Spec => []TypeOK
<1> USE TrafficAssumption DEF TrafficAssumption
<1>1. Init => TypeOK
  <2> SUFFICES ASSUME Init PROVE TypeOK
    OBVIOUS
  <2>1. Zero \in [Nodes -> [Users -> Nat]]
    BY DEF Zero
  <2>2. 0 \in 0..MaxBytes
    OBVIOUS
  <2>3. /\ conn \in [Conns -> ConnState]
        /\ visit \in [Conns -> {"todo", "checked", "taken", "done"}]
        /\ report \in [Nodes -> {"idle", "sent", "accepted", "done"}]
    BY DEF Init, ConnState
  <2>4. /\ closed \in [Conns -> BOOLEAN]
        /\ last \in [Nodes -> BOOLEAN]
        /\ tracked \in SUBSET (Conns \ Packet)
        /\ flusherRun \in BOOLEAN
    BY DEF Init
  <2>5. /\ inflight \in [Conns -> {0, 1}]
        /\ carried \in [Conns -> 0..MaxBytes]
        /\ pending \in [Conns -> Nat]
        /\ held \in [Conns -> Nat]
        /\ flushed \in [Conns -> Nat]
        /\ flushers \in Nat
        /\ activeAll \in Int
    BY <2>2 DEF Init
  <2> QED BY <2>1, <2>3, <2>4, <2>5 DEF Init, TypeOK
<1>2. TypeOK /\ [Next]_vars => TypeOK'
  <2> SUFFICES ASSUME TypeOK, [Next]_vars PROVE TypeOK'
    OBVIOUS
  <2> USE DEF TypeOK, ConnState, connVars, sweepVars, gaugeVars, panelVars
  <2>1. ASSUME NEW c \in Conns, OpenUsage(c) \/ OpenGlobal(c) \/ WrapConn(c) \/ WrapPacketConn(c)
        PROVE  TypeOK'
    <3>1. CASE OpenUsage(c) BY <3>1 DEF OpenUsage
    <3>2. CASE OpenGlobal(c) BY <3>2 DEF OpenGlobal
    <3>3. CASE WrapConn(c) BY <3>3 DEF WrapConn
    <3>4. CASE WrapPacketConn(c) BY <3>4 DEF WrapPacketConn
    <3> QED BY <2>1, <3>1, <3>2, <3>3, <3>4
  <2>2. ASSUME NEW c \in Conns, Carry(c) \/ Account(c)
        PROVE  TypeOK'
    <3>1. CASE Carry(c) BY <3>1 DEF Carry
    <3>2. CASE Account(c)
      <4>1. pending[c] \in Nat /\ inflight[c] \in Nat
        OBVIOUS
      <4>2. pending' \in [Conns -> Nat]
        BY <3>2, <4>1 DEF Account
      <4>3. inflight' \in [Conns -> 0..1]
        BY <3>2 DEF Account
      <4> QED BY <3>2, <4>2, <4>3 DEF Account
    <3> QED BY <2>2, <3>1, <3>2
  <2>3. ASSUME NEW c \in Conns,
               CloseConn(c) \/ FinalFlush(c) \/ UnregisterConn(c) \/ StoreClose(c) \/ CloseInner(c)
        PROVE  TypeOK'
    <3>1. CASE CloseConn(c) BY <3>1 DEF CloseConn
    <3>2. CASE FinalFlush(c) BY <3>2 DEF FinalFlush
    <3>3. CASE UnregisterConn(c) BY <3>3 DEF UnregisterConn
    <3>4. CASE StoreClose(c)
      <4> DEFINE n == NodeOf[c]
                 u == UserOf[c]
      <4>1. active[n] \in [Users -> Nat] /\ active[n][u] \in Nat
        OBVIOUS
      <4>2. CASE active[n][u] > 0
        <5>1. active[n][u] - 1 \in Nat
          BY <4>1, <4>2
        <5>2. [active[n] EXCEPT ![u] = @ - 1] \in [Users -> Nat]
          BY <4>1, <5>1
        <5>3. active' \in [Nodes -> [Users -> Nat]]
          BY <3>4, <4>2, <5>2 DEF StoreClose
        <5>4. activeAll' \in Int
          BY <3>4, <4>2 DEF StoreClose
        <5> QED BY <3>4, <5>3, <5>4 DEF StoreClose
      <4>3. CASE ~(active[n][u] > 0)
        BY <3>4, <4>3 DEF StoreClose
      <4> QED BY <4>2, <4>3
    <3>5. CASE CloseInner(c) BY <3>5 DEF CloseInner
    <3> QED BY <2>3, <3>1, <3>2, <3>3, <3>4, <3>5
  <2>4. ASSUME NEW c \in Conns, SweepStep(c)
        PROVE  TypeOK'
    <3>1. CASE SweepCheck(c) BY <3>1 DEF SweepCheck
    <3>2. CASE SweepSwap(c) BY <3>2 DEF SweepSwap
    <3>3. CASE SweepAdd(c) BY <3>3 DEF SweepAdd
    <3> QED BY <2>4, <3>1, <3>2, <3>3 DEF SweepStep
  <2>5. CASE SweepStart
    BY <2>5 DEF SweepStart
  <2>6. ASSUME NEW n \in Nodes, ReportStep(n)
        PROVE  TypeOK'
    <3>1. CASE StopNode(n) BY <3>1 DEF StopNode
    <3>2. CASE Snapshot(n) BY <3>2 DEF Snapshot
    <3>3. CASE Deliver(n) BY <3>3 DEF Deliver, PanelAdds
    <3>4. CASE Unacked(n) BY <3>4 DEF Unacked, PanelAdds, AfterReport
    <3>5. CASE Lost(n) BY <3>5 DEF Lost, AfterReport
    <3>6. CASE Commit(n) BY <3>6 DEF Commit, Taken, AfterReport
    <3> QED BY <2>6, <3>1, <3>2, <3>3, <3>4, <3>5, <3>6 DEF ReportStep
  <2>7. CASE UNCHANGED vars
    BY <2>7 DEF vars
  <2> QED BY <2>1, <2>2, <2>3, <2>4, <2>5, <2>6, <2>7 DEF Next, ConnStep
<1> QED BY <1>1, <1>2, PTL DEF Spec

-----------------------------------------------------------------------------
\* The flusher holds bytes of a connection only between Swap and Add, so a
\* Swap never overwrites bytes it still holds.
HeldOnlyWhenTaken == \A c \in Conns : visit[c] # "taken" => held[c] = 0

ConservedInv == ConnBytesConserved /\ HeldOnlyWhenTaken

\* Read, Write, Close and the sweep conserve the bytes of every connection,
\* in any interleaving.
THEOREM BytesConserved == Spec => []ConnBytesConserved
<1> USE TrafficAssumption DEF TrafficAssumption
<1>1. Init => ConservedInv
  BY DEF Init, ConservedInv, ConnBytesConserved, Accounted, HeldOnlyWhenTaken
<1>2. TypeOK /\ ConservedInv /\ [Next]_vars => ConservedInv'
  <2> SUFFICES ASSUME TypeOK, ConservedInv, [Next]_vars PROVE ConservedInv'
    OBVIOUS
  <2> USE DEF ConservedInv, ConnBytesConserved, Accounted, HeldOnlyWhenTaken,
              connVars, sweepVars, gaugeVars, panelVars
  <2>a. inflight \in [Conns -> Nat]
    <3>1. inflight \in [Conns -> {0, 1}]
      BY DEF TypeOK
    <3>2. \A d \in Conns : inflight[d] \in Nat
      BY <3>1
    <3> QED BY <3>1, <3>2
  <2>b. carried \in [Conns -> Nat]
    BY DEF TypeOK
  <2>c. /\ pending \in [Conns -> Nat]
        /\ held \in [Conns -> Nat]
        /\ flushed \in [Conns -> Nat]
        /\ visit \in [Conns -> {"todo", "checked", "taken", "done"}]
    BY DEF TypeOK
  <2> USE <2>a, <2>b, <2>c
  <2>1. ASSUME UNCHANGED <<inflight, pending, carried, visit, held, flushed>>
        PROVE  ConservedInv'
    BY <2>1
  <2>2. ASSUME NEW c \in Conns, Carry(c) PROVE ConservedInv'
    BY <2>2 DEF Carry
  <2>3. ASSUME NEW c \in Conns, Account(c) PROVE ConservedInv'
    BY <2>3 DEF Account
  <2>4. ASSUME NEW c \in Conns, FinalFlush(c) PROVE ConservedInv'
    BY <2>4 DEF FinalFlush
  <2>5. CASE SweepStart
    BY <2>5 DEF SweepStart, TrackMuHeld
  <2>6. ASSUME NEW c \in Conns, SweepCheck(c) PROVE ConservedInv'
    BY <2>6 DEF SweepCheck
  <2>7. ASSUME NEW c \in Conns, SweepSwap(c) PROVE ConservedInv'
    BY <2>7 DEF SweepSwap
  <2>8. ASSUME NEW c \in Conns, SweepAdd(c) PROVE ConservedInv'
    BY <2>8 DEF SweepAdd
  <2>9. ASSUME NEW c \in Conns,
               \/ OpenUsage(c) \/ OpenGlobal(c) \/ WrapConn(c) \/ WrapPacketConn(c)
               \/ CloseConn(c) \/ UnregisterConn(c) \/ StoreClose(c) \/ CloseInner(c)
        PROVE  ConservedInv'
    BY <2>9, <2>1 DEF OpenUsage, OpenGlobal, WrapConn, WrapPacketConn,
                      CloseConn, UnregisterConn, StoreClose, CloseInner
  <2>10. ASSUME NEW n \in Nodes, ReportStep(n) PROVE ConservedInv'
    BY <2>10 DEF ReportStep, StopNode, Snapshot, Deliver, Unacked, Lost, Commit
  <2>11. CASE UNCHANGED vars
    BY <2>11 DEF vars
  <2> QED BY <2>2, <2>3, <2>4, <2>5, <2>6, <2>7, <2>8, <2>9, <2>10, <2>11
          DEF Next, ConnStep, SweepStep
<1> QED BY <1>1, <1>2, TypeCorrect, PTL DEF Spec, ConservedInv

-----------------------------------------------------------------------------
\* What the panel has been told of and Commit has not taken out yet.
Unsettled(n, u) == IF report[n] = "accepted" THEN snap[n][u] ELSE 0

\* A report in flight is covered by the ledger, and what was settled before it,
\* together with what is about to be, by what the panel received.
ReportInv ==
  /\ SnapshotWithinUsage
  /\ \A n \in Nodes, u \in Users : committed[n][u] + Unsettled(n, u) <= received[n][u]

\* Steps of the flusher and of Close only add to the ledger.
LedgerGrows ==
  /\ UNCHANGED panelVars
  /\ usage' \in [Nodes -> [Users -> Nat]]
  /\ \A n \in Nodes, u \in Users : usage[n][u] <= usage'[n][u]

LEMMA FlushGrows ==
  ASSUME TypeOK, NEW c \in Conns, FinalFlush(c) \/ SweepAdd(c)
  PROVE  /\ UNCHANGED panelVars
         /\ \E k \in Nat : usage' = [usage EXCEPT ![NodeOf[c]][UserOf[c]] = @ + k]
         /\ LedgerGrows
<1> USE TrafficAssumption DEF TrafficAssumption
<1>t. /\ usage \in [Nodes -> [Users -> Nat]]
      /\ pending[c] \in Nat
      /\ held[c] \in Nat
      /\ NodeOf[c] \in Nodes
      /\ UserOf[c] \in Users
  BY DEF TypeOK
<1>1. UNCHANGED panelVars
  BY DEF FinalFlush, SweepAdd
<1>2. PICK k \in Nat : usage' = [usage EXCEPT ![NodeOf[c]][UserOf[c]] = @ + k]
  <2>1. CASE FinalFlush(c) /\ closed[c] BY <2>1, <1>t DEF FinalFlush
  <2>2. CASE FinalFlush(c) /\ ~closed[c] BY <2>2, <1>t DEF FinalFlush
  <2>3. CASE SweepAdd(c) BY <2>3, <1>t DEF SweepAdd
  <2> QED BY <2>1, <2>2, <2>3
<1>3. usage' \in [Nodes -> [Users -> Nat]]
  BY <1>2, <1>t
<1>4. \A n \in Nodes, u \in Users : usage[n][u] <= usage'[n][u]
  BY <1>2, <1>t
<1> QED BY <1>1, <1>2, <1>3, <1>4 DEF LedgerGrows

\* The steps that touch neither the ledger nor the reports.
LEMMA QuietSteps ==
  ASSUME NEW c \in Conns,
         \/ OpenUsage(c) \/ OpenGlobal(c) \/ WrapConn(c) \/ WrapPacketConn(c)
         \/ Carry(c) \/ Account(c)
         \/ CloseConn(c) \/ UnregisterConn(c) \/ StoreClose(c) \/ CloseInner(c)
         \/ SweepStart \/ SweepCheck(c) \/ SweepSwap(c)
  PROVE  UNCHANGED <<usage, panelVars>>
BY DEF OpenUsage, OpenGlobal, WrapConn, WrapPacketConn, Carry, Account, CloseConn,
       UnregisterConn, StoreClose, CloseInner, SweepStart, SweepCheck, SweepSwap

\* A node's report never claims more than its ledger holds, and nothing leaves
\* the ledger that the panel has not received, whatever the panel answers.
THEOREM ReportsCovered == Spec => [](SnapshotWithinUsage /\ SettledWasReceived)
<1> USE TrafficAssumption DEF TrafficAssumption
<1>1. Init => ReportInv
  BY DEF Init, ReportInv, SnapshotWithinUsage, Unsettled, Zero
<1>2. TypeOK /\ ReportInv /\ [Next]_vars => ReportInv'
  <2> SUFFICES ASSUME TypeOK, ReportInv, [Next]_vars PROVE ReportInv'
    OBVIOUS
  <2> USE DEF ReportInv, SnapshotWithinUsage, Unsettled, panelVars
  <2>t. /\ usage \in [Nodes -> [Users -> Nat]]
        /\ snap \in [Nodes -> [Users -> Nat]]
        /\ received \in [Nodes -> [Users -> Nat]]
        /\ committed \in [Nodes -> [Users -> Nat]]
        /\ report \in [Nodes -> {"idle", "sent", "accepted", "done"}]
    BY DEF TypeOK
  <2>1. CASE UNCHANGED <<usage, panelVars>>
    BY <2>1
  <2>2. ASSUME LedgerGrows PROVE ReportInv'
    BY <2>2, <2>t DEF LedgerGrows
  <2>3. ASSUME NEW n \in Nodes, Snapshot(n) PROVE ReportInv'
    BY <2>3, <2>t DEF Snapshot
  <2>4. ASSUME NEW n \in Nodes, Deliver(n) PROVE ReportInv'
    BY <2>4, <2>t DEF Deliver, PanelAdds
  <2>5. ASSUME NEW n \in Nodes, Unacked(n) PROVE ReportInv'
    BY <2>5, <2>t DEF Unacked, PanelAdds, AfterReport
  <2>6. ASSUME NEW n \in Nodes, Lost(n) PROVE ReportInv'
    BY <2>6, <2>t DEF Lost, AfterReport
  <2>7. ASSUME NEW n \in Nodes, Commit(n) PROVE ReportInv'
    BY <2>7, <2>t DEF Commit, Taken, AfterReport
  <2>8. ASSUME NEW n \in Nodes, StopNode(n) PROVE ReportInv'
    BY <2>8, <2>t DEF StopNode
  <2>9. ASSUME NEW c \in Conns, ConnStep(c) \/ SweepStep(c) PROVE ReportInv'
    <3>1. CASE FinalFlush(c) \/ SweepAdd(c)
      BY <3>1, <2>2, FlushGrows
    <3>2. CASE ~(FinalFlush(c) \/ SweepAdd(c))
      <4> HIDE DEF ReportInv, SnapshotWithinUsage, Unsettled, panelVars
      <4> QED BY <2>9, <3>2, <2>1, QuietSteps DEF ConnStep, SweepStep
    <3> QED BY <3>1, <3>2
  <2>10. CASE SweepStart
    BY <2>10, <2>1 DEF SweepStart
  <2>11. CASE UNCHANGED vars
    BY <2>11, <2>1 DEF vars
  <2> QED BY <2>3, <2>4, <2>5, <2>6, <2>7, <2>8, <2>9, <2>10, <2>11
          DEF Next, ReportStep
<1>3. TypeOK /\ ReportInv => SnapshotWithinUsage /\ SettledWasReceived
  <2> SUFFICES ASSUME TypeOK, ReportInv, NEW n \in Nodes, NEW u \in Users
               PROVE  committed[n][u] <= received[n][u]
    BY DEF ReportInv, SettledWasReceived
  <2>1. /\ committed[n][u] \in Nat /\ received[n][u] \in Nat /\ snap[n][u] \in Nat
        /\ committed[n][u] + Unsettled(n, u) <= received[n][u]
    BY DEF TypeOK, ReportInv
  <2> QED BY <2>1 DEF Unsettled
<1> QED BY <1>1, <1>2, <1>3, TypeCorrect, PTL DEF Spec

\* Whatever reports are lost or unacknowledged, Commit takes out of the ledger
\* only what the panel has received.
THEOREM NothingForgotten == Spec => []SettledWasReceived
BY ReportsCovered, PTL

-----------------------------------------------------------------------------
(* What the ledger holds is a sum over connections (module FiniteSums).    *)

\* The sweep and the flush of Close enter what they take from one connection
\* in the ledger of its own user and node.
LEMMA FlushEnters ==
  ASSUME TypeOK, NEW c \in Conns, FinalFlush(c) \/ SweepAdd(c)
  PROVE  \E k \in Nat : /\ usage' = [usage EXCEPT ![NodeOf[c]][UserOf[c]] = @ + k]
                        /\ flushed' = [flushed EXCEPT ![c] = @ + k]
                        /\ committed' = committed
<1>1. pending[c] \in Nat /\ held[c] \in Nat /\ 0 \in Nat
  BY DEF TypeOK
<1>2. CASE FinalFlush(c) /\ closed[c]
  BY <1>1, <1>2 DEF FinalFlush, panelVars
<1>3. CASE FinalFlush(c) /\ ~closed[c]
  BY <1>1, <1>3 DEF FinalFlush, panelVars
<1>4. CASE SweepAdd(c)
  BY <1>1, <1>4 DEF SweepAdd, panelVars
<1> QED BY <1>2, <1>3, <1>4

\* One connection flushed k more: so did those of its user and node, no others.
LEMMA FlushedSum ==
  ASSUME TrafficAssumption, TypeOK, TypeOK', NEW c \in Conns, NEW k \in Nat,
         flushed' = [flushed EXCEPT ![c] = @ + k],
         NEW n \in Nodes, NEW u \in Users
  PROVE  /\ SumFunctionOnSet(flushed, ConnsOf(n, u)) \in Int
         /\ SumFunctionOnSet(flushed', ConnsOf(n, u)) =
              IF n = NodeOf[c] /\ u = UserOf[c]
                THEN SumFunctionOnSet(flushed, ConnsOf(n, u)) + k
                ELSE SumFunctionOnSet(flushed, ConnsOf(n, u))
<1> DEFINE S == ConnsOf(n, u)
           f == flushed
           g == flushed'
<1>1. f \in [Conns -> Nat] /\ g \in [Conns -> Nat]
  BY DEF TypeOK
<1>2. g[c] = f[c] + k /\ \A d \in Conns : d # c => f[d] = g[d]
  BY <1>1
<1>3. S \in SUBSET Conns /\ (c \in S <=> n = NodeOf[c] /\ u = UserOf[c])
  BY DEF ConnsOf
<1> HIDE DEF S, f, g
<1>4. IsFiniteSet(S)
  BY <1>3, FS_Subset DEF TrafficAssumption
<1>5. \A d \in S : f[d] \in Int /\ g[d] \in Int
  BY <1>1, <1>3
<1>6. SumFunctionOnSet(f, S) \in Int
  BY <1>4, <1>5, SumInt
<1>7. CASE c \in S
  <2>0. \A d \in S : d # c => f[d] = g[d]
    BY <1>2, <1>3
  <2>1. SumFunctionOnSet(g, S) = SumFunctionOnSet(f, S) - f[c] + g[c]
    BY <2>0, <1>4, <1>5, <1>7, SumChange
  <2>2. SumFunctionOnSet(g, S) = SumFunctionOnSet(f, S) + k
    BY <1>2, <1>5, <1>6, <1>7, <2>1
  <2> QED BY <1>3, <1>6, <1>7, <2>2 DEF S, f, g
<1>8. CASE c \notin S
  <2>1. SumFunctionOnSet(f, S) = SumFunctionOnSet(g, S)
    BY <1>2, <1>3, <1>4, <1>8, SumSame
  <2> QED BY <1>3, <1>6, <1>8, <2>1 DEF S, f, g
<1> QED BY <1>7, <1>8

\* The steps that neither flush nor commit.
LEMMA LedgerUntouched ==
  ASSUME [Next]_vars,
         \A c \in Conns : ~(FinalFlush(c) \/ SweepAdd(c)),
         \A n \in Nodes : ~Commit(n)
  PROVE  UNCHANGED <<usage, flushed, committed>>
<1> USE DEF connVars, sweepVars, gaugeVars, panelVars
<1>1. ASSUME NEW c \in Conns,
             \/ OpenUsage(c) \/ OpenGlobal(c) \/ WrapConn(c) \/ WrapPacketConn(c)
             \/ Carry(c) \/ Account(c)
      PROVE  UNCHANGED <<usage, flushed, committed>>
  BY <1>1 DEF OpenUsage, OpenGlobal, WrapConn, WrapPacketConn, Carry, Account
<1>2. ASSUME NEW c \in Conns,
             CloseConn(c) \/ UnregisterConn(c) \/ StoreClose(c) \/ CloseInner(c)
      PROVE  UNCHANGED <<usage, flushed, committed>>
  BY <1>2 DEF CloseConn, UnregisterConn, StoreClose, CloseInner
<1>3. ASSUME NEW c \in Conns, SweepCheck(c) \/ SweepSwap(c)
      PROVE  UNCHANGED <<usage, flushed, committed>>
  BY <1>3 DEF SweepCheck, SweepSwap
<1>4. ASSUME NEW n \in Nodes, StopNode(n) \/ Snapshot(n) \/ Deliver(n) \/ Unacked(n) \/ Lost(n)
      PROVE  UNCHANGED <<usage, flushed, committed>>
  BY <1>4 DEF StopNode, Snapshot, Deliver, Unacked, Lost
<1>5. CASE SweepStart \/ UNCHANGED vars
  BY <1>5 DEF SweepStart, vars
<1> QED BY <1>1, <1>2, <1>3, <1>4, <1>5 DEF Next, ConnStep, SweepStep, ReportStep

\* Whatever the flusher, the closes and the reports do at the same time, what the
\* connections of a user flushed on a node is in its ledger or was committed.
THEOREM LedgerKept == Spec => []LedgerBalanced
<1> USE TrafficAssumption
<1>1. Init => LedgerBalanced
  <2> SUFFICES ASSUME Init, NEW n \in Nodes, NEW u \in Users
               PROVE  SumFunctionOnSet(flushed, ConnsOf(n, u)) = usage[n][u] + committed[n][u]
    BY DEF LedgerBalanced
  <2>1. ConnsOf(n, u) \in SUBSET Conns /\ \A c \in Conns : flushed[c] = 0
    BY DEF Init, ConnsOf
  <2>2. IsFiniteSet(ConnsOf(n, u))
    BY <2>1, FS_Subset DEF TrafficAssumption
  <2>3. \A c \in ConnsOf(n, u) : flushed[c] = 0
    BY <2>1
  <2>4. SumFunctionOnSet(flushed, ConnsOf(n, u)) = 0
    BY <2>2, <2>3, SumZero
  <2> QED BY <2>4 DEF Init, Zero
<1>2. TypeOK /\ TypeOK' /\ LedgerBalanced /\ [Next]_vars => LedgerBalanced'
  <2> SUFFICES ASSUME TypeOK, TypeOK', LedgerBalanced, [Next]_vars PROVE LedgerBalanced'
    OBVIOUS
  <2>t. /\ usage \in [Nodes -> [Users -> Nat]]
        /\ committed \in [Nodes -> [Users -> Nat]]
    BY DEF TypeOK
  <2>1. ASSUME NEW c \in Conns, FinalFlush(c) \/ SweepAdd(c) PROVE LedgerBalanced'
    <3>1. PICK k \in Nat : /\ usage' = [usage EXCEPT ![NodeOf[c]][UserOf[c]] = @ + k]
                           /\ flushed' = [flushed EXCEPT ![c] = @ + k]
                           /\ committed' = committed
      BY <2>1, FlushEnters
    <3>2. ASSUME NEW n \in Nodes, NEW u \in Users
          PROVE  SumFunctionOnSet(flushed', ConnsOf(n, u)) = usage'[n][u] + committed'[n][u]
      <4>1. SumFunctionOnSet(flushed, ConnsOf(n, u)) = usage[n][u] + committed[n][u]
        BY DEF LedgerBalanced
      <4>2. /\ SumFunctionOnSet(flushed, ConnsOf(n, u)) \in Int
            /\ SumFunctionOnSet(flushed', ConnsOf(n, u)) =
                 IF n = NodeOf[c] /\ u = UserOf[c]
                   THEN SumFunctionOnSet(flushed, ConnsOf(n, u)) + k
                   ELSE SumFunctionOnSet(flushed, ConnsOf(n, u))
        BY <3>1, FlushedSum
      <4>3. usage'[n][u] = IF n = NodeOf[c] /\ u = UserOf[c] THEN usage[n][u] + k ELSE usage[n][u]
        BY <2>t, <3>1
      <4>4. usage[n][u] \in Nat /\ committed[n][u] \in Nat
        BY <2>t
      <4> QED BY <3>1, <4>1, <4>2, <4>3, <4>4
    <3> QED BY <3>2 DEF LedgerBalanced, ConnsOf
  <2>2. ASSUME NEW m \in Nodes, Commit(m) PROVE LedgerBalanced'
    <3>1. flushed' = flushed
      BY <2>2 DEF Commit, sweepVars
    <3>2. ASSUME NEW n \in Nodes, NEW u \in Users
          PROVE  usage'[n][u] + committed'[n][u] = usage[n][u] + committed[n][u]
      <4>1. usage[n][u] \in Nat /\ committed[n][u] \in Nat /\ snap[n][u] \in Nat
        BY DEF TypeOK
      <4>2. CASE n = m
        BY <2>2, <2>t, <4>1, <4>2 DEF Commit, Taken
      <4>3. CASE n # m
        BY <2>2, <2>t, <4>3 DEF Commit
      <4> QED BY <4>2, <4>3
    <3> QED BY <3>1, <3>2 DEF LedgerBalanced, ConnsOf
  <2>3. CASE UNCHANGED <<usage, flushed, committed>>
    BY <2>3 DEF LedgerBalanced, ConnsOf
  <2> QED BY <2>1, <2>2, <2>3, LedgerUntouched
<1> QED BY <1>1, <1>2, TypeCorrect, PTL DEF Spec

-----------------------------------------------------------------------------
\* A connection that enters or leaves a finite set changes its size by one, and
\* the part of another user or node not at all.
LEMMA OneMore ==
  ASSUME TrafficAssumption, NEW S \in SUBSET Conns, NEW c \in Conns, c \notin S
  PROVE  Cardinality(S \cup {c}) = Cardinality(S) + 1 /\ Cardinality(S) \in Nat
<1>1. IsFiniteSet(S) /\ Cardinality(S) \in Nat
  BY FS_Subset, FS_CardinalityType DEF TrafficAssumption
<1> QED BY <1>1, FS_AddElement

\* The same for the connections of one user on one node.
LEMMA OneMoreOf ==
  ASSUME TrafficAssumption, NEW S \in SUBSET Conns, NEW c \in Conns, c \notin S,
         NEW n \in Nodes, NEW u \in Users
  PROVE  /\ Cardinality(S \cap ConnsOf(n, u)) \in Nat
         /\ Cardinality((S \cup {c}) \cap ConnsOf(n, u)) =
              IF n = NodeOf[c] /\ u = UserOf[c]
                THEN Cardinality(S \cap ConnsOf(n, u)) + 1 ELSE Cardinality(S \cap ConnsOf(n, u))
<1> DEFINE R == S \cap ConnsOf(n, u)
<1>1. R \in SUBSET Conns /\ c \notin R
  OBVIOUS
<1>2. Cardinality(R \cup {c}) = Cardinality(R) + 1 /\ Cardinality(R) \in Nat
  <2> HIDE DEF R
  <2> QED BY <1>1, OneMore
<1>3. CASE n = NodeOf[c] /\ u = UserOf[c]
  <2>1. (S \cup {c}) \cap ConnsOf(n, u) = R \cup {c}
    BY <1>3 DEF ConnsOf
  <2> QED BY <1>2, <1>3, <2>1
<1>4. CASE ~(n = NodeOf[c] /\ u = UserOf[c])
  <2>1. (S \cup {c}) \cap ConnsOf(n, u) = R
    BY <1>4 DEF ConnsOf
  <2> QED BY <1>2, <1>4, <2>1
<1> QED BY <1>3, <1>4

\* The steps that neither open nor close a connection in the store.
LEMMA GaugesKept ==
  ASSUME TypeOK, [Next]_vars,
         \A c \in Conns : ~(OpenUsage(c) \/ OpenGlobal(c) \/ StoreClose(c))
  PROVE  UNCHANGED gaugeVars /\ Counted' = Counted /\ CountedAll' = CountedAll
<1> USE DEF gaugeVars, connVars
<1>1. ASSUME UNCHANGED <<conn, gaugeVars>>
      PROVE  UNCHANGED gaugeVars /\ Counted' = Counted /\ CountedAll' = CountedAll
  BY <1>1 DEF Counted, CountedAll
<1>2. ASSUME NEW c \in Conns, Carry(c) \/ Account(c) \/ SweepStep(c)
      PROVE  UNCHANGED <<conn, gaugeVars>>
  BY <1>2 DEF Carry, Account, SweepStep, SweepCheck, SweepSwap, SweepAdd
<1>3. ASSUME NEW c \in Conns,
             \/ WrapConn(c) \/ WrapPacketConn(c) \/ CloseConn(c) \/ FinalFlush(c)
             \/ UnregisterConn(c) \/ CloseInner(c)
      PROVE  UNCHANGED gaugeVars /\ Counted' = Counted /\ CountedAll' = CountedAll
  <2>1. UNCHANGED gaugeVars
    BY <1>3 DEF WrapConn, WrapPacketConn, CloseConn, FinalFlush, UnregisterConn, CloseInner
  <2>2. conn \in [Conns -> ConnState]
    BY DEF TypeOK
  <2>3. CASE WrapConn(c) \/ WrapPacketConn(c)
    BY <2>1, <2>2, <2>3 DEF WrapConn, WrapPacketConn, Counted, CountedAll
  <2>4. CASE CloseConn(c) \/ CloseInner(c)
    BY <2>1, <2>2, <2>4 DEF CloseConn, CloseInner, Counted, CountedAll
  <2>5. CASE FinalFlush(c) \/ UnregisterConn(c)
    BY <2>1, <2>2, <2>5 DEF FinalFlush, UnregisterConn, Counted, CountedAll
  <2> QED BY <1>3, <2>3, <2>4, <2>5
<1>4. ASSUME NEW n \in Nodes, ReportStep(n)
      PROVE  UNCHANGED <<conn, gaugeVars>>
  BY <1>4 DEF ReportStep, StopNode, Snapshot, Deliver, Unacked, Lost, Commit
<1>5. CASE SweepStart \/ UNCHANGED vars
  BY <1>1, <1>5 DEF SweepStart, vars
<1> QED BY <1>1, <1>2, <1>3, <1>4, <1>5 DEF Next, ConnStep

\* Whatever opens and closes at the same time, the connections of each user and
\* those of the process are counted exactly, and no gauge is ever taken below
\* zero: the guard in Store.Close never skips.
THEOREM GaugesCount == Spec => []GaugesExact
<1> USE TrafficAssumption
<1>1. Init => GaugesExact
  <2> SUFFICES ASSUME Init PROVE GaugesExact
    OBVIOUS
  <2>1. Counted = {} /\ CountedAll = {}
    BY DEF Init, Counted, CountedAll
  <2>2. \A n \in Nodes, u \in Users : Counted \cap ConnsOf(n, u) = {}
    BY <2>1
  <2> QED BY <2>1, <2>2, FS_EmptySet DEF Init, Zero, GaugesExact
<1>2. TypeOK /\ GaugesExact /\ [Next]_vars => GaugesExact'
  <2> SUFFICES ASSUME TypeOK, GaugesExact, [Next]_vars PROVE GaugesExact'
    OBVIOUS
  <2>t. /\ conn \in [Conns -> ConnState] /\ active \in [Nodes -> [Users -> Nat]] /\ activeAll \in Int
        /\ \A c \in Conns : NodeOf[c] \in Nodes /\ UserOf[c] \in Users
        /\ Counted \subseteq Conns /\ CountedAll \subseteq Conns
    BY DEF TypeOK, TrafficAssumption, Counted, CountedAll
  <2>1. ASSUME NEW c \in Conns, OpenUsage(c) PROVE GaugesExact'
    <3>1. c \notin Counted /\ Counted' = Counted \cup {c} /\ CountedAll' = CountedAll
      BY <2>1, <2>t DEF OpenUsage, Counted, CountedAll
    <3>2. active' = [active EXCEPT ![NodeOf[c]][UserOf[c]] = @ + 1] /\ activeAll' = activeAll
      BY <2>1 DEF OpenUsage
    <3>3. \A n \in Nodes, u \in Users :
            active'[n][u] = IF n = NodeOf[c] /\ u = UserOf[c] THEN active[n][u] + 1 ELSE active[n][u]
      BY <3>2, <2>t
    <3>4. ASSUME NEW n \in Nodes, NEW u \in Users
          PROVE  active'[n][u] = Cardinality(Counted' \cap ConnsOf(n, u))
      <4>1. active[n][u] = Cardinality(Counted \cap ConnsOf(n, u))
        BY DEF GaugesExact
      <4>2. Cardinality((Counted \cup {c}) \cap ConnsOf(n, u)) =
              IF n = NodeOf[c] /\ u = UserOf[c] THEN Cardinality(Counted \cap ConnsOf(n, u)) + 1
                                               ELSE Cardinality(Counted \cap ConnsOf(n, u))
        <5>1. Counted \in SUBSET Conns /\ c \notin Counted
          BY <2>t, <3>1
        <5> HIDE DEF Counted
        <5> QED BY <5>1, OneMoreOf
      <4>3. Counted' = Counted \cup {c}
        BY <3>1
      <4> HIDE DEF Counted
      <4> QED BY <3>3, <4>1, <4>2, <4>3
    <3>5. activeAll' = Cardinality(CountedAll')
      BY <3>1, <3>2 DEF GaugesExact
    <3> QED BY <3>4, <3>5 DEF GaugesExact, ConnsOf
  <2>2. ASSUME NEW c \in Conns, OpenGlobal(c) PROVE GaugesExact'
    <3>1. c \notin CountedAll /\ CountedAll' = CountedAll \cup {c} /\ Counted' = Counted
      BY <2>2, <2>t DEF OpenGlobal, Counted, CountedAll
    <3>2. active' = active /\ activeAll' = activeAll + 1
      BY <2>2 DEF OpenGlobal
    <3>3. activeAll' = Cardinality(CountedAll')
      BY <3>1, <3>2, <2>t, OneMore DEF GaugesExact
    <3> QED BY <3>1, <3>2, <3>3 DEF GaugesExact, ConnsOf
  <2>3. ASSUME NEW c \in Conns, StoreClose(c) PROVE GaugesExact'
    <3>1. /\ c \notin Counted' /\ Counted = Counted' \cup {c} /\ Counted' \subseteq Conns
          /\ c \notin CountedAll' /\ CountedAll = CountedAll' \cup {c} /\ CountedAll' \subseteq Conns
      <4>1. conn[c] = "release" /\ conn' = [conn EXCEPT ![c] = "closed"]
        BY <2>3 DEF StoreClose
      <4>2. c \notin Counted' /\ Counted = Counted' \cup {c}
        BY <4>1, <2>t DEF Counted
      <4>3. c \notin CountedAll' /\ CountedAll = CountedAll' \cup {c}
        BY <4>1, <2>t DEF CountedAll
      <4> QED BY <4>2, <4>3, <2>t
    <3>2. ASSUME NEW n \in Nodes, NEW u \in Users
          PROVE  /\ Cardinality(Counted' \cap ConnsOf(n, u)) \in Nat
                 /\ active[n][u] = IF n = NodeOf[c] /\ u = UserOf[c]
                                    THEN Cardinality(Counted' \cap ConnsOf(n, u)) + 1
                                    ELSE Cardinality(Counted' \cap ConnsOf(n, u))
      <4> DEFINE T == Counted'
                 S == Counted
      <4>1. active[n][u] = Cardinality(S \cap ConnsOf(n, u))
        BY DEF GaugesExact
      <4>2. c \notin T /\ S = T \cup {c} /\ T \subseteq Conns
        BY <3>1
      <4> HIDE DEF T, S
      <4>3. /\ Cardinality(T \cap ConnsOf(n, u)) \in Nat
            /\ Cardinality((T \cup {c}) \cap ConnsOf(n, u)) =
                 IF n = NodeOf[c] /\ u = UserOf[c] THEN Cardinality(T \cap ConnsOf(n, u)) + 1
                                                  ELSE Cardinality(T \cap ConnsOf(n, u))
        <5>1. T \in SUBSET Conns /\ c \notin T
          BY <4>2
        <5>2. Cardinality(T \cap ConnsOf(n, u)) \in Nat
          BY <5>1, OneMoreOf
        <5>3. Cardinality((T \cup {c}) \cap ConnsOf(n, u)) =
                IF n = NodeOf[c] /\ u = UserOf[c] THEN Cardinality(T \cap ConnsOf(n, u)) + 1
                                                 ELSE Cardinality(T \cap ConnsOf(n, u))
          BY <5>1, OneMoreOf
        <5> QED BY <5>2, <5>3
      <4>4. /\ Cardinality(T \cap ConnsOf(n, u)) \in Nat
            /\ active[n][u] = IF n = NodeOf[c] /\ u = UserOf[c]
                               THEN Cardinality(T \cap ConnsOf(n, u)) + 1
                               ELSE Cardinality(T \cap ConnsOf(n, u))
        BY <4>1, <4>2, <4>3
      <4> QED BY <4>4 DEF T
    <3>3. Cardinality(CountedAll) = Cardinality(CountedAll') + 1 /\ Cardinality(CountedAll') \in Nat
      BY <3>1, OneMore
    <3>4. active[NodeOf[c]][UserOf[c]] > 0
      <4>1. NodeOf[c] \in Nodes /\ UserOf[c] \in Users
        BY <2>t
      <4>2. /\ Cardinality(Counted' \cap ConnsOf(NodeOf[c], UserOf[c])) \in Nat
            /\ active[NodeOf[c]][UserOf[c]] =
                 Cardinality(Counted' \cap ConnsOf(NodeOf[c], UserOf[c])) + 1
        BY <3>2, <4>1
      <4> QED BY <4>2
    <3>5. active' = [active EXCEPT ![NodeOf[c]][UserOf[c]] = @ - 1] /\ activeAll' = activeAll - 1
      BY <2>3, <3>4 DEF StoreClose
    <3>6. \A n \in Nodes, u \in Users :
            active'[n][u] = IF n = NodeOf[c] /\ u = UserOf[c] THEN active[n][u] - 1 ELSE active[n][u]
      BY <3>5, <2>t
    <3>7. ASSUME NEW n \in Nodes, NEW u \in Users
          PROVE  active'[n][u] = Cardinality(Counted' \cap ConnsOf(n, u))
      BY <3>2, <3>6
    <3>8. activeAll' = Cardinality(CountedAll')
      BY <3>3, <3>5, <2>t DEF GaugesExact
    <3> QED BY <3>7, <3>8 DEF GaugesExact, ConnsOf
  <2>4. CASE \A c \in Conns : ~(OpenUsage(c) \/ OpenGlobal(c) \/ StoreClose(c))
    BY <2>4, GaugesKept DEF GaugesExact, ConnsOf, gaugeVars
  <2> QED BY <2>1, <2>2, <2>3, <2>4
<1> QED BY <1>1, <1>2, TypeCorrect, PTL DEF Spec

-----------------------------------------------------------------------------
\* When the answer of the panel is never lost, the detailed accounting with its
\* counters, flusher and reports implements the abstract ledger: every byte
\* entered in usage is billed once.
THEOREM MeteringRefined ==
  ASSUME "unacked" \notin PanelFaults
  PROVE  Spec => BilledOnce
<1> USE TrafficAssumption DEF TrafficAssumption
<1> DEFINE Owed(n, u) == usage[n][u] - Unsettled(n, u)
           unbilled == [n \in Nodes |-> [u \in Users |-> Owed(n, u)]]
<1>1. Init => Metered!Init
  BY DEF Init, Metered!Init, Zero
<1>2. TypeOK /\ TypeOK' /\ SnapshotWithinUsage /\ SnapshotWithinUsage' /\ [Next]_vars
        => [Metered!Next]_(Metered!vars)
  <2> SUFFICES ASSUME TypeOK, TypeOK', SnapshotWithinUsage, SnapshotWithinUsage', [Next]_vars
               PROVE  [Metered!Next]_(Metered!vars)
    OBVIOUS
  <2> USE DEF Unsettled, panelVars
  <2>t. /\ usage \in [Nodes -> [Users -> Nat]] /\ usage' \in [Nodes -> [Users -> Nat]]
        /\ snap \in [Nodes -> [Users -> Nat]] /\ snap' \in [Nodes -> [Users -> Nat]]
        /\ received \in [Nodes -> [Users -> Nat]] /\ received' \in [Nodes -> [Users -> Nat]]
    BY DEF TypeOK
  <2>o. ASSUME NEW n \in Nodes, NEW u \in Users
        PROVE  Owed(n, u) \in Nat /\ Owed(n, u)' \in Nat
    BY <2>t DEF SnapshotWithinUsage
  <2>l. /\ unbilled \in Metered!Ledger /\ unbilled' \in Metered!Ledger
        /\ received \in Metered!Ledger /\ received' \in Metered!Ledger
    BY <2>o, <2>t DEF Metered!Ledger
  <2>s. ASSUME \A n \in Nodes, u \in Users : Owed(n, u)' = Owed(n, u), UNCHANGED received
        PROVE  UNCHANGED Metered!vars
    BY <2>s DEF Metered!vars
  <2>1. CASE UNCHANGED <<usage, panelVars>>
    BY <2>1, <2>s
  <2>2. ASSUME NEW c \in Conns, FinalFlush(c) \/ SweepAdd(c)
        PROVE  [Metered!Next]_(Metered!vars)
    <3> DEFINE n == NodeOf[c]
               u == UserOf[c]
    <3>1. UNCHANGED panelVars
      BY <2>2, FlushGrows
    <3>2. PICK k \in Nat : usage' = [usage EXCEPT ![n][u] = @ + k]
      BY <2>2, FlushGrows
    <3>3. n \in Nodes /\ u \in Users
      OBVIOUS
    <3>4. CASE k = 0
      <4>1. UNCHANGED usage
        BY <3>2, <3>4, <2>t, <3>3
      <4> QED BY <4>1, <3>1, <2>1
    <3>5. CASE k > 0
      <4>1. Owed(n, u)' > Owed(n, u)
        BY <3>1, <3>2, <3>3, <3>5, <2>t
      <4>2. \A m \in Nodes, v \in Users : <<m, v>> # <<n, u>> => Owed(m, v)' = Owed(m, v)
        BY <3>1, <3>2, <3>3, <2>t
      <4>3. Metered!Meter(n, u)
        BY <4>1, <4>2, <2>l, <3>1, <3>3 DEF Metered!Meter
      <4> QED BY <4>3, <3>3 DEF Metered!Next
    <3> QED BY <3>4, <3>5
  <2>3. ASSUME NEW n \in Nodes, StopNode(n) \/ Snapshot(n) \/ Lost(n)
        PROVE  UNCHANGED Metered!vars
    <3>1. \A m \in Nodes, u \in Users : Owed(m, u)' = Owed(m, u)
      BY <2>3, <2>t DEF StopNode, Snapshot, Lost, AfterReport, TypeOK
    <3> QED BY <2>3, <2>s, <3>1 DEF StopNode, Snapshot, Lost
  <2>4. ASSUME NEW n \in Nodes, Commit(n) PROVE UNCHANGED Metered!vars
    <3>1. ASSUME NEW u \in Users PROVE Owed(n, u)' = Owed(n, u)
      BY <2>4, <2>t DEF Commit, Taken, AfterReport, SnapshotWithinUsage, TypeOK
    <3>2. ASSUME NEW m \in Nodes, NEW u \in Users, m # n PROVE Owed(m, u)' = Owed(m, u)
      BY <2>4, <3>2, <2>t DEF Commit, TypeOK
    <3> QED BY <2>4, <2>s, <3>1, <3>2 DEF Commit
  <2>5. ASSUME NEW n \in Nodes, Deliver(n) PROVE Metered!Next
    <3>1. ASSUME NEW u \in Users
          PROVE  /\ Owed(n, u)' <= Owed(n, u)
                 /\ received'[n][u] - received[n][u] = Owed(n, u) - Owed(n, u)'
      BY <2>5, <2>t DEF Deliver, PanelAdds, TypeOK
    <3>2. ASSUME NEW m \in Nodes \ {n}
          PROVE  /\ received'[m] = received[m]
                 /\ \A u \in Users : Owed(m, u)' = Owed(m, u)
      BY <2>5, <2>t DEF Deliver, PanelAdds, TypeOK
    <3>3. Metered!Bill(n)
      BY <3>1, <3>2, <2>l DEF Metered!Bill
    <3> QED BY <3>3 DEF Metered!Next
  <2>6. ASSUME NEW c \in Conns, ConnStep(c) \/ SweepStep(c)
        PROVE  [Metered!Next]_(Metered!vars)
    <3>1. CASE FinalFlush(c) \/ SweepAdd(c)
      BY <3>1, <2>2
    <3>2. CASE ~(FinalFlush(c) \/ SweepAdd(c))
      BY <2>6, <3>2, <2>1, QuietSteps DEF ConnStep, SweepStep
    <3> QED BY <3>1, <3>2
  <2>7. CASE SweepStart
    BY <2>7, <2>1 DEF SweepStart
  <2>8. CASE UNCHANGED vars
    BY <2>8, <2>1 DEF vars
  <2>9. ASSUME NEW n \in Nodes PROVE ~Unacked(n)
    BY DEF Unacked
  <2> QED BY <2>3, <2>4, <2>5, <2>6, <2>7, <2>8, <2>9 DEF Next, ReportStep
<1> QED BY <1>1, <1>2, TypeCorrect, ReportsCovered, PTL DEF Spec, BilledOnce, Metered!Spec
=============================================================================
