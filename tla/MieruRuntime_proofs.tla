------------------------ MODULE MieruRuntime_proofs -------------------------
(***************************************************************************)
(* Proofs about module MieruRuntime, for any finite set of sessions.       *)
(***************************************************************************)
EXTENDS MieruRuntime, FiniteSetTheorems, TLAPS

\* The WaitGroup counts the goroutines: the handlers and the accept loop.
Goroutines == Cardinality(Handlers) + (IF accepting THEN 1 ELSE 0)

\* A session is admitted from Open to the end of its handler.
AdmittedOK == admitted = {c \in Conns : phase[c] \in Handling \ {"accepted"}}

\* The accept loop ends only after Close has begun, and Close returns at zero.
CloserOK == closer = "closed" => wg = 0

\* What TypeOK says of the directions a session is copied in.
CopyOK ==
  /\ copying \in [Conns -> SUBSET Directions]
  /\ writing \in [Conns -> SUBSET Directions]
  /\ \A c \in Conns : writing[c] \subseteq copying[c]

IInv == TypeOK /\ wg = Goroutines /\ AdmittedOK /\ CloserOK

\* A step that moves one session from outside the handlers to inside, or the
\* other way round, or not at all, changes their number accordingly.
LEMMA HandlerCount ==
  ASSUME NEW H \in SUBSET Conns, NEW c \in Conns
  PROVE  /\ Cardinality(H) \in Nat
         /\ c \notin H => Cardinality(H \cup {c}) = Cardinality(H) + 1
         /\ c \in H => Cardinality(H \ {c}) = Cardinality(H) - 1
         /\ Cardinality(H) = 0 <=> H = {}
<1>1. IsFiniteSet(Conns)
  BY MieruAssumption
<1>2. IsFiniteSet(H)
  BY <1>1, FS_Subset
<1> QED
  BY <1>2, FS_CardinalityType, FS_AddElement, FS_RemoveElement, FS_EmptySet

\* A step of one session that goes from phase p to phase q.
LEMMA PhaseStep ==
  ASSUME TypeOK, NEW c \in Conns, NEW p, NEW q, phase[c] = p, Goto(c, q)
  PROVE  Handlers' = IF q \in Handling THEN Handlers \cup {c} ELSE Handlers \ {c}
BY DEF TypeOK, Goto, Handlers

THEOREM Invariant == Spec => []IInv
<1> USE MieruAssumption DEF MieruAssumption, Handling, peerVars, copyVars
<1>1. Init => IInv
  <2> SUFFICES ASSUME Init PROVE IInv
    OBVIOUS
  <2>1. Handlers = {}
    BY DEF Init, Handlers
  <2>2. Cardinality(Handlers) = 0
    BY <2>1, FS_EmptySet
  <2>3. TypeOK /\ CloserOK
    BY DEF Init, TypeOK, CloserOK
  <2>4. AdmittedOK
    BY DEF Init, AdmittedOK
  <2>5. wg = Goroutines
    BY <2>2 DEF Init, Goroutines
  <2> QED
    BY <2>3, <2>4, <2>5 DEF IInv
<1>2. IInv /\ [Next]_vars => IInv'
  <2> SUFFICES ASSUME IInv, [Next]_vars PROVE IInv'
    OBVIOUS
  <2> USE DEF IInv
  <2> HIDE DEF Handling
  <2>0. Handlers \subseteq Conns /\ Cardinality(Handlers) \in Nat
    <3>1. Handlers \subseteq Conns
      BY DEF Handlers
    <3> QED BY <3>1, HandlerCount, FS_Subset, FS_CardinalityType
  <2>c. CopyOK
    BY DEF TypeOK, CopyOK
  <2>1. ASSUME NEW c \in Conns, Connect(c) \/ ClientLeaves(c) \/ TargetLeaves(c) PROVE IInv'
    <3>1. Handlers' = Handlers
      BY <2>1 DEF Connect, ClientLeaves, TargetLeaves, Handlers, TypeOK, Handling
    <3>2. TypeOK' /\ AdmittedOK'
      BY <2>1 DEF Connect, ClientLeaves, TargetLeaves, TypeOK, AdmittedOK, Handling
    <3>3. UNCHANGED <<closer, accepting, wg>>
      BY <2>1 DEF Connect, ClientLeaves, TargetLeaves
    <3> QED BY <3>1, <3>2, <3>3 DEF Goroutines, CloserOK
  <2>2. ASSUME NEW c \in Conns, Accept(c) PROVE IInv'
    <3>1. c \notin Handlers /\ Handlers' = Handlers \cup {c}
      BY <2>2 DEF Accept, Handlers, TypeOK, Handling
    <3>2. Cardinality(Handlers') = Cardinality(Handlers) + 1
      BY <3>1, <2>0, HandlerCount
    <3>3. wg > 0
      BY <2>2, <2>0 DEF Accept, Goroutines
    <3>4. TypeOK' /\ AdmittedOK'
      BY <2>2 DEF Accept, TypeOK, AdmittedOK, Handling
    <3> QED BY <2>0, <2>2, <3>2, <3>3, <3>4 DEF Accept, Goroutines, CloserOK, TypeOK
  <2>3. ASSUME AcceptFails PROVE IInv'
    <3>1. Handlers' = Handlers
      BY <2>3 DEF AcceptFails, Handlers
    <3>2. wg > 0
      BY <2>3, <2>0 DEF AcceptFails, Goroutines
    <3>3. TypeOK' /\ AdmittedOK'
      BY <2>3, <3>2 DEF AcceptFails, TypeOK, AdmittedOK
    <3>4. wg' = Goroutines'
      <4>1. CASE stop
        <5>1. accepting /\ ~accepting' /\ wg' = wg - 1
          BY <4>1, <2>3 DEF AcceptFails
        <5>2. wg = Cardinality(Handlers) + 1
          BY <5>1 DEF Goroutines
        <5>3. Goroutines' = Cardinality(Handlers)
          BY <5>1, <3>1, <2>0 DEF Goroutines
        <5> QED BY <5>1, <5>2, <5>3, <2>0
      <4>2. CASE ~stop
        BY <4>2, <2>0, <2>3, <3>1 DEF AcceptFails, Goroutines
      <4> QED BY <4>1, <4>2
    <3>5. CloserOK'
      BY <2>3, <3>2 DEF AcceptFails, CloserOK
    <3> QED BY <3>3, <3>4, <3>5
  <2>4. ASSUME NEW c \in Conns, NEW q, phase[c] \in Handling, q \in Handling, Goto(c, q),
               UNCHANGED <<closer, stop, accepting, wg>>,
               target' \in [Conns -> {"none", "up", "gone"}],
               client' = client,
               CopyOK',
               AdmittedOK'
        PROVE  IInv'
    <3>1. Handlers' = Handlers
      BY <2>4, PhaseStep DEF Handlers
    <3>2. TypeOK'
      BY <2>4 DEF Goto, TypeOK, AdmittedOK, CopyOK
    <3>3. AdmittedOK'
      BY <2>4
    <3> QED BY <2>4, <3>1, <3>2, <3>3 DEF Goroutines, CloserOK
  <2>5. ASSUME NEW c \in Conns, phase[c] \in Handling, Goto(c, "done"), wg' = wg - 1,
               UNCHANGED <<closer, stop, accepting, copying, writing>>,
               target' \in [Conns -> {"none", "up", "gone"}],
               client' \in [Conns -> {"none", "up", "gone"}],
               AdmittedOK'
        PROVE  IInv'
    <3>1. c \in Handlers
      BY <2>5 DEF Handlers
    <3>2. Handlers' = Handlers \ {c}
      BY <2>5, PhaseStep DEF Handling
    <3>3. Cardinality(Handlers') = Cardinality(Handlers) - 1
      BY <3>1, <3>2, <2>0, HandlerCount
    <3>4. Cardinality(Handlers) # 0
      BY <3>1, <2>0, HandlerCount
    <3>5. wg > 0
      BY <3>4, <2>0 DEF Goroutines
    <3>6. TypeOK'
      BY <2>5, <3>5 DEF Goto, TypeOK, AdmittedOK
    <3> QED BY <2>0, <2>5, <3>3, <3>5, <3>6 DEF Goroutines, CloserOK, TypeOK
  <2>6. ASSUME NEW c \in Conns, Refuse(c) PROVE IInv'
    <3>1. AdmittedOK'
      BY <2>6 DEF Refuse, Goto, AdmittedOK, TypeOK, Handling
    <3> QED BY <2>6, <2>5, <3>1 DEF Refuse, TypeOK, Handling
  <2>7. ASSUME NEW c \in Conns, Admit(c) PROVE IInv'
    <3>1. AdmittedOK'
      BY <2>7 DEF Admit, Goto, AdmittedOK, TypeOK, Handling
    <3> QED BY <2>7, <2>4, <2>c, <3>1 DEF Admit, TypeOK, Handling, CopyOK
  <2>8. ASSUME NEW c \in Conns, Dispatch(c) PROVE IInv'
    <3>1. PICK q \in {"dial", "udp", "return"} : Goto(c, q)
      BY <2>8 DEF Dispatch
    <3>2. AdmittedOK'
      BY <2>8, <3>1 DEF Dispatch, Goto, AdmittedOK, TypeOK, Handling
    <3> QED BY <2>8, <2>4, <2>c, <3>1, <3>2 DEF Dispatch, TypeOK, Handling, CopyOK
  <2>9. ASSUME NEW c \in Conns, Dialled(c) PROVE IInv'
    <3>1. AdmittedOK'
      BY <2>9 DEF Dialled, Goto, AdmittedOK, TypeOK, Handling
    <3> QED BY <2>9, <2>4, <2>c, <3>1 DEF Dialled, TypeOK, Handling, CopyOK
  <2>10. ASSUME NEW c \in Conns, DialFails(c) \/ CopyReturns(c) \/ UdpReturns(c) PROVE IInv'
    <3>1. AdmittedOK'
      BY <2>10 DEF DialFails, CopyReturns, UdpReturns, Goto, AdmittedOK, TypeOK, Handling
    <3> QED BY <2>10, <2>4, <2>c, <3>1
            DEF DialFails, CopyReturns, UdpReturns, TypeOK, Handling, CopyOK
  <2>11. ASSUME NEW c \in Conns, Reply(c) PROVE IInv'
    <3>1. PICK q \in {"copy", "return"} : Goto(c, q)
      BY <2>11 DEF Reply
    <3>2. AdmittedOK'
      BY <2>11, <3>1 DEF Reply, Goto, AdmittedOK, TypeOK, Handling
    <3>3. CopyOK'
      BY <2>11, <2>c DEF Reply, CopyOK, Directions
    <3> QED BY <2>11, <2>4, <3>1, <3>2, <3>3 DEF Reply, TypeOK, Handling
  <2>12. ASSUME NEW c \in Conns, NEW d \in Directions,
                SourceSpeaks(c, d) \/ Written(c, d) \/ CopyEnds(c, d)
         PROVE  IInv'
    <3>1. UNCHANGED <<closer, stop, accepting, wg, phase, client, target, admitted>>
      BY <2>12 DEF SourceSpeaks, Written, CopyEnds, SourceEnds, WriteFails
    <3>2. CopyOK'
      BY <2>12, <2>c DEF SourceSpeaks, Written, CopyEnds, SourceEnds, WriteFails, CopyOK
    <3> QED BY <3>1, <3>2 DEF TypeOK, Goroutines, Handlers, AdmittedOK, CloserOK, CopyOK
  <2>13. ASSUME NEW c \in Conns, Return(c) PROVE IInv'
    <3>1. AdmittedOK'
      BY <2>13 DEF Return, Goto, AdmittedOK, TypeOK, Handling
    <3>2. /\ client' \in [Conns -> {"none", "up", "gone"}]
          /\ target' \in [Conns -> {"none", "up", "gone"}]
      BY <2>13 DEF Return, TypeOK
    <3> QED BY <2>13, <2>5, <3>1, <3>2 DEF Return, Handling
  <2>14. ASSUME CloseStop \/ CloseStep PROVE IInv'
    <3>1. UNCHANGED <<accepting, wg, phase, target, copying, writing, admitted>>
      BY <2>14 DEF CloseStop, CloseStep, ServerStop, WaitReturns
    <3>2. TypeOK' /\ CloserOK'
      BY <2>14 DEF CloseStop, CloseStep, ServerStop, WaitReturns, TypeOK, CloserOK
    <3> QED BY <3>1, <3>2 DEF Goroutines, Handlers, AdmittedOK
  <2>15. ASSUME UNCHANGED vars PROVE IInv'
    BY <2>15 DEF vars, TypeOK, Goroutines, Handlers, AdmittedOK, CloserOK
  <2> QED
    BY <2>1, <2>2, <2>3, <2>6, <2>7, <2>8, <2>9, <2>10, <2>11, <2>12, <2>13, <2>14, <2>15
    DEF Next, HandlerStep, PeerStep
<1> QED BY <1>1, <1>2, PTL DEF Spec

\* The state is well typed; the WaitGroup in particular never goes below zero,
\* where Go panics (Accept, Refuse, Return and the end of accept).
THEOREM TypeCorrect == Spec => []TypeOK
<1>1. IInv => TypeOK
  BY DEF IInv
<1> QED BY <1>1, Invariant, PTL

\* Whatever sessions there are and however they are accepted, served and ended
\* around Close, nothing of the runtime is left when Close returns.
THEOREM CloseWaits == Spec => []ClosedIsQuiet
<1>1. IInv => ClosedIsQuiet
  <2> SUFFICES ASSUME IInv, closer = "closed"
               PROVE  ~accepting /\ Handlers = {} /\ admitted = {}
    BY DEF ClosedIsQuiet
  <2>1. Handlers \subseteq Conns /\ IsFiniteSet(Handlers)
    BY MieruAssumption, FS_Subset DEF Handlers
  <2>2. Cardinality(Handlers) \in Nat
    BY <2>1, FS_CardinalityType
  <2>3. Cardinality(Handlers) = 0 /\ ~accepting
    BY <2>2 DEF IInv, CloserOK, Goroutines
  <2>4. Handlers = {}
    BY <2>1, <2>3, FS_EmptySet
  <2>5. admitted = {}
    BY <2>4 DEF IInv, AdmittedOK, Handlers, Handling
  <2> QED BY <2>3, <2>4, <2>5
<1> QED BY <1>1, Invariant, PTL
=============================================================================
