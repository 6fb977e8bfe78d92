--------------------------- MODULE Limiter_proofs ---------------------------
(***************************************************************************)
(* Proofs about module Limiter: the state is well typed, no byte of a      *)
(* limited user passes because WaitN refused it, and a limiter lets        *)
(* through no more than its speed, whatever calls share it.                *)
(***************************************************************************)
EXTENDS Limiter, FiniteSums, SequenceTheorems, TLAPS

\* Every limiter takes a whole part; with it the error of WaitN is excluded.
PartsFit == \A i \in DOMAIN limiters : Part <= limiters[i].burst

IInv == TypeOK /\ PartsFit /\ NothingUnshaped

-----------------------------------------------------------------------------
\* A new limiter is full, has a rate that is a number of bytes, and a burst
\* that takes a part of 64 KiB, whatever the speed limit of the user.
LEMMA NewLimiter ==
  ASSUME NEW mbps \in Speeds
  PROVE  /\ limiterFor(mbps) \in Limiters
         /\ limiterFor(mbps).tokens <= limiterFor(mbps).burst
         /\ Part <= limiterFor(mbps).burst
<1>. USE LimiterAssumption DEF LimiterAssumption
<1>1. mbps \in Nat
  OBVIOUS
<1>2. mbps * Mega \in Nat
  BY <1>1
<1>3. BytesPerSecond(mbps) \in Nat
  BY <1>2 DEF BytesPerSecond
<1>4. Burst(mbps) \in Nat /\ Part <= Burst(mbps)
  BY <1>3 DEF Burst
<1> QED
  BY <1>1, <1>3, <1>4 DEF limiterFor, Limiters

\* What a part leaves of a call is a call still, or the call is done.
LEMMA PassedKeepsType ==
  ASSUME IInv, NEW c \in Calls, NEW part \in 1 .. Part, part <= call[c].left, call[c].holds # 0,
         Passed(c, part)
  PROVE  /\ call' \in [Calls -> CallStates]
         /\ \A d \in Calls : call'[d].part <= call'[d].left /\ ((call'[d].holds = 0) <=> (call'[d].left = 0))
<1>0. /\ call \in [Calls -> CallStates]
      /\ \A d \in Calls : call[d].part <= call[d].left /\ ((call[d].holds = 0) <=> (call[d].left = 0))
      /\ Part \in Nat /\ Current \in Nat
  BY LimiterAssumption DEF LimiterAssumption, IInv, TypeOK, Current
<1>1. call[c].left \in Nat /\ call[c].holds \in 0 .. Current
  BY <1>0 DEF CallStates
<1>2. CASE call[c].left > part
  <2>. DEFINE rest == Inside(call[c].holds, call[c].left - part, 0, 0)
  <2>1. rest \in CallStates /\ rest.part = 0 /\ rest.left \in Nat \ {0} /\ rest.holds # 0
    BY <1>0, <1>1, <1>2 DEF Inside, CallStates
  <2>2. call' = [call EXCEPT ![c] = rest]
    BY <1>2 DEF Passed
  <2>. HIDE DEF rest
  <2> QED
    BY <1>0, <2>1, <2>2
<1>3. CASE ~(call[c].left > part)
  <2>. DEFINE over == Outside("returned")
  <2>1. over \in CallStates /\ over.part = 0 /\ over.left = 0 /\ over.holds = 0
    BY <1>0 DEF Outside, CallStates
  <2>2. call' = [call EXCEPT ![c] = over]
    BY <1>3 DEF Passed
  <2>. HIDE DEF over
  <2> QED
    BY <1>0, <2>1, <2>2
<1> QED
  BY <1>2, <1>3

\* Putting another limiter in the place of one keeps the sequence what it is,
\* as long as the new one is no fuller than its burst, which stays.
LEMMA LimiterChanged ==
  ASSUME IInv, NEW i \in DOMAIN limiters, NEW l \in Limiters,
         l.tokens <= l.burst, l.burst = limiters[i].burst,
         limiters' = [limiters EXCEPT ![i] = l]
  PROVE  /\ limiters' \in Seq(Limiters) /\ Len(limiters') = Len(limiters) /\ limiters' # <<>>
         /\ \A k \in DOMAIN limiters' : limiters'[k].tokens <= limiters'[k].burst /\ Part <= limiters'[k].burst
<1>1. limiters \in Seq(Limiters) /\ i \in 1 .. Len(limiters) /\ Len(limiters) \in Nat \ {0}
  BY DEF IInv, TypeOK
<1>2. /\ limiters' \in Seq(Limiters) /\ Len(limiters') = Len(limiters)
      /\ \A k \in 1 .. Len(limiters) : limiters'[k] = IF k = i THEN l ELSE limiters[k]
  BY <1>1, ExceptSeq
<1>3. DOMAIN limiters' = 1 .. Len(limiters) /\ limiters' # <<>>
  BY <1>1, <1>2
<1>4. \A k \in 1 .. Len(limiters) : limiters[k].tokens <= limiters[k].burst /\ Part <= limiters[k].burst
  BY <1>1 DEF IInv, TypeOK, PartsFit
<1>5. ASSUME NEW k \in 1 .. Len(limiters)
      PROVE  limiters'[k].tokens <= limiters'[k].burst /\ Part <= limiters'[k].burst
  <2>1. CASE k = i
    BY <1>2, <1>4, <2>1
  <2>2. CASE k # i
    BY <1>2, <1>4, <2>2
  <2> QED
    BY <2>1, <2>2
<1> QED
  BY <1>2, <1>3, <1>5

LEMMA InitInv == Init => IInv
<1>. SUFFICES ASSUME Init PROVE IInv
  OBVIOUS
<1>1. PICK mbps \in Speeds : limiters = <<limiterFor(mbps)>>
  BY DEF Init
<1>2. limiters \in Seq(Limiters) /\ limiters # <<>> /\ DOMAIN limiters = {1} /\ Len(limiters) = 1
  BY <1>1, NewLimiter
<1>3. \A i \in DOMAIN limiters : limiters[i].tokens <= limiters[i].burst /\ Part <= limiters[i].burst
  BY <1>1, <1>2, NewLimiter
<1>4. Outside("new") \in CallStates
  BY <1>2, LimiterAssumption DEF Outside, CallStates, Current, LimiterAssumption
<1>5. /\ call = [c \in Calls |-> Outside("new")] /\ unshaped = 0
      /\ Outside("new").part = 0 /\ Outside("new").holds = 0 /\ Outside("new").left = 0
  BY DEF Init, Outside
<1> QED
  BY <1>2, <1>3, <1>4, <1>5 DEF IInv, TypeOK, PartsFit, NothingUnshaped

LEMMA StepInv == IInv /\ [Next]_vars => IInv'
<1>. SUFFICES ASSUME IInv, [Next]_vars PROVE IInv'
  OBVIOUS
<1>. USE LimiterAssumption DEF LimiterAssumption
<1>0. /\ limiters \in Seq(Limiters) /\ Current \in Nat \ {0} /\ Current \in DOMAIN limiters
      /\ \A i \in DOMAIN limiters : /\ limiters[i] \in Limiters /\ limiters[i].tokens <= limiters[i].burst
                                   /\ Part <= limiters[i].burst
      /\ call \in [Calls -> CallStates]
      /\ \A d \in Calls : call[d].part <= call[d].left /\ ((call[d].holds = 0) <=> (call[d].left = 0))
      /\ unshaped = 0
  BY DEF IInv, TypeOK, PartsFit, NothingUnshaped, Current
<1>c. \A d \in Calls : /\ call[d].holds \in 0 .. Current /\ call[d].part \in 0 .. Part
                      /\ call[d].left \in Nat /\ call[d].owed \in Nat
  BY <1>0 DEF CallStates
<1>i. \A i \in DOMAIN limiters : /\ limiters[i].rate \in Nat /\ limiters[i].burst \in Nat /\ limiters[i].tokens \in Int
                                /\ limiters[i].ticks \in 0 .. MaxTicks /\ limiters[i].granted \in Nat
                                /\ limiters[i].held \in Int
  BY <1>0 DEF Limiters
<1>1. ASSUME NEW mbps \in Speeds, Replace(mbps) PROVE IInv'
  <2>. DEFINE l == [limiters[Current] EXCEPT !.late = limiters[Current].held]
              old == [limiters EXCEPT ![Current] = l]
              new == limiterFor(mbps)
  <2>1. l \in Limiters /\ l.tokens = limiters[Current].tokens /\ l.burst = limiters[Current].burst
    BY <1>0 DEF Limiters
  <2>2. limiters' = Append(old, new) /\ UNCHANGED <<call, unshaped>>
    BY <1>1 DEF Replace
  <2>3. new \in Limiters /\ new.tokens <= new.burst /\ Part <= new.burst
    BY NewLimiter
  <2>. HIDE DEF l, new
  <2>4. /\ old \in Seq(Limiters) /\ Len(old) = Current
        /\ \A i \in 1 .. Current : old[i] = IF i = Current THEN l ELSE limiters[i]
    BY <1>0, <2>1, ExceptSeq DEF Current
  <2>. HIDE DEF old
  <2>5. /\ limiters' \in Seq(Limiters) /\ Len(limiters') = Current + 1 /\ limiters' # <<>>
        /\ DOMAIN limiters' = 1 .. Current + 1
        /\ \A i \in 1 .. Current + 1 : limiters'[i] = IF i <= Current THEN old[i] ELSE new
    BY <1>0, <2>2, <2>3, <2>4
  <2>6. ASSUME NEW i \in 1 .. Current + 1
        PROVE  limiters'[i].tokens <= limiters'[i].burst /\ Part <= limiters'[i].burst
    <3>1. CASE i = Current + 1
      BY <1>0, <2>3, <2>5, <3>1
    <3>2. CASE i = Current
      BY <1>0, <2>1, <2>4, <2>5, <3>2
    <3>3. CASE i \in 1 .. Current /\ i # Current
      BY <1>0, <2>4, <2>5, <3>3 DEF Current
    <3> QED
      BY <1>0, <3>1, <3>2, <3>3
  <2>7. call' \in [Calls -> CallStates']
    BY <1>0, <2>2, <2>5 DEF CallStates, Current
  <2> QED
    BY <1>0, <2>2, <2>5, <2>6, <2>7 DEF IInv, TypeOK, PartsFit, NothingUnshaped
<1>2. ASSUME NEW c \in Calls, NEW n \in Sizes, Wait(c, n) PROVE IInv'
  <2>1. CASE Unlimited \/ n <= 0
    <3>. DEFINE new == Outside("returned")
    <3>1. call' = [call EXCEPT ![c] = new] /\ limiters' = limiters /\ unshaped' = unshaped
      BY <1>2, <2>1 DEF Wait
    <3>2. new \in CallStates /\ new.part = 0 /\ new.holds = 0 /\ new.left = 0
      BY <1>0 DEF Outside, CallStates
    <3>. HIDE DEF new
    <3>3. call' \in [Calls -> CallStates] /\ CallStates' = CallStates
      BY <1>0, <3>1, <3>2 DEF CallStates, Current
    <3>4. \A d \in Calls : call'[d].part <= call'[d].left /\ ((call'[d].holds = 0) <=> (call'[d].left = 0))
      BY <1>0, <3>1, <3>2
    <3> QED
      BY <1>0, <3>1, <3>3, <3>4 DEF IInv, TypeOK, PartsFit, NothingUnshaped
  <2>2. CASE ~(Unlimited \/ n <= 0)
    <3>. DEFINE l == [limiters[Current] EXCEPT !.held = limiters[Current].held + n]
                new == Inside(Current, n, 0, 0)
    <3>1. /\ limiters' = [limiters EXCEPT ![Current] = l]
          /\ call' = [call EXCEPT ![c] = new]
          /\ unshaped' = unshaped /\ n \in Nat \ {0}
      BY <1>2, <2>2 DEF Wait, Held
    <3>2. l \in Limiters /\ l.tokens = limiters[Current].tokens /\ l.burst = limiters[Current].burst
      <4>1. limiters[Current] \in Limiters /\ limiters[Current].held + n \in Int
        BY <1>0, <1>i, <3>1
      <4> QED
        BY <4>1 DEF Limiters
    <3>3. new \in CallStates /\ new.part = 0 /\ new.holds = Current /\ new.left = n
      BY <1>0, <3>1 DEF CallStates, Inside
    <3>. HIDE DEF l, new
    <3>4. /\ limiters' \in Seq(Limiters) /\ Len(limiters') = Len(limiters) /\ limiters' # <<>>
          /\ \A k \in DOMAIN limiters' : limiters'[k].tokens <= limiters'[k].burst /\ Part <= limiters'[k].burst
      BY <1>0, <3>1, <3>2, LimiterChanged
    <3>5. call' \in [Calls -> CallStates] /\ CallStates' = CallStates
      BY <1>0, <3>1, <3>3, <3>4 DEF CallStates, Current
    <3>6. \A d \in Calls : call'[d].part <= call'[d].left /\ ((call'[d].holds = 0) <=> (call'[d].left = 0))
      BY <1>0, <3>1, <3>3
    <3> QED
      BY <1>0, <3>1, <3>4, <3>5, <3>6 DEF IInv, TypeOK, PartsFit, NothingUnshaped
  <2> QED
    BY <2>1, <2>2
<1>3. ASSUME NEW c \in Calls, WaitN(c) PROVE IInv'
  <2>. DEFINE i == call[c].holds
              part == IF call[c].left > Part THEN Part ELSE call[c].left
              tokens == limiters[i].tokens - part
              l == [limiters[i] EXCEPT !.tokens = tokens]
              owed == IF tokens < 0 THEN -tokens ELSE 0
              new == Inside(i, call[c].left, part, owed)
  <2>1. i \in DOMAIN limiters /\ i # 0 /\ part \in 1 .. Part /\ part <= call[c].left
    BY <1>0, <1>c, <1>3 DEF WaitN, Current
  <2>2. part <= limiters[i].burst /\ tokens \in Int /\ tokens <= limiters[i].burst /\ owed \in Nat
    <3>1. /\ limiters[i].tokens \in Int /\ limiters[i].tokens <= limiters[i].burst
          /\ limiters[i].burst \in Nat /\ Part <= limiters[i].burst
      BY <1>0, <1>i, <2>1
    <3>. HIDE DEF i, part
    <3> QED
      BY <2>1, <3>1
  <2>3. limiters' = [limiters EXCEPT ![i] = l] /\ call' = [call EXCEPT ![c] = new] /\ unshaped' = unshaped
    <3>1. ~(part > limiters[i].burst)
      BY <1>i, <2>1, <2>2
    <3> QED
      BY <1>3, <3>1 DEF WaitN
  <2>. HIDE DEF i, part, tokens, owed
  <2>4. l \in Limiters /\ l.tokens = tokens /\ l.burst = limiters[i].burst
    BY <1>0, <2>1, <2>2 DEF Limiters
  <2>5. new \in CallStates /\ new.part = part /\ new.holds = i /\ new.left = call[c].left
    BY <1>0, <1>c, <2>1, <2>2 DEF CallStates, Inside, Current
  <2>. HIDE DEF l, new
  <2>6. /\ limiters' \in Seq(Limiters) /\ Len(limiters') = Len(limiters) /\ limiters' # <<>>
        /\ \A k \in DOMAIN limiters' : limiters'[k].tokens <= limiters'[k].burst /\ Part <= limiters'[k].burst
    BY <2>1, <2>2, <2>3, <2>4, LimiterChanged
  <2>7. call' \in [Calls -> CallStates] /\ CallStates' = CallStates
    BY <1>0, <2>3, <2>5, <2>6 DEF CallStates, Current
  <2>8. \A d \in Calls : call'[d].part <= call'[d].left /\ ((call'[d].holds = 0) <=> (call'[d].left = 0))
    BY <1>0, <2>1, <2>3, <2>5
  <2> QED
    BY <1>0, <2>3, <2>6, <2>7, <2>8 DEF IInv, TypeOK, PartsFit, NothingUnshaped
<1>4. ASSUME NEW c \in Calls, Wake(c) PROVE IInv'
  <2>. DEFINE i == call[c].holds
              part == call[c].part
              m == [limiters[i] EXCEPT !.granted = limiters[i].granted + part]
              l == [m EXCEPT !.held = limiters[i].held - part]
  <2>1. i \in DOMAIN limiters /\ i # 0 /\ part \in 1 .. Part /\ part <= call[c].left
    BY <1>0, <1>c, <1>4 DEF Wake, Current
  <2>2. limiters' = [limiters EXCEPT ![i] = l] /\ Passed(c, part) /\ unshaped' = unshaped
    BY <1>4 DEF Wake
  <2>3. /\ call' \in [Calls -> CallStates]
        /\ \A d \in Calls : call'[d].part <= call'[d].left /\ ((call'[d].holds = 0) <=> (call'[d].left = 0))
    BY <2>1, <2>2, PassedKeepsType
  <2>. HIDE DEF i, part
  <2>4. l \in Limiters /\ l.tokens = limiters[i].tokens /\ l.burst = limiters[i].burst
    <3>1. m \in Limiters /\ m.tokens = limiters[i].tokens /\ m.burst = limiters[i].burst
      <4>1. limiters[i] \in Limiters /\ limiters[i].granted + part \in Nat
        BY <1>0, <1>i, <2>1
      <4> QED
        BY <4>1 DEF Limiters
    <3>2. limiters[i].held - part \in Int
      BY <1>i, <2>1
    <3>. HIDE DEF m
    <3> QED
      BY <3>1, <3>2 DEF Limiters
  <2>. HIDE DEF l, m
  <2>5. /\ limiters' \in Seq(Limiters) /\ Len(limiters') = Len(limiters) /\ limiters' # <<>>
        /\ \A k \in DOMAIN limiters' : limiters'[k].tokens <= limiters'[k].burst /\ Part <= limiters'[k].burst
    BY <1>0, <2>1, <2>2, <2>4, LimiterChanged
  <2>6. CallStates' = CallStates
    BY <2>5 DEF CallStates, Current
  <2> QED
    BY <1>0, <2>2, <2>3, <2>5, <2>6 DEF IInv, TypeOK, PartsFit, NothingUnshaped
<1>5. CASE Tick
  <2>1. /\ limiters' = [i \in DOMAIN limiters |-> Ticked(i)]
        /\ call' = [c \in Calls |-> Slept(c)]
        /\ unshaped' = unshaped
    BY <1>5 DEF Tick
  <2>2. \A i \in DOMAIN limiters : /\ Filled(limiters[i]) \in Int /\ Filled(limiters[i]) <= limiters[i].burst
                                  /\ Counted(i) \in 0 .. MaxTicks
    BY <1>0, <1>i DEF Filled, Counted
  <2>3. ASSUME NEW i \in DOMAIN limiters
        PROVE  /\ Ticked(i) \in Limiters /\ Ticked(i).tokens <= Ticked(i).burst
               /\ Part <= Ticked(i).burst
    <3>. DEFINE m == [limiters[i] EXCEPT !.tokens = Filled(limiters[i])]
    <3>1. m \in Limiters /\ m.tokens = Filled(limiters[i]) /\ m.burst = limiters[i].burst
      BY <1>0, <2>2 DEF Limiters
    <3>2. Ticked(i) = [m EXCEPT !.ticks = Counted(i)]
      BY DEF Ticked
    <3>. HIDE DEF m
    <3>3. Ticked(i) \in Limiters /\ Ticked(i).tokens = m.tokens /\ Ticked(i).burst = m.burst
      BY <2>2, <3>1, <3>2 DEF Limiters
    <3> QED
      BY <1>0, <2>2, <3>1, <3>3
  <2>4. DOMAIN limiters = 1 .. Len(limiters) /\ Len(limiters) \in Nat \ {0}
    BY <1>0 DEF Current
  <2>5. /\ limiters' \in Seq(Limiters) /\ Len(limiters') = Len(limiters) /\ limiters' # <<>>
        /\ DOMAIN limiters' = DOMAIN limiters /\ \A i \in DOMAIN limiters : limiters'[i] = Ticked(i)
    <3>1. \A i \in 1 .. Len(limiters) : Ticked(i) \in Limiters
      BY <2>3, <2>4
    <3>2. limiters' = [i \in 1 .. Len(limiters) |-> Ticked(i)]
      BY <2>1, <2>4
    <3> QED
      BY <2>4, <3>1, <3>2
  <2>6. \A c \in Calls : Paid(c) \in Nat
    <3>1. SUFFICES ASSUME NEW c \in Calls, call[c].holds # 0 PROVE Paid(c) \in Nat
      BY DEF Paid
    <3>2. limiters[call[c].holds].rate \in Nat /\ call[c].owed \in Nat
      BY <1>c, <1>i, <2>4, <3>1 DEF Current
    <3> QED
      BY <3>2 DEF Paid
  <2>7. call' \in [Calls -> CallStates] /\ CallStates' = CallStates
    <3>1. \A c \in Calls : Slept(c) \in CallStates
      BY <1>0, <2>6 DEF Slept, CallStates
    <3> QED
      BY <1>0, <2>1, <2>5, <3>1 DEF CallStates, Current
  <2>8. \A d \in Calls : call'[d].part <= call'[d].left /\ ((call'[d].holds = 0) <=> (call'[d].left = 0))
    <3>1. \A d \in Calls : /\ Slept(d).part = call[d].part /\ Slept(d).left = call[d].left
                          /\ Slept(d).holds = call[d].holds
      BY <1>0 DEF Slept, CallStates
    <3> QED
      BY <1>0, <2>1, <3>1
  <2> QED
    BY <1>0, <2>1, <2>3, <2>5, <2>7, <2>8 DEF IInv, TypeOK, PartsFit, NothingUnshaped
<1>6. CASE UNCHANGED vars
  BY <1>6 DEF vars, IInv, TypeOK, PartsFit, NothingUnshaped, CallStates, Current
<1> QED
  BY <1>1, <1>2, <1>3, <1>4, <1>5, <1>6 DEF Next

\* In every reachable state the limiters and calls are well typed: a call asks
\* for no more than is left of it, and no bucket holds more than its burst.
THEOREM TypeCorrect == Spec => []TypeOK
<1>1. IInv => TypeOK
  BY DEF IInv
<1> QED
  BY InitInv, StepInv, <1>1, PTL DEF Spec

\* For any calls, sizes and speed limits, and however users are replaced, no
\* byte of a limited user passes because WaitN returned an error that Wait
\* ignores: the least burst is the greatest part.
THEOREM EveryPartFits == Spec => []NothingUnshaped
<1>1. IInv => NothingUnshaped
  BY DEF IInv
<1> QED
  BY InitInv, StepInv, <1>1, PTL DEF Spec
-----------------------------------------------------------------------------
(* The calls that share a limiter, added up (module FiniteSums).           *)

LeftOf(calls, i) == [c \in Calls |-> IF calls[c].holds = i THEN calls[c].left ELSE 0]
PartOf(calls, i) == [c \in Calls |-> IF calls[c].holds = i THEN calls[c].part ELSE 0]
DueOf(calls, i, k) ==
  [c \in Calls |-> IF calls[c].holds = i /\ calls[c].owed <= k THEN calls[c].part ELSE 0]

\* What the calls that hold limiter i have left, what they sleep for, and what
\* of it passes within the time that lets k come in.
Left(calls, i) == SumFunctionOnSet(LeftOf(calls, i), Calls)
Asleep(calls, i) == SumFunctionOnSet(PartOf(calls, i), Calls)
Due(calls, i, k) == SumFunctionOnSet(DueOf(calls, i, k), Calls)

\* What the sums need to know of the calls.
Numbers(calls) ==
  \A c \in Calls : calls[c].left \in Nat /\ calls[c].part \in Nat /\ calls[c].owed \in Nat

LEMMA SumsAreNat ==
  ASSUME NEW calls, Numbers(calls), NEW i, NEW k \in Nat
  PROVE  Left(calls, i) \in Nat /\ Asleep(calls, i) \in Nat /\ Due(calls, i, k) \in Nat
<1>0. IsFiniteSet(Calls)
  BY LimiterAssumption DEF LimiterAssumption
<1>1. \A c \in Calls : LeftOf(calls, i)[c] \in Nat
  BY DEF LeftOf, Numbers
<1>2. \A c \in Calls : PartOf(calls, i)[c] \in Nat
  BY DEF PartOf, Numbers
<1>3. \A c \in Calls : DueOf(calls, i, k)[c] \in Nat
  BY DEF DueOf, Numbers
<1>4. Left(calls, i) \in Nat
  BY <1>0, <1>1, SumNat DEF Left
<1>5. Asleep(calls, i) \in Nat
  BY <1>0, <1>2, SumNat DEF Asleep
<1>6. Due(calls, i, k) \in Nat
  BY <1>0, <1>3, SumNat DEF Due
<1> QED BY <1>4, <1>5, <1>6

\* A limiter that no call holds.
LEMMA NobodyHolds ==
  ASSUME NEW calls, NEW i, \A c \in Calls : calls[c].holds # i, NEW k \in Nat
  PROVE  Left(calls, i) = 0 /\ Asleep(calls, i) = 0 /\ Due(calls, i, k) = 0
<1>0. IsFiniteSet(Calls)
  BY LimiterAssumption DEF LimiterAssumption
<1>1. \A c \in Calls : LeftOf(calls, i)[c] = 0 /\ PartOf(calls, i)[c] = 0 /\ DueOf(calls, i, k)[c] = 0
  BY DEF LeftOf, PartOf, DueOf
<1>2. Left(calls, i) = 0
  BY <1>0, <1>1, SumZero DEF Left
<1>3. Asleep(calls, i) = 0
  BY <1>0, <1>1, SumZero DEF Asleep
<1>4. Due(calls, i, k) = 0
  BY <1>0, <1>1, SumZero DEF Due
<1> QED BY <1>2, <1>3, <1>4

\* What is due is a part of what calls sleep for.
LEMMA DueIsAsleep ==
  ASSUME NEW calls, Numbers(calls), NEW i, NEW k \in Nat
  PROVE  Due(calls, i, k) <= Asleep(calls, i)
<1>0. IsFiniteSet(Calls)
  BY LimiterAssumption DEF LimiterAssumption
<1>1. \A c \in Calls : /\ DueOf(calls, i, k)[c] \in Int /\ PartOf(calls, i)[c] \in Int
                      /\ DueOf(calls, i, k)[c] <= PartOf(calls, i)[c]
  BY DEF DueOf, PartOf, Numbers
<1> QED BY <1>0, <1>1, SumMonotone DEF Due, Asleep

\* One call goes on: each sum changes by what changes for that call.
LEMMA OneCall ==
  ASSUME NEW p, NEW q, Numbers(p), Numbers(q), NEW c \in Calls,
         \A d \in Calls : d # c => p[d] = q[d], NEW i, NEW k \in Nat
  PROVE  /\ Left(q, i) = Left(p, i) - LeftOf(p, i)[c] + LeftOf(q, i)[c]
         /\ Asleep(q, i) = Asleep(p, i) - PartOf(p, i)[c] + PartOf(q, i)[c]
         /\ Due(q, i, k) = Due(p, i, k) - DueOf(p, i, k)[c] + DueOf(q, i, k)[c]
<1>0. IsFiniteSet(Calls)
  BY LimiterAssumption DEF LimiterAssumption
<1>1. /\ \A d \in Calls : LeftOf(p, i)[d] \in Int /\ LeftOf(q, i)[d] \in Int
      /\ \A d \in Calls : d # c => LeftOf(p, i)[d] = LeftOf(q, i)[d]
  BY DEF LeftOf, Numbers
<1>2. /\ \A d \in Calls : PartOf(p, i)[d] \in Int /\ PartOf(q, i)[d] \in Int
      /\ \A d \in Calls : d # c => PartOf(p, i)[d] = PartOf(q, i)[d]
  BY DEF PartOf, Numbers
<1>3. /\ \A d \in Calls : DueOf(p, i, k)[d] \in Int /\ DueOf(q, i, k)[d] \in Int
      /\ \A d \in Calls : d # c => DueOf(p, i, k)[d] = DueOf(q, i, k)[d]
  BY DEF DueOf, Numbers
<1>4. Left(q, i) = Left(p, i) - LeftOf(p, i)[c] + LeftOf(q, i)[c]
  BY <1>0, <1>1, SumChange DEF Left
<1>5. Asleep(q, i) = Asleep(p, i) - PartOf(p, i)[c] + PartOf(q, i)[c]
  BY <1>0, <1>2, SumChange DEF Asleep
<1>6. Due(q, i, k) = Due(p, i, k) - DueOf(p, i, k)[c] + DueOf(q, i, k)[c]
  BY <1>0, <1>3, SumChange DEF Due
<1> QED BY <1>4, <1>5, <1>6
-----------------------------------------------------------------------------
(* The invariant of the speed limit.  The bucket stands for what has been  *)
(* granted and asked for; that WaitN sleeps for as long as its debt lasts  *)
(* is what keeps the granted alone below what came in (k = 0).             *)

\* The full bucket a limiter began with, and what came in since.
Room(l) == l.burst + l.rate * l.ticks

\* Of the user's own limiter: granted, asked for and left in the bucket fit the
\* room; what passes within the time that lets k come in fits the room then.
InUse(l, calls, i) ==
  /\ l.late = 0
  /\ l.ticks < MaxTicks =>
       /\ l.granted + Asleep(calls, i) + l.tokens <= Room(l)
       /\ \A k \in Nat : l.granted + Due(calls, i, k) <= Room(l) + k

\* Of one that was replaced: what calls got since, they had left then.
Replaced(l) == l.ticks < MaxTicks => l.granted + l.held - l.late <= Room(l)

OfSpeed(l) == l.rate = BytesPerSecond(l.speed) /\ l.burst = Burst(l.speed)

Honest(l, calls, i, current) ==
  /\ OfSpeed(l)
  /\ l.held = Left(calls, i)
  /\ i = current => InUse(l, calls, i)
  /\ i # current => Replaced(l)

OutsideHoldsNothing == \A c \in Calls : call[c].phase # "inside" => call[c].holds = 0

ShareInv == OutsideHoldsNothing /\ \A i \in DOMAIN limiters : Honest(limiters[i], call, i, Current)

\* The fields of limiters and calls are the numbers they should be.
Typed(l) ==
  /\ l.speed \in Nat /\ l.rate \in Nat /\ l.burst \in Nat /\ l.tokens \in Int /\ l.tokens <= l.burst
  /\ l.ticks \in 0 .. MaxTicks /\ l.granted \in Nat /\ l.held \in Int /\ l.late \in Int

LEMMA FieldTypes ==
  ASSUME IInv
  PROVE  /\ Current \in Nat \ {0} /\ DOMAIN limiters = 1 .. Current
         /\ \A i \in DOMAIN limiters : limiters[i] \in Limiters /\ Typed(limiters[i])
         /\ Numbers(call)
         /\ \A c \in Calls : /\ call[c].holds \in 0 .. Current /\ call[c].part <= call[c].left
                             /\ ((call[c].holds = 0) <=> (call[c].left = 0))
<1>1. /\ limiters \in Seq(Limiters) /\ limiters # <<>> /\ call \in [Calls -> CallStates]
      /\ \A i \in DOMAIN limiters : limiters[i].tokens <= limiters[i].burst
      /\ \A c \in Calls : call[c].part <= call[c].left /\ ((call[c].holds = 0) <=> (call[c].left = 0))
  BY DEF IInv, TypeOK
<1>2. Current \in Nat \ {0} /\ DOMAIN limiters = 1 .. Current
  BY <1>1 DEF Current
<1>3. ASSUME NEW i \in DOMAIN limiters PROVE limiters[i] \in Limiters /\ Typed(limiters[i])
  <2>1. limiters[i] \in Limiters
    BY <1>1
  <2> QED BY <1>1, <2>1 DEF Limiters, Typed
<1>4. \A c \in Calls : call[c].holds \in 0 .. Current /\ call[c].left \in Nat /\ call[c].part \in 0 .. Part
                       /\ call[c].owed \in Nat
  BY <1>1 DEF CallStates
<1>5. Part \in Nat
  BY LimiterAssumption DEF LimiterAssumption
<1>6. Numbers(call)
  BY <1>4, <1>5 DEF Numbers
<1> QED BY <1>1, <1>2, <1>3, <1>4, <1>6

LEMMA NumbersNext == ASSUME IInv' PROVE Numbers(call')
<1>1. call' \in [Calls -> CallStates']
  BY DEF IInv, TypeOK
<1>2. \A c \in Calls : call'[c].left \in Nat /\ call'[c].part \in 0 .. Part /\ call'[c].owed \in Nat
  BY <1>1 DEF CallStates
<1>3. Part \in Nat
  BY LimiterAssumption DEF LimiterAssumption
<1> QED BY <1>2, <1>3 DEF Numbers

\* From p to q one call went on, and if it has bytes left it holds limiter i.
Serves(p, q, c, i) ==
  /\ Numbers(p) /\ Numbers(q)
  /\ \A d \in Calls : d # c => p[d] = q[d]
  /\ p[c].holds = i \/ (p[c].left = 0 /\ p[c].part = 0)
  /\ q[c].holds = i \/ (q[c].left = 0 /\ q[c].part = 0)

\* That is none of the business of another limiter.
LEMMA OthersKept ==
  ASSUME NEW p, NEW q, NEW c \in Calls, NEW i, Serves(p, q, c, i), NEW j, j # i,
         NEW l, NEW current, Honest(l, p, j, current)
  PROVE  Honest(l, q, j, current)
<1>0. /\ Numbers(p) /\ Numbers(q) /\ \A d \in Calls : d # c => p[d] = q[d]
      /\ p[c].holds = i \/ (p[c].left = 0 /\ p[c].part = 0)
      /\ q[c].holds = i \/ (q[c].left = 0 /\ q[c].part = 0)
  BY DEF Serves
<1>1. \A k \in Nat : /\ LeftOf(p, j)[c] = 0 /\ LeftOf(q, j)[c] = 0 /\ PartOf(p, j)[c] = 0
                    /\ PartOf(q, j)[c] = 0 /\ DueOf(p, j, k)[c] = 0 /\ DueOf(q, j, k)[c] = 0
  BY <1>0 DEF LeftOf, PartOf, DueOf
<1>2. ASSUME NEW k \in Nat
      PROVE  Left(q, j) = Left(p, j) /\ Asleep(q, j) = Asleep(p, j) /\ Due(q, j, k) = Due(p, j, k)
  <2>1. Left(p, j) \in Nat /\ Asleep(p, j) \in Nat /\ Due(p, j, k) \in Nat
    BY <1>0, SumsAreNat
  <2>2. /\ Left(q, j) = Left(p, j) - LeftOf(p, j)[c] + LeftOf(q, j)[c]
        /\ Asleep(q, j) = Asleep(p, j) - PartOf(p, j)[c] + PartOf(q, j)[c]
        /\ Due(q, j, k) = Due(p, j, k) - DueOf(p, j, k)[c] + DueOf(q, j, k)[c]
    BY <1>0, OneCall
  <2> QED BY <1>1, <2>1, <2>2
<1>3. Left(q, j) = Left(p, j) /\ Asleep(q, j) = Asleep(p, j)
  BY <1>2
<1> QED BY <1>2, <1>3 DEF Honest, InUse

\* One limiter is changed, for one call: it is enough to look at that limiter.
LEMMA OneLimiter ==
  ASSUME IInv, IInv', ShareInv, NEW c \in Calls, NEW new, NEW i \in DOMAIN limiters, NEW l \in Limiters,
         limiters' = [limiters EXCEPT ![i] = l], call' = [call EXCEPT ![c] = new],
         call[c].holds = i \/ call[c].holds = 0,
         new.holds = i \/ (new.left = 0 /\ new.part = 0),
         new.phase # "inside" => new.holds = 0,
         Honest(l, call', i, Current)
  PROVE  ShareInv'
<1>1. limiters \in Seq(Limiters) /\ call \in [Calls -> CallStates]
  BY DEF IInv, TypeOK
<1>2. /\ Len(limiters') = Len(limiters) /\ DOMAIN limiters' = DOMAIN limiters
      /\ \A k \in DOMAIN limiters : limiters'[k] = IF k = i THEN l ELSE limiters[k]
  BY <1>1, ExceptSeq
<1>3. Current' = Current
  BY <1>2 DEF Current
<1>4. call'[c] = new /\ \A d \in Calls : d # c => call[d] = call'[d]
  BY <1>1
<1>5. OutsideHoldsNothing'
  BY <1>4 DEF ShareInv, OutsideHoldsNothing
<1>6. ASSUME NEW j \in DOMAIN limiters, j # i PROVE Honest(limiters[j], call', j, Current)
  <2>1. Numbers(call) /\ Numbers(call')
    BY FieldTypes, NumbersNext
  <2>2. call[c].holds = i \/ (call[c].left = 0 /\ call[c].part = 0)
    <3>1. call[c].part <= call[c].left /\ (call[c].holds = 0 => call[c].left = 0) /\ call[c].part \in Nat
      BY FieldTypes, <2>1 DEF Numbers
    <3> QED BY <3>1
  <2>3. call'[c].holds = i \/ (call'[c].left = 0 /\ call'[c].part = 0)
    BY <1>4
  <2>4. Honest(limiters[j], call, j, Current)
    BY DEF ShareInv
  <2>5. Serves(call, call', c, i)
    BY <1>4, <2>1, <2>2, <2>3 DEF Serves
  <2> QED BY <1>6, <2>4, <2>5, OthersKept
<1>7. ASSUME NEW j \in DOMAIN limiters' PROVE Honest(limiters'[j], call', j, Current')
  <2>1. CASE j = i
    BY <1>2, <1>3, <2>1
  <2>2. CASE j # i
    BY <1>2, <1>3, <1>6, <2>2
  <2> QED BY <2>1, <2>2
<1> QED BY <1>5, <1>7 DEF ShareInv

LEMMA NewIsOfSpeed ==
  ASSUME NEW mbps \in Speeds
  PROVE  /\ OfSpeed(limiterFor(mbps)) /\ limiterFor(mbps).held = 0 /\ limiterFor(mbps).granted = 0
         /\ limiterFor(mbps).late = 0 /\ limiterFor(mbps).ticks = 0
         /\ limiterFor(mbps).tokens = limiterFor(mbps).burst
         /\ limiterFor(mbps).burst \in Nat /\ limiterFor(mbps).rate \in Nat
<1>1. limiterFor(mbps) \in Limiters
  BY NewLimiter
<1>2. limiterFor(mbps).burst \in Nat /\ limiterFor(mbps).rate \in Nat
  BY <1>1 DEF Limiters
<1> QED BY <1>2 DEF limiterFor, OfSpeed

\* A limiter nobody holds yet has its whole burst to give.
LEMMA NewIsHonest ==
  ASSUME NEW mbps \in Speeds, NEW calls, NEW i, \A c \in Calls : calls[c].holds # i
  PROVE  Honest(limiterFor(mbps), calls, i, i)
<1> DEFINE l == limiterFor(mbps)
<1>1. /\ OfSpeed(l) /\ l.held = 0 /\ l.granted = 0 /\ l.late = 0 /\ l.ticks = 0 /\ l.tokens = l.burst
      /\ l.burst \in Nat /\ l.rate \in Nat
  BY NewIsOfSpeed
<1> HIDE DEF l
<1>2. \A k \in Nat : Left(calls, i) = 0 /\ Asleep(calls, i) = 0 /\ Due(calls, i, k) = 0
  BY NobodyHolds
<1>3. Left(calls, i) = 0 /\ Asleep(calls, i) = 0
  BY <1>2
<1>4. Room(l) = l.burst
  BY <1>1 DEF Room
<1>5. InUse(l, calls, i)
  BY <1>1, <1>2, <1>3, <1>4 DEF InUse
<1>6. Honest(l, calls, i, i)
  BY <1>1, <1>3, <1>5 DEF Honest
<1> QED BY <1>6 DEF l

LEMMA InitShare == Init => ShareInv
<1> SUFFICES ASSUME Init PROVE ShareInv
  OBVIOUS
<1>1. PICK mbps \in Speeds : limiters = <<limiterFor(mbps)>>
  BY DEF Init
<1>2. DOMAIN limiters = {1} /\ Current = 1 /\ limiters[1] = limiterFor(mbps)
  BY <1>1 DEF Current
<1>3. \A c \in Calls : call[c].holds = 0
  BY DEF Init, Outside
<1>4. \A c \in Calls : call[c].holds # 1
  BY <1>3
<1>5. Honest(limiterFor(mbps), call, 1, 1)
  BY <1>4, NewIsHonest
<1> QED BY <1>2, <1>3, <1>5 DEF ShareInv, OutsideHoldsNothing
\* The user's own limiter is given up: what calls have left there is late.
LEMMA ReplaceShare ==
  ASSUME IInv, ShareInv, NEW mbps \in Speeds, Replace(mbps)
  PROVE  ShareInv'
<1> DEFINE l == [limiters[Current] EXCEPT !.late = limiters[Current].held]
           old == [limiters EXCEPT ![Current] = l]
           new == limiterFor(mbps)
<1>0. /\ Current \in Nat \ {0} /\ DOMAIN limiters = 1 .. Current
      /\ \A i \in DOMAIN limiters : limiters[i] \in Limiters /\ Typed(limiters[i])
      /\ \A c \in Calls : call[c].holds \in 0 .. Current
      /\ limiters \in Seq(Limiters)
  BY FieldTypes DEF IInv, TypeOK
<1>1. /\ l \in Limiters /\ l.late = limiters[Current].held
      /\ l.speed = limiters[Current].speed /\ l.rate = limiters[Current].rate
      /\ l.burst = limiters[Current].burst /\ l.ticks = limiters[Current].ticks
      /\ l.granted = limiters[Current].granted /\ l.held = limiters[Current].held
  <2>1. limiters[Current] \in Limiters /\ limiters[Current].held \in Int
    BY <1>0 DEF Typed
  <2> QED BY <2>1 DEF Limiters
<1>2. limiters' = Append(old, new) /\ call' = call
  BY DEF Replace
<1>3. new \in Limiters
  BY NewLimiter
<1>4. Honest(new, call, Current + 1, Current + 1)
  <2>1. \A c \in Calls : call[c].holds # Current + 1
    BY <1>0
  <2> QED BY <2>1, NewIsHonest
<1> HIDE DEF l, new
<1>5. /\ old \in Seq(Limiters) /\ Len(old) = Current
      /\ \A i \in 1 .. Current : old[i] = IF i = Current THEN l ELSE limiters[i]
  BY <1>0, <1>1, ExceptSeq DEF Current
<1> HIDE DEF old
<1>6. /\ Current' = Current + 1 /\ DOMAIN limiters' = 1 .. Current + 1
      /\ \A i \in 1 .. Current + 1 : limiters'[i] = IF i <= Current THEN old[i] ELSE new
  <2>1. /\ Len(limiters') = Current + 1 /\ DOMAIN limiters' = 1 .. Current + 1
        /\ \A i \in 1 .. Current + 1 : limiters'[i] = IF i <= Current THEN old[i] ELSE new
    BY <1>0, <1>2, <1>3, <1>5
  <2> QED BY <2>1 DEF Current
<1>7. Honest(l, call, Current, Current + 1)
  <2>1. Honest(limiters[Current], call, Current, Current) /\ Typed(limiters[Current])
    BY <1>0 DEF ShareInv
  <2>3. OfSpeed(l) /\ l.held = Left(call, Current) /\ Current # Current + 1
    BY <1>0, <2>1, <1>1 DEF Honest, OfSpeed
  <2>4. Replaced(l)
    <3>1. SUFFICES ASSUME l.ticks < MaxTicks PROVE l.granted + l.held - l.late <= Room(l)
      BY DEF Replaced
    <3>2. \A k \in Nat : l.granted + Due(call, Current, k) <= Room(l) + k
      BY <2>1, <1>1, <3>1 DEF Honest, InUse, Room
    <3>3. l.granted + Due(call, Current, 0) <= Room(l) + 0
      BY <3>2
    <3>4. Due(call, Current, 0) \in Nat
      BY FieldTypes, SumsAreNat
    <3>5. Room(l) \in Int /\ l.granted \in Nat /\ l.held \in Int
      BY <2>1, <1>1 DEF Room, Typed
    <3> QED BY <1>1, <3>3, <3>4, <3>5
  <2> QED BY <2>3, <2>4 DEF Honest
<1>8. ASSUME NEW i \in 1 .. Current - 1 PROVE Honest(limiters[i], call, i, Current + 1)
  <2>1. Honest(limiters[i], call, i, Current) /\ i # Current /\ i # Current + 1
    BY <1>0 DEF ShareInv
  <2> QED BY <2>1 DEF Honest
<1>9. ASSUME NEW i \in 1 .. Current + 1 PROVE Honest(limiters'[i], call', i, Current')
  <2>1. CASE i = Current + 1
    BY <1>0, <1>2, <1>4, <1>6, <2>1
  <2>2. CASE i = Current
    BY <1>0, <1>2, <1>5, <1>6, <1>7, <2>2
  <2>3. CASE i \in 1 .. Current - 1
    <3>1. limiters'[i] = limiters[i]
      BY <1>0, <1>5, <1>6, <2>3
    <3> QED BY <1>2, <1>6, <1>8, <2>3, <3>1
  <2> QED BY <1>0, <2>1, <2>2, <2>3
<1> QED BY <1>2, <1>6, <1>9 DEF ShareInv, OutsideHoldsNothing

LEMMA WaitShare ==
  ASSUME IInv, IInv', ShareInv, NEW c \in Calls, NEW n \in Sizes, Wait(c, n)
  PROVE  ShareInv'
<1>0. /\ Current \in DOMAIN limiters
      /\ \A i \in DOMAIN limiters : limiters[i] \in Limiters /\ Typed(limiters[i])
      /\ call \in [Calls -> CallStates] /\ call[c].holds = 0 /\ call[c].left = 0 /\ call[c].part = 0
  <2>1. call[c].holds = 0
    BY DEF Wait, ShareInv, OutsideHoldsNothing
  <2>2. call[c].left = 0 /\ call[c].part <= call[c].left /\ call[c].part \in Nat
    BY <2>1, FieldTypes DEF Numbers
  <2>3. Current \in DOMAIN limiters
    BY FieldTypes
  <2> QED BY <2>1, <2>2, <2>3, FieldTypes DEF IInv, TypeOK
<1>n. Numbers(call) /\ Numbers(call')
  BY FieldTypes, NumbersNext
<1>1. CASE Unlimited \/ n <= 0
  <2> DEFINE new == Outside("returned")
  <2>1. call' = [call EXCEPT ![c] = new] /\ limiters' = limiters
    BY <1>1 DEF Wait
  <2>2. new.phase = "returned" /\ new.holds = 0 /\ new.left = 0 /\ new.part = 0
    BY DEF Outside
  <2> HIDE DEF new
  <2>3. call'[c] = new /\ \A d \in Calls : d # c => call[d] = call'[d]
    BY <1>0, <2>1
  <2>4. \A i : Serves(call, call', c, i)
    BY <1>0, <1>n, <2>2, <2>3 DEF Serves
  <2>5. ASSUME NEW j \in DOMAIN limiters PROVE Honest(limiters[j], call', j, Current)
    <3>1. Serves(call, call', c, 0) /\ j # 0
      BY <2>4, FieldTypes
    <3>2. Honest(limiters[j], call, j, Current)
      BY DEF ShareInv
    <3> QED BY <3>1, <3>2, OthersKept
  <2>6. OutsideHoldsNothing'
    BY <2>2, <2>3 DEF ShareInv, OutsideHoldsNothing
  <2>7. Current' = Current
    BY <2>1 DEF Current
  <2> QED BY <2>1, <2>5, <2>6, <2>7 DEF ShareInv
<1>2. CASE ~(Unlimited \/ n <= 0)
  <2> DEFINE i == Current
             m == limiters[Current]
             l == [m EXCEPT !.held = m.held + n]
             new == Inside(Current, n, 0, 0)
  <2>1. limiters' = [limiters EXCEPT ![i] = l] /\ call' = [call EXCEPT ![c] = new] /\ n \in Nat
    BY <1>2, LimiterAssumption DEF Wait, Held, LimiterAssumption
  <2>2. m \in Limiters /\ m.held + n \in Int /\ Typed(m)
    BY <1>0, <2>1 DEF Typed
  <2>3. /\ l \in Limiters /\ l.held = m.held + n
        /\ l.speed = m.speed /\ l.rate = m.rate /\ l.burst = m.burst /\ l.tokens = m.tokens
        /\ l.ticks = m.ticks /\ l.granted = m.granted /\ l.late = m.late
    BY <2>2 DEF Limiters
  <2>4. new.phase = "inside" /\ new.holds = i /\ new.left = n /\ new.part = 0 /\ new.owed = 0
    BY DEF Inside
  <2>5. Honest(m, call, i, Current)
    BY <1>0 DEF ShareInv
  <2> HIDE DEF i, m, l, new
  <2>6. call'[c] = new /\ \A d \in Calls : d # c => call[d] = call'[d]
    BY <1>0, <2>1
  <2>7. i \in DOMAIN limiters /\ i \in Nat \ {0} /\ i = Current
    BY <1>0, FieldTypes DEF i
  <2>8. /\ LeftOf(call, i)[c] = 0 /\ LeftOf(call', i)[c] = n /\ PartOf(call, i)[c] = 0
        /\ PartOf(call', i)[c] = 0 /\ \A k \in Nat : DueOf(call, i, k)[c] = 0 /\ DueOf(call', i, k)[c] = 0
    BY <1>0, <2>4, <2>6, <2>7 DEF LeftOf, PartOf, DueOf
  <2>9. ASSUME NEW k \in Nat
        PROVE  /\ Left(call', i) = Left(call, i) + n /\ Asleep(call', i) = Asleep(call, i)
               /\ Due(call', i, k) = Due(call, i, k)
    <3>1. Left(call, i) \in Nat /\ Asleep(call, i) \in Nat /\ Due(call, i, k) \in Nat
      BY <1>n, SumsAreNat
    <3>2. /\ Left(call', i) = Left(call, i) - LeftOf(call, i)[c] + LeftOf(call', i)[c]
          /\ Asleep(call', i) = Asleep(call, i) - PartOf(call, i)[c] + PartOf(call', i)[c]
          /\ Due(call', i, k) = Due(call, i, k) - DueOf(call, i, k)[c] + DueOf(call', i, k)[c]
      BY <1>n, <2>6, OneCall
    <3>3. n \in Nat
      BY <2>1
    <3>4. /\ LeftOf(call, i)[c] = 0 /\ LeftOf(call', i)[c] = n /\ PartOf(call, i)[c] = 0
          /\ PartOf(call', i)[c] = 0 /\ DueOf(call, i, k)[c] = 0 /\ DueOf(call', i, k)[c] = 0
      BY <2>8
    <3> QED BY <3>1, <3>2, <3>3, <3>4
  <2>10. Left(call', i) = Left(call, i) + n /\ Asleep(call', i) = Asleep(call, i)
    BY <2>9
  <2>11. InUse(l, call', i)
    BY <2>3, <2>5, <2>7, <2>9, <2>10 DEF Honest, InUse, Room
  <2>12. Honest(l, call', i, Current)
    BY <2>3, <2>5, <2>7, <2>10, <2>11 DEF Honest, OfSpeed
  <2> QED BY <1>0, <2>1, <2>3, <2>4, <2>7, <2>12, OneLimiter
<1> QED BY <1>1, <1>2

\* WaitN moves a part from the bucket to those who sleep; it is due when the
\* debt is paid that the bucket then has.
LEMMA WaitNShare ==
  ASSUME IInv, IInv', ShareInv, NEW c \in Calls, WaitN(c)
  PROVE  ShareInv'
<1> DEFINE i == call[c].holds
           part == IF call[c].left > Part THEN Part ELSE call[c].left
           tokens == limiters[i].tokens - part
           m == limiters[i]
           l == [m EXCEPT !.tokens = tokens]
           owed == IF tokens < 0 THEN -tokens ELSE 0
           new == Inside(i, call[c].left, part, owed)
<1>n. Numbers(call) /\ Numbers(call')
  BY FieldTypes, NumbersNext
<1>0. /\ i \in DOMAIN limiters /\ i # 0 /\ m \in Limiters /\ Typed(m) /\ Honest(m, call, i, Current)
      /\ call \in [Calls -> CallStates] /\ call[c].part = 0 /\ call[c].left \in Nat
      /\ Part \in Nat /\ Part <= m.burst
  <2>1. i # 0 /\ call[c].part = 0 /\ i \in 0 .. Current /\ DOMAIN limiters = 1 .. Current /\ Current \in Nat
    BY FieldTypes DEF WaitN
  <2>2. i \in DOMAIN limiters
    BY <2>1
  <2>3. call[c].left \in Nat
    BY <1>n DEF Numbers
  <2>4. Honest(m, call, i, Current) /\ Part <= m.burst
    BY <2>2 DEF ShareInv, IInv, PartsFit
  <2> QED BY <2>1, <2>2, <2>3, <2>4, FieldTypes, LimiterAssumption DEF IInv, TypeOK, LimiterAssumption
<1>1. part \in Nat /\ part <= Part /\ tokens \in Int /\ owed \in Nat /\ owed >= -tokens
  BY <1>0 DEF Typed
<1>2. limiters' = [limiters EXCEPT ![i] = l] /\ call' = [call EXCEPT ![c] = new]
  <2>1. ~(part > m.burst)
    BY <1>0, <1>1 DEF Typed
  <2> QED BY <2>1 DEF WaitN
<1>3. /\ l \in Limiters /\ l.tokens = m.tokens - part
      /\ l.speed = m.speed /\ l.rate = m.rate /\ l.burst = m.burst
      /\ l.ticks = m.ticks /\ l.granted = m.granted /\ l.held = m.held /\ l.late = m.late
  BY <1>0, <1>1 DEF Limiters
<1>4. new.phase = "inside" /\ new.holds = i /\ new.left = call[c].left /\ new.part = part /\ new.owed = owed
  BY DEF Inside
<1>5. tokens = m.tokens - part /\ i = call[c].holds
  OBVIOUS
<1> HIDE DEF i, m, l, new, part, tokens, owed
<1>6. call'[c] = new /\ \A d \in Calls : d # c => call[d] = call'[d]
  BY <1>0, <1>2
<1>7. /\ LeftOf(call, i)[c] = call[c].left /\ LeftOf(call', i)[c] = call[c].left
      /\ PartOf(call, i)[c] = 0 /\ PartOf(call', i)[c] = part
      /\ \A k \in Nat : /\ DueOf(call, i, k)[c] = 0
                        /\ DueOf(call', i, k)[c] = IF owed <= k THEN part ELSE 0
  BY <1>0, <1>4, <1>5, <1>6 DEF LeftOf, PartOf, DueOf
<1>8. ASSUME NEW k \in Nat
      PROVE  /\ Left(call', i) = Left(call, i) /\ Asleep(call', i) = Asleep(call, i) + part
             /\ Due(call', i, k) = Due(call, i, k) + IF owed <= k THEN part ELSE 0
             /\ Asleep(call, i) \in Nat /\ Due(call, i, k) \in Nat /\ Due(call, i, k) <= Asleep(call, i)
  <2>1. Left(call, i) \in Nat /\ Asleep(call, i) \in Nat /\ Due(call, i, k) \in Nat
    BY <1>n, SumsAreNat
  <2>2. /\ Left(call', i) = Left(call, i) - LeftOf(call, i)[c] + LeftOf(call', i)[c]
        /\ Asleep(call', i) = Asleep(call, i) - PartOf(call, i)[c] + PartOf(call', i)[c]
        /\ Due(call', i, k) = Due(call, i, k) - DueOf(call, i, k)[c] + DueOf(call', i, k)[c]
    BY <1>n, <1>6, OneCall
  <2>3. Due(call, i, k) <= Asleep(call, i)
    BY <1>n, DueIsAsleep
  <2> QED BY <1>0, <1>1, <1>7, <2>1, <2>2, <2>3
<1>9. Left(call', i) = Left(call, i) /\ Asleep(call', i) = Asleep(call, i) + part /\ Asleep(call, i) \in Nat
  BY <1>8
<1>10. /\ Room(l) = Room(m) /\ Room(m) \in Int /\ m.granted \in Nat /\ m.tokens \in Int
  BY <1>0, <1>3 DEF Room, Typed
<1>11. ASSUME i = Current PROVE InUse(l, call', i)
  <2>1. m.late = 0
    BY <1>0, <1>11 DEF Honest, InUse
  <2>2. ASSUME l.ticks < MaxTicks
        PROVE  l.granted + Asleep(call', i) + l.tokens <= Room(l)
    <3>1. m.granted + Asleep(call, i) + m.tokens <= Room(m)
      BY <1>0, <1>3, <1>10, <1>11, <2>2 DEF Honest, InUse
    <3> QED BY <1>1, <1>3, <1>9, <1>10, <3>1
  <2>3. ASSUME l.ticks < MaxTicks, NEW k \in Nat
        PROVE  l.granted + Due(call', i, k) <= Room(l) + k
    <3>1. /\ m.granted + Asleep(call, i) + m.tokens <= Room(m)
          /\ m.granted + Due(call, i, k) <= Room(m) + k
      BY <1>0, <1>3, <1>10, <1>11, <2>3 DEF Honest, InUse
    <3>2. CASE owed <= k
      <4>1. Due(call', i, k) = Due(call, i, k) + part
        BY <1>8, <3>2
      <4> QED BY <1>1, <1>3, <1>5, <1>8, <1>10, <3>1, <3>2, <4>1
    <3>3. CASE ~(owed <= k)
      <4>1. Due(call', i, k) = Due(call, i, k)
        BY <1>8, <3>3
      <4> QED BY <1>3, <1>10, <3>1, <4>1
    <3> QED BY <3>2, <3>3
  <2> QED BY <1>3, <2>1, <2>2, <2>3 DEF InUse
<1>12. ASSUME i # Current PROVE Replaced(l)
  BY <1>0, <1>3, <1>10, <1>12 DEF Honest, Replaced
<1>13. Honest(l, call', i, Current)
  BY <1>0, <1>3, <1>9, <1>11, <1>12 DEF Honest, OfSpeed
<1> QED BY <1>0, <1>2, <1>3, <1>4, <1>5, <1>13, OneLimiter
\* A part that was due is granted, and no longer held.
LEMMA WakeShare ==
  ASSUME IInv, IInv', ShareInv, NEW c \in Calls, Wake(c)
  PROVE  ShareInv'
<1> DEFINE i == call[c].holds
           part == call[c].part
           m == limiters[i]
           g == [m EXCEPT !.granted = m.granted + part]
           l == [g EXCEPT !.held = m.held - part]
           new == IF call[c].left > part THEN Inside(i, call[c].left - part, 0, 0) ELSE Outside("returned")
<1>n. Numbers(call) /\ Numbers(call')
  BY FieldTypes, NumbersNext
<1>0. /\ i \in DOMAIN limiters /\ i # 0 /\ m \in Limiters /\ Typed(m) /\ Honest(m, call, i, Current)
      /\ call \in [Calls -> CallStates] /\ call[c].owed = 0
      /\ part \in Nat /\ part <= call[c].left /\ call[c].left \in Nat
  <2>1. part \in Nat /\ call[c].left \in Nat
    BY <1>n DEF Numbers
  <2>2. /\ i \in 0 .. Current /\ DOMAIN limiters = 1 .. Current /\ Current \in Nat
        /\ part <= call[c].left /\ ((i = 0) <=> (call[c].left = 0))
    BY FieldTypes
  <2>3. part > 0 /\ call[c].owed = 0
    BY DEF Wake
  <2>4. i # 0 /\ i \in DOMAIN limiters
    BY <2>1, <2>2, <2>3
  <2>5. Honest(m, call, i, Current)
    BY <2>4 DEF ShareInv
  <2> QED BY <2>1, <2>2, <2>3, <2>4, <2>5, FieldTypes DEF IInv, TypeOK
<1>1. limiters' = [limiters EXCEPT ![i] = l] /\ call' = [call EXCEPT ![c] = new]
  BY DEF Wake, Passed
<1>2. /\ l \in Limiters /\ l.granted = m.granted + part /\ l.held = m.held - part
      /\ l.speed = m.speed /\ l.rate = m.rate /\ l.burst = m.burst /\ l.tokens = m.tokens
      /\ l.ticks = m.ticks /\ l.late = m.late
  <2>1. m.granted + part \in Nat /\ m.held - part \in Int
    BY <1>0 DEF Typed
  <2>2. /\ g \in Limiters /\ g.granted = m.granted + part
        /\ g.speed = m.speed /\ g.rate = m.rate /\ g.burst = m.burst /\ g.tokens = m.tokens
        /\ g.ticks = m.ticks /\ g.late = m.late
    BY <1>0, <2>1 DEF Limiters
  <2> HIDE DEF g
  <2> QED BY <2>1, <2>2 DEF Limiters
<1>3. /\ new.part = 0 /\ (new.phase # "inside" => new.holds = 0)
      /\ new.holds = i \/ (new.left = 0 /\ new.part = 0)
      /\ (IF new.holds = i THEN new.left ELSE 0) = call[c].left - part
  <2>1. CASE call[c].left > part
    BY <1>0, <2>1 DEF Inside
  <2>2. CASE ~(call[c].left > part)
    BY <1>0, <2>2 DEF Outside
  <2> QED BY <2>1, <2>2
<1>4. i = call[c].holds /\ part = call[c].part
  OBVIOUS
<1> HIDE DEF i, m, g, l, new, part
<1>5. call'[c] = new /\ \A d \in Calls : d # c => call[d] = call'[d]
  BY <1>0, <1>1
<1>6. ASSUME NEW k \in Nat
      PROVE  /\ LeftOf(call, i)[c] = call[c].left /\ LeftOf(call', i)[c] = call[c].left - part
             /\ PartOf(call, i)[c] = part /\ PartOf(call', i)[c] = 0
             /\ DueOf(call, i, k)[c] = part /\ DueOf(call', i, k)[c] = 0
  BY <1>0, <1>3, <1>4, <1>5 DEF LeftOf, PartOf, DueOf
<1>7. ASSUME NEW k \in Nat
      PROVE  /\ Left(call', i) = Left(call, i) - part /\ Asleep(call', i) = Asleep(call, i) - part
             /\ Due(call', i, k) = Due(call, i, k) - part
             /\ Left(call, i) \in Nat /\ Asleep(call, i) \in Nat /\ Due(call, i, k) \in Nat
  <2>1. Left(call, i) \in Nat /\ Asleep(call, i) \in Nat /\ Due(call, i, k) \in Nat
    BY <1>n, SumsAreNat
  <2>2. /\ Left(call', i) = Left(call, i) - LeftOf(call, i)[c] + LeftOf(call', i)[c]
        /\ Asleep(call', i) = Asleep(call, i) - PartOf(call, i)[c] + PartOf(call', i)[c]
        /\ Due(call', i, k) = Due(call, i, k) - DueOf(call, i, k)[c] + DueOf(call', i, k)[c]
    BY <1>n, <1>5, OneCall
  <2> QED BY <1>0, <1>6, <2>1, <2>2
<1>8. /\ Left(call', i) = Left(call, i) - part /\ Asleep(call', i) = Asleep(call, i) - part
      /\ Left(call, i) \in Nat /\ Asleep(call, i) \in Nat
  BY <1>7
<1>9. /\ Room(l) = Room(m) /\ Room(m) \in Int /\ m.granted \in Nat /\ m.tokens \in Int
      /\ m.held \in Int /\ m.late \in Int
  BY <1>0, <1>2 DEF Room, Typed
<1>10. ASSUME i = Current PROVE InUse(l, call', i)
  <2>1. m.late = 0
    BY <1>0, <1>10 DEF Honest, InUse
  <2>2. ASSUME l.ticks < MaxTicks
        PROVE  l.granted + Asleep(call', i) + l.tokens <= Room(l)
    <3>1. m.granted + Asleep(call, i) + m.tokens <= Room(m)
      BY <1>0, <1>2, <1>10, <2>2 DEF Honest, InUse
    <3> QED BY <1>0, <1>2, <1>8, <1>9, <3>1
  <2>3. ASSUME l.ticks < MaxTicks, NEW k \in Nat
        PROVE  l.granted + Due(call', i, k) <= Room(l) + k
    <3>1. m.granted + Due(call, i, k) <= Room(m) + k
      BY <1>0, <1>2, <1>10, <2>3 DEF Honest, InUse
    <3> QED BY <1>0, <1>2, <1>7, <1>9, <3>1
  <2> QED BY <1>2, <2>1, <2>2, <2>3 DEF InUse
<1>11. ASSUME i # Current PROVE Replaced(l)
  <2>1. m.ticks < MaxTicks => m.granted + m.held - m.late <= Room(m)
    BY <1>0, <1>11 DEF Honest, Replaced
  <2> QED BY <1>0, <1>2, <1>9, <2>1 DEF Replaced
<1>12. Honest(l, call', i, Current)
  BY <1>0, <1>2, <1>8, <1>10, <1>11 DEF Honest, OfSpeed
<1> QED BY <1>0, <1>1, <1>2, <1>3, <1>4, <1>12, OneLimiter

\* A second more makes as much room as it brings in.
LEMMA RoomGrows ==
  ASSUME NEW burst \in Nat, NEW rate \in Nat, NEW ticks \in Nat
  PROVE  burst + rate * (ticks + 1) = burst + rate * ticks + rate /\ rate * ticks \in Nat
  OBVIOUS

\* A second goes by: what was due within it and k is due within k, and the room
\* has grown by as much.
LEMMA TickShare ==
  ASSUME IInv, ShareInv, Tick
  PROVE  ShareInv'
<1>n. Numbers(call)
  BY FieldTypes
<1>0. /\ Current \in Nat \ {0} /\ DOMAIN limiters = 1 .. Current /\ call \in [Calls -> CallStates]
      /\ limiters \in Seq(Limiters)
      /\ \A i \in DOMAIN limiters : limiters[i] \in Limiters /\ Typed(limiters[i]) /\ Honest(limiters[i], call, i, Current)
      /\ MaxTicks \in Nat
  BY FieldTypes, LimiterAssumption DEF ShareInv, IInv, TypeOK, LimiterAssumption
<1>1. limiters' = [i \in DOMAIN limiters |-> Ticked(i)] /\ call' = [c \in Calls |-> Slept(c)]
  BY DEF Tick
<1>2. ASSUME NEW c \in Calls
      PROVE  /\ call'[c].holds = call[c].holds /\ call'[c].left = call[c].left /\ call'[c].part = call[c].part
             /\ call'[c].phase = call[c].phase /\ call'[c].owed = Paid(c)
  BY <1>0, <1>1 DEF Slept, CallStates
<1>3. DOMAIN limiters' = DOMAIN limiters /\ Current' = Current
  <2>1. Len(limiters') = Len(limiters) /\ DOMAIN limiters' = DOMAIN limiters
    <3>1. limiters' = [i \in 1 .. Current |-> Ticked(i)]
      BY <1>0, <1>1
    <3> QED BY <1>0, <3>1 DEF Current
  <2> QED BY <2>1 DEF Current
<1>4. OutsideHoldsNothing'
  BY <1>2 DEF ShareInv, OutsideHoldsNothing
<1>5. ASSUME NEW i \in DOMAIN limiters PROVE Honest(limiters'[i], call', i, Current)
  <2> DEFINE m == limiters[i]
             f == [m EXCEPT !.tokens = Filled(m)]
             l == [f EXCEPT !.ticks = Counted(i)]
  <2>0. m \in Limiters /\ Typed(m) /\ Honest(m, call, i, Current) /\ i # 0
    BY <1>0
  <2>1. limiters'[i] = l
    <3>1. limiters'[i] = Ticked(i)
      BY <1>1
    <3> QED BY <3>1 DEF Ticked
  <2>2. Filled(m) \in Int /\ Filled(m) <= m.tokens + m.rate
    BY <2>0 DEF Filled, Typed
  <2>3. /\ Counted(i) \in 0 .. MaxTicks
        /\ i = Current /\ Counted(i) < MaxTicks => Counted(i) = m.ticks + 1 /\ m.ticks < MaxTicks
        /\ i # Current => Counted(i) = m.ticks
    <3>1. m.ticks \in 0 .. MaxTicks /\ MaxTicks \in Nat
      BY <1>0, <2>0 DEF Typed
    <3>2. Counted(i) = IF i = Current /\ m.ticks < MaxTicks THEN m.ticks + 1 ELSE m.ticks
      BY DEF Counted
    <3> HIDE DEF m
    <3> QED BY <3>1, <3>2
  <2>4. /\ l.tokens = Filled(m) /\ l.ticks = Counted(i)
        /\ l.speed = m.speed /\ l.rate = m.rate /\ l.burst = m.burst
        /\ l.granted = m.granted /\ l.held = m.held /\ l.late = m.late
    <3>1. /\ f \in Limiters /\ f.tokens = Filled(m)
          /\ f.speed = m.speed /\ f.rate = m.rate /\ f.burst = m.burst
          /\ f.granted = m.granted /\ f.held = m.held /\ f.late = m.late
      BY <2>0, <2>2 DEF Limiters
    <3> HIDE DEF f
    <3> QED BY <2>3, <3>1 DEF Limiters
  <2>5. ASSUME NEW c \in Calls, call[c].holds = i
        PROVE  \A k \in Nat : (call'[c].owed <= k) <=> (call[c].owed <= k + m.rate)
    <3>1. call[c].owed \in Nat /\ m.rate \in Nat
      BY <1>n, <2>0 DEF Numbers, Typed
    <3>2. Paid(c) = IF call[c].owed <= m.rate THEN 0 ELSE call[c].owed - m.rate
      BY <2>0, <2>5 DEF Paid
    <3> QED BY <1>2, <3>1, <3>2
  <2> HIDE DEF m, f, l
  <2>6. IsFiniteSet(Calls) /\ m.rate \in Nat
    BY <2>0, LimiterAssumption DEF LimiterAssumption, Typed
  <2>7. Left(call', i) = Left(call, i) /\ Asleep(call', i) = Asleep(call, i)
    <3>1. \A c \in Calls : LeftOf(call', i)[c] = LeftOf(call, i)[c]
      BY <1>2 DEF LeftOf
    <3>2. \A c \in Calls : PartOf(call', i)[c] = PartOf(call, i)[c]
      BY <1>2 DEF PartOf
    <3>3. Left(call', i) = Left(call, i)
      BY <2>6, <3>1, SumSame DEF Left
    <3>4. Asleep(call', i) = Asleep(call, i)
      BY <2>6, <3>2, SumSame DEF Asleep
    <3> QED BY <3>3, <3>4
  <2>8. ASSUME NEW k \in Nat PROVE Due(call', i, k) = Due(call, i, k + m.rate)
    <3>1. \A c \in Calls : DueOf(call', i, k)[c] = DueOf(call, i, k + m.rate)[c]
      BY <1>2, <2>5 DEF DueOf
    <3> QED BY <2>6, <3>1, SumSame DEF Due
  <2>9. ASSUME i = Current PROVE InUse(l, call', i)
    <3>1. m.late = 0
      BY <2>0, <2>9 DEF Honest, InUse
    <3>2. ASSUME l.ticks < MaxTicks
          PROVE  /\ m.ticks < MaxTicks /\ Room(l) = Room(m) + m.rate /\ Room(m) \in Int
      <4>1. l.ticks = m.ticks + 1 /\ m.ticks < MaxTicks
        BY <2>3, <2>4, <2>9, <3>2
      <4>2. m.burst \in Nat /\ m.rate \in Nat /\ m.ticks \in Nat
        BY <1>0, <2>0 DEF Typed
      <4>3. Room(l) = m.burst + m.rate * (m.ticks + 1)
        BY <2>4, <4>1 DEF Room
      <4>4. m.burst + m.rate * (m.ticks + 1) = Room(m) + m.rate /\ m.rate * m.ticks \in Nat
        BY <4>2, RoomGrows DEF Room
      <4> QED BY <4>1, <4>2, <4>3, <4>4 DEF Room
    <3>3. ASSUME l.ticks < MaxTicks
          PROVE  l.granted + Asleep(call', i) + l.tokens <= Room(l)
      <4>1. m.granted + Asleep(call, i) + m.tokens <= Room(m)
        BY <2>0, <2>9, <3>2, <3>3 DEF Honest, InUse
      <4>2. Asleep(call, i) \in Nat
        BY <1>n, SumsAreNat
      <4>3. m.granted \in Nat /\ m.tokens \in Int /\ Room(l) = Room(m) + m.rate /\ Room(m) \in Int
        BY <2>0, <3>2, <3>3 DEF Typed
      <4> QED BY <2>2, <2>4, <2>6, <2>7, <4>1, <4>2, <4>3
    <3>4. ASSUME l.ticks < MaxTicks, NEW k \in Nat
          PROVE  l.granted + Due(call', i, k) <= Room(l) + k
      <4>1. k + m.rate \in Nat
        BY <2>6
      <4>2. m.granted + Due(call, i, k + m.rate) <= Room(m) + (k + m.rate)
        BY <2>0, <2>9, <3>2, <3>4, <4>1 DEF Honest, InUse
      <4>3. Due(call, i, k + m.rate) \in Nat
        BY <1>n, <4>1, SumsAreNat
      <4>4. m.granted \in Nat /\ Room(l) = Room(m) + m.rate /\ Room(m) \in Int
        BY <2>0, <3>2, <3>4 DEF Typed
      <4> QED BY <2>4, <2>6, <2>8, <4>2, <4>3, <4>4
    <3> QED BY <2>4, <3>1, <3>3, <3>4 DEF InUse
  <2>10. ASSUME i # Current PROVE Replaced(l)
    <3>1. l.ticks = m.ticks /\ Room(l) = Room(m)
      BY <2>3, <2>4, <2>10 DEF Room
    <3> QED BY <2>0, <2>4, <2>10, <3>1 DEF Honest, Replaced
  <2>11. Honest(l, call', i, Current)
    BY <2>0, <2>4, <2>7, <2>9, <2>10 DEF Honest, OfSpeed
  <2> QED BY <2>1, <2>11
<1> QED BY <1>3, <1>4, <1>5 DEF ShareInv

LEMMA StepShare == IInv /\ IInv' /\ ShareInv /\ [Next]_vars => ShareInv'
<1> SUFFICES ASSUME IInv, IInv', ShareInv, [Next]_vars PROVE ShareInv'
  OBVIOUS
<1>1. CASE UNCHANGED vars
  BY <1>1 DEF vars, ShareInv, OutsideHoldsNothing, Current, Honest, InUse, Replaced, OfSpeed, Room,
              Left, Asleep, Due, LeftOf, PartOf, DueOf
<1>2. CASE Next
  BY <1>2, ReplaceShare, WaitShare, WaitNShare, WakeShare, TickShare DEF Next
<1> QED BY <1>1, <1>2

\* Eight bits to the byte: what a rate and a burst are in bits.
LEMMA BitsOfSpeed ==
  ASSUME NEW speed \in Nat
  PROVE  /\ BytesPerSecond(speed) \in Nat /\ 8 * BytesPerSecond(speed) <= speed * Mega
         /\ 8 * Burst(speed) <= IF 8 * Part >= speed * Mega THEN 8 * Part ELSE speed * Mega
         /\ Burst(speed) \in Nat /\ speed * Mega \in Nat
<1>1. speed * Mega \in Nat /\ Part \in Nat
  BY LimiterAssumption DEF LimiterAssumption
<1> DEFINE second == speed * Mega
           rate == second \div 8
<1>2. rate \in Nat /\ 8 * rate <= second
  <2>1. second \in Nat
    BY <1>1
  <2> HIDE DEF second
  <2> QED BY <2>1
<1>3. BytesPerSecond(speed) = rate /\ Burst(speed) = IF Part >= rate THEN Part ELSE rate
  BY DEF BytesPerSecond, Burst
<1> HIDE DEF rate
<1>4. second \in Nat
  BY <1>1
<1>5. 8 * Burst(speed) <= IF 8 * Part >= second THEN 8 * Part ELSE second
  <2> HIDE DEF second
  <2> QED BY <1>1, <1>2, <1>3, <1>4
<1> QED BY <1>1, <1>2, <1>3, <1>5

LEMMA Times == ASSUME NEW a \in Nat, NEW b \in Nat, NEW t \in Nat, 8 * a <= b
               PROVE  8 * (a * t) <= b * t /\ a * t \in Nat /\ b * t \in Nat
<1>1. (b - 8 * a) \in Nat /\ (b - 8 * a) * t \in Nat
  OBVIOUS
<1>2. (b - 8 * a) * t = b * t - 8 * (a * t)
  OBVIOUS
<1> QED BY <1>1, <1>2

LEMMA ShareHolds == IInv /\ ShareInv => SpeedLimitHolds
<1> SUFFICES ASSUME IInv, ShareInv, NEW i \in DOMAIN limiters, limiters[i].ticks < MaxTicks
             PROVE  8 * (limiters[i].granted - limiters[i].late)
                      <= (IF 8 * Part >= limiters[i].speed * Mega THEN 8 * Part ELSE limiters[i].speed * Mega)
                         + limiters[i].speed * Mega * limiters[i].ticks
  BY DEF SpeedLimitHolds
<1> DEFINE l == limiters[i]
           second == l.speed * Mega
<1>1. Typed(l) /\ Honest(l, call, i, Current) /\ Numbers(call)
  BY FieldTypes DEF ShareInv
<1> HIDE DEF l
<1>2. l.ticks < MaxTicks
  BY DEF l
<1>3. l.granted - l.late <= Room(l)
  <2>1. CASE i = Current
    <3>1. l.late = 0 /\ \A k \in Nat : l.granted + Due(call, i, k) <= Room(l) + k
      BY <1>1, <1>2, <2>1 DEF Honest, InUse
    <3>2. l.granted + Due(call, i, 0) <= Room(l) + 0
      BY <3>1
    <3>3. Due(call, i, 0) \in Nat
      BY <1>1, SumsAreNat
    <3>4. Room(l) \in Int /\ l.granted \in Nat
      BY <1>1 DEF Room, Typed
    <3> QED BY <3>1, <3>2, <3>3, <3>4
  <2>2. CASE i # Current
    <3>1. l.granted + l.held - l.late <= Room(l)
      BY <1>1, <1>2, <2>2 DEF Honest, Replaced
    <3>2. l.held \in Nat
      <4>1. 0 \in Nat /\ l.held = Left(call, i)
        BY <1>1 DEF Honest
      <4> QED BY <1>1, <4>1, SumsAreNat
    <3>3. Room(l) \in Int /\ l.granted \in Nat /\ l.late \in Int
      BY <1>1 DEF Room, Typed
    <3> QED BY <3>1, <3>2, <3>3
  <2> QED BY <2>1, <2>2
<1>4. /\ l.rate \in Nat /\ 8 * l.rate <= second /\ second \in Nat /\ l.burst \in Nat
      /\ 8 * l.burst <= IF 8 * Part >= second THEN 8 * Part ELSE second
      /\ l.ticks \in Nat /\ l.granted \in Nat /\ l.late \in Int /\ Part \in Nat
  <2>1. l.rate = BytesPerSecond(l.speed) /\ l.burst = Burst(l.speed) /\ l.speed \in Nat
    BY <1>1 DEF Honest, OfSpeed, Typed
  <2>2. l.ticks \in Nat /\ l.granted \in Nat /\ l.late \in Int /\ Part \in Nat
    BY <1>1, LimiterAssumption DEF Typed, LimiterAssumption
  <2> QED BY <2>1, <2>2, BitsOfSpeed
<1>5. second = l.speed * Mega
  OBVIOUS
<1> HIDE DEF second
<1>6. 8 * (l.rate * l.ticks) <= second * l.ticks /\ l.rate * l.ticks \in Nat /\ second * l.ticks \in Nat
  BY <1>4, Times
<1>7. 8 * (l.granted - l.late) <= (IF 8 * Part >= second THEN 8 * Part ELSE second) + second * l.ticks
  <2> DEFINE came == l.rate * l.ticks
             bits == second * l.ticks
             first == IF 8 * Part >= second THEN 8 * Part ELSE second
  <2>1. l.granted - l.late <= l.burst + came
    BY <1>3 DEF Room
  <2>2. came \in Nat /\ bits \in Nat /\ 8 * came <= bits /\ first \in Nat /\ 8 * l.burst <= first
    BY <1>4, <1>6
  <2> HIDE DEF came, bits, first
  <2>3. 8 * (l.granted - l.late) <= first + bits
    BY <1>4, <2>1, <2>2
  <2> QED BY <2>3 DEF first, bits
<1> QED BY <1>5, <1>7 DEF l

\* For any calls, sizes and speeds, and however often ReplaceUsers gives the user
\* a full limiter: a limiter lets through one burst, the bits of its speed for
\* every second it was the user's, and what it still owed when it was replaced.
THEOREM SpeedLimitKept == Spec => []SpeedLimitHolds
BY InitInv, StepInv, InitShare, StepShare, ShareHolds, PTL DEF Spec
=============================================================================
