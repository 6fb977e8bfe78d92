------------------------------- MODULE Limiter ------------------------------
(***************************************************************************)
(* The speed limit of one user: the connections of the user call           *)
(* Store.Wait for what they read and write, while ReplaceUsers puts a new  *)
(* limiter in the place of the one that some of them are waiting on.  The  *)
(* token bucket is golang.org/x/time/rate: WaitN takes its tokens at once, *)
(* into debt if it must, and then sleeps until the debt it found is paid.  *)
(* A tick is a second; bytes are counted in units.                         *)
(***************************************************************************)
EXTENDS Integers, Sequences, FiniteSets

CONSTANTS
  Calls,         \* calls of Wait, each made once
  Sizes,         \* the numbers of bytes they are made with
  Speeds,        \* speed limits in Mbit/s, 0 for none
  Mega,          \* the 10^6 bits of a Mbit
  Part,          \* 64 KiB: what a call asks for at a time, and the least burst
  MaxSwaps,      \* bound on ReplaceUsers
  MaxTicks       \* the time a limiter has been current is counted up to here

ASSUME LimiterAssumption ==
  /\ IsFiniteSet(Calls) /\ Sizes \subseteq Nat /\ Speeds \subseteq Nat
  /\ Part \in Nat \ {0} /\ Mega \in Nat /\ Mega >= 8
  /\ MaxSwaps \in Nat /\ MaxTicks \in Nat

VARIABLES
  limiters,      \* every limiter made so far; the last is the user's
  call,          \* each call: what is left of it and the limiter it holds
  unshaped       \* bytes for which WaitN returned an error

vars == <<limiters, call, unshaped>>

-----------------------------------------------------------------------------
(* limiterFor.                                                             *)

\* Mutant: bits are taken for bytes.
BitsPerSecond(mbps) == mbps * Mega

\* Mutant: the division comes first and rounds small speeds down to nothing.
BytesPerSecondRounded(mbps) == (mbps \div 8) * Mega

BytesPerSecond(mbps) == (mbps * Mega) \div 8

\* Mutant: a burst of one second, however slow.
BurstOfSecond(mbps) == BytesPerSecond(mbps)

Burst(mbps) == IF Part >= BytesPerSecond(mbps) THEN Part ELSE BytesPerSecond(mbps)

\* A new limiter is full; a speed of 0 makes none, which speed records.  ticks
\* is how long it has been the user's, granted what it let through, held what
\* calls that hold it have left, and late what they had when it was replaced.
limiterFor(mbps) ==
  [speed |-> mbps, rate |-> BytesPerSecond(mbps), burst |-> Burst(mbps), tokens |-> Burst(mbps),
   ticks |-> 0, granted |-> 0, held |-> 0, late |-> 0]

-----------------------------------------------------------------------------
Current == Len(limiters)

Unlimited == limiters[Current].speed = 0

\* Calls that hold limiter i have n bytes more to pass.
Held(i, n) == [limiters EXCEPT ![i] = [limiters[i] EXCEPT !.held = limiters[i].held + n]]

\* A call inside Wait holds a limiter and has bytes left; it sleeps in WaitN
\* for a part of them, as long as the part is in debt.
Inside(i, left, part, owed) ==
  [phase |-> "inside", holds |-> i, left |-> left, part |-> part, owed |-> owed]
Outside(phase) == [phase |-> phase, holds |-> 0, left |-> 0, part |-> 0, owed |-> 0]

Init ==
  /\ \E mbps \in Speeds : limiters = <<limiterFor(mbps)>>
  /\ call = [c \in Calls |-> Outside("new")]
  /\ unshaped = 0

\* ReplaceUsers gives the user a new limiter, whatever the old one was.  Calls
\* that hold the old one go on with it.
Replace(mbps) ==
  /\ Current <= MaxSwaps
  /\ limiters' = Append([limiters EXCEPT ![Current] = [@ EXCEPT !.late = limiters[Current].held]], limiterFor(mbps))
  /\ UNCHANGED <<call, unshaped>>

\* Wait reads the user's limiter under the shard's read lock, and keeps it; it
\* returns at once if there is none or no bytes.
Wait(c, n) ==
  /\ call[c].phase = "new"
  /\ IF Unlimited \/ n <= 0
       THEN /\ call' = [call EXCEPT ![c] = Outside("returned")]
            /\ UNCHANGED limiters
       ELSE /\ call' = [call EXCEPT ![c] = Inside(Current, n, 0, 0)]
            /\ limiters' = Held(Current, n)
  /\ UNCHANGED unshaped

\* A part has passed; the call returns with the last.
Passed(c, part) ==
  call' = [call EXCEPT ![c] =
             IF call[c].left > part
               THEN Inside(call[c].holds, call[c].left - part, 0, 0) ELSE Outside("returned")]

\* WaitN takes the tokens of a part, or fails for one above the burst; the
\* error is ignored.
WaitN(c) ==
  LET i == call[c].holds
      part == IF call[c].left > Part THEN Part ELSE call[c].left
      tokens == limiters[i].tokens - part
  IN  /\ i # 0
      /\ call[c].part = 0
      /\ IF part > limiters[i].burst
           THEN /\ unshaped' = unshaped + part
                /\ Passed(c, part)
                /\ limiters' = Held(i, -part)
           ELSE /\ limiters' = [limiters EXCEPT ![i] = [limiters[i] EXCEPT !.tokens = tokens]]
                /\ call' = [call EXCEPT ![c] = Inside(i, call[c].left, part, IF tokens < 0 THEN -tokens ELSE 0)]
                /\ UNCHANGED unshaped

\* Mutant: a whole part is taken off what is left, however small it was.
WakeWholePart(c) ==
  /\ call[c].part > 0 /\ call[c].owed = 0
  /\ limiters' = [limiters EXCEPT ![call[c].holds].granted = @ + call[c].part]
  /\ call' = [call EXCEPT ![c].left = @ - Part, ![c].part = 0]
  /\ UNCHANGED unshaped

\* WaitN returns when the debt it found is paid.
Wake(c) ==
  LET i == call[c].holds
      l == limiters[i]
      part == call[c].part
  IN  /\ part > 0 /\ call[c].owed = 0
      /\ limiters' = [limiters EXCEPT ![i] = [[l EXCEPT !.granted = l.granted + part] EXCEPT !.held = l.held - part]]
      /\ Passed(c, part)
      /\ UNCHANGED unshaped

\* A second goes by: tokens come in up to the burst and debts go down.
Filled(l) == IF l.tokens + l.rate > l.burst THEN l.burst ELSE l.tokens + l.rate

Counted(i) ==
  IF i = Current /\ limiters[i].ticks < MaxTicks THEN limiters[i].ticks + 1 ELSE limiters[i].ticks

Paid(c) ==
  LET rate == limiters[call[c].holds].rate
  IN  IF call[c].holds = 0 \/ call[c].owed <= rate THEN 0 ELSE call[c].owed - rate

Ticked(i) == [[limiters[i] EXCEPT !.tokens = Filled(limiters[i])] EXCEPT !.ticks = Counted(i)]

Slept(c) == [call[c] EXCEPT !.owed = Paid(c)]

Tick ==
  /\ limiters' = [i \in DOMAIN limiters |-> Ticked(i)]
  /\ call' = [c \in Calls |-> Slept(c)]
  /\ UNCHANGED unshaped

Next ==
  \/ \E mbps \in Speeds : Replace(mbps)
  \/ \E c \in Calls, n \in Sizes : Wait(c, n)
  \/ \E c \in Calls : WaitN(c) \/ Wake(c)
  \/ Tick

Spec == Init /\ [][Next]_vars

\* The clock runs, and a goroutine that can go on does.
FairSpec == Spec /\ WF_vars(Tick) /\ \A c \in Calls : WF_vars(WaitN(c) \/ Wake(c))

-----------------------------------------------------------------------------
Limiters == [speed : Nat, rate : Nat, burst : Nat, tokens : Int, ticks : 0 .. MaxTicks,
             granted : Nat, held : Int, late : Int]

CallStates == [phase : {"new", "inside", "returned"}, holds : 0 .. Current,
               left : Nat, part : 0 .. Part, owed : Nat]

\* Calls ask for no more than is left of them, and no bucket overflows.
TypeOK ==
  /\ limiters \in Seq(Limiters)
  /\ limiters # <<>>
  /\ \A i \in DOMAIN limiters : limiters[i].tokens <= limiters[i].burst
  /\ call \in [Calls -> CallStates]
  /\ \A c \in Calls : call[c].part <= call[c].left /\ ((call[c].holds = 0) <=> (call[c].left = 0))
  /\ unshaped \in Nat

\* No byte of a limited user passes because WaitN refused to wait: whatever the
\* limit, a part of 64 KiB fits the burst.  store.go ignores WaitN's error.
NothingUnshaped == unshaped = 0

\* However many calls share a limiter, and although ReplaceUsers hands out a
\* full one each time: a limiter lets through one burst, the bits of its speed
\* for every second it was the user's, and what calls already held it for when
\* it was replaced.  (Of a limiter that was current for MaxTicks or longer the
\* model no longer knows for how long.)
SpeedLimitHolds ==
  \A i \in DOMAIN limiters :
    LET l == limiters[i]
        second == l.speed * Mega
        burst == IF 8 * Part >= second THEN 8 * Part ELSE second
    IN  l.ticks < MaxTicks => 8 * (l.granted - l.late) <= burst + second * l.ticks

\* A call of Wait returns: other connections of the user, and limiters that
\* are replaced under it, hold it up but never for ever.  (A connection that
\* is closed does not end the Wait of its reader, which has to run out.)
WaitReturns == \A c \in Calls : (call[c].phase = "inside") ~> (call[c].phase = "returned")
=============================================================================
