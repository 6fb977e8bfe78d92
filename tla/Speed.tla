------------------------------- MODULE Speed --------------------------------
(***************************************************************************)
(* The speed snapshot that the report loops of all nodes share.  A loop    *)
(* reads the host's byte counter and then updates the snapshot under its   *)
(* lock, so that readings may arrive in another order than they were taken *)
(* in; the counter itself may start again from zero.  A reading is a       *)
(* record of whether it succeeded, the bytes and the time of the update.   *)
(***************************************************************************)
EXTENDS Integers, Sequences, SequencesExt

CONSTANT CounterRange          \* 2^64 in the code

ASSUME CounterAssumption == CounterRange \in Nat \ {0}

\* A speed is a fraction: bytes, and the time they took.  (The code divides two
\* float64, whose rounding is left out.)
NoSpeed == [bytes |-> 0, time |-> 1]

\* The snapshot with the speed of the last report.
Snapshot0 == [ready |-> FALSE, last |-> 0, at |-> 0, speed |-> NoSpeed]

\* Mutant: a counter that went back is not noticed, and the difference wraps.
SpeedOfUnguarded(s, r) ==
  IF s.ready /\ r.at > s.at THEN [bytes |-> (r.bytes - s.last) % CounterRange, time |-> r.at - s.at] ELSE NoSpeed

\* The difference to the reading before, as an uint64, by the time elapsed; none
\* the first time, when no time has passed, or when the counter went back.
SpeedOf(s, r) ==
  IF s.ready /\ r.at > s.at /\ r.bytes >= s.last
    THEN [bytes |-> (r.bytes - s.last) % CounterRange, time |-> r.at - s.at] ELSE NoSpeed

update(s, r) == [ready |-> TRUE, last |-> r.bytes, at |-> r.at, speed |-> SpeedOf(s, r)]

\* Without a reading the snapshot is left as it is, and no speed is reported.
Collect(s, r) ==
  IF r.ok THEN update(s, r) ELSE [ready |-> s.ready, last |-> s.last, at |-> s.at, speed |-> NoSpeed]

\* The snapshot after each number of a sequence of reports.
Snapshots(readings) ==
  LET after[n \in 0 .. Len(readings)] ==
        IF n = 0 THEN Snapshot0 ELSE Collect(after[n - 1], readings[n])
  IN  after

\* The reports that had a reading, and the latest of those before report n.
Good(readings) == {i \in DOMAIN readings : readings[i].ok}
Before(readings, n) == Max({i \in Good(readings) : i < n})

\* The bytes by which reading n fell behind the one before.
FellBy(readings, n) ==
  LET was == readings[Before(readings, n)].bytes
      is == readings[n].bytes
  IN  IF is < was THEN was - is ELSE 0

\* The readings that have one before them, and the time since that one.
Later(readings) == Good(readings) \ {Min(Good(readings))}
Gap(readings, n) == readings[n].at - readings[Before(readings, n)].at

\* The bytes that the speed of report n stands for: the speed times the time
\* since the latest reading, whichever node took it.
StandsFor(readings, n) ==
  LET speed == Snapshots(readings)[n].speed
  IN  IF n \in Later(readings) THEN (speed.bytes * Gap(readings, n)) \div speed.time ELSE speed.bytes

\* A report's speed is that of the time since the latest reading of any node,
\* not of its own: the nodes share the traffic of the host among their reports.
\* All the reports together, each speed times the time it is of, come to the
\* bytes between the first and the last reading, and once more those by which
\* a reading fell behind the one before: what an overtaken reading takes back
\* the next report counts again, and a counter that starts from zero is never a
\* speed of 2^64 bytes.  Two reports at the very same time are left out: the
\* difference of the second is lost.
SpeedsAddUp(readings) ==
  LET good == Good(readings)
      bytes == [n \in DOMAIN readings |-> StandsFor(readings, n)]
      fell == [n \in Later(readings) |-> FellBy(readings, n)]
  IN  (good # {} /\ \A n \in Later(readings) : readings[Before(readings, n)].at < readings[n].at) =>
        SumFunctionOnSet(bytes, DOMAIN readings)
          = readings[Max(good)].bytes - readings[Min(good)].bytes + SumFunctionOnSet(fell, Later(readings))
=============================================================================
