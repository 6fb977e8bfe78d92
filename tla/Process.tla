------------------------------- MODULE Process ------------------------------
(***************************************************************************)
(* One life of the process after another (cmd/hynode, App.Run and the unit *)
(* deploy/hynode.service): systemd starts the process, it listens for      *)
(* health checks, starts a worker for every enabled node and waits for     *)
(* them; it is stopped by SIGTERM, fails or is killed, and is started      *)
(* again when it did not end cleanly.  The files of SelfSigned are all     *)
(* that is left of one life to the next.                                   *)
(*                                                                         *)
(* The inside of a worker is in NodeSync.  Here it boots (the first        *)
(* refresh), is up, sends its final report and ends, and while it boots or *)
(* is up it may build runtimes that need a certificate.                    *)
(***************************************************************************)
EXTENDS SelfSigned

CONSTANTS
  Enabled,      \* the nodes that are not disabled in the configuration
  MaxKills      \* bound: how often the process is killed

ASSUME ProcessAssumption == Enabled \subseteq Nodes /\ MaxKills \in Nat

VARIABLES
  wanted,       \* systemd is to keep the service running
  proc,         \* "exited": code 0, "failed": code 1, "killed": by SIGKILL
  cancelled,    \* the context of main
  worker,       \* the goroutine of each node
  waiting,      \* nodes counted by the WaitGroup of App.Run
  kills

lifeVars == <<wanted, proc, cancelled, worker, waiting, kills>>
vars == <<fileVars, lifeVars>>

Alive == proc \in {"starting", "running"}

Init ==
  /\ FilesInit
  /\ wanted = FALSE
  /\ proc = "down"
  /\ cancelled = FALSE
  /\ worker = [n \in Nodes |-> "none"]
  /\ waiting = {}
  /\ kills = 0

-----------------------------------------------------------------------------
(* systemd.                                                                *)

\* systemctl start (or the second half of a restart, which awaits the first)
SystemctlStart ==
  /\ ~wanted /\ ~Alive
  /\ wanted' = TRUE
  /\ proc' = "down"
  /\ UNCHANGED <<fileVars, cancelled, worker, waiting, kills>>

\* systemctl stop sends SIGTERM, which cancels the context of main.
SystemctlStop ==
  /\ wanted
  /\ wanted' = FALSE
  /\ cancelled' = (cancelled \/ Alive)
  /\ UNCHANGED <<fileVars, proc, worker, waiting, kills>>

\* Mutant: Restart=no.
SpawnOnce ==
  /\ wanted /\ proc = "down"
  /\ proc' = "starting"
  /\ cancelled' = FALSE
  /\ worker' = [n \in Nodes |-> "none"]
  /\ waiting' = {}
  /\ UNCHANGED <<fileVars, wanted, kills>>

\* Restart=on-failure: after a failure or a kill, but not after a clean exit.
Spawn ==
  /\ wanted /\ proc \in {"down", "failed", "killed"}
  /\ proc' = "starting"
  /\ cancelled' = FALSE
  /\ worker' = [n \in Nodes |-> "none"]
  /\ waiting' = {}
  /\ UNCHANGED <<fileVars, wanted, kills>>

\* A crash, the OOM killer, or SIGKILL TimeoutStopSec after SIGTERM.
Kill ==
  /\ Alive /\ kills < MaxKills
  /\ proc' = "killed"
  /\ kills' = kills + 1
  /\ Crash
  /\ UNCHANGED <<wanted, cancelled, worker, waiting>>

-----------------------------------------------------------------------------
(* main and App.Run.                                                       *)

\* Mutant: main does not ask whether it was told to stop.
ExitAfterAlways(err) == IF err THEN "failed" ELSE "exited"

\* main: an error is one only while the context is not cancelled.
ExitAfter(err) == IF err /\ ~cancelled THEN "failed" ELSE "exited"

\* Mutant: a disabled node is counted before it is skipped.
ListenCountsAll ==
  /\ proc = "starting"
  /\ proc' = "running"
  /\ worker' = [n \in Nodes |-> IF n \in Enabled THEN "boot" ELSE "none"]
  /\ waiting' = Nodes
  /\ UNCHANGED <<fileVars, wanted, cancelled, kills>>

\* serveHealth listens, and the workers of the enabled nodes are started.
Listen ==
  /\ proc = "starting"
  /\ proc' = "running"
  /\ worker' = [n \in Nodes |-> IF n \in Enabled THEN "boot" ELSE "none"]
  /\ waiting' = Enabled
  /\ UNCHANGED <<fileVars, wanted, cancelled, kills>>

\* The address is taken: Run returns at once.
ListenFails ==
  /\ proc = "starting"
  /\ proc' = ExitAfter(TRUE)
  /\ UNCHANGED <<fileVars, wanted, cancelled, worker, waiting, kills>>

\* Mutant: Run returns as soon as the context is done.
RunReturnsEarly ==
  /\ proc = "running" /\ cancelled
  /\ proc' = ExitAfter(FALSE)
  /\ UNCHANGED <<fileVars, wanted, cancelled, worker, waiting, kills>>

\* The last worker has ended, which closes done.  Is the context done as well,
\* then select takes either branch; Run returns nil or "all node workers exited".
RunReturns ==
  /\ proc = "running" /\ waiting = {}
  /\ \E err \in BOOLEAN : (err \/ cancelled) /\ proc' = ExitAfter(err)
  /\ UNCHANGED <<fileVars, wanted, cancelled, worker, waiting, kills>>

-----------------------------------------------------------------------------
(* A worker.                                                               *)

WorkerGoes(n, from, to) ==
  /\ proc = "running" /\ worker[n] = from /\ at[n] = "idle"
  /\ worker' = [worker EXCEPT ![n] = to]
  /\ UNCHANGED <<fileVars, wanted, proc, cancelled, kills>>

\* The first refresh succeeds, perhaps while the context is being cancelled.
Booted(n) == WorkerGoes(n, "boot", "up") /\ UNCHANGED waiting

\* retry gives up when the context is done.  runNode returns the error of the
\* context, which is not sent to errs because the context is done.
BootStops(n) == cancelled /\ WorkerGoes(n, "boot", "ended") /\ waiting' = waiting \ {n}

\* The loop of runNode ends; its deferred calls send the final report ...
Stopped(n) == cancelled /\ WorkerGoes(n, "up", "final") /\ UNCHANGED waiting

\* ... which succeeds or times out, and close the runtime.
Ended(n) == WorkerGoes(n, "final", "ended") /\ waiting' = waiting \ {n}

\* refresh builds a runtime, which asks for the certificate of the node.
CallFiles(n) ==
  /\ proc = "running" /\ worker[n] \in {"boot", "up"}
  /\ Call(n)
  /\ UNCHANGED lifeVars

ProceedFiles(n) == proc = "running" /\ Proceed(n) /\ UNCHANGED lifeVars

-----------------------------------------------------------------------------
Worker(n) ==
  \/ Booted(n) \/ BootStops(n) \/ Stopped(n) \/ Ended(n)
  \/ CallFiles(n) \/ ProceedFiles(n)

Next ==
  \/ SystemctlStart \/ SystemctlStop \/ Spawn \/ Kill
  \/ Listen \/ ListenFails \/ RunReturns
  \/ \E n \in Nodes : Worker(n)

\* systemd and the scheduler go on, a panel answers some time (boot ends), and an
\* address that is taken is given free some time.
Fairness ==
  /\ WF_vars(Spawn) /\ SF_vars(Listen) /\ WF_vars(RunReturns)
  /\ \A n \in Enabled :
       /\ SF_vars(Booted(n) \/ BootStops(n) \/ Stopped(n))
       /\ WF_vars(Ended(n) \/ ProceedFiles(n))

Spec == Init /\ [][Next]_vars
FairSpec == Spec /\ Fairness

-----------------------------------------------------------------------------
(* Properties.                                                             *)

TypeOK ==
  /\ FilesTypeOK
  /\ wanted \in BOOLEAN
  /\ proc \in {"down", "starting", "running", "exited", "failed", "killed"}
  /\ cancelled \in BOOLEAN
  /\ worker \in [Nodes -> {"none", "boot", "up", "final", "ended"}]
  /\ waiting \subseteq Nodes
  /\ kills \in 0..MaxKills

\* "Graceful shutdown: ... wait for final traffic report": a process that ends
\* by itself leaves no worker behind, neither one that has still to report nor
\* one that is building a runtime.
EndsAfterWorkers ==
  proc \in {"exited", "failed"} =>
    \A n \in Nodes : worker[n] \in {"none", "ended"} /\ at[n] = "idle"

\* The branches of the select in App.Run race when the last worker ends because
\* of a signal; a process that was told to stop never reports a failure for it.
StopIsClean == proc = "failed" => ~cancelled

\* How a process ends by itself, on a signal or because it cannot listen.
EndsGracefully == EndsAfterWorkers /\ StopIsClean

\* A service that is to run comes to run all its workers, however often it was
\* killed or found its address taken.
Recovers ==
  wanted ~> \/ ~wanted
            \/ proc = "running" /\ \A n \in Enabled : worker[n] = "up"

\* A service that is stopped comes to an end.
StopEnds == ~wanted ~> (wanted \/ ~Alive)
=============================================================================
