------------------------------ MODULE Traffic -------------------------------
(***************************************************************************)
(* Traffic accounting of HyNode: the connections that count bytes          *)
(* (internal/state/store.go TrackedConn, internal/kernel/singbox           *)
(* trackedPacketConn), the shared background flusher, the usage ledger of  *)
(* the Store, and the report loop of every node (internal/app doReport).   *)
(*                                                                         *)
(* Threads: every connection has a goroutine that moves bytes (Carry,      *)
(* Account) and one that opens and closes it; flusher goroutines sweep the *)
(* tracked set; every node has a report loop.  A step is one critical      *)
(* section or one atomic operation of the code.                            *)
(*                                                                         *)
(* Upload and download are counted alike, so one counter stands for both,  *)
(* and one unit for the n bytes of a Read or Write.                        *)
(***************************************************************************)
EXTENDS Integers, FiniteSets, Functions

CONSTANTS
  Nodes,        \* node ids of this process
  Users,        \* user ids
  Conns,        \* admitted connections; each is opened at most once
  NodeOf,       \* the node a connection arrives at
  UserOf,       \* the user it belongs to
  Packet,       \* the connections wrapped by trackedPacketConn (UDP)
  MaxBytes,     \* bound: units one connection carries
  MaxReceived,  \* bound: what the panel may hold when a report is re-sent
  PanelFaults   \* "lost": a report does not reach the panel,
                \* "unacked": it does, but the node sees an error

ASSUME TrafficAssumption ==
  /\ IsFiniteSet(Conns)
  /\ NodeOf \in [Conns -> Nodes]
  /\ UserOf \in [Conns -> Users]
  /\ Packet \subseteq Conns
  /\ MaxBytes \in Nat
  /\ MaxReceived \in Nat
  /\ PanelFaults \subseteq {"lost", "unacked"}

VARIABLES
  conn,         \* progress of open and close of a connection
  closed,       \* TrackedConn.closed
  inflight,     \* bytes moved by Read or Write, not yet in a pending counter
  pending,      \* pendingUpload + pendingDownload
  tracked,      \* Store.tracked
  flusherRun,   \* Store.flusherRun
  flushers,     \* number of flushLoop goroutines started
  visit,        \* progress of the running sweep with each connection
  held,         \* bytes swapped out of pending, not yet in usage
  usage,        \* usageState.upload + download, per node and user
  active,       \* usageState.active
  activeAll,    \* Store.active
  report,       \* progress of doReport
  last,         \* the node has left its select loop: next report is the final one
  snap,         \* Snapshot.Traffic of the report in progress
  received,     \* what the panel has added up
  carried,      \* history: bytes a connection has moved
  flushed,      \* history: bytes of a connection entered in usage
  committed     \* history: bytes taken out of usage by Commit

connVars == <<conn, closed, inflight, pending, carried>>
sweepVars == <<tracked, flusherRun, flushers, visit, held, flushed>>
gaugeVars == <<active, activeAll>>
panelVars == <<report, last, snap, received, committed>>
vars == <<connVars, sweepVars, gaugeVars, usage, panelVars>>

Zero == [n \in Nodes |-> [u \in Users |-> 0]]

\* The sweep runs under trackMu, from its first connection to its last.
TrackMuHeld == \E c \in Conns : visit[c] # "done"

\* Connections already entered by, and not yet taken out of, the gauges.
Counted == {c \in Conns : conn[c] \in {"counted", "admitted", "open", "flush", "unregister", "release"}}
CountedAll == {c \in Conns : conn[c] \in {"admitted", "open", "flush", "unregister", "release"}}

\* Bytes in counters, on their way to usage, and in usage since ever.
Accounted(c) == inflight[c] + pending[c] + held[c] + flushed[c]

ConnsOf(n, u) == {c \in Conns : NodeOf[c] = n /\ UserOf[c] = u}

Init ==
  /\ conn = [c \in Conns |-> "new"]
  /\ closed = [c \in Conns |-> FALSE]
  /\ inflight = [c \in Conns |-> 0]
  /\ pending = [c \in Conns |-> 0]
  /\ carried = [c \in Conns |-> 0]
  /\ tracked = {}
  /\ flusherRun = FALSE
  /\ flushers = 0
  /\ visit = [c \in Conns |-> "done"]
  /\ held = [c \in Conns |-> 0]
  /\ flushed = [c \in Conns |-> 0]
  /\ active = Zero
  /\ activeAll = 0
  /\ usage = Zero
  /\ report = [n \in Nodes |-> "idle"]
  /\ last = [n \in Nodes |-> FALSE]
  /\ snap = Zero
  /\ received = Zero
  /\ committed = Zero

-----------------------------------------------------------------------------
(* Opening: the second half of Store.Open (its first half, the admission   *)
(* of the device, is module UserStore), then WrapConn.                     *)

\* Under usageMu: usage.active++.
OpenUsage(c) ==
  /\ conn[c] = "new"
  /\ conn' = [conn EXCEPT ![c] = "counted"]
  /\ active' = [active EXCEPT ![NodeOf[c]][UserOf[c]] = @ + 1]
  /\ UNCHANGED <<closed, inflight, pending, carried, sweepVars, activeAll, usage, panelVars>>

\* After the unlock: s.active.Add(1).
OpenGlobal(c) ==
  /\ conn[c] = "counted"
  /\ conn' = [conn EXCEPT ![c] = "admitted"]
  /\ activeAll' = activeAll + 1
  /\ UNCHANGED <<closed, inflight, pending, carried, sweepVars, active, usage, panelVars>>

\* Mutant: the compare-and-swap of flusherRun the wrong way round.
WrapConnNoFlusher(c) ==
  /\ conn[c] = "admitted"
  /\ c \notin Packet
  /\ ~TrackMuHeld
  /\ conn' = [conn EXCEPT ![c] = "open"]
  /\ tracked' = tracked \cup {c}
  /\ flushers' = IF flusherRun THEN flushers + 1 ELSE flushers
  /\ flusherRun' = TRUE
  /\ UNCHANGED <<closed, inflight, pending, carried, visit, held, flushed, gaugeVars, usage, panelVars>>

\* The tracker wraps a stream with WrapConn, which registers it under trackMu
\* and starts a flusher when flusherRun was false.
WrapConn(c) ==
  /\ conn[c] = "admitted"
  /\ c \notin Packet
  /\ ~TrackMuHeld
  /\ conn' = [conn EXCEPT ![c] = "open"]
  /\ tracked' = tracked \cup {c}
  /\ flushers' = IF flusherRun THEN flushers ELSE flushers + 1
  /\ flusherRun' = TRUE
  /\ UNCHANGED <<closed, inflight, pending, carried, visit, held, flushed, gaugeVars, usage, panelVars>>

\* A packet connection is wrapped by a struct literal: nothing registers it.
WrapPacketConn(c) ==
  /\ conn[c] = "admitted"
  /\ c \in Packet
  /\ conn' = [conn EXCEPT ![c] = "open"]
  /\ UNCHANGED <<closed, inflight, pending, carried, sweepVars, gaugeVars, usage, panelVars>>

-----------------------------------------------------------------------------
(* Moving bytes.  The inner connection is closed last, so a Read or Write  *)
(* of another goroutine may still succeed while Close is running, and its  *)
(* count is added after the time spent in Store.Wait.                      *)

Carry(c) ==
  /\ conn[c] \in {"open", "flush", "unregister", "release", "closed"}
  /\ inflight[c] = 0
  /\ carried[c] < MaxBytes
  /\ inflight' = [inflight EXCEPT ![c] = 1]
  /\ carried' = [carried EXCEPT ![c] = @ + 1]
  /\ UNCHANGED <<conn, closed, pending, sweepVars, gaugeVars, usage, panelVars>>

Account(c) ==
  /\ inflight[c] > 0
  /\ pending' = [pending EXCEPT ![c] = @ + inflight[c]]
  /\ inflight' = [inflight EXCEPT ![c] = 0]
  /\ UNCHANGED <<conn, closed, carried, sweepVars, gaugeVars, usage, panelVars>>

-----------------------------------------------------------------------------
(* Close: CompareAndSwap on closed, the final flush, unregisterConn,       *)
(* Store.Close.  A second Close fails the CompareAndSwap and changes none  *)
(* of these variables.                                                     *)

CloseConn(c) ==
  /\ conn[c] = "open"
  /\ ~closed[c]
  /\ closed' = [closed EXCEPT ![c] = TRUE]
  /\ conn' = [conn EXCEPT ![c] = "flush"]
  /\ UNCHANGED <<inflight, pending, carried, sweepVars, gaugeVars, usage, panelVars>>

\* Mutant: the final flush takes the bytes of a Read still in progress along.
FinalFlushWithInflight(c) ==
  /\ conn[c] = "flush"
  /\ conn' = [conn EXCEPT ![c] = IF c \in Packet THEN "release" ELSE "unregister"]
  /\ LET moved == inflight[c] + pending[c]
     IN  /\ pending' = [pending EXCEPT ![c] = @ - moved]
         /\ flushed' = [flushed EXCEPT ![c] = @ + moved]
         /\ usage' = [usage EXCEPT ![NodeOf[c]][UserOf[c]] = @ + moved]
  /\ UNCHANGED <<closed, inflight, carried, tracked, flusherRun, flushers, visit, held,
                 gaugeVars, panelVars>>

\* flush returns at once on a closed connection; otherwise it would move the
\* pending bytes to the ledger.
FinalFlush(c) ==
  /\ conn[c] = "flush"
  /\ conn' = [conn EXCEPT ![c] = IF c \in Packet THEN "release" ELSE "unregister"]
  /\ LET moved == IF closed[c] THEN 0 ELSE pending[c]
     IN  /\ pending' = [pending EXCEPT ![c] = @ - moved]
         /\ flushed' = [flushed EXCEPT ![c] = @ + moved]
         /\ usage' = [usage EXCEPT ![NodeOf[c]][UserOf[c]] = @ + moved]
  /\ UNCHANGED <<closed, inflight, carried, tracked, flusherRun, flushers, visit, held,
                 gaugeVars, panelVars>>

UnregisterConn(c) ==
  /\ conn[c] = "unregister"
  /\ ~TrackMuHeld
  /\ conn' = [conn EXCEPT ![c] = "release"]
  /\ tracked' = tracked \ {c}
  /\ flusherRun' = (flusherRun /\ tracked \ {c} # {})
  /\ UNCHANGED <<closed, inflight, pending, carried, flushers, visit, held, flushed,
                 gaugeVars, usage, panelVars>>

\* Mutant: the process-wide gauge is not taken back.
StoreCloseOneGauge(c) ==
  /\ conn[c] = "release"
  /\ conn' = [conn EXCEPT ![c] = "closed"]
  /\ active' = [active EXCEPT ![NodeOf[c]][UserOf[c]] = @ - 1]
  /\ UNCHANGED <<closed, inflight, pending, carried, sweepVars, activeAll, usage, panelVars>>

\* Store.Close under usageMu; both gauges move together.
StoreClose(c) ==
  /\ conn[c] = "release"
  /\ conn' = [conn EXCEPT ![c] = "closed"]
  /\ IF active[NodeOf[c]][UserOf[c]] > 0
       THEN /\ active' = [active EXCEPT ![NodeOf[c]][UserOf[c]] = @ - 1]
            /\ activeAll' = activeAll - 1
       ELSE UNCHANGED gaugeVars
  /\ UNCHANGED <<closed, inflight, pending, carried, sweepVars, usage, panelVars>>

\* The inner connection is closed last.
CloseInner(c) ==
  /\ conn[c] = "closed"
  /\ conn' = [conn EXCEPT ![c] = "shut"]
  /\ UNCHANGED <<closed, inflight, pending, carried, sweepVars, gaugeVars, usage, panelVars>>

-----------------------------------------------------------------------------
(* The flusher: every tick one sweep over the tracked set under trackMu.   *)

SweepStart ==
  /\ flushers > 0
  /\ tracked # {}
  /\ ~TrackMuHeld
  /\ visit' = [c \in Conns |-> IF c \in tracked THEN "todo" ELSE "done"]
  /\ UNCHANGED <<connVars, tracked, flusherRun, flushers, held, flushed, gaugeVars, usage, panelVars>>

\* flush: closed.Load.  The sweep handles one connection at a time.
SweepCheck(c) ==
  /\ visit[c] = "todo"
  /\ \A d \in Conns : visit[d] \in {"todo", "done"}
  /\ visit' = [visit EXCEPT ![c] = IF closed[c] THEN "done" ELSE "checked"]
  /\ UNCHANGED <<connVars, tracked, flusherRun, flushers, held, flushed, gaugeVars, usage, panelVars>>

\* pendingUpload.Swap(0), pendingDownload.Swap(0).
SweepSwap(c) ==
  /\ visit[c] = "checked"
  /\ visit' = [visit EXCEPT ![c] = "taken"]
  /\ held' = [held EXCEPT ![c] = pending[c]]
  /\ pending' = [pending EXCEPT ![c] = 0]
  /\ UNCHANGED <<conn, closed, inflight, carried, tracked, flusherRun, flushers, flushed,
                 gaugeVars, usage, panelVars>>

\* Mutant: the counters are loaded, added to usage, and then reset.
SweepAddThenReset(c) ==
  /\ visit[c] = "taken"
  /\ visit' = [visit EXCEPT ![c] = "done"]
  /\ usage' = [usage EXCEPT ![NodeOf[c]][UserOf[c]] = @ + held[c]]
  /\ flushed' = [flushed EXCEPT ![c] = @ + held[c]]
  /\ held' = [held EXCEPT ![c] = 0]
  /\ pending' = [pending EXCEPT ![c] = 0]
  /\ UNCHANGED <<conn, closed, inflight, carried, tracked, flusherRun, flushers, gaugeVars, panelVars>>

\* Store.Add.  The user of an open connection is in its shard for good
\* (nothing deletes from shard.users), so Add's existence check passes.
SweepAdd(c) ==
  /\ visit[c] = "taken"
  /\ visit' = [visit EXCEPT ![c] = "done"]
  /\ usage' = [usage EXCEPT ![NodeOf[c]][UserOf[c]] = @ + held[c]]
  /\ flushed' = [flushed EXCEPT ![c] = @ + held[c]]
  /\ held' = [held EXCEPT ![c] = 0]
  /\ UNCHANGED <<connVars, tracked, flusherRun, flushers, gaugeVars, panelVars>>

-----------------------------------------------------------------------------
(* doReport: Snapshot, the POST, Commit; an error skips the Commit.        *)

\* Where doReport returns to: the select loop, or the end of runNode.
AfterReport(n) == IF last[n] THEN "done" ELSE "idle"

\* ctx.Done: the node leaves its select loop and its deferred final report runs.
StopNode(n) ==
  /\ report[n] = "idle"
  /\ ~last[n]
  /\ last' = [last EXCEPT ![n] = TRUE]
  /\ UNCHANGED <<connVars, sweepVars, gaugeVars, usage, report, snap, received, committed>>

\* Mutant: the report also holds the bytes not flushed yet.
SnapshotWithPending(n) ==
  /\ report[n] = "idle"
  /\ report' = [report EXCEPT ![n] = "sent"]
  /\ snap' = [snap EXCEPT ![n] = [u \in Users |->
                usage[n][u] + SumFunctionOnSet(pending, ConnsOf(n, u))]]
  /\ UNCHANGED <<connVars, sweepVars, gaugeVars, usage, last, received, committed>>

Snapshot(n) ==
  /\ report[n] = "idle"
  /\ report' = [report EXCEPT ![n] = "sent"]
  /\ snap' = [snap EXCEPT ![n] = usage[n]]
  /\ UNCHANGED <<connVars, sweepVars, gaugeVars, usage, last, received, committed>>

PanelAdds(n) == [received EXCEPT ![n] = [u \in Users |-> received[n][u] + snap[n][u]]]

\* The panel takes the report and the 2xx answer arrives.
Deliver(n) ==
  /\ report[n] = "sent"
  /\ report' = [report EXCEPT ![n] = "accepted"]
  /\ received' = PanelAdds(n)
  /\ UNCHANGED <<connVars, sweepVars, gaugeVars, usage, last, snap, committed>>

\* The panel takes the report, but the node sees a timeout, a dropped
\* connection, an error status or the cancellation of its context.
Unacked(n) ==
  /\ "unacked" \in PanelFaults
  /\ report[n] = "sent"
  /\ \A u \in Users : received[n][u] < MaxReceived
  /\ report' = [report EXCEPT ![n] = AfterReport(n)]
  /\ received' = PanelAdds(n)
  /\ UNCHANGED <<connVars, sweepVars, gaugeVars, usage, last, snap, committed>>

\* Mutant: doReport does not return on the error.
LostThenCommitted(n) ==
  /\ "lost" \in PanelFaults
  /\ report[n] = "sent"
  /\ report' = [report EXCEPT ![n] = "accepted"]
  /\ UNCHANGED <<connVars, sweepVars, gaugeVars, usage, last, snap, received, committed>>

\* The report does not reach the panel.
Lost(n) ==
  /\ "lost" \in PanelFaults
  /\ report[n] = "sent"
  /\ report' = [report EXCEPT ![n] = AfterReport(n)]
  /\ UNCHANGED <<connVars, sweepVars, gaugeVars, usage, last, snap, received, committed>>

\* Mutant: Commit resets the ledger instead of subtracting what was reported.
CommitResets(n) ==
  /\ report[n] = "accepted"
  /\ report' = [report EXCEPT ![n] = AfterReport(n)]
  /\ usage' = [usage EXCEPT ![n] = [u \in Users |-> 0]]
  /\ committed' = [committed EXCEPT ![n] = [u \in Users |-> committed[n][u] + snap[n][u]]]
  /\ UNCHANGED <<connVars, sweepVars, gaugeVars, last, snap, received>>

\* usage -= min(usage, value), for every user of the snapshot.
Taken(n, u) == IF snap[n][u] < usage[n][u] THEN snap[n][u] ELSE usage[n][u]

Commit(n) ==
  /\ report[n] = "accepted"
  /\ report' = [report EXCEPT ![n] = AfterReport(n)]
  /\ usage' = [usage EXCEPT ![n] = [u \in Users |-> usage[n][u] - Taken(n, u)]]
  /\ committed' = [committed EXCEPT ![n] = [u \in Users |-> committed[n][u] + Taken(n, u)]]
  /\ UNCHANGED <<connVars, sweepVars, gaugeVars, last, snap, received>>

-----------------------------------------------------------------------------
ConnStep(c) ==
  \/ OpenUsage(c) \/ OpenGlobal(c) \/ WrapConn(c) \/ WrapPacketConn(c)
  \/ Carry(c) \/ Account(c)
  \/ CloseConn(c) \/ FinalFlush(c) \/ UnregisterConn(c) \/ StoreClose(c) \/ CloseInner(c)

SweepStep(c) == SweepCheck(c) \/ SweepSwap(c) \/ SweepAdd(c)

ReportStep(n) ==
  StopNode(n) \/ Snapshot(n) \/ Deliver(n) \/ Unacked(n) \/ Lost(n) \/ Commit(n)

Next ==
  \/ \E c \in Conns : ConnStep(c) \/ SweepStep(c)
  \/ SweepStart
  \/ \E n \in Nodes : ReportStep(n)

Spec == Init /\ [][Next]_vars

\* Goroutines that can run do run; the tickers of the flusher and of the
\* report loop keep firing; a panel that is asked for ever answers some time.
\* Nothing forces a client to send, a connection to open or close, or a stop.
Fairness ==
  /\ WF_vars(SweepStart)
  /\ \A c \in Conns :
       /\ WF_vars(Account(c)) /\ WF_vars(SweepCheck(c)) /\ WF_vars(SweepSwap(c)) /\ WF_vars(SweepAdd(c))
       /\ WF_vars(FinalFlush(c)) /\ SF_vars(UnregisterConn(c)) /\ WF_vars(StoreClose(c))
       /\ WF_vars(CloseInner(c))
  /\ \A n \in Nodes :
       /\ WF_vars(Snapshot(n)) /\ SF_vars(Deliver(n)) /\ WF_vars(Commit(n))

FairSpec == Spec /\ Fairness

-----------------------------------------------------------------------------
(* Properties.                                                             *)

ConnState == {"new", "counted", "admitted", "open", "flush", "unregister", "release", "closed", "shut"}

\* Counters are naturals: no flush, close or commit takes out more than is in.
TypeOK ==
  /\ conn \in [Conns -> ConnState]
  /\ closed \in [Conns -> BOOLEAN]
  /\ inflight \in [Conns -> {0, 1}]
  /\ pending \in [Conns -> Nat]
  /\ held \in [Conns -> Nat]
  /\ flushed \in [Conns -> Nat]
  /\ carried \in [Conns -> 0..MaxBytes]
  /\ tracked \in SUBSET (Conns \ Packet)
  /\ flusherRun \in BOOLEAN
  /\ flushers \in Nat
  /\ visit \in [Conns -> {"todo", "checked", "taken", "done"}]
  /\ usage \in [Nodes -> [Users -> Nat]]
  /\ active \in [Nodes -> [Users -> Nat]]
  /\ activeAll \in Int
  /\ report \in [Nodes -> {"idle", "sent", "accepted", "done"}]
  /\ last \in [Nodes -> BOOLEAN]
  /\ snap \in [Nodes -> [Users -> Nat]]
  /\ received \in [Nodes -> [Users -> Nat]]
  /\ committed \in [Nodes -> [Users -> Nat]]

\* However Read, Write, the sweep and Close of one connection interleave
\* (TrackedConn, flushLoop), each byte it moved is in exactly one place: on its
\* way to the counter, in it, in the hands of the flusher, or entered in usage.
ConnBytesConserved == \A c \in Conns : carried[c] = Accounted(c)

\* The ledger of a user on a node holds what its own connections flushed, less
\* what Commit took out: bytes flushed while a report is in flight stay owed.
LedgerBalanced ==
  \A n \in Nodes, u \in Users :
    SumFunctionOnSet(flushed, ConnsOf(n, u)) = usage[n][u] + committed[n][u]

\* The two connection gauges of Store.Open and Store.Close, moved in separate
\* steps by Open, count exactly the connections between their open and close.
GaugesExact ==
  /\ \A n \in Nodes, u \in Users : active[n][u] = Cardinality(Counted \cap ConnsOf(n, u))
  /\ activeAll = Cardinality(CountedAll)

\* Whatever the panel and the network do, a byte leaves the ledger only after
\* a report that holds it has reached the panel (doReport returns on an error
\* before Commit).
SettledWasReceived == \A n \in Nodes, u \in Users : committed[n][u] <= received[n][u]

\* While a report is under way the ledger only grows, so the min in Commit
\* never cuts: Commit takes out exactly what was reported.
SnapshotWithinUsage ==
  \A n \in Nodes, u \in Users : report[n] \in {"sent", "accepted"} => snap[n][u] <= usage[n][u]

\* When an answer of the panel is never lost, traffic reporting implements the
\* abstract ledger: each byte entered in usage is billed once.  A report that
\* the panel has taken settles its bytes although Commit is still to come.
Metered == INSTANCE Metering WITH
  unbilled <- [n \in Nodes |-> [u \in Users |->
                 usage[n][u] - (IF report[n] = "accepted" THEN snap[n][u] ELSE 0)]],
  billed <- received

BilledOnce == Metered!Spec

\* Every byte moved by an open stream of a node in service reaches the panel,
\* unless the stream closes or the node stops first (flushLoop, reportTicker).
Billed(c) ==
  \A k \in 1..MaxBytes :
    (carried[c] >= k) ~> \/ received[NodeOf[c]][UserOf[c]] >= k
                         \/ closed[c]
                         \/ last[NodeOf[c]]

StreamsBilled == \A c \in Conns \ Packet : Billed(c)

\* "closed ensures final flush happens exactly once": the flush of Close leaves
\* no bytes behind in the counters of the connection.
FinalFlushEmpties ==
  [][\A c \in Conns : conn[c] = "flush" /\ conn'[c] # "flush" => pending'[c] = 0]_vars
=============================================================================
