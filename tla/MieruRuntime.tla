---------------------------- MODULE MieruRuntime ----------------------------
(***************************************************************************)
(* The mieru runtime of a node (internal/kernel/mieru): the accept loop, a *)
(* handler goroutine for each connection, the two copy goroutines of a     *)
(* handler, and Close, which stops the server and waits for all of them.   *)
(*                                                                         *)
(* The mieru server itself is external: Accept hands out sessions, Stop    *)
(* ends every session and makes Accept fail.  Clients and targets of the   *)
(* proxied connections may end, speak or stay silent at any time.          *)
(***************************************************************************)
EXTENDS Integers, FiniteSets

CONSTANTS
  Conns,        \* sessions clients open; each is accepted at most once
  Command,      \* the SOCKS5 command of a session
  HasBlocks     \* the panel's routes of this node block something

ASSUME MieruAssumption ==
  /\ IsFiniteSet(Conns)
  /\ Command \in [Conns -> {"connect", "associate", "bind"}]
  /\ HasBlocks \in BOOLEAN

VARIABLES
  closer,       \* progress of Close
  stop,         \* the stop channel is closed
  accepting,    \* the accept goroutine runs
  wg,           \* Runtime.wg
  phase,        \* the handler of each session
  client,       \* the client's side: "none", "up" or "gone"
  target,       \* the target's side: "none", "up" or "gone"
  copying,      \* the directions netCopy still runs in
  writing,      \* those in which it is in dst.Write; in the others it is in src.Read
  admitted      \* sessions taken up by Store.Open and not given back

peerVars == <<client, target>>
copyVars == <<copying, writing>>
vars == <<closer, stop, accepting, wg, phase, peerVars, copyVars, admitted>>

\* Sessions whose handler goroutine exists.
Handling == {"accepted", "dispatch", "dial", "reply", "copy", "udp", "return"}
Handlers == {c \in Conns : phase[c] \in Handling}

\* New and Start: the accept goroutine is counted before it runs.
Init ==
  /\ closer = "idle"
  /\ stop = FALSE
  /\ accepting = TRUE
  /\ wg = 1
  /\ phase = [c \in Conns |-> "new"]
  /\ client = [c \in Conns |-> "none"]
  /\ target = [c \in Conns |-> "none"]
  /\ copying = [c \in Conns |-> {}]
  /\ writing = [c \in Conns |-> {}]
  /\ admitted = {}

-----------------------------------------------------------------------------
(* The peers.                                                              *)

Connect(c) ==
  /\ phase[c] = "new"
  /\ closer \in {"idle", "stopping"}
  /\ phase' = [phase EXCEPT ![c] = "queued"]
  /\ client' = [client EXCEPT ![c] = "up"]
  /\ UNCHANGED <<closer, stop, accepting, wg, target, copyVars, admitted>>

ClientLeaves(c) ==
  /\ client[c] = "up"
  /\ client' = [client EXCEPT ![c] = "gone"]
  /\ UNCHANGED <<closer, stop, accepting, wg, phase, target, copyVars, admitted>>

TargetLeaves(c) ==
  /\ target[c] = "up"
  /\ target' = [target EXCEPT ![c] = "gone"]
  /\ UNCHANGED <<closer, stop, accepting, wg, phase, client, copyVars, admitted>>

-----------------------------------------------------------------------------
(* The accept goroutine.                                                   *)

Accept(c) ==
  /\ accepting
  /\ phase[c] = "queued"
  /\ phase' = [phase EXCEPT ![c] = "accepted"]
  /\ wg' = wg + 1
  /\ UNCHANGED <<closer, stop, accepting, peerVars, copyVars, admitted>>

\* Mutant: the goroutine is counted as done after every error.
AcceptFailsDone ==
  /\ accepting
  /\ accepting' = ~stop
  /\ wg' = wg - 1
  /\ UNCHANGED <<closer, stop, phase, peerVars, copyVars, admitted>>

\* Mutant: any error of Accept is retried.
AcceptFailsRetries ==
  /\ accepting
  /\ UNCHANGED vars

\* Accept fails: the goroutine ends if stop is closed, and tries again if not.
AcceptFails ==
  /\ accepting
  /\ accepting' = ~stop
  /\ wg' = IF stop THEN wg - 1 ELSE wg
  /\ UNCHANGED <<closer, stop, phase, peerVars, copyVars, admitted>>

-----------------------------------------------------------------------------
(* handle, one goroutine for each session.                                 *)

Goto(c, p) == phase' = [phase EXCEPT ![c] = p]

\* The user is unknown or Store.Open refuses it: the session is closed.
Refuse(c) ==
  /\ phase[c] = "accepted"
  /\ Goto(c, "done")
  /\ client' = [client EXCEPT ![c] = "gone"]
  /\ wg' = wg - 1
  /\ UNCHANGED <<closer, stop, accepting, target, copyVars, admitted>>

Admit(c) ==
  /\ phase[c] = "accepted"
  /\ Goto(c, "dispatch")
  /\ admitted' = admitted \cup {c}
  /\ UNCHANGED <<closer, stop, accepting, wg, peerVars, copyVars>>

\* A blocked destination, a UDP association where something is blocked and any
\* other command are answered by the deferred Close.
Dispatch(c) ==
  /\ phase[c] = "dispatch"
  /\ \/ Command[c] = "connect" /\ Goto(c, "dial")
     \/ Command[c] = "associate" /\ ~HasBlocks /\ Goto(c, "udp")
     \/ (HasBlocks \/ Command[c] = "bind") /\ Goto(c, "return")
  /\ UNCHANGED <<closer, stop, accepting, wg, peerVars, copyVars, admitted>>

Dialled(c) ==
  /\ phase[c] = "dial"
  /\ Goto(c, "reply")
  /\ target' = [target EXCEPT ![c] = "up"]
  /\ UNCHANGED <<closer, stop, accepting, wg, client, copyVars, admitted>>

DialFails(c) ==
  /\ phase[c] = "dial"
  /\ Goto(c, "return")
  /\ UNCHANGED <<closer, stop, accepting, wg, peerVars, copyVars, admitted>>

\* The answer to the client; without a client it cannot be written.
Reply(c) ==
  /\ phase[c] = "reply"
  /\ IF client[c] = "up"
       THEN Goto(c, "copy") /\ copying' = [copying EXCEPT ![c] = {"up", "down"}]
       ELSE Goto(c, "return") /\ UNCHANGED copying
  /\ UNCHANGED <<closer, stop, accepting, wg, peerVars, writing, admitted>>

Peer(c, d) == IF d = "up" THEN client[c] ELSE target[c]
Sink(c, d) == IF d = "up" THEN target[c] ELSE client[c]

\* src.Read returns data, what a side that has ended left behind among it, and
\* netCopy goes on to write them.
SourceSpeaks(c, d) ==
  /\ d \in copying[c] \ writing[c]
  /\ writing' = [writing EXCEPT ![c] = @ \cup {d}]
  /\ UNCHANGED <<closer, stop, accepting, wg, phase, peerVars, copying, admitted>>

\* The data are taken by the other side or by what buffers there are on the way.
Written(c, d) ==
  /\ d \in writing[c]
  /\ writing' = [writing EXCEPT ![c] = @ \ {d}]
  /\ UNCHANGED <<closer, stop, accepting, wg, phase, peerVars, copying, admitted>>

\* netCopy ends because src.Read finds that its side has ended.  Nothing closes
\* the other side.
SourceEnds(c, d) ==
  /\ d \in copying[c] \ writing[c]
  /\ Peer(c, d) = "gone"
  /\ copying' = [copying EXCEPT ![c] = @ \ {d}]
  /\ UNCHANGED <<closer, stop, accepting, wg, phase, peerVars, writing, admitted>>

\* It ends because it cannot write to a side that has ended.
WriteFails(c, d) ==
  /\ d \in writing[c]
  /\ Sink(c, d) = "gone"
  /\ copying' = [copying EXCEPT ![c] = @ \ {d}]
  /\ writing' = [writing EXCEPT ![c] = @ \ {d}]
  /\ UNCHANGED <<closer, stop, accepting, wg, phase, peerVars, admitted>>

\* copyBoth returns when both directions have ended.
CopyReturns(c) ==
  /\ phase[c] = "copy"
  /\ copying[c] = {}
  /\ Goto(c, "return")
  /\ UNCHANGED <<closer, stop, accepting, wg, peerVars, copyVars, admitted>>

\* RunUDPAssociateLoop returns: the tunnel or the socket failed.
UdpReturns(c) ==
  /\ phase[c] = "udp"
  /\ Goto(c, "return")
  /\ UNCHANGED <<closer, stop, accepting, wg, peerVars, copyVars, admitted>>

\* Mutant: the wrapped connection is not closed on the way out.
ReturnKeepsConn(c) ==
  /\ phase[c] = "return"
  /\ Goto(c, "done")
  /\ wg' = wg - 1
  /\ UNCHANGED <<closer, stop, accepting, peerVars, copyVars, admitted>>

\* The deferred calls: target.Close, conn.Close with Store.Close, wg.Done.
Return(c) ==
  /\ phase[c] = "return"
  /\ Goto(c, "done")
  /\ client' = [client EXCEPT ![c] = "gone"]
  /\ target' = [target EXCEPT ![c] = IF @ = "up" THEN "gone" ELSE @]
  /\ admitted' = admitted \ {c}
  /\ wg' = wg - 1
  /\ UNCHANGED <<closer, stop, accepting, copyVars>>

-----------------------------------------------------------------------------
(* Close, called once by the node worker.                                  *)

CloseStop ==
  /\ closer = "idle"
  /\ closer' = "stopping"
  /\ stop' = TRUE
  /\ UNCHANGED <<accepting, wg, phase, peerVars, copyVars, admitted>>

\* server.Stop ends the sessions, those not yet accepted among them.
ServerStop ==
  /\ closer = "stopping"
  /\ closer' = "waiting"
  /\ client' = [c \in Conns |-> IF client[c] = "up" THEN "gone" ELSE client[c]]
  /\ UNCHANGED <<stop, accepting, wg, phase, target, copyVars, admitted>>

WaitReturns ==
  /\ closer = "waiting"
  /\ wg = 0
  /\ closer' = "closed"
  /\ UNCHANGED <<stop, accepting, wg, phase, peerVars, copyVars, admitted>>

-----------------------------------------------------------------------------
Directions == {"up", "down"}

PeerStep(c) ==
  \/ Connect(c) \/ ClientLeaves(c) \/ TargetLeaves(c)
  \/ \E d \in Directions : SourceSpeaks(c, d) \/ Written(c, d)

\* What a handler does by itself.
HandlerStep(c) ==
  \/ Refuse(c) \/ Admit(c) \/ Dispatch(c) \/ Dialled(c) \/ DialFails(c) \/ Reply(c)
  \/ CopyReturns(c) \/ Return(c)

CopyEnds(c, d) == SourceEnds(c, d) \/ WriteFails(c, d)

CloseStep == ServerStop \/ WaitReturns

Next ==
  \/ \E c \in Conns : PeerStep(c) \/ Accept(c) \/ HandlerStep(c) \/ UdpReturns(c)
  \/ \E c \in Conns, d \in Directions : CopyEnds(c, d)
  \/ AcceptFails
  \/ CloseStop \/ CloseStep

Spec == Init /\ [][Next]_vars

\* Goroutines that can run do run, and a UDP association ends with its client.
\* A side that has ended left only so much to read, and takes only so many writes
\* until one fails.  No side has to end, to speak or to read, and nothing has to
\* call Close.
Fairness ==
  /\ WF_vars(CloseStep)
  /\ WF_vars(closer = "waiting" /\ AcceptFails)
  /\ \A c \in Conns : WF_vars(HandlerStep(c)) /\ WF_vars(client[c] = "gone" /\ UdpReturns(c))
  /\ \A c \in Conns, d \in Directions : SF_vars(CopyEnds(c, d))

FairSpec == Spec /\ Fairness

-----------------------------------------------------------------------------
(* Properties.                                                             *)

TypeOK ==
  /\ closer \in {"idle", "stopping", "waiting", "closed"}
  /\ stop \in BOOLEAN
  /\ accepting \in BOOLEAN
  /\ wg \in Nat
  /\ phase \in [Conns -> Handling \cup {"new", "queued", "done"}]
  /\ client \in [Conns -> {"none", "up", "gone"}]
  /\ target \in [Conns -> {"none", "up", "gone"}]
  /\ copying \in [Conns -> SUBSET Directions]
  /\ writing \in [Conns -> SUBSET Directions]
  /\ \A c \in Conns : writing[c] \subseteq copying[c]
  /\ admitted \subseteq Conns

\* Close returns only when every goroutine of the runtime has ended, those
\* started while it was stopping included, and every session it had admitted
\* has been given back to the store (accept, handle, wg).
ClosedIsQuiet == closer = "closed" => ~accepting /\ Handlers = {} /\ admitted = {}

\* A session whose client is gone but whose target is there, silent or not
\* reading: netCopy has no deadline, and nothing closes the target.
WaitsForTarget(c) ==
  /\ client[c] = "gone" /\ target[c] = "up"
  /\ "down" \in copying[c] \ writing[c] \/ "up" \in writing[c]

\* Close returns, whatever was queued, being accepted, admitted, dialled or copied
\* when it was called, unless such a target keeps it waiting for ever.
OnlyTargetsDelayClose ==
  (stop ~> closer = "closed") \/ <>[](\E c \in Conns : WaitsForTarget(c))
=============================================================================
