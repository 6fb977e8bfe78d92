---------------------------- MODULE NodeLifecycle ---------------------------
(***************************************************************************)
(* What the worker of a node promises, without requests, tags, flags or    *)
(* errors: how the service of the node goes on while the panel changes its *)
(* mind.  The worker knows what the panel held when it last asked; besides *)
(* the instance in service there is one more at most, on its way in or on  *)
(* its way out; and whoever an instance serves is admitted by the store    *)
(* before that instance is made.                                           *)
(***************************************************************************)
CONSTANTS Configs, UserLists, Reloadable, Rejected, Ids, None

VARIABLES
  panelCfg, panelUsr,   \* what the panel holds
  knownCfg, knownUsr,   \* what the worker was last told of it
  admitted,             \* the users the store was last given
  serving,              \* the instance in service
  arriving,             \* one that is made and not yet in service
  leaving,              \* one that was replaced and is not yet closed
  ended                 \* the worker has returned

known == <<panelCfg, panelUsr, knownCfg, knownUsr>>
instances == <<serving, arriving, leaving>>
vars == <<known, admitted, instances, ended>>

Init ==
  /\ panelCfg \in Configs
  /\ panelUsr \in UserLists
  /\ knownCfg = None
  /\ knownUsr = None
  /\ admitted = None
  /\ serving = None
  /\ arriving = None
  /\ leaving = None
  /\ ended = FALSE

\* Nothing but the instance in service is there, and the worker goes on.
Settled == arriving = None /\ leaving = None /\ ~ended

\* A new instance is none of those that are there.
Made(x, cfg, users) ==
  \E i \in Ids :
    /\ \A y \in {serving, arriving, leaving} \ {None} : y.id # i
    /\ x = [id |-> i, cfg |-> cfg, users |-> users]

PanelEdits ==
  /\ panelCfg' \in Configs
  /\ panelUsr' \in UserLists
  /\ UNCHANGED <<knownCfg, knownUsr, admitted, instances, ended>>

\* The worker is told what the panel holds now, or nothing.
Learn ==
  /\ Settled
  /\ knownCfg' \in {knownCfg, panelCfg}
  /\ knownUsr' \in {knownUsr, panelUsr}
  /\ UNCHANGED <<panelCfg, panelUsr, admitted, instances, ended>>

Admit ==
  /\ Settled
  /\ knownCfg # None /\ knownUsr # None
  /\ admitted' = knownUsr
  /\ UNCHANGED <<known, instances, ended>>

\* New users without a gap in the service, never for an outdated configuration.
Handover ==
  /\ Settled
  /\ admitted = knownUsr
  /\ serving # None
  /\ serving.cfg = knownCfg
  /\ serving.cfg \in Reloadable
  /\ Made(serving', knownCfg, knownUsr)
  /\ leaving' = serving
  /\ UNCHANGED <<known, admitted, arriving, ended>>

Drain ==
  /\ leaving # None
  /\ leaving' = None
  /\ UNCHANGED <<known, admitted, serving, arriving, ended>>

\* A rebuild: the service goes on until the next instance is there to take over.
Prepare ==
  /\ Settled
  /\ knownCfg # None /\ knownCfg \notin Rejected
  /\ knownUsr # None /\ admitted = knownUsr
  /\ Made(arriving', knownCfg, knownUsr)
  /\ UNCHANGED <<known, admitted, serving, leaving, ended>>

Vacate ==
  /\ arriving # None
  /\ serving' = None
  /\ UNCHANGED <<known, admitted, arriving, leaving, ended>>

\* The next instance takes over, or does not start and is closed.
Arrive ==
  /\ arriving # None
  /\ serving = None
  /\ serving' \in {arriving, None}
  /\ arriving' = None
  /\ UNCHANGED <<known, admitted, leaving, ended>>

End ==
  /\ Settled
  /\ serving' = None
  /\ ended' = TRUE
  /\ UNCHANGED <<known, admitted, arriving, leaving>>

Next ==
  \/ PanelEdits \/ Learn \/ Admit
  \/ Handover \/ Drain
  \/ Prepare \/ Vacate \/ Arrive
  \/ End

Spec == Init /\ [][Next]_vars
=============================================================================
