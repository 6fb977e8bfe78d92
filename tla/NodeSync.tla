------------------------------ MODULE NodeSync ------------------------------
(***************************************************************************)
(* The worker of one node (internal/app runNode): it polls the panel for   *)
(* the node configuration and the user list with ETags, rebuilds the       *)
(* protocol runtime or hot-reloads its users when something changed,       *)
(* reports, and closes everything when the context is cancelled.           *)
(*                                                                         *)
(* The worker is one goroutine; what interleaves with it is the panel,     *)
(* which edits its data at any time and may fail a request, and the        *)
(* cancellation.  An ETag names the content it came with, so the content   *)
(* stands for its tag.  A runtime instance is a record of its identity and *)
(* of the configuration and users it was built from.                       *)
(***************************************************************************)
EXTENDS Integers

CONSTANTS
  Configs,      \* node configurations the panel may hold
  UserLists,    \* user lists the panel may hold
  Reloadable,   \* configurations whose runtime is a HotReloader (not mieru)
  Rejected,     \* configurations createRuntime refuses
  Ids,          \* identities of runtime instances
  None,
  FaultSets,    \* what may fail in a behaviour: sets of "config", "users", "create",
                \* "start", "reload"
  MaxEdits      \* bound: edits of the panel's data

Instance == [id : Ids, cfg : Configs, users : UserLists]

ASSUME NodeSyncAssumption ==
  /\ Reloadable \subseteq Configs
  /\ Rejected \subseteq Configs
  /\ FaultSets \subseteq SUBSET {"config", "users", "create", "start", "reload"}
  /\ MaxEdits \in Nat
  /\ None \notin Configs \cup UserLists \cup Instance

VARIABLES
  panelCfg, panelUsr,     \* what the panel holds
  edits,                  \* edits of the panel so far
  faults,                 \* what may fail in this behaviour
  ctxDone,                \* the context is cancelled
  pc,                     \* where the worker is
  booted,                 \* the first refresh has succeeded, the tickers run
  cfgTag, usrTag,         \* configETag, usersETag
  currentCfg,             \* currentCfg; None is nil
  currentUsr,             \* currentUsr; None is usersReady = false
  changed,                \* refresh: changed
  configDirty, usersDirty,
  nodeType,               \* the configuration nodeType was taken from
  storeUsers,             \* the users last given to Store.ReplaceUsers
  runtime,                \* the runtime in service
  next,                   \* apply: next, created and not yet in service
  old,                    \* ReloadUsers: old, replaced and not yet closed
  open                    \* instances created and not closed

panelVars == <<panelCfg, panelUsr, edits, faults>>
syncVars == <<cfgTag, usrTag, currentCfg, currentUsr>>
applyVars == <<configDirty, usersDirty, nodeType, storeUsers>>
runtimeVars == <<runtime, next, old, open>>
vars == <<panelVars, ctxDone, pc, booted, syncVars, changed, applyVars, runtimeVars>>

Init ==
  /\ panelCfg \in Configs
  /\ panelUsr \in UserLists
  /\ edits = 0
  /\ faults \in FaultSets
  /\ ctxDone = FALSE
  /\ pc = "config"
  /\ booted = FALSE
  /\ cfgTag = None
  /\ usrTag = None
  /\ currentCfg = None
  /\ currentUsr = None
  /\ changed = FALSE
  /\ configDirty = FALSE
  /\ usersDirty = FALSE
  /\ nodeType = None
  /\ storeUsers = None
  /\ runtime = None
  /\ next = None
  /\ old = None
  /\ open = {}

-----------------------------------------------------------------------------
(* The environment.                                                        *)

PanelSetsConfig(c) ==
  /\ edits < MaxEdits
  /\ c # panelCfg
  /\ panelCfg' = c
  /\ edits' = edits + 1
  /\ UNCHANGED <<panelUsr, faults, ctxDone, pc, booted, syncVars, changed, applyVars, runtimeVars>>

PanelSetsUsers(u) ==
  /\ edits < MaxEdits
  /\ u # panelUsr
  /\ panelUsr' = u
  /\ edits' = edits + 1
  /\ UNCHANGED <<panelCfg, faults, ctxDone, pc, booted, syncVars, changed, applyVars, runtimeVars>>

Cancel ==
  /\ ~ctxDone
  /\ ctxDone' = TRUE
  /\ UNCHANGED <<panelVars, pc, booted, syncVars, changed, applyVars, runtimeVars>>

-----------------------------------------------------------------------------
(* refresh: where it returns to.  The first refresh runs inside retry; the *)
(* later ones inside the select loop, which only logs an error.            *)

RefreshOK == booted' = TRUE /\ pc' = "select"

RefreshError == pc' = (IF booted THEN "select" ELSE "backoff") /\ UNCHANGED booted

\* Mutant: the new configuration does not count as a change.
ConfigFetchedNotDirty ==
  /\ pc = "config"
  /\ ~ctxDone
  /\ cfgTag # panelCfg
  /\ cfgTag' = panelCfg
  /\ currentCfg' = panelCfg
  /\ changed' = FALSE
  /\ pc' = "users"
  /\ UNCHANGED <<panelVars, ctxDone, booted, usrTag, currentUsr, applyVars, runtimeVars>>

\* client.Config answers 200: the tag is remembered at once.
ConfigFetched ==
  /\ pc = "config"
  /\ ~ctxDone
  /\ cfgTag # panelCfg
  /\ cfgTag' = panelCfg
  /\ currentCfg' = panelCfg
  /\ changed' = TRUE
  /\ configDirty' = TRUE
  /\ pc' = "users"
  /\ UNCHANGED <<panelVars, ctxDone, booted, usrTag, currentUsr, usersDirty, nodeType, storeUsers,
                 runtimeVars>>

\* It answers 304.
ConfigUnchanged ==
  /\ pc = "config"
  /\ ~ctxDone
  /\ cfgTag = panelCfg
  /\ changed' = FALSE
  /\ pc' = "users"
  /\ UNCHANGED <<panelVars, ctxDone, booted, syncVars, applyVars, runtimeVars>>

\* Mutant: the tag is assigned before the error is looked at.
ConfigFailedKeepsTag ==
  /\ pc = "config"
  /\ "config" \in faults \/ ctxDone
  /\ cfgTag' = panelCfg
  /\ RefreshError
  /\ UNCHANGED <<panelVars, ctxDone, usrTag, currentCfg, currentUsr, changed, applyVars,
                 runtimeVars>>

\* It returns an error: nothing was assigned yet.
ConfigFailed ==
  /\ pc = "config"
  /\ "config" \in faults \/ ctxDone
  /\ RefreshError
  /\ UNCHANGED <<panelVars, ctxDone, syncVars, changed, applyVars, runtimeVars>>

\* client.Users answers 200.
UsersFetched ==
  /\ pc = "users"
  /\ ~ctxDone
  /\ usrTag # panelUsr
  /\ usrTag' = panelUsr
  /\ currentUsr' = panelUsr
  /\ changed' = TRUE
  /\ usersDirty' = TRUE
  /\ pc' = "apply"
  /\ UNCHANGED <<panelVars, ctxDone, booted, cfgTag, currentCfg, configDirty, nodeType, storeUsers,
                 runtimeVars>>

\* It answers 304: apply runs only if this refresh brought a configuration.
UsersUnchanged ==
  /\ pc = "users"
  /\ ~ctxDone
  /\ usrTag = panelUsr
  /\ IF changed THEN pc' = "apply" /\ UNCHANGED booted ELSE RefreshOK
  /\ UNCHANGED <<panelVars, ctxDone, syncVars, changed, applyVars, runtimeVars>>

\* It returns an error: changed is forgotten, the tag of the configuration is not.
UsersFailed ==
  /\ pc = "users"
  /\ "users" \in faults \/ ctxDone
  /\ RefreshError
  /\ UNCHANGED <<panelVars, ctxDone, syncVars, changed, applyVars, runtimeVars>>

-----------------------------------------------------------------------------
(* apply.                                                                  *)

\* Only users changed, and the runtime in service can reload them.
CanReload == usersDirty /\ ~configDirty /\ runtime # None /\ runtime.cfg \in Reloadable

\* The early return, else nodeType and ReplaceUsers, then reload or rebuild.
Apply ==
  /\ pc = "apply"
  /\ IF currentCfg = None \/ currentUsr = None
       THEN RefreshOK /\ UNCHANGED <<nodeType, storeUsers>>
       ELSE /\ nodeType' = currentCfg
            /\ storeUsers' = currentUsr
            /\ pc' = IF CanReload THEN "reload" ELSE "create"
            /\ UNCHANGED booted
  /\ UNCHANGED <<panelVars, ctxDone, syncVars, changed, configDirty, usersDirty, runtimeVars>>

\* ReloadUsers: an instance for the new users is built from the configuration
\* the runtime already has, and started beside the old one.
ReloadStarted ==
  /\ pc = "reload"
  /\ \E i \in Ids \ open :
       /\ runtime' = [id |-> i, cfg |-> runtime.cfg, users |-> currentUsr]
       /\ open' = open \cup {i}
  /\ old' = runtime
  /\ pc' = "drain"
  /\ UNCHANGED <<panelVars, ctxDone, booted, syncVars, changed, applyVars, next>>

\* The new instance cannot be built or started (the port of the old one is
\* still taken, for example); apply falls back to a full rebuild.
ReloadFailed ==
  /\ pc = "reload"
  /\ "reload" \in faults
  /\ pc' = "create"
  /\ UNCHANGED <<panelVars, ctxDone, booted, syncVars, changed, applyVars, runtimeVars>>

\* Mutant: the old instance is left to its connections.
ReloadDrainedKeepsOld ==
  /\ pc = "drain"
  /\ old' = None
  /\ usersDirty' = FALSE
  /\ RefreshOK
  /\ UNCHANGED <<panelVars, ctxDone, syncVars, changed, configDirty, nodeType, storeUsers,
                 runtime, next, open>>

\* After the drain the old instance is closed, and apply returns.
ReloadDrained ==
  /\ pc = "drain"
  /\ open' = open \ {old.id}
  /\ old' = None
  /\ usersDirty' = FALSE
  /\ RefreshOK
  /\ UNCHANGED <<panelVars, ctxDone, syncVars, changed, configDirty, nodeType, storeUsers,
                 runtime, next>>

\* The rebuild: createRuntime, close what is in service, start the new one.
Created ==
  /\ pc = "create"
  /\ currentCfg \notin Rejected
  /\ \E i \in Ids \ open :
       /\ next' = [id |-> i, cfg |-> currentCfg, users |-> currentUsr]
       /\ open' = open \cup {i}
  /\ pc' = "replace"
  /\ UNCHANGED <<panelVars, ctxDone, booted, syncVars, changed, applyVars, runtime, old>>

\* Mutant: the error of createRuntime is not returned.
CreateFailedIgnored ==
  /\ pc = "create"
  /\ currentCfg \in Rejected \/ "create" \in faults
  /\ pc' = "replace"
  /\ UNCHANGED <<panelVars, ctxDone, booted, syncVars, changed, applyVars, runtimeVars>>

\* Mutant: the runtime in service is closed before createRuntime is called.
CreateFailedVacates ==
  /\ pc = "create"
  /\ currentCfg \in Rejected \/ "create" \in faults
  /\ open' = IF runtime = None THEN open ELSE open \ {runtime.id}
  /\ runtime' = None
  /\ RefreshError
  /\ UNCHANGED <<panelVars, ctxDone, syncVars, changed, applyVars, next, old>>

CreateFailed ==
  /\ pc = "create"
  /\ currentCfg \in Rejected \/ "create" \in faults
  /\ RefreshError
  /\ UNCHANGED <<panelVars, ctxDone, syncVars, changed, applyVars, runtimeVars>>

Replaced ==
  /\ pc = "replace"
  /\ open' = IF runtime = None THEN open ELSE open \ {runtime.id}
  /\ runtime' = None
  /\ pc' = "start"
  /\ UNCHANGED <<panelVars, ctxDone, booted, syncVars, changed, applyVars, next, old>>

Started ==
  /\ pc = "start"
  /\ runtime' = next
  /\ next' = None
  /\ configDirty' = FALSE
  /\ usersDirty' = FALSE
  /\ RefreshOK
  /\ UNCHANGED <<panelVars, ctxDone, syncVars, changed, nodeType, storeUsers, old, open>>

StartFailed ==
  /\ pc = "start"
  /\ "start" \in faults
  /\ open' = open \ {next.id}
  /\ next' = None
  /\ RefreshError
  /\ UNCHANGED <<panelVars, ctxDone, syncVars, changed, applyVars, runtime, old>>

-----------------------------------------------------------------------------
(* retry and the select loop.                                              *)

\* The delay of retry is over.
RetryAgain ==
  /\ pc = "backoff"
  /\ pc' = "config"
  /\ UNCHANGED <<panelVars, ctxDone, booted, syncVars, changed, applyVars, runtimeVars>>

\* Mutant: retry sleeps instead of selecting on ctx.Done.
RetryStopNever ==
  /\ pc = "backoff"
  /\ ctxDone
  /\ UNCHANGED vars

\* retry returns ctx.Err(): runNode ends without a report.
RetryStop ==
  /\ pc = "backoff"
  /\ ctxDone
  /\ pc' = "close"
  /\ UNCHANGED <<panelVars, ctxDone, booted, syncVars, changed, applyVars, runtimeVars>>

\* select picks any branch that is ready, ctx.Done among them.
Pull ==
  /\ pc = "select"
  /\ pc' = "config"
  /\ UNCHANGED <<panelVars, ctxDone, booted, syncVars, changed, applyVars, runtimeVars>>

ReportTick ==
  /\ pc = "select"
  /\ pc' = "report"
  /\ UNCHANGED <<panelVars, ctxDone, booted, syncVars, changed, applyVars, runtimeVars>>

Reported ==
  /\ pc = "report"
  /\ pc' = "select"
  /\ UNCHANGED <<panelVars, ctxDone, booted, syncVars, changed, applyVars, runtimeVars>>

Stop ==
  /\ pc = "select"
  /\ ctxDone
  /\ pc' = "final"
  /\ UNCHANGED <<panelVars, ctxDone, booted, syncVars, changed, applyVars, runtimeVars>>

\* The deferred final report, bounded by its own timeout.
FinalReported ==
  /\ pc = "final"
  /\ pc' = "close"
  /\ UNCHANGED <<panelVars, ctxDone, booted, syncVars, changed, applyVars, runtimeVars>>

\* The deferred runtime.Close, last.
Closed ==
  /\ pc = "close"
  /\ open' = IF runtime = None THEN open ELSE open \ {runtime.id}
  /\ runtime' = None
  /\ pc' = "stopped"
  /\ UNCHANGED <<panelVars, ctxDone, booted, syncVars, changed, applyVars, next, old>>

-----------------------------------------------------------------------------
Refresh ==
  \/ ConfigFetched \/ ConfigUnchanged \/ ConfigFailed
  \/ UsersFetched \/ UsersUnchanged \/ UsersFailed

ApplyStep ==
  \/ Apply
  \/ ReloadStarted \/ ReloadFailed \/ ReloadDrained
  \/ Created \/ CreateFailed \/ Replaced \/ Started \/ StartFailed

Loop ==
  \/ RetryAgain \/ RetryStop
  \/ Pull \/ ReportTick \/ Reported
  \/ Stop \/ FinalReported \/ Closed

Next ==
  \/ \E c \in Configs : PanelSetsConfig(c)
  \/ \E u \in UserLists : PanelSetsUsers(u)
  \/ Cancel
  \/ Refresh \/ ApplyStep \/ Loop

Spec == Init /\ [][Next]_vars

\* The worker never stays where it can go on.  Its select and its tickers give
\* every branch that keeps being ready a turn, and a panel that fails some
\* requests answers when asked again and again.  No edit and no cancellation
\* has to come.
Fairness ==
  /\ WF_vars(Refresh) /\ WF_vars(ApplyStep) /\ WF_vars(Loop)
  /\ SF_vars(Pull) /\ SF_vars(Stop) /\ SF_vars(RetryStop)
  /\ SF_vars(ConfigFetched \/ ConfigUnchanged)
  /\ SF_vars(UsersFetched \/ UsersUnchanged)

FairSpec == Spec /\ Fairness

-----------------------------------------------------------------------------
(* Properties.                                                             *)

Pc == {"config", "users", "apply", "reload", "drain", "create", "replace", "start",
       "backoff", "select", "report", "final", "close", "stopped"}

FlagsOK ==
  /\ ctxDone \in BOOLEAN /\ booted \in BOOLEAN /\ changed \in BOOLEAN
  /\ configDirty \in BOOLEAN /\ usersDirty \in BOOLEAN

LocalsOK ==
  /\ next # None <=> pc \in {"replace", "start"}
  /\ old # None <=> pc = "drain"

\* The types, and which of the local variables of apply are in use where.
TypeOK ==
  /\ panelCfg \in Configs /\ panelUsr \in UserLists /\ edits \in 0..MaxEdits /\ faults \in FaultSets
  /\ FlagsOK
  /\ pc \in Pc
  /\ cfgTag \in Configs \cup {None} /\ usrTag \in UserLists \cup {None}
  /\ currentCfg \in Configs \cup {None} /\ currentUsr \in UserLists \cup {None}
  /\ nodeType \in Configs \cup {None} /\ storeUsers \in UserLists \cup {None}
  /\ runtime \in Instance \cup {None}
  /\ next \in Instance \cup {None} /\ old \in Instance \cup {None} /\ LocalsOK
  /\ open \subseteq Ids

\* The dirty flags of runNode tell the truth about the runtime: where a flag is
\* down, the runtime in service was built from what was last fetched, and the
\* store holds the same users; and a node without a runtime still has something
\* to apply.  A hot reload therefore never keeps an outdated configuration.
AppliedIsClean ==
  /\ runtime # None /\ ~configDirty => runtime.cfg = currentCfg
  /\ runtime # None /\ ~usersDirty => runtime.users = currentUsr /\ storeUsers = currentUsr
  /\ runtime = None /\ currentCfg # None /\ pc # "stopped" => configDirty \/ usersDirty
  /\ pc = "reload" => runtime # None /\ runtime.cfg = currentCfg

IdsOf(x) == IF x = None THEN {} ELSE {x.id}

\* Through reloads, failed reloads, failed starts and the end of the worker,
\* every instance that was created is in service, on its way in, on its way
\* out, or closed: none is leaked with its listener.
NoInstanceLeak ==
  /\ open = IdsOf(runtime) \cup IdsOf(next) \cup IdsOf(old)
  /\ pc = "stopped" => open = {}

\* runNode reads currentCfg.BaseConfig without a nil check after retry, and
\* reports under nodeType: both are there once a refresh has returned no error,
\* though not every such refresh applied something.
BootedHasConfig ==
  booted => currentCfg # None /\ currentUsr # None /\ nodeType # None

\* What the worker promises of the service of its node (module NodeLifecycle):
\* it serves what it was last told, to users the store already admits, stops
\* serving only for an instance that is made or to end, has two instances at
\* most, and hot-reloads no configuration that is outdated.
Lifecycle == INSTANCE NodeLifecycle WITH
  knownCfg <- currentCfg, knownUsr <- currentUsr, admitted <- storeUsers,
  serving <- runtime, arriving <- next, leaving <- old, ended <- (pc = "stopped")

ServiceKept == Lifecycle!Spec

\* A cancelled worker ends, and by then has closed its runtime.
StopsCleanly == ctxDone ~> (pc = "stopped" /\ open = {})

\* The runtime in service serves what the panel holds.
InSync ==
  /\ runtime # None
  /\ runtime.cfg = panelCfg
  /\ runtime.users = panelUsr
  /\ storeUsers = panelUsr

\* "a full rebuild when the configuration changes, a hot reload when the users
\* change": once the panel stops changing, the node comes to serve what the
\* panel holds, unless it was stopped or the configuration is refused.
Converges == <>[](ctxDone \/ panelCfg \in Rejected \/ InSync)

\* So it does where only requests for the configuration and hot reloads fail:
\* a refresh that fails is repeated, a reload that fails becomes a rebuild.
ConvergesThroughFaults == faults \subseteq {"config", "reload"} => Converges
=============================================================================
