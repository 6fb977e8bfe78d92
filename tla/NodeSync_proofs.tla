--------------------------- MODULE NodeSync_proofs --------------------------
(***************************************************************************)
(* Proofs about module NodeSync, for any configurations, user lists,       *)
(* instance identities and combination of faults.                          *)
(***************************************************************************)
EXTENDS NodeSync, TLAPS

\* What apply and ReloadUsers work on is there: a configuration, a user list
\* and, for a reload, a runtime.
TypeInv ==
  /\ TypeOK
  /\ pc \in {"reload", "drain", "create", "replace", "start"} => currentCfg # None /\ currentUsr # None
  /\ pc \in {"reload", "drain"} => runtime # None

\* The types of the worker's variables, and that next and old are in use
\* exactly inside the rebuild and the reload of apply.
LEMMA TypeInvariant == Spec => []TypeInv
<1> USE NodeSyncAssumption DEF NodeSyncAssumption, Pc
<1>1. Init => TypeInv
  <2>1. Init => FlagsOK
    BY DEF Init, FlagsOK
  <2> QED BY <2>1 DEF Init, TypeInv, TypeOK, LocalsOK
<1>2. TypeInv /\ [Next]_vars => TypeInv'
  <2> SUFFICES ASSUME TypeInv, [Next]_vars PROVE TypeInv'
    OBVIOUS
  <2> USE DEF TypeInv, TypeOK, LocalsOK, panelVars, syncVars, applyVars, runtimeVars
  <2>1. ASSUME NEW c \in Configs, PanelSetsConfig(c) PROVE TypeInv'
    BY <2>1 DEF PanelSetsConfig, FlagsOK
  <2>2. ASSUME NEW u \in UserLists, PanelSetsUsers(u) PROVE TypeInv'
    BY <2>2 DEF PanelSetsUsers, FlagsOK
  <2>3. CASE Cancel
    BY <2>3 DEF Cancel, FlagsOK
  <2>4. CASE ConfigFetched
    BY <2>4 DEF ConfigFetched, FlagsOK
  <2>5. CASE ConfigUnchanged
    <3>1. FlagsOK'
      BY <2>5 DEF ConfigUnchanged, FlagsOK
    <3> QED BY <2>5, <3>1 DEF ConfigUnchanged
  <2>6. CASE ConfigFailed
    BY <2>6 DEF ConfigFailed, RefreshError, FlagsOK
  <2>7. CASE UsersFetched
    BY <2>7 DEF UsersFetched, FlagsOK
  <2>8. CASE UsersUnchanged
    <3>1. FlagsOK'
      BY <2>8 DEF UsersUnchanged, RefreshOK, FlagsOK
    <3> QED BY <2>8, <3>1 DEF UsersUnchanged, RefreshOK
  <2>9. CASE UsersFailed
    BY <2>9 DEF UsersFailed, RefreshError, FlagsOK
  <2>10. CASE Apply
    <3>1. FlagsOK'
      BY <2>10 DEF Apply, RefreshOK, CanReload, FlagsOK
    <3> QED BY <2>10, <3>1 DEF Apply, RefreshOK, CanReload
  <2>11. CASE ReloadStarted
    <3>1. PICK i \in Ids \ open : /\ runtime' = [id |-> i, cfg |-> runtime.cfg, users |-> currentUsr]
                                  /\ open' = open \cup {i}
      BY <2>11 DEF ReloadStarted
    <3>2. runtime \in Instance /\ currentUsr \in UserLists
      BY <2>11 DEF ReloadStarted
    <3>3. runtime.cfg \in Configs
      BY <3>2 DEF Instance
    <3>4. runtime' \in Instance
      BY <3>1, <3>2, <3>3 DEF Instance
    <3>5. FlagsOK'
      BY <2>11 DEF ReloadStarted, FlagsOK
    <3> QED BY <2>11, <3>1, <3>2, <3>4, <3>5 DEF ReloadStarted
  <2>12. CASE ReloadFailed
    BY <2>12 DEF ReloadFailed, FlagsOK
  <2>13. CASE ReloadDrained
    BY <2>13 DEF ReloadDrained, RefreshOK, FlagsOK
  <2>14. CASE Created
    <3>1. PICK i \in Ids \ open : /\ next' = [id |-> i, cfg |-> currentCfg, users |-> currentUsr]
                                  /\ open' = open \cup {i}
      BY <2>14 DEF Created
    <3>2. currentCfg \in Configs /\ currentUsr \in UserLists
      BY <2>14 DEF Created
    <3>3. next' \in Instance
      BY <3>1, <3>2 DEF Instance
    <3>4. FlagsOK'
      BY <2>14 DEF Created, FlagsOK
    <3> QED BY <2>14, <3>1, <3>3, <3>4 DEF Created
  <2>15. CASE CreateFailed
    BY <2>15 DEF CreateFailed, RefreshError, FlagsOK
  <2>16. CASE Replaced
    BY <2>16 DEF Replaced, FlagsOK
  <2>17. CASE Started
    BY <2>17 DEF Started, RefreshOK, FlagsOK
  <2>18. CASE StartFailed
    BY <2>18 DEF StartFailed, RefreshError, FlagsOK
  <2>19. CASE RetryAgain
    BY <2>19 DEF RetryAgain, FlagsOK
  <2>20. CASE RetryStop
    BY <2>20 DEF RetryStop, FlagsOK
  <2>21. CASE Pull
    BY <2>21 DEF Pull, FlagsOK
  <2>22. CASE ReportTick
    BY <2>22 DEF ReportTick, FlagsOK
  <2>23. CASE Reported
    BY <2>23 DEF Reported, FlagsOK
  <2>24. CASE Stop
    BY <2>24 DEF Stop, FlagsOK
  <2>25. CASE FinalReported
    BY <2>25 DEF FinalReported, FlagsOK
  <2>26. CASE Closed
    BY <2>26 DEF Closed, FlagsOK
  <2>27. CASE UNCHANGED vars
    BY <2>27 DEF vars, FlagsOK
  <2> QED BY <2>1, <2>2, <2>3, <2>4, <2>5, <2>6, <2>7, <2>8, <2>9, <2>10, <2>11, <2>12,
             <2>13, <2>14, <2>15, <2>16, <2>17, <2>18, <2>19, <2>20, <2>21, <2>22, <2>23,
             <2>24, <2>25, <2>26, <2>27
          DEF Next, Refresh, ApplyStep, Loop
<1> QED BY <1>1, <1>2, PTL DEF Spec

\* The worker's variables keep their types, and next and old are in use only
\* inside the rebuild and the reload.
THEOREM TypeCorrect == Spec => []TypeOK
BY TypeInvariant, PTL DEF TypeInv

-----------------------------------------------------------------------------
\* Why the flags stay true: apply is only reached with a flag up, the store has
\* the users of the apply under way, and a reload runs with no configuration
\* pending.
DirtyInv ==
  /\ AppliedIsClean
  /\ pc = "users" /\ changed => configDirty
  /\ pc \in {"apply", "reload", "create", "replace", "start"} => configDirty \/ usersDirty
  /\ pc \in {"reload", "drain", "create", "replace", "start"} => storeUsers = currentUsr
  /\ pc \in {"replace", "start"} => next.cfg = currentCfg /\ next.users = currentUsr
  /\ pc \in {"reload", "drain"} => ~configDirty
  /\ pc = "reload" => runtime.cfg \in Reloadable
  /\ pc = "drain" => runtime.users = currentUsr

\* DirtyInv holds in every reachable state.
LEMMA DirtyInvariant == Spec => []DirtyInv
<1> USE NodeSyncAssumption DEF NodeSyncAssumption, Pc
<1>1. Init => DirtyInv
  BY DEF Init, DirtyInv, AppliedIsClean
<1>2. TypeInv /\ DirtyInv /\ [Next]_vars => DirtyInv'
  <2> SUFFICES ASSUME TypeInv, DirtyInv, [Next]_vars PROVE DirtyInv'
    OBVIOUS
  <2> USE DEF TypeInv, TypeOK, DirtyInv, AppliedIsClean, panelVars, syncVars, applyVars, runtimeVars
  <2>1. ASSUME NEW c \in Configs, PanelSetsConfig(c) PROVE DirtyInv'
    BY <2>1 DEF PanelSetsConfig
  <2>2. ASSUME NEW u \in UserLists, PanelSetsUsers(u) PROVE DirtyInv'
    BY <2>2 DEF PanelSetsUsers
  <2>3. CASE Cancel
    BY <2>3 DEF Cancel
  <2>4. CASE ConfigFetched
    BY <2>4 DEF ConfigFetched
  <2>5. CASE ConfigUnchanged
    BY <2>5 DEF ConfigUnchanged
  <2>6. CASE ConfigFailed
    BY <2>6 DEF ConfigFailed, RefreshError
  <2>7. CASE UsersFetched
    BY <2>7 DEF UsersFetched
  <2>8. CASE UsersUnchanged
    BY <2>8 DEF UsersUnchanged, RefreshOK
  <2>9. CASE UsersFailed
    BY <2>9 DEF UsersFailed, RefreshError
  <2>10. CASE Apply
    BY <2>10 DEF Apply, RefreshOK, CanReload
  <2>11. CASE ReloadStarted
    BY <2>11 DEF ReloadStarted
  <2>12. CASE ReloadFailed
    BY <2>12 DEF ReloadFailed
  <2>13. CASE ReloadDrained
    BY <2>13 DEF ReloadDrained, RefreshOK
  <2>14. CASE Created
    BY <2>14 DEF Created
  <2>15. CASE CreateFailed
    BY <2>15 DEF CreateFailed, RefreshError
  <2>16. CASE Replaced
    BY <2>16 DEF Replaced
  <2>17. CASE Started
    <3>1. next # None
      <4> HIDE DEF TypeInv, TypeOK, LocalsOK, DirtyInv, AppliedIsClean
      <4>1. LocalsOK
        BY DEF TypeInv, TypeOK
      <4> QED BY <2>17, <4>1 DEF Started, LocalsOK
    <3>2. /\ runtime' # None /\ runtime'.cfg = currentCfg' /\ runtime'.users = currentUsr'
          /\ storeUsers' = currentUsr'
      BY <2>17, <3>1 DEF Started
    <3>3. pc' = "select" /\ ~configDirty' /\ ~usersDirty'
      BY <2>17 DEF Started, RefreshOK
    <3> HIDE DEF TypeInv, TypeOK, LocalsOK
    <3> QED BY <3>2, <3>3
  <2>18. CASE StartFailed
    BY <2>18 DEF StartFailed, RefreshError
  <2>19. CASE RetryAgain
    BY <2>19 DEF RetryAgain
  <2>20. CASE RetryStop
    BY <2>20 DEF RetryStop
  <2>21. CASE Pull
    BY <2>21 DEF Pull
  <2>22. CASE ReportTick
    BY <2>22 DEF ReportTick
  <2>23. CASE Reported
    BY <2>23 DEF Reported
  <2>24. CASE Stop
    BY <2>24 DEF Stop
  <2>25. CASE FinalReported
    BY <2>25 DEF FinalReported
  <2>26. CASE Closed
    BY <2>26 DEF Closed
  <2>27. CASE UNCHANGED vars
    BY <2>27 DEF vars
  <2> QED BY <2>1, <2>2, <2>3, <2>4, <2>5, <2>6, <2>7, <2>8, <2>9, <2>10, <2>11, <2>12,
             <2>13, <2>14, <2>15, <2>16, <2>17, <2>18, <2>19, <2>20, <2>21, <2>22, <2>23,
             <2>24, <2>25, <2>26, <2>27
          DEF Next, Refresh, ApplyStep, Loop
<1> QED BY <1>1, <1>2, TypeInvariant, PTL DEF Spec

\* The dirty flags of runNode never claim more than apply has done.
THEOREM DirtyFlagsTrue == Spec => []AppliedIsClean
BY DirtyInvariant, PTL DEF DirtyInv

-----------------------------------------------------------------------------
\* Why nothing leaks: a new instance has an identity that is not open, so the
\* runtime in service is another than the one on its way in or out.
LeakInv ==
  /\ NoInstanceLeak
  /\ runtime # None /\ next # None => runtime.id # next.id
  /\ runtime # None /\ old # None => runtime.id # old.id
  /\ pc \in {"start", "stopped"} => runtime = None

LEMMA IdsOfNone == IdsOf(None) = {}
BY DEF IdsOf

LEMMA IdsOfSome == ASSUME NEW x, x # None PROVE IdsOf(x) = {x.id}
BY DEF IdsOf

\* LeakInv holds in every reachable state.
LEMMA LeakInvariant == Spec => []LeakInv
<1> USE NodeSyncAssumption DEF NodeSyncAssumption, Pc
<1>1. Init => LeakInv
  BY DEF Init, LeakInv, NoInstanceLeak, IdsOf
<1>2. TypeInv /\ TypeInv' /\ LeakInv /\ [Next]_vars => LeakInv'
  <2> SUFFICES ASSUME TypeInv, TypeInv', LeakInv, [Next]_vars PROVE LeakInv'
    OBVIOUS
  <2> USE DEF LeakInv, NoInstanceLeak, panelVars, syncVars, applyVars, runtimeVars
  <2>t. /\ LocalsOK
        /\ pc \in {"reload", "drain"} => runtime # None
    BY DEF TypeInv, TypeOK
  <2>p. /\ LocalsOK'
        /\ pc' \in {"reload", "drain"} => runtime' # None
    BY DEF TypeInv, TypeOK
  <2>1. ASSUME NEW c \in Configs, PanelSetsConfig(c) PROVE LeakInv'
    BY <2>1 DEF PanelSetsConfig
  <2>2. ASSUME NEW u \in UserLists, PanelSetsUsers(u) PROVE LeakInv'
    BY <2>2 DEF PanelSetsUsers
  <2>3. CASE Cancel
    BY <2>3 DEF Cancel
  <2>4. CASE ConfigFetched
    BY <2>4 DEF ConfigFetched
  <2>5. CASE ConfigUnchanged
    BY <2>5 DEF ConfigUnchanged
  <2>6. CASE ConfigFailed
    BY <2>6 DEF ConfigFailed, RefreshError
  <2>7. CASE UsersFetched
    BY <2>7 DEF UsersFetched
  <2>8. CASE UsersUnchanged
    BY <2>8 DEF UsersUnchanged, RefreshOK
  <2>9. CASE UsersFailed
    BY <2>9 DEF UsersFailed, RefreshError
  <2>10. CASE Apply
    BY <2>10 DEF Apply, RefreshOK, CanReload
  <2>11. CASE ReloadStarted
    <3>1. PICK i \in Ids \ open : /\ runtime' = [id |-> i, cfg |-> runtime.cfg, users |-> currentUsr]
                                  /\ open' = open \cup {i}
      BY <2>11, <2>t, <2>p DEF LocalsOK, ReloadStarted
    <3>2. /\ old = None /\ next = None /\ runtime # None /\ runtime' # None
          /\ old' = runtime /\ next' = next /\ pc' = "drain"
      BY <2>11, <2>t, <2>p DEF LocalsOK, ReloadStarted
    <3>3. runtime'.id = i
      BY <3>1
    <3>4. open = {runtime.id}
      BY <3>2, IdsOfNone, IdsOfSome
    <3>5. open' = {i} \cup {runtime.id} /\ i # runtime.id
      BY <3>1, <3>4
    <3> QED BY <3>2, <3>3, <3>5, IdsOfNone, IdsOfSome
  <2>12. CASE ReloadFailed
    BY <2>12 DEF ReloadFailed
  <2>13. CASE ReloadDrained
    <3>1. /\ old # None /\ next = None /\ runtime # None
          /\ old' = None /\ next' = next /\ runtime' = runtime /\ pc' = "select"
          /\ open' = open \ {old.id}
      BY <2>13, <2>t, <2>p DEF LocalsOK, ReloadDrained, RefreshOK
    <3>2. open = {runtime.id, old.id} /\ runtime.id # old.id
      BY <3>1, IdsOfNone, IdsOfSome
    <3>3. open' = {runtime.id}
      BY <3>1, <3>2
    <3> QED BY <3>1, <3>3, IdsOfNone, IdsOfSome
  <2>14. CASE Created
    <3>1. PICK i \in Ids \ open : /\ next' = [id |-> i, cfg |-> currentCfg, users |-> currentUsr]
                                  /\ open' = open \cup {i}
      BY <2>14, <2>t, <2>p DEF LocalsOK, Created
    <3>2. /\ old = None /\ next = None /\ next' # None
          /\ old' = old /\ runtime' = runtime /\ pc' = "replace"
      BY <2>14, <2>t, <2>p DEF LocalsOK, Created
    <3>3. next'.id = i
      BY <3>1
    <3>4. open = IdsOf(runtime) /\ open' = IdsOf(runtime) \cup {i}
      BY <3>1, <3>2, IdsOfNone
    <3>5. runtime # None => runtime.id # i
      BY <3>1, <3>4, IdsOfSome
    <3> QED BY <3>2, <3>3, <3>4, <3>5, IdsOfNone, IdsOfSome
  <2>15. CASE CreateFailed
    BY <2>15 DEF CreateFailed, RefreshError
  <2>16. CASE Replaced
    <3>1. /\ old = None /\ next # None
          /\ old' = old /\ next' = next /\ runtime' = None /\ pc' = "start"
          /\ open' = IF runtime = None THEN open ELSE open \ {runtime.id}
      BY <2>16, <2>t, <2>p DEF LocalsOK, Replaced
    <3>2. open = IdsOf(runtime) \cup {next.id}
      BY <3>1, IdsOfNone, IdsOfSome
    <3>3. open' = {next.id}
      BY <3>1, <3>2, IdsOfNone, IdsOfSome
    <3> QED BY <3>1, <3>3, IdsOfNone, IdsOfSome
  <2>17. CASE Started
    <3>1. /\ old = None /\ runtime = None
          /\ old' = old /\ next' = None /\ runtime' = next /\ pc' = "select" /\ open' = open
      BY <2>17, <2>t, <2>p DEF LocalsOK, Started, RefreshOK
    <3> QED BY <3>1, IdsOfNone
  <2>18. CASE StartFailed
    <3>1. /\ old = None /\ runtime = None /\ next # None
          /\ old' = old /\ next' = None /\ runtime' = runtime /\ pc' \in {"select", "backoff"}
          /\ open' = open \ {next.id}
      BY <2>18, <2>t, <2>p DEF LocalsOK, StartFailed, RefreshError
    <3> QED BY <3>1, IdsOfNone, IdsOfSome
  <2>19. CASE RetryAgain
    BY <2>19 DEF RetryAgain
  <2>20. CASE RetryStop
    BY <2>20 DEF RetryStop
  <2>21. CASE Pull
    BY <2>21 DEF Pull
  <2>22. CASE ReportTick
    BY <2>22 DEF ReportTick
  <2>23. CASE Reported
    BY <2>23 DEF Reported
  <2>24. CASE Stop
    BY <2>24 DEF Stop
  <2>25. CASE FinalReported
    BY <2>25 DEF FinalReported
  <2>26. CASE Closed
    <3>1. /\ old = None /\ next = None
          /\ old' = old /\ next' = next /\ runtime' = None /\ pc' = "stopped"
          /\ open' = IF runtime = None THEN open ELSE open \ {runtime.id}
      BY <2>26, <2>t, <2>p DEF LocalsOK, Closed
    <3>2. open' = {}
      BY <3>1, IdsOfNone, IdsOfSome
    <3> QED BY <3>1, <3>2, IdsOfNone
  <2>27. CASE UNCHANGED vars
    BY <2>27 DEF vars
  <2> QED BY <2>1, <2>2, <2>3, <2>4, <2>5, <2>6, <2>7, <2>8, <2>9, <2>10, <2>11, <2>12,
             <2>13, <2>14, <2>15, <2>16, <2>17, <2>18, <2>19, <2>20, <2>21, <2>22, <2>23,
             <2>24, <2>25, <2>26, <2>27
          DEF Next, Refresh, ApplyStep, Loop
<1> QED BY <1>1, <1>2, TypeInvariant, PTL DEF Spec

\* No instance is left open by a failed reload, a failed start or the end.
THEOREM NothingLeaks == Spec => []NoInstanceLeak
BY LeakInvariant, PTL DEF LeakInv

-----------------------------------------------------------------------------
\* Why a worker that runs has a configuration: a tag is only ever remembered
\* with the content it names, so a 304 means that the content is there, and the
\* refresh that first fetched the users went on to apply.
BootInv ==
  /\ BootedHasConfig
  /\ cfgTag = currentCfg /\ usrTag = currentUsr
  /\ pc \in {"users", "apply"} \/ currentUsr # None => currentCfg # None
  /\ pc \in {"apply", "reload", "drain", "create", "replace", "start"} => currentUsr # None
  /\ currentUsr # None /\ pc # "apply" => nodeType # None

\* BootInv holds in every reachable state.
LEMMA BootInvariant == Spec => []BootInv
<1> USE NodeSyncAssumption DEF NodeSyncAssumption, Pc
<1>1. Init => BootInv
  BY DEF Init, BootInv, BootedHasConfig
<1>2. TypeInv /\ BootInv /\ [Next]_vars => BootInv'
  <2> SUFFICES ASSUME TypeInv, BootInv, [Next]_vars PROVE BootInv'
    OBVIOUS
  <2> USE DEF TypeInv, TypeOK, BootInv, BootedHasConfig, panelVars, syncVars, applyVars, runtimeVars
  <2>1. ASSUME NEW c \in Configs, PanelSetsConfig(c) PROVE BootInv'
    BY <2>1 DEF PanelSetsConfig
  <2>2. ASSUME NEW u \in UserLists, PanelSetsUsers(u) PROVE BootInv'
    BY <2>2 DEF PanelSetsUsers
  <2>3. CASE Cancel
    BY <2>3 DEF Cancel
  <2>4. CASE ConfigFetched
    BY <2>4 DEF ConfigFetched
  <2>5. CASE ConfigUnchanged
    BY <2>5 DEF ConfigUnchanged
  <2>6. CASE ConfigFailed
    BY <2>6 DEF ConfigFailed, RefreshError
  <2>7. CASE UsersFetched
    BY <2>7 DEF UsersFetched
  <2>8. CASE UsersUnchanged
    BY <2>8 DEF UsersUnchanged, RefreshOK
  <2>9. CASE UsersFailed
    BY <2>9 DEF UsersFailed, RefreshError
  <2>10. CASE Apply
    BY <2>10 DEF Apply, RefreshOK, CanReload
  <2>11. CASE ReloadStarted
    BY <2>11 DEF ReloadStarted
  <2>12. CASE ReloadFailed
    BY <2>12 DEF ReloadFailed
  <2>13. CASE ReloadDrained
    BY <2>13 DEF ReloadDrained, RefreshOK
  <2>14. CASE Created
    BY <2>14 DEF Created
  <2>15. CASE CreateFailed
    BY <2>15 DEF CreateFailed, RefreshError
  <2>16. CASE Replaced
    BY <2>16 DEF Replaced
  <2>17. CASE Started
    BY <2>17 DEF Started, RefreshOK
  <2>18. CASE StartFailed
    BY <2>18 DEF StartFailed, RefreshError
  <2>19. CASE RetryAgain
    BY <2>19 DEF RetryAgain
  <2>20. CASE RetryStop
    BY <2>20 DEF RetryStop
  <2>21. CASE Pull
    BY <2>21 DEF Pull
  <2>22. CASE ReportTick
    BY <2>22 DEF ReportTick
  <2>23. CASE Reported
    BY <2>23 DEF Reported
  <2>24. CASE Stop
    BY <2>24 DEF Stop
  <2>25. CASE FinalReported
    BY <2>25 DEF FinalReported
  <2>26. CASE Closed
    BY <2>26 DEF Closed
  <2>27. CASE UNCHANGED vars
    BY <2>27 DEF vars
  <2> QED BY <2>1, <2>2, <2>3, <2>4, <2>5, <2>6, <2>7, <2>8, <2>9, <2>10, <2>11, <2>12,
             <2>13, <2>14, <2>15, <2>16, <2>17, <2>18, <2>19, <2>20, <2>21, <2>22, <2>23,
             <2>24, <2>25, <2>26, <2>27
          DEF Next, Refresh, ApplyStep, Loop
<1> QED BY <1>1, <1>2, TypeInvariant, PTL DEF Spec

\* runNode never dereferences a nil configuration after retry.
THEOREM BootedSafely == Spec => []BootedHasConfig
BY BootInvariant, PTL DEF BootInv
-----------------------------------------------------------------------------
(* The worker implements NodeLifecycle.                                    *)

\* What the worker works on while an apply is under way, in the words of the
\* abstract worker.
LifeInv == TypeInv /\ DirtyInv /\ LeakInv /\ BootInv

LEMMA LifeInvariant == Spec => []LifeInv
BY TypeInvariant, DirtyInvariant, LeakInvariant, BootInvariant, PTL DEF LifeInv

\* Where nothing is on its way in or out, and the worker goes on.
LEMMA QuietPlaces ==
  ASSUME LifeInv, pc \notin {"replace", "start", "drain", "stopped"}
  PROVE  Lifecycle!Settled
BY DEF LifeInv, TypeInv, TypeOK, LocalsOK, Lifecycle!Settled

\* An identity that is not open is that of a new instance.
LEMMA FreshIsMade ==
  ASSUME LifeInv, NEW i \in Ids \ open, NEW cfg, NEW users
  PROVE  \A y \in {runtime, next, old} \ {None} : y.id # i
<1>1. open = IdsOf(runtime) \cup IdsOf(next) \cup IdsOf(old)
  BY DEF LifeInv, LeakInv, NoInstanceLeak
<1> QED BY <1>1, IdsOfSome

\* Every step of the worker is a step of the abstract one or none.
LEMMA LifeStep == LifeInv /\ [Next]_vars => [Lifecycle!Next]_(Lifecycle!vars)
<1> SUFFICES ASSUME LifeInv, [Next]_vars PROVE [Lifecycle!Next]_(Lifecycle!vars)
  OBVIOUS
<1> USE DEF panelVars, syncVars, applyVars, runtimeVars,
            Lifecycle!known, Lifecycle!instances, Lifecycle!vars
<1>t. /\ TypeOK /\ LocalsOK
      /\ panelCfg \in Configs /\ panelUsr \in UserLists
  BY DEF LifeInv, TypeInv, TypeOK
<1>1. ASSUME NEW c \in Configs, PanelSetsConfig(c) PROVE Lifecycle!PanelEdits
  BY <1>1, <1>t DEF PanelSetsConfig, Lifecycle!PanelEdits
<1>2. ASSUME NEW u \in UserLists, PanelSetsUsers(u) PROVE Lifecycle!PanelEdits
  BY <1>2, <1>t DEF PanelSetsUsers, Lifecycle!PanelEdits
<1>3. CASE ConfigFetched \/ UsersFetched
  <2>1. Lifecycle!Settled
    BY <1>3, QuietPlaces DEF ConfigFetched, UsersFetched
  <2>2. Lifecycle!Learn
    BY <1>3, <2>1 DEF ConfigFetched, UsersFetched, Lifecycle!Learn
  <2> QED BY <2>2 DEF Lifecycle!Next
<1>4. CASE Apply
  <2>1. pc = "apply" /\ Lifecycle!Settled /\ pc' # "stopped"
    BY <1>4, QuietPlaces DEF Apply, RefreshOK
  <2>2. currentCfg # None /\ currentUsr # None
    BY <2>1 DEF LifeInv, BootInv
  <2>3. Lifecycle!Admit
    BY <1>4, <2>1, <2>2 DEF Apply, Lifecycle!Admit
  <2> QED BY <2>3 DEF Lifecycle!Next
<1>5. CASE ReloadStarted
  <2>1. pc = "reload" /\ Lifecycle!Settled /\ pc' = "drain"
    BY <1>5, QuietPlaces DEF ReloadStarted
  <2>2. runtime # None /\ runtime.cfg = currentCfg /\ storeUsers = currentUsr
    BY <2>1 DEF LifeInv, DirtyInv, AppliedIsClean
  <2>3. PICK i \in Ids \ open : runtime' = [id |-> i, cfg |-> runtime.cfg, users |-> currentUsr]
    BY <1>5 DEF ReloadStarted
  <2>4. Lifecycle!Made(runtime', currentCfg, currentUsr)
    BY <2>2, <2>3, FreshIsMade DEF Lifecycle!Made
  <2>5. runtime.cfg \in Reloadable
    BY <2>1 DEF LifeInv, DirtyInv
  <2>6. Lifecycle!Handover
    BY <1>5, <2>1, <2>2, <2>4, <2>5 DEF ReloadStarted, Lifecycle!Handover
  <2> QED BY <2>6 DEF Lifecycle!Next
<1>6. CASE ReloadDrained
  <2>1. Lifecycle!Drain
    BY <1>6, <1>t DEF ReloadDrained, RefreshOK, LocalsOK, Lifecycle!Drain
  <2> QED BY <2>1 DEF Lifecycle!Next
<1>7. CASE Created
  <2>1. pc = "create" /\ Lifecycle!Settled /\ pc' = "replace"
    BY <1>7, QuietPlaces DEF Created
  <2>2. currentCfg # None /\ currentUsr # None /\ storeUsers = currentUsr
    BY <2>1 DEF LifeInv, TypeInv, DirtyInv
  <2>3. PICK i \in Ids \ open : next' = [id |-> i, cfg |-> currentCfg, users |-> currentUsr]
    BY <1>7 DEF Created
  <2>4. Lifecycle!Made(next', currentCfg, currentUsr)
    BY <2>3, FreshIsMade DEF Lifecycle!Made
  <2>5. Lifecycle!Prepare
    BY <1>7, <2>1, <2>2, <2>4 DEF Created, Lifecycle!Prepare
  <2> QED BY <2>5 DEF Lifecycle!Next
<1>8. CASE Replaced
  <2>1. Lifecycle!Vacate
    BY <1>8, <1>t DEF Replaced, LocalsOK, Lifecycle!Vacate
  <2> QED BY <2>1 DEF Lifecycle!Next
<1>9. CASE Started \/ StartFailed
  <2>1. next # None /\ runtime = None
    BY <1>9, <1>t DEF Started, StartFailed, LocalsOK, LifeInv, LeakInv
  <2>2. Lifecycle!Arrive
    BY <1>9, <2>1 DEF Started, StartFailed, RefreshOK, RefreshError, Lifecycle!Arrive
  <2> QED BY <2>2 DEF Lifecycle!Next
<1>10. CASE Closed
  <2>1. pc = "close" /\ Lifecycle!Settled /\ pc' = "stopped"
    BY <1>10, QuietPlaces DEF Closed
  <2>2. Lifecycle!End
    BY <1>10, <2>1 DEF Closed, Lifecycle!End
  <2> QED BY <2>2 DEF Lifecycle!Next
<1>11. CASE \/ Cancel \/ ConfigUnchanged \/ ConfigFailed \/ UsersUnchanged \/ UsersFailed
           \/ ReloadFailed \/ CreateFailed
  BY <1>11 DEF Cancel, ConfigUnchanged, ConfigFailed, UsersUnchanged, UsersFailed,
               ReloadFailed, CreateFailed, RefreshOK, RefreshError
<1>12. CASE \/ RetryAgain \/ RetryStop \/ Pull \/ ReportTick \/ Reported
            \/ Stop \/ FinalReported \/ UNCHANGED vars
  BY <1>12 DEF RetryAgain, RetryStop, Pull, ReportTick, Reported, Stop, FinalReported, vars
<1> QED BY <1>1, <1>2, <1>3, <1>4, <1>5, <1>6, <1>7, <1>8, <1>9, <1>10, <1>11, <1>12
        DEF Next, Refresh, ApplyStep, Loop, Lifecycle!Next

\* For any configurations, lists, identities and faults, and however often the
\* panel changes its mind: the node serves what its worker was last told, to
\* users that are admitted, without a gap that a rebuild does not need.
THEOREM LifecycleKept == Spec => ServiceKept
<1>1. Init => Lifecycle!Init
  BY DEF Init, Lifecycle!Init
<1> QED BY <1>1, LifeStep, LifeInvariant, PTL DEF Spec, ServiceKept, Lifecycle!Spec
=============================================================================
