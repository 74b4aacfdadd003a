---------------------------- MODULE UpdaterProofs ----------------------------
(***************************************************************************)
(* Proofs about Updater, for any number of updates and releases.           *)
(***************************************************************************)
EXTENDS Updater, TLAPS

\* The files an installation has.
LEMMA FileFacts ==
  /\ Launchers \subseteq File
  /\ "bridge" \in File
  /\ "openclaw" \in File <=> OpenClaw
  /\ File \subseteq Launchers \cup {"bridge", "openclaw"}
  /\ 1 \in Version
  BY UpdaterAssumption DEF File, Launchers, Version

\* The initial state satisfies the inductive invariant.
LEMMA InitInvariant == Init => IInv
<1> SUFFICES ASSUME Init PROVE IInv
  OBVIOUS
<1>1. LaunchersAgree /\ (~damaged => AgreeInv)
  BY UpdaterAssumption, FileFacts
  DEF Init, LaunchersAgree, Agree, AgreeInv, Preparing, Trying, Activating,
      Undoing
<1>2. damaged \in BOOLEAN
  BY DEF Init
<1>3. QED
  BY <1>1, <1>2, UpdaterAssumption, FileFacts
  DEF Init, IInv, TypeOK, OneUpdateAtATime, ActivatedIsInstalled, LaunchersAgree,
      Agree, AgreeInv, ForwardInv, BridgeInv, UndoInv, Kept, Moved,
      Runtime, Over, Preparing, Trying, Activating, Undoing, Critical

Safe == TypeOK /\ OneUpdateAtATime /\ ActivatedIsInstalled
Agreed == LaunchersAgree /\ (~damaged => AgreeInv)
Going == ForwardInv /\ BridgeInv

\* Every step of every update preserves it.
LEMMA StepInvariant == IInv /\ [Next]_vars => IInv'
<1> SUFFICES ASSUME IInv, [Next]_vars PROVE IInv'
  OBVIOUS
<1>a. Safe /\ Agreed /\ Going /\ UndoInv
  BY DEF IInv, Safe, Agreed, Going
<1> USE FileFacts, UpdaterAssumption, <1>a
    DEF Safe, TypeOK, OneUpdateAtATime, ActivatedIsInstalled,
        Launchers, Runtime, Over, Preparing, Trying, Activating,
        Undoing, Critical, Goto, Leave, Put
<1>1. ASSUME NEW u \in Updater, NEW v \in Version, Check(u, v) PROVE IInv'
  <2>1. Safe'
    BY <1>1 DEF Check
  <2>2. Agreed'
    BY <1>1 DEF Check, Agreed, LaunchersAgree, AgreeInv, Agree
  <2>3. Going'
    BY <1>1 DEF Check, Going, ForwardInv, BridgeInv, Kept, Moved
  <2>4. UndoInv'
    BY <1>1 DEF Check, UndoInv, ForwardInv, Kept, Moved
  <2>5. QED
    BY <2>1, <2>2, <2>3, <2>4 DEF IInv, Agreed, Going
<1>2. ASSUME NEW u \in Updater, TakeLock(u) PROVE IInv'
  <2>1. Safe'
    BY <1>2 DEF TakeLock
  <2>2. Agreed'
    BY <1>2 DEF TakeLock, Agreed, LaunchersAgree, AgreeInv, Agree
  <2>3. Going'
    BY <1>2 DEF TakeLock, Going, ForwardInv, BridgeInv, Kept, Moved
  <2>4. UndoInv'
    BY <1>2 DEF TakeLock, UndoInv, ForwardInv, Kept, Moved
  <2>5. QED
    BY <2>1, <2>2, <2>3, <2>4 DEF IInv, Agreed, Going
<1>2a. ASSUME NEW u \in Updater, WriteProcessId(u) PROVE IInv'
  <2>1. Safe'
    BY <1>2a DEF WriteProcessId
  <2>2. Agreed'
    BY <1>2a DEF WriteProcessId, Agreed, LaunchersAgree, AgreeInv, Agree
  <2>3. Going'
    BY <1>2a DEF WriteProcessId, Going, ForwardInv, BridgeInv, Kept, Moved
  <2>4. UndoInv'
    BY <1>2a DEF WriteProcessId, UndoInv, ForwardInv, Kept, Moved
  <2>5. QED
    BY <2>1, <2>2, <2>3, <2>4 DEF IInv, Agreed, Going
<1>2b. ASSUME NEW u \in Updater, FailProcessId(u) PROVE IInv'
  <2>1. Safe'
    BY <1>2b DEF FailProcessId
  <2>2. Agreed'
    BY <1>2b DEF FailProcessId, Agreed, LaunchersAgree, AgreeInv, Agree
  <2>3. Going'
    BY <1>2b DEF FailProcessId, Going, ForwardInv, BridgeInv, Kept, Moved
  <2>4. UndoInv'
    BY <1>2b DEF FailProcessId, UndoInv, ForwardInv, Kept, Moved
  <2>5. QED
    BY <2>1, <2>2, <2>3, <2>4 DEF IInv, Agreed, Going
<1>3. ASSUME NEW u \in Updater, RefuseLock(u) PROVE IInv'
  <2>1. Safe'
    BY <1>3 DEF RefuseLock
  <2>2. Agreed'
    BY <1>3 DEF RefuseLock, Agreed, LaunchersAgree, AgreeInv, Agree
  <2>3. Going'
    BY <1>3 DEF RefuseLock, Going, ForwardInv, BridgeInv, Kept, Moved
  <2>4. UndoInv'
    BY <1>3 DEF RefuseLock, UndoInv, ForwardInv, Kept, Moved
  <2>5. QED
    BY <2>1, <2>2, <2>3, <2>4 DEF IInv, Agreed, Going
<1>4. ASSUME NEW u \in Updater, MakeRuntime(u) PROVE IInv'
  <2>1. Safe'
    BY <1>4 DEF MakeRuntime
  <2>2. Agreed'
    BY <1>4 DEF MakeRuntime, Agreed, LaunchersAgree, AgreeInv, Agree
  <2>3. Going'
    BY <1>4 DEF MakeRuntime, Going, ForwardInv, BridgeInv, Kept, Moved
  <2>4. UndoInv'
    BY <1>4 DEF MakeRuntime, UndoInv, ForwardInv, Kept, Moved
  <2>5. QED
    BY <2>1, <2>2, <2>3, <2>4 DEF IInv, Agreed, Going
<1>5. ASSUME NEW u \in Updater, CreateVenv(u) PROVE IInv'
  <2>1. Safe'
    BY <1>5 DEF CreateVenv
  <2>2. Agreed'
    BY <1>5 DEF CreateVenv, Agreed, LaunchersAgree, AgreeInv, Agree
  <2>3. Going'
    BY <1>5 DEF CreateVenv, Going, ForwardInv, BridgeInv, Kept, Moved
  <2>4. UndoInv'
    BY <1>5 DEF CreateVenv, UndoInv, ForwardInv, Kept, Moved
  <2>5. QED
    BY <2>1, <2>2, <2>3, <2>4 DEF IInv, Agreed, Going
<1>6. ASSUME NEW u \in Updater, ResumeRuntime(u) PROVE IInv'
  <2>1. Safe'
    BY <1>6 DEF ResumeRuntime
  <2>2. Agreed'
    BY <1>6 DEF ResumeRuntime, Agreed, LaunchersAgree, AgreeInv, Agree
  <2>3. Going'
    BY <1>6 DEF ResumeRuntime, Going, ForwardInv, BridgeInv, Kept, Moved
  <2>4. UndoInv'
    BY <1>6 DEF ResumeRuntime, UndoInv, ForwardInv, Kept, Moved
  <2>5. QED
    BY <2>1, <2>2, <2>3, <2>4 DEF IInv, Agreed, Going
<1>7. ASSUME NEW u \in Updater, InstallPackage(u) PROVE IInv'
  <2>1. Safe'
    BY <1>7 DEF InstallPackage
  <2>2. Agreed'
    BY <1>7 DEF InstallPackage, Agreed, LaunchersAgree, AgreeInv, Agree
  <2>3. Going'
    BY <1>7 DEF InstallPackage, Going, ForwardInv, BridgeInv, Kept, Moved
  <2>4. UndoInv'
    BY <1>7 DEF InstallPackage, UndoInv, ForwardInv, Kept, Moved
  <2>5. QED
    BY <2>1, <2>2, <2>3, <2>4 DEF IInv, Agreed, Going
<1>8. ASSUME NEW u \in Updater, Backup(u) PROVE IInv'
  <2>1. Safe'
    BY <1>8 DEF Backup
  <2>2. Agreed'
    BY <1>8 DEF Backup, Agreed, LaunchersAgree, AgreeInv, Agree
  <2>3. Going'
    BY <1>8 DEF Backup, Going, ForwardInv, BridgeInv, Kept, Moved
  <2>4. UndoInv'
    BY <1>8 DEF Backup, UndoInv, ForwardInv, Kept, Moved
  <2>5. QED
    BY <2>1, <2>2, <2>3, <2>4 DEF IInv, Agreed, Going
<1>9. ASSUME NEW u \in Updater, Abort(u) PROVE IInv'
  <2>1. Safe'
    BY <1>9 DEF Abort
  <2>2. Agreed'
    BY <1>9 DEF Abort, Agreed, LaunchersAgree, AgreeInv, Agree
  <2>3. Going'
    BY <1>9 DEF Abort, Going, ForwardInv, BridgeInv, Kept, Moved
  <2>4. UndoInv'
    BY <1>9 DEF Abort, UndoInv, ForwardInv, Kept, Moved
  <2>5. QED
    BY <2>1, <2>2, <2>3, <2>4 DEF IInv, Agreed, Going
<1>10. ASSUME NEW u \in Updater, Setup(u) PROVE IInv'
  <2>1. Safe'
    BY <1>10 DEF Setup
  <2>2. Agreed'
    BY <1>10 DEF Setup, Agreed, LaunchersAgree, AgreeInv, Agree
  <2>3. Going'
    BY <1>10 DEF Setup, Going, ForwardInv, BridgeInv, Kept, Moved
  <2>4. UndoInv'
    BY <1>10 DEF Setup, UndoInv, ForwardInv, Kept, Moved
  <2>5. QED
    BY <2>1, <2>2, <2>3, <2>4 DEF IInv, Agreed, Going
<1>11. ASSUME NEW u \in Updater, Smoke(u) PROVE IInv'
  <2>1. Safe'
    BY <1>11 DEF Smoke
  <2>2. Agreed'
    BY <1>11 DEF Smoke, Agreed, LaunchersAgree, AgreeInv, Agree
  <2>3. Going'
    BY <1>11 DEF Smoke, Going, ForwardInv, BridgeInv, Kept, Moved
  <2>4. UndoInv'
    BY <1>11 DEF Smoke, UndoInv, ForwardInv, Kept, Moved
  <2>5. QED
    BY <2>1, <2>2, <2>3, <2>4 DEF IInv, Agreed, Going
<1>12. ASSUME NEW u \in Updater, SwitchDashboard(u) PROVE IInv'
  <2>1. Safe'
    BY <1>12 DEF SwitchDashboard, Switch
  <2>2. Agreed'
    BY <1>12 DEF SwitchDashboard, Switch, Agreed, LaunchersAgree, AgreeInv, Agree
  <2>3. Going'
    BY <1>12 DEF SwitchDashboard, Switch, Going, ForwardInv, BridgeInv, Kept, Moved
  <2>4. UndoInv'
    BY <1>12 DEF SwitchDashboard, Switch, UndoInv, ForwardInv, Kept, Moved
  <2>5. QED
    BY <2>1, <2>2, <2>3, <2>4 DEF IInv, Agreed, Going
<1>13. ASSUME NEW u \in Updater, SwitchLauncher(u) PROVE IInv'
  <2>1. Safe'
    BY <1>13 DEF SwitchLauncher, Switch
  <2>2. Agreed'
    BY <1>13 DEF SwitchLauncher, Switch, Agreed, LaunchersAgree, AgreeInv, Agree
  <2>3. Going'
    BY <1>13 DEF SwitchLauncher, Switch, Going, ForwardInv, BridgeInv, Kept, Moved
  <2>4. UndoInv'
    BY <1>13 DEF SwitchLauncher, Switch, UndoInv, ForwardInv, Kept, Moved
  <2>5. QED
    BY <2>1, <2>2, <2>3, <2>4 DEF IInv, Agreed, Going
<1>14. ASSUME NEW u \in Updater, SwitchMetadata(u) PROVE IInv'
  <2>1. Safe'
    BY <1>14 DEF SwitchMetadata, Switch
  <2>2. Agreed'
    BY <1>14 DEF SwitchMetadata, Switch, Agreed, LaunchersAgree, AgreeInv, Agree
  <2>3. Going'
    BY <1>14 DEF SwitchMetadata, Switch, Going, ForwardInv, BridgeInv, Kept, Moved
  <2>4. UndoInv'
    BY <1>14 DEF SwitchMetadata, Switch, UndoInv, ForwardInv, Kept, Moved
  <2>5. QED
    BY <2>1, <2>2, <2>3, <2>4 DEF IInv, Agreed, Going
<1>15. ASSUME NEW u \in Updater, SwitchOpenClaw(u) PROVE IInv'
  <2>1. Safe'
    BY <1>15 DEF SwitchOpenClaw
  <2>2. Agreed'
    BY <1>15 DEF SwitchOpenClaw, Agreed, LaunchersAgree, AgreeInv, Agree
  <2>3. Going'
    BY <1>15 DEF SwitchOpenClaw, Going, ForwardInv, BridgeInv, Kept, Moved
  <2>4. UndoInv'
    BY <1>15 DEF SwitchOpenClaw, UndoInv, ForwardInv, Kept, Moved
  <2>5. QED
    BY <2>1, <2>2, <2>3, <2>4 DEF IInv, Agreed, Going
<1>16. ASSUME NEW u \in Updater, PostCheck(u) PROVE IInv'
  <2>1. Safe'
    BY <1>16 DEF PostCheck
  <2>2. Agreed'
    BY <1>16 DEF PostCheck, Agreed, LaunchersAgree, AgreeInv, Agree
  <2>3. Going'
    BY <1>16 DEF PostCheck, Going, ForwardInv, BridgeInv, Kept, Moved
  <2>4. UndoInv'
    BY <1>16 DEF PostCheck, UndoInv, ForwardInv, Kept, Moved
  <2>5. QED
    BY <2>1, <2>2, <2>3, <2>4 DEF IInv, Agreed, Going
<1>17. ASSUME NEW u \in Updater, Finish(u) PROVE IInv'
  <2>1. Safe'
    BY <1>17 DEF Finish
  <2>2. Agreed'
    BY <1>17 DEF Finish, Agreed, LaunchersAgree, AgreeInv, Agree, Going, ForwardInv, Moved
  <2>3. Going'
    BY <1>17 DEF Finish, Going, ForwardInv, BridgeInv, Kept, Moved
  <2>4. UndoInv'
    BY <1>17 DEF Finish, UndoInv, ForwardInv, Kept, Moved
  <2>5. QED
    BY <2>1, <2>2, <2>3, <2>4 DEF IInv, Agreed, Going
<1>18. ASSUME NEW u \in Updater, FinishUnrecorded(u) PROVE IInv'
  <2>1. Safe'
    BY <1>18 DEF FinishUnrecorded
  <2>2. Agreed'
    <3>1. \A f \in Launchers : files'[f] = target[u]
      BY <1>18 DEF FinishUnrecorded, Going, ForwardInv, Moved
    <3>2. Agree(files')
      BY <3>1 DEF Agree
    <3>3. AgreeInv => AgreeInv'
      BY <1>18 DEF FinishUnrecorded, AgreeInv, Agree
    <3>4. QED
      BY <1>18, <3>2, <3>3 DEF FinishUnrecorded, Agreed, LaunchersAgree, Agree
  <2>3. Going'
    BY <1>18 DEF FinishUnrecorded, Going, ForwardInv, BridgeInv, Kept, Moved
  <2>4. UndoInv'
    BY <1>18 DEF FinishUnrecorded, UndoInv, ForwardInv, Kept, Moved
  <2>5. QED
    BY <2>1, <2>2, <2>3, <2>4 DEF IInv, Agreed, Going
<1>19. ASSUME NEW u \in Updater, FailSetup(u) PROVE IInv'
  <2>1. Safe'
    BY <1>19 DEF FailSetup
  <2>2. Agreed'
    BY <1>19 DEF FailSetup, Agreed, LaunchersAgree, AgreeInv, Agree
  <2>3. Going'
    BY <1>19 DEF FailSetup, Going, ForwardInv, BridgeInv, Kept, Moved
  <2>4. UndoInv'
    <3>1. pc' = [pc EXCEPT ![u] = "undo_setup"] /\ saved' = saved
      BY <1>19 DEF FailSetup
    <3>2. \A f \in File \ {"bridge"} : files[f] = saved[u][f]
      <4>1. CASE pc[u] = "saved"
        BY <4>1 DEF Going, ForwardInv, Kept
      <4>2. CASE pc[u] = "set_up"
        BY <4>2 DEF Going, ForwardInv, Kept
      <4>3. QED
        BY <1>19, <4>1, <4>2 DEF FailSetup
    <3>3. \A f \in File \ {"bridge"} : files'[f] = saved'[u][f]
      BY <1>19, <3>1, <3>2 DEF FailSetup
    <3>4. \A w \in Updater \ {u} : pc'[w] \notin Undoing
      BY <1>19, <3>1 DEF FailSetup
    <3>5. QED
      BY <3>1, <3>3, <3>4 DEF UndoInv, Kept
  <2>5. QED
    BY <2>1, <2>2, <2>3, <2>4 DEF IInv, Agreed, Going
<1>20. ASSUME NEW u \in Updater, FailActivation(u) PROVE IInv'
  <2>1. Safe'
    BY <1>20 DEF FailActivation
  <2>2. Agreed'
    BY <1>20 DEF FailActivation, Agreed, LaunchersAgree, AgreeInv, Agree
  <2>3. Going'
    BY <1>20 DEF FailActivation, Going, ForwardInv, BridgeInv, Kept, Moved
  <2>4. UndoInv'
    BY <1>20 DEF FailActivation, UndoInv, ForwardInv, Kept, Moved
  <2>5. QED
    BY <2>1, <2>2, <2>3, <2>4 DEF IInv, Agreed, Going
<1>21. ASSUME NEW u \in Updater, RestoreLocal(u) PROVE IInv'
  <2>1. Safe'
    BY <1>21 DEF RestoreLocal, Restore
  <2>2. Agreed'
    BY <1>21 DEF RestoreLocal, Restore, Agreed, LaunchersAgree, AgreeInv, Agree
  <2>3. Going'
    BY <1>21 DEF RestoreLocal, Restore, Going, ForwardInv, BridgeInv, Kept, Moved
  <2>4. UndoInv'
    BY <1>21 DEF RestoreLocal, Restore, UndoInv, ForwardInv, Kept, Moved
  <2>5. QED
    BY <2>1, <2>2, <2>3, <2>4 DEF IInv, Agreed, Going
<1>22. ASSUME NEW u \in Updater, RestoreLauncher(u) PROVE IInv'
  <2>1. Safe'
    BY <1>22 DEF RestoreLauncher, Restore
  <2>2. Agreed'
    BY <1>22 DEF RestoreLauncher, Restore, Agreed, LaunchersAgree, AgreeInv, Agree
  <2>3. Going'
    BY <1>22 DEF RestoreLauncher, Restore, Going, ForwardInv, BridgeInv, Kept, Moved
  <2>4. UndoInv'
    BY <1>22 DEF RestoreLauncher, Restore, UndoInv, ForwardInv, Kept, Moved
  <2>5. QED
    BY <2>1, <2>2, <2>3, <2>4 DEF IInv, Agreed, Going
<1>23. ASSUME NEW u \in Updater, RestoreDashboard(u) PROVE IInv'
  <2>1. Safe'
    BY <1>23 DEF RestoreDashboard, Restore
  <2>2. Agreed'
    BY <1>23 DEF RestoreDashboard, Restore, Agreed, LaunchersAgree, AgreeInv, Agree
  <2>3. Going'
    BY <1>23 DEF RestoreDashboard, Restore, Going, ForwardInv, BridgeInv, Kept, Moved
  <2>4. UndoInv'
    BY <1>23 DEF RestoreDashboard, Restore, UndoInv, ForwardInv, Kept, Moved
  <2>5. QED
    BY <2>1, <2>2, <2>3, <2>4 DEF IInv, Agreed, Going
<1>24. ASSUME NEW u \in Updater, RestoreMetadata(u) PROVE IInv'
  <2>1. Safe'
    BY <1>24 DEF RestoreMetadata, Restore
  <2>2. Agreed'
    BY <1>24 DEF RestoreMetadata, Restore, Agreed, LaunchersAgree, AgreeInv, Agree
  <2>3. Going'
    BY <1>24 DEF RestoreMetadata, Restore, Going, ForwardInv, BridgeInv, Kept, Moved
  <2>4. UndoInv'
    BY <1>24 DEF RestoreMetadata, Restore, UndoInv, ForwardInv, Kept, Moved
  <2>5. QED
    BY <2>1, <2>2, <2>3, <2>4 DEF IInv, Agreed, Going
<1>25. ASSUME NEW u \in Updater, FailRestore(u) PROVE IInv'
  <2>1. Safe'
    BY <1>25 DEF FailRestore
  <2>2. Agreed'
    BY <1>25 DEF FailRestore, Agreed, LaunchersAgree, AgreeInv, Agree
  <2>3. Going'
    BY <1>25 DEF FailRestore, Going, ForwardInv, BridgeInv, Kept, Moved
  <2>4. UndoInv'
    BY <1>25 DEF FailRestore, UndoInv, ForwardInv, Kept, Moved
  <2>5. QED
    BY <2>1, <2>2, <2>3, <2>4 DEF IInv, Agreed, Going
<1>26. ASSUME NEW u \in Updater, RestoreOpenClaw(u) PROVE IInv'
  <2>1. Safe'
    BY <1>26 DEF RestoreOpenClaw
  <2>2. Agreed'
    BY <1>26 DEF RestoreOpenClaw, Agreed, LaunchersAgree, AgreeInv, Agree, UndoInv, Kept
  <2>3. Going'
    BY <1>26 DEF RestoreOpenClaw, Going, ForwardInv, BridgeInv, Kept, Moved
  <2>4. UndoInv'
    BY <1>26 DEF RestoreOpenClaw, UndoInv, ForwardInv, Kept, Moved
  <2>5. QED
    BY <2>1, <2>2, <2>3, <2>4 DEF IInv, Agreed, Going
<1>27. ASSUME NEW u \in Updater, Crash(u) PROVE IInv'
  <2>1. Safe'
    BY <1>27 DEF Crash
  <2>2. Agreed'
    BY <1>27 DEF Crash, Agreed, LaunchersAgree, AgreeInv, Agree
  <2>3. Going'
    BY <1>27 DEF Crash, Going, ForwardInv, BridgeInv, Kept, Moved
  <2>4. UndoInv'
    BY <1>27 DEF Crash, UndoInv, ForwardInv, Kept, Moved
  <2>5. QED
    BY <2>1, <2>2, <2>3, <2>4 DEF IInv, Agreed, Going
<1>28. CASE UNCHANGED vars
  BY <1>28 DEF vars, IInv, Agreed, Going, LaunchersAgree, AgreeInv, Agree,
     ForwardInv, BridgeInv, UndoInv, Kept, Moved
<1>29. QED
  BY <1>1, <1>2, <1>2a, <1>2b, <1>3, <1>4, <1>5, <1>6, <1>7, <1>8, <1>9, <1>10, <1>11,
     <1>12, <1>13, <1>14, <1>15, <1>16, <1>17, <1>18, <1>19, <1>20, <1>21,
     <1>22, <1>23, <1>24, <1>25, <1>26, <1>27, <1>28
  DEF Next, Step

\* The inductive invariant holds throughout every behaviour.
THEOREM UpdaterInvariance == Spec => []IInv
  BY InitInvariant, StepInvariant, PTL DEF Spec

\* The types of the variables.
THEOREM UpdaterTypes == Spec => []TypeOK
  BY UpdaterInvariance, PTL DEF IInv

\* The lock file admits one update: between its creation and its removal no
\* other update installs, switches or rolls back anything.
THEOREM UpdatesExcludeEachOther == Spec => []OneUpdateAtATime
  BY UpdaterInvariance, PTL DEF IInv

\* What an update sets up, tests or activates is a complete runtime, whatever
\* failed or crashed before in the same directory.
THEOREM OnlyCompleteRuntimesRun == Spec => []ActivatedIsInstalled
  BY UpdaterInvariance, PTL DEF IInv

\* Unless a rollback failed, both launchers and the metadata belong to one
\* release whenever the lock file is absent.
THEOREM LaunchersStayTogether == Spec => []LaunchersAgree
<1>1. IInv => LaunchersAgree
  BY DEF IInv
<1>2. QED
  BY <1>1, UpdaterInvariance, PTL

\* What may go wrong is decided once.
LEMMA FaultsStay == [Next]_vars => faults' = faults
  BY DEF vars, Next, Step, Check, TakeLock, WriteProcessId,
     FailProcessId, RefuseLock, MakeRuntime, CreateVenv,
     ResumeRuntime, InstallPackage, Backup, Abort, Setup, Smoke, Switch,
     SwitchDashboard, SwitchLauncher, SwitchMetadata, SwitchOpenClaw, PostCheck,
     Finish, FinishUnrecorded, FailSetup, FailActivation, Restore, RestoreLocal,
     RestoreLauncher, RestoreDashboard, RestoreMetadata, FailRestore,
     RestoreOpenClaw, Crash

\* Without faults that defeat the rollback an update is all or nothing.
THEOREM UpdateKeepsPromise ==
  Spec => KeepsPromise
<1>1. Init => Promise!Init
  BY FileFacts, UpdaterAssumption, ZenonT(60)
  DEF Init, Promise!Init, Installed, Verdict, PromisedFiles, PromisedVerdict
<1>2. IInv /\ [Next]_vars => [Promise!Next]_<<PromisedFiles, PromisedVerdict>>
  <2> SUFFICES ASSUME IInv, [Next]_vars
               PROVE  Promise!Next \/ UNCHANGED <<PromisedFiles, PromisedVerdict>>
    BY DEF IInv
  <2>a. faults' = faults
    BY FaultsStay
  <2>b. CASE faults # {}
    BY <2>a, <2>b DEF PromisedFiles, PromisedVerdict
  <2> SUFFICES ASSUME faults = {}, faults' = {}
               PROVE  Promise!Next \/ UNCHANGED <<PromisedFiles, PromisedVerdict>>
    BY <2>a, <2>b
  <2> USE FileFacts, UpdaterAssumption
      DEF IInv, TypeOK, OneUpdateAtATime, Goto, Leave, Put, Open, Over,
          Preparing, Trying, Activating, Undoing, Critical, PromisedFiles,
          PromisedVerdict
  <2>1. ASSUME NEW u \in Updater, NEW v \in Version, Check(u, v)
        PROVE  Promise!Ask(u) \/ UNCHANGED <<PromisedFiles, PromisedVerdict>>
    <3>1. PromisedFiles' = PromisedFiles
      BY <2>1 DEF Check, Installed
    <3>2. CASE pc[u] \in {"idle", "refused"}
      BY <2>1, <3>1, <3>2 DEF Check, Verdict
    <3>3. CASE pc[u] \in {"failed", "updated"}
      <4>1. Verdict' = [Verdict EXCEPT ![u] = "none"]
        BY <2>1, <3>3 DEF Check, Verdict
      <4>2. Verdict[u] \in {"failed", "updated"}
        BY <2>1, <3>3 DEF Verdict
      <4>3. QED
        BY <3>1, <4>1, <4>2 DEF Promise!Ask
    <3>4. QED
      BY <2>1, <3>2, <3>3 DEF Check
  <2>2. ASSUME NEW u \in Updater, TakeLock(u)
        PROVE  Promise!Open(u)
    BY <2>2 DEF TakeLock, Installed, Verdict, Promise!Open
  <2>3. ASSUME NEW u \in Updater,
               WriteProcessId(u) \/ RefuseLock(u) \/ MakeRuntime(u) \/ CreateVenv(u)
                 \/ ResumeRuntime(u) \/ InstallPackage(u)
        PROVE  UNCHANGED <<PromisedFiles, PromisedVerdict>>
    BY <2>3 DEF WriteProcessId, RefuseLock, MakeRuntime, CreateVenv, ResumeRuntime,
       InstallPackage, Installed, Verdict
  <2>4. ASSUME NEW u \in Updater, Backup(u)
        PROVE  UNCHANGED <<PromisedFiles, PromisedVerdict>>
    BY <2>4 DEF Backup, Installed, Verdict
  <2>5. ASSUME NEW u \in Updater, Abort(u)
        PROVE  Promise!GiveUp(u)
    <3>1. Verdict[u] = "open" /\ Installed' = Installed
      BY <2>5 DEF Abort, Installed, Verdict
    <3>2. Verdict' = [Verdict EXCEPT ![u] = "failed"]
      BY <2>5 DEF Abort, Verdict
    <3>3. QED
      BY <3>1, <3>2 DEF Promise!GiveUp
  <2>6. ASSUME NEW u \in Updater,
               Setup(u) \/ Smoke(u) \/ SwitchDashboard(u) \/ SwitchLauncher(u)
                 \/ SwitchMetadata(u) \/ SwitchOpenClaw(u)
        PROVE  UNCHANGED <<PromisedFiles, PromisedVerdict>>
    BY <2>6 DEF Setup, Smoke, SwitchDashboard, SwitchLauncher, SwitchMetadata,
       SwitchOpenClaw, Switch, Installed, Verdict
  <2>7. ASSUME NEW u \in Updater, PostCheck(u)
        PROVE  Promise!Commit(u, target[u])
    <3>1. \A f \in File : files[f] = target[u]
      BY <2>7 DEF PostCheck, IInv, ForwardInv, BridgeInv, Moved, Launchers
    <3>2. Installed' = [f \in File |-> target[u]]
      BY <2>7, <3>1 DEF PostCheck, Installed
    <3>3. QED
      BY <2>7, <3>2 DEF PostCheck, Verdict, Promise!Commit
  <2>8. ASSUME NEW u \in Updater, Finish(u)
        PROVE  Promise!Succeed(u)
    <3>1. Verdict[u] = "committed" /\ Installed' = Installed
      BY <2>8 DEF Finish, Installed, Verdict
    <3>2. Verdict' = [Verdict EXCEPT ![u] = "updated"]
      BY <2>8 DEF Finish, Verdict
    <3>3. QED
      BY <3>1, <3>2 DEF Promise!Succeed
  <2>9. ASSUME NEW u \in Updater,
               FailSetup(u) \/ FailActivation(u) \/ RestoreLocal(u)
                 \/ RestoreLauncher(u) \/ RestoreDashboard(u) \/ RestoreMetadata(u)
        PROVE  UNCHANGED <<PromisedFiles, PromisedVerdict>>
    BY <2>9 DEF FailSetup, FailActivation, RestoreLocal, RestoreLauncher,
       RestoreDashboard, RestoreMetadata, Restore, Installed, Verdict
  <2>10. ASSUME NEW u \in Updater, RestoreOpenClaw(u)
         PROVE  Promise!GiveUp(u)
    <3>1. \A f \in File : files'[f] = saved[u][f]
      BY <2>10 DEF RestoreOpenClaw, UndoInv, Kept, Launchers
    <3>2. Installed' = Installed
      BY <2>10, <3>1 DEF RestoreOpenClaw, Installed
    <3>3. Verdict[u] = "open"
      BY <2>10 DEF RestoreOpenClaw, Verdict
    <3>4. Verdict' = [Verdict EXCEPT ![u] = "failed"]
      BY <2>10 DEF RestoreOpenClaw, Verdict
    <3>5. QED
      BY <3>2, <3>3, <3>4 DEF Promise!GiveUp
  <2>11. ASSUME UNCHANGED vars
         PROVE  UNCHANGED <<PromisedFiles, PromisedVerdict>>
    BY <2>11 DEF vars, Installed, Verdict
  <2>12. QED
    BY <2>1, <2>2, <2>3, <2>4, <2>5, <2>6, <2>7, <2>8, <2>9, <2>10, <2>11
    DEF Next, Step, FailProcessId, FinishUnrecorded, FailRestore, Crash, Promise!Next
<1>3. QED
  BY <1>1, <1>2, UpdaterInvariance, PTL DEF Spec, KeepsPromise, Promise!Spec
=============================================================================
