------------------------------- MODULE Updater -------------------------------
(***************************************************************************)
(* update_installation: the managed update that installs a release beside  *)
(* the active one, sets it up, switches the files that decide what runs,   *)
(* and puts them back when a step fails.  Several updates may be started   *)
(* (the dashboard's worker, the command line); a lock file lets one in.    *)
(*                                                                         *)
(* A release is a number, newer is larger.  A file is represented by the   *)
(* release it belongs to.  Dotenv, configuration and key are saved and     *)
(* restored with the bridge, but no step of the update rewrites them.      *)
(***************************************************************************)
EXTENDS Naturals

CONSTANTS
  Updater,    \* update processes
  NoUpdater,  \* the lock file does not exist
  Newest,     \* the newest published release; release 1 is active at first
  OpenClaw,   \* managed.client = "openclaw"
  Faults      \* which faults of FaultKind may happen

FaultKind == {
  "crash",     \* the update process dies without unwinding
  "lock",      \* the lock file cannot be created, written or removed
  "restore",   \* a file cannot be put back
  "manifest",  \* the final manifest cannot be written
  "openclaw",  \* the OpenClaw definition cannot be put back (ignored)
  "bridge"}    \* setup cannot rebuild the bridge (pending, exit status 0)

ASSUME UpdaterAssumption ==
  /\ NoUpdater \notin Updater
  /\ Newest \in Nat \ {0}
  /\ OpenClaw \in BOOLEAN
  /\ Faults \subseteq FaultKind

Version == 1..Newest
Launchers == {"dashboard_launcher", "launcher", "installation"}
File == {"bridge"} \cup Launchers \cup IF OpenClaw THEN {"openclaw"} ELSE {}
Runtime == {"absent", "bare", "unusable", "installed"}

VARIABLES
  files,    \* the release each file belongs to
  runtime,  \* runtime/<version>: no directory, no Python, no package, complete
  lock,     \* runtime/.update.lock: who created it
  pc,       \* where each update is, or how it ended
  target,   \* the release each update installs
  saved,    \* its backup directory and the OpenClaw definition it read
  damaged,  \* whether a rollback ever failed
  faults    \* the faults that happen in this run of the system

vars == <<files, runtime, lock, pc, target, saved, damaged, faults>>

Over == {"idle", "refused", "failed", "updated", "crashed"}
Preparing == {"locking", "locked", "making", "installing", "installed"}
Trying == {"saved", "set_up"}
Activating == {"smoked", "dashboard_switched", "launcher_switched",
               "activated", "switched"}
Undoing == {"undo_setup", "undo_activation", "undo_launcher",
            "undo_dashboard", "undo_installation", "undo_openclaw"}
Critical == Preparing \cup Trying \cup Activating \cup Undoing \cup {"verified"}

Init ==
  /\ files = [f \in File |-> 1]
  /\ runtime = [v \in Version |-> IF v = 1 THEN "installed" ELSE "absent"]
  /\ lock = NoUpdater
  /\ pc = [u \in Updater |-> "idle"]
  /\ target = [u \in Updater |-> 1]
  /\ saved = [u \in Updater |-> [f \in File |-> 1]]
  /\ damaged = FALSE
  /\ faults \in SUBSET Faults

Goto(u, label) == pc' = [pc EXCEPT ![u] = label]

\* Mutant: the lock file stays behind when the update fails.
LeaveLocked(u, outcome) ==
  /\ Goto(u, outcome)
  /\ lock' = IF outcome = "failed" THEN lock ELSE NoUpdater

\* The end of the with statement, normal or by an exception.  When the file
\* cannot be removed, __exit__ raises that error and the file stays.
Leave(u, outcome) ==
  \/ Goto(u, outcome) /\ lock' = NoUpdater
  \/ "lock" \in faults /\ Goto(u, "failed") /\ UNCHANGED lock

(***************************************************************************)
(* Before anything is switched                                             *)
(***************************************************************************)

\* The active version is read, and compared, before the lock is taken.  A dead
\* process does not come back: the next attempt is another updater's.
Check(u, v) ==
  /\ pc[u] \in Over \ {"crashed"}
  /\ v > files["installation"]
  /\ Goto(u, "checked")
  /\ target' = [target EXCEPT ![u] = v]
  /\ UNCHANGED <<files, runtime, lock, saved, damaged, faults>>

\* Mutant: the lock file is opened without O_EXCL.
TakeLockShared(u) ==
  /\ pc[u] = "checked"
  /\ Goto(u, "locking")
  /\ lock' = u
  /\ UNCHANGED <<files, runtime, target, saved, damaged, faults>>

\* __enter__ creates the file, and then writes the process id into it.
TakeLock(u) ==
  /\ pc[u] = "checked"
  /\ lock = NoUpdater
  /\ Goto(u, "locking")
  /\ lock' = u
  /\ UNCHANGED <<files, runtime, target, saved, damaged, faults>>

WriteProcessId(u) ==
  /\ pc[u] = "locking"
  /\ Goto(u, "locked")
  /\ UNCHANGED <<files, runtime, lock, target, saved, damaged, faults>>

\* An exception in __enter__ does not run __exit__: the file stays.
FailProcessId(u) ==
  /\ "lock" \in faults
  /\ pc[u] = "locking"
  /\ Goto(u, "failed")
  /\ UNCHANGED <<files, runtime, lock, target, saved, damaged, faults>>

RefuseLock(u) ==
  /\ pc[u] = "checked"
  /\ lock # NoUpdater \/ "lock" \in faults
  /\ Goto(u, "refused")
  /\ UNCHANGED <<files, runtime, lock, target, saved, damaged, faults>>

MakeRuntime(u) ==
  /\ pc[u] = "locked"
  /\ runtime[target[u]] = "absent"
  /\ runtime' = [runtime EXCEPT ![target[u]] = "bare"]
  /\ Goto(u, "making")
  /\ UNCHANGED <<files, lock, target, saved, damaged, faults>>

CreateVenv(u) ==
  /\ pc[u] = "making"
  /\ runtime' = [runtime EXCEPT ![target[u]] = "unusable"]
  /\ Goto(u, "installing")
  /\ UNCHANGED <<files, lock, target, saved, damaged, faults>>

\* Mutant: a runtime directory that exists is taken to be complete.
ResumeAsComplete(u) ==
  /\ pc[u] = "locked"
  /\ runtime[target[u]] # "absent"
  /\ Goto(u, "installed")
  /\ UNCHANGED <<files, runtime, lock, target, saved, damaged, faults>>

\* pip install --force-reinstall over a directory that has a Python.  Without
\* one ("bare") the runtime is incomplete and Abort is all that is left.
ResumeRuntime(u) ==
  /\ pc[u] = "locked"
  /\ runtime[target[u]] \in {"unusable", "installed"}
  /\ runtime' = [runtime EXCEPT ![target[u]] = "unusable"]
  /\ Goto(u, "installing")
  /\ UNCHANGED <<files, lock, target, saved, damaged, faults>>

InstallPackage(u) ==
  /\ pc[u] = "installing"
  /\ runtime' = [runtime EXCEPT ![target[u]] = "installed"]
  /\ Goto(u, "installed")
  /\ UNCHANGED <<files, lock, target, saved, damaged, faults>>

\* Mutant: the backup leaves the installation metadata out, so a rollback
\* finds an older copy.
BackupWithoutMetadata(u) ==
  /\ pc[u] = "installed"
  /\ saved' = [saved EXCEPT ![u] = [files EXCEPT !["installation"] = 1]]
  /\ Goto(u, "saved")
  /\ UNCHANGED <<files, runtime, lock, target, damaged, faults>>

Backup(u) ==
  /\ pc[u] = "installed"
  /\ saved' = [saved EXCEPT ![u] = files]
  /\ Goto(u, "saved")
  /\ UNCHANGED <<files, runtime, lock, target, damaged, faults>>

\* Download, provenance, pip, version or backup fail: nothing is undone.
Abort(u) ==
  /\ pc[u] \in Preparing \ {"locking"}
  /\ Leave(u, "failed")
  /\ UNCHANGED <<files, runtime, target, saved, damaged, faults>>

(***************************************************************************)
(* Set-up, activation and the checks                                       *)
(***************************************************************************)

Put(file, version) == files' = [files EXCEPT ![file] = version]

\* helix-mcp-setup rebuilds the bridge; when it cannot it says
\* "needs_attention" and exits with 0.
Setup(u) ==
  /\ pc[u] = "saved"
  /\ \/ Put("bridge", target[u])
     \/ "bridge" \in faults /\ UNCHANGED files
  /\ Goto(u, "set_up")
  /\ UNCHANGED <<runtime, lock, target, saved, damaged, faults>>

Smoke(u) ==
  /\ pc[u] = "set_up"
  /\ Goto(u, "smoked")
  /\ UNCHANGED <<files, runtime, lock, target, saved, damaged, faults>>

\* activate_managed_installation: three files, one after the other.
Switch(u, from, file, to) ==
  /\ pc[u] = from
  /\ Put(file, target[u])
  /\ Goto(u, to)
  /\ UNCHANGED <<runtime, lock, target, saved, damaged, faults>>

SwitchDashboard(u) == Switch(u, "smoked", "dashboard_launcher", "dashboard_switched")
SwitchLauncher(u)  == Switch(u, "dashboard_switched", "launcher", "launcher_switched")
SwitchMetadata(u)  == Switch(u, "launcher_switched", "installation", "activated")

\* The OpenClaw definition, its reload and its probe.
SwitchOpenClaw(u) ==
  /\ pc[u] = "activated"
  /\ IF OpenClaw THEN Put("openclaw", target[u]) ELSE UNCHANGED files
  /\ Goto(u, "switched")
  /\ UNCHANGED <<runtime, lock, target, saved, damaged, faults>>

\* The dashboard of the new release answered with its version.
PostCheck(u) ==
  /\ pc[u] = "switched"
  /\ Goto(u, "verified")
  /\ UNCHANGED <<files, runtime, lock, target, saved, damaged, faults>>

Finish(u) ==
  /\ pc[u] = "verified"
  /\ Leave(u, "updated")
  /\ UNCHANGED <<files, runtime, target, saved, damaged, faults>>

\* The manifest is written after the handler that rolls back.
FinishUnrecorded(u) ==
  /\ "manifest" \in faults
  /\ pc[u] = "verified"
  /\ Leave(u, "failed")
  /\ UNCHANGED <<files, runtime, target, saved, damaged, faults>>

(***************************************************************************)
(* Failure of a step, and the rollback                                     *)
(***************************************************************************)

\* Set-up fails, with the bridge rebuilt or not, or the smoke test fails:
\* activation_started is False.
FailSetup(u) ==
  /\ pc[u] \in Trying
  /\ \/ UNCHANGED files
     \/ pc[u] = "saved" /\ Put("bridge", target[u])
  /\ Goto(u, "undo_setup")
  /\ UNCHANGED <<runtime, lock, target, saved, damaged, faults>>

\* Mutant: activation_started is only set once the activation is complete.
FailActivationUnrecorded(u) ==
  /\ pc[u] \in Activating
  /\ Goto(u, IF pc[u] \in {"activated", "switched"} THEN "undo_activation"
             ELSE "undo_setup")
  /\ UNCHANGED <<files, runtime, lock, target, saved, damaged, faults>>

\* A switch, the reload, the probe or the check of the new dashboard fails.
\* activate_managed_installation then rewrites its three files itself, or
\* fails at that too; the handler of update_installation repeats the work.
FailActivation(u) ==
  /\ pc[u] \in Activating
  /\ \/ UNCHANGED files
     \/ /\ pc[u] \in {"smoked", "dashboard_switched", "launcher_switched"}
        /\ files' = [f \in File |->
             IF f \in Launchers THEN saved[u][f] ELSE files[f]]
     \/ pc[u] = "activated" /\ OpenClaw /\ Put("openclaw", target[u])
  /\ Goto(u, "undo_activation")
  /\ UNCHANGED <<runtime, lock, target, saved, damaged, faults>>

Restore(u, from, file, to) ==
  /\ pc[u] = from
  /\ Put(file, saved[u][file])
  /\ Goto(u, to)
  /\ UNCHANGED <<runtime, lock, target, saved, damaged, faults>>

\* _restore_backup, then _restore_managed_files if activation had started.
RestoreLocal(u) ==
  \/ Restore(u, "undo_setup", "bridge", "undo_openclaw")
  \/ Restore(u, "undo_activation", "bridge", "undo_launcher")
RestoreLauncher(u)  == Restore(u, "undo_launcher", "launcher", "undo_dashboard")
RestoreDashboard(u) == Restore(u, "undo_dashboard", "dashboard_launcher", "undo_installation")
RestoreMetadata(u)  == Restore(u, "undo_installation", "installation", "undo_openclaw")

\* An error of the rollback replaces the first one and ends it.
FailRestore(u) ==
  /\ "restore" \in faults
  /\ pc[u] \in Undoing \ {"undo_openclaw"}
  /\ Leave(u, "failed")
  /\ damaged' = TRUE
  /\ UNCHANGED <<files, runtime, target, saved, faults>>

\* _restore_openclaw ignores its errors.
RestoreOpenClaw(u) ==
  /\ pc[u] = "undo_openclaw"
  /\ \/ OpenClaw /\ Put("openclaw", saved[u]["openclaw"])
     \/ (~OpenClaw \/ "openclaw" \in faults) /\ UNCHANGED files
  /\ Leave(u, "failed")
  /\ UNCHANGED <<runtime, target, saved, damaged, faults>>

Crash(u) ==
  /\ "crash" \in faults
  /\ pc[u] \in Critical
  /\ Goto(u, "crashed")
  /\ UNCHANGED <<files, runtime, lock, target, saved, damaged, faults>>

(***************************************************************************)
(* The system                                                              *)
(***************************************************************************)

Step(u) ==
  \/ TakeLock(u) \/ WriteProcessId(u) \/ FailProcessId(u) \/ RefuseLock(u)
  \/ MakeRuntime(u) \/ CreateVenv(u) \/ ResumeRuntime(u) \/ InstallPackage(u)
  \/ Backup(u) \/ Abort(u)
  \/ Setup(u) \/ Smoke(u)
  \/ SwitchDashboard(u) \/ SwitchLauncher(u) \/ SwitchMetadata(u)
  \/ SwitchOpenClaw(u) \/ PostCheck(u) \/ Finish(u) \/ FinishUnrecorded(u)
  \/ FailSetup(u) \/ FailActivation(u)
  \/ RestoreLocal(u) \/ RestoreLauncher(u) \/ RestoreDashboard(u)
  \/ RestoreMetadata(u) \/ FailRestore(u) \/ RestoreOpenClaw(u)

Next == \E u \in Updater : Step(u) \/ Crash(u) \/ \E v \in Version : Check(u, v)

Spec == Init /\ [][Next]_vars

\* Every command an update runs has a timeout, after which the step fails.
FairSpec == Spec /\ \A u \in Updater : WF_vars(Step(u))

(***************************************************************************)
(* Properties                                                              *)
(***************************************************************************)

TypeOK ==
  /\ files \in [File -> Version]
  /\ runtime \in [Version -> Runtime]
  /\ lock \in Updater \cup {NoUpdater}
  /\ pc \in [Updater -> Over \cup Critical \cup {"checked"}]
  /\ target \in [Updater -> Version]
  /\ saved \in [Updater -> [File -> Version]]
  /\ damaged \in BOOLEAN
  /\ faults \subseteq Faults

\* Nobody but the creator of the lock file is between its creation and its
\* removal (_UpdateLock).
OneUpdateAtATime == \A u \in Updater : pc[u] \in Critical => lock = u

\* Whatever is set up, smoke-tested or switched to is a complete runtime: no
\* other update rebuilds it meanwhile, and a directory left by a failed or
\* killed update is not taken for one (_install_runtime).
ActivatedIsInstalled ==
  \A u \in Updater :
    pc[u] \in {"installed"} \cup Trying \cup Activating =>
      runtime[target[u]] = "installed"

\* When no update runs, both launchers and the metadata are of one release,
\* whatever step of whatever update failed (the rollback of
\* update_installation), unless a file could not be put back.
Agree(r) == \A f, g \in Launchers : r[f] = r[g]
LaunchersAgree == lock = NoUpdater /\ ~damaged => Agree(files)

\* The error text of update_installation, "target release must be newer than
\* the active version", at the moment the release is activated.
TargetIsNewer ==
  \A u \in Updater : pc[u] = "launcher_switched" => target[u] > files["installation"]

\* Every update that took the lock file removes it, unless its process dies or
\* the file system refuses the lock file itself: no other failure, of the
\* rollback included, leaves updates disabled (_UpdateLock.__exit__).
LockIsReleased ==
  "lock" \notin faults =>
    \A u \in Updater : (lock = u) ~> (lock = NoUpdater \/ pc[u] = "crashed")

(***************************************************************************)
(* Why they hold: where each file stands at each step                      *)
(***************************************************************************)

Kept(u, fs)  == \A f \in fs \cap File : files[f] = saved[u][f]
Moved(u, fs) == \A f \in fs \cap File : files[f] = target[u]

AgreeInv ==
  \A u \in Updater :
    /\ pc[u] \in Preparing => Agree(files)
    /\ pc[u] \in Trying \cup Activating \cup Undoing => Agree(saved[u])

ForwardInv ==
  \A u \in Updater :
    /\ pc[u] = "saved" => Kept(u, File)
    /\ pc[u] \in {"set_up", "smoked"} => Kept(u, File \ {"bridge"})
    /\ pc[u] = "dashboard_switched" =>
         /\ Moved(u, {"dashboard_launcher"})
         /\ Kept(u, {"launcher", "installation", "openclaw"})
    /\ pc[u] = "launcher_switched" =>
         /\ Moved(u, {"dashboard_launcher", "launcher"})
         /\ Kept(u, {"installation", "openclaw"})
    /\ pc[u] = "activated" => Moved(u, Launchers) /\ Kept(u, {"openclaw"})
    /\ pc[u] \in {"switched", "verified"} => Moved(u, File \ {"bridge"})

\* The bridge is of the target release once set up, unless it could not be built.
BridgeInv ==
  "bridge" \notin faults =>
    \A u \in Updater :
      pc[u] \in {"set_up", "verified"} \cup Activating => Moved(u, {"bridge"})

UndoInv ==
  \A u \in Updater :
    /\ pc[u] = "undo_setup" => Kept(u, File \ {"bridge"})
    /\ pc[u] = "undo_launcher" => Kept(u, {"bridge"})
    /\ pc[u] = "undo_dashboard" => Kept(u, {"bridge", "launcher"})
    /\ pc[u] = "undo_installation" =>
         Kept(u, {"bridge", "launcher", "dashboard_launcher"})
    /\ pc[u] = "undo_openclaw" => Kept(u, {"bridge"} \cup Launchers)

\* The inductive invariant behind the safety properties.
IInv ==
  /\ TypeOK
  /\ OneUpdateAtATime
  /\ ActivatedIsInstalled
  /\ LaunchersAgree
  /\ ~damaged => AgreeInv
  /\ ForwardInv
  /\ BridgeInv
  /\ UndoInv

(***************************************************************************)
(* The promise                                                             *)
(***************************************************************************)

\* Between its backup and its last check the update may still go back.
Open(u) == pc[u] \in Trying \cup Activating \cup Undoing

Installed ==
  [f \in File |-> IF lock # NoUpdater /\ Open(lock)
                  THEN saved[lock][f] ELSE files[f]]

\* The promise is not made for an update that one of the faults hits.
PromisedFiles == IF faults = {} THEN Installed ELSE [f \in File |-> 1]

Verdict ==
  [u \in Updater |->
     CASE pc[u] \in {"idle", "checked", "refused", "crashed"} -> "none"
       [] pc[u] = "failed" -> "failed"
       [] pc[u] = "verified" -> "committed"
       [] pc[u] = "updated" -> "updated"
       [] OTHER -> "open"]

PromisedVerdict == IF faults = {} THEN Verdict ELSE [u \in Updater |-> "none"]

Promise == INSTANCE AtomicUpdate WITH
  installed <- PromisedFiles, verdict <- PromisedVerdict

\* Where none of the faults happens, an update switches all the files it manages
\* to one release and says "updated", or leaves them all and fails: updater.py,
\* "Install, verify and atomically activate one published release".
KeepsPromise == Promise!Spec
=============================================================================
