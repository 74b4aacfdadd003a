---------------------------- MODULE DashboardUpdate ----------------------------
(***************************************************************************)
(* An update started from the dashboard (dashboard.py _start_update,        *)
(* dashboard_update_worker.py, dashboard_runtime.py, dashboard_host.py): a  *)
(* detached worker shuts the dashboard down that launched it, installs the  *)
(* release, starts the dashboard of the new release and, if that does not   *)
(* become healthy, rolls back and starts the old one.  The only thing they  *)
(* share is a status file, which both write, and every dashboard "recovers" *)
(* a status that looks abandoned.                                           *)
(*                                                                         *)
(* What update_installation does is Updater; here it is what it promises    *)
(* (AtomicUpdate): a lock, the active release, and a rollback.              *)
(***************************************************************************)
EXTENDS Integers, FiniteSets

CONSTANTS Worker,   \* update workers that may be launched
          Newest,   \* releases are 1..Newest; 1 is installed
          None

ASSUME DashboardAssumption ==
  /\ Newest \in Nat \ {0}
  /\ None \notin Worker

Version == 1..Newest

VARIABLES active,     \* active_version in managed-installation.json
          status,     \* dashboard-update.json
          lock,       \* the worker in update_installation's lock
          pc,         \* worker -> its next step
          target,     \* worker -> the release it was launched for
          previous,   \* worker -> the release a rollback returns to
          checked,    \* worker -> activate_dashboard returned
          dashboard,  \* the dashboard process and its version
          supervisor, \* the supervisor is alive
          release,    \* DashboardService._release_status, 0 if none is offered
          job,        \* the request the dashboard handles under its mutex
          seen,       \* what that request has read: active release and status
          disturbed   \* a dashboard was started during a rollback

workerVars == <<pc, target, previous, checked>>
dashVars == <<dashboard, supervisor, release, job, seen, disturbed>>
vars == <<active, status, lock, workerVars, dashVars>>

InProgress == {"preparing", "running"}
Verdict == {"success", "error"}

Status == [state : {"none"} \cup InProgress \cup Verdict,
           target : Version \cup {0},
           worker : Worker \cup {None},
           recent : BOOLEAN]           \* requested at most 60 seconds ago

Says(state, v, w) ==
  [state |-> state, target |-> v, worker |-> w, recent |-> FALSE]

Over == {"unused", "over", "killed"}
Living == {w \in Worker : pc[w] \notin Over}

Phase == Over \cup
  {"launched", "preparing", "waiting", "running", "locked", "activated", "verifying",
   "rollback", "verified", "installed", "failed", "relaunch", "relaunched"}

Dashboard == [state : {"down", "booting", "serving", "stopping"}, version : Version]
Job == {"idle", "view", "install"} \X {"none", "managed", "status", "start", "launch"}
Seen == [active : Version, status : Status]
NothingSeen == [active |-> 1, status |-> Says("none", 0, None)]

TypeOK ==
  /\ active \in Version
  /\ status \in Status
  /\ lock \in Worker \cup {None}
  /\ pc \in [Worker -> Phase]
  /\ target \in [Worker -> Version \cup {0}]
  /\ previous \in [Worker -> Version \cup {0}]
  /\ checked \in [Worker -> BOOLEAN]
  /\ dashboard \in Dashboard
  /\ supervisor \in BOOLEAN
  /\ release \in Version \cup {0}
  /\ job \in Job
  /\ seen \in Seen
  /\ disturbed \in BOOLEAN

Init ==
  /\ active = 1
  /\ status = Says("none", 0, None)
  /\ lock = None
  /\ pc = [w \in Worker |-> "unused"]
  /\ target = [w \in Worker |-> 0]
  /\ previous = [w \in Worker |-> 0]
  /\ checked = [w \in Worker |-> FALSE]
  /\ dashboard = [state |-> "serving", version |-> 1]
  /\ supervisor = TRUE
  /\ release = 0
  /\ job = <<"idle", "none">>
  /\ seen = NothingSeen
  /\ disturbed = FALSE

(***************************************************************************)
(* The dashboard.  One request at a time has its mutex; a dashboard that    *)
(* starts handles one (service.state) before it serves.                     *)
(***************************************************************************)
Idle == job = <<"idle", "none">>
Answered == job' = <<"idle", "none">> /\ seen' = NothingSeen

(* For the properties only: an update that rolls back has stopped the      *)
(* dashboard, but nothing prevents another start.                          *)
ObserveStart ==
  disturbed' = (disturbed \/ \E w \in Worker : pc[w] = "rollback")

(* A dashboard process appears, started by the supervisor, which runs the  *)
(* release it was started with, or by the user with the stable launcher.   *)
Appear ==
  /\ dashboard.state = "down"
  /\ \/ supervisor /\ dashboard' = [dashboard EXCEPT !.state = "booting"]
     \/ /\ ~supervisor
        /\ dashboard' = [state |-> "booting", version |-> active]
  /\ supervisor' = TRUE
  /\ release' = 0
  /\ job' = <<"view", "none">>
  /\ ObserveStart
  /\ UNCHANGED <<active, status, lock, workerVars, seen>>

(* It dies; the supervisor will start it again.                            *)
Crash ==
  /\ dashboard.state \in {"booting", "serving"}
  /\ dashboard' = [dashboard EXCEPT !.state = "down"]
  /\ release' = 0
  /\ Answered
  /\ UNCHANGED <<active, status, lock, workerVars, supervisor, disturbed>>

(* The shutdown a worker asked for: the dashboard exits with 0, and so     *)
(* does its supervisor.                                                    *)
Stop ==
  /\ dashboard.state = "stopping"
  /\ dashboard' = [dashboard EXCEPT !.state = "down"]
  /\ supervisor' = FALSE
  /\ release' = 0
  /\ Answered
  /\ UNCHANGED <<active, status, lock, workerVars, disturbed>>

(* _check_update.                                                          *)
CheckUpdate ==
  /\ dashboard.state = "serving" /\ Idle
  /\ release' \in {0} \cup {v \in Version : v > active}
  /\ UNCHANGED <<active, status, lock, workerVars, dashboard, supervisor, job,
                 seen, disturbed>>

(* A request arrives: the page polls the state, or asks for the update.    *)
View ==
  /\ dashboard.state = "serving" /\ Idle
  /\ job' = <<"view", "none">>
  /\ UNCHANGED <<active, status, lock, workerVars, dashboard, supervisor,
                 release, seen, disturbed>>

Install ==
  /\ dashboard.state = "serving" /\ Idle
  /\ release # 0
  /\ job' = <<"install", "none">>
  /\ UNCHANGED <<active, status, lock, workerVars, dashboard, supervisor,
                 release, seen, disturbed>>

(* load_managed_installation, then load_update_status.                     *)
LoadManaged ==
  /\ job[1] # "idle" /\ job[2] = "none"
  /\ seen' = [seen EXCEPT !.active = active]
  /\ job' = <<job[1], "managed">>
  /\ UNCHANGED <<active, status, lock, workerVars, dashboard, supervisor,
                 release, disturbed>>

LoadStatus ==
  /\ job[2] = "managed"
  /\ seen' = [seen EXCEPT !.status = status]
  /\ job' = <<job[1], "status">>
  /\ UNCHANGED <<active, status, lock, workerVars, dashboard, supervisor,
                 release, disturbed>>

\* Mutants: a failed operation is reconciled too; a request whose worker never
\* reported is waited for without end.
ReconciledError ==
  LET op == seen.status
      waiting == IF op.worker # None THEN op.worker \in Living ELSE op.recent
  IN IF op.state \in {"none", "success"} THEN op
     ELSE IF op.target = seen.active THEN Says("success", op.target, None)
     ELSE IF waiting THEN op
     ELSE Says("error", op.target, None)

ReconciledPatiently ==
  LET op == seen.status
      waiting == op.worker # None => op.worker \in Living
  IN IF op.state \notin InProgress THEN op
     ELSE IF op.target = seen.active THEN Says("success", op.target, None)
     ELSE IF waiting THEN op
     ELSE Says("error", op.target, None)

(* What _reconcile_update_operation makes of the status it has read.       *)
Reconciled ==
  LET op == seen.status
      waiting == IF op.worker # None THEN op.worker \in Living ELSE op.recent
  IN IF op.state \notin InProgress THEN op
     ELSE IF op.target = seen.active THEN Says("success", op.target, None)
     ELSE IF waiting THEN op
     ELSE Says("error", op.target, None)

(* It writes the status only if it changes it.  A request to install goes  *)
(* on unless an update is under way (409); a dashboard that was starting   *)
(* now serves.                                                             *)
Reconcile ==
  /\ job[2] = "status"
  /\ status' = IF Reconciled = seen.status THEN status ELSE Reconciled
  /\ IF job[1] = "install" /\ Reconciled.state \notin InProgress
     THEN job' = <<"install", "start">> /\ UNCHANGED seen
     ELSE Answered
  /\ dashboard' = IF dashboard.state = "booting"
                  THEN [dashboard EXCEPT !.state = "serving"] ELSE dashboard
  /\ UNCHANGED <<active, lock, workerVars, supervisor, release, disturbed>>

StartUpdate ==
  /\ job[2] = "start"
  /\ status' = [Says("preparing", release, None) EXCEPT !.recent = TRUE]
  /\ job' = <<"install", "launch">>
  /\ UNCHANGED <<active, lock, workerVars, dashboard, supervisor, release,
                 seen, disturbed>>

(* The launcher creates the worker, or the status becomes an error.        *)
Launch ==
  /\ job[2] = "launch"
  /\ \/ \E w \in Worker :
          /\ pc[w] = "unused"
          /\ pc' = [pc EXCEPT ![w] = "launched"]
          /\ target' = [target EXCEPT ![w] = release]
          /\ UNCHANGED status
     \/ /\ status' = Says("error", release, None)
        /\ UNCHANGED <<pc, target>>
  /\ Answered
  /\ UNCHANGED <<active, lock, previous, checked, dashboard, supervisor,
                 release,
                 disturbed>>

(* Sixty seconds pass.                                                     *)
Age ==
  /\ status.recent \/ seen.status.recent
  /\ status' = [status EXCEPT !.recent = FALSE]
  /\ seen' = [seen EXCEPT !.status.recent = FALSE]
  /\ UNCHANGED <<active, lock, workerVars, dashboard, supervisor, release, job,
                 disturbed>>

(***************************************************************************)
(* The worker.                                                             *)
(***************************************************************************)
Step(w, from, to) == pc[w] = from /\ pc' = [pc EXCEPT ![w] = to]

(* main: the one-use token of the dashboard is read, or the worker ends;   *)
(* run_update then puts its process id into the status.                    *)
Begin(w) ==
  /\ \/ /\ Step(w, "launched", "preparing")
        /\ status' = Says("preparing", target[w], w)
     \/ /\ Step(w, "launched", "over")
        /\ status' = Says("error", target[w], None)
  /\ UNCHANGED <<active, lock, target, previous, checked, dashVars>>

(* _request_dashboard_shutdown: a dashboard that serves and still has the  *)
(* worker's token answers 202 and stops; anything else is an error.        *)
RequestShutdown(w) ==
  /\ \/ /\ Step(w, "preparing", "waiting")
        /\ dashboard.state = "serving"
        /\ dashboard' = [dashboard EXCEPT !.state = "stopping"]
     \/ Step(w, "preparing", "failed") /\ UNCHANGED dashboard
  /\ UNCHANGED <<active, status, lock, target, previous, checked,
                 supervisor, release, job, seen, disturbed>>

(* _wait_until_port_is_free: no dashboard listens, or time is up.          *)
PortIsFree(w) ==
  /\ \/ /\ Step(w, "waiting", "running")
        /\ dashboard.state \in {"down", "booting"}
        /\ status' = Says("running", target[w], w)
     \/ Step(w, "waiting", "failed") /\ UNCHANGED status
  /\ UNCHANGED <<active, lock, target, previous, checked, dashVars>>

(* update_installation up to its lock: refused if another update has it or *)
(* the release is not newer, and it may fail in many other ways.           *)
Acquire(w) ==
  /\ \/ /\ Step(w, "running", "locked")
        /\ lock = None /\ target[w] > active
        /\ lock' = w
        /\ previous' = [previous EXCEPT ![w] = active]
     \/ Step(w, "running", "failed") /\ UNCHANGED <<lock, previous>>
  /\ UNCHANGED <<active, status, target, checked, dashVars>>

(* The release is installed, set up, tested and activated, or nothing has  *)
(* changed when the lock is given back.                                    *)
Activate(w) ==
  /\ \/ /\ Step(w, "locked", "activated")
        /\ active' = target[w]
        /\ UNCHANGED lock
     \/ /\ Step(w, "locked", "failed")
        /\ lock' = None
        /\ UNCHANGED active
  /\ UNCHANGED <<status, target, previous, checked, dashVars>>

(* The manager stops the supervisor and the dashboard, and starts those of *)
(* the active release.                                                     *)
Replace ==
  /\ dashboard' = [state |-> "booting", version |-> active]
  /\ supervisor' = TRUE
  /\ release' = 0
  /\ job' = <<"view", "none">>
  /\ seen' = NothingSeen
  /\ ObserveStart

(* stop, after a failed restart.                                           *)
StopManager ==
  /\ dashboard' = [dashboard EXCEPT !.state = "down"]
  /\ supervisor' = FALSE
  /\ release' = 0
  /\ Answered
  /\ UNCHANGED disturbed

Healthy(v) == dashboard.state = "serving" /\ dashboard.version = v

(* activate_dashboard, the last check of the update: restart_and_verify.   *)
Restart(w) ==
  /\ Step(w, "activated", "verifying")
  /\ Replace
  /\ UNCHANGED <<active, status, lock, target, previous, checked>>

Verify(w) ==
  /\ \/ /\ Step(w, "verifying", "verified")
        /\ Healthy(active)
        /\ checked' = [checked EXCEPT ![w] = TRUE]
        /\ UNCHANGED dashVars
     \/ /\ Step(w, "verifying", "rollback")
        /\ StopManager
        /\ UNCHANGED checked
  /\ UNCHANGED <<active, status, lock, target, previous>>

\* Mutant: the launchers are put back, the metadata are not.
RollbackForgetting(w) ==
  /\ Step(w, "rollback", "failed")
  /\ lock' = None
  /\ UNCHANGED <<active, status, target, previous, checked, dashVars>>

Rollback(w) ==
  /\ Step(w, "rollback", "failed")
  /\ active' = previous[w]
  /\ lock' = None
  /\ UNCHANGED <<status, target, previous, checked, dashVars>>

\* Mutant: the files are restored if the manifest cannot be written, but the
\* dashboard that was started stays.
CommitRollingBack(w) ==
  /\ \/ Step(w, "verified", "installed") /\ UNCHANGED active
     \/ Step(w, "verified", "failed") /\ active' = previous[w]
  /\ lock' = None
  /\ UNCHANGED <<status, target, previous, checked, dashVars>>

(* The manifest is written before the lock is given back; if it cannot be, *)
(* the update fails, and nothing is rolled back.                           *)
Commit(w) ==
  /\ \/ Step(w, "verified", "installed")
     \/ Step(w, "verified", "failed")
  /\ lock' = None
  /\ UNCHANGED <<active, status, target, previous, checked, dashVars>>

(* _restart_openclaw_gateway, which may raise, and the verdict.            *)
RecordSuccess(w) ==
  /\ \/ /\ Step(w, "installed", "over")
        /\ status' = Says("success", target[w], None)
     \/ Step(w, "installed", "failed") /\ UNCHANGED status
  /\ UNCHANGED <<active, lock, target, previous, checked, dashVars>>

\* Mutant: a status that is a verdict already is left alone.
RecordFirst(w) ==
  /\ Step(w, "failed", IF checked[w] THEN "over" ELSE "relaunch")
  /\ status' = IF status.state \in Verdict THEN status
               ELSE Says("error", target[w], None)
  /\ UNCHANGED <<active, lock, target, previous, checked, dashVars>>

RecordError(w) ==
  /\ Step(w, "failed", IF checked[w] THEN "over" ELSE "relaunch")
  /\ status' = Says("error", target[w], None)
  /\ UNCHANGED <<active, lock, target, previous, checked, dashVars>>

(* The dashboard of the release that is active now is started, and stopped *)
(* again if it does not become healthy.                                    *)
Relaunch(w) ==
  /\ Step(w, "relaunch", "relaunched")
  /\ Replace
  /\ UNCHANGED <<active, status, lock, target, previous, checked>>

VerifyRelaunch(w) ==
  /\ Step(w, "relaunched", "over")
  /\ \/ Healthy(active) /\ UNCHANGED dashVars
     \/ StopManager
  /\ UNCHANGED <<active, status, lock, target, previous, checked>>

(* The worker is killed; a lock it holds stays.                            *)
Kill(w) ==
  /\ w \in Living
  /\ pc' = [pc EXCEPT ![w] = "killed"]
  /\ UNCHANGED <<active, status, lock, target, previous, checked, dashVars>>

WorkerStep(w) ==
  \/ Begin(w) \/ RequestShutdown(w) \/ PortIsFree(w) \/ Acquire(w)
  \/ Activate(w) \/ Restart(w) \/ Verify(w) \/ Rollback(w) \/ Commit(w)
  \/ RecordSuccess(w) \/ RecordError(w) \/ Relaunch(w) \/ VerifyRelaunch(w)

Handle == LoadManaged \/ LoadStatus \/ Reconcile \/ StartUpdate \/ Launch

DashboardStep == Appear \/ Stop \/ View \/ Handle

Next ==
  \/ DashboardStep \/ Crash \/ CheckUpdate \/ Install \/ Age
  \/ \E w \in Worker : WorkerStep(w) \/ Kill(w)

Spec == Init /\ [][Next]_vars

(* Every wait of the worker has a timeout; the page polls the state, and   *)
(* the user (or the next login) starts a dashboard that is down.  It may   *)
(* crash any number of times, but not for ever.                            *)
Fairness ==
  /\ WF_vars(DashboardStep) /\ WF_vars(Age)
  /\ \A w \in Worker : WF_vars(WorkerStep(w))
  /\ <>[][~ Crash]_vars

FairSpec == Spec /\ Fairness

(***************************************************************************)
(* Properties                                                              *)
(***************************************************************************)
AllEnded == \A w \in Worker : pc[w] \in {"unused", "over"}
Quiet == AllEnded /\ Idle

(* When nothing is under way any more, a status that says success is about *)
(* a release that is active, or was replaced by a newer one: no dashboard  *)
(* declared an update successful that was rolled back (docs/dashboard.md:  *)
(* "Failed updates keep or restore the previous active runtime").  The new *)
(* dashboard does so as soon as it starts, before the update is verified;  *)
(* it takes a worker that survives its rollback to correct that.  Excepted *)
(* is a dashboard that somebody, by hand or in another worker, started     *)
(* during a rollback: it may declare success after the worker's error.     *)
SuccessIsReal ==
  Quiet /\ ~ disturbed /\ status.state = "success" => active >= status.target

(* Once every worker has ended, the verdict about a release is not turned  *)
(* into the other one, except by a new request: no dashboard overwrites it *)
(* with what it concluded from an older status (with the same exception).  *)
VerdictStays ==
  [][(/\ AllEnded /\ ~ disturbed
      /\ status.state \in Verdict
      /\ status'.target = status.target
      /\ status'.state # status.state)
     => job[2] \in {"start", "launch"}]_vars

(* docs/dashboard.md: a failed update restarts the dashboard manager of the *)
(* active runtime.  Whatever the update came to, the dashboard that runs   *)
(* when all workers have ended by themselves is the active release's.      *)
DashboardRunsActive ==
  AllEnded /\ dashboard.state # "down" => dashboard.version = active

(* CHANGELOG.md:92: interrupted updates are recovered.  A status that says *)
(* an update is under way is replaced by a verdict.                        *)
EveryRequestIsDecided == status.state \in InProgress ~> status.state \in Verdict

(***************************************************************************)
(* What the updater promises                                               *)
(***************************************************************************)
\* An update that may still be rolled back has not happened yet; one whose
\* worker is killed then will not be rolled back any more.
Unverified == {"activated", "verifying", "rollback"}

PromisedFiles == [f \in {"active_version"} |->
  IF lock # None /\ pc[lock] \in Unverified THEN previous[lock] ELSE active]

PromisedVerdict ==
  [w \in Worker |->
     IF previous[w] = 0 THEN "none"
     ELSE IF checked[w] THEN "committed"
     ELSE IF lock # w THEN "failed"
     ELSE IF pc[w] = "killed" /\ active = target[w] THEN "committed"
     ELSE "open"]

Promise == INSTANCE AtomicUpdate WITH
  Updater <- Worker, File <- {"active_version"},
  installed <- PromisedFiles, verdict <- PromisedVerdict

(* Whoever crashes or is killed, the active release changes as the updater *)
(* promises: by an update that has the lock, to the end or not at all.     *)
KeepsPromise == Promise!Spec

================================================================================
