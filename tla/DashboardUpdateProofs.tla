------------------------- MODULE DashboardUpdateProofs -------------------------
(***************************************************************************)
(* What a dashboard and the update workers it launches make of the status  *)
(* file they share and of the active release, for any number of workers,   *)
(* which may overlap, and of releases.  That no verdict is overwritten     *)
(* (VerdictStays) is only model-checked.                                   *)
(***************************************************************************)
EXTENDS DashboardUpdate, TLAPS

(***************************************************************************)
(* The inductive invariant                                                 *)
(***************************************************************************)

Installing == {"locked", "activated", "verifying", "rollback"}

\* Whatever is installed, and returned to, is a release.
Chosen == \A w \in Worker : pc[w] \in Installing =>
            target[w] \in Version /\ previous[w] \in Version

TypeInv == TypeOK /\ Chosen

Someone(phases) == \E w \in Worker : pc[w] \in phases

Early == {"unused", "launched", "preparing", "waiting", "running"}
Locking == {"locked", "verified"} \cup Unverified

\* One update at a time has the lock, and only it changes the active release;
\* a worker that is killed with the lock keeps it.
LockInv ==
  \A w \in Worker :
    /\ pc[w] \in Locking => lock = w /\ previous[w] # 0
    /\ lock = w => pc[w] \in Locking \cup {"killed"}
    /\ pc[w] = "locked" => active = previous[w] /\ active # target[w]
    /\ pc[w] \in Unverified => active = target[w]
    /\ pc[w] \in Early => previous[w] = 0
    /\ pc[w] \in Early \cup {"locked"} \cup Unverified => ~ checked[w]
    /\ pc[w] \in {"verified", "installed"} => checked[w]

\* A release that was verified is only replaced by a newer one, also by the
\* rollback of another update, and a rollback goes back.
VerifiedStays ==
  \A w \in Worker :
    /\ checked[w] =>
         /\ target[w] <= active
         /\ \A v \in Worker : pc[v] \in Installing => target[w] <= previous[v]
    /\ pc[w] \in Installing => previous[w] < target[w]

\* The dashboard is of the active release, or somebody will replace it.
WillReplace(w) ==
  \/ pc[w] \in {"activated", "rollback", "relaunch", "killed"}
  \/ pc[w] = "failed" /\ ~ checked[w]
RunsActive ==
  supervisor \/ dashboard.state # "down" =>
    dashboard.version = active \/ \E w \in Worker : WillReplace(w)

\* Undisturbed, no request takes a release for active that is rolled back, and
\* a success that is not true is about to be corrected.
RolledBackAlone ==
  Someone({"rollback"}) => dashboard.state = "down" /\ Idle
ReadBefore == job[2] \in {"managed", "status"} => seen.active <= active
SuccessKnown ==
  status.state = "success" =>
    status.target <= active \/ Someone({"failed", "killed"})

OutcomeInv ==
  /\ VerifiedStays
  /\ RunsActive
  /\ ~ disturbed => RolledBackAlone /\ ReadBefore /\ SuccessKnown

UpdateInv == TypeInv /\ LockInv /\ OutcomeInv

(***************************************************************************)
(* Types                                                                   *)
(***************************************************************************)

\* What the status file may say.
LEMMA SaysType ==
  \A state \in {"none"} \cup InProgress \cup Verdict, v \in Version \cup {0},
     w \in Worker \cup {None} :
       /\ Says(state, v, w) \in Status /\ Says(state, v, w).state = state
       /\ Says(state, v, w).target = v /\ Says(state, v, w).worker = w
BY DEF Says, Status

\* A new request says what it would say later.
LEMMA RecentType ==
  ASSUME NEW s \in Status
  PROVE  LET a == [s EXCEPT !.recent = TRUE] IN
         /\ a \in Status
         /\ a.state = s.state /\ a.target = s.target /\ a.worker = s.worker
BY DEF Status

\* A status that grows old says what it said.
LEMMA AgedType ==
  ASSUME NEW s \in Status
  PROVE  LET a == [s EXCEPT !.recent = FALSE] IN
         /\ a \in Status
         /\ a.state = s.state /\ a.target = s.target /\ a.worker = s.worker
BY DEF Status

\* What is in the status file.
LEMMA StatusType ==
  ASSUME NEW s \in Status
  PROVE  /\ s.state \in {"none"} \cup InProgress \cup Verdict
         /\ s.target \in Version \cup {0} /\ s.worker \in Worker \cup {None}
BY DEF Status

\* A dashboard process changes its state, not its version.
LEMMA DashboardType ==
  ASSUME NEW d \in Dashboard, NEW s \in {"down", "booting", "serving", "stopping"}
  PROVE  LET e == [d EXCEPT !.state = s] IN
         /\ e \in Dashboard /\ e.state = s /\ e.version = d.version
BY DEF Dashboard

\* A dashboard process, in any of its states.
LEMMA ProcessType ==
  ASSUME NEW s \in {"down", "booting", "serving", "stopping"}, NEW v \in Version
  PROVE  LET e == [state |-> s, version |-> v] IN
         e \in Dashboard /\ e.state = s /\ e.version = v
BY DEF Dashboard

\* What the dashboard's thread and its request are doing.
LEMMA JobType ==
  /\ \A x \in {"idle", "view", "install"} :
       \A y \in {"none", "managed", "status", "start", "launch"} :
         <<x, y>> \in Job /\ <<x, y>>[1] = x /\ <<x, y>>[2] = y
  /\ \A j \in Job : j[1] \in {"idle", "view", "install"}
                    /\ j[2] \in {"none", "managed", "status", "start", "launch"}
BY DEF Job

\* What a request has read.
LEMMA SeenType ==
  ASSUME NEW s \in Seen
  PROVE  /\ s.active \in Version /\ s.status \in Status
         /\ \A v \in Version :
              LET t == [s EXCEPT !.active = v] IN
              t \in Seen /\ t.active = v /\ t.status = s.status
         /\ \A u \in Status :
              LET t == [s EXCEPT !.status = u] IN
              t \in Seen /\ t.active = s.active /\ t.status = u
         /\ LET t == [s EXCEPT !.status.recent = FALSE] IN
            /\ t \in Seen /\ t.active = s.active
            /\ t.status = [s.status EXCEPT !.recent = FALSE]
BY DEF Seen, Status

\* A request begins with having read nothing.
LEMMA NothingSeenType ==
  /\ NothingSeen \in Seen /\ NothingSeen.active = 1
  /\ NothingSeen.status.state = "none"
<1>1. Says("none", 0, None) \in Status /\ Says("none", 0, None).state = "none"
  BY SaysType
<1>2. 1 \in Version
  BY DashboardAssumption DEF Version
<1>3. QED
  BY <1>1, <1>2 DEF NothingSeen, Seen

\* Reconciling decides a status that is under way, about the same release.
LEMMA ReconciledType ==
  ASSUME TypeOK
  PROVE  LET op == seen.status IN
         /\ Reconciled \in Status
         /\ Reconciled = op \/ (op.state \in InProgress /\ Reconciled.target = op.target)
         /\ Reconciled.state = "success" /\ Reconciled # op => op.target = seen.active
         /\ Reconciled # op => Reconciled.state \in Verdict
         /\ op.state \in InProgress /\ op.target = seen.active
              => Reconciled.state = "success"
<1> DEFINE op == seen.status
<1>1. op \in Status
  BY SeenType DEF TypeOK
<1>2. op.target \in Version \cup {0} /\ op.state \in {"none"} \cup InProgress \cup Verdict
  BY <1>1, StatusType
<1>3. /\ Says("success", op.target, None) \in Status
      /\ Says("success", op.target, None).state = "success"
      /\ Says("success", op.target, None).target = op.target
      /\ Says("error", op.target, None) \in Status
      /\ Says("error", op.target, None).state = "error"
      /\ Says("error", op.target, None).target = op.target
  BY <1>2, SaysType DEF Verdict
<1>4. \/ op.state \notin InProgress /\ Reconciled = op
      \/ /\ op.state \in InProgress /\ op.target = seen.active
         /\ Reconciled = Says("success", op.target, None)
      \/ op.state \in InProgress /\ op.target # seen.active /\ Reconciled = op
      \/ /\ op.state \in InProgress /\ op.target # seen.active
         /\ Reconciled = Says("error", op.target, None)
  BY DEF Reconciled
<1> HIDE DEF op
<1>5. QED
  BY <1>1, <1>3, <1>4 DEF op, Verdict

\* Every step keeps the types, and a release to return to.
LEMMA TypeStep == TypeInv /\ [Next]_vars => TypeInv'
<1> SUFFICES ASSUME TypeInv, [Next]_vars PROVE TypeInv'
  OBVIOUS
<1> USE DashboardAssumption
    DEF TypeInv, TypeOK, Chosen, Installing, Version, Phase, InProgress, Verdict,
        Over, Living, workerVars, dashVars
<1>1. CASE Appear
  <2>1. CASE supervisor
    <3>1. dashboard' \in Dashboard
      BY <1>1, <2>1, DashboardType DEF Appear
    <3>2. QED
      BY <1>1, <3>1, JobType DEF Appear, ObserveStart
  <2>2. CASE ~ supervisor
    <3>1. dashboard' \in Dashboard
      BY <1>1, <2>2, ProcessType DEF Appear
    <3>2. QED
      BY <1>1, <3>1, JobType DEF Appear, ObserveStart
  <2>3. QED
    BY <2>1, <2>2
<1>2. CASE Crash
  BY <1>2, DashboardType, JobType, NothingSeenType DEF Crash, Answered
<1>3. CASE Stop
  BY <1>3, DashboardType, JobType, NothingSeenType DEF Stop, Answered
<1>4. CASE CheckUpdate
  BY <1>4 DEF CheckUpdate, Idle
<1>5. CASE View
  BY <1>5, JobType DEF View, Idle
<1>6. CASE Install
  BY <1>6, JobType DEF Install, Idle
<1>7. CASE LoadManaged
  BY <1>7, SeenType, JobType DEF LoadManaged
<1>8. CASE LoadStatus
  BY <1>8, SeenType, JobType DEF LoadStatus
<1>9. CASE Reconcile
  <2>1. Reconciled \in Status /\ seen.status \in Status
    BY ReconciledType, SeenType
  <2>2. status' \in Status
    BY <1>9, <2>1 DEF Reconcile
  <2>3. job' \in Job /\ seen' \in Seen
    BY <1>9, JobType, NothingSeenType DEF Reconcile, Answered
  <2>4. dashboard' \in Dashboard
    BY <1>9, DashboardType DEF Reconcile
  <2>5. UNCHANGED <<active, lock, pc, target, previous, checked, supervisor, release, disturbed>>
    BY <1>9 DEF Reconcile
  <2>6. QED
    BY <2>2, <2>3, <2>4, <2>5
<1>10. CASE StartUpdate
  BY <1>10, SaysType, RecentType, JobType DEF StartUpdate
<1>11. CASE Launch
  <2>1. status' \in Status
    <3>1. Says("error", release, None) \in Status
      BY SaysType
    <3>2. QED
      BY <1>11, <3>1 DEF Launch
  <2>2. job' \in Job /\ seen' \in Seen
    BY <1>11, JobType, NothingSeenType DEF Launch, Answered
  <2>3. QED
    BY <1>11, <2>1, <2>2 DEF Launch
<1>12. CASE Age
  BY <1>12, SeenType, AgedType DEF Age
<1>13. ASSUME NEW w \in Worker, Begin(w) PROVE TypeInv'
  <2>1. target[w] \in Version \cup {0}
    OBVIOUS
  <2>2. status' \in Status
    BY <1>13, <2>1, SaysType DEF Begin
  <2>3. QED
    BY <1>13, <2>2 DEF Begin, Step
<1>14. ASSUME NEW w \in Worker, RequestShutdown(w) PROVE TypeInv'
  <2>1. [dashboard EXCEPT !.state = "stopping"] \in Dashboard
    BY DashboardType
  <2>2. dashboard' \in Dashboard
    BY <1>14, <2>1 DEF RequestShutdown
  <2>3. QED
    BY <1>14, <2>2 DEF RequestShutdown, Step
<1>15. ASSUME NEW w \in Worker, PortIsFree(w) PROVE TypeInv'
  <2>1. target[w] \in Version \cup {0}
    OBVIOUS
  <2>2. status' \in Status
    BY <1>15, <2>1, SaysType DEF PortIsFree
  <2>3. QED
    BY <1>15, <2>2 DEF PortIsFree, Step
<1>16. ASSUME NEW w \in Worker, Acquire(w) PROVE TypeInv'
  BY <1>16 DEF Acquire, Step
<1>17. ASSUME NEW w \in Worker, Activate(w) PROVE TypeInv'
  BY <1>17 DEF Activate, Step
<1>18. ASSUME NEW w \in Worker, Restart(w) PROVE TypeInv'
  BY <1>18, ProcessType, JobType, NothingSeenType DEF Restart, Step, Replace, ObserveStart
<1>19. ASSUME NEW w \in Worker, Verify(w) PROVE TypeInv'
  <2>1. /\ dashboard' \in Dashboard /\ job' \in Job /\ seen' \in Seen
        /\ supervisor' \in BOOLEAN /\ release' \in Version \cup {0} /\ disturbed' = disturbed
    <3>1. CASE StopManager
      BY <3>1, DashboardType, JobType, NothingSeenType DEF StopManager, Answered
    <3>2. CASE UNCHANGED dashVars
      BY <3>2
    <3>3. QED
      BY <1>19, <3>1, <3>2 DEF Verify
  <2>2. QED
    BY <1>19, <2>1 DEF Verify, Step
<1>20. ASSUME NEW w \in Worker, Rollback(w) PROVE TypeInv'
  BY <1>20 DEF Rollback, Step
<1>21. ASSUME NEW w \in Worker, Commit(w) PROVE TypeInv'
  BY <1>21 DEF Commit, Step
<1>22. ASSUME NEW w \in Worker, RecordSuccess(w) PROVE TypeInv'
  <2>1. target[w] \in Version \cup {0}
    OBVIOUS
  <2>2. status' \in Status
    BY <1>22, <2>1, SaysType DEF RecordSuccess
  <2>3. QED
    BY <1>22, <2>2 DEF RecordSuccess, Step
<1>23. ASSUME NEW w \in Worker, RecordError(w) PROVE TypeInv'
  <2>1. target[w] \in Version \cup {0}
    OBVIOUS
  <2>2. Says("error", target[w], None) \in Status
    BY <2>1, SaysType
  <2>3. QED
    BY <1>23, <2>2 DEF RecordError, Step
<1>24. ASSUME NEW w \in Worker, Relaunch(w) PROVE TypeInv'
  BY <1>24, ProcessType, JobType, NothingSeenType DEF Relaunch, Step, Replace, ObserveStart
<1>25. ASSUME NEW w \in Worker, VerifyRelaunch(w) PROVE TypeInv'
  <2>1. /\ dashboard' \in Dashboard /\ job' \in Job /\ seen' \in Seen
        /\ supervisor' \in BOOLEAN /\ release' \in Version \cup {0} /\ disturbed' = disturbed
    <3>1. CASE StopManager
      BY <3>1, DashboardType, JobType, NothingSeenType DEF StopManager, Answered
    <3>2. CASE UNCHANGED dashVars
      BY <3>2
    <3>3. QED
      BY <1>25, <3>1, <3>2 DEF VerifyRelaunch
  <2>2. QED
    BY <1>25, <2>1 DEF VerifyRelaunch, Step
<1>26. ASSUME NEW w \in Worker, Kill(w) PROVE TypeInv'
  BY <1>26 DEF Kill
<1>27. CASE UNCHANGED vars
  BY <1>27 DEF vars
<1>28. QED
  BY ONLY [Next]_vars, <1>1, <1>2, <1>3, <1>4, <1>5, <1>6, <1>7, <1>8, <1>9, <1>10, <1>11,
     <1>12, <1>13, <1>14, <1>15, <1>16, <1>17, <1>18, <1>19, <1>20, <1>21, <1>22, <1>23,
     <1>24, <1>25, <1>26, <1>27
     DEF Next, Handle, DashboardStep, WorkerStep

\* What is compared are numbers, and what is assigned to are functions.
LEMMA Numbers ==
  ASSUME TypeInv
  PROVE  /\ active \in Nat /\ release \in Nat /\ status.target \in Nat
         /\ seen.active \in Nat /\ seen.status.target \in Nat
         /\ DOMAIN pc = Worker /\ DOMAIN target = Worker
         /\ DOMAIN previous = Worker /\ DOMAIN checked = Worker
         /\ \A w \in Worker : target[w] \in Nat /\ previous[w] \in Nat
<1>1. seen.active \in Version /\ seen.status \in Status
  BY SeenType DEF TypeInv, TypeOK
<1>2. status.target \in Version \cup {0} /\ seen.status.target \in Version \cup {0}
  BY <1>1, StatusType DEF TypeInv, TypeOK
<1>3. QED
  BY <1>1, <1>2, DashboardAssumption DEF TypeInv, TypeOK, Version

\* The initial state satisfies the invariant.
LEMMA InitialState == Init => UpdateInv
<1> SUFFICES ASSUME Init PROVE UpdateInv
  OBVIOUS
<1>1. 1 \in Version /\ 0 \in Version \cup {0}
  BY DashboardAssumption DEF Version
<1>2. status \in Status /\ status.state = "none"
  <2>1. Says("none", 0, None) \in Status /\ Says("none", 0, None).state = "none"
    BY <1>1, SaysType
  <2>2. QED
    BY ONLY <2>1, Init DEF Init
<1>3. job \in Job /\ job[2] = "none"
  BY JobType DEF Init
<1>4. TypeInv
  BY <1>1, <1>2, <1>3, NothingSeenType
     DEF Init, TypeInv, TypeOK, Chosen, Installing, Phase, Over, Dashboard
<1>5. LockInv
  BY DashboardAssumption DEF Init, LockInv, Locking, Unverified, Early
<1>6. OutcomeInv
  BY <1>2, <1>3 DEF Init, OutcomeInv, VerifiedStays, Installing, RunsActive, RolledBackAlone,
     Someone, ReadBefore, SuccessKnown
<1>7. QED
  BY <1>4, <1>5, <1>6 DEF UpdateInv

\* The state of an update from the dashboard is what it should be, whoever is
\* killed and whatever is started by hand.
THEOREM Typing == Spec => []TypeOK
<1>1. Init => TypeInv
  BY InitialState DEF UpdateInv
<1>2. TypeInv /\ [Next]_vars => TypeInv'
  BY TypeStep
<1>3. TypeInv => TypeOK
  BY DEF TypeInv
<1>4. QED
  BY <1>1, <1>2, <1>3, PTL DEF Spec

(***************************************************************************)
(* The active release changes as the updater promises                      *)
(***************************************************************************)

\* Nothing the promise depends on changes.
Aside ==
  /\ UNCHANGED <<active, lock, previous, checked>>
  /\ lock # None =>
       /\ pc'[lock] \in Unverified <=> pc[lock] \in Unverified
       /\ pc'[lock] = "killed" <=> pc[lock] = "killed"
       /\ target'[lock] = target[lock]

LEMMA AsideKeepsPromise ==
  ASSUME TypeOK, Aside
  PROVE  PromisedFiles' = PromisedFiles /\ PromisedVerdict' = PromisedVerdict
<1>1. PromisedFiles' = PromisedFiles
  BY DEF Aside, PromisedFiles
<1>2. ASSUME NEW w \in Worker
      PROVE  PromisedVerdict'[w] = PromisedVerdict[w]
  BY <1>2, DashboardAssumption DEF Aside, PromisedVerdict
<1>3. QED
  BY <1>1, <1>2 DEF PromisedVerdict

\* A verdict that changes for one worker only.
LEMMA OneVerdict ==
  ASSUME NEW w \in Worker, NEW x, PromisedVerdict'[w] = x,
         \A u \in Worker \ {w} : PromisedVerdict'[u] = PromisedVerdict[u]
  PROVE  PromisedVerdict' = [PromisedVerdict EXCEPT ![w] = x]
<1>1. PromisedVerdict = [u \in Worker |-> PromisedVerdict[u]]
  BY DEF PromisedVerdict
<1>2. PromisedVerdict' = [u \in Worker |-> PromisedVerdict'[u]]
  BY DEF PromisedVerdict
<1>3. QED
  BY <1>1, <1>2

\* Every step keeps the lock's invariant.
LEMMA LockStep ==
  ASSUME TypeInv, LockInv, [Next]_vars
  PROVE  LockInv'
<1> USE DashboardAssumption
    DEF TypeInv, TypeOK, LockInv, Locking, Unverified, Early, Phase, Over, workerVars, dashVars, vars, Step
<1>1. ASSUME \/ Appear \/ Crash \/ Stop \/ CheckUpdate \/ View \/ Install \/ LoadManaged
             \/ LoadStatus \/ Reconcile \/ StartUpdate \/ Age \/ UNCHANGED vars
      PROVE  LockInv'
  <2>1. UNCHANGED <<active, lock, pc, target, previous, checked>>
    BY <1>1 DEF Appear, Crash, Stop, CheckUpdate, View, Install, LoadManaged, LoadStatus,
       Reconcile, StartUpdate, Age
  <2>2. QED
    BY <2>1
<1>2. CASE Launch
  BY <1>2 DEF Launch
<1>3. ASSUME NEW w \in Worker, Begin(w) PROVE LockInv'
  BY <1>3 DEF Begin
<1>4. ASSUME NEW w \in Worker, RequestShutdown(w) PROVE LockInv'
  BY <1>4 DEF RequestShutdown
<1>5. ASSUME NEW w \in Worker, PortIsFree(w) PROVE LockInv'
  BY <1>5 DEF PortIsFree
<1>6. ASSUME NEW w \in Worker, Acquire(w) PROVE LockInv'
  BY <1>6 DEF Acquire, Chosen, Installing, Version
<1>7. ASSUME NEW w \in Worker, Activate(w) PROVE LockInv'
  BY <1>7 DEF Activate
<1>8. ASSUME NEW w \in Worker, Restart(w) PROVE LockInv'
  BY <1>8 DEF Restart
<1>9. ASSUME NEW w \in Worker, Verify(w) PROVE LockInv'
  BY <1>9 DEF Verify
<1>10. ASSUME NEW w \in Worker, Rollback(w) PROVE LockInv'
  BY <1>10 DEF Rollback, Chosen, Installing, Version
<1>11. ASSUME NEW w \in Worker, Commit(w) PROVE LockInv'
  BY <1>11 DEF Commit
<1>12. ASSUME NEW w \in Worker, RecordSuccess(w) PROVE LockInv'
  BY <1>12 DEF RecordSuccess
<1>13. ASSUME NEW w \in Worker, RecordError(w) PROVE LockInv'
  BY <1>13 DEF RecordError
<1>14. ASSUME NEW w \in Worker, Relaunch(w) PROVE LockInv'
  BY <1>14 DEF Relaunch
<1>15. ASSUME NEW w \in Worker, VerifyRelaunch(w) PROVE LockInv'
  BY <1>15 DEF VerifyRelaunch
<1>16. ASSUME NEW w \in Worker, Kill(w) PROVE LockInv'
  BY <1>16 DEF Kill, Living
<1>17. QED
  BY ONLY [Next]_vars, <1>1, <1>2, <1>3, <1>4, <1>5, <1>6, <1>7, <1>8,
          <1>9, <1>10, <1>11, <1>12, <1>13, <1>14, <1>15, <1>16
     DEF Next, Handle, DashboardStep, WorkerStep

\* Every step is one of the promise, or changes nothing of it.
LEMMA PromiseStep ==
  ASSUME TypeInv, LockInv, [Next]_vars
  PROVE  Promise!Next \/ UNCHANGED <<PromisedFiles, PromisedVerdict>>
<1> DEFINE Kept == Promise!Next \/ UNCHANGED <<PromisedFiles, PromisedVerdict>>
<1> USE DashboardAssumption DEF TypeInv, TypeOK, LockInv, workerVars, dashVars, vars, Step
<1>a. Aside => Kept
  BY AsideKeepsPromise
<1>1. ASSUME \/ Appear \/ Crash \/ Stop \/ CheckUpdate \/ View \/ Install \/ LoadManaged
             \/ LoadStatus \/ Reconcile \/ StartUpdate \/ Age \/ UNCHANGED vars
      PROVE  Kept
  <2>1. UNCHANGED <<active, lock, pc, target, previous, checked>>
    BY <1>1 DEF Appear, Crash, Stop, CheckUpdate, View, Install, LoadManaged, LoadStatus,
       Reconcile, StartUpdate, Age
  <2>2. QED
    BY <2>1, <1>a DEF Aside
<1>2. CASE Launch
  <2>1. Aside
    BY <1>2 DEF Launch, Aside, Locking, Unverified
  <2>2. QED
    BY <2>1, <1>a
<1>3. ASSUME NEW w \in Worker, Begin(w) PROVE Kept
  <2>1. Aside
    BY <1>3 DEF Begin, Aside, Locking, Unverified
  <2>2. QED
    BY <2>1, <1>a
<1>4. ASSUME NEW w \in Worker, RequestShutdown(w) PROVE Kept
  <2>1. Aside
    BY <1>4 DEF RequestShutdown, Aside, Locking, Unverified
  <2>2. QED
    BY <2>1, <1>a
<1>5. ASSUME NEW w \in Worker, PortIsFree(w) PROVE Kept
  <2>1. Aside
    BY <1>5 DEF PortIsFree, Aside, Locking, Unverified
  <2>2. QED
    BY <2>1, <1>a
<1>6. ASSUME NEW w \in Worker, RecordSuccess(w) PROVE Kept
  <2>1. Aside
    BY <1>6 DEF RecordSuccess, Aside, Locking, Unverified
  <2>2. QED
    BY <2>1, <1>a
<1>7. ASSUME NEW w \in Worker, RecordError(w) PROVE Kept
  <2>1. Aside
    BY <1>7 DEF RecordError, Aside, Locking, Unverified
  <2>2. QED
    BY <2>1, <1>a
<1>8. ASSUME NEW w \in Worker, Restart(w) PROVE Kept
  <2>1. Aside
    BY <1>8 DEF Restart, Aside, Locking, Unverified
  <2>2. QED
    BY <2>1, <1>a
<1>9. ASSUME NEW w \in Worker, Relaunch(w) PROVE Kept
  <2>1. Aside
    BY <1>9 DEF Relaunch, Aside, Locking, Unverified
  <2>2. QED
    BY <2>1, <1>a
<1>10. ASSUME NEW w \in Worker, VerifyRelaunch(w) PROVE Kept
  <2>1. Aside
    BY <1>10 DEF VerifyRelaunch, Aside, Locking, Unverified
  <2>2. QED
    BY <2>1, <1>a
<1>11. ASSUME NEW w \in Worker, Acquire(w) PROVE Kept
  <2>1. CASE pc'[w] = "locked"
    <3>1. PromisedFiles' = PromisedFiles
      BY <1>11, <2>1 DEF Acquire, PromisedFiles, Locking, Unverified, Early, Version
    <3>2. PromisedVerdict[w] = "none"
      BY <1>11, <2>1 DEF Acquire, PromisedVerdict, Locking, Unverified, Early, Version
    <3>3. PromisedVerdict'[w] = "open"
      BY <1>11, <2>1 DEF Acquire, PromisedVerdict, Locking, Unverified, Early, Version
    <3>4. \A u \in Worker \ {w} : PromisedVerdict'[u] = PromisedVerdict[u]
      BY <1>11, <2>1 DEF Acquire, PromisedVerdict, Locking, Unverified, Early, Version
    <3>5. PromisedVerdict' = [PromisedVerdict EXCEPT ![w] = "open"]
      BY <3>3, <3>4, OneVerdict
    <3>6. Promise!Open(w)
      BY <3>1, <3>2, <3>5 DEF Promise!Open
    <3>7. QED
      BY <3>6 DEF Promise!Next
  <2>2. CASE pc'[w] # "locked"
    <3>1. Aside
      BY <1>11, <2>2 DEF Acquire, Aside, Locking, Unverified
    <3>2. QED
      BY <3>1, <1>a
  <2>3. QED
    BY <2>1, <2>2
<1>12. ASSUME NEW w \in Worker, Activate(w) PROVE Kept
  <2>1. CASE pc'[w] = "activated"
    <3>1. PromisedFiles' = PromisedFiles
      BY <1>12, <2>1 DEF Activate, PromisedFiles, Locking, Unverified
    <3>2. \A u \in Worker : PromisedVerdict'[u] = PromisedVerdict[u]
      BY <1>12, <2>1 DEF Activate, PromisedVerdict, Locking, Unverified
    <3>3. QED
      BY <3>1, <3>2 DEF PromisedVerdict
  <2>2. CASE pc'[w] # "activated"
    <3>1. PromisedFiles' = PromisedFiles
      BY <1>12, <2>2 DEF Activate, PromisedFiles, Locking, Unverified, Early
    <3>2. PromisedVerdict[w] = "open"
      BY <1>12, <2>2 DEF Activate, PromisedVerdict, Locking, Unverified, Early
    <3>3. PromisedVerdict'[w] = "failed"
      BY <1>12, <2>2 DEF Activate, PromisedVerdict, Locking, Unverified, Early
    <3>4. \A u \in Worker \ {w} : PromisedVerdict'[u] = PromisedVerdict[u]
      BY <1>12, <2>2 DEF Activate, PromisedVerdict, Locking, Unverified, Early
    <3>5. PromisedVerdict' = [PromisedVerdict EXCEPT ![w] = "failed"]
      BY <3>3, <3>4, OneVerdict
    <3>6. Promise!GiveUp(w)
      BY <3>1, <3>2, <3>5 DEF Promise!GiveUp
    <3>7. QED
      BY <3>6 DEF Promise!Next
  <2>3. QED
    BY <2>1, <2>2
<1>13. ASSUME NEW w \in Worker, Verify(w) PROVE Kept
  <2>1. CASE pc'[w] = "verified"
    <3>1. PromisedFiles' = [f \in {"active_version"} |-> active]
      BY <1>13, <2>1 DEF Verify, PromisedFiles, Locking, Unverified, Early
    <3>2. PromisedVerdict[w] = "open"
      BY <1>13, <2>1 DEF Verify, PromisedVerdict, Locking, Unverified, Early
    <3>3. PromisedVerdict'[w] = "committed"
      BY <1>13, <2>1 DEF Verify, PromisedVerdict, Locking, Unverified, Early
    <3>4. \A u \in Worker \ {w} : PromisedVerdict'[u] = PromisedVerdict[u]
      BY <1>13, <2>1 DEF Verify, PromisedVerdict, Locking, Unverified, Early
    <3>5. PromisedVerdict' = [PromisedVerdict EXCEPT ![w] = "committed"]
      BY <3>3, <3>4, OneVerdict
    <3>6. Promise!Commit(w, active)
      BY <3>1, <3>2, <3>5 DEF Promise!Commit, Version
    <3>7. QED
      BY <3>6 DEF Promise!Next
  <2>2. CASE pc'[w] # "verified"
    <3>1. Aside
      BY <1>13, <2>2 DEF Verify, Aside, Locking, Unverified
    <3>2. QED
      BY <3>1, <1>a
  <2>3. QED
    BY <2>1, <2>2
<1>14. ASSUME NEW w \in Worker, Rollback(w) PROVE Kept
  <2>1. PromisedFiles' = PromisedFiles
    BY <1>14 DEF Rollback, PromisedFiles, Locking, Unverified, Early
  <2>2. PromisedVerdict[w] = "open"
    BY <1>14 DEF Rollback, PromisedVerdict, Locking, Unverified, Early
  <2>3. PromisedVerdict'[w] = "failed"
    BY <1>14 DEF Rollback, PromisedVerdict, Locking, Unverified, Early
  <2>4. \A u \in Worker \ {w} : PromisedVerdict'[u] = PromisedVerdict[u]
    BY <1>14 DEF Rollback, PromisedVerdict, Locking, Unverified, Early
  <2>5. PromisedVerdict' = [PromisedVerdict EXCEPT ![w] = "failed"]
    BY <2>3, <2>4, OneVerdict
  <2>6. Promise!GiveUp(w)
    BY <2>1, <2>2, <2>5 DEF Promise!GiveUp
  <2>7. QED
    BY <2>6 DEF Promise!Next
<1>15. ASSUME NEW w \in Worker, Commit(w) PROVE Kept
  <2>1. PromisedFiles' = PromisedFiles
    BY <1>15 DEF Commit, PromisedFiles, Locking, Unverified
  <2>2. \A u \in Worker : PromisedVerdict'[u] = PromisedVerdict[u]
    BY <1>15 DEF Commit, PromisedVerdict, Locking, Unverified
  <2>3. QED
    BY <2>1, <2>2 DEF PromisedVerdict
<1>16. ASSUME NEW w \in Worker, Kill(w) PROVE Kept
  <2>1. CASE lock # w
    <3>1. Aside
      BY <1>16, <2>1 DEF Kill, Aside
    <3>2. QED
      BY <3>1, <1>a
  <2>2. CASE lock = w /\ pc[w] \in Unverified
    <3>1. PromisedFiles' = [f \in {"active_version"} |-> active]
      BY <1>16, <2>2 DEF Kill, PromisedFiles, Locking, Unverified, Early, Living, Over
    <3>2. PromisedVerdict[w] = "open"
      BY <1>16, <2>2 DEF Kill, PromisedVerdict, Locking, Unverified, Early, Living, Over
    <3>3. PromisedVerdict'[w] = "committed"
      BY <1>16, <2>2 DEF Kill, PromisedVerdict, Locking, Unverified, Early, Living, Over
    <3>4. \A u \in Worker \ {w} : PromisedVerdict'[u] = PromisedVerdict[u]
      BY <1>16, <2>2 DEF Kill, PromisedVerdict, Locking, Unverified, Early, Living, Over
    <3>5. PromisedVerdict' = [PromisedVerdict EXCEPT ![w] = "committed"]
      BY <3>3, <3>4, OneVerdict
    <3>6. Promise!Commit(w, active)
      BY <3>1, <3>2, <3>5 DEF Promise!Commit, Version
    <3>7. QED
      BY <3>6 DEF Promise!Next
  <2>3. CASE lock = w /\ pc[w] \notin Unverified
    <3>0. pc[w] \in {"locked", "verified"}
      BY <1>16, <2>3 DEF Kill, Living, Over, Locking
    <3>1. PromisedFiles' = PromisedFiles
      BY <1>16, <2>3, <3>0 DEF Kill, PromisedFiles, Unverified
    <3>2. \A u \in Worker : PromisedVerdict'[u] = PromisedVerdict[u]
      BY <1>16, <2>3, <3>0 DEF Kill, PromisedVerdict, Unverified
    <3>3. QED
      BY <3>1, <3>2 DEF PromisedVerdict
  <2>4. QED
    BY <2>1, <2>2, <2>3
<1>17. QED
  BY ONLY [Next]_vars, <1>1, <1>2, <1>3, <1>4, <1>5, <1>6, <1>7, <1>8,
          <1>9, <1>10, <1>11, <1>12, <1>13, <1>14, <1>15, <1>16
     DEF Next, Handle, DashboardStep, WorkerStep

\* Whoever crashes, is killed or overlaps, the active release changes as the
\* updater promises, of any number of workers and releases.
THEOREM DashboardKeepsPromise == Spec => KeepsPromise
<1>1. Init => LockInv /\ Promise!Init
  <2> SUFFICES ASSUME Init PROVE LockInv /\ Promise!Init
    OBVIOUS
  <2> USE DashboardAssumption DEF Init
  <2>1. LockInv
    BY DEF LockInv, Locking, Unverified, Early
  <2>2. PromisedFiles = [f \in {"active_version"} |-> 1] /\ 1 \in Version
    BY DEF PromisedFiles, Version
  <2>3. PromisedVerdict = [w \in Worker |-> "none"]
    BY DEF PromisedVerdict
  <2>4. QED
    BY <2>1, <2>2, <2>3 DEF Promise!Init
<1>2. TypeInv /\ LockInv /\ [Next]_vars => LockInv'
  BY LockStep
<1>3. TypeInv /\ LockInv /\ [Next]_vars => [Promise!Next]_<<PromisedFiles, PromisedVerdict>>
  BY PromiseStep
<1>4. Init => TypeInv
  BY InitialState DEF UpdateInv
<1>5. TypeInv /\ [Next]_vars => TypeInv'
  BY TypeStep
<1>6. QED
  BY <1>1, <1>2, <1>3, <1>4, <1>5, PTL DEF Spec, KeepsPromise, Promise!Spec

(***************************************************************************)
(* What the updates come to                                                *)
(***************************************************************************)

\* No step undoes a release that was verified.
LEMMA VerifiedStep ==
  ASSUME TypeInv, LockInv, VerifiedStays, [Next]_vars
  PROVE  VerifiedStays'
<1> USE DashboardAssumption
    DEF TypeInv, TypeOK, Chosen, LockInv, VerifiedStays, Installing, Locking, Unverified, Early,
        Version, workerVars, dashVars, vars, Step
<1>1. ASSUME \/ Appear \/ Crash \/ Stop \/ CheckUpdate \/ View \/ Install \/ LoadManaged
             \/ LoadStatus \/ Reconcile \/ StartUpdate \/ Age \/ UNCHANGED vars
      PROVE  VerifiedStays'
  <2>1. UNCHANGED <<active, pc, target, previous, checked>>
    BY <1>1 DEF Appear, Crash, Stop, CheckUpdate, View, Install, LoadManaged, LoadStatus,
       Reconcile, StartUpdate, Age
  <2>2. QED
    BY <2>1
<1>2. CASE Launch
  BY <1>2 DEF Launch
<1>3. ASSUME NEW w \in Worker,
             \/ Begin(w) \/ RequestShutdown(w) \/ PortIsFree(w) \/ Restart(w) \/ Commit(w)
             \/ RecordSuccess(w) \/ RecordError(w) \/ Relaunch(w) \/ VerifyRelaunch(w) \/ Kill(w)
      PROVE  VerifiedStays'
  <2>1. UNCHANGED <<active, target, previous, checked>>
    BY <1>3 DEF Begin, RequestShutdown, PortIsFree, Restart, Commit, RecordSuccess, RecordError,
       Relaunch, VerifyRelaunch, Kill
  <2>2. \A v \in Worker : pc'[v] \in Installing => pc[v] \in Installing
    BY <1>3 DEF Begin, RequestShutdown, PortIsFree, Restart, Commit, RecordSuccess, RecordError,
       Relaunch, VerifyRelaunch, Kill
  <2>3. QED
    BY ONLY <2>1, <2>2, VerifiedStays DEF VerifiedStays
<1>4. ASSUME NEW w \in Worker, Acquire(w) PROVE VerifiedStays'
  BY <1>4 DEF Acquire
<1>5. ASSUME NEW w \in Worker, Activate(w) PROVE VerifiedStays'
  BY <1>5 DEF Activate
<1>6. ASSUME NEW w \in Worker, Verify(w) PROVE VerifiedStays'
  BY <1>6 DEF Verify
<1>7. ASSUME NEW w \in Worker, Rollback(w) PROVE VerifiedStays'
  BY <1>7 DEF Rollback
<1>8. QED
  BY ONLY [Next]_vars, <1>1, <1>2, <1>3, <1>4, <1>5, <1>6, <1>7
     DEF Next, Handle, DashboardStep, WorkerStep

\* A dashboard that is replaced is of the active release.
LEMMA ReplaceActive ==
  ASSUME Replace, UNCHANGED active
  PROVE  RunsActive'
BY DEF Replace, RunsActive

\* A manager that stops leaves nothing that could run.
LEMMA StopActive ==
  ASSUME TypeOK, StopManager
  PROVE  RunsActive'
<1>1. dashboard'.state = "down" /\ ~ supervisor'
  BY DashboardType DEF TypeOK, StopManager
<1>2. QED
  BY <1>1 DEF RunsActive

\* Every step leaves a dashboard of the active release, or somebody who will.
LEMMA ActiveStep ==
  ASSUME TypeInv, LockInv, RunsActive, [Next]_vars
  PROVE  RunsActive'
<1> USE DEF TypeInv, TypeOK, workerVars, dashVars, vars, Step
<1>1. CASE Appear
  <2>1. UNCHANGED <<active, pc, checked>>
    BY <1>1 DEF Appear
  <2>2. CASE supervisor
    <3>1. dashboard \in Dashboard
      OBVIOUS
    <3>2. [dashboard EXCEPT !.state = "booting"].version = dashboard.version
      BY <3>1, DashboardType
    <3>3. dashboard' = [dashboard EXCEPT !.state = "booting"]
      BY ONLY <1>1, <2>2 DEF Appear
    <3>4. QED
      BY <2>1, <2>2, <3>2, <3>3 DEF RunsActive, WillReplace
  <2>3. CASE ~ supervisor
    BY <1>1, <2>1, <2>3 DEF Appear, RunsActive
  <2>4. QED
    BY <2>2, <2>3
<1>2. ASSUME Crash \/ Stop PROVE RunsActive'
  <2>1. UNCHANGED <<active, pc, checked>> /\ (supervisor' => supervisor)
    BY <1>2 DEF Crash, Stop
  <2>2. dashboard \in Dashboard
    OBVIOUS
  <2>3. [dashboard EXCEPT !.state = "down"].version = dashboard.version
    BY <2>2, DashboardType
  <2>4. dashboard.state # "down" /\ dashboard' = [dashboard EXCEPT !.state = "down"]
    BY ONLY <1>2 DEF Crash, Stop
  <2>5. QED
    BY <2>1, <2>3, <2>4 DEF RunsActive, WillReplace
<1>3. ASSUME \/ CheckUpdate \/ View \/ Install \/ LoadManaged \/ LoadStatus \/ StartUpdate \/ Age
             \/ UNCHANGED vars
      PROVE  RunsActive'
  <2>1. UNCHANGED <<active, pc, checked, dashboard, supervisor>>
    BY <1>3 DEF CheckUpdate, View, Install, LoadManaged, LoadStatus, StartUpdate, Age
  <2>2. QED
    BY <2>1 DEF RunsActive, WillReplace
<1>4. CASE Reconcile
  <2>1. UNCHANGED <<active, pc, checked, supervisor>>
    BY <1>4 DEF Reconcile
  <2>2. /\ dashboard'.version = dashboard.version
        /\ dashboard'.state # "down" => dashboard.state # "down"
    BY <1>4, DashboardType DEF Reconcile
  <2>3. QED
    BY <2>1, <2>2 DEF RunsActive, WillReplace
<1>5. CASE Launch
  <2>1. UNCHANGED <<active, checked, dashboard, supervisor>>
    BY <1>5 DEF Launch
  <2>2. \A w \in Worker : WillReplace(w) => WillReplace(w)'
    BY <1>5 DEF Launch, WillReplace
  <2>3. QED
    BY <2>1, <2>2 DEF RunsActive
<1>6. ASSUME NEW w \in Worker, RequestShutdown(w) PROVE RunsActive'
  <2>1. UNCHANGED <<active, checked, supervisor>>
    BY <1>6 DEF RequestShutdown
  <2>2. \A v \in Worker : WillReplace(v) => WillReplace(v)'
    BY <1>6 DEF RequestShutdown, WillReplace
  <2>3. /\ dashboard'.version = dashboard.version
        /\ dashboard'.state # "down" => dashboard.state # "down"
    BY <1>6, DashboardType DEF RequestShutdown
  <2>4. QED
    BY <2>1, <2>2, <2>3 DEF RunsActive
<1>7. ASSUME NEW w \in Worker,
             \/ Begin(w) \/ PortIsFree(w) \/ Acquire(w) \/ Commit(w) \/ RecordSuccess(w)
             \/ RecordError(w) \/ Kill(w)
      PROVE  RunsActive'
  <2>1. UNCHANGED <<active, dashboard, supervisor, checked>>
    BY <1>7 DEF Begin, PortIsFree, Acquire, Commit, RecordSuccess, RecordError, Kill
  <2>2. \A v \in Worker : WillReplace(v) => WillReplace(v)'
    BY <1>7 DEF Begin, PortIsFree, Acquire, Commit, RecordSuccess, RecordError, Kill, WillReplace
  <2>3. QED
    BY <2>1, <2>2 DEF RunsActive
<1>8. ASSUME NEW w \in Worker, Activate(w) PROVE RunsActive'
  <2>1. CASE pc'[w] = "activated"
    BY <2>1 DEF RunsActive, WillReplace
  <2>2. CASE pc'[w] # "activated"
    <3>1. UNCHANGED <<active, dashboard, supervisor, checked>>
      BY <1>8, <2>2 DEF Activate
    <3>2. \A v \in Worker : WillReplace(v) => WillReplace(v)'
      BY <1>8, <2>2 DEF Activate, WillReplace
    <3>3. QED
      BY <3>1, <3>2 DEF RunsActive
  <2>3. QED
    BY <2>1, <2>2
<1>9. ASSUME NEW w \in Worker, Restart(w) \/ Relaunch(w) PROVE RunsActive'
  BY <1>9, ReplaceActive DEF Restart, Relaunch
<1>10. ASSUME NEW w \in Worker, Verify(w) PROVE RunsActive'
  <2>1. CASE StopManager
    BY <2>1, StopActive
  <2>2. CASE ~ StopManager
    <3>1. UNCHANGED <<active, dashboard, supervisor>>
      BY <1>10, <2>2 DEF Verify
    <3>2. \A v \in Worker : WillReplace(v) => WillReplace(v)'
      BY <1>10, <2>2 DEF Verify, WillReplace
    <3>3. QED
      BY <3>1, <3>2 DEF RunsActive
  <2>3. QED
    BY <2>1, <2>2
<1>11. ASSUME NEW w \in Worker, Rollback(w) PROVE RunsActive'
  <2>1. pc'[w] = "failed" /\ ~ checked'[w]
    BY <1>11 DEF Rollback, LockInv, Unverified
  <2>2. QED
    BY <2>1 DEF RunsActive, WillReplace
<1>12. ASSUME NEW w \in Worker, VerifyRelaunch(w) PROVE RunsActive'
  <2>1. CASE StopManager
    BY <2>1, StopActive
  <2>2. CASE ~ StopManager
    <3>1. dashboard' = dashboard /\ active' = active /\ dashboard.version = active
      BY <1>12, <2>2 DEF VerifyRelaunch, Healthy
    <3>2. QED
      BY <3>1 DEF RunsActive
  <2>3. QED
    BY <2>1, <2>2
<1>13. QED
  BY ONLY [Next]_vars, <1>1, <1>2, <1>3, <1>4, <1>5, <1>6, <1>7, <1>8, <1>9, <1>10, <1>11, <1>12
     DEF Next, Handle, DashboardStep, WorkerStep

\* What was disturbed stays so, and a start during a rollback disturbs.
LEMMA Undisturbed ==
  ASSUME [Next]_vars, ~ disturbed'
  PROVE  /\ ~ disturbed
         /\ \A w \in Worker : Appear \/ Restart(w) \/ Relaunch(w) => ~ Someone({"rollback"})
<1> USE DEF workerVars, dashVars
<1>1. ASSUME ObserveStart PROVE ~ disturbed /\ ~ Someone({"rollback"})
  BY <1>1 DEF ObserveStart, Someone
<1>2. ASSUME Appear \/ \E w \in Worker : Restart(w) \/ Relaunch(w) PROVE ObserveStart
  BY <1>2 DEF Appear, Restart, Relaunch, Replace
<1>3. ASSUME ~ Appear, \A w \in Worker : ~ Restart(w) /\ ~ Relaunch(w) PROVE UNCHANGED disturbed
  <2>1. CASE UNCHANGED vars
    BY <2>1 DEF vars
  <2>2. CASE \/ Crash \/ Stop \/ CheckUpdate \/ View \/ Install \/ LoadManaged \/ LoadStatus
             \/ Reconcile \/ StartUpdate \/ Launch \/ Age
    BY <2>2 DEF Crash, Stop, CheckUpdate, View, Install, LoadManaged, LoadStatus, Reconcile,
       StartUpdate, Launch, Age
  <2>3. ASSUME NEW w \in Worker,
               \/ Begin(w) \/ RequestShutdown(w) \/ PortIsFree(w) \/ Acquire(w) \/ Activate(w)
               \/ Rollback(w) \/ Commit(w) \/ RecordSuccess(w) \/ RecordError(w) \/ Kill(w)
        PROVE  UNCHANGED disturbed
    BY <2>3 DEF Begin, RequestShutdown, PortIsFree, Acquire, Activate, Rollback, Commit,
       RecordSuccess, RecordError, Kill
  <2>4. ASSUME NEW w \in Worker, Verify(w) \/ VerifyRelaunch(w) PROVE UNCHANGED disturbed
    BY <2>4 DEF Verify, VerifyRelaunch, StopManager
  <2>5. QED
    BY ONLY [Next]_vars, <1>3, <2>1, <2>2, <2>3, <2>4 DEF Next, Handle, DashboardStep, WorkerStep
<1>4. QED
  BY <1>1, <1>2, <1>3

\* Undisturbed, no dashboard appears while an update rolls back.
LEMMA RolledBackStep ==
  ASSUME TypeInv, RolledBackAlone, [Next]_vars, ~ disturbed'
  PROVE  RolledBackAlone'
<1> USE DEF workerVars, dashVars, vars, Step
<1>1. ASSUME StopManager PROVE RolledBackAlone'
  <2>1. dashboard'.state = "down"
    BY <1>1, DashboardType DEF StopManager, TypeInv, TypeOK
  <2>2. QED
    BY <1>1, <2>1 DEF RolledBackAlone, StopManager, Answered, Idle
<1>2. ASSUME Appear \/ \E w \in Worker : Restart(w) \/ Relaunch(w) PROVE RolledBackAlone'
  <2>1. \A w \in Worker : pc[w] # "rollback"
    BY <1>2, Undisturbed DEF Someone
  <2>2. \A w \in Worker : pc'[w] # "rollback"
    BY <1>2, <2>1 DEF Appear, Restart, Relaunch, TypeInv, TypeOK
  <2>3. QED
    BY <2>2 DEF RolledBackAlone, Someone
<1>3. ASSUME Someone({"rollback"}) PROVE
      ~ (\/ Crash \/ Stop \/ CheckUpdate \/ View \/ Install \/ LoadManaged \/ LoadStatus
         \/ Reconcile \/ StartUpdate \/ Launch)
  <2>1. dashboard.state = "down" /\ job[1] = "idle" /\ job[2] = "none"
    BY <1>3, JobType DEF RolledBackAlone, Idle
  <2>2. QED
    BY <2>1 DEF Crash, Stop, CheckUpdate, View, Install, LoadManaged, LoadStatus, Reconcile,
       StartUpdate, Launch
<1>4. ASSUME \/ Crash \/ Stop \/ CheckUpdate \/ View \/ Install \/ LoadManaged \/ LoadStatus
             \/ Reconcile \/ StartUpdate \/ Launch
      PROVE  RolledBackAlone'
  <2>1. \A w \in Worker : pc[w] # "rollback"
    BY <1>3, <1>4 DEF Someone
  <2>2. \A w \in Worker : pc'[w] # "rollback"
    BY <1>4, <2>1 DEF Crash, Stop, CheckUpdate, View, Install, LoadManaged, LoadStatus, Reconcile,
       StartUpdate, Launch, TypeInv, TypeOK
  <2>3. QED
    BY <2>2 DEF RolledBackAlone, Someone
<1>5. ASSUME UNCHANGED <<dashboard, job>>, \A w \in Worker : pc'[w] = "rollback" => pc[w] = "rollback"
      PROVE  RolledBackAlone'
  BY <1>5 DEF RolledBackAlone, Someone, Idle
<1>6. ASSUME Age \/ UNCHANGED vars PROVE RolledBackAlone'
  BY <1>5, <1>6 DEF Age
<1>7. ASSUME NEW w \in Worker,
             \/ Begin(w) \/ PortIsFree(w) \/ Acquire(w) \/ Activate(w) \/ Rollback(w) \/ Commit(w)
             \/ RecordSuccess(w) \/ RecordError(w) \/ Kill(w)
      PROVE  RolledBackAlone'
  <2>1. UNCHANGED <<dashboard, job>>
    BY <1>7 DEF Begin, PortIsFree, Acquire, Activate, Rollback, Commit, RecordSuccess, RecordError,
       Kill
  <2>2. \A v \in Worker : pc'[v] = "rollback" => pc[v] = "rollback"
    BY <1>7 DEF Begin, PortIsFree, Acquire, Activate, Rollback, Commit, RecordSuccess, RecordError,
       Kill, TypeInv, TypeOK
  <2>3. QED
    BY <1>5, <2>1, <2>2
<1>8. ASSUME NEW w \in Worker, RequestShutdown(w) PROVE RolledBackAlone'
  <2>1. \A v \in Worker : pc'[v] = "rollback" => pc[v] = "rollback"
    BY <1>8 DEF RequestShutdown, TypeInv, TypeOK
  <2>2. Someone({"rollback"}) => UNCHANGED <<dashboard, job>>
    BY <1>8 DEF RequestShutdown, RolledBackAlone
  <2>3. QED
    BY <2>1, <2>2 DEF RolledBackAlone, Someone, Idle
<1>9. ASSUME NEW w \in Worker, Verify(w) PROVE RolledBackAlone'
  <2>1. CASE StopManager
    BY <1>1, <2>1
  <2>2. CASE ~ StopManager
    <3>1. UNCHANGED <<dashboard, job>> /\ \A v \in Worker : pc'[v] = "rollback" => pc[v] = "rollback"
      BY <1>9, <2>2 DEF Verify, TypeInv, TypeOK
    <3>2. QED
      BY <1>5, <3>1
  <2>3. QED
    BY <2>1, <2>2
<1>10. ASSUME NEW w \in Worker, VerifyRelaunch(w) PROVE RolledBackAlone'
  <2>1. CASE StopManager
    BY <1>1, <2>1
  <2>2. CASE ~ StopManager
    <3>1. UNCHANGED <<dashboard, job>> /\ \A v \in Worker : pc'[v] = "rollback" => pc[v] = "rollback"
      BY <1>10, <2>2 DEF VerifyRelaunch, TypeInv, TypeOK
    <3>2. QED
      BY <1>5, <3>1
  <2>3. QED
    BY <2>1, <2>2
<1>11. QED
  BY ONLY [Next]_vars, <1>2, <1>4, <1>6, <1>7, <1>8, <1>9, <1>10
     DEF Next, Handle, DashboardStep, WorkerStep

\* Then no request is under way, and the active release only grows.
LEMMA ReadStep ==
  ASSUME TypeInv, LockInv, VerifiedStays, RolledBackAlone, ReadBefore, [Next]_vars
  PROVE  ReadBefore'
<1> USE DEF workerVars, dashVars, vars, Step
<1>1. ASSUME job'[2] = "none" PROVE ReadBefore'
  BY <1>1 DEF ReadBefore
<1>2. ASSUME UNCHANGED <<active, job, seen>> PROVE ReadBefore'
  BY <1>2 DEF ReadBefore
<1>3. ASSUME Answered PROVE ReadBefore'
  BY <1>1, <1>3, JobType DEF Answered
<1>4. ASSUME Appear \/ View \/ Install \/ Crash \/ Stop PROVE ReadBefore'
  BY <1>1, <1>3, <1>4, JobType DEF Appear, View, Install, Crash, Stop
<1>5. CASE LoadManaged
  <2>1. seen'.active = active /\ active' = active
    BY <1>5, SeenType DEF LoadManaged, TypeInv, TypeOK
  <2>2. QED
    BY <2>1, Numbers DEF ReadBefore
<1>6. CASE LoadStatus
  <2>1. seen'.active = seen.active /\ active' = active /\ job[2] = "managed"
    BY <1>6, SeenType DEF LoadStatus, TypeInv, TypeOK
  <2>2. QED
    BY <2>1 DEF ReadBefore
<1>7. CASE Reconcile
  <2>1. CASE Answered
    BY <1>3, <2>1
  <2>2. CASE ~ Answered
    BY <1>7, <2>2, JobType DEF Reconcile, ReadBefore
  <2>3. QED
    BY <2>1, <2>2
<1>8. CASE StartUpdate \/ Launch
  BY <1>3, <1>8, JobType DEF StartUpdate, Launch, ReadBefore
<1>9. CASE Age
  <2>1. seen'.active = seen.active /\ UNCHANGED <<active, job>>
    BY <1>9, SeenType DEF Age, TypeInv, TypeOK
  <2>2. QED
    BY <2>1 DEF ReadBefore
<1>10. CASE CheckUpdate \/ UNCHANGED vars
  BY <1>2, <1>10 DEF CheckUpdate
<1>11. ASSUME NEW w \in Worker,
              \/ Begin(w) \/ PortIsFree(w) \/ Acquire(w) \/ Commit(w) \/ RequestShutdown(w)
              \/ RecordSuccess(w) \/ RecordError(w) \/ Kill(w)
       PROVE  ReadBefore'
  <2>1. UNCHANGED <<active, job, seen>>
    BY <1>11 DEF Begin, PortIsFree, Acquire, Commit, RequestShutdown, RecordSuccess, RecordError,
       Kill
  <2>2. QED
    BY <1>2, <2>1
<1>12. ASSUME NEW w \in Worker, Activate(w) PROVE ReadBefore'
  <2>1. UNCHANGED <<job, seen>> /\ (active' = active \/ active' = target[w])
    BY <1>12 DEF Activate
  <2>2. active < target[w]
    BY <1>12 DEF Activate, LockInv, VerifiedStays, Installing
  <2>3. active' >= active
    BY <2>1, <2>2, Numbers
  <2>4. QED
    BY <2>1, <2>2, <2>3, Numbers DEF ReadBefore
<1>13. ASSUME NEW w \in Worker, Rollback(w) PROVE ReadBefore'
  <2>1. Idle /\ job' = job
    BY <1>13 DEF Rollback, RolledBackAlone, Someone
  <2>2. QED
    BY <1>1, <2>1, JobType DEF Idle
<1>14. ASSUME NEW w \in Worker, Restart(w) \/ Relaunch(w) PROVE ReadBefore'
  BY <1>1, <1>14, JobType DEF Restart, Relaunch, Replace
<1>15. ASSUME NEW w \in Worker, Verify(w) \/ VerifyRelaunch(w) PROVE ReadBefore'
  BY <1>2, <1>3, <1>15 DEF Verify, VerifyRelaunch, StopManager
<1>16. QED
  BY ONLY [Next]_vars, <1>4, <1>5, <1>6, <1>7, <1>8, <1>9, <1>10, <1>11, <1>12, <1>13, <1>14,
     <1>15
     DEF Next, Handle, DashboardStep, WorkerStep

\* A success is true, or a worker that failed has yet to say so.
LEMMA KnownStep ==
  ASSUME TypeInv, LockInv, VerifiedStays, ReadBefore, SuccessKnown, [Next]_vars
  PROVE  SuccessKnown'
<1> USE DEF workerVars, dashVars, vars, Step
<1> DEFINE Failed == {"failed", "killed"}
<1>1. ASSUME status'.state # "success" PROVE SuccessKnown'
  BY <1>1 DEF SuccessKnown
<1>2. ASSUME UNCHANGED <<active, pc>>,
             status'.state = status.state /\ status'.target = status.target
      PROVE  SuccessKnown'
  BY <1>2 DEF SuccessKnown, Someone
<1>3. ASSUME \/ Appear \/ Crash \/ Stop \/ CheckUpdate \/ View \/ Install \/ LoadManaged
             \/ LoadStatus \/ UNCHANGED vars
      PROVE  SuccessKnown'
  BY <1>2, <1>3 DEF Appear, Crash, Stop, CheckUpdate, View, Install, LoadManaged, LoadStatus
<1>4. CASE Reconcile
  <2>1. UNCHANGED <<active, pc>>
    BY <1>4 DEF Reconcile
  <2>2. CASE Reconciled = seen.status
    <3>1. status' = status
      BY <1>4, <2>2 DEF Reconcile
    <3>2. QED
      BY <1>2, <2>1, <3>1
  <2>3. CASE Reconciled # seen.status
    <3>1. status' = Reconciled
      BY <1>4, <2>3 DEF Reconcile
    <3>2. Reconciled.target = seen.status.target
      BY <2>3, ReconciledType DEF TypeInv
    <3>3. Reconciled.state = "success" => seen.status.target = seen.active
      BY <2>3, ReconciledType DEF TypeInv
    <3>4. seen.active <= active
      BY <1>4 DEF Reconcile, ReadBefore
    <3>5. QED
      BY <2>1, <3>1, <3>2, <3>3, <3>4 DEF SuccessKnown
  <2>4. QED
    BY <2>2, <2>3
<1>5. CASE StartUpdate
  <2>1. Says("preparing", release, None) \in Status
        /\ Says("preparing", release, None).state = "preparing"
    BY SaysType DEF TypeInv, TypeOK, InProgress
  <2>2. status'.state = "preparing"
    BY <1>5, <2>1, RecentType DEF StartUpdate
  <2>3. QED
    BY <1>1, <2>2
<1>6. CASE Launch
  <2>1. active' = active /\ \A w \in Worker : pc[w] \in Failed => pc'[w] \in Failed
    BY <1>6, Numbers DEF Launch
  <2>2. CASE status' = status
    BY <2>1, <2>2 DEF SuccessKnown, Someone
  <2>3. CASE status' # status
    <3>1. status'.state = "error"
      BY <1>6, <2>3, SaysType DEF Launch, TypeInv, TypeOK, Verdict
    <3>2. QED
      BY <1>1, <3>1
  <2>4. QED
    BY <2>2, <2>3
<1>7. CASE Age
  <2>1. status \in Status
    BY DEF TypeInv, TypeOK
  <2>2. status'.state = status.state /\ status'.target = status.target
    BY <1>7, <2>1, AgedType DEF Age
  <2>3. UNCHANGED <<active, pc>>
    BY <1>7 DEF Age
  <2>4. QED
    BY <1>2, <2>2, <2>3
<1>8. \A w \in Worker : target[w] \in Version \cup {0}
  BY DEF TypeInv, TypeOK
<1>9. ASSUME NEW w \in Worker, Begin(w) PROVE SuccessKnown'
  <2>1. /\ Says("preparing", target[w], w).state = "preparing"
        /\ Says("error", target[w], None).state = "error"
    BY <1>8, SaysType DEF InProgress, Verdict
  <2>2. QED
    BY <1>1, <1>9, <2>1 DEF Begin
<1>10. ASSUME NEW w \in Worker, RequestShutdown(w) \/ Acquire(w) \/ Restart(w) \/ Commit(w)
                                \/ Relaunch(w) \/ VerifyRelaunch(w) \/ Verify(w)
       PROVE  SuccessKnown'
  <2>1. UNCHANGED <<active, status>> /\ pc[w] # "failed" /\ pc[w] # "killed"
    BY <1>10 DEF RequestShutdown, Acquire, Restart, Commit, Relaunch, VerifyRelaunch, Verify
  <2>2. \A v \in Worker : v # w => pc'[v] = pc[v]
    BY <1>10, Numbers DEF RequestShutdown, Acquire, Restart, Commit, Relaunch, VerifyRelaunch,
       Verify
  <2>3. QED
    BY <2>1, <2>2 DEF SuccessKnown, Someone
<1>11. ASSUME NEW w \in Worker, PortIsFree(w) PROVE SuccessKnown'
  <2>1. CASE pc'[w] = "running"
    <3>1. Says("running", target[w], w).state = "running"
      BY <1>8, SaysType DEF InProgress
    <3>2. status'.state = "running"
      BY <1>11, <2>1, <3>1, Numbers DEF PortIsFree
    <3>3. QED
      BY <1>1, <3>2
  <2>2. CASE pc'[w] # "running"
    <3>1. pc'[w] = "failed"
      BY <1>11, <2>2, Numbers DEF PortIsFree
    <3>2. QED
      BY <3>1 DEF SuccessKnown, Someone
  <2>3. QED
    BY <2>1, <2>2
<1>12. ASSUME NEW w \in Worker, Activate(w) PROVE SuccessKnown'
  <2>1. UNCHANGED status /\ (active' = active \/ active' = target[w])
    BY <1>12 DEF Activate
  <2>2. active < target[w]
    BY <1>12 DEF Activate, LockInv, VerifiedStays, Installing
  <2>3. status.target <= active => status.target <= active'
    BY <2>1, <2>2, Numbers
  <2>4. \A v \in Worker : pc[v] \in Failed => pc'[v] \in Failed
    BY <1>12, Numbers DEF Activate
  <2>5. QED
    BY <2>1, <2>3, <2>4 DEF SuccessKnown, Someone
<1>13. ASSUME NEW w \in Worker, Rollback(w) PROVE SuccessKnown'
  <2>1. pc'[w] = "failed"
    BY <1>13, Numbers DEF Rollback
  <2>2. QED
    BY <2>1 DEF SuccessKnown, Someone
<1>14. ASSUME NEW w \in Worker, RecordSuccess(w) PROVE SuccessKnown'
  <2>1. CASE pc'[w] = "over"
    <3>1. /\ status' = Says("success", target[w], None) /\ active' = active
          /\ pc[w] = "installed"
      BY <1>14, <2>1, Numbers DEF RecordSuccess
    <3>2. target[w] <= active
      BY <3>1 DEF LockInv, VerifiedStays
    <3>3. Says("success", target[w], None).target = target[w]
      BY <1>8, SaysType DEF Verdict
    <3>4. QED
      BY <3>1, <3>2, <3>3 DEF SuccessKnown
  <2>2. CASE pc'[w] # "over"
    <3>1. pc'[w] = "failed"
      BY <1>14, <2>2, Numbers DEF RecordSuccess
    <3>2. QED
      BY <3>1 DEF SuccessKnown, Someone
  <2>3. QED
    BY <2>1, <2>2
<1>15. ASSUME NEW w \in Worker, RecordError(w) PROVE SuccessKnown'
  <2>1. Says("error", target[w], None).state = "error"
    BY <1>8, SaysType DEF Verdict
  <2>2. QED
    BY <1>1, <1>15, <2>1 DEF RecordError
<1>16. ASSUME NEW w \in Worker, Kill(w) PROVE SuccessKnown'
  <2>1. pc'[w] = "killed"
    BY <1>16, Numbers DEF Kill
  <2>2. QED
    BY <2>1 DEF SuccessKnown, Someone
<1>17. QED
  BY ONLY [Next]_vars, <1>3, <1>4, <1>5, <1>6, <1>7, <1>9, <1>10, <1>11, <1>12, <1>13, <1>14,
     <1>15, <1>16
     DEF Next, Handle, DashboardStep, WorkerStep

\* Every step keeps what the updates came to.
LEMMA OutcomeStep == TypeInv /\ LockInv /\ OutcomeInv /\ [Next]_vars => OutcomeInv'
<1> SUFFICES ASSUME TypeInv, LockInv, OutcomeInv, [Next]_vars PROVE OutcomeInv'
  OBVIOUS
<1>1. VerifiedStays /\ RunsActive
  BY DEF OutcomeInv
<1>2. VerifiedStays' /\ RunsActive'
  BY <1>1, VerifiedStep, ActiveStep
<1>3. ASSUME ~ disturbed' PROVE RolledBackAlone' /\ ReadBefore' /\ SuccessKnown'
  <2>1. RolledBackAlone /\ ReadBefore /\ SuccessKnown
    BY <1>3, Undisturbed DEF OutcomeInv
  <2>2. QED
    BY <1>1, <1>3, <2>1, RolledBackStep, ReadStep, KnownStep
<1>4. QED
  BY <1>2, <1>3 DEF OutcomeInv

\* One update at a time changes the active release, a verified release is only
\* replaced by a newer one, and a success that is not true will be corrected:
\* of any number of workers, however they overlap.
THEOREM Order == Spec => []UpdateInv
<1>1. Init => UpdateInv
  BY InitialState
<1>2. UpdateInv /\ [Next]_vars => UpdateInv'
  BY TypeStep, LockStep, OutcomeStep DEF UpdateInv
<1>3. QED
  BY <1>1, <1>2, PTL DEF Spec

\* When nothing is under way any more, a success is that of a release that is
\* active or was replaced by a newer one, unless a dashboard was started during
\* a rollback.
THEOREM SuccessReal == Spec => []SuccessIsReal
<1>1. UpdateInv => SuccessIsReal
  <2> SUFFICES ASSUME UpdateInv PROVE SuccessIsReal
    OBVIOUS
  <2>1. SUFFICES ASSUME Quiet, ~ disturbed, status.state = "success"
                 PROVE  active >= status.target
    BY DEF SuccessIsReal
  <2>2. ~ Someone({"failed", "killed"})
    BY <2>1 DEF Quiet, AllEnded, Someone
  <2>3. status.target <= active
    BY <2>1, <2>2 DEF UpdateInv, OutcomeInv, SuccessKnown
  <2>4. QED
    BY <2>3, Numbers DEF UpdateInv
<1>2. QED
  BY <1>1, Order, PTL

\* When all workers have ended by themselves, the dashboard that runs is that
\* of the active release.
THEOREM DashboardActive == Spec => []DashboardRunsActive
<1>1. UpdateInv => DashboardRunsActive
  BY DEF UpdateInv, OutcomeInv, RunsActive, DashboardRunsActive, AllEnded, WillReplace
<1>2. QED
  BY <1>1, Order, PTL

================================================================================
