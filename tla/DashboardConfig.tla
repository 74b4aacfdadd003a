---------------------------- MODULE DashboardConfig ----------------------------
(***************************************************************************)
(* The settings of one dashboard: DashboardService under its mutex, the    *)
(* three files a save replaces one after the other and puts back when a    *)
(* step fails, and the metadata session whose tasks run in an event loop   *)
(* of their own, behind their own lock, and may outlive the request that   *)
(* submitted them.  Other programs edit the files at any moment, and the   *)
(* process may end at any moment, request threads included.                *)
(*                                                                         *)
(* The content of a file is named for who wrote it.  The settings name one  *)
(* address for the bridge throughout, so one bridge runs at a time.         *)
(***************************************************************************)
EXTENDS Naturals, FiniteSets

CONSTANTS
  Request,   \* the requests of the pages
  KindsOf,   \* what each may ask for
  Main,      \* the dashboard's main thread, which closes the session
  Edit,      \* edits of the files by other programs
  Initial,   \* what the files contain at first
  None

\* Saves of settings, of credentials too, or of another library or JDK, for which
\* the bridge is rebuilt; catalogs; readiness checks.
Kind == {"save", "credentials", "rebuild", "discover", "preflight"}

ASSUME DashboardConfigAssumption ==
  /\ KindsOf \in [Request -> SUBSET Kind]
  /\ Main \notin Request
  /\ Initial \notin Request \cup Edit
  /\ None \notin Request \cup Edit \cup {Main, Initial}
  /\ Request \cap Edit = {}
  /\ {"session", "orphan", "foreign", "probe"} \cap (Request \cup {Main, None}) = {}
  /\ LET author == Request \cup Edit \cup {Initial}
     IN  None \notin author \X author

VARIABLES
  kind,        \* what each request asks for, which never changes
  config,      \* helix.yaml
  dotenv,      \* .env, which names the AR API library and the JDK
  jar,         \* the bridge built for them
  committed,   \* what the files were left with on purpose
  edited,      \* edits of other programs so far
  disturbed,   \* requests during which another program edited a file
  mutex,       \* holder of DashboardService._mutex
  pc,          \* where each request is, or what it was answered
  shown,       \* the contents a page was filled with
  seen,        \* the revision a page knows, or a request computed
  original,    \* what a save has to put back
  task,        \* the task a request submitted to the session's loop
  loaded,      \* the files a task, or the session, loaded its application from
  label,       \* the revision the session takes its application for
  cache,       \* origin of the cached metadata
  answer,      \* origin of the metadata a request was given
  bridge,      \* who is responsible for the bridge that runs, if one does
  main,        \* where the main thread is
  up

diskVars == <<config, dotenv, jar, committed, edited, disturbed>>
requestVars == <<mutex, pc, shown, seen, original, answer>>
sessionVars == <<task, loaded, label, cache, bridge>>
vars == <<kind, diskVars, requestVars, sessionVars, main, up>>

Author == Request \cup Edit \cup {Initial}
Actor == Request \cup {Main}
Session == "session"

Disk == [config |-> config, dotenv |-> dotenv, jar |-> jar]
FileSet == [config : Author, dotenv : Author, jar : Author]

\* sha256 over both files.
Revision == <<config, dotenv>>
Revisions == Author \X Author

Saving == {"save", "credentials", "rebuild"}
Refusal == {"conflict", "refused", "restored"}
Ended == Refusal \cup {"rejected", "saved", "unconfirmed", "unexpected",
                       "served", "error", "report"}

\* Tasks that hold the session's asyncio.Lock.
Holding == {"closing", "starting", "calling", "unwinding"}
Finished == {"done", "failed"}
LockFree == \A a \in Actor : task[a] \notin Holding

Init ==
  /\ kind \in [Request -> Kind]
  /\ \A r \in Request : kind[r] \in KindsOf[r]
  /\ config = Initial /\ dotenv = Initial /\ jar = Initial
  /\ committed = [config |-> Initial, dotenv |-> Initial, jar |-> Initial]
  /\ edited = {}
  /\ disturbed = {}
  /\ mutex = None
  /\ pc = [r \in Request |-> "idle"]
  /\ shown = [r \in Request |-> <<Initial, Initial>>]
  /\ seen = [r \in Request |-> <<Initial, Initial>>]
  /\ original = [r \in Request |->
       [config |-> Initial, dotenv |-> Initial, jar |-> Initial]]
  /\ answer = [r \in Request |-> None]
  /\ task = [a \in Actor |-> "none"]
  /\ loaded = [a \in Actor \cup {Session} |-> None]
  /\ label = None
  /\ cache = None
  /\ bridge = None
  /\ main = "serving"
  /\ up = TRUE

(***************************************************************************)
(* Requests, up to the mutex and out of it                                 *)
(***************************************************************************)

Goto(r, next) == pc' = [pc EXCEPT ![r] = next]

\* Mutant: an error leaves the mutex taken.
EndHolding(r, verdict) ==
  /\ Goto(r, verdict)
  /\ mutex' = IF verdict = "error" THEN mutex ELSE None

\* The request is answered; the mutex is released.
End(r, verdict) ==
  /\ Goto(r, verdict)
  /\ mutex' = None

\* Host, token, origin, length, type or content of the request are refused.
Reject(r) ==
  /\ up
  /\ pc[r] \in {"idle", "page"}
  /\ Goto(r, "rejected")
  /\ UNCHANGED <<kind, diskVars, mutex, shown, seen, original, answer,
                 sessionVars, main, up>>

\* _state, up to the revision: the files are loaded for the page.
State(r) ==
  /\ up /\ mutex = None
  /\ kind[r] \in Saving
  /\ pc[r] = "idle"
  /\ mutex' = r
  /\ shown' = [shown EXCEPT ![r] = Revision]
  /\ Goto(r, "loaded")
  /\ UNCHANGED <<kind, diskVars, seen, original, answer, sessionVars, main, up>>

\* The revision is computed from the files as they are by now.
Show(r) ==
  /\ up /\ pc[r] = "loaded"
  /\ seen' = [seen EXCEPT ![r] = Revision]
  /\ \E next \in {"page", "error"} : End(r, next)
  /\ UNCHANGED <<kind, diskVars, shown, original, answer, sessionVars, main, up>>

\* Mutant: the revision of the page is not compared.
ConfigureUnchecked(r) ==
  /\ up /\ mutex = None
  /\ pc[r] = "page"
  /\ mutex' = r
  /\ Goto(r, "checked")
  /\ UNCHANGED <<kind, diskVars, shown, seen, original, answer, sessionVars, main,
                 up>>

\* configure: the mutex, the revision, and what the request asks for.
Configure(r) ==
  /\ up /\ mutex = None
  /\ pc[r] = "page"
  /\ \/ /\ seen[r] # Revision
        /\ End(r, "conflict")
     \/ /\ seen[r] = Revision
        /\ End(r, "refused")
     \/ /\ seen[r] = Revision
        /\ mutex' = r
        /\ Goto(r, "checked")
  /\ UNCHANGED <<kind, diskVars, shown, seen, original, answer, sessionVars, main,
                 up>>

\* form_catalog and the like, preflight: the mutex and the revision.
Begin(r) ==
  /\ up /\ mutex = None
  /\ kind[r] \notin Saving
  /\ pc[r] = "idle"
  /\ \/ /\ mutex' = r
        /\ seen' = [seen EXCEPT ![r] = Revision]
        /\ Goto(r, "prepared")
     \/ /\ End(r, "error")
        /\ UNCHANGED seen
  /\ UNCHANGED <<kind, diskVars, shown, original, answer, sessionVars, main, up>>

(***************************************************************************)
(* The metadata session                                                    *)
(***************************************************************************)

\* _loop_or_start and _submit: a request that needs the session asks for it.
NeedsSession(r) == kind[r] \notin {"save", "credentials"}

Submit(r) ==
  /\ up /\ pc[r] = "prepared" /\ NeedsSession(r)
  /\ IF main = "serving"
     THEN /\ Goto(r, "asking")
          /\ task' = [task EXCEPT ![r] = "waiting"]
          /\ UNCHANGED mutex
     ELSE /\ IF kind[r] = "rebuild"
             THEN Goto(r, "failing") /\ UNCHANGED mutex
             ELSE End(r, "error")
          /\ UNCHANGED task
  /\ UNCHANGED <<kind, diskVars, shown, seen, original, answer, loaded, label, cache,
                 bridge, main, up>>

\* _close_application, up to its await.
DropApplication ==
  /\ label' = None
  /\ cache' = None

\* load_application reads both files, or fails.
LoadApplication(r) ==
  \/ /\ task' = [task EXCEPT ![r] = "starting"]
     /\ loaded' = [loaded EXCEPT ![r] = Revision]
  \/ /\ task' = [task EXCEPT ![r] = "failed"]
     /\ UNCHANGED loaded

Return(r, origin) ==
  /\ task' = [task EXCEPT ![r] = "done"]
  /\ answer' = [answer EXCEPT ![r] = origin]

\* Mutant: any application that is there will do.
CurrentAny(r) == label # None

\* The session's application is of the files the request found.
Current(r) == label = seen[r]

\* A catalog task gets the lock.
Enter(r) ==
  /\ up /\ task[r] = "waiting" /\ LockFree
  /\ kind[r] = "discover"
  /\ \/ /\ Current(r)
        /\ \/ /\ cache # None
              /\ Return(r, cache)
           \/ /\ task' = [task EXCEPT ![r] = "calling"]
              /\ UNCHANGED answer
        /\ UNCHANGED <<loaded, label, cache, bridge>>
     \/ /\ ~Current(r) /\ label # None
        /\ DropApplication
        /\ task' = [task EXCEPT ![r] = "closing"]
        /\ bridge' = IF bridge = Session THEN r ELSE bridge
        /\ UNCHANGED <<loaded, answer>>
     \/ /\ label = None
        /\ LoadApplication(r)
        /\ DropApplication
        /\ UNCHANGED <<answer, bridge>>
  /\ UNCHANGED <<kind, diskVars, mutex, pc, shown, seen, original, main, up>>

\* application.aclose ends, or raises once the bridge is closed.
Reload(r) ==
  /\ up /\ task[r] = "closing" /\ kind[r] = "discover"
  /\ bridge' = IF bridge = r THEN None ELSE bridge
  /\ LoadApplication(r)
  /\ UNCHANGED <<kind, diskVars, requestVars, label, cache, main, up>>

\* astart: no bridge answers, a child is created.
Spawn(r) ==
  /\ up /\ task[r] = "starting"
  /\ bridge = None
  /\ bridge' = r
  /\ UNCHANGED <<kind, diskVars, requestVars, task, loaded, label, cache, main, up>>

\* astart succeeds, with a child or with a bridge that was there, also that of
\* another gateway process, which stays theirs.
Started(r) ==
  /\ up /\ task[r] = "starting"
  /\ label' = seen[r]
  /\ loaded' = [loaded EXCEPT ![Session] = loaded[r]]
  /\ cache' = None
  /\ bridge' = IF bridge = r THEN Session ELSE bridge
  /\ task' = [task EXCEPT ![r] = "calling"]
  /\ UNCHANGED <<kind, diskVars, requestVars, main, up>>

\* astart raises, and the application is closed.
FailStart(r) ==
  /\ up /\ task[r] = "starting"
  /\ bridge' = IF bridge = r THEN None ELSE bridge
  /\ task' = [task EXCEPT ![r] = "failed"]
  /\ UNCHANGED <<kind, diskVars, requestVars, loaded, label, cache, main, up>>

\* The call of the bridge; what it returns may be cached.
Call(r) ==
  /\ up /\ task[r] = "calling"
  /\ \/ /\ Return(r, loaded[Session])
        /\ cache' \in {cache, loaded[Session]}
     \/ /\ task' = [task EXCEPT ![r] = "failed"]
        /\ UNCHANGED <<answer, cache>>
  /\ UNCHANGED <<kind, diskVars, mutex, pc, shown, seen, original, loaded, label, bridge,
                 main, up>>

\* _aclose, submitted by reset and by close, gets the lock.
Closing(a) == a \in Request => kind[a] # "discover"

EnterClose(a) ==
  /\ up /\ task[a] = "waiting" /\ LockFree
  /\ Closing(a)
  /\ DropApplication
  /\ IF label = None
     THEN /\ task' = [task EXCEPT ![a] = "done"]
          /\ UNCHANGED bridge
     ELSE /\ task' = [task EXCEPT ![a] = "closing"]
          /\ bridge' = IF bridge = Session THEN a ELSE bridge
  /\ UNCHANGED <<kind, diskVars, requestVars, loaded, main, up>>

FinishClose(a) ==
  /\ up /\ task[a] = "closing" /\ Closing(a)
  /\ bridge' = IF bridge = a THEN None ELSE bridge
  /\ \E result \in Finished : task' = [task EXCEPT ![a] = result]
  /\ UNCHANGED <<kind, diskVars, requestVars, loaded, label, cache, main, up>>

\* The task ends: the request's thread goes on.
Reply(r) ==
  /\ up /\ pc[r] = "asking" /\ task[r] \in Finished
  /\ task' = [task EXCEPT ![r] = "none"]
  /\ \/ /\ kind[r] = "discover"
        /\ End(r, IF task[r] = "done" THEN "served" ELSE "error")
     \/ /\ kind[r] # "discover" /\ task[r] = "done"
        /\ Goto(r, "released")
        /\ UNCHANGED mutex
     \/ /\ kind[r] = "rebuild" /\ task[r] = "failed"
        /\ Goto(r, "failing")
        /\ UNCHANGED mutex
     \/ /\ kind[r] = "preflight" /\ task[r] = "failed"
        /\ End(r, "error")
  /\ UNCHANGED <<kind, diskVars, shown, seen, original, answer, loaded, label, cache,
                 bridge, main, up>>

\* A cancelled task gives the lock up once it has unwound.
Cancelled(t) ==
  IF t = "waiting" THEN "none" ELSE IF t \in Holding THEN "unwinding" ELSE t

\* Mutant: a reset that takes too long is taken for done.
TimeoutUnnoticed(r) ==
  /\ up /\ pc[r] = "asking" /\ task[r] \notin Finished
  /\ task' = [task EXCEPT ![r] = Cancelled(@)]
  /\ IF kind[r] = "discover"
     THEN End(r, "error")
     ELSE Goto(r, "released") /\ UNCHANGED mutex
  /\ UNCHANGED <<kind, diskVars, shown, seen, original, answer, loaded, label, cache,
                 bridge, main, up>>

\* future.result(timeout) raises: the task is cancelled.
Timeout(r) ==
  /\ up /\ pc[r] = "asking" /\ task[r] \notin Finished
  /\ task' = [task EXCEPT ![r] = Cancelled(@)]
  /\ IF kind[r] = "rebuild"
     THEN Goto(r, "failing") /\ UNCHANGED mutex
     ELSE End(r, "error")
  /\ UNCHANGED <<kind, diskVars, shown, seen, original, answer, loaded, label, cache,
                 bridge, main, up>>

\* CancelledError passes "except Exception": a bridge that was being started or
\* closed is nobody's, unless it had been told to stop.
Unwind(a) ==
  /\ up /\ task[a] = "unwinding"
  /\ task' = [task EXCEPT ![a] = "none"]
  /\ bridge' \in IF bridge = a THEN {None, "orphan"} ELSE {bridge}
  /\ UNCHANGED <<kind, diskVars, requestVars, loaded, label, cache, main, up>>

(***************************************************************************)
(* A save                                                                  *)
(***************************************************************************)

\* The originals are read, the new contents validated and serialized.
Prepare(r) ==
  /\ up /\ pc[r] = "checked"
  /\ original' = [original EXCEPT ![r] = Disk]
  /\ \/ Goto(r, "prepared") /\ UNCHANGED mutex
     \/ End(r, "refused")
  /\ UNCHANGED <<kind, diskVars, shown, seen, answer, sessionVars, main, up>>

\* build_bridge replaces the JAR in its last step but one, or fails before.
Build(r) ==
  /\ up /\ pc[r] = "released" /\ kind[r] = "rebuild"
  /\ \/ /\ jar' = r
        /\ \/ Goto(r, "built")
           \/ Goto(r, "failing")
     \/ /\ Goto(r, "failing")
        /\ UNCHANGED jar
  /\ UNCHANGED <<kind, config, dotenv, committed, edited, disturbed, mutex, shown,
                 seen, original, answer, sessionVars, main, up>>

WriteConfig(r) ==
  /\ up
  /\ pc[r] = "built" \/ (pc[r] = "prepared" /\ ~NeedsSession(r))
  /\ \/ /\ config' = r
        /\ Goto(r, "half")
     \/ /\ Goto(r, "failing")
        /\ UNCHANGED config
  /\ UNCHANGED <<kind, dotenv, jar, committed, edited, disturbed, mutex, shown,
                 seen, original, answer, sessionVars, main, up>>

\* _updated_dotenv: the same content unless the request changes it.
UpdatedDotenv(r) == IF kind[r] = "save" THEN original[r].dotenv ELSE r

WriteDotenv(r) ==
  /\ up /\ pc[r] = "half"
  /\ \/ /\ dotenv' = UpdatedDotenv(r)
        /\ Goto(r, "written")
     \/ /\ Goto(r, "failing")
        /\ UNCHANGED dotenv
  /\ UNCHANGED <<kind, config, jar, committed, edited, disturbed, mutex, shown,
                 seen, original, answer, sessionVars, main, up>>

\* The files are loaded again.
Verify(r) ==
  /\ up /\ pc[r] = "written"
  /\ \/ /\ committed' = [config |-> r, dotenv |-> UpdatedDotenv(r),
                         jar |-> IF kind[r] = "rebuild" THEN r ELSE committed.jar]
        /\ End(r, "applying")
     \/ /\ Goto(r, "failing")
        /\ UNCHANGED <<committed, mutex>>
  /\ UNCHANGED <<kind, config, dotenv, jar, edited, disturbed, shown, seen,
                 original, answer, sessionVars, main, up>>

\* _apply_saved_configuration and state, outside the mutex: either may raise.
Apply(r) ==
  /\ up /\ pc[r] = "applying" /\ mutex = None
  /\ \E verdict \in {"saved", "unexpected"} : Goto(r, verdict)
  /\ UNCHANGED <<kind, diskVars, mutex, shown, seen, original, answer, sessionVars,
                 main, up>>

RestoreConfig(r) ==
  /\ up /\ pc[r] = "failing"
  /\ \/ /\ config' = original[r].config
        /\ Goto(r, "restoring")
        /\ UNCHANGED mutex
     \/ /\ End(r, "unconfirmed")
        /\ UNCHANGED config
  /\ UNCHANGED <<kind, dotenv, jar, committed, edited, disturbed, shown, seen,
                 original, answer, sessionVars, main, up>>

RestoreDotenv(r) ==
  /\ up /\ pc[r] = "restoring"
  /\ \/ /\ dotenv' = original[r].dotenv
        /\ Goto(r, "clearing")
        /\ UNCHANGED mutex
     \/ /\ End(r, "unconfirmed")
        /\ UNCHANGED dotenv
  /\ UNCHANGED <<kind, config, jar, committed, edited, disturbed, shown, seen,
                 original, answer, sessionVars, main, up>>

\* Mutant: the bridge of the other library stays.
RestoreJarForgetting(r) ==
  /\ up /\ pc[r] = "clearing"
  /\ End(r, "restored")
  /\ UNCHANGED <<kind, diskVars, shown, seen, original, answer, sessionVars, main,
                 up>>

\* The JAR is put back if there was one to rebuild: after a reset that failed,
\* under a bridge that may still run, a file of the same content.
RestoreJar(r) ==
  /\ up /\ pc[r] = "clearing"
  /\ \/ /\ jar' = IF kind[r] = "rebuild" THEN original[r].jar ELSE jar
        /\ End(r, "restored")
     \/ /\ kind[r] = "rebuild"
        /\ End(r, "unconfirmed")
        /\ UNCHANGED jar
  /\ UNCHANGED <<kind, config, dotenv, committed, edited, disturbed, shown, seen,
                 original, answer, sessionVars, main, up>>

\* check_readiness, with an application of its own: a live check may start a
\* bridge, when none answers.
Inspect(r) ==
  /\ up /\ pc[r] = "released" /\ kind[r] = "preflight"
  /\ Goto(r, "inspecting")
  /\ bridge' \in {bridge} \cup {b \in {"probe"} : bridge = None}
  /\ UNCHANGED <<kind, diskVars, mutex, shown, seen, original, answer, task, loaded,
                 label, cache, main, up>>

\* The application is closed whatever the checks found.
Report(r) ==
  /\ up /\ pc[r] = "inspecting"
  /\ bridge' = IF bridge = "probe" THEN None ELSE bridge
  /\ \E verdict \in {"report", "error"} : End(r, verdict)
  /\ UNCHANGED <<kind, diskVars, shown, seen, original, answer, task, loaded, label,
                 cache, main, up>>

(***************************************************************************)
(* The main thread, and the rest of the world                              *)
(***************************************************************************)

\* server_close: close submits _aclose and waits for ten seconds.
Close ==
  /\ up /\ main = "serving"
  /\ main' = "closing"
  /\ task' = [task EXCEPT ![Main] = "waiting"]
  /\ UNCHANGED <<kind, diskVars, requestVars, loaded, label, cache, bridge, up>>

\* The loop is stopped: _run_event_loop cancels what is left.
StopLoop ==
  /\ up /\ main = "closing"
  /\ main' = "stopped"
  /\ task' = [a \in Actor |-> Cancelled(task[a])]
  /\ UNCHANGED <<kind, diskVars, requestVars, loaded, label, cache, bridge, up>>

\* The process ends, and its daemon threads wherever they are.  (A process that
\* is killed before leaves the files in no other state.)
Exit ==
  /\ up /\ main = "stopped"
  /\ up' = FALSE
  /\ UNCHANGED <<kind, diskVars, requestVars, sessionVars, main>>

\* Another gateway process starts a bridge from the same JAR, or closes its own.
ForeignBridge ==
  /\ up
  /\ \/ bridge = None /\ bridge' = "foreign"
     \/ bridge = "foreign" /\ bridge' = None
  /\ UNCHANGED <<kind, diskVars, requestVars, task, loaded, label, cache, main, up>>

EditFile(e) ==
  /\ up /\ e \notin edited
  /\ edited' = edited \cup {e}
  /\ \/ /\ config' = e
        /\ committed' = [committed EXCEPT !.config = e]
        /\ UNCHANGED dotenv
     \/ /\ dotenv' = e
        /\ committed' = [committed EXCEPT !.dotenv = e]
        /\ UNCHANGED config
  /\ disturbed' = disturbed \cup ({mutex} \ {None})
  /\ UNCHANGED <<kind, jar, requestVars, sessionVars, main, up>>

\* The code's steps for one request, once it was begun.
Step(r) ==
  \/ Show(r) \/ Submit(r) \/ Reply(r) \/ Timeout(r)
  \/ Prepare(r) \/ Build(r) \/ WriteConfig(r) \/ WriteDotenv(r) \/ Verify(r)
  \/ Apply(r) \/ RestoreConfig(r) \/ RestoreDotenv(r) \/ RestoreJar(r)
  \/ Inspect(r) \/ Report(r)

Next ==
  \/ \E r \in Request : Reject(r) \/ State(r) \/ Configure(r) \/ Begin(r) \/ Step(r)
  \/ \E r \in Request : Enter(r) \/ Reload(r) \/ Spawn(r) \/ Started(r)
                           \/ FailStart(r) \/ Call(r)
  \/ \E a \in Actor : EnterClose(a) \/ FinishClose(a) \/ Unwind(a)
  \/ Close \/ StopLoop \/ Exit \/ ForeignBridge
  \/ \E e \in Edit : EditFile(e)

\* Every wait of a request has a timeout, and every file operation ends.
Fairness == \A r \in Request : WF_vars(Step(r))

Spec == Init /\ [][Next]_vars

FairSpec == Spec /\ Fairness

(***************************************************************************)
(* Properties                                                              *)
(***************************************************************************)

\* A request writes over nothing but what its page showed and what it wrote
\* itself, unless another program edits a file while the request holds the
\* mutex: configure, "configuration changed; reload the dashboard before
\* saving".
NoEditLost ==
  [][\A r \in Request :
       mutex = r /\ edited' = edited /\ r \notin disturbed =>
         /\ config' # config => config \in {shown[r][1], r}
         /\ dotenv' # dotenv => dotenv \in {shown[r][2], r}]_vars

\* When no request is at work the three files are those of the last save that
\* was not undone, as edited since: whatever step of whichever save failed,
\* unless an edit came in between or the rollback could not be confirmed
\* (configure, "previous files were restored").
FilesBelongTogether ==
  /\ mutex = None
  /\ disturbed = {}
  /\ \A r \in Request : pc[r] # "unconfirmed"
  => Disk = committed

\* Metadata is answered from an application of the files of that moment,
\* whatever was cached before and whatever tasks were given up, unless another
\* program edits a file during the request (_application_for).
AnswerIsCurrent ==
  \A r \in Request :
    pc[r] = "served" /\ r \notin disturbed => answer[r] = seen[r]

\* The JAR of another library does not replace the one a bridge runs from that
\* this dashboard started and has not left behind: configure resets the session
\* first, and a reset that fails leaves nothing to put back but what was there.
\* A bridge of another gateway process, which the session uses but does not
\* close, gets another JAR under it.
Quiet == bridge \in {None, "orphan", "foreign"}

JarNotInUse == [][jar' # jar => Quiet]_vars

\* A request that got past the page is answered, whatever the bridge and the
\* event loop do, or the process ends.
EveryRequestEnds ==
  \A r \in Request :
    (pc[r] \notin {"idle", "page"}) ~> (pc[r] \in Ended \cup {"page"} \/ ~up)

(***************************************************************************)
(* Why they hold                                                           *)
(***************************************************************************)

\* Requests that hold the mutex; saves that wrote neither setting yet, that know
\* what to put back.
Writing == {"released", "built", "half", "written"}
Undoing == {"failing", "restoring", "clearing"}
Unwritten == {"checked", "prepared", "asking", "released", "built"}
Saved == {"prepared", "asking"} \cup Writing \cup Undoing
Held == {"loaded", "checked", "prepared", "asking", "inspecting"} \cup Writing \cup Undoing

TypeOK ==
  /\ kind \in [Request -> Kind]
  /\ config \in Author /\ dotenv \in Author /\ jar \in Author
  /\ committed \in FileSet
  /\ edited \subseteq Edit
  /\ disturbed \subseteq Request
  /\ mutex \in Request \cup {None}
  /\ pc \in [Request -> {"idle", "page", "applying"} \cup Held \cup Ended]
  /\ shown \in [Request -> Revisions]
  /\ seen \in [Request -> Revisions]
  /\ original \in [Request -> FileSet]
  /\ task \in [Actor -> {"none", "waiting"} \cup Holding \cup Finished]
  /\ loaded \in [Actor \cup {Session} -> Revisions \cup {None}]
  /\ label \in Revisions \cup {None}
  /\ cache \in Revisions \cup {None}
  /\ answer \in [Request -> Revisions \cup {None}]
  /\ bridge \in Actor \cup {Session, None, "orphan", "foreign", "probe"}
  /\ main \in {"serving", "closing", "stopped"}
  /\ up \in BOOLEAN

\* Where only a save gets.
SavingOnly == {"page", "loaded", "checked", "built", "half", "written", "applying"}
                \cup Undoing

MutexInv ==
  \A r \in Request :
    /\ pc[r] \in Held <=> mutex = r
    /\ pc[r] \in SavingOnly => kind[r] \in Saving
    /\ pc[r] = "inspecting" => kind[r] = "preflight"

\* A task that was not given up has a request that waits for it, and one task
\* at a time is behind the session's lock.
TaskInv ==
  /\ \A r \in Request :
       task[r] \in {"waiting", "done", "failed"} \cup (Holding \ {"unwinding"})
         => pc[r] = "asking"
  /\ \A r \in Request :
       pc[r] \in {"idle", "page", "loaded", "checked", "prepared"} => task[r] = "none"
  /\ main = "serving" => task[Main] = "none"
  /\ \A a \in Actor : task[a] \in {"starting", "calling"} =>
       a \in Request /\ kind[a] = "discover"
  /\ \A a, b \in Actor : task[a] \in Holding /\ task[b] \in Holding => a = b

\* Whoever is responsible for the bridge is still going to close it.
BridgeInv ==
  /\ bridge = Session => label # None
  /\ bridge \in Actor => task[bridge] \in Holding \ {"calling"}
  /\ bridge = "probe" => \E r \in Request : pc[r] = "inspecting"
  /\ \A a \in Actor : task[a] \in {"starting", "closing"} => label = None

\* From the end of its reset to the end of a save nothing of the dashboard's own
\* runs from the JAR.
QuietInv ==
  \A r \in Request :
    /\ kind[r] # "discover" /\ task[r] = "done" => Quiet
    /\ kind[r] = "rebuild" =>
         /\ pc[r] \in Writing => Quiet
         /\ pc[r] \in {"prepared", "asking", "released"} => original[r].jar = jar
         /\ pc[r] \in Undoing => Quiet \/ original[r].jar = jar

\* What an undisturbed save knows of the files.
KnownInv ==
  \A r \in Request \ disturbed : kind[r] \in Saving =>
    /\ pc[r] = "loaded" => shown[r] = Revision
    /\ pc[r] = "page" => seen[r] = shown[r]
    /\ pc[r] \in Unwritten => shown[r] = Revision
    /\ pc[r] = "half" => config = r /\ dotenv = shown[r][2]
    /\ pc[r] \in {"written"} \cup Undoing =>
         config \in {shown[r][1], r} /\ dotenv \in {shown[r][2], r}
    /\ pc[r] \in Saved =>
         original[r].config = shown[r][1] /\ original[r].dotenv = shown[r][2]

Undisturbed ==
  disturbed = {} /\ \A r \in Request : pc[r] # "unconfirmed"

\* How far the files are from what was left on purpose.
FilesOf(r) ==
  /\ pc[r] \in Saved => original[r] = committed
  /\ pc[r] \in Unwritten \ {"built"} => Disk = committed
  /\ pc[r] \in {"built", "half", "written"} =>
       jar = IF kind[r] = "rebuild" THEN r ELSE committed.jar
  /\ pc[r] = "written" => config = r /\ dotenv = UpdatedDotenv(r)
  /\ pc[r] \in Undoing /\ kind[r] # "rebuild" => jar = committed.jar
  /\ pc[r] \in {"restoring", "clearing"} => config = committed.config
  /\ pc[r] = "clearing" => dotenv = committed.dotenv

FilesInv ==
  Undisturbed =>
    /\ (\A r \in Request : mutex = r => kind[r] \notin Saving \/ pc[r] = "loaded")
         => Disk = committed
    /\ \A r \in Request : kind[r] \in Saving => FilesOf(r)

\* The inductive invariant behind the properties of the files and the JAR.
IInv ==
  /\ TypeOK
  /\ MutexInv
  /\ TaskInv
  /\ BridgeInv
  /\ QuietInv
  /\ KnownInv
  /\ FilesInv
=============================================================================
