# Verification of the Helix MCP gateway

TLA+ modules, TLC configurations and TLAPS proofs for the gateway in
`src/src/helix_mcp` (Python) and its Java bridge in `src/arapi-bridge`. Paths
below are relative to `src/src/helix_mcp`, and `ArapiBridge.java` is the one
Java source; the repository's documents are named as in `docs/form-writes.md`.

Contents: 1 inventory, 2 modules and plan, 3 how models and code correspond,
4 runs, 5 fairness, 6 proofs, 7 where the code and its texts disagree, 8 what is
not modelled.

## 1. Inventory

One installation has any number of **gateway processes** (an MCP server per
client, the dashboard, a preflight), at most one **Java bridge** that they
share over a local HTTP port, one **plan database** (SQLite) that they share,
and the **installation directory** with its runtimes, launchers and metadata,
which the **updater** replaces while gateways run.

| part (source) | state | operations | hard behaviour | what makes it correct |
|---|---|---|---|---|
| persistent write plans (`services/writes/persistent_store.py`) | one table: status, expiry, encrypted payload and result of each plan | create (purge, capacity), acquire, complete, fail, get, cancel, recovery when opened | transactions of several processes interleave; a plan expires or is purged while its request is out; a process dies between two transactions | a plan is executed at most once; a stored status is true and final; capacity is bounded |
| write workflow (`services/writes/service.py`, `tools/writes.py`) | the apply calls in progress | plan, apply (acquire, policy, rate limit, request, complete or fail), get, cancel | lost answers, cancellation of the call, failure of the store after the write | an answer says what happened, or that it is not known; every apply is answered |
| in-memory write plans (`services/writes/store.py`) | a dictionary of one process, behind a lock | the same protocol | the process dies with its plans; a purge that is not undone | the same |
| SQL query plans (`services/database/plans.py`, `persistent_plans.py`, `service.py`) | a second table of the plan database, or a dictionary | plan, execute, get, cancel | a failed read gives its plan back while others may hold it; recovery; expiry during the read | rows of an approved query are returned once; a consumed plan stays consumed |
| SQL metadata (`services/database/metadata.py`) | none | list, describe | the object changes between two queries | only permitted objects are named |
| rate limits (`services/rate_limit.py`, `*/limiter.py`) | a deque, or a table of events shared by processes | acquire | the time is read before the transaction; a cancelled caller's thread goes on; purge by another process | never more than the limit in a window; nobody refused without cause |
| form queries (`services/forms`) | caches of fields and of forms, each behind one lock | list, inspect, query, get | fields are renamed and forms vanish between the calls of one answer; the holder of a lock fails or is cancelled; quoting in qualifications | nothing is told that the policy withholds; answers are as recent as the lifetimes say; one load serves all that wait |
| health (`services/health`) | one cached result per target, a lock each | check, forced check | a forced check beside cached ones | a forced check is news |
| AR API client (`clients/arapi/client.py`, `pool.py`) | connection pool | one POST per operation | timeout, transport error, protocol error after the bridge acted | whether the outcome of a write is known is classified correctly |
| bridge supervisor (`clients/arapi/process.py`) | the child process, if any | start (probe, spawn, poll), close | races for the port; failure or cancellation in mid-start; busy bridge | no orphan; nobody stops another gateway's child; a start is decided |
| Java bridge (`ArapiBridge.java`) | update-lock stripes, thread pool; entries are kept by the AR server | read handlers, create, prepare-update, conditional update | updates of one entry race; other clients write the entry; dates in seconds | no update overwrites what its reviewer did not see |
| application context (`bootstrap.py`, `lifecycle.py`, `server.py`) | clients, stores, services of one process | start, failure, close | failure or cancellation in mid-start | what was started is stopped |
| updater (`installation/updater.py`, `managed.py`) | lock file, runtimes, launchers, metadata, backup, OpenClaw definition | update, activate, check, roll back | any step fails, any rollback step fails, the process dies, two updates race | one release or the other, never a mixture; the active runtime is complete |
| release lookup (`installation/github_cli.py`, `bridge.py`, `resources.py`) | downloaded files | download, verify | external commands | checksum before use |
| setup, command line (`installation/setup.py`, `cli.py`, `operations/cli.py`) | configuration files | prompts, create, rebuild | a step that failed is reported as pending | exit status says whether it is complete |
| OpenClaw registration (`installation/openclaw.py`) | a definition kept by OpenClaw | read, replace | external command | put back on rollback |
| update worker (`dashboard_update_worker.py`, `dashboard_runtime.py`, `dashboard_host.py`) | status file, its process, supervisor | start, stop the dashboard, update, restart, record | two writers of one status file; either process dies at any point | a verdict is true, stays, and is always reached |
| dashboard (`dashboard.py`) | settings revision, metadata session and caches, the update request | read, save, discover, update | concurrent edits, several files saved together, requests during restart | no lost edit; all files or none |
| preflight (`operations/preflight.py`) | none | probes | it may start a bridge | what it started is stopped |
| configuration, targeting (`config/`, `targeting/`) | immutable after start-up | load, validate, resolve | none | validation |
| secrets (`secrets/`) | external stores | look up | none | none leaves the process |
| observability (`observability/`) | counters | log, count | none | closed schema |

How they interact. The write workflow and the SQL service call their store, the
limiter and the AR client in turn, and nothing holds a lock across those calls:
what is read in one is stale in the next. The AR client's request is carried
out by the bridge whether or not the caller still waits. Stores, limiters and
the updater's backup meet in the database file. The update worker stops the
dashboard that launched it, and the only thing the two share is the status file.

The hazards (`PROJECT.json`, "hazards") are the points of this inventory where
the code depends on an order of steps that no unit test produces. Each names
the properties that cover it, or says why none does.

## 2. Modules and plan

| module | models | needs |
|---|---|---|
| `WritePlans` | both write-plan stores and the apply workflow of several processes, with the bridge as the party that executes, rejects or loses a request | |
| `ApprovedWrite` | what they promise together: an approved write is done at most once and its verdict is true | |
| `SqlPlans` | both SQL plan stores and `execute_plan` | |
| `RateLimit` | `SlidingWindowCounter`, shared or local | |
| `EntryUpdate` | review, check and conditional update of entries in the Java bridge | |
| `BridgeRequest` | a request of each of the bridge's twelve operations, from the client's connection to its verdict: queue, AR session, exceptions, answers, timeout | |
| `WriteRequest` | what the sender of a write may conclude from its answer | |
| `Updater` | `update_installation` and `activate_managed_installation`, every step and every failure | |
| `AtomicUpdate` | what the updater promises: all files or none | |
| `UpdateRollback` | a failed update that restores the plan database under running gateways | `WritePlans` |
| `BridgeProcess` | gateways that share, start and stop Java bridges | |
| `DashboardUpdate` | an update requested in the dashboard: status file, worker, supervisor | `AtomicUpdate` |
| `DashboardConfig` | saving the settings in three files with rollback, rebuilding the bridge, and the metadata session with its tasks | |
| `Qualification` | the quoting of a qualification, as the gateway lexes it and as AR does | |
| `FormQueries` | the reading tools (forms, fields, entries, database objects, health): policy, caches, locks, and AR servers that change meanwhile | `Qualification` |
| `MC…` | values of the constants for TLC | |
| `…Proofs` | theorems and their proofs; `BridgeProofs` has those of the three modules about the bridge | |

Order. The write path was modelled first: a write that is done twice, or
reported wrongly, is the worst thing this program can do. The updater came
second (it can leave an installation that does not start), then the check that
protects entries, the SQL plans, the limits, the two process protocols, the
request between client and bridge, on which the write plans rest, and last the
dashboard's settings and the reading tools, which lose or reveal less.

Next, in this order:

1. Supervisors that are started at the same moment by hand and by a worker
   (`dashboard_host.py`, `dashboard_runtime.py`): they share one state file and
   one stop marker, which the first to see it removes.
2. Release lookup and download, up to the verified file the updater installs.

## 3. How models and code correspond

`PROJECT.json` "map" gives the lines of every definition. What follows is
what a reader cannot see there.

**WritePlans.** A store method is one `BEGIN IMMEDIATE` transaction, or runs under
the lock of the in-memory store without an `await`, so it is one action. `mode`
chooses the store: `shared` (deployed), `recovering` (the same with
`recover_interrupted`) or `memory`, where one process is up, its death takes the
plans along, a `create` that is refused keeps its purge (`RefuseCreate`) and
the store is never unavailable. In that mode an apply gets from `acquire` to its
request without a pause, so some interleavings of the model do not occur: what
holds of the model holds of the code. An apply is the sequence `Acquire`, (`RejectLocally` or `Send`), an
outcome of the request, and `Complete` or `Fail`. `pc[c]` is where call `c`
stands: `acquired`, `sent`, `succeeded` (Helix answered), `failing` (known not
done), `doubting` (not known), or one of the answers. `wire[c]` is the request
on its way to Helix and survives the death of its sender: `RemoteExecute` may
happen after the caller gave up, was cancelled or died. `Purged` is the
deletion that `create` and a starting process perform whatever the status of the
expired rows; `Expire` is the deletion by a `get` of one plan. `complete`
insists on `applying`, `fail` overwrites anything: both are modelled that way.
Payload, digest and policy are one Boolean, `matches`. The bridge's part in
`WritePlans` is what `client.py` lets the workflow distinguish, as
`BridgeRequest` shows; the exactness of its check is `EntryUpdate`'s.

**BridgeRequest.** `call[r]` is where the client stands, `work[r]` where the bridge
does, and after `Send` neither waits for the other: `GiveUp` (timeout, lost
connection) and `CancelCall` leave `work` alone. A handler is three steps:
`Check` is all that precedes the AR call it is for, `Perform` that call, `Encode`
the rest. What each may raise is a set per operation (`…Handler`), composed
of one set per validator, resolver and encoder, under the source's names: an
encoder that could raise an exception of the bridge's own after `createEntry`
would make `EffectIsNotRefused` fail. `Leave` is the `finally` of `withUser`,
where `logout` may raise in the place of the result; `AnswerTo` are the catch
clauses, and `Conclusions` what `_post` and `_arapi_outcome_unknown` make of
each answer. A payload is accepted or a protocol error, and the values of
fields are left out. `WriteRequest` is the contract: it is what the steps
`RemoteExecute`, `RemoteReject`, `RemoteDrop`, `ReceiveAnswer` and `LoseAnswer` of
`WritePlans` take for granted.

**SqlPlans.** The same style; `mode` chooses the deployed store, the same
store with `recover_interrupted`, or the in-memory one with a single process.
`interrupted` is a history variable: plans whose call ended with neither
`complete` nor `fail`. What `served` counts is what a caller received.

**RateLimit.** `ReadTime` takes the counter's lock and the time, `Decide` is the
transaction that runs in a thread: delete the rows outside the window, count,
insert. A cancelled caller leaves an `orphaned` transaction that still runs.
One counter with `MaxDelay = 0` is the in-memory variant.

**EntryUpdate.** Entries live on the AR server: a date in whole seconds and a
`revision` that counts writes (history). `Prepare` is the review; `Enter` takes
the stripe's lock; `Conflict`/`ReadDate` the comparison; `ReadTime` the
adjustment of `getTime`; `SetEntry` the `setEntry`, which the server refuses when
the entry is newer than that time (error 309). It may also throw for want of an
answer (`FailCall`): the monitor is left and the update is `unproven`, until the
server carries it out or refuses it (`WriteLate`), perhaps never. `Shared` are the
entries that other programs write too, through the server and without the lock.
`settled` says that the review came in a later second than the revision it showed,
`window` (history) in which seconds the date was compared and the time read.

**Updater.** A file is represented by the release it belongs to. Each `Switch…`
is the atomic replacement of one file; between any two of them the step may
fail, and `Restore…` undoes them one by one. The lock file is created
(`TakeLock`) before the process id is written into it (`WriteProcessId`); if that
fails (`FailProcessId`) nobody removes the file, since `__exit__` is only reached
from within the block, and `Leave` may fail to remove it. `faults`, chosen in `Init` among
`Faults`, are those that defeat a rollback or kill the process: the properties
name the ones they except, so each says what the code promises without them and
what survives them. Dotenv, configuration and key are saved and restored but
never written in between, so they have no state here; the plan database, which
is, has `UpdateRollback`.

**BridgeProcess.** A `Gateway` is one application context, started and closed
once. `Start` is the validation of JDK and libraries with its two outcomes,
`Probe` the first health request (it may fail though a bridge is there, since
the bridge serves it from the pool that runs AR calls, and the probe waits a
second), `Spawn` the child, `Poll` one turn of the loop. `BeginClose` is the
context's `aclose` up to the process, at the end of the lifespan or because its
start was cancelled under the `finally`; `CloseContext` is the `aclose` of the process,
also after a start that failed. A `Session` gateway is an application of the
dashboard's session, where nothing closes a start that is cancelled
(`CancelStart`); and a close may be cancelled before the child is told to stop, or
while it is waited for, when the process is forgotten already (`CancelClose`). Both
end in `abandoned`. `Bind` is the Java process taking the port, or exiting
because it is taken.

**DashboardUpdate.** A request in the dashboard is a job of four steps under
the dashboard's mutex (`LoadManaged`, `LoadStatus`, `Reconcile`, then
`StartUpdate`, `Launch`), because files are read one at a time and the worker
writes in between. The worker's steps are those of `run_update`, with
`update_installation` reduced to a lock, the active release and a rollback.
`Begin` shortens "the one-use token was read" to two outcomes. A dashboard may be
started by hand, and a second update requested, at any moment, whatever the workers
are doing. `disturbed` (history) says that a dashboard was started during a
rollback, by hand or by another worker, which `SuccessIsReal` and `VerdictStays`
except (see section 7).
`Acquire` compares the release and takes the lock in one step; that the code
does not is `Updater`'s subject. It refines `AtomicUpdate` as `Updater` does, with
one file: an update that may still be rolled back has not happened yet
(`PromisedFiles`), and has for good when its worker is killed then. Stopping the manager is taken to succeed.

**DashboardConfig.** The content of a file is the name of who wrote it, so a
revision is the pair of the two settings files. A request moves under the mutex
from `State` (the page's contents) and `Show` (its revision, computed from the
files as they are by then) to `Configure`; then `Prepare`, `Submit` (the reset
before a rebuild), `Build`, `WriteConfig`, `WriteDotenv`, `Verify`, or from any of
them to `RestoreConfig`, `RestoreDotenv`, `RestoreJar`. `Apply` is outside the
mutex, as in the code. A catalog or a readiness check is `Begin` and `Submit`. `task[a]` is a
coroutine in the session's own event loop: `Enter` and `EnterClose` are its start
behind the session's lock, `Timeout` cancels it, and `Unwind` is its end at the
`await` where it stood. `bridge` says who will close the bridge the dashboard
started: the session, a task, a readiness check (`probe`), or nobody (`orphan`); or
that it is another gateway process's (`foreign`), which that process starts and
closes at any time (`ForeignBridge`) and the session uses without closing it.
`committed` is a history variable: the files as saves and editors meant them.
A JAR is there from the start; the two files are read at one moment by
`LoadApplication`; an edit never restores an earlier content; and the remembered
SQL capabilities and Kaazing states are left out.

**FormQueries.** A call is a record: `counting` (rate limit), `waiting` (for a
lock), `asked`, `answered`, `done`, with what it is asking AR for. `Begun` is all
a tool checks before it counts; `LookUp` and `Wake` the two looks at a cache.
One request to the bridge may be several AR calls: of `query_form` the bridge loads
the fields of the form, takes the names in the request for their IDs (`entries`, `Selected`),
has the qualification parsed (`where`, `Parsed`) and then reads `rows` by those IDs; a menu
follows the `labels` of its field. `GoOn` is the step from one to the next, `Look` the
last one, and between any two an administrator may rename the field. `Loaded`, `NotFound`, `Suggest`, `Label`, `Entries`, `Listed`,
`Resolve` what is made of the answer, up to the next `await`. `queue[l]` is an
`asyncio.Lock`, which is fair: its head has it, and a waiter that is cancelled
leaves. Time is relative: a cached entry has an age up to its lifetime, an
answer a lag of at most `Timeout`, since the client's timeout bounds how long it
is waited for. `for` is a history variable: the forced checks that were at work
when AR was asked. `Policy` is a set of policies that passed the validators; names are
folded by `Fold`, and a qualification is a sequence of names and
delimiters, lexed by `ReferencedFields` as the code does and by `Consulted` as AR
does (`Qualification`). What AR makes of a backslash is not known, though the bridge
writes one before a quote (`ArapiBridge.java:1008`): such a text may consult
anything. Between single quotes AR takes the ID of a field too (`IdName`). Paging,
name filters, the shaping of rows and the resolution of a target that the services
repeat are left out.

## 4. Runs

Ten runs pass and two find a violation. Each finishes within three minutes.

| run | instance | shows |
|---|---|---|
| `write_plans` | 2 plans, 2 processes with one call slot each, 2 ticks, capacity 1, each of the three stores | a plan is executed at most once; capacity; terminal statuses are final; the refinement of `ApprovedWrite`, so that stored verdicts are true; every apply ends |
| `write_plans_purged` | the same, deployed store | violation: a write that took effect is answered with "plan not found" |
| `bridge_request` | a write and a request of any operation, 1 thread, 2 connections | a verdict on a write is true, now and later (`WriteRequest`); no exception of the bridge's own after a write; no more AR sessions than threads, none when idle |
| `updater` | 2 updates, 3 releases, OpenClaw, every step may fail; one update after another with up to three of the six faults | exclusion; only complete runtimes are used; launchers agree; the refinement of `AtomicUpdate`; the lock is given back unless the process dies or the lock file itself fails |
| `update_rollback_twice` | `WritePlans` with one process and one update | violation: a rollback of the database brings a done plan back, and it is done again |
| `entry_update` | 3 updates, 2 entries on one stripe, one of them written by others | no update is lost until a `setEntry` ends without an answer; what is ever overwritten unseen was written between the check and the reading of the time; the check refuses every settled out-of-date review; every update is answered |
| `sql_plans` | 2 plans, 3 calls of 2 processes, 3 stores | rows are returned once; executions exclude each other; a failed read gives the plan back; consumed plans stay consumed |
| `rate_limit` | 4 requests of 2 counters, 2 keys, limits 2 and 1, window 3, delay 1 | the limit holds in every window shortened by the delay; a refusal means that the budget was used up |
| `bridge_process` | 3 gateways (a server and a dashboard's session with one token, 1 with another), 2 children | no Java process is left behind but by a gateway that was killed, a close that was cancelled or a start cancelled in the session; only its creator stops it; every start is decided |
| `dashboard_update` | 2 workers that may overlap, 3 releases | a success is real once all is quiet, and the verdict about a request is not changed afterwards, unless a dashboard was started during a rollback; the dashboard that runs is the active release's; the refinement of `AtomicUpdate`; every request is decided |
| `dashboard_config` | 3 requests (a save of settings or a rebuild; credentials, a catalog or a check; a catalog), 1 edit, another gateway's bridge, the shutdown | files belong to one save; no edit is written over unseen; catalogs are of the current files; another library's JAR does not replace the one a bridge of this dashboard runs from; every request is answered |
| `form_queries` | 3 calls, 2 targets (one with allowlists, one without), 2 forms, a field that may be renamed to a sensitive name, 2 tables, 11 qualifications, lifetimes 2 and 1 or none, 1 cache entry | only what the policy permits is told, by the names fields had when the bridge resolved them; answers are recent; loads are shared; every call ends |

Why the bounds are enough. Every interaction in these protocols is pairwise:
two calls that race for a plan, two updates for the lock, two gateways for the
port. A third party adds a bystander (a plan that is purged by another's
create, a gateway with another token, an entry on the same stripe), and each
run has the bystander that matters. In `BridgeRequest` the requests meet only
in the queue and the pool: one thread makes one of them wait. Clocks need one tick more than a lifetime,
so that a plan can be live, expire in mid-call and be followed by a new one;
`RateLimit` has a window of three ticks, so that events fall on both of its ends
and strictly inside. Three releases are the fewest for an update that goes
backwards. `MaxPolls` is 2 where the code has 50: one turn that finds nothing
and one that may. Identifiers are random and never reused, so a run of bounded
length needs no more than it can issue.

Four runs explore less than their constants allow. `updater` has the faults of one
update after another only (`OneUpdaterWhereFaulty`). `dashboard_update` has one
worker install release 2 and the other 2 or 3, in either order: the workers are
alike and releases are only compared (`LowerRelease`). `dashboard_config` has the
edit and another gateway's bridge while the third request is idle, and beside a save of settings only a
catalog, since a second save meets the first one only at the mutex
(`EditsBesideTwo`). `form_queries` has one kind of cache in use at a time
(`OneKindAtATime`: those of fields, of forms and of health share nothing but the
event loop), calls that end before the next ones begin (`Few`), and a third call
only where AR stays as it is. A lifetime of 2 has an entry that is fresh, old
and expired; one cache entry makes every second form evict the first.

Deadlock checking is off where these
bounds (clock, identifiers, workers) make every behaviour stop.

Symmetry is used only in runs without liveness properties, over values that no
constant tells apart.

## 5. Fairness

Every fairness condition stands for a timeout or a restart in the code, or for
its environment, as listed:

- `WritePlans`: the steps of an apply, since each HTTP request has
  `request_timeout` and each transaction SQLite's busy timeout; the restart of a
  process, which its MCP client does. Nothing is assumed of the bridge: an
  answer may never come, and `LoseAnswer` is then the step that is taken.
- `Updater`: each step of an update, since every command it runs has a timeout.
- `DashboardConfig`: the steps of a request, each a file operation or a wait with
  a timeout. Nothing is assumed of the tasks in the session's loop.
- `FormQueries`: the steps of a call. The event loop runs every task that is
  ready, and the client's timeout ends each wait for AR; a waiter for a lock gets
  it once those before it have ended.
- `EntryUpdate`: the handler of each update; AR calls return or fail. Nothing is
  assumed of a `setEntry` without an answer.
- `BridgeProcess`: probes and turns of the loop (one second each, 50 turns), the
  close after a failed start, and the end of a child that was told to stop
  (killed after five seconds). Nothing is assumed of a child that starts.
- `DashboardUpdate`: each wait of the worker has a timeout; a dashboard that is
  down is started by the supervisor, the user or the next login, and the page
  polls its state (weak fairness of `DashboardStep` and of each worker's steps).
  Time passes (`Age`). A dashboard may crash any number of times, but not for ever
  (`<>[][~ Crash]_vars`): one that always dies before it has read the status
  decides nothing.

## 6. Proofs

For every value of the constants the assumptions allow (any number of
processes, calls, plans, updates, releases, gateways), TLAPS proves:

| module | theorems | argument |
|---|---|---|
| `WritePlansProofs` | `PlansAppliedAtMostOnce`, `SuccessIsTrue`, `FailureIsTrue`, `CapacityIsRespected`, `TerminalStatusStays`, `GatewayKeepsPromise` | `IInv` counts the parties that can still make Helix act on a plan (`Token`: acquired, or a request out). There is at most one, there is none once the plan was executed or is stored as failed or cancelled, and a plan that was acquired is never offered again. `AtMostOnce` alone is not inductive: it does not say that two acquired calls cannot exist |
| `BridgeProofs` | of a request: `ClientKeepsPromise`, `EffectsAreNotRefused`, `SessionsAreBounded` | `IInv` follows an effect (`EffectNeedsCall`) and a refusal (`RefusalIsTrue`) from the handler to the client; `AnswersAreTrue` is the case analysis over exceptions, answers and conclusions |
| | of an update: `UpdatesAreSerialized`, `WritesMatchReview`, `NoUpdateIsLost`, `OnlyRacesOverwrite`, `CheckIsExact` | who is in the synchronized block owns the stripe; and the date of an entry increases strictly with its revision unless both fall into one second, which is what `settled` excludes. `WritesMatchReview` and `NoUpdateIsLost` are about entries that only the bridge writes, until a `setEntry` for them ends without an answer (`Settling`); `OnlyRacesOverwrite` is about all entries, later writes included, and rests on `DatesFollowCheck`: what changed after the check is dated after it, and the server refuses to overwrite what is later than the time it is given |
| | of the process: `NoBridgeIsLeftBehind`, `OwnerStopsBridge` | a gateway that polls or closes knows a child, it is its creator's child, and only a closing, killed or abandoned creator's child is stopping |
| `UpdaterProofs` | `UpdatesExcludeEachOther`, `OnlyCompleteRuntimesRun`, `LaunchersStayTogether`, `UpdateKeepsPromise` | `IInv` says, for each `pc`, which files are still the saved ones and which are the target's (`ForwardInv`, `UndoInv`, `BridgeInv`), and that what was saved was consistent (`AgreeInv`). The promise assumes none of the faults that defeat a rollback |
| `SqlPlansProofs` | `PlansAreServedOnce`, `ExecutionsExcludeEachOther`, `FailedReadsGivePlansBack`, `ConsumedPlansStayConsumed`, `QueriesAreApproved` | an active call's plan is executing, or gone, or (with recovery) offered again; exclusion holds without recovery only, single service with it too, since `complete` insists on the status |
| `RateLimitProofs` | `LimitIsKept`, `RefusalsAreJustified`, `MinuteIsKept` | a deleted row is outside the window of every request that has read its time, as long as a transaction is late by less than the window; `MinuteIsKept` needs `MaxDelay = 0` |
| `DashboardConfigProofs` | `FilesStayTogether`, `EditsAreKept`, `JarIsNotInUse`, `AnswersAreCurrent` | `IInv` follows one save: what its page showed (`KnownInv`), what it has to put back and how far the files are from what was meant (`FilesInv`), and that nothing runs from the JAR from the end of its reset on (`QuietInv`), which rests on who answers for the bridge (`BridgeInv`) and on the session's lock (`TaskInv`). Answers need a second invariant, `OriginInv`: a revision that was replaced does not come back (`Gone`, since nobody writes twice and what a save would put back is known), so the label of the session's application is the files it was loaded from or can match no later request |
| `DashboardUpdateProofs` | `Typing`, `SuccessReal`, `DashboardActive`, `DashboardKeepsPromise` | for any number of workers, however they overlap. `LockInv` says who has the lock, since when, and what it saved; a release that was verified is only replaced by a newer one (`VerifiedStays`); the dashboard is of the active release or somebody is about to replace it (`RunsActive`). Unless a dashboard is started during a rollback, no request is at work then (`RolledBackAlone`), so that none takes a release for active that is rolled back (`ReadBefore`), and a success that is not true is about to be corrected by its worker (`SuccessKnown`) |
| `FormQueriesProofs` | `PolicyKept`, `Recency`, `Sharing`, `ConsultedIsReferenced` | `IInv` says of each call what it was allowed to ask for, what it knows and how old that is, and of each lock that the calls in its queue wait for it, one at a time, the head loading. A cache holds what AR told for its key, so that a visible name is one the policy permits; and what the bridge carries from one AR call to the next is permitted under the names it resolved (`Carries`). Of qualifications: where the gateway finds the quoting valid, AR's view of what is open agrees with it at the end of each token, in texts without a backslash |

Each `…Invariance` theorem (`Order` for `DashboardUpdate`) states the inductive
invariant, which contains the type invariant; all of them were checked by TLC on
the run of their module first. `BridgeProofs` extends three modules, which is
why the names of two of them begin with `Process` and `Update` (`ProcessInit`,
`UpdateNext`). `BridgeRequest` assumes of AR System that a call which
ends with "must be administrator", "modified since get", "not queryable" or
"form not found" changed nothing, and that `logout` raises nothing but runtime
exceptions. Constants are finite where a proof counts (`IsFiniteSet`),
and positive where the code's configuration model demands it.

`References`, `Tokens` and `Open` recur over the positions of a text. What is proved
of them for every text (`ConsultedIsReferenced`) is by the smallest
counterexample: if a position is wrong there is a least one, and neither the
step before it nor the token that contains it can be right.

Only model-checked: everything under fairness (`ApplyTerminates`,
`LockIsReleased`, `EveryUpdateIsAnswered`, `EveryStartIsDecided`,
`EveryRequestIsDecided`, `EveryRequestEnds`, `EveryCallEnds`), which is outside
what the prover handles; and `VerdictStays`, whose argument follows what every
request has read while two workers overlap.

## 7. Where the code and its texts disagree

Each of these has a run that ends in a counterexample:

1. `write_plans_purged`: a request may outlive its plan (timeouts up to 300 s,
   lifetimes from 60 s). Any call may then delete the `applying` row, and the
   caller whose write took effect is told that there is no such plan
   (`services/writes/service.py:246`).
2. `update_rollback_twice`: a failed update restores the copy of the plan database
   it made before (`updater.py:750`), over what running gateways recorded since;
   a plan that was applied in between is pending again, and can be applied again.

What else the models show, without a run of its own:

- The active version is compared before the lock is taken (`updater.py:299`) and
  not again, so the second of two updates can activate an older release over a
  newer one (`Updater.Check`, `TakeLock`).
- No caller of `load_application` sets `recover_write_plans` (`bootstrap.py:250`),
  so a plan whose apply died with its process keeps saying `applying` until it
  expires; `docs/form-writes.md:72` and `README.md:97` say it becomes
  `outcome_unknown`. `Start` in the mode `shared` is
  what happens instead.
- A request whose sender gave up may still be queued in the bridge and be
  carried out later (`BridgeRequest.GiveUp`, `Accept`): looking the entry up
  right after `outcome_unknown` does not show whether the write will happen. For
  reads, `docs/sql.md:80` says as much. A client that got no connection from its
  pool reports `outcome_unknown` too, though it sent nothing.
- A killed update leaves `.update.lock` behind, and so does one that cannot write its
  process id into the file or cannot remove it (`updater.py:1163`, `1170`). The
  process id is never read (`updater.py:1154`), so every later update is refused until
  somebody removes the file (`Updater.Crash`, `FailProcessId`, `Leave`,
  `DashboardUpdate.Kill`; compare `CHANGELOG.md:92`).
- Between the comparison of the date and `setEntry` (`ArapiBridge.java:770`)
  another client may write the entry; the update then overwrites it
  (`docs/mcp-tools.md:204`). `MCEntryUpdate` with `WritesOnlyReviewed` as a
  property shows it. So may an earlier `setEntry` of the bridge that was left without
  an answer, after its monitor was released (`ArapiBridge.java:774`).
  `CheckSeesReviewed` and `OverwritesAreRaces` are what the check does guarantee.
- The dashboard of the new release writes `success` when it starts
  (`dashboard.py:2270`, `1341`), before the worker has verified it. The worker
  corrects that if it rolls back; if it is killed in the rollback, `success`
  stays. The rollback stops the dashboard first, but nothing keeps it down: one that
  is started meanwhile, by hand or by another update's worker, may read the release
  that is about to go, and declare success after the worker has recorded its error.
  Without the exception `disturbed`, `SuccessIsReal` and `VerdictStays` fail.
- The status may be `error` although the release is active: when the manifest
  cannot be written after the last check (`updater.py:420`), or the restart of
  the OpenClaw gateway raises (`dashboard_update_worker.py:441`); compare
  `docs/dashboard.md:251`.
- A gateway's start fails when its child loses the race for the port and the
  poll sees the exit before the other bridge answers (`process.py:171`), or when
  the bridge that is there is busy for more than a second (`process.py:222`).
- The close of the gateway that created the bridge stops it under all others;
  for the dashboard that is any change of its settings, though
  `docs/dashboard.md:143` says until the dashboard stops.
- Set-up that cannot rebuild the bridge exits with 0 (`installation/setup.py:196`), so an
  update may end with the old bridge (fault `bridge`; compare
  `docs/installation.md:308`).
- The revision of a settings page is computed after the files it shows were read
  (`dashboard.py:1094`): an edit in between counts as seen, and the next save
  overwrites it. A save that fails puts back what it read, over an edit made
  meanwhile (`dashboard.py:1617`). `NoEditLost` excepts both.
- A task of the metadata session that is cancelled while it starts a bridge leaves
  it behind, since `CancelledError` passes `except Exception`
  (`dashboard.py:836`); close waits ten seconds for the session and goes on
  (`dashboard.py:620`); and a close that is cancelled has forgotten its process
  before it has ended (`process.py:202`). These bridges are the `orphan` of
  `DashboardConfig` and the children of the `abandoned` gateways of `BridgeProcess`.
- A rebuild replaces the JAR under a bridge that the dashboard only uses, because the
  reset stops no bridge of another gateway process (`dashboard.py:1582`), and under one
  that was left behind. After a reset that timed out the old JAR is written again
  (`dashboard.py:1625`), with the same content, under a bridge that may still run.
  `JarNotInUse` is about other content and the dashboard's own bridge.
- Names are taken for field IDs in one AR call and rows read by those IDs in the next
  (`ArapiBridge.java:490` and `514`, `555` and `561`), so a field that gets a protected
  name in between is told under its old one: `TellsOnlyPermitted` speaks of the
  name it had when it was resolved. It excepts qualifications with a backslash or
  the ID of a field, which the gateway takes for names: where the policy allows all
  fields but the sensitive ones, AR may consult a field the gateway did not see.
- Request threads are daemons (`dashboard.py:1962`): a shutdown in the middle of a
  save leaves the files as they are, and nothing completes or undoes it.
- A transaction that is late lets a minute have more events than the limit
  (`rate_limit.py:61`); `LimitHolds` is for windows shorter by that delay. A
  clock that is set back is not modelled.

## 8. What is not modelled, and why

Parsing, formatting, encryption and validation have no state: they are one
outcome, or none. The lexing of qualifications is the exception, because what AR
consults depends on it.
Set-up and the command line, the registration with OpenClaw, secrets and logging
are sequences of prompts and external calls, or immutable data; the lookup and
download of releases is one outcome of a step of `Updater`.
A process id that is reused after a restart of the machine
(`dashboard_runtime.py:643`) is not modelled: processes are their own identity.
The three managers of the dashboard (systemd, Windows start-up, detached) are one,
with one supervisor at a time.
