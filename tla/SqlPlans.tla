------------------------------- MODULE SqlPlans -------------------------------
(***************************************************************************)
(* One-time plans for approved SQL reads: the persistent store that the    *)
(* gateway processes share, or the in-memory store of a single one, and    *)
(* DatabaseQueryService.execute_plan.  Unlike a write, a read that failed  *)
(* gives its plan back, so that the approval can be used again.            *)
(***************************************************************************)
EXTENDS Naturals, FiniteSets

CONSTANTS
  Plan,       \* the plan identifiers that can be issued
  NoPlan,     \* what a call slot that was never used names
  Process,    \* gateway processes
  Call,       \* slots for execute_plan calls
  ProcessOf,  \* the process that runs each slot
  TTL,        \* the time to live of a plan, in ticks
  MaxPending, \* max_pending
  MaxClock,   \* bound of the model: the last tick of the clock
  Modes       \* the stores considered

Mode == {
  "shared",      \* PersistentSqlQueryPlanStore as deployed
  "recovering",  \* the same with recover_interrupted
  "memory"}      \* SqlQueryPlanStore, of one process

ASSUME SqlPlanAssumption ==
  /\ ProcessOf \in [Call -> Process]
  /\ TTL \in Nat \ {0}
  /\ MaxPending \in Nat \ {0}
  /\ MaxClock \in Nat
  /\ Modes \subseteq Mode
  /\ IsFiniteSet(Plan)
  /\ NoPlan \notin Plan

VARIABLES
  mode,     \* the store, which never changes
  clock,    \* time.time(), in ticks
  status,   \* the status of each plan; "absent" when the store has none
  expires,  \* expires_at
  issued,   \* the identifiers handed out so far (they are random, never reused)
  up,       \* the processes that are running
  pc,       \* where each call is, or how it was answered
  plan,     \* the plan each call names
  served,   \* how many times the rows of each plan were returned
  interrupted  \* the plans that a call left behind without complete or fail

vars == <<mode, clock, status, expires, issued, up, pc, plan, served,
          interrupted>>

Status == {"pending", "executing", "executed", "cancelled", "absent"}
Active == {"acquired", "querying", "fetched", "failing"}
Answer == {"served", "refused", "failed", "invalid", "missing", "unavailable"}
Gone   == {"idle", "lost", "cancelled"}

Expired(p) == expires[p] <= clock

Durable == mode # "memory"

Init ==
  /\ mode \in Modes
  /\ clock = 0
  /\ status = [p \in Plan |-> "absent"]
  /\ expires = [p \in Plan |-> 0]
  /\ issued = {}
  /\ up \in IF Durable THEN {Process} ELSE {{q} : q \in Process}
  /\ pc = [c \in Call |-> "idle"]
  /\ plan = [c \in Call |-> NoPlan]
  /\ served = [p \in Plan |-> 0]
  /\ interrupted = {}

(***************************************************************************)
(* Creating, reading and cancelling plans                                  *)
(***************************************************************************)

\* What _purge_expired leaves.
Purged == [p \in Plan |-> IF Expired(p) THEN "absent" ELSE status[p]]

Outstanding(st) == {p \in Plan : st[p] \in {"pending", "executing"}}

Create(p) ==
  /\ up # {}
  /\ p \notin issued
  /\ Cardinality(Outstanding(Purged)) < MaxPending
  /\ status' = [Purged EXCEPT ![p] = "pending"]
  /\ expires' = [expires EXCEPT ![p] = clock + TTL]
  /\ issued' = issued \cup {p}
  /\ UNCHANGED <<mode, clock, up, pc, plan, served, interrupted>>

\* At capacity the transaction is rolled back with its purge; a dictionary
\* keeps the purge.
RefuseCreate ==
  /\ up # {}
  /\ ~Durable
  /\ Cardinality(Outstanding(Purged)) >= MaxPending
  /\ status' = Purged
  /\ UNCHANGED <<mode, clock, expires, issued, up, pc, plan, served,
                interrupted>>

\* get and cancel delete the expired plan they name.
Expire(p) ==
  /\ up # {}
  /\ status[p] # "absent"
  /\ Expired(p)
  /\ status' = [status EXCEPT ![p] = "absent"]
  /\ UNCHANGED <<mode, clock, expires, issued, up, pc, plan, served,
                interrupted>>

CancelPlan(p) ==
  /\ up # {}
  /\ status[p] = "pending"
  /\ ~Expired(p)
  /\ status' = [status EXCEPT ![p] = "cancelled"]
  /\ UNCHANGED <<mode, clock, expires, issued, up, pc, plan, served,
                interrupted>>

(***************************************************************************)
(* execute_plan                                                            *)
(***************************************************************************)

\* Mutant: acquire does not mark the plan.
AcquireUnmarked(c, p, matches) ==
  /\ ProcessOf[c] \in up
  /\ pc[c] \notin Active
  /\ plan' = [plan EXCEPT ![c] = p]
  /\ IF status[p] = "pending" /\ ~Expired(p) /\ matches
     THEN pc' = [pc EXCEPT ![c] = "acquired"]
     ELSE pc' = [pc EXCEPT ![c] = "refused"]
  /\ UNCHANGED <<mode, clock, status, expires, issued, up, served, interrupted>>

\* acquire, for a request that may not match the plan's target and digest; an
\* expired plan is deleted whether it matches or not.
Acquire(c, p, matches) ==
  /\ ProcessOf[c] \in up
  /\ pc[c] \notin Active
  /\ plan' = [plan EXCEPT ![c] = p]
  /\ IF status[p] = "pending" /\ ~Expired(p) /\ matches
     THEN /\ pc' = [pc EXCEPT ![c] = "acquired"]
          /\ status' = [status EXCEPT ![p] = "executing"]
     ELSE /\ pc' = [pc EXCEPT ![c] = "refused"]
          /\ status' = [status EXCEPT ![p] = IF Expired(p) THEN "absent" ELSE @]
  /\ UNCHANGED <<mode, clock, expires, issued, up, served, interrupted>>

\* _validate with the policy of now, and the rate limit.
RefuseQuery(c) ==
  /\ pc[c] = "acquired"
  /\ pc' = [pc EXCEPT ![c] = "failing"]
  /\ UNCHANGED <<mode, clock, status, expires, issued, up, plan, served,
                interrupted>>

Query(c) ==
  /\ pc[c] = "acquired"
  /\ pc' = [pc EXCEPT ![c] = "querying"]
  /\ UNCHANGED <<mode, clock, status, expires, issued, up, plan, served,
                interrupted>>

\* query_sql returns rows, or raises: an error answer, a timeout, a row of the
\* wrong width.
Fetch(c) ==
  /\ pc[c] = "querying"
  /\ \E result \in {"fetched", "failing"} : pc' = [pc EXCEPT ![c] = result]
  /\ UNCHANGED <<mode, clock, status, expires, issued, up, plan, served,
                interrupted>>

\* complete and fail: only an executing plan, expired or not; else the call
\* ends with the store's error.
Transition(c, target, answer) ==
  /\ status' = IF status[plan[c]] = "executing"
               THEN [status EXCEPT ![plan[c]] = target] ELSE status
  /\ pc' = [pc EXCEPT ![c] =
       CASE status[plan[c]] = "executing" -> answer
         [] status[plan[c]] = "absent"    -> "missing"
         [] OTHER                         -> "invalid"]

\* Mutant: rows are returned whatever became of the plan.
CompleteUnchecked(c) ==
  /\ pc[c] = "fetched"
  /\ status' = [status EXCEPT ![plan[c]] =
       IF @ = "absent" THEN @ ELSE "executed"]
  /\ pc' = [pc EXCEPT ![c] = "served"]
  /\ served' = [served EXCEPT ![plan[c]] = @ + 1]
  /\ UNCHANGED <<mode, clock, expires, issued, up, plan, interrupted>>

Complete(c) ==
  /\ pc[c] = "fetched"
  /\ Transition(c, "executed", "served")
  /\ served' = [served EXCEPT ![plan[c]] =
       IF pc'[c] = "served" THEN @ + 1 ELSE @]
  /\ UNCHANGED <<mode, clock, expires, issued, up, plan, interrupted>>

\* Mutant: fail keeps the plan from being executed again.
FailKeeping(c) ==
  /\ pc[c] = "failing"
  /\ Transition(c, "executing", "failed")
  /\ UNCHANGED <<mode, clock, expires, issued, up, plan, served, interrupted>>

\* Mutant: fail offers the plan again whatever its status.
FailUnchecked(c) ==
  /\ pc[c] = "failing"
  /\ status' = [status EXCEPT ![plan[c]] =
       IF @ = "absent" THEN @ ELSE "pending"]
  /\ pc' = [pc EXCEPT ![c] = "failed"]
  /\ UNCHANGED <<mode, clock, expires, issued, up, plan, served, interrupted>>

Fail(c) ==
  /\ pc[c] = "failing"
  /\ Transition(c, "pending", "failed")
  /\ UNCHANGED <<mode, clock, expires, issued, up, plan, served, interrupted>>

\* SQLite is unavailable to complete or fail: the plan stays executing.
StoreUnavailable(c) ==
  /\ Durable
  /\ pc[c] \in {"fetched", "failing"}
  /\ pc' = [pc EXCEPT ![c] = "unavailable"]
  /\ interrupted' = interrupted \cup {plan[c]}
  /\ UNCHANGED <<mode, clock, status, expires, issued, up, plan, served>>

\* The client cancels while the rate limit or the bridge is awaited:
\* CancelledError is not an Exception, so the plan stays executing.
CancelCall(c) ==
  /\ pc[c] \in {"acquired", "querying"}
  /\ pc' = [pc EXCEPT ![c] = "cancelled"]
  /\ interrupted' = interrupted \cup {plan[c]}
  /\ UNCHANGED <<mode, clock, status, expires, issued, up, plan, served>>

(***************************************************************************)
(* Processes and time                                                      *)
(***************************************************************************)

Crash(q) ==
  /\ q \in up
  /\ up' = up \ {q}
  /\ pc' = [c \in Call |->
       IF ProcessOf[c] = q /\ pc[c] \in Active THEN "lost" ELSE pc[c]]
  /\ status' = IF Durable THEN status ELSE [p \in Plan |-> "absent"]
  /\ interrupted' = interrupted \cup
       {plan[c] : c \in {d \in Call : ProcessOf[d] = q /\ pc[d] \in Active}}
  /\ UNCHANGED <<mode, clock, expires, issued, plan, served>>

\* _initialize of the store that a starting process opens.
Start(q) ==
  /\ q \notin up
  /\ Durable \/ up = {}
  /\ up' = up \cup {q}
  /\ status' = [p \in Plan |->
       IF mode = "recovering" /\ Purged[p] = "executing"
       THEN "pending" ELSE Purged[p]]
  /\ UNCHANGED <<mode, clock, expires, issued, pc, plan, served, interrupted>>

Tick ==
  /\ clock < MaxClock
  /\ clock' = clock + 1
  /\ UNCHANGED <<mode, status, expires, issued, up, pc, plan, served,
                interrupted>>

Execute(c) ==
  RefuseQuery(c) \/ Query(c) \/ Fetch(c) \/ Complete(c) \/ Fail(c)
    \/ StoreUnavailable(c)

Next ==
  \/ \E p \in Plan : Create(p) \/ Expire(p) \/ CancelPlan(p)
  \/ RefuseCreate
  \/ \E c \in Call :
       \/ \E p \in Plan, matches \in BOOLEAN : Acquire(c, p, matches)
       \/ Execute(c)
       \/ CancelCall(c)
  \/ \E q \in Process : Crash(q) \/ Start(q)
  \/ Tick

Spec == Init /\ [][Next]_vars

(***************************************************************************)
(* Properties                                                              *)
(***************************************************************************)

TypeOK ==
  /\ mode \in Modes
  /\ clock \in 0..MaxClock
  /\ status \in [Plan -> Status]
  /\ expires \in [Plan -> Nat]
  /\ issued \subseteq Plan
  /\ up \subseteq Process
  /\ pc \in [Call -> Active \cup Answer \cup Gone]
  /\ plan \in [Call -> Plan \cup {NoPlan}]
  /\ served \in [Plan -> Nat]
  /\ interrupted \subseteq Plan

\* docs/mcp-tools.md, execute_sql_query: "It executes the exact pending plan
\* once".  However often reads of a plan fail, are retried or recovered while
\* another one runs, its rows are returned once.
ServedAtMostOnce == \A p \in Plan : served[p] <= 1

\* Nobody else executes a plan while a call does, unless a store that recovers
\* may offer it again meanwhile.
OneExecutionAtATime ==
  mode # "recovering" => \A c, d \in Call :
    pc[c] \in Active /\ pc[d] \in Active /\ plan[c] = plan[d] => c = d

\* docs/mcp-tools.md: "A completed, cancelled, expired, or digest-mismatched
\* plan cannot be executed": such a plan never changes but by being deleted.
ConsumedStaysConsumed ==
  [][\A p \in Plan : status[p] \in {"executed", "cancelled"}
       => status'[p] \in {status[p], "absent"}]_vars

\* The same at the request: the plan has not been cancelled or finished since it
\* was acquired.
QueriesOnlyApproved ==
  [][\A c \in Call :
       mode # "recovering" /\ pc[c] = "acquired" /\ pc'[c] = "querying"
         => status[plan[c]] \in {"executing", "absent"}]_vars

\* A read that failed can be retried under the same approval: no plan stays
\* executing unless a call executes it, or one was interrupted.
ExecutingIsExplained ==
  \A p \in Plan : status[p] = "executing" =>
    p \in interrupted \/ \E c \in Call : pc[c] \in Active /\ plan[c] = p

(***************************************************************************)
(* Why they hold                                                           *)
(***************************************************************************)

\* Calls only work on plans that were handed out.
CallsNamePlans ==
  \A c \in Call : pc[c] # "idle" => plan[c] \in Plan

\* A plan that was served is never offered again.
ServedIsFinal ==
  \A p \in Plan :
    /\ p \notin issued => status[p] = "absent" /\ served[p] = 0
    /\ status[p] \in {"pending", "executing"} => served[p] = 0

\* Unless a starting process interferes, a plan is executing, or was deleted
\* when it expired, as long as a call works on it.
ExecutionIsMarked ==
  mode # "recovering" =>
    \A c \in Call : pc[c] \in Active =>
      plan[c] \in issued /\ status[plan[c]] \in {"executing", "absent"}

IInv ==
  /\ TypeOK
  /\ CallsNamePlans
  /\ ServedAtMostOnce
  /\ ServedIsFinal
  /\ ExecutionIsMarked
  /\ OneExecutionAtATime
  /\ ExecutingIsExplained
=============================================================================
