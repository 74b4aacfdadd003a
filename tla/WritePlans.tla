------------------------------ MODULE WritePlans ------------------------------
(***************************************************************************)
(* The write-plan stores and the apply workflow of FormWriteService that   *)
(* drives them: PersistentWritePlanStore, shared by the gateway processes  *)
(* of one installation, and WritePlanStore, in the memory of one process   *)
(* that has no plan database.                                              *)
(*                                                                         *)
(* A store method is one SQLite transaction (BEGIN IMMEDIATE), or runs     *)
(* under the store's lock without a pause, hence one action.  An apply     *)
(* call is several steps: between them the process may die, the call may   *)
(* be cancelled, the plan may expire and be purged, and other calls, of    *)
(* other processes too, run their own transactions.                        *)
(***************************************************************************)
EXTENDS Naturals, FiniteSets

CONSTANTS
  Plan,               \* the plan identifiers that can be issued
  NoPlan,             \* what a call slot that was never used names
  Process,            \* gateway processes sharing one plan database
  Call,               \* slots for apply calls in progress
  ProcessOf,          \* the process that runs each slot
  TTL,                \* write_plan_ttl_seconds, in ticks
  MaxPending,         \* max_pending_write_plans
  MaxClock,           \* bound of the model: the last tick of the clock
  Modes               \* the stores considered

StoreMode == {
  "shared",      \* in the plan database, as deployed
  "recovering",  \* the same with recover_interrupted
  "memory"}      \* in the memory of the only process

ASSUME WritePlanAssumption ==
  /\ ProcessOf \in [Call -> Process]
  /\ TTL \in Nat \ {0}
  /\ MaxPending \in Nat \ {0}
  /\ MaxClock \in Nat
  /\ Modes \subseteq StoreMode
  /\ IsFiniteSet(Plan)
  /\ NoPlan \notin Plan

VARIABLES
  mode,      \* the store, which never changes
  clock,     \* time.time(), in ticks
  status,    \* the status column of each plan; "absent" when there is no row
  expires,   \* the expires_at column
  issued,    \* the identifiers handed out so far (they are random, never reused)
  up,        \* the processes that are running
  pc,        \* where each apply call is, or how it was answered
  plan,      \* the plan each apply call names
  wire,      \* the request each call sent to the bridge
  executed   \* how many times Helix took the effect of each plan

vars == <<mode, clock, status, expires, issued, up, pc, plan, wire, executed>>

StoredStatus == {"pending", "applying", "applied", "failed",
                 "outcome_unknown", "cancelled"}
Status  == StoredStatus \cup {"absent"}
Active  == {"acquired", "sent", "succeeded", "failing", "doubting"}
Answer  == {"applied", "reused", "refused", "failed", "unknown", "missing",
            "unavailable"}
Gone    == {"idle", "lost", "cancelled"}
Request == {"none", "inflight", "executed", "rejected"}

Expired(p) == expires[p] <= clock
Stored(p)  == status[p] # "absent"
Durable    == mode # "memory"

Init ==
  /\ mode \in Modes
  /\ clock = 0
  /\ status = [p \in Plan |-> "absent"]
  /\ expires = [p \in Plan |-> 0]
  /\ issued = {}
  /\ IF Durable THEN up = Process ELSE \E q \in Process : up = {q}
  /\ pc = [c \in Call |-> "idle"]
  /\ plan = [c \in Call |-> NoPlan]
  /\ wire = [c \in Call |-> "none"]
  /\ executed = [p \in Plan |-> 0]

(***************************************************************************)
(* Store transactions outside an apply                                     *)
(***************************************************************************)

\* The status column after DELETE ... WHERE expires_at <= now.
Purged == [p \in Plan |-> IF Expired(p) THEN "absent" ELSE status[p]]

Outstanding(st) == {p \in Plan : st[p] \in {"pending", "applying"}}

\* Mutant: only pending rows count towards the capacity.
CreateCountsPendingOnly(p) ==
  /\ up # {}
  /\ p \notin issued
  /\ Cardinality({r \in Plan : Purged[r] = "pending"}) < MaxPending
  /\ status' = [Purged EXCEPT ![p] = "pending"]
  /\ expires' = [expires EXCEPT ![p] = clock + TTL]
  /\ issued' = issued \cup {p}
  /\ UNCHANGED <<mode, clock, up, pc, plan, wire, executed>>

\* create: purge, refuse at capacity, insert a pending row.
Create(p) ==
  /\ up # {}
  /\ p \notin issued
  /\ Cardinality(Outstanding(Purged)) < MaxPending
  /\ status' = [Purged EXCEPT ![p] = "pending"]
  /\ expires' = [expires EXCEPT ![p] = clock + TTL]
  /\ issued' = issued \cup {p}
  /\ UNCHANGED <<mode, clock, up, pc, plan, wire, executed>>

\* create at capacity: the transaction rolls back, purge included; in memory
\* what was purged is gone.
RefuseCreate ==
  /\ up # {} /\ ~Durable
  /\ Cardinality(Outstanding(Purged)) >= MaxPending
  /\ status' = Purged
  /\ UNCHANGED <<mode, clock, expires, issued, up, pc, plan, wire, executed>>

\* get and cancel: an expired row is deleted and the deletion is committed.
Expire(p) ==
  /\ up # {}
  /\ Stored(p)
  /\ Expired(p)
  /\ status' = [status EXCEPT ![p] = "absent"]
  /\ UNCHANGED <<mode, clock, expires, issued, up, pc, plan, wire,
                 executed>>

\* Mutant: any plan that has not expired can be cancelled.
CancelPlanUnguarded(p) ==
  /\ up # {}
  /\ ~Expired(p)
  /\ Stored(p)
  /\ status' = [status EXCEPT ![p] = "cancelled"]
  /\ UNCHANGED <<mode, clock, expires, issued, up, pc, plan, wire,
                 executed>>

CancelPlan(p) ==
  /\ up # {}
  /\ ~Expired(p)
  /\ status[p] = "pending"
  /\ status' = [status EXCEPT ![p] = "cancelled"]
  /\ UNCHANGED <<mode, clock, expires, issued, up, pc, plan, wire,
                 executed>>

(***************************************************************************)
(* An apply call                                                           *)
(***************************************************************************)

\* A slot is free when its call is over and no request of its is outstanding.
Free(c) == pc[c] \notin Active /\ wire[c] # "inflight"

\* Mutant: a plan whose outcome is unknown may be tried again.
AcquireRetriesUnknown(p, matches) ==
  IF ~Stored(p) \/ Expired(p) \/ ~matches THEN "refused"
  ELSE IF status[p] = "applied" THEN "reused"
  ELSE IF status[p] \in {"pending", "outcome_unknown"} THEN "acquired"
  ELSE "refused"

\* acquire, for a request whose digest, operation and target may not match.
\* The expiry check comes first, then the match, then the status.
AcquireAnswer(p, matches) ==
  CASE ~Stored(p)                       -> "refused"
    [] Stored(p) /\ Expired(p)          -> "refused"
    [] Stored(p) /\ ~Expired(p) /\ ~matches -> "refused"
    [] OTHER -> CASE status[p] = "applied" -> "reused"
                  [] status[p] = "pending" -> "acquired"
                  [] OTHER                 -> "refused"

Acquire(c, p, matches) ==
  /\ ProcessOf[c] \in up
  /\ Free(c)
  /\ plan' = [plan EXCEPT ![c] = p]
  /\ wire' = [wire EXCEPT ![c] = "none"]
  /\ pc' = [pc EXCEPT ![c] = AcquireAnswer(p, matches)]
  /\ status' = [status EXCEPT ![p] =
       IF Expired(p) THEN "absent"
       ELSE IF AcquireAnswer(p, matches) = "acquired" THEN "applying" ELSE @]
  /\ UNCHANGED <<mode, clock, expires, issued, up, executed>>

\* Policy, rate limit, credentials or a closed client refuse the write before
\* anything is sent.
RejectLocally(c) ==
  /\ pc[c] = "acquired"
  /\ pc' = [pc EXCEPT ![c] = "failing"]
  /\ UNCHANGED <<mode, clock, status, expires, issued, up, plan, wire,
                 executed>>

Send(c) ==
  /\ pc[c] = "acquired"
  /\ pc' = [pc EXCEPT ![c] = "sent"]
  /\ wire' = [wire EXCEPT ![c] = "inflight"]
  /\ UNCHANGED <<mode, clock, status, expires, issued, up, plan,
                 executed>>

\* The bridge carries the request out; nobody may be waiting for it any more.
Settle(c, outcome) ==
  /\ wire[c] = "inflight"
  /\ wire' = [wire EXCEPT ![c] = IF pc[c] = "sent" THEN outcome ELSE "none"]
  /\ UNCHANGED <<mode, clock, status, expires, issued, up, pc, plan>>

RemoteExecute(c) ==
  /\ Settle(c, "executed")
  /\ executed' = [executed EXCEPT ![plan[c]] = @ + 1]

\* A conflict, a missing permission, an unknown form or an ambiguous field:
\* the errors that prove that Helix changed nothing.
RemoteReject(c) ==
  /\ Settle(c, "rejected")
  /\ UNCHANGED <<mode, executed>>

\* The request reached no bridge, or the bridge failed before the write in a
\* way that the client cannot tell from a lost answer.
RemoteDrop(c) ==
  /\ Settle(c, "none")
  /\ UNCHANGED <<mode, executed>>

ReceiveAnswer(c) ==
  /\ pc[c] = "sent"
  /\ wire[c] \in {"executed", "rejected"}
  /\ pc' = [pc EXCEPT ![c] =
       IF wire[c] = "executed" THEN "succeeded" ELSE "failing"]
  /\ wire' = [wire EXCEPT ![c] = "none"]
  /\ UNCHANGED <<mode, clock, status, expires, issued, up, plan,
                 executed>>

\* Mutant: a lost answer is waited for without a timeout.
LoseAnswerWithoutTimeout(c) ==
  /\ pc[c] = "sent"
  /\ wire[c] # "inflight"
  /\ pc' = [pc EXCEPT ![c] = "doubting"]
  /\ wire' = [wire EXCEPT ![c] = "none"]
  /\ UNCHANGED <<mode, clock, status, expires, issued, up, plan,
                 executed>>

\* Timeout, transport error or invalid answer: ArapiBridgeTransportError or
\* ArapiBridgeProtocolError, whatever the bridge did or will still do.
LoseAnswer(c) ==
  /\ pc[c] = "sent"
  /\ pc' = [pc EXCEPT ![c] = "doubting"]
  /\ wire' = [wire EXCEPT ![c] = IF @ = "inflight" THEN @ ELSE "none"]
  /\ UNCHANGED <<mode, clock, status, expires, issued, up, plan,
                 executed>>

\* complete: only an applying row; an exception after the write succeeded goes
\* on to fail(outcome_unknown=True).
Complete(c) ==
  /\ pc[c] = "succeeded"
  /\ IF status[plan[c]] = "applying"
     THEN /\ status' = [status EXCEPT ![plan[c]] = "applied"]
          /\ pc' = [pc EXCEPT ![c] = "applied"]
     ELSE /\ pc' = [pc EXCEPT ![c] = "doubting"]
          /\ UNCHANGED status
  /\ UNCHANGED <<mode, clock, expires, issued, up, plan, wire, executed>>

\* SQLite is unavailable: the transaction rolls back and complete raises.
CompleteUnavailable(c) ==
  /\ Durable
  /\ pc[c] = "succeeded"
  /\ pc' = [pc EXCEPT ![c] = "doubting"]
  /\ UNCHANGED <<mode, clock, status, expires, issued, up, plan, wire,
                 executed>>

\* Mutant: the two outcomes of fail are swapped in the row.
FailSwapped(c) ==
  /\ pc[c] \in {"failing", "doubting"}
  /\ Stored(plan[c])
  /\ status' = [status EXCEPT ![plan[c]] =
       IF pc[c] = "failing" THEN "outcome_unknown" ELSE "failed"]
  /\ pc' = [pc EXCEPT ![c] = IF @ = "doubting" THEN "unknown" ELSE "failed"]
  /\ UNCHANGED <<mode, clock, expires, issued, up, plan, wire, executed>>

\* fail: overwrites any status, and raises NotFound when the row is gone.
Fail(c) ==
  /\ pc[c] \in {"failing", "doubting"}
  /\ IF Stored(plan[c])
     THEN /\ status' = [status EXCEPT ![plan[c]] =
               IF pc[c] = "doubting" THEN "outcome_unknown" ELSE "failed"]
          /\ pc' = [pc EXCEPT ![c] =
               IF pc[c] = "doubting" THEN "unknown" ELSE "failed"]
     ELSE /\ pc' = [pc EXCEPT ![c] = "missing"]
          /\ UNCHANGED status
  /\ UNCHANGED <<mode, clock, expires, issued, up, plan, wire, executed>>

FailUnavailable(c) ==
  /\ Durable
  /\ pc[c] \in {"failing", "doubting"}
  /\ pc' = [pc EXCEPT ![c] = "unavailable"]
  /\ UNCHANGED <<mode, clock, status, expires, issued, up, plan, wire,
                 executed>>

\* The client cancels its request: CancelledError is not an Exception, so no
\* handler of _apply runs and the row stays applying.
CancelCall(c) ==
  /\ pc[c] \in Active
  /\ pc' = [pc EXCEPT ![c] = "cancelled"]
  /\ wire' = [wire EXCEPT ![c] = IF @ = "inflight" THEN @ ELSE "none"]
  /\ UNCHANGED <<mode, clock, status, expires, issued, up, plan,
                 executed>>

(***************************************************************************)
(* Processes and time                                                      *)
(***************************************************************************)

\* The process dies; the requests it sent do not, and a store in its memory does.
Crash(q) ==
  /\ q \in up
  /\ up' = up \ {q}
  /\ pc' = [c \in Call |->
       IF ProcessOf[c] = q /\ pc[c] \in Active THEN "lost" ELSE pc[c]]
  /\ wire' = [c \in Call |->
       IF ProcessOf[c] = q /\ wire[c] # "inflight" THEN "none" ELSE wire[c]]
  /\ status' = IF Durable THEN status ELSE [p \in Plan |-> "absent"]
  /\ UNCHANGED <<mode, clock, expires, issued, plan, executed>>

\* _initialize of the store a starting process opens; a store in memory starts
\* empty, and is its process's alone.
Start(q) ==
  /\ q \notin up
  /\ ~Durable => up = {}
  /\ up' = up \cup {q}
  /\ status' = [p \in Plan |->
       IF mode = "recovering" /\ Purged[p] = "applying"
       THEN "outcome_unknown" ELSE Purged[p]]
  /\ UNCHANGED <<mode, clock, expires, issued, pc, plan, wire, executed>>

Tick ==
  /\ clock < MaxClock
  /\ clock' = clock + 1
  /\ UNCHANGED <<mode, status, expires, issued, up, pc, plan, wire,
                 executed>>

-----------------------------------------------------------------------------

\* The steps of a call that its process keeps taking once it has started.
ApplyStep(c) ==
  \/ RejectLocally(c) \/ Send(c)
  \/ ReceiveAnswer(c) \/ LoseAnswer(c)
  \/ Complete(c) \/ CompleteUnavailable(c)
  \/ Fail(c) \/ FailUnavailable(c)

RemoteStep(c) == RemoteExecute(c) \/ RemoteReject(c) \/ RemoteDrop(c)

Next ==
  \/ \E p \in Plan : Create(p) \/ Expire(p) \/ CancelPlan(p)
  \/ RefuseCreate
  \/ \E c \in Call :
       \/ \E p \in Plan, matches \in BOOLEAN : Acquire(c, p, matches)
       \/ ApplyStep(c)
       \/ RemoteStep(c)
       \/ CancelCall(c)
  \/ \E q \in Process : Crash(q) \/ Start(q)
  \/ Tick

Spec == Init /\ [][Next]_vars

\* Every HTTP request of the client has a timeout and every store transaction
\* a busy timeout, so a call that is not interrupted keeps moving; a process
\* that died is started again by its MCP client.
Fairness ==
  /\ \A c \in Call : WF_vars(ApplyStep(c))
  /\ \A q \in Process : WF_vars(Start(q))

FairSpec == Spec /\ Fairness

-----------------------------------------------------------------------------
(***************************************************************************)
(* Correctness                                                             *)
(***************************************************************************)

\* The type of every variable.
TypeOK ==
  /\ mode \in Modes
  /\ clock \in 0..MaxClock
  /\ status \in [Plan -> Status]
  /\ expires \in [Plan -> Nat]
  /\ issued \subseteq Plan
  /\ up \subseteq Process
  /\ pc \in [Call -> Active \cup Answer \cup Gone]
  /\ plan \in [Call -> Plan \cup {NoPlan}]
  /\ wire \in [Call -> Request]
  /\ executed \in [Plan -> Nat]

\* "Apply each approved plan at most once" (FormWriteService): whatever calls
\* race for a plan, retry it, die or time out on it, Helix never takes its
\* effect twice.
AtMostOnce == \A p \in Plan : executed[p] <= 1

\* The calls that can still make Helix take the effect of p: those that were
\* let through and have not sent the request, and those whose request is out.
Token(c, p) == plan[c] = p /\ (pc[c] = "acquired" \/ wire[c] = "inflight")

\* A stored success and every success answer, first or reused, stand for one
\* execution: a result is never reported for a write that did not happen.
SuccessMeansExecuted ==
  /\ \A p \in Plan : status[p] = "applied" => executed[p] = 1
  /\ \A c \in Call : pc[c] \in {"applied", "reused"} => executed[plan[c]] = 1

\* A plan that is stored as failed or cancelled, or whose caller was told that
\* the write failed, was not executed and never will be: a conflict verdict
\* may be followed by a new plan without writing twice.
FailureMeansUntouched ==
  /\ \A p \in Plan : status[p] \in {"failed", "cancelled"} =>
       executed[p] = 0 /\ \A c \in Call : ~Token(c, p)
  /\ \A c \in Call : pc[c] = "failed" => executed[plan[c]] = 0

\* Pending and applying rows together never exceed max_pending_write_plans,
\* whichever processes create them and whatever expired in between.
CapacityRespected == Cardinality(Outstanding(status)) <= MaxPending

\* What a client saw of a finished plan stays true while the row exists: a
\* terminal status only ever gives way to the deletion of the row, unless a
\* recovering process had called a plan unknown that another one still applied.
TerminalStatusIsFinal ==
  [][\A p \in Plan :
       mode # "recovering" /\
       status[p] \in {"applied", "failed", "outcome_unknown", "cancelled"}
         => status'[p] \in {status[p], "absent"}]_vars

\* When Helix took the effect but the result cannot be recorded, the caller is
\* told that the outcome is unknown, not that the plan does not exist.
EffectIsAcknowledged ==
  \A c \in Call : pc[c] = "missing" => executed[plan[c]] = 0

\* An apply call that is not interrupted is answered, even when the bridge
\* never answers and the database is unavailable.
ApplyTerminates ==
  \A c \in Call : (pc[c] \in Active) ~> (pc[c] \notin Active)

(***************************************************************************)
(* The inductive invariant behind AtMostOnce and the two verdict           *)
(* invariants: the right to execute a plan is a token that acquire creates *)
(* once, out of a pending row, and that the request consumes.              *)
(***************************************************************************)

CallsNamePlans ==
  \A c \in Call : pc[c] # "idle" \/ wire[c] # "none" => plan[c] \in Plan

\* A plan that nobody was let through for has no trace outside its row.
UntriedPlans ==
  \A p \in Plan :
    /\ p \notin issued => status[p] = "absent"
    /\ p \notin issued \/ status[p] = "pending" =>
         /\ executed[p] = 0
         /\ \A c \in Call : plan[c] = p => pc[c] \notin Active /\ wire[c] = "none"

WireMatchesCall ==
  \A c \in Call :
    /\ wire[c] \in {"executed", "rejected"} => pc[c] = "sent"
    /\ pc[c] \in {"acquired", "succeeded", "failing"} => wire[c] = "none"

\* acquire lets one call through per plan, so no two calls work on one plan.
OneCallPerPlan ==
  \A c, d \in Call :
    pc[c] \in Active /\ pc[d] \in Active /\ plan[c] = plan[d] => c = d

OneToken ==
  \A c, d \in Call, p \in Plan : Token(c, p) /\ Token(d, p) => c = d

TokenUnused == \A c \in Call, p \in Plan : Token(c, p) => executed[p] = 0

\* The row of a plan being applied is applying, unless a recovering process
\* or a purge interfered.
AppliedRowStatus ==
  \A c \in Call : pc[c] \in Active =>
    \/ status[plan[c]] \in {"applying", "absent"}
    \/ mode = "recovering" /\ status[plan[c]] = "outcome_unknown"

Untouchable(p) ==
  /\ p \in issued
  /\ status[p] # "pending"
  /\ executed[p] = 0
  /\ \A c \in Call : ~Token(c, p)

KnownFailures ==
  /\ \A c \in Call :
       pc[c] \in {"failing", "failed"} \/ wire[c] = "rejected"
         => Untouchable(plan[c])
  /\ \A p \in Plan : status[p] \in {"failed", "cancelled"} => Untouchable(p)

KnownSuccesses ==
  /\ \A c \in Call :
       pc[c] \in {"succeeded", "applied", "reused"} \/ wire[c] = "executed"
         => executed[plan[c]] = 1
  /\ \A p \in Plan : status[p] = "applied" => executed[p] = 1

\* The inductive invariant: each part is about what a call, a row or a request
\* left behind, and none is preserved without the others.
IInv ==
  /\ TypeOK
  /\ CallsNamePlans
  /\ UntriedPlans
  /\ WireMatchesCall
  /\ OneCallPerPlan
  /\ OneToken
  /\ TokenUnused
  /\ AppliedRowStatus
  /\ KnownFailures
  /\ KnownSuccesses
  /\ AtMostOnce

(***************************************************************************)
(* The plan store and the apply workflow keep the promise of ApprovedWrite.*)
(***************************************************************************)

MayStillExecute(p) ==
  \/ p \notin issued
  \/ status[p] = "pending"
  \/ \E c \in Call : Token(c, p)

VerdictOf(st) ==
  CASE st = "applied" -> "success"
    [] st = "failed" -> "failure"
    [] st = "outcome_unknown" -> "unknown"
    [] OTHER -> "none"

Promise == INSTANCE ApprovedWrite WITH
  may <- [p \in Plan |-> MayStillExecute(p)],
  effect <- executed,
  verdict <- [p \in Plan |-> VerdictOf(status[p])]

\* Every behaviour of the gateway is one the approver was promised.
KeepsPromise == Promise!Spec

=============================================================================
