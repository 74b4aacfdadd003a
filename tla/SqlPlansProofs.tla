--------------------------- MODULE SqlPlansProofs ----------------------------
(***************************************************************************)
(* Proofs about SqlPlans, for any plans, calls, processes and stores.      *)
(***************************************************************************)
EXTENDS SqlPlans, TLAPS

\* The initial state satisfies the inductive invariant.
LEMMA InitInvariant == Init => IInv
  BY SqlPlanAssumption
  DEF Init, Durable, IInv, TypeOK, CallsNamePlans, ServedAtMostOnce, ServedIsFinal,
      ExecutionIsMarked, OneExecutionAtATime, ExecutingIsExplained,
      Status, Active, Answer, Gone

\* Every step preserves it.
LEMMA StepInvariant == IInv /\ [Next]_vars => IInv'
<1> SUFFICES ASSUME IInv, [Next]_vars PROVE IInv'
  OBVIOUS
<1> USE SqlPlanAssumption
    DEF IInv, TypeOK, CallsNamePlans, ServedAtMostOnce, ServedIsFinal,
        ExecutionIsMarked, OneExecutionAtATime, ExecutingIsExplained,
        Status, Active, Answer, Gone
<1>1. ASSUME NEW p \in Plan, Create(p) PROVE IInv'
  BY <1>1 DEF Create, Purged
<1>2. ASSUME NEW p \in Plan, Expire(p) \/ CancelPlan(p) PROVE IInv'
  BY <1>2 DEF Expire, CancelPlan
<1>3. CASE RefuseCreate
  BY <1>3 DEF RefuseCreate, Purged, Durable
<1>4. ASSUME NEW c \in Call, NEW p \in Plan, NEW matches \in BOOLEAN,
             Acquire(c, p, matches)
      PROVE  IInv'
  BY <1>4 DEF Acquire
<1>5. ASSUME NEW c \in Call, RefuseQuery(c) \/ Query(c) PROVE IInv'
  BY <1>5 DEF RefuseQuery, Query
<1>6. ASSUME NEW c \in Call, Fetch(c) PROVE IInv'
  BY <1>6 DEF Fetch
<1>7. ASSUME NEW c \in Call, Complete(c) PROVE IInv'
  BY <1>7 DEF Complete, Transition
<1>8. ASSUME NEW c \in Call, Fail(c) PROVE IInv'
  BY <1>8 DEF Fail, Transition
<1>9. ASSUME NEW c \in Call, StoreUnavailable(c) \/ CancelCall(c) PROVE IInv'
  BY <1>9 DEF StoreUnavailable, CancelCall, Durable
<1>10. ASSUME NEW q \in Process, Crash(q) PROVE IInv'
  BY <1>10 DEF Crash, Durable
<1>11. ASSUME NEW q \in Process, Start(q) PROVE IInv'
  BY <1>11 DEF Start, Purged, Durable
<1>12. CASE Tick
  BY <1>12 DEF Tick
<1>13. CASE UNCHANGED vars
  BY <1>13 DEF vars
<1> HIDE SqlPlanAssumption
    DEF IInv, TypeOK, CallsNamePlans, ServedAtMostOnce, ServedIsFinal,
        ExecutionIsMarked, OneExecutionAtATime, ExecutingIsExplained,
        Status, Active, Answer, Gone
<1>14. QED
  BY <1>1, <1>2, <1>3, <1>4, <1>5, <1>6, <1>7, <1>8, <1>9, <1>10, <1>11,
     <1>12, <1>13
  DEF Next, Execute

\* The inductive invariant holds throughout every behaviour.
THEOREM SqlPlanInvariance == Spec => []IInv
  BY InitInvariant, StepInvariant, PTL DEF Spec

\* The rows of a plan are returned once (docs/mcp-tools.md), even if recovery
\* offers a plan again while a call still executes it.
THEOREM PlansAreServedOnce == Spec => []ServedAtMostOnce
<1>1. IInv => ServedAtMostOnce
  BY DEF IInv
<1>2. QED
  BY <1>1, SqlPlanInvariance, PTL

\* Without recovery, which is how the gateway is deployed, no two calls execute
\* one plan at the same time.
THEOREM ExecutionsExcludeEachOther == Spec => []OneExecutionAtATime
<1>1. IInv => OneExecutionAtATime
  BY DEF IInv
<1>2. QED
  BY <1>1, SqlPlanInvariance, PTL

\* Every failed read gives its plan back: only an interruption leaves a plan
\* executing with no call behind it.
THEOREM FailedReadsGivePlansBack == Spec => []ExecutingIsExplained
<1>1. IInv => ExecutingIsExplained
  BY DEF IInv
<1>2. QED
  BY <1>1, SqlPlanInvariance, PTL

\* A completed or cancelled plan never becomes executable again
\* (docs/mcp-tools.md), whatever recovers, fails late or completes late.
THEOREM ConsumedPlansStayConsumed == Spec => ConsumedStaysConsumed
<1>1. IInv /\ [Next]_vars =>
        \A p \in Plan : status[p] \in {"executed", "cancelled"}
          => status'[p] \in {status[p], "absent"}
  BY SqlPlanAssumption
  DEF IInv, TypeOK, CallsNamePlans, ServedIsFinal, Next, vars, Execute, Create,
      RefuseCreate, Expire, CancelPlan, Purged, Acquire, RefuseQuery, Query,
      Fetch, Complete, Fail, Transition, StoreUnavailable, CancelCall, Crash,
      Start, Tick, Active, Durable
<1>2. QED
  BY <1>1, SqlPlanInvariance, PTL DEF ConsumedStaysConsumed, Spec

\* Without recovery, no request for a cancelled or finished plan reaches the
\* bridge.
THEOREM QueriesAreApproved == Spec => QueriesOnlyApproved
<1>1. IInv => \A c \in Call :
        mode # "recovering" /\ pc[c] = "acquired" /\ pc'[c] = "querying"
          => status[plan[c]] \in {"executing", "absent"}
  BY DEF IInv, ExecutionIsMarked, Active
<1>2. QED
  BY <1>1, SqlPlanInvariance, PTL DEF QueriesOnlyApproved
=============================================================================
