--------------------------- MODULE WritePlansProofs ---------------------------
(***************************************************************************)
(* Theorems about WritePlans, for every set of plans, processes and calls, *)
(* every plan lifetime and capacity, and each of the three stores.         *)
(***************************************************************************)
EXTENDS WritePlans, FiniteSetTheorems, TLAPS

LEMMA InitInvariant == Init => IInv
BY WritePlanAssumption
DEF Init, Durable, IInv, TypeOK, CallsNamePlans, UntriedPlans, WireMatchesCall,
    OneCallPerPlan, OneToken, TokenUnused, AppliedRowStatus, KnownFailures,
    KnownSuccesses, AtMostOnce, Untouchable, Token, Active, Answer, Gone,
    Request, Status, StoredStatus

(* One step per action of Next.  Each preserves the whole of IInv: what an   *)
(* action does to a row, a call or a request is only harmless because of     *)
(* what the other parts say of the rest of the state.                        *)
LEMMA StepInvariant == IInv /\ [Next]_vars => IInv'
<1> SUFFICES ASSUME IInv, [Next]_vars
             PROVE  IInv'
  OBVIOUS
<1> USE WritePlanAssumption
    DEF IInv, TypeOK, CallsNamePlans, UntriedPlans, WireMatchesCall,
        OneCallPerPlan, OneToken, TokenUnused, AppliedRowStatus,
        KnownFailures, KnownSuccesses, AtMostOnce, Untouchable, Token,
        Active, Answer, Gone, Request, Status, StoredStatus
<1>1. ASSUME NEW p \in Plan, Create(p)
      PROVE  IInv'
  BY <1>1 DEF Create, Purged, Expired
<1>1a. CASE RefuseCreate
  BY <1>1a DEF RefuseCreate, Purged, Expired
<1>2. ASSUME NEW p \in Plan, Expire(p)
      PROVE  IInv'
  BY <1>2 DEF Expire, Stored, Expired
<1>3. ASSUME NEW p \in Plan, CancelPlan(p)
      PROVE  IInv'
  BY <1>3 DEF CancelPlan, Expired
<1>4. ASSUME NEW c \in Call, NEW p \in Plan, NEW matches \in BOOLEAN,
             Acquire(c, p, matches)
      PROVE  IInv'
  <2>1. plan' = [plan EXCEPT ![c] = p] /\ wire' = [wire EXCEPT ![c] = "none"]
        /\ UNCHANGED <<mode, clock, expires, issued, up, executed>>
        /\ pc[c] \notin Active /\ wire[c] # "inflight"
    BY <1>4 DEF Acquire, Free
  <2>2. CASE AcquireAnswer(p, matches) = "acquired"
    <3>1. /\ status[p] = "pending"
          /\ status' \in {[status EXCEPT ![p] = "applying"], [status EXCEPT ![p] = "absent"]}
          /\ ~Expired(p)
          /\ pc' = [pc EXCEPT ![c] = "acquired"]
      BY <1>4, <2>2 DEF Acquire, AcquireAnswer, Stored
    <3>2. status' = [status EXCEPT ![p] = "applying"]
      BY <1>4, <2>2, <3>1 DEF Acquire
    <3>3. QED
      BY <2>1, <3>1, <3>2
  <2>3. CASE AcquireAnswer(p, matches) # "acquired"
    <3>1. status' = [status EXCEPT ![p] = IF Expired(p) THEN "absent" ELSE @]
      BY <1>4, <2>3 DEF Acquire
    <3>2. /\ AcquireAnswer(p, matches) \in {"refused", "reused"}
          /\ AcquireAnswer(p, matches) = "reused" => status[p] = "applied"
      BY <2>3 DEF AcquireAnswer
    <3>3. pc' = [pc EXCEPT ![c] = AcquireAnswer(p, matches)]
      BY <1>4 DEF Acquire
    <3>4. CASE AcquireAnswer(p, matches) = "refused"
      BY <2>1, <3>1, <3>3, <3>4
    <3>5. CASE AcquireAnswer(p, matches) = "reused"
      BY <2>1, <3>1, <3>2, <3>3, <3>5
    <3>6. QED
      BY <3>2, <3>4, <3>5
  <2>4. QED
    BY <2>2, <2>3
<1>5. ASSUME NEW c \in Call, RejectLocally(c)
      PROVE  IInv'
  BY <1>5 DEF RejectLocally
<1>6. ASSUME NEW c \in Call, Send(c)
      PROVE  IInv'
  BY <1>6 DEF Send
<1>7. ASSUME NEW c \in Call, ReceiveAnswer(c)
      PROVE  IInv'
  BY <1>7 DEF ReceiveAnswer
<1>8. ASSUME NEW c \in Call, LoseAnswer(c)
      PROVE  IInv'
  BY <1>8 DEF LoseAnswer
<1>9. ASSUME NEW c \in Call, Complete(c)
      PROVE  IInv'
  BY <1>9 DEF Complete
<1>10. ASSUME NEW c \in Call, CompleteUnavailable(c)
       PROVE  IInv'
  BY <1>10 DEF CompleteUnavailable
<1>11. ASSUME NEW c \in Call, Fail(c)
       PROVE  IInv'
  BY <1>11 DEF Fail, Stored
<1>12. ASSUME NEW c \in Call, FailUnavailable(c)
       PROVE  IInv'
  BY <1>12 DEF FailUnavailable
<1>13. ASSUME NEW c \in Call, RemoteExecute(c)
       PROVE  IInv'
  BY <1>13 DEF RemoteExecute, Settle
<1>14. ASSUME NEW c \in Call, RemoteReject(c)
       PROVE  IInv'
  BY <1>14 DEF RemoteReject, Settle
<1>15. ASSUME NEW c \in Call, RemoteDrop(c)
       PROVE  IInv'
  BY <1>15 DEF RemoteDrop, Settle
<1>16. ASSUME NEW c \in Call, CancelCall(c)
       PROVE  IInv'
  BY <1>16 DEF CancelCall
<1>17. ASSUME NEW q \in Process, Crash(q)
       PROVE  IInv'
  BY <1>17 DEF Crash, Durable
<1>18. ASSUME NEW q \in Process, Start(q)
       PROVE  IInv'
  BY <1>18 DEF Start, Purged, Expired
<1>19. CASE Tick
  BY <1>19 DEF Tick
<1>20. CASE UNCHANGED vars
  BY <1>20 DEF vars
<1> HIDE WritePlanAssumption
    DEF IInv, TypeOK, CallsNamePlans, UntriedPlans, WireMatchesCall,
        OneCallPerPlan, OneToken, TokenUnused, AppliedRowStatus,
        KnownFailures, KnownSuccesses, AtMostOnce, Untouchable, Token,
        Active, Answer, Gone, Request, Status, StoredStatus
<1>21. QED
  BY <1>1, <1>1a, <1>2, <1>3, <1>4, <1>5, <1>6, <1>7, <1>8, <1>9, <1>10,
     <1>11, <1>12, <1>13, <1>14, <1>15, <1>16, <1>17, <1>18, <1>19, <1>20
  DEF Next, ApplyStep, RemoteStep

(* The inductive invariant holds throughout. *)
THEOREM Invariance == Spec => []IInv
BY InitInvariant, StepInvariant, PTL DEF Spec

(* Type correctness of the store, the calls and the requests. *)
THEOREM TypeCorrectness == Spec => []TypeOK
<1>1. IInv => TypeOK
  BY DEF IInv
<1>2. QED
  BY <1>1, Invariance, PTL

(* "Apply each approved plan at most once": no interleaving of calls,        *)
(* crashes, cancellations, expiries, recoveries and lost answers makes Helix *)
(* take the effect of a plan a second time.                                  *)
THEOREM PlansAppliedAtMostOnce == Spec => []AtMostOnce
<1>1. IInv => AtMostOnce
  BY DEF IInv
<1>2. QED
  BY <1>1, Invariance, PTL

(* A success, stored or answered, first or reused, stands for an execution.  *)
THEOREM SuccessIsTrue == Spec => []SuccessMeansExecuted
<1>1. IInv => SuccessMeansExecuted
  BY DEF IInv, KnownSuccesses, SuccessMeansExecuted
<1>2. QED
  BY <1>1, Invariance, PTL

(* A failure, stored or answered, and a cancellation are final: the plan was *)
(* not executed and no call can execute it any more.                         *)
THEOREM FailureIsTrue == Spec => []FailureMeansUntouched
<1>1. IInv => FailureMeansUntouched
  BY DEF IInv, KnownFailures, Untouchable, FailureMeansUntouched
<1>2. QED
  BY <1>1, Invariance, PTL

-----------------------------------------------------------------------------
(* Capacity *)

LEMMA OutstandingFinite ==
  ASSUME NEW st, NEW T, Outstanding(st) \subseteq T, T \subseteq Plan
  PROVE  /\ IsFiniteSet(Outstanding(st))
         /\ IsFiniteSet(T)
         /\ Cardinality(Outstanding(st)) \in Nat
         /\ Cardinality(T) \in Nat
         /\ Cardinality(Outstanding(st)) <= Cardinality(T)
<1>1. IsFiniteSet(T)
  BY WritePlanAssumption, FS_Subset
<1>2. QED
  BY <1>1, FS_Subset, FS_CardinalityType

LEMMA CapacityStep == TypeOK /\ CapacityRespected /\ [Next]_vars => CapacityRespected'
<1> SUFFICES ASSUME TypeOK, CapacityRespected, [Next]_vars
             PROVE  CapacityRespected'
  OBVIOUS
<1>1. Outstanding(status) \subseteq Plan /\ MaxPending \in Nat
  BY WritePlanAssumption DEF Outstanding
<1>2. ASSUME Outstanding(status') \subseteq Outstanding(status)
      PROVE  CapacityRespected'
  <2>1. Cardinality(Outstanding(status')) <= Cardinality(Outstanding(status))
        /\ Cardinality(Outstanding(status')) \in Nat
        /\ Cardinality(Outstanding(status)) \in Nat
    BY <1>1, <1>2, OutstandingFinite
  <2>2. QED
    BY <1>1, <2>1 DEF CapacityRespected
<1>3. ASSUME NEW p \in Plan, Create(p)
      PROVE  CapacityRespected'
  <2> DEFINE Before == Outstanding(Purged)
  <2>1. Before \subseteq Plan
    BY DEF Outstanding
  <2>2. IsFiniteSet(Before) /\ Cardinality(Before) \in Nat
    BY <2>1, OutstandingFinite
  <2>3. Outstanding(status') \subseteq Before \cup {p}
    BY <1>3 DEF Create, Outstanding, Purged
  <2>4. Before \cup {p} \subseteq Plan
    BY <2>1
  <2>5. Cardinality(Before \cup {p}) <= Cardinality(Before) + 1
    BY <2>2, FS_AddElement
  <2>6. Cardinality(Outstanding(status')) <= Cardinality(Before \cup {p})
        /\ Cardinality(Outstanding(status')) \in Nat
        /\ Cardinality(Before \cup {p}) \in Nat
    BY <2>3, <2>4, OutstandingFinite
  <2>7. Cardinality(Before) < MaxPending
    BY <1>3 DEF Create
  <2> HIDE DEF Before
  <2>8. QED
    BY <1>1, <2>2, <2>5, <2>6, <2>7 DEF CapacityRespected
<1>4. CASE UNCHANGED status
  BY <1>2, <1>4
<1>5. ASSUME NEW p \in Plan, Expire(p) \/ CancelPlan(p)
      PROVE  Outstanding(status') \subseteq Outstanding(status)
  BY <1>5 DEF Expire, CancelPlan, Outstanding, TypeOK
<1>6. ASSUME NEW c \in Call, NEW p \in Plan, NEW matches \in BOOLEAN,
             Acquire(c, p, matches)
      PROVE  Outstanding(status') \subseteq Outstanding(status)
  BY <1>6 DEF Acquire, AcquireAnswer, Outstanding, TypeOK
<1>7. ASSUME NEW c \in Call, Complete(c) \/ Fail(c)
      PROVE  Outstanding(status') \subseteq Outstanding(status)
  BY <1>7 DEF Complete, Fail, Outstanding, TypeOK
<1>8. ASSUME NEW q \in Process, Start(q)
      PROVE  Outstanding(status') \subseteq Outstanding(status)
  BY <1>8 DEF Start, Purged, Outstanding, TypeOK
<1>9. ASSUME RefuseCreate \/ \E q \in Process : Crash(q)
      PROVE  Outstanding(status') \subseteq Outstanding(status)
  BY <1>9 DEF RefuseCreate, Crash, Durable, Purged, Outstanding, TypeOK
<1>10. QED
  BY <1>2, <1>3, <1>4, <1>5, <1>6, <1>7, <1>8, <1>9
  DEF Next, vars, ApplyStep, RemoteStep, RejectLocally, Send, ReceiveAnswer,
      LoseAnswer, CompleteUnavailable, FailUnavailable, CancelCall, Settle,
      RemoteExecute, RemoteReject, RemoteDrop, Tick

(* Pending and applying plans never exceed the configured maximum.           *)
THEOREM CapacityIsRespected == Spec => []CapacityRespected
<1>1. Init => CapacityRespected
  <2> SUFFICES ASSUME Init
               PROVE  CapacityRespected
    OBVIOUS
  <2>1. Outstanding(status) = {}
    BY DEF Init, Outstanding
  <2>2. QED
    BY <2>1, FS_EmptySet, WritePlanAssumption DEF CapacityRespected
<1>2. QED
  BY <1>1, CapacityStep, TypeCorrectness, PTL DEF Spec

-----------------------------------------------------------------------------
(* Terminal statuses, without recovery *)

(* As the gateway is deployed, no process recovers another one's plans, and  *)
(* then a terminal status only gives way to the deletion of the row.         *)
THEOREM TerminalStatusStays == Spec => TerminalStatusIsFinal
<1> DEFINE Final ==
      \A p \in Plan :
        mode # "recovering" /\
        status[p] \in {"applied", "failed", "outcome_unknown", "cancelled"}
          => status'[p] \in {status[p], "absent"}
<1>1. IInv /\ [Next]_vars => [Final]_vars
  <2> SUFFICES ASSUME IInv, Next
               PROVE  Final
    OBVIOUS
  <2> USE WritePlanAssumption DEF IInv, TypeOK, UntriedPlans
  <2>1. ASSUME NEW p \in Plan, Create(p) \/ Expire(p) \/ CancelPlan(p)
        PROVE  Final
    BY <2>1 DEF Create, Purged, Expire, CancelPlan
  <2>2. ASSUME NEW c \in Call, NEW p \in Plan, NEW matches \in BOOLEAN,
               Acquire(c, p, matches)
        PROVE  Final
    BY <2>2 DEF Acquire, AcquireAnswer
  <2>3. ASSUME NEW c \in Call, Complete(c) \/ Fail(c)
        PROVE  Final
    BY <2>3 DEF Complete, Fail, Stored, AppliedRowStatus, CallsNamePlans, Active
  <2>4. ASSUME NEW q \in Process, Start(q)
        PROVE  Final
    BY <2>4 DEF Start, Purged
  <2>5. CASE UNCHANGED status
    BY <2>5
  <2>6. CASE RefuseCreate \/ \E q \in Process : Crash(q)
    BY <2>6 DEF RefuseCreate, Crash, Purged
  <2>7. QED
    BY <2>1, <2>2, <2>3, <2>4, <2>5, <2>6
    DEF Next, ApplyStep, RemoteStep, RejectLocally, Send, ReceiveAnswer,
        LoseAnswer, CompleteUnavailable, FailUnavailable, CancelCall, Settle,
        RemoteExecute, RemoteReject, RemoteDrop, Tick
<1>2. QED
  BY <1>1, Invariance, PTL DEF Spec, TerminalStatusIsFinal

-----------------------------------------------------------------------------
(* Refinement of ApprovedWrite *)

LEMMA PromiseInit == Init => Promise!Init
BY DEF Init, Promise!Init, MayStillExecute, VerdictOf

(* What one step of the gateway does to one plan, in the abstract terms.     *)
PlanStep(p) ==
  \/ Promise!TakeEffect(p) \/ Promise!Withdraw(p)
  \/ Promise!ReportSuccess(p) \/ Promise!ReportFailure(p)
  \/ Promise!ReportUnknown(p) \/ Promise!Forget(p) \/ Promise!Rest(p)

LEMMA PlanTakesAbstractStep ==
  ASSUME IInv, [Next]_vars, NEW p \in Plan
  PROVE  PlanStep(p)
<1> USE WritePlanAssumption
    DEF IInv, TypeOK, Active, Token, Untouchable, MayStillExecute, VerdictOf,
        PlanStep, Promise!TakeEffect, Promise!Withdraw,
        Promise!ReportSuccess, Promise!ReportFailure, Promise!ReportUnknown,
        Promise!Forget, Promise!Rest
<1>1. ASSUME NEW r \in Plan, Create(r)
      PROVE  PlanStep(p)
  BY <1>1 DEF Create, Purged, UntriedPlans
<1>1a. CASE RefuseCreate
  BY <1>1a DEF RefuseCreate, Purged, UntriedPlans
<1>2. ASSUME NEW r \in Plan, Expire(r)
      PROVE  PlanStep(p)
  BY <1>2 DEF Expire
<1>3. ASSUME NEW r \in Plan, CancelPlan(r)
      PROVE  PlanStep(p)
  BY <1>3 DEF CancelPlan
<1>4. ASSUME NEW c \in Call, NEW r \in Plan, NEW matches \in BOOLEAN,
             Acquire(c, r, matches)
      PROVE  PlanStep(p)
  BY <1>4 DEF Acquire, AcquireAnswer, Free, Stored, UntriedPlans
<1>5. ASSUME NEW c \in Call, RejectLocally(c)
      PROVE  PlanStep(p)
  BY <1>5 DEF RejectLocally
<1>6. ASSUME NEW c \in Call, Send(c)
      PROVE  PlanStep(p)
  BY <1>6 DEF Send
<1>7. ASSUME NEW c \in Call, ReceiveAnswer(c)
      PROVE  PlanStep(p)
  BY <1>7 DEF ReceiveAnswer
<1>8. ASSUME NEW c \in Call, LoseAnswer(c)
      PROVE  PlanStep(p)
  BY <1>8 DEF LoseAnswer
<1>9. ASSUME NEW c \in Call, Complete(c)
      PROVE  PlanStep(p)
  BY <1>9 DEF Complete, UntriedPlans, KnownSuccesses, TokenUnused
<1>10. ASSUME NEW c \in Call, CompleteUnavailable(c)
       PROVE  PlanStep(p)
  BY <1>10 DEF CompleteUnavailable
<1>11. ASSUME NEW c \in Call, Fail(c)
       PROVE  PlanStep(p)
  BY <1>11 DEF Fail, Stored, AppliedRowStatus, CallsNamePlans, KnownFailures
<1>12. ASSUME NEW c \in Call, FailUnavailable(c)
       PROVE  PlanStep(p)
  BY <1>12 DEF FailUnavailable
<1>13. ASSUME NEW c \in Call, RemoteExecute(c)
       PROVE  PlanStep(p)
  BY <1>13 DEF RemoteExecute, Settle, OneToken, UntriedPlans, WireMatchesCall
<1>14. ASSUME NEW c \in Call, RemoteReject(c) \/ RemoteDrop(c)
       PROVE  PlanStep(p)
  BY <1>14 DEF RemoteReject, RemoteDrop, Settle
<1>15. ASSUME NEW c \in Call, CancelCall(c)
       PROVE  PlanStep(p)
  BY <1>15 DEF CancelCall
<1>16. ASSUME NEW q \in Process, Crash(q)
       PROVE  PlanStep(p)
  <2>1. CASE Durable
    BY <1>16, <2>1 DEF Crash
  <2>2. CASE ~Durable
    <3>1. MayStillExecute(p)' => MayStillExecute(p)
      BY <1>16, <2>2 DEF Crash, Durable
    <3>2. MayStillExecute(p) /\ ~MayStillExecute(p)' => VerdictOf(status[p]) = "none"
      BY <1>16, <2>2 DEF Crash, Durable, AppliedRowStatus
    <3>3. VerdictOf(status'[p]) = "none" /\ executed'[p] = executed[p]
      BY <1>16, <2>2 DEF Crash
    <3>4. QED
      BY <3>1, <3>2, <3>3
  <2>3. QED
    BY <2>1, <2>2
<1>17. ASSUME NEW q \in Process, Start(q)
       PROVE  PlanStep(p)
  BY <1>17 DEF Start, Purged
<1>18. CASE Tick \/ UNCHANGED vars
  BY <1>18 DEF Tick, vars
<1> HIDE WritePlanAssumption
    DEF IInv, TypeOK, Active, Token, Untouchable, MayStillExecute, VerdictOf,
        PlanStep, Promise!TakeEffect, Promise!Withdraw,
        Promise!ReportSuccess, Promise!ReportFailure, Promise!ReportUnknown,
        Promise!Forget, Promise!Rest
<1>19. QED
  BY <1>1, <1>1a, <1>2, <1>3, <1>4, <1>5, <1>6, <1>7, <1>8, <1>9, <1>10,
     <1>11, <1>12, <1>13, <1>14, <1>15, <1>16, <1>17, <1>18
  DEF Next, ApplyStep, RemoteStep

(* The gateway implements what the approver was promised.                    *)
THEOREM GatewayKeepsPromise == Spec => KeepsPromise
<1>1. IInv /\ [Next]_vars => [Promise!Next]_(Promise!vars)
  BY PlanTakesAbstractStep DEF PlanStep, Promise!Next
<1>2. QED
  BY <1>1, PromiseInit, Invariance, PTL DEF Spec, KeepsPromise, Promise!Spec

=============================================================================
