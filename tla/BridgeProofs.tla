----------------------------- MODULE BridgeProofs -----------------------------
(***************************************************************************)
(* The Java bridge, for any number of requests, connections, threads,       *)
(* gateways, processes, updates and lock stripes:                           *)
(*   - a request: the client's verdict on a write is true, and the AR       *)
(*     sessions are bounded (BridgeRequest);                                *)
(*   - its process: none outlives its gateway, and only its creator stops   *)
(*     it (BridgeProcess);                                                  *)
(*   - an approved update: serialized by entry, and compared with what the  *)
(*     reviewer saw (EntryUpdate).                                          *)
(***************************************************************************)
EXTENDS BridgeRequest, BridgeProcess, EntryUpdate, FiniteSetTheorems, TLAPS

(***************************************************************************)
(* A request                                                               *)
(***************************************************************************)
USE BridgeRequestAssumption

(* What the handlers may raise.  Nothing is raised after a write.           *)
LEMMA HandlerRaises ==
  ASSUME NEW o \in Operation
  PROVE  /\ HandlerOf(o).checks \subseteq Exception
         /\ HandlerOf(o).main \subseteq Exception
         /\ HandlerOf(o).encoding \subseteq Exception
         /\ o \in Writing => HandlerOf(o).encoding = {}
<1> USE DEF HandlerOf, Handler, AuthenticationProbeHandler, SqlQueryHandler,
        FormsHandler, FieldsHandler, FieldSelectionValuesHandler,
        FieldMenuMetadataHandler, FieldMenuValuesHandler, QueryEntriesHandler,
        GetEntryHandler, PrepareUpdateHandler, CreateEntryHandler,
        UpdateEntryHandler, EncodeFields, EncodeSelection, EncodeMenu,
        MenuValues, ExpandMenu, EncodeRows, EncodeEntry, EncodeCreated,
        EncodeUpdated, EncodeForms, JsonValue, DataTypeName
<1>1. /\ Text \subseteq Exception /\ Bounded \subseteq Exception
      /\ SelectFields \subseteq Exception /\ Sorting \subseteq Exception
      /\ LoadFields \subseteq Exception /\ MatchAll \subseteq Exception
      /\ WriteValues \subseteq Exception /\ Precondition \subseteq Exception
      /\ ReadOnlySql \subseteq Exception /\ ModifiedDate \subseteq Exception
      /\ ArCall \subseteq Exception
      /\ {"admin_required", "runtime"} \subseteq Exception
  BY DEF Exception, ArError, ArCall, Text, ValidText, Bounded, SelectFields,
         Sorting, FieldList, ResolveField, LoadFields, MatchAll, WriteValues,
         WriteValue,
         Precondition, ModifiedDate, ServerTime, ReadOnlySql
<1>2. HandlerOf(o).checks \subseteq Exception
  BY <1>1 DEF Operation
<1>3. HandlerOf(o).main \subseteq Exception
  BY <1>1 DEF Operation
<1>4. HandlerOf(o).encoding \subseteq Exception
  BY <1>1 DEF Operation
<1>5. o \in Writing => HandlerOf(o).encoding = {}
  BY DEF Writing
<1>6. QED
  BY <1>2, <1>3, <1>4, <1>5

Outcome == Exception \cup {"none", "payload", "forbidden"}

(* What an outcome becomes on its way to the client.                        *)
LEMMA AnswersAreTrue ==
  /\ \A o \in Outcome :
       /\ AnswerTo(o) \in Answer
       /\ AnswerTo(o) = "200" => o = "payload"
       /\ o \in {"none", "payload"} \cup Unproven =>
            "failure" \notin Conclusions(AnswerTo(o))
  /\ \A a \in Answer :
       /\ Conclusions(a) \subseteq {"success", "failure", "unknown"}
       /\ "success" \in Conclusions(a) => a = "200"
  /\ "failure" \notin Conclusions("502")
BY DEF Outcome, Exception, ArError, AnswerTo, Answer, Unproven, Conclusions,
       Parsed

Safe == /\ TypeOK /\ WorkIsSent /\ EffectNeedsCall /\ OutcomeIsLast
        /\ EffectIsNotRefused /\ PayloadNeedsEffect /\ RefusalIsTrue
        /\ SessionsAreBusy

LEMMA SafeInductive == Safe /\ [Next]_vars => Safe'
<1> SUFFICES ASSUME Safe, [Next]_vars PROVE Safe'
  OBVIOUS
<1> USE AnswersAreTrue, HandlerRaises
    DEF Safe, TypeOK, WorkIsSent, EffectNeedsCall, OutcomeIsLast,
        EffectIsNotRefused, PayloadNeedsEffect, RefusalIsTrue,
        SessionsAreBusy, Outcome, Waiting,
        Verdict, Handling, Busy, clientVars, bridgeVars
<1>1. ASSUME NEW r \in Request, Begin(r) PROVE Safe'
  BY <1>1 DEF Begin
<1>2. ASSUME NEW r \in Request, Resolve(r) PROVE Safe'
  BY <1>2 DEF Resolve
<1>3. ASSUME NEW r \in Request, Send(r) PROVE Safe'
  BY <1>3 DEF Send
<1>4. ASSUME NEW r \in Request, GiveUp(r) PROVE Safe'
  BY <1>4 DEF GiveUp
<1>5. ASSUME NEW r \in Request, CancelCall(r) PROVE Safe'
  BY <1>5 DEF CancelCall
<1>6. ASSUME NEW r \in Request, Receive(r) PROVE Safe'
  BY <1>6 DEF Receive
<1>7. ASSUME NEW r \in Request, Accept(r) PROVE Safe'
  BY <1>7 DEF Accept, Exception, Unauthorized, FormBody, Credentials
<1>8. ASSUME NEW r \in Request, Login(r) PROVE Safe'
  <2>1. CASE Proceed(r, "checking") /\ session' = [session EXCEPT ![r] = TRUE]
    BY <1>8, <2>1 DEF Login, Proceed
  <2>2. ASSUME NEW e \in ArCall, Raise(r, e), UNCHANGED session PROVE Safe'
    BY <1>8, <2>2 DEF Login, Raise, ArCall, ArError, Exception
  <2>3. QED
    BY <1>8, <2>1, <2>2 DEF Login
<1>9. ASSUME NEW r \in Request, Check(r) PROVE Safe'
  BY <1>9 DEF Check, Proceed, Raise, Exception, ArError
<1>10. ASSUME NEW r \in Request, Perform(r) PROVE Safe'
  <2>1. HandlerOf(operation[r]).main \subseteq Exception
    OBVIOUS
  <2>2. CASE /\ Proceed(r, "encoding")
             /\ effect' = [effect EXCEPT ![r] = operation[r] \in Writing]
    <3> USE <1>10, <2>2 DEF Perform, Proceed
    <3>1. TypeOK' /\ WorkIsSent' /\ SessionsAreBusy'
      OBVIOUS
    <3>2. EffectNeedsCall'
      OBVIOUS
    <3>3. PayloadNeedsEffect'
      <4> SUFFICES ASSUME NEW s \in Request, operation[s] \in Writing
                   PROVE  /\ work'[s] = "encoding" => effect'[s]
                          /\ work'[s] \in {"leaving", "responding"} /\ outcome'[s] = "payload"
                               => effect'[s]
                          /\ answer'[s] = "200" => effect'[s]
                          /\ call'[s] = "success" => effect'[s]
        OBVIOUS
      <4>1. CASE s = r
        BY <4>1
      <4>2. CASE s # r
        BY <4>2
      <4>3. QED
        BY <4>1, <4>2
    <3>4. RefusalIsTrue'
      OBVIOUS
    <3>5. OutcomeIsLast'
      OBVIOUS
    <3>6. EffectIsNotRefused'
      OBVIOUS
    <3>7. QED
      BY <3>1, <3>2, <3>3, <3>4, <3>5, <3>6
  <2>3. ASSUME NEW e \in Exception, NEW changed \in BOOLEAN, Raise(r, e),
               changed => operation[r] \in Writing /\ e \in Unproven,
               effect' = [effect EXCEPT ![r] = changed]
        PROVE  Safe'
    <3> USE <1>10, <2>3 DEF Perform, Raise
    <3>1. TypeOK'
      OBVIOUS
    <3>2. WorkIsSent' /\ EffectNeedsCall' /\ OutcomeIsLast' /\ SessionsAreBusy'
      OBVIOUS
    <3>3. e # "payload"
      BY DEF Exception, ArError
    <3>4. EffectIsNotRefused' /\ PayloadNeedsEffect' /\ RefusalIsTrue'
      BY <3>3
    <3>5. QED
      BY <3>1, <3>2, <3>4
  <2>4. QED
    BY <1>10, <2>1, <2>2, <2>3 DEF Perform
<1>11. ASSUME NEW r \in Request, Encode(r) PROVE Safe'
  BY <1>11 DEF Encode, Raise
<1>12. ASSUME NEW r \in Request, Leave(r) PROVE Safe'
  BY <1>12 DEF Leave, Unproven, Exception
<1>13. ASSUME NEW r \in Request, Respond(r) PROVE Safe'
  <2>1. PICK a \in {AnswerTo(outcome[r])} \cup
               IF outcome[r] = "payload" /\ operation[r] \notin Writing
               THEN {"502"} ELSE {} :
          answer' = [answer EXCEPT ![r] =
            IF call[r] = "sent" THEN a ELSE "none"]
    BY <1>13 DEF Respond
  <2>2. /\ a \in Answer
        /\ a = "200" => outcome[r] = "payload"
        /\ effect[r] => "failure" \notin Conclusions(a)
    BY <1>13, <2>1 DEF Respond, Answer
  <2> USE <1>13, <2>1, <2>2 DEF Respond
  <2>3. TypeOK'
    OBVIOUS
  <2>4. /\ WorkIsSent' /\ EffectNeedsCall' /\ OutcomeIsLast'
        /\ EffectIsNotRefused' /\ SessionsAreBusy'
    OBVIOUS
  <2>5. PayloadNeedsEffect' /\ RefusalIsTrue'
    OBVIOUS
  <2>6. QED
    BY <2>3, <2>4, <2>5
<1>14. ASSUME NEW r \in Request, Drop(r) PROVE Safe'
  BY <1>14 DEF Drop
<1>15. ASSUME Close PROVE Safe'
  BY <1>15 DEF Close
<1>16. ASSUME Die PROVE Safe'
  <2>1. PICK late \in SUBSET {r \in Request :
               work[r] = "calling" /\ operation[r] \in Writing} :
          effect' = [r \in Request |-> effect[r] \/ r \in late]
    BY <1>16 DEF Die
  <2>2. /\ effect' \in [Request -> BOOLEAN]
        /\ \A r \in Request : effect'[r] => effect[r] \/ r \in late
        /\ \A r \in Request : effect[r] => effect'[r]
    BY <2>1, Zenon
  <2>3. \A r \in late :
          r \in Request /\ work[r] = "calling" /\ operation[r] \in Writing
    BY <2>1
  <2> HIDE <2>1
  <2>4. /\ UNCHANGED <<operation, closed, call, outcome, answer>>
        /\ running' = FALSE
        /\ work' = [r \in Request |->
             IF work[r] = "none" THEN "none" ELSE "over"]
        /\ session' = [r \in Request |-> FALSE]
    BY <1>16 DEF Die
  <2>5. TypeOK' /\ WorkIsSent' /\ SessionsAreBusy'
    BY <2>2, <2>4
  <2>6. EffectNeedsCall' /\ OutcomeIsLast' /\ EffectIsNotRefused'
    BY <2>2, <2>3, <2>4
  <2>7. PayloadNeedsEffect' /\ RefusalIsTrue'
    BY <2>2, <2>3, <2>4
  <2>8. QED
    BY <2>5, <2>6, <2>7
<1>17. ASSUME UNCHANGED vars PROVE Safe'
  BY <1>17 DEF vars
<1>18. QED
  BY <1>1, <1>2, <1>3, <1>4, <1>5, <1>6, <1>7, <1>8, <1>9, <1>10, <1>11,
     <1>12, <1>13, <1>14, <1>15, <1>16, <1>17 DEF Next

-----------------------------------------------------------------------------
(* The threads *)

LEMMA ThreadsStep == TypeOK /\ ThreadsBounded /\ [Next]_vars => ThreadsBounded'
<1> SUFFICES ASSUME TypeOK, ThreadsBounded, [Next]_vars PROVE ThreadsBounded'
  OBVIOUS
<1> DEFINE B == BusyThreads
<1> USE DEF TypeOK, Handling, Busy, clientVars, bridgeVars
<1>1. /\ IsFiniteSet(B) /\ Cardinality(B) \in Nat
      /\ \A S \in SUBSET B : Cardinality(S) <= Cardinality(B)
  <2>1. B \subseteq Request
    BY DEF BusyThreads
  <2>2. QED
    BY <2>1, FS_Subset, FS_CardinalityType
<1>2. ASSUME B' \subseteq B PROVE ThreadsBounded'
  <2>1. Cardinality(B') <= Cardinality(B) /\ Cardinality(B') \in Nat
    BY <1>1, <1>2, FS_Subset, FS_CardinalityType
  <2>2. QED
    BY <1>1, <2>1 DEF ThreadsBounded
<1>3. ASSUME NEW r \in Request, Accept(r) PROVE ThreadsBounded'
  <2>1. B' = B \cup {r}
    BY <1>3 DEF Accept, BusyThreads
  <2>2. /\ Cardinality(B \cup {r}) \in Nat
        /\ Cardinality(B \cup {r}) <= Cardinality(B) + 1
    <3> HIDE DEF B
    <3>1. QED
      BY <1>1, FS_AddElement, FS_CardinalityType
  <2>3. Cardinality(B) < Threads
    BY <1>3 DEF Accept
  <2>4. QED
    BY <1>1, <2>1, <2>2, <2>3 DEF ThreadsBounded
<1>4. ASSUME NEW r \in Request,
             \/ Begin(r) \/ Resolve(r) \/ Send(r) \/ GiveUp(r) \/ CancelCall(r)
             \/ Receive(r) \/ Close \/ UNCHANGED vars
      PROVE  B' \subseteq B
  BY <1>4 DEF Begin, Resolve, Send, GiveUp, CancelCall, Receive, Close, vars,
              BusyThreads
<1>5. ASSUME NEW r \in Request,
             \/ Login(r) \/ Check(r) \/ Perform(r) \/ Encode(r) \/ Leave(r)
             \/ Respond(r) \/ Drop(r)
      PROVE  B' \subseteq B
  BY <1>5 DEF Login, Check, Perform, Encode, Leave, Respond, Drop, Raise,
              Proceed, BusyThreads
<1>6. ASSUME Die \/ Close \/ UNCHANGED vars PROVE B' \subseteq B
  BY <1>6 DEF Die, Close, vars, BusyThreads
<1>7. QED
  BY <1>2, <1>3, <1>4, <1>5, <1>6 DEF Next

-----------------------------------------------------------------------------
(* IInv holds in every reachable state.                                     *)
THEOREM RequestInvariance == Spec => []IInv
<1>1. Init => IInv
  <2> SUFFICES ASSUME Init PROVE IInv
    OBVIOUS
  <2>1. BusyThreads = {}
    BY DEF Init, BusyThreads, Busy, Handling
  <2>2. ThreadsBounded
    BY <2>1, FS_EmptySet DEF ThreadsBounded
  <2>3. TypeOK
    BY DEF Init, TypeOK
  <2>4. QED
    BY <2>2, <2>3
    DEF Init, IInv, WorkIsSent, EffectNeedsCall, OutcomeIsLast,
        EffectIsNotRefused, PayloadNeedsEffect, RefusalIsTrue, SessionsAreBusy
<1>2. IInv /\ [Next]_vars => IInv'
  BY SafeInductive, ThreadsStep DEF Safe, IInv
<1>3. QED
  BY <1>1, <1>2, PTL DEF Spec

(* A write that AR System carried out is not answered like a request that   *)
(* was refused: no handler raises an exception of the bridge's own after    *)
(* createEntry or setEntry (CreateEntryHandler, UpdateEntryHandler).        *)
THEOREM EffectsAreNotRefused == Spec => []EffectIsNotRefused
<1>1. IInv => EffectIsNotRefused
  BY DEF IInv
<1>2. QED
  BY <1>1, RequestInvariance, PTL

(* However its handlers end, the bridge holds at most one AR session per    *)
(* thread, and none while no thread works (ArapiBridge.withUser).           *)
THEOREM SessionsAreBounded == Spec => []SessionsBounded
<1>1. IInv => SessionsBounded
  <2> SUFFICES ASSUME IInv PROVE SessionsBounded
    OBVIOUS
  <2> DEFINE Open == {r \in Request : session[r]}
  <2>1. Open \subseteq BusyThreads /\ BusyThreads \subseteq Request
    BY DEF IInv, SessionsAreBusy, BusyThreads, Busy
  <2>2. /\ Cardinality(Open) <= Cardinality(BusyThreads)
        /\ Cardinality(Open) \in Nat /\ Cardinality(BusyThreads) \in Nat
    BY <2>1, FS_Subset, FS_CardinalityType
  <2>3. QED
    BY <2>1, <2>2 DEF IInv, ThreadsBounded, SessionsBounded
<1>2. QED
  BY <1>1, RequestInvariance, PTL

-----------------------------------------------------------------------------
(* Refinement of WriteRequest *)

LEMMA SenderInit == Init => Sender!Init
BY DEF Init, Sender!Init, VerdictOf

LEMMA RequestTakesAbstractStep ==
  ASSUME IInv, [Next]_vars, NEW q \in Request
  PROVE  Sender!TakeEffect(q) \/ Sender!Tell(q) \/ Sender!Rest(q)
<1> DEFINE Step == Sender!TakeEffect(q) \/ Sender!Tell(q) \/ Sender!Rest(q)
<1> USE AnswersAreTrue
    DEF IInv, TypeOK, WorkIsSent, EffectNeedsCall, PayloadNeedsEffect,
        RefusalIsTrue, VerdictOf, Sender!TakeEffect, Sender!Tell, Sender!Rest,
        Sender!Verdict, Waiting, Verdict, clientVars, bridgeVars, Writing
<1>1. ASSUME NEW r \in Request, Begin(r) PROVE Step
  BY <1>1 DEF Begin
<1>2. ASSUME NEW r \in Request, Resolve(r) PROVE Step
  BY <1>2 DEF Resolve
<1>3. ASSUME NEW r \in Request, Send(r) PROVE Step
  BY <1>3 DEF Send
<1>4. ASSUME NEW r \in Request, GiveUp(r) PROVE Step
  BY <1>4 DEF GiveUp
<1>5. ASSUME NEW r \in Request, CancelCall(r) PROVE Step
  BY <1>5 DEF CancelCall
<1>6. ASSUME NEW r \in Request, Receive(r) PROVE Step
  BY <1>6 DEF Receive
<1>7. ASSUME NEW r \in Request, Perform(r) PROVE Step
  <2>1. /\ UNCHANGED <<operation, call>>
        /\ call[r] \notin {"success", "failure"}
        /\ ~effect[r]
    BY <1>7 DEF Perform
  <2>2. PICK b \in BOOLEAN : effect' = [effect EXCEPT ![r] = b]
    <3>1. (operation[r] \in Writing) \in BOOLEAN
      OBVIOUS
    <3>2. QED
      BY <1>7, <3>1 DEF Perform
  <2>3. QED
    BY <2>1, <2>2
<1>8. ASSUME Die PROVE Step
  <2>1. PICK late \in SUBSET {r \in Request :
               work[r] = "calling" /\ operation[r] \in Writing} :
          effect' = [r \in Request |-> effect[r] \/ r \in late]
    BY <1>8 DEF Die
  <2>2. /\ q \in late => /\ ~effect[q] /\ effect'[q] = TRUE
                         /\ call[q] \notin {"success", "failure"}
        /\ q \notin late => effect'[q] = effect[q]
    BY <2>1
  <2>3. UNCHANGED <<operation, call>>
    BY <1>8 DEF Die
  <2> HIDE <2>1
  <2>4. QED
    BY <2>2, <2>3
<1>9. CASE UNCHANGED <<operation, call, effect>>
  BY <1>9
<1>10. QED
  BY <1>1, <1>2, <1>3, <1>4, <1>5, <1>6, <1>7, <1>8, <1>9
  DEF Next, vars, Accept, Login, Check, Encode, Leave, Respond, Drop, Close

(* What the client reports of a write is true, now and later: the contract  *)
(* of _post and _arapi_outcome_unknown that the write plans rely on.        *)
THEOREM ClientKeepsPromise == Spec => KeepsPromise
<1>1. IInv /\ [Next]_vars => [Sender!Next]_(Sender!vars)
  BY RequestTakesAbstractStep DEF Sender!Next
<1>2. QED
  BY <1>1, SenderInit, RequestInvariance, PTL
  DEF Spec, KeepsPromise, Sender!Spec

(***************************************************************************)
(* The process of the bridge                                               *)
(***************************************************************************)
USE DEF Starting, Closing, Over, Alive, Goto

(* Every step of Next keeps the invariant; one step per action.            *)
LEMMA BridgeInductive == ProcessInv /\ [ProcessNext]_processVars => ProcessInv'
<1> SUFFICES ASSUME ProcessInv, [ProcessNext]_processVars PROVE ProcessInv'
  OBVIOUS
<1> USE GatewayAssumption DEF ProcessInv, ProcessTypeOK, ChildIsKnown, CreatorIsKnown,
                              PortIsHeld, LeavesNothingBehind, Goto, Starting, Closing, Over, Alive
<1>1. ASSUME NEW g \in Gateway, Start(g) PROVE ProcessInv'
  BY <1>1 DEF Start
<1>2. ASSUME NEW g \in Gateway, Probe(g) PROVE ProcessInv'
  BY <1>2 DEF Probe
<1>3. ASSUME NEW g \in Gateway, Spawn(g) PROVE ProcessInv'
  BY <1>3 DEF Spawn
<1>4. ASSUME NEW g \in Gateway, Poll(g) PROVE ProcessInv'
  BY <1>4 DEF Poll
<1>5. ASSUME NEW g \in Gateway, CloseContext(g) PROVE ProcessInv'
  BY <1>5 DEF CloseContext
<1>6. ASSUME NEW g \in Gateway, Closed(g) PROVE ProcessInv'
  BY <1>6 DEF Closed
<1>7. ASSUME NEW g \in Gateway, Kill(g) PROVE ProcessInv'
  BY <1>7 DEF Kill
<1>8. ASSUME NEW j \in Bridge, Bind(j) PROVE ProcessInv'
  BY <1>8 DEF Bind
<1>9. ASSUME NEW j \in Bridge, Exit(j) PROVE ProcessInv'
  BY <1>9 DEF Exit
<1>10. ASSUME UNCHANGED processVars PROVE ProcessInv'
  BY <1>10 DEF processVars
<1>11. ASSUME NEW g \in Gateway, BeginClose(g) PROVE ProcessInv'
  BY <1>11 DEF BeginClose
<1>12. ASSUME NEW g \in Gateway, CancelStart(g) PROVE ProcessInv'
  BY <1>12 DEF CancelStart
<1>13. ASSUME NEW g \in Gateway, CancelClose(g) PROVE ProcessInv'
  BY <1>13 DEF CancelClose
<1>14. QED
  BY ONLY <1>1, <1>2, <1>3, <1>4, <1>5, <1>6, <1>7, <1>8, <1>9, <1>10, <1>11, <1>12, <1>13,
          ProcessInv, [ProcessNext]_processVars
     DEF ProcessNext

(* IInv holds in every reachable state.                                    *)
THEOREM BridgeInvariance == ProcessSpec => []ProcessInv
<1>1. ProcessInit => ProcessInv
  BY GatewayAssumption
     DEF ProcessInit, ProcessInv, ProcessTypeOK, ChildIsKnown, CreatorIsKnown, PortIsHeld,
         LeavesNothingBehind, Starting, Closing, Over, Alive
<1>2. QED
  BY <1>1, BridgeInductive, PTL DEF ProcessSpec

(* However a start or a close of clients/arapi/process.py ends, the Java   *)
(* process it created is stopped, unless the gateway was killed, the close *)
(* itself cancelled, or the start cancelled in a dashboard's session.      *)
THEOREM NoBridgeIsLeftBehind == ProcessSpec => []LeavesNothingBehind
<1>1. ProcessInv => LeavesNothingBehind
  BY DEF ProcessInv
<1>2. QED
  BY <1>1, BridgeInvariance, PTL

(* A bridge is told to stop only by the aclose of the gateway that created *)
(* it, however many others reuse it.                                       *)
THEOREM OwnerStopsBridge == ProcessSpec => OnlyOwnerStops
<1>1. ASSUME ProcessInv, [ProcessNext]_processVars, NEW j \in Bridge,
             bridge[j] # "stopping", bridge'[j] = "stopping"
      PROVE  /\ process[creator[j]] = j
             /\ phase[creator[j]] # "closing"
             /\ phase'[creator[j]] = "closing"
  <2> USE <1>1 DEF ProcessInv, ProcessTypeOK, ChildIsKnown
  <2>1. PICK g \in Gateway : CloseContext(g)
    BY DEF ProcessNext, Start, Probe, Spawn, Poll, BeginClose, Closed, CancelStart, CancelClose,
           Kill, Bind, Exit, Goto, processVars
  <2>2. process[g] = j /\ phase'[g] = "closing" /\ phase[g] # "closing"
    BY <2>1, GatewayAssumption DEF CloseContext, Goto
  <2>3. creator[j] = g
    BY <2>2, GatewayAssumption
  <2>4. QED
    BY <2>2, <2>3
<1>2. ProcessInv /\ [ProcessNext]_processVars =>
        [\A j \in Bridge :
           (bridge[j] # "stopping" /\ bridge'[j] = "stopping") =>
             /\ process[creator[j]] = j
             /\ phase[creator[j]] # "closing"
             /\ phase'[creator[j]] = "closing"]_processVars
  BY <1>1
<1>3. QED
  BY <1>2, BridgeInvariance, PTL DEF ProcessSpec, OnlyOwnerStops

(***************************************************************************)
(* An approved update                                                      *)
(***************************************************************************)
\* The initial state satisfies the inductive invariant.
LEMMA EntryInit == UpdateInit => UpdateInv
  BY EntryUpdateAssumption
  DEF UpdateInit, UpdateInv, UpdateTypeOK, HoldsLock, DatesTell, StaysMatched,
      DatesFollowCheck, Locked

\* Whoever writes an entry dates it later than every settled review.
LEMMA WriteTells ==
  ASSUME UpdateTypeOK, DatesTell, NEW e \in Entry, Write(e),
         UNCHANGED <<clock, reviewed, seen, settled>>
  PROVE  DatesTell'
<1> USE EntryUpdateAssumption DEF UpdateTypeOK, Write
<1>1. \A x \in Entry : modified'[x] <= clock'
  BY DEF DatesTell
<1>2. ASSUME NEW u \in Update, settled'[u]
      PROVE  /\ reviewed'[u] < clock'
             /\ seen'[u] # revision'[EntryOf[u]] => reviewed'[u] < modified'[EntryOf[u]]
  BY <1>2 DEF DatesTell
<1>3. QED
  BY <1>1, <1>2 DEF DatesTell

\* A write is dated no earlier than any check before it.
LEMMA WriteFollowsChecks ==
  ASSUME UpdateTypeOK, DatesFollowCheck, NEW e \in Entry, Write(e),
         UNCHANGED <<clock, reviewed, seen, settled, getTime, window>>,
         \A u \in Update : pc'[u] = pc[u] \/ pc'[u] \in {"written", "late"}
  PROVE  DatesFollowCheck'
<1> SUFFICES ASSUME NEW u \in Update,
                    pc'[u] \in {"matched", "timed", "unproven"}, settled'[u]
             PROVE  /\ reviewed'[u] < window'[u][1]
                    /\ window'[u][1] <= window'[u][2] /\ window'[u][2] <= clock'
                    /\ seen'[u] # revision'[EntryOf[u]] => window'[u][1] <= modified'[EntryOf[u]]
                    /\ pc'[u] # "matched" => getTime'[u] = window'[u][2]
  BY DEF DatesFollowCheck
<1> USE EntryUpdateAssumption DEF UpdateTypeOK, Write
<1>1. pc'[u] = pc[u]
  OBVIOUS
<1>2. window[u] \in (1..MaxClock) \X (1..MaxClock) /\ window[u][1] <= clock
  BY <1>1 DEF DatesFollowCheck
<1>3. QED
  BY <1>1, <1>2 DEF DatesFollowCheck

\* Every step preserves it: a write needs the lock of the entry's stripe, and
\* stamps the entry with a date that tells it from every settled review.
LEMMA EntryInductive == UpdateInv /\ [UpdateNext]_updateVars => UpdateInv'
<1> SUFFICES ASSUME UpdateInv, [UpdateNext]_updateVars PROVE UpdateInv'
  OBVIOUS
<1> USE EntryUpdateAssumption
    DEF UpdateInv, UpdateTypeOK, Locked, Unanswered, Answered, Lock, AnswerUpdate
<1>1. ASSUME NEW u \in Update, Prepare(u) PROVE UpdateInv'
  <2> USE <1>1 DEF Prepare
  <2>1. UpdateTypeOK'
    OBVIOUS
  <2>2. HoldsLock'
    BY DEF HoldsLock
  <2>3. DatesTell'
    BY DEF DatesTell
  <2>4. StaysMatched'
    BY DEF StaysMatched, Settling, HoldsLock
  <2>5. DatesFollowCheck'
    BY DEF DatesFollowCheck, DatesTell
  <2>6. QED
    BY <2>1, <2>2, <2>3, <2>4, <2>5
<1>2. ASSUME NEW u \in Update, FailRequest(u) PROVE UpdateInv'
  <2> USE <1>2 DEF FailRequest
  <2>1. UpdateTypeOK'
    OBVIOUS
  <2>2. HoldsLock'
    BY DEF HoldsLock
  <2>3. DatesTell'
    BY DEF DatesTell
  <2>4. StaysMatched'
    BY DEF StaysMatched, Settling, HoldsLock
  <2>5. DatesFollowCheck'
    BY DEF DatesFollowCheck, DatesTell
  <2>6. QED
    BY <2>1, <2>2, <2>3, <2>4, <2>5
<1>3. ASSUME NEW u \in Update, Enter(u) PROVE UpdateInv'
  <2> USE <1>3 DEF Enter
  <2>1. UpdateTypeOK'
    OBVIOUS
  <2>2. HoldsLock'
    BY DEF HoldsLock
  <2>3. DatesTell'
    BY DEF DatesTell
  <2>4. StaysMatched'
    BY DEF StaysMatched, Settling, HoldsLock
  <2>5. DatesFollowCheck'
    BY DEF DatesFollowCheck, DatesTell
  <2>6. QED
    BY <2>1, <2>2, <2>3, <2>4, <2>5
<1>4. ASSUME NEW u \in Update, ReadDate(u) PROVE UpdateInv'
  <2> USE <1>4 DEF ReadDate
  <2>1. UpdateTypeOK'
    OBVIOUS
  <2>2. HoldsLock'
    BY DEF HoldsLock
  <2>3. DatesTell'
    BY DEF DatesTell
  <2>4. StaysMatched'
    BY DEF StaysMatched, Settling, HoldsLock
  <2>5. DatesFollowCheck'
    BY DEF DatesFollowCheck, DatesTell
  <2>6. QED
    BY <2>1, <2>2, <2>3, <2>4, <2>5
<1>5. ASSUME NEW u \in Update, Conflict(u) PROVE UpdateInv'
  <2> USE <1>5 DEF Conflict
  <2>1. UpdateTypeOK'
    OBVIOUS
  <2>2. HoldsLock'
    BY DEF HoldsLock
  <2>3. DatesTell'
    BY DEF DatesTell
  <2>4. StaysMatched'
    BY DEF StaysMatched, Settling, HoldsLock
  <2>5. DatesFollowCheck'
    BY DEF DatesFollowCheck, DatesTell
  <2>6. QED
    BY <2>1, <2>2, <2>3, <2>4, <2>5
<1>6. ASSUME NEW u \in Update, ReadTime(u) PROVE UpdateInv'
  <2> USE <1>6 DEF ReadTime
  <2>1. UpdateTypeOK'
    OBVIOUS
  <2>2. HoldsLock'
    BY DEF HoldsLock
  <2>3. DatesTell'
    BY DEF DatesTell
  <2>4. StaysMatched'
    BY DEF StaysMatched, Settling, HoldsLock
  <2>5. DatesFollowCheck'
    BY DEF DatesFollowCheck, DatesTell
  <2>6. QED
    BY <2>1, <2>2, <2>3, <2>4, <2>5
<1>7. ASSUME NEW u \in Update, SetEntry(u) PROVE UpdateInv'
  <2> USE <1>7 DEF SetEntry
  <2>1. UpdateTypeOK'
    <3>1. clock' \in 1..MaxClock /\ EntryOf[u] \in Entry
      OBVIOUS
    <3>2. modified' \in [Entry -> 1..MaxClock]
      BY <3>1 DEF Write
    <3>3. revision' \in [Entry -> Nat]
      BY <3>1 DEF Write
    <3>4. QED
      BY <3>1, <3>2, <3>3
  <2>2. HoldsLock'
    BY DEF HoldsLock
  <2>3. StaysMatched'
    BY DEF StaysMatched, Settling, HoldsLock, Write
  <2>4. CASE Refused(u)
    <3>1. DatesTell' /\ DatesFollowCheck'
      BY <2>4 DEF DatesTell, DatesFollowCheck
    <3>2. QED
      BY <2>1, <2>2, <2>3, <3>1
  <2>5. CASE ~ Refused(u)
    <3>1. Write(EntryOf[u])
      BY <2>5
    <3>2. \A w \in Update : pc'[w] = pc[w] \/ pc'[w] \in {"written", "late"}
      BY <2>5
    <3>3. DatesTell'
      BY <3>1, WriteTells
    <3>4. DatesFollowCheck'
      BY <3>1, <3>2, WriteFollowsChecks
    <3>5. QED
      BY <2>1, <2>2, <2>3, <3>3, <3>4
  <2>6. QED
    BY <2>4, <2>5
<1>8. ASSUME NEW u \in Update, FailCall(u) PROVE UpdateInv'
  <2> USE <1>8 DEF FailCall
  <2>1. UpdateTypeOK'
    OBVIOUS
  <2>2. HoldsLock'
    BY DEF HoldsLock
  <2>3. DatesTell'
    BY DEF DatesTell
  <2>4. StaysMatched'
    BY DEF StaysMatched, Settling, HoldsLock
  <2>5. DatesFollowCheck'
    BY DEF DatesFollowCheck, DatesTell
  <2>6. QED
    BY <2>1, <2>2, <2>3, <2>4, <2>5
<1>9. ASSUME NEW u \in Update, WriteLate(u) PROVE UpdateInv'
  <2> USE <1>9 DEF WriteLate
  <2>1. UpdateTypeOK'
    <3>1. clock' \in 1..MaxClock /\ EntryOf[u] \in Entry
      OBVIOUS
    <3>2. modified' \in [Entry -> 1..MaxClock]
      BY <3>1 DEF Write
    <3>3. revision' \in [Entry -> Nat]
      BY <3>1 DEF Write
    <3>4. QED
      BY <3>1, <3>2, <3>3
  <2>2. HoldsLock'
    BY DEF HoldsLock
  <2>3. StaysMatched'
    BY DEF StaysMatched, Settling, HoldsLock, Write
  <2>4. CASE Refused(u)
    <3>1. DatesTell' /\ DatesFollowCheck'
      BY <2>4 DEF DatesTell, DatesFollowCheck
    <3>2. QED
      BY <2>1, <2>2, <2>3, <3>1
  <2>5. CASE ~ Refused(u)
    <3>1. Write(EntryOf[u])
      BY <2>5
    <3>2. \A w \in Update : pc'[w] = pc[w] \/ pc'[w] \in {"written", "late"}
      BY <2>5
    <3>3. DatesTell'
      BY <3>1, WriteTells
    <3>4. DatesFollowCheck'
      BY <3>1, <3>2, WriteFollowsChecks
    <3>5. QED
      BY <2>1, <2>2, <2>3, <3>3, <3>4
  <2>6. QED
    BY <2>4, <2>5
<1>10. ASSUME NEW e \in Entry, ModifyElsewhere(e) PROVE UpdateInv'
  <2> USE <1>10 DEF ModifyElsewhere
  <2>1. UpdateTypeOK'
    BY DEF Write
  <2>2. HoldsLock'
    BY DEF HoldsLock
  <2>3. StaysMatched'
    BY DEF StaysMatched, Settling, Write
  <2>4. DatesTell'
    BY WriteTells
  <2>5. DatesFollowCheck'
    BY WriteFollowsChecks
  <2>6. QED
    BY <2>1, <2>2, <2>3, <2>4, <2>5
<1>11. CASE Tick
  BY <1>11 DEF Tick, HoldsLock, DatesTell, StaysMatched, Settling, DatesFollowCheck
<1>12. CASE UNCHANGED updateVars
  BY <1>12 DEF updateVars, HoldsLock, DatesTell, StaysMatched, Settling, DatesFollowCheck
<1>13. QED
  BY <1>1, <1>2, <1>3, <1>4, <1>5, <1>6, <1>7, <1>8, <1>9, <1>10, <1>11, <1>12
  DEF UpdateNext, Handle

\* The inductive invariant holds throughout every behaviour.
THEOREM EntryInvariance == UpdateSpec => []UpdateInv
  BY EntryInit, EntryInductive, PTL DEF UpdateSpec

\* Updates of one entry through the bridge are serialized.
THEOREM UpdatesAreSerialized == UpdateSpec => []OneUpdatePerEntry
<1>1. UpdateInv => OneUpdatePerEntry
  BY EntryUpdateAssumption DEF UpdateInv, UpdateTypeOK, HoldsLock, OneUpdatePerEntry, Lock
<1>2. QED
  BY <1>1, EntryInvariance, PTL

\* An entry that nobody else writes is written only while the date the reviewer
\* saw is the current one (docs/mcp-tools.md), until a setEntry for it is not
\* answered.
THEOREM WritesMatchReview == UpdateSpec => OwnWritesOnlyReviewed
<1>1. UpdateInv => \A u \in Update :
        Writes(u) /\ Settling(EntryOf[u]) => modified[EntryOf[u]] = reviewed[u]
  BY DEF UpdateInv, StaysMatched, Writes, Settling, Unanswered
<1>2. QED
  BY <1>1, EntryInvariance, PTL DEF OwnWritesOnlyReviewed

\* Of such an entry, no update overwrites another that its reviewer did not see,
\* if the review came in a later second.
THEOREM NoUpdateIsLost == UpdateSpec => NoLostUpdate
<1>1. UpdateInv => \A u \in Update :
        Writes(u) /\ Settling(EntryOf[u]) /\ settled[u]
          => revision[EntryOf[u]] = seen[u]
  <2> SUFFICES ASSUME UpdateInv, NEW u \in Update,
                      Writes(u), Settling(EntryOf[u]), settled[u]
               PROVE  revision[EntryOf[u]] = seen[u]
    OBVIOUS
  <2>1. modified[EntryOf[u]] = reviewed[u]
    BY DEF UpdateInv, StaysMatched, Writes, Settling, Unanswered
  <2>2. QED
    BY <2>1, EntryUpdateAssumption DEF UpdateInv, UpdateTypeOK, DatesTell
<1>2. QED
  BY <1>1, EntryInvariance, PTL DEF NoLostUpdate

\* Of any entry, whoever writes it and however late a setEntry takes effect: what
\* an update overwrites unseen was written between its check and the end of the
\* second in which it read the server's time.
THEOREM OnlyRacesOverwrite == UpdateSpec => OverwritesAreRaces
<1>1. UpdateInv /\ [UpdateNext]_updateVars =>
        \A u \in Update :
          Writes(u) /\ settled[u] /\ revision[EntryOf[u]] # seen[u]
            => modified[EntryOf[u]] \in window[u][1]..window[u][2]
  <2> SUFFICES ASSUME UpdateInv, [UpdateNext]_updateVars, NEW u \in Update,
                      Writes(u), settled[u], revision[EntryOf[u]] # seen[u]
               PROVE  modified[EntryOf[u]] \in window[u][1]..window[u][2]
    OBVIOUS
  <2> USE DEF UpdateInv, UpdateTypeOK
  <2>1. SetEntry(u) \/ WriteLate(u)
    BY DEF Writes, UpdateNext, Handle, updateVars, Prepare, FailRequest, Enter, ReadDate,
       Conflict, ReadTime, SetEntry, FailCall, WriteLate, ModifyElsewhere, Tick, AnswerUpdate
  <2>2. ~ Refused(u)
    BY <2>1 DEF Writes, SetEntry, WriteLate
  <2>3. window[u][1] <= modified[EntryOf[u]] /\ getTime[u] = window[u][2]
    BY DEF Writes, DatesFollowCheck
  <2>4. modified[EntryOf[u]] \in Int /\ window[u][1] \in Int /\ window[u][2] \in Int
    BY EntryUpdateAssumption
  <2>5. QED
    BY <2>2, <2>3, <2>4 DEF Refused
<1>2. QED
  BY <1>1, EntryInvariance, PTL DEF OverwritesAreRaces, UpdateSpec

\* Whoever writes, the bridge's check refuses every settled review of an entry
\* that has changed since.
THEOREM CheckIsExact == UpdateSpec => CheckSeesReviewed
<1>1. UpdateInv /\ [UpdateNext]_updateVars =>
        \A u \in Update :
          pc[u] = "entered" /\ pc'[u] = "matched" /\ settled[u]
            => revision[EntryOf[u]] = seen[u]
  <2> SUFFICES ASSUME UpdateInv, [UpdateNext]_updateVars, NEW u \in Update,
                      pc[u] = "entered", pc'[u] = "matched", settled[u]
               PROVE  revision[EntryOf[u]] = seen[u]
    OBVIOUS
  <2> USE DEF UpdateInv, UpdateTypeOK
  <2>1. ASSUME NEW w \in Update, Handle(w) PROVE ReadDate(u)
    BY <2>1 DEF Handle, Enter, ReadDate, Conflict, ReadTime, SetEntry,
                FailCall, AnswerUpdate
  <2>2. ReadDate(u)
    BY <2>1 DEF UpdateNext, updateVars, Prepare, FailRequest, WriteLate, ModifyElsewhere, Tick
  <2>3. QED
    BY <2>2, EntryUpdateAssumption DEF ReadDate, DatesTell
<1>2. QED
  BY <1>1, EntryInvariance, PTL DEF CheckSeesReviewed, UpdateSpec
================================================================================
