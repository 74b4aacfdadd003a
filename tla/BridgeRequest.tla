---------------------------- MODULE BridgeRequest ----------------------------
(***************************************************************************)
(* One request from ArapiBridgeClient to ArapiBridge, for each of the      *)
(* bridge's operations: the client's connection and timeout, the bridge's  *)
(* fixed thread pool, the AR session it opens and closes around a handler, *)
(* the exceptions a handler may raise before, in and after the AR call it  *)
(* is for, the HTTP answer each becomes, and what the client makes of it.  *)
(*                                                                         *)
(* Assumed of AR System: an AR call that ends with one of the errors the   *)
(* client treats as definite (must be administrator, modified since get,   *)
(* field not queryable, form not found) changed nothing.  After any other  *)
(* error it may or may not have.                                           *)
(***************************************************************************)
EXTENDS Naturals, FiniteSets

CONSTANTS
  Request,       \* the requests of one client
  OperationsOf,  \* the operations each may be for
  PoolSize,      \* pool_size: connections the client may hold at once
  Threads        \* HELIX_ARAPI_BRIDGE_THREADS

Operation == {
  "authentication", "forms", "fields", "selection_values", "menu_metadata",
  "menu_values", "query", "get", "prepare_update", "sql", "create", "update"}

Writing == {"create", "update"}

ASSUME BridgeRequestAssumption ==
  /\ IsFiniteSet(Request)
  /\ OperationsOf \in [Request -> SUBSET Operation]
  /\ PoolSize \in Nat \ {0}
  /\ Threads \in Nat \ {0}

VARIABLES
  operation, \* what each request is for, which never changes
  closed,    \* the client's _closed
  running,   \* the bridge process is there
  call,      \* where the client is, or what the request ended in
  work,      \* where the bridge is
  outcome,   \* what the handler ended in: a payload or an exception
  session,   \* an AR session is open for the request
  answer,    \* the HTTP answer on its way to the client
  effect     \* AR System carried the write out

vars == <<operation, closed, running, call, work, outcome, session, answer,
          effect>>
clientVars == <<closed, call>>
bridgeVars == <<running, work, outcome, session, effect>>

Waiting == {"connecting", "sent"}
Verdict == {"success", "failure", "unknown", "cancelled"}
Handling == {"login", "checking", "calling", "encoding", "leaving"}
Busy == Handling \cup {"responding"}

(***************************************************************************)
(* What a handler may raise                                                *)
(***************************************************************************)

ArError == {"must_be_admin", "modified_since_get", "not_queryable",
            "form_not_found", "other_error"}

Exception == ArError \cup {"bad_request", "ambiguous_field", "conflict",
                           "admin_required", "runtime"}

\* After these an AR call may have had its effect.
Unproven == {"other_error", "runtime"}

\* A call of the AR API, and the checks of what it returned.
ArCall == ArError \cup {"runtime"}

\* Validation of the request.
ValidText    == {"bad_request"}
Text         == ValidText                \* requiredText, requiredRaw
Bounded      == {"bad_request"}          \* integers, longs, booleans
ReadOnlySql  == {"bad_request"}
Unauthorized == {"forbidden"}            \* the token
FormBody     == {"bad_request"}
Credentials  == {"bad_request"}

\* Names of fields, resolved in the form's catalogue.
ResolveField == {"bad_request", "ambiguous_field"}
FieldList    == ValidText \cup {"bad_request"}
SelectFields == FieldList \cup ResolveField
Sorting      == FieldList \cup ResolveField
LoadFields   == ArCall
MatchAll     == ArCall \cup {"bad_request"}
WriteValue   == Bounded \cup {"bad_request"}
WriteValues  == Bounded \cup Text \cup ResolveField \cup WriteValue
ModifiedDate == {"runtime"}
ServerTime   == ArCall

\* Under the entry's lock, up to setEntry.
Precondition == ArCall \cup ModifiedDate \cup {"conflict"} \cup ServerTime

\* Encoding the result: what AR System returned may have a wrong shape.  Any
\* value and any data type can be shown.
JsonValue       == {}
DataTypeName    == {}
EncodeForms     == {}
EncodeFields    == DataTypeName \cup {"runtime"}
EncodeSelection == DataTypeName \cup {"runtime"}
EncodeMenu      == DataTypeName \cup {"runtime"}
ExpandMenu      == {"runtime"}
MenuValues      == ExpandMenu \cup {"runtime"}
EncodeRows      == JsonValue \cup {"runtime"}
EncodeEntry     == JsonValue \cup {"runtime"}

\* Mutant: an identifier that cannot be shown is an error.
EncodeCreatedStrict == {"bad_request"}

\* An identifier that cannot be shown is null.
EncodeCreated == {}

\* The identifier was validated with the request.
EncodeUpdated == {}

Handler(checks, main, encoding) ==
  [checks |-> checks, main |-> main, encoding |-> encoding]

AuthenticationProbeHandler == Handler({}, {}, {})
SqlQueryHandler ==
  Handler(Text \cup ReadOnlySql \cup Bounded \cup ArCall
            \cup {"admin_required"}, ArCall, EncodeRows)
FormsHandler == Handler({}, ArCall, EncodeForms)
FieldsHandler == Handler(Text, LoadFields, EncodeFields)
FieldSelectionValuesHandler ==
  Handler(Text \cup Bounded, ArCall, EncodeSelection)
FieldMenuMetadataHandler == Handler(Text \cup Bounded, ArCall, EncodeMenu)
FieldMenuValuesHandler ==
  Handler(Text \cup Bounded \cup ArCall, ArCall, EncodeMenu \cup MenuValues)
QueryEntriesHandler ==
  Handler(Text \cup LoadFields \cup SelectFields \cup Bounded \cup MatchAll
            \cup Sorting, ArCall, EncodeEntry)
GetEntryHandler ==
  Handler(Text \cup LoadFields \cup SelectFields, ArCall, EncodeEntry)
PrepareUpdateHandler ==
  Handler(Text \cup LoadFields \cup SelectFields, ArCall,
          ModifiedDate \cup EncodeEntry)
CreateEntryHandler ==
  Handler(Text \cup LoadFields \cup WriteValues, ArCall, EncodeCreated)
UpdateEntryHandler ==
  Handler(Text \cup Bounded \cup LoadFields \cup WriteValues \cup Precondition,
          ArCall, EncodeUpdated)

HandlerOf(o) ==
  CASE o = "authentication"   -> AuthenticationProbeHandler
    [] o = "forms"            -> FormsHandler
    [] o = "fields"           -> FieldsHandler
    [] o = "selection_values" -> FieldSelectionValuesHandler
    [] o = "menu_metadata"    -> FieldMenuMetadataHandler
    [] o = "menu_values"      -> FieldMenuValuesHandler
    [] o = "query"            -> QueryEntriesHandler
    [] o = "get"              -> GetEntryHandler
    [] o = "prepare_update"   -> PrepareUpdateHandler
    [] o = "sql"              -> SqlQueryHandler
    [] o = "create"           -> CreateEntryHandler
    [] o = "update"           -> UpdateEntryHandler

(***************************************************************************)
(* Answers, and what the client concludes                                  *)
(***************************************************************************)

\* The HTTP answers, by status and by the code or AR error they carry.
Answer == {"200", "400", "400 ambiguous", "403", "403 admin", "409", "500",
           "502", "502 not queryable", "502 form not found"}

\* The catch clauses of handle.
AnswerTo(o) ==
  CASE o = "payload"                                -> "200"
    [] o = "ambiguous_field"                        -> "400 ambiguous"
    [] o = "bad_request"                            -> "400"
    [] o \in {"conflict", "modified_since_get"}     -> "409"
    [] o \in {"admin_required", "must_be_admin"}    -> "403 admin"
    [] o = "not_queryable"                          -> "502 not queryable"
    [] o = "form_not_found"                         -> "502 form not found"
    [] o = "other_error"                            -> "502"
    [] o = "forbidden"                              -> "403"
    [] OTHER                                        -> "500"

\* Mutant: every error answer of the bridge proves that nothing was changed.
ConclusionsTrusting(a) ==
  IF a = "200" THEN {"success", "unknown"} ELSE {"failure"}

\* The payload of a 200 may be refused as a protocol error.
Parsed == {"success", "unknown"}

\* What _post raises or returns, and _arapi_outcome_unknown: transport and
\* protocol errors leave the outcome unknown, the others prove a failure.
Conclusions(a) ==
  CASE a = "200" -> Parsed
    [] a \in {"409", "403 admin", "400 ambiguous", "502 not queryable",
              "502 form not found"} -> {"failure"}
    [] OTHER -> {"unknown"}

Init ==
  /\ operation \in [Request -> Operation]
  /\ \A r \in Request : operation[r] \in OperationsOf[r]
  /\ closed = FALSE
  /\ running = TRUE
  /\ call = [r \in Request |-> "idle"]
  /\ work = [r \in Request |-> "none"]
  /\ outcome = [r \in Request |-> "none"]
  /\ session = [r \in Request |-> FALSE]
  /\ answer = [r \in Request |-> "none"]
  /\ effect = [r \in Request |-> FALSE]

(***************************************************************************)
(* The client                                                              *)
(***************************************************************************)

\* The values of a write and the bounds of a read can be refused locally.
CheckedLocally == Writing \cup {"sql"}

Begin(r) ==
  /\ call[r] = "idle"
  /\ \/ /\ ~closed
        /\ call' = [call EXCEPT ![r] = "preparing"]
     \/ /\ closed \/ operation[r] \in CheckedLocally
        /\ call' = [call EXCEPT ![r] = "failure"]
  /\ UNCHANGED <<operation, closed, bridgeVars, answer>>

\* The credentials are resolved, or cannot be.  The client may have been
\* closed meanwhile: the HTTP client then refuses to send.
Resolve(r) ==
  /\ call[r] = "preparing"
  /\ \E next \in IF closed THEN {"failure"} ELSE {"connecting", "failure"} :
       call' = [call EXCEPT ![r] = next]
  /\ UNCHANGED <<operation, closed, bridgeVars, answer>>

\* A connection is free: the request is written to it.
Send(r) ==
  /\ call[r] = "connecting"
  /\ ~closed
  /\ running
  /\ Cardinality({q \in Request : call[q] = "sent"}) < PoolSize
  /\ call' = [call EXCEPT ![r] = "sent"]
  /\ work' = [work EXCEPT ![r] = "queued"]
  /\ UNCHANGED <<operation, closed, running, outcome, session, answer, effect>>

\* httpx.RequestError: no connection, no answer in time, connection lost.  The
\* bridge is not told.
GiveUp(r) ==
  /\ call[r] \in Waiting
  /\ call' = [call EXCEPT ![r] = "unknown"]
  /\ answer' = [answer EXCEPT ![r] = "none"]
  /\ UNCHANGED <<operation, closed, bridgeVars>>

CancelCall(r) ==
  /\ call[r] \in Waiting \cup {"preparing"}
  /\ call' = [call EXCEPT ![r] = "cancelled"]
  /\ answer' = [answer EXCEPT ![r] = "none"]
  /\ UNCHANGED <<operation, closed, bridgeVars>>

Receive(r) ==
  /\ call[r] = "sent"
  /\ answer[r] # "none"
  /\ \E verdict \in Conclusions(answer[r]) :
       call' = [call EXCEPT ![r] = verdict]
  /\ answer' = [answer EXCEPT ![r] = "none"]
  /\ UNCHANGED <<operation, closed, bridgeVars>>

Close ==
  /\ ~closed
  /\ closed' = TRUE
  /\ UNCHANGED <<operation, call, bridgeVars, answer>>

(***************************************************************************)
(* The bridge                                                              *)
(***************************************************************************)

BusyThreads == {r \in Request : work[r] \in Busy}

\* A thread takes the request: wrong token, a body or credentials that are
\* refused, or on to the login.
Accept(r) ==
  /\ running
  /\ work[r] = "queued"
  /\ Cardinality(BusyThreads) < Threads
  /\ \E refusal \in Unauthorized \cup FormBody \cup Credentials \cup {"none"} :
       /\ outcome' = [outcome EXCEPT ![r] = refusal]
       /\ work' = [work EXCEPT ![r] =
            IF refusal = "none" THEN "login" ELSE "responding"]
  /\ UNCHANGED <<operation, clientVars, running, session, answer, effect>>

\* The handler ends with the exception e.
Raise(r, e) ==
  /\ outcome' = [outcome EXCEPT ![r] = e]
  /\ work' = [work EXCEPT ![r] = "leaving"]

Proceed(r, next) ==
  /\ work' = [work EXCEPT ![r] = next]
  /\ UNCHANGED outcome

Login(r) ==
  /\ running
  /\ work[r] = "login"
  /\ \/ /\ Proceed(r, "checking")
        /\ session' = [session EXCEPT ![r] = TRUE]
     \/ /\ \E e \in ArCall : Raise(r, e)
        /\ UNCHANGED session
  /\ UNCHANGED <<operation, clientVars, running, answer, effect>>

\* Everything a handler does before the call it is for.
Check(r) ==
  /\ running
  /\ work[r] = "checking"
  /\ \/ Proceed(r, "calling")
     \/ \E e \in HandlerOf(operation[r]).checks : Raise(r, e)
  /\ UNCHANGED <<operation, clientVars, running, session, answer, effect>>

\* The call itself.  createEntry and setEntry change AR System.
Perform(r) ==
  /\ running
  /\ work[r] = "calling"
  /\ \/ /\ Proceed(r, "encoding")
        /\ effect' = [effect EXCEPT ![r] = operation[r] \in Writing]
     \/ \E e \in HandlerOf(operation[r]).main :
          /\ Raise(r, e)
          /\ \E changed \in BOOLEAN :
               /\ changed => operation[r] \in Writing /\ e \in Unproven
               /\ effect' = [effect EXCEPT ![r] = changed]
  /\ UNCHANGED <<operation, clientVars, running, session, answer>>

Encode(r) ==
  /\ running
  /\ work[r] = "encoding"
  /\ \E o \in HandlerOf(operation[r]).encoding \cup {"payload"} : Raise(r, o)
  /\ UNCHANGED <<operation, clientVars, running, session, answer, effect>>

\* Mutant: the session is closed after a success only.
LeaveAfterSuccess(r) ==
  /\ running
  /\ work[r] = "leaving"
  /\ session' = [session EXCEPT ![r] = @ /\ outcome[r] # "payload"]
  /\ work' = [work EXCEPT ![r] = "responding"]
  /\ UNCHANGED <<operation, clientVars, running, outcome, answer, effect>>

\* The finally clause of withUser; logout may raise in the place of the result.
Leave(r) ==
  /\ running
  /\ work[r] = "leaving"
  /\ session' = [session EXCEPT ![r] = FALSE]
  /\ work' = [work EXCEPT ![r] = "responding"]
  /\ \E o \in {outcome[r], "runtime"} : outcome' = [outcome EXCEPT ![r] = o]
  /\ UNCHANGED <<operation, clientVars, running, answer, effect>>

\* respond: a payload over the limit becomes a 502.  Nobody may be listening.
Respond(r) ==
  /\ running
  /\ work[r] = "responding"
  /\ work' = [work EXCEPT ![r] = "over"]
  /\ \E a \in {AnswerTo(outcome[r])} \cup
            IF outcome[r] = "payload" /\ operation[r] \notin Writing
            THEN {"502"} ELSE {} :
       answer' = [answer EXCEPT ![r] = IF call[r] = "sent" THEN a ELSE "none"]
  /\ UNCHANGED <<operation, clientVars, running, outcome, session, effect>>

\* An IOException: the body cannot be read or the answer not be written.
Drop(r) ==
  /\ running
  /\ work[r] \in {"queued", "responding"}
  /\ work[r] = "queued" => Cardinality(BusyThreads) < Threads
  /\ work' = [work EXCEPT ![r] = "over"]
  /\ UNCHANGED <<operation, clientVars, running, outcome, session, answer,
                 effect>>

\* The bridge process ends.  A call that AR System is carrying out may still
\* have its effect; the sessions end with their connections.
Die ==
  /\ running
  /\ running' = FALSE
  /\ work' = [r \in Request |-> IF work[r] = "none" THEN "none" ELSE "over"]
  /\ session' = [r \in Request |-> FALSE]
  /\ \E late \in SUBSET {r \in Request :
         work[r] = "calling" /\ operation[r] \in Writing} :
       effect' = [r \in Request |-> effect[r] \/ r \in late]
  /\ UNCHANGED <<operation, clientVars, outcome, answer>>

Next ==
  \/ \E r \in Request :
       \/ Begin(r) \/ Resolve(r) \/ Send(r) \/ GiveUp(r) \/ CancelCall(r)
       \/ Receive(r)
       \/ Accept(r) \/ Login(r) \/ Check(r) \/ Perform(r) \/ Encode(r)
       \/ Leave(r) \/ Respond(r) \/ Drop(r)
  \/ Close \/ Die

Spec == Init /\ [][Next]_vars

(***************************************************************************)
(* Properties                                                              *)
(***************************************************************************)

TypeOK ==
  /\ operation \in [Request -> Operation]
  /\ closed \in BOOLEAN
  /\ running \in BOOLEAN
  /\ call \in [Request -> {"idle", "preparing"} \cup Waiting \cup Verdict]
  /\ work \in [Request -> {"none", "queued", "over"} \cup Busy]
  /\ outcome \in [Request ->
                   Exception \cup {"none", "payload", "forbidden"}]
  /\ session \in [Request -> BOOLEAN]
  /\ answer \in [Request -> Answer \cup {"none"}]
  /\ effect \in [Request -> BOOLEAN]

\* A request that was not sent has no work, and only sent ones await answers.
WorkIsSent ==
  \A r \in Request :
    /\ call[r] \in {"idle", "preparing", "connecting"} => work[r] = "none"
    /\ answer[r] # "none" => call[r] = "sent" /\ work[r] = "over"
    /\ call[r] \in {"success", "failure"} => work[r] \in {"none", "over"}

\* Nothing happens to AR System before the call.
EffectNeedsCall ==
  \A r \in Request :
    /\ work[r] \in {"none", "queued", "login", "checking", "calling"} =>
         ~effect[r]
    /\ effect[r] => operation[r] \in Writing

\* A handler has an outcome once it is over.
OutcomeIsLast ==
  \A r \in Request :
    work[r] \in {"none", "queued", "login", "checking", "calling",
                "encoding"} => outcome[r] = "none"

\* No handler raises an exception of the bridge's own (invalid request,
\* ambiguous field, conflict) once createEntry or setEntry had its effect: a
\* write that AR System carried out is not answered like a refused request.
EffectIsNotRefused ==
  \A r \in Request :
    effect[r] /\ work[r] \in {"encoding", "leaving", "responding"} =>
      outcome[r] \in {"none", "payload"} \cup Unproven

\* A payload stands for the write, on its way and in the client's verdict.
PayloadNeedsEffect ==
  \A r \in Request :
    operation[r] \in Writing =>
      /\ work[r] = "encoding" => effect[r]
      /\ work[r] \in {"leaving", "responding"} /\ outcome[r] = "payload" =>
           effect[r]
      /\ answer[r] = "200" => effect[r]
      /\ call[r] = "success" => effect[r]

\* A refusal stands for no write, on its way and in the client's verdict.
RefusalIsTrue ==
  \A r \in Request :
    /\ answer[r] # "none" /\ "failure" \in Conclusions(answer[r]) => ~effect[r]
    /\ call[r] = "failure" => ~effect[r]

\* AR sessions are the threads': the bridge never holds more of them than it
\* has threads, however its handlers end, and none when it is idle (withUser).
SessionsBounded ==
  /\ Cardinality({r \in Request : session[r]}) <= Threads
  /\ BusyThreads = {} => \A r \in Request : ~session[r]

SessionsAreBusy == \A r \in Request : session[r] => work[r] \in Handling

ThreadsBounded == Cardinality(BusyThreads) <= Threads

\* The inductive invariant.
IInv ==
  /\ TypeOK
  /\ WorkIsSent
  /\ EffectNeedsCall
  /\ OutcomeIsLast
  /\ EffectIsNotRefused
  /\ PayloadNeedsEffect
  /\ RefusalIsTrue
  /\ SessionsAreBusy
  /\ ThreadsBounded

\* What the write service makes of a request's end.
VerdictOf(r) ==
  CASE operation[r] \notin Writing           -> "none"
    [] /\ operation[r] \in Writing
       /\ call[r] \in {"success", "failure"}   -> call[r]
    [] /\ operation[r] \in Writing
       /\ call[r] \in {"unknown", "cancelled"} -> "unknown"
    [] OTHER                                 -> "none"

Sender == INSTANCE WriteRequest
  WITH verdict <- [r \in Request |-> VerdictOf(r)]

\* The client's errors say what happened (_arapi_outcome_unknown): a definite
\* error is only raised for a write that did not happen and never will, a
\* result only returned for one that did, whatever the bridge does later with
\* a request that nobody waits for.
KeepsPromise == Sender!Spec

=============================================================================
