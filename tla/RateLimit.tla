------------------------------ MODULE RateLimit ------------------------------
(***************************************************************************)
(* SlidingWindowCounter: the events of the form-read, SQL-read and apply   *)
(* limits of all gateway processes in one table of the plan database.  A   *)
(* process reads the time first and runs the transaction later, in a       *)
(* thread.  Without a database one process keeps its events in memory, and *)
(* there is no such delay: one counter, and MaxDelay = 0.                  *)
(***************************************************************************)
EXTENDS Naturals, FiniteSets

CONSTANTS
  Request,    \* calls of acquire
  Counter,    \* the counters: one per process and scope
  CounterOf,  \* the counter each request asks
  Key,        \* scopes and targets
  KeyOf,      \* what each request counts towards
  Limit,      \* rate_limit_per_minute of each key
  Window,     \* _WINDOW_SECONDS, in ticks
  MaxDelay,   \* the longest time between reading the clock and the transaction
  MaxClock    \* bound of the model: the last tick of the clock

ASSUME RateLimitAssumption ==
  /\ IsFiniteSet(Request)
  /\ CounterOf \in [Request -> Counter]
  /\ KeyOf \in [Request -> Key]
  /\ Limit \in [Key -> Nat \ {0}]
  /\ Window \in Nat
  /\ MaxDelay \in Nat
  /\ MaxDelay < Window
  /\ MaxClock \in Nat

VARIABLES
  clock,    \* time.time()
  pc,       \* where each request is, or how it was answered
  now,      \* the time each request read
  rows,     \* the rows of rate_limit_events, by the request that inserted them
  recorded  \* all the requests that ever inserted a row

vars == <<clock, pc, now, rows, recorded>>

Pending == {"timed", "orphaned"}
Decided == {"allowed", "limited", "unavailable", "lost", "cancelled"}

Init ==
  /\ clock = 0
  /\ pc = [r \in Request |-> "idle"]
  /\ now = [r \in Request |-> 0]
  /\ rows = {}
  /\ recorded = {}

Locked(c) == \E r \in Request : pc[r] = "timed" /\ CounterOf[r] = c

\* The counter's lock is taken and the time read.
ReadTime(r) ==
  /\ pc[r] = "idle"
  /\ ~Locked(CounterOf[r])
  /\ pc' = [pc EXCEPT ![r] = "timed"]
  /\ now' = [now EXCEPT ![r] = clock]
  /\ UNCHANGED <<clock, rows, recorded>>

\* The rows that DELETE ... WHERE occurred_at <= now - window leaves.
Kept(r) == {x \in rows : now[x] + Window > now[r]}

SameKey(r, S) == {x \in S : KeyOf[x] = KeyOf[r]}

\* The transaction's answer and effect, for the rows that it finds left and
\* the limit it compares their number with.
Decide(r, left, limit) ==
  /\ pc[r] \in Pending
  /\ IF Cardinality(SameKey(r, left)) >= limit
     THEN /\ rows' = left
          /\ pc' = [pc EXCEPT ![r] = IF @ = "timed" THEN "limited" ELSE "cancelled"]
          /\ UNCHANGED recorded
     ELSE /\ rows' = left \cup {r}
          /\ pc' = [pc EXCEPT ![r] = IF @ = "timed" THEN "allowed" ELSE "cancelled"]
          /\ recorded' = recorded \cup {r}
  /\ UNCHANGED <<clock, now>>

\* Mutants: one event too many, old rows that count.
TransactOffByOne(r) == Decide(r, Kept(r), Limit[KeyOf[r]] + 1)

TransactKeepingOld(r) == Decide(r, rows, Limit[KeyOf[r]])

Transact(r) == Decide(r, Kept(r), Limit[KeyOf[r]])

\* SQLite stays locked for too long, or fails: rolled back.
FailTransaction(r) ==
  /\ pc[r] \in Pending
  /\ pc' = [pc EXCEPT ![r] = IF @ = "timed" THEN "unavailable" ELSE "cancelled"]
  /\ UNCHANGED <<clock, now, rows, recorded>>

\* The caller is cancelled: the lock is released while the thread goes on.
CancelRequest(r) ==
  /\ pc[r] = "timed"
  /\ pc' = [pc EXCEPT ![r] = "orphaned"]
  /\ UNCHANGED <<clock, now, rows, recorded>>

\* The process ends before the transaction; the table stays.
Lose(r) ==
  /\ pc[r] \in Pending
  /\ pc' = [pc EXCEPT ![r] = "lost"]
  /\ UNCHANGED <<clock, now, rows, recorded>>

\* A thread finishes, or gives up, within MaxDelay of reading the time.
Tick ==
  /\ clock < MaxClock
  /\ \A r \in Request : pc[r] \in Pending => clock < now[r] + MaxDelay
  /\ clock' = clock + 1
  /\ UNCHANGED <<pc, now, rows, recorded>>

Next ==
  \/ \E r \in Request :
       ReadTime(r) \/ Transact(r) \/ FailTransaction(r) \/ CancelRequest(r)
         \/ Lose(r)
  \/ Tick

Spec == Init /\ [][Next]_vars

(***************************************************************************)
(* Properties                                                              *)
(***************************************************************************)

TypeOK ==
  /\ clock \in 0..MaxClock
  /\ pc \in [Request -> {"idle"} \cup Pending \cup Decided]
  /\ now \in [Request -> 0..MaxClock]
  /\ rows \subseteq recorded
  /\ recorded \subseteq Request

\* What was recorded for r's key in the span that ends with r.
Before(r, span) ==
  {x \in SameKey(r, recorded) : now[x] <= now[r] /\ now[r] < now[x] + span}

\* No window that is shorter than a minute by the longest delay ever holds more
\* events than the limit, although a slower process may insert an event behind
\* newer ones, after a faster one deleted rows that still count for it.
LimitHolds ==
  \A r \in recorded : Cardinality(Before(r, Window - MaxDelay)) <= Limit[KeyOf[r]]

\* rate_limit.py, acquire: "Return whether one event fits inside the current
\* minute": no whole window ever holds more events than the limit.
MinuteHolds ==
  \A r \in recorded : Cardinality(Before(r, Window)) <= Limit[KeyOf[r]]

\* A request is only turned down when its key's budget is really used up: as
\* many events as the limit were recorded in the window that it asks about.
RefusedOnlyWhenFull ==
  [][\A r \in Request : pc[r] = "timed" /\ pc'[r] = "limited" =>
       Cardinality({x \in SameKey(r, recorded) : now[x] + Window > now[r]})
         >= Limit[KeyOf[r]]]_vars

(***************************************************************************)
(* Why they hold                                                           *)
(***************************************************************************)

\* Requests read the clock once, and no more than MaxDelay before they finish.
TimesAreRecent ==
  \A r \in Request :
    /\ now[r] <= clock
    /\ pc[r] \in Pending => clock <= now[r] + MaxDelay
    /\ pc[r] \in {"idle"} \cup Pending => r \notin recorded

\* Only rows that are out of the window of the latest reader are deleted.
DeletedIsOld ==
  \A x \in recorded : x \notin rows => now[x] + Window <= clock

IInv == TypeOK /\ TimesAreRecent /\ DeletedIsOld /\ LimitHolds
=============================================================================
