----------------------------- MODULE EntryUpdate -----------------------------
(***************************************************************************)
(* The conditional update of the Java bridge: prepare-update reads an      *)
(* entry and its Modified Date for review, and conditionallyUpdate writes  *)
(* the approved values only if the date is still the same.  The AR System  *)
(* server keeps the entries; others may modify them through it directly,   *)
(* or through a bridge of another installation.                            *)
(***************************************************************************)
EXTENDS Naturals

CONSTANTS
  Update,       \* the approved updates
  Entry,        \* entries of forms
  EntryOf,      \* the entry each update is for
  Shared,       \* the entries that others modify as well
  Stripe,       \* UPDATE_LOCKS
  StripeOf,     \* the lock of each entry (updateLock)
  NoUpdate,     \* a free lock
  MaxClock,     \* bound of the model: the last second of the server's clock
  MaxRevision   \* bound of the model: others modify an entry of fewer revisions

ASSUME EntryUpdateAssumption ==
  /\ EntryOf \in [Update -> Entry]
  /\ Shared \subseteq Entry
  /\ StripeOf \in [Entry -> Stripe]
  /\ NoUpdate \notin Update
  /\ MaxClock \in Nat \ {0}
  /\ MaxRevision \in Nat

VARIABLES
  clock,     \* the AR server's clock, in seconds
  modified,  \* the Modified Date of each entry
  revision,  \* how many times each entry was written, by anybody
  pc,        \* where each update is, or how it was answered
  reviewed,  \* the precondition of each update: the date the reviewer saw
  seen,      \* the revision the reviewer saw
  settled,   \* whether the review came in a later second than that revision
  getTime,   \* the time setEntry is given
  owner,     \* who holds each lock
  window     \* the seconds in which each update read the date and the time

updateVars ==
  <<clock, modified, revision, pc, reviewed, seen, settled, getTime, owner, window>>

Locked == {"entered", "matched", "timed"}

\* The setEntry of an unproven update threw after it was sent: AR System may
\* still carry it out, and has done what it ever does when it is "late".
Unanswered == {"unproven", "late"}
Answered == {"written", "conflict", "error"} \cup Unanswered

UpdateInit ==
  /\ clock = 1
  /\ modified = [e \in Entry |-> 1]
  /\ revision = [e \in Entry |-> 0]
  /\ pc = [u \in Update |-> "idle"]
  /\ reviewed = [u \in Update |-> 1]
  /\ seen = [u \in Update |-> 0]
  /\ settled = [u \in Update |-> FALSE]
  /\ getTime = [u \in Update |-> 1]
  /\ owner = [s \in Stripe |-> NoUpdate]
  /\ window = [u \in Update |-> <<1, 1>>]

Lock(u) == StripeOf[EntryOf[u]]

\* PrepareUpdateHandler; the date becomes part of the plan that is approved.
Prepare(u) ==
  /\ pc[u] = "idle"
  /\ pc' = [pc EXCEPT ![u] = "reviewed"]
  /\ reviewed' = [reviewed EXCEPT ![u] = modified[EntryOf[u]]]
  /\ seen' = [seen EXCEPT ![u] = revision[EntryOf[u]]]
  /\ settled' = [settled EXCEPT ![u] = modified[EntryOf[u]] < clock]
  /\ UNCHANGED <<clock, modified, revision, getTime, owner, window>>

\* The login, the form's definition or the values are refused before the lock.
FailRequest(u) ==
  /\ pc[u] = "reviewed"
  /\ pc' = [pc EXCEPT ![u] = "error"]
  /\ UNCHANGED <<clock, modified, revision, reviewed, seen, settled, getTime,
                 owner, window>>

\* Mutant: the synchronized block is left out.
EnterUnlocked(u) ==
  /\ pc[u] = "reviewed"
  /\ pc' = [pc EXCEPT ![u] = "entered"]
  /\ UNCHANGED <<clock, modified, revision, reviewed, seen, settled, getTime,
                 owner, window>>

\* synchronized (updateLock(form, entryId)).
Enter(u) ==
  /\ pc[u] = "reviewed"
  /\ owner[Lock(u)] = NoUpdate
  /\ pc' = [pc EXCEPT ![u] = "entered"]
  /\ owner' = [owner EXCEPT ![Lock(u)] = u]
  /\ UNCHANGED <<clock, modified, revision, reviewed, seen, settled, getTime, window>>

\* Mutant: the monitor is only left on success.
AnswerKeepingLock(u, answer) ==
  /\ pc' = [pc EXCEPT ![u] = answer]
  /\ owner' = IF answer = "written"
              THEN [owner EXCEPT ![Lock(u)] = NoUpdate] ELSE owner

\* The handler leaves the synchronized block, normally or by an exception.
AnswerUpdate(u, answer) ==
  /\ pc' = [pc EXCEPT ![u] = answer]
  /\ owner' = [owner EXCEPT ![Lock(u)] = NoUpdate]

\* Mutant: a difference of one second is tolerated.
ReadDateTolerant(u) ==
  /\ pc[u] = "entered"
  /\ modified[EntryOf[u]] <= reviewed[u] + 1
  /\ pc' = [pc EXCEPT ![u] = "matched"]
  /\ window' = [window EXCEPT ![u] = <<clock, clock>>]
  /\ UNCHANGED <<clock, modified, revision, reviewed, seen, settled, getTime,
                 owner>>

ReadDate(u) ==
  /\ pc[u] = "entered"
  /\ modified[EntryOf[u]] = reviewed[u]
  /\ pc' = [pc EXCEPT ![u] = "matched"]
  /\ window' = [window EXCEPT ![u] = <<clock, clock>>]
  /\ UNCHANGED <<clock, modified, revision, reviewed, seen, settled, getTime,
                 owner>>

Conflict(u) ==
  /\ pc[u] = "entered"
  /\ modified[EntryOf[u]] # reviewed[u]
  /\ AnswerUpdate(u, "conflict")
  /\ UNCHANGED <<clock, modified, revision, reviewed, seen, settled, getTime, window>>

\* Mutant: setEntry is given a time that no change is later than.
ReadNoTime(u) ==
  /\ pc[u] = "matched"
  /\ pc' = [pc EXCEPT ![u] = "timed"]
  /\ getTime' = [getTime EXCEPT ![u] = MaxClock]
  /\ window' = [window EXCEPT ![u][2] = clock]
  /\ UNCHANGED <<clock, modified, revision, reviewed, seen, settled, owner>>

\* readServerTime; "if (getTime <= modifiedDate) getTime = modifiedDate + 1".
ReadTime(u) ==
  /\ pc[u] = "matched"
  /\ pc' = [pc EXCEPT ![u] = "timed"]
  /\ getTime' = [getTime EXCEPT ![u] =
       IF clock <= reviewed[u] THEN reviewed[u] + 1 ELSE clock]
  /\ window' = [window EXCEPT ![u][2] = clock]
  /\ UNCHANGED <<clock, modified, revision, reviewed, seen, settled, owner>>

\* The server stores new values and stamps the entry.
Write(e) ==
  /\ revision' = [revision EXCEPT ![e] = @ + 1]
  /\ modified' = [modified EXCEPT ![e] = clock]

\* The server refuses a setEntry (error 309) when the entry was modified after
\* the time given.
Refused(u) == modified[EntryOf[u]] > getTime[u]

\* setEntry returns, or throws what the server refused.
SetEntry(u) ==
  /\ pc[u] = "timed"
  /\ IF Refused(u)
     THEN AnswerUpdate(u, "conflict") /\ UNCHANGED <<modified, revision>>
     ELSE Write(EntryOf[u]) /\ AnswerUpdate(u, "written")
  /\ UNCHANGED <<clock, reviewed, seen, settled, getTime, window>>

\* getEntry or getServerInfo throws, or the server refuses the setEntry: an
\* entry that others deleted.  A setEntry that throws for want of an answer
\* leaves the monitor with the effect unproven, and so does a bridge that is
\* stopped, which ends all its calls and all its monitors.
FailCall(u) ==
  /\ pc[u] \in Locked
  /\ \/ AnswerUpdate(u, "error")
     \/ pc[u] = "timed" /\ AnswerUpdate(u, "unproven")
  /\ UNCHANGED <<clock, modified, revision, reviewed, seen, settled, getTime, window>>

\* The server carries out an unproven setEntry, or refuses it.
WriteLate(u) ==
  /\ pc[u] = "unproven"
  /\ pc' = [pc EXCEPT ![u] = "late"]
  /\ IF Refused(u) THEN UNCHANGED <<modified, revision>> ELSE Write(EntryOf[u])
  /\ UNCHANGED <<clock, reviewed, seen, settled, getTime, owner, window>>

\* A user or another program modifies the entry, without any condition.
ModifyElsewhere(e) ==
  /\ e \in Shared
  /\ revision[e] < MaxRevision
  /\ Write(e)
  /\ UNCHANGED <<clock, pc, reviewed, seen, settled, getTime, owner, window>>

Tick ==
  /\ clock < MaxClock
  /\ clock' = clock + 1
  /\ UNCHANGED <<modified, revision, pc, reviewed, seen, settled, getTime,
                 owner, window>>

Handle(u) ==
  \/ Enter(u) \/ ReadDate(u) \/ Conflict(u) \/ ReadTime(u) \/ SetEntry(u)
  \/ FailCall(u)

UpdateNext ==
  \/ \E u \in Update : Prepare(u) \/ FailRequest(u) \/ Handle(u) \/ WriteLate(u)
  \/ \E e \in Entry : ModifyElsewhere(e)
  \/ Tick

UpdateSpec == UpdateInit /\ [][UpdateNext]_updateVars

\* A pool thread goes on with its request; AR calls return or throw.
UpdateFairSpec == UpdateSpec /\ \A u \in Update : WF_updateVars(Handle(u))

(***************************************************************************)
(* Properties                                                              *)
(***************************************************************************)

UpdateTypeOK ==
  /\ clock \in 1..MaxClock
  /\ modified \in [Entry -> 1..MaxClock]
  /\ revision \in [Entry -> Nat]
  /\ pc \in [Update -> {"idle", "reviewed"} \cup Locked \cup Answered]
  /\ reviewed \in [Update -> 1..MaxClock]
  /\ seen \in [Update -> Nat]
  /\ settled \in [Update -> BOOLEAN]
  /\ getTime \in [Update -> 1..MaxClock + 1]
  /\ owner \in [Stripe -> Update \cup {NoUpdate}]
  /\ window \in [Update -> (1..MaxClock) \X (1..MaxClock)]

\* Updates of one entry through the bridge are serialized by the lock of its
\* stripe: no two are between the check of the date and the write.
OneUpdatePerEntry ==
  \A u, w \in Update :
    u # w /\ EntryOf[u] = EntryOf[w] /\ pc[u] \in Locked => pc[w] \notin Locked

\* An update takes effect, at once or late.
Writes(u) ==
  /\ \/ pc[u] = "timed" /\ pc'[u] = "written"
     \/ pc[u] = "unproven" /\ pc'[u] = "late"
  /\ revision'[EntryOf[u]] # revision[EntryOf[u]]

\* Only updates of the bridge write the entry, and each of them was answered.
Settling(e) ==
  /\ e \notin Shared
  /\ \A u \in Update : EntryOf[u] = e => pc[u] \notin Unanswered

\* docs/mcp-tools.md, apply_update_entry: "It updates the entry only when the
\* current Modified Date still matches the reviewed plan", at the moment of the
\* write.
WritesOnlyReviewed ==
  [][\A u \in Update : Writes(u) => modified[EntryOf[u]] = reviewed[u]]_updateVars

\* The same for the entries that only the bridge writes, whatever its updates do
\* between the check and the write (conditionallyUpdate), until a setEntry for
\* the entry ends without an answer.
OwnWritesOnlyReviewed ==
  [][\A u \in Update :
       Writes(u) /\ Settling(EntryOf[u])
         => modified[EntryOf[u]] = reviewed[u]]_updateVars

\* No update of such an entry is written over values its reviewer did not see,
\* although a date has a resolution of one second: enough that the review came
\* in a later second than the revision it showed.
NoLostUpdate ==
  [][\A u \in Update :
       Writes(u) /\ Settling(EntryOf[u]) /\ settled[u]
         => revision[EntryOf[u]] = seen[u]]_updateVars

\* Of any entry, whoever writes it and however late setEntry takes effect: what
\* an update overwrites unseen was written no earlier than the second in which
\* it checked the date, and no later than the one in which it read the server's
\* time (conditionallyUpdate; the server does the rest).
OverwritesAreRaces ==
  [][\A u \in Update :
       Writes(u) /\ settled[u] /\ revision[EntryOf[u]] # seen[u]
         => modified[EntryOf[u]] \in window[u][1]..window[u][2]]_updateVars

\* Of any entry, the bridge's check refuses a settled review that is out of
\* date at the moment of the check (ConflictException).
CheckSeesReviewed ==
  [][\A u \in Update :
       pc[u] = "entered" /\ pc'[u] = "matched" /\ settled[u]
         => revision[EntryOf[u]] = seen[u]]_updateVars

\* An update that is sent is answered, whoever holds the lock of its stripe.
EveryUpdateIsAnswered ==
  \A u \in Update : (pc[u] = "reviewed") ~> (pc[u] \in Answered)

(***************************************************************************)
(* Why they hold                                                           *)
(***************************************************************************)

\* Whoever is in the synchronized block holds the lock of its stripe.
HoldsLock == \A u \in Update : pc[u] \in Locked => owner[Lock(u)] = u

\* A later revision of a settled entry carries a later date.
DatesTell ==
  /\ \A e \in Entry : modified[e] <= clock
  /\ \A u \in Update : settled[u] =>
       /\ reviewed[u] < clock
       /\ seen[u] # revision[EntryOf[u]] => reviewed[u] < modified[EntryOf[u]]

\* The date that matched stays until the write, unless others write the entry or
\* a setEntry for it is not answered.
StaysMatched ==
  \A u \in Update :
    pc[u] \in {"matched", "timed"} /\ Settling(EntryOf[u])
      => modified[EntryOf[u]] = reviewed[u]

\* What changed since the check was dated since the check, and setEntry is given
\* the second in which the time was read.
DatesFollowCheck ==
  \A u \in Update :
    pc[u] \in {"matched", "timed", "unproven"} /\ settled[u] =>
      /\ reviewed[u] < window[u][1]
      /\ window[u][1] <= window[u][2] /\ window[u][2] <= clock
      /\ seen[u] # revision[EntryOf[u]] => window[u][1] <= modified[EntryOf[u]]
      /\ pc[u] # "matched" => getTime[u] = window[u][2]

UpdateInv ==
  UpdateTypeOK /\ HoldsLock /\ DatesTell /\ StaysMatched /\ DatesFollowCheck
=============================================================================
