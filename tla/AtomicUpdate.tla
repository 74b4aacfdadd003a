---------------------------- MODULE AtomicUpdate ----------------------------
(***************************************************************************)
(* What a managed update promises: the files that decide what runs move    *)
(* together to one release, or stay as they were, and an update says that  *)
(* it succeeded exactly when they moved.                                   *)
(***************************************************************************)
CONSTANTS Updater, File, Version

VARIABLES
  installed,  \* the release each managed file belongs to
  verdict     \* how far each update is

Ask(u) ==
  /\ verdict[u] \in {"updated", "failed"}
  /\ verdict' = [verdict EXCEPT ![u] = "none"]
  /\ UNCHANGED installed

Open(u) ==
  /\ verdict[u] = "none"
  /\ verdict' = [verdict EXCEPT ![u] = "open"]
  /\ UNCHANGED installed

Commit(u, v) ==
  /\ verdict[u] = "open"
  /\ verdict' = [verdict EXCEPT ![u] = "committed"]
  /\ installed' = [f \in File |-> v]

Succeed(u) ==
  /\ verdict[u] = "committed"
  /\ verdict' = [verdict EXCEPT ![u] = "updated"]
  /\ UNCHANGED installed

GiveUp(u) ==
  /\ verdict[u] = "open"
  /\ verdict' = [verdict EXCEPT ![u] = "failed"]
  /\ UNCHANGED installed

Init ==
  /\ \E v \in Version : installed = [f \in File |-> v]
  /\ verdict = [u \in Updater |-> "none"]

Next ==
  \E u \in Updater :
    \/ Ask(u) \/ Open(u) \/ Succeed(u) \/ GiveUp(u)
    \/ \E v \in Version : Commit(u, v)

Spec == Init /\ [][Next]_<<installed, verdict>>
=============================================================================
