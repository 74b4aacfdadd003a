----------------------------- MODULE ApprovedWrite -----------------------------
(***************************************************************************)
(* What the write tools promise the person who approves a plan, whatever   *)
(* the gateway does inside: a plan takes effect at most once, a success    *)
(* verdict is only given for a plan that took effect, and a failure        *)
(* verdict only for one that never did and never will.                     *)
(***************************************************************************)
EXTENDS Naturals

CONSTANT Plan

VARIABLES
  may,     \* may[p]: the effect of p can still happen
  effect,  \* effect[p]: how many times it happened
  verdict  \* verdict[p]: what the gateway says of p

vars == <<may, effect, verdict>>

Verdict == {"none", "success", "failure", "unknown"}

Init ==
  /\ may = [p \in Plan |-> TRUE]
  /\ effect = [p \in Plan |-> 0]
  /\ verdict = [p \in Plan |-> "none"]

TakeEffect(p) ==
  /\ may[p]
  /\ may'[p] = FALSE
  /\ effect'[p] = effect[p] + 1
  /\ verdict'[p] = verdict[p]

\* Cancelled, expired, refused or lost before the write could happen.
Withdraw(p) ==
  /\ may[p]
  /\ may'[p] = FALSE
  /\ effect'[p] = effect[p]
  /\ verdict'[p] = verdict[p]

ReportSuccess(p) ==
  /\ effect[p] = 1
  /\ ~may[p]
  /\ verdict'[p] = "success"
  /\ effect'[p] = effect[p]
  /\ may'[p] = FALSE

ReportFailure(p) ==
  /\ effect[p] = 0
  /\ ~may[p]
  /\ verdict'[p] = "failure"
  /\ effect'[p] = effect[p]
  /\ may'[p] = FALSE

\* Nothing is claimed, now or about what may still happen.
ReportUnknown(p) ==
  /\ verdict[p] = "none"
  /\ verdict'[p] = "unknown"
  /\ effect'[p] = effect[p]
  /\ may'[p] = may[p]

\* The record of the plan is deleted after its expiry.
Forget(p) ==
  /\ verdict'[p] = "none"
  /\ effect'[p] = effect[p]
  /\ may'[p] = may[p]

Rest(p) ==
  /\ may'[p] = may[p]
  /\ effect'[p] = effect[p]
  /\ verdict'[p] = verdict[p]

\* A purge concerns many plans at once, so each plan takes a step of its own.
Next ==
  \A p \in Plan :
    \/ TakeEffect(p)
    \/ Withdraw(p)
    \/ ReportSuccess(p)
    \/ ReportFailure(p)
    \/ ReportUnknown(p)
    \/ Forget(p)
    \/ Rest(p)

Spec == Init /\ [][Next]_vars

=============================================================================
