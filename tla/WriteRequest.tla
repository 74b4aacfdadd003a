----------------------------- MODULE WriteRequest -----------------------------
(***************************************************************************)
(* What the sender of one write request may conclude from its answer,      *)
(* whatever happens to the request on its way: a success stands for a      *)
(* write that happened, a definite failure for one that never happened and *)
(* never will, and after anything else it may happen at any later moment.  *)
(***************************************************************************)
CONSTANT Request

VARIABLES
  effect,  \* effect[r]: the write of r happened
  verdict  \* verdict[r]: what the sender was told

vars == <<effect, verdict>>

Verdict == {"none", "success", "failure", "unknown"}

Init ==
  /\ effect = [r \in Request |-> FALSE]
  /\ verdict = [r \in Request |-> "none"]

TakeEffect(r) ==
  /\ ~effect[r]
  /\ verdict[r] \in {"none", "unknown"}
  /\ effect'[r] = TRUE
  /\ verdict'[r] = verdict[r]

Tell(r) ==
  /\ verdict[r] = "none"
  /\ verdict'[r] \in Verdict
  /\ verdict'[r] = "success" => effect[r]
  /\ verdict'[r] = "failure" => ~effect[r]
  /\ effect'[r] = effect[r]

Rest(r) ==
  /\ effect'[r] = effect[r]
  /\ verdict'[r] = verdict[r]

\* The end of the bridge concerns many requests at once.
Next == \A r \in Request : TakeEffect(r) \/ Tell(r) \/ Rest(r)

Spec == Init /\ [][Next]_vars

=============================================================================
