-------------------------- MODULE MCDashboardConfig --------------------------
(* Three requests of the pages, and an edit, or a bridge of another gateway  *)
(* process, while no third one is at work.                                   *)
EXTENDS DashboardConfig

CONSTANTS r1, r2, r3, e1

MCKindsOf == [r \in Request |->
  CASE r = r1 -> {"save", "rebuild"}
    [] r = r2 -> {"credentials", "discover", "preflight"}
    [] r = r3 -> {"discover"}]

\* A second save is one of credentials beside a rebuild.
EditsBesideTwo ==
  /\ edited # {} \/ bridge = "foreign" => pc[r3] = "idle"
  /\ kind[r1] = "save" => kind[r2] = "discover"
=============================================================================
