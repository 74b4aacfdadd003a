--------------------------- MODULE MCUpdateRollback ---------------------------
(* One gateway process, two apply calls, two plans and one update. *)
EXTENDS UpdateRollback, TLC

CONSTANTS p1, p2, q1, c1, c2

MCProcessOf == [c \in Call |-> q1]
=============================================================================
