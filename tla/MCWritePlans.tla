----------------------------- MODULE MCWritePlans -----------------------------
(* A small instance of WritePlans: two plans and two gateway processes, each *)
(* with a slot for apply calls.                                              *)
EXTENDS WritePlans, TLC

CONSTANTS p1, p2, q1, q2, c1, c2

MCProcessOf == (c1 :> q1) @@ (c2 :> q2)

Symmetry == Permutations(Plan)
=============================================================================
