----------------------------- MODULE MCSqlPlans ------------------------------
(* Two plans and calls of two gateway processes, over each store. *)
EXTENDS SqlPlans, TLC

CONSTANTS p1, p2, q1, q2, c1, c2, c3

MCProcessOf == [c \in Call |-> IF c = c2 THEN q2 ELSE q1]

Symmetry == Permutations(Plan)
=============================================================================
