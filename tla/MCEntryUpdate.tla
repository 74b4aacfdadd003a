---------------------------- MODULE MCEntryUpdate ----------------------------
(* Three updates of two entries that share a lock stripe. *)
EXTENDS EntryUpdate, TLC

CONSTANTS u1, u2, u3, e1, e2, s1

MCEntryOf == [u \in Update |-> IF u = u3 THEN e2 ELSE e1]
MCStripeOf == [e \in Entry |-> s1]
=============================================================================
