----------------------------- MODULE MCRateLimit -----------------------------
(* Requests of two processes, all of one key but r4. *)
EXTENDS RateLimit, TLC

CONSTANTS r1, r2, r3, r4, c1, c2, k1, k2

MCCounterOf == [r \in Request |-> IF r \in {r1, r2} THEN c1 ELSE c2]
MCKeyOf == [r \in Request |-> IF r = r4 THEN k2 ELSE k1]
MCLimit == [k \in Key |-> IF k = k1 THEN 2 ELSE 1]

Symmetry == Permutations({r1, r2})
=============================================================================
