------------------------------ MODULE MCUpdater ------------------------------
(* Two updates towards any of three releases where no fault happens, one     *)
(* update after the other where up to three of the faults do.                *)
EXTENDS Updater, FiniteSets

CONSTANTS u1, u2

OneUpdaterWhereFaulty ==
  /\ faults # {} => pc[u2] = "idle"
  /\ Cardinality(faults) <= 3
=============================================================================
