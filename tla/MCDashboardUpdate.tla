--------------------------- MODULE MCDashboardUpdate ---------------------------
(* Two workers, which may overlap or follow each other, and three releases.   *)
(* The workers are alike, and releases are only compared: it is enough that   *)
(* one worker installs release 2, and the other 2 or 3, in either order.      *)
EXTENDS DashboardUpdate

CONSTANTS w1, w2

LowerRelease == target[w1] # 3
================================================================================
