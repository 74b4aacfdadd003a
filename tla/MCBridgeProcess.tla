---------------------------- MODULE MCBridgeProcess ----------------------------
(* A gateway and a dashboard's session of one installation, and a gateway of *)
(* another installation that was given the same port.                        *)
EXTENDS BridgeProcess, TLC

CONSTANTS g1, g2, g3, t1, t2

MCTokenOf == (g1 :> t1) @@ (g2 :> t1) @@ (g3 :> t2)

================================================================================
