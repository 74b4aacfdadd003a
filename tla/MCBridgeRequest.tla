---------------------------- MODULE MCBridgeRequest ----------------------------
(* A small instance of BridgeRequest: a write and a request of any operation *)
(* compete for the bridge's only thread.                                     *)
EXTENDS BridgeRequest, TLC

CONSTANTS r1, r2

MCOperationsOf == (r1 :> {"create", "update"}) @@ (r2 :> Operation)
=============================================================================
