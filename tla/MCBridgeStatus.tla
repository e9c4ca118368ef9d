--------------------------- MODULE MCBridgeStatus ---------------------------
(***************************************************************************)
(* BridgeStatus with one status text besides the one it looks for, and a   *)
(* platform that may refuse one of the four calls of a write.              *)
(***************************************************************************)
EXTENDS BridgeStatus, TLC

MCRefusable == {<<BRIDGE_RPC, "ConnectionStatus">>}

=============================================================================
