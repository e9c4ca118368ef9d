---------------------------- MODULE MCBridgeLoop ----------------------------
(***************************************************************************)
(* BridgeLoop where libdbus stops reading as soon as a message waits.      *)
(***************************************************************************)
EXTENDS BridgeLoop

MCFull == (SUBSET Kinds) \ {{}}

=============================================================================
