---------------------------- MODULE MCBridgeCall ----------------------------
(***************************************************************************)
(* BridgeCall on one application tool, with a call to it and a call to a    *)
(* built-in: calls meet only through the tool, the capability set and the   *)
(* agent, so one of each kind meets everything a call can meet.             *)
(***************************************************************************)
EXTENDS BridgeCall
=============================================================================
