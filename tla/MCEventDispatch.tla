--------------------------- MODULE MCEventDispatch ---------------------------
(* EventDispatch for TLC: the constants come from the configurations.      *)
EXTENDS EventDispatch
=============================================================================
