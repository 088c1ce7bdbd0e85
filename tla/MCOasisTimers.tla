---------------------------- MODULE MCOasisTimers ----------------------------
(* OasisTimers for TLC: the constants come from the configurations.        *)
EXTENDS OasisTimers
=============================================================================
