--------------------------- MODULE MCFramePipeline ---------------------------
(* FramePipeline for TLC: the constants come from the configurations.      *)
EXTENDS FramePipeline
=============================================================================
