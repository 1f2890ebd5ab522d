---------------------------- MODULE MCBarPipeline ----------------------------
(* Instances of BarPipeline for TLC. *)
EXTENDS BarPipeline
=============================================================================
