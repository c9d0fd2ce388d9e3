----------------------------- MODULE MCProgress ----------------------------
(* Instances of HolderProgress for TLC. *)
EXTENDS HolderProgress, MCValues
============================================================================
