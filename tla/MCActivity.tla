----------------------------- MODULE MCActivity ----------------------------
(* Instances of ActivityHistory for TLC. *)
EXTENDS ActivityHistory
============================================================================
