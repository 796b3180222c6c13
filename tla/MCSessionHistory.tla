-------------------------- MODULE MCSessionHistory --------------------------
(* SessionHistory with thresholds of a few messages, for TLC. *)
EXTENDS SessionHistory
=============================================================================
