------------------------------ MODULE MCTrLog ------------------------------
(* A small instance of TrLog for TLC. *)
EXTENDS TrLog
=============================================================================
