---------------------------- MODULE MCCommitter ----------------------------
(* A small instance of Committer for TLC. *)
EXTENDS Committer
=============================================================================
