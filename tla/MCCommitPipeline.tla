-------------------------- MODULE MCCommitPipeline --------------------------
(* Small instances of CommitPipeline for TLC. *)
EXTENDS CommitPipeline
=============================================================================
