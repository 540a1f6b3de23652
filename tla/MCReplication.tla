--------------------------- MODULE MCReplication ---------------------------
(* Instances of Replication for TLC. *)
EXTENDS Replication

CONSTANTS h1, h2

MCHandlers == {h1, h2}

(* Two threads on a connection that lasts, with a failure; one thread on a *)
(* connection that is lost once.                                           *)
MCScenarios == {[threads |-> {h1, h2}, breaks |-> 0, faults |-> 1],
                [threads |-> {h1}, breaks |-> 1, faults |-> 0]}

MCConnected == {[threads |-> {h1, h2}, breaks |-> 0, faults |-> 0]}
=============================================================================
