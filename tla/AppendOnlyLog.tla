--------------------------- MODULE AppendOnlyLog ---------------------------
(***************************************************************************)
(* What one transaction log promises to the rest of the node: operations   *)
(* are committed under growing identifiers, nothing committed is ever      *)
(* lost, and the operations take effect on the tables one at a time in the *)
(* order of their identifiers, each of them exactly once, whatever         *)
(* restarts happen in between.                                             *)
(***************************************************************************)
EXTENDS Naturals

CONSTANT Id     \* the identifiers, a set of natural numbers

VARIABLES
    log,    \* identifiers of the committed operations
    data    \* identifiers of the operations whose effect is in the tables

lvars == <<log, data>>

LogInit == log = {} /\ data = {}

Append == \E id \in Id :
            /\ \A j \in log : j < id
            /\ log' = log \cup {id}
            /\ data' = data

TakeEffect == \E id \in log \ data :
                /\ \A j \in log : j < id => j \in data
                /\ data' = data \cup {id}
                /\ log' = log

LogNext == Append \/ TakeEffect

LogSpec == LogInit /\ [][LogNext]_lvars
=============================================================================
