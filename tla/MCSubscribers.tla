--------------------------- MODULE MCSubscribers ---------------------------
(* Small instances of Subscribers for TLC. *)
EXTENDS Subscribers
=============================================================================
