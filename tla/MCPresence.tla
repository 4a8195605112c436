----------------------------- MODULE MCPresence -----------------------------
(* An instance of Presence for TLC. *)
EXTENDS Presence

CONSTANTS a, b, c

Slots == [d \in Daemon |-> CASE d = a -> 0 [] d = b -> 1 [] d = c -> 2]
=============================================================================
