-------------------------- MODULE MCPresenceBounds --------------------------
(* An instance of PresenceBounds, and so of Presence, for TLC. *)
EXTENDS PresenceBounds

CONSTANTS a, b, c

\* The full synchronisations follow each other, which keeps old records going
\* longest.
Slots == [d \in Daemon |-> CASE d = a -> 0 [] d = b -> 1 [] d = c -> 2]
=============================================================================
