---------------------------- MODULE MCMembership ----------------------------
(* Instances of Membership for TLC. *)
EXTENDS MembershipRoster

CONSTANTS a, b, c, i1, i2

\* Every daemon serves a domain of its own.
OwnDomains == [d \in Daemon |-> d]
\* b and c claim the same domain.
SharedDomain == [d \in Daemon |-> IF d = c THEN b ELSE d]

SameClock == [d \in Daemon |-> 0]
\* The clock of c is one second ahead.
AheadClock == [d \in Daemon |-> IF d = c THEN 1 ELSE 0]
=============================================================================
