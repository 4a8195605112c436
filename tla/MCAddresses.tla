----------------------------- MODULE MCAddresses ------------------------------
(* An instance of MembershipAddresses for TLC: addresses of two bits, of which *)
(* the endpoints have a few.                                                  *)
EXTENDS MembershipAddresses

CONSTANTS a, b

OwnDomains == [d \in Daemon |-> d]
SameClock == [d \in Daemon |-> 0]

Widths == [f \in Family |-> 2]
LocalOnly == {[family |-> "v4", bits |-> 0]}
\* A loopback address, one more of v4 and two of v6 that share no prefix.
Addresses == LocalOnly \cup {[family |-> "v4", bits |-> 1],
                             [family |-> "v6", bits |-> 0], [family |-> "v6", bits |-> 3]}
=============================================================================
