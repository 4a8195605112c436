-------------------------- MODULE MembershipRoster --------------------------
(* Membership implements Roster: its maps, read as statuses. *)
EXTENDS Membership

statusOf(d, p) ==
    IF p = d THEN "unknown"
    ELSE IF nodes[d][p] # None THEN "active"
    ELSE IF trusted[d][p] # None THEN "inactive"
    ELSE "unknown"

R == INSTANCE Roster WITH
        running <- up,
        status  <- [d \in Daemon |-> [p \in Daemon |-> statusOf(d, p)]],
        kept    <- [d \in Daemon |-> {p \in Daemon \ {d} : stored[d][p] # None}]

\* Every step of the protocol is, on the statuses, one that Roster allows or
\* none: no handler, however late or out of order its message, makes a peer
\* known without proof or introduction, or unknown without an admin, and the
\* storage is brought up to date by every cleanup.
ImplementsRoster == R!Spec
=============================================================================
