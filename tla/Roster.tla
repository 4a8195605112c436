------------------------------- MODULE Roster -------------------------------
(***************************************************************************)
(* What p2p-ddns promises about whom a daemon knows, without messages,     *)
(* clocks, tickets or addresses.  A peer is unknown, known but not active  *)
(* (trusted, so that a sign of life brings it back), or active (its name   *)
(* resolves).  It becomes known by proving that it holds the network's     *)
(* ticket, by the word of a peer already known, or by an admin; once known *)
(* only an admin or the end of the process makes it unknown; the storage   *)
(* lags behind what is known and never knows more.                         *)
(***************************************************************************)
CONSTANTS
    Daemon,     \* the daemons
    Holders     \* those that hold the network's ticket

VARIABLES
    running,    \* daemons whose process runs
    status,     \* [Daemon -> [Daemon -> Status]]
    kept,       \* [Daemon -> SUBSET Daemon]: who is in the storage
    admitted    \* daemons an admin added somewhere

vars == <<running, status, kept, admitted>>

Status == {"unknown", "inactive", "active"}

Known(d) == {p \in Daemon \ {d} : status[d][p] # "unknown"}

\* At d, the peers in S get status s.
Mark(d, S, s) ==
    status' = [status EXCEPT ![d] = [p \in Daemon |-> IF p \in S THEN s ELSE status[d][p]]]

Init ==
    /\ running = {}
    /\ status = [d \in Daemon |-> [p \in Daemon |-> "unknown"]]
    /\ kept = [d \in Daemon |-> {}]
    /\ admitted = {}

\* The kept peers, and the one whose ticket was used, are active at once.
Boot(d) ==
    /\ d \notin running
    /\ \E invitor \in {{}} \cup {{p} : p \in Holders \ {d}} :
          status' = [status EXCEPT ![d] =
                       [p \in Daemon |-> IF p \in kept[d] \cup invitor
                                         THEN "active" ELSE "unknown"]]
    /\ running' = running \cup {d}
    /\ UNCHANGED <<kept, admitted>>

\* The process ends, having saved what it knew or not.
Halt(d) ==
    /\ d \in running
    /\ running' = running \ {d}
    /\ Mark(d, Daemon, "unknown")
    /\ kept' \in {kept, [kept EXCEPT ![d] = @ \cup Known(d)]}
    /\ UNCHANGED admitted

\* A holder proves itself.
Join(d, p) ==
    /\ d \in running /\ p \in Holders \ {d}
    /\ Mark(d, {p}, "active")
    /\ UNCHANGED <<running, kept, admitted>>

\* Someone known introduces others, or shows that it is alive.
Learn(d) ==
    /\ d \in running /\ Known(d) # {}
    /\ \E S \in SUBSET ((Holders \cup admitted) \ {d}) : Mark(d, S, "active")
    /\ UNCHANGED <<running, kept, admitted>>

\* Someone known says goodbye.
Leave(d, p) ==
    /\ d \in running /\ p \in Known(d)
    /\ Mark(d, {p}, "inactive")
    /\ UNCHANGED <<running, kept, admitted>>

\* The periodic clean-up drops active peers, and saves who is known.
Clean(d) ==
    /\ d \in running
    /\ \E S \in SUBSET {p \in Known(d) : status[d][p] = "active"} : Mark(d, S, "inactive")
    /\ kept' = [kept EXCEPT ![d] = @ \cup Known(d)]
    /\ UNCHANGED <<running, admitted>>

\* An admin vouches for p; d itself is never its own peer.
Add(d, p) ==
    /\ d \in running
    /\ admitted' = admitted \cup {p}
    /\ IF p = d THEN UNCHANGED <<status, kept>>
       ELSE /\ Mark(d, {p}, "active")
            /\ kept' = [kept EXCEPT ![d] = @ \cup {p}]
    /\ UNCHANGED running

\* An admin removes p: unknown, and gone from the storage in the same step.
Remove(d, p) ==
    /\ d \in running
    /\ Mark(d, {p}, "unknown")
    /\ kept' = [kept EXCEPT ![d] = @ \ {p}]
    /\ UNCHANGED <<running, admitted>>

Next ==
    \E d \in Daemon :
       \/ Boot(d) \/ Halt(d) \/ Learn(d) \/ Clean(d)
       \/ \E p \in Daemon : Join(d, p) \/ Leave(d, p) \/ Add(d, p) \/ Remove(d, p)

Spec == Init /\ [][Next]_vars
=============================================================================
