------------------------------ MODULE Presence ------------------------------
(***************************************************************************)
(* Who ends up in whose directory: the timers of Context::run             *)
(* (src/net/mod.rs) going on for ever, and a bounded number of faults.     *)
(* Time is counted in periods of the state_broadcast timer; in each of     *)
(* them every running daemon has its tick, in any order, and every         *)
(* SyncEvery-th of them, its Slot, its full_sync tick.  A record is the    *)
(* number of periods since its heartbeat.  What is sent over a link that   *)
(* is up arrives within the period.  All daemons hold the network's ticket and   *)
(* serve domains of their own; Membership has the messages, the clocks and *)
(* the daemons that do not.                                                *)
(***************************************************************************)
EXTENDS Naturals, FiniteSets

CONSTANTS
    Daemon, Primary,
    None,
    TTL,            \* STALE_NODE_TTL_SECS / STATE_BROADCAST_INTERVAL_SECS
    SyncEvery,      \* FULL_SYNC_INTERVAL_SECS / STATE_BROADCAST_INTERVAL_SECS
    Slot,           \* Daemon -> the period its full_sync timer fires in
    MaxFaults       \* bound: stops, pauses, cut links and lost announcements

ASSUME PresenceAssumption ==
    /\ Primary \in Daemon
    /\ None \notin Nat
    /\ TTL \in Nat \ {0} /\ SyncEvery \in Nat \ {0} /\ MaxFaults \in Nat
    /\ Slot \in [Daemon -> 0..(SyncEvery - 1)]

VARIABLES
    up,         \* daemons whose process runs
    paused,     \* Context.paused
    cut,        \* pairs of daemons without a connection
    trusted,    \* Context.trusted_nodes
    age,        \* Context.nodes: the age of each active record, or None
    saved,      \* the nodes tables
    announced,  \* Context.join_announced
    due,        \* what is still to happen in this period
    phase,      \* the number of the period, modulo SyncEvery
    faults

vars == <<up, paused, cut, trusted, age, saved, announced, due, phase, faults>>

Link == {{d, q} : d, q \in Daemon}
Old == TTL + 1      \* older than cleanup() allows

\* The state_broadcast tick of d is due, or the SyncRequest of d to q that
\* comes with d's full_sync tick or its start.
Tick(d) == <<d, d>>
Ask(d, q) == <<d, q>>

TypeOK ==
    /\ up \subseteq Daemon /\ paused \subseteq up /\ announced \subseteq up
    /\ cut \subseteq Link
    /\ trusted \in [Daemon -> SUBSET Daemon]
    /\ age \in [Daemon -> [Daemon -> 0..Old \cup {None}]]
    /\ saved \in [Daemon -> SUBSET Daemon]
    /\ due \subseteq Daemon \X Daemon
    /\ phase \in 0..(SyncEvery - 1)
    /\ faults \in 0..MaxFaults

-----------------------------------------------------------------------------
(* Who hears whom, and what that does to the directories. *)

Reach(d) == {q \in up \ {d} : {d, q} \notin cut}
Nobody == [p \in Daemon |-> None]

\* Mutant: an update stamps a record that is there, but adds none.
Heard_refreshes(d, listeners) ==
    [q \in Daemon |->
        IF q \in listeners /\ age[q][d] # None THEN [age[q] EXCEPT ![d] = 0] ELSE age[q]]

\* Each listener puts d into its directory, as of now.
Heard(d, listeners) ==
    [q \in Daemon |-> IF q \in listeners THEN [age[q] EXCEPT ![d] = 0] ELSE age[q]]

\* Daemons that take a message of d for trusted.
Trusting(d) == {q \in Reach(d) : d \in trusted[q]}

\* The filter of cleanup().
Cleaned(dir) == [p \in Daemon |-> IF dir[p] = Old THEN None ELSE dir[p]]

\* Mutant: what a directory lists is stamped with the time it arrives.
Learned_restamped(d, dir) ==
    [p \in Daemon |-> IF p # d /\ dir[p] # None THEN 0 ELSE age[d][p]]

\* Of a directory what is unknown or newer is taken, stale or not.
Learned(d, dir) ==
    [p \in Daemon |->
        IF p # d /\ dir[p] # None /\ (age[d][p] = None \/ dir[p] < age[d][p])
        THEN dir[p] ELSE age[d][p]]

\* Mutant: the answer has the sender's own record only.
Directory_self(q) == [Nobody EXCEPT ![q] = 0]

\* The SyncResponse of q: its active records and its own.
Directory(q) == [age[q] EXCEPT ![q] = 0]

-----------------------------------------------------------------------------
(* The event loop. *)

\* The state_broadcast tick: AboutMe unless paused, cleanup(), save().
StateTick(d) ==
    /\ Tick(d) \in due
    /\ due' = due \ {Tick(d)}
    /\ LET told == IF d \in paused THEN {} ELSE Trusting(d)
       IN  age' = [Heard(d, told) EXCEPT ![d] = Cleaned(@)]
    /\ saved' = [saved EXCEPT ![d] = @ \cup trusted[d]]
    /\ UNCHANGED <<up, paused, cut, trusted, announced, phase, faults>>

\* request_neighbor_sync of d, unless it is paused or not connected to q: q
\* stamps d if it trusts it and has it, and answers; d takes the directory
\* if it trusts q.
Sync(d, q) ==
    /\ d # q /\ Ask(d, q) \in due
    /\ due' = due \ {Ask(d, q)}
    /\ LET dir == Directory(q)
       IN  IF d \in paused \/ q \notin Reach(d)
           THEN UNCHANGED <<age, trusted>>
           ELSE /\ age' = [age EXCEPT ![q][d] = IF d \in trusted[q] /\ @ # None THEN 0 ELSE @,
                                      ![d] = IF q \in trusted[d] THEN Learned(d, dir) ELSE @]
                /\ trusted' = [trusted EXCEPT ![d] =
                      IF q \in @ THEN @ \cup {p \in Daemon : Learned(d, dir)[p] # age[d][p]} ELSE @]
    /\ UNCHANGED <<up, paused, cut, saved, announced, phase, faults>>

\* announce_join of d, which believes that it succeeded: every neighbour gets
\* the Invited, unless the connection breaks at that moment.
Announced(d, ages, trust, before) ==
    \E hears \in SUBSET Reach(d) :
        /\ hears = Reach(d) \/ before < MaxFaults
        /\ faults' = IF hears = Reach(d) THEN before ELSE before + 1
        /\ announced' = announced \cup {d}
        /\ age' = [q \in Daemon |-> IF q \in hears THEN [ages[q] EXCEPT ![d] = 0] ELSE ages[q]]
        /\ trusted' = [q \in Daemon |-> IF q \in hears THEN trust[q] \cup {d} ELSE trust[q]]

\* init_network: what was saved is trusted and active, as old as it may be,
\* and so is the invitor of the ticket.  The primary need not find anyone.
Boot(d) ==
    /\ d \notin up
    /\ d = Primary \/ Reach(d) # {}
    /\ up' = up \cup {d}
    /\ \E ticket \in (IF d = Primary THEN {{}}
                      ELSE IF saved[d] = {} THEN {{Primary}} ELSE {{}, {Primary}}) :
       LET known == saved[d] \cup ticket
       IN  \E loaded \in {0, Old} :
             LET ages == [age EXCEPT ![d] = [p \in Daemon |-> IF p \in known THEN loaded ELSE None]]
                 trust == [trusted EXCEPT ![d] = known]
             IN  \/ d # Primary /\ Announced(d, ages, trust, faults)
                 \/ age' = ages /\ trusted' = trust /\ UNCHANGED <<announced, faults>>
    /\ due' = due \cup {Tick(d)} \cup {Ask(d, q) : q \in Reach(d)}
    /\ UNCHANGED <<paused, cut, saved, phase>>

\* Event::NeighborUp, after an announcement that failed.
NeighborUp(d) ==
    /\ d \in up \ announced /\ d # Primary /\ Reach(d) # {}
    /\ Announced(d, age, trusted, faults)
    /\ UNCHANGED <<up, paused, cut, saved, due, phase>>

-----------------------------------------------------------------------------
(* Faults and the admin. *)

Fault == faults < MaxFaults /\ faults' = faults + 1

\* Mutant: the announcement and the requests survive the process.
Gone_leaves_requests(d) ==
    /\ up' = up \ {d}
    /\ paused' = paused \ {d}
    /\ announced' = announced
    /\ trusted' = [trusted EXCEPT ![d] = {}]
    /\ due' = due \ {Tick(d)}

\* The process of d is gone, and what it had asked or was asked with it.
Gone(d) ==
    /\ up' = up \ {d}
    /\ paused' = paused \ {d}
    /\ announced' = announced \ {d}
    /\ trusted' = [trusted EXCEPT ![d] = {}]
    /\ due' = {e \in due : d \notin {e[1], e[2]}}

\* Killed, with whatever was not saved since the last tick.
Crash(d) ==
    /\ d \in up /\ Fault /\ Gone(d)
    /\ age' = [age EXCEPT ![d] = Nobody]
    /\ UNCHANGED <<cut, saved, phase>>

\* graceful_shutdown: Left, then save().
Shutdown(d) ==
    /\ d \in up /\ Fault /\ Gone(d)
    /\ age' = [q \in Daemon |-> IF q = d THEN Nobody
                                ELSE IF q \in Trusting(d) THEN [age[q] EXCEPT ![d] = None]
                                ELSE age[q]]
    /\ saved' = [saved EXCEPT ![d] = @ \cup trusted[d]]
    /\ UNCHANGED <<cut, phase>>

Pause(d) ==
    /\ d \in up \ paused /\ Fault
    /\ paused' = paused \cup {d}
    /\ UNCHANGED <<up, cut, trusted, age, saved, announced, due, phase>>

Resume(d) ==
    /\ d \in paused
    /\ paused' = paused \ {d}
    /\ UNCHANGED <<up, cut, trusted, age, saved, announced, due, phase, faults>>

Cut(link) ==
    /\ link \notin cut /\ Fault
    /\ cut' = cut \cup {link}
    /\ UNCHANGED <<up, paused, trusted, age, saved, announced, due, phase>>

Mend(link) ==
    /\ link \in cut
    /\ cut' = cut \ {link}
    /\ UNCHANGED <<up, paused, trusted, age, saved, announced, due, phase, faults>>

-----------------------------------------------------------------------------
(* Time. *)

\* STATE_BROADCAST_INTERVAL_SECS pass, and every timer fires again.
Period ==
    /\ due = {} /\ up # {}
    /\ age' = [d \in Daemon |-> [p \in Daemon |->
                  IF age[d][p] \in {None, Old} THEN age[d][p] ELSE age[d][p] + 1]]
    /\ phase' = (phase + 1) % SyncEvery
    /\ due' = {Tick(d) : d \in up} 
               \cup {Ask(d, q) : d \in {p \in up : Slot[p] = phase'}, q \in up}
    /\ UNCHANGED <<up, paused, cut, trusted, saved, announced, faults>>

Init ==
    /\ up = {} /\ paused = {} /\ cut = {} /\ announced = {} /\ due = {}
    /\ trusted = [d \in Daemon |-> {}]
    /\ age = [d \in Daemon |-> Nobody]
    /\ saved = [d \in Daemon |-> {}]
    /\ phase = 0
    /\ faults = 0

\* What happens within a period.
Event ==
    \/ \E d \in Daemon : \/ StateTick(d) \/ Boot(d) \/ NeighborUp(d)
                         \/ Crash(d) \/ Shutdown(d) \/ Pause(d) \/ Resume(d)
    \/ \E d, q \in Daemon : d # q /\ (Sync(d, q) \/ Cut({d, q}) \/ Mend({d, q}))

Next == Event \/ Period

Spec == Init /\ [][Next]_vars

\* tokio intervals fire for ever, and a connected neighbour answers.
FairSpec ==
    /\ Spec
    /\ WF_vars(Period)
    /\ \A d \in Daemon : WF_vars(StateTick(d))
    /\ \A d, q \in Daemon : WF_vars(Sync(d, q))

-----------------------------------------------------------------------------
(* Properties; PresenceBounds has the others. *)

Connected(d, p) == {d, p} \subseteq up /\ {d, p} \notin cut

\* "Expect the primary to eventually list every daemon." (tests/docker_p2p.rs:38)
PrimaryListsAll ==
    \A d \in Daemon \ {Primary} :
        <>[](Connected(Primary, d) /\ d \notin paused) => <>[](age[Primary][d] # None)
=============================================================================
