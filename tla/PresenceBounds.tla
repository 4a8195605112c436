--------------------------- MODULE PresenceBounds ---------------------------
(***************************************************************************)
(* How soon what Presence promises comes about, counted in periods of the  *)
(* state_broadcast timer.  Three daemons are watched: a Learner that asks  *)
(* a Relay for its directory, and a Subject that the Relay hears.  History *)
(* variables count for how many periods what a promise rests on has        *)
(* lasted; they constrain nothing.                                         *)
(***************************************************************************)
EXTENDS Presence

CONSTANTS Subject, Relay, Learner

ASSUME BoundAssumption ==
    /\ {Subject, Relay, Learner} \subseteq Daemon
    /\ Subject # Relay /\ Relay # Learner /\ Learner # Subject

VARIABLES
    hearing,    \* the periods the Relay has been hearing the Subject
    asking,     \* the periods the Learner has been able to ask the Relay
    dead        \* the periods without the Subject and without a start

boundVars == <<vars, hearing, asking, dead>>

-----------------------------------------------------------------------------
(* What lasts. *)

\* d is sent what p broadcasts, and takes it.
Hears(d, p) == Connected(d, p) /\ p \notin paused /\ p \in trusted[d]

\* d asks q when it synchronises, and takes the answer.
Asks(d, q) == Connected(d, q) /\ d \notin paused /\ q \in trusted[d]

\* After so many periods the Relay has the Subject, the Learner trusts it, and
\* a Subject that is gone is forgotten.
LearnedBy == SyncEvery + 2
ForgottenBy == Old + SyncEvery

\* What has lasted n periods has lasted n + 1 after the next; more than limit
\* is not counted, and what ends is counted from 0 again.
Counted(n, lasts, periods, limit) ==
    IF ~lasts THEN 0 ELSE IF n + periods <= limit THEN n + periods ELSE limit

Count(periods) ==
    /\ hearing' = Counted(hearing, Hears(Relay, Subject)', periods, LearnedBy)
    /\ asking' = Counted(asking, Asks(Learner, Relay)', periods, LearnedBy - 1)
    /\ dead' = Counted(dead, Subject \notin up' /\ up' \subseteq up, periods, ForgottenBy)

BoundInit == Init /\ hearing = 0 /\ asking = 0 /\ dead = 0

BoundNext ==
    \/ Event /\ Count(0)
    \/ Period /\ Count(1)

BoundSpec == BoundInit /\ [][BoundNext]_boundVars

-----------------------------------------------------------------------------
(* Properties. *)

\* A daemon that was paused, cut off or restarted is active again at every
\* daemon that trusts it: two periods after it can be heard there, its record is
\* there and no older than a period, whatever cleanup() and the directories of
\* others did to it.  Trust is all an AboutMe needs, dropped record or not.
ReappearsInTime == hearing >= 2 => age[Relay][Subject] \in {0, 1}

\* Who trusts a daemon comes to trust whom that one trusts: a full_sync
\* interval later everyone who can ask that one trusts the daemon too.  One full
\* sync makes up for an announcement that did not arrive.
TrustSpreadsInTime ==
    hearing >= LearnedBy /\ asking >= LearnedBy - 1 => Subject \in trusted[Learner]

\* A daemon that does not come back is forgotten by all the others, although
\* they keep handing each other their directories and take stale records: it is
\* in none once its record is stale and another full_sync interval has passed,
\* given one period in that interval in which no other daemon's full_sync fires,
\* and that nobody starts meanwhile.
Vacant(s) == \A d \in Daemon \ {Subject} : Slot[d] # s

DeadForgottenInTime ==
    (\E s \in 0..(SyncEvery - 1) : Vacant(s)) /\ dead >= ForgottenBy
        => \A d \in Daemon : age[d][Subject] = None

-----------------------------------------------------------------------------
(* The inductive invariant, in parts. *)

\* The periods since the one numbered s.
Since(s) == IF phase >= s THEN phase - s ELSE phase - s + SyncEvery

CountersOK ==
    /\ hearing \in 0..LearnedBy /\ asking \in 0..(LearnedBy - 1) /\ dead \in 0..ForgottenBy
    /\ hearing > 0 => Hears(Relay, Subject)
    /\ asking > 0 => Asks(Learner, Relay)
    /\ dead > 0 => Subject \notin up

\* What is due, and what is remembered, is of running daemons only; who is
\* active is trusted.
RunningOnly ==
    /\ due \subseteq up \X up
    /\ \A d \in Daemon \ up : age[d] = Nobody
    /\ \A d, p \in Daemon : age[d][p] # None => p \in trusted[d]

\* The Subject's tick is what puts its record back.
Refreshed == hearing >= 1 /\ Tick(Subject) \notin due => age[Relay][Subject] = 0

\* The Learner's last full_sync found the Subject with the Relay.
Synced ==
    hearing >= 2 + Since(Slot[Learner]) /\ asking >= 1 + Since(Slot[Learner])
    /\ Ask(Learner, Relay) \notin due
        => Subject \in trusted[Learner]

\* Once the Subject is gone its records only grow older, and nobody asks
\* except in its own slot.
Ageing ==
    dead >= 1 =>
        /\ \A e \in due : e[1] = e[2] \/ Slot[e[1]] = phase
        /\ \A d \in Daemon : age[d][Subject] # None => age[d][Subject] >= dead \/ age[d][Subject] = Old

\* In a vacant period every tick drops a stale record for good.
Dropped ==
    \A s \in 0..(SyncEvery - 1) : Vacant(s) /\ dead >= Old + Since(s) =>
        \A d \in Daemon : (Since(s) = 0 => Tick(d) \notin due) => age[d][Subject] = None

BoundInv ==
    /\ TypeOK /\ CountersOK /\ RunningOnly
    /\ Refreshed /\ ReappearsInTime
    /\ Synced /\ TrustSpreadsInTime
    /\ Ageing /\ Dropped /\ DeadForgottenInTime
=============================================================================
