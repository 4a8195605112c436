--------------------------- MODULE PresenceProofs ---------------------------
(***************************************************************************)
(* Proofs about Presence and about how soon what it promises comes about,  *)
(* for every set of daemons, every TTL, interval and slots.                *)
(***************************************************************************)
EXTENDS PresenceBounds, TLAPS

-----------------------------------------------------------------------------
(* The operators on directories. *)

Age == 0..Old \cup {None}
Directories == [Daemon -> Age]

LEMMA OldNat == Old \in Nat /\ Old >= 2 /\ None \notin 0..Old /\ 0 \in Age /\ None \in Age /\ Old \in Age
  BY PresenceAssumption DEF Old, Age

LEMMA NobodyType == Nobody \in Directories
  BY OldNat DEF Nobody, Directories

LEMMA HeardType ==
    ASSUME age \in [Daemon -> Directories], NEW d \in Daemon, NEW listeners
    PROVE  Heard(d, listeners) \in [Daemon -> Directories]
  BY OldNat DEF Heard, Directories

LEMMA CleanedType ==
    ASSUME NEW dir \in Directories
    PROVE  Cleaned(dir) \in Directories
  BY OldNat DEF Cleaned, Directories

LEMMA LearnedType ==
    ASSUME age \in [Daemon -> Directories], NEW d \in Daemon, NEW dir \in Directories
    PROVE  Learned(d, dir) \in Directories
  BY OldNat DEF Learned, Directories

LEMMA DirectoryType ==
    ASSUME age \in [Daemon -> Directories], NEW q \in Daemon
    PROVE  Directory(q) \in Directories
  BY OldNat DEF Directory, Directories

\* The number of the period goes round.
LEMMA NextPhase ==
    ASSUME phase \in 0..(SyncEvery - 1)
    PROVE  (phase + 1) % SyncEvery = IF phase = SyncEvery - 1 THEN 0 ELSE phase + 1
<1>1. SyncEvery \in Nat \ {0} /\ phase \in Nat
  BY PresenceAssumption
<1>2. CASE phase = SyncEvery - 1
  BY <1>1, <1>2
<1>3. CASE phase # SyncEvery - 1
  BY <1>1, <1>3
<1> QED
  BY <1>2, <1>3

-----------------------------------------------------------------------------
(* Type correctness. *)

LEMMA TypeInit == Init => TypeOK
<1> SUFFICES ASSUME Init PROVE TypeOK
  OBVIOUS
<1>1. phase \in 0..(SyncEvery - 1) /\ faults \in 0..MaxFaults
  BY PresenceAssumption DEF Init
<1>2. age \in [Daemon -> Directories]
  BY NobodyType DEF Init
<1> QED
  BY <1>1, <1>2 DEF Init, TypeOK, Directories, Age

\* What a step leaves of the type invariant to be shown.
LEMMA TypeFrom ==
    ASSUME TypeOK,
           up' \subseteq Daemon, paused' \subseteq up', announced' \subseteq up',
           cut' \subseteq Link,
           trusted' \in [Daemon -> SUBSET Daemon],
           age' \in [Daemon -> Directories],
           saved' \in [Daemon -> SUBSET Daemon],
           due' \subseteq Daemon \X Daemon,
           phase' \in 0..(SyncEvery - 1),
           faults' \in 0..MaxFaults
    PROVE  TypeOK'
  BY DEF TypeOK, Directories, Age, Old

LEMMA TypeParts ==
    ASSUME TypeOK
    PROVE  /\ up \subseteq Daemon /\ paused \subseteq up /\ announced \subseteq up
           /\ cut \subseteq Link
           /\ trusted \in [Daemon -> SUBSET Daemon]
           /\ age \in [Daemon -> Directories]
           /\ saved \in [Daemon -> SUBSET Daemon]
           /\ due \subseteq Daemon \X Daemon
           /\ phase \in 0..(SyncEvery - 1)
           /\ faults \in 0..MaxFaults
  BY DEF TypeOK, Directories, Age, Old

LEMMA AnnouncedType ==
    ASSUME NEW d \in Daemon, NEW ages \in [Daemon -> Directories],
           NEW trust \in [Daemon -> SUBSET Daemon], NEW before \in 0..MaxFaults,
           Announced(d, ages, trust, before)
    PROVE  /\ faults' \in 0..MaxFaults
           /\ announced' = announced \cup {d}
           /\ age' \in [Daemon -> Directories]
           /\ trusted' \in [Daemon -> SUBSET Daemon]
<1>1. PICK hears \in SUBSET Reach(d) :
        /\ hears = Reach(d) \/ before < MaxFaults
        /\ faults' = IF hears = Reach(d) THEN before ELSE before + 1
        /\ announced' = announced \cup {d}
        /\ age' = [q \in Daemon |-> IF q \in hears THEN [ages[q] EXCEPT ![d] = 0] ELSE ages[q]]
        /\ trusted' = [q \in Daemon |-> IF q \in hears THEN trust[q] \cup {d} ELSE trust[q]]
  BY DEF Announced
<1>2. faults' \in 0..MaxFaults
  BY <1>1, PresenceAssumption
<1>3. age' \in [Daemon -> Directories]
  BY <1>1, OldNat DEF Directories
<1>4. trusted' \in [Daemon -> SUBSET Daemon]
  BY <1>1
<1> QED
  BY <1>1, <1>2, <1>3, <1>4

LEMMA EventType ==
    ASSUME TypeOK, Event
    PROVE  TypeOK'
<1> USE TypeParts
<1>1. ASSUME NEW d \in Daemon, StateTick(d) PROVE TypeOK'
  <2> DEFINE told == IF d \in paused THEN {} ELSE Trusting(d)
  <2>1. age' = [Heard(d, told) EXCEPT ![d] = Cleaned(@)]
    BY <1>1 DEF StateTick
  <2> HIDE DEF told
  <2>2. Heard(d, told) \in [Daemon -> Directories]
    BY HeardType
  <2>3. Cleaned(Heard(d, told)[d]) \in Directories
    BY <2>2, CleanedType
  <2>4. age' \in [Daemon -> Directories]
    BY <2>1, <2>2, <2>3
  <2>5. saved' \in [Daemon -> SUBSET Daemon]
    BY <1>1 DEF StateTick
  <2>6. due' \subseteq Daemon \X Daemon
    BY <1>1 DEF StateTick
  <2> QED
    BY <1>1, <2>4, <2>5, <2>6, TypeFrom DEF StateTick
<1>2. ASSUME NEW d \in Daemon, Boot(d) PROVE TypeOK'
  <2>1. PICK ticket \in (IF d = Primary THEN {{}}
                      ELSE IF saved[d] = {} THEN {{Primary}} ELSE {{}, {Primary}}),
             loaded \in {0, Old} :
           LET known == saved[d] \cup ticket
               ages == [age EXCEPT ![d] = [p \in Daemon |-> IF p \in known THEN loaded ELSE None]]
               trust == [trusted EXCEPT ![d] = known]
           IN  \/ d # Primary /\ Announced(d, ages, trust, faults)
               \/ age' = ages /\ trusted' = trust /\ UNCHANGED <<announced, faults>>
    BY <1>2 DEF Boot
  <2> DEFINE known == saved[d] \cup ticket
             ages == [age EXCEPT ![d] = [p \in Daemon |-> IF p \in known THEN loaded ELSE None]]
             trust == [trusted EXCEPT ![d] = known]
  <2>2. known \subseteq Daemon
    BY PresenceAssumption
  <2>3. [p \in Daemon |-> IF p \in known THEN loaded ELSE None] \in Directories
    BY OldNat DEF Directories
  <2>4. ages \in [Daemon -> Directories]
    BY <2>3
  <2>5. trust \in [Daemon -> SUBSET Daemon]
    BY <2>2
  <2>6. \/ Announced(d, ages, trust, faults)
        \/ age' = ages /\ trusted' = trust /\ UNCHANGED <<announced, faults>>
    BY <2>1
  <2> HIDE DEF ages, trust
  <2>7. /\ faults' \in 0..MaxFaults
        /\ announced' \subseteq announced \cup {d}
        /\ age' \in [Daemon -> Directories]
        /\ trusted' \in [Daemon -> SUBSET Daemon]
    BY <2>4, <2>5, <2>6, AnnouncedType
  <2>8. due' \subseteq Daemon \X Daemon
    <3>1. Reach(d) \subseteq Daemon
      BY DEF Reach
    <3> QED
      BY <1>2, <3>1 DEF Boot, Tick, Ask
  <2> QED
    BY <1>2, <2>7, <2>8, TypeFrom DEF Boot
<1>3. ASSUME NEW d \in Daemon, NeighborUp(d) PROVE TypeOK'
  BY <1>3, AnnouncedType, TypeFrom DEF NeighborUp
<1>4. ASSUME NEW d \in Daemon, Fault PROVE faults' \in 0..MaxFaults
  BY <1>4, PresenceAssumption DEF Fault
<1>5. ASSUME NEW d \in Daemon, Gone(d)
      PROVE  /\ up' \subseteq Daemon /\ paused' \subseteq up' /\ announced' \subseteq up'
             /\ trusted' \in [Daemon -> SUBSET Daemon]
             /\ due' \subseteq Daemon \X Daemon
  BY <1>5 DEF Gone
<1>6. ASSUME NEW d \in Daemon, Crash(d) PROVE TypeOK'
  <2>1. age' \in [Daemon -> Directories]
    BY <1>6, NobodyType DEF Crash
  <2> QED
    BY <1>6, <1>4, <1>5, <2>1, TypeFrom DEF Crash
<1>7. ASSUME NEW d \in Daemon, Shutdown(d) PROVE TypeOK'
  <2>1. age' \in [Daemon -> Directories]
    BY <1>7, NobodyType, OldNat DEF Shutdown, Directories
  <2>2. saved' \in [Daemon -> SUBSET Daemon]
    BY <1>7 DEF Shutdown
  <2> QED
    BY <1>7, <1>4, <1>5, <2>1, <2>2, TypeFrom DEF Shutdown
<1>8. ASSUME NEW d \in Daemon, Pause(d) \/ Resume(d) PROVE TypeOK'
  <2>1. faults' \in 0..MaxFaults /\ paused' \subseteq up'
    BY <1>8, <1>4 DEF Pause, Resume
  <2> QED
    BY <1>8, <2>1, TypeFrom DEF Pause, Resume
<1>9. ASSUME NEW d \in Daemon, NEW q \in Daemon, d # q, Sync(d, q) PROVE TypeOK'
  <2>1. CASE d \in paused \/ q \notin Reach(d)
    <3>1. due' \subseteq Daemon \X Daemon
      BY <1>9 DEF Sync
    <3> QED
      BY <1>9, <2>1, <3>1, TypeFrom DEF Sync
  <2>2. CASE ~(d \in paused \/ q \notin Reach(d))
    <3> DEFINE dir == Directory(q)
               heard == IF d \in trusted[q] /\ age[q][d] # None THEN 0 ELSE age[q][d]
               learned == IF q \in trusted[d] THEN Learned(d, dir) ELSE age[d]
               new == {p \in Daemon : Learned(d, dir)[p] # age[d][p]}
    <3>1. Learned(d, dir) \in Directories
      BY DirectoryType, LearnedType
    <3>2. heard \in Age
      BY OldNat DEF Directories
    <3>3. [age[q] EXCEPT ![d] = heard] \in Directories
      BY <3>2 DEF Directories
    <3>4. learned \in Directories
      BY <3>1
    <3>5. age' = [age EXCEPT ![q] = [age[q] EXCEPT ![d] = heard], ![d] = learned]
      BY <1>9, <2>2 DEF Sync
    <3>6. trusted' = [trusted EXCEPT ![d] = IF q \in @ THEN @ \cup new ELSE @]
      BY <1>9, <2>2 DEF Sync
    <3> HIDE DEF heard, learned, dir
    <3>7. age' \in [Daemon -> Directories]
      BY <3>3, <3>4, <3>5
    <3>8. trusted' \in [Daemon -> SUBSET Daemon]
      BY <3>6
    <3>9. due' \subseteq Daemon \X Daemon
      BY <1>9 DEF Sync
    <3> QED
      BY <1>9, <3>7, <3>8, <3>9, TypeFrom DEF Sync
  <2> QED
    BY <2>1, <2>2
<1>10. ASSUME NEW d \in Daemon, NEW q \in Daemon, Cut({d, q}) \/ Mend({d, q}) PROVE TypeOK'
  <2>1. cut' \subseteq Link
    BY <1>10 DEF Cut, Mend, Link
  <2>2. faults' \in 0..MaxFaults
    BY <1>10, <1>4 DEF Cut, Mend
  <2> QED
    BY <1>10, <2>1, <2>2, TypeFrom DEF Cut, Mend
<1> QED
  BY <1>1, <1>2, <1>3, <1>6, <1>7, <1>8, <1>9, <1>10 DEF Event

LEMMA PeriodType ==
    ASSUME TypeOK, Period
    PROVE  TypeOK'
<1> USE TypeParts
<1>1. phase' \in 0..(SyncEvery - 1)
  BY NextPhase, PresenceAssumption DEF Period
<1>2. age' \in [Daemon -> Directories]
  <2> DEFINE older(d, p) == IF age[d][p] \in {None, Old} THEN age[d][p] ELSE age[d][p] + 1
  <2>1. ASSUME NEW d \in Daemon, NEW p \in Daemon PROVE older(d, p) \in Age
    <3>1. age[d][p] \in Age
      BY DEF Directories
    <3> QED
      BY <3>1, OldNat DEF Age
  <2>2. age' = [d \in Daemon |-> [p \in Daemon |-> older(d, p)]]
    BY DEF Period
  <2> QED
    BY <2>1, <2>2 DEF Directories
<1>3. due' \subseteq Daemon \X Daemon
  BY DEF Period, Tick, Ask
<1> QED
  BY <1>1, <1>2, <1>3, TypeFrom DEF Period

LEMMA TypeStep ==
    ASSUME TypeOK, [Next]_vars
    PROVE  TypeOK'
<1>1. CASE UNCHANGED vars
  BY <1>1 DEF TypeOK, vars, Old
<1> QED
  BY <1>1, EventType, PeriodType DEF Next

\* Who is paused or has announced itself runs, what is due is between daemons,
\* and no record is older than cleanup() tells apart: of every reachable state.
THEOREM TypeCorrect == Spec => []TypeOK
<1>1. TypeOK /\ [Next]_vars => TypeOK'
  BY TypeStep
<1> QED
  BY TypeInit, <1>1, PTL DEF Spec

-----------------------------------------------------------------------------
(* What any step within a period does to a directory, to what is due and to *)
(* who is trusted.  The bounds are shown from this alone.                   *)

\* The record of p with d: kept, stamped by p itself, gone, taken from
\* another's directory, or that of a daemon that has just started.
AgeStep(d, p) ==
    \/ age'[d][p] = age[d][p]
    \/ age'[d][p] = 0 /\ p \in up'
    \/ age'[d][p] = None /\ (age[d][p] = Old \/ d \notin up' \/ p \notin up')
    \/ \E q \in up \ {d} :
          /\ Ask(d, q) \in due
          /\ age[q][p] # None /\ age'[d][p] = age[q][p]
          /\ age[d][p] # None => age[q][p] < age[d][p]
    \/ d \in up' \ up

\* The tick of d that was due has happened.
TickStep(d) ==
    /\ \A q \in Daemon \ {d} : Hears(q, d) => age'[q][d] = 0
    /\ \A p \in Daemon : age[d][p] = Old => age'[d][p] = None

\* The request of d to q that was due has been made.
AskStep(d, q) ==
    Asks(d, q) => \A p \in Daemon \ {d} : age[q][p] # None => p \in trusted'[d]

WithinPeriod ==
    /\ phase' = phase
    /\ \A d, p \in Daemon : AgeStep(d, p)
    /\ up' \subseteq up => due' \subseteq due
    /\ \A d \in up \cap up' : trusted[d] \subseteq trusted'[d]
    /\ \A d \in up' : Tick(d) \in due \ due' => TickStep(d)
    /\ \A d, q \in up' : d # q /\ Ask(d, q) \in due \ due' => AskStep(d, q)

LEMMA ReachUp ==
    ASSUME NEW d \in Daemon
    PROVE  Reach(d) \subseteq up \ {d} /\ Trusting(d) \subseteq up \ {d}
  BY DEF Reach, Trusting

LEMMA RunningParts ==
    ASSUME RunningOnly
    PROVE  /\ due \subseteq up \X up
           /\ \A d \in Daemon \ up : \A p \in Daemon : age[d][p] = None
           /\ \A d, p \in Daemon : age[d][p] # None => p \in trusted[d]
  BY DEF RunningOnly, Nobody

\* The entries of the directory that d takes from q.
LEMMA TakenEntry ==
    ASSUME age \in [Daemon -> Directories], NEW d \in Daemon, NEW q \in Daemon, NEW p \in Daemon
    PROVE  LET dir == Directory(q)
           IN  /\ dir[p] = IF p = q THEN 0 ELSE age[q][p]
               /\ Learned(d, dir)[p] = IF p # d /\ dir[p] # None /\ (age[d][p] = None \/ dir[p] < age[d][p])
                                       THEN dir[p] ELSE age[d][p]
  BY DEF Directory, Learned, Directories

\* The two things a full synchronisation does.
LEMMA SyncEffect ==
    ASSUME TypeOK, RunningOnly, NEW d \in Daemon, NEW q \in Daemon, d # q, Sync(d, q)
    PROVE  /\ \A e, p \in Daemon : AgeStep(e, p)
           /\ \A e \in Daemon : trusted[e] \subseteq trusted'[e]
           /\ AskStep(d, q)
           /\ \A e, p \in Daemon : age'[e][p] # None => p \in trusted'[e]
           /\ \A e \in Daemon \ up : age'[e] = age[e]
<1> USE TypeParts, RunningParts
<1>0. d \in up /\ q \in up /\ Ask(d, q) \in due
  BY DEF Sync, Ask
<1>1. CASE d \in paused \/ q \notin Reach(d)
  <2>1. ~Asks(d, q)
    BY <1>1, <1>0 DEF Asks, Connected, Reach
  <2>2. UNCHANGED <<age, trusted>>
    BY <1>1 DEF Sync
  <2> QED
    BY <2>1, <2>2 DEF AskStep, AgeStep
<1>2. CASE ~(d \in paused \/ q \notin Reach(d))
  <2> DEFINE dir == Directory(q)
             heard == IF d \in trusted[q] /\ age[q][d] # None THEN 0 ELSE age[q][d]
             learned == IF q \in trusted[d] THEN Learned(d, dir) ELSE age[d]
             new == {p \in Daemon : Learned(d, dir)[p] # age[d][p]}
  <2>1. age' = [age EXCEPT ![q] = [age[q] EXCEPT ![d] = heard], ![d] = learned]
    BY <1>2 DEF Sync
  <2>2. trusted' = [trusted EXCEPT ![d] = IF q \in @ THEN @ \cup new ELSE @]
    BY <1>2 DEF Sync
  <2>3. \A p \in Daemon : /\ dir[p] = IF p = q THEN 0 ELSE age[q][p]
                          /\ Learned(d, dir)[p] = IF p # d /\ dir[p] # None /\ (age[d][p] = None \/ dir[p] < age[d][p])
                                       THEN dir[p] ELSE age[d][p]
    BY TakenEntry
  <2> HIDE DEF dir
  <2>4. age'[d] = learned /\ \A e \in Daemon \ {d, q} : age'[e] = age[e]
    BY <2>1
  <2>5. /\ age'[q][d] = heard
        /\ \A p \in Daemon \ {d} : age'[q][p] = age[q][p]
    <3>1. age'[q] = [age[q] EXCEPT ![d] = heard]
      BY <2>1
    <3>2. age[q] \in Directories
      OBVIOUS
    <3> HIDE DEF heard
    <3> QED
      BY <3>1, <3>2 DEF Directories
  <2>6. \A p \in Daemon : learned[p] = IF q \in trusted[d] THEN Learned(d, dir)[p] ELSE age[d][p]
    OBVIOUS
  <2> HIDE DEF learned
  <2>7. \A e \in Daemon : trusted[e] \subseteq trusted'[e]
    BY <2>2
  <2>8. q \in trusted[d] => \A p \in Daemon : Learned(d, dir)[p] # age[d][p] => p \in trusted'[d]
    BY <2>2
  <2> HIDE DEF new
  <2>9. ASSUME NEW p \in Daemon PROVE AgeStep(d, p)
    <3>1. CASE learned[p] = age[d][p]
      BY <3>1, <2>4 DEF AgeStep
    <3>2. CASE learned[p] # age[d][p]
      <4>1. /\ p # d /\ dir[p] # None /\ (age[d][p] # None => dir[p] < age[d][p])
            /\ age'[d][p] = dir[p]
        BY <3>2, <2>3, <2>4, <2>6
      <4>2. CASE p = q
        <5>1. age'[d][p] = 0 /\ p \in up'
          BY <4>1, <4>2, <2>3, <1>0 DEF Sync
        <5> QED
          BY <5>1 DEF AgeStep
      <4>3. CASE p # q
        <5>1. dir[p] = age[q][p]
          BY <4>3, <2>3
        <5>2. q \in up \ {d}
          BY <1>0
        <5> QED
          BY <4>1, <5>1, <5>2, <1>0 DEF AgeStep
      <4> QED
        BY <4>2, <4>3
    <3> QED
      BY <3>1, <3>2
  <2>10. ASSUME NEW p \in Daemon PROVE AgeStep(q, p)
    BY <2>5, <1>0 DEF AgeStep, Sync
  <2>11. \A e, p \in Daemon : AgeStep(e, p)
    <3>1. \A e \in Daemon \ {d, q} : \A p \in Daemon : AgeStep(e, p)
      BY <2>4 DEF AgeStep
    <3> QED
      BY <3>1, <2>9, <2>10
  <2>12. AskStep(d, q)
    <3> SUFFICES ASSUME Asks(d, q), NEW p \in Daemon \ {d}, age[q][p] # None
                 PROVE  p \in trusted'[d]
      BY DEF AskStep
    <3>1. q \in trusted[d]
      BY DEF Asks
    <3>2. CASE p = q
      BY <3>1, <3>2, <2>7
    <3>3. CASE p # q
      BY <3>1, <3>3, <2>3, <2>7, <2>8
    <3> QED
      BY <3>2, <3>3
  <2>13. ASSUME NEW e \in Daemon, NEW p \in Daemon, age'[e][p] # None PROVE p \in trusted'[e]
    <3>1. CASE age[e][p] # None
      BY <3>1, <2>7
    <3>2. CASE age[e][p] = None
      <4>1. e # q
        BY <3>2, <2>5, <2>13
      <4>2. e = d /\ q \in trusted[d] /\ Learned(d, dir)[p] # age[d][p]
        BY <4>1, <3>2, <2>4, <2>6, <2>13
      <4> QED
        BY <4>2, <2>8
    <3> QED
      BY <3>1, <3>2
  <2>14. \A e \in Daemon \ up : age'[e] = age[e]
    BY <2>4, <1>0
  <2> QED
    BY <2>7, <2>11, <2>12, <2>13, <2>14
<1> QED
  BY <1>1, <1>2

\* Whoever hears the Invited of d has its record, as of now, and trusts it.
LEMMA AnnouncedEffect ==
    ASSUME NEW d \in Daemon, NEW ages \in [Daemon -> Directories],
           NEW trust \in [Daemon -> SUBSET Daemon], NEW before,
           Announced(d, ages, trust, before)
    PROVE  \A q \in Daemon :
              /\ age'[q] = ages[q] \/ q \in Reach(d)
              /\ \A p \in Daemon : age'[q][p] = ages[q][p] \/ (p = d /\ age'[q][p] = 0)
              /\ trust[q] \subseteq trusted'[q]
              /\ \A p \in Daemon : age'[q][p] # ages[q][p] => p \in trusted'[q]
<1>1. PICK hears \in SUBSET Reach(d) :
        /\ age' = [q \in Daemon |-> IF q \in hears THEN [ages[q] EXCEPT ![d] = 0] ELSE ages[q]]
        /\ trusted' = [q \in Daemon |-> IF q \in hears THEN trust[q] \cup {d} ELSE trust[q]]
  BY DEF Announced
<1> SUFFICES ASSUME NEW q \in Daemon
             PROVE  /\ age'[q] = ages[q] \/ q \in Reach(d)
                    /\ \A p \in Daemon : age'[q][p] = ages[q][p] \/ (p = d /\ age'[q][p] = 0)
                    /\ trust[q] \subseteq trusted'[q]
                    /\ \A p \in Daemon : age'[q][p] # ages[q][p] => p \in trusted'[q]
  OBVIOUS
<1>2. CASE q \in hears
  <2>1. age'[q] = [ages[q] EXCEPT ![d] = 0] /\ trusted'[q] = trust[q] \cup {d}
    BY <1>1, <1>2
  <2>2. ages[q] \in Directories
    OBVIOUS
  <2> QED
    BY <1>2, <2>1, <2>2 DEF Directories
<1>3. CASE q \notin hears
  BY <1>1, <1>3
<1> QED
  BY <1>2, <1>3

LEMMA TickEffect ==
    ASSUME TypeOK, RunningOnly, NEW d \in Daemon, StateTick(d)
    PROVE  WithinPeriod /\ RunningOnly'
<1> USE TypeParts, RunningParts
<1> DEFINE told == IF d \in paused THEN {} ELSE Trusting(d)
<1>1. age' = [Heard(d, told) EXCEPT ![d] = Cleaned(@)]
  BY DEF StateTick
<1>2. /\ d \in up /\ due' = due \ {Tick(d)} /\ up' = up /\ trusted' = trusted /\ phase' = phase
      /\ told \subseteq up \ {d} /\ told \subseteq Trusting(d)
  BY ReachUp DEF StateTick, Tick
<1>3. \A q \in Daemon \ {d} : d \in trusted[q] /\ q \in Reach(d) /\ d \notin paused => q \in told
  BY DEF Trusting
<1> HIDE DEF told
<1>4. \A q, p \in Daemon : Heard(d, told)[q][p] = IF q \in told /\ p = d THEN 0 ELSE age[q][p]
  BY DEF Heard, Directories
<1>5. Heard(d, told) \in [Daemon -> Directories]
  BY HeardType
<1>6. \A p \in Daemon : age'[d][p] = IF age[d][p] = Old THEN None ELSE age[d][p]
  <2>1. age'[d] = Cleaned(Heard(d, told)[d])
    BY <1>1, <1>5
  <2> QED
    BY <2>1, <1>2, <1>4 DEF Cleaned
<1>7. \A q \in Daemon \ {d} : \A p \in Daemon : age'[q][p] = IF q \in told /\ p = d THEN 0 ELSE age[q][p]
  BY <1>1, <1>4, <1>5
<1>8. \A q, p \in Daemon : AgeStep(q, p)
  <2>1. \A p \in Daemon : AgeStep(d, p)
    BY <1>6 DEF AgeStep
  <2>2. \A q \in Daemon \ {d} : \A p \in Daemon : AgeStep(q, p)
    BY <1>2, <1>7 DEF AgeStep
  <2> QED
    BY <2>1, <2>2
<1>9. TickStep(d)
  <2>1. ASSUME NEW q \in Daemon \ {d}, Hears(q, d) PROVE age'[q][d] = 0
    <3>1. q \in told
      BY <1>3, <2>1 DEF Hears, Connected, Reach
    <3> QED
      BY <3>1, <1>7
  <2> QED
    BY <2>1, <1>6 DEF TickStep
<1>10. WithinPeriod
  <2>1. \A e, q \in Daemon : e # q => Ask(e, q) # Tick(d)
    BY DEF Ask, Tick
  <2>2. \A e \in Daemon : e # d => Tick(e) # Tick(d)
    BY DEF Tick
  <2> QED
    BY <1>2, <1>8, <1>9, <2>1, <2>2 DEF WithinPeriod
<1>11. RunningOnly'
  <2>1. \A q \in Daemon \ up : age'[q] = Nobody
    <3>1. \A q \in Daemon \ up : age'[q] = age[q]
      BY <1>1, <1>2 DEF Heard
    <3> QED
      BY <3>1 DEF RunningOnly
  <2>2. \A q, p \in Daemon : age'[q][p] # None => p \in trusted'[q]
    <3>1. \A p \in Daemon : age'[d][p] # None => p \in trusted'[d]
      BY <1>2, <1>6
    <3>2. \A q \in Daemon \ {d} : \A p \in Daemon : age'[q][p] # None => p \in trusted'[q]
      BY <1>2, <1>7 DEF Trusting
    <3> QED
      BY <3>1, <3>2
  <2> QED
    BY <1>2, <2>1, <2>2 DEF RunningOnly, Nobody
<1> QED
  BY <1>10, <1>11

LEMMA BootEffect ==
    ASSUME TypeOK, RunningOnly, NEW d \in Daemon, Boot(d)
    PROVE  WithinPeriod /\ RunningOnly'
<1> USE TypeParts, RunningParts
<1>1. PICK ticket \in (IF d = Primary THEN {{}}
                      ELSE IF saved[d] = {} THEN {{Primary}} ELSE {{}, {Primary}}),
           loaded \in {0, Old} :
         LET known == saved[d] \cup ticket
             ages == [age EXCEPT ![d] = [p \in Daemon |-> IF p \in known THEN loaded ELSE None]]
             trust == [trusted EXCEPT ![d] = known]
         IN  \/ d # Primary /\ Announced(d, ages, trust, faults)
             \/ age' = ages /\ trusted' = trust /\ UNCHANGED <<announced, faults>>
  BY DEF Boot
<1> DEFINE known == saved[d] \cup ticket
           ages == [age EXCEPT ![d] = [p \in Daemon |-> IF p \in known THEN loaded ELSE None]]
           trust == [trusted EXCEPT ![d] = known]
<1>2. known \subseteq Daemon
  BY PresenceAssumption
<1>3. ages \in [Daemon -> Directories]
  <2>1. [p \in Daemon |-> IF p \in known THEN loaded ELSE None] \in Directories
    BY OldNat DEF Directories
  <2> QED
    BY <2>1
<1>4. trust \in [Daemon -> SUBSET Daemon]
  BY <1>2
<1>5. \/ Announced(d, ages, trust, faults)
      \/ age' = ages /\ trusted' = trust
  BY <1>1
<1>6. /\ \A q \in Daemon \ {d} : ages[q] = age[q] /\ trust[q] = trusted[q]
      /\ \A p \in Daemon : ages[d][p] # None => p \in trust[d]
  OBVIOUS
<1> HIDE DEF ages, trust
<1>7. \A q \in Daemon :
         /\ age'[q] = ages[q] \/ q \in up \ {d}
         /\ \A p \in Daemon : age'[q][p] = ages[q][p] \/ (p = d /\ age'[q][p] = 0)
         /\ trust[q] \subseteq trusted'[q]
         /\ \A p \in Daemon : age'[q][p] # ages[q][p] => p \in trusted'[q]
  BY <1>3, <1>4, <1>5, AnnouncedEffect, ReachUp
<1>8. d \notin up /\ up' = up \cup {d} /\ phase' = phase /\ due \subseteq due' /\ ~(up' \subseteq up)
  BY DEF Boot
<1>9. \A q, p \in Daemon : AgeStep(q, p)
  <2>1. \A p \in Daemon : AgeStep(d, p)
    BY <1>8 DEF AgeStep
  <2>2. \A q \in Daemon \ {d} : \A p \in Daemon : AgeStep(q, p)
    BY <1>6, <1>7, <1>8 DEF AgeStep
  <2> QED
    BY <2>1, <2>2
<1>10. \A q \in up : trusted[q] \subseteq trusted'[q]
  BY <1>6, <1>7, <1>8
<1>11. WithinPeriod
  BY <1>8, <1>9, <1>10 DEF WithinPeriod
<1>12. due' \subseteq up' \X up'
  BY <1>8, ReachUp DEF Boot, Tick, Ask
<1>13. \A q \in Daemon \ up' : age'[q] = Nobody
  BY <1>6, <1>7, <1>8 DEF RunningOnly
<1>14. \A q, p \in Daemon : age'[q][p] # None => p \in trusted'[q]
  <2> SUFFICES ASSUME NEW q \in Daemon, NEW p \in Daemon, age'[q][p] # None
               PROVE  p \in trusted'[q]
    OBVIOUS
  <2>1. CASE age'[q][p] # ages[q][p]
    BY <2>1, <1>7
  <2>2. CASE age'[q][p] = ages[q][p]
    <3>1. p \in trust[q]
      BY <2>2, <1>6
    <3> QED
      BY <3>1, <1>7
  <2> QED
    BY <2>1, <2>2
<1> QED
  BY <1>11, <1>12, <1>13, <1>14 DEF RunningOnly, Nobody

LEMMA NeighborUpEffect ==
    ASSUME TypeOK, RunningOnly, NEW d \in Daemon, NeighborUp(d)
    PROVE  WithinPeriod /\ RunningOnly'
<1> USE TypeParts, RunningParts
<1>1. \A q \in Daemon :
         /\ age'[q] = age[q] \/ q \in up \ {d}
         /\ \A p \in Daemon : age'[q][p] = age[q][p] \/ (p = d /\ age'[q][p] = 0)
         /\ trusted[q] \subseteq trusted'[q]
         /\ \A p \in Daemon : age'[q][p] # age[q][p] => p \in trusted'[q]
  BY AnnouncedEffect, ReachUp DEF NeighborUp
<1>2. d \in up /\ up' = up /\ due' = due /\ phase' = phase
  BY DEF NeighborUp
<1>3. \A q, p \in Daemon : AgeStep(q, p)
  BY <1>1, <1>2 DEF AgeStep
<1>4. WithinPeriod
  BY <1>1, <1>2, <1>3 DEF WithinPeriod
<1>5. \A q, p \in Daemon : age'[q][p] # None => p \in trusted'[q]
  BY <1>1
<1>6. \A q \in Daemon \ up' : age'[q] = Nobody
  BY <1>1, <1>2 DEF RunningOnly
<1> QED
  BY <1>2, <1>4, <1>5, <1>6 DEF RunningOnly, Nobody

LEMMA StopEffect ==
    ASSUME TypeOK, RunningOnly, NEW d \in Daemon, Crash(d) \/ Shutdown(d)
    PROVE  WithinPeriod /\ RunningOnly'
<1> USE TypeParts, RunningParts
<1>1. /\ up' = up \ {d} /\ phase' = phase
      /\ trusted' = [trusted EXCEPT ![d] = {}]
      /\ due' = {e \in due : d \notin {e[1], e[2]}}
  BY DEF Crash, Shutdown, Gone
<1>2. /\ age'[d] = Nobody
      /\ \A q \in Daemon \ {d} : /\ age'[q] = age[q] \/ q \in up
                                 /\ \A p \in Daemon : age'[q][p] = age[q][p] \/ (p = d /\ age'[q][p] = None)
  <2>1. CASE Crash(d)
    BY <2>1, NobodyType DEF Crash
  <2>2. CASE Shutdown(d)
    <3>1. age' = [q \in Daemon |-> IF q = d THEN Nobody
                                ELSE IF q \in Trusting(d) THEN [age[q] EXCEPT ![d] = None]
                                ELSE age[q]]
      BY <2>2 DEF Shutdown
    <3>2. \A q \in Daemon : age[q] \in Directories
      OBVIOUS
    <3> QED
      BY <3>1, <3>2, ReachUp DEF Directories
  <2> QED
    BY <2>1, <2>2
<1>3. \A q, p \in Daemon : AgeStep(q, p)
  BY <1>1, <1>2 DEF AgeStep, Nobody
<1>4. WithinPeriod
  <2>1. \A e, q \in up' : Ask(e, q) \in due => Ask(e, q) \in due'
    BY <1>1 DEF Ask
  <2>2. \A e \in up' : Tick(e) \in due => Tick(e) \in due'
    BY <1>1 DEF Tick
  <2> QED
    BY <1>1, <1>3, <2>1, <2>2 DEF WithinPeriod
<1>5. due' \subseteq up' \X up'
  BY <1>1
<1>6. \A q \in Daemon \ up' : age'[q] = Nobody
  BY <1>1, <1>2 DEF RunningOnly
<1>7. \A q, p \in Daemon : age'[q][p] # None => p \in trusted'[q]
  BY <1>1, <1>2 DEF Nobody
<1> QED
  BY <1>4, <1>5, <1>6, <1>7 DEF RunningOnly, Nobody

LEMMA EventEffect ==
    ASSUME TypeOK, RunningOnly, Event
    PROVE  WithinPeriod /\ RunningOnly'
<1>1. ASSUME NEW d \in Daemon, NEW q \in Daemon, d # q, Sync(d, q)
      PROVE  WithinPeriod /\ RunningOnly'
  <2>1. /\ \A e, p \in Daemon : AgeStep(e, p)
        /\ \A e \in Daemon : trusted[e] \subseteq trusted'[e]
        /\ AskStep(d, q)
        /\ \A e, p \in Daemon : age'[e][p] # None => p \in trusted'[e]
        /\ \A e \in Daemon \ up : age'[e] = age[e]
    BY <1>1, SyncEffect
  <2>2. up' = up /\ phase' = phase /\ due' = due \ {Ask(d, q)} /\ up \subseteq Daemon
    BY <1>1, TypeParts DEF Sync
  <2>3. /\ \A e \in Daemon : Tick(e) # Ask(d, q)
        /\ \A e, r \in Daemon : Ask(e, r) = Ask(d, q) => e = d /\ r = q
    BY <1>1 DEF Tick, Ask
  <2>4. WithinPeriod
    BY <2>1, <2>2, <2>3 DEF WithinPeriod
  <2>5. RunningOnly'
    BY <2>1, <2>2 DEF RunningOnly, Nobody
  <2> QED
    BY <2>4, <2>5
<1>2. ASSUME UNCHANGED <<up, trusted, age, due, phase>>
      PROVE  WithinPeriod /\ RunningOnly'
  BY <1>2 DEF WithinPeriod, AgeStep, RunningOnly, Nobody
<1>3. ASSUME NEW d \in Daemon, NEW link, \/ Pause(d) \/ Resume(d) \/ Cut(link) \/ Mend(link)
      PROVE  WithinPeriod /\ RunningOnly'
  BY <1>2, <1>3 DEF Pause, Resume, Cut, Mend
<1> QED
  BY <1>1, <1>3, TickEffect, BootEffect, NeighborUpEffect, StopEffect DEF Event

-----------------------------------------------------------------------------
(* The counters. *)

LEMMA BoundNats == /\ ForgottenBy \in Nat /\ LearnedBy \in Nat /\ SyncEvery \in Nat \ {0}
                   /\ LearnedBy = SyncEvery + 2 /\ ForgottenBy = Old + SyncEvery
                   /\ Slot[Learner] \in 0..(SyncEvery - 1)
  BY PresenceAssumption, BoundAssumption, OldNat DEF ForgottenBy, LearnedBy

LEMMA CountedFacts ==
    ASSUME NEW limit \in Nat, NEW n \in 0..limit, NEW lasts \in BOOLEAN, NEW periods \in {0, 1}
    PROVE  /\ Counted(n, lasts, periods, limit) \in 0..limit
           /\ Counted(n, lasts, periods, limit) <= n + periods
           /\ Counted(n, lasts, periods, limit) > 0 => lasts
           /\ periods = 0 => Counted(n, lasts, periods, limit) \in {0, n}
  BY DEF Counted

\* A counter stands still or goes back to 0 within a period, and grows by no
\* more than 1 from one period to the next; while it is not 0, what it counts
\* holds.
LEMMA CountFacts ==
    ASSUME CountersOK, NEW periods \in {0, 1}, Count(periods)
    PROVE  /\ hearing' \in 0..LearnedBy /\ asking' \in 0..(LearnedBy - 1) /\ dead' \in 0..ForgottenBy
           /\ hearing' <= hearing + periods /\ asking' <= asking + periods /\ dead' <= dead + periods
           /\ hearing' > 0 => Hears(Relay, Subject)'
           /\ asking' > 0 => Asks(Learner, Relay)'
           /\ dead' > 0 => Subject \notin up' /\ up' \subseteq up
           /\ periods = 0 => /\ hearing' \in {0, hearing}
                             /\ asking' \in {0, asking}
                             /\ dead' \in {0, dead}
<1>1. hearing' \in 0..LearnedBy /\ hearing' <= hearing + periods
      /\ (hearing' > 0 => Hears(Relay, Subject)') /\ (periods = 0 => hearing' \in {0, hearing})
  <2>1. Hears(Relay, Subject)' \in BOOLEAN /\ hearing \in 0..LearnedBy
    BY DEF Hears, Connected, CountersOK
  <2> QED
    BY <2>1, BoundNats, CountedFacts DEF Count
<1>2. asking' \in 0..(LearnedBy - 1) /\ asking' <= asking + periods
      /\ (asking' > 0 => Asks(Learner, Relay)') /\ (periods = 0 => asking' \in {0, asking})
  <2>1. Asks(Learner, Relay)' \in BOOLEAN /\ asking \in 0..(LearnedBy - 1) /\ LearnedBy - 1 \in Nat
    BY BoundNats DEF Asks, Connected, CountersOK
  <2> QED
    BY <2>1, CountedFacts DEF Count
<1>3. dead' \in 0..ForgottenBy /\ dead' <= dead + periods
      /\ (dead' > 0 => Subject \notin up' /\ up' \subseteq up) /\ (periods = 0 => dead' \in {0, dead})
  <2>1. (Subject \notin up' /\ up' \subseteq up) \in BOOLEAN /\ dead \in 0..ForgottenBy
    BY DEF CountersOK
  <2> QED
    BY <2>1, BoundNats, CountedFacts DEF Count
<1> QED
  BY <1>1, <1>2, <1>3

LEMMA CountersStep ==
    ASSUME CountersOK, NEW periods \in {0, 1}, Count(periods)
    PROVE  CountersOK'
  BY CountFacts, BoundNats DEF CountersOK

\* The periods since the one numbered s are one more in the next period, or
\* that one is numbered s again.
LEMMA SinceStep ==
    ASSUME TypeOK, Period, NEW s \in 0..(SyncEvery - 1)
    PROVE  /\ Since(s) \in 0..(SyncEvery - 1)
           /\ \/ Since(s)' = Since(s) + 1
              \/ Since(s)' = 0 /\ Since(s) = SyncEvery - 1
           /\ Since(s)' = 0 <=> phase' = s
<1>1. phase \in 0..(SyncEvery - 1) /\ SyncEvery \in Nat \ {0}
  BY TypeParts, PresenceAssumption
<1>2. phase' = IF phase = SyncEvery - 1 THEN 0 ELSE phase + 1
  BY <1>1, NextPhase DEF Period
<1> QED
  BY <1>1, <1>2 DEF Since

LEMMA SinceNat ==
    ASSUME TypeOK, NEW s \in 0..(SyncEvery - 1)
    PROVE  Since(s) \in 0..(SyncEvery - 1) /\ (Since(s) = 0 <=> phase = s)
<1>1. phase \in 0..(SyncEvery - 1) /\ SyncEvery \in Nat \ {0}
  BY TypeParts, PresenceAssumption
<1> QED
  BY <1>1 DEF Since

\* What the next period makes of the records and of what is due.
LEMMA PeriodEffect ==
    ASSUME TypeOK, Period
    PROVE  /\ due = {} /\ UNCHANGED <<up, paused, cut, trusted>>
           /\ \A d, p \in Daemon :
                 age'[d][p] = IF age[d][p] \in {None, Old} THEN age[d][p] ELSE age[d][p] + 1
           /\ due' = {Tick(d) : d \in up}
                       \cup {Ask(d, q) : d \in {p \in up : Slot[p] = phase'}, q \in up}
  BY DEF Period

LEMMA RunningInit == Init => RunningOnly
  BY DEF Init, RunningOnly, Nobody

LEMMA RunningPeriod ==
    ASSUME TypeOK, RunningOnly, Period
    PROVE  RunningOnly'
<1> USE TypeParts, PeriodEffect
<1>1. due' \subseteq up' \X up'
  BY DEF Tick, Ask
<1>2. \A d \in Daemon \ up' : age'[d] = Nobody
  <2>1. \A d \in Daemon \ up : \A p \in Daemon : age'[d][p] = None
    BY RunningParts
  <2>2. \A d \in Daemon : age'[d] \in Directories
    BY PeriodType, TypeParts DEF TypeOK, Directories, Age, Old
  <2> QED
    BY <2>1, <2>2 DEF Nobody, Directories
<1>3. \A d, p \in Daemon : age'[d][p] # None => p \in trusted'[d]
  BY RunningParts, OldNat
<1> QED
  BY <1>1, <1>2, <1>3 DEF RunningOnly, Nobody

-----------------------------------------------------------------------------
(* A daemon that is heard. *)

LEMMA HeardEvent ==
    ASSUME TypeOK, RunningOnly, CountersOK, Refreshed, ReappearsInTime, Event, Count(0)
    PROVE  Refreshed' /\ ReappearsInTime'
<1> USE BoundAssumption
<1>1. WithinPeriod
  BY EventEffect
<1>2. SUFFICES ASSUME hearing' >= 1 PROVE Refreshed' /\ ReappearsInTime'
  BY CountFacts DEF Refreshed, ReappearsInTime
<1>3. hearing' = hearing /\ Hears(Relay, Subject) /\ Hears(Relay, Subject)'
  BY <1>2, CountFacts DEF CountersOK
<1>4. {Relay, Subject} \subseteq up \cap up'
  BY <1>3 DEF Hears, Connected
<1>5. AgeStep(Relay, Subject)
  BY <1>1 DEF WithinPeriod
<1>6. ASSUME age[Relay][Subject] \in {0, 1}
      PROVE  age'[Relay][Subject] \in {0, age[Relay][Subject]}
  <2>1. age[Relay][Subject] # Old /\ age[Relay][Subject] # None
    BY <1>6, OldNat
  <2>2. ASSUME NEW q \in up, age[q][Subject] # None, age[q][Subject] < age[Relay][Subject]
        PROVE  age[q][Subject] = 0
    <3>1. age[q][Subject] \in Age
      BY TypeParts DEF Directories
    <3>2. age[q][Subject] \in Nat
      BY <3>1, <2>2 DEF Age
    <3> QED
      BY <1>6, <2>2, <3>2
  <2> QED
    BY <1>4, <1>5, <2>1, <2>2 DEF AgeStep
<1>7. ReappearsInTime'
  BY <1>3, <1>6 DEF ReappearsInTime
<1>8. Refreshed'
  <2>1. SUFFICES ASSUME Tick(Subject) \notin due' PROVE age'[Relay][Subject] = 0
    BY DEF Refreshed
  <2>2. CASE Tick(Subject) \in due
    <3>1. TickStep(Subject)
      BY <1>1, <1>4, <2>1, <2>2 DEF WithinPeriod
    <3> QED
      BY <1>3, <3>1 DEF TickStep
  <2>3. CASE Tick(Subject) \notin due
    BY <1>2, <1>3, <1>6, <2>3 DEF Refreshed
  <2> QED
    BY <2>2, <2>3
<1> QED
  BY <1>7, <1>8

LEMMA HeardPeriod ==
    ASSUME TypeOK, RunningOnly, CountersOK, Refreshed, Period, Count(1)
    PROVE  Refreshed' /\ ReappearsInTime'
<1> USE BoundAssumption
<1>1. SUFFICES ASSUME hearing' >= 1 PROVE Refreshed' /\ ReappearsInTime'
  BY CountFacts DEF Refreshed, ReappearsInTime
<1>2. Refreshed'
  <2>1. Subject \in up
    BY <1>1, CountFacts, PeriodEffect DEF Hears, Connected
  <2>2. Tick(Subject) \in due'
    BY <2>1, PeriodEffect
  <2> QED
    BY <2>2 DEF Refreshed
<1>3. ReappearsInTime'
  <2>1. SUFFICES ASSUME hearing' >= 2 PROVE age'[Relay][Subject] \in {0, 1}
    BY DEF ReappearsInTime
  <2>2. hearing >= 1
    BY <2>1, CountFacts DEF CountersOK
  <2>3. age[Relay][Subject] = 0
    BY <2>2, PeriodEffect DEF Refreshed
  <2> QED
    BY <2>3, PeriodEffect, OldNat
<1> QED
  BY <1>2, <1>3

-----------------------------------------------------------------------------
(* Trust that spreads. *)

LEMMA SyncedEvent ==
    ASSUME TypeOK, RunningOnly, CountersOK, ReappearsInTime, Synced, TrustSpreadsInTime,
           Event, Count(0)
    PROVE  Synced' /\ TrustSpreadsInTime'
<1> USE BoundAssumption
<1> DEFINE s == Since(Slot[Learner])
<1>1. WithinPeriod
  BY EventEffect
<1>2. s' = s /\ s \in Nat
  BY <1>1, SinceNat, BoundNats DEF WithinPeriod, Since
<1> HIDE DEF s
<1>3. ASSUME hearing' >= 2, asking' >= 1
      PROVE  /\ hearing' = hearing /\ asking' = asking
             /\ Asks(Learner, Relay)
             /\ {Relay, Learner} \subseteq up \cap up'
             /\ trusted[Learner] \subseteq trusted'[Learner]
  <2>1. hearing' = hearing /\ asking' = asking /\ Asks(Learner, Relay) /\ Asks(Learner, Relay)'
    BY <1>3, CountFacts DEF CountersOK
  <2>2. {Relay, Learner} \subseteq up \cap up'
    BY <2>1 DEF Asks, Connected
  <2> QED
    BY <1>1, <2>1, <2>2 DEF WithinPeriod
<1>4. TrustSpreadsInTime'
  <2>1. SUFFICES ASSUME hearing' >= LearnedBy, asking' >= LearnedBy - 1
                 PROVE  Subject \in trusted'[Learner]
    BY DEF TrustSpreadsInTime
  <2>2. hearing' >= 2 /\ asking' >= 1
    BY <2>1, BoundNats, CountFacts
  <2> QED
    BY <1>3, <2>1, <2>2 DEF TrustSpreadsInTime
<1>5. Synced'
  <2>1. SUFFICES ASSUME hearing' >= 2 + s', asking' >= 1 + s', Ask(Learner, Relay) \notin due'
                 PROVE  Subject \in trusted'[Learner]
    BY DEF Synced, s
  <2>2. hearing' >= 2 /\ asking' >= 1
    BY <1>2, <2>1, BoundNats, CountFacts
  <2>3. CASE Ask(Learner, Relay) \notin due
    BY <1>2, <1>3, <2>1, <2>2, <2>3 DEF Synced, s
  <2>4. CASE Ask(Learner, Relay) \in due
    <3>1. AskStep(Learner, Relay)
      BY <1>1, <1>3, <2>1, <2>2, <2>4 DEF WithinPeriod
    <3>2. age[Relay][Subject] # None
      BY <1>3, <2>2, OldNat DEF ReappearsInTime
    <3> QED
      BY <1>3, <2>2, <3>1, <3>2 DEF AskStep
  <2> QED
    BY <2>3, <2>4
<1> QED
  BY <1>4, <1>5

LEMMA SyncedPeriod ==
    ASSUME TypeOK, RunningOnly, CountersOK, Synced, TrustSpreadsInTime, Period, Count(1)
    PROVE  Synced' /\ TrustSpreadsInTime'
<1> USE BoundAssumption
<1> DEFINE s == Since(Slot[Learner])
<1>1. /\ s \in 0..(SyncEvery - 1)
      /\ s' = s + 1 \/ (s' = 0 /\ s = SyncEvery - 1)
      /\ s' = 0 <=> phase' = Slot[Learner]
  BY SinceStep, BoundNats
<1> HIDE DEF s
<1>2. /\ hearing \in Nat /\ asking \in Nat /\ hearing' \in Nat /\ asking' \in Nat
      /\ hearing' <= hearing + 1 /\ asking' <= asking + 1
      /\ hearing' <= LearnedBy /\ asking' <= LearnedBy - 1
  BY CountFacts, BoundNats DEF CountersOK
<1>3. trusted'[Learner] = trusted[Learner] /\ due = {}
  BY PeriodEffect
<1>4. hearing >= 2 + s /\ asking >= 1 + s => Subject \in trusted[Learner]
  BY <1>3 DEF Synced, s
<1>5. TrustSpreadsInTime'
  <2>1. SUFFICES ASSUME hearing' >= LearnedBy, asking' >= LearnedBy - 1
                 PROVE  Subject \in trusted'[Learner]
    BY DEF TrustSpreadsInTime
  <2>2. hearing >= 2 + s /\ asking >= 1 + s
    BY <1>1, <1>2, <2>1, BoundNats
  <2> QED
    BY <1>3, <1>4, <2>2
<1>6. Synced'
  <2>1. SUFFICES ASSUME hearing' >= 2 + s', asking' >= 1 + s', Ask(Learner, Relay) \notin due'
                 PROVE  Subject \in trusted'[Learner]
    BY DEF Synced, s
  <2>2. s' # 0
    <3>1. SUFFICES ASSUME s' = 0 PROVE FALSE
      OBVIOUS
    <3>2. asking' > 0
      BY <1>2, <2>1, <3>1
    <3>3. Learner \in up /\ Relay \in up
      BY <3>2, CountFacts, PeriodEffect DEF Asks, Connected
    <3>4. Ask(Learner, Relay) \in due'
      BY <1>1, <3>1, <3>3, PeriodEffect
    <3> QED
      BY <2>1, <3>4
  <2>3. hearing >= 2 + s /\ asking >= 1 + s
    BY <1>1, <1>2, <2>1, <2>2
  <2> QED
    BY <1>3, <1>4, <2>3
<1> QED
  BY <1>5, <1>6

-----------------------------------------------------------------------------
(* A daemon that is gone. *)

LEMMA RecordOf ==
    ASSUME TypeOK, NEW d \in Daemon, NEW p \in Daemon
    PROVE  age[d][p] \in 0..Old \cup {None}
  BY TypeParts DEF Directories, Age

\* While the Subject is gone, nobody stamps its record: what another's
\* directory has of it is all a daemon can take, and only in its own slot.
LEMMA GoneEvent ==
    ASSUME TypeOK, RunningOnly, CountersOK, Ageing, Event, Count(0), dead' >= 1,
           NEW d \in Daemon
    PROVE  /\ dead' = dead /\ due' \subseteq due /\ phase' = phase
           /\ \/ age'[d][Subject] = age[d][Subject]
              \/ age'[d][Subject] = None
              \/ \E q \in up \ {d} :
                    /\ Ask(d, q) \in due /\ d \in up /\ d # Subject /\ Slot[d] = phase
                    /\ age[q][Subject] # None /\ age'[d][Subject] = age[q][Subject]
           /\ d \in up' /\ Tick(d) \in due \ due' /\ age[d][Subject] = Old
                 => age'[d][Subject] = None
           /\ d \notin up' => age'[d][Subject] = None
<1> USE BoundAssumption
<1>1. WithinPeriod /\ RunningOnly'
  BY EventEffect
<1>2. dead' = dead /\ Subject \notin up' /\ up' \subseteq up /\ Subject \notin up
  BY CountFacts DEF CountersOK
<1>3. due' \subseteq due /\ phase' = phase /\ AgeStep(d, Subject)
  BY <1>1, <1>2 DEF WithinPeriod
<1>4. ASSUME NEW q \in up \ {d}, Ask(d, q) \in due
      PROVE  d \in up /\ d # Subject /\ Slot[d] = phase
  <2>1. d \in up
    BY <1>4, RunningParts DEF Ask
  <2>2. Ask(d, q)[1] = d /\ Ask(d, q)[2] = q
    BY DEF Ask
  <2> QED
    BY <1>2, <1>4, <2>1, <2>2 DEF Ageing
<1>5. \/ age'[d][Subject] = age[d][Subject]
      \/ age'[d][Subject] = None
      \/ \E q \in up \ {d} :
            /\ Ask(d, q) \in due /\ d \in up /\ d # Subject /\ Slot[d] = phase
            /\ age[q][Subject] # None /\ age'[d][Subject] = age[q][Subject]
  BY <1>2, <1>3, <1>4 DEF AgeStep
<1>6. d \in up' /\ Tick(d) \in due \ due' /\ age[d][Subject] = Old => age'[d][Subject] = None
  BY <1>1 DEF WithinPeriod, TickStep
<1>7. d \notin up' => age'[d][Subject] = None
  BY <1>1 DEF RunningOnly, Nobody
<1> QED
  BY <1>2, <1>3, <1>5, <1>6, <1>7

LEMMA AgeingEvent ==
    ASSUME TypeOK, RunningOnly, CountersOK, Ageing, Event, Count(0)
    PROVE  Ageing'
<1> USE BoundAssumption
<1>1. SUFFICES ASSUME dead' >= 1
               PROVE  /\ \A e \in due' : e[1] = e[2] \/ Slot[e[1]] = phase'
                      /\ \A d \in Daemon : age'[d][Subject] # None
                            => age'[d][Subject] >= dead' \/ age'[d][Subject] = Old
  BY DEF Ageing
<1>2. dead' = dead /\ due' \subseteq due /\ phase' = phase
  BY <1>1, GoneEvent
<1>3. \A e \in due' : e[1] = e[2] \/ Slot[e[1]] = phase'
  BY <1>1, <1>2 DEF Ageing
<1>4. \A q \in Daemon : age[q][Subject] # None => age[q][Subject] >= dead \/ age[q][Subject] = Old
  BY <1>1, <1>2 DEF Ageing
<1>5. up \subseteq Daemon
  BY TypeParts
<1>6. ASSUME NEW d \in Daemon, age'[d][Subject] # None
      PROVE  age'[d][Subject] >= dead' \/ age'[d][Subject] = Old
  BY <1>1, <1>2, <1>4, <1>5, <1>6, GoneEvent
<1> QED
  BY <1>3, <1>6

LEMMA AgeingPeriod ==
    ASSUME TypeOK, RunningOnly, CountersOK, Ageing, Period, Count(1)
    PROVE  Ageing'
<1> USE BoundAssumption
<1>1. SUFFICES ASSUME dead' >= 1
               PROVE  /\ \A e \in due' : e[1] = e[2] \/ Slot[e[1]] = phase'
                      /\ \A d \in Daemon : age'[d][Subject] # None
                            => age'[d][Subject] >= dead' \/ age'[d][Subject] = Old
  BY DEF Ageing
<1>2. ASSUME NEW e \in due' PROVE e[1] = e[2] \/ Slot[e[1]] = phase'
  BY PeriodEffect DEF Tick, Ask
<1>3. dead \in Nat /\ dead' \in Nat /\ dead' <= dead + 1
  BY CountFacts, BoundNats DEF CountersOK
<1>4. ASSUME NEW d \in Daemon, age'[d][Subject] # None
      PROVE  age'[d][Subject] >= dead' \/ age'[d][Subject] = Old
  <2>1. age'[d][Subject] = IF age[d][Subject] \in {None, Old} THEN age[d][Subject]
                           ELSE age[d][Subject] + 1
    BY PeriodEffect
  <2>2. CASE age[d][Subject] \in {None, Old}
    BY <1>4, <2>1, <2>2
  <2>3. CASE age[d][Subject] \notin {None, Old}
    <3>1. age[d][Subject] \in Nat
      BY <2>3, RecordOf, OldNat
    <3>2. age[d][Subject] >= dead
      <4>1. CASE dead = 0
        BY <3>1, <4>1
      <4>2. CASE dead # 0
        BY <1>3, <2>3, <4>2 DEF Ageing
      <4> QED
        BY <4>1, <4>2
    <3>3. age'[d][Subject] = age[d][Subject] + 1
      BY <2>1, <2>3
    <3> QED
      BY <1>3, <3>1, <3>2, <3>3
  <2> QED
    BY <2>2, <2>3
<1> QED
  BY <1>2, <1>4

LEMMA DroppedEvent ==
    ASSUME TypeOK, RunningOnly, CountersOK, Ageing, Dropped, DeadForgottenInTime,
           Event, Count(0)
    PROVE  Dropped' /\ DeadForgottenInTime'
<1> USE BoundAssumption
<1>1. up \subseteq Daemon /\ due \subseteq up \X up
  BY TypeParts, RunningParts
<1>2. Dropped'
  <2> SUFFICES ASSUME NEW s \in 0..(SyncEvery - 1), Vacant(s), dead' >= Old + Since(s)',
                      NEW d \in Daemon, Since(s)' = 0 => Tick(d) \notin due'
               PROVE  age'[d][Subject] = None
    BY DEF Dropped, Vacant
  <2>1. Since(s)' = Since(s) /\ Since(s) \in Nat /\ (Since(s) = 0 <=> phase = s)
    <3>1. phase' = phase
      BY EventEffect DEF WithinPeriod
    <3> QED
      BY <3>1, SinceNat, PresenceAssumption DEF Since
  <2>2. dead' >= 1 /\ dead' >= Old
    BY <2>1, OldNat, CountFacts, BoundNats
  <2>3. dead' = dead /\ due' \subseteq due
    BY <2>2, GoneEvent
  \* whoever has not dropped the record in this period has its tick to come
  <2>4. ASSUME NEW q \in Daemon, Since(s) = 0 => Tick(q) \notin due
        PROVE  age[q][Subject] = None
    BY <2>1, <2>3, <2>4 DEF Dropped
  <2>5. age[d][Subject] \in {None, Old}
    <3>1. age[d][Subject] # None => age[d][Subject] >= dead \/ age[d][Subject] = Old
      BY <2>2, <2>3 DEF Ageing
    <3>2. dead \in Nat /\ dead >= Old
      BY <2>2, <2>3, BoundNats DEF CountersOK
    <3> QED
      BY <3>1, <3>2, RecordOf, OldNat
  <2>6. SUFFICES ASSUME age'[d][Subject] # None PROVE FALSE
    OBVIOUS
  <2>7. d \in up'
    BY <2>2, <2>6, GoneEvent
  <2>8. CASE age'[d][Subject] = age[d][Subject]
    <3>1. age[d][Subject] = Old
      BY <2>5, <2>6, <2>8
    <3>2. Since(s) = 0 /\ Tick(d) \in due
      BY <2>4, <2>6, <2>8
    <3>3. Tick(d) \in due \ due'
      BY <2>1, <3>2
    <3> QED
      BY <2>2, <2>6, <2>7, <3>1, <3>3, GoneEvent
  <2>9. CASE age'[d][Subject] # age[d][Subject]
    <3>1. PICK q \in up \ {d} :
            Ask(d, q) \in due /\ d # Subject /\ Slot[d] = phase /\ age[q][Subject] # None
      BY <2>2, <2>6, <2>9, GoneEvent
    <3>2. phase # s
      BY <3>1 DEF Vacant
    <3>3. age[q][Subject] = None
      BY <1>1, <2>1, <2>4, <3>2
    <3> QED
      BY <3>1, <3>3
  <2> QED
    BY <2>8, <2>9
<1>3. DeadForgottenInTime'
  <2> SUFFICES ASSUME \E s \in 0..(SyncEvery - 1) : Vacant(s), dead' >= ForgottenBy,
                      NEW d \in Daemon
               PROVE  age'[d][Subject] = None
    BY DEF DeadForgottenInTime, Vacant
  <2>1. dead' >= 1
    BY BoundNats, OldNat, CountFacts
  <2>2. \A q \in Daemon : age[q][Subject] = None
    BY <2>1, GoneEvent DEF DeadForgottenInTime
  <2> QED
    BY <1>1, <2>1, <2>2, GoneEvent
<1> QED
  BY <1>2, <1>3

LEMMA DroppedPeriod ==
    ASSUME TypeOK, RunningOnly, CountersOK, Dropped, DeadForgottenInTime, Period, Count(1)
    PROVE  Dropped' /\ DeadForgottenInTime'
<1> USE BoundAssumption
<1>1. dead \in Nat /\ dead' \in Nat /\ dead' <= dead + 1
  BY CountFacts, BoundNats DEF CountersOK
<1>2. \A d \in Daemon : age[d][Subject] = None => age'[d][Subject] = None
  BY PeriodEffect
\* the period that ends was the vacant one or came after it
<1>3. ASSUME NEW s \in 0..(SyncEvery - 1), Vacant(s), dead >= Old + Since(s), NEW d \in Daemon
      PROVE  age'[d][Subject] = None
  <2>1. age[d][Subject] = None
    BY <1>3, PeriodEffect DEF Dropped
  <2> QED
    BY <1>2, <2>1
<1>4. Dropped'
  <2> SUFFICES ASSUME NEW s \in 0..(SyncEvery - 1), Vacant(s), dead' >= Old + Since(s)',
                      NEW d \in Daemon, Since(s)' = 0 => Tick(d) \notin due'
               PROVE  age'[d][Subject] = None
    BY DEF Dropped, Vacant
  <2>1. CASE Since(s)' = 0
    <3>1. d \notin up
      BY <2>1, PeriodEffect
    <3>2. age[d][Subject] = None
      BY <3>1, RunningParts
    <3> QED
      BY <1>2, <3>2
  <2>2. CASE Since(s)' # 0
    <3>1. Since(s)' = Since(s) + 1 /\ Since(s) \in Nat
      BY <2>2, SinceStep
    <3>2. dead >= Old + Since(s)
      BY <1>1, <3>1, OldNat
    <3> QED
      BY <1>3, <3>2
  <2> QED
    BY <2>1, <2>2
<1>5. DeadForgottenInTime'
  <2> SUFFICES ASSUME NEW s \in 0..(SyncEvery - 1), Vacant(s), dead' >= ForgottenBy,
                      NEW d \in Daemon
               PROVE  age'[d][Subject] = None
    BY DEF DeadForgottenInTime, Vacant
  <2>1. Since(s) \in 0..(SyncEvery - 1)
    BY SinceStep
  <2>2. dead >= Old + Since(s)
    BY <1>1, <2>1, BoundNats, OldNat
  <2> QED
    BY <1>3, <2>2
<1> QED
  BY <1>4, <1>5

-----------------------------------------------------------------------------
(* The invariant, and what follows from it. *)

LEMMA BoundInvInit == BoundInit => BoundInv
<1> SUFFICES ASSUME BoundInit PROVE BoundInv
  OBVIOUS
<1> USE BoundAssumption
<1>1. TypeOK /\ RunningOnly
  BY TypeInit, RunningInit DEF BoundInit
<1>2. hearing = 0 /\ asking = 0 /\ dead = 0
  BY DEF BoundInit
<1>3. CountersOK
  BY <1>2, BoundNats DEF CountersOK
<1>4. Refreshed /\ ReappearsInTime /\ Ageing
  BY <1>2 DEF Refreshed, ReappearsInTime, Ageing
<1>5. Synced /\ TrustSpreadsInTime
  <2>1. Since(Slot[Learner]) \in Nat
    BY <1>1, SinceNat, BoundNats
  <2> QED
    BY <1>2, <2>1, BoundNats DEF Synced, TrustSpreadsInTime
<1>6. Dropped /\ DeadForgottenInTime
  <2>1. \A s \in 0..(SyncEvery - 1) : Since(s) \in Nat
    BY <1>1, SinceNat
  <2> QED
    BY <1>2, <2>1, BoundNats, OldNat DEF Dropped, DeadForgottenInTime
<1> QED
  BY <1>1, <1>3, <1>4, <1>5, <1>6 DEF BoundInv

LEMMA BoundInvStep ==
    ASSUME BoundInv, [BoundNext]_boundVars
    PROVE  BoundInv'
<1>1. /\ TypeOK /\ CountersOK /\ RunningOnly
      /\ Refreshed /\ ReappearsInTime /\ Synced /\ TrustSpreadsInTime
      /\ Ageing /\ Dropped /\ DeadForgottenInTime
  BY DEF BoundInv
<1>2. CASE Event /\ Count(0)
  BY <1>1, <1>2, EventType, EventEffect, CountersStep, HeardEvent, SyncedEvent, AgeingEvent, DroppedEvent
     DEF BoundInv
<1>3. CASE Period /\ Count(1)
  BY <1>1, <1>3, PeriodType, RunningPeriod, CountersStep, HeardPeriod, SyncedPeriod, AgeingPeriod, DroppedPeriod
     DEF BoundInv
<1>4. CASE UNCHANGED boundVars
  BY <1>1, <1>4
     DEF BoundInv, boundVars, vars, TypeOK, Old, CountersOK, RunningOnly, Nobody, Refreshed,
         ReappearsInTime, Synced, TrustSpreadsInTime, Ageing, Dropped, DeadForgottenInTime,
         Vacant, Since, Hears, Asks, Connected, Tick, Ask, LearnedBy, ForgottenBy
<1> QED
  BY <1>2, <1>3, <1>4 DEF BoundNext

\* What the promises in time need: the counters mean what they say, and each
\* promise holds between the step that makes it true and the one it is for.
THEOREM BoundInvariant == BoundSpec => []BoundInv
<1>1. BoundInv /\ [BoundNext]_boundVars => BoundInv'
  BY BoundInvStep
<1> QED
  BY BoundInvInit, <1>1, PTL DEF BoundSpec

\* Counting constrains nothing: every step that is counted is one of Presence.
THEOREM CountingFollows == BoundSpec => Spec
<1>1. BoundInit => Init
  BY DEF BoundInit
<1>2. [BoundNext]_boundVars => [Next]_vars
  BY DEF BoundNext, Next, boundVars
<1> QED
  BY <1>1, <1>2, PTL DEF BoundSpec, Spec

\* Two periods after a daemon can be heard by one that trusts it, its record
\* is active there and no older than a period.
THEOREM SoonActive == BoundSpec => []ReappearsInTime
<1>1. BoundInv => ReappearsInTime
  BY DEF BoundInv
<1> QED
  BY BoundInvariant, <1>1, PTL

\* A full_sync interval later everyone who can ask that one trusts it too.
THEOREM SoonTrusted == BoundSpec => []TrustSpreadsInTime
<1>1. BoundInv => TrustSpreadsInTime
  BY DEF BoundInv
<1> QED
  BY BoundInvariant, <1>1, PTL

\* A daemon that is gone is forgotten by all within its TTL and a full_sync
\* interval, if there is a period in which no other synchronises.
THEOREM SoonForgotten == BoundSpec => []DeadForgottenInTime
<1>1. BoundInv => DeadForgottenInTime
  BY DEF BoundInv
<1> QED
  BY BoundInvariant, <1>1, PTL
=============================================================================
