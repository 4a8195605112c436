---------------------------- MODULE StartupProofs -----------------------------
(***************************************************************************)
(* TLAPS proofs about Startup, for every set of keys, networks, ports and  *)
(* arguments, and any number of starts.                                    *)
(***************************************************************************)
EXTENDS Startup, FiniteSetTheorems, TLAPS

-----------------------------------------------------------------------------
(* What a random generator returns is new. *)

\* As long as fewer values than starts were drawn, Fresh has another one.
LEMMA FreshIsNew ==
    ASSUME NEW S, NEW taken, IsFiniteSet(taken), Cardinality(taken) < MaxStarts,
           IsFiniteSet(S) => Cardinality(S) >= MaxStarts
    PROVE  Fresh(S, taken) \in S /\ Fresh(S, taken) \notin taken
<1>1. \E x \in S : x \notin taken
  <2> SUFFICES ASSUME S \subseteq taken PROVE FALSE
    OBVIOUS
  <2>1. IsFiniteSet(S) /\ Cardinality(S) <= Cardinality(taken)
    BY FS_Subset
  <2>2. Cardinality(S) \in Nat /\ Cardinality(taken) \in Nat
    BY <2>1, FS_CardinalityType
  <2> QED BY <2>1, <2>2, StartupAssumption
<1> QED BY <1>1 DEF Fresh

-----------------------------------------------------------------------------
(* The attempts to bind. *)

\* Who asks for a family asks for one at least.
LEMMA WantsSome ==
    ASSUME NEW b \in BindArgs
    PROVE  WantedFamilies(b) \in (SUBSET Family) \ {{}}
<1>1. CASE b \in [kind : {"socket", "ip"}, family : Family, scope : {"loopback", "unspecified", "other"}]
  BY <1>1 DEF WantedFamilies, Family
<1>2. CASE b \in [kind : {"interface"}, has : (SUBSET Family) \ {{}}]
  BY <1>2 DEF WantedFamilies
<1>3. CASE b \in [kind : {"default"}]
  BY <1>3 DEF WantedFamilies, Family
<1> QED BY <1>1, <1>2, <1>3 DEF BindArgs

\* Each family that is asked for is tried alone, whatever is asked for with it.
LEMMA EachTriedAlone ==
    ASSUME NEW b \in BindArgs
    PROVE  /\ Attempts(b) \in Seq(SUBSET Family)
           /\ \A f \in WantedFamilies(b) : \E i \in DOMAIN Attempts(b) : Attempts(b)[i] = {f}
<1>1. CASE WantedFamilies(b) = Family /\ V6First(b)
  <2>1. Attempts(b) = <<Family, {"v6"}, {"v4"}>>
    BY <1>1 DEF Attempts
  <2> QED BY <1>1, <2>1 DEF Family
<1>2. CASE WantedFamilies(b) = Family /\ ~V6First(b)
  <2>1. Attempts(b) = <<Family, {"v4"}, {"v6"}>>
    BY <1>2 DEF Attempts
  <2> QED BY <1>2, <2>1 DEF Family
<1>3. CASE WantedFamilies(b) # Family
  <2>1. Attempts(b) = <<WantedFamilies(b)>>
    BY <1>3 DEF Attempts
  <2>2. \E f \in Family : WantedFamilies(b) = {f}
    BY <1>3, WantsSome DEF Family
  <2> QED BY <2>1, <2>2
<1> QED BY <1>1, <1>2, <1>3

-----------------------------------------------------------------------------
(* Types, and what init_network has in memory at each stage.                *)

HasKey == {"port", "bind", "topic", "rnum", "nodes", "join", "up"}
HasNetwork == {"rnum", "nodes", "join", "up"}

Stage ==
    /\ pc # "off" => args.bind \in BindArg
    /\ pc \in HasKey => mem.key \in Key
    /\ pc \in HasNetwork => mem.topic \in Network /\ mem.rnum \in Network

\* Each start draws one key and one network at most.
Supply ==
    /\ IsFiniteSet(used.keys) /\ IsFiniteSet(used.networks)
    /\ used.starts <= MaxStarts
    /\ Cardinality(used.keys) <= used.starts
    /\ pc \in {"reset", "secret"} => Cardinality(used.keys) < used.starts
    /\ Cardinality(used.networks) <= used.starts
    /\ pc \in {"reset", "secret", "port", "bind", "topic"} => Cardinality(used.networks) < used.starts

TypeInv == TypeOK /\ Stage /\ Supply

DbSet == [sk : OrNone(Key), port : OrNone(Port), topic : OrNone(Network),
          rnum : OrNone(Network), nodes : SUBSET Network]

UsedSet == [keys : SUBSET Key, networks : SUBSET Own, starts : Nat]

MemSet == [key : OrNone(Key), saved : BOOLEAN, port : OrNone(Port),
           attempts : Seq(SUBSET Family), bound : OrNone(SUBSET Family),
           topic : OrNone(Network), rnum : OrNone(Network),
           contacts : SUBSET Network, tries : 0..MaxTries]

\* A process has nothing in memory at first.
LEMMA NothingInMemory == NoMem \in MemSet
<1>1. <<>> \in Seq(SUBSET Family) /\ 0 \in 0..MaxTries
  BY StartupAssumption
<1> QED BY <1>1 DEF NoMem, MemSet, OrNone

\* What the steps write into the memory of the process.
LEMMA MemUpdates ==
    ASSUME NEW m \in MemSet
    PROVE  /\ \A k \in Key : [m EXCEPT !.key = k] \in MemSet
           /\ \A k \in Key, b \in BOOLEAN : [m EXCEPT !.key = k, !.saved = b] \in MemSet
           /\ \A a \in Seq(SUBSET Family) : [m EXCEPT !.attempts = a] \in MemSet
           /\ \A p \in OrNone(Port), a \in Seq(SUBSET Family) :
                 [m EXCEPT !.port = p, !.attempts = a] \in MemSet
           /\ \A f \in SUBSET Family : [m EXCEPT !.bound = f] \in MemSet
           /\ \A t, r \in Network : [m EXCEPT !.topic = t, !.rnum = r] \in MemSet
           /\ \A c \in SUBSET Network, i \in 0..MaxTries :
                 [m EXCEPT !.contacts = c, !.tries = i] \in MemSet
           /\ \A i \in 0..MaxTries : [m EXCEPT !.tries = i] \in MemSet
<1>1. \A k \in Key : [m EXCEPT !.key = k] \in MemSet
  BY DEF MemSet, OrNone
<1>2. \A k \in Key, b \in BOOLEAN : [m EXCEPT !.key = k, !.saved = b] \in MemSet
  BY DEF MemSet, OrNone
<1>3. \A a \in Seq(SUBSET Family) : [m EXCEPT !.attempts = a] \in MemSet
  BY DEF MemSet
<1>4. \A p \in OrNone(Port), a \in Seq(SUBSET Family) :
         [m EXCEPT !.port = p, !.attempts = a] \in MemSet
  BY DEF MemSet
<1>5. \A f \in SUBSET Family : [m EXCEPT !.bound = f] \in MemSet
  BY DEF MemSet, OrNone
<1>6. \A t, r \in Network : [m EXCEPT !.topic = t, !.rnum = r] \in MemSet
  BY DEF MemSet, OrNone
<1>7. \A c \in SUBSET Network, i \in 0..MaxTries :
         [m EXCEPT !.contacts = c, !.tries = i] \in MemSet
  BY DEF MemSet
<1>8. \A i \in 0..MaxTries : [m EXCEPT !.tries = i] \in MemSet
  BY DEF MemSet
<1> QED BY <1>1, <1>2, <1>3, <1>4, <1>5, <1>6, <1>7, <1>8

\* What the transactions write into the Storage.
LEMMA DbUpdates ==
    ASSUME NEW d \in DbSet
    PROVE  /\ \A k \in Key : [d EXCEPT !.sk = k] \in DbSet
           /\ \A p \in OrNone(Port) : [d EXCEPT !.port = p] \in DbSet
           /\ \A n \in Network : [d EXCEPT !.topic = n] \in DbSet
           /\ \A n \in Network : [d EXCEPT !.rnum = n] \in DbSet
           /\ \A n \in SUBSET Network : [d EXCEPT !.nodes = n] \in DbSet
BY DEF DbSet, OrNone

\* How AssignPort changes the Storage and the memory.
LEMMA PortAssigned ==
    ASSUME TypeOK, AssignPort
    PROVE  \/ \E p \in Port : /\ db.port \in {None, p}
                             /\ db' = [db EXCEPT !.port = p]
                             /\ mem' = [mem EXCEPT !.port = p, !.attempts = Attempts(args.bind)]
           \/ db' = db /\ mem' = [mem EXCEPT !.attempts = Attempts(args.bind)]
<1>1. db.port \in OrNone(Port)
  BY DEF TypeOK
<1>2. CASE NeedsPort(args.bind)
  <2>1. PICK p \in IF db.port = None THEN Port ELSE {db.port} :
           /\ db' = [db EXCEPT !.port = p]
           /\ mem' = [mem EXCEPT !.port = p, !.attempts = Attempts(args.bind)]
    BY <1>2 DEF AssignPort
  <2>2. p \in Port /\ db.port \in {None, p}
    BY <1>1, <2>1 DEF OrNone
  <2> QED BY <2>1, <2>2
<1>3. CASE ~NeedsPort(args.bind)
  BY <1>3 DEF AssignPort
<1> QED BY <1>2, <1>3

\* What the two records keep when a port is assigned.
LEMMA PortAlone ==
    ASSUME TypeOK, AssignPort
    PROVE  /\ db'.sk = db.sk /\ db'.topic = db.topic /\ db'.rnum = db.rnum /\ db'.nodes = db.nodes
           /\ mem'.key = mem.key /\ mem'.saved = mem.saved /\ mem'.topic = mem.topic
           /\ mem'.rnum = mem.rnum /\ mem'.contacts = mem.contacts
           /\ mem'.attempts = Attempts(args.bind)
           /\ db.port \in {None, db'.port} /\ mem'.port \in {mem.port, db'.port}
<1>1. db \in DbSet /\ mem \in MemSet
  BY DEF TypeOK, DbSet, MemSet
<1>2. ASSUME NEW p \in Port, db.port \in {None, p}, db' = [db EXCEPT !.port = p],
             mem' = [mem EXCEPT !.port = p, !.attempts = Attempts(args.bind)]
      PROVE  /\ db'.sk = db.sk /\ db'.topic = db.topic /\ db'.rnum = db.rnum /\ db'.nodes = db.nodes
             /\ mem'.key = mem.key /\ mem'.saved = mem.saved /\ mem'.topic = mem.topic
             /\ mem'.rnum = mem.rnum /\ mem'.contacts = mem.contacts
             /\ mem'.attempts = Attempts(args.bind)
             /\ db.port \in {None, db'.port} /\ mem'.port \in {mem.port, db'.port}
  BY <1>1, <1>2 DEF DbSet, MemSet
<1>3. ASSUME db' = db, mem' = [mem EXCEPT !.attempts = Attempts(args.bind)]
      PROVE  /\ mem'.key = mem.key /\ mem'.saved = mem.saved /\ mem'.topic = mem.topic
             /\ mem'.rnum = mem.rnum /\ mem'.contacts = mem.contacts
             /\ mem'.attempts = Attempts(args.bind) /\ mem'.port = mem.port
  BY <1>1, <1>3 DEF MemSet
<1> QED BY PortAssigned, <1>2, <1>3

\* The state before the first start is well typed.
LEMMA TypeInit == Init => TypeInv
<1> SUFFICES ASSUME Init PROVE TypeInv
  OBVIOUS
<1>1. TypeOK
  <2>1. db \in DbSet
    BY DEF Init, DbSet, EmptyDb, OrNone
  <2>2. args \in [primary : BOOLEAN, ticket : OrNone(Foreign), reset : BOOLEAN,
                 bind : OrNone(BindArg)]
    BY DEF Init, NoArgs, OrNone
  <2>3. avail \in [families : SUBSET Family, join : BOOLEAN]
    BY DEF Init, Nowhere
  <2>4. mem \in MemSet
    BY NothingInMemory DEF Init
  <2>5. used \in [keys : SUBSET Key, networks : SUBSET Own, starts : Nat]
    BY DEF Init
  <2> QED BY <2>1, <2>2, <2>3, <2>4, <2>5 DEF Init, TypeOK, DbSet, MemSet
<1>2. Supply
  BY FS_EmptySet, StartupAssumption DEF Init, Supply
<1>3. Stage
  BY DEF Init, Stage, HasKey, HasNetwork
<1> QED BY <1>1, <1>2, <1>3 DEF TypeInv

\* A step of whatever kind keeps it so.
LEMMA TypeStep == TypeInv /\ [Next]_vars => TypeInv'
<1> SUFFICES ASSUME TypeInv, [Next]_vars PROVE TypeInv'
  OBVIOUS
<1> USE DEF TypeInv
<1>0. db \in DbSet /\ mem \in MemSet /\ used \in UsedSet
  BY DEF TypeOK, DbSet, MemSet, UsedSet
<1>1. CASE Start
  <2>a. args' \in [primary : BOOLEAN, ticket : OrNone(Foreign), reset : BOOLEAN,
                  bind : OrNone(BindArg)]
    BY <1>1 DEF Start, OrNone
  <2>b. used' \in [keys : SUBSET Key, networks : SUBSET Own, starts : Nat]
    BY <1>1 DEF Start, TypeOK
  <2>c. mem' \in MemSet
    BY <1>1, NothingInMemory DEF Start
  <2>1. TypeOK' BY <1>1, <2>a, <2>b, <2>c DEF Start, Goto, TypeOK, MemSet
  <2>2. Stage' BY <1>1 DEF Start, Goto, Stage, HasKey, HasNetwork
  <2>d. /\ used'.keys = used.keys /\ used'.networks = used.networks
        /\ used'.starts = used.starts + 1 /\ used'.starts <= MaxStarts
        /\ pc = "off" /\ pc' = "reset"
    BY <1>0, <1>1, StartupAssumption DEF Start, Goto, UsedSet
  <2>e. /\ Cardinality(used.keys) \in Nat /\ Cardinality(used.networks) \in Nat
        /\ used.starts \in Nat
    BY FS_CardinalityType DEF Supply, TypeOK
  <2>3. Supply' BY <2>d, <2>e DEF Supply
  <2> QED BY <2>1, <2>2, <2>3
<1>2. CASE Reset
  <2>a. db' \in DbSet BY <1>2 DEF Reset, TypeOK, DbSet, EmptyDb, OrNone
  <2>c. gone' \subseteq Key \cup Network
    BY <1>0, <1>2 DEF Reset, TypeOK, Wiped, OrNone, Network, DbSet
  <2>1. TypeOK' BY <1>2, <2>a, <2>c DEF Reset, Goto, TypeOK, DbSet
  <2>2. Stage' BY <1>2 DEF Reset, Goto, Stage, HasKey, HasNetwork
  <2>3. Supply' BY <1>2 DEF Reset, Goto, Supply
  <2> QED BY <2>1, <2>2, <2>3
<1>3. CASE LoadSecret
  <2>a. db.sk \in Key BY <1>0, <1>3 DEF LoadSecret, DbSet, OrNone
  <2>b. mem' \in MemSet BY <1>0, <1>3, <2>a, MemUpdates DEF LoadSecret
  <2>1. TypeOK' BY <1>3, <2>a, <2>b DEF LoadSecret, Goto, TypeOK, MemSet
  <2>2. Stage' BY <1>3 DEF LoadSecret, Goto, Stage, TypeOK, OrNone, HasKey, HasNetwork
  <2>3. Supply' BY <1>3 DEF LoadSecret, Goto, Supply
  <2> QED BY <2>1, <2>2, <2>3
<1>4. CASE GenerateSecret
  <2>1. PICK k \in {Fresh(Key, used.keys)}, saved \in BOOLEAN :
           /\ mem' = [mem EXCEPT !.key = k, !.saved = saved]
           /\ db' = IF saved THEN [db EXCEPT !.sk = k] ELSE db
           /\ identities' = IF saved THEN identities \cup {k} ELSE identities
           /\ used' = [used EXCEPT !.keys = @ \cup {k}]
    BY <1>4 DEF GenerateSecret
  <2>2. k \in Key /\ k \notin used.keys
    BY <1>4, FreshIsNew, FS_CardinalityType, StartupAssumption
    DEF GenerateSecret, Goto, Supply, TypeOK
  <2>a. db' \in DbSet BY <1>0, <2>1, <2>2, DbUpdates
  <2>b. mem' \in MemSet BY <1>0, <2>1, <2>2, MemUpdates
  <2>c. used' \in UsedSet BY <1>0, <2>1, <2>2 DEF UsedSet
  <2>3. TypeOK' BY <1>4, <2>1, <2>2, <2>a, <2>b, <2>c
    DEF GenerateSecret, Goto, TypeOK, DbSet, MemSet, UsedSet
  <2>4. Stage' BY <1>4, <2>1, <2>2 DEF GenerateSecret, Goto, Stage, TypeOK, HasKey, HasNetwork
  <2>5. Cardinality(used'.keys) = Cardinality(used.keys) + 1 /\ IsFiniteSet(used'.keys)
    BY <2>1, <2>2, FS_AddElement DEF Supply, TypeOK
  <2>6. Supply'
    BY <1>4, <2>1, <2>5, FS_CardinalityType DEF GenerateSecret, Goto, Supply, TypeOK
  <2> QED BY <2>3, <2>4, <2>6
<1>5. CASE AssignPort
  <2>2. Attempts(args.bind) \in Seq(SUBSET Family)
    BY <1>5, EachTriedAlone, StartupAssumption DEF AssignPort, Goto, Stage
  <2>a. ASSUME NEW p \in Port, db' = [db EXCEPT !.port = p],
               mem' = [mem EXCEPT !.port = p, !.attempts = Attempts(args.bind)]
        PROVE  db' \in DbSet /\ mem' \in MemSet
    BY <1>0, <2>2, <2>a, MemUpdates, DbUpdates DEF OrNone
  <2>b. ASSUME db' = db, mem' = [mem EXCEPT !.attempts = Attempts(args.bind)]
        PROVE  db' \in DbSet /\ mem' \in MemSet
    BY <1>0, <2>2, <2>b, MemUpdates
  <2>c. db' \in DbSet /\ mem' \in MemSet
    BY <1>5, <2>a, <2>b, PortAssigned
  <2>3. TypeOK' BY <1>5, <2>c DEF AssignPort, Goto, TypeOK, DbSet, MemSet
  <2>4. Stage' BY <1>5, PortAlone DEF AssignPort, Goto, Stage, HasKey, HasNetwork
  <2>5. Supply' BY <1>5 DEF AssignPort, Goto, Supply
  <2> QED BY <2>3, <2>4, <2>5
<1>6. CASE Bind
  <2>1. Head(mem.attempts) \in SUBSET Family /\ Tail(mem.attempts) \in Seq(SUBSET Family)
    BY <1>6 DEF Bind, TypeOK
  <2>c. \/ /\ Head(mem.attempts) \subseteq avail.families
           /\ mem' = [mem EXCEPT !.bound = Head(mem.attempts)]
        \/ mem' = [mem EXCEPT !.attempts = Tail(mem.attempts)]
    BY <1>6 DEF Bind
  <2>a. mem' \in MemSet BY <1>0, <2>1, <2>c, MemUpdates
  <2>2. TypeOK' BY <1>6, <2>a DEF Bind, TypeOK, MemSet
  <2>3. Stage' BY <1>6 DEF Bind, Stage, TypeOK, HasKey, HasNetwork
  <2>4. Supply' BY <1>6 DEF Bind, Supply
  <2> QED BY <2>2, <2>3, <2>4
<1>7. CASE Ends
  <2>a. mem' \in MemSet BY <1>7, NothingInMemory DEF Ends
  <2>b. /\ args' \in [primary : BOOLEAN, ticket : OrNone(Foreign), reset : BOOLEAN,
                     bind : OrNone(BindArg)]
        /\ avail' \in [families : SUBSET Family, join : BOOLEAN]
    BY <1>7 DEF Ends, NoArgs, Nowhere, OrNone
  <2>1. TypeOK' BY <1>7, <2>a, <2>b DEF Ends, TypeOK, MemSet
  <2>2. Stage' BY <1>7 DEF Ends, Stage, HasKey, HasNetwork
  <2>3. Supply' BY <1>7 DEF Ends, Supply
  <2> QED BY <2>1, <2>2, <2>3
<1>8. CASE LoadNetwork
  <2>a. db.topic \in Network /\ db.rnum \in Network
    BY <1>0, <1>8 DEF LoadNetwork, Configured, DbSet, OrNone
  <2>b. mem' \in MemSet BY <1>0, <1>8, <2>a, MemUpdates DEF LoadNetwork
  <2>1. TypeOK' BY <1>8, <2>b DEF LoadNetwork, TypeOK, MemSet
  <2>2. Stage' BY <1>8 DEF LoadNetwork, Configured, Stage, TypeOK, OrNone, HasKey, HasNetwork
  <2>3. Supply' BY <1>8 DEF LoadNetwork, Supply
  <2> QED BY <2>1, <2>2, <2>3
<1>9. CASE NewNetwork
  <2>1. PICK n \in {Fresh(Own, used.networks)} :
           StoreTopic(n) /\ used' = [used EXCEPT !.networks = @ \cup {n}]
    BY <1>9 DEF NewNetwork
  <2>2. n \in Own /\ n \notin used.networks
    BY <1>9, FreshIsNew, FS_CardinalityType, StartupAssumption
    DEF NewNetwork, Supply, TypeOK
  <2>a. db' \in DbSet BY <1>0, <2>1, <2>2, DbUpdates DEF StoreTopic, Network
  <2>b. mem' \in MemSet BY <1>0, <2>1, <2>2, MemUpdates DEF StoreTopic, Network
  <2>c. used' \in UsedSet BY <1>0, <2>1, <2>2 DEF UsedSet
  <2>3. TypeOK' BY <1>9, <2>1, <2>a, <2>b, <2>c
    DEF NewNetwork, StoreTopic, TypeOK, DbSet, MemSet, UsedSet
  <2>4. Stage' BY <1>9, <2>1, <2>2 DEF NewNetwork, StoreTopic, Stage, TypeOK, HasKey, HasNetwork, Network
  <2>5. Cardinality(used'.networks) = Cardinality(used.networks) + 1 /\ IsFiniteSet(used'.networks)
    BY <2>1, <2>2, FS_AddElement DEF Supply, TypeOK
  <2>6. Supply'
    BY <1>9, <2>1, <2>5, FS_CardinalityType DEF NewNetwork, StoreTopic, Supply, TypeOK
  <2> QED BY <2>3, <2>4, <2>6
<1>10. CASE AdoptNetwork
  <2>1. args.ticket \in Foreign
    BY <1>10 DEF AdoptNetwork, TypeOK, OrNone
  <2>a. args.ticket \in Network BY <2>1 DEF Network
  <2>b. db' \in DbSet BY <1>0, <1>10, <2>a, DbUpdates DEF AdoptNetwork, StoreTopic
  <2>c. mem' \in MemSet BY <1>0, <1>10, <2>a, MemUpdates DEF AdoptNetwork, StoreTopic
  <2>2. TypeOK' BY <1>10, <2>b, <2>c DEF AdoptNetwork, StoreTopic, TypeOK, DbSet, MemSet
  <2>3. Stage' BY <1>10, <2>1 DEF AdoptNetwork, StoreTopic, Stage, TypeOK, HasKey, HasNetwork, Network
  <2>4. Supply' BY <1>10 DEF AdoptNetwork, StoreTopic, Supply
  <2> QED BY <2>2, <2>3, <2>4
<1>11. CASE StoreRnum
  <2>a. mem.rnum \in Network BY <1>11 DEF StoreRnum, Goto, Stage, HasNetwork
  <2>b. db' \in DbSet BY <1>0, <1>11, <2>a, DbUpdates DEF StoreRnum
  <2>1. TypeOK' BY <1>11, <2>b DEF StoreRnum, Goto, TypeOK, DbSet
  <2>2. Stage' BY <1>11 DEF StoreRnum, Goto, Stage, HasKey, HasNetwork
  <2>3. Supply' BY <1>11 DEF StoreRnum, Goto, Supply
  <2> QED BY <2>1, <2>2, <2>3
<1>12. CASE LoadNodes
  <2>a. db.nodes \cup ({args.ticket} \ {None}) \subseteq Network
    BY DEF TypeOK, OrNone, Network
  <2>c. 1 \in 0..MaxTries
    BY StartupAssumption
  <2>b. mem' \in MemSet BY <1>0, <1>12, <2>a, <2>c, MemUpdates DEF LoadNodes
  <2>1. TypeOK' BY <1>12, <2>b DEF LoadNodes, Goto, TypeOK, MemSet
  <2>2. Stage' BY <1>12 DEF LoadNodes, Goto, Stage, TypeOK, HasKey, HasNetwork
  <2>3. Supply' BY <1>12 DEF LoadNodes, Goto, Supply
  <2> QED BY <2>1, <2>2, <2>3
<1>13. CASE Joined
  <2>a. mem.key \in Key /\ mem.topic \in Network /\ mem.rnum \in Network /\ mem.port \in OrNone(Port)
    BY <1>13 DEF Joined, Goto, TypeOK, Stage, HasKey, HasNetwork
  <2>b. printed' \subseteq [key : Key, topic : Network, rnum : Network, port : OrNone(Port)]
    BY <1>13, <2>a DEF Joined, TypeOK
  <2>1. TypeOK' BY <1>13, <2>b DEF Joined, Goto, TypeOK
  <2>2. Stage' BY <1>13 DEF Joined, Goto, Stage, HasKey, HasNetwork
  <2>3. Supply' BY <1>13 DEF Joined, Goto, Supply
  <2> QED BY <2>1, <2>2, <2>3
<1>14. CASE JoinTimesOut
  <2>a. mem.tries + 1 \in 0..MaxTries
    BY <1>0, <1>14, StartupAssumption DEF JoinTimesOut, MemSet
  <2>b. mem' \in MemSet BY <1>0, <1>14, <2>a, MemUpdates DEF JoinTimesOut
  <2>1. TypeOK' BY <1>14, <2>b DEF JoinTimesOut, TypeOK, MemSet
  <2>2. Stage' BY <1>14 DEF JoinTimesOut, Stage, TypeOK, HasKey, HasNetwork
  <2>3. Supply' BY <1>14 DEF JoinTimesOut, Supply
  <2> QED BY <2>1, <2>2, <2>3
<1>15. CASE Save
  <2>a. mem.topic \in Network BY <1>15 DEF Save, Stage, HasNetwork
  <2>b. db.nodes \cup {mem.topic} \in SUBSET Network BY <1>0, <2>a DEF DbSet
  <2>c. db' \in DbSet BY <1>0, <1>15, <2>b, DbUpdates DEF Save
  <2>1. TypeOK' BY <1>15, <2>c DEF Save, TypeOK, DbSet
  <2>2. Stage' BY <1>15 DEF Save, Stage
  <2>3. Supply' BY <1>15 DEF Save, Supply
  <2> QED BY <2>1, <2>2, <2>3
<1>16. CASE UNCHANGED vars
  BY <1>16 DEF vars, TypeOK, Stage, Supply
<1> QED
  BY <1>1, <1>2, <1>3, <1>4, <1>5, <1>6, <1>7, <1>8, <1>9, <1>10, <1>11, <1>12, <1>13, <1>14,
     <1>15, <1>16 DEF Next, Step, BindFails, NoNetwork, JoinFails, Stop

\* Whatever a start reads, draws or stores, and wherever it is cut off, the
\* state is well typed, and a new key or network is there to be drawn.
THEOREM TypeCorrect == Spec => []TypeOK
<1>1. Spec => []TypeInv
  BY TypeInit, TypeStep, PTL DEF Spec
<1> QED BY <1>1, PTL DEF TypeInv

-----------------------------------------------------------------------------
(* One identity. *)

IdentityInv == identities \subseteq {db.sk} \ {None}

\* At first nobody relies on a key.
LEMMA IdentityInit == Init => IdentityInv
BY DEF Init, IdentityInv

\* The key that the processes relied on is the stored one; it is replaced only
\* by a reset, after which nobody has relied on anything.
LEMMA IdentityStep == TypeInv /\ IdentityInv /\ [Next]_vars => IdentityInv'
<1> SUFFICES ASSUME TypeInv, IdentityInv, [Next]_vars PROVE IdentityInv'
  OBVIOUS
<1> USE DEF IdentityInv
<1>1. CASE Reset
  BY <1>1 DEF Reset
<1>2. CASE LoadSecret
  BY <1>2 DEF LoadSecret
<1>3. CASE GenerateSecret
  <2>1. identities = {}
    BY <1>3 DEF GenerateSecret
  <2>2. PICK k \in {Fresh(Key, used.keys)}, saved \in BOOLEAN :
           /\ db' = IF saved THEN [db EXCEPT !.sk = k] ELSE db
           /\ identities' = IF saved THEN identities \cup {k} ELSE identities
    BY <1>3 DEF GenerateSecret
  <2>3. k \in Key
    BY <1>3, FreshIsNew, FS_CardinalityType, StartupAssumption
    DEF GenerateSecret, Goto, TypeInv, Supply, TypeOK
  <2> QED BY <2>1, <2>2, <2>3, StartupAssumption DEF TypeInv, TypeOK
<1>4. CASE AssignPort
  <2>1. db'.sk = db.sk /\ identities' = identities
    BY <1>4, PortAlone DEF AssignPort, TypeInv
  <2> QED BY <2>1
<1>5. CASE NewNetwork \/ AdoptNetwork \/ StoreRnum \/ Save
  <2>1. db'.sk = db.sk /\ identities' = identities
    BY <1>5 DEF NewNetwork, AdoptNetwork, StoreTopic, StoreRnum, Save, TypeInv, TypeOK
  <2> QED BY <2>1
<1>6. CASE Start \/ Bind \/ Ends \/ LoadNetwork \/ LoadNodes \/ Joined \/ JoinTimesOut \/ UNCHANGED vars
  BY <1>6 DEF Start, Bind, Ends, LoadNetwork, LoadNodes, Joined, JoinTimesOut, vars
<1> QED
  BY <1>1, <1>2, <1>3, <1>4, <1>5, <1>6 DEF Next, Step, BindFails, NoNetwork, JoinFails, Stop

\* All processes of a daemon that relied on its Storage have one key, unless
\* the Storage is reset, wherever the processes before were cut off.
THEOREM OneIdentity == Spec => []IdentityKept
<1>1. Spec => [](TypeInv /\ IdentityInv)
  BY TypeInit, TypeStep, IdentityInit, IdentityStep, PTL DEF Spec
<1>2. IdentityInv => IdentityKept
  BY DEF IdentityInv, IdentityKept
<1> QED BY <1>1, <1>2, PTL

-----------------------------------------------------------------------------
(* One network. *)

\* While rnum is still to be written, the topic in the Storage is the new one;
\* else topic and rnum there, if both are, belong together, unless a change was
\* cut off.
NetInv ==
    /\ pc = "rnum" => db.topic = mem.rnum /\ mem.topic = mem.rnum
    /\ pc # "rnum" /\ ~torn /\ Configured => db.topic = db.rnum
    /\ OneNetwork

\* At first no network is stored.
LEMMA NetInit == Init => NetInv
BY DEF Init, NetInv, Configured, EmptyDb, OneNetwork

\* Between the two transactions a change of network can only be cut off, and is
\* then torn unless there was no rnum before.
LEMMA NetStep == TypeInv /\ NetInv /\ [Next]_vars => NetInv'
<1> SUFFICES ASSUME TypeInv, NetInv, [Next]_vars PROVE NetInv'
  OBVIOUS
<1> USE DEF NetInv, OneNetwork, Configured
<1>1. CASE Start
  BY <1>1 DEF Start, Goto
<1>2. CASE Reset
  BY <1>2 DEF Reset, Goto, EmptyDb
<1>3. CASE LoadSecret
  BY <1>3 DEF LoadSecret, Goto
<1>4. CASE GenerateSecret
  <2>1. db'.topic = db.topic /\ db'.rnum = db.rnum /\ torn' = torn
    BY <1>4 DEF GenerateSecret, TypeInv, TypeOK
  <2> QED BY <1>4, <2>1 DEF GenerateSecret, Goto
<1>5. CASE AssignPort
  <2>1. db'.topic = db.topic /\ db'.rnum = db.rnum /\ torn' = torn
    BY <1>5, PortAlone DEF AssignPort, TypeInv
  <2>2. pc = "port" /\ pc' = "bind"
    BY <1>5 DEF AssignPort, Goto
  <2> QED BY <2>1, <2>2
<1>6. CASE Bind
  BY <1>6 DEF Bind
<1>7. CASE Ends
  <2>1. CASE pc = "rnum"
    BY <1>7, <2>1 DEF Ends
  <2>2. CASE pc # "rnum"
    BY <1>7, <2>2 DEF Ends
  <2> QED BY <2>1, <2>2
<1>8. CASE LoadNetwork
  BY <1>8 DEF LoadNetwork, TypeInv, TypeOK
<1>9. CASE NewNetwork \/ AdoptNetwork
  <2>1. PICK n : StoreTopic(n)
    BY <1>9 DEF NewNetwork, AdoptNetwork
  <2>2. pc' = "rnum" /\ db'.topic = n /\ mem'.topic = n /\ mem'.rnum = n
    BY <2>1 DEF StoreTopic, TypeInv, TypeOK
  <2> QED BY <2>2
<1>10. CASE StoreRnum
  BY <1>10 DEF StoreRnum, Goto, TypeInv, TypeOK
<1>11. CASE LoadNodes
  BY <1>11 DEF LoadNodes, Goto, TypeInv, TypeOK
<1>12. CASE Joined
  BY <1>12 DEF Joined, Goto
<1>13. CASE JoinTimesOut
  BY <1>13 DEF JoinTimesOut, TypeInv, TypeOK
<1>14. CASE Save
  <2>1. db'.topic = db.topic /\ db'.rnum = db.rnum
    BY <1>14 DEF Save, TypeInv, TypeOK
  <2> QED BY <1>14, <2>1 DEF Save
<1>15. CASE UNCHANGED vars
  BY <1>15 DEF vars
<1> QED
  BY <1>1, <1>2, <1>3, <1>4, <1>5, <1>6, <1>7, <1>8, <1>9, <1>10, <1>11, <1>12, <1>13, <1>14, <1>15
  DEF Next, Step, BindFails, NoNetwork, JoinFails, Stop

\* A daemon is in one network: the topic and the rnum that a start goes on with
\* belong together, unless a change of network was cut off half way.
THEOREM OneNetworkOnly == Spec => []OneNetwork
<1>1. Spec => [](TypeInv /\ NetInv)
  BY TypeInit, TypeStep, NetInit, NetStep, PTL DEF Spec
<1> QED BY <1>1, PTL DEF NetInv

-----------------------------------------------------------------------------
(* Binding. *)

\* Each family that is asked for and can be bound is still to be tried alone.
BindInv ==
    pc = "bind" =>
        \A f \in WantedFamilies(args.bind) \cap avail.families :
            \E i \in DOMAIN mem.attempts : mem.attempts[i] = {f}

\* At first nothing is bound.
LEMMA BindInit == Init => BindInv
BY DEF Init, BindInv

\* The attempt that fails was none for a family that can be bound.
LEMMA BindStep == TypeInv /\ BindInv /\ [Next]_vars => BindInv'
<1> SUFFICES ASSUME TypeInv, BindInv, [Next]_vars, pc' = "bind",
                    NEW f \in WantedFamilies(args'.bind) \cap avail'.families
             PROVE  \E i \in DOMAIN mem'.attempts : mem'.attempts[i] = {f}
  BY DEF BindInv
<1>1. CASE AssignPort
  <2>1. args.bind \in BindArgs /\ args' = args
    BY <1>1, StartupAssumption DEF AssignPort, Goto, TypeInv, Stage
  <2>2. mem'.attempts = Attempts(args.bind)
    BY <1>1, PortAlone DEF TypeInv
  <2> QED BY <2>1, <2>2, EachTriedAlone
<1>2. CASE Bind
  <2>1. /\ mem.attempts \in Seq(SUBSET Family) /\ mem.attempts # <<>>
        /\ ~(Head(mem.attempts) \subseteq avail.families)
        /\ mem'.attempts = Tail(mem.attempts)
        /\ pc = "bind" /\ args' = args /\ avail' = avail
    BY <1>2 DEF Bind, TypeInv, TypeOK
  <2>2. PICK i \in DOMAIN mem.attempts : mem.attempts[i] = {f}
    BY <2>1 DEF BindInv
  <2>3. Head(mem.attempts) # {f}
    BY <2>1
  <2>4. i \in 2..Len(mem.attempts)
    BY <2>1, <2>2, <2>3
  <2>5. i - 1 \in DOMAIN Tail(mem.attempts) /\ Tail(mem.attempts)[i - 1] = {f}
    BY <2>1, <2>2, <2>4
  <2> QED BY <2>1, <2>5
<1>3. CASE UNCHANGED vars
  BY <1>3 DEF vars, BindInv
<1>4. CASE Save
  BY <1>4 DEF Save
<1> QED
  BY <1>1, <1>2, <1>3, <1>4
  DEF Next, Start, Step, Stop, Ends, Goto, Reset, LoadSecret, GenerateSecret, BindFails, LoadNetwork,
      NewNetwork, AdoptNetwork, StoreTopic, NoNetwork, StoreRnum, LoadNodes, Joined, JoinTimesOut,
      JoinFails

\* A start gives up binding only if no family that it asks for can be bound.
THEOREM BindsWhatItCan == Spec => []BindsIfPossible
<1>1. Spec => [](TypeInv /\ BindInv)
  BY TypeInit, TypeStep, BindInit, BindStep, PTL DEF Spec
<1>2. BindInv => BindsIfPossible
  BY DEF BindInv, BindsIfPossible
<1> QED BY <1>1, <1>2, PTL

-----------------------------------------------------------------------------
(* Tickets. *)

\* Every ticket that should still work names what is stored, and so does the
\* memory of a process as far as it has got; while rnum is still to be written
\* only tickets that have it already are left.
TicketInv ==
    /\ \A t \in printed : /\ t.key = db.sk /\ t.topic = db.topic /\ t.rnum = db.rnum
                          /\ t.port \in {None, db.port}
    /\ pc \in {"reset", "secret"} => mem.saved
    /\ pc \in HasKey /\ mem.saved => mem.key = db.sk
    /\ pc \in HasKey \ {"port"} => mem.port \in {None, db.port}
    /\ pc \in {"reset", "secret", "port"} => mem.port = None
    /\ pc = "rnum" => mem.topic = db.topic /\ \A t \in printed : t.rnum = mem.rnum
    /\ pc \in {"nodes", "join", "up"} => mem.topic = db.topic /\ mem.rnum = db.rnum

\* At first no ticket is printed.
LEMMA TicketInit == Init => TicketInv
BY DEF Init, TicketInv, HasKey

\* A ticket has a key and a network; none is left once one of them is missing.
LEMMA NothingPrinted ==
    ASSUME TypeInv, TicketInv, db.sk = None \/ ~Configured
    PROVE  printed = {}
<1> SUFFICES ASSUME NEW t \in printed PROVE FALSE
  OBVIOUS
<1>1. t.key \in Key /\ t.topic \in Network /\ t.rnum \in Network
  BY DEF TypeInv, TypeOK
<1>2. t.key = db.sk /\ t.topic = db.topic /\ t.rnum = db.rnum
  BY DEF TicketInv
<1> QED BY <1>1, <1>2, StartupAssumption DEF Configured

\* A ticket is printed from what is stored; what it names is replaced only when
\* no ticket of it is left.
LEMMA TicketStep == TypeInv /\ TicketInv /\ [Next]_vars => TicketInv'
<1> SUFFICES ASSUME TypeInv, TicketInv, [Next]_vars PROVE TicketInv'
  OBVIOUS
<1> USE DEF TicketInv, HasKey
<1>1. CASE Start
  BY <1>1 DEF Start, Goto, NoMem
<1>2. CASE Reset
  <2>1. CASE args.reset
    BY <1>2, <2>1 DEF Reset, Goto
  <2>2. CASE ~args.reset
    BY <1>2, <2>2 DEF Reset, Goto
  <2> QED BY <2>1, <2>2
<1>3. CASE LoadSecret
  <2>1. mem'.key = db.sk /\ mem'.port = mem.port /\ mem'.saved = mem.saved
    BY <1>3 DEF LoadSecret, TypeInv, TypeOK
  <2> QED BY <1>3, <2>1 DEF LoadSecret, Goto
<1>4. CASE GenerateSecret
  <2>1. PICK k \in {Fresh(Key, used.keys)}, saved \in BOOLEAN :
           /\ mem' = [mem EXCEPT !.key = k, !.saved = saved]
           /\ db' = IF saved THEN [db EXCEPT !.sk = k] ELSE db
    BY <1>4 DEF GenerateSecret
  <2>2. printed = {}
    BY <1>4, NothingPrinted DEF GenerateSecret
  <2>3. mem'.key = k /\ mem'.saved = saved /\ mem'.port = mem.port /\ (saved => db'.sk = k)
    BY <2>1 DEF TypeInv, TypeOK
  <2> QED BY <1>4, <2>2, <2>3 DEF GenerateSecret, Goto
<1>5. CASE AssignPort
  <2>1. /\ mem'.key = mem.key /\ mem'.saved = mem.saved
        /\ db'.sk = db.sk /\ db'.topic = db.topic /\ db'.rnum = db.rnum
    BY <1>5, PortAlone DEF TypeInv
  <2>2. mem'.port \in {None, db'.port} /\ db.port \in {None, db'.port}
    BY <1>5, PortAlone DEF AssignPort, Goto, TypeInv
  <2>3. pc = "port" /\ pc' = "bind" /\ printed' = printed
    BY <1>5 DEF AssignPort, Goto
  <2> QED BY <2>1, <2>2, <2>3
<1>6. CASE Bind
  <2>1. mem'.key = mem.key /\ mem'.saved = mem.saved /\ mem'.port = mem.port
    BY <1>6 DEF Bind, TypeInv, TypeOK
  <2> QED BY <1>6, <2>1 DEF Bind
<1>7. CASE Ends
  BY <1>7 DEF Ends
<1>8. CASE LoadNetwork
  <2>1. /\ mem'.key = mem.key /\ mem'.saved = mem.saved /\ mem'.port = mem.port
        /\ mem'.topic = db.topic /\ mem'.rnum = db.rnum
    BY <1>8 DEF LoadNetwork, TypeInv, TypeOK
  <2> QED BY <1>8, <2>1 DEF LoadNetwork
<1>9. ASSUME NEW n, StoreTopic(n)
      PROVE  /\ mem'.key = mem.key /\ mem'.saved = mem.saved /\ mem'.port = mem.port
             /\ mem'.topic = n /\ mem'.rnum = n /\ pc' = "rnum"
             /\ db'.sk = db.sk /\ db'.port = db.port /\ db'.topic = n /\ db'.rnum = db.rnum
  BY <1>9 DEF StoreTopic, TypeInv, TypeOK
<1>10. CASE NewNetwork
  <2>1. PICK n : StoreTopic(n)
    BY <1>10 DEF NewNetwork
  <2>2. printed' = {} /\ pc = "topic"
    BY <1>10, NothingPrinted DEF NewNetwork
  <2> QED BY <1>9, <2>1, <2>2
<1>11. CASE AdoptNetwork
  <2>1. StoreTopic(args.ticket) /\ pc = "topic"
        /\ printed' = {t \in printed : t.topic = args.ticket /\ t.rnum = args.ticket}
    BY <1>11 DEF AdoptNetwork
  <2> QED BY <1>9, <2>1
<1>12. CASE StoreRnum
  <2>1. db'.sk = db.sk /\ db'.port = db.port /\ db'.topic = db.topic /\ db'.rnum = mem.rnum
    BY <1>12 DEF StoreRnum, TypeInv, TypeOK
  <2> QED BY <1>12, <2>1 DEF StoreRnum, Goto
<1>13. CASE LoadNodes
  <2>1. /\ mem'.key = mem.key /\ mem'.saved = mem.saved /\ mem'.port = mem.port
        /\ mem'.topic = mem.topic /\ mem'.rnum = mem.rnum
    BY <1>13 DEF LoadNodes, TypeInv, TypeOK
  <2> QED BY <1>13, <2>1 DEF LoadNodes, Goto
<1>14. CASE Joined
  <2>1. \A t \in printed' :
           \/ t \in printed
           \/ mem.saved /\ t = [key |-> mem.key, topic |-> mem.topic, rnum |-> mem.rnum, port |-> mem.port]
    BY <1>14 DEF Joined
  <2> QED BY <1>14, <2>1 DEF Joined, Goto
<1>15. CASE JoinTimesOut
  <2>1. /\ mem'.key = mem.key /\ mem'.saved = mem.saved /\ mem'.port = mem.port
        /\ mem'.topic = mem.topic /\ mem'.rnum = mem.rnum
    BY <1>15 DEF JoinTimesOut, TypeInv, TypeOK
  <2> QED BY <1>15, <2>1 DEF JoinTimesOut
<1>16. CASE Save
  <2>1. db'.sk = db.sk /\ db'.port = db.port /\ db'.topic = db.topic /\ db'.rnum = db.rnum
    BY <1>16 DEF Save, TypeInv, TypeOK
  <2> QED BY <1>16, <2>1 DEF Save
<1>17. CASE UNCHANGED vars
  BY <1>17 DEF vars
<1> QED
  BY <1>1, <1>2, <1>3, <1>4, <1>5, <1>6, <1>7, <1>8, <1>10, <1>11, <1>12, <1>13, <1>14, <1>15,
     <1>16, <1>17 DEF Next, Step, BindFails, NoNetwork, JoinFails, Stop

\* A ticket once printed names the key, the network and the port of the daemon
\* that runs now, until a ticket of another network or a reset is given.
THEOREM TicketsLast == Spec => []TicketStillGood
<1>1. Spec => [](TypeInv /\ TicketInv)
  BY TypeInit, TypeStep, TicketInit, TicketStep, PTL DEF Spec
<1>2. TicketInv => TicketStillGood
  BY DEF TicketInv, TicketStillGood, HasKey
<1> QED BY <1>1, <1>2, PTL

-----------------------------------------------------------------------------
(* What a reset forgets. *)

\* What is known of networks, and whatever the process has at hand.
Networks == {db.topic, db.rnum, mem.topic, mem.rnum} \cup db.nodes
Held == Networks \cup {db.sk, mem.key} \cup mem.contacts

\* What is gone was drawn before or came with an earlier ticket, and is not at
\* hand any more.
ForgetInv ==
    /\ None \notin gone /\ args.ticket \notin gone
    /\ gone \cap Key \subseteq used.keys
    /\ gone \cap Own \subseteq used.networks
    /\ Networks \cap Own \subseteq used.networks
    /\ Held \cap gone = {}
    /\ pc = "reset" => mem = NoMem

\* At first nothing is gone.
LEMMA ForgetInit == Init => ForgetInv
BY StartupAssumption DEF Init, ForgetInv, Networks, Held, EmptyDb, NoMem, NoArgs, Network

\* A step that takes nothing to hand and forgets nothing.
LEMMA NothingTaken ==
    ASSUME ForgetInv, Held' \subseteq Held \cup {None}, Networks' \subseteq Networks \cup {None},
           gone' = gone, args' = args, used' = used, pc' # "reset"
    PROVE  ForgetInv'
BY StartupAssumption DEF ForgetInv, Network

\* A step that takes one new network to hand.
LEMMA NetworkTaken ==
    ASSUME ForgetInv, NEW n, n \notin gone, n \in Own => n \in used'.networks,
           Held' \subseteq Held \cup {n}, Networks' \subseteq Networks \cup {n},
           gone' = gone, args' = args, used'.keys = used.keys,
           used.networks \subseteq used'.networks, pc' # "reset"
    PROVE  ForgetInv'
BY DEF ForgetInv

\* What a step takes to hand is new, the given ticket, or was at hand.
LEMMA ForgetStep == TypeInv /\ ForgetInv /\ [Next]_vars => ForgetInv'
<1> SUFFICES ASSUME TypeInv, ForgetInv, [Next]_vars PROVE ForgetInv'
  OBVIOUS
<1>1. CASE Start
  <2>1. /\ mem' = NoMem /\ db' = db /\ gone' = gone \ {args'.ticket}
        /\ used'.keys = used.keys /\ used'.networks = used.networks
    BY <1>1 DEF Start, TypeInv, TypeOK
  <2>2. Networks' = {db.topic, db.rnum, None} \cup db.nodes /\ Held' = Networks' \cup {db.sk, None}
    BY <2>1 DEF Networks, Held, NoMem
  <2> QED BY <2>1, <2>2, StartupAssumption DEF ForgetInv, Networks, Held, Network
<1>2. CASE Reset
  <2>1. CASE args.reset
    <3>1. /\ mem = NoMem /\ mem' = mem /\ db' = EmptyDb /\ gone' = Wiped
          /\ used' = used /\ args' = args /\ pc' = "secret"
      BY <1>2, <2>1 DEF Reset, Goto, ForgetInv
    <3>2. Networks' = {None} /\ Held' = {None}
      BY <3>1 DEF Networks, Held, NoMem, EmptyDb
    <3>3. None \notin Wiped /\ args.ticket \notin Wiped
      BY DEF Wiped
    <3>4. Wiped \cap Key \subseteq used.keys
      BY StartupAssumption DEF Wiped, ForgetInv, TypeInv, TypeOK, OrNone, Network
    <3>5. Wiped \cap Own \subseteq used.networks
      BY StartupAssumption DEF Wiped, ForgetInv, Networks, TypeInv, TypeOK, Network
    <3> QED BY <3>1, <3>2, <3>3, <3>4, <3>5, StartupAssumption DEF ForgetInv, Network
  <2>2. CASE ~args.reset
    <3>1. mem' = mem /\ db' = db /\ gone' = gone /\ used' = used /\ args' = args /\ pc' = "secret"
      BY <1>2, <2>2 DEF Reset, Goto
    <3> QED BY <3>1, NothingTaken DEF Networks, Held
  <2> QED BY <2>1, <2>2
<1>3. CASE LoadSecret
  <2>1. Networks' = Networks /\ Held' \subseteq Held
    BY <1>3 DEF LoadSecret, Networks, Held, TypeInv, TypeOK
  <2> QED BY <1>3, <2>1, NothingTaken DEF LoadSecret, Goto
<1>4. CASE GenerateSecret
  <2>1. PICK k \in {Fresh(Key, used.keys)}, saved \in BOOLEAN :
           /\ mem' = [mem EXCEPT !.key = k, !.saved = saved]
           /\ db' = IF saved THEN [db EXCEPT !.sk = k] ELSE db
           /\ used' = [used EXCEPT !.keys = @ \cup {k}]
    BY <1>4 DEF GenerateSecret
  <2>2. k \in Key /\ k \notin used.keys
    BY <1>4, FreshIsNew, FS_CardinalityType, StartupAssumption
    DEF GenerateSecret, Goto, TypeInv, Supply, TypeOK
  <2>3. Networks' = Networks /\ Held' \subseteq Held \cup {k}
    BY <2>1 DEF Networks, Held, TypeInv, TypeOK
  <2>4. used'.keys = used.keys \cup {k} /\ used'.networks = used.networks
    BY <2>1 DEF TypeInv, TypeOK
  <2>5. gone' = gone /\ args' = args /\ pc' # "reset"
    BY <1>4 DEF GenerateSecret, Goto
  <2> QED BY <2>2, <2>3, <2>4, <2>5 DEF ForgetInv
<1>5. CASE AssignPort
  <2>1. Networks' = Networks /\ Held' = Held
    BY <1>5, PortAlone DEF Networks, Held, TypeInv
  <2>2. gone' = gone /\ args' = args /\ used' = used /\ pc' # "reset"
    BY <1>5 DEF AssignPort, Goto
  <2> QED BY <2>1, <2>2, NothingTaken
<1>6. CASE Bind
  <2>1. Networks' = Networks /\ Held' = Held
    <3>1. /\ mem'.key = mem.key /\ mem'.topic = mem.topic /\ mem'.rnum = mem.rnum
          /\ mem'.contacts = mem.contacts /\ db' = db
      BY <1>6 DEF Bind, TypeInv, TypeOK
    <3> QED BY <3>1 DEF Networks, Held
  <2> QED BY <1>6, <2>1, NothingTaken DEF Bind
<1>7. CASE Ends
  <2>1. Networks' \subseteq Networks \cup {None} /\ Held' \subseteq Held \cup {None}
    BY <1>7 DEF Ends, Networks, Held, NoMem
  <2>2. args'.ticket = None /\ gone' = gone /\ used' = used /\ pc' = "off"
    BY <1>7 DEF Ends, NoArgs
  <2> QED BY <2>1, <2>2, StartupAssumption DEF ForgetInv, Network
<1>8. CASE LoadNetwork
  <2>1. Networks' \subseteq Networks /\ Held' \subseteq Held
    BY <1>8 DEF LoadNetwork, Networks, Held, TypeInv, TypeOK
  <2> QED BY <1>8, <2>1, NothingTaken DEF LoadNetwork
<1>9. ASSUME NEW n, StoreTopic(n)
      PROVE  Networks' \subseteq Networks \cup {n} /\ Held' \subseteq Held \cup {n} /\ pc' # "reset"
  BY <1>9 DEF StoreTopic, Networks, Held, TypeInv, TypeOK
<1>10. CASE NewNetwork
  <2>1. PICK n \in {Fresh(Own, used.networks)} :
           StoreTopic(n) /\ used' = [used EXCEPT !.networks = @ \cup {n}]
    BY <1>10 DEF NewNetwork
  <2>2. n \in Own /\ n \notin used.networks
    BY <1>10, FreshIsNew, FS_CardinalityType, StartupAssumption
    DEF NewNetwork, TypeInv, Supply, TypeOK
  <2>3. used'.networks = used.networks \cup {n} /\ used'.keys = used.keys
    BY <2>1 DEF TypeInv, TypeOK
  <2>4. n \notin gone
    BY <2>2 DEF ForgetInv
  <2> QED BY <1>9, <1>10, <2>1, <2>3, <2>4, NetworkTaken DEF NewNetwork
<1>11. CASE AdoptNetwork
  <2>1. args.ticket \in Foreign /\ args.ticket \notin gone
    BY <1>11 DEF AdoptNetwork, TypeInv, TypeOK, OrNone, ForgetInv
  <2>2. args.ticket \notin Own
    BY <2>1, StartupAssumption
  <2> QED BY <1>9, <1>11, <2>1, <2>2, NetworkTaken DEF AdoptNetwork
<1>12. CASE StoreRnum
  <2>1. Networks' \subseteq Networks /\ Held' \subseteq Held
    BY <1>12 DEF StoreRnum, Networks, Held, TypeInv, TypeOK
  <2> QED BY <1>12, <2>1, NothingTaken DEF StoreRnum, Goto
<1>13. CASE LoadNodes
  <2>1. Networks' = Networks /\ Held' \subseteq Held \cup {args.ticket}
    BY <1>13 DEF LoadNodes, Networks, Held, TypeInv, TypeOK
  <2>2. UNCHANGED <<args, gone, used>> /\ pc' = "join"
    BY <1>13 DEF LoadNodes, Goto
  <2> QED BY <2>1, <2>2 DEF ForgetInv
<1>14. CASE Joined
  BY <1>14, NothingTaken DEF Joined, Goto, Networks, Held
<1>15. CASE JoinTimesOut
  <2>1. Networks' = Networks /\ Held' = Held
    BY <1>15 DEF JoinTimesOut, Networks, Held, TypeInv, TypeOK
  <2> QED BY <1>15, <2>1, NothingTaken DEF JoinTimesOut
<1>16. CASE Save
  <2>1. Networks' \subseteq Networks /\ Held' \subseteq Held
    BY <1>16 DEF Save, Networks, Held, TypeInv, TypeOK
  <2> QED BY <1>16, <2>1, NothingTaken DEF Save
<1>17. CASE UNCHANGED vars
  BY <1>17 DEF vars, ForgetInv, Networks, Held
<1> QED
  BY <1>1, <1>2, <1>3, <1>4, <1>5, <1>6, <1>7, <1>8, <1>10, <1>11, <1>12, <1>13, <1>14, <1>15,
     <1>16, <1>17 DEF Next, Step, BindFails, NoNetwork, JoinFails, Stop

\* After --reset-storage nothing the daemon had before comes back, but for a
\* network whose ticket it is given anew.
THEOREM ResetIsComplete == Spec => []ResetForgets
<1>1. Spec => [](TypeInv /\ ForgetInv)
  BY TypeInit, TypeStep, ForgetInit, ForgetStep, PTL DEF Spec
<1>2. ForgetInv => ResetForgets
  BY DEF ForgetInv, ResetForgets, Networks, Held
<1> QED BY <1>1, <1>2, PTL
=============================================================================
