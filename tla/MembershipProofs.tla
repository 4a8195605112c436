-------------------------- MODULE MembershipProofs --------------------------
(***************************************************************************)
(* TLAPS proofs about Membership, for every set of daemons, every network  *)
(* of holders, every clock error and every bound; the last part shows that *)
(* Membership implements Roster.                                           *)
(***************************************************************************)
EXTENDS MembershipRoster, TLAPS

MaybeRecord == Record \cup {None}
EntryType == [active : MaybeRecord, trusted : MaybeRecord]

\* The heartbeats of an entry are at most B.
EntryWithin(e, B) ==
    /\ e.active # None => e.active.hb <= B
    /\ e.trusted # None => e.trusted.hb <= B

-----------------------------------------------------------------------------
(* Lemmas about the operators on records and entries. *)

\* merge_node returns a record, no newer than the newer of its arguments.
LEMMA MergeNode ==
    ASSUME NEW existing \in MaybeRecord, NEW incoming \in Record
    PROVE  /\ merge_node(existing, incoming) \in Record
           /\ \A B \in Nat :
                /\ existing # None => existing.hb <= B
                /\ incoming.hb <= B
                => merge_node(existing, incoming).hb <= B
BY NoneAssumption DEF merge_node, merge_addr, has_ip_addr, MaybeRecord, Record

\* A record that Admit accepts ends in both maps, within the same bound.
LEMMA AdmitLemma ==
    ASSUME NEW e \in EntryType, NEW incoming \in Record
    PROVE  /\ Admit(e, incoming) \in EntryType
           /\ Admit(e, incoming).active # None
           /\ Admit(e, incoming).trusted # None
           /\ \A B \in Nat : EntryWithin(e, B) /\ incoming.hb <= B
                             => EntryWithin(Admit(e, incoming), B)
<1> DEFINE m == merge_node(e.active, incoming)
           n == merge_node(e.trusted, m)
<1>0. e.active \in MaybeRecord /\ e.trusted \in MaybeRecord
  BY DEF EntryType
<1>1. /\ m \in Record
      /\ \A B \in Nat : EntryWithin(e, B) /\ incoming.hb <= B => m.hb <= B
  BY <1>0, MergeNode DEF EntryWithin
<1>2. /\ n \in Record
      /\ \A B \in Nat : EntryWithin(e, B) /\ m.hb <= B => n.hb <= B
  <2> HIDE DEF m
  <2> QED BY <1>0, <1>1, MergeNode DEF EntryWithin
<1>3. Admit(e, incoming) = [active |-> m, trusted |-> n]
  BY DEF Admit
<1> HIDE DEF m, n
<1> QED BY <1>1, <1>2, <1>3, NoneAssumption DEF EntryType, EntryWithin, MaybeRecord

\* Learning from a directory never untrusts, keeps active peers trusted, and
\* takes over no heartbeat that the directory does not vouch for.
LEMMA LearnLemma ==
    ASSUME NEW e \in EntryType, NEW record \in MaybeRecord
    PROVE  /\ Learn(e, record) \in EntryType
           /\ e.trusted # None => Learn(e, record).trusted # None
           /\ (e.active # None => e.trusted # None)
              => (Learn(e, record).active # None => Learn(e, record).trusted # None)
           /\ record = None => Learn(e, record) = e
           /\ \A B \in Nat : EntryWithin(e, B) /\ (record # None => record.hb <= B)
                             => EntryWithin(Learn(e, record), B)
<1>1. CASE record # None /\ (e.active = None \/ e.active.hb < record.hb)
  <2>1. Learn(e, record) = Admit(e, record)
    BY <1>1 DEF Learn
  <2>2. record \in Record
    BY <1>1 DEF MaybeRecord
  <2> QED BY <1>1, <2>1, <2>2, AdmitLemma
<1>2. CASE ~(record # None /\ (e.active = None \/ e.active.hb < record.hb))
  BY <1>2 DEF Learn
<1> QED BY <1>1, <1>2

\* Stamping a sender that passed neither activates nor untrusts it.
LEMMA RefreshLemma ==
    ASSUME NEW e \in EntryType, NEW observed \in SUBSET IpAddr, NEW t \in Nat
    PROVE  /\ refresh_sender(e, observed, t) \in EntryType
           /\ e.trusted # None => refresh_sender(e, observed, t).trusted # None
           /\ (e.active # None => e.trusted # None)
              => (refresh_sender(e, observed, t).active # None
                    => refresh_sender(e, observed, t).trusted # None)
           /\ e.active = None => refresh_sender(e, observed, t) = e
           /\ \A B \in Nat : EntryWithin(e, B) /\ t <= B
                             => EntryWithin(refresh_sender(e, observed, t), B)
<1>1. CASE e.active = None
  BY <1>1 DEF refresh_sender
<1>2. CASE e.active # None /\ observed = {}
  <2> DEFINE r == [hb |-> t, addr |-> e.active.addr]
  <2>1. r \in Record
    BY <1>2 DEF EntryType, MaybeRecord, Record
  <2>2. refresh_sender(e, observed, t) = [e EXCEPT !.active = r]
    BY <1>2 DEF refresh_sender
  <2>3. r.hb = t
    OBVIOUS
  <2> HIDE DEF r
  <2> QED BY <1>2, <2>1, <2>2, <2>3, NoneAssumption DEF EntryType, EntryWithin, MaybeRecord
<1>3. CASE e.active # None /\ observed # {}
  <2> DEFINE r == [hb |-> t, addr |-> observed]
  <2>1. r \in Record
    BY DEF Record
  <2>2. refresh_sender(e, observed, t) = [active |-> r, trusted |-> r]
    BY <1>3 DEF refresh_sender
  <2>3. r.hb = t
    OBVIOUS
  <2> HIDE DEF r
  <2> QED BY <1>3, <2>1, <2>2, <2>3, NoneAssumption DEF EntryType, EntryWithin, MaybeRecord
<1> QED BY <1>1, <1>2, <1>3

-----------------------------------------------------------------------------
(* Type correctness. *)

LEMMA TimeType ==
    ASSUME TypeOK, NEW d \in Daemon
    PROVE  time_now(d) \in Nat
BY MembershipAssumption DEF TypeOK, time_now

LEMMA EntryInType ==
    ASSUME TypeOK, NEW d \in Daemon, NEW p \in Daemon
    PROVE  Entry(d, p) \in EntryType
BY DEF TypeOK, Directory, Entry, EntryType, MaybeRecord

LEMMA SetEntryType ==
    ASSUME TypeOK, NEW d \in Daemon, NEW p \in Daemon, NEW e \in EntryType,
           SetEntry(d, p, e)
    PROVE  /\ nodes' \in [Daemon -> Directory]
           /\ trusted' \in [Daemon -> Directory]
<1>1. e.active \in MaybeRecord /\ e.trusted \in MaybeRecord
  BY DEF EntryType
<1> QED BY <1>1 DEF TypeOK, SetEntry, Directory, MaybeRecord

LEMMA AdvertisedType ==
    ASSUME TypeOK, NEW d \in Daemon
    PROVE  /\ Advertised(d) \in SUBSET IpAddr
           /\ Observable(d) \subseteq SUBSET IpAddr
BY DEF TypeOK, Advertised, Observable

LEMMA UnknownType == Unknown \in Directory
BY DEF Unknown, Directory

\* Whatever a daemon signs is a set of well-formed copies stamped by its clock.
LEMMA CopiesType ==
    ASSUME TypeOK, NEW d \in Daemon, NEW type \in MessageType,
           NEW dir \in Directory, NEW receivers \in SUBSET Daemon
    PROVE  /\ Copies(Signed(d, type, dir), receivers) \subseteq Message
           /\ \A m \in Copies(Signed(d, type, dir), receivers) :
                /\ m.from = d /\ m.to \in receivers
                /\ m.ts = time_now(d) /\ m.nodes = dir
<1>1. time_now(d) \in Nat /\ Advertised(d) \in SUBSET IpAddr
  BY TimeType, AdvertisedType
<1> QED BY <1>1 DEF Copies, Signed, Message

LEMMA PostType ==
    ASSUME NEW rest \in SUBSET Message, NEW copies \in SUBSET Message,
           Post(rest, copies)
    PROVE  /\ msgs' \subseteq Message
           /\ msgs' \subseteq rest \cup copies
BY DEF Post

LEMMA StampedType ==
    ASSUME TypeOK, NEW d \in Daemon, NEW m \in msgs, NEW observed \in Observable(m.from)
    PROVE  Stamped(d, m, observed) \in EntryType
<1>1. m.from \in Daemon
  BY DEF TypeOK, Message
<1>2. Entry(d, m.from) \in EntryType /\ time_now(d) \in Nat /\ observed \in SUBSET IpAddr
  BY <1>1, EntryInType, TimeType, AdvertisedType
<1> QED BY <1>2, RefreshLemma DEF Stamped

LEMMA IncomingType ==
    ASSUME TypeOK, NEW d \in Daemon, NEW m \in msgs, NEW observed \in Observable(m.from),
           NEW late \in 0..1
    PROVE  Incoming(d, m, observed, late) \in Record
<1>1. m.from \in Daemon /\ m.addr \in SUBSET IpAddr
  BY DEF TypeOK, Message
<1>2. time_now(d) \in Nat /\ observed \in SUBSET IpAddr
  BY <1>1, TimeType, AdvertisedType
<1>3. time_now(d) + late \in Nat
  BY <1>2
<1> QED BY <1>1, <1>2, <1>3 DEF Incoming, sender_message_addr, Record

\* The two records a SyncResponse carries of its sender, or the one of a peer.
LEMMA ListedType ==
    ASSUME TypeOK, NEW m \in msgs, NEW observed \in Observable(m.from), NEW p \in Daemon
    PROVE  /\ [hb |-> m.ts, addr |-> sender_message_addr(observed, m.addr)] \in MaybeRecord
           /\ m.nodes[p] \in MaybeRecord
           /\ (IF m.nodes[p] = None THEN None
               ELSE [hb |-> m.nodes[p].hb,
                     addr |-> sender_message_addr(observed, m.nodes[p].addr)]) \in MaybeRecord
<1>1. /\ m.from \in Daemon /\ m.addr \in SUBSET IpAddr /\ m.ts \in Nat
      /\ m.nodes[p] \in MaybeRecord
  BY DEF TypeOK, Message, Directory, MaybeRecord
<1>2. observed \in SUBSET IpAddr
  BY <1>1, AdvertisedType
<1> QED BY <1>1, <1>2 DEF sender_message_addr, Record, MaybeRecord

LEMMA LearnedType ==
    ASSUME TypeOK, NEW d \in Daemon, NEW m \in msgs, NEW observed \in Observable(m.from),
           NEW p \in Daemon
    PROVE  Learned(d, m, observed, p) \in EntryType
<1> DEFINE own == [hb |-> m.ts, addr |-> sender_message_addr(observed, m.addr)]
           listed == IF m.nodes[p] = None THEN None
                     ELSE [hb |-> m.nodes[p].hb,
                           addr |-> sender_message_addr(observed, m.nodes[p].addr)]
<1>1. own \in MaybeRecord /\ m.nodes[p] \in MaybeRecord /\ listed \in MaybeRecord
  BY ListedType
<1>2. Stamped(d, m, observed) \in EntryType /\ Entry(d, p) \in EntryType
  BY StampedType, EntryInType
<1>3. Learned(d, m, observed, p) =
        IF p = d THEN Entry(d, p)
        ELSE IF p = m.from THEN Learn(Learn(Stamped(d, m, observed), listed), own)
        ELSE Learn(Entry(d, p), m.nodes[p])
  BY DEF Learned
<1> HIDE DEF own, listed
<1>4. Learn(Stamped(d, m, observed), listed) \in EntryType
  BY <1>1, <1>2, LearnLemma
<1>5. Learn(Learn(Stamped(d, m, observed), listed), own) \in EntryType
  BY <1>1, <1>4, LearnLemma
<1>6. Learn(Entry(d, p), m.nodes[p]) \in EntryType
  BY <1>1, <1>2, LearnLemma
<1> QED BY <1>2, <1>3, <1>5, <1>6

\* A copy of a message in flight to d, as a receiving action finds it.
LEMMA InboxType ==
    ASSUME TypeOK, NEW d \in Daemon, NEW type, NEW m \in Inbox(d, type)
    PROVE  m \in msgs /\ m.to = d /\ m.from \in Daemon /\ msgs \ {m} \subseteq Message
BY DEF TypeOK, Inbox, Message

LEMMA SavedType ==
    ASSUME TypeOK, NEW d \in Daemon
    PROVE  Saved(d) \in Directory
BY DEF TypeOK, Saved, Directory

LEMMA LoadedType ==
    ASSUME TypeOK, NEW d \in Daemon, NEW t \in StartTickets(d)
    PROVE  /\ t = None \/ (t \in issued /\ t.id \in Holders /\ t.id \in Daemon /\ t.rec \in Record)
           /\ LoadedTrusted(d, t) \in Directory
           /\ LoadedNodes(d, t) \in Directory
<1>1. t = None \/ (t \in issued /\ t.id \in Holders /\ t.id \in Daemon /\ t.rec \in Record)
  BY DEF TypeOK, StartTickets, Ticket
<1>2. stored[d] \in Directory
  BY DEF TypeOK
<1>3. LoadedTrusted(d, t) \in Directory
  BY <1>1, <1>2 DEF LoadedTrusted, Directory
<1> QED BY <1>1, <1>3 DEF LoadedNodes, Directory

LEMMA OwnRecordType ==
    ASSUME TypeOK, NEW d \in Daemon
    PROVE  current_node_state(d) \in Record
BY TimeType, AdvertisedType DEF current_node_state, Record

LEMMA TypeInit == Init => TypeOK
BY UnknownType DEF Init, TypeOK, Directory

LEMMA TypeStep == TypeOK /\ [Next]_vars => TypeOK'
<1> SUFFICES ASSUME TypeOK, [Next]_vars PROVE TypeOK'
  OBVIOUS
<1> USE MembershipAssumption
<1>1. CASE Tick
  BY <1>1 DEF Tick, TypeOK
<1>2. ASSUME NEW d \in Daemon, StartFails(d) PROVE TypeOK'
  BY <1>2 DEF StartFails, TypeOK
<1>3. ASSUME NEW d \in Daemon, Start(d) PROVE TypeOK'
  <2>1. PICK t \in StartTickets(d) :
          /\ trusted' = [trusted EXCEPT ![d] = LoadedTrusted(d, t)]
          /\ nodes' = [nodes EXCEPT ![d] = LoadedNodes(d, t)]
          /\ issued' = IF t = None
                       THEN issued \cup {[id |-> d, rec |-> current_node_state(d)]}
                       ELSE issued
    BY <1>3 DEF Start
  <2>2. LoadedTrusted(d, t) \in Directory /\ LoadedNodes(d, t) \in Directory
    BY LoadedType
  <2>3. nodes' \in [Daemon -> Directory] /\ trusted' \in [Daemon -> Directory]
    BY <2>1, <2>2 DEF TypeOK
  <2>4. issued' \subseteq Ticket
    BY <2>1, OwnRecordType DEF TypeOK, Ticket
  <2>5. PICK announced \in BOOLEAN :
          Post(msgs, Copies(Signed(d, "SyncRequest", Unknown), Others(d))
                     \cup IF announced
                          THEN Copies(Signed(d, "Invited", Unknown), Others(d))
                          ELSE {})
    BY <1>3 DEF Start
  <2>6. /\ Copies(Signed(d, "SyncRequest", Unknown), Others(d)) \subseteq Message
        /\ Copies(Signed(d, "Invited", Unknown), Others(d)) \subseteq Message
    BY UnknownType, CopiesType DEF Others, MessageType, TypeOK
  <2>7. msgs' \subseteq Message
    BY <2>5, <2>6, PostType DEF TypeOK
  <2>8. lastAlive' \in [Daemon -> Nat]
    BY <1>3, TimeType DEF Start, TypeOK
  <2>9. /\ now' \in Nat /\ up' \subseteq Daemon /\ configured' \subseteq Daemon
        /\ joinAnnounced' \subseteq Daemon /\ paused' \subseteq Daemon
        /\ stored' \in [Daemon -> Directory]
        /\ ip' \in [Daemon -> IpAddr \cup {None}] /\ admitted' \subseteq Daemon
        /\ used' \in [starts : Nat, stops : Nat, timers : Nat, admin : Nat, moves : Nat]
    BY <1>3 DEF Start, TypeOK
  <2> QED BY <2>3, <2>4, <2>7, <2>8, <2>9 DEF TypeOK
<1>4. ASSUME NEW d \in Daemon, Crash(d) PROVE TypeOK'
  BY <1>4, UnknownType DEF Crash, Down, TypeOK
<1>5. ASSUME NEW d \in Daemon, GracefulShutdown(d) PROVE TypeOK'
  <2>1. Copies(Signed(d, "Left", Unknown), Others(d)) \subseteq Message
    BY UnknownType, CopiesType DEF Others, MessageType, TypeOK
  <2>2. msgs' \subseteq Message
    BY <1>5, <2>1, PostType DEF GracefulShutdown, TypeOK
  <2> QED BY <1>5, <2>2, UnknownType, SavedType, TimeType DEF GracefulShutdown, Down, TypeOK
<1>6. ASSUME NEW d \in Daemon, StateTick(d) PROVE TypeOK'
  <2>1. Copies(Signed(d, "AboutMe", Unknown), Others(d)) \subseteq Message
    BY UnknownType, CopiesType DEF Others, MessageType, TypeOK
  <2>2. msgs' \subseteq Message /\ lastAlive' \in [Daemon -> Nat]
    BY <1>6, <2>1, PostType, TimeType DEF StateTick, TypeOK
  <2>3. \E dir \in Directory : nodes' = [nodes EXCEPT ![d] = dir]
    <3> DEFINE live == [p \in Daemon |->
                          IF nodes[d][p] # None /\ is_stale(nodes[d][p], time_now(d))
                          THEN None ELSE nodes[d][p]]
    <3>1. PICK gone : nodes' = [nodes EXCEPT ![d] =
                         [p \in Daemon |-> IF p \in gone THEN None ELSE live[p]]]
      BY <1>6 DEF StateTick
    <3>2. live \in Directory
      BY DEF TypeOK, Directory
    <3>3. [p \in Daemon |-> IF p \in gone THEN None ELSE live[p]] \in Directory
      <4> HIDE DEF live
      <4> QED BY <3>2 DEF Directory
    <3> QED BY <3>1, <3>3
  <2>4. nodes' \in [Daemon -> Directory]
    BY <2>3 DEF TypeOK
  <2> QED BY <1>6, <2>2, <2>4, SavedType DEF StateTick, TypeOK
<1>7. ASSUME NEW d \in Daemon, FullSyncTick(d) PROVE TypeOK'
  <2>1. Copies(Signed(d, "SyncRequest", Unknown), Others(d)) \subseteq Message
    BY UnknownType, CopiesType DEF Others, MessageType, TypeOK
  <2>2. msgs' \subseteq Message
    BY <1>7, <2>1, PostType DEF FullSyncTick, TypeOK
  <2> QED BY <1>7, <2>2, TimeType DEF FullSyncTick, TypeOK
<1>8. ASSUME NEW d \in Daemon, NeighborUp(d) PROVE TypeOK'
  <2>1. Copies(Signed(d, "Invited", Unknown), Others(d)) \subseteq Message
    BY UnknownType, CopiesType DEF Others, MessageType, TypeOK
  <2>2. msgs' \subseteq Message
    BY <1>8, <2>1, PostType DEF NeighborUp, TypeOK
  <2> QED BY <1>8, <2>2, TimeType DEF NeighborUp, TypeOK
<1>9. ASSUME NEW d \in Daemon, NEW m \in Inbox(d, "Invited"),
             NEW observed \in Observable(m.from), NEW late \in Late,
             HandleInvited(d, m, observed, late)
      PROVE  TypeOK'
  <2>1. /\ SetEntry(d, m.from,
                  IF Fresh(d, m) /\ validate(d, m.from)
                  THEN Admit(Stamped(d, m, observed), Incoming(d, m, observed, late))
                  ELSE Stamped(d, m, observed))
        /\ now' = now + late
        /\ msgs' = msgs \ {m}
    BY <1>9 DEF HandleInvited
  <2>2. Stamped(d, m, observed) \in EntryType /\ Incoming(d, m, observed, late) \in Record
    BY InboxType, StampedType, IncomingType DEF Late
  <2>3. Admit(Stamped(d, m, observed), Incoming(d, m, observed, late)) \in EntryType
    BY <2>2, AdmitLemma
  <2>4. nodes' \in [Daemon -> Directory] /\ trusted' \in [Daemon -> Directory]
    BY <2>1, <2>2, <2>3, InboxType, SetEntryType
  <2>5. now' \in Nat /\ msgs' \subseteq Message
    BY <2>1, InboxType DEF TypeOK, Late
  <2> QED BY <1>9, <2>4, <2>5 DEF HandleInvited, TypeOK
<1>10. ASSUME NEW d \in Daemon, NEW m \in Inbox(d, "AboutMe"),
             NEW observed \in Observable(m.from), NEW late \in Late,
             HandleAboutMe(d, m, observed, late)
      PROVE  TypeOK'
  <2>1. /\ SetEntry(d, m.from,
                  IF passed(d, m)
                  THEN Admit(Stamped(d, m, observed), Incoming(d, m, observed, late))
                  ELSE Entry(d, m.from))
        /\ now' = now + late
        /\ msgs' = msgs \ {m}
    BY <1>10 DEF HandleAboutMe
  <2>2. Stamped(d, m, observed) \in EntryType /\ Incoming(d, m, observed, late) \in Record
    BY InboxType, StampedType, IncomingType DEF Late
  <2>3. /\ Admit(Stamped(d, m, observed), Incoming(d, m, observed, late)) \in EntryType
        /\ Entry(d, m.from) \in EntryType
    BY <2>2, AdmitLemma, InboxType, EntryInType
  <2>4. nodes' \in [Daemon -> Directory] /\ trusted' \in [Daemon -> Directory]
    BY <2>1, <2>3, InboxType, SetEntryType
  <2>5. now' \in Nat /\ msgs' \subseteq Message
    BY <2>1, InboxType DEF TypeOK, Late
  <2> QED BY <1>10, <2>4, <2>5 DEF HandleAboutMe, TypeOK
<1>11. ASSUME NEW d \in Daemon, NEW m \in Inbox(d, "Left"),
             NEW observed \in Observable(m.from),
             HandleLeft(d, m, observed)
      PROVE  TypeOK'
  <2>1. /\ SetEntry(d, m.from,
                  IF passed(d, m)
                  THEN [Stamped(d, m, observed) EXCEPT !.active = None]
                  ELSE Entry(d, m.from))
        /\ msgs' = msgs \ {m}
    BY <1>11 DEF HandleLeft
  <2>2. Stamped(d, m, observed) \in EntryType /\ Entry(d, m.from) \in EntryType
    BY InboxType, StampedType, EntryInType
  <2>3. [Stamped(d, m, observed) EXCEPT !.active = None] \in EntryType
    BY <2>2 DEF EntryType, MaybeRecord
  <2>4. nodes' \in [Daemon -> Directory] /\ trusted' \in [Daemon -> Directory]
    BY <2>1, <2>2, <2>3, InboxType, SetEntryType
  <2>5. msgs' \subseteq Message
    BY <2>1, InboxType
  <2> QED BY <1>11, <2>4, <2>5 DEF HandleLeft, TypeOK
<1>12. ASSUME NEW d \in Daemon, NEW m \in Inbox(d, "SyncRequest"),
             NEW observed \in Observable(m.from),
             HandleSyncRequest(d, m, observed)
      PROVE  TypeOK'
  <2>1. /\ SetEntry(d, m.from, Stamped(d, m, observed))
        /\ Post(msgs \ {m}, Copies(Signed(d, "SyncResponse", nodes'[d]), {m.from}))
    BY <1>12 DEF HandleSyncRequest
  <2>2. Stamped(d, m, observed) \in EntryType
    BY InboxType, StampedType
  <2>3. nodes' \in [Daemon -> Directory] /\ trusted' \in [Daemon -> Directory]
    BY <2>1, <2>2, InboxType, SetEntryType
  <2>4. Copies(Signed(d, "SyncResponse", nodes'[d]), {m.from}) \subseteq Message
    BY <2>3, InboxType, CopiesType DEF MessageType
  <2>5. msgs' \subseteq Message
    <3>1. msgs \ {m} \in SUBSET Message
      BY InboxType
    <3>2. Copies(Signed(d, "SyncResponse", nodes'[d]), {m.from}) \in SUBSET Message
      BY <2>4
    <3> QED BY <2>1, <3>1, <3>2, PostType
  <2> QED BY <1>12, <2>3, <2>5, TimeType DEF HandleSyncRequest, TypeOK
<1>13. ASSUME NEW d \in Daemon, NEW m \in Inbox(d, "SyncResponse"),
             NEW observed \in Observable(m.from),
             HandleSyncResponse(d, m, observed)
      PROVE  TypeOK'
  <2>1. /\ IF passed(d, m)
           THEN /\ nodes' = [nodes EXCEPT ![d] =
                               [p \in Daemon |-> Learned(d, m, observed, p).active]]
                /\ trusted' = [trusted EXCEPT ![d] =
                               [p \in Daemon |-> Learned(d, m, observed, p).trusted]]
           ELSE UNCHANGED <<nodes, trusted>>
        /\ msgs' = msgs \ {m}
    BY <1>13 DEF HandleSyncResponse
  <2>2. \A p \in Daemon : Learned(d, m, observed, p) \in EntryType
    BY InboxType, LearnedType
  <2>3. /\ [p \in Daemon |-> Learned(d, m, observed, p).active] \in Directory
        /\ [p \in Daemon |-> Learned(d, m, observed, p).trusted] \in Directory
    BY <2>2 DEF EntryType, MaybeRecord, Directory
  <2>4. nodes' \in [Daemon -> Directory] /\ trusted' \in [Daemon -> Directory]
    BY <2>1, <2>3 DEF TypeOK
  <2>5. msgs' \subseteq Message
    BY <2>1, InboxType
  <2> QED BY <1>13, <2>4, <2>5 DEF HandleSyncResponse, TypeOK
<1>14. ASSUME NEW d \in Daemon, AddNode(d) PROVE TypeOK'
  <2>1. PICK t \in issued :
          /\ IF t.id = d
             THEN UNCHANGED <<nodes, trusted>>
             ELSE SetEntry(d, t.id, [active |-> t.rec,
                                     trusted |-> merge_node(trusted[d][t.id], t.rec)])
          /\ stored' = [stored EXCEPT ![d][t.id] = t.rec]
          /\ admitted' = admitted \cup {t.id}
    BY <1>14 DEF AddNode
  <2>2. t.id \in Daemon /\ t.rec \in Record
    BY DEF TypeOK, Ticket
  <2>3. trusted[d][t.id] \in MaybeRecord
    BY <2>2 DEF TypeOK, Directory, MaybeRecord
  <2>4. [active |-> t.rec, trusted |-> merge_node(trusted[d][t.id], t.rec)] \in EntryType
    BY <2>2, <2>3, MergeNode DEF EntryType, MaybeRecord
  <2>5. nodes' \in [Daemon -> Directory] /\ trusted' \in [Daemon -> Directory]
    BY <2>1, <2>2, <2>4, SetEntryType DEF TypeOK
  <2>6. stored' \in [Daemon -> Directory] /\ admitted' \subseteq Daemon
    BY <2>1, <2>2 DEF TypeOK, Directory
  <2> QED BY <1>14, <2>5, <2>6 DEF AddNode, TypeOK
<1>15. ASSUME NEW d \in Daemon, RemoveNode(d) PROVE TypeOK'
  <2>1. PICK p \in Daemon \ {d} :
          /\ SetEntry(d, p, [active |-> None, trusted |-> None])
          /\ stored' = [stored EXCEPT ![d][p] = None]
    BY <1>15 DEF RemoveNode
  <2>2. [active |-> None, trusted |-> None] \in EntryType
    BY DEF EntryType, MaybeRecord
  <2>3. nodes' \in [Daemon -> Directory] /\ trusted' \in [Daemon -> Directory]
    BY <2>1, <2>2, SetEntryType
  <2>4. stored' \in [Daemon -> Directory]
    BY <2>1 DEF TypeOK, Directory
  <2> QED BY <1>15, <2>3, <2>4 DEF RemoveNode, TypeOK
<1>16. ASSUME NEW d \in Daemon, Pause(d) \/ Resume(d) \/ ChangeAddr(d) PROVE TypeOK'
  BY <1>16 DEF Pause, Resume, ChangeAddr, TypeOK
<1>17. CASE UNCHANGED vars
  BY <1>17 DEF vars, TypeOK
<1> QED
  BY <1>1, <1>2, <1>3, <1>4, <1>5, <1>6, <1>7, <1>8, <1>9, <1>10, <1>11, <1>12,
     <1>13, <1>14, <1>15, <1>16, <1>17
  DEF Next, ReceiveInvited, ReceiveAboutMe, ReceiveLeft, ReceiveSyncRequest,
      ReceiveSyncResponse

\* The maps, the storage and the messages keep their shape: no handler stores
\* a record without a heartbeat, or an address outside the address space.
THEOREM TypeCorrect == Spec => []TypeOK
BY TypeInit, TypeStep, PTL DEF Spec

-----------------------------------------------------------------------------
(* What a handler may do to an entry, whatever the message. *)

\* Trust is not lost, and activity does not outrun trust.
Learns(old, new) ==
    /\ (old.active # None => old.trusted # None)
          => (new.active # None => new.trusted # None)
    /\ old.trusted # None => new.trusted # None

\* d may get to know a stranger q from m only if q holds the ticket, or if
\* the sender of m is trusted and lists q.
MayMeet(d, m, q) ==
    \/ q = m.from /\ q \in Holders
    \/ passed(d, m) /\ m.nodes[q] # None

Handled(d, m) ==
    /\ \A q \in Daemon :
         /\ Learns(Entry(d, q), Entry(d, q)')
         /\ \/ Entry(d, q)' = Entry(d, q)
            \/ Entry(d, q).active # None \/ Entry(d, q).trusted # None
            \/ MayMeet(d, m, q)
    /\ \A x \in Daemon \ {d}, q \in Daemon : Entry(x, q)' = Entry(x, q)

LEMMA SetEntryEffect ==
    ASSUME TypeOK, NEW d \in Daemon, NEW p \in Daemon, NEW e \in EntryType,
           SetEntry(d, p, e)
    PROVE  /\ Entry(d, p)' = e
           /\ \A q \in Daemon \ {p} : Entry(d, q)' = Entry(d, q)
           /\ \A x \in Daemon \ {d}, q \in Daemon : Entry(x, q)' = Entry(x, q)
<1>1. /\ nodes \in [Daemon -> Directory] /\ trusted \in [Daemon -> Directory]
      /\ nodes' = [nodes EXCEPT ![d][p] = e.active]
      /\ trusted' = [trusted EXCEPT ![d][p] = e.trusted]
  BY DEF TypeOK, SetEntry
<1>2. /\ nodes'[d][p] = e.active /\ trusted'[d][p] = e.trusted
      /\ \A q \in Daemon \ {p} : nodes'[d][q] = nodes[d][q] /\ trusted'[d][q] = trusted[d][q]
      /\ \A x \in Daemon \ {d} : nodes'[x] = nodes[x] /\ trusted'[x] = trusted[x]
  BY <1>1 DEF Directory
<1>3. e = [active |-> e.active, trusted |-> e.trusted]
  BY DEF EntryType
<1> QED BY <1>2, <1>3 DEF Entry

\* Stamping is harmless to trust.
LEMMA StampedLearns ==
    ASSUME TypeOK, NEW d \in Daemon, NEW m \in msgs, NEW observed \in Observable(m.from)
    PROVE  /\ Stamped(d, m, observed) \in EntryType
           /\ Learns(Entry(d, m.from), Stamped(d, m, observed))
           /\ \/ Stamped(d, m, observed) = Entry(d, m.from)
              \/ Entry(d, m.from).trusted # None
<1>1. m.from \in Daemon
  BY DEF TypeOK, Message
<1>2. Entry(d, m.from) \in EntryType /\ time_now(d) \in Nat /\ observed \in SUBSET IpAddr
  BY <1>1, EntryInType, TimeType, AdvertisedType
<1>3. passed(d, m) => Entry(d, m.from).trusted # None
  BY DEF passed, Entry
<1> QED BY <1>2, <1>3, RefreshLemma, StampedType DEF Stamped, Learns

LEMMA HandledInvited ==
    ASSUME TypeOK, NEW d \in Daemon, NEW m \in Inbox(d, "Invited"),
           NEW observed \in Observable(m.from), NEW late \in Late,
           HandleInvited(d, m, observed, late)
    PROVE  Handled(d, m)
<1> DEFINE new == IF Fresh(d, m) /\ validate(d, m.from)
                  THEN Admit(Stamped(d, m, observed), Incoming(d, m, observed, late))
                  ELSE Stamped(d, m, observed)
<1>1. SetEntry(d, m.from, new)
  BY DEF HandleInvited
<1>2. m \in msgs /\ m.from \in Daemon
  BY InboxType
<1>3. /\ Stamped(d, m, observed) \in EntryType
      /\ Learns(Entry(d, m.from), Stamped(d, m, observed))
      /\ \/ Stamped(d, m, observed) = Entry(d, m.from)
         \/ Entry(d, m.from).trusted # None
  BY <1>2, StampedLearns
<1>4. Incoming(d, m, observed, late) \in Record
  BY <1>2, IncomingType DEF Late
<1>5. /\ new \in EntryType
      /\ Learns(Entry(d, m.from), new)
      /\ new = Entry(d, m.from) \/ Entry(d, m.from).trusted # None \/ m.from \in Holders
  BY <1>3, <1>4, AdmitLemma DEF Learns, validate
<1> HIDE DEF new
<1>6. /\ Entry(d, m.from)' = new
      /\ \A q \in Daemon \ {m.from} : Entry(d, q)' = Entry(d, q)
      /\ \A x \in Daemon \ {d}, q \in Daemon : Entry(x, q)' = Entry(x, q)
  BY <1>1, <1>2, <1>5, SetEntryEffect
<1> QED BY <1>5, <1>6 DEF Handled, MayMeet, Learns

LEMMA HandledAboutMe ==
    ASSUME TypeOK, NEW d \in Daemon, NEW m \in Inbox(d, "AboutMe"),
           NEW observed \in Observable(m.from), NEW late \in Late,
           HandleAboutMe(d, m, observed, late)
    PROVE  Handled(d, m)
<1> DEFINE new == IF passed(d, m)
                  THEN Admit(Stamped(d, m, observed), Incoming(d, m, observed, late))
                  ELSE Entry(d, m.from)
<1>1. SetEntry(d, m.from, new)
  BY DEF HandleAboutMe
<1>2. m \in msgs /\ m.from \in Daemon /\ Entry(d, m.from) \in EntryType
  BY InboxType, EntryInType
<1>3. Stamped(d, m, observed) \in EntryType /\ Incoming(d, m, observed, late) \in Record
  BY <1>2, StampedType, IncomingType DEF Late
<1>4. passed(d, m) => Entry(d, m.from).trusted # None
  BY DEF passed, Entry
<1>5. /\ new \in EntryType
      /\ Learns(Entry(d, m.from), new)
      /\ new = Entry(d, m.from) \/ Entry(d, m.from).trusted # None
  BY <1>2, <1>3, <1>4, AdmitLemma DEF Learns
<1> HIDE DEF new
<1>6. /\ Entry(d, m.from)' = new
      /\ \A q \in Daemon \ {m.from} : Entry(d, q)' = Entry(d, q)
      /\ \A x \in Daemon \ {d}, q \in Daemon : Entry(x, q)' = Entry(x, q)
  BY <1>1, <1>2, <1>5, SetEntryEffect
<1> QED BY <1>5, <1>6 DEF Handled, Learns

LEMMA HandledLeft ==
    ASSUME TypeOK, NEW d \in Daemon, NEW m \in Inbox(d, "Left"),
           NEW observed \in Observable(m.from), HandleLeft(d, m, observed)
    PROVE  Handled(d, m)
<1> DEFINE new == IF passed(d, m)
                  THEN [Stamped(d, m, observed) EXCEPT !.active = None]
                  ELSE Entry(d, m.from)
<1>1. SetEntry(d, m.from, new)
  BY DEF HandleLeft
<1>2. m \in msgs /\ m.from \in Daemon /\ Entry(d, m.from) \in EntryType
  BY InboxType, EntryInType
<1>3. /\ Stamped(d, m, observed) \in EntryType
      /\ Learns(Entry(d, m.from), Stamped(d, m, observed))
  BY <1>2, StampedLearns
<1>4. passed(d, m) => Entry(d, m.from).trusted # None
  BY DEF passed, Entry
<1>5. /\ new \in EntryType
      /\ Learns(Entry(d, m.from), new)
      /\ new = Entry(d, m.from) \/ Entry(d, m.from).trusted # None
  BY <1>2, <1>3, <1>4 DEF Learns, EntryType, MaybeRecord
<1> HIDE DEF new
<1>6. /\ Entry(d, m.from)' = new
      /\ \A q \in Daemon \ {m.from} : Entry(d, q)' = Entry(d, q)
      /\ \A x \in Daemon \ {d}, q \in Daemon : Entry(x, q)' = Entry(x, q)
  BY <1>1, <1>2, <1>5, SetEntryEffect
<1> QED BY <1>5, <1>6 DEF Handled, Learns

LEMMA HandledSyncRequest ==
    ASSUME TypeOK, NEW d \in Daemon, NEW m \in Inbox(d, "SyncRequest"),
           NEW observed \in Observable(m.from), HandleSyncRequest(d, m, observed)
    PROVE  Handled(d, m)
<1>1. SetEntry(d, m.from, Stamped(d, m, observed))
  BY DEF HandleSyncRequest
<1>2. m \in msgs /\ m.from \in Daemon
  BY InboxType
<1>3. /\ Stamped(d, m, observed) \in EntryType
      /\ Learns(Entry(d, m.from), Stamped(d, m, observed))
      /\ \/ Stamped(d, m, observed) = Entry(d, m.from)
         \/ Entry(d, m.from).trusted # None
  BY <1>2, StampedLearns
<1>4. /\ Entry(d, m.from)' = Stamped(d, m, observed)
      /\ \A q \in Daemon \ {m.from} : Entry(d, q)' = Entry(d, q)
      /\ \A x \in Daemon \ {d}, q \in Daemon : Entry(x, q)' = Entry(x, q)
  BY <1>1, <1>2, <1>3, SetEntryEffect
<1> QED BY <1>3, <1>4 DEF Handled, Learns

LEMMA LearnedLearns ==
    ASSUME TypeOK, NEW d \in Daemon, NEW m \in msgs, NEW observed \in Observable(m.from),
           NEW p \in Daemon, passed(d, m)
    PROVE  /\ Learned(d, m, observed, p) \in EntryType
           /\ Learns(Entry(d, p), Learned(d, m, observed, p))
           /\ \/ Learned(d, m, observed, p) = Entry(d, p)
              \/ Entry(d, p).trusted # None
              \/ m.nodes[p] # None
<1> DEFINE own == [hb |-> m.ts, addr |-> sender_message_addr(observed, m.addr)]
           listed == IF m.nodes[p] = None THEN None
                     ELSE [hb |-> m.nodes[p].hb,
                           addr |-> sender_message_addr(observed, m.nodes[p].addr)]
           heard == Stamped(d, m, observed)
<1>1. own \in MaybeRecord /\ m.nodes[p] \in MaybeRecord /\ listed \in MaybeRecord
  BY ListedType
<1>2. Entry(d, p) \in EntryType
  BY EntryInType
<1>3. Learned(d, m, observed, p) =
        IF p = d THEN Entry(d, p)
        ELSE IF p = m.from THEN Learn(Learn(heard, listed), own)
        ELSE Learn(Entry(d, p), m.nodes[p])
  BY DEF Learned
<1>4. Learned(d, m, observed, p) \in EntryType
  BY LearnedType
<1>5. CASE p = d
  BY <1>3, <1>4, <1>5 DEF Learns
<1>6. CASE p # d /\ p = m.from
  <2>1. /\ heard \in EntryType
        /\ Learns(Entry(d, p), heard)
    BY <1>6, StampedLearns
  <2>2. Entry(d, p).trusted # None
    BY <1>6 DEF passed, Entry
  <2> HIDE DEF own, listed, heard
  <2>3. /\ Learn(heard, listed) \in EntryType
        /\ Learns(heard, Learn(heard, listed))
    BY <1>1, <2>1, LearnLemma DEF Learns
  <2>4. Learns(Learn(heard, listed), Learn(Learn(heard, listed), own))
    BY <1>1, <2>3, LearnLemma DEF Learns
  <2> QED BY <1>3, <1>4, <1>6, <2>1, <2>2, <2>3, <2>4 DEF Learns
<1>7. CASE p # d /\ p # m.from
  BY <1>1, <1>2, <1>3, <1>4, <1>7, LearnLemma DEF Learns
<1> QED BY <1>5, <1>6, <1>7

LEMMA HandledSyncResponse ==
    ASSUME TypeOK, NEW d \in Daemon, NEW m \in Inbox(d, "SyncResponse"),
           NEW observed \in Observable(m.from), HandleSyncResponse(d, m, observed)
    PROVE  Handled(d, m)
<1>1. m \in msgs
  BY InboxType
<1>2. CASE passed(d, m)
  <2>1. /\ nodes' = [nodes EXCEPT ![d] =
                       [p \in Daemon |-> Learned(d, m, observed, p).active]]
        /\ trusted' = [trusted EXCEPT ![d] =
                       [p \in Daemon |-> Learned(d, m, observed, p).trusted]]
    BY <1>2 DEF HandleSyncResponse
  <2>2. /\ \A q \in Daemon : nodes'[d][q] = Learned(d, m, observed, q).active
        /\ \A q \in Daemon : trusted'[d][q] = Learned(d, m, observed, q).trusted
        /\ \A x \in Daemon \ {d} : nodes'[x] = nodes[x] /\ trusted'[x] = trusted[x]
    BY <2>1 DEF TypeOK
  <2>3. \A q \in Daemon : Learned(d, m, observed, q) \in EntryType
    BY <1>1, LearnedType
  <2>4. \A q \in Daemon : Entry(d, q)' = Learned(d, m, observed, q)
    BY <2>2, <2>3 DEF Entry, EntryType
  <2>5. \A x \in Daemon \ {d}, q \in Daemon : Entry(x, q)' = Entry(x, q)
    BY <2>2 DEF Entry
  <2> QED BY <1>1, <1>2, <2>4, <2>5, LearnedLearns DEF Handled, MayMeet
<1>3. CASE ~passed(d, m)
  <2>1. \A x \in Daemon, q \in Daemon : Entry(x, q)' = Entry(x, q)
    BY <1>3 DEF HandleSyncResponse, Entry
  <2> QED BY <2>1 DEF Handled, Learns
<1> QED BY <1>2, <1>3

-----------------------------------------------------------------------------
(* Trust: the invariant behind TrustGrounded, ActiveTrusted, StoredTrusted. *)

\* Nobody writes to itself, and a directory on its way names only holders,
\* admitted nodes and its sender.
GroundedMessages ==
    \A m \in msgs :
        /\ m.from # m.to
        /\ \A p \in Daemon \ (Holders \cup admitted) :
              p # m.from => m.nodes[p] = None

TrustInv ==
    /\ TypeOK
    /\ ActiveTrusted
    /\ StoredTrusted
    /\ TrustGrounded
    /\ GroundedMessages

\* A receiving step keeps the parts of TrustInv about directories.
LEMMA HandledTrust ==
    ASSUME TrustInv, NEW d \in Daemon, NEW m \in msgs, m.to = d, Handled(d, m),
           UNCHANGED <<up, stored, admitted>>
    PROVE  ActiveTrusted' /\ StoredTrusted' /\ TrustGrounded'
<1> USE DEF TrustInv
<1>1. \A x \in Daemon, q \in Daemon : Learns(Entry(x, q), Entry(x, q)')
  BY DEF Handled, Learns
<1>2. ActiveTrusted'
  BY <1>1 DEF ActiveTrusted, Learns, Entry
<1>3. StoredTrusted'
  <2> SUFFICES ASSUME NEW x \in up', NEW q \in Daemon, q # x, stored'[x][q] # None
               PROVE  trusted'[x][q] # None
    BY DEF StoredTrusted
  <2>1. x \in Daemon /\ trusted[x][q] # None
    BY DEF StoredTrusted, TypeOK
  <2> QED BY <1>1, <2>1 DEF Learns, Entry
<1>4. TrustGrounded'
  <2> SUFFICES ASSUME NEW x \in Daemon, NEW q \in Daemon \ (Holders \cup admitted), q # x
               PROVE  nodes'[x][q] = None /\ trusted'[x][q] = None
    BY DEF TrustGrounded
  <2>1. nodes[x][q] = None /\ trusted[x][q] = None
    BY DEF TrustGrounded
  <2>2. x = d => ~MayMeet(d, m, q)
    <3> SUFFICES ASSUME x = d, MayMeet(d, m, q) PROVE FALSE
      OBVIOUS
    <3>1. passed(d, m) /\ m.nodes[q] # None
      BY DEF MayMeet
    <3>2. q = m.from
      BY <3>1 DEF GroundedMessages
    <3> QED BY <2>1, <3>1, <3>2 DEF passed
  <2>3. Entry(x, q)' = Entry(x, q)
    BY <2>1, <2>2 DEF Handled, Entry
  <2> QED BY <2>1, <2>3 DEF Entry
<1> QED BY <1>2, <1>3, <1>4

\* Messages without a directory are always grounded.
LEMMA AnnounceGrounded ==
    ASSUME TypeOK, NEW d \in Daemon, NEW type \in MessageType
    PROVE  \A m \in Copies(Signed(d, type, Unknown), Others(d)) :
             /\ m.from # m.to
             /\ \A p \in Daemon : m.nodes[p] = None
BY UnknownType, CopiesType DEF Others, TypeOK, Unknown

\* cleanup() drops records and changes none.
LEMMA TickForgets ==
    ASSUME TypeOK, NEW d \in Daemon, StateTick(d)
    PROVE  /\ \A p \in Daemon : nodes'[d][p] = None \/ nodes'[d][p] = nodes[d][p]
           /\ \A x \in Daemon \ {d} : nodes'[x] = nodes[x]
<1> DEFINE live == [p \in Daemon |->
                      IF nodes[d][p] # None /\ is_stale(nodes[d][p], time_now(d))
                      THEN None ELSE nodes[d][p]]
<1>1. PICK gone : nodes' = [nodes EXCEPT ![d] =
                     [p \in Daemon |-> IF p \in gone THEN None ELSE live[p]]]
  BY DEF StateTick
<1>2. \A p \in Daemon : live[p] = None \/ live[p] = nodes[d][p]
  OBVIOUS
<1> HIDE DEF live
<1> QED BY <1>1, <1>2 DEF TypeOK

LEMMA TrustInit == Init => TrustInv
BY TypeInit DEF Init, TrustInv, ActiveTrusted, StoredTrusted, TrustGrounded,
                GroundedMessages, Unknown

LEMMA TrustStep == TrustInv /\ [Next]_vars => TrustInv'
<1> SUFFICES ASSUME TrustInv, [Next]_vars PROVE TrustInv'
  OBVIOUS
<1>0. TypeOK /\ TypeOK'
  BY TypeStep DEF TrustInv
<1> USE DEF TrustInv
<1>1. CASE Tick \/ UNCHANGED vars
  BY <1>0, <1>1 DEF Tick, vars, ActiveTrusted, StoredTrusted, TrustGrounded, GroundedMessages
<1>2. ASSUME NEW d \in Daemon, StartFails(d) \/ Pause(d) \/ Resume(d) \/ ChangeAddr(d)
      PROVE  TrustInv'
  BY <1>0, <1>2 DEF StartFails, Pause, Resume, ChangeAddr, ActiveTrusted, StoredTrusted,
                    TrustGrounded, GroundedMessages
<1>3. ASSUME NEW d \in Daemon, Start(d) PROVE TrustInv'
  <2>1. PICK t \in StartTickets(d) :
          /\ trusted' = [trusted EXCEPT ![d] = LoadedTrusted(d, t)]
          /\ nodes' = [nodes EXCEPT ![d] = LoadedNodes(d, t)]
    BY <1>3 DEF Start
  <2>2. /\ t = None \/ (t \in issued /\ t.id \in Holders /\ t.id \in Daemon /\ t.rec \in Record)
        /\ LoadedTrusted(d, t) \in Directory
    BY <1>0, LoadedType
  <2>3. /\ \A p \in Daemon :
             /\ trusted'[d][p] = LoadedTrusted(d, t)[p]
             /\ nodes'[d][p] = LoadedNodes(d, t)[p]
        /\ \A x \in Daemon \ {d} : nodes'[x] = nodes[x] /\ trusted'[x] = trusted[x]
    BY <1>0, <2>1 DEF TypeOK
  <2>4. \A p \in Daemon \ {d} :
          /\ LoadedNodes(d, t)[p] = LoadedTrusted(d, t)[p]
          /\ stored[d][p] # None => LoadedTrusted(d, t)[p] # None
          /\ LoadedTrusted(d, t)[p] # None => stored[d][p] # None \/ p \in Holders
    BY <2>2, NoneAssumption DEF LoadedNodes, LoadedTrusted, Directory
  <2>5. UNCHANGED <<stored, admitted>> /\ up' = up \cup {d}
    BY <1>3 DEF Start
  <2>6. ActiveTrusted'
    BY <2>3, <2>4 DEF ActiveTrusted
  <2>7. StoredTrusted'
    <3> SUFFICES ASSUME NEW x \in up', NEW p \in Daemon, p # x, stored'[x][p] # None
                 PROVE  trusted'[x][p] # None
      BY DEF StoredTrusted
    <3>1. CASE x = d
      BY <2>3, <2>4, <2>5, <3>1
    <3>2. CASE x # d
      BY <1>0, <2>3, <2>5, <3>2 DEF StoredTrusted, TypeOK
    <3> QED BY <3>1, <3>2
  <2>8. TrustGrounded'
    <3> SUFFICES ASSUME NEW x \in Daemon, NEW p \in Daemon \ (Holders \cup admitted), p # x
                 PROVE  nodes'[x][p] = None /\ trusted'[x][p] = None /\ stored'[x][p] = None
      BY <2>5 DEF TrustGrounded
    <3>1. nodes[x][p] = None /\ trusted[x][p] = None /\ stored[x][p] = None
      BY DEF TrustGrounded
    <3> QED BY <2>3, <2>4, <2>5, <3>1
  <2>9. GroundedMessages'
    <3>1. \A m \in msgs' : \/ m \in msgs
                           \/ m \in Copies(Signed(d, "SyncRequest", Unknown), Others(d))
                           \/ m \in Copies(Signed(d, "Invited", Unknown), Others(d))
      BY <1>3 DEF Start, Post
    <3> QED BY <1>0, <2>5, <3>1, AnnounceGrounded DEF GroundedMessages, MessageType
  <2> QED BY <1>0, <2>6, <2>7, <2>8, <2>9
<1>4. ASSUME NEW d \in Daemon, Crash(d) \/ GracefulShutdown(d) PROVE TrustInv'
  <2>1. /\ \A p \in Daemon : nodes'[d][p] = None /\ trusted'[d][p] = None
        /\ \A x \in Daemon \ {d} : nodes'[x] = nodes[x] /\ trusted'[x] = trusted[x]
        /\ d \notin up' /\ up' \subseteq up /\ admitted' = admitted
    BY <1>0, <1>4 DEF Crash, GracefulShutdown, Down, TypeOK, Unknown
  <2>2. /\ \A x \in Daemon \ {d} : stored'[x] = stored[x]
        /\ \A p \in Daemon : stored'[d][p] = stored[d][p]
                             \/ (p # d /\ stored'[d][p] = trusted[d][p])
    BY <1>0, <1>4 DEF Crash, GracefulShutdown, Saved, TypeOK, Directory
  <2>3. \A m \in msgs' : m \in msgs \/ m \in Copies(Signed(d, "Left", Unknown), Others(d))
    BY <1>4 DEF Crash, GracefulShutdown, Post
  <2>4. ActiveTrusted' /\ StoredTrusted'
    BY <1>0, <2>1, <2>2 DEF ActiveTrusted, StoredTrusted, TypeOK
  <2>5. TrustGrounded'
    BY <2>1, <2>2 DEF TrustGrounded
  <2>6. GroundedMessages'
    BY <1>0, <2>1, <2>3, AnnounceGrounded DEF GroundedMessages, MessageType
  <2> QED BY <1>0, <2>4, <2>5, <2>6
<1>5. ASSUME NEW d \in Daemon, StateTick(d) PROVE TrustInv'
  <2>1. UNCHANGED <<up, trusted, admitted>>
    BY <1>5 DEF StateTick
  <2>2. /\ \A p \in Daemon : nodes'[d][p] = None \/ nodes'[d][p] = nodes[d][p]
        /\ \A x \in Daemon \ {d} : nodes'[x] = nodes[x]
    BY <1>0, <1>5, TickForgets
  <2>3. /\ \A x \in Daemon \ {d} : stored'[x] = stored[x]
        /\ \A p \in Daemon : \/ stored'[d][p] = stored[d][p]
                             \/ stored'[d][p] = trusted[d][p]
    BY <1>0, <1>5 DEF StateTick, Saved, TypeOK
  <2>4. \A m \in msgs' : m \in msgs \/ m \in Copies(Signed(d, "AboutMe", Unknown), Others(d))
    BY <1>5 DEF StateTick, Post
  <2>5. ActiveTrusted'
    BY <2>1, <2>2 DEF ActiveTrusted
  <2>6. StoredTrusted'
    BY <1>0, <2>1, <2>3 DEF StoredTrusted, TypeOK
  <2>7. TrustGrounded'
    BY <2>1, <2>2, <2>3 DEF TrustGrounded
  <2>8. GroundedMessages'
    BY <1>0, <2>1, <2>4, AnnounceGrounded DEF GroundedMessages, MessageType
  <2> QED BY <1>0, <2>5, <2>6, <2>7, <2>8
<1>6. ASSUME NEW d \in Daemon, FullSyncTick(d) \/ NeighborUp(d) PROVE TrustInv'
  <2>1. \A m \in msgs' : \/ m \in msgs
                         \/ m \in Copies(Signed(d, "SyncRequest", Unknown), Others(d))
                         \/ m \in Copies(Signed(d, "Invited", Unknown), Others(d))
    BY <1>6 DEF FullSyncTick, NeighborUp, Post
  <2>2. UNCHANGED <<up, nodes, trusted, stored, admitted>>
    BY <1>6 DEF FullSyncTick, NeighborUp
  <2>3. GroundedMessages'
    BY <1>0, <2>1, <2>2, AnnounceGrounded DEF GroundedMessages, MessageType
  <2> QED BY <1>0, <2>2, <2>3 DEF ActiveTrusted, StoredTrusted, TrustGrounded
<1>7. ASSUME NEW d \in Daemon, NEW m \in msgs, m.to = d, Handled(d, m),
             UNCHANGED <<up, stored, admitted>>, msgs' \subseteq msgs
      PROVE  TrustInv'
  BY <1>0, <1>7, HandledTrust DEF GroundedMessages
<1>8. ASSUME NEW d \in Daemon, ReceiveInvited(d) PROVE TrustInv'
  <2>1. PICK m \in Inbox(d, "Invited") :
          \E observed \in Observable(m.from), late \in Late : HandleInvited(d, m, observed, late)
    BY <1>8 DEF ReceiveInvited
  <2>2. Handled(d, m)
    BY <1>0, <2>1, HandledInvited
  <2> QED BY <1>0, <1>7, <2>1, <2>2, InboxType DEF HandleInvited
<1>9. ASSUME NEW d \in Daemon, ReceiveAboutMe(d) PROVE TrustInv'
  <2>1. PICK m \in Inbox(d, "AboutMe") :
          \E observed \in Observable(m.from), late \in Late : HandleAboutMe(d, m, observed, late)
    BY <1>9 DEF ReceiveAboutMe
  <2>2. Handled(d, m)
    BY <1>0, <2>1, HandledAboutMe
  <2> QED BY <1>0, <1>7, <2>1, <2>2, InboxType DEF HandleAboutMe
<1>10. ASSUME NEW d \in Daemon, ReceiveLeft(d) PROVE TrustInv'
  <2>1. PICK m \in Inbox(d, "Left") :
          \E observed \in Observable(m.from) : HandleLeft(d, m, observed)
    BY <1>10 DEF ReceiveLeft
  <2>2. Handled(d, m)
    BY <1>0, <2>1, HandledLeft
  <2> QED BY <1>0, <1>7, <2>1, <2>2, InboxType DEF HandleLeft
<1>11. ASSUME NEW d \in Daemon, ReceiveSyncResponse(d) PROVE TrustInv'
  <2>1. PICK m \in Inbox(d, "SyncResponse") :
          \E observed \in Observable(m.from) : HandleSyncResponse(d, m, observed)
    BY <1>11 DEF ReceiveSyncResponse
  <2>2. Handled(d, m)
    BY <1>0, <2>1, HandledSyncResponse
  <2> QED BY <1>0, <1>7, <2>1, <2>2, InboxType DEF HandleSyncResponse
<1>12. ASSUME NEW d \in Daemon, ReceiveSyncRequest(d) PROVE TrustInv'
  <2>1. PICK m \in Inbox(d, "SyncRequest") :
          \E observed \in Observable(m.from) : HandleSyncRequest(d, m, observed)
    BY <1>12 DEF ReceiveSyncRequest
  <2>2. Handled(d, m)
    BY <1>0, <2>1, HandledSyncRequest
  <2>3. ActiveTrusted' /\ StoredTrusted' /\ TrustGrounded'
    BY <1>0, <2>1, <2>2, InboxType, HandledTrust DEF HandleSyncRequest
  <2>4. \A r \in msgs' : r \in msgs \/ r \in Copies(Signed(d, "SyncResponse", nodes'[d]), {m.from})
    BY <2>1 DEF HandleSyncRequest, Post
  <2>5. m \in msgs /\ m.to = d /\ m.from \in Daemon /\ m.from # d
    BY <1>0, InboxType DEF GroundedMessages
  <2>6. nodes'[d] \in Directory
    BY <1>0 DEF TypeOK
  <2>7. \A r \in Copies(Signed(d, "SyncResponse", nodes'[d]), {m.from}) :
          r.from = d /\ r.to = m.from /\ r.nodes = nodes'[d]
    BY <1>0, <2>5, <2>6, CopiesType DEF MessageType
  <2>8. admitted' = admitted
    BY <2>1 DEF HandleSyncRequest
  <2>9. GroundedMessages'
    <3>1. ASSUME NEW r \in msgs', r \in msgs
          PROVE  /\ r.from # r.to
                 /\ \A p \in Daemon \ (Holders \cup admitted') : p # r.from => r.nodes[p] = None
      BY <1>0, <2>8, <3>1 DEF GroundedMessages
    <3>2. ASSUME NEW r \in msgs', r \notin msgs
          PROVE  /\ r.from # r.to
                 /\ \A p \in Daemon \ (Holders \cup admitted') : p # r.from => r.nodes[p] = None
      <4>1. r.from = d /\ r.to = m.from /\ r.nodes = nodes'[d]
        BY <2>4, <2>7, <3>2
      <4>2. \A p \in Daemon \ (Holders \cup admitted') : p # d => nodes'[d][p] = None
        BY <2>3 DEF TrustGrounded
      <4> QED BY <2>5, <4>1, <4>2
    <3> QED BY <3>1, <3>2 DEF GroundedMessages
  <2> QED BY <1>0, <2>3, <2>9
<1>13. ASSUME NEW d \in Daemon, AddNode(d) PROVE TrustInv'
  <2>1. PICK t \in issued :
          /\ IF t.id = d
             THEN UNCHANGED <<nodes, trusted>>
             ELSE SetEntry(d, t.id, [active |-> t.rec,
                                     trusted |-> merge_node(trusted[d][t.id], t.rec)])
          /\ stored' = [stored EXCEPT ![d][t.id] = t.rec]
          /\ admitted' = admitted \cup {t.id}
    BY <1>13 DEF AddNode
  <2>2. t.id \in Daemon /\ t.rec \in Record /\ trusted[d][t.id] \in MaybeRecord
    BY <1>0 DEF TypeOK, Ticket, Directory, MaybeRecord
  <2>3. merge_node(trusted[d][t.id], t.rec) # None
    BY <2>2, MergeNode, NoneAssumption
  <2>4. /\ t.id # d => nodes'[d][t.id] # None /\ trusted'[d][t.id] # None
        /\ \A x \in Daemon, q \in Daemon : x # d \/ q # t.id =>
             /\ nodes'[x][q] = nodes[x][q] /\ trusted'[x][q] = trusted[x][q]
             /\ stored'[x][q] = stored[x][q]
    BY <1>0, <2>1, <2>2, <2>3, NoneAssumption DEF SetEntry, TypeOK, Directory
  <2>5. UNCHANGED <<up, msgs>>
    BY <1>13 DEF AddNode
  <2>6. ActiveTrusted'
    BY <2>4 DEF ActiveTrusted
  <2>7. StoredTrusted'
    BY <1>0, <2>4, <2>5 DEF StoredTrusted, TypeOK
  <2>8. TrustGrounded'
    <3> SUFFICES ASSUME NEW x \in Daemon, NEW q \in Daemon \ (Holders \cup admitted'), q # x
                 PROVE  nodes'[x][q] = None /\ trusted'[x][q] = None /\ stored'[x][q] = None
      BY DEF TrustGrounded
    <3>1. q # t.id /\ q \notin admitted
      BY <2>1
    <3> QED BY <2>4, <3>1 DEF TrustGrounded
  <2>9. GroundedMessages'
    BY <2>1, <2>5 DEF GroundedMessages
  <2> QED BY <1>0, <2>6, <2>7, <2>8, <2>9
<1>14. ASSUME NEW d \in Daemon, RemoveNode(d) PROVE TrustInv'
  <2>1. PICK p \in Daemon \ {d} :
          /\ SetEntry(d, p, [active |-> None, trusted |-> None])
          /\ stored' = [stored EXCEPT ![d][p] = None]
    BY <1>14 DEF RemoveNode
  <2>2. /\ nodes'[d][p] = None /\ trusted'[d][p] = None /\ stored'[d][p] = None
        /\ \A x \in Daemon, q \in Daemon : x # d \/ q # p =>
             /\ nodes'[x][q] = nodes[x][q] /\ trusted'[x][q] = trusted[x][q]
             /\ stored'[x][q] = stored[x][q]
    BY <1>0, <2>1 DEF SetEntry, TypeOK, Directory
  <2>3. UNCHANGED <<up, msgs, admitted>>
    BY <1>14 DEF RemoveNode
  <2>4. ActiveTrusted'
    BY <2>2 DEF ActiveTrusted
  <2>5. StoredTrusted'
    <3> SUFFICES ASSUME NEW x \in up', NEW q \in Daemon, q # x, stored'[x][q] # None
                 PROVE  trusted'[x][q] # None
      BY DEF StoredTrusted
    <3>1. x \in up /\ x \in Daemon /\ ~(x = d /\ q = p)
      BY <1>0, <2>2, <2>3 DEF TypeOK
    <3>2. stored[x][q] # None /\ trusted'[x][q] = trusted[x][q]
      BY <2>2, <3>1
    <3> QED BY <3>1, <3>2 DEF StoredTrusted
  <2>6. TrustGrounded' /\ GroundedMessages'
    BY <2>2, <2>3 DEF TrustGrounded, GroundedMessages
  <2> QED BY <1>0, <2>4, <2>5, <2>6
<1> QED
  BY <1>1, <1>2, <1>3, <1>4, <1>5, <1>6, <1>8, <1>9, <1>10, <1>11, <1>12, <1>13, <1>14 DEF Next

LEMMA TrustCorrect == Spec => []TrustInv
BY TrustInit, TrustStep, PTL DEF Spec

\* Whoever is trusted, active or stored anywhere holds the network's ticket
\* or was added by an admin, however many directories relay it.
THEOREM OnlyGroundedTrust == Spec => []TrustGrounded
<1>1. TrustInv => TrustGrounded
  BY DEF TrustInv
<1> QED BY <1>1, TrustCorrect, PTL

\* The active directory never contains a peer that is not trusted.
THEOREM ActiveImpliesTrusted == Spec => []ActiveTrusted
<1>1. TrustInv => ActiveTrusted
  BY DEF TrustInv
<1> QED BY <1>1, TrustCorrect, PTL

\* Storage never brings back a peer that a running daemon no longer trusts.
THEOREM StorageFollowsTrust == Spec => []StoredTrusted
<1>1. TrustInv => StoredTrusted
  BY DEF TrustInv
<1> QED BY <1>1, TrustCorrect, PTL

-----------------------------------------------------------------------------
(* Heartbeats: the invariant behind HeartbeatBacked.  Besides the records at *)
(* rest it bounds those on their way and in tickets.                         *)

EntriesBacked == \A x \in Daemon, q \in Daemon : EntryWithin(Entry(x, q), HeartbeatBound(q))

StoredBacked ==
    \A x \in Daemon, q \in Daemon : stored[x][q] # None => stored[x][q].hb <= HeartbeatBound(q)

\* The clocks run ahead of the signatures.
ClocksAhead == \A q \in Daemon : lastAlive[q] <= time_now(q)

TicketsBacked == \A t \in issued : t.rec.hb <= HeartbeatBound(t.id)

MessagesBacked ==
    \A m \in msgs :
       /\ m.ts <= lastAlive[m.from]
       /\ \A q \in Daemon : m.nodes[q] # None => m.nodes[q].hb <= HeartbeatBound(q)

HeartbeatInv ==
    /\ TypeOK
    /\ EntriesBacked
    /\ StoredBacked
    /\ ClocksAhead
    /\ TicketsBacked
    /\ MessagesBacked

LEMMA BoundType ==
    ASSUME TypeOK, NEW q \in Daemon
    PROVE  HeartbeatBound(q) \in Nat
BY TimeoutsAssumption DEF TypeOK, HeartbeatBound

\* A fresh message vouches for its sender until now, and a second longer.
LEMMA FreshBound ==
    ASSUME HeartbeatInv, NEW d \in Daemon, NEW m \in msgs, Fresh(d, m)
    PROVE  time_now(d) + 1 <= HeartbeatBound(m.from)
<1>1. /\ m.from \in Daemon /\ m.ts \in Nat /\ lastAlive[m.from] \in Nat
      /\ m.ts <= lastAlive[m.from]
  BY DEF HeartbeatInv, MessagesBacked, TypeOK, Message
<1>2. time_now(d) \in Nat
  BY TimeType DEF HeartbeatInv
<1> QED BY <1>1, <1>2, TimeoutsAssumption DEF Fresh, is_fresh, saturating_sub, HeartbeatBound

LEMMA StampedWithin ==
    ASSUME HeartbeatInv, NEW d \in Daemon, NEW m \in msgs, NEW observed \in Observable(m.from)
    PROVE  EntryWithin(Stamped(d, m, observed), HeartbeatBound(m.from))
<1>0. TypeOK
  BY DEF HeartbeatInv
<1>1. m.from \in Daemon
  BY <1>0 DEF TypeOK, Message
<1>2. /\ Entry(d, m.from) \in EntryType /\ time_now(d) \in Nat /\ observed \in SUBSET IpAddr
      /\ HeartbeatBound(m.from) \in Nat
  BY <1>0, <1>1, EntryInType, TimeType, AdvertisedType, BoundType
<1>3. EntryWithin(Entry(d, m.from), HeartbeatBound(m.from))
  BY <1>1 DEF HeartbeatInv, EntriesBacked
<1>4. CASE passed(d, m)
  <2>1. time_now(d) <= HeartbeatBound(m.from)
    BY <1>2, <1>4, FreshBound DEF passed
  <2> QED BY <1>2, <1>3, <1>4, <2>1, RefreshLemma DEF Stamped
<1>5. CASE ~passed(d, m)
  BY <1>3, <1>5 DEF Stamped
<1> QED BY <1>4, <1>5

\* One entry changes, within its bound: all entries stay backed.
LEMMA SetEntryBacked ==
    ASSUME HeartbeatInv, NEW d \in Daemon, NEW p \in Daemon, NEW e \in EntryType,
           SetEntry(d, p, e), EntryWithin(e, HeartbeatBound(p))
    PROVE  \A x \in Daemon, q \in Daemon : EntryWithin(Entry(x, q)', HeartbeatBound(q))
<1>1. /\ Entry(d, p)' = e
      /\ \A q \in Daemon \ {p} : Entry(d, q)' = Entry(d, q)
      /\ \A x \in Daemon \ {d}, q \in Daemon : Entry(x, q)' = Entry(x, q)
  BY SetEntryEffect DEF HeartbeatInv
<1>2. \A x \in Daemon, q \in Daemon : EntryWithin(Entry(x, q), HeartbeatBound(q))
  BY DEF HeartbeatInv, EntriesBacked
<1>3. \A x \in Daemon, q \in Daemon :
        \/ Entry(x, q)' = Entry(x, q)
        \/ q = p /\ Entry(x, q)' = e
  BY <1>1
<1> QED BY <1>2, <1>3

LEMMA AdmittedWithin ==
    ASSUME HeartbeatInv, NEW d \in Daemon, NEW m \in msgs,
           NEW observed \in Observable(m.from), NEW late \in Late, Fresh(d, m)
    PROVE  EntryWithin(Admit(Stamped(d, m, observed), Incoming(d, m, observed, late)),
                       HeartbeatBound(m.from))
<1>0. TypeOK /\ m.from \in Daemon /\ late \in 0..1
  BY DEF HeartbeatInv, TypeOK, Message, Late
<1>1. /\ Stamped(d, m, observed) \in EntryType /\ Incoming(d, m, observed, late) \in Record
      /\ HeartbeatBound(m.from) \in Nat /\ time_now(d) \in Nat
  BY <1>0, StampedType, IncomingType, BoundType, TimeType
<1>2. EntryWithin(Stamped(d, m, observed), HeartbeatBound(m.from))
  BY StampedWithin
<1>3. time_now(d) + 1 <= HeartbeatBound(m.from)
  BY FreshBound
<1>4. Incoming(d, m, observed, late).hb = time_now(d) + late
  BY DEF Incoming
<1>5. Incoming(d, m, observed, late).hb <= HeartbeatBound(m.from)
  BY <1>0, <1>1, <1>3, <1>4
<1> QED BY <1>1, <1>2, <1>5, AdmitLemma

\* A relayed record keeps the heartbeat its sender knew.
LEMMA LearnedWithin ==
    ASSUME HeartbeatInv, NEW d \in Daemon, NEW m \in msgs, NEW observed \in Observable(m.from),
           NEW p \in Daemon
    PROVE  EntryWithin(Learned(d, m, observed, p), HeartbeatBound(p))
<1> DEFINE own == [hb |-> m.ts, addr |-> sender_message_addr(observed, m.addr)]
           listed == IF m.nodes[p] = None THEN None
                     ELSE [hb |-> m.nodes[p].hb,
                           addr |-> sender_message_addr(observed, m.nodes[p].addr)]
           heard == Stamped(d, m, observed)
           bound == HeartbeatBound(p)
<1>0. TypeOK /\ m.from \in Daemon
  BY DEF HeartbeatInv, TypeOK, Message
<1>1. own \in MaybeRecord /\ m.nodes[p] \in MaybeRecord /\ listed \in MaybeRecord
  BY <1>0, ListedType
<1>2. Entry(d, p) \in EntryType /\ heard \in EntryType /\ bound \in Nat
  BY <1>0, EntryInType, StampedType, BoundType
<1>3. EntryWithin(Entry(d, p), bound)
  BY DEF HeartbeatInv, EntriesBacked
<1>4. m.nodes[p] # None => m.nodes[p].hb <= bound
  BY DEF HeartbeatInv, MessagesBacked
<1>5. listed # None => listed.hb <= bound
  BY <1>4
<1>6. Learned(d, m, observed, p) =
        IF p = d THEN Entry(d, p)
        ELSE IF p = m.from THEN Learn(Learn(heard, listed), own)
        ELSE Learn(Entry(d, p), m.nodes[p])
  BY DEF Learned
<1>7. CASE p = d
  BY <1>3, <1>6, <1>7
<1>8. CASE p # d /\ p = m.from
  <2>1. EntryWithin(heard, bound)
    BY <1>8, StampedWithin
  <2>2. own.hb <= bound
    <3>1. m.ts \in Nat /\ lastAlive[m.from] \in Nat /\ m.ts <= lastAlive[m.from]
      BY <1>0 DEF HeartbeatInv, MessagesBacked, TypeOK, Message
    <3>2. own.hb = m.ts /\ bound = lastAlive[m.from] + MAX_AGE_SECS + 1
      BY <1>8 DEF HeartbeatBound
    <3> HIDE DEF own, bound
    <3> QED BY <3>1, <3>2, TimeoutsAssumption
  <2> HIDE DEF own, listed, heard, bound
  <2>3. Learn(heard, listed) \in EntryType
    BY <1>1, <1>2, LearnLemma
  <2>5. EntryWithin(Learn(heard, listed), bound)
    BY <1>1, <1>2, <1>5, <2>1, LearnLemma
  <2>4. EntryWithin(Learn(Learn(heard, listed), own), bound)
    BY <1>1, <1>2, <2>2, <2>3, <2>5, LearnLemma
  <2> QED BY <1>6, <1>8, <2>4 DEF bound
<1>9. CASE p # d /\ p # m.from
  <2> HIDE DEF bound
  <2>1. EntryWithin(Learn(Entry(d, p), m.nodes[p]), bound)
    BY <1>1, <1>2, <1>3, <1>4, LearnLemma
  <2> QED BY <1>6, <1>9, <2>1 DEF bound
<1> QED BY <1>7, <1>8, <1>9

\* The signature clocks only move forward, and so does the bound.
LEMMA BoundMonotone ==
    ASSUME HeartbeatInv, NEW d \in Daemon, NEW q \in Daemon,
           lastAlive' = [lastAlive EXCEPT ![d] = time_now(d)] \/ lastAlive' = lastAlive
    PROVE  /\ HeartbeatBound(q)' \in Nat
           /\ lastAlive[q] <= lastAlive'[q]
           /\ HeartbeatBound(q) <= HeartbeatBound(q)'
<1>1. /\ lastAlive \in [Daemon -> Nat] /\ time_now(d) \in Nat /\ lastAlive[d] <= time_now(d)
  BY TimeType DEF HeartbeatInv, ClocksAhead, TypeOK
<1>2. lastAlive'[q] \in Nat /\ lastAlive[q] \in Nat /\ lastAlive[q] <= lastAlive'[q]
  BY <1>1
<1> QED BY <1>2, TimeoutsAssumption DEF HeartbeatBound

\* Everything that is not touched stays backed while the bounds only grow.
LEMMA StillBacked ==
    ASSUME HeartbeatInv, TypeOK',
           \A q \in Daemon : /\ HeartbeatBound(q)' \in Nat
                             /\ lastAlive[q] <= lastAlive'[q]
                             /\ HeartbeatBound(q) <= HeartbeatBound(q)'
    PROVE  /\ \A x \in Daemon, q \in Daemon :
                 EntryWithin(Entry(x, q), HeartbeatBound(q)')
           /\ \A x \in Daemon, q \in Daemon :
                 stored[x][q] # None => stored[x][q].hb <= HeartbeatBound(q)'
           /\ \A t \in issued : t.rec.hb <= HeartbeatBound(t.id)'
           /\ \A m \in msgs :
                 /\ m.ts <= lastAlive'[m.from]
                 /\ \A q \in Daemon : m.nodes[q] # None => m.nodes[q].hb <= HeartbeatBound(q)'
<1>0. TypeOK
  BY DEF HeartbeatInv
<1>1. \A q \in Daemon, h \in Nat : h <= HeartbeatBound(q) => h <= HeartbeatBound(q)'
  BY <1>0, BoundType
<1>2. ASSUME NEW x \in Daemon, NEW q \in Daemon
      PROVE  EntryWithin(Entry(x, q), HeartbeatBound(q)')
  <2>1. Entry(x, q) \in EntryType /\ EntryWithin(Entry(x, q), HeartbeatBound(q))
    BY <1>0, EntryInType DEF HeartbeatInv, EntriesBacked
  <2> QED BY <1>1, <2>1 DEF EntryWithin, EntryType, MaybeRecord, Record
<1>3. ASSUME NEW x \in Daemon, NEW q \in Daemon, stored[x][q] # None
      PROVE  stored[x][q].hb <= HeartbeatBound(q)'
  <2>1. stored[x][q] \in Record /\ stored[x][q].hb <= HeartbeatBound(q)
    BY <1>0, <1>3 DEF HeartbeatInv, StoredBacked, TypeOK, Directory
  <2> QED BY <1>1, <2>1 DEF Record
<1>4. ASSUME NEW t \in issued PROVE t.rec.hb <= HeartbeatBound(t.id)'
  <2>1. t.id \in Daemon /\ t.rec.hb \in Nat /\ t.rec.hb <= HeartbeatBound(t.id)
    BY <1>0 DEF HeartbeatInv, TicketsBacked, TypeOK, Ticket, Record
  <2> QED BY <1>1, <2>1
<1>5. ASSUME NEW m \in msgs
      PROVE  /\ m.ts <= lastAlive'[m.from]
             /\ \A q \in Daemon : m.nodes[q] # None => m.nodes[q].hb <= HeartbeatBound(q)'
  <2>1. /\ m.from \in Daemon /\ m.ts \in Nat /\ m.ts <= lastAlive[m.from]
        /\ \A q \in Daemon : m.nodes[q] # None =>
              m.nodes[q] \in Record /\ m.nodes[q].hb <= HeartbeatBound(q)
    BY <1>0 DEF HeartbeatInv, MessagesBacked, TypeOK, Message, Directory
  <2>2. m.ts <= lastAlive'[m.from]
    <3>1. lastAlive[m.from] \in Nat /\ lastAlive'[m.from] \in Nat
      BY <1>0, <2>1 DEF TypeOK
    <3> QED BY <2>1, <3>1
  <2> QED BY <1>1, <2>1, <2>2 DEF Record
<1> QED BY <1>2, <1>3, <1>4, <1>5

\* What a daemon signs now is backed by the clock it signs it with.
LEMMA SentBacked ==
    ASSUME HeartbeatInv, NEW d \in Daemon, NEW type \in MessageType,
           lastAlive' = [lastAlive EXCEPT ![d] = time_now(d)]
    PROVE  \A m \in Copies(Signed(d, type, Unknown), Others(d)) :
             /\ m.ts <= lastAlive'[m.from]
             /\ \A q \in Daemon : m.nodes[q] = None
<1>1. TypeOK /\ time_now(d) \in Nat /\ lastAlive \in [Daemon -> Nat]
  BY TimeType DEF HeartbeatInv, TypeOK
<1> QED BY <1>1, UnknownType, CopiesType DEF Others, TypeOK, Unknown

\* Every step lets clocks run on and at most stamps one daemon's signature.
Advances(d) ==
    /\ now' >= now
    /\ lastAlive' = lastAlive \/ lastAlive' = [lastAlive EXCEPT ![d] = time_now(d)]

LEMMA AdvancesClocks ==
    ASSUME HeartbeatInv, TypeOK', NEW d \in Daemon, Advances(d)
    PROVE  /\ ClocksAhead'
           /\ \A q \in Daemon : /\ HeartbeatBound(q)' \in Nat
                                /\ lastAlive[q] <= lastAlive'[q]
                                /\ HeartbeatBound(q) <= HeartbeatBound(q)'
<1>1. \A q \in Daemon : /\ HeartbeatBound(q)' \in Nat
                        /\ lastAlive[q] <= lastAlive'[q]
                        /\ HeartbeatBound(q) <= HeartbeatBound(q)'
  BY BoundMonotone DEF Advances
<1>2. ASSUME NEW q \in Daemon PROVE lastAlive'[q] <= time_now(q)'
  <2>1. /\ now \in Nat /\ now' \in Nat /\ Offset[q] \in Nat /\ lastAlive \in [Daemon -> Nat]
        /\ lastAlive[q] <= time_now(q) /\ now <= now'
    BY MembershipAssumption DEF HeartbeatInv, ClocksAhead, TypeOK, Advances
  <2>2. time_now(q) = now + Offset[q] /\ time_now(q)' = now' + Offset[q]
    BY DEF time_now
  <2>3. lastAlive'[q] = lastAlive[q] \/ lastAlive'[q] = time_now(q)
    BY <2>1 DEF Advances
  <2> QED BY <2>1, <2>2, <2>3
<1> QED BY <1>1, <1>2 DEF ClocksAhead

\* A step that only stamps, sends without a directory, and forgets, or that
\* moves trusted records to the storage, keeps the invariant.
LEMMA QuietStep ==
    ASSUME HeartbeatInv, TypeOK', NEW d \in Daemon, Advances(d), issued' = issued,
           \A x \in Daemon, q \in Daemon :
              /\ nodes'[x][q] \in {None, nodes[x][q]}
              /\ trusted'[x][q] \in {None, trusted[x][q]}
              /\ stored'[x][q] \in {None, stored[x][q], trusted[x][q]},
           \A m \in msgs' :
              \/ m \in msgs
              \/ /\ m.ts <= lastAlive'[m.from]
                 /\ \A q \in Daemon : m.nodes[q] = None
    PROVE  HeartbeatInv'
<1>1. /\ ClocksAhead'
      /\ \A q \in Daemon : /\ HeartbeatBound(q)' \in Nat
                           /\ lastAlive[q] <= lastAlive'[q]
                           /\ HeartbeatBound(q) <= HeartbeatBound(q)'
  BY AdvancesClocks
<1>2. /\ \A x \in Daemon, q \in Daemon : EntryWithin(Entry(x, q), HeartbeatBound(q)')
      /\ \A x \in Daemon, q \in Daemon :
            stored[x][q] # None => stored[x][q].hb <= HeartbeatBound(q)'
      /\ \A t \in issued : t.rec.hb <= HeartbeatBound(t.id)'
      /\ \A m \in msgs :
            /\ m.ts <= lastAlive'[m.from]
            /\ \A q \in Daemon : m.nodes[q] # None => m.nodes[q].hb <= HeartbeatBound(q)'
  BY <1>1, StillBacked
<1>3. EntriesBacked'
  <2> SUFFICES ASSUME NEW x \in Daemon, NEW q \in Daemon
               PROVE  EntryWithin(Entry(x, q)', HeartbeatBound(q)')
    BY DEF EntriesBacked
  <2> QED BY <1>2 DEF EntryWithin, Entry
<1>4. StoredBacked'
  <2> SUFFICES ASSUME NEW x \in Daemon, NEW q \in Daemon, stored'[x][q] # None
               PROVE  stored'[x][q].hb <= HeartbeatBound(q)'
    BY DEF StoredBacked
  <2> QED BY <1>2 DEF EntryWithin, Entry
<1>5. TicketsBacked' /\ MessagesBacked'
  BY <1>2 DEF TicketsBacked, MessagesBacked
<1> QED BY <1>1, <1>3, <1>4, <1>5 DEF HeartbeatInv

\* A receiving step that leaves every entry within its bound keeps the
\* invariant; a reply may carry the directory it leaves.
LEMMA ReceivingStep ==
    ASSUME HeartbeatInv, TypeOK', NEW d \in Daemon, Advances(d),
           UNCHANGED <<issued, stored>>,
           \A x \in Daemon, q \in Daemon : EntryWithin(Entry(x, q)', HeartbeatBound(q)),
           \A m \in msgs' :
              \/ m \in msgs
              \/ m.from = d /\ m.ts <= lastAlive'[d] /\ m.nodes = nodes'[d]
    PROVE  HeartbeatInv'
<1>1. /\ ClocksAhead'
      /\ \A q \in Daemon : /\ HeartbeatBound(q)' \in Nat
                           /\ lastAlive[q] <= lastAlive'[q]
                           /\ HeartbeatBound(q) <= HeartbeatBound(q)'
  BY AdvancesClocks
<1>2. /\ \A x \in Daemon, q \in Daemon :
            stored[x][q] # None => stored[x][q].hb <= HeartbeatBound(q)'
      /\ \A t \in issued : t.rec.hb <= HeartbeatBound(t.id)'
      /\ \A m \in msgs :
            /\ m.ts <= lastAlive'[m.from]
            /\ \A q \in Daemon : m.nodes[q] # None => m.nodes[q].hb <= HeartbeatBound(q)'
  BY <1>1, StillBacked
<1>3. ASSUME NEW x \in Daemon, NEW q \in Daemon
      PROVE  EntryWithin(Entry(x, q)', HeartbeatBound(q)')
  <2>1. Entry(x, q)' \in EntryType
    BY DEF TypeOK, Directory, Entry, EntryType, MaybeRecord
  <2>2. HeartbeatBound(q) \in Nat
    BY BoundType DEF HeartbeatInv
  <2> QED BY <1>1, <2>1, <2>2 DEF EntryWithin, EntryType, MaybeRecord, Record
<1>4. EntriesBacked'
  BY <1>3 DEF EntriesBacked
<1>5. StoredBacked' /\ TicketsBacked'
  BY <1>2 DEF StoredBacked, TicketsBacked
<1>6. \A q \in Daemon : nodes'[d][q] # None => nodes'[d][q].hb <= HeartbeatBound(q)'
  BY <1>3 DEF EntryWithin, Entry
<1>7. MessagesBacked'
  BY <1>2, <1>6 DEF MessagesBacked
<1> QED BY <1>1, <1>4, <1>5, <1>7 DEF HeartbeatInv

LEMMA HeartbeatInit == Init => HeartbeatInv
<1> SUFFICES ASSUME Init PROVE HeartbeatInv
  OBVIOUS
<1>1. TypeOK
  BY TypeInit
<1>2. EntriesBacked /\ StoredBacked
  BY DEF Init, EntriesBacked, EntryWithin, Entry, StoredBacked, Unknown
<1>3. ClocksAhead
  BY <1>1, TimeType DEF Init, ClocksAhead
<1>4. TicketsBacked /\ MessagesBacked
  BY DEF Init, TicketsBacked, MessagesBacked
<1> QED BY <1>1, <1>2, <1>3, <1>4 DEF HeartbeatInv

\* Steps that move records or send announcements, and learn nothing.
LEMMA HeartbeatQuiet ==
    ASSUME HeartbeatInv, TypeOK', NEW d \in Daemon,
           \/ Tick \/ StartFails(d) \/ Crash(d) \/ GracefulShutdown(d) \/ StateTick(d)
           \/ FullSyncTick(d) \/ NeighborUp(d) \/ RemoveNode(d)
           \/ Pause(d) \/ Resume(d) \/ ChangeAddr(d)
    PROVE  HeartbeatInv'
<1>0. TypeOK /\ now \in Nat
  BY DEF HeartbeatInv, TypeOK
<1>1. CASE Tick \/ StartFails(d) \/ Pause(d) \/ Resume(d) \/ ChangeAddr(d)
  <2>1. UNCHANGED <<nodes, trusted, stored, issued, msgs, lastAlive>> /\ now' >= now
    BY <1>0, <1>1 DEF Tick, StartFails, Pause, Resume, ChangeAddr
  <2> QED BY <2>1, QuietStep DEF Advances
<1>2. CASE Crash(d)
  <2>1. UNCHANGED <<now, stored, issued, msgs, lastAlive>>
    BY <1>2 DEF Crash
  <2>2. \A x \in Daemon, q \in Daemon : nodes'[x][q] \in {None, nodes[x][q]}
                                        /\ trusted'[x][q] \in {None, trusted[x][q]}
    BY <1>0, <1>2 DEF Crash, Down, Unknown, TypeOK
  <2> QED BY <1>0, <2>1, <2>2, QuietStep DEF Advances
<1>3. CASE GracefulShutdown(d)
  <2>1. /\ UNCHANGED <<now, issued>> /\ lastAlive' = [lastAlive EXCEPT ![d] = time_now(d)]
        /\ \A m \in msgs' : m \in msgs \/ m \in Copies(Signed(d, "Left", Unknown), Others(d))
    BY <1>3 DEF GracefulShutdown, Post
  <2>2. \A x \in Daemon, q \in Daemon :
          /\ nodes'[x][q] \in {None, nodes[x][q]} /\ trusted'[x][q] \in {None, trusted[x][q]}
          /\ stored'[x][q] \in {None, stored[x][q], trusted[x][q]}
    BY <1>0, <1>3 DEF GracefulShutdown, Down, Unknown, Saved, TypeOK
  <2>3. Advances(d)
    BY <1>0, <2>1, <2>2 DEF Advances
  <2>4. \A m \in msgs' : \/ m \in msgs
                         \/ /\ m.ts <= lastAlive'[m.from]
                            /\ \A q \in Daemon : m.nodes[q] = None
    BY <2>1, <2>2, SentBacked DEF MessageType
  <2> QED BY <2>1, <2>2, <2>3, <2>4, QuietStep
<1>4. CASE StateTick(d)
  <2>1. /\ UNCHANGED <<now, issued, trusted>>
        /\ \/ msgs' = msgs /\ lastAlive' = lastAlive
           \/ /\ lastAlive' = [lastAlive EXCEPT ![d] = time_now(d)]
              /\ \A m \in msgs' : \/ m \in msgs
                                  \/ m \in Copies(Signed(d, "AboutMe", Unknown), Others(d))
    <3>1. CASE d \in paused
      BY <1>4, <3>1 DEF StateTick
    <3>2. CASE d \notin paused
      BY <1>4, <3>2 DEF StateTick, Post
    <3> QED BY <3>1, <3>2
  <2>2. \A x \in Daemon, q \in Daemon : stored'[x][q] \in {None, stored[x][q], trusted[x][q]}
    BY <1>0, <1>4 DEF StateTick, Saved, TypeOK
  <2>3. \A x \in Daemon, q \in Daemon : nodes'[x][q] \in {None, nodes[x][q]}
    BY <1>0, <1>4, TickForgets
  <2>4. Advances(d) /\ \A m \in msgs' : \/ m \in msgs
                                       \/ /\ m.ts <= lastAlive'[m.from]
                                          /\ \A q \in Daemon : m.nodes[q] = None
    BY <1>0, <2>1, SentBacked DEF Advances, MessageType
  <2> QED BY <2>1, <2>2, <2>3, <2>4, QuietStep
<1>5. CASE FullSyncTick(d) \/ NeighborUp(d)
  <2>1. UNCHANGED <<now, nodes, trusted, stored, issued>>
    BY <1>5 DEF FullSyncTick, NeighborUp
  <2>2. /\ lastAlive' = [lastAlive EXCEPT ![d] = time_now(d)]
        /\ \A m \in msgs' : \/ m \in msgs
                            \/ m \in Copies(Signed(d, "SyncRequest", Unknown), Others(d))
                            \/ m \in Copies(Signed(d, "Invited", Unknown), Others(d))
    BY <1>5 DEF FullSyncTick, NeighborUp, Post
  <2>3. Advances(d)
    BY <1>0, <2>1, <2>2 DEF Advances
  <2>4. \A m \in msgs' : \/ m \in msgs
                         \/ /\ m.ts <= lastAlive'[m.from]
                            /\ \A q \in Daemon : m.nodes[q] = None
    BY <2>1, <2>2, SentBacked DEF MessageType
  <2> QED BY <2>1, <2>2, <2>3, <2>4, QuietStep
<1>6. CASE RemoveNode(d)
  <2>1. UNCHANGED <<now, issued, msgs, lastAlive>>
    BY <1>6 DEF RemoveNode
  <2>2. \A x \in Daemon, q \in Daemon :
          /\ nodes'[x][q] \in {None, nodes[x][q]} /\ trusted'[x][q] \in {None, trusted[x][q]}
          /\ stored'[x][q] \in {None, stored[x][q]}
    BY <1>0, <1>6 DEF RemoveNode, SetEntry, TypeOK, Directory
  <2> QED BY <1>0, <2>1, <2>2, QuietStep DEF Advances
<1> QED BY <1>1, <1>2, <1>3, <1>4, <1>5, <1>6

\* The two arms that learn of the sender from its own message.
LEMMA HeartbeatReceive ==
    ASSUME HeartbeatInv, TypeOK', NEW d \in Daemon,
           \/ ReceiveInvited(d) \/ ReceiveAboutMe(d) \/ ReceiveLeft(d)
           \/ ReceiveSyncRequest(d) \/ ReceiveSyncResponse(d)
    PROVE  HeartbeatInv'
<1>0. TypeOK /\ now \in Nat
  BY DEF HeartbeatInv, TypeOK
<1>1. \A q \in Daemon : EntryWithin(Entry(d, q), HeartbeatBound(q))
  BY DEF HeartbeatInv, EntriesBacked
<1>2. CASE ReceiveInvited(d)
  <2>1. PICK m \in Inbox(d, "Invited") :
          \E observed \in Observable(m.from), late \in Late : HandleInvited(d, m, observed, late)
    BY <1>2 DEF ReceiveInvited
  <2>2. PICK observed \in Observable(m.from), late \in Late : HandleInvited(d, m, observed, late)
    BY <2>1
  <2>3. m \in msgs /\ m.from \in Daemon /\ late \in 0..1
    BY <1>0, InboxType DEF Late
  <2> DEFINE new == IF Fresh(d, m) /\ validate(d, m.from)
                    THEN Admit(Stamped(d, m, observed), Incoming(d, m, observed, late))
                    ELSE Stamped(d, m, observed)
  <2>4. SetEntry(d, m.from, new)
    BY <2>2 DEF HandleInvited
  <2>5. new \in EntryType /\ EntryWithin(new, HeartbeatBound(m.from))
    BY <1>0, <2>3, StampedType, IncomingType, AdmitLemma, StampedWithin, AdmittedWithin
  <2> HIDE DEF new
  <2>6. \A x \in Daemon, q \in Daemon : EntryWithin(Entry(x, q)', HeartbeatBound(q))
    BY <2>3, <2>4, <2>5, SetEntryBacked
  <2>7. /\ UNCHANGED <<issued, stored>> /\ Advances(d) /\ \A r \in msgs' : r \in msgs
    BY <1>0, <2>2, <2>3 DEF HandleInvited, Advances
  <2> QED BY <2>6, <2>7, ReceivingStep
<1>3. CASE ReceiveAboutMe(d)
  <2>1. PICK m \in Inbox(d, "AboutMe") :
          \E observed \in Observable(m.from), late \in Late : HandleAboutMe(d, m, observed, late)
    BY <1>3 DEF ReceiveAboutMe
  <2>2. PICK observed \in Observable(m.from), late \in Late : HandleAboutMe(d, m, observed, late)
    BY <2>1
  <2>3. m \in msgs /\ m.from \in Daemon /\ late \in 0..1
    BY <1>0, InboxType DEF Late
  <2> DEFINE new == IF passed(d, m)
                    THEN Admit(Stamped(d, m, observed), Incoming(d, m, observed, late))
                    ELSE Entry(d, m.from)
  <2>4. SetEntry(d, m.from, new)
    BY <2>2 DEF HandleAboutMe
  <2>5. new \in EntryType /\ EntryWithin(new, HeartbeatBound(m.from))
    BY <1>0, <1>1, <2>3, StampedType, IncomingType, EntryInType, AdmitLemma, AdmittedWithin
       DEF passed
  <2> HIDE DEF new
  <2>6. \A x \in Daemon, q \in Daemon : EntryWithin(Entry(x, q)', HeartbeatBound(q))
    BY <2>3, <2>4, <2>5, SetEntryBacked
  <2>7. /\ UNCHANGED <<issued, stored>> /\ Advances(d) /\ \A r \in msgs' : r \in msgs
    BY <1>0, <2>2, <2>3 DEF HandleAboutMe, Advances
  <2> QED BY <2>6, <2>7, ReceivingStep
<1>4. CASE ReceiveLeft(d)
  <2>1. PICK m \in Inbox(d, "Left") : \E observed \in Observable(m.from) : HandleLeft(d, m, observed)
    BY <1>4 DEF ReceiveLeft
  <2>2. PICK observed \in Observable(m.from) : HandleLeft(d, m, observed)
    BY <2>1
  <2>3. m \in msgs /\ m.from \in Daemon
    BY <1>0, InboxType
  <2> DEFINE new == IF passed(d, m)
                    THEN [Stamped(d, m, observed) EXCEPT !.active = None]
                    ELSE Entry(d, m.from)
  <2>4. SetEntry(d, m.from, new)
    BY <2>2 DEF HandleLeft
  <2>5. new \in EntryType /\ EntryWithin(new, HeartbeatBound(m.from))
    BY <1>0, <1>1, <2>3, StampedType, EntryInType, StampedWithin
       DEF EntryType, EntryWithin, MaybeRecord
  <2> HIDE DEF new
  <2>6. \A x \in Daemon, q \in Daemon : EntryWithin(Entry(x, q)', HeartbeatBound(q))
    BY <2>3, <2>4, <2>5, SetEntryBacked
  <2>7. /\ UNCHANGED <<issued, stored>> /\ Advances(d) /\ \A r \in msgs' : r \in msgs
    BY <1>0, <2>2, <2>3 DEF HandleLeft, Advances
  <2> QED BY <2>6, <2>7, ReceivingStep
<1>5. CASE ReceiveSyncRequest(d)
  <2>1. PICK m \in Inbox(d, "SyncRequest") :
          \E observed \in Observable(m.from) : HandleSyncRequest(d, m, observed)
    BY <1>5 DEF ReceiveSyncRequest
  <2>2. PICK observed \in Observable(m.from) : HandleSyncRequest(d, m, observed)
    BY <2>1
  <2>3. m \in msgs /\ m.from \in Daemon
    BY <1>0, InboxType
  <2>4. SetEntry(d, m.from, Stamped(d, m, observed))
    BY <2>2 DEF HandleSyncRequest
  <2>5. \A x \in Daemon, q \in Daemon : EntryWithin(Entry(x, q)', HeartbeatBound(q))
    BY <1>0, <2>3, <2>4, StampedType, StampedWithin, SetEntryBacked
  <2>6. /\ UNCHANGED <<now, issued, stored>>
        /\ lastAlive' = [lastAlive EXCEPT ![d] = time_now(d)]
        /\ \A r \in msgs' :
             r \in msgs \/ r \in Copies(Signed(d, "SyncResponse", nodes'[d]), {m.from})
    BY <2>2 DEF HandleSyncRequest, Post
  <2>7. nodes'[d] \in Directory /\ lastAlive'[d] = time_now(d) /\ time_now(d) \in Nat
    BY <1>0, <2>6, TimeType DEF TypeOK
  <2>8. \A r \in Copies(Signed(d, "SyncResponse", nodes'[d]), {m.from}) :
          r.from = d /\ r.ts = time_now(d) /\ r.nodes = nodes'[d]
    BY <1>0, <2>3, <2>7, CopiesType DEF MessageType
  <2>9. \A r \in msgs' : r \in msgs \/ (r.from = d /\ r.ts <= lastAlive'[d] /\ r.nodes = nodes'[d])
    BY <2>6, <2>7, <2>8
  <2>10. Advances(d)
    BY <1>0, <2>6 DEF Advances
  <2> QED BY <2>5, <2>6, <2>9, <2>10, ReceivingStep
<1>6. CASE ReceiveSyncResponse(d)
  <2>1. PICK m \in Inbox(d, "SyncResponse") :
          \E observed \in Observable(m.from) : HandleSyncResponse(d, m, observed)
    BY <1>6 DEF ReceiveSyncResponse
  <2>2. PICK observed \in Observable(m.from) : HandleSyncResponse(d, m, observed)
    BY <2>1
  <2>3. m \in msgs /\ m.from \in Daemon
    BY <1>0, InboxType
  <2>4. /\ \A x \in Daemon \ {d} : nodes'[x] = nodes[x] /\ trusted'[x] = trusted[x]
        /\ \A q \in Daemon : \/ Entry(d, q)' = Entry(d, q)
                             \/ Entry(d, q)' = [active |-> Learned(d, m, observed, q).active,
                                                trusted |-> Learned(d, m, observed, q).trusted]
    BY <1>0, <2>2 DEF HandleSyncResponse, TypeOK, Entry
  <2>5. ASSUME NEW x \in Daemon, NEW q \in Daemon
        PROVE  EntryWithin(Entry(x, q)', HeartbeatBound(q))
    <3>1. EntryWithin(Learned(d, m, observed, q), HeartbeatBound(q))
      BY <2>3, LearnedWithin
    <3>2. EntryWithin(Entry(x, q), HeartbeatBound(q))
      BY DEF HeartbeatInv, EntriesBacked
    <3>3. CASE x = d
      BY <1>1, <2>4, <3>1, <3>3 DEF EntryWithin
    <3>4. CASE x # d
      BY <2>4, <3>2, <3>4 DEF Entry
    <3> QED BY <3>3, <3>4
  <2>6. /\ UNCHANGED <<now, issued, stored, lastAlive>> /\ \A r \in msgs' : r \in msgs
    BY <2>2 DEF HandleSyncResponse
  <2> QED BY <1>0, <2>5, <2>6, ReceivingStep DEF Advances
<1> QED BY <1>2, <1>3, <1>4, <1>5, <1>6

\* A start loads what was stored and the ticket's record, and may issue a
\* ticket of its own.
LEMMA HeartbeatStart ==
    ASSUME HeartbeatInv, TypeOK', NEW d \in Daemon, Start(d)
    PROVE  HeartbeatInv'
<1>0. TypeOK /\ now \in Nat /\ time_now(d) \in Nat
  BY TimeType DEF HeartbeatInv, TypeOK
<1>1. PICK t \in StartTickets(d) :
        /\ trusted' = [trusted EXCEPT ![d] = LoadedTrusted(d, t)]
        /\ nodes' = [nodes EXCEPT ![d] = LoadedNodes(d, t)]
        /\ issued' = IF t = None
                     THEN issued \cup {[id |-> d, rec |-> current_node_state(d)]}
                     ELSE issued
  BY DEF Start
<1>2. t = None \/ (t \in issued /\ t.id \in Daemon /\ t.rec \in Record)
  BY <1>0, LoadedType
<1>3. UNCHANGED <<now, stored>> /\ lastAlive' = [lastAlive EXCEPT ![d] = time_now(d)]
  BY DEF Start
<1>4. Advances(d)
  BY <1>0, <1>3 DEF Advances
<1>5. /\ ClocksAhead'
      /\ \A q \in Daemon : /\ HeartbeatBound(q)' \in Nat
                           /\ lastAlive[q] <= lastAlive'[q]
                           /\ HeartbeatBound(q) <= HeartbeatBound(q)'
  BY <1>4, AdvancesClocks
<1>6. /\ \A x \in Daemon, q \in Daemon : EntryWithin(Entry(x, q), HeartbeatBound(q)')
      /\ \A x \in Daemon, q \in Daemon :
            stored[x][q] # None => stored[x][q].hb <= HeartbeatBound(q)'
      /\ \A k \in issued : k.rec.hb <= HeartbeatBound(k.id)'
      /\ \A m \in msgs :
            /\ m.ts <= lastAlive'[m.from]
            /\ \A q \in Daemon : m.nodes[q] # None => m.nodes[q].hb <= HeartbeatBound(q)'
  BY <1>5, StillBacked
<1>7. ASSUME NEW x \in Daemon, NEW q \in Daemon
      PROVE  EntryWithin(Entry(x, q)', HeartbeatBound(q)')
  <2>1. CASE x # d
    BY <1>0, <1>1, <1>6, <2>1 DEF TypeOK, Entry
  <2>2. CASE x = d
    <3>1. Entry(d, q)' = [active |-> LoadedNodes(d, t)[q], trusted |-> LoadedTrusted(d, t)[q]]
      BY <1>0, <1>1 DEF TypeOK, Entry
    <3>2. LoadedTrusted(d, t)[q] # None => LoadedTrusted(d, t)[q].hb <= HeartbeatBound(q)'
      BY <1>2, <1>6 DEF LoadedTrusted
    <3>3. LoadedNodes(d, t)[q] # None => LoadedNodes(d, t)[q].hb <= HeartbeatBound(q)'
      BY <1>2, <1>6, <3>2 DEF LoadedNodes, LoadedTrusted
    <3> QED BY <2>2, <3>1, <3>2, <3>3 DEF EntryWithin
  <2> QED BY <2>1, <2>2
<1>8. current_node_state(d).hb <= HeartbeatBound(d)'
  <2>1. lastAlive'[d] = time_now(d)
    BY <1>0, <1>3 DEF TypeOK
  <2>2. HeartbeatBound(d)' = time_now(d) + MAX_AGE_SECS + 1
    BY <2>1 DEF HeartbeatBound
  <2>3. current_node_state(d).hb = time_now(d)
    BY DEF current_node_state
  <2> QED BY <1>0, <2>2, <2>3, TimeoutsAssumption
<1>9. TicketsBacked'
  BY <1>1, <1>6, <1>8 DEF TicketsBacked
<1>10. \A m \in msgs' : \/ m \in msgs
                        \/ m \in Copies(Signed(d, "SyncRequest", Unknown), Others(d))
                        \/ m \in Copies(Signed(d, "Invited", Unknown), Others(d))
  BY DEF Start, Post
<1>11. \A m \in msgs' : \/ m \in msgs
                        \/ /\ m.ts <= lastAlive'[m.from]
                           /\ \A q \in Daemon : m.nodes[q] = None
  BY <1>3, <1>10, SentBacked DEF MessageType
<1>12. MessagesBacked'
  BY <1>6, <1>11 DEF MessagesBacked
<1>13. EntriesBacked' /\ StoredBacked'
  BY <1>3, <1>6, <1>7 DEF EntriesBacked, StoredBacked
<1> QED BY <1>5, <1>9, <1>12, <1>13 DEF HeartbeatInv

\* The record of a ticket is backed like any other.
LEMMA HeartbeatAddNode ==
    ASSUME HeartbeatInv, TypeOK', NEW d \in Daemon, AddNode(d)
    PROVE  HeartbeatInv'
<1>0. TypeOK /\ \A q \in Daemon : HeartbeatBound(q)' = HeartbeatBound(q)
  BY DEF HeartbeatInv, AddNode, HeartbeatBound
<1>1. PICK t \in issued :
        /\ IF t.id = d
           THEN UNCHANGED <<nodes, trusted>>
           ELSE SetEntry(d, t.id, [active |-> t.rec,
                                   trusted |-> merge_node(trusted[d][t.id], t.rec)])
        /\ stored' = [stored EXCEPT ![d][t.id] = t.rec]
  BY DEF AddNode
<1>2. /\ t.id \in Daemon /\ t.rec \in Record /\ t.rec.hb <= HeartbeatBound(t.id)
      /\ HeartbeatBound(t.id) \in Nat /\ trusted[d][t.id] \in MaybeRecord
  BY <1>0, BoundType DEF HeartbeatInv, TicketsBacked, TypeOK, Ticket, Directory, MaybeRecord
<1> DEFINE merged == merge_node(trusted[d][t.id], t.rec)
           new == [active |-> t.rec, trusted |-> merged]
<1>3. EntryWithin(Entry(d, t.id), HeartbeatBound(t.id))
  BY <1>2 DEF HeartbeatInv, EntriesBacked
<1>4. merged \in Record /\ merged.hb <= HeartbeatBound(t.id)
  BY <1>2, <1>3, MergeNode DEF EntryWithin, Entry
<1>5. new \in EntryType /\ EntryWithin(new, HeartbeatBound(t.id))
  <2> HIDE DEF merged
  <2> QED BY <1>2, <1>4 DEF EntryType, EntryWithin, MaybeRecord
<1>6. \A x \in Daemon, q \in Daemon : EntryWithin(Entry(x, q)', HeartbeatBound(q))
  <2>1. CASE t.id = d
    BY <1>1, <2>1 DEF HeartbeatInv, EntriesBacked, Entry
  <2>2. CASE t.id # d
    <3>1. SetEntry(d, t.id, new)
      BY <1>1, <2>2
    <3> HIDE DEF new
    <3> QED BY <1>2, <1>5, <3>1, SetEntryBacked
  <2> QED BY <2>1, <2>2
<1>7. StoredBacked'
  <2> SUFFICES ASSUME NEW x \in Daemon, NEW q \in Daemon, stored'[x][q] # None
               PROVE  stored'[x][q].hb <= HeartbeatBound(q)
    BY <1>0 DEF StoredBacked
  <2>1. stored'[x][q] = stored[x][q] \/ (q = t.id /\ stored'[x][q] = t.rec)
    BY <1>0, <1>1, <1>2 DEF TypeOK, Directory
  <2>2. stored[x][q] # None => stored[x][q].hb <= HeartbeatBound(q)
    BY DEF HeartbeatInv, StoredBacked
  <2> QED BY <1>2, <2>1, <2>2
<1>8. EntriesBacked'
  BY <1>0, <1>6 DEF EntriesBacked
<1>9. TicketsBacked' /\ MessagesBacked' /\ ClocksAhead'
  <2>1. UNCHANGED <<now, issued, msgs, lastAlive>>
    BY DEF AddNode
  <2>2. TicketsBacked /\ MessagesBacked /\ ClocksAhead
    BY DEF HeartbeatInv
  <2> QED BY <2>1, <2>2 DEF TicketsBacked, MessagesBacked, ClocksAhead, HeartbeatBound, time_now
<1> QED BY <1>7, <1>8, <1>9 DEF HeartbeatInv

LEMMA HeartbeatStep == HeartbeatInv /\ [Next]_vars => HeartbeatInv'
<1> SUFFICES ASSUME HeartbeatInv, [Next]_vars PROVE HeartbeatInv'
  OBVIOUS
<1>0. TypeOK /\ TypeOK'
  BY TypeStep DEF HeartbeatInv
<1>1. CASE UNCHANGED vars
  BY <1>1 DEF vars, HeartbeatInv, TypeOK, EntriesBacked, EntryWithin, Entry, StoredBacked,
              ClocksAhead, TicketsBacked, MessagesBacked, HeartbeatBound, time_now
<1>2. CASE Tick
  <2>1. Primary \in Daemon
    BY MembershipAssumption
  <2> QED BY <1>0, <1>2, <2>1, HeartbeatQuiet
<1>3. ASSUME NEW d \in Daemon,
             \/ StartFails(d) \/ Crash(d) \/ GracefulShutdown(d) \/ StateTick(d)
             \/ FullSyncTick(d) \/ NeighborUp(d) \/ RemoveNode(d)
             \/ Pause(d) \/ Resume(d) \/ ChangeAddr(d)
      PROVE  HeartbeatInv'
  BY <1>0, <1>3, HeartbeatQuiet
<1>4. ASSUME NEW d \in Daemon,
             \/ ReceiveInvited(d) \/ ReceiveAboutMe(d) \/ ReceiveLeft(d)
             \/ ReceiveSyncRequest(d) \/ ReceiveSyncResponse(d)
      PROVE  HeartbeatInv'
  BY <1>0, <1>4, HeartbeatReceive
<1>5. ASSUME NEW d \in Daemon, Start(d) PROVE HeartbeatInv'
  BY <1>0, <1>5, HeartbeatStart
<1>6. ASSUME NEW d \in Daemon, AddNode(d) PROVE HeartbeatInv'
  BY <1>0, <1>6, HeartbeatAddNode
<1> QED BY <1>1, <1>2, <1>3, <1>4, <1>5, <1>6 DEF Next

LEMMA HeartbeatCorrect == Spec => []HeartbeatInv
BY HeartbeatInit, HeartbeatStep, PTL DEF Spec

\* No record anywhere claims that a peer was alive later than the age limit
\* of a message past the last one the peer signed.
THEOREM RecordsBacked == Spec => []HeartbeatBacked
<1>1. HeartbeatInv => HeartbeatBacked
  BY DEF HeartbeatInv, EntriesBacked, StoredBacked, EntryWithin, Entry, HeartbeatBacked
<1> QED BY <1>1, HeartbeatCorrect, PTL

\* So cleanup() forgets a peer that fell silent, however often others relay it.
THEOREM GhostsForgotten == Spec => SilentPeersForgotten
<1>1. ASSUME HeartbeatInv, [Next]_vars, NEW d \in Daemon, StateTick(d), NEW p \in Daemon,
             nodes'[d][p] # None
      PROVE  time_now(d) <= HeartbeatBound(p) + STALE_NODE_TTL_SECS
  <2>0. TypeOK /\ time_now(d) \in Nat /\ HeartbeatBound(p) \in Nat
    BY <1>1, TimeType, BoundType DEF HeartbeatInv
  <2> DEFINE live == [q \in Daemon |->
                        IF nodes[d][q] # None /\ is_stale(nodes[d][q], time_now(d))
                        THEN None ELSE nodes[d][q]]
  <2>1. PICK gone : nodes' = [nodes EXCEPT ![d] =
                       [q \in Daemon |-> IF q \in gone THEN None ELSE live[q]]]
    BY <1>1 DEF StateTick
  <2>2. live[p] # None
    <3> HIDE DEF live
    <3> QED BY <1>1, <2>0, <2>1 DEF TypeOK
  <2>3. nodes[d][p] \in Record /\ ~is_stale(nodes[d][p], time_now(d))
    BY <2>0, <2>2 DEF TypeOK, Directory
  <2>4. nodes[d][p].hb <= HeartbeatBound(p)
    BY <1>1, <2>3, NoneAssumption DEF HeartbeatInv, EntriesBacked, EntryWithin, Entry
  <2> HIDE DEF live
  <2> QED BY <2>0, <2>3, <2>4, TimeoutsAssumption DEF is_stale, saturating_sub, Record
<1>2. HeartbeatInv /\ [Next]_vars =>
        [\A d \in Daemon : StateTick(d) =>
           \A p \in Daemon :
              nodes'[d][p] # None =>
                  time_now(d) <= HeartbeatBound(p) + STALE_NODE_TTL_SECS]_vars
  BY <1>1
<1> QED BY <1>2, HeartbeatCorrect, PTL DEF Spec, SilentPeersForgotten

-----------------------------------------------------------------------------
(* What a step makes of what a daemon knows already. *)

\* Of two records of a peer the second one is not older, or is from now.
NotOlder(old, new, t) == old # None => new # None /\ (new.hb >= old.hb \/ new.hb >= t)

\* A peer with an address still has one.
StillNamed(old, new) ==
    old # None /\ has_ip_addr(old.addr) => new # None /\ has_ip_addr(new.addr)

Follows(old, new, t) ==
    NotOlder(old.trusted, new.trusted, t) /\ StillNamed(old.active, new.active)

\* What follows from what follows does so itself.
LEMMA FollowsTransitive ==
    ASSUME NEW e \in EntryType, NEW f \in EntryType, NEW g \in EntryType, NEW t \in Nat,
           Follows(e, f, t), Follows(f, g, t)
    PROVE  Follows(e, g, t)
<1>1. /\ e.trusted # None => e.trusted.hb \in Nat
      /\ f.trusted # None => f.trusted.hb \in Nat
      /\ g.trusted # None => g.trusted.hb \in Nat
  BY DEF EntryType, MaybeRecord, Record
<1>2. NotOlder(e.trusted, g.trusted, t)
  BY <1>1 DEF Follows, NotOlder
<1>3. StillNamed(e.active, g.active)
  BY DEF Follows, StillNamed
<1> QED BY <1>2, <1>3 DEF Follows

\* An entry that stays as it is.
LEMMA FollowsSame ==
    ASSUME NEW e \in EntryType, NEW t \in Nat
    PROVE  Follows(e, e, t)
BY DEF Follows, NotOlder, StillNamed, EntryType, MaybeRecord, Record

\* The newer heartbeat wins, and addresses are only replaced by addresses.
LEMMA MergeFollows ==
    ASSUME NEW existing \in MaybeRecord, NEW incoming \in Record, NEW t \in Nat
    PROVE  /\ NotOlder(existing, merge_node(existing, incoming), t)
           /\ StillNamed(existing, merge_node(existing, incoming))
BY MergeNode, NoneAssumption
   DEF merge_node, merge_addr, has_ip_addr, MaybeRecord, Record, NotOlder, StillNamed

\* Admit merges the directory first, then the trusted record with the result.
LEMMA AdmitFollows ==
    ASSUME NEW e \in EntryType, NEW incoming \in Record, NEW t \in Nat
    PROVE  Follows(e, Admit(e, incoming), t)
<1> DEFINE m == merge_node(e.active, incoming)
           n == merge_node(e.trusted, m)
<1>1. e.active \in MaybeRecord /\ e.trusted \in MaybeRecord
  BY DEF EntryType
<1>2. m \in Record /\ StillNamed(e.active, m)
  BY <1>1, MergeNode, MergeFollows
<1> HIDE DEF m
<1>3. NotOlder(e.trusted, n, t)
  BY <1>1, <1>2, MergeFollows
<1>4. Admit(e, incoming).active = m /\ Admit(e, incoming).trusted = n
  BY DEF Admit, m
<1> QED BY <1>2, <1>3, <1>4 DEF Follows

\* A directory's record is admitted or passed over.
LEMMA LearnFollows ==
    ASSUME NEW e \in EntryType, NEW record \in MaybeRecord, NEW t \in Nat
    PROVE  Follows(e, Learn(e, record), t)
<1>1. record = None \/ record \in Record
  BY DEF MaybeRecord
<1> QED BY <1>1, AdmitFollows, FollowsSame DEF Learn

\* The stamp is the only thing that takes a heartbeat back, to now.
LEMMA StampedFollows ==
    ASSUME TypeOK, NEW d \in Daemon, NEW m \in msgs, NEW observed \in Observable(m.from)
    PROVE  /\ Stamped(d, m, observed) \in EntryType
           /\ Follows(Entry(d, m.from), Stamped(d, m, observed), time_now(d))
<1> DEFINE e == Entry(d, m.from)
           t == time_now(d)
<1>1. m.from \in Daemon
  BY DEF TypeOK, Message
<1>2. e \in EntryType /\ t \in Nat /\ observed \in SUBSET IpAddr /\ Follows(e, e, t)
  BY <1>1, EntryInType, TimeType, AdvertisedType, FollowsSame
<1>3. Stamped(d, m, observed) \in EntryType
  BY StampedType
<1>4. Stamped(d, m, observed) = IF passed(d, m) THEN refresh_sender(e, observed, t) ELSE e
  BY DEF Stamped
<1> SUFFICES Follows(e, Stamped(d, m, observed), t)
  BY <1>3
<1> HIDE DEF e, t
<1>5. CASE e.active = None \/ ~passed(d, m)
  BY <1>2, <1>3, <1>4, <1>5 DEF refresh_sender
<1>6. CASE e.active # None /\ passed(d, m) /\ observed = {}
  <2> DEFINE r == [hb |-> t, addr |-> e.active.addr]
  <2>1. Stamped(d, m, observed) = [e EXCEPT !.active = r]
    BY <1>4, <1>6 DEF refresh_sender
  <2>2. r \in Record /\ r.addr = e.active.addr
    BY <1>2, <1>6 DEF EntryType, MaybeRecord, Record
  <2> HIDE DEF r
  <2>3. Stamped(d, m, observed).active = r /\ Stamped(d, m, observed).trusted = e.trusted
    BY <1>2, <2>1 DEF EntryType
  <2> QED BY <1>2, <1>3, <2>2, <2>3, NoneAssumption DEF Follows, NotOlder, StillNamed
<1>7. CASE e.active # None /\ passed(d, m) /\ observed # {}
  <2> DEFINE r == [hb |-> t, addr |-> observed]
  <2>1. Stamped(d, m, observed) = [active |-> r, trusted |-> r]
    BY <1>4, <1>7 DEF refresh_sender
  <2>2. r \in Record /\ r.addr # {} /\ r.hb >= t
    BY <1>2, <1>7 DEF Record
  <2> HIDE DEF r
  <2>3. Stamped(d, m, observed).active = r /\ Stamped(d, m, observed).trusted = r
    BY <2>1
  <2> QED BY <1>3, <2>2, <2>3, NoneAssumption DEF Follows, NotOlder, StillNamed, has_ip_addr
<1> QED BY <1>5, <1>6, <1>7

\* A directory is learnt record by record, the sender's own last.
LEMMA LearnedFollows ==
    ASSUME TypeOK, NEW d \in Daemon, NEW m \in msgs, NEW observed \in Observable(m.from),
           NEW p \in Daemon
    PROVE  Follows(Entry(d, p), Learned(d, m, observed, p), time_now(d))
<1> DEFINE own == [hb |-> m.ts, addr |-> sender_message_addr(observed, m.addr)]
           listed == IF m.nodes[p] = None THEN None
                     ELSE [hb |-> m.nodes[p].hb,
                           addr |-> sender_message_addr(observed, m.nodes[p].addr)]
           heard == Stamped(d, m, observed)
           t == time_now(d)
<1>1. own \in MaybeRecord /\ m.nodes[p] \in MaybeRecord /\ listed \in MaybeRecord
  BY ListedType
<1>2. Entry(d, p) \in EntryType /\ t \in Nat
  BY EntryInType, TimeType
<1>3. Learned(d, m, observed, p) =
        IF p = d THEN Entry(d, p)
        ELSE IF p = m.from THEN Learn(Learn(heard, listed), own)
        ELSE Learn(Entry(d, p), m.nodes[p])
  BY DEF Learned
<1>4. heard \in EntryType /\ Follows(Entry(d, m.from), heard, t)
  BY StampedFollows
<1> HIDE DEF own, listed, heard, t
<1>5. Learn(heard, listed) \in EntryType /\ Follows(heard, Learn(heard, listed), t)
  BY <1>1, <1>2, <1>4, LearnLemma, LearnFollows
<1>6. /\ Learn(Learn(heard, listed), own) \in EntryType
      /\ Follows(Learn(heard, listed), Learn(Learn(heard, listed), own), t)
  BY <1>1, <1>2, <1>5, LearnLemma, LearnFollows
<1>7. CASE p = m.from /\ p # d
  <2>1. Follows(Entry(d, p), Learn(heard, listed), t)
    BY <1>2, <1>4, <1>5, <1>7, FollowsTransitive
  <2>2. Follows(Entry(d, p), Learn(Learn(heard, listed), own), t)
    BY <1>2, <1>5, <1>6, <2>1, FollowsTransitive
  <2> QED BY <1>3, <1>7, <2>2 DEF t
<1>8. CASE p # m.from /\ p # d
  <2>1. Follows(Entry(d, p), Learn(Entry(d, p), m.nodes[p]), t)
    BY <1>1, <1>2, LearnFollows
  <2> QED BY <1>3, <1>8, <2>1 DEF t
<1>9. CASE p = d
  BY <1>2, <1>3, <1>9, FollowsSame DEF t
<1> QED BY <1>7, <1>8, <1>9

\* What a receiving step makes of the entries of the receiver.
Received(d) ==
    /\ \A q \in Daemon :
          /\ NotOlder(trusted[d][q], trusted'[d][q], time_now(d))
          /\ nodes'[d][q] = None \/ StillNamed(nodes[d][q], nodes'[d][q])
    /\ \A x \in Daemon \ {d} : nodes'[x] = nodes[x] /\ trusted'[x] = trusted[x]

\* A message of one sender is about the sender's entry only.
LEMMA SetEntryReceived ==
    ASSUME TypeOK, NEW d \in Daemon, NEW p \in Daemon, NEW e \in EntryType,
           SetEntry(d, p, e),
           NotOlder(trusted[d][p], e.trusted, time_now(d)),
           e.active = None \/ StillNamed(nodes[d][p], e.active)
    PROVE  Received(d)
<1>1. /\ nodes \in [Daemon -> Directory] /\ trusted \in [Daemon -> Directory]
      /\ nodes' = [nodes EXCEPT ![d][p] = e.active]
      /\ trusted' = [trusted EXCEPT ![d][p] = e.trusted]
  BY DEF TypeOK, SetEntry
<1>2. /\ nodes'[d][p] = e.active /\ trusted'[d][p] = e.trusted
      /\ \A q \in Daemon \ {p} : nodes'[d][q] = nodes[d][q] /\ trusted'[d][q] = trusted[d][q]
      /\ \A x \in Daemon \ {d} : nodes'[x] = nodes[x] /\ trusted'[x] = trusted[x]
  BY <1>1 DEF Directory
<1>3. \A q \in Daemon : NotOlder(trusted[d][q], trusted[d][q], time_now(d))
                        /\ StillNamed(nodes[d][q], nodes[d][q])
  BY EntryInType, TimeType, FollowsSame DEF Follows, Entry
<1> QED BY <1>2, <1>3 DEF Received

\* Every arm of process_message.
LEMMA ReceivedStep ==
    ASSUME TypeOK, NEW d \in Daemon,
           \/ ReceiveInvited(d) \/ ReceiveAboutMe(d) \/ ReceiveLeft(d)
           \/ ReceiveSyncRequest(d) \/ ReceiveSyncResponse(d)
    PROVE  Received(d)
<1> DEFINE t == time_now(d)
<1>1. t \in Nat
  BY TimeType
<1>2. ASSUME NEW m \in msgs, NEW e \in EntryType, SetEntry(d, m.from, e),
             NotOlder(Entry(d, m.from).trusted, e.trusted, t),
             e.active = None \/ StillNamed(Entry(d, m.from).active, e.active)
      PROVE  Received(d)
  <2>1. m.from \in Daemon
    BY DEF TypeOK, Message
  <2>2. Entry(d, m.from).trusted = trusted[d][m.from] /\ Entry(d, m.from).active = nodes[d][m.from]
    BY DEF Entry
  <2> QED BY <1>2, <2>1, <2>2, SetEntryReceived
<1>3. ASSUME NEW m \in msgs, NEW observed \in Observable(m.from), NEW late \in 0..1
      PROVE  LET admitted_ == Admit(Stamped(d, m, observed), Incoming(d, m, observed, late))
             IN  /\ admitted_ \in EntryType
                 /\ Follows(Entry(d, m.from), admitted_, t)
                 /\ Stamped(d, m, observed) \in EntryType
                 /\ Follows(Entry(d, m.from), Stamped(d, m, observed), t)
                 /\ Entry(d, m.from) \in EntryType /\ Follows(Entry(d, m.from), Entry(d, m.from), t)
  <2>1. m.from \in Daemon
    BY DEF TypeOK, Message
  <2>2. Entry(d, m.from) \in EntryType /\ Follows(Entry(d, m.from), Entry(d, m.from), t)
    BY <1>1, <2>1, EntryInType, FollowsSame
  <2>3. /\ Stamped(d, m, observed) \in EntryType
        /\ Follows(Entry(d, m.from), Stamped(d, m, observed), t)
    BY StampedFollows
  <2>4. Incoming(d, m, observed, late) \in Record
    BY IncomingType
  <2> HIDE DEF t
  <2>5. /\ Admit(Stamped(d, m, observed), Incoming(d, m, observed, late)) \in EntryType
        /\ Follows(Stamped(d, m, observed), Admit(Stamped(d, m, observed), Incoming(d, m, observed, late)), t)
    BY <1>1, <2>3, <2>4, AdmitLemma, AdmitFollows
  <2> QED BY <1>1, <2>2, <2>3, <2>5, FollowsTransitive
<1> HIDE DEF t
<1>4. CASE ReceiveInvited(d)
  <2>1. PICK m \in Inbox(d, "Invited") : \E observed \in Observable(m.from), late \in Late :
                HandleInvited(d, m, observed, late)
    BY <1>4 DEF ReceiveInvited
  <2>2. PICK observed \in Observable(m.from), late \in Late : HandleInvited(d, m, observed, late)
    BY <2>1
  <2>3. m \in msgs /\ late \in 0..1
    BY InboxType DEF Late
  <2>4. PICK e \in EntryType : SetEntry(d, m.from, e) /\ Follows(Entry(d, m.from), e, t)
    BY <1>3, <2>2, <2>3 DEF HandleInvited
  <2> QED BY <1>2, <2>3, <2>4 DEF Follows
<1>5. CASE ReceiveAboutMe(d)
  <2>1. PICK m \in Inbox(d, "AboutMe") : \E observed \in Observable(m.from), late \in Late :
                HandleAboutMe(d, m, observed, late)
    BY <1>5 DEF ReceiveAboutMe
  <2>2. PICK observed \in Observable(m.from), late \in Late : HandleAboutMe(d, m, observed, late)
    BY <2>1
  <2>3. m \in msgs /\ late \in 0..1
    BY InboxType DEF Late
  <2>4. PICK e \in EntryType : SetEntry(d, m.from, e) /\ Follows(Entry(d, m.from), e, t)
    BY <1>3, <2>2, <2>3 DEF HandleAboutMe
  <2> QED BY <1>2, <2>3, <2>4 DEF Follows
<1>6. CASE ReceiveLeft(d)
  <2>1. PICK m \in Inbox(d, "Left") : \E observed \in Observable(m.from) :
                HandleLeft(d, m, observed)
    BY <1>6 DEF ReceiveLeft
  <2>2. PICK observed \in Observable(m.from) : HandleLeft(d, m, observed)
    BY <2>1
  <2>3. m \in msgs /\ 0 \in 0..1
    BY InboxType
  <2> DEFINE stamped == Stamped(d, m, observed)
             left == [stamped EXCEPT !.active = None]
  <2>4. /\ stamped \in EntryType /\ Follows(Entry(d, m.from), stamped, t)
        /\ Entry(d, m.from) \in EntryType /\ Follows(Entry(d, m.from), Entry(d, m.from), t)
    BY <1>3, <2>3
  <2>5. SetEntry(d, m.from, IF passed(d, m) THEN left ELSE Entry(d, m.from))
    BY <2>2 DEF HandleLeft
  <2> HIDE DEF stamped
  <2>6. left \in EntryType /\ left.active = None /\ left.trusted = stamped.trusted
    BY <2>4 DEF EntryType, MaybeRecord
  <2> HIDE DEF left
  <2> QED BY <1>2, <2>3, <2>4, <2>5, <2>6 DEF Follows
<1>7. CASE ReceiveSyncRequest(d)
  <2>1. PICK m \in Inbox(d, "SyncRequest") : \E observed \in Observable(m.from) :
                HandleSyncRequest(d, m, observed)
    BY <1>7 DEF ReceiveSyncRequest
  <2>2. PICK observed \in Observable(m.from) : HandleSyncRequest(d, m, observed)
    BY <2>1
  <2>3. m \in msgs /\ 0 \in 0..1
    BY InboxType
  <2>4. PICK e \in EntryType : SetEntry(d, m.from, e) /\ Follows(Entry(d, m.from), e, t)
    BY <1>3, <2>2, <2>3 DEF HandleSyncRequest
  <2> QED BY <1>2, <2>3, <2>4 DEF Follows
<1>8. CASE ReceiveSyncResponse(d)
  <2>1. PICK m \in Inbox(d, "SyncResponse") : \E observed \in Observable(m.from) :
                HandleSyncResponse(d, m, observed)
    BY <1>8 DEF ReceiveSyncResponse
  <2>2. PICK observed \in Observable(m.from) : HandleSyncResponse(d, m, observed)
    BY <2>1
  <2>3. m \in msgs
    BY InboxType
  <2>4. \A q \in Daemon : Entry(d, q) \in EntryType /\ Follows(Entry(d, q), Entry(d, q), t)
    BY <1>1, EntryInType, FollowsSame
  <2>5. CASE ~passed(d, m)
    <3>1. nodes' = nodes /\ trusted' = trusted
      BY <2>2, <2>5 DEF HandleSyncResponse
    <3> QED BY <2>4, <3>1 DEF Received, Follows, Entry, t
  <2>6. CASE passed(d, m)
    <3>1. /\ nodes' = [nodes EXCEPT ![d] =
                         [p \in Daemon |-> Learned(d, m, observed, p).active]]
          /\ trusted' = [trusted EXCEPT ![d] =
                         [p \in Daemon |-> Learned(d, m, observed, p).trusted]]
      BY <2>2, <2>6 DEF HandleSyncResponse
    <3>2. /\ \A q \in Daemon : nodes'[d][q] = Learned(d, m, observed, q).active
          /\ \A q \in Daemon : trusted'[d][q] = Learned(d, m, observed, q).trusted
          /\ \A x \in Daemon \ {d} : nodes'[x] = nodes[x] /\ trusted'[x] = trusted[x]
      BY <3>1 DEF TypeOK
    <3>3. \A q \in Daemon : Follows(Entry(d, q), Learned(d, m, observed, q), t)
      BY <2>3, LearnedFollows DEF t
    <3> QED BY <3>2, <3>3 DEF Received, Follows, Entry, t
  <2> QED BY <2>5, <2>6
<1> QED BY <1>4, <1>5, <1>6, <1>7, <1>8

\* A daemon that does not run has no directory.
DownEmpty == \A d \in Daemon \ up : nodes[d] = Unknown

RecordInv == TypeOK /\ DownEmpty

\* Every first state.
LEMMA RecordInit == Init => RecordInv
BY TypeInit DEF Init, RecordInv, DownEmpty

\* No step but a start or a message adds to what a daemon knows.
LEMMA OtherStep ==
    ASSUME TypeOK, NEW d \in Daemon,
           \/ StartFails(d) \/ Crash(d) \/ GracefulShutdown(d) \/ StateTick(d)
           \/ FullSyncTick(d) \/ NeighborUp(d) \/ RemoveNode(d)
           \/ Pause(d) \/ Resume(d) \/ ChangeAddr(d)
    PROVE  /\ \A x \in Daemon, q \in Daemon :
                 /\ nodes'[x][q] \in {None, nodes[x][q]}
                 /\ trusted'[x][q] \in {None, trusted[x][q]}
           /\ \A x \in Daemon : nodes'[x] = nodes[x] \/ x \in up' \/ nodes'[x] = Unknown
           /\ \A x \in Daemon : x \in up => x \in up' \/ nodes'[x] = Unknown
<1>1. CASE StartFails(d) \/ FullSyncTick(d) \/ NeighborUp(d) \/ Pause(d) \/ Resume(d) \/ ChangeAddr(d)
  <2>1. nodes' = nodes /\ trusted' = trusted /\ up' = up
    BY <1>1 DEF StartFails, FullSyncTick, NeighborUp, Pause, Resume, ChangeAddr
  <2> QED BY <2>1
<1>2. CASE Crash(d) \/ GracefulShutdown(d)
  <2>1. /\ nodes' = [nodes EXCEPT ![d] = Unknown] /\ trusted' = [trusted EXCEPT ![d] = Unknown]
        /\ up' = up \ {d}
    BY <1>2 DEF Crash, GracefulShutdown, Down
  <2> QED BY <2>1 DEF TypeOK, Unknown
<1>3. CASE StateTick(d)
  <2>1. /\ \A p \in Daemon : nodes'[d][p] = None \/ nodes'[d][p] = nodes[d][p]
        /\ \A x \in Daemon \ {d} : nodes'[x] = nodes[x]
    BY <1>3, TickForgets
  <2>2. trusted' = trusted /\ up' = up /\ d \in up
    BY <1>3 DEF StateTick
  <2> QED BY <2>1, <2>2
<1>4. CASE RemoveNode(d)
  <2>1. PICK p \in Daemon : /\ nodes' = [nodes EXCEPT ![d][p] = None]
                            /\ trusted' = [trusted EXCEPT ![d][p] = None]
    BY <1>4 DEF RemoveNode, SetEntry
  <2>2. up' = up /\ d \in up
    BY <1>4 DEF RemoveNode
  <2> QED BY <2>1, <2>2 DEF TypeOK, Directory
<1> QED BY <1>1, <1>2, <1>3, <1>4

\* What the remaining steps do to the two maps.
LEMMA StartRecords ==
    ASSUME TypeOK, NEW d \in Daemon, Start(d)
    PROVE  /\ d \notin up /\ up' = up \cup {d}
           /\ \A x \in Daemon \ {d} : nodes'[x] = nodes[x] /\ trusted'[x] = trusted[x]
BY DEF Start, TypeOK

\* AddNode merges the ticket into the trusted record, though not into the active one.
LEMMA AddNodeRecords ==
    ASSUME TypeOK, NEW d \in Daemon, AddNode(d)
    PROVE  /\ d \in up /\ up' = up
           /\ \A x \in Daemon \ {d} : nodes'[x] = nodes[x] /\ trusted'[x] = trusted[x]
           /\ \A q \in Daemon : NotOlder(trusted[d][q], trusted'[d][q], time_now(d))
<1>1. d \in up /\ up' = up
  BY DEF AddNode
<1>2. \A q \in Daemon : NotOlder(trusted[d][q], trusted[d][q], time_now(d))
  BY EntryInType, TimeType, FollowsSame DEF Follows, Entry
<1>3. PICK t \in issued :
         IF t.id = d THEN UNCHANGED <<nodes, trusted>>
         ELSE SetEntry(d, t.id, [active |-> t.rec, trusted |-> merge_node(trusted[d][t.id], t.rec)])
  BY DEF AddNode
<1>4. CASE t.id = d
  BY <1>1, <1>2, <1>3, <1>4
<1>5. CASE t.id # d
  <2> DEFINE merged == merge_node(trusted[d][t.id], t.rec)
  <2>1. t.id \in Daemon /\ t.rec \in Record /\ trusted[d][t.id] \in MaybeRecord
    BY DEF TypeOK, Ticket, Directory, MaybeRecord
  <2>2. merged \in Record /\ NotOlder(trusted[d][t.id], merged, time_now(d))
    BY <2>1, MergeNode, MergeFollows, TimeType
  <2>3. SetEntry(d, t.id, [active |-> t.rec, trusted |-> merged])
    BY <1>3, <1>5
  <2> HIDE DEF merged
  <2>4. /\ nodes' = [nodes EXCEPT ![d][t.id] = t.rec]
        /\ trusted' = [trusted EXCEPT ![d][t.id] = merged]
    BY <2>3 DEF SetEntry
  <2>5. /\ trusted'[d][t.id] = merged
        /\ \A q \in Daemon \ {t.id} : trusted'[d][q] = trusted[d][q]
        /\ \A x \in Daemon \ {d} : nodes'[x] = nodes[x] /\ trusted'[x] = trusted[x]
    BY <2>1, <2>4 DEF TypeOK, Directory
  <2> QED BY <1>1, <1>2, <2>2, <2>5
<1> QED BY <1>4, <1>5

\* Only who runs receives.
LEMMA ReceivesKeepUp ==
    ASSUME NEW d \in Daemon,
           \/ ReceiveInvited(d) \/ ReceiveAboutMe(d) \/ ReceiveLeft(d)
           \/ ReceiveSyncRequest(d) \/ ReceiveSyncResponse(d)
    PROVE  d \in up /\ up' = up
BY DEF ReceiveInvited, ReceiveAboutMe, ReceiveLeft, ReceiveSyncRequest, ReceiveSyncResponse,
       HandleInvited, HandleAboutMe, HandleLeft, HandleSyncRequest, HandleSyncResponse

\* A directory is filled by those who run, and gone when they stop.
LEMMA RecordStep == RecordInv /\ [Next]_vars => RecordInv'
<1> SUFFICES ASSUME RecordInv, [Next]_vars PROVE RecordInv'
  OBVIOUS
<1>0. TypeOK /\ TypeOK' /\ DownEmpty
  BY TypeStep DEF RecordInv
<1>1. CASE UNCHANGED vars \/ Tick
  BY <1>0, <1>1 DEF vars, Tick, RecordInv, DownEmpty
<1>2. ASSUME NEW d \in Daemon,
             \/ StartFails(d) \/ Crash(d) \/ GracefulShutdown(d) \/ StateTick(d)
             \/ FullSyncTick(d) \/ NeighborUp(d) \/ RemoveNode(d)
             \/ Pause(d) \/ Resume(d) \/ ChangeAddr(d)
      PROVE  RecordInv'
  <2>1. /\ \A x \in Daemon : nodes'[x] = nodes[x] \/ x \in up' \/ nodes'[x] = Unknown
        /\ \A x \in Daemon : x \in up => x \in up' \/ nodes'[x] = Unknown
    BY <1>0, <1>2, OtherStep
  <2> QED BY <1>0, <2>1 DEF RecordInv, DownEmpty, Unknown
<1>3. ASSUME NEW d \in Daemon,
             \/ ReceiveInvited(d) \/ ReceiveAboutMe(d) \/ ReceiveLeft(d)
             \/ ReceiveSyncRequest(d) \/ ReceiveSyncResponse(d)
      PROVE  RecordInv'
  <2>1. Received(d) /\ d \in up /\ up' = up
    BY <1>0, <1>3, ReceivedStep, ReceivesKeepUp
  <2> QED BY <1>0, <2>1 DEF RecordInv, DownEmpty, Received, Unknown
<1>4. ASSUME NEW d \in Daemon, Start(d) PROVE RecordInv'
  BY <1>0, <1>4, StartRecords DEF RecordInv, DownEmpty, Unknown
<1>5. ASSUME NEW d \in Daemon, AddNode(d) PROVE RecordInv'
  BY <1>0, <1>5, AddNodeRecords DEF RecordInv, DownEmpty, Unknown
<1> QED BY <1>1, <1>2, <1>3, <1>4, <1>5 DEF Next

\* Every state.
LEMMA RecordCorrect == Spec => []RecordInv
BY RecordInit, RecordStep, PTL DEF Spec

\* What a running daemon trusts of a peer is never replaced by something
\* older, however late or out of order the messages arrive: only the stamp of
\* process_message takes a heartbeat from a faster clock back, to its own now.
THEOREM TrustGoesForward == Spec => TrustedNeverOlder
<1> DEFINE Forward == \A d \in up \cap up', p \in Daemon :
                         trusted[d][p] # None /\ trusted'[d][p] # None
                            => \/ trusted'[d][p].hb >= trusted[d][p].hb
                               \/ trusted'[d][p].hb >= time_now(d)
<1>1. ASSUME TypeOK, [Next]_vars PROVE Forward
  <2>1. \A d \in Daemon, p \in Daemon : NotOlder(trusted[d][p], trusted[d][p], time_now(d))
    BY <1>1, EntryInType, TimeType, FollowsSame DEF Follows, Entry
  <2> SUFFICES ASSUME NEW x \in up \cap up', NEW p \in Daemon,
                      trusted[x][p] # None, trusted'[x][p] # None
               PROVE  NotOlder(trusted[x][p], trusted'[x][p], time_now(x))
    BY DEF NotOlder
  <2>0. x \in Daemon
    BY <1>1 DEF TypeOK
  <2>2. CASE UNCHANGED vars \/ Tick
    BY <2>0, <2>1, <2>2 DEF vars, Tick
  <2>3. ASSUME NEW d \in Daemon,
               \/ StartFails(d) \/ Crash(d) \/ GracefulShutdown(d) \/ StateTick(d)
               \/ FullSyncTick(d) \/ NeighborUp(d) \/ RemoveNode(d)
               \/ Pause(d) \/ Resume(d) \/ ChangeAddr(d)
        PROVE  NotOlder(trusted[x][p], trusted'[x][p], time_now(x))
    <3>1. trusted'[x][p] \in {None, trusted[x][p]}
      BY <1>1, <2>0, <2>3, OtherStep
    <3> QED BY <2>0, <2>1, <3>1
  <2>4. ASSUME NEW d \in Daemon,
               \/ ReceiveInvited(d) \/ ReceiveAboutMe(d) \/ ReceiveLeft(d)
               \/ ReceiveSyncRequest(d) \/ ReceiveSyncResponse(d)
        PROVE  NotOlder(trusted[x][p], trusted'[x][p], time_now(x))
    <3>1. Received(d)
      BY <1>1, <2>4, ReceivedStep
    <3> QED BY <2>0, <2>1, <3>1 DEF Received
  <2>5. ASSUME NEW d \in Daemon, Start(d)
        PROVE  NotOlder(trusted[x][p], trusted'[x][p], time_now(x))
    BY <1>1, <2>0, <2>1, <2>5, StartRecords
  <2>6. ASSUME NEW d \in Daemon, AddNode(d)
        PROVE  NotOlder(trusted[x][p], trusted'[x][p], time_now(x))
    BY <1>1, <2>0, <2>1, <2>6, AddNodeRecords
  <2> QED BY <1>1, <2>2, <2>3, <2>4, <2>5, <2>6 DEF Next
<1>2. TypeOK /\ [Next]_vars => [Forward]_vars
  BY <1>1
<1> QED BY <1>2, TypeCorrect, PTL DEF Spec, TrustedNeverOlder

\* No message and no timer makes a peer unreachable that stays active:
\* merge_node and refresh_sender replace addresses by addresses only.
THEOREM AddressesKept == Spec => AddressKept
<1> DEFINE Kept == \A d \in Daemon, p \in Daemon :
                      /\ nodes[d][p] # None /\ nodes'[d][p] # None
                      /\ has_ip_addr(nodes[d][p].addr)
                      /\ ~AddNode(d)
                      => has_ip_addr(nodes'[d][p].addr)
<1>1. ASSUME RecordInv, [Next]_vars PROVE Kept
  <2>0. TypeOK /\ DownEmpty
    BY <1>1 DEF RecordInv
  <2> SUFFICES ASSUME NEW x \in Daemon, NEW p \in Daemon,
                      nodes[x][p] # None, nodes'[x][p] # None,
                      has_ip_addr(nodes[x][p].addr), ~AddNode(x)
               PROVE  has_ip_addr(nodes'[x][p].addr)
    OBVIOUS
  <2>1. x \in up
    BY <2>0 DEF DownEmpty, Unknown
  <2>2. CASE UNCHANGED vars \/ Tick
    BY <2>2 DEF vars, Tick
  <2>3. ASSUME NEW d \in Daemon,
               \/ StartFails(d) \/ Crash(d) \/ GracefulShutdown(d) \/ StateTick(d)
               \/ FullSyncTick(d) \/ NeighborUp(d) \/ RemoveNode(d)
               \/ Pause(d) \/ Resume(d) \/ ChangeAddr(d)
        PROVE  has_ip_addr(nodes'[x][p].addr)
    <3>1. nodes'[x][p] \in {None, nodes[x][p]}
      BY <2>0, <2>3, OtherStep
    <3> QED BY <3>1
  <2>4. ASSUME NEW d \in Daemon,
               \/ ReceiveInvited(d) \/ ReceiveAboutMe(d) \/ ReceiveLeft(d)
               \/ ReceiveSyncRequest(d) \/ ReceiveSyncResponse(d)
        PROVE  has_ip_addr(nodes'[x][p].addr)
    <3>1. Received(d)
      BY <2>0, <2>4, ReceivedStep
    <3> QED BY <3>1 DEF Received, StillNamed
  <2>5. ASSUME NEW d \in Daemon, Start(d) PROVE has_ip_addr(nodes'[x][p].addr)
    <3>1. x # d /\ \A y \in Daemon \ {d} : nodes'[y] = nodes[y]
      BY <2>0, <2>1, <2>5, StartRecords
    <3> QED BY <3>1
  <2>6. ASSUME NEW d \in Daemon, AddNode(d) PROVE has_ip_addr(nodes'[x][p].addr)
    <3>1. \A y \in Daemon \ {d} : nodes'[y] = nodes[y]
      BY <2>0, <2>6, AddNodeRecords
    <3>2. x # d
      BY <2>6
    <3> QED BY <3>1, <3>2
  <2> QED BY <1>1, <2>2, <2>3, <2>4, <2>5, <2>6 DEF Next
<1>2. RecordInv /\ [Next]_vars => [Kept]_vars
  BY <1>1
<1> QED BY <1>2, RecordCorrect, PTL DEF Spec, AddressKept

\* Whatever order cleanup() meets the claimants of a domain in, the one it
\* leaves is no older than any other that is alive, and is the only one.
THEOREM NewestKept == Spec => NewestOfDomainKept
<1> DEFINE Newest == \A d \in Daemon : StateTick(d) =>
                        \A p, q \in Daemon :
                           p # q /\ Domain[p] = Domain[q] /\ nodes'[d][p] # None
                              => /\ nodes'[d][q] = None
                                 /\ nodes[d][q] # None /\ ~is_stale(nodes[d][q], time_now(d))
                                       => nodes[d][q].hb <= nodes[d][p].hb
<1>1. ASSUME TypeOK, [Next]_vars PROVE Newest
  <2> SUFFICES ASSUME NEW d \in Daemon, StateTick(d), NEW p \in Daemon, NEW q \in Daemon,
                      p # q, Domain[p] = Domain[q], nodes'[d][p] # None
               PROVE  /\ nodes'[d][q] = None
                      /\ nodes[d][q] # None /\ ~is_stale(nodes[d][q], time_now(d))
                            => nodes[d][q].hb <= nodes[d][p].hb
    OBVIOUS
  <2> DEFINE live == [r \in Daemon |->
                        IF nodes[d][r] # None /\ is_stale(nodes[d][r], time_now(d))
                        THEN None ELSE nodes[d][r]]
             active == {r \in DOMAIN live : live[r] # None}
             Rivals(r) == {s \in active : Domain[s] = Domain[r]}
  <2>1. PICK gone \in ids_to_remove_for_duplicate_domains(live, Domain) :
           nodes' = [nodes EXCEPT ![d] = [r \in Daemon |-> IF r \in gone THEN None ELSE live[r]]]
    BY DEF StateTick
  <2>2. PICK kept \in SUBSET active :
           /\ gone = active \ kept
           /\ \A r \in active : \E best \in kept :
                 /\ kept \cap Rivals(r) = {best}
                 /\ live[best].hb >= live[r].hb
    <3> DEFINE Keeps(k) == \A r \in active : \E best \in k :
                              /\ k \cap Rivals(r) = {best}
                              /\ Domain[best] = Domain[r]
                              /\ live[best].hb >= live[r].hb
    <3>1. ids_to_remove_for_duplicate_domains(live, Domain)
            = {active \ k : k \in {l \in SUBSET active : Keeps(l)}}
      BY DEF ids_to_remove_for_duplicate_domains
    <3>2. PICK k \in SUBSET active : Keeps(k) /\ gone = active \ k
      <4> HIDE DEF Keeps, active, live
      <4> QED BY <2>1, <3>1
    <3> HIDE DEF active, live, Rivals
    <3> QED BY <3>2
  <2>3. \A r \in Daemon : nodes'[d][r] = IF r \in gone THEN None ELSE live[r]
    <3> HIDE DEF live
    <3> QED BY <1>1, <2>1 DEF TypeOK
  <2>4. p \in active /\ p \in kept /\ (q \in active \/ live[q] = None)
    BY <2>2, <2>3
  <2>5. kept \cap Rivals(p) = {p}
    BY <2>2, <2>4
  <2>6. Rivals(q) = Rivals(p)
    OBVIOUS
  <2>7. nodes'[d][q] = None
    <3> SUFFICES ASSUME nodes'[d][q] # None PROVE FALSE
      OBVIOUS
    <3>1. q \in active /\ q \in kept
      BY <2>2, <2>3, <2>4
    <3>2. q \in kept \cap Rivals(p)
      BY <3>1
    <3> QED BY <2>5, <3>2
  <2>8. ASSUME nodes[d][q] # None, ~is_stale(nodes[d][q], time_now(d))
        PROVE  nodes[d][q].hb <= nodes[d][p].hb
    <3>1. q \in active /\ live[q] = nodes[d][q] /\ live[p] = nodes[d][p]
      BY <2>4, <2>8
    <3>2. live[p].hb >= live[q].hb
      BY <2>2, <2>5, <2>6, <3>1
    <3> HIDE DEF live
    <3>3. nodes[d][p] \in Record /\ nodes[d][q] \in Record
      BY <1>1, <2>4, <2>8, <3>1 DEF TypeOK, Directory
    <3> QED BY <3>1, <3>2, <3>3 DEF Record
  <2> QED BY <2>7, <2>8
<1>2. TypeOK /\ [Next]_vars => [Newest]_vars
  BY <1>1
<1> QED BY <1>2, TypeCorrect, PTL DEF Spec, NewestOfDomainKept

-----------------------------------------------------------------------------
(* Membership implements Roster: every step of the protocol is, on the     *)
(* statuses of the peers, a step of Roster or none.                        *)

(* From statements about single peers to the variables of Roster. *)

\* The peers in S get status s at d, and nobody else's status changes.
Marks(d, S, s) ==
    /\ \A p \in Daemon : statusOf(d, p)' = IF p \in S THEN s ELSE statusOf(d, p)
    /\ \A x \in Daemon \ {d}, p \in Daemon : statusOf(x, p)' = statusOf(x, p)

\* The peers in S are added to those that d keeps.
Keeps(d, S) ==
    /\ \A p \in Daemon \ {d} : (stored[d][p] # None)' <=> stored[d][p] # None \/ p \in S
    /\ \A x \in Daemon \ {d} : \A p \in Daemon \ {x} : (stored[x][p] # None)' <=> stored[x][p] # None

\* What Roster calls status, and kept.
statusBar == [d \in Daemon |-> [p \in Daemon |-> statusOf(d, p)]]
keptBar == [d \in Daemon |-> {p \in Daemon \ {d} : stored[d][p] # None}]

\* A step that marks peers is a Mark of Roster.
LEMMA MarksBar ==
    ASSUME NEW d \in Daemon, NEW S, NEW s, Marks(d, S, s)
    PROVE  R!Mark(d, S, s)
BY DEF Marks, R!Mark

\* Peers whose records are in the storage already or are trusted are kept.
LEMMA KeepsBar ==
    ASSUME NEW d \in Daemon, NEW S \in SUBSET (Daemon \ {d}), Keeps(d, S)
    PROVE  keptBar' = [keptBar EXCEPT ![d] = @ \cup S]
BY DEF Keeps, keptBar

\* A step that changes no status and no kept peer leaves Roster alone.
LEMMA StutterBar ==
    ASSUME UNCHANGED <<up, stored, admitted>>,
           \A x \in Daemon, p \in Daemon : statusOf(x, p)' = statusOf(x, p)
    PROVE  UNCHANGED R!vars
BY DEF R!vars

\* The peers that Roster says are known are the trusted ones.
LEMMA KnownBar ==
    ASSUME ActiveTrusted, NEW d \in Daemon
    PROVE  R!Known(d) = {p \in Daemon \ {d} : trusted[d][p] # None}
BY DEF R!Known, ActiveTrusted, statusOf

-----------------------------------------------------------------------------
(* What the operators on entries do to a status. *)

\* Stamping a sender neither activates it nor makes it inactive.
LEMMA StampedStatus ==
    ASSUME TypeOK, NEW d \in Daemon, NEW m \in msgs, NEW observed \in Observable(m.from)
    PROVE  /\ Stamped(d, m, observed) \in EntryType
           /\ Entry(d, m.from).active # None => Stamped(d, m, observed).active # None
           /\ Entry(d, m.from).active = None => Stamped(d, m, observed) = Entry(d, m.from)
<1>1. m.from \in Daemon
  BY DEF TypeOK, Message
<1>2. /\ Entry(d, m.from) \in EntryType /\ Stamped(d, m, observed) \in EntryType
      /\ time_now(d) \in Nat /\ observed \in SUBSET IpAddr
  BY <1>1, EntryInType, StampedType, TimeType, AdvertisedType
<1>3. ASSUME NEW e \in EntryType, NEW t \in Nat, e.active # None
      PROVE  refresh_sender(e, observed, t).active # None
  <2>1. [hb |-> t, addr |-> e.active.addr] # None /\ [hb |-> t, addr |-> observed] # None
    BY <1>2, <1>3, NoneAssumption DEF EntryType, MaybeRecord, Record
  <2> QED BY <1>3, <2>1 DEF refresh_sender, EntryType
<1>4. CASE Entry(d, m.from).active # None
  BY <1>2, <1>3, <1>4 DEF Stamped
<1>5. CASE Entry(d, m.from).active = None
  BY <1>2, <1>5, RefreshLemma DEF Stamped
<1> QED BY <1>2, <1>4, <1>5

\* A record that is learnt makes its peer active; one that is not changes nothing.
LEMMA LearnStatus ==
    ASSUME NEW e \in EntryType, NEW record \in MaybeRecord
    PROVE  Learn(e, record) = e \/ Learn(e, record).active # None
BY AdmitLemma DEF Learn, MaybeRecord

\* So a directory leaves each peer active or as it was.
LEMMA LearnedStatus ==
    ASSUME TypeOK, NEW d \in Daemon, NEW m \in msgs, NEW observed \in Observable(m.from),
           NEW p \in Daemon
    PROVE  \/ Learned(d, m, observed, p).active # None
           \/ Learned(d, m, observed, p) = Entry(d, p)
<1> DEFINE own == [hb |-> m.ts, addr |-> sender_message_addr(observed, m.addr)]
           listed == IF m.nodes[p] = None THEN None
                     ELSE [hb |-> m.nodes[p].hb,
                           addr |-> sender_message_addr(observed, m.nodes[p].addr)]
           heard == Stamped(d, m, observed)
<1>1. own \in MaybeRecord /\ m.nodes[p] \in MaybeRecord /\ listed \in MaybeRecord
  BY ListedType
<1>2. Learned(d, m, observed, p) =
        IF p = d THEN Entry(d, p)
        ELSE IF p = m.from THEN Learn(Learn(heard, listed), own)
        ELSE Learn(Entry(d, p), m.nodes[p])
  BY DEF Learned
<1>3. CASE p = d
  BY <1>2, <1>3
<1>4. CASE p # d /\ p = m.from
  <2>1. heard \in EntryType /\ (heard.active # None \/ heard = Entry(d, p))
    BY <1>4, StampedStatus
  <2> HIDE DEF own, listed, heard
  <2>2. Learn(heard, listed) \in EntryType
    BY <1>1, <2>1, LearnLemma
  <2> QED BY <1>1, <1>2, <1>4, <2>1, <2>2, LearnStatus
<1>5. CASE p # d /\ p # m.from
  BY <1>1, <1>2, <1>5, EntryInType, LearnStatus
<1> QED BY <1>3, <1>4, <1>5

-----------------------------------------------------------------------------
(* The steps that are none of Roster's. *)

\* Time, addresses, pausing, and messages that are only sent change no status.
LEMMA QuietIsStutter ==
    ASSUME UNCHANGED <<up, nodes, trusted, stored, admitted>>
    PROVE  UNCHANGED R!vars
<1>1. \A x \in Daemon, p \in Daemon : statusOf(x, p)' = statusOf(x, p)
  BY DEF statusOf
<1> QED BY <1>1, StutterBar

\* A handler that changes no entry's status is none either.
LEMMA EntriesKept ==
    ASSUME UNCHANGED <<up, stored, admitted>>, NEW d \in Daemon, NEW q \in Daemon,
           \A x \in Daemon, p \in Daemon : x # d \/ p # q => Entry(x, p)' = Entry(x, p),
           \/ (Entry(d, q).active # None /\ (Entry(d, q)').active # None)
           \/ Entry(d, q)' = Entry(d, q)
    PROVE  UNCHANGED R!vars
<1>1. \A x \in Daemon, p \in Daemon : x # d \/ p # q => statusOf(x, p)' = statusOf(x, p)
  BY DEF statusOf, Entry
<1>2. statusOf(d, q)' = statusOf(d, q)
  BY DEF statusOf, Entry
<1> QED BY <1>1, <1>2, StutterBar

-----------------------------------------------------------------------------
(* Starts and stops. *)

\* init_network loads who is stored, and the invitor of the ticket.
LEMMA StartIsBoot ==
    ASSUME TypeOK, NEW d \in Daemon, Start(d)
    PROVE  R!Boot(d)
<1>1. PICK t \in StartTickets(d) :
        /\ trusted' = [trusted EXCEPT ![d] = LoadedTrusted(d, t)]
        /\ nodes' = [nodes EXCEPT ![d] = LoadedNodes(d, t)]
  BY DEF Start
<1>2. t = None \/ (t \in issued /\ t.id \in Holders /\ t.id \in Daemon /\ t.rec \in Record)
  BY LoadedType
<1>3. /\ \A p \in Daemon : nodes'[d][p] = LoadedNodes(d, t)[p]
      /\ \A x \in Daemon \ {d} : nodes'[x] = nodes[x] /\ trusted'[x] = trusted[x]
      /\ \A p \in Daemon : trusted'[d][p] = LoadedTrusted(d, t)[p]
  BY <1>1 DEF TypeOK
<1> DEFINE invitor == IF t = None THEN {} ELSE {t.id} \ {d}
<1>4. \A p \in Daemon \ {d} :
        /\ nodes'[d][p] # None <=> stored[d][p] # None \/ p \in invitor
        /\ trusted'[d][p] = nodes'[d][p]
  <2>1. CASE t = None
    BY <1>3, <2>1 DEF LoadedNodes, LoadedTrusted
  <2>2. CASE t # None
    <3>1. LoadedTrusted(d, t) =
            [p \in Daemon |-> IF p = d THEN None ELSE IF p = t.id THEN t.rec ELSE stored[d][p]]
      BY <2>2 DEF LoadedTrusted
    <3>2. LoadedNodes(d, t) = [LoadedTrusted(d, t) EXCEPT ![t.id] = t.rec]
      BY <2>2 DEF LoadedNodes
    <3>3. t.rec # None
      BY <1>2, <2>2, NoneAssumption
    <3>4. \A p \in Daemon \ {d} :
            /\ LoadedNodes(d, t)[p] = LoadedTrusted(d, t)[p]
            /\ LoadedTrusted(d, t)[p] = IF p = t.id THEN t.rec ELSE stored[d][p]
      BY <1>2, <2>2, <3>1, <3>2
    <3> QED BY <1>3, <2>2, <3>3, <3>4
  <2> QED BY <2>1, <2>2
<1>5. invitor \in {{}} \cup {{p} : p \in Holders \ {d}}
  BY <1>2
<1> HIDE DEF invitor
<1>6. \A p \in Daemon :
        statusOf(d, p)' = IF p \in {q \in Daemon \ {d} : stored[d][q] # None} \cup invitor
                          THEN "active" ELSE "unknown"
  BY <1>4, <1>5 DEF statusOf
<1>7. \A x \in Daemon \ {d}, p \in Daemon : statusOf(x, p)' = statusOf(x, p)
  BY <1>3 DEF statusOf
<1>8. d \notin up /\ up' = up \cup {d} /\ UNCHANGED <<stored, admitted>>
  BY DEF Start
<1>9. statusBar' = [statusBar EXCEPT ![d] =
                      [p \in Daemon |-> IF p \in keptBar[d] \cup invitor
                                        THEN "active" ELSE "unknown"]]
  BY <1>6, <1>7 DEF statusBar, keptBar
<1>10. keptBar' = keptBar
  BY <1>8 DEF keptBar
<1> QED BY <1>5, <1>8, <1>9, <1>10 DEF R!Boot, statusBar, keptBar

\* After a stop nobody is known; save() has kept all that were, or none more.
LEMMA StopIsHalt ==
    ASSUME TypeOK, ActiveTrusted, NEW d \in Daemon, Crash(d) \/ GracefulShutdown(d)
    PROVE  R!Halt(d)
<1>1. /\ d \in up /\ up' = up \ {d} /\ admitted' = admitted
      /\ \A p \in Daemon : nodes'[d][p] = None /\ trusted'[d][p] = None
      /\ \A x \in Daemon \ {d} : nodes'[x] = nodes[x] /\ trusted'[x] = trusted[x]
  BY DEF Crash, GracefulShutdown, Down, TypeOK, Unknown
<1>2. Marks(d, Daemon, "unknown")
  BY <1>1 DEF Marks, statusOf
<1>3. CASE Crash(d)
  <2>1. stored' = stored
    BY <1>3 DEF Crash
  <2> QED BY <1>1, <1>2, <2>1, MarksBar DEF R!Halt
<1>4. CASE GracefulShutdown(d)
  <2>1. stored' = [stored EXCEPT ![d] = Saved(d)]
    BY <1>4 DEF GracefulShutdown
  <2>2. PICK S \in SUBSET (Daemon \ {d}) : S = {p \in Daemon \ {d} : trusted[d][p] # None}
    OBVIOUS
  <2>3. Keeps(d, S)
    BY <2>1, <2>2 DEF Keeps, Saved, TypeOK
  <2>4. keptBar' = [keptBar EXCEPT ![d] = @ \cup R!Known(d)]
    BY <2>2, <2>3, KeepsBar, KnownBar
  <2>5. R!Mark(d, Daemon, "unknown")
    BY <1>2, MarksBar
  <2> QED BY <1>1, <2>4, <2>5 DEF R!Halt, keptBar
<1> QED BY <1>3, <1>4

\* cleanup() makes active peers inactive, and save() keeps who is trusted.
LEMMA TickIsClean ==
    ASSUME TypeOK, ActiveTrusted, NEW d \in Daemon, StateTick(d)
    PROVE  R!Clean(d)
<1>1. /\ d \in up /\ UNCHANGED <<up, trusted, admitted>>
      /\ stored' = [stored EXCEPT ![d] = Saved(d)]
  BY DEF StateTick
<1>2. /\ \A p \in Daemon : nodes'[d][p] = None \/ nodes'[d][p] = nodes[d][p]
      /\ \A x \in Daemon \ {d} : nodes'[x] = nodes[x]
  BY TickForgets
<1> DEFINE gone == {p \in Daemon \ {d} : nodes[d][p] # None /\ nodes'[d][p] = None}
<1>3. Marks(d, gone, "inactive")
  BY <1>1, <1>2 DEF Marks, statusOf, ActiveTrusted
<1>4. gone \in SUBSET {p \in R!Known(d) : statusOf(d, p) = "active"}
  BY KnownBar DEF statusOf, ActiveTrusted
<1>5. PICK S \in SUBSET (Daemon \ {d}) : S = {p \in Daemon \ {d} : trusted[d][p] # None}
  OBVIOUS
<1>6. \A p \in R!Known(d) :
        [x \in Daemon |-> [q \in Daemon |-> statusOf(x, q)]][d][p] = statusOf(d, p)
  BY KnownBar
<1>7. keptBar' = [keptBar EXCEPT ![d] = @ \cup R!Known(d)]
  <2>1. Keeps(d, S)
    BY <1>1, <1>5 DEF Keeps, Saved, TypeOK
  <2> QED BY <1>5, <2>1, KeepsBar, KnownBar
<1>8. R!Mark(d, gone, "inactive")
  BY <1>3, MarksBar
<1>9. gone \in SUBSET {p \in R!Known(d) :
        [x \in Daemon |-> [q \in Daemon |-> statusOf(x, q)]][d][p] = "active"}
  BY <1>4, <1>6
<1> HIDE DEF gone
<1> QED BY <1>1, <1>7, <1>8, <1>9 DEF R!Clean, keptBar

-----------------------------------------------------------------------------
(* Messages. *)

\* A message that d receives came from someone else.
LEMMA ReceivedMessage ==
    ASSUME TrustInv, NEW d \in Daemon, NEW type, NEW m \in Inbox(d, type)
    PROVE  m \in msgs /\ m.from \in Daemon /\ m.from # d
BY InboxType DEF TrustInv, GroundedMessages

\* A handler that writes one entry marks its peer.
LEMMA EntryMarked ==
    ASSUME TypeOK, NEW d \in Daemon, NEW q \in Daemon \ {d}, NEW s,
           NEW e \in EntryType, SetEntry(d, q, e),
           s = IF e.active # None THEN "active"
               ELSE IF e.trusted # None THEN "inactive" ELSE "unknown"
    PROVE  R!Mark(d, {q}, s)
<1>1. /\ Entry(d, q)' = e
      /\ \A x \in Daemon, p \in Daemon : x # d \/ p # q => Entry(x, p)' = Entry(x, p)
  BY SetEntryEffect
<1>2. /\ statusOf(d, q)' = s
      /\ \A x \in Daemon, p \in Daemon : x # d \/ p # q => statusOf(x, p)' = statusOf(x, p)
  BY <1>1 DEF Entry, statusOf
<1>3. Marks(d, {q}, s)
  BY <1>2 DEF Marks
<1> QED BY <1>3, MarksBar

\* A sender that is only stamped keeps its status.
LEMMA StampIsStutter ==
    ASSUME TypeOK, NEW d \in Daemon, NEW m \in msgs, NEW observed \in Observable(m.from),
           SetEntry(d, m.from, Stamped(d, m, observed)), UNCHANGED <<up, stored, admitted>>
    PROVE  UNCHANGED R!vars
<1>1. m.from \in Daemon
  BY DEF TypeOK, Message
<1>2. /\ Stamped(d, m, observed) \in EntryType
      /\ Entry(d, m.from).active # None => Stamped(d, m, observed).active # None
      /\ Entry(d, m.from).active = None => Stamped(d, m, observed) = Entry(d, m.from)
  BY StampedStatus
<1>3. /\ Entry(d, m.from)' = Stamped(d, m, observed)
      /\ \A x \in Daemon, p \in Daemon : x # d \/ p # m.from => Entry(x, p)' = Entry(x, p)
  BY <1>1, <1>2, SetEntryEffect
<1> QED BY <1>1, <1>2, <1>3, EntriesKept

\* Nor does one whose entry is written as it was.
LEMMA SameIsStutter ==
    ASSUME TypeOK, NEW d \in Daemon, NEW q \in Daemon,
           SetEntry(d, q, Entry(d, q)), UNCHANGED <<up, stored, admitted>>
    PROVE  UNCHANGED R!vars
<1>1. Entry(d, q) \in EntryType
  BY EntryInType
<1>2. /\ Entry(d, q)' = Entry(d, q)
      /\ \A x \in Daemon, p \in Daemon : x # d \/ p # q => Entry(x, p)' = Entry(x, p)
  BY <1>1, SetEntryEffect
<1> QED BY <1>2, EntriesKept

\* Invited: a holder proves itself, or nothing changes.
LEMMA InvitedIsJoin ==
    ASSUME TrustInv, NEW d \in Daemon, ReceiveInvited(d)
    PROVE  (\E p \in Daemon : R!Join(d, p)) \/ UNCHANGED R!vars
<1>1. PICK m \in Inbox(d, "Invited") :
        \E observed \in Observable(m.from), late \in Late : HandleInvited(d, m, observed, late)
  BY DEF ReceiveInvited
<1>2. PICK observed \in Observable(m.from), late \in Late : HandleInvited(d, m, observed, late)
  BY <1>1
<1>3. TypeOK /\ m \in msgs /\ m.from \in Daemon /\ m.from # d
  BY ReceivedMessage DEF TrustInv
<1>4. d \in up /\ UNCHANGED <<up, stored, admitted>>
  BY <1>2 DEF HandleInvited
<1>5. CASE Fresh(d, m) /\ validate(d, m.from)
  <2> DEFINE e == Admit(Stamped(d, m, observed), Incoming(d, m, observed, late))
  <2>1. SetEntry(d, m.from, e)
    BY <1>2, <1>5 DEF HandleInvited
  <2>2. e \in EntryType /\ e.active # None
    BY <1>3, StampedType, IncomingType, AdmitLemma DEF Late
  <2> HIDE DEF e
  <2>3. R!Mark(d, {m.from}, "active")
    BY <1>3, <2>1, <2>2, EntryMarked
  <2>4. m.from \in Holders \ {d}
    BY <1>3, <1>5 DEF validate
  <2> QED BY <1>3, <1>4, <2>3, <2>4 DEF R!Join
<1>6. CASE ~(Fresh(d, m) /\ validate(d, m.from))
  <2>1. SetEntry(d, m.from, Stamped(d, m, observed))
    BY <1>2, <1>6 DEF HandleInvited
  <2> QED BY <1>3, <1>4, <2>1, StampIsStutter
<1> QED BY <1>5, <1>6

\* Whoever passes the check of process_message is known, and is a holder or
\* was admitted.
LEMMA PassedIsKnown ==
    ASSUME TrustInv, NEW d \in Daemon, NEW m \in msgs, m.from \in Daemon \ {d}, passed(d, m)
    PROVE  m.from \in R!Known(d) /\ m.from \in (Holders \cup admitted) \ {d}
<1>1. trusted[d][m.from] # None
  BY DEF passed
<1>2. R!Known(d) = {p \in Daemon \ {d} : trusted[d][p] # None}
  BY KnownBar DEF TrustInv
<1> QED BY <1>1, <1>2 DEF TrustInv, TrustGrounded

\* AboutMe: someone known shows that it is alive, or nothing changes.
LEMMA AboutMeIsLearn ==
    ASSUME TrustInv, NEW d \in Daemon, ReceiveAboutMe(d)
    PROVE  R!Learn(d) \/ UNCHANGED R!vars
<1>1. PICK m \in Inbox(d, "AboutMe") :
        \E observed \in Observable(m.from), late \in Late : HandleAboutMe(d, m, observed, late)
  BY DEF ReceiveAboutMe
<1>2. PICK observed \in Observable(m.from), late \in Late : HandleAboutMe(d, m, observed, late)
  BY <1>1
<1>3. TypeOK /\ m \in msgs /\ m.from \in Daemon /\ m.from # d
  BY ReceivedMessage DEF TrustInv
<1>4. d \in up /\ UNCHANGED <<up, stored, admitted>>
  BY <1>2 DEF HandleAboutMe
<1>5. CASE passed(d, m)
  <2> DEFINE e == Admit(Stamped(d, m, observed), Incoming(d, m, observed, late))
  <2>1. SetEntry(d, m.from, e)
    BY <1>2, <1>5 DEF HandleAboutMe
  <2>2. e \in EntryType /\ e.active # None
    BY <1>3, StampedType, IncomingType, AdmitLemma DEF Late
  <2> HIDE DEF e
  <2>3. R!Mark(d, {m.from}, "active")
    BY <1>3, <2>1, <2>2, EntryMarked
  <2>4. R!Known(d) # {} /\ {m.from} \in SUBSET ((Holders \cup admitted) \ {d})
    BY <1>3, <1>5, PassedIsKnown
  <2> QED BY <1>4, <2>3, <2>4 DEF R!Learn
<1>6. CASE ~passed(d, m)
  <2>1. SetEntry(d, m.from, Entry(d, m.from))
    BY <1>2, <1>6 DEF HandleAboutMe
  <2> QED BY <1>3, <1>4, <2>1, SameIsStutter
<1> QED BY <1>5, <1>6

\* Left: someone known says goodbye, or nothing changes.
LEMMA LeftIsLeave ==
    ASSUME TrustInv, NEW d \in Daemon, ReceiveLeft(d)
    PROVE  (\E p \in Daemon : R!Leave(d, p)) \/ UNCHANGED R!vars
<1>1. PICK m \in Inbox(d, "Left") :
        \E observed \in Observable(m.from) : HandleLeft(d, m, observed)
  BY DEF ReceiveLeft
<1>2. PICK observed \in Observable(m.from) : HandleLeft(d, m, observed)
  BY <1>1
<1>3. TypeOK /\ m \in msgs /\ m.from \in Daemon /\ m.from # d
  BY ReceivedMessage DEF TrustInv
<1>4. d \in up /\ UNCHANGED <<up, stored, admitted>>
  BY <1>2 DEF HandleLeft
<1>5. CASE passed(d, m)
  <2> DEFINE e == [Stamped(d, m, observed) EXCEPT !.active = None]
  <2>1. SetEntry(d, m.from, e)
    BY <1>2, <1>5 DEF HandleLeft
  <2>2. /\ Stamped(d, m, observed) \in EntryType
        /\ Learns(Entry(d, m.from), Stamped(d, m, observed))
    BY <1>3, StampedLearns
  <2>3. Stamped(d, m, observed).trusted # None
    BY <1>5, <2>2 DEF passed, Entry, Learns
  <2>4. e \in EntryType /\ e.active = None /\ e.trusted # None
    BY <2>2, <2>3 DEF EntryType, MaybeRecord
  <2> HIDE DEF e
  <2>5. R!Mark(d, {m.from}, "inactive")
    BY <1>3, <2>1, <2>4, EntryMarked
  <2>6. m.from \in R!Known(d)
    BY <1>3, <1>5, PassedIsKnown
  <2> QED BY <1>3, <1>4, <2>5, <2>6 DEF R!Leave
<1>6. CASE ~passed(d, m)
  <2>1. SetEntry(d, m.from, Entry(d, m.from))
    BY <1>2, <1>6 DEF HandleLeft
  <2> QED BY <1>3, <1>4, <2>1, SameIsStutter
<1> QED BY <1>5, <1>6

\* SyncRequest: whoever asks is answered, and nobody's status changes.
LEMMA RequestIsStutter ==
    ASSUME TrustInv, NEW d \in Daemon, ReceiveSyncRequest(d)
    PROVE  UNCHANGED R!vars
<1>1. PICK m \in Inbox(d, "SyncRequest") :
        \E observed \in Observable(m.from) : HandleSyncRequest(d, m, observed)
  BY DEF ReceiveSyncRequest
<1>2. PICK observed \in Observable(m.from) : HandleSyncRequest(d, m, observed)
  BY <1>1
<1>3. TypeOK /\ m \in msgs
  BY ReceivedMessage DEF TrustInv
<1> QED BY <1>2, <1>3, StampIsStutter DEF HandleSyncRequest

\* SyncResponse: someone known introduces others, or nothing changes.
LEMMA ResponseIsLearn ==
    ASSUME TrustInv, TrustInv', NEW d \in Daemon, ReceiveSyncResponse(d)
    PROVE  R!Learn(d) \/ UNCHANGED R!vars
<1>1. PICK m \in Inbox(d, "SyncResponse") :
        \E observed \in Observable(m.from) : HandleSyncResponse(d, m, observed)
  BY DEF ReceiveSyncResponse
<1>2. PICK observed \in Observable(m.from) : HandleSyncResponse(d, m, observed)
  BY <1>1
<1>3. TypeOK /\ m \in msgs /\ m.from \in Daemon /\ m.from # d
  BY ReceivedMessage DEF TrustInv
<1>4. d \in up /\ UNCHANGED <<up, stored, admitted>>
  BY <1>2 DEF HandleSyncResponse
<1>5. CASE passed(d, m)
  <2>1. /\ nodes' = [nodes EXCEPT ![d] =
                       [p \in Daemon |-> Learned(d, m, observed, p).active]]
        /\ trusted' = [trusted EXCEPT ![d] =
                       [p \in Daemon |-> Learned(d, m, observed, p).trusted]]
    BY <1>2, <1>5 DEF HandleSyncResponse
  <2>2. \A p \in Daemon :
          /\ Learned(d, m, observed, p) \in EntryType
          /\ \/ Learned(d, m, observed, p).active # None
             \/ Learned(d, m, observed, p) = Entry(d, p)
    BY <1>3, LearnedType, LearnedStatus
  <2>3. \A p \in Daemon : /\ nodes'[d][p] = Learned(d, m, observed, p).active
                          /\ trusted'[d][p] = Learned(d, m, observed, p).trusted
    BY <1>3, <2>1 DEF TypeOK
  <2>4. \A x \in Daemon \ {d} : nodes'[x] = nodes[x] /\ trusted'[x] = trusted[x]
    BY <1>3, <2>1 DEF TypeOK
  <2>5. \A p \in Daemon : \/ nodes'[d][p] # None
                          \/ nodes'[d][p] = nodes[d][p] /\ trusted'[d][p] = trusted[d][p]
    BY <2>2, <2>3 DEF Entry
  <2>6. PICK S : S = {p \in Daemon \ {d} : nodes'[d][p] # None}
    OBVIOUS
  <2>7. Marks(d, S, "active")
    BY <2>4, <2>5, <2>6 DEF Marks, statusOf
  <2>8. S \in SUBSET ((Holders \cup admitted) \ {d})
    BY <1>4, <2>6 DEF TrustInv, TrustGrounded
  <2>9. R!Known(d) # {}
    BY <1>3, <1>5, PassedIsKnown
  <2>10. R!Mark(d, S, "active")
    BY <2>7, MarksBar
  <2> QED BY <1>4, <2>8, <2>9, <2>10 DEF R!Learn
<1>6. CASE ~passed(d, m)
  BY <1>2, <1>4, <1>6, QuietIsStutter DEF HandleSyncResponse
<1> QED BY <1>5, <1>6

-----------------------------------------------------------------------------
(* Admin commands. *)

\* AddNode: an admin vouches for the node of a ticket; its own changes nothing
\* but the storage, which it does not load its own record from.
LEMMA AddNodeIsAdd ==
    ASSUME TypeOK, NEW d \in Daemon, AddNode(d)
    PROVE  \E p \in Daemon : R!Add(d, p)
<1>1. PICK t \in issued :
        /\ IF t.id = d
           THEN UNCHANGED <<nodes, trusted>>
           ELSE SetEntry(d, t.id, [active |-> t.rec,
                                   trusted |-> merge_node(trusted[d][t.id], t.rec)])
        /\ stored' = [stored EXCEPT ![d][t.id] = t.rec]
        /\ admitted' = admitted \cup {t.id}
  BY DEF AddNode
<1>2. t.id \in Daemon /\ t.rec \in Record /\ t.rec # None
  BY NoneAssumption DEF TypeOK, Ticket
<1>3. d \in up /\ up' = up
  BY DEF AddNode
<1>4. PICK S \in SUBSET (Daemon \ {d}) : S = {t.id} \ {d}
  BY <1>2
<1>5. Keeps(d, S)
  BY <1>1, <1>2, <1>4 DEF Keeps, TypeOK, Directory
<1>6. keptBar' = [keptBar EXCEPT ![d] = @ \cup S]
  BY <1>5, KeepsBar
<1>7. CASE t.id = d
  <2>1. \A x \in Daemon, p \in Daemon : statusOf(x, p)' = statusOf(x, p)
    BY <1>1, <1>7 DEF statusOf
  <2>2. statusBar' = statusBar
    BY <2>1 DEF statusBar
  <2>3. \A x \in Daemon : \A p \in Daemon \ {x} :
          stored'[x][p] # None <=> stored[x][p] # None
    BY <1>4, <1>5, <1>7 DEF Keeps
  <2>4. keptBar' = keptBar
    BY <2>3 DEF keptBar
  <2> QED BY <1>1, <1>2, <1>3, <1>7, <2>2, <2>4 DEF R!Add, statusBar, keptBar
<1>8. CASE t.id # d
  <2> DEFINE e == [active |-> t.rec, trusted |-> merge_node(trusted[d][t.id], t.rec)]
  <2>1. SetEntry(d, t.id, e)
    BY <1>1, <1>8
  <2>2. trusted[d][t.id] \in MaybeRecord
    BY <1>2 DEF TypeOK, Directory, MaybeRecord
  <2>3. e \in EntryType /\ e.active # None
    BY <1>2, <2>2, MergeNode DEF EntryType, MaybeRecord
  <2> HIDE DEF e
  <2>4. R!Mark(d, {t.id}, "active")
    BY <1>2, <1>8, <2>1, <2>3, EntryMarked
  <2>5. keptBar' = [keptBar EXCEPT ![d] = @ \cup {t.id}]
    BY <1>4, <1>6, <1>8
  <2> QED BY <1>1, <1>2, <1>3, <1>8, <2>4, <2>5 DEF R!Add, keptBar
<1> QED BY <1>7, <1>8

\* RemoveNode: unknown, and gone from the storage in the same step.
LEMMA RemoveNodeIsRemove ==
    ASSUME TypeOK, NEW d \in Daemon, RemoveNode(d)
    PROVE  \E p \in Daemon : R!Remove(d, p)
<1>1. PICK p \in Daemon \ {d} :
        /\ SetEntry(d, p, [active |-> None, trusted |-> None])
        /\ stored' = [stored EXCEPT ![d][p] = None]
  BY DEF RemoveNode
<1>2. d \in up /\ UNCHANGED <<up, admitted>>
  BY DEF RemoveNode
<1> DEFINE e == [active |-> None, trusted |-> None]
<1>3. SetEntry(d, p, e)
  BY <1>1
<1>4. e \in EntryType /\ e.active = None /\ e.trusted = None
  BY DEF EntryType, MaybeRecord
<1> HIDE DEF e
<1>5. R!Mark(d, {p}, "unknown")
  BY <1>3, <1>4, EntryMarked
<1>6. /\ \A q \in Daemon : stored'[d][q] = IF q = p THEN None ELSE stored[d][q]
      /\ \A x \in Daemon \ {d} : stored'[x] = stored[x]
  BY <1>1 DEF TypeOK, Directory
<1>7. keptBar' = [keptBar EXCEPT ![d] = @ \ {p}]
  <2>1. {q \in Daemon \ {d} : stored'[d][q] # None}
          = {q \in Daemon \ {d} : stored[d][q] # None} \ {p}
    BY <1>6
  <2> QED BY <1>6, <2>1 DEF keptBar
<1> QED BY <1>2, <1>5, <1>7 DEF R!Remove, keptBar

-----------------------------------------------------------------------------
(* The refinement. *)

\* Before anyone has started, nobody knows or keeps anybody.
LEMMA RosterInit == Init => R!Init
<1> SUFFICES ASSUME Init PROVE R!Init
  OBVIOUS
<1>1. up = {} /\ admitted = {}
  BY DEF Init
<1>2. \A d \in Daemon, p \in Daemon : statusOf(d, p) = "unknown" /\ stored[d][p] = None
  BY DEF Init, Unknown, statusOf
<1>3. statusBar = [d \in Daemon |-> [p \in Daemon |-> "unknown"]]
  BY <1>2 DEF statusBar
<1>4. keptBar = [d \in Daemon |-> {}]
  BY <1>2 DEF keptBar
<1> QED BY <1>1, <1>3, <1>4 DEF R!Init, statusBar, keptBar

\* Every step of the protocol is a step of Roster, or none.
LEMMA RosterStep == TrustInv /\ TrustInv' /\ [Next]_vars => [R!Next]_R!vars
<1> SUFFICES ASSUME TrustInv, TrustInv', [Next]_vars PROVE R!Next \/ UNCHANGED R!vars
  OBVIOUS
<1>0. TypeOK /\ ActiveTrusted
  BY DEF TrustInv
<1>1. CASE Tick \/ UNCHANGED vars
  BY <1>1, QuietIsStutter DEF Tick, vars
<1>2. ASSUME NEW d \in Daemon,
             \/ StartFails(d) \/ FullSyncTick(d) \/ NeighborUp(d)
             \/ Pause(d) \/ Resume(d) \/ ChangeAddr(d)
      PROVE  UNCHANGED R!vars
  BY <1>2, QuietIsStutter DEF StartFails, FullSyncTick, NeighborUp, Pause, Resume, ChangeAddr
<1>3. ASSUME NEW d \in Daemon, Start(d) PROVE R!Next
  BY <1>0, <1>3, StartIsBoot DEF R!Next
<1>4. ASSUME NEW d \in Daemon, Crash(d) \/ GracefulShutdown(d) PROVE R!Next
  BY <1>0, <1>4, StopIsHalt DEF R!Next
<1>5. ASSUME NEW d \in Daemon, StateTick(d) PROVE R!Next
  BY <1>0, <1>5, TickIsClean DEF R!Next
<1>6. ASSUME NEW d \in Daemon, ReceiveInvited(d) PROVE R!Next \/ UNCHANGED R!vars
  BY <1>6, InvitedIsJoin DEF R!Next
<1>7. ASSUME NEW d \in Daemon, ReceiveAboutMe(d) PROVE R!Next \/ UNCHANGED R!vars
  BY <1>7, AboutMeIsLearn DEF R!Next
<1>8. ASSUME NEW d \in Daemon, ReceiveLeft(d) PROVE R!Next \/ UNCHANGED R!vars
  BY <1>8, LeftIsLeave DEF R!Next
<1>9. ASSUME NEW d \in Daemon, ReceiveSyncRequest(d) PROVE UNCHANGED R!vars
  BY <1>9, RequestIsStutter
<1>10. ASSUME NEW d \in Daemon, ReceiveSyncResponse(d) PROVE R!Next \/ UNCHANGED R!vars
  BY <1>10, ResponseIsLearn DEF R!Next
<1>11. ASSUME NEW d \in Daemon, AddNode(d) PROVE R!Next
  BY <1>0, <1>11, AddNodeIsAdd DEF R!Next
<1>12. ASSUME NEW d \in Daemon, RemoveNode(d) PROVE R!Next
  BY <1>0, <1>12, RemoveNodeIsRemove DEF R!Next
<1> QED BY <1>1, <1>2, <1>3, <1>4, <1>5, <1>6, <1>7, <1>8, <1>9, <1>10, <1>11, <1>12 DEF Next

\* Membership implements Roster: no handler, however late or out of order its
\* message, makes a peer known without proof, introduction or an admin, none
\* but RemoveNode and the end of the process makes one unknown, and the
\* storage lags behind what is known and never knows more.
THEOREM RosterImplemented == Spec => ImplementsRoster
<1>1. Spec => R!Init
  BY RosterInit DEF Spec
<1>2. Spec => [][R!Next]_R!vars
  BY RosterStep, TrustCorrect, PTL DEF Spec
<1> QED BY <1>1, <1>2 DEF ImplementsRoster, R!Spec
=============================================================================
