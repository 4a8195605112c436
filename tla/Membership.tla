----------------------------- MODULE Membership -----------------------------
(***************************************************************************)
(* The membership protocol of p2p-ddns (src/net/mod.rs): daemons that hold *)
(* a network's ticket announce themselves, tell the others where they are, *)
(* hand their directory to whoever asks, forget peers that fell silent and *)
(* keep the peers they trust across restarts.                              *)
(*                                                                         *)
(* Each arm of the event loop Context::run is one action; init_network is  *)
(* Start, the admin commands that touch the directory are AddNode and      *)
(* RemoveNode.  The network loses, delays and reorders messages.  Every    *)
(* clock reads `now` plus the daemon's fixed Offset.  Interleavings inside *)
(* a handler are the subject of another module.                            *)
(***************************************************************************)
EXTENDS NodeRecord

CONSTANTS
    Daemon,         \* endpoint ids; a persisted secret key each
    Primary,        \* the daemon run with --primary
    Holders,        \* daemons configured with the network's topic and rnum;
                    \* each other one has the topic and an rnum of its own
    Domain,         \* Daemon -> the domain a daemon serves
    Offset,         \* Daemon -> error of its wall clock
    MaxTime,        \* bounds of the finite instances: seconds that pass,
    MaxInFlight,    \* copies of messages in flight,
    MaxStarts,      \* starts and restarts,
    MaxStops,       \* crashes and shutdowns,
    MaxTimers,      \* timer events of all event loops together,
    MaxAdmin,       \* admin commands,
    MaxMoves        \* changes of address

ASSUME MembershipAssumption ==
    /\ Primary \in Holders
    /\ Holders \subseteq Daemon
    /\ Offset \in [Daemon -> Nat]
    /\ {MaxTime, MaxInFlight, MaxStarts, MaxStops, MaxTimers,
        MaxAdmin, MaxMoves} \subseteq Nat

VARIABLES
    now,            \* global time, in seconds
    up,             \* daemons whose process runs
    nodes,          \* Context.nodes: [Daemon -> the active directory]
    trusted,        \* Context.trusted_nodes
    stored,         \* the nodes table of Storage, kept across restarts
    configured,     \* daemons whose Storage has a topic and a ticket_rnum
    joinAnnounced,  \* daemons whose Context.join_announced is set
    paused,         \* daemons whose Context.paused is set
    ip,             \* the address of each endpoint, None without a network
    issued,         \* tickets printed so far: invitor id and record
    msgs,           \* copies of signed messages in flight
    lastAlive,      \* history: clock of each daemon's last signature
    admitted,       \* history: ids an admin added with AddNode
    used            \* counters of the bounded environment steps

vars == <<now, up, nodes, trusted, stored, configured, joinAnnounced, paused,
          ip, issued, msgs, lastAlive, admitted, used>>

Directory == [Daemon -> Record \cup {None}]
Unknown == [p \in Daemon |-> None]
Ticket == [id : Daemon, rec : Record]
MessageType == {"Invited", "AboutMe", "Left", "SyncRequest", "SyncResponse"}

\* A signed message on its way to one receiver.  addr is the sender's address
\* and nodes, in a SyncResponse, the sender's directory.
Message == [type : MessageType, from : Daemon, to : Daemon, ts : Nat,
            addr : SUBSET IpAddr, nodes : Directory]

TypeOK ==
    /\ now \in Nat
    /\ up \subseteq Daemon
    /\ nodes \in [Daemon -> Directory]
    /\ trusted \in [Daemon -> Directory]
    /\ stored \in [Daemon -> Directory]
    /\ configured \subseteq Daemon
    /\ joinAnnounced \subseteq Daemon
    /\ paused \subseteq Daemon
    /\ ip \in [Daemon -> IpAddr \cup {None}]
    /\ issued \subseteq Ticket
    /\ msgs \subseteq Message
    /\ lastAlive \in [Daemon -> Nat]
    /\ admitted \subseteq Daemon
    /\ used \in [starts : Nat, stops : Nat, timers : Nat,
                admin : Nat, moves : Nat]

-----------------------------------------------------------------------------
(* Clocks, sending, and the pieces every handler shares. *)

time_now(d) == now + Offset[d]

\* Mutant: an endpoint without a network still advertises an address.
Advertised_unset(d) == {ip[d]}

\* advertised_endpoint_addr: what an endpoint says its addresses are.
Advertised(d) == {ip[d]} \ {None}

\* observed_direct_addr: the address of the direct connection, if there is
\* one; the connection layer is outside the repository.
Observable(p) == {{}, Advertised(p)}

\* current_node_state
current_node_state(d) == [hb |-> time_now(d), addr |-> Advertised(d)]

Signed(d, type, dir) ==
    [type |-> type, from |-> d, ts |-> time_now(d),
     addr |-> Advertised(d), nodes |-> dir]

\* One copy of a message for each receiver.
Copies(m, receivers) ==
    {[type |-> m.type, from |-> m.from, to |-> q, ts |-> m.ts,
      addr |-> m.addr, nodes |-> m.nodes] : q \in receivers}

\* The network keeps any of the copies and loses the rest; `rest` is what is
\* in flight already.
Post(rest, copies) ==
    \E kept \in SUBSET copies :
        /\ Cardinality(rest \cup kept) <= MaxInFlight
        /\ msgs' = rest \cup kept

\* The gossip topic reaches the daemons that run.
Others(d) == up \ {d}
Inbox(d, type) == {m \in msgs : m.to = d /\ m.type = type}

Fresh(d, m) == is_fresh(m.ts, time_now(d))

\* VerifyStatus::passed
passed(d, m) == trusted[d][m.from] # None /\ Fresh(d, m)

\* Mutant: the topic alone admits.
validate_topic_only(d, p) == {d, p} \subseteq Daemon

\* Ticket::validate: the sender's topic and rnum against the receiver's.
validate(d, p) == d \in Holders /\ p \in Holders

\* What d knows of p: the active record and the trusted one.
Entry(d, p) == [active |-> nodes[d][p], trusted |-> trusted[d][p]]

\* The head of process_message for a message that passed: an active sender
\* is stamped with the time, and with the observed address if there is one.
refresh_sender(e, observed, t) ==
    IF e.active = None THEN e
    ELSE IF observed = {} THEN [e EXCEPT !.active = [hb |-> t, addr |-> e.active.addr]]
    ELSE LET seen == [hb |-> t, addr |-> observed]
         IN  [active |-> seen, trusted |-> seen]

\* Mutant: the trusted record is overwritten instead of merged.
Admit_overwrites_trusted(e, incoming) ==
    LET merged == merge_node(e.active, incoming)
    IN  [active |-> merged, trusted |-> merged]

\* merge_node into the directory, then trust_daemon_node and
\* upsert_active_node of the result.
Admit(e, incoming) ==
    LET merged == merge_node(e.active, incoming)
    IN  [active |-> merged, trusted |-> merge_node(e.trusted, merged)]

\* One record of a SyncResponse: only an unknown or a newer one is taken.
Learn(e, record) ==
    IF record # None /\ (e.active = None \/ e.active.hb < record.hb)
    THEN Admit(e, record)
    ELSE e

\* sender_message_addr
sender_message_addr(observed, addr) == IF observed = {} THEN addr ELSE observed

SetEntry(d, p, e) ==
    /\ nodes' = [nodes EXCEPT ![d][p] = e.active]
    /\ trusted' = [trusted EXCEPT ![d][p] = e.trusted]

\* save(): the trusted records are written over the stored ones; nothing is
\* ever deleted.
Saved(d) == [p \in Daemon |-> IF p # d /\ trusted[d][p] # None
                              THEN trusted[d][p] ELSE stored[d][p]]

-----------------------------------------------------------------------------
(* Start, stop and the timers of the event loop. *)

\* The tickets a start can be given: none, or one printed by a holder.
StartTickets(d) ==
    IF d = Primary \/ d \notin Holders THEN {None}
    ELSE {t \in issued : t.id \in Holders} \cup (IF d \in configured THEN {None} ELSE {})

\* Persisted nodes (daemons, not itself) and the ticket's invitor; the
\* active directory takes the invitor even if it is this daemon.
LoadedTrusted(d, t) ==
    [p \in Daemon |-> IF p = d THEN None
                      ELSE IF t # None /\ p = t.id THEN t.rec ELSE stored[d][p]]
LoadedNodes(d, t) ==
    IF t = None THEN LoadedTrusted(d, t)
    ELSE [LoadedTrusted(d, t) EXCEPT ![t.id] = t.rec]

\* init_network: fails if the gossip topic cannot be joined (five timeouts),
\* but the topic and the rnum are persisted by then.
StartFails(d) ==
    /\ d \notin up /\ d # Primary /\ used.starts < MaxStarts
    /\ StartTickets(d) # {}
    /\ configured' = configured \cup {d}
    /\ used' = [used EXCEPT !.starts = @ + 1]
    /\ UNCHANGED <<now, up, nodes, trusted, stored, joinAnnounced, paused, ip,
                   issued, msgs, lastAlive, admitted>>

\* init_network, its announce_join, and the neighbour sync Context::run opens
\* with.  Only the primary may be alone on the topic.  A daemon started
\* without a ticket prints tickets that name itself.
Start(d) ==
    /\ d \notin up /\ used.starts < MaxStarts
    /\ d = Primary \/ up # {}
    /\ \E t \in StartTickets(d) :
          /\ trusted' = [trusted EXCEPT ![d] = LoadedTrusted(d, t)]
          /\ nodes' = [nodes EXCEPT ![d] = LoadedNodes(d, t)]
          /\ issued' = IF t = None
                       THEN issued \cup {[id |-> d, rec |-> current_node_state(d)]}
                       ELSE issued
    /\ up' = up \cup {d}
    /\ configured' = configured \cup {d}
    /\ \E announced \in IF d = Primary THEN {FALSE} ELSE BOOLEAN :
          /\ joinAnnounced' = IF announced THEN joinAnnounced \cup {d} ELSE joinAnnounced
          /\ Post(msgs, Copies(Signed(d, "SyncRequest", Unknown), Others(d))
                        \cup IF announced
                             THEN Copies(Signed(d, "Invited", Unknown), Others(d))
                             ELSE {})
    /\ lastAlive' = [lastAlive EXCEPT ![d] = time_now(d)]
    /\ used' = [used EXCEPT !.starts = @ + 1]
    /\ UNCHANGED <<now, stored, paused, ip, admitted>>

\* The process is gone and with it everything Context kept in memory.
Down(d) ==
    /\ up' = up \ {d}
    /\ nodes' = [nodes EXCEPT ![d] = Unknown]
    /\ trusted' = [trusted EXCEPT ![d] = Unknown]
    /\ joinAnnounced' = joinAnnounced \ {d}
    /\ paused' = paused \ {d}
    /\ used' = [used EXCEPT !.stops = @ + 1]

\* A crash, or an event loop ended by a closed receiver: nothing is saved.
Crash(d) ==
    /\ d \in up /\ used.stops < MaxStops
    /\ Down(d)
    /\ UNCHANGED <<now, stored, configured, ip, issued, msgs, lastAlive, admitted>>

\* graceful_shutdown: say Left, save, stop.
GracefulShutdown(d) ==
    /\ d \in up /\ used.stops < MaxStops
    /\ Post(msgs, Copies(Signed(d, "Left", Unknown), Others(d)))
    /\ lastAlive' = [lastAlive EXCEPT ![d] = time_now(d)]
    /\ stored' = [stored EXCEPT ![d] = Saved(d)]
    /\ Down(d)
    /\ UNCHANGED <<now, configured, ip, issued, admitted>>

\* The state_broadcast timer: AboutMe unless paused, then cleanup(), which
\* drops silent peers and then all but one peer of a domain, then save().
StateTick(d) ==
    /\ d \in up /\ used.timers < MaxTimers
    /\ IF d \in paused
       THEN UNCHANGED <<msgs, lastAlive>>
       ELSE /\ Post(msgs, Copies(Signed(d, "AboutMe", Unknown), Others(d)))
            /\ lastAlive' = [lastAlive EXCEPT ![d] = time_now(d)]
    /\ LET live == [p \in Daemon |->
                       IF nodes[d][p] # None /\ is_stale(nodes[d][p], time_now(d))
                       THEN None ELSE nodes[d][p]]
       IN  \E gone \in ids_to_remove_for_duplicate_domains(live, Domain) :
             nodes' = [nodes EXCEPT ![d] =
                         [p \in Daemon |-> IF p \in gone THEN None ELSE live[p]]]
    /\ stored' = [stored EXCEPT ![d] = Saved(d)]
    /\ used' = [used EXCEPT !.timers = @ + 1]
    /\ UNCHANGED <<now, up, trusted, configured, joinAnnounced, paused, ip,
                   issued, admitted>>

\* The full_sync timer: ask the neighbours for their directories.
FullSyncTick(d) ==
    /\ d \in up \ paused /\ used.timers < MaxTimers
    /\ used' = [used EXCEPT !.timers = @ + 1]
    /\ Post(msgs, Copies(Signed(d, "SyncRequest", Unknown), Others(d)))
    /\ lastAlive' = [lastAlive EXCEPT ![d] = time_now(d)]
    /\ UNCHANGED <<now, up, nodes, trusted, stored, configured, joinAnnounced,
                   paused, ip, issued, admitted>>

\* Event::NeighborUp: announce_join, unless it succeeded once already.
NeighborUp(d) ==
    /\ d \in up \ joinAnnounced /\ d # Primary
    /\ Post(msgs, Copies(Signed(d, "Invited", Unknown), Others(d)))
    /\ joinAnnounced' = joinAnnounced \cup {d}
    /\ lastAlive' = [lastAlive EXCEPT ![d] = time_now(d)]
    /\ UNCHANGED <<now, up, nodes, trusted, stored, configured, paused, ip,
                   issued, admitted, used>>
-----------------------------------------------------------------------------
(* process_message, one action per kind of message.  Receiving consumes the *)
(* copy.  The handlers that build a record read the clock a second time     *)
(* after the freshness check and the stamp: `late` is 1 when a second       *)
(* boundary falls between the two reads.                                    *)

Late == {n \in 0..1 : now + n <= MaxTime}

\* The entry of the sender after the head of process_message.
Stamped(d, m, observed) ==
    IF passed(d, m)
    THEN refresh_sender(Entry(d, m.from), observed, time_now(d))
    ELSE Entry(d, m.from)

Incoming(d, m, observed, late) ==
    [hb |-> time_now(d) + late, addr |-> sender_message_addr(observed, m.addr)]

\* Invited: whoever freshly proves it holds the ticket is trusted and active.
HandleInvited(d, m, observed, late) ==
    /\ d \in up
    /\ SetEntry(d, m.from,
                IF Fresh(d, m) /\ validate(d, m.from)
                THEN Admit(Stamped(d, m, observed), Incoming(d, m, observed, late))
                ELSE Stamped(d, m, observed))
    /\ now' = now + late
    /\ msgs' = msgs \ {m}
    /\ UNCHANGED <<up, stored, configured, joinAnnounced, paused, ip, issued,
                   lastAlive, admitted, used>>

ReceiveInvited(d) ==
    \E m \in Inbox(d, "Invited") : \E observed \in Observable(m.from), late \in Late :
        HandleInvited(d, m, observed, late)

\* AboutMe: the periodic update, taken from trusted senders only.
HandleAboutMe(d, m, observed, late) ==
    /\ d \in up
    /\ SetEntry(d, m.from,
                IF passed(d, m)
                THEN Admit(Stamped(d, m, observed), Incoming(d, m, observed, late))
                ELSE Entry(d, m.from))
    /\ now' = now + late
    /\ msgs' = msgs \ {m}
    /\ UNCHANGED <<up, stored, configured, joinAnnounced, paused, ip, issued,
                   lastAlive, admitted, used>>

ReceiveAboutMe(d) ==
    \E m \in Inbox(d, "AboutMe") : \E observed \in Observable(m.from), late \in Late :
        HandleAboutMe(d, m, observed, late)

\* Mutant: a peer that left is no longer trusted.
HandleLeft_untrusts(d, m, observed) ==
    /\ d \in up
    /\ SetEntry(d, m.from,
                IF passed(d, m) THEN [active |-> None, trusted |-> None]
                ELSE Entry(d, m.from))
    /\ msgs' = msgs \ {m}
    /\ UNCHANGED <<now, up, stored, configured, joinAnnounced, paused, ip,
                   issued, lastAlive, admitted, used>>

\* Left: the sender is no longer active; it stays trusted.
HandleLeft(d, m, observed) ==
    /\ d \in up
    /\ SetEntry(d, m.from,
                IF passed(d, m)
                THEN [Stamped(d, m, observed) EXCEPT !.active = None]
                ELSE Entry(d, m.from))
    /\ msgs' = msgs \ {m}
    /\ UNCHANGED <<now, up, stored, configured, joinAnnounced, paused, ip,
                   issued, lastAlive, admitted, used>>

ReceiveLeft(d) ==
    \E m \in Inbox(d, "Left") : \E observed \in Observable(m.from) :
        HandleLeft(d, m, observed)

\* SyncRequest: answered with the whole directory, whoever asks.  The only
\* requests the program sends carry no nodes, so nothing is learnt from one.
HandleSyncRequest(d, m, observed) ==
    /\ d \in up
    /\ SetEntry(d, m.from, Stamped(d, m, observed))
    /\ Post(msgs \ {m}, Copies(Signed(d, "SyncResponse", nodes'[d]), {m.from}))
    /\ lastAlive' = [lastAlive EXCEPT ![d] = time_now(d)]
    /\ UNCHANGED <<now, up, stored, configured, joinAnnounced, paused, ip,
                   issued, admitted, used>>

ReceiveSyncRequest(d) ==
    \E m \in Inbox(d, "SyncRequest") : \E observed \in Observable(m.from) :
        HandleSyncRequest(d, m, observed)

\* Mutant: a relayed record is stamped on receipt like a direct one.
Learned_restamped(d, m, observed, p) ==
    LET own == [hb |-> m.ts, addr |-> sender_message_addr(observed, m.addr)]
    IN  IF p = d THEN Entry(d, p)
        ELSE IF p = m.from THEN Learn(Stamped(d, m, observed), own)
        ELSE IF m.nodes[p] = None THEN Entry(d, p)
        ELSE Learn(Entry(d, p), [hb |-> time_now(d), addr |-> m.nodes[p].addr])

\* What a SyncResponse leaves of d's entry for p.  The sender's own record,
\* built when it answered, comes after its directory.
Learned(d, m, observed, p) ==
    LET own == [hb |-> m.ts, addr |-> sender_message_addr(observed, m.addr)]
        listed == IF m.nodes[p] = None THEN None
                  ELSE [hb |-> m.nodes[p].hb,
                        addr |-> sender_message_addr(observed, m.nodes[p].addr)]
    IN  IF p = d THEN Entry(d, p)
        ELSE IF p = m.from
        THEN Learn(Learn(Stamped(d, m, observed), listed), own)
        ELSE Learn(Entry(d, p), m.nodes[p])

\* SyncResponse: everyone a trusted peer lists is trusted and active here too
\* unless the record is older than what is known.
HandleSyncResponse(d, m, observed) ==
    /\ d \in up
    /\ IF passed(d, m)
       THEN /\ nodes' = [nodes EXCEPT ![d] =
                           [p \in Daemon |-> Learned(d, m, observed, p).active]]
            /\ trusted' = [trusted EXCEPT ![d] =
                           [p \in Daemon |-> Learned(d, m, observed, p).trusted]]
       ELSE UNCHANGED <<nodes, trusted>>
    /\ msgs' = msgs \ {m}
    /\ UNCHANGED <<now, up, stored, configured, joinAnnounced, paused, ip,
                   issued, lastAlive, admitted, used>>

ReceiveSyncResponse(d) ==
    \E m \in Inbox(d, "SyncResponse") : \E observed \in Observable(m.from) :
        HandleSyncResponse(d, m, observed)

-----------------------------------------------------------------------------
(* Admin commands that touch the directory (admin/handler.rs). *)

\* AddNode: the ticket's record is trusted, put over the active one without
\* a merge, and persisted, in that order.
AddNode(d) ==
    /\ d \in up /\ used.admin < MaxAdmin
    /\ \E t \in issued :
          /\ IF t.id = d
             THEN UNCHANGED <<nodes, trusted>>
             ELSE SetEntry(d, t.id, [active |-> t.rec,
                                     trusted |-> merge_node(trusted[d][t.id], t.rec)])
          /\ stored' = [stored EXCEPT ![d][t.id] = t.rec]
          /\ admitted' = admitted \cup {t.id}
    /\ used' = [used EXCEPT !.admin = @ + 1]
    /\ UNCHANGED <<now, up, configured, joinAnnounced, paused, ip, issued, msgs,
                   lastAlive>>

\* Mutant: the active entry survives.
RemoveNode_keeps_active(d) ==
    /\ d \in up /\ used.admin < MaxAdmin
    /\ \E p \in Daemon \ {d} :
          /\ SetEntry(d, p, [active |-> nodes[d][p], trusted |-> None])
          /\ stored' = [stored EXCEPT ![d][p] = None]
    /\ used' = [used EXCEPT !.admin = @ + 1]
    /\ UNCHANGED <<now, up, configured, joinAnnounced, paused, ip, issued, msgs,
                   lastAlive, admitted>>

\* Mutant: the storage is left alone.
RemoveNode_keeps_stored(d) ==
    /\ d \in up /\ used.admin < MaxAdmin
    /\ \E p \in Daemon \ {d} :
          SetEntry(d, p, [active |-> None, trusted |-> None])
    /\ used' = [used EXCEPT !.admin = @ + 1]
    /\ UNCHANGED <<now, up, stored, configured, joinAnnounced, paused, ip, issued,
                   msgs, lastAlive, admitted>>

\* RemoveNode of a full id: inactive, untrusted and deleted from storage.
RemoveNode(d) ==
    /\ d \in up /\ used.admin < MaxAdmin
    /\ \E p \in Daemon \ {d} :
          /\ SetEntry(d, p, [active |-> None, trusted |-> None])
          /\ stored' = [stored EXCEPT ![d][p] = None]
    /\ used' = [used EXCEPT !.admin = @ + 1]
    /\ UNCHANGED <<now, up, configured, joinAnnounced, paused, ip, issued, msgs,
                   lastAlive, admitted>>

Pause(d) ==
    /\ d \in up \ paused /\ used.admin < MaxAdmin
    /\ paused' = paused \cup {d}
    /\ used' = [used EXCEPT !.admin = @ + 1]
    /\ UNCHANGED <<now, up, nodes, trusted, stored, configured, joinAnnounced, ip,
                   issued, msgs, lastAlive, admitted>>

Resume(d) ==
    /\ d \in paused
    /\ paused' = paused \ {d}
    /\ UNCHANGED <<now, up, nodes, trusted, stored, configured, joinAnnounced, ip,
                   issued, msgs, lastAlive, admitted, used>>

-----------------------------------------------------------------------------
(* The environment. *)

\* The endpoint gets another address from DHCP, or loses its network.
ChangeAddr(d) ==
    /\ used.moves < MaxMoves
    /\ \E addr \in (IpAddr \cup {None}) \ {ip[d]} : ip' = [ip EXCEPT ![d] = addr]
    /\ used' = [used EXCEPT !.moves = @ + 1]
    /\ UNCHANGED <<now, up, nodes, trusted, stored, configured, joinAnnounced,
                   paused, issued, msgs, lastAlive, admitted>>

Tick ==
    /\ now < MaxTime
    /\ now' = now + 1
    /\ UNCHANGED <<up, nodes, trusted, stored, configured, joinAnnounced, paused,
                   ip, issued, msgs, lastAlive, admitted, used>>

Init ==
    /\ now = 0
    /\ up = {}
    /\ nodes = [d \in Daemon |-> Unknown]
    /\ trusted = [d \in Daemon |-> Unknown]
    /\ stored = [d \in Daemon |-> Unknown]
    /\ configured = {}
    /\ joinAnnounced = {}
    /\ paused = {}
    /\ ip \in [Daemon -> IpAddr]
    /\ issued = {}
    /\ msgs = {}
    /\ lastAlive = [d \in Daemon |-> 0]
    /\ admitted = {}
    /\ used = [starts |-> 0, stops |-> 0, timers |-> 0, admin |-> 0, moves |-> 0]

Next ==
    \/ Tick
    \/ \E d \in Daemon :
          \/ StartFails(d) \/ Start(d) \/ Crash(d) \/ GracefulShutdown(d)
          \/ StateTick(d) \/ FullSyncTick(d) \/ NeighborUp(d)
          \/ ReceiveInvited(d) \/ ReceiveAboutMe(d) \/ ReceiveLeft(d)
          \/ ReceiveSyncRequest(d) \/ ReceiveSyncResponse(d)
          \/ AddNode(d) \/ RemoveNode(d) \/ Pause(d) \/ Resume(d)
          \/ ChangeAddr(d)

Spec == Init /\ [][Next]_vars

-----------------------------------------------------------------------------
(* Properties. *)

\* Only daemons that hold the network's topic and rnum, or that an admin
\* added, are ever trusted, active or stored at another daemon: the guards
\* of the Invited, AboutMe and Sync handlers together let no one else in,
\* although a SyncRequest is answered and a stale one may be relayed.
TrustGrounded ==
    \A d \in Daemon, p \in Daemon \ (Holders \cup admitted) :
        p # d => /\ nodes[d][p] = None
                 /\ trusted[d][p] = None
                 /\ stored[d][p] = None

\* Context keeps two maps that are updated one after the other: a peer that
\* is active (and so resolvable) is also trusted.
ActiveTrusted ==
    \A d \in Daemon, p \in Daemon : p # d /\ nodes[d][p] # None => trusted[d][p] # None

\* save() never deletes, so what storage holds of a running daemon's peers
\* must follow RemoveNode: no peer is stored that is no longer trusted, or
\* a restart would bring a removed peer back.
StoredTrusted ==
    \A d \in up, p \in Daemon : p # d /\ stored[d][p] # None => trusted[d][p] # None

\* The newest heartbeat any record of p can carry.
HeartbeatBound(p) == lastAlive[p] + MAX_AGE_SECS + 1

\* Relaying never makes a peer look more alive than it was: wherever a record
\* of p is kept, its heartbeat is at most the age limit of a message (and
\* one second between two clock reads) past the last thing p signed.
HeartbeatBacked ==
    \A d \in Daemon, p \in Daemon :
        \A r \in {nodes[d][p], trusted[d][p], stored[d][p]} \ {None} :
            r.hb <= HeartbeatBound(p)

\* cleanup() forgets a peer that died, left or was paused after a bounded
\* time, whatever the others keep telling about it.
SilentPeersForgotten ==
    [][\A d \in Daemon : StateTick(d) =>
         \A p \in Daemon :
            nodes'[d][p] # None =>
                time_now(d) <= HeartbeatBound(p) + STALE_NODE_TTL_SECS]_vars

\* cleanup() leaves at most one active peer to a domain, and never one that is
\* older than another live claimant: who resolves a name is decided by the
\* newest heartbeat, whatever order the map is walked in.
NewestOfDomainKept ==
    [][\A d \in Daemon : StateTick(d) =>
         \A p, q \in Daemon :
            p # q /\ Domain[p] = Domain[q] /\ nodes'[d][p] # None
               => /\ nodes'[d][q] = None
                  /\ nodes[d][q] # None /\ ~is_stale(nodes[d][q], time_now(d))
                        => nodes[d][q].hb <= nodes[d][p].hb]_vars

\* While a daemon runs, what it trusts of a peer never goes back in time,
\* however late or out of order updates and directories arrive; only a
\* heartbeat from a clock ahead of its own may be stamped back to its own.
TrustedNeverOlder ==
    [][\A d \in up \cap up', p \in Daemon :
         trusted[d][p] # None /\ trusted'[d][p] # None
            => \/ trusted'[d][p].hb >= trusted[d][p].hb
               \/ trusted'[d][p].hb >= time_now(d)]_vars

\* An update that carries no address never erases the ones known: whatever
\* message arrives, a peer that stays active stays reachable.  (AddNode puts
\* the ticket's record over the active one without a merge.)
AddressKept ==
    [][\A d \in Daemon, p \in Daemon :
         /\ nodes[d][p] # None /\ nodes'[d][p] # None
         /\ has_ip_addr(nodes[d][p].addr)
         /\ ~AddNode(d)
         => has_ip_addr(nodes'[d][p].addr)]_vars

\* "newer DHCP address update should replace the old IP instead of keeping
\* it" (src/domain/merge.rs:187): an AboutMe that passes, signed after the
\* record of its sender was last touched, leaves no other address in the
\* record than the one it carries or the one observed.
AboutMeReplacesAddress ==
    [][\A d \in up, m \in msgs \ msgs' :
         /\ m.to = d /\ m.type = "AboutMe" /\ passed(d, m)
         /\ has_ip_addr(m.addr)
         /\ nodes[d][m.from] # None /\ nodes[d][m.from].hb < m.ts
         => nodes'[d][m.from].addr \in {m.addr, Advertised(m.from)}]_vars
=============================================================================
