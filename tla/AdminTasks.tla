----------------------------- MODULE AdminTasks -----------------------------
(***************************************************************************)
(* The maps one daemon's tasks share: Context.nodes, Context.trusted_nodes *)
(* and ClientRegistry.clients, each a DashMap, and the nodes table of the  *)
(* Storage.  The event loop (net/mod.rs) and one task per admin connection *)
(* (admin/server.rs, admin/http.rs) run on different threads; a single map *)
(* operation or transaction is atomic, a handler made of several is not.   *)
(*                                                                         *)
(* A handler is the sequence of map operations it performs; a task works   *)
(* off its sequence one operation at a time.  Only presence counts here:   *)
(* the records are the subject of Membership.                              *)
(***************************************************************************)
EXTENDS Integers, Sequences, FiniteSets, Functions

CONSTANTS
    Peer,           \* ids of other daemons
    Client,         \* keys of admin clients, one per user, kept in its client.db
    Conn,           \* admin connections, each served by a task of its own
    Loop,           \* the event loop
    MaxEvents, MaxCommands, MaxRestarts     \* bounds of the instances

ASSUME AdminAssumption ==
    /\ Peer \cap Client = {} /\ Loop \notin Conn
    /\ {MaxEvents, MaxCommands, MaxRestarts} \subseteq Nat

VARIABLES
    nodes, trusted, clients,    \* the keys of the maps
    stored,     \* the keys of the nodes table
    task,       \* [Task -> the operations its handler still has to do]
    removed,    \* history: RemoveNode acknowledged
    alone,      \* history: no handler has run since RemoveNode began that re-admits
    unvouched,  \* history: no handler has run since RemoveNode began that vouches
    revoked,    \* history: RemoveNode begun since the process started
    added,      \* history: AddNode acknowledged, no RemoveNode begun since it began
    used        \* counters of the bounded steps

maps == <<nodes, trusted, clients, stored>>
history == <<removed, alone, unvouched, revoked, added>>
vars == <<maps, task, history, used>>

Id == Peer \cup Client
Task == Conn \cup {Loop}

\* One operation; `ids` is what it is about.
Do(op, ids) == [op |-> op, ids |-> ids]
Op == {"refresh", "keep", "vouch", "trust", "upsert", "stale", "duplicates",
       "drop", "snapshot", "commit", "exit", "save",
       "unregister", "untrust", "unsave", "register", "added", "removed"}

TypeOK ==
    /\ nodes \subseteq Id
    /\ trusted \subseteq Peer
    /\ clients \subseteq Client
    /\ stored \subseteq Peer
    /\ task \in [Task -> Seq([op : Op, ids : SUBSET Id])]
    /\ {removed, alone, unvouched, revoked, added} \subseteq SUBSET Id
    /\ used \in [events : Nat, commands : Nat, restarts : Nat]

\* The ids in the operations of a handler that are one of kinds.
About(ops, kinds) == UNION {ops[i].ids : i \in {j \in DOMAIN ops : ops[j].op \in kinds}}

\* The ids a handler may bring back to a map, and those it vouches for: their
\* trust does not rest on a check of trust that was made before.
Admits(ops) == About(ops, {"refresh", "keep", "vouch", "trust", "upsert", "commit", "save"})
Vouches(ops) == About(ops, {"vouch"})

\* An idle task begins a handler.
Begin(t, ops) ==
    /\ task[t] = <<>>
    /\ task' = [task EXCEPT ![t] = ops]
    /\ alone' = alone \ Admits(ops)
    /\ unvouched' = unvouched \ Vouches(ops)
    /\ UNCHANGED <<maps, removed>>

-----------------------------------------------------------------------------
(* The handlers of the event loop.  What decode_and_verify and the clock    *)
(* say is decided once, at the beginning.                                  *)

Event(ops) ==
    /\ used.events < MaxEvents
    /\ used' = [used EXCEPT !.events = @ + 1]
    /\ Begin(Loop, ops)
    /\ UNCHANGED <<revoked, added>>

\* trust_daemon_node, then upsert_active_node: of a peer trusted before, or of
\* one that the handler vouches for.
Admit(p) == <<Do("trust", {p}), Do("upsert", {p})>>
AdmitNew(p) == <<Do("vouch", {p}), Do("upsert", {p})>>

\* process_message of a message from p; a sender that is trusted is
\* refreshed first.
Handle(p, ops) == Event((IF p \in trusted THEN <<Do("refresh", {p})>> ELSE <<>>) \o ops)

\* Invited by the network's ticket, whoever sends it.
Invited(p) == Handle(p, AdmitNew(p))

AboutMe(p) == p \in trusted /\ Handle(p, Admit(p))

Left(p) == p \in trusted /\ Handle(p, <<Do("drop", {p})>>)

\* SyncRequest, and what an Invited with another ticket leaves.
SyncRequest(p) == p \in trusted /\ Handle(p, <<>>)

\* The distinct ids of S a directory may list, in some order, and AdmitNew of
\* each of them.
Lists(S) == UNION {Injection(1..n, S) : n \in 0..Cardinality(S)}
AdmitAll(list) == [i \in 1..(2 * Len(list)) |-> AdmitNew(list[(i + 1) \div 2])[2 - (i % 2)]]

\* Mutant: the client entries of the sender's directory are taken as well.
SyncResponse_any(p) ==
    p \in trusted /\ \E list \in Lists(Id) : Handle(p, AdmitAll(list))

\* The records that are new or newer are admitted, one after the other;
\* is_daemon_node keeps clients out.
SyncResponse(p) ==
    p \in trusted /\ \E list \in Lists(Peer) : Handle(p, AdmitAll(list))

\* The state_broadcast timer, and graceful_shutdown on SIGTERM.
StateTick == Event(<<Do("stale", {}), Do("duplicates", {}), Do("snapshot", {})>>)
Sigterm == Event(<<Do("snapshot", {}), Do("exit", {})>>)

-----------------------------------------------------------------------------
(* The handlers of an admin connection. *)

\* authenticate_and_register of a key that is not registered; one that is
\* changes nothing, so that an idle connection may be any registered client's.
Authenticate(k) ==
    /\ \E c \in Client \ clients : Begin(k, <<Do("upsert", {c}), Do("register", {c})>>)
    /\ UNCHANGED <<revoked, added, used>>

\* A command needs the permissions the registry holds for the key.
Command(k, ops) ==
    /\ clients # {} /\ used.commands < MaxCommands
    /\ used' = [used EXCEPT !.commands = @ + 1]
    /\ Begin(k, ops)

\* Mutant: persisted before it is trusted.
AddNode_saves_first(k) ==
    \E p \in Peer : /\ Command(k, <<Do("save", {p})>> \o AdmitNew(p) \o <<Do("added", {p})>>)
                    /\ UNCHANGED <<revoked, added>>

AddNode(k) ==
    \E p \in Peer : /\ Command(k, AdmitNew(p) \o <<Do("save", {p}), Do("added", {p})>>)
                    /\ UNCHANGED <<revoked, added>>

\* Mutant: trust survives.
Removal_keeps_trust(x) == <<Do("unregister", {x}), Do("drop", {x}),
                            Do("unsave", {x}), Do("removed", {x})>>

\* What RemoveNode does, in its order.
Removal(x) == <<Do("unregister", {x}), Do("drop", {x}), Do("untrust", {x}),
                Do("unsave", {x}), Do("removed", {x})>>

RemoveNode(k) ==
    \E x \in Id :
        LET Unless(ids) == IF x \in ids THEN {} ELSE {x}
            running == {task[t] : t \in Task}
        IN  /\ clients # {} /\ used.commands < MaxCommands /\ task[k] = <<>>
            /\ task' = [task EXCEPT ![k] = Removal(x)]
            /\ used' = [used EXCEPT !.commands = @ + 1]
            /\ removed' = removed \ {x}
            /\ alone' = alone \cup Unless(UNION {Admits(ops) : ops \in running})
            /\ unvouched' = unvouched \cup Unless(UNION {Vouches(ops) : ops \in running})
            /\ revoked' = revoked \cup {x}
            /\ added' = added \ {x}
            /\ UNCHANGED maps

\* graceful_shutdown in the connection's task, while the event loop goes on.
Shutdown(k) ==
    Command(k, <<Do("snapshot", {}), Do("exit", {})>>) /\ UNCHANGED <<revoked, added>>

-----------------------------------------------------------------------------
(* The operations. *)

Doing(t, op) == task[t] # <<>> /\ Head(task[t]).op = op
Ids(t) == Head(task[t]).ids
\* The operation is done; `then` comes before what is left.
Done(t, then) == task' = [task EXCEPT ![t] = then \o Tail(@)]

\* refresh_sender_observed_addr: nothing without an observed address or an
\* active entry; otherwise the entry read is put back, in the trusted map if
\* it is still there and in the active one in any case.
Refresh(t) ==
    /\ Doing(t, "refresh")
    /\ \/ Done(t, <<>>)
       \/ Ids(t) \subseteq nodes /\ Done(t, <<Do("keep", Ids(t)), Do("upsert", Ids(t))>>)
    /\ UNCHANGED <<maps, history, used>>

Keep(t) ==
    /\ Doing(t, "keep")
    /\ Done(t, IF Ids(t) \subseteq trusted THEN <<Do("trust", Ids(t))>> ELSE <<>>)
    /\ UNCHANGED <<maps, history, used>>

\* The two passes of cleanup() collect ids and remove them afterwards: the
\* stale peers, then all but one entry of each domain, clients included.
Prune(t) ==
    /\ \/ /\ Doing(t, "stale")
          /\ \E ids \in SUBSET (nodes \cap Peer) : Done(t, <<Do("drop", ids)>>)
       \/ /\ Doing(t, "duplicates")
          /\ \E ids \in {S \in SUBSET nodes : S # nodes \/ S = {}} : Done(t, <<Do("drop", ids)>>)
    /\ UNCHANGED <<maps, history, used>>

\* DashMap::insert and remove.
MapStep(t) ==
    /\ \/ /\ Doing(t, "trust") \/ Doing(t, "vouch")
          /\ trusted' = trusted \cup Ids(t)
          /\ UNCHANGED <<nodes, clients>>
       \/ /\ Doing(t, "untrust") /\ trusted' = trusted \ Ids(t)
          /\ UNCHANGED <<nodes, clients>>
       \/ /\ Doing(t, "upsert") /\ nodes' = nodes \cup Ids(t)
          /\ UNCHANGED <<trusted, clients>>
       \/ /\ Doing(t, "drop") /\ nodes' = nodes \ Ids(t)
          /\ UNCHANGED <<trusted, clients>>
       \/ /\ Doing(t, "register") /\ clients' = clients \cup Ids(t)
          /\ UNCHANGED <<nodes, trusted>>
       \/ /\ Doing(t, "unregister") /\ clients' = clients \ Ids(t)
          /\ UNCHANGED <<nodes, trusted>>
    /\ Done(t, <<>>)
    /\ UNCHANGED <<stored, history, used>>

\* save(): the trusted records are collected ...
Snapshot(t) ==
    /\ Doing(t, "snapshot")
    /\ Done(t, <<Do("commit", trusted)>>)
    /\ alone' = alone \ trusted
    /\ UNCHANGED <<maps, removed, unvouched, revoked, added, used>>

\* Mutant: the table is made equal to what was collected.
Commit_mirrors(t) ==
    /\ Doing(t, "commit")
    /\ stored' = Ids(t)
    /\ Done(t, <<>>)
    /\ UNCHANGED <<nodes, trusted, clients, history, used>>

\* ... and written in one transaction, which deletes nothing.
Commit(t) ==
    /\ Doing(t, "commit")
    /\ stored' = stored \cup Ids(t)
    /\ Done(t, <<>>)
    /\ UNCHANGED <<nodes, trusted, clients, history, used>>

\* Storage::save_node and remove_node.
StorageStep(t) ==
    /\ \/ Doing(t, "save") /\ stored' = stored \cup Ids(t)
       \/ Doing(t, "unsave") /\ stored' = stored \ Ids(t)
    /\ Done(t, <<>>)
    /\ UNCHANGED <<nodes, trusted, clients, history, used>>

\* The reply is sent.  Of several removals of an id at once the last counts.
AckAdded(t) ==
    /\ Doing(t, "added") /\ Done(t, <<>>)
    /\ added' = added \cup (Ids(t) \ revoked)
    /\ UNCHANGED <<maps, removed, alone, unvouched, revoked, used>>

AckRemoved(t) ==
    /\ Doing(t, "removed") /\ Done(t, <<>>)
    /\ removed' = removed \cup (Ids(t) \ UNION {About(task[u], {"removed"}) : u \in Task \ {t}})
    /\ UNCHANGED <<maps, alone, unvouched, revoked, added, used>>

\* The process ends and is started again: init_network loads what is stored.
Restarted ==
    /\ nodes' = stored /\ trusted' = stored /\ clients' = {}
    /\ task' = [t \in Task |-> <<>>]
    /\ revoked' = {}
    /\ UNCHANGED <<stored, removed, alone, unvouched, added>>

Exit(t) == Doing(t, "exit") /\ Restarted /\ UNCHANGED used

Crash ==
    /\ used.restarts < MaxRestarts
    /\ used' = [used EXCEPT !.restarts = @ + 1]
    /\ Restarted

Init ==
    /\ nodes = {} /\ trusted = {} /\ clients = {} /\ stored = {}
    /\ task = [t \in Task |-> <<>>]
    /\ removed = {} /\ alone = {} /\ unvouched = {} /\ revoked = {} /\ added = {}
    /\ used = [events |-> 0, commands |-> 0, restarts |-> 0]

Next ==
    \/ \E p \in Peer : Invited(p) \/ AboutMe(p) \/ Left(p) \/ SyncRequest(p) \/ SyncResponse(p)
    \/ StateTick \/ Sigterm
    \/ \E k \in Conn : Authenticate(k) \/ AddNode(k) \/ RemoveNode(k) \/ Shutdown(k)
    \/ \E t \in Task : \/ Refresh(t) \/ Keep(t) \/ Prune(t) \/ MapStep(t) \/ Snapshot(t)
                       \/ Commit(t) \/ StorageStep(t) \/ AckAdded(t) \/ AckRemoved(t) \/ Exit(t)
    \/ Crash

Spec == Init /\ [][Next]_vars

-----------------------------------------------------------------------------
(* Properties. *)

\* Until an admin begins to remove it, a peer that is active or stored is
\* trusted, between any two operations of any two handlers: trust is given
\* first, and neither the clean-up nor a save that overlaps takes it away.
KnownTrusted == (nodes \cap Peer) \cup stored \subseteq trusted \cup revoked

\* A peer whose AddNode was acknowledged stays trusted and stored until an
\* admin begins to remove it: no save() that began before loses it, and a
\* restart brings it back.
AddedKept == added \subseteq trusted \cap stored

\* A RemoveNode that no other handler overlapped takes effect in all three
\* places, and no restart undoes it.
RemovedAloneGone == removed \cap alone \cap (nodes \cup trusted \cup stored) = {}

\* "!ctx.nodes.contains_key(&pk)" and "!ctx.is_node_trusted(&pk)" once
\* RemoveNode is acknowledged (tests/admin_handler.rs:186-188), here if no one
\* vouched for the peer meanwhile: no ticket, no other peer and no admin.
RemovedGone == removed \cap unvouched \cap Peer \cap (nodes \cup trusted \cup stored) = {}
=============================================================================
