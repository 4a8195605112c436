------------------------------- MODULE Startup -------------------------------
(***************************************************************************)
(* What a daemon is across its restarts: its secret key, its port and its  *)
(* network, which init_network (src/net/mod.rs) reads from the Storage or   *)
(* makes and writes there, one transaction after the other.  The process   *)
(* may end between any two of them, by a crash or by an error that it does *)
(* not survive, and is started again with other arguments.                 *)
(*                                                                         *)
(* A network is known by its topic and by the random number of its tickets *)
(* (rnum); the two are stored apart, so that they may disagree.            *)
(***************************************************************************)
EXTENDS Naturals, Sequences, FiniteSets

CONSTANTS
    Key,            \* secret keys that SecretKey::generate can return
    Foreign, Own,   \* networks of other primaries, and those Ticket::new makes
    Port,           \* what rand::random::<u16> can return
    AnyPort,        \* zero: the system chooses a port at each start
    BindArg,        \* the --bind and --bind-interface arguments used
    None,
    MaxTries,       \* attempts to join the gossip topic
    MaxStarts       \* bound of the instances

Network == Foreign \cup Own
Family == {"v4", "v6"}

\* --bind with an address of a family and a port, or without one;
\* --bind-interface with the families the interface has; nothing.
BindArgs ==
    [kind : {"socket", "ip"}, family : Family, scope : {"loopback", "unspecified", "other"}]
    \cup [kind : {"interface"}, has : (SUBSET Family) \ {{}}]
    \cup [kind : {"default"}]

ASSUME StartupAssumption ==
    /\ None \notin Key \cup Network \cup Port
    /\ Key \cap Network = {}
    /\ Foreign \cap Own = {}
    /\ AnyPort \in Port
    /\ BindArg \subseteq BindArgs
    /\ MaxTries \in Nat \ {0} /\ MaxStarts \in Nat
    /\ IsFiniteSet(Key) => Cardinality(Key) >= MaxStarts
    /\ IsFiniteSet(Own) => Cardinality(Own) >= MaxStarts

VARIABLES
    db,         \* the Storage: SECRET and CONFIG tables, networks of stored nodes
    pc,         \* what the process does next
    args,       \* its arguments
    avail,      \* what its surroundings allow: families, joining the topic
    mem,        \* what init_network holds in memory
    gone,       \* history: keys and networks wiped by --reset-storage, but for
                \* networks whose ticket was given since
    identities, \* history: keys of processes that relied on the Storage
    printed,    \* history: tickets printed that should still work
    torn,       \* history: a change of network was cut off half way
    used        \* keys and networks generated, starts made

vars == <<db, pc, args, avail, mem, gone, identities, printed, torn, used>>

EmptyDb == [sk |-> None, port |-> None, topic |-> None, rnum |-> None, nodes |-> {}]
NoArgs == [primary |-> FALSE, ticket |-> None, reset |-> FALSE, bind |-> None]
NoMem == [key |-> None, saved |-> TRUE, port |-> None, attempts |-> <<>>,
          bound |-> None, topic |-> None, rnum |-> None, contacts |-> {}, tries |-> 0]

Nowhere == [families |-> {}, join |-> FALSE]

OrNone(S) == S \cup {None}

TypeOK ==
    /\ db \in [sk : OrNone(Key), port : OrNone(Port), topic : OrNone(Network),
               rnum : OrNone(Network), nodes : SUBSET Network]
    /\ pc \in {"off", "reset", "secret", "port", "bind", "topic", "rnum", "nodes", "join", "up"}
    /\ args \in [primary : BOOLEAN, ticket : OrNone(Foreign), reset : BOOLEAN,
                 bind : OrNone(BindArg)]
    /\ avail \in [families : SUBSET Family, join : BOOLEAN]
    /\ mem \in [key : OrNone(Key), saved : BOOLEAN, port : OrNone(Port),
                attempts : Seq(SUBSET Family), bound : OrNone(SUBSET Family),
                topic : OrNone(Network), rnum : OrNone(Network),
                contacts : SUBSET Network, tries : 0..MaxTries]
    /\ gone \subseteq Key \cup Network
    /\ identities \subseteq Key
    /\ printed \subseteq [key : Key, topic : Network, rnum : Network, port : OrNone(Port)]
    /\ torn \in BOOLEAN
    /\ used \in [keys : SUBSET Key, networks : SUBSET Own, starts : Nat]

-----------------------------------------------------------------------------
(* Which sockets a --bind or --bind-interface asks for. *)

\* A loopback or unspecified address stands for both families.
WantedFamilies(b) ==
    CASE b.kind = "default" -> Family
      [] b.kind = "interface" -> b.has
      [] b.kind \in {"socket", "ip"} -> IF b.scope = "other" THEN {b.family} ELSE Family

\* prefer_v6_fallback
V6First(b) ==
    CASE b.kind = "default" -> TRUE
      [] b.kind = "interface" -> b.has = {"v6"}
      [] b.kind \in {"socket", "ip"} -> b.family = "v6"

\* load_or_assign_bind_port is called unless the argument has a port.
NeedsPort(b) == b.kind # "socket"

\* Mutant: the second attempt repeats the first.
Attempts_same_twice(b) ==
    IF WantedFamilies(b) # Family THEN <<WantedFamilies(b)>>
    ELSE IF V6First(b) THEN <<Family, {"v6"}, {"v6"}>> ELSE <<Family, {"v4"}, {"v4"}>>

\* The calls of bind_endpoint: what is wanted, then, if that is both
\* families, each alone.
Attempts(b) ==
    IF WantedFamilies(b) # Family THEN <<WantedFamilies(b)>>
    ELSE IF V6First(b) THEN <<Family, {"v6"}, {"v4"}>> ELSE <<Family, {"v4"}, {"v6"}>>

-----------------------------------------------------------------------------
(* init_network, one transaction or one wait per step. *)

\* What a random generator returns: something not seen before.
Fresh(S, taken) == CHOOSE x \in S : x \notin taken

Goto(from, to) == pc = from /\ pc' = to

\* The process is started, in whatever surroundings.
Start ==
    /\ Goto("off", "reset") /\ used.starts < MaxStarts
    /\ args' \in [primary : BOOLEAN, ticket : OrNone(Foreign), reset : BOOLEAN, bind : BindArg]
    /\ avail' \in [families : SUBSET Family, join : BOOLEAN]
    /\ mem' = NoMem
    /\ gone' = gone \ {args'.ticket}
    /\ used' = [used EXCEPT !.starts = @ + 1]
    /\ UNCHANGED <<db, identities, printed, torn>>

\* What a reset at this point forgets.
Wiped == (gone \cup used.keys \cup used.networks \cup {db.topic, db.rnum} \cup db.nodes)
         \ {args.ticket, None}

\* Mutant: the CONFIG table survives.
Reset_keeps_config ==
    /\ Goto("reset", "secret")
    /\ IF args.reset
       THEN /\ db' = [db EXCEPT !.sk = None, !.nodes = {}]
            /\ gone' = Wiped
            /\ identities' = {} /\ printed' = {} /\ torn' = FALSE
       ELSE UNCHANGED <<db, gone, identities, printed, torn>>
    /\ UNCHANGED <<args, avail, mem, used>>

\* Storage::clear, if asked for: all three tables in one transaction.
Reset ==
    /\ Goto("reset", "secret")
    /\ IF args.reset
       THEN /\ db' = EmptyDb
            /\ gone' = Wiped
            /\ identities' = {} /\ printed' = {} /\ torn' = FALSE
       ELSE UNCHANGED <<db, gone, identities, printed, torn>>
    /\ UNCHANGED <<args, avail, mem, used>>

\* load_secret
LoadSecret ==
    /\ Goto("secret", "port") /\ db.sk # None
    /\ mem' = [mem EXCEPT !.key = db.sk]
    /\ identities' = identities \cup {db.sk}
    /\ UNCHANGED <<db, args, avail, gone, printed, torn, used>>

\* Mutant: the key in memory is one, the key in the Storage another.
GenerateSecret_twice ==
    /\ Goto("secret", "port") /\ db.sk = None
    /\ LET k == Fresh(Key, used.keys)
           l == Fresh(Key, used.keys \cup {k})
       IN /\ mem' = [mem EXCEPT !.key = k]
          /\ db' = [db EXCEPT !.sk = l]
          /\ identities' = identities \cup {k}
          /\ used' = [used EXCEPT !.keys = @ \cup {k, l}]
    /\ UNCHANGED <<args, avail, gone, printed, torn>>

\* A new key and save_secret; if that fails the error is logged and the
\* process goes on with a key that the next one will not have.
GenerateSecret ==
    /\ Goto("secret", "port") /\ db.sk = None
    /\ \E k \in {Fresh(Key, used.keys)}, saved \in BOOLEAN :
          /\ mem' = [mem EXCEPT !.key = k, !.saved = saved]
          /\ db' = IF saved THEN [db EXCEPT !.sk = k] ELSE db
          /\ identities' = IF saved THEN identities \cup {k} ELSE identities
          /\ used' = [used EXCEPT !.keys = @ \cup {k}]
    /\ UNCHANGED <<args, avail, gone, printed, torn>>

\* Mutant: a port is drawn at each start.
AssignPort_anew ==
    /\ Goto("port", "bind")
    /\ IF NeedsPort(args.bind)
       THEN \E p \in Port : /\ db' = [db EXCEPT !.port = p]
                            /\ mem' = [mem EXCEPT !.port = p, !.attempts = Attempts(args.bind)]
       ELSE /\ mem' = [mem EXCEPT !.attempts = Attempts(args.bind)]
            /\ UNCHANGED db
    /\ UNCHANGED <<args, avail, gone, identities, printed, torn, used>>

\* load_or_assign_bind_port
AssignPort ==
    /\ Goto("port", "bind")
    /\ IF NeedsPort(args.bind)
       THEN \E p \in IF db.port = None THEN Port ELSE {db.port} :
               /\ db' = [db EXCEPT !.port = p]
               /\ mem' = [mem EXCEPT !.port = p, !.attempts = Attempts(args.bind)]
       ELSE /\ mem' = [mem EXCEPT !.attempts = Attempts(args.bind)]
            /\ UNCHANGED db
    /\ UNCHANGED <<args, avail, gone, identities, printed, torn, used>>

\* bind_endpoint, and the attempt that follows a failed one.
Bind ==
    /\ pc = "bind" /\ mem.attempts # <<>>
    /\ LET wanted == Head(mem.attempts)
       IN  IF wanted \subseteq avail.families
           THEN pc' = "topic" /\ mem' = [mem EXCEPT !.bound = wanted]
           ELSE pc' = pc /\ mem' = [mem EXCEPT !.attempts = Tail(@)]
    /\ UNCHANGED <<db, args, avail, gone, identities, printed, torn, used>>

\* The process ends.  What it had stored stays.
Ends ==
    /\ pc' = "off" /\ mem' = NoMem /\ args' = NoArgs /\ avail' = Nowhere
    /\ torn' = (torn \/ (pc = "rnum" /\ db.rnum \notin {None, mem.rnum}))
    /\ UNCHANGED <<db, gone, identities, printed, used>>

\* "failed to bind endpoint"
BindFails == pc = "bind" /\ mem.attempts = <<>> /\ Ends

\* The first of two transactions that change the network.
StoreTopic(n) ==
    /\ pc' = "rnum"
    /\ db' = [db EXCEPT !.topic = n]
    /\ mem' = [mem EXCEPT !.topic = n, !.rnum = n]

Configured == db.topic # None /\ db.rnum # None

\* Ticket::from_parts of what is stored.
LoadNetwork ==
    /\ pc = "topic" /\ Configured
    /\ args.primary \/ args.ticket = None
    /\ pc' = "nodes"
    /\ mem' = [mem EXCEPT !.topic = db.topic, !.rnum = db.rnum]
    /\ UNCHANGED <<db, args, avail, gone, identities, printed, torn, used>>

\* Mutant: a stored topic is kept without its rnum.
NewNetwork_keeps_topic ==
    /\ pc = "topic" /\ args.primary /\ ~Configured
    /\ \E n \in {Fresh(Own, used.networks)} :
          /\ pc' = "rnum"
          /\ db' = [db EXCEPT !.topic = IF @ = None THEN n ELSE @]
          /\ mem' = [mem EXCEPT !.topic = IF db.topic = None THEN n ELSE db.topic, !.rnum = n]
          /\ used' = [used EXCEPT !.networks = @ \cup {n}]
    /\ UNCHANGED <<args, avail, gone, identities, printed, torn>>

\* Ticket::new: a primary that finds either part missing replaces both.
NewNetwork ==
    /\ pc = "topic" /\ args.primary /\ ~Configured
    /\ \E n \in {Fresh(Own, used.networks)} : StoreTopic(n) /\ used' = [used EXCEPT !.networks = @ \cup {n}]
    /\ UNCHANGED <<args, avail, gone, identities, printed, torn>>

\* The ticket of the command line: tickets printed for another network are void.
AdoptNetwork ==
    /\ pc = "topic" /\ ~args.primary /\ args.ticket # None
    /\ StoreTopic(args.ticket)
    /\ printed' = {t \in printed : t.topic = args.ticket /\ t.rnum = args.ticket}
    /\ UNCHANGED <<args, avail, gone, identities, torn, used>>

\* "Network config not found in both storage and ticket"
NoNetwork == pc = "topic" /\ ~args.primary /\ args.ticket = None /\ ~Configured /\ Ends

\* The second transaction.
StoreRnum ==
    /\ Goto("rnum", "nodes")
    /\ db' = [db EXCEPT !.rnum = mem.rnum]
    /\ torn' = FALSE
    /\ UNCHANGED <<args, avail, mem, gone, identities, printed, used>>

\* Stored nodes of whatever network, and the ticket's invitor, are whom the
\* daemon turns to, and whom it trusts.
LoadNodes ==
    /\ Goto("nodes", "join")
    /\ mem' = [mem EXCEPT !.contacts = db.nodes \cup ({args.ticket} \ {None}), !.tries = 1]
    /\ UNCHANGED <<db, args, avail, gone, identities, printed, torn, used>>

\* The topic is joined, or only subscribed to by a primary, and a daemon that
\* was not given its ticket prints one that names itself.
Joined ==
    /\ Goto("join", "up")
    /\ args.primary \/ avail.join
    /\ printed' = IF mem.saved /\ (args.primary \/ args.ticket = None)
                  THEN printed \cup {[key |-> mem.key, topic |-> mem.topic,
                                      rnum |-> mem.rnum, port |-> mem.port]}
                  ELSE printed
    /\ UNCHANGED <<db, args, avail, mem, gone, identities, torn, used>>

\* Mutant: one attempt too many.
JoinTimesOut_once_more ==
    /\ pc = "join" /\ ~args.primary /\ mem.tries <= MaxTries
    /\ mem' = [mem EXCEPT !.tries = @ + 1]
    /\ UNCHANGED <<db, pc, args, avail, gone, identities, printed, torn, used>>

\* Mutant: the counter starts again in every round.
JoinTimesOut_forgets ==
    /\ pc = "join" /\ ~args.primary /\ mem.tries < MaxTries
    /\ mem' = [mem EXCEPT !.tries = 1]
    /\ UNCHANGED <<db, pc, args, avail, gone, identities, printed, torn, used>>

\* Twenty seconds pass, or joining fails.
JoinTimesOut ==
    /\ pc = "join" /\ ~args.primary /\ mem.tries < MaxTries
    /\ mem' = [mem EXCEPT !.tries = @ + 1]
    /\ UNCHANGED <<db, pc, args, avail, gone, identities, printed, torn, used>>

\* "Failed to join gossip"
JoinFails == pc = "join" /\ ~args.primary /\ mem.tries = MaxTries /\ Ends

-----------------------------------------------------------------------------
(* The rest of the process's life. *)

\* save(): nodes of the network it is in are stored.
Save ==
    /\ pc = "up"
    /\ db' = [db EXCEPT !.nodes = @ \cup {mem.topic}]
    /\ UNCHANGED <<pc, args, avail, mem, gone, identities, printed, torn, used>>

\* A shutdown, a crash, or an error of the Storage, at any point.
Stop == pc # "off" /\ Ends

Step == \/ Reset \/ LoadSecret \/ GenerateSecret \/ AssignPort \/ Bind \/ BindFails
        \/ LoadNetwork \/ NewNetwork \/ AdoptNetwork \/ NoNetwork \/ StoreRnum \/ LoadNodes
        \/ Joined \/ JoinTimesOut \/ JoinFails

Init ==
    /\ db = EmptyDb /\ pc = "off" /\ args = NoArgs /\ mem = NoMem
    /\ avail = Nowhere
    /\ gone = {} /\ identities = {} /\ printed = {} /\ torn = FALSE
    /\ used = [keys |-> {}, networks |-> {}, starts |-> 0]

Next == Start \/ Step \/ Save \/ Stop

Spec == Init /\ [][Next]_vars

\* init_network goes on: its storage calls return and its waits are timed.
FairSpec == Spec /\ WF_vars(Step)

-----------------------------------------------------------------------------
(* Properties. *)

\* "The public key is used as the node ID to be acknowledged by other nodes"
\* (net/mod.rs:119): unless the Storage is reset or did not take the key, all
\* processes of a daemon have one key, wherever the ones before were cut off.
IdentityKept == \A k, l \in identities : k = l

\* "Primary nodes should keep the topic/rnum stable across restarts so that
\* existing daemons can continue to join after a reboot" (net/mod.rs:375): a
\* ticket once printed names the key, the network and the port of the daemon
\* that runs now, until a ticket of another network or a reset is given.  The
\* port counts where both starts took the stored one, and zero is none.
TicketStillGood ==
    pc = "up" /\ mem.saved =>
        \A t \in printed :
            /\ t.key = mem.key
            /\ args.primary \/ args.ticket = None => <<t.topic, t.rnum>> = <<mem.topic, mem.rnum>>
            /\ {t.port, mem.port} \cap {None, AnyPort} = {} => t.port = mem.port

\* A daemon is in one network: topic and rnum belong together, unless an
\* earlier start was cut off while it replaced a network by another one.  A
\* first start that is cut off does not do that.
OneNetwork == pc \in {"nodes", "join", "up"} /\ ~torn => mem.topic = mem.rnum

\* "Clear all persisted state (nodes/secret/topic/config)" (cli/args.rs): after
\* --reset-storage nothing the daemon had before comes back, but for a network
\* whose ticket it is given anew.
ResetForgets ==
    pc = "up" => ({mem.key, mem.topic, mem.rnum} \cup mem.contacts) \cap gone = {}

\* "falling back to single-stack" (net/mod.rs:312, 322): a start gives up binding
\* only if no family that it asks for can be bound.
BindsIfPossible ==
    pc = "bind" /\ mem.attempts = <<>> => WantedFamilies(args.bind) \cap avail.families = {}

\* A start comes to an end: the daemon runs or the process has given up, so
\* that systemd can start it again.
StartEnds == pc = "reset" ~> pc \in {"up", "off"}
=============================================================================
