---------------------------- MODULE AdminSession -----------------------------
(***************************************************************************)
(* How the command line reaches a daemon: the Unix socket that the daemon  *)
(* puts at the first of several paths that takes it (src/admin/server.rs),  *)
(* the HTTP listener (src/admin/http.rs), and the client, which looks for   *)
(* the socket, authenticates, sends one command and waits (src/app.rs).     *)
(*                                                                         *)
(* Daemons of several users share a host; they are started, stopped by a   *)
(* command, killed and started again while clients are under way.  A daemon *)
(* that ends leaves its socket file behind.                                *)
(***************************************************************************)
EXTENDS Naturals, Sequences

CONSTANTS
    User, Daemon, Client,   \* a client is one run of the command line
    Path,
    UserOf,         \* whose each daemon and client is
    Candidates,     \* socket_path_candidates() in a user's environment
    Legacy,         \* the paths that a client adds to them
    Writable,       \* the paths at which a user may create and remove a file
    MayConnect,     \* the users whose sockets (mode 0660) a user may connect to
    HttpArg,        \* where each daemon may be told to listen: --admin-http
    Invocation,     \* how each client may be called
    None,
    MaxStarts, MaxFaults    \* bounds of the instances

\* The commands of which something depends here: the removal of a client's
\* key, the shutdown, and the others.
Command == [name : {"Remove"}, key : User] \cup [name : {"Shutdown", "Other"}]

\* Over the socket the ticket does not count.
Invocations == [via : {"socket"}, ticket : {FALSE}, command : Command]
               \cup [via : {"http"}, ticket : BOOLEAN, command : Command]

ASSUME AdminSessionAssumption ==
    /\ UserOf \in [Daemon \cup Client -> User]
    /\ Candidates \in [User -> Seq(Path) \ {<<>>}]
    /\ Legacy \in Seq(Path)
    /\ Writable \in [User -> SUBSET Path]
    /\ MayConnect \in [User -> SUBSET User]
    /\ HttpArg \in [Daemon -> SUBSET {"none", "loopback", "public"}]
    /\ Invocation \in [Client -> SUBSET Invocations]
    /\ None \notin Daemon
    /\ MaxStarts \in Nat /\ MaxFaults \in Nat

VARIABLES
    socket,     \* what is at each path: a socket file and who listens there
    daemon,     \* each daemon
    client,     \* each client
    link,       \* a client's connection and the server's task for it
    faults,     \* starts and errors so far
    calm,       \* history: clients for which nothing has changed since they began
    removed,    \* history: clients whose key was removed since they authenticated
    stopping    \* history: clients whose Shutdown ends or ended a daemon

vars == <<socket, daemon, client, link, faults, calm, removed, stopping>>

Idle == [pc |-> "idle", at |-> None, outcome |-> "none",
         call |-> [via |-> "socket", ticket |-> FALSE, command |-> [name |-> "Other"]]]

Off == [pc |-> "off", at |-> 1, http |-> "none", mode |-> "none",
        stop |-> FALSE, registry |-> {}]

NoLink == [peer |-> None, state |-> "none", said |-> "nothing"]

TypeOK ==
    /\ \A p \in Path : socket[p] \in {None} \cup [owner : User, live : Daemon \cup {None}]
    /\ daemon \in [Daemon -> [pc : {"off", "exists", "remove", "bind", "up", "deaf"}, at : Nat \ {0},
                              http : {"none", "wanted", "listening"},
                              mode : {"none", "loopback", "public"}, stop : BOOLEAN,
                              registry : SUBSET User]]
    /\ \A d \in Daemon : daemon[d].at <= Len(Candidates[UserOf[d]])
    /\ \A k \in Client :
          /\ client[k].pc \in {"idle", "connect", "auth", "again", "command", "ended"}
          /\ client[k].call \in Invocations
          /\ client[k].at \in Path \cup {None}
          /\ client[k].outcome \in {"none", "done", "denied", "refused", "failed", "killed"}
          /\ link[k] \in [peer : Daemon \cup {None},
                          state : {"none", "auth", "command", "admitted", "executed", "reply", "closed"},
                          said : {"nothing", "welcome", "refused", "denied", "done"}]
    /\ faults \in [starts : Nat, errors : Nat]
    /\ calm \subseteq Client /\ removed \subseteq Client /\ stopping \subseteq Client

Running(d) == daemon[d].pc # "off"

-----------------------------------------------------------------------------
(* A daemon's life and its listeners. *)

\* The registry is new with each process.
Start(d) ==
    /\ daemon[d].pc = "off" /\ faults.starts < MaxStarts
    /\ \E arg \in HttpArg[d] :
          daemon' = [daemon EXCEPT ![d] = [Off EXCEPT
              !.pc = "exists", !.mode = arg, !.http = IF arg = "none" THEN "none" ELSE "wanted"]]
    /\ faults' = [faults EXCEPT !.starts = @ + 1]
    /\ calm' = {}
    /\ UNCHANGED <<socket, client, link, removed, stopping>>

PathOf(d) == Candidates[UserOf[d]][daemon[d].at]
AtPath(d, pc) == daemon' = [daemon EXCEPT ![d].pc = pc]

\* Mutant: what is there stays there.
Exists_never(d) ==
    /\ daemon[d].pc = "exists"
    /\ AtPath(d, "bind")
    /\ UNCHANGED <<socket, client, link, faults, calm, removed, stopping>>

\* socket_path.exists()
Exists(d) ==
    /\ daemon[d].pc = "exists"
    /\ AtPath(d, IF socket[PathOf(d)] = None THEN "bind" ELSE "remove")
    /\ UNCHANGED <<socket, client, link, faults, calm, removed, stopping>>

\* remove_file(..).ok(): whoever listens there, and whether or not it works.
Remove(d) ==
    /\ daemon[d].pc = "remove"
    /\ AtPath(d, "bind")
    /\ socket' = IF PathOf(d) \in Writable[UserOf[d]]
                 THEN [socket EXCEPT ![PathOf(d)] = None] ELSE socket
    /\ calm' = {}
    /\ UNCHANGED <<client, link, faults, removed, stopping>>

Bind(d) ==
    /\ daemon[d].pc = "bind"
    /\ socket[PathOf(d)] = None /\ PathOf(d) \in Writable[UserOf[d]]
    /\ AtPath(d, "up")
    /\ socket' = [socket EXCEPT ![PathOf(d)] = [owner |-> UserOf[d], live |-> d]]
    /\ calm' = {}
    /\ UNCHANGED <<client, link, faults, removed, stopping>>

\* Mutant: the index runs past the last candidate.
BindFails_past_end(d) ==
    /\ daemon[d].pc = "bind" /\ faults.errors < MaxFaults
    /\ faults' = [faults EXCEPT !.errors = @ + 1]
    /\ daemon' = [daemon EXCEPT ![d].pc = "exists", ![d].at = @ + Len(Candidates[UserOf[d]])]
    /\ UNCHANGED <<socket, client, link, calm, removed, stopping>>

\* create_dir_all or bind fails: the next candidate, or no socket at all.
BindFails(d) ==
    /\ daemon[d].pc = "bind"
    /\ IF socket[PathOf(d)] = None /\ PathOf(d) \in Writable[UserOf[d]]
       THEN faults.errors < MaxFaults /\ faults' = [faults EXCEPT !.errors = @ + 1]
       ELSE UNCHANGED faults
    /\ daemon' = IF daemon[d].at < Len(Candidates[UserOf[d]])
                 THEN [daemon EXCEPT ![d].pc = "exists", ![d].at = @ + 1]
                 ELSE [daemon EXCEPT ![d].pc = "deaf"]
    /\ UNCHANGED <<socket, client, link, calm, removed, stopping>>

\* TcpListener::bind: one listener per address.
BindHttp(d) ==
    /\ daemon[d].http = "wanted"
    /\ daemon' = [daemon EXCEPT ![d].http =
                     IF \E e \in Daemon : daemon[e].http = "listening" THEN "none" ELSE "listening"]
    /\ UNCHANGED <<socket, client, link, faults, calm, removed, stopping>>

\* An error of accept() ends the HTTP server, not the daemon.
HttpAcceptFails(d) ==
    /\ daemon[d].http = "listening" /\ faults.errors < MaxFaults
    /\ faults' = [faults EXCEPT !.errors = @ + 1]
    /\ daemon' = [daemon EXCEPT ![d].http = "none"]
    /\ UNCHANGED <<socket, client, link, calm, removed, stopping>>

\* The process is gone.  Its socket file stays; what it had sent can still be
\* read, everything else on its connections is lost.
Ends(d) ==
    /\ daemon' = [daemon EXCEPT ![d] = Off]
    /\ socket' = [p \in Path |-> IF socket[p] # None /\ socket[p].live = d
                                 THEN [socket[p] EXCEPT !.live = None] ELSE socket[p]]
    /\ link' = [k \in Client |->
                  IF link[k].peer # d THEN link[k]
                  ELSE [link[k] EXCEPT !.peer = None,
                                       !.state = IF @ = "reply" THEN @ ELSE "closed"]]
    /\ calm' = {}
    /\ UNCHANGED <<client, faults, removed, stopping>>

\* Killed, or ended by a signal.
Killed(d) == Running(d) /\ Ends(d)

\* graceful_shutdown, a second of sleep, process::exit(0)
Exit(d) == daemon[d].stop /\ Ends(d)

-----------------------------------------------------------------------------
(* The client. *)

ClientPaths(u) == Candidates[u] \o Legacy

Present(s) == {i \in DOMAIN s : socket[s[i]] # None}

\* get_socket_path: the first of the paths at which there is a file.
FirstPresent(u) ==
    LET s == ClientPaths(u)
    IN  IF Present(s) = {} THEN s[1]
        ELSE s[CHOOSE i \in Present(s) : \A j \in Present(s) : i <= j]

\* A daemon of the user's own serves a path of the user's, and no file of
\* somebody else is at a path before it.
Served(u) ==
    \E i \in DOMAIN Candidates[u] :
        /\ LET f == socket[Candidates[u][i]]
           IN  f # None /\ f.owner = u /\ u \in MayConnect[u] /\ f.live # None
        /\ \A j \in 1..(i - 1) : LET f == socket[Candidates[u][j]] IN f = None \/ f.owner = u

\* Run with some command, over either way, with the network's ticket or
\* without.  get_socket_path is part of it, the connection is not.
Invoke(k) ==
    /\ client[k].pc = "idle"
    /\ \E call \in Invocation[k] :
          /\ client' = [client EXCEPT ![k] =
                [pc |-> "connect", call |-> call, outcome |-> "none",
                 at |-> IF call.via = "socket" THEN FirstPresent(UserOf[k]) ELSE None]]
          /\ calm' = IF call.via = "socket" /\ Served(UserOf[k]) THEN calm \cup {k} ELSE calm
    /\ UNCHANGED <<socket, daemon, link, faults, removed, stopping>>

\* Who would answer client k.
Listener(k) ==
    IF client[k].call.via = "socket"
    THEN LET f == socket[client[k].at]
         IN  IF f # None /\ f.owner \in MayConnect[UserOf[k]] THEN f.live ELSE None
    ELSE IF \E d \in Daemon : daemon[d].http = "listening"
         THEN CHOOSE d \in Daemon : daemon[d].http = "listening" ELSE None

Finish(k, outcome) ==
    client' = [client EXCEPT ![k] = [Idle EXCEPT !.pc = "ended", !.outcome = outcome]]

\* connect, and the request: AuthRequest, or over HTTP first /auth and then,
\* on a connection of its own, /command.
Connect(k) ==
    /\ client[k].pc \in {"connect", "again"}
    /\ IF Listener(k) = None
       THEN Finish(k, "failed") /\ UNCHANGED link
       ELSE /\ client' = [client EXCEPT ![k].pc = IF @ = "connect" THEN "auth" ELSE "command"]
            /\ link' = [link EXCEPT ![k] = [NoLink EXCEPT
                  !.peer = Listener(k), !.state = IF client[k].pc = "connect" THEN "auth" ELSE "command"]]
    /\ UNCHANGED <<socket, daemon, faults, calm, removed, stopping>>

\* The AuthResponse is read, and the command sent or, over HTTP, a second
\* connection is made.
ReadAuth(k) ==
    /\ client[k].pc = "auth" /\ link[k].state = "reply"
    /\ IF link[k].said = "refused"
       THEN Finish(k, "refused") /\ link' = [link EXCEPT ![k] = NoLink]
       ELSE IF client[k].call.via = "http"
       THEN client' = [client EXCEPT ![k].pc = "again"] /\ link' = [link EXCEPT ![k] = NoLink]
       ELSE /\ client' = [client EXCEPT ![k].pc = "command"]
            /\ link' = [link EXCEPT ![k].state = IF link[k].peer = None THEN "closed" ELSE "command",
                                    ![k].said = "nothing"]
    /\ UNCHANGED <<socket, daemon, faults, calm, removed, stopping>>

\* The answer is read.
ReadAnswer(k) ==
    /\ client[k].pc = "command" /\ link[k].state = "reply"
    /\ Finish(k, link[k].said)
    /\ link' = [link EXCEPT ![k] = NoLink]
    /\ UNCHANGED <<socket, daemon, faults, calm, removed, stopping>>

\* Mutant: a client whose connection broke begins again.
ReadFails_retries(k) ==
    /\ link[k].state = "closed"
    /\ client[k].pc \in {"auth", "command"}
    /\ client' = [client EXCEPT ![k].pc = "connect"]
    /\ link' = [link EXCEPT ![k] = NoLink]
    /\ UNCHANGED <<socket, daemon, faults, calm, removed, stopping>>

\* The connection is closed or reset before an answer.
ReadFails(k) ==
    /\ link[k].state = "closed"
    /\ client[k].pc \in {"auth", "command"}
    /\ Finish(k, "failed")
    /\ link' = [link EXCEPT ![k] = NoLink]
    /\ UNCHANGED <<socket, daemon, faults, calm, removed, stopping>>

\* The user interrupts the client.  The server's task finds out when it writes.
Interrupt(k) ==
    /\ client[k].pc \notin {"idle", "ended"} /\ faults.errors < MaxFaults
    /\ faults' = [faults EXCEPT !.errors = @ + 1]
    /\ client' = [client EXCEPT ![k].pc = "ended", ![k].at = None, ![k].outcome = "killed"]
    /\ link' = IF link[k].state \in {"reply", "closed"} THEN [link EXCEPT ![k] = NoLink] ELSE link
    /\ UNCHANGED <<socket, daemon, calm, removed, stopping>>

-----------------------------------------------------------------------------
(* The server's task for a connection. *)

Gone(k) == client[k].pc = "ended"

\* A message to the client is written: the client may read it, if it is there.
Reply(k, said) ==
    link' = [link EXCEPT ![k] = IF Gone(k) THEN NoLink ELSE [@ EXCEPT !.state = "reply", !.said = said]]

\* Mutant: a key that is registered needs no ticket.
Authenticated_known_first(d, k) ==
    \/ client[k].call.ticket \/ client[k].call.via = "socket" \/ daemon[d].mode = "loopback"
    \/ UserOf[k] \in daemon[d].registry

\* authenticate_and_register lets a ticket of the network pass, and everybody
\* on the Unix socket and on a loopback address.
Authenticated(d, k) ==
    client[k].call.ticket \/ client[k].call.via = "socket" \/ daemon[d].mode = "loopback"

Registered(d, k) == daemon' = [daemon EXCEPT ![d].registry = @ \cup {UserOf[k]}]

\* The first message: AuthRequest, or POST /auth.
Authenticate(d, k) ==
    /\ link[k].peer = d /\ link[k].state = "auth"
    /\ IF Authenticated(d, k)
       THEN Registered(d, k) /\ Reply(k, "welcome") /\ removed' = removed \ {k}
       ELSE Reply(k, "refused") /\ UNCHANGED <<daemon, removed>>
    /\ UNCHANGED <<socket, client, faults, calm, stopping>>

\* Mutant: the registration of /auth is relied on.
Readmit_not(d, k) ==
    /\ link[k].peer = d /\ link[k].state = "command" /\ client[k].call.via = "http"
    /\ link' = [link EXCEPT ![k].state = "admitted"]
    /\ UNCHANGED <<socket, daemon, client, faults, calm, removed, stopping>>

\* POST /command authenticates and registers again.
Readmit(d, k) ==
    /\ link[k].peer = d /\ link[k].state = "command" /\ client[k].call.via = "http"
    /\ IF Authenticated(d, k)
       THEN /\ Registered(d, k) /\ removed' = removed \ {k}
            /\ link' = [link EXCEPT ![k].state = "admitted"]
       ELSE Reply(k, "refused") /\ UNCHANGED <<daemon, removed>>
    /\ UNCHANGED <<socket, client, faults, calm, stopping>>

\* The command has been read and, over HTTP, the key admitted.
HasCommand(d, k) ==
    /\ link[k].peer = d
    /\ link[k].state = IF client[k].call.via = "http" THEN "admitted" ELSE "command"

\* Mutant: the session goes on without an answer.
Deny_silently(d, k) ==
    /\ HasCommand(d, k) /\ UserOf[k] \notin daemon[d].registry
    /\ link' = [link EXCEPT ![k].state = "none"]
    /\ UNCHANGED <<socket, daemon, client, faults, calm, removed, stopping>>

\* check_permission: a registered key may do everything.
Deny(d, k) ==
    /\ HasCommand(d, k) /\ UserOf[k] \notin daemon[d].registry
    /\ Reply(k, "denied")
    /\ UNCHANGED <<socket, daemon, client, faults, calm, removed, stopping>>

\* Clients under way that lose their registration with their key.
Losers(key) == {j \in Client : UserOf[j] = key /\ client[j].pc \in {"auth", "again", "command"}}

\* Mutant: the daemon shuts down before it answers.
Execute_stops(d, k) ==
    /\ HasCommand(d, k) /\ UserOf[k] \in daemon[d].registry
    /\ link' = [link EXCEPT ![k].state = "executed"]
    /\ daemon' = [daemon EXCEPT ![d].stop = @ \/ client[k].call.command.name = "Shutdown",
                                ![d].registry = IF client[k].call.command.name = "Remove"
                                                THEN @ \ {client[k].call.command.key} ELSE @]
    /\ stopping' = IF client[k].call.command.name = "Shutdown" THEN stopping \cup {k} ELSE stopping
    /\ removed' = IF client[k].call.command.name = "Remove"
                  THEN removed \cup Losers(client[k].call.command.key) ELSE removed
    /\ UNCHANGED <<socket, client, faults, calm>>

\* handle_command: a Remove takes a key from the registry, a Shutdown does
\* nothing yet.
Execute(d, k) ==
    /\ HasCommand(d, k) /\ UserOf[k] \in daemon[d].registry
    /\ link' = [link EXCEPT ![k].state = "executed"]
    /\ IF client[k].call.command.name = "Remove"
       THEN /\ daemon' = [daemon EXCEPT ![d].registry = @ \ {client[k].call.command.key}]
            /\ removed' = removed \cup Losers(client[k].call.command.key)
       ELSE UNCHANGED <<daemon, removed>>
    /\ UNCHANGED <<socket, client, faults, calm, stopping>>

\* Mutant: the action of the outcome is forgotten.
Respond_only(d, k) ==
    /\ link[k].peer = d /\ link[k].state = "executed"
    /\ Reply(k, "done")
    /\ UNCHANGED <<socket, daemon, client, faults, calm, removed, stopping>>

\* The answer is written; then a Shutdown is carried out.  If the client has
\* gone a write to the socket fails and nothing is shut down; a write over TCP
\* may still seem to work.
Respond(d, k) ==
    /\ link[k].peer = d /\ link[k].state = "executed"
    /\ Reply(k, "done")
    /\ \E written \in BOOLEAN :
          /\ ~Gone(k) => written
          /\ Gone(k) /\ client[k].call.via = "socket" => ~written
          /\ IF written /\ client[k].call.command.name = "Shutdown"
             THEN daemon' = [daemon EXCEPT ![d].stop = TRUE] /\ stopping' = stopping \cup {k}
             ELSE UNCHANGED <<daemon, stopping>>
    /\ UNCHANGED <<socket, client, faults, calm, removed>>

-----------------------------------------------------------------------------
Init ==
    /\ socket = [p \in Path |-> None]
    /\ daemon = [d \in Daemon |-> Off]
    /\ client = [k \in Client |-> Idle]
    /\ link = [k \in Client |-> NoLink]
    /\ faults = [starts |-> 0, errors |-> 0]
    /\ calm = {} /\ removed = {} /\ stopping = {}

Serve(d) == \/ Exists(d) \/ Remove(d) \/ Bind(d) \/ BindFails(d) \/ BindHttp(d) \/ Exit(d)
            \/ \E k \in Client : \/ Authenticate(d, k) \/ Readmit(d, k)
                                 \/ Deny(d, k) \/ Execute(d, k) \/ Respond(d, k)

Proceed(k) == Connect(k) \/ ReadAuth(k) \/ ReadAnswer(k) \/ ReadFails(k)

Next == \/ \E d \in Daemon : Start(d) \/ Serve(d) \/ HttpAcceptFails(d) \/ Killed(d)
        \/ \E k \in Client : Invoke(k) \/ Proceed(k) \/ Interrupt(k)

Spec == Init /\ [][Next]_vars

\* Processes that run go on, the tasks of a daemon each on their own.
Fairness ==
    /\ \A k \in Client : WF_vars(Proceed(k))
    /\ \A d \in Daemon :
          /\ WF_vars(Exit(d))
          /\ \A k \in Client : WF_vars(Authenticate(d, k) \/ Readmit(d, k) \/ Deny(d, k)
                                       \/ Execute(d, k) \/ Respond(d, k))

-----------------------------------------------------------------------------
(* Properties. *)

\* "Local management over Unix socket" (README.md:39): a client of a user whose
\* own daemon serves a path of the user's reaches that daemon, whatever earlier
\* daemons left behind, unless a daemon begins or ends meanwhile or somebody
\* else's file comes first.  So it is when a user runs one daemon: a second one
\* may step over the first one's path, and a file left there then hides it.
DaemonFound ==
    \A k \in calm :
        /\ client[k].outcome # "failed"
        /\ link[k].peer # None => UserOf[link[k].peer] = UserOf[k]

\* "Non-loopback listeners require a valid ticket" (README.md:140): what runs
\* over such a listener was sent with one, wherever the key was registered.
RemoteTicketed ==
    \A k \in Client :
        /\ link[k].state = "executed" /\ client[k].call.via = "http"
        /\ daemon[link[k].peer].mode = "public"
        => client[k].call.ticket

\* "Permission denied" (server.rs:293, http.rs:98): an authenticated client is
\* denied its command only if its key was removed, not because the daemon is
\* another process than the one that registered it.
DeniedOnlyRemoved == \A k \in Client : client[k].outcome = "denied" => k \in removed

\* The answer to a Shutdown is on its way before the process ends
\* (server.rs:300-309, http.rs:105-111): a client that ended a daemon is told so.
StopAnswered == \A k \in stopping : client[k].outcome # "failed"

\* "Gracefully shutdown daemon" (app.rs:84): a daemon that has told a client
\* that it shuts down is gone some time later.
StopHonoured ==
    \A d \in Daemon, k \in Client :
        link[k].peer = d /\ link[k].said = "done" /\ client[k].call.command.name = "Shutdown" ~> ~Running(d)

\* The client waits for its answers without a timeout (app.rs:345, 365): every
\* run of it comes to an end, whatever becomes of the daemon.
ClientEnds == \A k \in Client : client[k].pc = "connect" ~> client[k].pc = "ended"
=============================================================================
