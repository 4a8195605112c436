-------------------------- MODULE AdminSessionProofs --------------------------
(***************************************************************************)
(* TLAPS proofs about AdminSession, for every set of users, daemons,       *)
(* clients and paths and every interleaving of them.                       *)
(***************************************************************************)
EXTENDS AdminCommands, LeastNumber, SequenceTheorems, TLAPS

-----------------------------------------------------------------------------
(* The inductive invariant. *)

SocketFile == [owner : User, live : Daemon \cup {None}]
DaemonState == [pc : {"off", "exists", "remove", "bind", "up", "deaf"}, at : Nat \ {0},
                http : {"none", "wanted", "listening"}, mode : {"none", "loopback", "public"},
                stop : BOOLEAN, registry : SUBSET User]
ClientState == [pc : {"idle", "connect", "auth", "again", "command", "ended"},
                call : Invocations, at : Path \cup {None},
                outcome : {"none", "done", "denied", "refused", "failed", "killed"}]
LinkState == [peer : Daemon \cup {None},
              state : {"none", "auth", "command", "admitted", "executed", "reply", "closed"},
              said : {"nothing", "welcome", "refused", "denied", "done"}]

\* TypeOK, and that the maps have nothing else in them.
Typed ==
    /\ socket \in [Path -> {None} \cup SocketFile]
    /\ daemon \in [Daemon -> DaemonState]
    /\ \A d \in Daemon : daemon[d].at <= Len(Candidates[UserOf[d]])
    /\ client \in [Client -> ClientState]
    /\ link \in [Client -> LinkState]
    /\ faults \in [starts : Nat, errors : Nat]
    /\ calm \subseteq Client /\ removed \subseteq Client /\ stopping \subseteq Client

\* Who listens at a socket file or for HTTP runs.
ListenersRun ==
    /\ \A p \in Path : socket[p] # None /\ socket[p].live # None => Running(socket[p].live)
    /\ \A d \in Daemon : daemon[d].http # "none" => Running(d)

\* Where a client and the server's task for it are at the same time.  The
\* task goes on after the client has been interrupted; it answers nobody then.
InStep(k) ==
    /\ client[k].pc = "connect" /\ client[k].call.via = "socket" => client[k].at \in Path
    /\ client[k].pc = "again" => client[k].call.via = "http"
    /\ client[k].pc # "ended" => client[k].outcome = "none"
    /\ client[k].pc \in {"idle", "connect", "again"} => link[k].state = "none"
    /\ link[k].state = "none" => link[k].peer = None
    /\ client[k].pc = "auth" =>
          /\ link[k].state \in {"auth", "reply", "closed"}
          /\ link[k].state = "reply" => link[k].said \in {"welcome", "refused"}
    /\ client[k].pc = "command" =>
          /\ link[k].state \in {"command", "admitted", "executed", "reply", "closed"}
          /\ link[k].state = "reply" => link[k].said \in {"refused", "denied", "done"}
    /\ client[k].pc = "ended" =>
          /\ link[k].state # "reply"
          /\ client[k].outcome # "killed" => link[k].state = "none"
    /\ link[k].state \in {"auth", "command", "admitted", "executed"} => link[k].peer # None
    /\ link[k].peer # None => Running(link[k].peer)

\* What passed a public HTTP listener had the ticket.
Ticketed(k) ==
    /\ link[k].state \in {"admitted", "executed"} /\ client[k].call.via = "http"
    /\ daemon[link[k].peer].mode = "public"
    => client[k].call.ticket

\* A client that has been admitted is in the registry of the daemon it is
\* connected to until its key is removed.
Admitted(k) ==
    /\ client[k].pc # "ended" /\ link[k].peer # None
    /\ \/ link[k].state = "reply" /\ link[k].said = "welcome" /\ client[k].call.via = "socket"
       \/ link[k].state = "command" /\ client[k].call.via = "socket"
       \/ link[k].state = "admitted"
    => UserOf[k] \in daemon[link[k].peer].registry \/ k \in removed

DeniedInv(k) ==
    (link[k].state = "reply" /\ link[k].said = "denied") \/ client[k].outcome = "denied"
    => k \in removed

\* Whose Shutdown is carried out has the answer or has gone.
StopInv(k) ==
    k \in stopping =>
        \/ client[k].pc = "command" /\ link[k].state = "reply" /\ link[k].said = "done"
        \/ client[k].pc = "ended" /\ client[k].outcome # "failed"

Session(k) == InStep(k) /\ Ticketed(k) /\ Admitted(k) /\ DeniedInv(k) /\ StopInv(k)

SessionInv == Typed /\ ListenersRun /\ \A k \in Client : Session(k)

\* The socket files of a user are at paths that this user may write; one that
\* a daemon listens at is where that daemon is on its way through the
\* candidates.  None of those it has passed has a dead file of its user's.
Files ==
    /\ \A p \in Path : socket[p] # None =>
          /\ p \in Writable[socket[p].owner]
          /\ socket[p].live # None =>
                /\ daemon[socket[p].live].pc = "up" /\ p = PathOf(socket[p].live)
                /\ socket[p].owner = UserOf[socket[p].live]
    /\ \A d \in Daemon : Running(d) =>
          /\ \A j \in 1..(daemon[d].at - 1) :
                LET f == socket[Candidates[UserOf[d]][j]]
                IN  f # None /\ f.owner = UserOf[d] => f.live # None
          /\ daemon[d].pc = "bind" /\ socket[PathOf(d)] # None => socket[PathOf(d)].owner # UserOf[d]

\* A client for which nothing has changed since it began is about to be
\* connected, or is connected, to its own user's daemon.
Calm(k) ==
    k \in calm =>
        /\ client[k].pc \notin {"idle", "again"} /\ client[k].call.via = "socket"
        /\ client[k].outcome # "failed"
        /\ client[k].pc = "connect" =>
              /\ socket[client[k].at] # None
              /\ socket[client[k].at].owner = UserOf[k] /\ UserOf[k] \in MayConnect[UserOf[k]]
              /\ socket[client[k].at].live # None
        /\ link[k].state # "none" => link[k].peer # None /\ link[k].state # "closed"
        /\ link[k].peer # None => UserOf[link[k].peer] = UserOf[k]

CalmInv == Files /\ \A k \in Client : Calm(k)

\* No two daemons of one user on the host: they would take each other's
\* socket files for their own.
OneDaemonEach == \A d, e \in Daemon : UserOf[d] = UserOf[e] => d = e

-----------------------------------------------------------------------------
(* The first path at which there is a file. *)

\* get_socket_path: the first path of the client's at which there is a file,
\* or its first path.
LEMMA FirstPath ==
    ASSUME NEW u \in User
    PROVE  LET s == ClientPaths(u)
           IN  /\ s \in Seq(Path) /\ Candidates[u] \in Seq(Path)
               /\ \A j \in DOMAIN Candidates[u] : j \in DOMAIN s /\ s[j] = Candidates[u][j]
               /\ FirstPresent(u) \in Path
               /\ Present(s) # {} => \E m \in Present(s) : /\ FirstPresent(u) = s[m]
                                                           /\ \A i \in Present(s) : m <= i
<1> DEFINE s == ClientPaths(u)
<1>1. Candidates[u] \in Seq(Path) /\ Candidates[u] # <<>> /\ Legacy \in Seq(Path)
  BY AdminSessionAssumption
<1>2. /\ s \in Seq(Path) /\ 1 \in DOMAIN s
      /\ \A j \in DOMAIN Candidates[u] : j \in DOMAIN s /\ s[j] = Candidates[u][j]
  BY <1>1 DEF ClientPaths
<1>3. Present(s) \subseteq DOMAIN s /\ DOMAIN s \subseteq Nat
  BY <1>2 DEF Present
<1>4. FirstPresent(u) = IF Present(s) = {} THEN s[1]
                        ELSE s[CHOOSE i \in Present(s) : \A j \in Present(s) : i <= j]
  BY DEF FirstPresent
<1> HIDE DEF s
<1>5. CASE Present(s) = {}
  BY <1>1, <1>2, <1>4, <1>5 DEF s
<1>6. CASE Present(s) # {}
  <2>1. \E i \in Present(s) : \A j \in Present(s) : i <= j
    BY <1>3, <1>6, LeastNatural
  <2>2. PICK m \in Present(s) : /\ m = CHOOSE i \in Present(s) : \A j \in Present(s) : i <= j
                                /\ \A j \in Present(s) : m <= j
    BY <2>1
  <2>3. FirstPresent(u) = s[m] /\ s[m] \in Path
    BY <1>2, <1>3, <1>4, <1>6, <2>2
  <2> QED BY <1>1, <1>2, <2>2, <2>3 DEF s
<1> QED BY <1>5, <1>6

-----------------------------------------------------------------------------
(* Types. *)

\* The constants, as they are needed.
LEMMA ConstantTypes ==
    /\ \A d \in Daemon : UserOf[d] \in User
    /\ \A k \in Client : UserOf[k] \in User
    /\ \A u \in User : Candidates[u] \in Seq(Path) /\ Len(Candidates[u]) \in Nat \ {0}
    /\ \A d \in Daemon : HttpArg[d] \subseteq {"none", "loopback", "public"}
    /\ \A k \in Client : Invocation[k] \subseteq Invocations
    /\ \A call \in Invocations : call.via \in {"socket", "http"} /\ call.ticket \in BOOLEAN
    /\ None \notin Daemon
    /\ Off \in DaemonState /\ Idle \in ClientState /\ NoLink \in LinkState
<1>1. \A u \in User : Candidates[u] \in Seq(Path) /\ Candidates[u] # <<>>
  BY AdminSessionAssumption
<1>2. \A u \in User : Len(Candidates[u]) \in Nat \ {0}
  BY <1>1, EmptySeq
<1>3. Idle \in ClientState
  BY DEF Idle, ClientState, Invocations, Command
<1>4. Off \in DaemonState /\ NoLink \in LinkState
  BY DEF Off, DaemonState, NoLink, LinkState
<1>5. \A call \in Invocations : call.via \in {"socket", "http"} /\ call.ticket \in BOOLEAN
  BY DEF Invocations
<1> QED BY <1>1, <1>2, <1>3, <1>4, <1>5, AdminSessionAssumption

\* The candidate a daemon is at.
LEMMA PathType ==
    ASSUME Typed, NEW d \in Daemon
    PROVE  PathOf(d) \in Path
<1>1. Candidates[UserOf[d]] \in Seq(Path) /\ daemon[d].at \in 1..Len(Candidates[UserOf[d]])
  BY ConstantTypes DEF Typed, DaemonState
<1> QED BY <1>1 DEF PathOf

\* What a daemon does on its way through the candidates, and to its listeners.
LEMMA DaemonTyped ==
    ASSUME Typed, NEW d \in Daemon,
           \/ Start(d) \/ Exists(d) \/ Remove(d) \/ Bind(d) \/ BindFails(d)
           \/ BindHttp(d) \/ HttpAcceptFails(d) \/ Ends(d)
    PROVE  Typed'
<1>1. PathOf(d) \in Path /\ None \notin Daemon /\ Off \in DaemonState
      /\ UserOf[d] \in User /\ Len(Candidates[UserOf[d]]) \in Nat \ {0}
      /\ HttpArg[d] \subseteq {"none", "loopback", "public"}
  BY PathType, ConstantTypes
<1>2. CASE Start(d)
  <2>1. PICK arg \in HttpArg[d] :
          daemon' = [daemon EXCEPT ![d] = [Off EXCEPT
              !.pc = "exists", !.mode = arg, !.http = IF arg = "none" THEN "none" ELSE "wanted"]]
    BY <1>2 DEF Start
  <2>2. [Off EXCEPT !.pc = "exists", !.mode = arg, !.http = IF arg = "none" THEN "none" ELSE "wanted"]
          \in DaemonState
    BY <1>1 DEF Off, DaemonState
  <2>3. daemon' \in [Daemon -> DaemonState]
    BY <2>1, <2>2 DEF Typed
  <2>4. ASSUME NEW e \in Daemon PROVE daemon'[e].at <= Len(Candidates[UserOf[e]])
    BY <1>1, <2>1 DEF Typed, Off
  <2>5. faults' \in [starts : Nat, errors : Nat]
    <3>1. faults' = [faults EXCEPT !.starts = @ + 1]
      BY <1>2 DEF Start
    <3>2. faults \in [starts : Nat, errors : Nat]
      BY DEF Typed
    <3> QED BY <3>1, <3>2
  <2> QED BY <1>2, <2>3, <2>4, <2>5 DEF Typed, Start
<1>3. CASE Exists(d) \/ Remove(d) \/ Bind(d) \/ BindFails(d) \/ BindHttp(d) \/ HttpAcceptFails(d)
  <2>1. \E new \in DaemonState : /\ new.at <= Len(Candidates[UserOf[d]])
                                 /\ daemon' = [daemon EXCEPT ![d] = new]
    <3> DEFINE old == daemon[d]
    <3>1. /\ old \in DaemonState /\ old.at \in Nat \ {0} /\ old.at <= Len(Candidates[UserOf[d]])
          /\ daemon = [daemon EXCEPT ![d] = old]
      BY DEF Typed, DaemonState
    <3>2. CASE Exists(d) \/ Remove(d) \/ Bind(d)
      <4>1. PICK pc \in {"bind", "remove", "up"} : daemon' = [daemon EXCEPT ![d] = [old EXCEPT !.pc = pc]]
        BY <3>2 DEF Exists, Remove, Bind, AtPath, Typed
      <4>2. [old EXCEPT !.pc = pc] \in DaemonState /\ [old EXCEPT !.pc = pc].at = old.at
        BY <3>1 DEF DaemonState
      <4> QED BY <3>1, <4>1, <4>2
    <3>3. CASE BindFails(d)
      <4>1. CASE old.at < Len(Candidates[UserOf[d]])
        <5>1. [old EXCEPT !.pc = "exists", !.at = old.at + 1] \in DaemonState
          <6>1. old.at + 1 \in Nat \ {0}
            BY <3>1
          <6> QED BY <3>1, <6>1 DEF DaemonState
        <5>2. [old EXCEPT !.pc = "exists", !.at = old.at + 1].at <= Len(Candidates[UserOf[d]])
          BY <1>1, <3>1, <4>1 DEF DaemonState
        <5>3. daemon' = [daemon EXCEPT ![d] = [old EXCEPT !.pc = "exists", !.at = old.at + 1]]
          BY <3>3, <4>1 DEF BindFails, Typed
        <5> QED BY <5>1, <5>2, <5>3
      <4>2. CASE ~(old.at < Len(Candidates[UserOf[d]]))
        <5>1. [old EXCEPT !.pc = "deaf"] \in DaemonState /\ [old EXCEPT !.pc = "deaf"].at = old.at
          BY <3>1 DEF DaemonState
        <5>2. daemon' = [daemon EXCEPT ![d] = [old EXCEPT !.pc = "deaf"]]
          BY <3>3, <4>2 DEF BindFails, Typed
        <5> QED BY <3>1, <5>1, <5>2
      <4> QED BY <4>1, <4>2
    <3>4. CASE BindHttp(d) \/ HttpAcceptFails(d)
      <4>1. PICK http \in {"none", "listening"} : daemon' = [daemon EXCEPT ![d] = [old EXCEPT !.http = http]]
        BY <3>4 DEF BindHttp, HttpAcceptFails, Typed
      <4>2. [old EXCEPT !.http = http] \in DaemonState /\ [old EXCEPT !.http = http].at = old.at
        BY <3>1 DEF DaemonState
      <4> QED BY <3>1, <4>1, <4>2
    <3> QED BY <1>3, <3>2, <3>3, <3>4
  <2>2. /\ daemon' \in [Daemon -> DaemonState]
        /\ \A e \in Daemon : daemon'[e].at <= Len(Candidates[UserOf[e]])
    BY <2>1 DEF Typed
  <2>3. socket' \in [Path -> {None} \cup SocketFile]
    BY <1>1, <1>3 DEF Typed, SocketFile, Exists, Remove, Bind, BindFails, BindHttp, HttpAcceptFails
  <2>4. faults' \in [starts : Nat, errors : Nat]
    BY <1>3 DEF Typed, Exists, Remove, Bind, BindFails, BindHttp, HttpAcceptFails
  <2> QED BY <1>3, <2>1, <2>2, <2>3, <2>4 DEF Typed, Exists, Remove, Bind, BindFails, BindHttp, HttpAcceptFails
<1>4. CASE Ends(d)
  <2>1. daemon' \in [Daemon -> DaemonState]
    BY <1>1, <1>4 DEF Typed, Ends
  <2>2. ASSUME NEW e \in Daemon PROVE daemon'[e].at <= Len(Candidates[UserOf[e]])
    <3>1. CASE e = d
      <4>1. daemon'[d] = Off
        BY <1>4 DEF Typed, Ends
      <4> QED BY <1>1, <3>1, <4>1 DEF Off
    <3>2. CASE e # d
      BY <1>4, <3>2 DEF Typed, Ends
    <3> QED BY <3>1, <3>2
  <2>3. socket' \in [Path -> {None} \cup SocketFile]
    <3>1. ASSUME NEW p \in Path
          PROVE  (IF socket[p] # None /\ socket[p].live = d
                  THEN [socket[p] EXCEPT !.live = None] ELSE socket[p]) \in {None} \cup SocketFile
      BY DEF Typed, SocketFile
    <3> QED BY <1>4, <3>1 DEF Ends
  <2>4. link' \in [Client -> LinkState]
    <3>1. ASSUME NEW k \in Client
          PROVE  (IF link[k].peer # d THEN link[k]
                  ELSE [link[k] EXCEPT !.peer = None,
                                       !.state = IF @ = "reply" THEN @ ELSE "closed"]) \in LinkState
      BY DEF Typed, LinkState
    <3> QED BY <1>4, <3>1 DEF Ends
  <2> QED BY <1>4, <2>1, <2>2, <2>3, <2>4 DEF Typed, Ends
<1> QED BY <1>2, <1>3, <1>4

\* What a client does.
LEMMA ClientTyped ==
    ASSUME Typed, NEW k \in Client, InStep(k), Invoke(k) \/ Proceed(k) \/ Interrupt(k)
    PROVE  Typed'
<1>1. /\ UserOf[k] \in User /\ Invocation[k] \subseteq Invocations
      /\ Idle \in ClientState /\ NoLink \in LinkState
      /\ \A call \in Invocations : call.via \in {"socket", "http"} /\ call.ticket \in BOOLEAN
  BY ConstantTypes
<1>2. client[k] \in ClientState /\ link[k] \in LinkState
  BY DEF Typed
<1>3. ASSUME NEW outcome \in {"none", "done", "denied", "refused", "failed", "killed"},
             Finish(k, outcome)
      PROVE  client' \in [Client -> ClientState]
  <2>1. [Idle EXCEPT !.pc = "ended", !.outcome = outcome] \in ClientState
    BY <1>1 DEF Idle, ClientState
  <2> QED BY <1>3, <2>1 DEF Finish, Typed
<1>4. CASE Invoke(k)
  <2>1. PICK call \in Invocation[k] :
          client' = [client EXCEPT ![k] =
                [pc |-> "connect", call |-> call, outcome |-> "none",
                 at |-> IF call.via = "socket" THEN FirstPresent(UserOf[k]) ELSE None]]
    BY <1>4 DEF Invoke
  <2>2. FirstPresent(UserOf[k]) \in Path
    BY <1>1, FirstPath
  <2>3. [pc |-> "connect", call |-> call, outcome |-> "none",
         at |-> IF call.via = "socket" THEN FirstPresent(UserOf[k]) ELSE None] \in ClientState
    BY <1>1, <2>2 DEF ClientState
  <2>4. client' \in [Client -> ClientState]
    BY <2>1, <2>3 DEF Typed
  <2>5. calm' \subseteq Client
    BY <1>4 DEF Invoke, Typed
  <2> QED BY <1>4, <2>4, <2>5 DEF Invoke, Typed
<1>5. CASE Connect(k)
  <2>1. UNCHANGED <<socket, daemon, faults, calm, removed, stopping>>
    BY <1>5 DEF Connect
  <2>2. CASE Listener(k) = None
    BY <1>3, <1>5, <2>1, <2>2 DEF Connect, Typed
  <2>3. CASE Listener(k) # None
    <3>1. Listener(k) \in Daemon
      <4>1. CASE client[k].call.via = "socket"
        <5>1. client[k].at \in Path
          BY <1>2, <1>5, <4>1 DEF Connect, InStep
        <5> QED BY <2>3, <4>1, <5>1 DEF Listener, Typed, SocketFile
      <4>2. CASE client[k].call.via # "socket"
        BY <2>3, <4>2 DEF Listener
      <4> QED BY <4>1, <4>2
    <3>2. client' \in [Client -> ClientState]
      <4>1. PICK pc \in {"auth", "command"} : client' = [client EXCEPT ![k] = [client[k] EXCEPT !.pc = pc]]
        BY <1>5, <2>3 DEF Connect, Typed
      <4>2. [client[k] EXCEPT !.pc = pc] \in ClientState
        BY <1>2 DEF ClientState
      <4> QED BY <4>1, <4>2 DEF Typed
    <3>3. [NoLink EXCEPT !.peer = Listener(k),
                         !.state = IF client[k].pc = "connect" THEN "auth" ELSE "command"] \in LinkState
      BY <3>1 DEF NoLink, LinkState
    <3>4. link' \in [Client -> LinkState]
      BY <1>5, <2>3, <3>3 DEF Connect, Typed
    <3> QED BY <2>1, <3>2, <3>4 DEF Typed
  <2> QED BY <2>2, <2>3
<1>6. CASE ReadAuth(k)
  <2>1. link' \in [Client -> LinkState]
    <3>1. [link[k] EXCEPT !.state = IF link[k].peer = None THEN "closed" ELSE "command",
                          !.said = "nothing"] \in LinkState
      BY <1>2 DEF LinkState
    <3>2. \/ link' = [link EXCEPT ![k] = NoLink]
          \/ link' = [link EXCEPT ![k] = [link[k] EXCEPT
                        !.state = IF link[k].peer = None THEN "closed" ELSE "command",
                        !.said = "nothing"]]
      BY <1>6 DEF ReadAuth, Typed
    <3> QED BY <1>1, <3>1, <3>2 DEF Typed
  <2>2. client' \in [Client -> ClientState]
    <3>1. \/ Finish(k, "refused") \/ client' = [client EXCEPT ![k].pc = "again"]
          \/ client' = [client EXCEPT ![k].pc = "command"]
      BY <1>6 DEF ReadAuth
    <3> QED BY <1>2, <1>3, <3>1 DEF Typed, ClientState
  <2> QED BY <1>6, <2>1, <2>2 DEF ReadAuth, Typed
<1>7. CASE ReadFails(k)
  BY <1>1, <1>3, <1>7 DEF ReadFails, Typed
<1>8. CASE Interrupt(k)
  <2>1. client' \in [Client -> ClientState]
    BY <1>2, <1>8 DEF Interrupt, Typed, ClientState
  <2>2. link' \in [Client -> LinkState]
    BY <1>1, <1>8 DEF Interrupt, Typed
  <2>3. faults' \in [starts : Nat, errors : Nat]
    BY <1>8 DEF Interrupt, Typed
  <2> QED BY <1>8, <2>1, <2>2, <2>3 DEF Interrupt, Typed
<1>9. CASE ReadAnswer(k)
  <2>1. link[k].said \in {"refused", "denied", "done"}
    BY <1>9 DEF ReadAnswer, InStep
  <2>2. client' \in [Client -> ClientState]
    BY <1>3, <1>9, <2>1 DEF ReadAnswer
  <2> QED BY <1>1, <1>9, <2>2 DEF ReadAnswer, Typed
<1> QED BY <1>4, <1>5, <1>6, <1>7, <1>8, <1>9 DEF Proceed

\* A request is handled or answered: nothing else of a daemon changes than its
\* registry and whether it is to stop.
LEMMA ServerTyped ==
    ASSUME Typed, NEW d \in Daemon, NEW k \in Client,
           \/ Authenticate(d, k) \/ Readmit(d, k) \/ Deny(d, k) \/ Execute(d, k) \/ Respond(d, k)
    PROVE  /\ Typed'
           /\ UNCHANGED <<socket, client, faults, calm>>
           /\ \A e \in Daemon : /\ daemon'[e].pc = daemon[e].pc /\ daemon'[e].at = daemon[e].at
                                /\ daemon'[e].http = daemon[e].http /\ daemon'[e].mode = daemon[e].mode
           /\ \A j \in Client \ {k} : link'[j] = link[j]
<1> DEFINE old == daemon[d]
<1>1. UserOf[k] \in User /\ NoLink \in LinkState
  BY ConstantTypes
<1>2. old \in DaemonState /\ link[k] \in LinkState
  BY DEF Typed
<1>3. UNCHANGED <<socket, client, faults, calm>>
  BY DEF Authenticate, Readmit, Deny, Execute, Respond
<1>4. \E stop \in BOOLEAN, registry \in SUBSET User :
        daemon' = [daemon EXCEPT ![d] = [old EXCEPT !.stop = stop, !.registry = registry]]
  <2>1. old.stop \in BOOLEAN /\ old.registry \in SUBSET User
    BY <1>2 DEF DaemonState
  <2>2. old = [old EXCEPT !.stop = old.stop, !.registry = old.registry]
    BY <1>2 DEF DaemonState
  <2>3. \/ UNCHANGED daemon
        \/ daemon' = [daemon EXCEPT ![d] = [old EXCEPT !.registry = old.registry \cup {UserOf[k]}]]
        \/ \E key : daemon' = [daemon EXCEPT ![d] = [old EXCEPT !.registry = old.registry \ {key}]]
        \/ daemon' = [daemon EXCEPT ![d] = [old EXCEPT !.stop = TRUE]]
    BY DEF Authenticate, Readmit, Deny, Execute, Respond, Registered, Typed
  <2>4. CASE UNCHANGED daemon
    <3>1. daemon' = [daemon EXCEPT ![d] = old]
      BY <2>4 DEF Typed
    <3> QED BY <2>1, <2>2, <3>1
  <2>5. CASE daemon' = [daemon EXCEPT ![d] = [old EXCEPT !.registry = old.registry \cup {UserOf[k]}]]
    <3>1. [old EXCEPT !.registry = old.registry \cup {UserOf[k]}]
            = [old EXCEPT !.stop = old.stop, !.registry = old.registry \cup {UserOf[k]}]
      BY <1>2 DEF DaemonState
    <3>2. old.registry \cup {UserOf[k]} \in SUBSET User
      BY <1>1, <2>1
    <3> QED BY <2>1, <2>5, <3>1, <3>2
  <2>6. ASSUME NEW key, daemon' = [daemon EXCEPT ![d] = [old EXCEPT !.registry = old.registry \ {key}]]
        PROVE  \E stop \in BOOLEAN, registry \in SUBSET User :
                  daemon' = [daemon EXCEPT ![d] = [old EXCEPT !.stop = stop, !.registry = registry]]
    <3>1. [old EXCEPT !.registry = old.registry \ {key}]
            = [old EXCEPT !.stop = old.stop, !.registry = old.registry \ {key}]
      BY <1>2 DEF DaemonState
    <3>2. old.registry \ {key} \in SUBSET User
      BY <2>1
    <3> QED BY <2>1, <2>6, <3>1, <3>2
  <2>7. CASE daemon' = [daemon EXCEPT ![d] = [old EXCEPT !.stop = TRUE]]
    <3>1. [old EXCEPT !.stop = TRUE] = [old EXCEPT !.stop = TRUE, !.registry = old.registry]
      BY <1>2 DEF DaemonState
    <3> QED BY <2>1, <2>7, <3>1
  <2> HIDE DEF old
  <2> QED BY <2>3, <2>4, <2>5, <2>6, <2>7
<1>5. PICK stop \in BOOLEAN, registry \in SUBSET User :
        daemon' = [daemon EXCEPT ![d] = [old EXCEPT !.stop = stop, !.registry = registry]]
  BY <1>4
<1>6. /\ [old EXCEPT !.stop = stop, !.registry = registry] \in DaemonState
      /\ [old EXCEPT !.stop = stop, !.registry = registry].pc = old.pc
      /\ [old EXCEPT !.stop = stop, !.registry = registry].at = old.at
      /\ [old EXCEPT !.stop = stop, !.registry = registry].http = old.http
      /\ [old EXCEPT !.stop = stop, !.registry = registry].mode = old.mode
  BY <1>2 DEF DaemonState
<1>7. /\ daemon' \in [Daemon -> DaemonState]
      /\ \A e \in Daemon : /\ daemon'[e].pc = daemon[e].pc /\ daemon'[e].at = daemon[e].at
                           /\ daemon'[e].http = daemon[e].http /\ daemon'[e].mode = daemon[e].mode
  BY <1>5, <1>6 DEF Typed
<1>8. ASSUME NEW said \in {"nothing", "welcome", "refused", "denied", "done"}, Reply(k, said)
      PROVE  link' \in [Client -> LinkState] /\ \A j \in Client \ {k} : link'[j] = link[j]
  <2>1. [link[k] EXCEPT !.state = "reply", !.said = said] \in LinkState
    BY <1>2 DEF LinkState
  <2>2. link' = [link EXCEPT ![k] = NoLink]
          \/ link' = [link EXCEPT ![k] = [link[k] EXCEPT !.state = "reply", !.said = said]]
    BY <1>8 DEF Reply, Typed
  <2> QED BY <1>1, <2>1, <2>2 DEF Typed
<1>9. link' \in [Client -> LinkState] /\ \A j \in Client \ {k} : link'[j] = link[j]
  <2>1. \/ Reply(k, "welcome") \/ Reply(k, "refused") \/ Reply(k, "denied") \/ Reply(k, "done")
        \/ \E state \in {"admitted", "executed"} : link' = [link EXCEPT ![k] = [link[k] EXCEPT !.state = state]]
    BY DEF Authenticate, Readmit, Deny, Execute, Respond, Typed
  <2>2. \A state \in {"admitted", "executed"} : [link[k] EXCEPT !.state = state] \in LinkState
    BY <1>2 DEF LinkState
  <2>3. ASSUME NEW state \in {"admitted", "executed"},
               link' = [link EXCEPT ![k] = [link[k] EXCEPT !.state = state]]
        PROVE  link' \in [Client -> LinkState] /\ \A j \in Client \ {k} : link'[j] = link[j]
    BY <2>2, <2>3 DEF Typed
  <2> QED BY <1>8, <2>1, <2>3
<1>10. removed' \subseteq Client /\ stopping' \subseteq Client
  BY DEF Authenticate, Readmit, Deny, Execute, Respond, Losers, Typed
<1> HIDE DEF old
<1>11. Typed'
  BY <1>3, <1>7, <1>9, <1>10 DEF Typed
<1> QED BY <1>3, <1>7, <1>9, <1>11

-----------------------------------------------------------------------------
(* Sessions. *)

\* A client that does nothing, and for which the server does nothing, is where
\* it was, if the process it is connected to goes on.
LEMMA Undisturbed ==
    ASSUME NEW k \in Client, client[k] \in ClientState, Session(k),
           client'[k] = client[k], link'[k] = link[k],
           link[k].peer # None =>
              /\ daemon'[link[k].peer].pc # "off" /\ daemon'[link[k].peer].mode = daemon[link[k].peer].mode
              /\ UserOf[k] \in daemon[link[k].peer].registry
                    => \/ UserOf[k] \in daemon'[link[k].peer].registry
                       \/ k \in removed' \/ client[k].pc \notin {"auth", "again", "command"},
           k \in removed => k \in removed',
           k \in stopping' => k \in stopping
    PROVE  Session(k)'
<1>1. InStep(k)'
  BY DEF Session, InStep, Running
<1>2. Ticketed(k)'
  BY DEF Session, Ticketed, InStep
<1>3. Admitted(k)'
  <2>1. client[k].pc \in {"idle", "connect", "auth", "again", "command", "ended"}
    BY DEF ClientState
  <2> QED BY <2>1 DEF Session, Admitted, InStep
<1>4. DeniedInv(k)' /\ StopInv(k)'
  BY DEF Session, DeniedInv, StopInv
<1> QED BY <1>1, <1>2, <1>3, <1>4 DEF Session

\* What a daemon does for its listeners changes nothing for a client.
LEMMA DaemonSession ==
    ASSUME SessionInv, NEW d \in Daemon,
           \/ Start(d) \/ Exists(d) \/ Remove(d) \/ Bind(d) \/ BindFails(d)
           \/ BindHttp(d) \/ HttpAcceptFails(d)
    PROVE  SessionInv'
<1>1. Typed'
  BY DaemonTyped DEF SessionInv
<1>2. /\ UNCHANGED <<client, link, removed, stopping>>
      /\ \A e \in Daemon \ {d} : daemon'[e] = daemon[e]
  BY DEF Start, Exists, Remove, Bind, BindFails, BindHttp, HttpAcceptFails, AtPath, SessionInv, Typed
<1>3. /\ daemon \in [Daemon -> DaemonState]
      /\ ListenersRun /\ None \notin Daemon
  BY ConstantTypes DEF SessionInv, Typed
<1>4. /\ daemon'[d].pc # "off"
      /\ ~Start(d) => /\ Running(d) /\ daemon'[d].mode = daemon[d].mode
                      /\ daemon'[d].registry = daemon[d].registry
      /\ Start(d) => ~Running(d)
  <2>1. CASE Start(d)
    <3>1. daemon[d].pc = "off" /\ daemon'[d].pc = "exists"
      BY <1>3, <2>1 DEF Start, Off
    <3> QED BY <2>1, <3>1 DEF Running
  <2>2. CASE Exists(d) \/ Remove(d) \/ Bind(d) \/ BindFails(d)
    <3>1. daemon[d] \in DaemonState /\ daemon[d].pc # "off"
      BY <1>3, <2>2 DEF Exists, Remove, Bind, BindFails
    <3>2. \/ \E pc \in {"remove", "bind", "up", "deaf"} : daemon'[d] = [daemon[d] EXCEPT !.pc = pc]
          \/ daemon'[d] = [daemon[d] EXCEPT !.pc = "exists", !.at = @ + 1]
      BY <1>3, <2>2 DEF Exists, Remove, Bind, BindFails, AtPath
    <3>3. ~Start(d)
      BY <3>1 DEF Start
    <3> QED BY <3>1, <3>2, <3>3 DEF Running, DaemonState
  <2>3. CASE BindHttp(d) \/ HttpAcceptFails(d)
    <3>1. daemon[d] \in DaemonState /\ daemon[d].pc # "off"
      BY <1>3, <2>3 DEF BindHttp, HttpAcceptFails, Running, ListenersRun
    <3>2. \E http \in {"none", "listening"} : daemon'[d] = [daemon[d] EXCEPT !.http = http]
      BY <1>3, <2>3 DEF BindHttp, HttpAcceptFails
    <3>3. ~Start(d)
      BY <3>1 DEF Start
    <3> QED BY <3>1, <3>2, <3>3 DEF Running, DaemonState
  <2> QED BY <2>1, <2>2, <2>3
<1>5. ASSUME NEW e \in Daemon, Running(e) PROVE daemon'[e].pc # "off"
  BY <1>2, <1>4, <1>5 DEF Running
<1>6. ListenersRun'
  <2>1. ASSUME NEW p \in Path, socket'[p] # None, socket'[p].live # None
        PROVE  daemon'[socket'[p].live].pc # "off"
    <3>1. socket'[p] = socket[p] \/ socket'[p] = None \/ socket'[p] = [owner |-> UserOf[d], live |-> d]
      BY DEF Start, Exists, Remove, Bind, BindFails, BindHttp, HttpAcceptFails, SessionInv, Typed
    <3>2. CASE socket'[p] = socket[p]
      <4>1. Running(socket[p].live) /\ socket[p].live \in Daemon
        BY <1>3, <2>1, <3>2 DEF ListenersRun, SessionInv, Typed, SocketFile
      <4> QED BY <1>5, <3>2, <4>1
    <3> QED BY <1>4, <2>1, <3>1, <3>2
  <2>2. ASSUME NEW e \in Daemon, daemon'[e].http # "none" PROVE daemon'[e].pc # "off"
    <3>1. CASE e = d
      BY <1>4, <3>1
    <3>2. CASE e # d
      BY <1>2, <1>3, <1>5, <2>2, <3>2 DEF ListenersRun
    <3> QED BY <3>1, <3>2
  <2> QED BY <2>1, <2>2 DEF ListenersRun, Running
<1>7. ASSUME NEW k \in Client PROVE Session(k)'
  <2>1. Session(k) /\ client[k] \in ClientState /\ link[k].peer \in Daemon \cup {None}
    BY DEF SessionInv, Typed, LinkState
  <2>2. ASSUME link[k].peer # None
        PROVE  /\ daemon'[link[k].peer].pc # "off" /\ daemon'[link[k].peer].mode = daemon[link[k].peer].mode
               /\ daemon'[link[k].peer].registry = daemon[link[k].peer].registry
    <3>1. link[k].peer \in Daemon /\ Running(link[k].peer)
      BY <2>1, <2>2 DEF Session, InStep
    <3>2. CASE link[k].peer = d
      BY <1>4, <3>1, <3>2
    <3>3. CASE link[k].peer # d
      BY <1>2, <1>5, <3>1, <3>3
    <3> QED BY <3>2, <3>3
  <2> QED BY <1>2, <2>1, <2>2, Undisturbed
<1> QED BY <1>1, <1>6, <1>7 DEF SessionInv

\* The process ends: those who were connected to it get no answer any more,
\* except the one that is on its way.
LEMMA EndsSession ==
    ASSUME SessionInv, NEW d \in Daemon, Ends(d)
    PROVE  SessionInv'
<1>1. Typed'
  BY DaemonTyped DEF SessionInv
<1>2. /\ UNCHANGED <<client, removed, stopping>>
      /\ daemon' = [daemon EXCEPT ![d] = Off]
      /\ socket' = [p \in Path |-> IF socket[p] # None /\ socket[p].live = d
                                   THEN [socket[p] EXCEPT !.live = None] ELSE socket[p]]
      /\ link' = [k \in Client |->
                    IF link[k].peer # d THEN link[k]
                    ELSE [link[k] EXCEPT !.peer = None,
                                         !.state = IF @ = "reply" THEN @ ELSE "closed"]]
  BY DEF Ends
<1>3. \A e \in Daemon \ {d} : daemon'[e] = daemon[e]
  BY <1>2 DEF SessionInv, Typed
<1>4. ListenersRun'
  <2>1. ASSUME NEW p \in Path, socket'[p] # None, socket'[p].live # None
        PROVE  daemon'[socket'[p].live].pc # "off"
    <3>1. socket[p] \in {None} \cup SocketFile
      BY DEF SessionInv, Typed
    <3>2. CASE socket[p] # None /\ socket[p].live = d
      <4>1. socket'[p] = [socket[p] EXCEPT !.live = None]
        BY <1>2, <3>2
      <4>2. socket'[p].live = None
        BY <3>1, <3>2, <4>1 DEF SocketFile
      <4> QED BY <2>1, <4>2
    <3>3. CASE ~(socket[p] # None /\ socket[p].live = d)
      <4>1. socket'[p] = socket[p]
        BY <1>2, <3>3
      <4>2. socket[p].live \in Daemon \ {d} /\ Running(socket[p].live)
        BY <2>1, <3>1, <3>3, <4>1 DEF SocketFile, SessionInv, ListenersRun
      <4> QED BY <1>3, <4>1, <4>2 DEF Running
    <3> QED BY <3>2, <3>3
  <2>2. ASSUME NEW e \in Daemon, daemon'[e].http # "none" PROVE daemon'[e].pc # "off"
    <3>1. CASE e = d
      BY <1>2, <2>2, <3>1 DEF Off, SessionInv, Typed
    <3>2. CASE e # d
      BY <1>3, <2>2, <3>2 DEF ListenersRun, Running, SessionInv
    <3> QED BY <3>1, <3>2
  <2> QED BY <2>1, <2>2 DEF ListenersRun, Running
<1>5. client' = client /\ removed' = removed /\ stopping' = stopping
  BY <1>2
<1>6. ASSUME NEW k \in Client PROVE Session(k)'
  <2>1. Session(k) /\ client[k] \in ClientState /\ link[k] \in LinkState
    BY DEF SessionInv, Typed
  <2>2. CASE link[k].peer # d
    <3>1. link'[k] = link[k]
      BY <1>2, <2>2
    <3>2. link[k].peer # None => link[k].peer \in Daemon \ {d} /\ Running(link[k].peer)
      BY <2>1, <2>2 DEF LinkState, Session, InStep
    <3>3. link[k].peer # None => daemon'[link[k].peer].pc # "off" /\ daemon'[link[k].peer] = daemon[link[k].peer]
      BY <1>3, <3>2 DEF Running
    <3> QED BY <1>2, <2>1, <3>1, <3>3, Undisturbed
  <2>3. CASE link[k].peer = d
    <3>1. /\ link'[k].peer = None /\ link'[k].said = link[k].said
          /\ link'[k].state = IF link[k].state = "reply" THEN "reply" ELSE "closed"
      <4>1. link'[k] = [link[k] EXCEPT !.peer = None,
                                       !.state = IF @ = "reply" THEN @ ELSE "closed"]
        BY <1>2, <2>3
      <4> QED BY <2>1, <4>1 DEF LinkState
    <3>2. client[k].pc \notin {"idle", "connect", "again"}
          /\ (client[k].pc = "ended" => client[k].outcome = "killed")
      <4>1. d # None
        BY ConstantTypes
      <4> QED BY <2>1, <2>3, <4>1 DEF Session, InStep
    <3>3. InStep(k)'
      BY <1>5, <2>1, <3>1, <3>2 DEF Session, InStep
    <3>4. Ticketed(k)' /\ Admitted(k)'
      BY <1>5, <3>1 DEF Ticketed, Admitted
    <3>5. DeniedInv(k)' /\ StopInv(k)'
      BY <1>5, <2>1, <3>1 DEF Session, DeniedInv, StopInv
    <3> QED BY <3>3, <3>4, <3>5 DEF Session
  <2> QED BY <2>2, <2>3
<1> QED BY <1>1, <1>4, <1>6 DEF SessionInv

\* A client goes on: it connects, reads an answer or the end of the
\* connection, or is interrupted.
LEMMA ClientSession ==
    ASSUME SessionInv, NEW k \in Client, Invoke(k) \/ Proceed(k) \/ Interrupt(k)
    PROVE  SessionInv'
<1>1. Session(k) /\ client[k] \in ClientState /\ link[k] \in LinkState
  BY DEF SessionInv, Typed
<1>2. Typed'
  BY <1>1, ClientTyped DEF SessionInv, Session
<1>3. UNCHANGED <<socket, daemon, removed, stopping>>
  BY DEF Invoke, Proceed, Connect, ReadAuth, ReadAnswer, ReadFails, Interrupt
<1>4. ListenersRun'
  BY <1>3 DEF SessionInv, ListenersRun, Running
<1>5. \A j \in Client \ {k} : client'[j] = client[j] /\ link'[j] = link[j]
  BY DEF Invoke, Proceed, Connect, ReadAuth, ReadAnswer, ReadFails, Interrupt, Finish, SessionInv, Typed
<1>6. ASSUME NEW j \in Client \ {k} PROVE Session(j)'
  <2>1. Session(j) /\ client[j] \in ClientState /\ (link[j].peer # None => Running(link[j].peer))
    BY DEF SessionInv, Typed, Session, InStep
  <2> QED BY <1>3, <1>5, <2>1, Undisturbed DEF Running
<1>7. ASSUME NEW outcome \in {"failed", "refused", "denied", "done"}, Finish(k, outcome)
      PROVE  /\ client'[k].pc = "ended" /\ client'[k].outcome = outcome
             /\ client'[k].call.via = "socket"
  BY <1>7 DEF Finish, Idle, SessionInv, Typed
<1>8. ASSUME NEW outcome \in {"failed", "refused", "denied", "done"}, Finish(k, outcome),
             link'[k].state = "none" /\ link'[k].peer = None,
             k \in stopping => outcome # "failed", outcome = "denied" => k \in removed
      PROVE  Session(k)'
  <2>1. InStep(k)'
    BY <1>7, <1>8 DEF InStep
  <2>2. Ticketed(k)' /\ Admitted(k)'
    BY <1>8 DEF Ticketed, Admitted
  <2>3. DeniedInv(k)' /\ StopInv(k)'
    BY <1>3, <1>7, <1>8 DEF DeniedInv, StopInv
  <2> QED BY <2>1, <2>2, <2>3 DEF Session
<1>9. link' = [link EXCEPT ![k] = NoLink] => link'[k].state = "none" /\ link'[k].peer = None
  BY DEF NoLink, SessionInv, Typed
<1>10. SUFFICES Session(k)'
  BY <1>2, <1>4, <1>6 DEF SessionInv
<1>11. CASE Invoke(k)
  <2>1. /\ client[k].pc = "idle" /\ link' = link
        /\ \E call \in Invocation[k] :
              client' = [client EXCEPT ![k] =
                    [pc |-> "connect", call |-> call, outcome |-> "none",
                     at |-> IF call.via = "socket" THEN FirstPresent(UserOf[k]) ELSE None]]
    BY <1>11 DEF Invoke
  <2>2. /\ client'[k].pc = "connect" /\ client'[k].outcome = "none"
        /\ client'[k].call.via = "socket" => client'[k].at \in Path
    <3>1. FirstPresent(UserOf[k]) \in Path
      BY FirstPath, ConstantTypes
    <3> QED BY <2>1, <3>1 DEF SessionInv, Typed
  <2>3. link[k].state = "none" /\ link[k].peer = None /\ k \notin stopping
    BY <1>1, <2>1 DEF Session, InStep, StopInv
  <2>4. InStep(k)'
    BY <2>1, <2>2, <2>3 DEF InStep
  <2>5. Ticketed(k)' /\ Admitted(k)' /\ DeniedInv(k)' /\ StopInv(k)'
    BY <1>3, <2>1, <2>2, <2>3 DEF Ticketed, Admitted, DeniedInv, StopInv
  <2> QED BY <2>4, <2>5 DEF Session
<1>12. CASE Connect(k)
  <2>1. /\ client[k].pc \in {"connect", "again"} /\ link[k].state = "none" /\ link[k].peer = None
        /\ client[k].outcome = "none"
    BY <1>1, <1>12 DEF Connect, Session, InStep
  <2>2. k \notin stopping
    BY <1>1, <2>1 DEF Session, StopInv
  <2>3. CASE Listener(k) = None
    <3>1. Finish(k, "failed") /\ link' = link
      BY <1>12, <2>3 DEF Connect
    <3> QED BY <1>8, <2>1, <2>2, <3>1
  <2>4. CASE Listener(k) # None
    <3>1. /\ client' = [client EXCEPT ![k].pc = IF @ = "connect" THEN "auth" ELSE "command"]
          /\ link' = [link EXCEPT ![k] = [NoLink EXCEPT
                !.peer = Listener(k), !.state = IF client[k].pc = "connect" THEN "auth" ELSE "command"]]
      BY <1>12, <2>4 DEF Connect
    <3>2. /\ client'[k].pc = IF client[k].pc = "connect" THEN "auth" ELSE "command"
          /\ client'[k].call = client[k].call /\ client'[k].outcome = client[k].outcome
          /\ link'[k].peer = Listener(k) /\ link'[k].said = "nothing"
          /\ link'[k].state = IF client[k].pc = "connect" THEN "auth" ELSE "command"
      BY <1>1, <3>1 DEF NoLink, ClientState, SessionInv, Typed
    <3>3. Running(Listener(k))
      <4>1. CASE client[k].call.via = "socket"
        <5>1. client[k].at \in Path
          BY <1>1, <2>1, <4>1 DEF Session, InStep
        <5> QED BY <2>4, <4>1, <5>1 DEF Listener, SessionInv, ListenersRun
      <4>2. CASE client[k].call.via # "socket"
        <5>1. Listener(k) \in Daemon /\ daemon[Listener(k)].http = "listening"
          BY <2>4, <4>2 DEF Listener
        <5> QED BY <5>1 DEF SessionInv, ListenersRun
      <4> QED BY <4>1, <4>2
    <3>4. client[k].pc = "again" => client[k].call.via = "http"
      BY <1>1 DEF Session, InStep
    <3>5. daemon'[link'[k].peer].pc # "off"
      BY <1>3, <3>2, <3>3 DEF Running
    <3>6. InStep(k)'
      BY <2>1, <2>4, <3>2, <3>5 DEF InStep, Running
    <3>7. Ticketed(k)' /\ Admitted(k)'
      BY <2>1, <3>2, <3>4 DEF Ticketed, Admitted
    <3>8. DeniedInv(k)' /\ StopInv(k)'
      BY <1>1, <1>3, <2>1, <2>2, <3>2 DEF Session, DeniedInv, StopInv
    <3> QED BY <3>6, <3>7, <3>8 DEF Session
  <2> QED BY <2>3, <2>4
<1>13. CASE ReadAuth(k)
  <2>1. /\ client[k].pc = "auth" /\ link[k].state = "reply"
        /\ link[k].said \in {"welcome", "refused"} /\ k \notin stopping
        /\ client[k].outcome = "none"
    BY <1>1, <1>13 DEF ReadAuth, Session, InStep, StopInv
  <2>2. CASE link[k].said = "refused"
    BY <1>8, <1>9, <1>13, <2>1, <2>2 DEF ReadAuth
  <2>3. CASE link[k].said # "refused" /\ client[k].call.via = "http"
    <3>1. /\ client' = [client EXCEPT ![k].pc = "again"]
          /\ link'[k].state = "none" /\ link'[k].peer = None /\ link'[k].said = "nothing"
      BY <1>13, <2>3 DEF ReadAuth, NoLink, SessionInv, Typed
    <3>2. client'[k].pc = "again" /\ client'[k].call = client[k].call
          /\ client'[k].outcome = client[k].outcome
      BY <1>1, <3>1 DEF ClientState, SessionInv, Typed
    <3>3. InStep(k)'
      BY <2>1, <2>3, <3>1, <3>2 DEF InStep
    <3> QED BY <1>3, <2>1, <3>1, <3>2, <3>3 DEF Session, Ticketed, Admitted, DeniedInv, StopInv
  <2>4. CASE link[k].said # "refused" /\ client[k].call.via # "http"
    <3>1. /\ client' = [client EXCEPT ![k].pc = "command"]
          /\ link' = [link EXCEPT ![k].state = IF link[k].peer = None THEN "closed" ELSE "command",
                                  ![k].said = "nothing"]
      BY <1>13, <2>4 DEF ReadAuth
    <3>2. /\ client'[k].pc = "command" /\ client'[k].call = client[k].call
          /\ client'[k].outcome = client[k].outcome
          /\ link'[k].peer = link[k].peer /\ link'[k].said = "nothing"
          /\ link'[k].state = IF link[k].peer = None THEN "closed" ELSE "command"
      BY <1>1, <3>1 DEF ClientState, LinkState, SessionInv, Typed
    <3>3. client[k].call.via = "socket"
      BY <1>1, <2>4, ConstantTypes DEF ClientState
    <3>4. InStep(k)'
      BY <1>1, <1>3, <2>1, <3>2 DEF Session, InStep, Running
    <3>5. Ticketed(k)'
      BY <3>2 DEF Ticketed
    <3>6. Admitted(k)'
      BY <1>1, <1>3, <2>1, <2>4, <3>2, <3>3 DEF Session, Admitted
    <3>7. DeniedInv(k)' /\ StopInv(k)'
      BY <1>3, <2>1, <3>2 DEF DeniedInv, StopInv
    <3> QED BY <3>4, <3>5, <3>6, <3>7 DEF Session
  <2> QED BY <2>2, <2>3, <2>4
<1>14. CASE ReadAnswer(k)
  <2>1. /\ link[k].said \in {"refused", "denied", "done"} /\ (link[k].said = "denied" => k \in removed)
        /\ Finish(k, link[k].said)
    BY <1>1, <1>14 DEF ReadAnswer, Session, InStep, DeniedInv
  <2> QED BY <1>8, <1>9, <1>14, <2>1 DEF ReadAnswer
<1>15. CASE ReadFails(k)
  <2>1. k \notin stopping /\ Finish(k, "failed")
    BY <1>1, <1>15 DEF ReadFails, Session, StopInv
  <2> QED BY <1>8, <1>9, <1>15, <2>1 DEF ReadFails
<1>16. CASE Interrupt(k)
  <2>1. /\ client[k].pc \notin {"idle", "ended"}
        /\ client' = [client EXCEPT ![k].pc = "ended", ![k].at = None, ![k].outcome = "killed"]
        /\ link' = IF link[k].state \in {"reply", "closed"} THEN [link EXCEPT ![k] = NoLink] ELSE link
    BY <1>16 DEF Interrupt
  <2>2. /\ client'[k].pc = "ended" /\ client'[k].call = client[k].call
        /\ client'[k].outcome = "killed"
    BY <1>1, <2>1 DEF ClientState, SessionInv, Typed
  <2>3. \/ link'[k].state = "none" /\ link'[k].peer = None
        \/ link'[k] = link[k] /\ link[k].state \notin {"reply", "closed"}
    BY <2>1 DEF NoLink, SessionInv, Typed
  <2>4. InStep(k)'
    BY <1>1, <1>3, <2>2, <2>3 DEF Session, InStep, Running
  <2>5. Ticketed(k)' /\ Admitted(k)'
    BY <1>1, <1>3, <2>2, <2>3 DEF Session, Ticketed, Admitted
  <2>6. DeniedInv(k)' /\ StopInv(k)'
    BY <2>2, <2>3 DEF DeniedInv, StopInv
  <2> QED BY <2>4, <2>5, <2>6 DEF Session
<1> QED BY <1>11, <1>12, <1>13, <1>14, <1>15, <1>16 DEF Proceed

\* The server's task for a client's connection takes a step.
LEMMA ServerSession ==
    ASSUME SessionInv, NEW d \in Daemon, NEW k \in Client,
           \/ Authenticate(d, k) \/ Readmit(d, k) \/ Deny(d, k) \/ Execute(d, k) \/ Respond(d, k)
    PROVE  SessionInv'
<1>1. /\ Session(k) /\ client[k] \in ClientState /\ link[k] \in LinkState
      /\ d # None /\ daemon[d] \in DaemonState
  BY ConstantTypes DEF SessionInv, Typed
<1>2. /\ Typed'
      /\ UNCHANGED <<socket, client, faults, calm>>
      /\ \A e \in Daemon : /\ daemon'[e].pc = daemon[e].pc /\ daemon'[e].at = daemon[e].at
                           /\ daemon'[e].http = daemon[e].http /\ daemon'[e].mode = daemon[e].mode
      /\ \A j \in Client \ {k} : link'[j] = link[j]
  BY ServerTyped DEF SessionInv
<1>3. ListenersRun'
  <2>1. ASSUME NEW p \in Path, socket'[p] # None, socket'[p].live # None
        PROVE  daemon'[socket'[p].live].pc # "off"
    <3>1. socket[p].live \in Daemon /\ Running(socket[p].live)
      BY <1>2, <2>1 DEF SessionInv, Typed, SocketFile, ListenersRun
    <3> QED BY <1>2, <3>1 DEF Running
  <2>2. ASSUME NEW e \in Daemon, daemon'[e].http # "none" PROVE daemon'[e].pc # "off"
    BY <1>2, <2>2 DEF SessionInv, ListenersRun, Running
  <2> QED BY <2>1, <2>2 DEF ListenersRun, Running
<1>4. ASSUME NEW j \in Client \ {k} PROVE Session(j)'
  <2>1. Session(j) /\ client[j] \in ClientState /\ link[j].peer \in Daemon \cup {None}
    BY DEF SessionInv, Typed, LinkState
  <2>2. (j \in removed => j \in removed') /\ (j \in stopping' => j \in stopping)
    BY <1>4 DEF Authenticate, Readmit, Deny, Execute, Respond
  <2>3. ASSUME NEW e \in Daemon, UserOf[j] \in daemon[e].registry
        PROVE  \/ UserOf[j] \in daemon'[e].registry
               \/ j \in removed' \/ client[j].pc \notin {"auth", "again", "command"}
    <3>1. CASE Execute(d, k) /\ client[k].call.command.name = "Remove"
      <4>1. /\ daemon' = [daemon EXCEPT ![d].registry = @ \ {client[k].call.command.key}]
            /\ removed' = removed \cup Losers(client[k].call.command.key)
        BY <3>1 DEF Execute
      <4>2. CASE UserOf[j] = client[k].call.command.key
        BY <4>1, <4>2 DEF Losers
      <4>3. CASE UserOf[j] # client[k].call.command.key
        BY <1>1, <2>3, <4>1, <4>3 DEF SessionInv, Typed, DaemonState
      <4> QED BY <4>2, <4>3
    <3>2. CASE ~(Execute(d, k) /\ client[k].call.command.name = "Remove")
      <4>1. \/ UNCHANGED daemon
            \/ daemon' = [daemon EXCEPT ![d].registry = @ \cup {UserOf[k]}]
            \/ daemon' = [daemon EXCEPT ![d].stop = TRUE]
        BY <3>2 DEF Authenticate, Readmit, Deny, Execute, Respond, Registered
      <4>2. daemon \in [Daemon -> DaemonState] /\ daemon[e] \in DaemonState
        BY DEF SessionInv, Typed
      <4>3. CASE daemon' = [daemon EXCEPT ![d].registry = @ \cup {UserOf[k]}]
        BY <2>3, <4>2, <4>3 DEF DaemonState
      <4>4. CASE daemon' = [daemon EXCEPT ![d].stop = TRUE]
        BY <2>3, <4>2, <4>4 DEF DaemonState
      <4> QED BY <2>3, <4>1, <4>3, <4>4
    <3> QED BY <3>1, <3>2
  <2>4. link[j].peer # None => /\ link[j].peer \in Daemon
                               /\ daemon'[link[j].peer].pc # "off"
                               /\ daemon'[link[j].peer].mode = daemon[link[j].peer].mode
    BY <1>2, <2>1 DEF Session, InStep, Running
  <2> QED BY <1>2, <2>1, <2>2, <2>3, <2>4, Undisturbed
<1>5. /\ link[k].peer = d /\ link[k].state \in {"auth", "command", "admitted", "executed"}
      /\ Running(d) /\ daemon'[d].pc # "off"
  <2>1. link[k].peer = d /\ link[k].state \in {"auth", "command", "admitted", "executed"}
    BY DEF Authenticate, Readmit, Deny, Execute, Respond, HasCommand
  <2>2. Running(d)
    BY <1>1, <2>1 DEF Session, InStep
  <2> QED BY <1>2, <2>1, <2>2 DEF Running
<1>6. /\ Gone(k) => client[k].outcome = "killed"
      /\ client[k].outcome # "denied"
      /\ k \in stopping => Gone(k)
      /\ ~Gone(k) => client[k].pc = IF link[k].state = "auth" THEN "auth" ELSE "command"
  BY <1>1, <1>5 DEF Session, InStep, StopInv, ClientState, Gone
<1>7. ASSUME NEW said \in {"welcome", "refused", "denied", "done"}, Reply(k, said)
      PROVE  /\ Gone(k) => link'[k].peer = None /\ link'[k].state = "none" /\ link'[k].said = "nothing"
             /\ ~Gone(k) => link'[k].peer = d /\ link'[k].state = "reply" /\ link'[k].said = said
  BY <1>1, <1>5, <1>7 DEF Reply, NoLink, LinkState, SessionInv, Typed
<1>8. SUFFICES Session(k)'
  BY <1>2, <1>3, <1>4 DEF SessionInv
<1>9. client'[k] = client[k]
  BY <1>2
<1>10. ASSUME NEW said \in {"welcome", "refused", "denied", "done"}, Reply(k, said),
              link[k].state = "auth" => said \in {"welcome", "refused"},
              link[k].state # "auth" => said # "welcome",
              ~Gone(k) /\ said = "welcome" => UserOf[k] \in daemon'[d].registry,
              ~Gone(k) /\ said = "denied" => k \in removed',
              k \in stopping' => Gone(k) \/ said = "done"
       PROVE  Session(k)'
  <2>1. CASE Gone(k)
    <3>1. InStep(k)' /\ Ticketed(k)' /\ Admitted(k)'
      BY <1>1, <1>6, <1>7, <1>9, <1>10, <2>1 DEF Session, InStep, Ticketed, Admitted, Gone
    <3>2. DeniedInv(k)' /\ StopInv(k)'
      BY <1>1, <1>6, <1>7, <1>9, <1>10, <2>1 DEF Session, DeniedInv, StopInv, Gone
    <3> QED BY <3>1, <3>2 DEF Session
  <2>2. CASE ~Gone(k)
    <3>1. InStep(k)'
      BY <1>1, <1>5, <1>6, <1>7, <1>9, <1>10, <2>2 DEF Session, InStep, Gone, Running
    <3>2. Ticketed(k)' /\ Admitted(k)'
      BY <1>6, <1>7, <1>9, <1>10, <2>2 DEF Ticketed, Admitted
    <3>3. DeniedInv(k)' /\ StopInv(k)'
      BY <1>6, <1>7, <1>9, <1>10, <2>2 DEF DeniedInv, StopInv, Gone
    <3> QED BY <3>1, <3>2, <3>3 DEF Session
  <2> QED BY <2>1, <2>2
<1>11. ASSUME Registered(d, k) PROVE UserOf[k] \in daemon'[d].registry
  BY <1>1, <1>11 DEF Registered, SessionInv, Typed, DaemonState
<1>12. ASSUME NEW state \in {"admitted", "executed"}, link' = [link EXCEPT ![k].state = state],
              link[k].state # "auth", stopping' = stopping,
              client[k].call.via = "http" /\ daemon[d].mode = "public" => client[k].call.ticket,
              state = "admitted" => UserOf[k] \in daemon'[d].registry
       PROVE  Session(k)'
  <2>1. link'[k].peer = d /\ link'[k].state = state
    BY <1>1, <1>5, <1>12 DEF LinkState, SessionInv, Typed
  <2>2. InStep(k)'
    BY <1>1, <1>5, <1>6, <1>9, <1>12, <2>1 DEF Session, InStep, Gone, Running
  <2>3. Ticketed(k)' /\ Admitted(k)'
    BY <1>2, <1>9, <1>12, <2>1 DEF Ticketed, Admitted
  <2>4. DeniedInv(k)' /\ StopInv(k)'
    BY <1>6, <1>9, <1>12, <2>1 DEF DeniedInv, StopInv, Gone
  <2> QED BY <2>2, <2>3, <2>4 DEF Session
<1>13. ASSUME Authenticated(d, k), client[k].call.via = "http", daemon[d].mode = "public"
       PROVE  client[k].call.ticket
  BY <1>13 DEF Authenticated
<1>14. CASE Authenticate(d, k)
  <2>1. link[k].state = "auth" /\ stopping' = stopping
    BY <1>14 DEF Authenticate
  <2>2. CASE Authenticated(d, k)
    <3>1. Registered(d, k) /\ Reply(k, "welcome")
      BY <1>14, <2>2 DEF Authenticate
    <3> QED BY <1>6, <1>10, <1>11, <2>1, <3>1
  <2>3. CASE ~Authenticated(d, k)
    <3>1. Reply(k, "refused")
      BY <1>14, <2>3 DEF Authenticate
    <3> QED BY <1>6, <1>10, <2>1, <3>1
  <2> QED BY <2>2, <2>3
<1>15. CASE Readmit(d, k)
  <2>1. link[k].state = "command" /\ stopping' = stopping
    BY <1>15 DEF Readmit
  <2>2. CASE Authenticated(d, k)
    <3>1. Registered(d, k) /\ link' = [link EXCEPT ![k].state = "admitted"]
      BY <1>15, <2>2 DEF Readmit
    <3> QED BY <1>11, <1>12, <1>13, <2>1, <2>2, <3>1
  <2>3. CASE ~Authenticated(d, k)
    <3>1. Reply(k, "refused")
      BY <1>15, <2>3 DEF Readmit
    <3> QED BY <1>6, <1>10, <2>1, <3>1
  <2> QED BY <2>2, <2>3
<1>16. CASE Deny(d, k)
  <2>1. /\ HasCommand(d, k) /\ UserOf[k] \notin daemon[d].registry /\ Reply(k, "denied")
        /\ removed' = removed /\ stopping' = stopping
    BY <1>16 DEF Deny
  <2>2. link[k].state # "auth" /\ (~Gone(k) => k \in removed)
    BY <1>1, <1>5, <2>1, ConstantTypes DEF HasCommand, Session, Admitted, Gone, ClientState
  <2> QED BY <1>6, <1>10, <2>1, <2>2
<1>17. CASE Execute(d, k)
  <2>1. HasCommand(d, k) /\ link' = [link EXCEPT ![k].state = "executed"] /\ stopping' = stopping
    BY <1>17 DEF Execute
  <2>2. /\ link[k].state # "auth"
        /\ (client[k].call.via = "http" /\ daemon[d].mode = "public" => client[k].call.ticket)
    BY <1>1, <1>5, <2>1 DEF HasCommand, Session, Ticketed
  <2> QED BY <1>12, <2>1, <2>2
<1>18. CASE Respond(d, k)
  <2>1. link[k].state = "executed" /\ Reply(k, "done")
    BY <1>18 DEF Respond
  <2> QED BY <1>10, <2>1
<1> QED BY <1>14, <1>15, <1>16, <1>17, <1>18

\* Nothing runs and nobody is connected.
LEMMA SessionInit == Init => SessionInv
<1> SUFFICES ASSUME Init PROVE SessionInv
  OBVIOUS
<1>1. Off \in DaemonState /\ Idle \in ClientState /\ NoLink \in LinkState
  BY ConstantTypes
<1>2. Typed
  <2>1. ASSUME NEW d \in Daemon PROVE daemon[d].at <= Len(Candidates[UserOf[d]])
    <3>1. UserOf[d] \in User /\ Len(Candidates[UserOf[d]]) \in Nat \ {0}
      BY ConstantTypes
    <3> QED BY <3>1 DEF Init, Off
  <2> QED BY <1>1, <2>1 DEF Init, Typed
<1>3. ListenersRun
  BY DEF Init, ListenersRun, Off
<1>4. ASSUME NEW k \in Client PROVE Session(k)
  <2>1. /\ client[k].pc = "idle" /\ client[k].outcome = "none"
        /\ link[k].peer = None /\ link[k].state = "none" /\ link[k].said = "nothing"
        /\ k \notin stopping
    BY DEF Init, Idle, NoLink
  <2> QED BY <2>1 DEF Session, InStep, Ticketed, Admitted, DeniedInv, StopInv
<1> QED BY <1>2, <1>3, <1>4 DEF SessionInv

\* Each step of a daemon, of a client and of the server's tasks keeps it.
LEMMA SessionStep == SessionInv /\ [Next]_vars => SessionInv'
<1> SUFFICES ASSUME SessionInv, [Next]_vars PROVE SessionInv'
  OBVIOUS
<1>1. ASSUME NEW d \in Daemon, Start(d) \/ Serve(d) \/ HttpAcceptFails(d) \/ Killed(d)
      PROVE  SessionInv'
  <2>1. CASE \/ Start(d) \/ Exists(d) \/ Remove(d) \/ Bind(d) \/ BindFails(d)
             \/ BindHttp(d) \/ HttpAcceptFails(d)
    BY <2>1, DaemonSession
  <2>2. CASE Ends(d)
    BY <2>2, EndsSession
  <2>3. CASE \E k \in Client : \/ Authenticate(d, k) \/ Readmit(d, k)
                               \/ Deny(d, k) \/ Execute(d, k) \/ Respond(d, k)
    BY <2>3, ServerSession
  <2> QED BY <1>1, <2>1, <2>2, <2>3 DEF Serve, Exit, Killed
<1>2. ASSUME NEW k \in Client, Invoke(k) \/ Proceed(k) \/ Interrupt(k)
      PROVE  SessionInv'
  BY <1>2, ClientSession
<1>3. CASE UNCHANGED vars
  <2>1. /\ socket' = socket /\ daemon' = daemon /\ client' = client /\ link' = link
        /\ faults' = faults /\ calm' = calm /\ removed' = removed /\ stopping' = stopping
    BY <1>3 DEF vars
  <2>2. Typed' /\ ListenersRun'
    BY <2>1 DEF SessionInv, Typed, ListenersRun, Running
  <2>3. ASSUME NEW k \in Client PROVE Session(k)'
    <3>1. Session(k) /\ client[k] \in ClientState /\ (link[k].peer # None => Running(link[k].peer))
      BY DEF SessionInv, Typed, Session, InStep
    <3> QED BY <2>1, <3>1, Undisturbed DEF Running
  <2> QED BY <2>2, <2>3 DEF SessionInv
<1> QED BY <1>1, <1>2, <1>3 DEF Next

-----------------------------------------------------------------------------
(* Socket files, and the clients for which nothing changes. *)

\* What leaves the socket files alone and moves no daemon.
LEMMA FilesKept ==
    ASSUME Typed, Files, socket' = socket,
           \A e \in Daemon : daemon'[e].pc = daemon[e].pc /\ daemon'[e].at = daemon[e].at
    PROVE  Files'
<1>1. \A e \in Daemon : PathOf(e)' = PathOf(e)
  BY DEF PathOf
<1>2. ASSUME NEW p \in Path, socket'[p] # None
      PROVE  /\ p \in Writable[socket'[p].owner]
             /\ socket'[p].live # None =>
                   /\ daemon'[socket'[p].live].pc = "up"
                   /\ p = Candidates[UserOf[socket'[p].live]][daemon'[socket'[p].live].at]
                   /\ socket'[p].owner = UserOf[socket'[p].live]
  <2>1. socket[p] \in SocketFile
    BY <1>2 DEF Typed
  <2> QED BY <1>2, <2>1 DEF Files, PathOf, SocketFile
<1>3. ASSUME NEW e \in Daemon, daemon'[e].pc # "off"
      PROVE  /\ \A j \in 1..(daemon'[e].at - 1) :
                  LET f == socket'[Candidates[UserOf[e]][j]]
                  IN  f # None /\ f.owner = UserOf[e] => f.live # None
             /\ daemon'[e].pc = "bind" /\ socket'[PathOf(e)'] # None
                  => socket'[PathOf(e)'].owner # UserOf[e]
  BY <1>1, <1>3 DEF Files, Running
<1> QED BY <1>2, <1>3 DEF Files, Running, PathOf

\* A daemon on its way through the candidates.
LEMMA FilesOnTheWay ==
    ASSUME OneDaemonEach, Typed, Files, NEW d \in Daemon,
           Exists(d) \/ Remove(d) \/ Bind(d) \/ BindFails(d)
    PROVE  Files'
<1> DEFINE old == daemon[d]
           here == PathOf(d)
           name == Candidates[UserOf[d]]
<1>1. /\ here \in Path /\ here = name[old.at]
      /\ old \in DaemonState /\ old.pc \in {"exists", "remove", "bind"}
      /\ old.at \in Nat \ {0} /\ None \notin Daemon
  BY PathType, ConstantTypes DEF Typed, DaemonState, PathOf, Exists, Remove, Bind, BindFails
<1>2. /\ \A e \in Daemon \ {d} : daemon'[e] = daemon[e] /\ UserOf[e] # UserOf[d]
      /\ daemon'[d].at = old.at \/ (BindFails(d) /\ daemon'[d].at = old.at + 1)
      /\ daemon'[d].pc = "up" => Bind(d)
      /\ daemon'[d].pc = "bind" => Remove(d) \/ (Exists(d) /\ socket[here] = None)
      /\ ~Bind(d) => daemon'[d].pc \in {"remove", "bind", "exists", "deaf"}
      /\ Bind(d) => daemon'[d].pc = "up" /\ daemon'[d].at = old.at
  <2>1. \A e \in Daemon \ {d} : daemon'[e] = daemon[e] /\ UserOf[e] # UserOf[d]
    BY DEF Exists, Remove, Bind, BindFails, AtPath, OneDaemonEach, Typed
  <2>2. CASE Exists(d)
    BY <1>1, <2>1, <2>2 DEF Exists, Bind, BindFails, AtPath, Typed, DaemonState
  <2>3. CASE Remove(d)
    BY <1>1, <2>1, <2>3 DEF Remove, Bind, BindFails, AtPath, Typed, DaemonState
  <2>4. CASE Bind(d)
    BY <1>1, <2>1, <2>4 DEF Bind, AtPath, Typed, DaemonState
  <2>5. CASE BindFails(d) /\ ~Bind(d)
    BY <1>1, <2>1, <2>5 DEF BindFails, Typed, DaemonState
  <2> QED BY <2>2, <2>3, <2>4, <2>5
<1>3. \/ socket' = socket /\ ~Bind(d) /\ (Remove(d) => here \notin Writable[UserOf[d]])
      \/ Remove(d) /\ ~Bind(d) /\ socket' = [socket EXCEPT ![here] = None]
      \/ /\ Bind(d) /\ here \in Writable[UserOf[d]]
         /\ socket' = [socket EXCEPT ![here] = [owner |-> UserOf[d], live |-> d]]
  BY DEF Exists, Remove, Bind, BindFails
<1>4. ASSUME NEW p \in Path, socket'[p] # None
       PROVE  \/ socket'[p] = socket[p]
              \/ /\ p = here /\ Bind(d) /\ here \in Writable[UserOf[d]]
                 /\ socket'[p] = [owner |-> UserOf[d], live |-> d]
  BY <1>1, <1>3, <1>4 DEF Typed
<1>5. \A p \in Path : socket[p] # None => socket[p] \in SocketFile /\ socket[p].live # d
  BY <1>1 DEF Typed, Files
<1> HIDE DEF old, here
<1>6. ASSUME NEW p \in Path, socket'[p] # None
      PROVE  /\ p \in Writable[socket'[p].owner]
             /\ socket'[p].live # None =>
                   /\ daemon'[socket'[p].live].pc = "up"
                   /\ p = Candidates[UserOf[socket'[p].live]][daemon'[socket'[p].live].at]
                   /\ socket'[p].owner = UserOf[socket'[p].live]
  <2>1. CASE socket'[p] = socket[p]
    <3>1. socket[p] \in SocketFile /\ socket[p].live # d
      BY <1>5, <1>6, <2>1
    <3>2. socket[p].live # None => socket[p].live \in Daemon \ {d}
      BY <3>1 DEF SocketFile
    <3>3. socket[p].live # None => daemon'[socket[p].live] = daemon[socket[p].live]
      BY <1>2, <3>2
    <3> QED BY <1>6, <2>1, <3>3 DEF Files, PathOf
  <2>2. CASE socket'[p] # socket[p]
    <3>1. /\ p = here /\ Bind(d) /\ here \in Writable[UserOf[d]]
          /\ socket'[p] = [owner |-> UserOf[d], live |-> d]
      BY <1>6, <1>4, <2>2
    <3>2. daemon'[d].pc = "up" /\ daemon'[d].at = old.at /\ p = name[old.at] /\ p \in Writable[UserOf[d]]
      BY <1>1, <1>2, <3>1
    <3> QED BY <3>1, <3>2
  <2> QED BY <2>1, <2>2
<1>7. ASSUME NEW e \in Daemon, daemon'[e].pc # "off", NEW j \in 1..(daemon'[e].at - 1),
             socket'[Candidates[UserOf[e]][j]] # None,
             socket'[Candidates[UserOf[e]][j]].owner = UserOf[e]
      PROVE  socket'[Candidates[UserOf[e]][j]].live # None
  <2> DEFINE p == Candidates[UserOf[e]][j]
  <2>1. p \in Path /\ daemon'[e].at \in Nat \ {0}
    <3>1. Typed'
      BY DaemonTyped
    <3>2. /\ UserOf[e] \in User /\ daemon'[e].at \in Nat \ {0}
          /\ daemon'[e].at <= Len(Candidates[UserOf[e]])
      BY <3>1, ConstantTypes DEF Typed, DaemonState
    <3>3. Candidates[UserOf[e]] \in Seq(Path) /\ Len(Candidates[UserOf[e]]) \in Nat
      BY <3>2, ConstantTypes
    <3>4. j \in 1..Len(Candidates[UserOf[e]])
      BY <3>2, <3>3
    <3> QED BY <3>2, <3>3, <3>4
  <2> HIDE DEF p
  <2>2. CASE socket'[p] # socket[p]
    BY <1>1, <1>7, <1>4, <2>1, <2>2 DEF p
  <2>3. CASE socket'[p] = socket[p] /\ e # d
    <3>1. daemon'[e] = daemon[e]
      BY <1>2, <2>3
    <3> QED BY <1>7, <2>3, <3>1 DEF Files, Running, p
  <2>4. CASE socket'[p] = socket[p] /\ e = d
    <3>1. CASE j \in 1..(old.at - 1)
      <4>1. Running(d)
        BY <1>1 DEF Running, old
      <4> QED BY <1>7, <2>4, <3>1, <4>1 DEF Files, p, old
    <3>2. CASE j \notin 1..(old.at - 1)
      <4>1. j = old.at /\ BindFails(d)
        BY <1>1, <1>2, <1>7, <2>1, <2>4, <3>2
      <4>2. p = here /\ daemon[d].pc = "bind"
        BY <1>1, <2>4, <4>1 DEF p, BindFails
      <4>3. socket[here] # None /\ socket[here].owner = UserOf[d]
        BY <1>7, <2>4, <4>2 DEF p
      <4> QED BY <4>2, <4>3 DEF Files, Running, here
    <3> QED BY <3>1, <3>2
  <2> QED BY <2>2, <2>3, <2>4 DEF p
<1>8. ASSUME NEW e \in Daemon, daemon'[e].pc = "bind", socket'[PathOf(e)'] # None
      PROVE  socket'[PathOf(e)'].owner # UserOf[e]
  <2>1. CASE e # d
    <3>1. PathOf(e)' = PathOf(e) /\ daemon[e].pc = "bind" /\ PathOf(e) \in Path /\ UserOf[e] # UserOf[d]
      BY <1>2, <1>8, <2>1, PathType DEF PathOf
    <3>2. CASE socket'[PathOf(e)] = socket[PathOf(e)]
      BY <1>8, <3>1, <3>2 DEF Files, Running
    <3>3. CASE socket'[PathOf(e)] # socket[PathOf(e)]
      BY <1>8, <1>4, <3>1, <3>3
    <3> QED BY <3>1, <3>2, <3>3
  <2>2. CASE e = d
    <3>1. ~Bind(d) /\ (Remove(d) \/ (Exists(d) /\ socket[here] = None)) /\ ~BindFails(d)
      BY <1>1, <1>2, <1>8, <2>2 DEF Exists, Remove, Bind, BindFails, old
    <3>2. PathOf(e)' = here
      BY <1>1, <1>2, <2>2, <3>1 DEF PathOf, here
    <3>3. socket'[here] = socket[here]
      BY <1>1, <1>8, <1>4, <3>1, <3>2
    <3>4. Remove(d) /\ here \notin Writable[UserOf[d]]
      BY <1>1, <1>3, <1>8, <3>1, <3>2, <3>3 DEF Typed
    <3>5. here \in Writable[socket[here].owner]
      BY <1>1, <1>8, <3>2, <3>3 DEF Files
    <3> QED BY <2>2, <3>2, <3>3, <3>4, <3>5
  <2> QED BY <2>1, <2>2
<1> QED BY <1>6, <1>7, <1>8 DEF Files, Running, PathOf

\* A daemon starts: it has passed no path yet.
LEMMA FilesStart ==
    ASSUME Typed, Files, NEW d \in Daemon, Start(d)
    PROVE  Files'
<1>1. /\ daemon[d].pc = "off" /\ daemon'[d].pc = "exists" /\ daemon'[d].at = 1
      /\ \A e \in Daemon \ {d} : daemon'[e] = daemon[e]
      /\ socket' = socket
  BY DEF Start, Off, Typed
<1>2. ASSUME NEW p \in Path, socket'[p] # None
      PROVE  /\ p \in Writable[socket'[p].owner]
             /\ socket'[p].live # None =>
                   /\ daemon'[socket'[p].live].pc = "up"
                   /\ p = Candidates[UserOf[socket'[p].live]][daemon'[socket'[p].live].at]
                   /\ socket'[p].owner = UserOf[socket'[p].live]
  <2>1. socket'[p] = socket[p] /\ socket[p] \in SocketFile
    BY <1>1, <1>2 DEF Typed
  <2>2. socket[p].live # None => socket[p].live \in Daemon /\ daemon[socket[p].live].pc = "up"
    BY <1>1, <1>2, <2>1 DEF SocketFile, Files
  <2>3. socket[p].live # None => daemon'[socket[p].live] = daemon[socket[p].live]
    BY <1>1, <2>2
  <2> QED BY <1>2, <2>1, <2>3 DEF Files, PathOf
<1>3. ASSUME NEW e \in Daemon, daemon'[e].pc # "off"
      PROVE  /\ \A j \in 1..(daemon'[e].at - 1) :
                  LET f == socket'[Candidates[UserOf[e]][j]]
                  IN  f # None /\ f.owner = UserOf[e] => f.live # None
             /\ daemon'[e].pc = "bind" /\ socket'[PathOf(e)'] # None
                  => socket'[PathOf(e)'].owner # UserOf[e]
  <2>1. CASE e = d
    BY <1>1, <2>1
  <2>2. CASE e # d
    <3>1. daemon'[e] = daemon[e] /\ PathOf(e)' = PathOf(e)
      BY <1>1, <2>2 DEF PathOf
    <3> QED BY <1>1, <1>3, <3>1 DEF Files, Running
  <2> QED BY <2>1, <2>2
<1> QED BY <1>2, <1>3 DEF Files, Running, PathOf

\* A daemon ends and leaves its file behind, which no other daemon takes for
\* its user's.
LEMMA FilesEnds ==
    ASSUME OneDaemonEach, Typed, Files, NEW d \in Daemon, Ends(d)
    PROVE  Files'
<1>1. /\ daemon' = [daemon EXCEPT ![d] = Off]
      /\ socket' = [p \in Path |-> IF socket[p] # None /\ socket[p].live = d
                                   THEN [socket[p] EXCEPT !.live = None] ELSE socket[p]]
  BY DEF Ends
<1>2. /\ daemon'[d].pc = "off" /\ None \notin Daemon
      /\ \A e \in Daemon \ {d} : daemon'[e] = daemon[e] /\ UserOf[e] # UserOf[d]
  BY <1>1, ConstantTypes DEF Off, OneDaemonEach, Typed
<1>3. ASSUME NEW p \in Path, socket'[p] # None
      PROVE  /\ socket[p] # None /\ socket[p] \in SocketFile
             /\ socket'[p].owner = socket[p].owner
             /\ \/ socket'[p] = socket[p] /\ socket[p].live # d
                \/ socket'[p].live = None /\ socket[p].owner = UserOf[d]
  <2>1. socket'[p] = IF socket[p] # None /\ socket[p].live = d
                     THEN [socket[p] EXCEPT !.live = None] ELSE socket[p]
    BY <1>1
  <2>2. CASE socket[p] # None /\ socket[p].live = d
    <3>1. socket[p] \in SocketFile /\ socket'[p] = [socket[p] EXCEPT !.live = None]
      BY <2>1, <2>2 DEF Typed
    <3>2. socket'[p].owner = socket[p].owner /\ socket'[p].live = None
      BY <3>1 DEF SocketFile
    <3>3. socket[p].owner = UserOf[d]
      BY <1>2, <2>2 DEF Files
    <3> QED BY <2>2, <3>1, <3>2, <3>3
  <2>3. CASE ~(socket[p] # None /\ socket[p].live = d)
    BY <1>3, <2>1, <2>3 DEF Typed
  <2> QED BY <2>2, <2>3
<1>4. ASSUME NEW p \in Path, socket'[p] # None
      PROVE  /\ p \in Writable[socket'[p].owner]
             /\ socket'[p].live # None =>
                   /\ daemon'[socket'[p].live].pc = "up"
                   /\ p = Candidates[UserOf[socket'[p].live]][daemon'[socket'[p].live].at]
                   /\ socket'[p].owner = UserOf[socket'[p].live]
  <2>1. p \in Writable[socket'[p].owner]
    BY <1>3, <1>4 DEF Files
  <2>2. ASSUME socket'[p].live # None
        PROVE  /\ daemon'[socket'[p].live].pc = "up"
               /\ p = Candidates[UserOf[socket'[p].live]][daemon'[socket'[p].live].at]
               /\ socket'[p].owner = UserOf[socket'[p].live]
    <3>1. socket'[p] = socket[p] /\ socket[p].live \in Daemon \ {d}
      BY <1>3, <1>4, <2>2 DEF SocketFile
    <3>2. daemon'[socket[p].live] = daemon[socket[p].live]
      BY <1>2, <3>1
    <3> QED BY <1>4, <2>2, <3>1, <3>2 DEF Files, PathOf
  <2> QED BY <2>1, <2>2
<1>5. ASSUME NEW e \in Daemon, daemon'[e].pc # "off"
      PROVE  /\ \A j \in 1..(daemon'[e].at - 1) :
                  LET f == socket'[Candidates[UserOf[e]][j]]
                  IN  f # None /\ f.owner = UserOf[e] => f.live # None
             /\ daemon'[e].pc = "bind" /\ socket'[PathOf(e)'] # None
                  => socket'[PathOf(e)'].owner # UserOf[e]
  <2>1. /\ e # d /\ daemon'[e] = daemon[e] /\ PathOf(e)' = PathOf(e) /\ PathOf(e) \in Path
        /\ UserOf[e] # UserOf[d] /\ daemon[e] \in DaemonState /\ Running(e)
    BY <1>2, <1>5, PathType DEF PathOf, Running, Typed
  <2>2. ASSUME NEW j \in 1..(daemon'[e].at - 1)
        PROVE  LET f == socket'[Candidates[UserOf[e]][j]]
               IN  f # None /\ f.owner = UserOf[e] => f.live # None
    <3>1. Candidates[UserOf[e]][j] \in Path
      <4>1. /\ Candidates[UserOf[e]] \in Seq(Path) /\ Len(Candidates[UserOf[e]]) \in Nat
            /\ daemon[e].at \in Nat /\ daemon[e].at <= Len(Candidates[UserOf[e]])
        BY <2>1, ConstantTypes DEF Typed, DaemonState
      <4>2. j \in 1..Len(Candidates[UserOf[e]])
        BY <2>1, <2>2, <4>1
      <4> QED BY <4>1, <4>2
    <3> QED BY <1>3, <2>1, <2>2, <3>1 DEF Files
  <2>3. daemon'[e].pc = "bind" /\ socket'[PathOf(e)'] # None
          => socket'[PathOf(e)'].owner # UserOf[e]
    BY <1>3, <2>1 DEF Files
  <2> QED BY <2>2, <2>3
<1> QED BY <1>4, <1>5 DEF Files, Running, PathOf

\* What the server does for a client leaves the client calm.
LEMMA ServerCalm ==
    ASSUME SessionInv, NEW d \in Daemon, NEW k \in Client, NEW j \in Client, Calm(j),
           \/ Authenticate(d, k) \/ Readmit(d, k) \/ Deny(d, k) \/ Execute(d, k) \/ Respond(d, k)
    PROVE  Calm(j)'
<1>1. /\ UNCHANGED <<socket, client, calm>>
      /\ \A i \in Client \ {k} : link'[i] = link[i]
  BY ServerTyped DEF SessionInv
<1>2. CASE j # k
  BY <1>1, <1>2 DEF Calm
<1>3. CASE j = k
  <2>1. link[k].peer = d /\ d # None /\ link[k] \in LinkState
        /\ link[k].state \in {"auth", "command", "admitted", "executed"}
    BY ConstantTypes DEF SessionInv, Typed, Authenticate, Readmit, Deny, Execute, Respond, HasCommand
  <2>2. \/ link'[k] = NoLink
        \/ link'[k].peer = d /\ link'[k].state \in {"reply", "admitted", "executed"}
    <3>1. \/ \E said \in {"welcome", "refused", "denied", "done"} : Reply(k, said)
          \/ link' = [link EXCEPT ![k].state = "admitted"]
          \/ link' = [link EXCEPT ![k].state = "executed"]
      BY DEF Authenticate, Readmit, Deny, Execute, Respond
    <3>2. ASSUME NEW said, Reply(k, said)
          PROVE  \/ link'[k] = NoLink
                 \/ link'[k].peer = d /\ link'[k].state \in {"reply", "admitted", "executed"}
      BY <2>1, <3>2 DEF Reply, LinkState, SessionInv, Typed
    <3>3. ASSUME NEW state \in {"admitted", "executed"}, link' = [link EXCEPT ![k].state = state]
          PROVE  link'[k].peer = d /\ link'[k].state \in {"reply", "admitted", "executed"}
      BY <2>1, <3>3 DEF LinkState, SessionInv, Typed
    <3> QED BY <3>1, <3>2, <3>3
  <2> QED BY <1>1, <1>3, <2>1, <2>2 DEF Calm, NoLink
<1> QED BY <1>2, <1>3

\* A client of a user whose daemon serves a path finds the socket of that
\* daemon: the files before it are the user's, and the daemon has passed none
\* that is dead.
LEMMA ServedFirst ==
    ASSUME OneDaemonEach, Typed, Files, NEW u \in User, Served(u)
    PROVE  LET f == socket[FirstPresent(u)]
           IN  f # None /\ f.owner = u /\ u \in MayConnect[u] /\ f.live # None
<1> DEFINE s == ClientPaths(u)
<1>1. PICK i \in DOMAIN Candidates[u] :
        /\ LET f == socket[Candidates[u][i]]
           IN  f # None /\ f.owner = u /\ u \in MayConnect[u] /\ f.live # None
        /\ \A j \in 1..(i - 1) : LET f == socket[Candidates[u][j]] IN f = None \/ f.owner = u
  BY DEF Served
<1>2. /\ s \in Seq(Path) /\ Candidates[u] \in Seq(Path)
      /\ \A j \in DOMAIN Candidates[u] : j \in DOMAIN s /\ s[j] = Candidates[u][j]
      /\ Present(s) # {} => \E m \in Present(s) : /\ FirstPresent(u) = s[m]
                                                  /\ \A n \in Present(s) : m <= n
  BY FirstPath
<1> HIDE DEF s
<1>3. i \in Present(s) /\ i \in 1..Len(Candidates[u])
  BY <1>1, <1>2 DEF Present
<1>4. PICK m \in Present(s) : FirstPresent(u) = s[m] /\ \A n \in Present(s) : m <= n
  BY <1>2, <1>3
<1>5. /\ m \in Nat \ {0} /\ m <= i /\ m \in DOMAIN Candidates[u]
      /\ s[m] = Candidates[u][m] /\ socket[s[m]] # None /\ s[m] \in Path
  BY <1>2, <1>3, <1>4 DEF Present
<1>6. socket[s[m]].owner = u /\ u \in MayConnect[u]
  <2>1. CASE m = i
    BY <1>1, <1>5, <2>1
  <2>2. CASE m # i
    <3>1. m \in 1..(i - 1)
      BY <1>3, <1>5, <2>2
    <3> QED BY <1>1, <1>5, <3>1
  <2> QED BY <2>1, <2>2
<1> DEFINE p == Candidates[u][i]
           e == socket[p].live
<1>7. /\ p \in Path /\ e \in Daemon /\ UserOf[e] = u /\ daemon[e].pc = "up" /\ p = PathOf(e)
  <2>1. p \in Path
    BY <1>2, <1>3
  <2>2. socket[p] \in SocketFile
    BY <1>1, <2>1 DEF Typed
  <2> QED BY <1>1, <2>1, <2>2 DEF Files, SocketFile
<1>8. /\ daemon[e].at \in 1..Len(Candidates[u]) /\ p = Candidates[u][daemon[e].at]
      /\ daemon[e].at \in Nat
  <2>1. daemon[e].at \in Nat \ {0} /\ daemon[e].at <= Len(Candidates[u]) /\ Len(Candidates[u]) \in Nat
    BY <1>7, ConstantTypes DEF Typed, DaemonState
  <2> QED BY <1>7, <2>1 DEF PathOf
<1>9. daemon[e].at \in Present(s)
  <2>1. daemon[e].at \in DOMAIN Candidates[u] /\ socket[p] # None
    BY <1>1, <1>2, <1>8
  <2>2. daemon[e].at \in DOMAIN s /\ s[daemon[e].at] = p
    BY <1>2, <1>8, <2>1
  <2> QED BY <2>1, <2>2 DEF Present
<1>10. CASE m = daemon[e].at
  BY <1>1, <1>4, <1>5, <1>6, <1>8, <1>10
<1>11. CASE m # daemon[e].at
  <2>1. m \in 1..(daemon[e].at - 1)
    BY <1>4, <1>5, <1>8, <1>9, <1>11
  <2>2. socket[Candidates[u][m]].live # None
    BY <1>5, <1>6, <1>7, <2>1 DEF Files, Running
  <2> QED BY <1>4, <1>5, <1>6, <2>2
<1> QED BY <1>10, <1>11

\* What the client itself does.
LEMMA ClientCalm ==
    ASSUME OneDaemonEach, SessionInv, CalmInv, NEW k \in Client,
           Invoke(k) \/ Proceed(k) \/ Interrupt(k)
    PROVE  CalmInv'
<1>1. /\ Session(k) /\ client[k] \in ClientState /\ link[k] \in LinkState
      /\ Calm(k) /\ UserOf[k] \in User
  BY ConstantTypes DEF SessionInv, Typed, CalmInv
<1>2. /\ UNCHANGED <<socket, daemon>>
      /\ \A j \in Client \ {k} : client'[j] = client[j] /\ link'[j] = link[j] /\ (j \in calm' => j \in calm)
      /\ ~Invoke(k) => calm' = calm
  BY DEF Invoke, Proceed, Connect, ReadAuth, ReadAnswer, ReadFails, Interrupt, Finish, SessionInv, Typed
<1>3. Files'
  BY <1>2, FilesKept DEF SessionInv, CalmInv
<1>4. ASSUME NEW j \in Client \ {k} PROVE Calm(j)'
  BY <1>2 DEF CalmInv, Calm
<1>5. SUFFICES ASSUME k \in calm' PROVE Calm(k)'
  BY <1>3, <1>4 DEF CalmInv, Calm
<1>6. ASSUME NEW outcome, outcome # "failed", Finish(k, outcome), link'[k] = NoLink
      PROVE  Calm(k)'
  <2>1. /\ client'[k].pc = "ended" /\ client'[k].outcome = outcome
        /\ client'[k].call.via = "socket"
    BY <1>6 DEF Finish, Idle, SessionInv, Typed
  <2> QED BY <1>6, <2>1 DEF Calm, NoLink
<1>7. CASE Invoke(k)
  <2>1. client[k].pc = "idle" /\ k \notin calm /\ link' = link /\ link[k].state = "none" /\ link[k].peer = None
    BY <1>1, <1>7 DEF Invoke, Calm, Session, InStep
  <2>2. PICK call \in Invocation[k] :
          /\ client' = [client EXCEPT ![k] =
                [pc |-> "connect", call |-> call, outcome |-> "none",
                 at |-> IF call.via = "socket" THEN FirstPresent(UserOf[k]) ELSE None]]
          /\ calm' = IF call.via = "socket" /\ Served(UserOf[k]) THEN calm \cup {k} ELSE calm
    BY <1>7 DEF Invoke
  <2>3. call.via = "socket" /\ Served(UserOf[k])
    BY <1>5, <2>1, <2>2
  <2>4. /\ client'[k].pc = "connect" /\ client'[k].call = call /\ client'[k].outcome = "none"
        /\ client'[k].at = FirstPresent(UserOf[k])
    BY <2>2, <2>3 DEF SessionInv, Typed
  <2>5. LET f == socket[FirstPresent(UserOf[k])]
        IN  f # None /\ f.owner = UserOf[k] /\ UserOf[k] \in MayConnect[UserOf[k]] /\ f.live # None
    BY <1>1, <2>3, ServedFirst DEF SessionInv, CalmInv
  <2> QED BY <1>2, <2>1, <2>3, <2>4, <2>5 DEF Calm
<1>8. CASE Connect(k)
  <2>1. k \in calm
    BY <1>2, <1>5, <1>8 DEF Connect, Invoke
  <2>2. /\ client[k].pc = "connect" /\ client[k].call.via = "socket" /\ client[k].at \in Path
        /\ client[k].outcome # "failed"
        /\ socket[client[k].at] # None /\ socket[client[k].at].owner = UserOf[k]
        /\ UserOf[k] \in MayConnect[UserOf[k]] /\ socket[client[k].at].live # None
    BY <1>1, <1>8, <2>1 DEF Connect, Calm, Session, InStep
  <2>3. Listener(k) = socket[client[k].at].live /\ Listener(k) # None
    BY <2>2 DEF Listener
  <2>4. Listener(k) \in Daemon /\ UserOf[Listener(k)] = UserOf[k]
    BY <2>2, <2>3 DEF SessionInv, Typed, SocketFile, CalmInv, Files
  <2>5. /\ client' = [client EXCEPT ![k].pc = "auth"]
        /\ link' = [link EXCEPT ![k] = [NoLink EXCEPT !.peer = Listener(k), !.state = "auth"]]
    BY <1>8, <2>2, <2>3 DEF Connect, SessionInv, Typed
  <2>6. /\ client'[k].pc = "auth" /\ client'[k].call = client[k].call /\ client'[k].outcome = client[k].outcome
        /\ link'[k].peer = Listener(k) /\ link'[k].state = "auth"
    BY <1>1, <2>5 DEF SessionInv, Typed, ClientState, NoLink
  <2> QED BY <2>2, <2>3, <2>4, <2>6 DEF Calm
<1>9. CASE ReadAuth(k)
  <2>1. /\ k \in calm /\ client[k].call.via = "socket" /\ client[k].outcome # "failed"
        /\ link[k].peer # None /\ UserOf[link[k].peer] = UserOf[k]
    BY <1>1, <1>2, <1>5, <1>9 DEF ReadAuth, Invoke, Calm
  <2>2. CASE link[k].said = "refused"
    <3>1. Finish(k, "refused") /\ link'[k] = NoLink
      BY <1>9, <2>2 DEF ReadAuth, SessionInv, Typed
    <3> QED BY <1>6, <3>1
  <2>3. CASE link[k].said # "refused"
    <3>1. /\ client' = [client EXCEPT ![k].pc = "command"]
          /\ link' = [link EXCEPT ![k].state = "command", ![k].said = "nothing"]
      BY <1>9, <2>1, <2>3 DEF ReadAuth
    <3>2. /\ client'[k].pc = "command" /\ client'[k].call = client[k].call
          /\ client'[k].outcome = client[k].outcome
          /\ link'[k].peer = link[k].peer /\ link'[k].state = "command"
      BY <1>1, <3>1 DEF ClientState, LinkState, SessionInv, Typed
    <3> QED BY <2>1, <3>2 DEF Calm
  <2> QED BY <2>2, <2>3
<1>10. CASE ReadAnswer(k)
  <2>1. link[k].said # "failed" /\ Finish(k, link[k].said) /\ link'[k] = NoLink
    BY <1>1, <1>10 DEF ReadAnswer, LinkState, SessionInv, Typed
  <2> QED BY <1>6, <2>1
<1>11. CASE ReadFails(k)
  <2>1. k \in calm /\ link[k].state = "closed"
    BY <1>2, <1>5, <1>11 DEF ReadFails, Invoke
  <2> QED BY <1>1, <2>1 DEF Calm
<1>12. CASE Interrupt(k)
  <2>1. k \in calm /\ client[k].call.via = "socket"
    BY <1>1, <1>2, <1>5, <1>12 DEF Interrupt, Invoke, Calm
  <2>2. /\ client'[k].pc = "ended" /\ client'[k].call = client[k].call
        /\ client'[k].outcome = "killed"
    BY <1>1, <1>12 DEF Interrupt, ClientState, SessionInv, Typed
  <2>3. link'[k] = NoLink \/ link'[k] = link[k]
    BY <1>12 DEF Interrupt, SessionInv, Typed
  <2> QED BY <1>1, <2>1, <2>2, <2>3 DEF Calm, NoLink
<1> QED BY <1>7, <1>8, <1>9, <1>10, <1>11, <1>12 DEF Proceed

\* Each step keeps the socket files where they belong and calm clients calm.
LEMMA CalmStep ==
    ASSUME OneDaemonEach, SessionInv, CalmInv, [Next]_vars
    PROVE  CalmInv'
<1>1. ASSUME NEW d \in Daemon, Start(d) \/ Serve(d) \/ HttpAcceptFails(d) \/ Killed(d)
      PROVE  CalmInv'
  <2>1. ASSUME Files', calm' = {} PROVE CalmInv'
    BY <2>1 DEF CalmInv, Calm
  <2>2. CASE Start(d)
    <3>1. Files'
      BY <2>2, FilesStart DEF SessionInv, CalmInv
    <3> QED BY <2>1, <2>2, <3>1 DEF Start
  <2>3. CASE Remove(d) \/ Bind(d)
    <3>1. Files'
      BY <2>3, FilesOnTheWay DEF SessionInv, CalmInv
    <3> QED BY <2>1, <2>3, <3>1 DEF Remove, Bind
  <2>4. CASE Ends(d)
    <3>1. Files'
      BY <2>4, FilesEnds DEF SessionInv, CalmInv
    <3> QED BY <2>1, <2>4, <3>1 DEF Ends
  <2>5. CASE Exists(d) \/ BindFails(d)
    <3>1. Files'
      BY <2>5, FilesOnTheWay DEF SessionInv, CalmInv
    <3>2. UNCHANGED <<socket, client, link, calm>>
      BY <2>5 DEF Exists, BindFails
    <3> QED BY <3>1, <3>2 DEF CalmInv, Calm
  <2>6. CASE BindHttp(d) \/ HttpAcceptFails(d)
    <3>1. /\ UNCHANGED <<socket, client, link, calm>>
          /\ \A e \in Daemon : daemon'[e].pc = daemon[e].pc /\ daemon'[e].at = daemon[e].at
      <4>1. PICK http : daemon' = [daemon EXCEPT ![d] = [daemon[d] EXCEPT !.http = http]]
        BY <2>6 DEF BindHttp, HttpAcceptFails, SessionInv, Typed
      <4>2. daemon[d] \in DaemonState /\ daemon \in [Daemon -> DaemonState]
        BY DEF SessionInv, Typed
      <4>3. \A e \in Daemon : daemon'[e].pc = daemon[e].pc /\ daemon'[e].at = daemon[e].at
        BY <4>1, <4>2 DEF DaemonState
      <4> QED BY <2>6, <4>3 DEF BindHttp, HttpAcceptFails
    <3>2. Files'
      BY <3>1, FilesKept DEF SessionInv, CalmInv
    <3> QED BY <3>1, <3>2 DEF CalmInv, Calm
  <2>7. CASE \E k \in Client : \/ Authenticate(d, k) \/ Readmit(d, k)
                               \/ Deny(d, k) \/ Execute(d, k) \/ Respond(d, k)
    <3>1. PICK k \in Client : \/ Authenticate(d, k) \/ Readmit(d, k)
                              \/ Deny(d, k) \/ Execute(d, k) \/ Respond(d, k)
      BY <2>7
    <3>2. \A j \in Client : Calm(j)'
      BY <3>1, ServerCalm DEF CalmInv
    <3>3. Files'
      BY <3>1, ServerTyped, FilesKept DEF SessionInv, CalmInv
    <3> QED BY <3>2, <3>3 DEF CalmInv
  <2> QED BY <1>1, <2>2, <2>3, <2>4, <2>5, <2>6, <2>7 DEF Serve, Exit, Killed
<1>2. ASSUME NEW k \in Client, Invoke(k) \/ Proceed(k) \/ Interrupt(k)
      PROVE  CalmInv'
  BY <1>2, ClientCalm
<1>3. CASE UNCHANGED vars
  <2>1. /\ socket' = socket /\ daemon' = daemon /\ client' = client /\ link' = link /\ calm' = calm
    BY <1>3 DEF vars
  <2>2. Files'
    BY <2>1, FilesKept DEF SessionInv, CalmInv
  <2> QED BY <2>1, <2>2 DEF CalmInv, Calm
<1> QED BY <1>1, <1>2, <1>3 DEF Next

\* No files and no clients at first.
LEMMA CalmInit == Init => CalmInv
<1> SUFFICES ASSUME Init PROVE CalmInv
  OBVIOUS
<1>1. Files
  BY DEF Init, Files, Running, Off
<1> QED BY <1>1 DEF Init, CalmInv, Calm

-----------------------------------------------------------------------------
(* Theorems. *)

\* Sessions are in step with their clients, in every state that can be reached
\* (server.rs, http.rs, app.rs).
THEOREM SessionCorrect == Spec => []SessionInv
<1>1. Init => SessionInv
  BY SessionInit
<1>2. SessionInv /\ [Next]_vars => SessionInv'
  BY SessionStep
<1> QED BY <1>1, <1>2, PTL DEF Spec

\* The state has its type.
THEOREM TypeCorrect == Spec => []TypeOK
<1>1. SessionInv => TypeOK
  BY DEF SessionInv, Typed, TypeOK, SocketFile, DaemonState, ClientState, LinkState
<1> QED BY <1>1, SessionCorrect, PTL

\* "Non-loopback listeners require a valid ticket" (README.md:140): nothing
\* that came over one without a ticket of the network is executed.
THEOREM RemoteTicketedAlways == Spec => []RemoteTicketed
<1>1. SessionInv => RemoteTicketed
  BY DEF SessionInv, Session, Ticketed, RemoteTicketed
<1> QED BY <1>1, SessionCorrect, PTL

\* A client is told "Permission denied" (server.rs:293, http.rs:98) only if its
\* key was removed after it had authenticated, whichever daemons were started,
\* killed and started again.
THEOREM DeniedOnlyRemovedAlways == Spec => []DeniedOnlyRemoved
<1>1. SessionInv => DeniedOnlyRemoved
  BY DEF SessionInv, Session, DeniedInv, DeniedOnlyRemoved
<1> QED BY <1>1, SessionCorrect, PTL

\* The client whose Shutdown is carried out has its answer before the process
\* ends (server.rs:300-309, http.rs:105-111), or went away itself.
THEOREM StopAnsweredAlways == Spec => []StopAnswered
<1>1. SessionInv => StopAnswered
  BY DEF SessionInv, Session, InStep, StopInv, StopAnswered, Typed
<1> QED BY <1>1, SessionCorrect, PTL

\* "Local management over Unix socket" (README.md:39): a client whose user's
\* daemon serves a path of the user's reaches that daemon, if nobody else's
\* file comes first and no daemon begins or ends meanwhile.  It holds as long
\* as a user runs one daemon on the host: a second one may step over the first
\* one's path, and the file the first one leaves there when it is killed hides
\* the second one.
THEOREM DaemonFoundAlways ==
    ASSUME OneDaemonEach
    PROVE  Spec => []DaemonFound
<1>1. Init => SessionInv /\ CalmInv
  BY SessionInit, CalmInit
<1>2. SessionInv /\ CalmInv /\ [Next]_vars => (SessionInv /\ CalmInv)'
  BY SessionStep, CalmStep
<1>3. SessionInv /\ CalmInv => DaemonFound
  BY DEF SessionInv, Typed, CalmInv, Calm, DaemonFound
<1> QED BY <1>1, <1>2, <1>3, PTL DEF Spec

-----------------------------------------------------------------------------
(* AdminSession implements Commands. *)

\* What a step may do to a client and its connection.  Nothing, or the process
\* at the other end is gone.
Quiet(k) ==
    /\ client'[k] = client[k]
    /\ \/ link'[k].state = link[k].state /\ link'[k].said = link[k].said
       \/ link'[k].state = "closed"

\* The client begins, connects, goes on after its authentication, or ends.
ClientMoves(k) ==
    \/ /\ client[k].pc = "idle" /\ client'[k].pc = "connect" /\ client'[k].outcome = "none"
       /\ link'[k] = link[k]
    \/ /\ client[k].pc \in {"connect", "again"} /\ client'[k].pc \in {"auth", "command"}
       /\ client'[k].outcome = client[k].outcome /\ link'[k].state \in {"auth", "command"}
    \/ /\ client[k].pc = "auth" /\ link[k].state = "reply" /\ client'[k].pc \in {"again", "command"}
       /\ client'[k].outcome = client[k].outcome /\ link'[k].state \in {"none", "closed", "command"}
    \/ /\ client[k].pc \notin {"idle", "ended"} /\ client'[k].pc = "ended"
       /\ link'[k].state = "none"
       /\ \/ client'[k].outcome \in {"failed", "killed"}
          \/ client'[k].outcome = "refused" /\ client[k].pc = "auth"
          \/ client'[k].outcome = link[k].said /\ client[k].pc = "command" /\ link[k].state = "reply"
    \/ /\ client[k].pc \notin {"idle", "ended"} /\ client'[k].pc = "ended"
       /\ client'[k].outcome = "killed" /\ link'[k] = link[k]

\* The server's task answers, admits, executes, or says that it has done so.
ServerMoves(k) ==
    /\ client'[k] = client[k]
    /\ \/ /\ link[k].state \in {"auth", "command", "admitted"}
          /\ \/ link'[k].state = "none"
             \/ link'[k].state = "reply" /\ link'[k].said \in {"welcome", "refused", "denied"}
             \/ link'[k].state = "admitted"
       \/ link[k].state \in {"command", "admitted"} /\ link'[k].state = "executed"
       \/ /\ link[k].state = "executed"
          /\ link'[k].state = "none" \/ (link'[k].state = "reply" /\ link'[k].said = "done")

LEMMA ClientMove ==
    ASSUME SessionInv, NEW k \in Client, Invoke(k) \/ Proceed(k) \/ Interrupt(k)
    PROVE  ClientMoves(k) /\ \A j \in Client \ {k} : Quiet(j)
<1>1. Session(k) /\ client[k] \in ClientState /\ link[k] \in LinkState
  BY DEF SessionInv, Typed
<1>2. \A j \in Client \ {k} : client'[j] = client[j] /\ link'[j] = link[j]
  BY DEF Invoke, Proceed, Connect, ReadAuth, ReadAnswer, ReadFails, Interrupt, Finish, SessionInv, Typed
<1>3. ASSUME NEW outcome, Finish(k, outcome)
      PROVE  client'[k].pc = "ended" /\ client'[k].outcome = outcome
  BY <1>3 DEF Finish, Idle, SessionInv, Typed
<1>4. link' = [link EXCEPT ![k] = NoLink] => link'[k].state = "none"
  BY DEF NoLink, SessionInv, Typed
<1>5. ClientMoves(k)
  <2>1. CASE Invoke(k)
    <3>1. /\ client[k].pc = "idle" /\ client'[k].pc = "connect" /\ client'[k].outcome = "none"
          /\ link' = link
      BY <2>1 DEF Invoke, SessionInv, Typed
    <3> QED
      BY <3>1 DEF ClientMoves
  <2>2. CASE Connect(k)
    <3>1. CASE Listener(k) = None
      <4>1. Finish(k, "failed") /\ link'[k] = link[k] /\ client[k].pc \in {"connect", "again"}
        BY <2>2, <3>1 DEF Connect
      <4>2. link[k].state = "none"
        BY <1>1, <4>1 DEF Session, InStep
      <4> QED
        BY <1>3, <4>1, <4>2 DEF ClientMoves
    <3>2. CASE Listener(k) # None
      <4>1. /\ client[k].pc \in {"connect", "again"}
            /\ client'[k].pc \in {"auth", "command"} /\ client'[k].outcome = client[k].outcome
        BY <2>2, <3>2 DEF Connect, SessionInv, Typed, ClientState
      <4>2. link'[k].state \in {"auth", "command"}
        <5> DEFINE st == IF client[k].pc = "connect" THEN "auth" ELSE "command"
                   new == [NoLink EXCEPT !.peer = Listener(k), !.state = st]
        <5>1. link' = [link EXCEPT ![k] = new]
          BY <2>2, <3>2 DEF Connect
        <5>2. new.state = st
          BY DEF NoLink
        <5>3. k \in DOMAIN link
          BY DEF SessionInv, Typed
        <5> HIDE DEF new
        <5>4. link'[k] = new
          BY <5>1, <5>3
        <5> QED
          BY <5>2, <5>4
      <4> QED
        BY <4>1, <4>2 DEF ClientMoves
    <3> QED
      BY <3>1, <3>2
  <2>3. CASE ReadAuth(k)
    <3>1. client[k].pc = "auth" /\ link[k].state = "reply"
      BY <2>3 DEF ReadAuth
    <3>2. CASE link[k].said = "refused"
      <4>1. Finish(k, "refused") /\ link' = [link EXCEPT ![k] = NoLink]
        BY <2>3, <3>2 DEF ReadAuth
      <4> QED
        BY <1>3, <1>4, <3>1, <4>1 DEF ClientMoves
    <3>3. CASE link[k].said # "refused" /\ client[k].call.via = "http"
      <4>1. client'[k].pc = "again" /\ client'[k].outcome = client[k].outcome
        BY <2>3, <3>3 DEF ReadAuth, SessionInv, Typed, ClientState
      <4>2. link' = [link EXCEPT ![k] = NoLink]
        BY <2>3, <3>3 DEF ReadAuth
      <4> QED
        BY <1>4, <3>1, <4>1, <4>2 DEF ClientMoves
    <3>4. CASE link[k].said # "refused" /\ client[k].call.via # "http"
      <4>1. client'[k].pc = "command" /\ client'[k].outcome = client[k].outcome
        BY <2>3, <3>4 DEF ReadAuth, SessionInv, Typed, ClientState
      <4>2. link'[k].state \in {"closed", "command"}
        BY <2>3, <3>4 DEF ReadAuth, SessionInv, Typed, LinkState
      <4> QED
        BY <3>1, <4>1, <4>2 DEF ClientMoves
    <3> QED
      BY <3>2, <3>3, <3>4
  <2>4. CASE ReadAnswer(k)
    <3>1. /\ client[k].pc = "command" /\ link[k].state = "reply"
          /\ Finish(k, link[k].said) /\ link' = [link EXCEPT ![k] = NoLink]
      BY <2>4 DEF ReadAnswer
    <3> QED
      BY <1>3, <1>4, <3>1 DEF ClientMoves
  <2>5. CASE ReadFails(k)
    <3>1. /\ client[k].pc \in {"auth", "command"}
          /\ Finish(k, "failed") /\ link' = [link EXCEPT ![k] = NoLink]
      BY <2>5 DEF ReadFails
    <3> QED
      BY <1>3, <1>4, <3>1 DEF ClientMoves
  <2>6. CASE Interrupt(k)
    <3>1. client[k].pc \notin {"idle", "ended"} /\ client'[k].pc = "ended" /\ client'[k].outcome = "killed"
      BY <2>6 DEF Interrupt, SessionInv, Typed, ClientState
    <3>2. link' = [link EXCEPT ![k] = NoLink] \/ link' = link
      BY <2>6 DEF Interrupt
    <3> QED
      BY <1>4, <3>1, <3>2 DEF ClientMoves
  <2> QED
    BY <2>1, <2>2, <2>3, <2>4, <2>5, <2>6 DEF Proceed
<1> QED
  BY <1>2, <1>5 DEF Quiet

LEMMA ServerMove ==
    ASSUME SessionInv, NEW d \in Daemon, NEW k \in Client,
           Authenticate(d, k) \/ Readmit(d, k) \/ Deny(d, k) \/ Execute(d, k) \/ Respond(d, k)
    PROVE  ServerMoves(k) /\ \A j \in Client \ {k} : Quiet(j)
<1>1. client' = client
  BY DEF Authenticate, Readmit, Deny, Execute, Respond
<1>2. \A j \in Client \ {k} : link'[j] = link[j]
  BY DEF Authenticate, Readmit, Deny, Execute, Respond, Reply, SessionInv, Typed
<1>3. ASSUME NEW said, Reply(k, said)
      PROVE  link'[k].state = "none" \/ (link'[k].state = "reply" /\ link'[k].said = said)
  BY <1>3 DEF Reply, NoLink, SessionInv, Typed, LinkState
<1>4. ServerMoves(k)
  <2>1. CASE Authenticate(d, k)
    <3>1. link[k].state = "auth" /\ (Reply(k, "welcome") \/ Reply(k, "refused"))
      BY <2>1 DEF Authenticate
    <3> QED
      BY <1>1, <1>3, <3>1 DEF ServerMoves
  <2>2. CASE Readmit(d, k)
    <3>1. link[k].state = "command" /\ (link'[k].state = "admitted" \/ Reply(k, "refused"))
      BY <2>2 DEF Readmit, SessionInv, Typed, LinkState
    <3> QED
      BY <1>1, <1>3, <3>1 DEF ServerMoves
  <2>3. CASE Deny(d, k)
    <3>1. link[k].state \in {"command", "admitted"} /\ Reply(k, "denied")
      BY <2>3 DEF Deny, HasCommand
    <3> QED
      BY <1>1, <1>3, <3>1 DEF ServerMoves
  <2>4. CASE Execute(d, k)
    <3>1. link[k].state \in {"command", "admitted"} /\ link'[k].state = "executed"
      BY <2>4 DEF Execute, HasCommand, SessionInv, Typed, LinkState
    <3> QED
      BY <1>1, <3>1 DEF ServerMoves
  <2>5. CASE Respond(d, k)
    <3>1. link[k].state = "executed" /\ Reply(k, "done")
      BY <2>5 DEF Respond
    <3> QED
      BY <1>1, <1>3, <3>1 DEF ServerMoves
  <2> QED
    BY <2>1, <2>2, <2>3, <2>4, <2>5
<1> QED
  BY <1>1, <1>2, <1>4 DEF Quiet

LEMMA DaemonMove ==
    ASSUME SessionInv, NEW d \in Daemon,
           \/ Start(d) \/ Exists(d) \/ Remove(d) \/ Bind(d) \/ BindFails(d) \/ BindHttp(d)
           \/ HttpAcceptFails(d) \/ Ends(d)
    PROVE  \A k \in Client : Quiet(k)
<1>1. client' = client
  BY DEF Start, Exists, Remove, Bind, BindFails, BindHttp, HttpAcceptFails, Ends
<1>2. CASE Ends(d)
  <2> SUFFICES ASSUME NEW k \in Client PROVE Quiet(k)
    OBVIOUS
  <2>1. link'[k] = IF link[k].peer # d THEN link[k]
                   ELSE [link[k] EXCEPT !.peer = None,
                                        !.state = IF @ = "reply" THEN @ ELSE "closed"]
    BY <1>2 DEF Ends
  <2>2. link[k] \in LinkState
    BY DEF SessionInv, Typed
  <2>3. CASE link[k].peer # d
    BY <1>1, <2>1, <2>3 DEF Quiet
  <2>4. CASE link[k].peer = d
    <3>1. /\ link'[k].said = link[k].said
          /\ link'[k].state = IF link[k].state = "reply" THEN "reply" ELSE "closed"
      BY <2>1, <2>2, <2>4 DEF LinkState
    <3> QED
      BY <1>1, <3>1 DEF Quiet
  <2> QED
    BY <2>3, <2>4
<1>3. CASE ~Ends(d)
  <2>1. link' = link
    BY <1>3 DEF Start, Exists, Remove, Bind, BindFails, BindHttp, HttpAcceptFails
  <2> QED
    BY <1>1, <2>1 DEF Quiet
<1> QED
  BY <1>2, <1>3

\* A step moves one client at most, or one server's task for one.
LEMMA AnyMove ==
    ASSUME SessionInv, Next
    PROVE  \/ \A j \in Client : Quiet(j)
           \/ \E k \in Client : /\ ClientMoves(k) \/ ServerMoves(k)
                                /\ \A j \in Client \ {k} : Quiet(j)
<1>1. CASE \E d \in Daemon : Start(d) \/ Serve(d) \/ HttpAcceptFails(d) \/ Killed(d)
  BY <1>1, DaemonMove, ServerMove DEF Serve, Killed, Exit
<1>2. CASE \E k \in Client : Invoke(k) \/ Proceed(k) \/ Interrupt(k)
  BY <1>2, ClientMove
<1> QED
  BY <1>1, <1>2 DEF Next

\* How often a command was executed can be read off the connection and off
\* what the user was told.
Executions(k) ==
    /\ ran[k] \in {0, 1}
    /\ client[k].pc \in {"idle", "connect", "auth", "again"} => ran[k] = 0
    /\ link[k].state \in {"auth", "command", "admitted"} => ran[k] = 0
    /\ link[k].state = "executed" => ran[k] = 1
    /\ link[k].state = "reply" => (ran[k] = 1 <=> link[k].said = "done")
    /\ client[k].outcome = "done" => ran[k] = 1
    /\ client[k].outcome \in {"denied", "refused"} => ran[k] = 0

CommandInv ==
    /\ SessionInv
    /\ ran \in [Client -> {0, 1}]
    /\ \A k \in Client : Executions(k)

LEMMA QuietExecutions ==
    ASSUME NEW k \in Client, Executions(k), Quiet(k),
           ran'[k] = IF link[k].state # "executed" /\ link'[k].state = "executed"
                     THEN ran[k] + 1 ELSE ran[k]
    PROVE  Executions(k)' /\ ran'[k] = ran[k]
  BY DEF Quiet, Executions

LEMMA ClientExecutions ==
    ASSUME NEW k \in Client, Executions(k), InStep(k), ClientMoves(k), link[k] \in LinkState,
           ran'[k] = IF link[k].state # "executed" /\ link'[k].state = "executed"
                     THEN ran[k] + 1 ELSE ran[k]
    PROVE  Executions(k)' /\ ran'[k] = ran[k]
  BY DEF ClientMoves, Executions, InStep, LinkState

\* A task executes the command of a client that has not been told anything, or
\* was interrupted.
LEMMA ServerExecutions ==
    ASSUME NEW k \in Client, Executions(k), InStep(k), ServerMoves(k),
           client[k] \in ClientState, link[k] \in LinkState,
           ran'[k] = IF link[k].state # "executed" /\ link'[k].state = "executed"
                     THEN ran[k] + 1 ELSE ran[k]
    PROVE  /\ Executions(k)'
           /\ \/ ran'[k] = ran[k]
              \/ /\ ran[k] = 0 /\ ran'[k] = 1 /\ client[k].pc # "idle"
                 /\ client[k].outcome \in {"none", "killed"}
  BY DEF ServerMoves, Executions, InStep, ClientState

\* What the step does to the client and its command, in the words of Commands.
LEMMA MoveImplements ==
    ASSUME CommandInv, Next, Counted
    PROVE  [C!Next]_C!vars
<1> DEFINE given == {k \in Client : client[k].pc # "idle"}
           told == [k \in Client |-> client[k].outcome]
<1>1. \A k \in Client : /\ Executions(k) /\ InStep(k)
                        /\ client[k] \in ClientState /\ link[k] \in LinkState
  BY DEF CommandInv, SessionInv, Typed, Session
<1>2. /\ ran \in [Client -> {0, 1}] /\ ran' = [k \in Client |-> ran'[k]]
      /\ \A k \in Client : ran'[k] = IF link[k].state # "executed" /\ link'[k].state = "executed"
                                     THEN ran[k] + 1 ELSE ran[k]
  BY DEF CommandInv, Counted
<1>3. ASSUME NEW j \in Client, Quiet(j)
      PROVE  ran'[j] = ran[j] /\ client'[j] = client[j]
  <2>1. ran'[j] = ran[j]
    BY <1>1, <1>2, <1>3, QuietExecutions
  <2> QED
    BY <1>3, <2>1 DEF Quiet
<1>4. CASE \A j \in Client : Quiet(j)
  <2>1. ran' = ran
    BY <1>2, <1>3, <1>4
  <2>2. given' = given /\ told' = told
    BY <1>3, <1>4
  <2> QED
    BY <2>1, <2>2 DEF C!vars
<1>5. ASSUME NEW k \in Client, ClientMoves(k) \/ ServerMoves(k), \A j \in Client \ {k} : Quiet(j)
      PROVE  [C!Next]_C!vars
  <2>1. \A j \in Client \ {k} : ran'[j] = ran[j] /\ client'[j] = client[j]
    BY <1>3, <1>5
  <2>2. ASSUME ran'[k] = ran[k] PROVE ran' = ran
    BY <1>2, <2>1, <2>2
  <2>3. ASSUME client'[k].outcome = client[k].outcome PROVE told' = told
    BY <2>1, <2>3
  <2>4. ASSUME client'[k].pc # "idle", client[k].pc # "idle" PROVE given' = given
    BY <2>1, <2>4
  <2>5. CASE ClientMoves(k)
    <3>1. ran' = ran
      BY <1>1, <1>2, <2>2, <2>5, ClientExecutions
    <3>2. CASE client[k].pc = "idle"
      <4>1. client'[k].pc = "connect" /\ client'[k].outcome = client[k].outcome
        BY <1>1, <2>5, <3>2 DEF ClientMoves, InStep
      <4>2. told' = told
        BY <2>3, <4>1
      <4>3. k \notin given /\ given' = given \cup {k}
        BY <2>1, <3>2, <4>1
      <4> QED
        BY <3>1, <4>2, <4>3 DEF C!Next, C!Give
    <3>3. CASE client[k].pc # "idle" /\ client'[k].outcome = client[k].outcome
      <4>1. client'[k].pc # "idle"
        BY <2>5 DEF ClientMoves
      <4> QED
        BY <2>3, <2>4, <3>1, <3>3, <4>1 DEF C!vars
    <3>4. CASE client[k].pc # "idle" /\ client'[k].outcome # client[k].outcome
      <4>1. /\ client[k].pc \notin {"idle", "ended"} /\ client'[k].pc = "ended"
            /\ \/ client'[k].outcome \in {"failed", "killed"}
               \/ client'[k].outcome = "refused" /\ client[k].pc = "auth"
               \/ client'[k].outcome = link[k].said /\ client[k].pc = "command" /\ link[k].state = "reply"
        BY <2>5, <3>4 DEF ClientMoves
      <4>2. given' = given /\ k \in given
        BY <2>4, <4>1
      <4>3. told[k] = "none"
        BY <1>1, <4>1 DEF InStep
      <4> DEFINE outcome == client'[k].outcome
      <4>4. told' = [told EXCEPT ![k] = outcome]
        BY <2>1
      <4>5. /\ outcome \in {"done", "denied", "refused", "failed", "killed"}
            /\ outcome = "done" => ran[k] = 1
            /\ outcome \in {"denied", "refused"} => ran[k] = 0
        BY <1>1, <4>1 DEF InStep, Executions
      <4> HIDE DEF outcome, told, given
      <4>6. C!Tell(k)
        BY <3>1, <4>2, <4>3, <4>4, <4>5 DEF C!Tell, told, given
      <4> QED
        BY <4>6 DEF C!Next
    <3> QED
      BY <3>2, <3>3, <3>4
  <2>6. CASE ServerMoves(k)
    <3>1. client'[k] = client[k]
      BY <2>6 DEF ServerMoves
    <3>2. told' = told /\ given' = given
      BY <2>1, <3>1
    <3>3. CASE ran'[k] = ran[k]
      BY <2>2, <3>2, <3>3 DEF C!vars
    <3>4. CASE ran'[k] # ran[k]
      <4>1. /\ ran[k] = 0 /\ ran'[k] = 1 /\ client[k].pc # "idle"
            /\ client[k].outcome \in {"none", "killed"}
        BY <1>1, <1>2, <2>6, <3>4, ServerExecutions
      <4>2. ran' = [ran EXCEPT ![k] = 1]
        BY <1>2, <2>1, <4>1
      <4>3. k \in given /\ told[k] \in {"none", "killed"}
        BY <4>1
      <4>4. C!Run(k)
        BY <3>2, <4>1, <4>2, <4>3 DEF C!Run
      <4> QED
        BY <4>4 DEF C!Next
    <3> QED
      BY <3>3, <3>4
  <2> QED
    BY <1>5, <2>5, <2>6
<1> QED
  BY <1>4, <1>5, AnyMove DEF CommandInv

LEMMA CommandInvInit == CommandInit => CommandInv
<1> SUFFICES ASSUME Init, ran = [k \in Client |-> 0] PROVE CommandInv
  BY DEF CommandInit
<1>1. \A k \in Client : Executions(k)
  BY DEF Init, Idle, NoLink, Executions
<1> QED
  BY <1>1, SessionInit DEF CommandInv

LEMMA CommandInvStep == CommandInv /\ [CommandNext]_<<vars, ran>> => CommandInv'
<1> SUFFICES ASSUME CommandInv, [CommandNext]_<<vars, ran>> PROVE CommandInv'
  OBVIOUS
<1>1. CASE UNCHANGED <<vars, ran>>
  <2>1. SessionInv'
    BY <1>1, SessionStep DEF CommandInv
  <2>2. client' = client /\ link' = link /\ ran' = ran
    BY <1>1 DEF vars
  <2> QED
    BY <2>1, <2>2 DEF CommandInv, Executions
<1>2. CASE CommandNext
  <2>1. SessionInv'
    BY <1>2, SessionStep DEF CommandInv, CommandNext
  <2>2. \A k \in Client : /\ Executions(k) /\ InStep(k)
                          /\ client[k] \in ClientState /\ link[k] \in LinkState
                          /\ ran'[k] = IF link[k].state # "executed" /\ link'[k].state = "executed"
                                       THEN ran[k] + 1 ELSE ran[k]
    BY <1>2 DEF CommandInv, SessionInv, Typed, Session, Counted, CommandNext
  <2>3. \A k \in Client : Quiet(k) \/ ClientMoves(k) \/ ServerMoves(k)
    BY <1>2, AnyMove DEF CommandInv, CommandNext
  <2>4. \A k \in Client : Executions(k)'
    BY <2>2, <2>3, QuietExecutions, ClientExecutions, ServerExecutions
  <2>5. ran' \in [Client -> {0, 1}]
    <3>1. \A k \in Client : ran'[k] \in {0, 1}
      BY <2>4 DEF Executions
    <3> QED
      BY <1>2, <3>1 DEF Counted, CommandNext
  <2> QED
    BY <2>1, <2>4, <2>5 DEF CommandInv
<1> QED
  BY <1>1, <1>2

\* A command runs once at most; who is told that it was done, denied or refused
\* is told the truth; and nothing runs after an error was reported: over the
\* socket and over HTTP, whichever daemons end and start meanwhile.
THEOREM CommandsImplemented == CommandSpec => ImplementsCommands
<1>1. CommandInit => C!Init
  <2> SUFFICES ASSUME Init, ran = [k \in Client |-> 0] PROVE C!Init
    BY DEF CommandInit
  <2>1. \A k \in Client : client[k].pc = "idle" /\ client[k].outcome = "none"
    BY DEF Init, Idle
  <2> QED
    BY <2>1 DEF C!Init
<1>2. CommandInv /\ [CommandNext]_<<vars, ran>> => [C!Next]_C!vars
  <2> SUFFICES ASSUME CommandInv, [CommandNext]_<<vars, ran>> PROVE [C!Next]_C!vars
    OBVIOUS
  <2>1. CASE UNCHANGED <<vars, ran>>
    <3>1. client' = client /\ ran' = ran
      BY <2>1 DEF vars
    <3> QED
      BY <3>1 DEF C!vars
  <2> QED
    BY <2>1, MoveImplements DEF CommandNext
<1> QED
  BY CommandInvInit, CommandInvStep, <1>1, <1>2, PTL DEF CommandSpec, ImplementsCommands, C!Spec
=============================================================================
