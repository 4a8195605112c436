------------------------------ MODULE HostsFile ------------------------------
(***************************************************************************)
(* The managed section of the hosts file: src/hosts/mod.rs, its callers in *)
(* net/mod.rs, and the two tasks of app.rs that run them.  The main task   *)
(* synchronises once before it starts and clears the section at shutdown;  *)
(* a background task synchronises every two seconds and is never told to   *)
(* stop.  Both rewrite the whole file from what they read of it, either by *)
(* a rename or, when that fails, in place.  Users edit the file as well.   *)
(*                                                                         *)
(* A file is a sequence of lines.  The records of one section are a single *)
(* line here: what the section is to hold is a member of Records.          *)
(***************************************************************************)
EXTENDS Integers, Sequences

CONSTANTS
    UserLine,       \* lines of the user
    Begin, End,     \* the marker lines
    Blank,          \* the empty line
    Records,        \* what a section may hold
    Nothing,        \* an empty hostname_map: no section at all
    MaxStarts, MaxChanges, MaxEdits, MaxBreaks, MaxFails    \* bounds of the instances

ASSUME HostsAssumption ==
    /\ {MaxStarts, MaxChanges, MaxEdits, MaxBreaks, MaxFails} \subseteq Nat
    /\ Begin # End /\ Blank \notin {Begin, End} /\ Nothing \notin Records
    /\ (UserLine \cup Records) \cap {Begin, End, Blank} = {}
    /\ UserLine \cap Records = {}

VARIABLES
    file,       \* the hosts file
    desired,    \* what Context.nodes asks for, after sync_nodes_to_hosts
    phase,      \* where the process is
    task,       \* per task: where it is in write_to, and its local variables
    opened,     \* the tasks that have the hosts file open in place
    broken,     \* history: whether a user removed or moved a marker
    inplace,    \* history: whether a task fell back to writing in place
    used        \* counters of the bounded steps

vars == <<file, desired, phase, task, opened, broken, inplace, used>>

Task == {"main", "background"}
Phase == {"off", "starting", "running", "closing", "closed"}
Line == UserLine \cup Records \cup {Begin, End, Blank}

\* The section to write, the file as read and the file as computed.
Local == [pc : {"idle", "swap", "truncate", "write", "panicked"},
          want : Records \cup {Nothing}, seen : Seq(Line), out : Seq(Line)]
Idle == [pc |-> "idle", want |-> Nothing, seen |-> <<>>, out |-> <<>>]
NoTask == [t \in Task |-> Idle]

TypeOK ==
    /\ file \in Seq(Line)
    /\ desired \in Records \cup {Nothing}
    /\ phase \in Phase
    /\ task \in [Task -> Local]
    /\ opened \subseteq Task
    /\ broken \in BOOLEAN
    /\ inplace \in BOOLEAN
    /\ used \in [starts : Nat, changes : Nat, edits : Nat, breaks : Nat, fails : Nat]

-----------------------------------------------------------------------------
(* write_to, from the lines read to the lines to write. *)

\* Index of the first occurrence of a marker, 0 if there is none.
position(lines, marker) ==
    LET at == {i \in DOMAIN lines : lines[i] = marker}
    IN  IF at = {} THEN 0 ELSE CHOOSE i \in at : \A j \in at : i <= j

\* Mutant: the markers are written around an empty hostname_map as well.
Section_always(records) == <<Begin, records, End>>

Section(records) == IF records = Nothing THEN <<>> ELSE <<Begin, records, End>>

\* A blank line goes before a new section.
Padded(lines) ==
    IF lines # <<>> /\ lines[Len(lines)] # Blank THEN Append(lines, Blank) ELSE lines

\* Mutant: the lines after the section are dropped with it.
write_to_drops_rest(lines, records) ==
    LET begin == position(lines, Begin)
    IN  IF begin = 0 THEN [result |-> "changed", text |-> Padded(lines) \o Section(records)]
        ELSE IF SubSeq(lines, begin, position(lines, End)) = Section(records)
        THEN [result |-> "unchanged", text |-> lines]
        ELSE [result |-> "changed", text |-> SubSeq(lines, 1, begin - 1) \o Section(records)]

\* Mutant: a new section is added without looking for an old one.
write_to_appends(lines, records) ==
    [result |-> "changed", text |-> Padded(lines) \o Section(records)]

\* Mutant: a section that exists is left as it is.
write_to_once(lines, records) ==
    IF position(lines, Begin) # 0 THEN [result |-> "unchanged", text |-> lines]
    ELSE [result |-> "changed", text |-> Padded(lines) \o Section(records)]

\* HostsBuilder::write_to up to the write: what it returns, or that it
\* panics (a drain from after to before), and the new contents.
write_to(lines, records) ==
    LET begin == position(lines, Begin)
        end   == position(lines, End)
    IN  CASE begin = 0 /\ end = 0 ->
                [result |-> "changed", text |-> Padded(lines) \o Section(records)]
          [] (begin = 0) # (end = 0) ->
                [result |-> "error", text |-> lines]
          [] begin # 0 /\ end # 0 /\ begin > end + 1 ->
                [result |-> "panic", text |-> lines]
          [] begin # 0 /\ end # 0 /\ begin <= end + 1 ->
                IF SubSeq(lines, begin, end) = Section(records)
                THEN [result |-> "unchanged", text |-> lines]
                ELSE [result |-> "changed",
                      text |-> SubSeq(lines, 1, begin - 1) \o Section(records)
                               \o SubSeq(lines, end + 1, Len(lines))]

-----------------------------------------------------------------------------
(* The two tasks. *)

Writing(t) == task[t].pc \in {"swap", "truncate", "write"}

\* Task t goes on to pc.
Goto(t, pc) == task' = [task EXCEPT ![t].pc = pc] /\ UNCHANGED phase

\* write_to returns to task t, which loses its local variables; the first
\* synchronisation and the last clearing are steps of the main task.
Return(t, ok) ==
    /\ task' = [task EXCEPT ![t] = Idle]
    /\ phase' = CASE t # "main" -> phase
                  [] t = "main" /\ phase = "closing" -> "closed"
                  [] t = "main" /\ phase # "closing" -> IF ok THEN "running" ELSE "off"

\* The main task's panic ends the process, the background task's only itself.
Panic(t) ==
    /\ task' = IF t = "main" THEN NoTask ELSE [task EXCEPT ![t] = [Idle EXCEPT !.pc = "panicked"]]
    /\ phase' = IF t = "main" THEN "off" ELSE phase

\* The file is read and the new contents are computed.
Open(t, records) ==
    LET new == write_to(file, records)
    IN  /\ task[t].pc = "idle"
        /\ \/ /\ new.result = "changed"
              /\ task' = [task EXCEPT ![t] = [Idle EXCEPT !.pc = "swap", !.want = records,
                                                          !.seen = file, !.out = new.text]]
              /\ UNCHANGED phase
           \/ new.result = "unchanged" /\ Return(t, TRUE)
           \/ new.result = "error" /\ Return(t, FALSE)
           \/ new.result = "panic" /\ Panic(t)
        /\ opened' = IF new.result = "panic" /\ t = "main" THEN {} ELSE opened
        /\ UNCHANGED <<file, desired, broken, used, inplace>>

\* run_daemon's first sync_hosts_file; an error ends the process.
StartSync == phase = "starting" /\ Open("main", desired)

\* graceful_shutdown's clear_hosts_file; an error is logged.
Clear == phase = "closing" /\ Open("main", Nothing)

\* hosts_tick, also while the main task shuts down.
HostsTick == phase \in {"running", "closing", "closed"} /\ Open("background", desired)

\* write_and_swap: the rename replaces the file at once.  A task that has
\* the old file open in place writes to a file without a name from then on.
Swap(t) ==
    /\ task[t].pc = "swap"
    /\ file' = task[t].out
    /\ opened' = {}
    /\ Return(t, TRUE)
    /\ UNCHANGED <<desired, broken, used, inplace>>

\* get_temp_path, the copy, the write or the rename fails: the temporary file
\* lies in the parent of the hosts file's directory, which may be another file
\* system or not writable.
SwapFails(t) ==
    /\ task[t].pc = "swap"
    /\ Goto(t, "truncate")
    /\ inplace' = TRUE
    /\ UNCHANGED <<file, desired, opened, broken, used>>

\* write_clobber: open with truncate, then write_all from the start of the
\* file; what another task wrote past that end in between remains.
Truncate(t) ==
    /\ task[t].pc = "truncate"
    /\ file' = <<>>
    /\ task' = [task EXCEPT ![t].pc = "write"]
    /\ opened' = opened \cup {t}
    /\ UNCHANGED <<desired, phase, broken, used, inplace>>

WriteAll(t) ==
    /\ task[t].pc = "write"
    /\ file' = IF t \notin opened THEN file
               ELSE task[t].out \o SubSeq(file, Len(task[t].out) + 1, Len(file))
    /\ opened' = opened \ {t}
    /\ Return(t, TRUE)
    /\ UNCHANGED <<desired, broken, used, inplace>>

\* The open or the write in place fails: write_to returns the error.
ClobberFails(t) ==
    /\ task[t].pc \in {"truncate", "write"} /\ used.fails < MaxFails
    /\ used' = [used EXCEPT !.fails = @ + 1]
    /\ opened' = opened \ {t}
    /\ Return(t, FALSE)
    /\ UNCHANGED <<file, desired, broken, inplace>>

-----------------------------------------------------------------------------
(* The process and its environment. *)

\* run_daemon; the background task is spawned after the first synchronisation.
Start ==
    /\ phase = "off" /\ used.starts < MaxStarts
    /\ phase' = "starting"
    /\ used' = [used EXCEPT !.starts = @ + 1]
    /\ UNCHANGED <<file, desired, task, opened, broken, inplace>>

\* SIGTERM or the admin command Shutdown.
Shutdown ==
    /\ phase = "running"
    /\ phase' = "closing"
    /\ UNCHANGED <<file, desired, task, opened, broken, used, inplace>>

\* The process ends; what its tasks were doing ends with it.
Ends ==
    /\ phase' = "off"
    /\ task' = NoTask
    /\ opened' = {}
    /\ UNCHANGED <<file, desired, broken, used, inplace>>

\* run_daemon returns after save(), router.shutdown() and handle.close().
Exit == phase = "closed" /\ Ends

Crash == phase # "off" /\ Ends

\* Membership, or an interface, changed.
Change ==
    /\ used.changes < MaxChanges
    /\ desired' \in (Records \cup {Nothing}) \ {desired}
    /\ used' = [used EXCEPT !.changes = @ + 1]
    /\ UNCHANGED <<file, phase, task, opened, broken, inplace>>

\* A user adds a line before or after everything else.
Edit ==
    /\ used.edits < MaxEdits
    /\ \E line \in UserLine : file' \in {<<line>> \o file, Append(file, line)}
    /\ used' = [used EXCEPT !.edits = @ + 1]
    /\ UNCHANGED <<desired, phase, task, opened, broken, inplace>>

\* A user removes a marker line, or moves the end marker to the top.  An end
\* marker right before the begin marker is left out: nothing is drained then,
\* every tick adds one more section, and the file grows without bound.
Break ==
    /\ used.breaks < MaxBreaks
    /\ \E i \in DOMAIN file :
          /\ file[i] \in {Begin, End}
          /\ LET others == SubSeq(file, 1, i - 1) \o SubSeq(file, i + 1, Len(file))
             IN  \/ file' = others
                 \/ /\ file[i] = End /\ others # <<>> /\ others[1] # Begin
                    /\ file' = <<End>> \o others
    /\ broken' = TRUE
    /\ used' = [used EXCEPT !.breaks = @ + 1]
    /\ UNCHANGED <<desired, phase, task, opened, inplace>>

TaskStep(t) == Swap(t) \/ SwapFails(t) \/ Truncate(t) \/ WriteAll(t)

Init ==
    /\ file \in {<<>>} \cup {<<line>> : line \in UserLine}
    /\ desired \in Records
    /\ phase = "off"
    /\ task = NoTask
    /\ opened = {}
    /\ broken = FALSE
    /\ inplace = FALSE
    /\ used = [starts |-> 0, changes |-> 0, edits |-> 0, breaks |-> 0, fails |-> 0]

Next ==
    \/ Start \/ StartSync \/ HostsTick \/ Shutdown \/ Clear \/ Exit \/ Crash
    \/ \E t \in Task : TaskStep(t) \/ ClobberFails(t)
    \/ Change \/ Edit \/ Break

Spec == Init /\ [][Next]_vars

\* The timer of the background task fires for ever, and a task that runs
\* goes on with what it began.
FairSpec ==
    /\ Spec
    /\ WF_vars(StartSync) /\ WF_vars(HostsTick)
    /\ \A t \in Task : WF_vars(TaskStep(t))

-----------------------------------------------------------------------------
(* Properties. *)

UserLines(lines) == {i \in DOMAIN lines : lines[i] \in UserLine}

\* The users' lines of one file are those of the other one, in their order.
SameUserLines(old, new) ==
    \E to \in [UserLines(old) -> UserLines(new)] :
        /\ \A j \in UserLines(new) : \E i \in UserLines(old) : to[i] = j
        /\ \A i \in UserLines(old) :
              /\ new[to[i]] = old[i]
              /\ \A k \in UserLines(old) : i < k => to[i] < to[k]

\* Unless a user moved a marker, what a task is about to publish has the
\* users' lines it read, all of them and in their order, wherever the section
\* was among them.
RestPreserved ==
    ~broken => \A t \in Task : Writing(t) => SameUserLines(task[t].seen, task[t].out)

\* A section once written is recognised: the next tick that wants the same
\* leaves the file alone instead of rewriting it every two seconds.
WriteSettles ==
    ~broken => \A t \in Task : Writing(t) /\ task[t].want # Nothing
                               => write_to(task[t].out, task[t].want).result = "unchanged"

\* Unless a user removes a marker or a rename fails, the file always has one
\* section or none: two tasks that both found no section do not leave two
\* behind.
OneSection ==
    ~broken /\ ~inplace =>
        \E records \in Records \cup {Nothing}, first \in 1..(Len(file) + 1) :
            LET last == first - 1 + Len(Section(records))
            IN  /\ last <= Len(file) /\ SubSeq(file, first, last) = Section(records)
                /\ \A i \in DOMAIN file \ (first..last) : file[i] \in UserLine \cup {Blank}

\* While the daemon keeps running, the section ends up holding what the
\* directory says, whatever else was written to the file before.
Converges ==
    <>[](phase = "running") =>
        <>[](broken \/ LET begin == position(file, Begin)
                       IN  IF begin = 0 THEN desired = Nothing
                           ELSE SubSeq(file, begin, begin + 2) = Section(desired))

\* "hosts_sync_writes_and_cleans_managed_section_on_shutdown"
\* (tests/hosts_sync.rs:8): a process that shut down gracefully leaves no
\* section behind.
CleanAfterExit ==
    [][phase = "closed" /\ phase' = "off" => position(file', Begin) = 0]_vars
=============================================================================
