------------------------------ MODULE Commands -------------------------------
(***************************************************************************)
(* What the command line promises about a command, without sockets,        *)
(* sessions or daemons: it is executed once at most, and only after it was *)
(* given; "done" means that it has been executed and a refusal that it     *)
(* never will be; an error says neither, but then it does not run later.   *)
(* Only a run of the command line that was interrupted may leave a command *)
(* behind that is still executed.                                          *)
(***************************************************************************)
EXTENDS Naturals

CONSTANT Client     \* the runs of the command line, each with its command

VARIABLES
    given,      \* clients that were run
    times,      \* [Client -> how often its command was executed]
    told        \* [Client -> what the user was told]

vars == <<given, times, told>>

Init ==
    /\ given = {}
    /\ times = [k \in Client |-> 0]
    /\ told = [k \in Client |-> "none"]

Give(k) ==
    /\ k \notin given
    /\ given' = given \cup {k}
    /\ UNCHANGED <<times, told>>

Run(k) ==
    /\ k \in given /\ times[k] = 0 /\ told[k] \in {"none", "killed"}
    /\ times' = [times EXCEPT ![k] = 1]
    /\ UNCHANGED <<given, told>>

Tell(k) ==
    /\ k \in given /\ told[k] = "none"
    /\ \E outcome \in {"done", "denied", "refused", "failed", "killed"} :
          /\ outcome = "done" => times[k] = 1
          /\ outcome \in {"denied", "refused"} => times[k] = 0
          /\ told' = [told EXCEPT ![k] = outcome]
    /\ UNCHANGED <<given, times>>

Next == \E k \in Client : Give(k) \/ Run(k) \/ Tell(k)

Spec == Init /\ [][Next]_vars
=============================================================================
