---------------------------- MODULE AdminCommands ----------------------------
(* AdminSession, with the executions of each client's command counted: it     *)
(* implements Commands.                                                       *)
EXTENDS AdminSession

VARIABLE ran    \* history: how often each client's command was executed

\* Execute is what ends in "executed".
Counted ==
    ran' = [k \in Client |->
              IF link[k].state # "executed" /\ link'[k].state = "executed"
              THEN ran[k] + 1 ELSE ran[k]]

CommandInit == Init /\ ran = [k \in Client |-> 0]

CommandNext == Next /\ Counted

CommandSpec == CommandInit /\ [][CommandNext]_<<vars, ran>>

FairCommandSpec == CommandSpec /\ Fairness

C == INSTANCE Commands WITH
        given <- {k \in Client : client[k].pc # "idle"},
        times <- ran,
        told  <- [k \in Client |-> client[k].outcome]

\* Over either way, with daemons that are stopped, killed and started between
\* a client's connections and interrupted clients whose requests stay behind:
\* a command runs once at most, a client that reports success, a refusal or a
\* denial is right, and one that reports an error leaves nothing to run.
ImplementsCommands == C!Spec
=============================================================================
