--------------------------- MODULE MCAdminSession ----------------------------
(* An instance of AdminCommands, and so of AdminSession, for TLC: a user's   *)
(* own daemon and the packaged service, which runs as a user of its own and   *)
(* lets the other one connect.                                                *)
EXTENDS AdminCommands, TLC

CONSTANTS alice, service, d1, d2, k1, k2, xdg, tmp, run

Users == d1 :> alice @@ d2 :> service @@ k1 :> alice @@ k2 :> alice
Paths == alice :> <<xdg, tmp>> @@ service :> <<run, tmp>>
LegacyPaths == <<run>>
WritablePaths == alice :> {xdg, tmp} @@ service :> {run}
\* Only the user's daemon listens for HTTP.
HttpArgs == d1 :> {"loopback", "public"} @@ d2 :> {"none"}
\* One run of the command line asks for anything but a removal, for a shutdown
\* over HTTP only, the other one to remove the key of both or to shut down.
Calls ==
    k1 :> {call \in Invocations : \/ call.command.name = "Other"
                                  \/ call.command.name = "Shutdown" /\ call.via = "http" /\ ~call.ticket}
    @@ k2 :> {call \in Invocations : call.via = "socket" /\ call.command
                  \in {[name |-> "Remove", key |-> alice], [name |-> "Shutdown"]}}
Groups == alice :> {alice, service} @@ service :> {service}
=============================================================================
