------------------------------ MODULE MCStartup ------------------------------
(* Instances of Startup for TLC. *)
EXTENDS Startup

CONSTANTS k1, k2, k3, k4, f, n1, n2, n3

\* The default, a wildcard with a port, an address of one family without one.
Binds == {[kind |-> "default"],
          [kind |-> "socket", family |-> "v4", scope |-> "unspecified"],
          [kind |-> "ip", family |-> "v6", scope |-> "other"]}
=============================================================================
