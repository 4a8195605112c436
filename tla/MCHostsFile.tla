----------------------------- MODULE MCHostsFile -----------------------------
(* Instances of HostsFile for TLC. *)
EXTENDS HostsFile

CONSTANTS u, r1, r2
=============================================================================
