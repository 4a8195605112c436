---------------------------- MODULE MCAdminTasks ----------------------------
(* Instances of AdminTasks for TLC. *)
EXTENDS AdminTasks, TLC

CONSTANTS p, q, c1, c2, k1, k2

\* Peers are interchangeable, and so are clients and connections.
Symmetry == Permutations(Peer) \cup Permutations(Client) \cup Permutations(Conn)
=============================================================================
