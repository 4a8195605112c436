-------------------------- MODULE MembershipAddresses --------------------------
(* Membership and AddrSelect: the records that daemons gather of each other   *)
(* and the address that each takes from them.                                *)
EXTENDS Membership, AddrSelect

ASSUME StructuredAddresses == IpAddr \subseteq Ip

Active(d) == {p \in Daemon \ {d} : nodes[d][p] # None}

\* Of a peer's record in the directory of d.
Known(d, p) == nodes[d][p].addr

\* "Picks the best single IP transport address from remote for local (by longest
\* common prefix)" (util/mod.rs:234): whatever addresses gathered in a record,
\* and in whatever order the loop meets them, the one it ends with is usable,
\* no other usable one is closer, and none that is as close is of the family
\* that this daemon prefers if the one chosen is not.
SelectionIsBest ==
    \A d \in up : \A p \in Active(d) :
        LET own == Advertised(d)
            chosen == best_endpoint_addr_for_local(Known(d, p), own)
            score(i) == best_prefix_score(i, local_ips(own))
        IN  own # {} => \A best \in chosen, other \in Usable(Known(d, p), own) :
                /\ best \in Usable(Known(d, p), own)
                /\ score(best) >= score(other)
                /\ score(best) = score(other) /\ Preferred(other, own) => Preferred(best, own)

\* A peer that has an address in the directory has a record in the hosts file
\* and somewhere to be dialled (hosts/mod.rs:371, net/mod.rs:1187), although
\* the choice may find that none of its addresses is usable from here.
EveryPeerNamed ==
    \A d \in up : \A p \in Active(d) :
        has_ip_addr(Known(d, p)) => record_ip_for_local(Known(d, p), Advertised(d)) # {}
=============================================================================
