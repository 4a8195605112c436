------------------------------ MODULE AddrSelect ------------------------------
(***************************************************************************)
(* Which of the addresses known of a peer is the one to use, to dial it    *)
(* and for its record in the hosts file: best_endpoint_addr_for_local and   *)
(* its helpers (src/util/mod.rs), record_ip_for_local (src/hosts/mod.rs).   *)
(* An endpoint address is a set of IP addresses; ports and relays are left  *)
(* out.                                                                    *)
(***************************************************************************)
EXTENDS Integers, FiniteSets

Sets == INSTANCE FiniteSetsExt

CONSTANTS
    Width,          \* the bits of an address of each family
    LocalOnlyIp     \* loopback, multicast, unspecified and link-local addresses

Family == {"v4", "v6"}
Ip == UNION {[family : {f}, bits : 0..(2^Width[f] - 1)] : f \in Family}

\* The powers are stated for the proofs: the provers know none.
ASSUME AddrSelectAssumption ==
    /\ Width \in [Family -> Nat] /\ \A f \in Family : 2^Width[f] \in Nat
    /\ LocalOnlyIp \subseteq Ip

is_local_only_ip(ip) == ip \in LocalOnlyIp

\* The order of addresses, of which std puts those of v4 first.
Before(a, b) == IF a.family = b.family THEN a.bits < b.bits ELSE a.family = "v4"

\* The BTreeSet of an EndpointAddr is in this order: the i-th has i - 1 before it.
ip_addrs(ips) ==
    [i \in 1..Cardinality(ips) |->
        CHOOSE ip \in ips : Cardinality({other \in ips : Before(other, ip)}) = i - 1]

-----------------------------------------------------------------------------
\* Leading zeros of a xor b.
common_prefix_bits(a, b) ==
    IF a.family # b.family THEN 0
    ELSE LET w == Width[a.family]
         IN  Sets!Max({0} \cup {n \in 1..w : a.bits \div 2^(w - n) = b.bits \div 2^(w - n)})

\* The maximum, or 0 of none.
best_prefix_score(ip, locals) == Sets!Max({0} \cup {common_prefix_bits(ip, l) : l \in locals})

\* A daemon with only loopback or link-local addresses goes by those.
local_only_mode(local) == local \subseteq LocalOnlyIp

local_ips(local) == {ip \in local : local_only_mode(local) \/ ~is_local_only_ip(ip)}

Usable(remote, local) == {ip \in remote : local_only_mode(local) \/ ~is_local_only_ip(ip)}

\* prefer_v4, unless all that counts is v6.
Preferred(ip, local) ==
    (ip.family = "v4") <=> \/ \E l \in local_ips(local) : l.family = "v4"
                           \/ \A l \in local_ips(local) : l.family # "v6"

\* Mutant: of those as close the first one stays.
Better_closer(candidate, current, local) ==
    best_prefix_score(candidate, local_ips(local)) > best_prefix_score(current, local_ips(local))

\* The candidate takes the place of the one found so far.
Better(candidate, current, local) ==
    LET score(ip) == best_prefix_score(ip, local_ips(local))
    IN  \/ score(candidate) > score(current)
        \/ /\ score(candidate) = score(current)
           /\ Preferred(candidate, local) /\ ~Preferred(current, local)

\* The loop over remote.ip_addrs(), and what it has found: one address or none.
Selected(remote, local) ==
    LET usable == Usable(remote, local)
        best[n \in 0..Cardinality(usable)] ==
            IF n = 0 THEN {}
            ELSE LET ip == ip_addrs(usable)[n]
                 IN  IF \A current \in best[n - 1] : Better(ip, current, local)
                     THEN {ip} ELSE best[n - 1]
    IN  best[Cardinality(usable)]

\* Mutant: no address rather than one that is not usable.
best_endpoint_addr_strict(remote, local) == IF local = {} THEN remote ELSE Selected(remote, local)

\* The best one alone, or all if this daemon has none itself or none is usable.
best_endpoint_addr_for_local(remote, local) ==
    IF local = {} \/ Selected(remote, local) = {} THEN remote ELSE Selected(remote, local)

\* The first of them: none or one, as a set.
record_ip_for_local(remote, local) ==
    LET ips == best_endpoint_addr_for_local(remote, local)
    IN  {ip \in ips : ip_addrs(ips)[1] = ip}
=============================================================================
