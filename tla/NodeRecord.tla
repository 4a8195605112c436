----------------------------- MODULE NodeRecord -----------------------------
(***************************************************************************)
(* What one daemon keeps about another and how two versions of it are      *)
(* reconciled: src/domain/merge.rs, the freshness window of a signed       *)
(* message (domain/message.rs) and the staleness rule of cleanup().        *)
(* Everything here is a pure operator.  A record is reduced to the parts   *)
(* that decide something: the heartbeat and the set of IP addresses; the   *)
(* node id is the key it is stored under and the domain a function of it.  *)
(***************************************************************************)
EXTENDS Integers, FiniteSets

CONSTANTS
    IpAddr,                 \* IP addresses an endpoint may have
    None,                   \* "no entry": DashMap::get returned nothing
    STALE_NODE_TTL_SECS,    \* age after which cleanup() drops a record
    MAX_AGE_SECS,           \* oldest signature that is still fresh
    MAX_FUTURE_SKEW_SECS    \* how far ahead a signer's clock may run

Record == [hb : Nat, addr : SUBSET IpAddr]

ASSUME NoneAssumption == None \notin Record

ASSUME TimeoutsAssumption ==
    /\ STALE_NODE_TTL_SECS \in Nat
    /\ MAX_AGE_SECS \in Nat
    /\ MAX_FUTURE_SKEW_SECS \in Nat

-----------------------------------------------------------------------------
(* Addresses and records, domain/merge.rs. *)

has_ip_addr(addr) == addr # {}

\* Both addresses belong to the same endpoint id: the union of their IPs.
merge_addr(existing, incoming) == existing \cup incoming

\* Mutant: a newer record replaces the address even if it carries none.
merge_node_drops_addr(existing, incoming) ==
    IF existing # None /\ existing.hb >= incoming.hb
    THEN [hb |-> existing.hb, addr |-> merge_addr(existing.addr, incoming.addr)]
    ELSE incoming

\* The strictly newer heartbeat wins.  A newer record replaces the address
\* only if it carries one; in every other case the addresses accumulate.
merge_node(existing, incoming) ==
    IF existing = None
    THEN incoming
    ELSE LET newer == incoming.hb > existing.hb
         IN  [hb   |-> IF newer THEN incoming.hb ELSE existing.hb,
              addr |-> IF newer /\ has_ip_addr(incoming.addr)
                       THEN incoming.addr
                       ELSE merge_addr(existing.addr, incoming.addr)]

\* Mutant: the first claimant seen stays, whatever its heartbeat.
remove_any_duplicates(dir, domain) ==
    LET active == {p \in DOMAIN dir : dir[p] # None}
    IN  {active \ kept : kept \in {k \in SUBSET active :
            \A p \in active : Cardinality({q \in k : domain[q] = domain[p]}) = 1}}

\* The sets of ids ids_to_remove_for_duplicate_domains may return for the
\* directory `dir`: of each domain one entry with the newest heartbeat stays.
\* Which of two equally new ones depends on the map's iteration order.
ids_to_remove_for_duplicate_domains(dir, domain) ==
    LET active == {p \in DOMAIN dir : dir[p] # None}
        Keeps(kept) ==
            \A p \in active :
                \E best \in kept :
                    /\ kept \cap {q \in active : domain[q] = domain[p]} = {best}
                    /\ domain[best] = domain[p]
                    /\ dir[best].hb >= dir[p].hb
    IN  {active \ kept : kept \in {k \in SUBSET active : Keeps(k)}}

-----------------------------------------------------------------------------
(* Time. *)

\* u64::saturating_sub
saturating_sub(a, b) == IF a > b THEN a - b ELSE 0

\* SignedMessage::is_fresh for a message stamped ts, at local time now.
is_fresh(ts, now) ==
    /\ ts <= now + MAX_FUTURE_SKEW_SECS
    /\ saturating_sub(now, ts) <= MAX_AGE_SECS

\* Mutant: one second too late.
is_stale_late(record, now) == saturating_sub(now, record.hb) > STALE_NODE_TTL_SECS + 1

\* The filter of cleanup(): strictly older than the time to live.
is_stale(record, now) == saturating_sub(now, record.hb) > STALE_NODE_TTL_SECS
=============================================================================
