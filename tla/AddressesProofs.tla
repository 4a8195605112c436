--------------------------- MODULE AddressesProofs ---------------------------
(***************************************************************************)
(* TLAPS proofs about the choice among a peer's addresses, for addresses   *)
(* of any width, any sets of them and every run of Membership.             *)
(***************************************************************************)
EXTENDS MembershipAddresses, MembershipProofs, LeastNumber

-----------------------------------------------------------------------------
(* Numbers and addresses. *)

\* A non-empty, bounded set of naturals has a greatest element.
LEMMA GreatestNatural ==
    ASSUME NEW S \in SUBSET Nat, NEW bound \in Nat, S # {}, \A n \in S : n <= bound
    PROVE  Sets!Max(S) \in S /\ \A n \in S : n <= Sets!Max(S)
<1> DEFINE gaps == {bound - n : n \in S}
<1>1. gaps \in SUBSET Nat /\ gaps # {}
  <2>1. \A n \in S : bound - n \in Nat
    OBVIOUS
  <2> QED BY <2>1
<1>2. PICK gap \in gaps : \A g \in gaps : gap <= g
  BY <1>1, LeastNatural
<1>3. PICK m \in S : gap = bound - m
  BY <1>2
<1>4. \A n \in S : n <= m
  BY <1>2, <1>3
<1> QED BY <1>4 DEF Sets!Max

Size(f) == 2^Width[f]

\* The place of an address in the order of all.
Place(x) == IF x.family = "v4" THEN x.bits ELSE Size("v4") + x.bits

\* An address is a natural below the size of its family.
LEMMA IpFields ==
    ASSUME NEW x \in Ip
    PROVE  /\ x.family \in Family /\ x.bits \in Nat /\ x.bits < Size(x.family)
           /\ x = [family |-> x.family, bits |-> x.bits]
           /\ Size("v4") \in Nat /\ Size("v6") \in Nat
<1>1. PICK f \in Family : x \in [family : {f}, bits : 0..(Size(f) - 1)]
  BY DEF Ip, Size
<1>2. \A g \in Family : Size(g) \in Nat
  BY AddrSelectAssumption DEF Size
<1>3. x.family = f /\ x.bits \in 0..(Size(f) - 1) /\ x = [family |-> x.family, bits |-> x.bits]
  BY <1>1
<1>4. x.bits \in Nat /\ x.bits < Size(f)
  BY <1>2, <1>3
<1> QED BY <1>2, <1>3, <1>4 DEF Family

\* The order of addresses is that of their places, which are bounded.
LEMMA Placed ==
    /\ Size("v4") \in Nat /\ Size("v6") \in Nat
    /\ \A a \in Ip : Place(a) \in 0..(Size("v4") + Size("v6"))
    /\ \A a, b \in Ip : Before(a, b) <=> Place(a) < Place(b)
    /\ \A a, b \in Ip : Place(a) = Place(b) => a = b
<1>1. Size("v4") \in Nat /\ Size("v6") \in Nat
  BY AddrSelectAssumption DEF Size, Family
<1>2. ASSUME NEW a \in Ip PROVE Place(a) \in 0..(Size("v4") + Size("v6"))
  BY <1>1, IpFields DEF Place, Family
<1>3. ASSUME NEW a \in Ip, NEW b \in Ip
      PROVE  (Before(a, b) <=> Place(a) < Place(b)) /\ (Place(a) = Place(b) => a = b)
  <2>1. a.family = b.family /\ a.bits = b.bits => a = b
    BY IpFields
  <2> QED BY <1>1, <2>1, IpFields DEF Place, Before, Family
<1> QED BY <1>1, <1>2, <1>3

\* There are finitely many addresses.
LEMMA IpFinite == \A S \in SUBSET Ip : IsFiniteSet(S) /\ Cardinality(S) \in Nat
<1> DEFINE top == Size("v4") + Size("v6")
           place == [x \in Ip |-> Place(x)]
<1>1. top \in Nat
  BY Placed
<1>2. IsFiniteSet(0..top)
  <2> HIDE DEF top
  <2>1. 0 \in Int /\ top \in Int
    BY <1>1
  <2> QED BY <2>1, FS_Interval
<1>3. place \in Injection(Ip, 0..top)
  BY Placed DEF Injection, IsInjective
<1>4. IsFiniteSet(Ip)
  BY <1>2, <1>3, FS_Injection
<1> QED BY <1>4, FS_Subset, FS_CardinalityType

-----------------------------------------------------------------------------
(* A BTreeSet in its order. *)

Preceding(S, x) == {other \in S : Before(other, x)}

\* A set of addresses that is not empty has a last one.
LEMMA LastAddress ==
    ASSUME NEW S \in SUBSET Ip, S # {}
    PROVE  \E last \in S : \A x \in S \ {last} : Before(x, last)
<1> DEFINE top == Size("v4") + Size("v6")
           places == {Place(x) : x \in S}
<1>1. top \in Nat /\ \A x \in S : Place(x) \in 0..top
  BY Placed
<1>2. places \in SUBSET Nat /\ places # {} /\ \A n \in places : n <= top
  BY <1>1
<1> HIDE DEF top
<1>3. PICK greatest \in places : \A n \in places : n <= greatest
  BY <1>1, <1>2, GreatestNatural
<1>4. PICK last \in S : greatest = Place(last)
  BY <1>3
<1>5. ASSUME NEW x \in S \ {last} PROVE Before(x, last)
  <2>1. Place(x) <= Place(last)
    BY <1>3, <1>4
  <2>2. Place(x) # Place(last)
    BY Placed
  <2>3. Place(x) \in Nat /\ Place(last) \in Nat
    BY <1>1
  <2>4. Place(x) < Place(last)
    BY <2>1, <2>2, <2>3
  <2> QED BY <2>4, Placed
<1> QED BY <1>5

\* Of n addresses there is one that i others precede, for each i < n: for the
\* last of them all others do, and the others precede each other without it.
LEMMA EveryRank ==
    ASSUME NEW S \in SUBSET Ip, NEW i \in 0..(Cardinality(S) - 1)
    PROVE  \E x \in S : Cardinality(Preceding(S, x)) = i
<1> DEFINE Ranked(T) == \A j \in 0..(Cardinality(T) - 1) :
                           \E x \in T : Cardinality(Preceding(T, x)) = j
           bad == {n \in Nat : \E T \in SUBSET Ip : Cardinality(T) = n /\ ~Ranked(T)}
<1>1. ASSUME bad # {} PROVE FALSE
  <2>1. PICK n \in bad : \A k \in bad : n <= k
    BY <1>1, LeastNatural
  <2>2. PICK T \in SUBSET Ip : Cardinality(T) = n /\ ~Ranked(T)
    BY <2>1
  <2> HIDE DEF Ranked
  <2>3. IsFiniteSet(T) /\ n \in Nat
    BY <2>1, IpFinite
  <2>4. T # {}
    <3>1. T = {} => n = 0
      BY <2>2, FS_EmptySet
    <3>2. n = 0 => Ranked(T)
      BY <2>2 DEF Ranked
    <3> QED BY <2>2, <3>1, <3>2
  <2>5. PICK last \in T : \A x \in T \ {last} : Before(x, last)
    BY <2>4, LastAddress
  <2> DEFINE U == T \ {last}
  <2>6. U \in SUBSET Ip /\ Cardinality(U) = n - 1 /\ IsFiniteSet(U) /\ n - 1 \in Nat
    <3>1. U \in SUBSET Ip
      OBVIOUS
    <3>2. Cardinality(U) = n - 1
      BY <2>2, <2>3, FS_RemoveElement
    <3> QED BY <3>1, <3>2, IpFinite
  <2>7. Ranked(U)
    <3>1. n - 1 \notin bad
      BY <2>1, <2>3
    <3> QED BY <2>6, <3>1
  <2>8. Preceding(T, last) = U
    BY <2>5, Placed DEF Preceding
  <2>9. \A x \in U : Preceding(T, x) = Preceding(U, x)
    BY <2>5, Placed DEF Preceding
  <2>10. Ranked(T)
    <3> SUFFICES ASSUME NEW j \in 0..(Cardinality(T) - 1)
                 PROVE  \E x \in T : Cardinality(Preceding(T, x)) = j
      BY DEF Ranked
    <3>1. CASE j = n - 1
      BY <3>1, <2>6, <2>8
    <3>2. CASE j # n - 1
      <4>1. j \in 0..(Cardinality(U) - 1)
        BY <3>2, <2>2, <2>3, <2>6
      <4>2. PICK x \in U : Cardinality(Preceding(U, x)) = j
        BY <4>1, <2>7 DEF Ranked
      <4> QED BY <4>2, <2>9
    <3> QED BY <3>1, <3>2
  <2> QED BY <2>2, <2>10
<1>2. Ranked(S)
  BY <1>1, IpFinite
<1> QED BY <1>2

\* ip_addrs meets the addresses of a set and nothing else.
LEMMA Enumerated ==
    ASSUME NEW S \in SUBSET Ip
    PROVE  /\ \A i \in 1..Cardinality(S) : ip_addrs(S)[i] \in S
           /\ \A x \in S : \E i \in 1..Cardinality(S) : ip_addrs(S)[i] = x
<1>1. IsFiniteSet(S) /\ Cardinality(S) \in Nat
  BY IpFinite
<1>2. ASSUME NEW i \in 1..Cardinality(S)
      PROVE  ip_addrs(S)[i] \in S /\ Cardinality(Preceding(S, ip_addrs(S)[i])) = i - 1
  <2>1. i - 1 \in 0..(Cardinality(S) - 1)
    BY <1>1
  <2>2. \E x \in S : Cardinality(Preceding(S, x)) = i - 1
    BY <2>1, EveryRank
  <2>3. ip_addrs(S)[i] = CHOOSE x \in S : Cardinality(Preceding(S, x)) = i - 1
    BY DEF ip_addrs, Preceding
  <2> QED BY <2>2, <2>3
<1>3. ASSUME NEW x \in S PROVE \E i \in 1..Cardinality(S) : ip_addrs(S)[i] = x
  <2> DEFINE n == Cardinality(Preceding(S, x))
  <2>1. n \in Nat /\ n < Cardinality(S)
    <3>1. Preceding(S, x) \in SUBSET S /\ x \notin Preceding(S, x)
      BY Placed DEF Preceding
    <3> QED BY <1>1, <3>1, FS_Subset, FS_CardinalityType
  <2>2. n + 1 \in 1..Cardinality(S)
    BY <1>1, <2>1
  <2> DEFINE found == ip_addrs(S)[n + 1]
  <2>3. found \in S /\ Cardinality(Preceding(S, found)) = n
    BY <1>2, <2>1, <2>2
  <2> HIDE DEF found
  <2>4. ASSUME NEW w \in S, NEW y \in S, Before(w, y)
        PROVE  Cardinality(Preceding(S, w)) # Cardinality(Preceding(S, y))
    <3>1. Preceding(S, w) \in SUBSET Preceding(S, y)
      BY <2>4, Placed DEF Preceding
    <3>2. w \in Preceding(S, y) /\ w \notin Preceding(S, w)
      BY <2>4, Placed DEF Preceding
    <3>3. IsFiniteSet(Preceding(S, y))
      BY <1>1, FS_Subset DEF Preceding
    <3> QED BY <3>1, <3>2, <3>3, FS_Subset
  <2>5. found = x
    <3>1. found = x \/ Before(found, x) \/ Before(x, found)
      BY <2>3, Placed
    <3> QED BY <3>1, <2>3, <2>4
  <2> QED BY <2>2, <2>5 DEF found
<1> QED BY <1>2, <1>3
-----------------------------------------------------------------------------
(* Prefixes. *)

\* Two addresses have some number of leading bits in common.
LEMMA PrefixType ==
    ASSUME NEW a \in Ip, NEW b
    PROVE  common_prefix_bits(a, b) \in 0..Width[a.family]
<1> DEFINE w == Width[a.family]
           common == {0} \cup {n \in 1..w : a.bits \div 2^(w - n) = b.bits \div 2^(w - n)}
<1>1. w \in Nat
  BY IpFields, AddrSelectAssumption
<1>2. common \in SUBSET Nat /\ common # {} /\ \A n \in common : n <= w
  BY <1>1
<1> HIDE DEF common, w
<1>3. Sets!Max(common) \in 0..w
  <2>1. Sets!Max(common) \in common
    BY <1>1, <1>2, GreatestNatural
  <2>2. \A m \in common : m \in 0..w
    BY <1>1, <1>2
  <2> QED BY <2>1, <2>2
<1> QED BY <1>1, <1>3 DEF common_prefix_bits, common, w

\* The score of an address is a number, whatever it is compared with.
LEMMA ScoreType ==
    ASSUME NEW a \in Ip, NEW locals
    PROVE  best_prefix_score(a, locals) \in Nat
<1> DEFINE scores == {0} \cup {common_prefix_bits(a, l) : l \in locals}
<1>1. Width[a.family] \in Nat
  BY IpFields, AddrSelectAssumption
<1>2. scores \in SUBSET Nat /\ scores # {} /\ \A n \in scores : n <= Width[a.family]
  BY <1>1, PrefixType
<1> HIDE DEF scores
<1>3. Sets!Max(scores) \in Nat
  BY <1>1, <1>2, GreatestNatural
<1> QED BY <1>3 DEF best_prefix_score, scores

-----------------------------------------------------------------------------
(* The loop of best_endpoint_addr_for_local. *)

\* What the loop has found after n addresses, if it had found what is in
\* best before.
Found(best, n, usable, local) ==
    IF n = 0 THEN {}
    ELSE LET x == ip_addrs(usable)[n]
         IN  IF \A current \in best[n - 1] : Better(x, current, local)
             THEN {x} ELSE best[n - 1]

\* There is a sequence of what it finds, and Selected is the last of it.
LEMMA LoopEnds ==
    ASSUME NEW remote \in SUBSET Ip, NEW local,
           NEW usable, usable = Usable(remote, local),
           NEW count \in Nat, count = Cardinality(usable)
    PROVE  \E best : /\ best = [n \in 0..count |-> Found(best, n, usable, local)]
                     /\ Selected(remote, local) = best[count]
<1> DEFINE Run(best, m) == best = [n \in 0..m |-> Found(best, n, usable, local)]
           bad == {m \in Nat : ~\E best : Run(best, m)}
<1>1. ASSUME bad # {} PROVE FALSE
  <2>1. PICK m \in bad : \A k \in bad : m <= k
    BY <1>1, LeastNatural
  <2>2. CASE m = 0
    <3> DEFINE best == [n \in 0..0 |-> {}]
    <3>1. Run(best, 0)
      BY DEF Found
    <3> QED BY <2>1, <2>2, <3>1
  <2>3. CASE m # 0
    <3>1. m - 1 \in Nat /\ m - 1 \notin bad
      BY <2>1, <2>3
    <3>2. PICK before : Run(before, m - 1)
      BY <3>1
    <3> DEFINE last == Found(before, m, usable, local)
               best == [n \in 0..m |-> IF n = m THEN last ELSE before[n]]
    <3>3. ASSUME NEW n \in 0..m PROVE best[n] = Found(best, n, usable, local)
      <4>1. n # 0 => n - 1 \in 0..(m - 1) /\ best[n - 1] = before[n - 1]
        BY <3>1
      <4>2. Found(best, n, usable, local) = Found(before, n, usable, local)
        BY <4>1 DEF Found
      <4>3. n # m => n \in 0..(m - 1)
        BY <3>1
      <4>4. n # m => before[n] = Found(before, n, usable, local)
        BY <3>2, <4>3
      <4> QED BY <4>2, <4>4
    <3>4. best = [n \in 0..m |-> best[n]]
      OBVIOUS
    <3> HIDE DEF best
    <3>5. Run(best, m)
      <4>1. [n \in 0..m |-> best[n]] = [n \in 0..m |-> Found(best, n, usable, local)]
        BY <3>3, Zenon
      <4> QED BY <3>4, <4>1, Zenon
    <3> QED BY <2>1, <3>5
  <2> QED BY <2>2, <2>3
<1>2. \E best : Run(best, count)
  BY <1>1
<1> QED BY <1>2 DEF Selected, Found

\* Being better is an order: by the score, then by the family.
LEMMA BetterOrder ==
    ASSUME NEW local
    PROVE  /\ \A a \in Ip : ~Better(a, a, local)
           /\ \A a, b \in Ip : Better(a, b, local) => ~Better(b, a, local)
           /\ \A a, b, c \in Ip : ~Better(a, b, local) /\ ~Better(b, c, local) => ~Better(a, c, local)
<1> DEFINE score(a) == best_prefix_score(a, local_ips(local))
<1>1. \A a \in Ip : score(a) \in Nat
  BY ScoreType
<1>2. \A a, b \in Ip : Better(a, b, local) <=>
         \/ score(a) > score(b)
         \/ score(a) = score(b) /\ Preferred(a, local) /\ ~Preferred(b, local)
  BY DEF Better
<1> HIDE DEF score
<1> QED BY <1>1, <1>2

\* The loop ends with an address than which no other is better, if there is one.
LEMMA SelectedBest ==
    ASSUME NEW remote \in SUBSET Ip, NEW local
    PROVE  IF Usable(remote, local) = {} THEN Selected(remote, local) = {}
           ELSE \E best \in Usable(remote, local) :
                   /\ Selected(remote, local) = {best}
                   /\ \A other \in Usable(remote, local) : ~Better(other, best, local)
<1> DEFINE usable == Usable(remote, local)
           count == Cardinality(usable)
<1>1. usable \in SUBSET Ip /\ IsFiniteSet(usable) /\ count \in Nat
  <2>1. usable \in SUBSET Ip
    BY DEF Usable
  <2> QED BY <2>1, IpFinite
<1>2. PICK best : /\ best = [n \in 0..count |-> Found(best, n, usable, local)]
                  /\ Selected(remote, local) = best[count]
  BY <1>1, LoopEnds
<1> HIDE DEF usable
<1>3. count = 0 <=> usable = {}
  BY <1>1, FS_EmptySet
<1> HIDE DEF count
<1>4. CASE usable = {}
  BY <1>1, <1>2, <1>3, <1>4 DEF Found, usable
<1>5. CASE usable # {}
  <2> DEFINE addr(i) == ip_addrs(usable)[i]
             Winner(x, n) == best[n] = {x} /\ \A i \in 1..n : ~Better(addr(i), x, local)
             bad == {n \in Nat : n \in 1..count /\ ~\E x \in usable : Winner(x, n)}
  <2>1. \A i \in 1..count : addr(i) \in usable
    BY <1>1, Enumerated DEF count
  <2>2. \A x \in usable : \E i \in 1..count : addr(i) = x
    BY <1>1, Enumerated DEF count
  <2>3. \A n \in 0..count : best[n] = Found(best, n, usable, local)
    BY <1>2
  <2>4. best[0] = {}
    <3>1. 0 \in 0..count
      BY <1>1
    <3>2. Found(best, 0, usable, local) = {}
      BY Zenon DEF Found
    <3> QED BY <2>3, <3>1, <3>2
  <2>5. \A n \in 1..count :
          best[n] = IF \A current \in best[n - 1] : Better(addr(n), current, local)
                    THEN {addr(n)} ELSE best[n - 1]
    <3> SUFFICES ASSUME NEW n \in 1..count
                 PROVE  best[n] = IF \A current \in best[n - 1] : Better(addr(n), current, local)
                                  THEN {addr(n)} ELSE best[n - 1]
      OBVIOUS
    <3>1. n \in 0..count /\ n # 0
      BY <1>1
    <3>2. best[n] = Found(best, n, usable, local)
      BY <2>3, <3>1
    <3> QED BY <3>1, <3>2, Zenon DEF Found
  <2> HIDE DEF addr
  <2>6. ASSUME bad # {} PROVE FALSE
    <3>1. PICK n \in bad : \A k \in bad : n <= k
      BY <2>6, LeastNatural
    <3>2. n \in 1..count /\ n \in Nat /\ addr(n) \in usable /\ addr(n) \in Ip
      BY <1>1, <2>1, <3>1
    <3>3. ~\E x \in usable : Winner(x, n)
      BY <3>1
    <3>4. CASE n = 1
      <4>1. best[1] = {addr(1)}
        <5>1. best[n - 1] = {}
          BY <2>4, <3>4
        <5> QED BY <2>5, <3>2, <3>4, <5>1
      <4>2. Winner(addr(1), 1)
        BY <4>1, <3>2, <3>4, BetterOrder
      <4> QED BY <3>2, <3>3, <3>4, <4>2
    <3>5. CASE n # 1
      <4>1. n - 1 \in 1..count /\ n - 1 \in Nat /\ n - 1 \notin bad
        BY <1>1, <3>1, <3>2, <3>5
      <4>2. PICK x \in usable : Winner(x, n - 1)
        BY <4>1
      <4>3. x \in Ip /\ \A i \in 1..n : i = n \/ i \in 1..(n - 1)
        BY <1>1, <3>2
      <4>4. \A i \in 1..n : addr(i) \in Ip
        BY <1>1, <2>1, <3>2
      <4>5. CASE Better(addr(n), x, local)
        <5>1. best[n] = {addr(n)}
          BY <4>2, <4>5, <2>5, <3>2
        <5>2. ~Better(x, addr(n), local) /\ ~Better(addr(n), addr(n), local)
          BY <3>2, <4>3, <4>5, BetterOrder
        <5>3. \A i \in 1..(n - 1) : ~Better(addr(i), addr(n), local)
          BY <3>2, <4>2, <4>3, <4>4, <5>2, BetterOrder
        <5>4. Winner(addr(n), n)
          BY <4>3, <5>1, <5>2, <5>3
        <5> QED BY <3>2, <3>3, <5>4
      <4>6. CASE ~Better(addr(n), x, local)
        <5>1. best[n] = {x}
          BY <4>2, <4>6, <2>5, <3>2
        <5>2. Winner(x, n)
          BY <4>2, <4>3, <4>6, <5>1
        <5> QED BY <3>3, <5>2
      <4> QED BY <4>5, <4>6
    <3> QED BY <3>4, <3>5
  <2>7. count \in 1..count
    BY <1>1, <1>3, <1>5
  <2>8. PICK x \in usable : Winner(x, count)
    BY <1>1, <2>6, <2>7
  <2>9. \A other \in usable : ~Better(other, x, local)
    BY <2>2, <2>8
  <2> QED BY <1>2, <1>5, <2>8, <2>9 DEF usable
<1> QED BY <1>4, <1>5

-----------------------------------------------------------------------------
(* Theorems. *)

\* In every state the records' addresses are addresses.
LEMMA KnownType ==
    ASSUME TypeOK, NEW d \in Daemon, NEW p \in Active(d)
    PROVE  Known(d, p) \in SUBSET Ip /\ Advertised(d) \in SUBSET Ip
BY AdvertisedType, StructuredAddresses DEF TypeOK, Directory, Active, Known, Record

\* Of the addresses that gathered in a record best_endpoint_addr_for_local
\* ends with one that is usable, than which none is closer, and which is of
\* the family that this daemon prefers if any that is as close is: however
\* many there are, of whatever width.
THEOREM SelectionCorrect == Spec => []SelectionIsBest
<1>1. ASSUME TypeOK PROVE SelectionIsBest
  <2> SUFFICES ASSUME NEW d \in up, NEW p \in Active(d), Advertised(d) # {},
                      NEW best \in best_endpoint_addr_for_local(Known(d, p), Advertised(d)),
                      NEW other \in Usable(Known(d, p), Advertised(d))
               PROVE  /\ best \in Usable(Known(d, p), Advertised(d))
                      /\ best_prefix_score(best, local_ips(Advertised(d)))
                           >= best_prefix_score(other, local_ips(Advertised(d)))
                      /\ /\ best_prefix_score(best, local_ips(Advertised(d)))
                             = best_prefix_score(other, local_ips(Advertised(d)))
                         /\ Preferred(other, Advertised(d))
                         => Preferred(best, Advertised(d))
    BY DEF SelectionIsBest
  <2> DEFINE own == Advertised(d)
             usable == Usable(Known(d, p), own)
             score(x) == best_prefix_score(x, local_ips(own))
  <2>1. d \in Daemon
    BY <1>1 DEF TypeOK
  <2>2. Known(d, p) \in SUBSET Ip
    BY <1>1, <2>1, KnownType
  <2>3. \E x \in usable : /\ Selected(Known(d, p), own) = {x}
                          /\ \A y \in usable : ~Better(y, x, own)
    BY <2>2, SelectedBest
  <2>4. best \in usable /\ ~Better(other, best, own)
    BY <2>3 DEF best_endpoint_addr_for_local
  <2>5. usable \subseteq Ip
    BY <2>2 DEF Usable
  <2>6. score(best) \in Nat /\ score(other) \in Nat
    BY <2>4, <2>5, ScoreType
  <2>7. ~(score(other) > score(best))
        /\ ~(score(other) = score(best) /\ Preferred(other, own) /\ ~Preferred(best, own))
    BY <2>4 DEF Better
  <2> QED BY <2>4, <2>6, <2>7
<1> QED BY <1>1, TypeCorrect, PTL

\* Every active peer with an address has one for its record in the hosts file,
\* and for being dialled, even if none of its addresses is usable from here.
THEOREM PeersNamed == Spec => []EveryPeerNamed
<1>1. ASSUME TypeOK PROVE EveryPeerNamed
  <2> SUFFICES ASSUME NEW d \in up, NEW p \in Active(d), Known(d, p) # {}
               PROVE  record_ip_for_local(Known(d, p), Advertised(d)) # {}
    BY DEF EveryPeerNamed, has_ip_addr
  <2> DEFINE chosen == best_endpoint_addr_for_local(Known(d, p), Advertised(d))
  <2>1. Known(d, p) \in SUBSET Ip
    BY <1>1, KnownType DEF TypeOK
  <2>2. chosen \in SUBSET Ip /\ chosen # {}
    BY <2>1, SelectedBest DEF best_endpoint_addr_for_local, Usable
  <2>3. Cardinality(chosen) \in Nat /\ Cardinality(chosen) # 0
    BY <2>2, IpFinite, FS_EmptySet
  <2>4. ip_addrs(chosen)[1] \in chosen
    BY <2>2, <2>3, Enumerated
  <2> QED BY <2>4 DEF record_ip_for_local
<1> QED BY <1>1, TypeCorrect, PTL
=============================================================================
