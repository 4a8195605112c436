--------------------------- MODULE AdminTasksProofs ---------------------------
(***************************************************************************)
(* TLAPS proofs about AdminTasks, for every set of peers, clients and      *)
(* connections and every interleaving of their handlers.                   *)
(***************************************************************************)
EXTENDS AdminTasks, SequenceTheorems, TLAPS

Operation == [op : Op, ids : SUBSET Id]

-----------------------------------------------------------------------------
(* What is said of the operations that a handler still has to do. *)

\* The ids of the operations of one of kinds that come before the i-th.
Before(ops, i, kinds) == UNION {ops[j].ids : j \in {k \in 1..(i - 1) : ops[k].op \in kinds}}

\* The peers of an operation of one of kinds are in base, or in an operation
\* of one of `by` that comes before it.
Needs(ops, kinds, by, base) ==
    \A i \in DOMAIN ops :
        ops[i].op \in kinds => ops[i].ids \cap Peer \subseteq base \cup Before(ops, i, by)

\* A removal is acknowledged by the last operation of its handler.
RemovedLast(ops) == \A i \in DOMAIN ops : ops[i].op = "removed" => i = Len(ops)

-----------------------------------------------------------------------------
(* The inductive invariant. *)

\* What a handler may still have to do, while everyone in T is trusted or
\* being removed, everyone in S stored or being removed, everyone in R being
\* removed, and everyone in A removed alone.  Clients are only put into the
\* active directory and the registry; whoever becomes active or is stored is
\* trusted before, and whoever is reported as added is stored before; only
\* what an admin removes is untrusted or deleted; nobody in A is re-admitted;
\* and a removal is reported at the very end.
Fit(ops, T, S, R, A) ==
    /\ ops \in Seq(Operation)
    /\ About(ops, {"refresh", "keep", "vouch", "trust", "commit", "save", "added"}) \subseteq Peer
    /\ About(ops, {"register"}) \subseteq Client
    /\ Needs(ops, {"upsert", "commit", "save", "added"}, {"vouch", "trust"}, T)
    /\ Needs(ops, {"added"}, {"save"}, S)
    /\ About(ops, {"untrust", "unsave"}) \subseteq R
    /\ A \cap Admits(ops) = {}
    /\ RemovedLast(ops)

HandlersFit ==
    \A t \in Task : Fit(task[t], trusted \cup revoked, stored \cup revoked, revoked, alone)

\* Who is still somewhere while a removal of it is not acknowledged is about
\* to be taken away from there, by this removal or by another one.
Pending(x, kind) ==
    \E t \in Task : x \in About(task[t], {kind}) /\ x \in About(task[t], {"removed"})

RemovalInv ==
    \A t \in Task : \A x \in alone \cap About(task[t], {"removed"}) :
        /\ x \in nodes => Pending(x, "drop")
        /\ x \in trusted => Pending(x, "untrust")
        /\ x \in stored => Pending(x, "unsave")

TasksInv ==
    /\ TypeOK /\ HandlersFit
    /\ KnownTrusted /\ AddedKept /\ added \cap revoked = {}
    /\ RemovedAloneGone /\ RemovalInv

-----------------------------------------------------------------------------
(* Sequences of operations, taken apart at their first one. *)

\* Operation o before those of ops.
Cons(o, ops) == <<o>> \o ops

\* What Cons is, as a sequence.
LEMMA ConsProperties ==
    ASSUME NEW o \in Operation, NEW ops \in Seq(Operation)
    PROVE  /\ Cons(o, ops) \in Seq(Operation)
           /\ Len(Cons(o, ops)) = Len(ops) + 1
           /\ Cons(o, ops)[1] = o
           /\ \A i \in DOMAIN ops : Cons(o, ops)[i + 1] = ops[i]
           /\ \A i \in DOMAIN Cons(o, ops) : i = 1 \/ (i - 1 \in DOMAIN ops /\ Cons(o, ops)[i] = ops[i - 1])
           /\ Head(Cons(o, ops)) = o
           /\ Tail(Cons(o, ops)) = ops
           /\ Cons(o, ops) # <<>>
BY DEF Cons

\* A handler with something to do has a first operation, and others.
LEMMA NextOperation ==
    ASSUME NEW ops \in Seq(Operation), ops # <<>>
    PROVE  /\ Head(ops) \in Operation /\ Tail(ops) \in Seq(Operation)
           /\ ops = Cons(Head(ops), Tail(ops))
BY DEF Cons

\* The ids of a longer handler: those of its first operation, and the others.
LEMMA AboutCons ==
    ASSUME NEW o \in Operation, NEW ops \in Seq(Operation), NEW kinds
    PROVE  About(Cons(o, ops), kinds) = About(ops, kinds) \cup IF o.op \in kinds THEN o.ids ELSE {}
<1> DEFINE all == Cons(o, ops)
<1>1. /\ all \in Seq(Operation) /\ Len(all) = Len(ops) + 1 /\ all[1] = o
      /\ \A i \in DOMAIN ops : all[i + 1] = ops[i]
      /\ \A i \in DOMAIN all : i = 1 \/ (i - 1 \in DOMAIN ops /\ all[i] = ops[i - 1])
  BY ConsProperties
<1> HIDE DEF all
<1>2. \A x : x \in About(all, kinds) <=> \E i \in DOMAIN all : all[i].op \in kinds /\ x \in all[i].ids
  BY DEF About
<1>3. \A x : x \in About(ops, kinds) <=> \E i \in DOMAIN ops : ops[i].op \in kinds /\ x \in ops[i].ids
  BY DEF About
<1>4. ASSUME NEW x \in About(all, kinds)
      PROVE  x \in About(ops, kinds) \cup IF o.op \in kinds THEN o.ids ELSE {}
  BY <1>1, <1>2, <1>3, <1>4
<1>5. ASSUME NEW x \in About(ops, kinds) \cup IF o.op \in kinds THEN o.ids ELSE {}
      PROVE  x \in About(all, kinds)
  <2>1. CASE x \in About(ops, kinds)
    <3>1. PICK i \in DOMAIN ops : ops[i].op \in kinds /\ x \in ops[i].ids
      BY <1>3, <2>1
    <3>2. i + 1 \in DOMAIN all
      BY <1>1
    <3> QED BY <1>1, <1>2, <3>1, <3>2
  <2>2. CASE x \notin About(ops, kinds)
    <3>1. o.op \in kinds /\ x \in o.ids /\ 1 \in DOMAIN all
      BY <1>1, <1>5, <2>2
    <3> QED BY <1>1, <1>2, <3>1
  <2> QED BY <2>1, <2>2
<1> QED BY <1>4, <1>5 DEF all

\* A handler that is done is about nobody ...
LEMMA AboutNone == \A kinds : About(<<>>, kinds) = {}
BY DEF About

\* The first operation's ids may serve those that come after it.
LEMMA NeedsCons ==
    ASSUME NEW o \in Operation, NEW ops \in Seq(Operation), NEW kinds, NEW by, NEW base
    PROVE  Needs(Cons(o, ops), kinds, by, base)
             <=> /\ o.op \in kinds => o.ids \cap Peer \subseteq base
                 /\ Needs(ops, kinds, by, base \cup IF o.op \in by THEN o.ids ELSE {})
<1> DEFINE all == Cons(o, ops)
           mine == IF o.op \in by THEN o.ids ELSE {}
<1>1. /\ all \in Seq(Operation) /\ Len(all) = Len(ops) + 1 /\ all[1] = o
      /\ \A i \in DOMAIN ops : all[i + 1] = ops[i]
      /\ \A i \in DOMAIN all : i = 1 \/ (i - 1 \in DOMAIN ops /\ all[i] = ops[i - 1])
  BY ConsProperties
<1> HIDE DEF all
<1>2. Before(all, 1, by) = {}
  BY DEF Before
<1>3. ASSUME NEW i \in DOMAIN ops
      PROVE  Before(all, i + 1, by) = mine \cup Before(ops, i, by)
  <2>1. \A x : x \in Before(all, i + 1, by) <=> \E j \in 1..i : all[j].op \in by /\ x \in all[j].ids
    BY DEF Before
  <2>2. \A x : x \in Before(ops, i, by)
                 <=> \E j \in 1..(i - 1) : ops[j].op \in by /\ x \in ops[j].ids
    BY DEF Before
  <2>3. ASSUME NEW x \in Before(all, i + 1, by) PROVE x \in mine \cup Before(ops, i, by)
    <3>1. PICK j \in 1..i : all[j].op \in by /\ x \in all[j].ids
      BY <2>1, <2>3
    <3>2. CASE j = 1
      BY <1>1, <3>1, <3>2
    <3>3. CASE j # 1
      <4>1. j \in DOMAIN all /\ j - 1 \in 1..(i - 1)
        BY <1>1, <3>3
      <4>2. all[j] = ops[j - 1]
        BY <1>1, <3>3, <4>1
      <4> QED BY <2>2, <3>1, <4>1, <4>2
    <3> QED BY <3>2, <3>3
  <2>4. ASSUME NEW x \in mine PROVE x \in Before(all, i + 1, by)
    BY <1>1, <2>1, <2>4
  <2>5. ASSUME NEW x \in Before(ops, i, by) PROVE x \in Before(all, i + 1, by)
    <3>1. PICK j \in 1..(i - 1) : ops[j].op \in by /\ x \in ops[j].ids
      BY <2>2, <2>5
    <3>2. j \in DOMAIN ops /\ j + 1 \in 1..i
      OBVIOUS
    <3> QED BY <1>1, <2>1, <3>1, <3>2
  <2> HIDE DEF mine
  <2> QED BY <2>3, <2>4, <2>5
<1> HIDE DEF mine
<1>4. ASSUME Needs(all, kinds, by, base)
      PROVE  /\ o.op \in kinds => o.ids \cap Peer \subseteq base
             /\ Needs(ops, kinds, by, base \cup mine)
  <2>1. 1 \in DOMAIN all
    BY <1>1
  <2>2. o.op \in kinds => o.ids \cap Peer \subseteq base
    BY <1>1, <1>2, <1>4, <2>1 DEF Needs
  <2>3. ASSUME NEW i \in DOMAIN ops, ops[i].op \in kinds
        PROVE  ops[i].ids \cap Peer \subseteq (base \cup mine) \cup Before(ops, i, by)
    <3>1. i + 1 \in DOMAIN all /\ all[i + 1] = ops[i]
      BY <1>1
    <3> QED BY <1>3, <1>4, <2>3, <3>1 DEF Needs
  <2> QED BY <2>2, <2>3 DEF Needs
<1>5. ASSUME o.op \in kinds => o.ids \cap Peer \subseteq base,
             Needs(ops, kinds, by, base \cup mine)
      PROVE  Needs(all, kinds, by, base)
  <2> SUFFICES ASSUME NEW i \in DOMAIN all, all[i].op \in kinds
               PROVE  all[i].ids \cap Peer \subseteq base \cup Before(all, i, by)
    BY DEF Needs
  <2>1. CASE i = 1
    BY <1>1, <1>2, <1>5, <2>1
  <2>2. CASE i # 1
    <3>1. i - 1 \in DOMAIN ops /\ all[i] = ops[i - 1]
      BY <1>1, <2>2
    <3>2. ops[i - 1].ids \cap Peer \subseteq (base \cup mine) \cup Before(ops, i - 1, by)
      BY <1>5, <3>1 DEF Needs
    <3>3. Before(all, (i - 1) + 1, by) = mine \cup Before(ops, i - 1, by)
      BY <1>3, <3>1
    <3>4. (i - 1) + 1 = i
      BY <1>1
    <3> QED BY <3>1, <3>2, <3>3, <3>4
  <2> QED BY <2>1, <2>2
<1> QED BY <1>4, <1>5 DEF all, mine

\* More trust never hurts.
LEMMA NeedsMore ==
    ASSUME NEW ops, NEW kinds, NEW by, NEW base, NEW more,
           base \subseteq more, Needs(ops, kinds, by, base)
    PROVE  Needs(ops, kinds, by, more)
BY DEF Needs

\* ... and needs nobody.
LEMMA NeedsNone == \A kinds, by, base : Needs(<<>>, kinds, by, base)
BY DEF Needs

\* Only an operation that nothing follows may report a removal.
LEMMA LastCons ==
    ASSUME NEW o \in Operation, NEW ops \in Seq(Operation)
    PROVE  RemovedLast(Cons(o, ops))
             <=> RemovedLast(ops) /\ (o.op = "removed" => ops = <<>>)
<1>1. /\ Cons(o, ops) \in Seq(Operation) /\ Len(Cons(o, ops)) = Len(ops) + 1
      /\ Cons(o, ops)[1] = o
      /\ \A i \in DOMAIN ops : Cons(o, ops)[i + 1] = ops[i]
      /\ \A i \in DOMAIN Cons(o, ops) :
            i = 1 \/ (i - 1 \in DOMAIN ops /\ Cons(o, ops)[i] = ops[i - 1])
  BY ConsProperties
<1>2. ASSUME RemovedLast(Cons(o, ops))
      PROVE  RemovedLast(ops) /\ (o.op = "removed" => ops = <<>>)
  <2>1. ASSUME NEW i \in DOMAIN ops, ops[i].op = "removed" PROVE i = Len(ops)
    <3>1. i + 1 \in DOMAIN Cons(o, ops) /\ Cons(o, ops)[i + 1] = ops[i]
      BY <1>1
    <3> QED BY <1>1, <1>2, <2>1, <3>1 DEF RemovedLast
  <2>2. ASSUME o.op = "removed" PROVE ops = <<>>
    <3>1. 1 \in DOMAIN Cons(o, ops)
      BY <1>1
    <3> QED BY <1>1, <1>2, <2>2, <3>1 DEF RemovedLast
  <2> QED BY <2>1, <2>2 DEF RemovedLast
<1>3. ASSUME RemovedLast(ops), o.op = "removed" => ops = <<>>
      PROVE  RemovedLast(Cons(o, ops))
  <2> SUFFICES ASSUME NEW i \in DOMAIN Cons(o, ops), Cons(o, ops)[i].op = "removed"
               PROVE  i = Len(Cons(o, ops))
    BY DEF RemovedLast
  <2>1. CASE i = 1
    BY <1>1, <1>3, <2>1
  <2>2. CASE i # 1
    BY <1>1, <1>3, <2>2 DEF RemovedLast
  <2> QED BY <2>1, <2>2
<1> QED BY <1>2, <1>3

\* What Fit says of one operation that others, rest, come after.
OpFits(o, rest, T, S, R, A) ==
    /\ o.op \in {"refresh", "keep", "vouch", "trust", "commit", "save", "added"} => o.ids \subseteq Peer
    /\ o.op = "register" => o.ids \subseteq Client
    /\ o.op \in {"upsert", "commit", "save", "added"} => o.ids \cap Peer \subseteq T
    /\ o.op = "added" => o.ids \cap Peer \subseteq S
    /\ o.op \in {"untrust", "unsave"} => o.ids \subseteq R
    /\ o.op \in {"refresh", "keep", "vouch", "trust", "upsert", "commit", "save"} => A \cap o.ids = {}
    /\ o.op = "removed" => rest = <<>>

\* A handler fits if its first operation does, and the others do once it is done.
LEMMA FitCons ==
    ASSUME NEW o \in Operation, NEW ops \in Seq(Operation), NEW T, NEW S, NEW R, NEW A
    PROVE  Fit(Cons(o, ops), T, S, R, A)
             <=> /\ OpFits(o, ops, T, S, R, A)
                 /\ Fit(ops, T \cup (IF o.op \in {"vouch", "trust"} THEN o.ids ELSE {}),
                             S \cup (IF o.op = "save" THEN o.ids ELSE {}), R, A)
<1> DEFINE all == Cons(o, ops)
           T2 == T \cup (IF o.op \in {"vouch", "trust"} THEN o.ids ELSE {})
           S2 == S \cup (IF o.op = "save" THEN o.ids ELSE {})
           Listed(kinds) == IF o.op \in kinds THEN o.ids ELSE {}
<1>1. all \in Seq(Operation)
  BY ConsProperties
<1>2. \A kinds : About(all, kinds) = About(ops, kinds) \cup Listed(kinds)
  BY AboutCons
<1>3. Needs(all, {"upsert", "commit", "save", "added"}, {"vouch", "trust"}, T)
        <=> /\ o.op \in {"upsert", "commit", "save", "added"} => o.ids \cap Peer \subseteq T
            /\ Needs(ops, {"upsert", "commit", "save", "added"}, {"vouch", "trust"}, T2)
  BY NeedsCons
<1>4. Needs(all, {"added"}, {"save"}, S)
        <=> /\ o.op \in {"added"} => o.ids \cap Peer \subseteq S
            /\ Needs(ops, {"added"}, {"save"}, S \cup Listed({"save"}))
  BY NeedsCons
<1>5. S \cup Listed({"save"}) = S2
  OBVIOUS
<1>6. RemovedLast(all) <=> RemovedLast(ops) /\ (o.op = "removed" => ops = <<>>)
  BY LastCons
<1>7. About(all, {"refresh", "keep", "vouch", "trust", "commit", "save", "added"}) \subseteq Peer
        <=> /\ About(ops, {"refresh", "keep", "vouch", "trust", "commit", "save", "added"}) \subseteq Peer
            /\ o.op \in {"refresh", "keep", "vouch", "trust", "commit", "save", "added"}
                 => o.ids \subseteq Peer
  BY <1>2
<1>8. About(all, {"register"}) \subseteq Client
        <=> About(ops, {"register"}) \subseteq Client /\ (o.op = "register" => o.ids \subseteq Client)
  BY <1>2
<1>9. About(all, {"untrust", "unsave"}) \subseteq R
        <=> /\ About(ops, {"untrust", "unsave"}) \subseteq R
            /\ o.op \in {"untrust", "unsave"} => o.ids \subseteq R
  BY <1>2
<1>10. A \cap Admits(all) = {}
         <=> /\ A \cap Admits(ops) = {}
             /\ o.op \in {"refresh", "keep", "vouch", "trust", "upsert", "commit", "save"}
                  => A \cap o.ids = {}
  BY <1>2 DEF Admits
<1> HIDE DEF all, T2, S2, Listed
<1>11. Needs(all, {"added"}, {"save"}, S)
         <=> /\ o.op = "added" => o.ids \cap Peer \subseteq S
             /\ Needs(ops, {"added"}, {"save"}, S2)
  BY <1>4, <1>5
<1>12. Fit(all, T, S, R, A) <=> OpFits(o, ops, T, S, R, A) /\ Fit(ops, T2, S2, R, A)
  BY <1>1, <1>3, <1>6, <1>7, <1>8, <1>9, <1>10, <1>11 DEF Fit, OpFits
<1> QED BY <1>12 DEF all, T2, S2

\* More trusted, stored or removed nodes never hurt, nor fewer removed alone.
LEMMA FitMore ==
    ASSUME NEW ops, NEW T, NEW S, NEW R, NEW A, Fit(ops, T, S, R, A),
           NEW T2, NEW S2, NEW R2, NEW A2,
           T \subseteq T2, S \subseteq S2, R \subseteq R2, A2 \subseteq A
    PROVE  Fit(ops, T2, S2, R2, A2)
BY NeedsMore DEF Fit

\* A handler that is done fits.
LEMMA FitNone == \A T, S, R, A : Fit(<<>>, T, S, R, A)
BY AboutNone, NeedsNone DEF Fit, Admits, RemovedLast

-----------------------------------------------------------------------------
(* What the first operation of a handler does, whichever it is. *)

\* Operation h of t, before rest, changes the maps as its kind says.
Effect(t, h, rest) ==
    /\ h \in Operation /\ rest \in Seq(Operation)
    /\ task[t] = Cons(h, rest)
    /\ nodes' = IF h.op = "upsert" THEN nodes \cup h.ids
                ELSE IF h.op = "drop" THEN nodes \ h.ids ELSE nodes
    /\ trusted' = IF h.op \in {"vouch", "trust"} THEN trusted \cup h.ids
                  ELSE IF h.op = "untrust" THEN trusted \ h.ids ELSE trusted
    /\ stored' = IF h.op \in {"commit", "save"} THEN stored \cup h.ids
                 ELSE IF h.op = "unsave" THEN stored \ h.ids ELSE stored
    /\ clients' = IF h.op = "register" THEN clients \cup h.ids
                  ELSE IF h.op = "unregister" THEN clients \ h.ids ELSE clients
    /\ alone' = IF h.op = "snapshot" THEN alone \ trusted ELSE alone
    /\ added' = IF h.op = "added" THEN added \cup (h.ids \ revoked) ELSE added
    /\ removed' = IF h.op = "removed"
                  THEN removed \cup (h.ids \ UNION {About(task[u], {"removed"}) : u \in Task \ {t}})
                  ELSE removed
    /\ UNCHANGED <<unvouched, revoked, used>>

\* It leaves the rest of its handler, or puts up to two operations before it.
Follows(t, h, rest) ==
    \E then \in Seq(Operation) :
        /\ task' = [task EXCEPT ![t] = then]
        /\ \/ then = rest
           \/ /\ h.op \in {"keep", "stale", "duplicates", "snapshot"}
              /\ \E o \in Operation : /\ o.op \in {"trust", "drop", "commit"}
                                      /\ OpFits(o, rest, trusted \cup revoked, stored \cup revoked,
                                                revoked, alone')
                                      /\ then = Cons(o, rest)
           \/ /\ h.op = "refresh"
              /\ h.ids \cap Peer \subseteq trusted \cup revoked
              /\ then = Cons(Do("keep", h.ids), Cons(Do("upsert", h.ids), rest))

OperationStep(t) ==
    \E h \in Operation, rest \in Seq(Operation) : Effect(t, h, rest) /\ Follows(t, h, rest)

\* An idle task has nothing to do next.
LEMMA FirstOperation ==
    ASSUME TypeOK, NEW t \in Task, task[t] # <<>>
    PROVE  /\ task[t] \in Seq(Operation)
           /\ Head(task[t]) \in Operation /\ Tail(task[t]) \in Seq(Operation)
           /\ task[t] = Cons(Head(task[t]), Tail(task[t]))
BY NextOperation DEF TypeOK, Operation

\* What the first operation of a handler that fits is, and what is left of it.
LEMMA FirstFits ==
    ASSUME TasksInv, NEW t \in Task, task[t] # <<>>
    PROVE  /\ OpFits(Head(task[t]), Tail(task[t]), trusted \cup revoked, stored \cup revoked,
                     revoked, alone)
           /\ Head(task[t]) \in Operation /\ Tail(task[t]) \in Seq(Operation)
           /\ task[t] = Cons(Head(task[t]), Tail(task[t]))
BY FirstOperation, FitCons DEF TasksInv, HandlersFit

\* refresh_sender_observed_addr changes nothing yet: the entry it read is trusted.
LEMMA RefreshEffect ==
    ASSUME TasksInv, NEW t \in Task, Refresh(t)
    PROVE  OperationStep(t)
<1> DEFINE h == Head(task[t])
           rest == Tail(task[t])
<1>1. task[t] # <<>> /\ h.op = "refresh"
  BY DEF Refresh, Doing
<1>2. /\ OpFits(h, rest, trusted \cup revoked, stored \cup revoked, revoked, alone)
      /\ h \in Operation /\ rest \in Seq(Operation) /\ task[t] = Cons(h, rest)
  BY <1>1, FirstFits
<1>3. UNCHANGED <<maps, history, used>>
  BY DEF Refresh
<1>4. \/ task' = [task EXCEPT ![t] = <<>> \o rest]
      \/ /\ h.ids \subseteq nodes
         /\ task' = [task EXCEPT ![t] = <<Do("keep", h.ids), Do("upsert", h.ids)>> \o rest]
  BY DEF Refresh, Done, Ids, TasksInv, TypeOK
<1> HIDE DEF h, rest
<1>5. Effect(t, h, rest)
  BY <1>1, <1>2, <1>3 DEF Effect, maps, history
<1>6. CASE task' = [task EXCEPT ![t] = <<>> \o rest]
  <2>1. <<>> \o rest = rest
    BY <1>2
  <2> QED BY <1>2, <1>5, <1>6, <2>1 DEF Follows, OperationStep
<1>7. CASE /\ h.ids \subseteq nodes
           /\ task' = [task EXCEPT ![t] = <<Do("keep", h.ids), Do("upsert", h.ids)>> \o rest]
  <2>1. Do("keep", h.ids) \in Operation /\ Do("upsert", h.ids) \in Operation
    BY <1>2 DEF Do, Operation, Op
  <2>2. /\ <<Do("keep", h.ids), Do("upsert", h.ids)>> \o rest
             = Cons(Do("keep", h.ids), Cons(Do("upsert", h.ids), rest))
        /\ Cons(Do("keep", h.ids), Cons(Do("upsert", h.ids), rest)) \in Seq(Operation)
    BY <1>2, <2>1 DEF Cons
  <2>3. h.ids \cap Peer \subseteq trusted \cup revoked
    BY <1>7 DEF TasksInv, KnownTrusted
  <2> QED BY <1>1, <1>2, <1>5, <1>7, <2>2, <2>3 DEF Follows, OperationStep
<1> QED BY <1>4, <1>6, <1>7

\* A step that puts one operation before the rest.
LEMMA InsertFollows ==
    ASSUME NEW t \in Task, NEW h \in Operation, NEW rest \in Seq(Operation),
           h.op \in {"keep", "stale", "duplicates", "snapshot"},
           NEW o \in Operation, o.op \in {"trust", "drop", "commit"},
           OpFits(o, rest, trusted \cup revoked, stored \cup revoked, revoked, alone'),
           task' = [task EXCEPT ![t] = <<o>> \o rest]
    PROVE  Follows(t, h, rest)
<1>1. <<o>> \o rest = Cons(o, rest) /\ Cons(o, rest) \in Seq(Operation)
  BY DEF Cons
<1> QED BY <1>1 DEF Follows

\* A step that leaves the rest as it was.
LEMMA PlainFollows ==
    ASSUME NEW t \in Task, NEW h, NEW rest \in Seq(Operation),
           task' = [task EXCEPT ![t] = <<>> \o rest]
    PROVE  Follows(t, h, rest)
<1>1. <<>> \o rest = rest
  OBVIOUS
<1> QED BY <1>1 DEF Follows

\* It puts a trusted entry back in the trusted map.
LEMMA KeepEffect ==
    ASSUME TasksInv, NEW t \in Task, Keep(t)
    PROVE  OperationStep(t)
<1> DEFINE h == Head(task[t])
           rest == Tail(task[t])
           o == Do("trust", h.ids)
<1>1. task[t] # <<>> /\ h.op = "keep"
  BY DEF Keep, Doing
<1>2. /\ OpFits(h, rest, trusted \cup revoked, stored \cup revoked, revoked, alone)
      /\ h \in Operation /\ rest \in Seq(Operation) /\ task[t] = Cons(h, rest)
  BY <1>1, FirstFits
<1>3. UNCHANGED <<maps, history, used>>
  BY DEF Keep
<1>4. \/ task' = [task EXCEPT ![t] = <<>> \o rest]
      \/ task' = [task EXCEPT ![t] = <<o>> \o rest]
  BY DEF Keep, Done, Ids
<1>5. o \in Operation /\ o.op = "trust" /\ o.ids = h.ids
  BY <1>2 DEF Do, Operation, Op
<1> HIDE DEF h, rest, o
<1>6. Effect(t, h, rest)
  BY <1>1, <1>2, <1>3 DEF Effect, maps, history
<1>7. OpFits(o, rest, trusted \cup revoked, stored \cup revoked, revoked, alone')
  BY <1>1, <1>2, <1>3, <1>5 DEF OpFits, history
<1>8. Follows(t, h, rest)
  BY <1>1, <1>2, <1>4, <1>5, <1>7, PlainFollows, InsertFollows
<1> QED BY <1>2, <1>6, <1>8 DEF OperationStep

\* cleanup() collects the ids it is going to drop.
LEMMA PruneEffect ==
    ASSUME TasksInv, NEW t \in Task, Prune(t)
    PROVE  OperationStep(t)
<1> DEFINE h == Head(task[t])
           rest == Tail(task[t])
<1>1. task[t] # <<>> /\ h.op \in {"stale", "duplicates"}
  BY DEF Prune, Doing
<1>2. /\ h \in Operation /\ rest \in Seq(Operation) /\ task[t] = Cons(h, rest)
  BY <1>1, FirstFits
<1>3. UNCHANGED <<maps, history, used>>
  BY DEF Prune
<1>4. PICK ids \in SUBSET nodes : task' = [task EXCEPT ![t] = <<Do("drop", ids)>> \o rest]
  BY DEF Prune, Done
<1>5. Do("drop", ids) \in Operation /\ Do("drop", ids).op = "drop"
  BY DEF Do, Operation, Op, TasksInv, TypeOK
<1> HIDE DEF h, rest
<1>6. Effect(t, h, rest)
  BY <1>1, <1>2, <1>3 DEF Effect, maps, history
<1>7. OpFits(Do("drop", ids), rest, trusted \cup revoked, stored \cup revoked, revoked, alone')
  BY <1>5 DEF OpFits
<1>8. Follows(t, h, rest)
  BY <1>1, <1>2, <1>4, <1>5, <1>7, InsertFollows
<1> QED BY <1>2, <1>6, <1>8 DEF OperationStep

\* save() collects the trusted records; whoever is among them may come back.
LEMMA SnapshotEffect ==
    ASSUME TasksInv, NEW t \in Task, Snapshot(t)
    PROVE  OperationStep(t)
<1> DEFINE h == Head(task[t])
           rest == Tail(task[t])
<1>1. task[t] # <<>> /\ h.op = "snapshot"
  BY DEF Snapshot, Doing
<1>2. /\ h \in Operation /\ rest \in Seq(Operation) /\ task[t] = Cons(h, rest)
  BY <1>1, FirstFits
<1>3. /\ UNCHANGED <<maps, removed, unvouched, revoked, added, used>>
      /\ alone' = alone \ trusted
  BY DEF Snapshot
<1>4. task' = [task EXCEPT ![t] = <<Do("commit", trusted)>> \o rest]
  BY DEF Snapshot, Done
<1>5. PICK ids \in SUBSET Peer : ids = trusted
  BY DEF TasksInv, TypeOK
<1>6. /\ Do("commit", ids) \in Operation /\ Do("commit", ids).op = "commit"
      /\ Do("commit", ids).ids = trusted
  BY <1>5 DEF Do, Operation, Op, Id
<1> HIDE DEF h, rest
<1>7. Effect(t, h, rest)
  BY <1>1, <1>2, <1>3 DEF Effect, maps
<1>8. OpFits(Do("commit", ids), rest, trusted \cup revoked, stored \cup revoked, revoked, alone')
  BY <1>3, <1>5, <1>6 DEF OpFits
<1>9. Follows(t, h, rest)
  BY <1>1, <1>2, <1>4, <1>5, <1>6, <1>8, InsertFollows
<1> QED BY <1>2, <1>7, <1>9 DEF OperationStep

\* Operations on one map, and the two answers.
LEMMA SimpleEffect ==
    ASSUME TasksInv, NEW t \in Task,
           \/ MapStep(t) \/ Commit(t) \/ StorageStep(t) \/ AckAdded(t) \/ AckRemoved(t)
    PROVE  OperationStep(t)
<1> DEFINE h == Head(task[t])
           rest == Tail(task[t])
<1>1. task[t] # <<>>
  BY DEF MapStep, Commit, StorageStep, AckAdded, AckRemoved, Doing
<1>2. /\ h \in Operation /\ rest \in Seq(Operation) /\ task[t] = Cons(h, rest)
  BY <1>1, FirstFits
<1>3. task' = [task EXCEPT ![t] = <<>> \o rest]
  BY DEF MapStep, Commit, StorageStep, AckAdded, AckRemoved, Done
<1>4. Effect(t, h, rest)
  <2>1. CASE MapStep(t)
    BY <1>2, <2>1 DEF Effect, MapStep, Doing, Ids, history
  <2>2. CASE Commit(t) \/ StorageStep(t)
    BY <1>2, <2>2 DEF Effect, Commit, StorageStep, Doing, Ids, history
  <2>3. CASE AckAdded(t)
    BY <1>2, <2>3 DEF Effect, AckAdded, Doing, Ids, maps
  <2>4. CASE AckRemoved(t)
    BY <1>2, <2>4 DEF Effect, AckRemoved, Doing, Ids, maps
  <2> QED BY <2>1, <2>2, <2>3, <2>4
<1> HIDE DEF h, rest
<1>5. Follows(t, h, rest)
  BY <1>2, <1>3, PlainFollows
<1> QED BY <1>2, <1>4, <1>5 DEF OperationStep

-----------------------------------------------------------------------------
(* An operation keeps the invariant. *)

\* What is left of a handler when its first operation is done still fits.
LEMMA RestFits ==
    ASSUME TasksInv, NEW t \in Task, NEW h, NEW rest, Effect(t, h, rest)
    PROVE  /\ h \in Operation /\ rest \in Seq(Operation)
           /\ OpFits(h, rest, trusted \cup revoked, stored \cup revoked, revoked, alone)
           /\ trusted \cup revoked \subseteq trusted' \cup revoked'
           /\ stored \cup revoked \subseteq stored' \cup revoked'
           /\ alone' \subseteq alone
           /\ Fit(rest, trusted' \cup revoked', stored' \cup revoked', revoked', alone')
<1>1. h \in Operation /\ rest \in Seq(Operation) /\ task[t] = Cons(h, rest)
  BY DEF Effect
<1>2. Fit(task[t], trusted \cup revoked, stored \cup revoked, revoked, alone)
  BY DEF TasksInv, HandlersFit
<1>3. /\ OpFits(h, rest, trusted \cup revoked, stored \cup revoked, revoked, alone)
      /\ Fit(rest, (trusted \cup revoked) \cup (IF h.op \in {"vouch", "trust"} THEN h.ids ELSE {}),
                   (stored \cup revoked) \cup (IF h.op = "save" THEN h.ids ELSE {}),
                   revoked, alone)
  BY <1>1, <1>2, FitCons
<1>4. revoked' = revoked /\ alone' \subseteq alone
  BY DEF Effect
<1>5. h.op \in {"untrust", "unsave"} => h.ids \subseteq revoked
  BY <1>3 DEF OpFits
<1>6. /\ (trusted \cup revoked) \cup (IF h.op \in {"vouch", "trust"} THEN h.ids ELSE {})
            \subseteq trusted' \cup revoked'
      /\ (stored \cup revoked) \cup (IF h.op = "save" THEN h.ids ELSE {})
            \subseteq stored' \cup revoked'
  BY <1>4, <1>5 DEF Effect
<1>7. Fit(rest, trusted' \cup revoked', stored' \cup revoked', revoked', alone')
  BY <1>3, <1>4, <1>6, FitMore
<1> QED BY <1>1, <1>3, <1>4, <1>6, <1>7

\* So does what it puts before the rest, and so do the other handlers.
LEMMA FitAfter ==
    ASSUME TasksInv, NEW t \in Task, NEW h, NEW rest, Effect(t, h, rest), Follows(t, h, rest)
    PROVE  HandlersFit'
<1>1. /\ h \in Operation /\ rest \in Seq(Operation)
      /\ OpFits(h, rest, trusted \cup revoked, stored \cup revoked, revoked, alone)
      /\ trusted \cup revoked \subseteq trusted' \cup revoked'
      /\ stored \cup revoked \subseteq stored' \cup revoked'
      /\ alone' \subseteq alone
      /\ Fit(rest, trusted' \cup revoked', stored' \cup revoked', revoked', alone')
  BY RestFits
<1>2. revoked' = revoked
  BY DEF Effect
<1>3. PICK then \in Seq(Operation) :
        /\ task' = [task EXCEPT ![t] = then]
        /\ \/ then = rest
           \/ /\ h.op \in {"keep", "stale", "duplicates", "snapshot"}
              /\ \E o \in Operation : /\ o.op \in {"trust", "drop", "commit"}
                                      /\ OpFits(o, rest, trusted \cup revoked, stored \cup revoked,
                                                revoked, alone')
                                      /\ then = Cons(o, rest)
           \/ /\ h.op = "refresh"
              /\ h.ids \cap Peer \subseteq trusted \cup revoked
              /\ then = Cons(Do("keep", h.ids), Cons(Do("upsert", h.ids), rest))
  BY DEF Follows
<1>4. Fit(then, trusted' \cup revoked', stored' \cup revoked', revoked', alone')
  <2>1. CASE then = rest
    BY <1>1, <2>1
  <2>2. ASSUME NEW o \in Operation, o.op \in {"trust", "drop", "commit"},
               OpFits(o, rest, trusted \cup revoked, stored \cup revoked, revoked, alone'),
               then = Cons(o, rest)
        PROVE  Fit(then, trusted' \cup revoked', stored' \cup revoked', revoked', alone')
    <3>1. OpFits(o, rest, trusted' \cup revoked', stored' \cup revoked', revoked', alone')
      BY <1>1, <1>2, <2>2 DEF OpFits
    <3>2. Fit(rest, (trusted' \cup revoked') \cup (IF o.op \in {"vouch", "trust"} THEN o.ids ELSE {}),
                    (stored' \cup revoked') \cup (IF o.op = "save" THEN o.ids ELSE {}),
                    revoked', alone')
      BY <1>1, FitMore
    <3> QED BY <1>1, <2>2, <3>1, <3>2, FitCons
  <2>3. CASE /\ h.op = "refresh"
             /\ h.ids \cap Peer \subseteq trusted \cup revoked
             /\ then = Cons(Do("keep", h.ids), Cons(Do("upsert", h.ids), rest))
    <3> DEFINE o == Do("keep", h.ids)
               q == Do("upsert", h.ids)
    <3>1. /\ o \in Operation /\ o.op = "keep" /\ o.ids = h.ids
          /\ q \in Operation /\ q.op = "upsert" /\ q.ids = h.ids
      BY <1>1 DEF Do, Operation, Op
    <3>2. h.ids \subseteq Peer /\ alone \cap h.ids = {}
      BY <1>1, <2>3 DEF OpFits
    <3> HIDE DEF o, q
    <3>3. Cons(q, rest) \in Seq(Operation)
      BY <1>1, <3>1, ConsProperties
    <3>4. /\ OpFits(q, rest, trusted' \cup revoked', stored' \cup revoked', revoked', alone')
          /\ OpFits(o, Cons(q, rest), trusted' \cup revoked', stored' \cup revoked', revoked', alone')
      BY <1>1, <2>3, <3>1, <3>2 DEF OpFits
    <3>5. Fit(Cons(q, rest), trusted' \cup revoked', stored' \cup revoked', revoked', alone')
      <4>1. Fit(rest, (trusted' \cup revoked') \cup (IF q.op \in {"vouch", "trust"} THEN q.ids ELSE {}),
                      (stored' \cup revoked') \cup (IF q.op = "save" THEN q.ids ELSE {}),
                      revoked', alone')
        BY <1>1, FitMore
      <4> QED BY <1>1, <3>1, <3>4, <4>1, FitCons
    <3>6. Fit(Cons(o, Cons(q, rest)), trusted' \cup revoked', stored' \cup revoked', revoked', alone')
      <4>1. Fit(Cons(q, rest),
                (trusted' \cup revoked') \cup (IF o.op \in {"vouch", "trust"} THEN o.ids ELSE {}),
                (stored' \cup revoked') \cup (IF o.op = "save" THEN o.ids ELSE {}),
                revoked', alone')
        BY <3>5, FitMore
      <4> QED BY <3>1, <3>3, <3>4, <4>1, FitCons
    <3> QED BY <2>3, <3>6 DEF o, q
  <2> QED BY <1>3, <2>1, <2>2, <2>3
<1>5. ASSUME NEW u \in Task
      PROVE  Fit(task'[u], trusted' \cup revoked', stored' \cup revoked', revoked', alone')
  <2>1. task \in [Task -> Seq(Operation)]
    BY DEF TasksInv, TypeOK, Operation
  <2>2. CASE u = t
    BY <1>3, <1>4, <2>1, <2>2
  <2>3. CASE u # t
    <3>1. task'[u] = task[u]
      BY <1>3, <2>1, <2>3
    <3>2. Fit(task[u], trusted \cup revoked, stored \cup revoked, revoked, alone)
      BY DEF TasksInv, HandlersFit
    <3> QED BY <1>1, <1>2, <3>1, <3>2, FitMore
  <2> QED BY <2>2, <2>3
<1> QED BY <1>5 DEF HandlersFit

\* The maps stay typed, and related as they were.
LEMMA MapsAfter ==
    ASSUME TasksInv, NEW t \in Task, NEW h, NEW rest, Effect(t, h, rest), Follows(t, h, rest)
    PROVE  TypeOK' /\ KnownTrusted' /\ AddedKept' /\ (added \cap revoked = {})' /\ RemovedAloneGone'
<1>1. /\ h \in Operation /\ rest \in Seq(Operation)
      /\ OpFits(h, rest, trusted \cup revoked, stored \cup revoked, revoked, alone)
      /\ trusted \cup revoked \subseteq trusted' \cup revoked'
      /\ stored \cup revoked \subseteq stored' \cup revoked'
      /\ alone' \subseteq alone
  BY RestFits
<1>2. h.ids \subseteq Id
  BY <1>1 DEF Operation
<1>3. UNCHANGED <<unvouched, revoked, used>>
  BY DEF Effect
<1>4. TypeOK'
  <2>1. task' \in [Task -> Seq(Operation)]
    BY DEF Follows, TasksInv, TypeOK, Operation
  <2>2. nodes' \subseteq Id /\ trusted' \subseteq Peer /\ stored' \subseteq Peer /\ clients' \subseteq Client
    BY <1>1, <1>2 DEF Effect, OpFits, TasksInv, TypeOK
  <2>3. removed' \subseteq Id /\ alone' \subseteq Id /\ added' \subseteq Id
    BY <1>1, <1>2 DEF Effect, TasksInv, TypeOK
  <2> QED BY <1>3, <2>1, <2>2, <2>3 DEF TasksInv, TypeOK, Operation
<1>5. KnownTrusted'
  <2>1. (nodes \cap Peer) \cup stored \subseteq trusted \cup revoked
    BY DEF TasksInv, KnownTrusted
  <2>2. /\ h.op = "upsert" => h.ids \cap Peer \subseteq trusted \cup revoked
        /\ h.op \in {"commit", "save"} => h.ids \subseteq trusted \cup revoked
    BY <1>1 DEF OpFits
  <2>3. nodes' \cap Peer \subseteq trusted \cup revoked /\ stored' \subseteq trusted \cup revoked
    BY <2>1, <2>2 DEF Effect
  <2> QED BY <1>1, <2>3 DEF KnownTrusted
<1>6. AddedKept' /\ (added \cap revoked = {})'
  <2>1. added \subseteq trusted \cap stored /\ added \cap revoked = {}
    BY DEF TasksInv, AddedKept
  <2>2. h.op = "added" => h.ids \subseteq trusted \cup revoked /\ h.ids \subseteq stored \cup revoked
    BY <1>1 DEF OpFits
  <2>3. added' \subseteq trusted \cap stored /\ added' \cap revoked = {}
    BY <2>1, <2>2 DEF Effect
  <2> QED BY <1>1, <1>3, <2>3 DEF AddedKept
<1>7. RemovedAloneGone'
  <2> SUFFICES ASSUME NEW x, x \in removed', x \in alone', x \in nodes' \cup trusted' \cup stored'
               PROVE  FALSE
    BY DEF RemovedAloneGone
  <2>1. x \in alone /\ x \in nodes \cup trusted \cup stored
    BY <1>1 DEF Effect, OpFits
  <2>2. x \notin removed
    BY <2>1 DEF TasksInv, RemovedAloneGone
  <2>3. /\ h.op = "removed" /\ x \in h.ids
        /\ \A u \in Task \ {t} : x \notin About(task[u], {"removed"})
    BY <2>2 DEF Effect
  <2>4. rest = <<>> /\ task[t] = Cons(h, rest)
    BY <1>1, <2>3 DEF OpFits, Effect
  <2>5. /\ x \in About(task[t], {"removed"})
        /\ \A kind \in {"drop", "untrust", "unsave"} : x \notin About(task[t], {kind})
    <3>1. \A kinds : About(task[t], kinds) = About(rest, kinds) \cup IF h.op \in kinds THEN h.ids ELSE {}
      <4>1. task[t] = Cons(h, rest)
        BY <2>4
      <4> QED BY <1>1, <4>1, AboutCons
    <3> QED BY <2>3, <2>4, <3>1, AboutNone
  <2>6. \A kind \in {"drop", "untrust", "unsave"} : ~Pending(x, kind)
    BY <2>3, <2>5 DEF Pending
  <2> QED BY <2>1, <2>5, <2>6 DEF TasksInv, RemovalInv
<1> QED BY <1>4, <1>5, <1>6, <1>7

\* Whoever is still to be taken away somewhere is, until that is done.
LEMMA RemovalAfter ==
    ASSUME TasksInv, NEW t \in Task, NEW h, NEW rest, Effect(t, h, rest), Follows(t, h, rest)
    PROVE  RemovalInv'
<1>1. /\ h \in Operation /\ rest \in Seq(Operation)
      /\ OpFits(h, rest, trusted \cup revoked, stored \cup revoked, revoked, alone)
      /\ alone' \subseteq alone
  BY RestFits
<1>2. task[t] = Cons(h, rest)
  BY DEF Effect
<1>3. PICK then \in Seq(Operation) :
        /\ task' = [task EXCEPT ![t] = then]
        /\ \/ then = rest
           \/ \E o \in Operation : o.op \in {"trust", "drop", "commit"} /\ then = Cons(o, rest)
           \/ then = Cons(Do("keep", h.ids), Cons(Do("upsert", h.ids), rest))
  BY DEF Follows
<1>4. \A kinds : About(task[t], kinds) = About(rest, kinds) \cup IF h.op \in kinds THEN h.ids ELSE {}
  BY <1>1, <1>2, AboutCons
<1>5. /\ About(then, {"removed"}) = About(rest, {"removed"})
      /\ \A kind : About(rest, {kind}) \subseteq About(then, {kind})
  <2>1. CASE then = rest
    BY <2>1
  <2>2. ASSUME NEW o \in Operation, o.op \in {"trust", "drop", "commit"}, then = Cons(o, rest)
        PROVE  /\ About(then, {"removed"}) = About(rest, {"removed"})
               /\ \A kind : About(rest, {kind}) \subseteq About(then, {kind})
    <3>1. \A kinds : About(Cons(o, rest), kinds) = About(rest, kinds) \cup IF o.op \in kinds THEN o.ids ELSE {}
      BY <1>1, <2>2, AboutCons
    <3> QED BY <2>2, <3>1
  <2>3. CASE then = Cons(Do("keep", h.ids), Cons(Do("upsert", h.ids), rest))
    <3> DEFINE o == Do("keep", h.ids)
               q == Do("upsert", h.ids)
    <3>1. /\ o \in Operation /\ o.op = "keep" /\ q \in Operation /\ q.op = "upsert"
      BY <1>1 DEF Do, Operation, Op
    <3> HIDE DEF o, q
    <3>2. Cons(q, rest) \in Seq(Operation)
      BY <1>1, <3>1, ConsProperties
    <3>3. \A kinds : /\ About(Cons(q, rest), kinds)
                          = About(rest, kinds) \cup IF q.op \in kinds THEN q.ids ELSE {}
                     /\ About(Cons(o, Cons(q, rest)), kinds)
                          = About(Cons(q, rest), kinds) \cup IF o.op \in kinds THEN o.ids ELSE {}
      BY <1>1, <3>1, <3>2, AboutCons
    <3>4. then = Cons(o, Cons(q, rest))
      BY <2>3 DEF o, q
    <3>5. About(then, {"removed"}) = About(rest, {"removed"})
      <4>1. q.op \notin {"removed"} /\ o.op \notin {"removed"}
        BY <3>1
      <4>2. About(Cons(q, rest), {"removed"}) = About(rest, {"removed"})
        BY <3>3, <4>1
      <4>3. About(Cons(o, Cons(q, rest)), {"removed"}) = About(Cons(q, rest), {"removed"})
        BY <3>3, <4>1
      <4> QED BY <3>4, <4>2, <4>3
    <3>6. ASSUME NEW kind PROVE About(rest, {kind}) \subseteq About(then, {kind})
      <4>1. /\ About(rest, {kind}) \subseteq About(Cons(q, rest), {kind})
            /\ About(Cons(q, rest), {kind}) \subseteq About(Cons(o, Cons(q, rest)), {kind})
        BY <3>3
      <4> QED BY <3>4, <4>1
    <3> QED BY <3>5, <3>6
  <2> QED BY <1>3, <2>1, <2>2, <2>3
<1>6. /\ task'[t] = then
      /\ \A u \in Task \ {t} : task'[u] = task[u]
  BY <1>3 DEF TasksInv, TypeOK
<1>7. h.op = "removed" => rest = <<>>
  BY <1>1 DEF OpFits
<1>8. ASSUME NEW x \in alone', NEW u \in Task, x \in About(task'[u], {"removed"})
      PROVE  x \in alone /\ x \in About(task[u], {"removed"})
  BY <1>1, <1>4, <1>5, <1>6, <1>8
<1>9. ASSUME NEW x, NEW kind \in {"drop", "untrust", "unsave"}, Pending(x, kind),
             h.op = kind => x \notin h.ids
      PROVE  Pending(x, kind)'
  <2>1. PICK u \in Task : x \in About(task[u], {kind}) /\ x \in About(task[u], {"removed"})
    BY <1>9 DEF Pending
  <2>2. CASE u # t
    BY <1>6, <2>1, <2>2 DEF Pending
  <2>3. CASE u = t
    <3>1. x \in About(rest, {kind})
      BY <1>4, <1>9, <2>1, <2>3
    <3>2. rest # <<>>
      BY <3>1, AboutNone
    <3>3. x \in About(rest, {"removed"})
      BY <1>4, <1>7, <2>1, <2>3, <3>2
    <3>4. x \in About(task'[t], {kind}) /\ x \in About(task'[t], {"removed"})
      BY <1>5, <1>6, <3>1, <3>3
    <3> QED BY <3>4 DEF Pending
  <2> QED BY <2>2, <2>3
<1>10. ASSUME NEW u \in Task, NEW x \in alone' \cap About(task'[u], {"removed"})
       PROVE  /\ x \in nodes' => Pending(x, "drop")'
              /\ x \in trusted' => Pending(x, "untrust")'
              /\ x \in stored' => Pending(x, "unsave")'
  <2>1. x \in alone /\ x \in About(task[u], {"removed"})
    BY <1>8
  <2>2. /\ x \in nodes => Pending(x, "drop")
        /\ x \in trusted => Pending(x, "untrust")
        /\ x \in stored => Pending(x, "unsave")
    BY <2>1 DEF TasksInv, RemovalInv
  <2>3. /\ x \in nodes' => x \in nodes /\ (h.op = "drop" => x \notin h.ids)
        /\ x \in trusted' => x \in trusted /\ (h.op = "untrust" => x \notin h.ids)
        /\ x \in stored' => x \in stored /\ (h.op = "unsave" => x \notin h.ids)
    BY <1>1, <2>1 DEF Effect, OpFits
  <2> QED BY <1>9, <2>2, <2>3
<1> QED BY <1>10 DEF RemovalInv

\* An operation, then, keeps the invariant, whichever it is.
LEMMA OperationKeeps ==
    ASSUME TasksInv, NEW t \in Task, OperationStep(t)
    PROVE  TasksInv'
<1>1. PICK h \in Operation, rest \in Seq(Operation) : Effect(t, h, rest) /\ Follows(t, h, rest)
  BY DEF OperationStep
<1> QED BY <1>1, FitAfter, MapsAfter, RemovalAfter DEF TasksInv

-----------------------------------------------------------------------------
(* The operations of each handler fit when it begins. *)

\* An operation that may be done at once, before others that fit.
LEMMA FitStep ==
    ASSUME NEW T, NEW S, NEW R, NEW A, NEW o \in Operation, NEW ops,
           Fit(ops, T, S, R, A), OpFits(o, ops, T, S, R, A)
    PROVE  Fit(Cons(o, ops), T, S, R, A)
<1>1. ops \in Seq(Operation)
  BY DEF Fit
<1>2. Fit(ops, T \cup (IF o.op \in {"vouch", "trust"} THEN o.ids ELSE {}),
               S \cup (IF o.op = "save" THEN o.ids ELSE {}), R, A)
  BY FitMore
<1> QED BY <1>1, <1>2, FitCons

\* An operation given by its kind and its ids.
LEMMA DoType ==
    ASSUME NEW op \in Op, NEW ids \in SUBSET Id
    PROVE  Do(op, ids) \in Operation /\ Do(op, ids).op = op /\ Do(op, ids).ids = ids
BY DEF Do, Operation

\* Operations that are no promise to anybody.
LEMMA FitFree ==
    ASSUME NEW T, NEW S, NEW R, NEW ops, Fit(ops, T, S, R, {}), NEW ids \in SUBSET Id,
           NEW op \in {"drop", "stale", "duplicates", "snapshot", "exit", "unregister"}
    PROVE  Fit(Cons(Do(op, ids), ops), T, S, R, {})
<1>1. /\ Do(op, ids) \in Operation /\ Do(op, ids).op = op /\ Do(op, ids).ids = ids
  BY DoType DEF Op
<1>2. OpFits(Do(op, ids), ops, T, S, R, {})
  BY <1>1 DEF OpFits
<1> QED BY <1>1, <1>2, FitStep

\* A peer that is trusted or vouched for first may become active.
LEMMA FitAdmission ==
    ASSUME NEW T, NEW S, NEW R, NEW p \in Peer, NEW ops, Fit(ops, T \cup {p}, S, R, {}),
           NEW op \in {"vouch", "trust"}
    PROVE  Fit(Cons(Do(op, {p}), Cons(Do("upsert", {p}), ops)), T, S, R, {})
<1> DEFINE o == Do(op, {p})
           q == Do("upsert", {p})
<1>1. /\ o \in Operation /\ o.op = op /\ o.ids = {p}
      /\ q \in Operation /\ q.op = "upsert" /\ q.ids = {p}
  BY DoType DEF Op, Id
<1> HIDE DEF o, q
<1>2. Fit(Cons(q, ops), T \cup {p}, S, R, {})
  <2>1. OpFits(q, ops, T \cup {p}, S, R, {})
    BY <1>1 DEF OpFits
  <2> QED BY <1>1, <2>1, FitStep
<1>3. Cons(q, ops) \in Seq(Operation)
  BY <1>2 DEF Fit
<1>4. OpFits(o, Cons(q, ops), T, S, R, {})
  BY <1>1 DEF OpFits
<1>5. /\ T \cup (IF o.op \in {"vouch", "trust"} THEN o.ids ELSE {}) = T \cup {p}
      /\ S \cup (IF o.op = "save" THEN o.ids ELSE {}) = S
  BY <1>1
<1>6. Fit(Cons(o, Cons(q, ops)), T, S, R, {})
  BY <1>1, <1>2, <1>3, <1>4, <1>5, FitCons
<1> QED BY <1>6 DEF o, q

\* A directory is admitted peer by peer, each vouched for first.
LEMMA FitDirectory ==
    ASSUME NEW T, NEW S, NEW R, NEW list \in Lists(Peer)
    PROVE  /\ Fit(AdmitAll(list), T, S, R, {})
           /\ About(AdmitAll(list), {"removed"}) = {}
<1> DEFINE ops == AdmitAll(list)
           n == Len(list)
<1>1. list \in Seq(Peer)
  BY DEF Lists, Injection
<1>2. n \in Nat /\ ops = [i \in 1..(2 * n) |-> AdmitNew(list[(i + 1) \div 2])[2 - (i % 2)]]
  BY <1>1 DEF AdmitAll
<1>3. ASSUME NEW i \in 1..n
      PROVE  /\ list[i] \in Peer
             /\ ops[2 * i - 1] = Do("vouch", {list[i]})
             /\ ops[2 * i] = Do("upsert", {list[i]})
  <2>1. /\ 2 * i - 1 \in 1..(2 * n) /\ 2 * i \in 1..(2 * n)
        /\ ((2 * i - 1) + 1) \div 2 = i /\ (2 * i - 1) % 2 = 1
        /\ (2 * i + 1) \div 2 = i /\ (2 * i) % 2 = 0
    BY <1>2
  <2>2. list[i] \in Peer
    BY <1>1
  <2> HIDE DEF ops, n
  <2>3. /\ ops[2 * i - 1] = AdmitNew(list[((2 * i - 1) + 1) \div 2])[2 - ((2 * i - 1) % 2)]
        /\ ops[2 * i] = AdmitNew(list[(2 * i + 1) \div 2])[2 - ((2 * i) % 2)]
    BY <1>2, <2>1
  <2>4. 2 - ((2 * i - 1) % 2) = 1 /\ 2 - ((2 * i) % 2) = 2
    BY <2>1
  <2>5. ops[2 * i - 1] = AdmitNew(list[i])[1] /\ ops[2 * i] = AdmitNew(list[i])[2]
    BY <2>1, <2>3, <2>4, Zenon
  <2>6. \A p : AdmitNew(p)[1] = Do("vouch", {p}) /\ AdmitNew(p)[2] = Do("upsert", {p})
    BY DEF AdmitNew
  <2> QED BY <2>2, <2>5, <2>6
<1>4. ASSUME NEW j \in 1..(2 * n)
      PROVE  \E i \in 1..n : j = 2 * i - 1 \/ j = 2 * i
  <2>1. (j + 1) \div 2 \in 1..n /\ (j = 2 * ((j + 1) \div 2) - 1 \/ j = 2 * ((j + 1) \div 2))
    BY <1>2
  <2> QED BY <2>1
<1> HIDE DEF ops, n
<1>5. ASSUME NEW i \in 1..n
      PROVE  /\ ops[2 * i - 1] \in Operation /\ ops[2 * i - 1].op = "vouch"
             /\ ops[2 * i - 1].ids = {list[i]}
             /\ ops[2 * i] \in Operation /\ ops[2 * i].op = "upsert"
             /\ ops[2 * i].ids = {list[i]}
  <2>1. {list[i]} \in SUBSET Id /\ "vouch" \in Op /\ "upsert" \in Op
    BY <1>3 DEF Op, Id
  <2>2. \A op \in Op : /\ Do(op, {list[i]}) \in Operation /\ Do(op, {list[i]}).op = op
                        /\ Do(op, {list[i]}).ids = {list[i]}
    BY <2>1, DoType
  <2> QED BY <1>3, <2>1, <2>2
<1>6. ASSUME NEW j \in 1..(2 * n)
      PROVE  ops[j] \in Operation /\ ops[j].op \in {"vouch", "upsert"} /\ ops[j].ids \subseteq Peer
  <2>1. PICK i \in 1..n : j = 2 * i - 1 \/ j = 2 * i
    BY <1>4
  <2>2. list[i] \in Peer
    BY <1>3
  <2> QED BY <1>5, <2>1, <2>2
<1>7. ops \in Seq(Operation) /\ DOMAIN ops = 1..(2 * n)
  BY <1>2, <1>6
<1>8. /\ About(ops, {"refresh", "keep", "vouch", "trust", "commit", "save", "added"}) \subseteq Peer
      /\ About(ops, {"register"}) = {}
      /\ About(ops, {"untrust", "unsave"}) = {}
      /\ About(ops, {"removed"}) = {}
      /\ RemovedLast(ops)
      /\ Needs(ops, {"added"}, {"save"}, S)
  BY <1>6, <1>7 DEF About, RemovedLast, Needs
<1>9. Needs(ops, {"upsert", "commit", "save", "added"}, {"vouch", "trust"}, T)
  <2> SUFFICES ASSUME NEW j \in 1..(2 * n), ops[j].op = "upsert"
               PROVE  ops[j].ids \subseteq Before(ops, j, {"vouch", "trust"})
    BY <1>6, <1>7 DEF Needs
  <2>1. PICK i \in 1..n : j = 2 * i - 1 \/ j = 2 * i
    BY <1>4
  <2>2. j = 2 * i
    BY <1>5, <2>1
  <2>3. ops[2 * i - 1].op \in {"vouch", "trust"}
    BY <1>5
  <2>4. 2 * i - 1 \in 1..(j - 1)
    BY <1>2, <2>2
  <2> QED BY <1>5, <2>2, <2>3, <2>4 DEF Before
<1>10. Fit(ops, T, S, R, {})
  BY <1>7, <1>8, <1>9 DEF Fit
<1> QED BY <1>8, <1>10 DEF ops

-----------------------------------------------------------------------------
(* Beginning a handler keeps the invariant. *)

\* A handler that fits now and is no removal.
Harmless(ops) ==
    /\ Fit(ops, trusted \cup revoked, stored \cup revoked, revoked, {})
    /\ About(ops, {"removed"}) = {}

\* An idle task begins a handler that is harmless.
LEMMA BeginKeeps ==
    ASSUME TasksInv, NEW t \in Task, NEW ops, Begin(t, ops), Harmless(ops),
           UNCHANGED <<revoked, added>>,
           used' \in [events : Nat, commands : Nat, restarts : Nat]
    PROVE  TasksInv'
<1>1. /\ task[t] = <<>> /\ task' = [task EXCEPT ![t] = ops]
      /\ alone' = alone \ Admits(ops) /\ unvouched' \subseteq unvouched
      /\ UNCHANGED <<nodes, trusted, clients, stored, removed>>
  BY DEF Begin, maps
<1>2. /\ Fit(ops, trusted \cup revoked, stored \cup revoked, revoked, alone')
      /\ ops \in Seq(Operation)
  BY <1>1 DEF Harmless, Fit
<1>3. /\ task'[t] = ops /\ \A u \in Task \ {t} : task'[u] = task[u]
      /\ task' \in [Task -> Seq(Operation)]
  BY <1>1, <1>2 DEF TasksInv, TypeOK, Operation
<1>4. TypeOK'
  BY <1>1, <1>3 DEF TasksInv, TypeOK, Operation
<1>5. HandlersFit'
  <2> SUFFICES ASSUME NEW u \in Task
               PROVE  Fit(task'[u], trusted \cup revoked, stored \cup revoked, revoked, alone')
    BY <1>1 DEF HandlersFit
  <2>1. CASE u = t
    BY <1>2, <1>3, <2>1
  <2>2. CASE u # t
    <3>1. Fit(task[u], trusted \cup revoked, stored \cup revoked, revoked, alone)
      BY DEF TasksInv, HandlersFit
    <3>2. alone' \subseteq alone
      BY <1>1
    <3> QED BY <1>3, <2>2, <3>1, <3>2, FitMore
  <2> QED BY <2>1, <2>2
<1>6. KnownTrusted' /\ AddedKept' /\ (added \cap revoked = {})' /\ RemovedAloneGone'
  BY <1>1 DEF TasksInv, KnownTrusted, AddedKept, RemovedAloneGone
<1>7. ASSUME NEW x, NEW kind, Pending(x, kind) PROVE Pending(x, kind)'
  <2>1. PICK u \in Task : x \in About(task[u], {kind}) /\ x \in About(task[u], {"removed"})
    BY <1>7 DEF Pending
  <2>2. u # t
    BY <1>1, <2>1, AboutNone
  <2> QED BY <1>3, <2>1, <2>2 DEF Pending
<1>8. RemovalInv'
  <2> SUFFICES ASSUME NEW u \in Task, NEW x \in alone' \cap About(task'[u], {"removed"})
               PROVE  /\ x \in nodes => Pending(x, "drop")'
                      /\ x \in trusted => Pending(x, "untrust")'
                      /\ x \in stored => Pending(x, "unsave")'
    BY <1>1 DEF RemovalInv
  <2>1. u # t
    BY <1>3 DEF Harmless
  <2>2. x \in alone \cap About(task[u], {"removed"})
    BY <1>1, <1>3, <2>1
  <2>3. /\ x \in nodes => Pending(x, "drop")
        /\ x \in trusted => Pending(x, "untrust")
        /\ x \in stored => Pending(x, "unsave")
    BY <2>2 DEF TasksInv, RemovalInv
  <2> QED BY <1>7, <2>3
<1> QED BY <1>4, <1>5, <1>6, <1>8 DEF TasksInv

\* An operation that reports no removal.
LEMMA QuietCons ==
    ASSUME NEW o \in Operation, o.op # "removed",
           NEW ops \in Seq(Operation), About(ops, {"removed"}) = {}
    PROVE  About(Cons(o, ops), {"removed"}) = {} /\ Cons(o, ops) \in Seq(Operation)
<1>1. About(Cons(o, ops), {"removed"}) = {}
  BY AboutCons
<1> QED BY <1>1, ConsProperties

\* A handler of one operation, given as a tuple, taken apart at its first one.
LEMMA Tuple1 ==
    ASSUME NEW a \in Operation
    PROVE  <<a>> = Cons(a, <<>>) /\ <<a>> \in Seq(Operation)
BY DEF Cons

\* The same of two operations.
LEMMA Tuple2 ==
    ASSUME NEW a \in Operation, NEW b \in Operation
    PROVE  <<a, b>> = Cons(a, <<b>>) /\ <<a, b>> \in Seq(Operation)
<1>1. <<a>> \in Seq(Operation) /\ <<b>> \in Seq(Operation) /\ <<a, b>> \in Seq(Operation)
  OBVIOUS
<1>2. <<a>> \o <<b>> \in Seq(Operation) /\ Len(<<a>> \o <<b>>) = 2
  BY <1>1
<1>3. \A i \in 1..2 : (<<a>> \o <<b>>)[i] = <<a, b>>[i]
  BY <1>1
<1> QED BY <1>1, <1>2, <1>3, SeqEqual DEF Cons

\* The same of three operations.
LEMMA Tuple3 ==
    ASSUME NEW a \in Operation, NEW b \in Operation, NEW c \in Operation
    PROVE  <<a, b, c>> = Cons(a, <<b, c>>) /\ <<a, b, c>> \in Seq(Operation)
<1>1. <<a>> \in Seq(Operation) /\ <<b, c>> \in Seq(Operation) /\ <<a, b, c>> \in Seq(Operation)
  OBVIOUS
<1>2. <<a>> \o <<b, c>> \in Seq(Operation) /\ Len(<<a>> \o <<b, c>>) = 3
  BY <1>1
<1>3. \A i \in 1..3 : (<<a>> \o <<b, c>>)[i] = <<a, b, c>>[i]
  BY <1>1
<1> QED BY <1>1, <1>2, <1>3, SeqEqual DEF Cons

\* The same of four operations.
LEMMA Tuple4 ==
    ASSUME NEW a \in Operation, NEW b \in Operation, NEW c \in Operation, NEW d \in Operation
    PROVE  <<a, b, c, d>> = Cons(a, <<b, c, d>>) /\ <<a, b, c, d>> \in Seq(Operation)
<1>1. <<a>> \in Seq(Operation) /\ <<b, c, d>> \in Seq(Operation) /\ <<a, b, c, d>> \in Seq(Operation)
  OBVIOUS
<1>2. <<a>> \o <<b, c, d>> \in Seq(Operation) /\ Len(<<a>> \o <<b, c, d>>) = 4
  BY <1>1
<1>3. \A i \in 1..4 : (<<a>> \o <<b, c, d>>)[i] = <<a, b, c, d>>[i]
  BY <1>1
<1> QED BY <1>1, <1>2, <1>3, SeqEqual DEF Cons

\* The same of five operations.
LEMMA Tuple5 ==
    ASSUME NEW a \in Operation, NEW b \in Operation, NEW c \in Operation, NEW d \in Operation, NEW e \in Operation
    PROVE  <<a, b, c, d, e>> = Cons(a, <<b, c, d, e>>) /\ <<a, b, c, d, e>> \in Seq(Operation)
<1>1. <<a>> \in Seq(Operation) /\ <<b, c, d, e>> \in Seq(Operation) /\ <<a, b, c, d, e>> \in Seq(Operation)
  OBVIOUS
<1>2. <<a>> \o <<b, c, d, e>> \in Seq(Operation) /\ Len(<<a>> \o <<b, c, d, e>>) = 5
  BY <1>1
<1>3. \A i \in 1..5 : (<<a>> \o <<b, c, d, e>>)[i] = <<a, b, c, d, e>>[i]
  BY <1>1
<1> QED BY <1>1, <1>2, <1>3, SeqEqual DEF Cons

\* An event that calls for nothing.
LEMMA NothingHarmless == Harmless(<<>>)
BY FitNone, AboutNone DEF Harmless

\* Operations that anybody may do at any time.
LEMMA FreeHarmless ==
    ASSUME NEW ops, Harmless(ops), NEW ids \in SUBSET Id,
           NEW op \in {"drop", "stale", "duplicates", "snapshot", "exit"}
    PROVE  Harmless(Cons(Do(op, ids), ops))
<1>1. /\ Do(op, ids) \in Operation /\ Do(op, ids).op = op
  BY DoType DEF Op
<1>2. ops \in Seq(Operation)
  BY DEF Harmless, Fit
<1>3. About(Cons(Do(op, ids), ops), {"removed"}) = {}
  BY <1>1, <1>2, AboutCons DEF Harmless
<1>4. Fit(Cons(Do(op, ids), ops), trusted \cup revoked, stored \cup revoked, revoked, {})
  BY FitFree DEF Harmless
<1> QED BY <1>3, <1>4 DEF Harmless

\* The refresh of a sender comes before its handler.
LEMMA RefreshHarmless ==
    ASSUME NEW ops, Harmless(ops), NEW p \in Peer
    PROVE  Harmless(Cons(Do("refresh", {p}), ops))
<1> DEFINE o == Do("refresh", {p})
<1>1. o \in Operation /\ o.op = "refresh" /\ o.ids = {p}
  BY DoType DEF Op, Id
<1>2. ops \in Seq(Operation)
  BY DEF Harmless, Fit
<1> HIDE DEF o
<1>3. About(Cons(o, ops), {"removed"}) = {}
  BY <1>1, <1>2, AboutCons DEF Harmless
<1>4. OpFits(o, ops, trusted \cup revoked, stored \cup revoked, revoked, {})
  BY <1>1 DEF OpFits
<1>5. Fit(Cons(o, ops), trusted \cup revoked, stored \cup revoked, revoked, {})
  BY <1>1, <1>4, FitStep DEF Harmless
<1> QED BY <1>3, <1>5 DEF Harmless, o

\* process_message of a message whose handler is harmless.
LEMMA HandleKeeps ==
    ASSUME TasksInv, NEW p \in Peer, NEW ops, Harmless(ops), Handle(p, ops)
    PROVE  TasksInv'
<1> DEFINE first == IF p \in trusted THEN <<Do("refresh", {p})>> ELSE <<>>
<1>1. /\ Begin(Loop, first \o ops) /\ UNCHANGED <<revoked, added>>
      /\ used' = [used EXCEPT !.events = @ + 1]
  BY DEF Handle, Event
<1>2. used' \in [events : Nat, commands : Nat, restarts : Nat]
  BY <1>1 DEF TasksInv, TypeOK
<1>3. ops \in Seq(Operation)
  BY DEF Harmless, Fit
<1>4. first \o ops = ops \/ first \o ops = Cons(Do("refresh", {p}), ops)
  <2>1. <<>> \o ops = ops
    BY <1>3
  <2> QED BY <2>1 DEF Cons
<1> HIDE DEF first
<1>5. Harmless(first \o ops)
  BY <1>4, RefreshHarmless
<1>6. Loop \in Task
  BY DEF Task
<1> QED BY <1>1, <1>2, <1>5, <1>6, BeginKeeps

\* Who is admitted is vouched for, or was trusted before.
LEMMA AdmissionHarmless ==
    ASSUME NEW p \in Peer
    PROVE  Harmless(AdmitNew(p)) /\ Harmless(Admit(p))
<1>1. ASSUME NEW op \in {"vouch", "trust"}
      PROVE  Harmless(Cons(Do(op, {p}), Cons(Do("upsert", {p}), <<>>)))
  <2>1. Fit(<<>>, (trusted \cup revoked) \cup {p}, stored \cup revoked, revoked, {})
    BY FitNone
  <2>2. Fit(Cons(Do(op, {p}), Cons(Do("upsert", {p}), <<>>)),
            trusted \cup revoked, stored \cup revoked, revoked, {})
    BY <2>1, FitAdmission
  <2>3. /\ Do(op, {p}) \in Operation /\ Do(op, {p}).op = op
        /\ Do("upsert", {p}) \in Operation /\ Do("upsert", {p}).op = "upsert"
    BY DoType DEF Op, Id
  <2>4. PICK none \in Seq(Operation) : none = <<>>
    BY EmptySeq
  <2>5. PICK q \in Seq(Operation) : q = Cons(Do("upsert", {p}), none)
    BY <2>3, <2>4, ConsProperties
  <2>6. About(q, {"removed"}) = {}
    <3>1. \A kinds : About(Cons(Do("upsert", {p}), none), kinds) = About(none, kinds)
                       \cup IF "upsert" \in kinds THEN Do("upsert", {p}).ids ELSE {}
      BY <2>3, AboutCons
    <3> QED BY <2>4, <2>5, <3>1, AboutNone
  <2>7. About(Cons(Do(op, {p}), q), {"removed"}) = {}
    BY <2>3, <2>6, AboutCons
  <2> QED BY <2>2, <2>4, <2>5, <2>7 DEF Harmless
<1>2. /\ AdmitNew(p) = Cons(Do("vouch", {p}), Cons(Do("upsert", {p}), <<>>))
      /\ Admit(p) = Cons(Do("trust", {p}), Cons(Do("upsert", {p}), <<>>))
  BY DEF AdmitNew, Admit, Cons
<1> QED BY <1>1, <1>2

\* The handlers of the event loop.
LEMMA EventKeeps ==
    ASSUME TasksInv,
           \/ \E p \in Peer : \/ Invited(p) \/ AboutMe(p) \/ Left(p)
                              \/ SyncRequest(p) \/ SyncResponse(p)
           \/ StateTick \/ Sigterm
    PROVE  TasksInv'
<1>1. ASSUME NEW p \in Peer, Invited(p) \/ AboutMe(p) PROVE TasksInv'
  BY <1>1, AdmissionHarmless, HandleKeeps DEF Invited, AboutMe
<1>2. ASSUME NEW p \in Peer, Left(p) PROVE TasksInv'
  <2>1. Harmless(Cons(Do("drop", {p}), <<>>))
    BY NothingHarmless, FreeHarmless DEF Id
  <2>2. Cons(Do("drop", {p}), <<>>) = <<Do("drop", {p})>>
    BY DEF Cons
  <2> QED BY <1>2, <2>1, <2>2, HandleKeeps DEF Left
<1>3. ASSUME NEW p \in Peer, SyncRequest(p) PROVE TasksInv'
  BY <1>3, NothingHarmless, HandleKeeps DEF SyncRequest
<1>4. ASSUME NEW p \in Peer, SyncResponse(p) PROVE TasksInv'
  <2>1. PICK list \in Lists(Peer) : Handle(p, AdmitAll(list))
    BY <1>4 DEF SyncResponse
  <2>2. Harmless(AdmitAll(list))
    BY FitDirectory DEF Harmless
  <2> QED BY <2>1, <2>2, HandleKeeps
<1>5. ASSUME NEW ops, Harmless(ops), Event(ops) PROVE TasksInv'
  <2>1. /\ Begin(Loop, ops) /\ UNCHANGED <<revoked, added>>
        /\ used' = [used EXCEPT !.events = @ + 1]
    BY <1>5 DEF Event
  <2>2. used' \in [events : Nat, commands : Nat, restarts : Nat] /\ Loop \in Task
    BY <2>1 DEF TasksInv, TypeOK, Task
  <2> QED BY <1>5, <2>1, <2>2, BeginKeeps
<1>6. CASE StateTick
  <2>1. Harmless(Cons(Do("stale", {}), Cons(Do("duplicates", {}), Cons(Do("snapshot", {}), <<>>))))
    BY NothingHarmless, FreeHarmless
  <2>2. Cons(Do("stale", {}), Cons(Do("duplicates", {}), Cons(Do("snapshot", {}), <<>>)))
          = <<Do("stale", {}), Do("duplicates", {}), Do("snapshot", {})>>
    <3>1. /\ Do("stale", {}) \in Operation /\ Do("duplicates", {}) \in Operation
          /\ Do("snapshot", {}) \in Operation
      BY DoType DEF Op
    <3> QED BY <3>1, Tuple1, Tuple2, Tuple3
  <2> QED BY <1>5, <1>6, <2>1, <2>2 DEF StateTick
<1>7. CASE Sigterm
  <2>1. Harmless(Cons(Do("snapshot", {}), Cons(Do("exit", {}), <<>>)))
    BY NothingHarmless, FreeHarmless
  <2>2. Cons(Do("snapshot", {}), Cons(Do("exit", {}), <<>>)) = <<Do("snapshot", {}), Do("exit", {})>>
    <3>1. Do("snapshot", {}) \in Operation /\ Do("exit", {}) \in Operation
      BY DoType DEF Op
    <3> QED BY <3>1, Tuple1, Tuple2
  <2> QED BY <1>5, <1>7, <2>1, <2>2 DEF Sigterm
<1> QED BY <1>1, <1>2, <1>3, <1>4, <1>6, <1>7

\* A client that registers is no peer; an AddNode trusts and persists before
\* it answers.
LEMMA CommandKeeps ==
    ASSUME TasksInv, NEW k \in Conn, Authenticate(k) \/ AddNode(k) \/ Shutdown(k)
    PROVE  TasksInv'
<1>0. k \in Task
  BY DEF Task
<1>1. ASSUME NEW ops, Harmless(ops), Command(k, ops), UNCHANGED <<revoked, added>> PROVE TasksInv'
  <2>1. Begin(k, ops) /\ used' = [used EXCEPT !.commands = @ + 1]
    BY <1>1 DEF Command
  <2>2. used' \in [events : Nat, commands : Nat, restarts : Nat]
    BY <2>1 DEF TasksInv, TypeOK
  <2> QED BY <1>0, <1>1, <2>1, <2>2, BeginKeeps
<1>2. PICK none \in Seq(Operation) : none = <<>>
  BY EmptySeq
<1>3. /\ Fit(none, trusted \cup revoked, stored \cup revoked, revoked, {})
      /\ \A T, S : Fit(none, T, S, revoked, {})
      /\ About(none, {"removed"}) = {}
  BY <1>2, FitNone, AboutNone
<1>4. CASE Authenticate(k)
  <2>1. PICK c \in Client : Begin(k, <<Do("upsert", {c}), Do("register", {c})>>)
    BY <1>4 DEF Authenticate
  <2> DEFINE o == Do("upsert", {c})
             q == Do("register", {c})
  <2>2. /\ o \in Operation /\ o.op = "upsert" /\ o.ids = {c}
        /\ q \in Operation /\ q.op = "register" /\ q.ids = {c}
    BY DoType DEF Op, Id
  <2>3. {c} \cap Peer = {}
    BY AdminAssumption
  <2>4. <<o, q>> = Cons(o, Cons(q, none))
    BY <1>2 DEF Cons
  <2> HIDE DEF o, q
  <2>5. Fit(Cons(q, none), trusted \cup revoked, stored \cup revoked, revoked, {})
    <3>1. OpFits(q, none, trusted \cup revoked, stored \cup revoked, revoked, {})
      BY <2>2 DEF OpFits
    <3> QED BY <1>3, <2>2, <3>1, FitStep
  <2>6. Fit(Cons(o, Cons(q, none)), trusted \cup revoked, stored \cup revoked, revoked, {})
    <3>1. OpFits(o, Cons(q, none), trusted \cup revoked, stored \cup revoked, revoked, {})
      BY <2>2, <2>3 DEF OpFits
    <3> QED BY <2>2, <2>5, <3>1, FitStep
  <2>7. About(Cons(q, none), {"removed"}) = {} /\ Cons(q, none) \in Seq(Operation)
    <3>1. none \in Seq(Operation)
      BY <1>2
    <3> QED BY <1>3, <2>2, <3>1, QuietCons
  <2>8. About(Cons(o, Cons(q, none)), {"removed"}) = {}
    BY <2>2, <2>7, QuietCons
  <2>9. Harmless(<<o, q>>)
    BY <2>4, <2>6, <2>8 DEF Harmless
  <2>10. Begin(k, <<o, q>>) /\ UNCHANGED <<revoked, added, used>>
    BY <1>4, <2>1 DEF Authenticate, o, q
  <2> QED BY <1>0, <2>9, <2>10, BeginKeeps DEF TasksInv, TypeOK
<1>5. CASE AddNode(k)
  <2>1. PICK p \in Peer : /\ Command(k, AdmitNew(p) \o <<Do("save", {p}), Do("added", {p})>>)
                          /\ UNCHANGED <<revoked, added>>
    BY <1>5 DEF AddNode
  <2> DEFINE v == Do("vouch", {p})
             u == Do("upsert", {p})
             s == Do("save", {p})
             a == Do("added", {p})
             T == trusted \cup revoked
             S == stored \cup revoked
  <2>2. /\ v \in Operation /\ v.op = "vouch" /\ v.ids = {p}
        /\ u \in Operation /\ u.op = "upsert" /\ u.ids = {p}
        /\ s \in Operation /\ s.op = "save" /\ s.ids = {p}
        /\ a \in Operation /\ a.op = "added" /\ a.ids = {p}
    BY DoType DEF Op, Id
  <2>3. AdmitNew(p) \o <<s, a>> = Cons(v, Cons(u, Cons(s, Cons(a, none))))
    BY <1>2 DEF Cons, AdmitNew
  <2> HIDE DEF s, a
  <2>4. Fit(Cons(a, none), T \cup {p}, S \cup {p}, revoked, {})
    <3>1. OpFits(a, none, T \cup {p}, S \cup {p}, revoked, {})
      BY <2>2 DEF OpFits
    <3> QED BY <1>3, <2>2, <3>1, FitStep
  <2>5. Fit(Cons(s, Cons(a, none)), T \cup {p}, S, revoked, {})
    <3>1. OpFits(s, Cons(a, none), T \cup {p}, S, revoked, {})
      BY <2>2 DEF OpFits
    <3>2. Cons(a, none) \in Seq(Operation)
      BY <2>4 DEF Fit
    <3>3. /\ (T \cup {p}) \cup (IF s.op \in {"vouch", "trust"} THEN s.ids ELSE {}) = T \cup {p}
          /\ S \cup (IF s.op = "save" THEN s.ids ELSE {}) = S \cup {p}
      BY <2>2
    <3> QED BY <2>2, <2>4, <3>1, <3>2, <3>3, FitCons
  <2>6. Fit(Cons(v, Cons(u, Cons(s, Cons(a, none)))), T, S, revoked, {})
    BY <2>5, FitAdmission
  <2> HIDE DEF v, u, T, S
  <2>7. About(Cons(a, none), {"removed"}) = {} /\ Cons(a, none) \in Seq(Operation)
    <3>1. none \in Seq(Operation)
      BY <1>2
    <3> QED BY <1>3, <2>2, <3>1, QuietCons
  <2>8. About(Cons(s, Cons(a, none)), {"removed"}) = {} /\ Cons(s, Cons(a, none)) \in Seq(Operation)
    BY <2>2, <2>7, QuietCons
  <2>9. /\ About(Cons(u, Cons(s, Cons(a, none))), {"removed"}) = {}
        /\ Cons(u, Cons(s, Cons(a, none))) \in Seq(Operation)
    BY <2>2, <2>8, QuietCons
  <2>10. About(Cons(v, Cons(u, Cons(s, Cons(a, none)))), {"removed"}) = {}
    BY <2>2, <2>9, QuietCons
  <2>11. Harmless(AdmitNew(p) \o <<s, a>>)
    BY <2>3, <2>6, <2>10 DEF Harmless, T, S
  <2> QED BY <1>1, <2>1, <2>11 DEF s, a
<1>6. CASE Shutdown(k)
  <2>1. Harmless(Cons(Do("snapshot", {}), Cons(Do("exit", {}), <<>>)))
    BY NothingHarmless, FreeHarmless
  <2>2. Cons(Do("snapshot", {}), Cons(Do("exit", {}), <<>>)) = <<Do("snapshot", {}), Do("exit", {})>>
    <3>1. Do("snapshot", {}) \in Operation /\ Do("exit", {}) \in Operation
      BY DoType DEF Op
    <3> QED BY <3>1, Tuple1, Tuple2
  <2> QED BY <1>1, <1>6, <2>1, <2>2 DEF Shutdown
<1> QED BY <1>4, <1>5, <1>6

\* The operations of a removal fit when the one it removes is being removed,
\* and take it away from everywhere before they report it.
LEMMA RemovalFits ==
    ASSUME NEW x \in Id, NEW T, NEW S, NEW R, NEW A, x \in R
    PROVE  /\ Fit(Removal(x), T, S, R, A)
           /\ \A kind \in {"drop", "untrust", "unsave", "removed"} : About(Removal(x), {kind}) = {x}
           /\ Admits(Removal(x)) = {}
<1> DEFINE a == Do("unregister", {x})
           b == Do("drop", {x})
           c == Do("untrust", {x})
           d == Do("unsave", {x})
           e == Do("removed", {x})
<1>1. PICK none \in Seq(Operation) : none = <<>>
  BY EmptySeq
<1>2. /\ a \in Operation /\ a.op = "unregister" /\ a.ids = {x}
      /\ b \in Operation /\ b.op = "drop" /\ b.ids = {x}
      /\ c \in Operation /\ c.op = "untrust" /\ c.ids = {x}
      /\ d \in Operation /\ d.op = "unsave" /\ d.ids = {x}
      /\ e \in Operation /\ e.op = "removed" /\ e.ids = {x}
  BY DoType DEF Op
<1>3. Removal(x) = <<a, b, c, d, e>>
  BY DEF Removal
<1> HIDE DEF a, b, c, d, e
<1> DEFINE r5 == Cons(e, none)
           r4 == Cons(d, r5)
           r3 == Cons(c, r4)
           r2 == Cons(b, r3)
<1>4. /\ r5 \in Seq(Operation) /\ r4 \in Seq(Operation) /\ r3 \in Seq(Operation)
      /\ r2 \in Seq(Operation)
  <2>1. r5 \in Seq(Operation)
    BY <1>1, <1>2, ConsProperties
  <2>2. r4 \in Seq(Operation)
    BY <1>2, <2>1, ConsProperties
  <2>3. r3 \in Seq(Operation)
    BY <1>2, <2>2, ConsProperties
  <2>4. r2 \in Seq(Operation)
    BY <1>2, <2>3, ConsProperties
  <2> QED BY <2>1, <2>2, <2>3, <2>4
<1>5. Removal(x) = Cons(a, r2)
  <2>1. <<e>> = r5
    BY <1>1, <1>2, Tuple1
  <2>2. <<d, e>> = r4
    BY <1>2, <2>1, Tuple2
  <2>3. <<c, d, e>> = r3
    BY <1>2, <2>2, Tuple3
  <2>4. <<b, c, d, e>> = r2
    BY <1>2, <2>3, Tuple4
  <2>5. <<a, b, c, d, e>> = Cons(a, <<b, c, d, e>>)
    BY <1>2, Tuple5
  <2> QED BY <1>3, <2>4, <2>5
<1> HIDE DEF r5, r4, r3, r2
<1>6. Fit(Removal(x), T, S, R, A)
  <2>1. Fit(none, T, S, R, A) /\ OpFits(e, none, T, S, R, A)
    BY <1>1, <1>2, FitNone DEF OpFits
  <2>2. Fit(r5, T, S, R, A) /\ OpFits(d, r5, T, S, R, A)
    BY <1>2, <2>1, FitStep DEF OpFits, r5
  <2>3. Fit(r4, T, S, R, A) /\ OpFits(c, r4, T, S, R, A)
    BY <1>2, <2>2, FitStep DEF OpFits, r4
  <2>4. Fit(r3, T, S, R, A) /\ OpFits(b, r3, T, S, R, A)
    BY <1>2, <2>3, FitStep DEF OpFits, r3
  <2>5. Fit(r2, T, S, R, A) /\ OpFits(a, r2, T, S, R, A)
    BY <1>2, <2>4, FitStep DEF OpFits, r2
  <2> QED BY <1>2, <1>5, <2>5, FitStep
<1>7. \A kinds :
         /\ About(none, kinds) = {}
         /\ About(r5, kinds) = About(none, kinds) \cup IF "removed" \in kinds THEN {x} ELSE {}
         /\ About(r4, kinds) = About(r5, kinds) \cup IF "unsave" \in kinds THEN {x} ELSE {}
         /\ About(r3, kinds) = About(r4, kinds) \cup IF "untrust" \in kinds THEN {x} ELSE {}
         /\ About(r2, kinds) = About(r3, kinds) \cup IF "drop" \in kinds THEN {x} ELSE {}
         /\ About(Removal(x), kinds) = About(r2, kinds) \cup IF "unregister" \in kinds THEN {x} ELSE {}
  <2> SUFFICES ASSUME NEW kinds
               PROVE  /\ About(none, kinds) = {}
                      /\ About(r5, kinds) = About(none, kinds) \cup IF "removed" \in kinds THEN {x} ELSE {}
                      /\ About(r4, kinds) = About(r5, kinds) \cup IF "unsave" \in kinds THEN {x} ELSE {}
                      /\ About(r3, kinds) = About(r4, kinds) \cup IF "untrust" \in kinds THEN {x} ELSE {}
                      /\ About(r2, kinds) = About(r3, kinds) \cup IF "drop" \in kinds THEN {x} ELSE {}
                      /\ About(Removal(x), kinds)
                            = About(r2, kinds) \cup IF "unregister" \in kinds THEN {x} ELSE {}
    OBVIOUS
  <2>1. About(none, kinds) = {}
    BY <1>1, AboutNone
  <2>2. About(r5, kinds) = About(none, kinds) \cup IF "removed" \in kinds THEN {x} ELSE {}
    <3>1. none \in Seq(Operation)
      BY <1>1
    <3> QED BY <1>2, <3>1, AboutCons DEF r5
  <2>3. About(r4, kinds) = About(r5, kinds) \cup IF "unsave" \in kinds THEN {x} ELSE {}
    BY <1>2, <1>4, AboutCons DEF r4
  <2>4. About(r3, kinds) = About(r4, kinds) \cup IF "untrust" \in kinds THEN {x} ELSE {}
    BY <1>2, <1>4, AboutCons DEF r3
  <2>5. About(r2, kinds) = About(r3, kinds) \cup IF "drop" \in kinds THEN {x} ELSE {}
    BY <1>2, <1>4, AboutCons DEF r2
  <2>6. About(Removal(x), kinds) = About(r2, kinds) \cup IF "unregister" \in kinds THEN {x} ELSE {}
    BY <1>2, <1>4, <1>5, AboutCons
  <2> QED BY <2>1, <2>2, <2>3, <2>4, <2>5, <2>6
<1>8. \A kind \in {"drop", "untrust", "unsave", "removed"} : About(Removal(x), {kind}) = {x}
  BY <1>7
<1>9. Admits(Removal(x)) = {}
  BY <1>7 DEF Admits
<1> QED BY <1>6, <1>8, <1>9

\* RemoveNode: whoever it removes alone is not re-admitted by a handler that
\* runs, and is taken away by this one.
LEMMA RemoveNodeKeeps ==
    ASSUME TasksInv, NEW k \in Conn, RemoveNode(k)
    PROVE  TasksInv'
<1>0. k \in Task
  BY DEF Task
<1> DEFINE Unless(x, ids) == IF x \in ids THEN {} ELSE {x}
           running == {task[t] : t \in Task}
<1>1. PICK x \in Id :
        /\ task[k] = <<>> /\ task' = [task EXCEPT ![k] = Removal(x)]
        /\ used' = [used EXCEPT !.commands = @ + 1]
        /\ removed' = removed \ {x}
        /\ alone' = alone \cup Unless(x, UNION {Admits(ops) : ops \in running})
        /\ unvouched' = unvouched \cup Unless(x, UNION {Vouches(ops) : ops \in running})
        /\ revoked' = revoked \cup {x}
        /\ added' = added \ {x}
        /\ UNCHANGED maps
  BY DEF RemoveNode
<1>2. /\ alone \subseteq alone' /\ alone' \subseteq alone \cup {x}
      /\ unvouched' \subseteq unvouched \cup {x}
      /\ x \in alone' => x \in alone \/ \A t \in Task : x \notin Admits(task[t])
      /\ UNCHANGED <<nodes, trusted, clients, stored>>
  BY <1>1 DEF maps
<1> HIDE DEF Unless, running
<1>3. /\ Fit(Removal(x), trusted' \cup revoked', stored' \cup revoked', revoked', alone')
      /\ \A kind \in {"drop", "untrust", "unsave", "removed"} : About(Removal(x), {kind}) = {x}
  BY <1>1, RemovalFits
<1>4. /\ Removal(x) \in Seq(Operation)
      /\ task'[k] = Removal(x) /\ \A u \in Task \ {k} : task'[u] = task[u]
      /\ task' \in [Task -> Seq(Operation)]
  BY <1>0, <1>1, <1>3 DEF Fit, TasksInv, TypeOK, Operation
<1>5. TypeOK'
  <2>1. used' \in [events : Nat, commands : Nat, restarts : Nat]
    BY <1>1 DEF TasksInv, TypeOK
  <2>2. {removed', alone', unvouched', revoked', added'} \subseteq SUBSET Id
    BY <1>1, <1>2 DEF TasksInv, TypeOK
  <2> QED BY <1>2, <1>4, <2>1, <2>2 DEF TasksInv, TypeOK, Operation
<1>6. HandlersFit'
  <2> SUFFICES ASSUME NEW u \in Task
               PROVE  Fit(task'[u], trusted' \cup revoked', stored' \cup revoked', revoked', alone')
    BY DEF HandlersFit
  <2>1. CASE u = k
    BY <1>3, <1>4, <2>1
  <2>2. CASE u # k
    <3>1. Fit(task[u], trusted \cup revoked, stored \cup revoked, revoked, alone)
      BY DEF TasksInv, HandlersFit
    <3>2. alone' \cap Admits(task[u]) = {}
      BY <1>2, <3>1 DEF Fit
    <3>3. Fit(task[u], trusted \cup revoked, stored \cup revoked, revoked, alone')
      BY <3>1, <3>2 DEF Fit
    <3>4. /\ trusted \cup revoked \subseteq trusted' \cup revoked'
          /\ stored \cup revoked \subseteq stored' \cup revoked'
          /\ revoked \subseteq revoked'
      BY <1>1, <1>2
    <3> QED BY <1>4, <2>2, <3>3, <3>4, FitMore
  <2> QED BY <2>1, <2>2
<1>7. KnownTrusted' /\ AddedKept' /\ (added \cap revoked = {})'
  BY <1>1, <1>2 DEF TasksInv, KnownTrusted, AddedKept
<1>8. RemovedAloneGone'
  BY <1>1, <1>2 DEF TasksInv, RemovedAloneGone
<1>9. \A kind \in {"drop", "untrust", "unsave"} : Pending(x, kind)'
  BY <1>0, <1>3, <1>4 DEF Pending
<1>10. ASSUME NEW y, NEW kind, Pending(y, kind) PROVE Pending(y, kind)'
  <2>1. PICK u \in Task : y \in About(task[u], {kind}) /\ y \in About(task[u], {"removed"})
    BY <1>10 DEF Pending
  <2>2. u # k
    BY <1>1, <2>1, AboutNone
  <2> QED BY <1>4, <2>1, <2>2 DEF Pending
<1>11. RemovalInv'
  <2> SUFFICES ASSUME NEW u \in Task, NEW y \in alone' \cap About(task'[u], {"removed"})
               PROVE  /\ y \in nodes => Pending(y, "drop")'
                      /\ y \in trusted => Pending(y, "untrust")'
                      /\ y \in stored => Pending(y, "unsave")'
    BY <1>2 DEF RemovalInv
  <2>1. CASE y = x
    BY <1>9, <2>1
  <2>2. CASE y # x
    <3>1. u # k /\ y \in alone \cap About(task[u], {"removed"})
      BY <1>2, <1>3, <1>4, <2>2
    <3>2. /\ y \in nodes => Pending(y, "drop")
          /\ y \in trusted => Pending(y, "untrust")
          /\ y \in stored => Pending(y, "unsave")
      BY <3>1 DEF TasksInv, RemovalInv
    <3> QED BY <1>10, <3>2
  <2> QED BY <2>1, <2>2
<1> QED BY <1>5, <1>6, <1>7, <1>8, <1>11 DEF TasksInv

\* A restart: nothing is left to do, and who was stored is trusted.
LEMMA RestartKeeps ==
    ASSUME TasksInv, Restarted, used' \in [events : Nat, commands : Nat, restarts : Nat]
    PROVE  TasksInv'
<1>1. /\ nodes' = stored /\ trusted' = stored /\ clients' = {} /\ stored' = stored
      /\ task' = [t \in Task |-> <<>>] /\ revoked' = {}
      /\ UNCHANGED <<removed, alone, unvouched, added>>
  BY DEF Restarted
<1>2. \A t \in Task : task'[t] = <<>>
  BY <1>1
<1>3. TypeOK'
  <2>1. PICK none \in Seq(Operation) : none = <<>>
    BY EmptySeq
  <2>2. task' \in [Task -> Seq(Operation)]
    BY <1>1, <2>1
  <2>3. stored \subseteq Id
    BY DEF TasksInv, TypeOK, Id
  <2> QED BY <1>1, <2>2, <2>3 DEF TasksInv, TypeOK, Operation
<1>4. HandlersFit'
  BY <1>2, FitNone DEF HandlersFit
<1>5. KnownTrusted' /\ AddedKept' /\ (added \cap revoked = {})' /\ RemovedAloneGone'
  BY <1>1 DEF TasksInv, KnownTrusted, AddedKept, RemovedAloneGone
<1>6. RemovalInv'
  BY <1>2, AboutNone DEF RemovalInv
<1> QED BY <1>3, <1>4, <1>5, <1>6 DEF TasksInv

-----------------------------------------------------------------------------
(* The invariant holds in every reachable state. *)

\* The empty maps that a new daemon starts with.
LEMMA TasksInit == Init => TasksInv
<1> SUFFICES ASSUME Init PROVE TasksInv
  OBVIOUS
<1>1. \A t \in Task : task[t] = <<>>
  BY DEF Init
<1>2. PICK none \in Seq(Operation) : none = <<>>
  BY EmptySeq
<1>3. task \in [Task -> Seq(Operation)]
  BY <1>2 DEF Init
<1>4. TypeOK
  BY <1>3 DEF Init, TypeOK, Operation
<1>5. HandlersFit
  BY <1>1, FitNone DEF HandlersFit
<1>6. RemovalInv
  BY <1>1, AboutNone DEF RemovalInv
<1> QED BY <1>4, <1>5, <1>6 DEF Init, TasksInv, KnownTrusted, AddedKept, RemovedAloneGone

\* Every step of every task: a handler begins, an operation of one is done, or
\* the process ends and starts again.
LEMMA TasksStep == TasksInv /\ [Next]_vars => TasksInv'
<1> SUFFICES ASSUME TasksInv, [Next]_vars PROVE TasksInv'
  OBVIOUS
<1>1. CASE UNCHANGED vars
  BY <1>1 DEF vars, maps, history, TasksInv, TypeOK, HandlersFit, KnownTrusted, AddedKept,
              RemovedAloneGone, RemovalInv, Pending
<1>2. CASE \/ \E p \in Peer : \/ Invited(p) \/ AboutMe(p) \/ Left(p)
                               \/ SyncRequest(p) \/ SyncResponse(p)
           \/ StateTick \/ Sigterm
  BY <1>2, EventKeeps
<1>3. ASSUME NEW k \in Conn, Authenticate(k) \/ AddNode(k) \/ RemoveNode(k) \/ Shutdown(k)
      PROVE  TasksInv'
  BY <1>3, CommandKeeps, RemoveNodeKeeps
<1>4. ASSUME NEW t \in Task,
             \/ Refresh(t) \/ Keep(t) \/ Prune(t) \/ MapStep(t) \/ Snapshot(t)
             \/ Commit(t) \/ StorageStep(t) \/ AckAdded(t) \/ AckRemoved(t)
      PROVE  TasksInv'
  BY <1>4, RefreshEffect, KeepEffect, PruneEffect, SnapshotEffect, SimpleEffect, OperationKeeps
<1>5. CASE Crash \/ \E t \in Task : Exit(t)
  <2>1. Restarted /\ used' \in [events : Nat, commands : Nat, restarts : Nat]
    BY <1>5 DEF Crash, Exit, TasksInv, TypeOK
  <2> QED BY <2>1, RestartKeeps
<1> QED BY <1>1, <1>2, <1>3, <1>4, <1>5 DEF Next

\* All of the invariant, with what the tasks still have to do.
THEOREM TasksCorrect == Spec => []TasksInv
BY TasksInit, TasksStep, PTL DEF Spec

\* The shared maps, the table and what the handlers hold stay of their types:
\* clients, whom the registry and the active directory list, never get into
\* the trusted map or the nodes table.
THEOREM TypeCorrect == Spec => []TypeOK
<1>1. TasksInv => TypeOK
  BY DEF TasksInv
<1> QED BY <1>1, TasksCorrect, PTL

\* Trust is given before a peer becomes active or is stored and outlives every
\* clean-up and save, whatever runs in between, until RemoveNode begins.
THEOREM TrustFirstAlways == Spec => []KnownTrusted
<1>1. TasksInv => KnownTrusted
  BY DEF TasksInv
<1> QED BY <1>1, TasksCorrect, PTL

\* What AddNode has answered for stays trusted and persisted until RemoveNode
\* begins, over every save() that overlaps it and over restarts.
THEOREM AddedStays == Spec => []AddedKept
<1>1. TasksInv => AddedKept
  BY DEF TasksInv
<1> QED BY <1>1, TasksCorrect, PTL

\* A RemoveNode that no handler overlapped which re-admits has emptied both
\* maps and the table of the peer when it answers, and they stay so until a
\* handler begins that admits it.
THEOREM RemovedAloneStaysGone == Spec => []RemovedAloneGone
<1>1. TasksInv => RemovedAloneGone
  BY DEF TasksInv
<1> QED BY <1>1, TasksCorrect, PTL
=============================================================================
