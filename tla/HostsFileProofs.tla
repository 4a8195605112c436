--------------------------- MODULE HostsFileProofs ---------------------------
(***************************************************************************)
(* TLAPS proofs about HostsFile, for every set of lines, every history of  *)
(* the directory and every interleaving of the two tasks with the users.   *)
(***************************************************************************)
EXTENDS HostsFile, LeastNumber, SequenceTheorems

-----------------------------------------------------------------------------
(* The inductive invariant. *)

Marker == {Begin, End}

MarkerFree(lines) == \A i \in DOMAIN lines : lines[i] \notin Marker

\* A file has each marker once at most, and a begin marker only in front of a
\* record and the end marker.  An end marker may be left alone by a write in
\* place.
Tidy(lines) ==
    /\ \A i, j \in DOMAIN lines : lines[i] = lines[j] /\ lines[i] \in Marker => i = j
    /\ \A i \in DOMAIN lines : lines[i] = Begin =>
          i + 2 \in DOMAIN lines /\ lines[i + 1] \in Records /\ lines[i + 2] = End

\* The section of the records, if there are any, among other lines.
Around(lines, records, others) ==
    IF records = Nothing THEN \A i \in DOMAIN lines : lines[i] \in others
    ELSE \E b \in DOMAIN lines :
            /\ b + 2 \in DOMAIN lines
            /\ lines[b] = Begin /\ lines[b + 1] = records /\ lines[b + 2] = End
            /\ \A i \in DOMAIN lines \ {b, b + 1, b + 2} : lines[i] \in others

\* What a task is about to write.
Written(lines, records) == Around(lines, records, Line \ Marker)

\* What there is when no task has written in place.
Clean(lines) == \E records \in Records \cup {Nothing} : Around(lines, records, UserLine \cup {Blank})

\* Where the tasks are while the process runs.
Phases ==
    /\ phase \in {"off", "starting"} => task["background"].pc = "idle"
    /\ phase \in {"off", "running", "closed"} => task["main"].pc = "idle"
    /\ phase = "closing" /\ Writing("main") => task["main"].want = Nothing
    /\ \A t \in opened : task[t].pc = "write"

\* The file and what is about to be written to it.  A task that writes a
\* section in place is the only one that does, and the file it has emptied has
\* no markers before.
Contents ==
    /\ Tidy(file)
    /\ \A t \in Task : Writing(t) => /\ Written(task[t].out, task[t].want)
                                     /\ SameUserLines(task[t].seen, task[t].out)
    /\ \A t \in opened : task[t].want # Nothing => MarkerFree(file)

InPlace ==
    ~inplace => /\ Clean(file)
                /\ \A t \in Task : /\ task[t].pc \in {"idle", "swap", "panicked"}
                                   /\ Writing(t) => Clean(task[t].out)

HostsInv == TypeOK /\ (~broken => Phases /\ Contents /\ InPlace)

-----------------------------------------------------------------------------
(* write_to. *)

\* The first occurrence of a marker.
LEMMA PositionFirst ==
    ASSUME NEW lines \in Seq(Line), NEW marker
    PROVE  LET p == position(lines, marker)
           IN  \/ p = 0 /\ \A i \in DOMAIN lines : lines[i] # marker
               \/ p \in 1..Len(lines) /\ lines[p] = marker
<1> DEFINE at == {i \in DOMAIN lines : lines[i] = marker}
<1>1. at \in SUBSET Nat
  OBVIOUS
<1>2. position(lines, marker) = IF at = {} THEN 0 ELSE CHOOSE i \in at : \A j \in at : i <= j
  BY DEF position
<1>3. CASE at = {}
  BY <1>2, <1>3
<1>4. CASE at # {}
  <2>1. \E i \in at : \A j \in at : i <= j
    <3> HIDE DEF at
    <3> QED BY <1>1, <1>4, LeastNatural
  <2>2. position(lines, marker) \in at
    <3> HIDE DEF at
    <3> QED BY <1>2, <1>4, <2>1
  <2> QED BY <2>2
<1> QED BY <1>3, <1>4

\* The lines of a section.
LEMMA SectionLines ==
    ASSUME NEW records \in Records \cup {Nothing}
    PROVE  LET s == Section(records)
           IN  /\ s \in Seq(Line)
               /\ records = Nothing => s = <<>> /\ Len(s) = 0
               /\ records # Nothing => Len(s) = 3 /\ s[1] = Begin /\ s[2] = records /\ s[3] = End
<1>1. Begin \in Line /\ End \in Line /\ Records \subseteq Line /\ Nothing \notin Records
  BY HostsAssumption DEF Line
<1>2. CASE records = Nothing
  BY <1>2 DEF Section
<1>3. CASE records # Nothing
  <2>1. Section(records) = <<Begin, records, End>> /\ records \in Line
    BY <1>1, <1>3 DEF Section
  <2> HIDE DEF Section
  <2> QED BY <1>1, <1>3, <2>1
<1> QED BY <1>2, <1>3

\* One file's lines after another one's.
LEMMA Concat ==
    ASSUME NEW a \in Seq(Line), NEW c \in Seq(Line)
    PROVE  /\ a \o c \in Seq(Line) /\ Len(a \o c) = Len(a) + Len(c)
           /\ Len(a) \in Nat /\ Len(c) \in Nat
           /\ \A i \in 1..Len(a) : (a \o c)[i] = a[i]
           /\ \A i \in 1..Len(c) : (a \o c)[Len(a) + i] = c[i]
<1>1. /\ a \o c \in Seq(Line) /\ Len(a \o c) = Len(a) + Len(c)
      /\ \A i \in 1..Len(a) + Len(c) : (a \o c)[i] = IF i <= Len(a) THEN a[i] ELSE c[i - Len(a)]
  BY ConcatProperties
<1>2. Len(a) \in Nat /\ Len(c) \in Nat
  OBVIOUS
<1>3. ASSUME NEW i \in 1..Len(c) PROVE (a \o c)[Len(a) + i] = c[i]
  <2>1. Len(a) + i \in 1..Len(a) + Len(c) /\ ~(Len(a) + i <= Len(a)) /\ Len(a) + i - Len(a) = i
    BY <1>2
  <2> QED BY <1>1, <2>1
<1>4. ASSUME NEW i \in 1..Len(a) PROVE (a \o c)[i] = a[i]
  <2>1. i \in 1..Len(a) + Len(c) /\ i <= Len(a)
    BY <1>2
  <2> QED BY <1>1, <2>1
<1> QED BY <1>1, <1>2, <1>3, <1>4

\* The text is the lines with n of them, from b on, replaced by a section.
Spliced(lines, records, b, n, text) ==
    LET s == Section(records)
    IN  /\ text \in Seq(Line) /\ Len(text) = Len(lines) - n + Len(s)
        /\ \A i \in 1..(b - 1) : text[i] = lines[i]
        /\ \A j \in 1..Len(s) : text[b - 1 + j] = s[j]
        /\ \A i \in (b + n)..Len(lines) : text[i - n + Len(s)] = lines[i]

\* How write_to replaces them.
LEMMA Splice ==
    ASSUME NEW lines \in Seq(Line), NEW records \in Records \cup {Nothing},
           NEW b \in Nat \ {0}, NEW n \in Nat, b - 1 + n <= Len(lines)
    PROVE  Spliced(lines, records, b, n,
                   SubSeq(lines, 1, b - 1) \o Section(records) \o SubSeq(lines, b + n, Len(lines)))
<1> DEFINE s == Section(records)
           before == SubSeq(lines, 1, b - 1)
           after == SubSeq(lines, b + n, Len(lines))
           text == before \o s \o after
<1>1. s \in Seq(Line) /\ Len(s) \in Nat /\ Len(lines) \in Nat
  BY SectionLines
<1>2. /\ before \in Seq(Line) /\ Len(before) = b - 1
      /\ \A i \in 1..(b - 1) : before[i] = lines[i]
  <2>1. \A i \in 1..(b - 1) : lines[i] \in Line
    BY <1>1
  <2> QED BY <2>1, SubSeqProperties
<1>3. /\ after \in Seq(Line) /\ Len(after) = Len(lines) - n - b + 1
      /\ \A i \in 1..(Len(lines) - n - b + 1) : after[i] = lines[b + n + i - 1]
  <2>1. \A i \in (b + n)..Len(lines) : lines[i] \in Line
    BY <1>1
  <2>2. /\ after \in Seq(Line)
        /\ Len(after) = IF b + n <= Len(lines) THEN Len(lines) - (b + n) + 1 ELSE 0
        /\ \A i \in 1..(Len(lines) - (b + n) + 1) : after[i] = lines[b + n + i - 1]
    BY <1>1, <2>1, SubSeqProperties
  <2> QED BY <1>1, <2>2
<1> HIDE DEF before, after
<1> HIDE DEF s
<1> DEFINE front == before \o s
<1>4. /\ front \in Seq(Line) /\ Len(front) = b - 1 + Len(s)
      /\ \A i \in 1..(b - 1) : front[i] = before[i]
      /\ \A j \in 1..Len(s) : front[b - 1 + j] = s[j]
  <2>1. /\ front \in Seq(Line) /\ Len(front) = Len(before) + Len(s)
        /\ \A i \in 1..Len(before) : front[i] = before[i]
        /\ \A i \in 1..Len(s) : front[Len(before) + i] = s[i]
    <3> HIDE DEF before
    <3> QED BY <1>1, <1>2, Concat
  <2> HIDE DEF front
  <2> QED BY <1>2, <2>1
<1>5. text = front \o after
  OBVIOUS
<1> HIDE DEF front, text
<1>6. /\ text \in Seq(Line) /\ Len(text) = b - 1 + Len(s) + Len(after)
      /\ \A i \in 1..(b - 1 + Len(s)) : text[i] = front[i]
      /\ \A i \in 1..Len(after) : text[b - 1 + Len(s) + i] = after[i]
  <2>1. /\ front \o after \in Seq(Line) /\ Len(front \o after) = Len(front) + Len(after)
        /\ \A i \in 1..Len(front) : (front \o after)[i] = front[i]
        /\ \A i \in 1..Len(after) : (front \o after)[Len(front) + i] = after[i]
    BY <1>3, <1>4, Concat
  <2> QED BY <1>4, <1>5, <2>1
<1>7. \A i \in 1..(b - 1) : text[i] = lines[i]
  BY <1>1, <1>2, <1>4, <1>6
<1>8. ASSUME NEW j \in 1..Len(s) PROVE text[b - 1 + j] = s[j]
  <2>1. b - 1 + j \in 1..(b - 1 + Len(s))
    BY <1>1
  <2> QED BY <1>4, <1>6, <2>1
<1>9. ASSUME NEW i \in (b + n)..Len(lines) PROVE text[i - n + Len(s)] = lines[i]
  <2> DEFINE k == i - (b + n) + 1
  <2>1. k \in 1..Len(after) /\ b - 1 + Len(s) + k = i - n + Len(s) /\ b + n + k - 1 = i
    BY <1>1, <1>3
  <2> HIDE DEF k
  <2>2. text[i - n + Len(s)] = after[k]
    BY <1>6, <2>1
  <2>3. k \in 1..(Len(lines) - n - b + 1)
    BY <1>3, <2>1
  <2>4. after[k] = lines[i]
    BY <1>3, <2>1, <2>3
  <2> QED BY <2>2, <2>4
<1>10. Len(text) = Len(lines) - n + Len(s)
  BY <1>1, <1>3, <1>6
<1> QED BY <1>6, <1>7, <1>8, <1>9, <1>10 DEF text, front, before, after, s, Spliced

\* A section after the last line.
LEMMA SpliceAtEnd ==
    ASSUME NEW lines \in Seq(Line), NEW records \in Records \cup {Nothing}
    PROVE  Spliced(lines, records, Len(lines) + 1, 0, lines \o Section(records))
<1> DEFINE s == Section(records)
           text == lines \o s
<1>1. s \in Seq(Line)
  BY SectionLines
<1> HIDE DEF s
<1>2. /\ text \in Seq(Line) /\ Len(text) = Len(lines) + Len(s)
      /\ Len(lines) \in Nat /\ Len(s) \in Nat
      /\ \A i \in 1..Len(lines) : text[i] = lines[i]
      /\ \A i \in 1..Len(s) : text[Len(lines) + i] = s[i]
  BY <1>1, Concat
<1> HIDE DEF text
<1>3. \A j \in 1..Len(s) : text[Len(lines) + 1 - 1 + j] = s[j]
  BY <1>2
<1>4. \A i \in (Len(lines) + 1 + 0)..Len(lines) : text[i - 0 + Len(s)] = lines[i]
  BY <1>2
<1> QED BY <1>2, <1>3, <1>4 DEF Spliced, text, s

\* Where the lines of the new text are from.
LEMMA SplicedLines ==
    ASSUME NEW lines \in Seq(Line), NEW records \in Records \cup {Nothing},
           NEW b \in Nat \ {0}, NEW n \in Nat, b - 1 + n <= Len(lines),
           NEW text, Spliced(lines, records, b, n, text)
    PROVE  LET k == Len(Section(records))
           IN  /\ k \in {0, 3} /\ Len(lines) \in Nat /\ Len(text) = Len(lines) - n + k
               /\ \A i \in 1..(b - 1) : text[i] = lines[i]
               /\ \A i \in (b + k)..Len(text) : text[i] = lines[i - k + n]
               /\ records = Nothing => k = 0
               /\ records # Nothing => k = 3 /\ text[b] = Begin /\ text[b + 1] = records /\ text[b + 2] = End
<1> DEFINE s == Section(records)
<1>1. /\ records = Nothing => Len(s) = 0
      /\ records # Nothing => Len(s) = 3 /\ s[1] = Begin /\ s[2] = records /\ s[3] = End
  BY SectionLines
<1> HIDE DEF s
<1>2. /\ text \in Seq(Line) /\ Len(text) = Len(lines) - n + Len(s)
      /\ \A i \in 1..(b - 1) : text[i] = lines[i]
      /\ \A j \in 1..Len(s) : text[b - 1 + j] = s[j]
      /\ \A i \in (b + n)..Len(lines) : text[i - n + Len(s)] = lines[i]
  BY DEF Spliced, s
<1>3. Len(s) \in {0, 3} /\ Len(lines) \in Nat
  BY <1>1
<1>4. ASSUME NEW i \in (b + Len(s))..Len(text) PROVE text[i] = lines[i - Len(s) + n]
  <2>1. i - Len(s) + n \in (b + n)..Len(lines) /\ i - Len(s) + n - n + Len(s) = i
    BY <1>2, <1>3
  <2> QED BY <1>2, <2>1
<1>5. records # Nothing => text[b] = Begin /\ text[b + 1] = records /\ text[b + 2] = End
  <2> SUFFICES ASSUME records # Nothing PROVE text[b] = Begin /\ text[b + 1] = records /\ text[b + 2] = End
    OBVIOUS
  <2>1. text[b - 1 + 1] = Begin /\ text[b - 1 + 2] = records /\ text[b - 1 + 3] = End
    <3>1. Len(s) = 3
      BY <1>1
    <3>2. \A j \in 1..Len(s) : text[b - 1 + j] = s[j]
      BY <1>2
    <3>3. text[b - 1 + 1] = s[1] /\ text[b - 1 + 2] = s[2] /\ text[b - 1 + 3] = s[3]
      <4>1. 1 \in 1..Len(s) /\ 2 \in 1..Len(s) /\ 3 \in 1..Len(s)
        BY <3>1
      <4> QED BY <3>2, <4>1
    <3> QED BY <1>1, <3>3
  <2>2. b - 1 + 1 = b /\ b - 1 + 2 = b + 1 /\ b - 1 + 3 = b + 2
    OBVIOUS
  <2> QED BY <2>1, <2>2
<1> QED BY <1>1, <1>2, <1>3, <1>4, <1>5 DEF s

\* The section is among the lines that stay.
LEMMA SplicedAround ==
    ASSUME NEW lines \in Seq(Line), NEW records \in Records \cup {Nothing},
           NEW b \in Nat \ {0}, NEW n \in Nat, b - 1 + n <= Len(lines),
           NEW text, Spliced(lines, records, b, n, text),
           NEW others, \A i \in DOMAIN lines \ b..(b + n - 1) : lines[i] \in others
    PROVE  Around(text, records, others)
<1> DEFINE k == Len(Section(records))
<1>1. /\ k \in {0, 3} /\ Len(lines) \in Nat /\ Len(text) = Len(lines) - n + k
      /\ \A i \in 1..(b - 1) : text[i] = lines[i]
      /\ \A i \in (b + k)..Len(text) : text[i] = lines[i - k + n]
      /\ records = Nothing => k = 0
      /\ records # Nothing => k = 3 /\ text[b] = Begin /\ text[b + 1] = records /\ text[b + 2] = End
  BY SplicedLines
<1>2. DOMAIN text = 1..Len(text) /\ DOMAIN lines = 1..Len(lines)
  BY DEF Spliced
<1> HIDE DEF k
<1>3. ASSUME NEW i \in DOMAIN text, i \notin b..(b + k - 1) PROVE text[i] \in others
  <2>1. CASE i < b
    <3>1. i \in DOMAIN lines \ b..(b + n - 1) /\ text[i] = lines[i]
      BY <1>1, <1>2, <2>1
    <3> QED BY <3>1
  <2>2. CASE i >= b
    <3>1. i \in 1..Len(text) /\ i \notin b..(b + k - 1)
      BY <1>2, <1>3
    <3>2. i \in (b + k)..Len(text)
      BY <1>1, <2>2, <3>1
    <3>3. i - k + n \in 1..Len(lines) /\ i - k + n \notin b..(b + n - 1)
      BY <1>1, <3>2
    <3>4. lines[i - k + n] \in others
      BY <1>2, <3>3
    <3> QED BY <1>1, <3>2, <3>4
  <2> QED BY <1>2, <2>1, <2>2
<1>4. CASE records = Nothing
  <2>1. \A i \in DOMAIN text : i \notin b..(b + k - 1)
    BY <1>1, <1>4
  <2> QED BY <1>3, <1>4, <2>1 DEF Around
<1>5. CASE records # Nothing
  <2>1. b \in DOMAIN text /\ b + 2 \in DOMAIN text
    BY <1>1, <1>2, <1>5
  <2>2. \A i \in DOMAIN text \ {b, b + 1, b + 2} : text[i] \in others
    <3>1. \A i \in DOMAIN text \ {b, b + 1, b + 2} : i \notin b..(b + k - 1)
      BY <1>1, <1>2, <1>5
    <3> QED BY <1>3, <3>1
  <2> QED BY <1>1, <1>5, <2>1, <2>2 DEF Around
<1> QED BY <1>4, <1>5

\* The users' lines stay, in their order, if none of them is replaced.
LEMMA SplicedSame ==
    ASSUME NEW lines \in Seq(Line), NEW records \in Records \cup {Nothing},
           NEW b \in Nat \ {0}, NEW n \in Nat, b - 1 + n <= Len(lines),
           NEW text, Spliced(lines, records, b, n, text),
           \A i \in b..(b + n - 1) : lines[i] \notin UserLine
    PROVE  SameUserLines(lines, text)
<1> DEFINE k == Len(Section(records))
           to == [i \in UserLines(lines) |-> IF i < b THEN i ELSE i - n + k]
<1>1. /\ k \in {0, 3} /\ Len(lines) \in Nat /\ Len(text) = Len(lines) - n + k
      /\ \A i \in 1..(b - 1) : text[i] = lines[i]
      /\ \A i \in (b + k)..Len(text) : text[i] = lines[i - k + n]
      /\ records = Nothing => k = 0
      /\ records # Nothing => k = 3 /\ text[b] = Begin /\ text[b + 1] = records /\ text[b + 2] = End
  BY SplicedLines
<1>2. DOMAIN text = 1..Len(text) /\ DOMAIN lines = 1..Len(lines)
  BY DEF Spliced
<1> HIDE DEF k
<1>3. ASSUME NEW i \in UserLines(lines)
      PROVE  to[i] \in UserLines(text) /\ text[to[i]] = lines[i] /\ i \in Nat
             /\ ((i < b /\ to[i] = i) \/ (i >= b + n /\ to[i] = i - n + k))
  <2>1. i \in 1..Len(lines) /\ lines[i] \in UserLine /\ (i < b \/ i >= b + n)
    BY <1>2 DEF UserLines
  <2>2. CASE i < b
    <3>1. to[i] = i /\ i \in DOMAIN text /\ text[i] = lines[i]
      BY <1>1, <1>2, <2>1, <2>2
    <3>2. i \in UserLines(text)
      BY <2>1, <3>1 DEF UserLines
    <3> HIDE DEF to
    <3>3. i \in Nat
      BY <1>1, <2>1
    <3> QED BY <2>1, <2>2, <3>1, <3>2, <3>3
  <2>3. CASE i >= b + n
    <3> DEFINE m == i - n + k
    <3>1. to[i] = m /\ m \in (b + k)..Len(text) /\ m \in 1..Len(text) /\ m - k + n = i
      BY <1>1, <2>1, <2>3
    <3> HIDE DEF m, to
    <3>2. text[m] = lines[i]
      BY <1>1, <3>1
    <3> QED BY <1>2, <2>1, <2>3, <3>1, <3>2 DEF UserLines, m
  <2> QED BY <2>1, <2>2, <2>3
<1>4. ASSUME NEW j \in UserLines(text) PROVE \E i \in UserLines(lines) : to[i] = j
  <2>1. j \in 1..Len(text) /\ text[j] \in UserLine
    BY <1>2 DEF UserLines
  <2>2. CASE j < b
    <3>1. j \in 1..Len(lines) /\ text[j] = lines[j]
      BY <1>1, <2>1, <2>2
    <3>2. j \in UserLines(lines)
      BY <1>2, <2>1, <3>1 DEF UserLines
    <3> QED BY <2>2, <3>2
  <2>3. CASE j >= b + k
    <3> DEFINE i == j - k + n
    <3>1. i \in 1..Len(lines) /\ ~(i < b) /\ i - n + k = j /\ j \in (b + k)..Len(text)
      BY <1>1, <2>1, <2>3
    <3>2. lines[i] = text[j]
      BY <1>1, <3>1
    <3>3. i \in UserLines(lines)
      BY <1>2, <2>1, <3>1, <3>2 DEF UserLines
    <3> QED BY <3>1, <3>3
  <2>4. CASE j >= b /\ j < b + k
    <3>1. k = 3 /\ records # Nothing /\ j \in {b, b + 1, b + 2}
      BY <1>1, <2>1, <2>4
    <3>2. text[j] \in {Begin, End} \cup Records
      BY <1>1, <3>1
    <3> QED BY <2>1, <3>2, HostsAssumption
  <2> QED BY <1>1, <2>1, <2>2, <2>3, <2>4
<1>5. to \in [UserLines(lines) -> UserLines(text)]
  <2> HIDE DEF to
  <2>1. to = [i \in UserLines(lines) |-> to[i]]
    BY DEF to
  <2> QED BY <1>3, <2>1
<1>6. ASSUME NEW i \in UserLines(lines), NEW j \in UserLines(lines), i < j PROVE to[i] < to[j]
  <2> HIDE DEF to
  <2>1. /\ i \in Int /\ j \in Int
        /\ (i < b /\ to[i] = i) \/ (i >= b + n /\ to[i] = i - n + k)
        /\ (j < b /\ to[j] = j) \/ (j >= b + n /\ to[j] = j - n + k)
    BY <1>3
  <2>2. k \in Nat
    BY <1>1
  <2> QED BY <1>6, <2>1, <2>2
<1> HIDE DEF to
<1> QED BY <1>3, <1>4, <1>5, <1>6 DEF SameUserLines

\* A blank line before a new section.
LEMMA PaddedLines ==
    ASSUME NEW lines \in Seq(Line)
    PROVE  LET p == Padded(lines)
           IN  /\ p \in Seq(Line) /\ Len(lines) \in Nat /\ Len(p) \in {Len(lines), Len(lines) + 1}
               /\ \A i \in 1..Len(lines) : p[i] = lines[i]
               /\ Len(p) = Len(lines) + 1 => p[Len(lines) + 1] = Blank
<1>1. Len(lines) \in Nat /\ Blank \in Line
  BY DEF Line
<1>2. Padded(lines) \in {lines, Append(lines, Blank)}
  BY DEF Padded
<1>3. /\ Append(lines, Blank) \in Seq(Line) /\ Len(Append(lines, Blank)) = Len(lines) + 1
      /\ \A i \in 1..Len(lines) : Append(lines, Blank)[i] = lines[i]
      /\ Append(lines, Blank)[Len(lines) + 1] = Blank
  BY <1>1, AppendProperties
<1>4. CASE Padded(lines) = lines
  BY <1>1, <1>4
<1>5. CASE Padded(lines) = Append(lines, Blank)
  BY <1>1, <1>3, <1>5
<1> QED BY <1>2, <1>4, <1>5

\* The users' lines are the same with a blank line after them.
LEMMA PaddedSame ==
    ASSUME NEW lines \in Seq(Line)
    PROVE  /\ UserLines(Padded(lines)) = UserLines(lines)
           /\ \A i \in UserLines(lines) : Padded(lines)[i] = lines[i]
<1> DEFINE p == Padded(lines)
<1>1. /\ p \in Seq(Line) /\ Len(lines) \in Nat /\ Len(p) \in {Len(lines), Len(lines) + 1}
      /\ \A i \in 1..Len(lines) : p[i] = lines[i]
      /\ Len(p) = Len(lines) + 1 => p[Len(lines) + 1] = Blank
  BY PaddedLines
<1> HIDE DEF p
<1>2. DOMAIN p = 1..Len(p) /\ DOMAIN lines = 1..Len(lines) /\ Blank \notin UserLine
  BY <1>1, HostsAssumption
<1>3. ASSUME NEW i \in DOMAIN p, p[i] \in UserLine PROVE i \in 1..Len(lines)
  <2>1. i \in 1..Len(lines) \/ (i = Len(lines) + 1 /\ Len(p) = Len(lines) + 1)
    <3>1. i \in 1..Len(p)
      BY <1>2, <1>3
    <3> QED BY <1>1, <3>1
  <2>2. i # Len(lines) + 1 \/ Len(p) # Len(lines) + 1
    BY <1>1, <1>2, <1>3
  <2> QED BY <2>1, <2>2
<1>4. UserLines(p) = UserLines(lines)
  <2>1. \A i \in UserLines(p) : i \in UserLines(lines)
    BY <1>1, <1>2, <1>3 DEF UserLines
  <2>2. \A i \in UserLines(lines) : i \in UserLines(p)
    <3> SUFFICES ASSUME NEW i \in UserLines(lines) PROVE i \in UserLines(p)
      OBVIOUS
    <3>1. i \in 1..Len(lines) /\ lines[i] \in UserLine
      BY <1>2 DEF UserLines
    <3>2. i \in 1..Len(p) /\ p[i] = lines[i]
      BY <1>1, <3>1
    <3> QED BY <1>2, <3>1, <3>2 DEF UserLines
  <2> QED BY <2>1, <2>2
<1>5. \A i \in UserLines(lines) : p[i] = lines[i]
  BY <1>1, <1>2 DEF UserLines
<1> QED BY <1>4, <1>5 DEF p

\* In a tidy file the section is where the first begin marker is.
LEMMA TidySection ==
    ASSUME NEW lines \in Seq(Line), Tidy(lines)
    PROVE  LET b == position(lines, Begin)
               e == position(lines, End)
           IN  /\ b = 0 /\ e = 0 => MarkerFree(lines)
               /\ b # 0 => /\ b \in Nat \ {0} /\ e = b + 2 /\ b + 2 <= Len(lines)
                           /\ lines[b] = Begin /\ lines[b + 1] \in Records /\ lines[b + 2] = End
                           /\ \A i \in DOMAIN lines \ b..(b + 2) : lines[i] \notin Marker
<1> DEFINE b == position(lines, Begin)
           e == position(lines, End)
<1>1. \/ b = 0 /\ \A i \in DOMAIN lines : lines[i] # Begin
      \/ b \in 1..Len(lines) /\ lines[b] = Begin
  BY PositionFirst
<1>2. \/ e = 0 /\ \A i \in DOMAIN lines : lines[i] # End
      \/ e \in 1..Len(lines) /\ lines[e] = End
  BY PositionFirst
<1> HIDE DEF b, e
<1>3. DOMAIN lines = 1..Len(lines) /\ Len(lines) \in Nat
  OBVIOUS
<1>4. b = 0 /\ e = 0 => MarkerFree(lines)
  BY <1>1, <1>2, <1>3 DEF MarkerFree, Marker
<1>5. ASSUME b # 0
      PROVE  /\ b \in Nat \ {0} /\ e = b + 2 /\ b + 2 <= Len(lines)
             /\ lines[b] = Begin /\ lines[b + 1] \in Records /\ lines[b + 2] = End
             /\ \A i \in DOMAIN lines \ b..(b + 2) : lines[i] \notin Marker
  <2>1. b \in 1..Len(lines) /\ lines[b] = Begin
    BY <1>1, <1>5
  <2>2. b + 2 \in DOMAIN lines /\ lines[b + 1] \in Records /\ lines[b + 2] = End
    BY <1>3, <2>1 DEF Tidy
  <2>3. e \in DOMAIN lines /\ lines[e] = End
    BY <1>2, <1>3, <2>2
  <2>4. e = b + 2
    BY <2>2, <2>3 DEF Tidy, Marker
  <2>5. ASSUME NEW i \in DOMAIN lines, lines[i] \in Marker PROVE i \in {b, b + 2}
    BY <1>3, <2>1, <2>2, <2>5 DEF Tidy, Marker
  <2> QED BY <1>3, <2>1, <2>2, <2>4, <2>5
<1> QED BY <1>4, <1>5 DEF b, e

\* In a clean file the other lines are the users'.
LEMMA CleanOthers ==
    ASSUME NEW lines \in Seq(Line), Tidy(lines), Clean(lines)
    PROVE  LET b == position(lines, Begin)
           IN  /\ b = 0 => \A i \in DOMAIN lines : lines[i] \in UserLine \cup {Blank}
               /\ b # 0 => \A i \in DOMAIN lines \ b..(b + 2) : lines[i] \in UserLine \cup {Blank}
<1> DEFINE b == position(lines, Begin)
<1>1. \/ b = 0 /\ \A i \in DOMAIN lines : lines[i] # Begin
      \/ b \in 1..Len(lines) /\ lines[b] = Begin
  BY PositionFirst
<1> HIDE DEF b
<1>2. PICK records \in Records \cup {Nothing} : Around(lines, records, UserLine \cup {Blank})
  BY DEF Clean
<1>3. CASE records = Nothing
  BY <1>2, <1>3 DEF Around, b
<1>4. CASE records # Nothing
  <2>1. PICK c \in DOMAIN lines :
          /\ lines[c] = Begin
          /\ \A i \in DOMAIN lines \ {c, c + 1, c + 2} : lines[i] \in UserLine \cup {Blank}
    BY <1>2, <1>4 DEF Around
  <2>2. b = c
    BY <1>1, <2>1 DEF Tidy, Marker
  <2>3. b \in Nat \ {0}
    BY <2>1, <2>2
  <2> QED BY <2>1, <2>2, <2>3 DEF b
<1> QED BY <1>3, <1>4

\* What write_to computes has its type, and of a tidy file it does not panic,
\* keeps the users' lines and leaves one section or none.
LEMMA WriteTo ==
    ASSUME NEW lines \in Seq(Line), NEW records \in Records \cup {Nothing}
    PROVE  LET new == write_to(lines, records)
           IN  /\ new.result \in {"changed", "unchanged", "error", "panic"}
               /\ new.text \in Seq(Line)
               /\ Tidy(lines) => new.result # "panic"
               /\ Tidy(lines) /\ new.result = "changed" =>
                     /\ Written(new.text, records) /\ SameUserLines(lines, new.text)
                     /\ Clean(lines) => Clean(new.text)
<1> DEFINE new == write_to(lines, records)
           b == position(lines, Begin)
           e == position(lines, End)
           s == Section(records)
<1>1. b \in 0..Len(lines) /\ e \in 0..Len(lines) /\ Len(lines) \in Nat /\ s \in Seq(Line)
  BY PositionFirst, SectionLines
<1>2. new = CASE b = 0 /\ e = 0 -> [result |-> "changed", text |-> Padded(lines) \o s]
              [] (b = 0) # (e = 0) -> [result |-> "error", text |-> lines]
              [] b # 0 /\ e # 0 /\ b > e + 1 -> [result |-> "panic", text |-> lines]
              [] b # 0 /\ e # 0 /\ b <= e + 1 ->
                    IF SubSeq(lines, b, e) = s THEN [result |-> "unchanged", text |-> lines]
                    ELSE [result |-> "changed",
                          text |-> SubSeq(lines, 1, b - 1) \o s \o SubSeq(lines, e + 1, Len(lines))]
  BY DEF write_to
<1>3. Tidy(lines) => /\ b = 0 /\ e = 0 => MarkerFree(lines)
                     /\ b # 0 => /\ b \in Nat \ {0} /\ e = b + 2 /\ b + 2 <= Len(lines)
                                 /\ lines[b] = Begin /\ lines[b + 1] \in Records /\ lines[b + 2] = End
                                 /\ \A i \in DOMAIN lines \ b..(b + 2) : lines[i] \notin Marker
  BY TidySection
<1>4. Tidy(lines) /\ Clean(lines) =>
         /\ b = 0 => \A i \in DOMAIN lines : lines[i] \in UserLine \cup {Blank}
         /\ b # 0 => \A i \in DOMAIN lines \ b..(b + 2) : lines[i] \in UserLine \cup {Blank}
  BY CleanOthers
<1> HIDE DEF b, e
<1>5. CASE b = 0 /\ e = 0
  <2> DEFINE p == Padded(lines)
             n == Len(p) + 1
  <2>1. new.result = "changed" /\ new.text = p \o s
    BY <1>2, <1>5
  <2>2. /\ p \in Seq(Line) /\ Len(p) \in {Len(lines), Len(lines) + 1}
        /\ \A i \in 1..Len(lines) : p[i] = lines[i]
        /\ Len(p) = Len(lines) + 1 => p[Len(lines) + 1] = Blank
    BY PaddedLines
  <2>3. UserLines(p) = UserLines(lines) /\ \A i \in UserLines(lines) : p[i] = lines[i]
    BY PaddedSame
  <2> HIDE DEF p
  <2>4. Spliced(p, records, n, 0, new.text)
    BY <2>1, <2>2, SpliceAtEnd
  <2>5. new.text \in Seq(Line)
    BY <2>4 DEF Spliced
  <2>6. n \in Nat \ {0} /\ n - 1 + 0 <= Len(p) /\ 0 \in Nat
        /\ DOMAIN p = 1..Len(p) /\ DOMAIN lines = 1..Len(lines)
    BY <1>1, <2>2
  <2>7. ASSUME NEW others, Blank \in others, \A i \in DOMAIN lines : lines[i] \in others
        PROVE  Around(new.text, records, others)
    <3>1. \A i \in DOMAIN p \ n..(n + 0 - 1) : p[i] \in others
      <4> SUFFICES ASSUME NEW i \in DOMAIN p PROVE p[i] \in others
        OBVIOUS
      <4>1. i \in 1..Len(lines) \/ (i = Len(lines) + 1 /\ Len(p) = Len(lines) + 1)
        <5>1. i \in 1..Len(p)
          BY <2>6
        <5> QED BY <1>1, <2>2, <5>1
      <4>2. CASE i \in 1..Len(lines)
        BY <2>2, <2>6, <2>7, <4>2
      <4>3. CASE i = Len(lines) + 1 /\ Len(p) = Len(lines) + 1
        <5>1. p[i] = Blank
          BY <2>2, <4>3
        <5> QED BY <2>7, <5>1
      <4> QED BY <4>1, <4>2, <4>3
    <3> HIDE DEF new, n
    <3> QED BY <2>2, <2>4, <2>6, <3>1, SplicedAround
  <2>8. SameUserLines(p, new.text)
    <3>1. \A i \in n..(n + 0 - 1) : p[i] \notin UserLine
      BY <2>6
    <3> HIDE DEF new, n
    <3> QED BY <2>2, <2>4, <2>6, <3>1, SplicedSame
  <2>9. SameUserLines(lines, new.text)
    BY <2>3, <2>8 DEF SameUserLines
  <2>10. Tidy(lines) => Written(new.text, records)
    <3> SUFFICES ASSUME Tidy(lines) PROVE Written(new.text, records)
      OBVIOUS
    <3>1. \A i \in DOMAIN lines : lines[i] \in Line \ Marker
      BY <1>3, <1>5, <2>6 DEF MarkerFree
    <3>2. Blank \in Line \ Marker
      BY HostsAssumption DEF Line, Marker
    <3> QED BY <2>7, <3>1, <3>2 DEF Written
  <2>11. Tidy(lines) /\ Clean(lines) => Clean(new.text)
    <3> SUFFICES ASSUME Tidy(lines), Clean(lines) PROVE Clean(new.text)
      OBVIOUS
    <3>1. \A i \in DOMAIN lines : lines[i] \in UserLine \cup {Blank}
      BY <1>4, <1>5
    <3> QED BY <2>7, <3>1 DEF Clean
  <2> QED BY <2>1, <2>5, <2>9, <2>10, <2>11
<1>6. CASE (b = 0) # (e = 0)
  <2>1. new = [result |-> "error", text |-> lines]
    BY <1>1, <1>2, <1>6
  <2> QED BY <2>1
<1>7. CASE b # 0 /\ e # 0 /\ b > e + 1
  <2>1. new = [result |-> "panic", text |-> lines]
    BY <1>1, <1>2, <1>7
  <2> QED BY <1>1, <1>3, <1>7, <2>1
<1>8. CASE b # 0 /\ e # 0 /\ b <= e + 1 /\ SubSeq(lines, b, e) = s
  <2>1. new = [result |-> "unchanged", text |-> lines]
    BY <1>1, <1>2, <1>8
  <2> QED BY <2>1
<1>9. CASE b # 0 /\ e # 0 /\ b <= e + 1 /\ SubSeq(lines, b, e) # s
  <2> DEFINE n == e + 1 - b
  <2>1. /\ new.result = "changed"
        /\ new.text = SubSeq(lines, 1, b - 1) \o s \o SubSeq(lines, e + 1, Len(lines))
    <3>1. ~(b = 0 /\ e = 0) /\ ~((b = 0) # (e = 0)) /\ ~(b > e + 1)
      BY <1>1, <1>9
    <3> HIDE DEF new, s
    <3>2. new = IF SubSeq(lines, b, e) = s THEN [result |-> "unchanged", text |-> lines]
                ELSE [result |-> "changed",
                      text |-> SubSeq(lines, 1, b - 1) \o s \o SubSeq(lines, e + 1, Len(lines))]
      BY <1>2, <1>9, <3>1
    <3> QED BY <1>9, <3>2
  <2>2. b \in Nat \ {0} /\ n \in Nat /\ b + n = e + 1 /\ b - 1 + n <= Len(lines)
    BY <1>1, <1>9
  <2> HIDE DEF n
  <2>3. Spliced(lines, records, b, n, new.text)
    BY <2>1, <2>2, Splice
  <2>4. new.text \in Seq(Line)
    BY <2>3 DEF Spliced
  <2>5. ASSUME Tidy(lines)
        PROVE  /\ Written(new.text, records) /\ SameUserLines(lines, new.text)
               /\ Clean(lines) => Clean(new.text)
    <3>1. /\ e = b + 2 /\ b + 2 <= Len(lines) /\ n = 3 /\ b + n - 1 = b + 2
          /\ lines[b] = Begin /\ lines[b + 1] \in Records /\ lines[b + 2] = End
          /\ \A i \in DOMAIN lines \ b..(b + 2) : lines[i] \notin Marker
      BY <1>3, <1>9, <2>2, <2>5
    <3> HIDE DEF new
    <3>2. Written(new.text, records)
      <4>1. \A i \in DOMAIN lines \ b..(b + n - 1) : lines[i] \in Line \ Marker
        BY <3>1
      <4> QED BY <2>2, <2>3, <4>1, SplicedAround DEF Written
    <3>3. SameUserLines(lines, new.text)
      <4>1. \A i \in b..(b + n - 1) : lines[i] \notin UserLine
        <5>1. \A i \in b..(b + n - 1) : i \in {b, b + 1, b + 2}
          BY <2>2, <3>1
        <5> QED BY <3>1, <5>1, HostsAssumption
      <4> QED BY <2>2, <2>3, <4>1, SplicedSame
    <3>4. Clean(lines) => Clean(new.text)
      <4> SUFFICES ASSUME Clean(lines) PROVE Clean(new.text)
        OBVIOUS
      <4>1. \A i \in DOMAIN lines \ b..(b + n - 1) : lines[i] \in UserLine \cup {Blank}
        BY <1>4, <1>9, <2>5, <3>1
      <4> QED BY <2>2, <2>3, <4>1, SplicedAround DEF Clean
    <3> QED BY <3>2, <3>3, <3>4
  <2> QED BY <2>1, <2>4, <2>5
<1> QED BY <1>1, <1>5, <1>6, <1>7, <1>8, <1>9

-----------------------------------------------------------------------------
(* What was written. *)

\* A written file is tidy.
LEMMA WrittenTidy ==
    ASSUME NEW lines \in Seq(Line), NEW records \in Records \cup {Nothing}, Written(lines, records)
    PROVE  /\ Tidy(lines)
           /\ records = Nothing => MarkerFree(lines)
<1>1. DOMAIN lines = 1..Len(lines) /\ Len(lines) \in Nat /\ Begin # End /\ Records \cap Marker = {}
  BY HostsAssumption DEF Marker
<1>2. CASE records = Nothing
  <2>1. MarkerFree(lines)
    BY <1>2 DEF Written, Around, MarkerFree
  <2>2. Tidy(lines)
    BY <2>1 DEF Tidy, MarkerFree, Marker
  <2> QED BY <2>1, <2>2
<1>3. CASE records # Nothing
  <2>1. PICK b \in DOMAIN lines :
          /\ b + 2 \in DOMAIN lines
          /\ lines[b] = Begin /\ lines[b + 1] = records /\ lines[b + 2] = End
          /\ \A i \in DOMAIN lines \ {b, b + 1, b + 2} : lines[i] \in Line \ Marker
    BY <1>3 DEF Written, Around
  <2>2. records \in Records
    BY <1>3
  <2>3. ASSUME NEW i \in DOMAIN lines, lines[i] \in Marker
        PROVE  (lines[i] = Begin => i = b) /\ (lines[i] = End => i = b + 2)
    <3>1. i \in {b, b + 1, b + 2}
      BY <2>1, <2>3
    <3>2. i # b + 1
      BY <1>1, <2>1, <2>2, <2>3
    <3> QED BY <1>1, <2>1, <3>1, <3>2
  <2>4. ASSUME NEW i \in DOMAIN lines, NEW j \in DOMAIN lines, lines[i] = lines[j], lines[i] \in Marker
        PROVE  i = j
    BY <2>3, <2>4 DEF Marker
  <2>5. ASSUME NEW i \in DOMAIN lines, lines[i] = Begin
        PROVE  i + 2 \in DOMAIN lines /\ lines[i + 1] \in Records /\ lines[i + 2] = End
    <3>1. i = b
      BY <2>3, <2>5 DEF Marker
    <3> QED BY <2>1, <2>2, <3>1
  <2> QED BY <1>3, <2>4, <2>5 DEF Tidy
<1> QED BY <1>2, <1>3

\* The lines of a section are a section.
LEMMA SectionFound ==
    ASSUME NEW lines \in Seq(Line), NEW b \in DOMAIN lines, b + 2 \in DOMAIN lines,
           NEW records \in Records,
           lines[b] = Begin, lines[b + 1] = records, lines[b + 2] = End
    PROVE  SubSeq(lines, b, b + 2) = Section(records)
<1> DEFINE found == SubSeq(lines, b, b + 2)
           s == Section(records)
<1>1. b \in Nat \ {0} /\ b + 2 \in 1..Len(lines) /\ Len(lines) \in Nat
  OBVIOUS
<1>2. \A i \in b..(b + 2) : lines[i] \in Line
  BY <1>1
<1>3. /\ found \in Seq(Line) /\ Len(found) = 3
      /\ \A i \in 1..3 : found[i] = lines[b + i - 1]
  <2>1. /\ found \in Seq(Line) /\ Len(found) = IF b <= b + 2 THEN b + 2 - b + 1 ELSE 0
        /\ \A i \in 1..(b + 2 - b + 1) : found[i] = lines[b + i - 1]
    BY <1>1, <1>2, SubSeqProperties
  <2>2. b + 2 - b + 1 = 3 /\ b <= b + 2
    BY <1>1
  <2> QED BY <2>1, <2>2
<1>4. s \in Seq(Line) /\ Len(s) = 3 /\ s[1] = Begin /\ s[2] = records /\ s[3] = End
  BY SectionLines, HostsAssumption
<1> HIDE DEF found, s
<1>5. b + 1 - 1 = b /\ b + 2 - 1 = b + 1 /\ b + 3 - 1 = b + 2
  BY <1>1
<1>6. \A i \in 1..3 : found[i] = s[i]
  BY <1>3, <1>4, <1>5
<1> QED BY <1>3, <1>4, <1>6, SeqEqual DEF found, s

\* write_to leaves alone what it wrote.
LEMMA WrittenSettles ==
    ASSUME NEW lines \in Seq(Line), NEW records \in Records, Written(lines, records)
    PROVE  write_to(lines, records).result = "unchanged"
<1> DEFINE b == position(lines, Begin)
           e == position(lines, End)
<1>1. Tidy(lines) /\ records # Nothing
  BY WrittenTidy, HostsAssumption
<1>2. PICK c \in DOMAIN lines :
        /\ c + 2 \in DOMAIN lines
        /\ lines[c] = Begin /\ lines[c + 1] = records /\ lines[c + 2] = End
  BY <1>1 DEF Written, Around
<1>3. \/ b = 0 /\ \A i \in DOMAIN lines : lines[i] # Begin
      \/ b \in 1..Len(lines) /\ lines[b] = Begin
  BY PositionFirst
<1>4. b # 0 => b \in Nat \ {0} /\ e = b + 2
  BY <1>1, TidySection
<1> HIDE DEF b, e
<1>5. b = c /\ b \in Nat \ {0} /\ e = b + 2
  BY <1>1, <1>2, <1>3, <1>4 DEF Tidy, Marker
<1>6. SubSeq(lines, b, e) = Section(records)
  BY <1>2, <1>5, SectionFound
<1>7. ~(b = 0 /\ e = 0) /\ ~((b = 0) # (e = 0)) /\ ~(b > e + 1) /\ b # 0 /\ e # 0 /\ b <= e + 1
  BY <1>5
<1>8. write_to(lines, records)
        = CASE b = 0 /\ e = 0 -> [result |-> "changed", text |-> Padded(lines) \o Section(records)]
            [] (b = 0) # (e = 0) -> [result |-> "error", text |-> lines]
            [] b # 0 /\ e # 0 /\ b > e + 1 -> [result |-> "panic", text |-> lines]
            [] b # 0 /\ e # 0 /\ b <= e + 1 ->
                  IF SubSeq(lines, b, e) = Section(records) THEN [result |-> "unchanged", text |-> lines]
                  ELSE [result |-> "changed",
                        text |-> SubSeq(lines, 1, b - 1) \o Section(records)
                                 \o SubSeq(lines, e + 1, Len(lines))]
  BY DEF write_to, b, e
<1>9. write_to(lines, records) = [result |-> "unchanged", text |-> lines]
  BY <1>6, <1>7, <1>8
<1> QED BY <1>9

\* A write in place over what another task, or a user, has put there.
LEMMA WrittenOver ==
    ASSUME NEW old \in Seq(Line), Tidy(old), NEW out \in Seq(Line),
           NEW records \in Records \cup {Nothing}, Written(out, records),
           records # Nothing => MarkerFree(old)
    PROVE  LET new == out \o SubSeq(old, Len(out) + 1, Len(old))
           IN  /\ new \in Seq(Line) /\ Tidy(new)
               /\ records = Nothing /\ MarkerFree(old) => MarkerFree(new)
<1> DEFINE n == Len(out)
           rest == SubSeq(old, n + 1, Len(old))
           new == out \o rest
<1>1. n \in Nat /\ Len(old) \in Nat /\ DOMAIN old = 1..Len(old) /\ DOMAIN out = 1..n
      /\ Tidy(out) /\ (records = Nothing => MarkerFree(out))
  BY WrittenTidy
<1>2. /\ rest \in Seq(Line) /\ Len(rest) = IF n < Len(old) THEN Len(old) - n ELSE 0
      /\ \A i \in 1..Len(rest) : n + i \in DOMAIN old /\ rest[i] = old[n + i]
  <2>1. \A i \in (n + 1)..Len(old) : old[i] \in Line
    BY <1>1
  <2>2. /\ rest \in Seq(Line) /\ Len(rest) = IF n + 1 <= Len(old) THEN Len(old) - (n + 1) + 1 ELSE 0
        /\ \A i \in 1..(Len(old) - (n + 1) + 1) : rest[i] = old[n + 1 + i - 1]
    BY <1>1, <2>1, SubSeqProperties
  <2> HIDE DEF rest, n
  <2>3. Len(rest) = IF n < Len(old) THEN Len(old) - n ELSE 0
    <3>1. n \in Nat /\ Len(old) \in Nat
      BY <1>1
    <3>2. Len(rest) = IF n + 1 <= Len(old) THEN Len(old) - (n + 1) + 1 ELSE 0
      BY <2>2
    <3>3. CASE n < Len(old)
      BY <3>1, <3>2, <3>3
    <3>4. CASE ~(n < Len(old))
      BY <3>1, <3>2, <3>4
    <3> QED BY <3>3, <3>4
  <2>4. ASSUME NEW i \in 1..Len(rest) PROVE n + i \in DOMAIN old /\ rest[i] = old[n + i]
    <3>1. /\ i \in 1..(Len(old) - (n + 1) + 1) /\ n + 1 + i - 1 = n + i
          /\ n + i \in 1..Len(old)
      <4>1. n \in Nat /\ Len(old) \in Nat /\ i \in Nat /\ i >= 1 /\ i <= Len(rest) /\ n < Len(old)
        <5>1. n \in Nat /\ Len(old) \in Nat /\ Len(rest) \in Nat
          <6>1. rest \in Seq(Line)
            BY <2>2
          <6> QED BY <1>1, <6>1, LenProperties
        <5>2. i \in Nat /\ i >= 1 /\ i <= Len(rest)
          BY <2>4, <5>1
        <5> QED BY <2>3, <5>1, <5>2
      <4> QED BY <2>3, <4>1
    <3>2. rest[i] = old[n + 1 + i - 1]
      BY <2>2, <3>1
    <3> QED BY <1>1, <3>1, <3>2
  <2> QED BY <2>2, <2>3, <2>4
<1> HIDE DEF rest
<1>3. /\ new \in Seq(Line) /\ DOMAIN new = 1..(n + Len(rest)) /\ Len(rest) \in Nat
      /\ \A i \in 1..n : new[i] = out[i]
      /\ \A i \in 1..Len(rest) : new[n + i] = rest[i]
  <2>1. /\ new \in Seq(Line) /\ Len(new) = n + Len(rest) /\ Len(rest) \in Nat
        /\ \A i \in 1..n : new[i] = out[i]
        /\ \A i \in 1..Len(rest) : new[n + i] = rest[i]
    BY <1>2, Concat
  <2> HIDE DEF new
  <2> QED BY <2>1
<1> HIDE DEF n, new
<1>4. ASSUME NEW i \in DOMAIN new
      PROVE  \/ i \in DOMAIN out /\ new[i] = out[i]
             \/ i > n /\ i \in DOMAIN old /\ new[i] = old[i]
  <2>1. CASE i <= n
    BY <1>1, <1>3, <2>1
  <2>2. CASE i > n
    <3>1. i - n \in 1..Len(rest) /\ n + (i - n) = i
      BY <1>1, <1>3, <2>2
    <3> QED BY <1>2, <1>3, <2>2, <3>1
  <2> QED BY <1>1, <1>3, <2>1, <2>2
<1>5. CASE records = Nothing
  <2>1. ASSUME NEW i \in DOMAIN new, new[i] \in Marker
        PROVE  i > n /\ i \in DOMAIN old /\ new[i] = old[i]
    BY <1>1, <1>4, <1>5, <2>1 DEF MarkerFree
  <2>2. \A i, j \in DOMAIN new : new[i] = new[j] /\ new[i] \in Marker => i = j
    BY <2>1 DEF Tidy
  <2>3. ASSUME NEW i \in DOMAIN new, new[i] = Begin
        PROVE  i + 2 \in DOMAIN new /\ new[i + 1] \in Records /\ new[i + 2] = End
    <3>1. i > n /\ i \in DOMAIN old /\ old[i] = Begin
      BY <2>1, <2>3 DEF Marker
    <3>2. i + 2 \in DOMAIN old /\ old[i + 1] \in Records /\ old[i + 2] = End
      BY <3>1 DEF Tidy
    <3>3. i + 1 \in DOMAIN new /\ i + 2 \in DOMAIN new /\ ~(i + 1 \in DOMAIN out) /\ ~(i + 2 \in DOMAIN out)
      <4>1. n < Len(old) /\ Len(rest) = Len(old) - n /\ i \in Nat
        BY <1>1, <1>2, <3>1
      <4> QED BY <1>1, <1>3, <3>1, <3>2, <4>1
    <3> QED BY <1>4, <3>2, <3>3
  <2>4. MarkerFree(old) => MarkerFree(new)
    BY <2>1 DEF MarkerFree
  <2> QED BY <1>3, <2>2, <2>3, <2>4 DEF Tidy, new, rest, n
<1>6. CASE records # Nothing
  <2>1. ASSUME NEW i \in DOMAIN new, new[i] \in Marker
        PROVE  i \in DOMAIN out /\ new[i] = out[i]
    BY <1>4, <1>6, <2>1 DEF MarkerFree
  <2>2. \A i, j \in DOMAIN new : new[i] = new[j] /\ new[i] \in Marker => i = j
    BY <1>1, <2>1 DEF Tidy
  <2>3. ASSUME NEW i \in DOMAIN new, new[i] = Begin
        PROVE  i + 2 \in DOMAIN new /\ new[i + 1] \in Records /\ new[i + 2] = End
    <3>1. i \in DOMAIN out /\ out[i] = Begin
      BY <2>1, <2>3 DEF Marker
    <3>2. i + 2 \in DOMAIN out /\ out[i + 1] \in Records /\ out[i + 2] = End
      BY <1>1, <3>1 DEF Tidy
    <3>3. i + 1 \in 1..n /\ i + 2 \in 1..n /\ i + 2 \in DOMAIN new
      BY <1>1, <1>3, <3>1, <3>2
    <3> QED BY <1>3, <3>2, <3>3
  <2> QED BY <1>3, <1>6, <2>2, <2>3 DEF Tidy, new, rest, n
<1> QED BY <1>5, <1>6

-----------------------------------------------------------------------------
(* The steps of the tasks. *)

\* A task and its local variables.
LEMMA TaskTypes ==
    /\ Idle \in Local /\ NoTask \in [Task -> Local] /\ Idle.pc = "idle"
    /\ "main" \in Task /\ "background" \in Task
    /\ \A t \in Task : t = "main" \/ t = "background"
<1>1. Idle \in Local
  BY DEF Idle, Local
<1> QED BY <1>1 DEF NoTask, Task, Idle

\* write_to returns to its task.
LEMMA ReturnTasks ==
    ASSUME TypeOK, NEW t \in Task, NEW ok \in BOOLEAN, Return(t, ok)
    PROVE  /\ task' \in [Task -> Local] /\ task'[t] = Idle /\ task'[t].pc = "idle"
           /\ \A v \in Task \ {t} : task'[v] = task[v]
           /\ phase' \in Phase
           /\ t # "main" => phase' = phase
           /\ t = "main" /\ phase = "closing" => phase' = "closed"
           /\ t = "main" /\ phase # "closing" => phase' \in {"running", "off"}
<1>1. task' = [task EXCEPT ![t] = Idle] /\ task \in [Task -> Local] /\ phase \in Phase
  BY DEF Return, TypeOK
<1>2. Idle \in Local /\ Idle.pc = "idle"
  BY TaskTypes
<1>3. /\ t # "main" => phase' = phase
      /\ t = "main" /\ phase = "closing" => phase' = "closed"
      /\ t = "main" /\ phase # "closing" => phase' \in {"running", "off"}
  BY DEF Return
<1>4. phase' \in Phase
  BY <1>1, <1>3 DEF Phase
<1> QED BY <1>1, <1>2, <1>3, <1>4

\* A return leaves the invariant true if the file is left as the invariant
\* wants it.
LEMMA Returned ==
    ASSUME HostsInv, NEW t \in Task, NEW ok \in BOOLEAN, Return(t, ok),
           UNCHANGED <<desired, broken, inplace>>,
           used' \in [starts : Nat, changes : Nat, edits : Nat, breaks : Nat, fails : Nat],
           file' \in Seq(Line), opened' \subseteq opened, ~broken => t \notin opened',
           ~broken => /\ t = "main" => phase \in {"starting", "closing"}
                      /\ Tidy(file') /\ (~inplace => Clean(file'))
                      /\ \A v \in opened' : task[v].want # Nothing => MarkerFree(file')
    PROVE  HostsInv'
<1>1. /\ task' \in [Task -> Local] /\ task'[t] = Idle /\ task'[t].pc = "idle"
      /\ \A v \in Task \ {t} : task'[v] = task[v]
      /\ phase' \in Phase
      /\ t # "main" => phase' = phase
      /\ t = "main" /\ phase = "closing" => phase' = "closed"
      /\ t = "main" /\ phase # "closing" => phase' \in {"running", "off"}
  BY ReturnTasks DEF HostsInv
<1>2. TypeOK'
  BY <1>1 DEF HostsInv, TypeOK
<1> SUFFICES ASSUME ~broken' PROVE Phases' /\ Contents' /\ InPlace'
  BY <1>2 DEF HostsInv
<1>3. ~broken /\ Phases /\ Contents /\ InPlace /\ opened \subseteq Task
  BY DEF HostsInv, TypeOK
<1>4. \A v \in Task : v = "main" \/ v = "background"
  BY TaskTypes
<1>5. Phases'
  <2>1. phase' \in {"off", "starting"} => task'["background"].pc = "idle"
    BY <1>1, <1>3, <1>4, TaskTypes DEF Phases
  <2>2. phase' \in {"off", "running", "closed"} => task'["main"].pc = "idle"
    BY <1>1, <1>3, <1>4, TaskTypes DEF Phases
  <2>3. ASSUME phase' = "closing", task'["main"].pc \in {"swap", "truncate", "write"}
        PROVE  task'["main"].want = Nothing
    <3>1. t # "main"
      BY <1>1, <2>3
    <3> QED BY <1>1, <1>3, <2>3, <3>1, TaskTypes DEF Phases, Writing
  <2>4. ASSUME NEW v \in opened' PROVE task'[v].pc = "write"
    BY <1>1, <1>3, <2>4 DEF Phases
  <2> QED BY <2>1, <2>2, <2>3, <2>4 DEF Phases, Writing
<1>6. Contents'
  <2>1. Tidy(file')
    BY <1>3
  <2>2. ASSUME NEW v \in Task, task'[v].pc \in {"swap", "truncate", "write"}
        PROVE  Written(task'[v].out, task'[v].want) /\ SameUserLines(task'[v].seen, task'[v].out)
    <3>1. task'[v] = task[v]
      BY <1>1, <2>2
    <3> QED BY <1>3, <2>2, <3>1 DEF Contents, Writing
  <2>3. ASSUME NEW v \in opened', task'[v].want # Nothing PROVE MarkerFree(file')
    BY <1>1, <1>3, <2>3
  <2> QED BY <2>1, <2>2, <2>3 DEF Contents, Writing
<1>7. InPlace'
  <2> SUFFICES ASSUME ~inplace' PROVE InPlace'
    BY DEF InPlace
  <2>1. Clean(file') /\ ~inplace
    BY <1>3
  <2>2. ASSUME NEW v \in Task
        PROVE  /\ task'[v].pc \in {"idle", "swap", "panicked"}
               /\ task'[v].pc \in {"swap", "truncate", "write"} => Clean(task'[v].out)
    <3>1. CASE v = t
      BY <1>1, <3>1
    <3>2. CASE v # t
      BY <1>1, <1>3, <2>1, <3>2 DEF InPlace, Writing
    <3> QED BY <3>1, <3>2
  <2> QED BY <2>1, <2>2 DEF InPlace, Writing
<1> QED BY <1>5, <1>6, <1>7

\* A task reads the file and computes what to write.
LEMMA OpenStep ==
    ASSUME HostsInv, NEW t \in Task, NEW records \in Records \cup {Nothing}, Open(t, records),
           t = "main" => phase = "starting" \/ (phase = "closing" /\ records = Nothing),
           t = "background" => phase \in {"running", "closing", "closed"}
    PROVE  HostsInv'
<1> DEFINE new == write_to(file, records)
<1>1. /\ TypeOK /\ file \in Seq(Line) /\ task \in [Task -> Local]
      /\ (~broken => Phases /\ Contents /\ InPlace) /\ opened \subseteq Task
      /\ used \in [starts : Nat, changes : Nat, edits : Nat, breaks : Nat, fails : Nat]
  BY DEF HostsInv, TypeOK
<1>2. /\ new.result \in {"changed", "unchanged", "error", "panic"}
      /\ new.text \in Seq(Line)
      /\ Tidy(file) => new.result # "panic"
      /\ Tidy(file) /\ new.result = "changed" =>
            /\ Written(new.text, records) /\ SameUserLines(file, new.text)
            /\ Clean(file) => Clean(new.text)
  BY <1>1, WriteTo
<1>3. /\ UNCHANGED <<file, desired, broken, used, inplace>> /\ task[t].pc = "idle"
      /\ opened' = IF new.result = "panic" /\ t = "main" THEN {} ELSE opened
      /\ \/ /\ new.result = "changed" /\ phase' = phase
            /\ task' = [task EXCEPT ![t] = [Idle EXCEPT !.pc = "swap", !.want = records,
                                                        !.seen = file, !.out = new.text]]
         \/ new.result = "unchanged" /\ Return(t, TRUE)
         \/ new.result = "error" /\ Return(t, FALSE)
         \/ new.result = "panic" /\ Panic(t)
  BY DEF Open
<1> HIDE DEF new
<1>4. ~broken => t \notin opened
  BY <1>1, <1>3 DEF Phases
<1>5. ASSUME NEW ok \in BOOLEAN, Return(t, ok), new.result # "panic" PROVE HostsInv'
  <2>1. ~broken => /\ Tidy(file') /\ (~inplace => Clean(file'))
                   /\ \A v \in opened' : task[v].want # Nothing => MarkerFree(file')
    BY <1>1, <1>3, <1>5 DEF Contents, InPlace
  <2>2. opened' = opened /\ file' = file /\ used' = used
    BY <1>3, <1>5
  <2> QED BY <1>1, <1>3, <1>4, <1>5, <2>1, <2>2, Returned
<1>6. CASE new.result = "panic" /\ Panic(t)
  <2>1. broken /\ broken' = broken
    BY <1>1, <1>2, <1>3, <1>6 DEF Contents
  <2>2. task' \in [Task -> Local] /\ phase' \in Phase
    <3>1. [Idle EXCEPT !.pc = "panicked"] \in Local
      BY TaskTypes DEF Local
    <3> QED BY <1>1, <1>6, <3>1, TaskTypes DEF Panic, TypeOK, Phase
  <2>3. TypeOK'
    BY <1>1, <1>3, <2>2 DEF TypeOK
  <2> QED BY <2>1, <2>3 DEF HostsInv
<1>7. CASE /\ new.result = "changed" /\ phase' = phase
           /\ task' = [task EXCEPT ![t] = [Idle EXCEPT !.pc = "swap", !.want = records,
                                                       !.seen = file, !.out = new.text]]
  <2> DEFINE mine == [Idle EXCEPT !.pc = "swap", !.want = records, !.seen = file, !.out = new.text]
  <2>1. /\ mine \in Local /\ mine.pc = "swap" /\ mine.want = records
        /\ mine.seen = file /\ mine.out = new.text
    BY <1>1, <1>2 DEF Idle, Local
  <2> HIDE DEF mine
  <2>2. task' \in [Task -> Local] /\ task'[t] = mine /\ \A v \in Task \ {t} : task'[v] = task[v]
    BY <1>1, <1>7, <2>1 DEF mine
  <2>3. TypeOK'
    BY <1>1, <1>3, <1>7, <2>2 DEF TypeOK
  <2> SUFFICES ASSUME ~broken' PROVE Phases' /\ Contents' /\ InPlace'
    BY <2>3 DEF HostsInv
  <2>4. ~broken /\ Phases /\ Contents /\ InPlace /\ opened' = opened
    BY <1>1, <1>3, <1>7
  <2>5. Phases'
    <3>1. phase' \in {"off", "starting"} => task'["background"].pc = "idle"
      BY <1>7, <2>2, <2>4, TaskTypes DEF Phases
    <3>2. phase' \in {"off", "running", "closed"} => task'["main"].pc = "idle"
      BY <1>7, <2>2, <2>4, TaskTypes DEF Phases
    <3>3. ASSUME phase' = "closing", task'["main"].pc \in {"swap", "truncate", "write"}
          PROVE  task'["main"].want = Nothing
      <4>1. CASE t = "main"
        BY <1>7, <2>1, <2>2, <3>3, <4>1
      <4>2. CASE t # "main"
        BY <1>7, <2>2, <2>4, <3>3, <4>2, TaskTypes DEF Phases, Writing
      <4> QED BY <4>1, <4>2
    <3>4. ASSUME NEW v \in opened' PROVE task'[v].pc = "write"
      BY <1>1, <1>4, <2>2, <2>4 DEF Phases
    <3> QED BY <3>1, <3>2, <3>3, <3>4 DEF Phases, Writing
  <2>6. Contents'
    <3>1. Tidy(file') /\ file' = file
      BY <1>3, <2>4 DEF Contents
    <3>2. ASSUME NEW v \in Task, task'[v].pc \in {"swap", "truncate", "write"}
          PROVE  Written(task'[v].out, task'[v].want) /\ SameUserLines(task'[v].seen, task'[v].out)
      <4>1. CASE v = t
        BY <1>2, <1>7, <2>1, <2>2, <2>4, <4>1 DEF Contents
      <4>2. CASE v # t
        BY <2>2, <2>4, <3>2, <4>2 DEF Contents, Writing
      <4> QED BY <4>1, <4>2
    <3>3. ASSUME NEW v \in opened', task'[v].want # Nothing PROVE MarkerFree(file')
      BY <1>1, <1>4, <2>2, <2>4, <3>1, <3>3 DEF Contents
    <3> QED BY <3>1, <3>2, <3>3 DEF Contents, Writing
  <2>7. InPlace'
    <3> SUFFICES ASSUME ~inplace' PROVE InPlace'
      BY DEF InPlace
    <3>1. ~inplace /\ Clean(file) /\ file' = file
      BY <1>3, <2>4 DEF InPlace
    <3>2. ASSUME NEW v \in Task
          PROVE  /\ task'[v].pc \in {"idle", "swap", "panicked"}
                 /\ task'[v].pc \in {"swap", "truncate", "write"} => Clean(task'[v].out)
      <4>1. CASE v = t
        BY <1>2, <1>7, <2>1, <2>2, <2>4, <3>1, <4>1 DEF Contents
      <4>2. CASE v # t
        BY <2>2, <2>4, <3>1, <4>2 DEF InPlace, Writing
      <4> QED BY <4>1, <4>2
    <3> QED BY <3>1, <3>2 DEF InPlace, Writing
  <2> QED BY <2>5, <2>6, <2>7
<1> QED BY <1>2, <1>3, <1>5, <1>6, <1>7

\* The new contents are put in the place of the old file.
LEMMA SwapStep ==
    ASSUME HostsInv, NEW t \in Task, Swap(t)
    PROVE  HostsInv'
<1>1. /\ TypeOK /\ file' = task[t].out /\ task[t].pc = "swap" /\ opened' = {}
      /\ Return(t, TRUE) /\ UNCHANGED <<desired, broken, used, inplace>>
  BY DEF Swap, HostsInv
<1>2. task[t].out \in Seq(Line) /\ task[t].want \in Records \cup {Nothing}
  BY <1>1 DEF TypeOK, Local
<1>3. ASSUME ~broken
      PROVE  /\ t = "main" => phase \in {"starting", "closing"}
             /\ Tidy(file') /\ (~inplace => Clean(file'))
  <2>1. Phases /\ Contents /\ InPlace /\ Writing(t)
    BY <1>1, <1>3 DEF HostsInv, Writing
  <2>2. t = "main" => phase \in {"starting", "closing"}
    BY <1>1, <2>1 DEF Phases, TypeOK, Phase
  <2>3. Tidy(file')
    BY <1>1, <1>2, <2>1, WrittenTidy DEF Contents
  <2> QED BY <1>1, <2>1, <2>2, <2>3 DEF InPlace
<1>4. used' \in [starts : Nat, changes : Nat, edits : Nat, breaks : Nat, fails : Nat]
  BY <1>1 DEF TypeOK
<1>5. /\ file' \in Seq(Line) /\ opened' \subseteq opened /\ t \notin opened'
      /\ \A v \in opened' : task[v].want # Nothing => MarkerFree(file')
  BY <1>1, <1>2
<1> QED BY <1>1, <1>3, <1>4, <1>5, Returned

\* A task turns to writing in place.
LEMMA SwapFailsStep ==
    ASSUME HostsInv, NEW t \in Task, SwapFails(t)
    PROVE  HostsInv'
<1>1. /\ TypeOK /\ task[t].pc = "swap" /\ task' = [task EXCEPT ![t].pc = "truncate"]
      /\ inplace' = TRUE /\ UNCHANGED <<file, desired, phase, opened, broken, used>>
  BY DEF SwapFails, Goto, HostsInv
<1>2. /\ task' \in [Task -> Local] /\ \A v \in Task \ {t} : task'[v] = task[v]
      /\ task'[t].pc = "truncate" /\ task'[t].want = task[t].want
      /\ task'[t].seen = task[t].seen /\ task'[t].out = task[t].out
  BY <1>1 DEF TypeOK, Local
<1>3. TypeOK'
  BY <1>1, <1>2 DEF TypeOK
<1> SUFFICES ASSUME ~broken' PROVE Phases' /\ Contents' /\ InPlace'
  BY <1>3 DEF HostsInv
<1>4. Phases /\ Contents /\ opened \subseteq Task
  BY <1>1 DEF HostsInv, TypeOK
<1>5. Phases'
  BY <1>1, <1>2, <1>4, TaskTypes DEF Phases, Writing
<1>6. Contents'
  <2>1. ASSUME NEW v \in Task, task'[v].pc \in {"swap", "truncate", "write"}
        PROVE  Written(task'[v].out, task'[v].want) /\ SameUserLines(task'[v].seen, task'[v].out)
    <3>1. Writing(v) /\ task'[v].out = task[v].out /\ task'[v].want = task[v].want
          /\ task'[v].seen = task[v].seen
      BY <1>1, <1>2, <2>1 DEF Writing
    <3> QED BY <1>4, <3>1 DEF Contents
  <2>2. \A v \in opened' : task'[v].want # Nothing => MarkerFree(file')
    BY <1>1, <1>2, <1>4 DEF Contents
  <2> QED BY <1>1, <1>4, <2>1, <2>2 DEF Contents, Writing
<1>7. InPlace'
  BY <1>1 DEF InPlace
<1> QED BY <1>5, <1>6, <1>7

\* The file is opened and emptied.
LEMMA TruncateStep ==
    ASSUME HostsInv, NEW t \in Task, Truncate(t)
    PROVE  HostsInv'
<1>1. /\ TypeOK /\ task[t].pc = "truncate" /\ task' = [task EXCEPT ![t].pc = "write"]
      /\ file' = <<>> /\ opened' = opened \cup {t}
      /\ UNCHANGED <<desired, phase, broken, used, inplace>>
  BY DEF Truncate, HostsInv
<1>2. /\ task' \in [Task -> Local] /\ \A v \in Task \ {t} : task'[v] = task[v]
      /\ task'[t].pc = "write" /\ task'[t].want = task[t].want
      /\ task'[t].seen = task[t].seen /\ task'[t].out = task[t].out
  BY <1>1 DEF TypeOK, Local
<1>3. file' \in Seq(Line) /\ DOMAIN file' = {}
  BY <1>1, EmptySeq
<1>4. TypeOK'
  BY <1>1, <1>2, <1>3 DEF TypeOK
<1> SUFFICES ASSUME ~broken' PROVE Phases' /\ Contents' /\ InPlace'
  BY <1>4 DEF HostsInv
<1>5. Phases /\ Contents /\ InPlace /\ opened \subseteq Task
  BY <1>1 DEF HostsInv, TypeOK
<1>6. Phases'
  <2>1. \A v \in opened' : task'[v].pc = "write"
    BY <1>1, <1>2, <1>5 DEF Phases
  <2> QED BY <1>1, <1>2, <1>5, <2>1, TaskTypes DEF Phases, Writing
<1>7. Contents'
  <2>1. ASSUME NEW v \in Task, task'[v].pc \in {"swap", "truncate", "write"}
        PROVE  Written(task'[v].out, task'[v].want) /\ SameUserLines(task'[v].seen, task'[v].out)
    <3>1. Writing(v) /\ task'[v].out = task[v].out /\ task'[v].want = task[v].want
          /\ task'[v].seen = task[v].seen
      BY <1>1, <1>2, <2>1 DEF Writing
    <3> QED BY <1>5, <3>1 DEF Contents
  <2>2. Tidy(file') /\ MarkerFree(file')
    BY <1>3 DEF Tidy, MarkerFree
  <2> QED BY <2>1, <2>2 DEF Contents, Writing
<1>8. inplace
  BY <1>1, <1>5 DEF InPlace
<1> QED BY <1>1, <1>6, <1>7, <1>8 DEF InPlace

\* The new contents are written to what has become of the file meanwhile.
LEMMA WriteAllStep ==
    ASSUME HostsInv, NEW t \in Task, WriteAll(t)
    PROVE  HostsInv'
<1> DEFINE new == task[t].out \o SubSeq(file, Len(task[t].out) + 1, Len(file))
<1>1. /\ TypeOK /\ task[t].pc = "write" /\ opened' = opened \ {t}
      /\ file' = IF t \notin opened THEN file ELSE new
      /\ Return(t, TRUE) /\ UNCHANGED <<desired, broken, used, inplace>>
  BY DEF WriteAll, HostsInv
<1>2. /\ task[t].out \in Seq(Line) /\ task[t].want \in Records \cup {Nothing} /\ file \in Seq(Line)
      /\ opened \subseteq Task
  BY <1>1 DEF TypeOK, Local
<1>3. new \in Seq(Line)
  <2>1. Len(task[t].out) + 1 \in Int /\ Len(file) \in Int
        /\ \A i \in (Len(task[t].out) + 1)..Len(file) : file[i] \in Line
    BY <1>2
  <2>2. SubSeq(file, Len(task[t].out) + 1, Len(file)) \in Seq(Line)
    BY <2>1, SubSeqProperties
  <2> QED BY <1>2, <2>2, Concat
<1>4. ASSUME ~broken
      PROVE  /\ t = "main" => phase \in {"starting", "closing"}
             /\ Tidy(file') /\ inplace
             /\ \A v \in opened' : task[v].want # Nothing => MarkerFree(file')
  <2>1. Phases /\ Contents /\ InPlace /\ Writing(t)
    BY <1>1, <1>4 DEF HostsInv, Writing
  <2>2. t = "main" => phase \in {"starting", "closing"}
    BY <1>1, <2>1 DEF Phases, TypeOK, Phase
  <2>3. inplace
    BY <1>1, <2>1 DEF InPlace
  <2>4. CASE t \notin opened
    BY <1>1, <1>2, <2>1, <2>2, <2>3, <2>4 DEF Contents
  <2>5. CASE t \in opened
    <3>1. /\ Tidy(file) /\ Written(task[t].out, task[t].want)
          /\ task[t].want # Nothing => MarkerFree(file)
      BY <2>1, <2>5 DEF Contents
    <3>2. Tidy(new) /\ (task[t].want = Nothing /\ MarkerFree(file) => MarkerFree(new))
      BY <1>2, <3>1, WrittenOver
    <3>3. ASSUME NEW v \in opened', task[v].want # Nothing PROVE MarkerFree(new)
      <4>1. v \in opened /\ v # t /\ task[v].pc = "write" /\ v \in Task
        BY <1>1, <1>2, <2>1, <3>3 DEF Phases
      <4>2. MarkerFree(file)
        BY <2>1, <3>3, <4>1 DEF Contents
      <4>3. task["main"].pc = "write" /\ task["background"].pc = "write"
        BY <1>1, <4>1, TaskTypes
      <4>4. task["main"].want = Nothing
        BY <1>1, <2>1, <4>3 DEF Phases, Writing, TypeOK, Phase
      <4>5. task[t].want = Nothing
        BY <3>3, <4>1, <4>4, TaskTypes
      <4> QED BY <3>2, <4>2, <4>5
    <3> HIDE DEF new
    <3> QED BY <1>1, <2>2, <2>3, <2>5, <3>2, <3>3
  <2> QED BY <2>4, <2>5
<1>5. /\ used' \in [starts : Nat, changes : Nat, edits : Nat, breaks : Nat, fails : Nat]
      /\ file' \in Seq(Line) /\ opened' \subseteq opened /\ t \notin opened'
  BY <1>1, <1>2, <1>3 DEF TypeOK
<1> HIDE DEF new
<1> QED BY <1>1, <1>4, <1>5, Returned

\* Writing in place fails.
LEMMA ClobberFailsStep ==
    ASSUME HostsInv, NEW t \in Task, ClobberFails(t)
    PROVE  HostsInv'
<1>1. /\ TypeOK /\ task[t].pc \in {"truncate", "write"} /\ opened' = opened \ {t}
      /\ used' = [used EXCEPT !.fails = @ + 1]
      /\ Return(t, FALSE) /\ UNCHANGED <<file, desired, broken, inplace>>
  BY DEF ClobberFails, HostsInv
<1>2. ASSUME ~broken
      PROVE  /\ t = "main" => phase \in {"starting", "closing"}
             /\ Tidy(file') /\ (~inplace => Clean(file'))
             /\ \A v \in opened' : task[v].want # Nothing => MarkerFree(file')
  <2>1. Phases /\ Contents /\ InPlace
    BY <1>1, <1>2 DEF HostsInv
  <2>2. t = "main" => phase \in {"starting", "closing"}
    BY <1>1, <2>1 DEF Phases, TypeOK, Phase
  <2> QED BY <1>1, <2>1, <2>2 DEF Contents, InPlace
<1>3. /\ used' \in [starts : Nat, changes : Nat, edits : Nat, breaks : Nat, fails : Nat]
      /\ file' \in Seq(Line) /\ opened' \subseteq opened /\ t \notin opened'
  BY <1>1 DEF TypeOK
<1> QED BY <1>1, <1>2, <1>3, Returned

\* A user's line before or after everything else.
LEMMA EditedLines ==
    ASSUME NEW lines \in Seq(Line), NEW line \in UserLine,
           NEW text \in {<<line>> \o lines, Append(lines, line)}
    PROVE  /\ text \in Seq(Line) /\ line \in Line /\ Len(lines) \in Nat
           /\ \E d \in {0, 1} :
                /\ Len(text) = Len(lines) + 1
                /\ \A i \in 1..Len(lines) : text[i + d] = lines[i]
                /\ \A i \in 1..Len(text) : text[i] = line \/ (i - d \in 1..Len(lines) /\ text[i] = lines[i - d])
<1>1. line \in Line /\ Len(lines) \in Nat
  BY DEF Line
<1>2. CASE text = <<line>> \o lines
  <2>1. <<line>> \in Seq(Line) /\ Len(<<line>>) = 1 /\ <<line>>[1] = line
    BY <1>1
  <2>2. /\ text \in Seq(Line) /\ Len(text) = 1 + Len(lines) /\ text[1] = line
        /\ \A i \in 1..Len(lines) : text[1 + i] = lines[i]
    <3> DEFINE one == <<line>>
    <3> HIDE DEF one
    <3>1. /\ one \o lines \in Seq(Line) /\ Len(one \o lines) = Len(one) + Len(lines)
          /\ \A i \in 1..Len(one) : (one \o lines)[i] = one[i]
          /\ \A i \in 1..Len(lines) : (one \o lines)[Len(one) + i] = lines[i]
      BY <2>1, Concat DEF one
    <3>2. Len(one) = 1 /\ one[1] = line /\ text = one \o lines
      BY <1>2, <2>1 DEF one
    <3> QED BY <3>1, <3>2
  <2>3. \A i \in 1..Len(lines) : text[i + 1] = lines[i]
    BY <1>1, <2>2
  <2>4. ASSUME NEW i \in 1..Len(text)
        PROVE  text[i] = line \/ (i - 1 \in 1..Len(lines) /\ text[i] = lines[i - 1])
    <3>1. CASE i = 1
      BY <2>2, <3>1
    <3>2. CASE i # 1
      <4>1. i - 1 \in 1..Len(lines) /\ i - 1 + 1 = i
        BY <1>1, <2>2, <3>2
      <4> QED BY <2>3, <4>1
    <3> QED BY <3>1, <3>2
  <2> QED BY <1>1, <2>2, <2>3, <2>4
<1>3. CASE text = Append(lines, line)
  <2>1. /\ text \in Seq(Line) /\ Len(text) = Len(lines) + 1 /\ text[Len(lines) + 1] = line
        /\ \A i \in 1..Len(lines) : text[i] = lines[i]
    BY <1>1, <1>3, AppendProperties
  <2>2. /\ \A i \in 1..Len(lines) : text[i + 0] = lines[i]
        /\ \A i \in 1..Len(text) : text[i] = line \/ (i - 0 \in 1..Len(lines) /\ text[i] = lines[i - 0])
    BY <1>1, <2>1
  <2> QED BY <1>1, <2>1, <2>2
<1> QED BY <1>2, <1>3

\* The three lines of a section, d lines further on.
LEMMA Shifted ==
    ASSUME NEW n \in Nat, NEW b \in 1..n, b + 2 \in 1..n, NEW d \in {0, 1}
    PROVE  /\ b + 1 \in 1..n /\ b + d + 1 = b + 1 + d /\ b + d + 2 = b + 2 + d
           /\ \A i \in Int : i \notin {b + d, b + d + 1, b + d + 2} => i - d \notin {b, b + 1, b + 2}
  OBVIOUS

\* It leaves the markers where they are among the other lines.
LEMMA Edited ==
    ASSUME NEW lines \in Seq(Line), NEW line \in UserLine,
           NEW text \in {<<line>> \o lines, Append(lines, line)}
    PROVE  /\ text \in Seq(Line)
           /\ Tidy(lines) => Tidy(text)
           /\ MarkerFree(lines) => MarkerFree(text)
           /\ Clean(lines) => Clean(text)
<1>1. text \in Seq(Line) /\ Len(lines) \in Nat /\ line \notin Marker
  <2>1. line \notin Marker
    BY HostsAssumption DEF Marker
  <2>2. text \in Seq(Line) /\ Len(lines) \in Nat
    BY EditedLines
  <2> QED BY <2>1, <2>2
<1>2. PICK d \in {0, 1} :
         /\ Len(text) = Len(lines) + 1
         /\ \A i \in 1..Len(lines) : text[i + d] = lines[i]
         /\ \A i \in 1..Len(text) : text[i] = line \/ (i - d \in 1..Len(lines) /\ text[i] = lines[i - d])
  BY EditedLines
<1>3. /\ DOMAIN text = 1..Len(text) /\ DOMAIN lines = 1..Len(lines) /\ d \in Int
      /\ \A i \in DOMAIN text : i \in Int
      /\ \A i \in DOMAIN lines : i \in Int
  BY <1>1
<1>4. \A i \in DOMAIN text : text[i] \in Marker => i - d \in DOMAIN lines /\ lines[i - d] = text[i]
  BY <1>1, <1>2, <1>3
<1>5. MarkerFree(lines) => MarkerFree(text)
  BY <1>4 DEF MarkerFree
<1>6. \A i \in DOMAIN lines : i + d \in DOMAIN text /\ text[i + d] = lines[i] /\ i + d - d = i
  BY <1>1, <1>2, <1>3
<1>7. ASSUME Tidy(lines) PROVE Tidy(text)
  <2>1. ASSUME NEW i \in DOMAIN text, NEW j \in DOMAIN text, text[i] = text[j], text[i] \in Marker
        PROVE  i = j
    <3>1. i - d = j - d
      BY <1>4, <1>7, <2>1 DEF Tidy
    <3> QED BY <1>1, <1>2, <1>3, <3>1
  <2>2. ASSUME NEW i \in DOMAIN text, text[i] = Begin
        PROVE  i + 2 \in DOMAIN text /\ text[i + 1] \in Records /\ text[i + 2] = End
    <3> DEFINE b == i - d
    <3>1. b \in DOMAIN lines /\ lines[b] = Begin
      BY <1>4, <2>2 DEF Marker
    <3>2. b + 2 \in DOMAIN lines /\ lines[b + 1] \in Records /\ lines[b + 2] = End
      BY <1>7, <3>1 DEF Tidy
    <3>3. i \in Int /\ d \in Int
      BY <1>3
    <3>4. b + d = i
      BY <3>3
    <3> HIDE DEF b
    <3>5. b + 1 \in DOMAIN lines /\ b + 1 + d = i + 1 /\ b + 2 + d = i + 2
      <4>1. Len(lines) \in Nat /\ b \in 1..Len(lines) /\ b + 2 \in 1..Len(lines)
        BY <1>1, <1>3, <3>1, <3>2
      <4>2. b + 1 \in 1..Len(lines) /\ b + d + 1 = b + 1 + d /\ b + d + 2 = b + 2 + d
        BY <4>1, Shifted
      <4> QED BY <1>3, <3>4, <4>2
    <3> QED BY <1>6, <3>2, <3>5
  <2> QED BY <2>1, <2>2 DEF Tidy
<1>8. ASSUME Clean(lines) PROVE Clean(text)
  <2> DEFINE others == UserLine \cup {Blank}
  <2>1. PICK records \in Records \cup {Nothing} : Around(lines, records, others)
    BY <1>8 DEF Clean
  <2>2. line \in others
    OBVIOUS
  <2> HIDE DEF others
  <2>3. \A i \in DOMAIN text : text[i] = line \/ (i - d \in DOMAIN lines /\ text[i] = lines[i - d])
    BY <1>2, <1>3
  <2>4. CASE records = Nothing
    <3>1. \A i \in DOMAIN text : text[i] \in others
      BY <2>1, <2>2, <2>3, <2>4 DEF Around
    <3> QED BY <2>4, <3>1 DEF Around, Clean, others
  <2>5. CASE records # Nothing
    <3>1. PICK b \in DOMAIN lines :
            /\ b + 2 \in DOMAIN lines
            /\ lines[b] = Begin /\ lines[b + 1] = records /\ lines[b + 2] = End
            /\ \A i \in DOMAIN lines \ {b, b + 1, b + 2} : lines[i] \in others
      BY <2>1, <2>5 DEF Around
    <3> DEFINE c == b + d
    <3>2. b + 1 \in DOMAIN lines /\ b + 1 + d = c + 1 /\ b + 2 + d = c + 2
      <4>1. Len(lines) \in Nat /\ b \in 1..Len(lines) /\ b + 2 \in 1..Len(lines)
        BY <1>1, <1>3, <3>1
      <4>2. b + 1 \in 1..Len(lines) /\ b + d + 1 = b + 1 + d /\ b + d + 2 = b + 2 + d
        BY <4>1, Shifted
      <4> QED BY <1>3, <4>2
    <3>3. c \in DOMAIN text /\ c + 2 \in DOMAIN text
      BY <1>6, <3>1, <3>2
    <3>4. text[c] = Begin /\ text[c + 1] = records /\ text[c + 2] = End
      BY <1>6, <3>1, <3>2
    <3>5. ASSUME NEW i \in DOMAIN text \ {c, c + 1, c + 2} PROVE text[i] \in others
      <4>1. i - d \notin {b, b + 1, b + 2}
        <5>1. i \in Int /\ i \notin {b + d, b + d + 1, b + d + 2}
          BY <1>3, <3>5
        <5> QED BY <1>1, <1>3, <3>1, <5>1, Shifted
      <4> QED BY <2>2, <2>3, <3>1, <4>1
    <3> HIDE DEF c
    <3>6. Around(text, records, others)
      BY <2>5, <3>3, <3>4, <3>5 DEF Around
    <3> QED BY <3>6 DEF Clean, others
  <2> QED BY <2>4, <2>5
<1> QED BY <1>1, <1>5, <1>7, <1>8

\* A user adds a line.
LEMMA EditStep ==
    ASSUME HostsInv, Edit
    PROVE  HostsInv'
<1>1. /\ TypeOK /\ used' = [used EXCEPT !.edits = @ + 1]
      /\ UNCHANGED <<desired, phase, task, opened, broken, inplace>>
  BY DEF Edit, HostsInv
<1>2. PICK line \in UserLine : file' \in {<<line>> \o file, Append(file, line)}
  BY DEF Edit
<1>3. /\ file' \in Seq(Line)
      /\ Tidy(file) => Tidy(file')
      /\ MarkerFree(file) => MarkerFree(file')
      /\ Clean(file) => Clean(file')
  BY <1>1, <1>2, Edited DEF TypeOK
<1>4. TypeOK'
  BY <1>1, <1>3 DEF TypeOK
<1>5. ASSUME ~broken, Phases, Contents, InPlace PROVE Phases' /\ Contents' /\ InPlace'
  BY <1>1, <1>3, <1>5 DEF Phases, Contents, InPlace, Writing
<1> QED BY <1>1, <1>4, <1>5 DEF HostsInv

\* The directory changes, or a user breaks the section: nothing is promised
\* of the file any more.
LEMMA ChangeBreakStep ==
    ASSUME HostsInv, Change \/ Break
    PROVE  HostsInv'
<1>1. CASE Change
  <2>1. /\ TypeOK /\ desired' \in Records \cup {Nothing} /\ used' = [used EXCEPT !.changes = @ + 1]
        /\ UNCHANGED <<file, phase, task, opened, broken, inplace>>
    BY <1>1 DEF Change, HostsInv
  <2>2. TypeOK'
    BY <2>1 DEF TypeOK
  <2>3. ASSUME ~broken, Phases, Contents, InPlace PROVE Phases' /\ Contents' /\ InPlace'
    BY <2>1, <2>3 DEF Phases, Contents, InPlace, Writing
  <2> QED BY <2>1, <2>2, <2>3 DEF HostsInv
<1>2. CASE Break
  <2>1. /\ TypeOK /\ broken' = TRUE /\ used' = [used EXCEPT !.breaks = @ + 1]
        /\ UNCHANGED <<desired, phase, task, opened, inplace>>
    BY <1>2 DEF Break, HostsInv
  <2>2. PICK i \in DOMAIN file :
           LET others == SubSeq(file, 1, i - 1) \o SubSeq(file, i + 1, Len(file))
           IN  file' = others \/ file' = <<End>> \o others
    BY <1>2 DEF Break
  <2>3. file \in Seq(Line) /\ i \in 1..Len(file) /\ Len(file) \in Nat
    BY <2>1 DEF TypeOK
  <2> DEFINE before == SubSeq(file, 1, i - 1)
             after == SubSeq(file, i + 1, Len(file))
  <2>4. before \in Seq(Line)
    <3>1. 1 \in Int /\ i - 1 \in Int /\ \A j \in 1..(i - 1) : file[j] \in Line
      BY <2>3
    <3> QED BY <2>3, <3>1, SubSeqProperties
  <2>5. after \in Seq(Line)
    <3>1. i + 1 \in Int /\ Len(file) \in Int /\ \A j \in (i + 1)..Len(file) : file[j] \in Line
      BY <2>3
    <3> QED BY <2>3, <3>1, SubSeqProperties
  <2>6. file' = before \o after \/ file' = <<End>> \o (before \o after)
    BY <2>2
  <2> HIDE DEF before, after
  <2>7. file' \in Seq(Line)
    <3> DEFINE end == <<End>>
               others == before \o after
    <3>1. end \in Seq(Line)
      BY DEF Line
    <3>2. others \in Seq(Line)
      BY <2>4, <2>5, Concat
    <3>3. file' = others \/ file' = end \o others
      BY <2>6
    <3> HIDE DEF end, others
    <3>4. end \o others \in Seq(Line)
      BY <3>1, <3>2, Concat
    <3> QED BY <3>2, <3>3, <3>4
  <2>8. TypeOK'
    BY <2>1, <2>7 DEF TypeOK
  <2> QED BY <2>1, <2>8 DEF HostsInv
<1> QED BY <1>1, <1>2

\* The process starts, is told to stop, and ends.
LEMMA ProcessStep ==
    ASSUME HostsInv, Start \/ Shutdown \/ Exit \/ Crash
    PROVE  HostsInv'
<1>1. CASE Start
  <2>1. /\ TypeOK /\ phase = "off" /\ phase' = "starting" /\ used' = [used EXCEPT !.starts = @ + 1]
        /\ UNCHANGED <<file, desired, task, opened, broken, inplace>>
    BY <1>1 DEF Start, HostsInv
  <2>2. TypeOK'
    BY <2>1 DEF TypeOK, Phase
  <2>3. ASSUME ~broken, Phases, Contents, InPlace PROVE Phases' /\ Contents' /\ InPlace'
    BY <2>1, <2>3 DEF Phases, Contents, InPlace, Writing
  <2> QED BY <2>1, <2>2, <2>3 DEF HostsInv
<1>2. CASE Shutdown
  <2>1. /\ TypeOK /\ phase = "running" /\ phase' = "closing"
        /\ UNCHANGED <<file, desired, task, opened, broken, used, inplace>>
    BY <1>2 DEF Shutdown, HostsInv
  <2>2. TypeOK'
    BY <2>1 DEF TypeOK, Phase
  <2>3. ASSUME ~broken, Phases, Contents, InPlace PROVE Phases' /\ Contents' /\ InPlace'
    BY <2>1, <2>3 DEF Phases, Contents, InPlace, Writing
  <2> QED BY <2>1, <2>2, <2>3 DEF HostsInv
<1>3. CASE Exit \/ Crash
  <2>1. /\ TypeOK /\ phase' = "off" /\ task' = NoTask /\ opened' = {}
        /\ UNCHANGED <<file, desired, broken, used, inplace>>
    BY <1>3 DEF Exit, Crash, Ends, HostsInv
  <2>2. TypeOK'
    BY <2>1, TaskTypes DEF TypeOK, Phase
  <2>3. \A t \in Task : task'[t].pc = "idle"
    BY <2>1, TaskTypes DEF NoTask
  <2>4. ASSUME ~broken, Contents, InPlace PROVE Phases' /\ Contents' /\ InPlace'
    BY <2>1, <2>3, <2>4, TaskTypes DEF Phases, Contents, InPlace, Writing
  <2> QED BY <2>1, <2>2, <2>4 DEF HostsInv
<1> QED BY <1>1, <1>2, <1>3

\* Every first state.
LEMMA HostsInit == Init => HostsInv
<1> SUFFICES ASSUME Init PROVE HostsInv
  OBVIOUS
<1>1. /\ desired \in Records /\ phase = "off" /\ task = NoTask /\ opened = {}
      /\ broken = FALSE /\ inplace = FALSE
      /\ used = [starts |-> 0, changes |-> 0, edits |-> 0, breaks |-> 0, fails |-> 0]
      /\ (file = <<>> \/ \E line \in UserLine : file = <<line>>)
  BY DEF Init
<1>2. /\ file \in Seq(Line) /\ \A i \in DOMAIN file : file[i] \in UserLine
  <2>1. CASE file = <<>>
    BY <2>1, EmptySeq
  <2>2. CASE \E line \in UserLine : file = <<line>>
    BY <2>2 DEF Line
  <2> QED BY <1>1, <2>1, <2>2
<1>3. Tidy(file) /\ Clean(file)
  <2>1. \A i \in DOMAIN file : file[i] \notin Marker
    BY <1>2, HostsAssumption DEF Marker
  <2>2. Around(file, Nothing, UserLine \cup {Blank})
    BY <1>2 DEF Around
  <2> QED BY <2>1, <2>2 DEF Tidy, Clean, Marker
<1>4. \A t \in Task : task[t].pc = "idle"
  BY <1>1, TaskTypes DEF NoTask
<1>5. TypeOK
  BY <1>1, <1>2, TaskTypes DEF TypeOK, Phase
<1>6. Phases /\ Contents /\ InPlace
  BY <1>1, <1>3, <1>4, TaskTypes DEF Phases, Contents, InPlace, Writing
<1> QED BY <1>5, <1>6 DEF HostsInv

\* Every step.
LEMMA HostsStep ==
    ASSUME HostsInv, [Next]_vars
    PROVE  HostsInv'
<1>1. CASE Start \/ Shutdown \/ Exit \/ Crash
  BY <1>1, ProcessStep
<1>2. CASE StartSync
  <2>1. phase = "starting" /\ Open("main", desired) /\ desired \in Records \cup {Nothing}
    BY <1>2 DEF StartSync, HostsInv, TypeOK
  <2> QED BY <2>1, TaskTypes, OpenStep
<1>3. CASE Clear
  <2>1. phase = "closing" /\ Open("main", Nothing) /\ Nothing \in Records \cup {Nothing}
    BY <1>3 DEF Clear
  <2> QED BY <2>1, TaskTypes, OpenStep
<1>4. CASE HostsTick
  <2>1. /\ phase \in {"running", "closing", "closed"} /\ Open("background", desired)
        /\ desired \in Records \cup {Nothing}
    BY <1>4 DEF HostsTick, HostsInv, TypeOK
  <2> QED BY <2>1, TaskTypes, OpenStep
<1>5. ASSUME NEW t \in Task, TaskStep(t) \/ ClobberFails(t) PROVE HostsInv'
  BY <1>5, SwapStep, SwapFailsStep, TruncateStep, WriteAllStep, ClobberFailsStep DEF TaskStep
<1>6. CASE Change \/ Break
  BY <1>6, ChangeBreakStep
<1>7. CASE Edit
  BY <1>7, EditStep
<1>8. CASE UNCHANGED vars
  <2>1. TypeOK' = TypeOK
    BY <1>8 DEF vars, TypeOK
  <2>2. Phases' = Phases /\ Contents' = Contents /\ InPlace' = InPlace
    BY <1>8 DEF vars, Phases, Contents, InPlace, Writing
  <2> QED BY <1>8, <2>1, <2>2 DEF HostsInv, vars
<1> QED BY <1>1, <1>2, <1>3, <1>4, <1>5, <1>6, <1>7, <1>8 DEF Next

\* A clean file has one section or none.
LEMMA CleanFile == HostsInv => OneSection
<1> SUFFICES ASSUME HostsInv, ~broken, ~inplace PROVE OneSection
  BY DEF OneSection
<1>1. file \in Seq(Line) /\ Len(file) \in Nat /\ DOMAIN file = 1..Len(file) /\ Clean(file)
  BY DEF HostsInv, TypeOK, InPlace
<1> DEFINE others == UserLine \cup {Blank}
<1>2. PICK records \in Records \cup {Nothing} : Around(file, records, others)
  BY <1>1 DEF Clean
<1> SUFFICES \E first \in 1..(Len(file) + 1) :
               LET last == first - 1 + Len(Section(records))
               IN  /\ last <= Len(file) /\ SubSeq(file, first, last) = Section(records)
                   /\ \A i \in DOMAIN file \ (first..last) : file[i] \in others
  BY <1>2 DEF OneSection
<1> HIDE DEF others
<1>3. CASE records = Nothing
  <2>1. Section(records) = <<>> /\ Len(Section(records)) = 0
    BY SectionLines, <1>3
  <2>2. SubSeq(file, 1, 0) = <<>>
    <3>1. /\ SubSeq(file, 1, 0) \in Seq(Line)
          /\ Len(SubSeq(file, 1, 0)) = IF 1 <= 0 THEN 0 - 1 + 1 ELSE 0
      <4>1. 1 \in Int /\ 0 \in Int /\ \A i \in 1..0 : file[i] \in Line
        OBVIOUS
      <4> QED BY <4>1, SubSeqProperties
    <3> QED BY <3>1, EmptySeq
  <2>3. \A i \in DOMAIN file : file[i] \in others
    BY <1>2, <1>3 DEF Around
  <2>4. 1 \in 1..(Len(file) + 1) /\ 1 - 1 + Len(Section(records)) = 0 /\ 0 <= Len(file)
    BY <1>1, <2>1
  <2> QED BY <2>1, <2>2, <2>3, <2>4
<1>4. CASE records # Nothing
  <2>1. PICK b \in DOMAIN file :
          /\ b + 2 \in DOMAIN file
          /\ file[b] = Begin /\ file[b + 1] = records /\ file[b + 2] = End
          /\ \A i \in DOMAIN file \ {b, b + 1, b + 2} : file[i] \in others
    BY <1>2, <1>4 DEF Around
  <2>2. SubSeq(file, b, b + 2) = Section(records)
    BY <1>1, <1>4, <2>1, SectionFound
  <2>3. Len(Section(records)) = 3
    BY <1>4, SectionLines
  <2>4. b \in 1..(Len(file) + 1) /\ b - 1 + Len(Section(records)) = b + 2 /\ b + 2 <= Len(file)
    BY <1>1, <2>1, <2>3
  <2>5. b..(b + 2) = {b, b + 1, b + 2}
    BY <2>4
  <2>6. \A i \in DOMAIN file \ (b..(b + 2)) : file[i] \in others
    BY <2>1, <2>5
  <2> QED BY <2>2, <2>4, <2>6
<1> QED BY <1>3, <1>4

-----------------------------------------------------------------------------
(* Theorems. *)

\* The invariant: until a user moves a marker, what every task is about to
\* publish is one well-formed section among the lines it read, a file that a
\* task has open in place has no markers for the task's own section to be
\* added to, and as long as every rename succeeds the file itself is one
\* section among the users' lines (HostsBuilder::write_to, write_and_swap and
\* write_clobber, under the main task and the background task).
THEOREM HostsCorrect == Spec => []HostsInv
<1>1. Init => HostsInv
  BY HostsInit
<1>2. HostsInv /\ [Next]_vars => HostsInv'
  BY HostsStep
<1> QED BY <1>1, <1>2, PTL DEF Spec

\* What write_to computes is a file again, whatever two tasks and the users
\* make of it, markers in any order included, and its counters stay numbers.
THEOREM TypeCorrect == Spec => []TypeOK
<1>1. HostsInv => TypeOK
  BY DEF HostsInv
<1> QED BY <1>1, HostsCorrect, PTL

\* No user's line is lost, added or moved by write_to, of whatever length the
\* file is, as long as no user moved a marker.
THEOREM RestPreservedAlways == Spec => []RestPreserved
<1>1. HostsInv => RestPreserved
  BY DEF HostsInv, Contents, RestPreserved
<1> QED BY <1>1, HostsCorrect, PTL

\* write_to finds the section it has written and leaves it alone: hosts_tick
\* does not rewrite the file every two seconds.
THEOREM WriteSettlesAlways == Spec => []WriteSettles
<1>1. HostsInv => WriteSettles
  <2> SUFFICES ASSUME HostsInv, ~broken, NEW t \in Task, Writing(t), task[t].want # Nothing
               PROVE  write_to(task[t].out, task[t].want).result = "unchanged"
    BY DEF WriteSettles
  <2>1. task[t].out \in Seq(Line) /\ task[t].want \in Records
    BY DEF HostsInv, TypeOK, Local
  <2>2. Written(task[t].out, task[t].want)
    BY DEF HostsInv, Contents
  <2> QED BY <2>1, <2>2, WrittenSettles
<1> QED BY <1>1, HostsCorrect, PTL

\* The first synchronisation, the ticks of the background task and the
\* clearing at shutdown never leave two sections behind as long as they
\* publish by rename, although each writes what it read some steps before.
THEOREM OneSectionAlways == Spec => []OneSection
<1>1. HostsInv => OneSection
  BY CleanFile
<1> QED BY <1>1, HostsCorrect, PTL
=============================================================================
