-------------------------- MODULE AuditChainProofs --------------------------
(***************************************************************************)
(* The hash chain of the audit trail, for any number of recording threads, *)
(* records, faults, crashes and rotations: without faults the log verifies *)
(* and holds every record, and with them no loss goes unnoticed.           *)
(*                                                                         *)
(* Both rest on the chain lock (Serial) and on what the anchor covers:     *)
(* every record names, in its chain, all earlier records of its process    *)
(* (Lines, Anchor), whether or not they reached the disk.  A log that      *)
(* verifies names nothing that is not in it (AcceptedHasAll), which gives  *)
(* the first half of LossNoticed.  For the second half, a process that     *)
(* calls its sink healthy has left nothing unfinished (Fresh), so a record *)
(* of its own can only be lost behind a line that a crash tore, and that   *)
(* log is rejected for as long as the process lives (Kept).                *)
(*                                                                         *)
(* Without faults the log is one chain which the anchor continues, but for *)
(* the line just written (Honest).                                         *)
(***************************************************************************)
EXTENDS AuditChain, SequenceTheorems, NaturalsInduction, WellFoundedInduction, TLAPS

Kind == {"record", "junk", "torn", "bare", "glued"}
Line == [kind : Kind, id : Nat, seq : Nat, prev : Seq(Nat)]
Busy == {"handing", "writing", "advancing"}

Typed ==
  /\ log \in Seq(Line) /\ retained \in Seq(Line)
  /\ seq \in Nat /\ prev \in Seq(Nat)
  /\ pc \in [Writers -> {"down", "idle"} \cup Busy]
  /\ entry \in [Writers -> Line \cup {None}]
  /\ runOf \in Seq(Nat) /\ run \in Nat
  /\ returned \subseteq DOMAIN runOf
  /\ reason \in {"none", "open", "write", "gap"}
  /\ stream \in {"open", "stale", "none", "stderr"}
  /\ faults \in Nat

\* Only the holder of the chain lock carries a record: the newest one, with the
\* chain fields that the anchor still has.
Serial ==
  \A w \in Writers : pc[w] \in Busy =>
    /\ lock = w
    /\ entry[w] \in Line /\ entry[w].kind = "record"
    /\ entry[w].seq = seq /\ entry[w].prev = prev
    /\ entry[w].id = Len(runOf) /\ entry[w].id \notin returned
    /\ runOf # <<>> /\ runOf[Len(runOf)] = run

Named(i, p) == \E n \in DOMAIN p : p[n] = i

\* The chain of a line covers the earlier records of the process that wrote it.
Covers(l, of) ==
  /\ l.id \in DOMAIN of
  /\ \A i \in DOMAIN of : i < l.id /\ of[i] = of[l.id] => Named(i, l.prev)
AllCover(ls, of) == \A k \in DOMAIN ls : Covers(ls[k], of)

Lines ==
  /\ AllCover(log, runOf) /\ AllCover(retained, runOf)
  /\ \A w \in Writers : pc[w] \in Busy => Covers(entry[w], runOf)

\* So does the anchor, but for the record that is under way.
Anchor ==
  \A i \in DOMAIN runOf :
    /\ runOf[i] <= run
    /\ runOf[i] = run /\ ~Down =>
         Named(i, prev) \/ \E w \in Writers : pc[w] \in Busy /\ entry[w].id = i

Healthy == ~Down /\ reason = "none"

\* A healthy process has left nothing in its stream and no line unfinished.
Fresh ==
  /\ Down \/ Healthy => retained = <<>>
  /\ Healthy => /\ stream \in {"open", "stale"}
                /\ \A k \in DOMAIN log :
                     log[k].kind \in Unfinished => runOf[log[k].id] # run

\* A line that is not JSON stands before lines that all have predecessors:
\* wherever verification begins, it fails.
Doomed ==
  \E m \in DOMAIN log :
    /\ log[m].kind = "junk"
    /\ \A k \in DOMAIN log : k > m => log[k].prev # Genesis

\* What a healthy process has written is in the log, or the log is rejected.
Handed(i) == i \in returned \/ \E w \in Writers : pc[w] = "advancing" /\ entry[w].id = i
Kept ==
  Healthy =>
    \A i \in DOMAIN runOf : runOf[i] = run /\ Handed(i) => Readable(i) \/ Doomed

Inv == Typed /\ Serial /\ Lines /\ Anchor /\ Fresh /\ Kept

\* Without faults the log is one chain and the anchor continues it.
Continues(s, p) ==
  /\ s = Len(log)
  /\ p = IF log = <<>> THEN Genesis ELSE ChainValue(log[Len(log)])
OneChain ==
  \A k \in DOMAIN log :
    /\ log[k].kind = "record"
    /\ log[k].seq = k - 1
    /\ log[k].prev = IF k = 1 THEN Genesis ELSE ChainValue(log[k - 1])
Honest ==
  faults = 0 =>
    /\ OneChain
    /\ retained = <<>> /\ stream # "stderr"
    /\ \A w \in Writers :
         pc[w] = "advancing" => log # <<>> /\ log[Len(log)] = entry[w]
    /\ ~Down /\ (\A w \in Writers : pc[w] # "advancing") => Continues(seq, prev)
    /\ \A i \in returned : Readable(i)

-----------------------------------------------------------------------------
NatLess == {p \in Nat \X Nat : p[1] < p[2]}

\* A non-empty set of naturals has a least element.
LEMMA LeastOf ==
  ASSUME NEW T, T \subseteq Nat, T # {}
  PROVE  \E n \in T : \A m \in T : n <= m
<1>1. IsWellFoundedOn(NatLess, Nat)
  BY NatLessThanWellFounded, Zenon DEF OpToRel, NatLess
<1>2. PICK n \in T : \A m \in T : ~(<<m, n>> \in NatLess)
  BY <1>1, WFMin
<1>3. \A m \in T : m \in Nat /\ n \in Nat /\ ~(m < n)
  BY <1>2 DEF NatLess
<1>4. QED
  BY <1>3

\* Verification begins at the first chained line.
LEMMA FirstChainedFound ==
  ASSUME NEW ls \in Seq(Line), NEW j \in DOMAIN ls, Chained(ls[j])
  PROVE  /\ FirstChained(ls) \in DOMAIN ls
         /\ Chained(ls[FirstChained(ls)])
         /\ \A i \in 1..FirstChained(ls) - 1 : ~Chained(ls[i])
<1> DEFINE T == {i \in DOMAIN ls : Chained(ls[i])}
<1>1. PICK s \in T : \A m \in T : s <= m
  <2>1. T \subseteq Nat /\ T # {}
    OBVIOUS
  <2> HIDE DEF T
  <2> QED  BY <2>1, LeastOf
<1>2. s \in DOMAIN ls /\ Chained(ls[s]) /\ \A i \in 1..s - 1 : ~Chained(ls[i])
  BY <1>1
<1>3. QED
  BY <1>2 DEF FirstChained

\* An accepted log names nothing that is not in it.
LEMMA AcceptedHasAll ==
  ASSUME NEW ls \in Seq(Line), Accepted(ls), NEW k \in DOMAIN ls, Chained(ls[k]),
         NEW i, Named(i, ls[k].prev)
  PROVE  \E m \in DOMAIN ls : ls[m].id = i /\ Chained(ls[m])
<1> SUFFICES ASSUME \A m \in DOMAIN ls : Chained(ls[m]) => ls[m].id # i
             PROVE  FALSE
  OBVIOUS
<1>1. PICK s \in DOMAIN ls :
        /\ Chained(ls[s]) /\ ls[s].prev = <<>>
        /\ \A n \in 1..s - 1 : ~Chained(ls[n])
        /\ \A n \in s + 1..Len(ls) :
             Chained(ls[n]) /\ ls[n].prev = Append(ls[n - 1].prev, ls[n - 1].id)
  BY FirstChainedFound DEF Accepted, Genesis, ChainValue
<1> DEFINE T == {n \in DOMAIN ls : Chained(ls[n]) /\ Named(i, ls[n].prev)}
<1>2. PICK n \in T : \A m \in T : n <= m
  <2>1. T \subseteq Nat /\ T # {}
    OBVIOUS
  <2> HIDE DEF T
  <2> QED  BY <2>1, LeastOf
<1>3. n \in DOMAIN ls /\ n > s
  <2>1. n # s
    BY <1>1, <1>2 DEF Named
  <2>2. QED
    BY <1>1, <1>2, <2>1
<1>4. n - 1 \in DOMAIN ls /\ n - 1 \notin T /\ Chained(ls[n - 1])
  <2>1. DOMAIN ls = 1..Len(ls) /\ Len(ls) \in Nat
    BY LenProperties
  <2>2. n \in 1..Len(ls) /\ s \in 1..Len(ls) /\ n > s
    BY <1>3, <2>1
  <2>3. n - 1 \in 1..Len(ls) /\ (n - 1 = s \/ n - 1 \in s + 1..Len(ls))
    BY <2>1, <2>2
  <2>4. n - 1 \notin T
    BY <1>2, <2>2
  <2>5. QED
    BY <1>1, <2>1, <2>3, <2>4
<1>5. PICK q \in DOMAIN ls[n].prev : ls[n].prev[q] = i
  BY <1>2 DEF Named
<1>6. ls[n].prev = Append(ls[n - 1].prev, ls[n - 1].id)
  <2>1. n \in s + 1..Len(ls)
    BY <1>1, <1>3, LenProperties
  <2>2. QED
    BY <1>1, <2>1
<1>7. ls[n - 1].prev \in Seq(Nat) /\ ls[n - 1].id \in Nat /\ ls[n - 1].id # i
  <2>1. ls[n - 1] \in Line
    BY <1>4
  <2>2. QED
    BY <1>4, <2>1 DEF Line
<1>8. q \in DOMAIN ls[n - 1].prev /\ ls[n - 1].prev[q] = i
  <2>1. PICK p, x : p = ls[n - 1].prev /\ x = ls[n - 1].id
    OBVIOUS
  <2>2. p \in Seq(Nat) /\ x \in Nat /\ x # i /\ q \in DOMAIN Append(p, x) /\ Append(p, x)[q] = i
    BY <1>5, <1>6, <1>7, <2>1
  <2>3. q \in DOMAIN p /\ p[q] = i
    BY <2>2
  <2>4. QED
    BY <2>1, <2>3
<1>9. QED
  BY <1>4, <1>8 DEF Named

-----------------------------------------------------------------------------
(* What a write leaves on disk.                                            *)

Same(a, b) == a.id = b.id /\ a.seq = b.seq /\ a.prev = b.prev

\* A line that is written in part, or without its end, says the same.
LEMMA AsLine ==
  ASSUME NEW l \in Line, NEW k \in Kind
  PROVE  As(l, k) \in Line /\ As(l, k).kind = k /\ Same(As(l, k), l)
BY DEF As, Line, Same

\* The lines after a write are old lines and lines that were written, with
\* another kind perhaps.
LEMMA LandedLines ==
  ASSUME log \in Seq(Line), NEW ls \in Seq(Line)
  PROVE  /\ Landed(ls) \in Seq(Line)
         /\ \A k \in DOMAIN Landed(ls) :
              \/ \E j \in DOMAIN log : Same(Landed(ls)[k], log[j])
              \/ \E j \in DOMAIN ls : Same(Landed(ls)[k], ls[j])
<1>1. CASE ls # <<>> /\ AtUnfinished
  <2> DEFINE n == Len(log)
             a == SubSeq(log, 1, n - 1)
             j == Joined(log[n], ls[1])
  <2>1. n \in Nat /\ n > 0 /\ log[n] \in Line /\ ls[1] \in Line /\ Len(ls) > 0
    BY <1>1 DEF AtUnfinished
  <2>2. j \in Line /\ Same(j, ls[1])
    <3>1. j \in {ls[1], As(ls[1], "glued"), As(ls[1], "junk")}
      BY DEF Joined
    <3>2. /\ As(ls[1], "glued") \in Line /\ Same(As(ls[1], "glued"), ls[1])
          /\ As(ls[1], "junk") \in Line /\ Same(As(ls[1], "junk"), ls[1])
      <4>1. {"glued", "junk"} \subseteq Kind
        BY DEF Kind
      <4>2. QED
        BY <2>1, <4>1, AsLine
    <3>3. Same(ls[1], ls[1])
      BY DEF Same
    <3> HIDE DEF j
    <3>4. QED
      BY <2>1, <3>1, <3>2, <3>3
  <2>3. a \in Seq(Line) /\ Len(a) = n - 1 /\ \A k \in 1..n - 1 : a[k] = log[k]
    <3>1. \A k \in 1..n - 1 : log[k] \in Line
      BY <2>1
    <3>2. 1 \in Int /\ n - 1 \in Int
      BY <2>1
    <3> HIDE DEF n
    <3>3. /\ a \in Seq(Line) /\ Len(a) = (IF 1 <= n - 1 THEN n - 1 - 1 + 1 ELSE 0)
          /\ \A k \in 1..n - 1 - 1 + 1 : a[k] = log[1 + k - 1]
      BY <3>1, <3>2, SubSeqProperties
    <3>4. QED
      BY <2>1, <3>3
  <2>4. /\ Tail(ls) \in Seq(Line) /\ Len(Tail(ls)) = Len(ls) - 1
        /\ \A k \in 1..Len(ls) - 1 : Tail(ls)[k] = ls[k + 1]
    BY <2>1
  <2>5. Landed(ls) = (a \o <<j>>) \o Tail(ls)
    BY <1>1 DEF Landed
  <2> HIDE DEF a, j, n
  <2>6. /\ Landed(ls) \in Seq(Line) /\ Len(Landed(ls)) = n - 1 + Len(ls)
        /\ \A k \in 1..n - 1 : Landed(ls)[k] = log[k]
        /\ Landed(ls)[n] = j
        /\ \A k \in n + 1..n - 1 + Len(ls) : Landed(ls)[k] = ls[k - n + 1]
    <3>1. PICK b : b = a \o <<j>>
      OBVIOUS
    <3>2. /\ b \in Seq(Line) /\ Len(b) = n /\ b[n] = j
          /\ \A k \in 1..n - 1 : b[k] = a[k]
      BY <2>1, <2>2, <2>3, <3>1
    <3>3. PICK c : c = b \o Tail(ls)
      OBVIOUS
    <3>4. /\ c \in Seq(Line) /\ Len(c) = n + (Len(ls) - 1)
          /\ \A k \in 1..n : c[k] = b[k]
          /\ \A k \in n + 1..n + (Len(ls) - 1) : c[k] = Tail(ls)[k - n]
      <4>1. PICK d \in Seq(Line) : d = Tail(ls)
        BY <2>4
      <4>2. /\ c \in Seq(Line) /\ Len(c) = Len(b) + Len(d)
            /\ \A k \in 1..Len(b) + Len(d) :
                 c[k] = IF k <= Len(b) THEN b[k] ELSE d[k - Len(b)]
        BY <3>2, <3>3, <4>1, ConcatProperties
      <4>3. Len(b) = n /\ Len(d) = Len(ls) - 1 /\ Len(d) \in Nat
        BY <2>4, <3>2, <4>1
      <4>4. Len(c) = n + (Len(ls) - 1)
        BY <4>2, <4>3
      <4>5. \A k \in 1..n : c[k] = b[k]
        <5>1. \A k \in 1..n : k \in 1..n + Len(d) /\ k <= n
          BY <2>1, <4>3
        <5>2. QED
          BY <4>2, <4>3, <5>1
      <4>6. \A k \in n + 1..n + (Len(ls) - 1) : c[k] = d[k - n]
        <5>1. \A k \in n + 1..n + Len(d) : k \in 1..n + Len(d) /\ ~(k <= n)
          BY <2>1, <4>3
        <5>2. QED
          BY <4>2, <4>3, <5>1
      <4>7. QED
        BY <4>1, <4>2, <4>4, <4>5, <4>6
    <3>5. Landed(ls) = c
      BY <2>5, <3>1, <3>3
    <3>6. \A k \in n + 1..n + (Len(ls) - 1) : c[k] = ls[k - n + 1]
      <4>1. \A k \in n + 1..n + (Len(ls) - 1) :
              c[k] = Tail(ls)[k - n] /\ k - n \in 1..Len(ls) - 1
        BY <2>1, <3>4
      <4>2. QED
        <5> SUFFICES ASSUME NEW k \in n + 1..n + (Len(ls) - 1)
                     PROVE  c[k] = ls[k - n + 1]
          OBVIOUS
        <5>1. PICK q \in 1..Len(ls) - 1 : q = k - n /\ c[k] = Tail(ls)[q]
          BY <4>1
        <5>2. Tail(ls)[q] = ls[q + 1]
          BY <2>4
        <5>3. QED
          BY <5>1, <5>2
    <3>7. QED
      BY <2>1, <2>3, <3>2, <3>4, <3>5, <3>6
  <2>7. ASSUME NEW k \in DOMAIN Landed(ls)
        PROVE  \/ \E m \in DOMAIN log : Same(Landed(ls)[k], log[m])
               \/ \E m \in DOMAIN ls : Same(Landed(ls)[k], ls[m])
    <3>1. CASE k < n
      <4>1. k \in 1..n - 1 /\ k \in 1..Len(log)
        BY <2>1, <2>6, <2>7, <3>1 DEF n
      <4>2. Landed(ls)[k] = log[k] /\ k \in DOMAIN log
        BY <2>6, <4>1
      <4>3. QED
        BY <4>2 DEF Same
    <3>2. CASE k = n
      BY <2>1, <2>2, <2>6, <3>2 DEF Same
    <3>3. CASE k > n
      <4>1. k - n + 1 \in DOMAIN ls /\ Landed(ls)[k] = ls[k - n + 1]
        BY <2>1, <2>6, <2>7, <3>3
      <4>2. QED
        BY <4>1 DEF Same
    <3>4. QED
      BY <2>1, <2>6, <2>7, <3>1, <3>2, <3>3
  <2>8. QED
    BY <2>6, <2>7
<1>2. CASE ~(ls # <<>> /\ AtUnfinished)
  <2>1. Landed(ls) = log \o ls
    BY <1>2 DEF Landed
  <2>2. ASSUME NEW k \in DOMAIN Landed(ls)
        PROVE  \/ \E m \in DOMAIN log : Same(Landed(ls)[k], log[m])
               \/ \E m \in DOMAIN ls : Same(Landed(ls)[k], ls[m])
    <3>1. CASE k <= Len(log)
      BY <2>1, <2>2, <3>1 DEF Same
    <3>2. CASE k > Len(log)
      <4>1. k - Len(log) \in DOMAIN ls /\ Landed(ls)[k] = ls[k - Len(log)]
        BY <2>1, <2>2, <3>2
      <4>2. QED
        BY <4>1 DEF Same
    <3>3. k \in Nat /\ Len(log) \in Nat
      BY <2>1, <2>2
    <3>4. QED
      BY <3>1, <3>2, <3>3
  <2>3. log \o ls \in Seq(Line)
    BY ConcatProperties
  <2>4. QED
    BY <2>1, <2>2, <2>3
<1>3. QED
  BY <1>1, <1>2

\* What a flush that fails, or a crash inside one, has written of rs.
Part(rs, k, tail) ==
  SubSeq(rs, 1, k) \o IF tail = "none" THEN <<>> ELSE <<As(rs[k + 1], tail)>>

\* Every line of such a part is one of rs, whole or torn.
LEMMA PartLines ==
  ASSUME NEW rs \in Seq(Line), NEW k \in 0..Len(rs) - 1, NEW tail \in {"none", "torn", "bare"}
  PROVE  /\ Part(rs, k, tail) \in Seq(Line)
         /\ \A m \in DOMAIN Part(rs, k, tail) :
              \E j \in DOMAIN rs : Same(Part(rs, k, tail)[m], rs[j])
<1> DEFINE a == SubSeq(rs, 1, k)
           b == IF tail = "none" THEN <<>> ELSE <<As(rs[k + 1], tail)>>
<1>1. /\ a \in Seq(Line) /\ Len(a) = k
      /\ \A m \in 1..k : a[m] = rs[m]
  OBVIOUS
<1>2. rs[k + 1] \in Line /\ k + 1 \in DOMAIN rs
  OBVIOUS
<1>3. /\ b \in Seq(Line) /\ Len(b) \in {0, 1}
      /\ \A m \in DOMAIN b : m = 1 /\ Same(b[m], rs[k + 1])
  <2>1. CASE tail = "none"
    BY <2>1
  <2>2. CASE tail # "none"
    <3>1. b = <<As(rs[k + 1], tail)>> /\ As(rs[k + 1], tail) \in Line
          /\ Same(As(rs[k + 1], tail), rs[k + 1])
      <4>1. tail \in Kind
        BY <2>2 DEF Kind
      <4>2. QED
        BY <1>2, <2>2, <4>1, AsLine
    <3>2. PICK x : x = As(rs[k + 1], tail)
      OBVIOUS
    <3>3. b = <<x>> /\ x \in Line /\ Same(x, rs[k + 1])
      BY <3>1, <3>2
    <3> HIDE DEF b
    <3>4. QED
      BY <3>3
  <2>3. QED
    BY <2>1, <2>2
<1>4. Part(rs, k, tail) = a \o b
  BY DEF Part
<1> HIDE DEF a, b
<1>5. ASSUME NEW m \in DOMAIN Part(rs, k, tail)
      PROVE  \E j \in DOMAIN rs : Same(Part(rs, k, tail)[m], rs[j])
  <2>1. CASE m <= k
    <3>1. m \in 1..k /\ Part(rs, k, tail)[m] = rs[m]
      BY <1>1, <1>3, <1>4, <1>5, <2>1
    <3>2. QED
      BY <3>1 DEF Same
  <2>2. CASE m > k
    BY <1>1, <1>2, <1>3, <1>4, <1>5, <2>2
  <2>3. QED
    BY <1>1, <1>3, <1>4, <1>5, <2>1, <2>2
<1>6. QED
  BY <1>1, <1>3, <1>4, <1>5

\* Same lines cover the same records.
LEMMA SameCovers ==
  ASSUME NEW a, NEW b, NEW of, Same(a, b), Covers(b, of)
  PROVE  Covers(a, of)
BY DEF Same, Covers

\* What covers a set of records does so when it has landed behind the log.
LEMMA LandedCovers ==
  ASSUME log \in Seq(Line), NEW ls \in Seq(Line), NEW of,
         AllCover(log, of), AllCover(ls, of)
  PROVE  Landed(ls) \in Seq(Line) /\ AllCover(Landed(ls), of)
BY LandedLines, SameCovers DEF AllCover

\* What a failing flush leaves on disk and in the stream.
LEMMA FlushLines ==
  ASSUME log \in Seq(Line), NEW rs \in Seq(Line), NEW kept \in Seq(Line), NEW of,
         AllCover(log, of), AllCover(rs, of), AllCover(kept, of), FlushFails(rs, kept)
  PROVE  /\ log' \in Seq(Line) /\ AllCover(log', of)
         /\ retained' \in Seq(Line) /\ AllCover(retained', of)
<1>1. PICK k \in 0..Len(rs) - 1, tail \in {"none", "torn", "bare"} :
        log' = Landed(Part(rs, k, tail)) /\ retained' = SubSeq(kept, k + 1, Len(kept))
  BY DEF FlushFails, Written, Part
<1>2. PICK ls : ls = Part(rs, k, tail)
  OBVIOUS
<1>3. ls \in Seq(Line) /\ AllCover(ls, of)
  BY <1>2, PartLines, SameCovers DEF AllCover
<1>4. log' \in Seq(Line) /\ AllCover(log', of)
  BY <1>1, <1>2, <1>3, LandedCovers
<1>5. /\ Len(kept) \in Nat /\ k + 1 \in Int
      /\ \A i \in k + 1..Len(kept) : kept[i] \in Line /\ Covers(kept[i], of)
  BY DEF AllCover
<1>6. /\ SubSeq(kept, k + 1, Len(kept)) \in Seq(Line)
      /\ \A i \in DOMAIN SubSeq(kept, k + 1, Len(kept)) :
           \E j \in k + 1..Len(kept) : SubSeq(kept, k + 1, Len(kept))[i] = kept[j]
  <2>1. PICK n \in Nat : n = Len(kept)
    BY <1>5
  <2>2. PICK s : s = SubSeq(kept, k + 1, n)
    OBVIOUS
  <2>3. \A i \in k + 1..n : kept[i] \in Line
    BY <1>5, <2>1
  <2>4. /\ s \in Seq(Line) /\ Len(s) = (IF k + 1 <= n THEN n - (k + 1) + 1 ELSE 0)
        /\ \A i \in 1..n - (k + 1) + 1 : s[i] = kept[(k + 1) + i - 1]
    BY <1>5, <2>2, <2>3, SubSeqProperties
  <2>5. ASSUME NEW i \in DOMAIN s PROVE \E j \in k + 1..n : s[i] = kept[j]
    <3>1. i \in 1..n - (k + 1) + 1
      BY <2>4, <2>5
    <3>2. (k + 1) + i - 1 \in k + 1..n
      BY <3>1
    <3>3. QED
      BY <2>4, <3>1, <3>2
  <2>6. QED
    BY <2>1, <2>2, <2>4, <2>5
<1>7. QED
  BY <1>1, <1>4, <1>5, <1>6 DEF AllCover

\* A record written by a healthy stream is the next line, or is lost behind a
\* line that a crash left unfinished.
LEMMA RecordLands ==
  ASSUME log \in Seq(Line), NEW e \in Line, e.kind = "record",
         \A k \in DOMAIN log : log[k].kind \in Unfinished => log[k].id # e.id
  PROVE  \/ Landed(<<e>>) = Append(log, e)
         \/ /\ log # <<>> /\ log[Len(log)].kind \in Unfinished
            /\ Landed(<<e>>) = [log EXCEPT ![Len(log)] = As(e, "junk")]
<1>1. CASE AtUnfinished
  <2>1. log # <<>> /\ Len(log) \in DOMAIN log /\ log[Len(log)].kind \in Unfinished
    BY <1>1 DEF AtUnfinished
  <2>2. Joined(log[Len(log)], e) = As(e, "junk")
    BY <2>1 DEF Joined, Unfinished
  <2>3. PICK j : j = As(e, "junk")
    OBVIOUS
  <2>4. j \in Line
    BY <2>3, AsLine DEF Kind
  <2>5. Landed(<<e>>) = SubSeq(log, 1, Len(log) - 1) \o <<j>> \o <<>>
    BY <1>1, <2>2, <2>3 DEF Landed
  <2>6. SubSeq(log, 1, Len(log) - 1) \o <<j>> \o <<>> = [log EXCEPT ![Len(log)] = j]
    BY <2>1, <2>4
  <2>7. QED
    BY <2>1, <2>3, <2>5, <2>6
<1>2. CASE ~AtUnfinished
  BY <1>2 DEF Landed
<1>3. QED
  BY <1>1, <1>2

\* A record more leaves the others' numbers alone.
LEMMA CoversGrows ==
  ASSUME NEW of \in Seq(Nat), NEW r \in Nat, NEW l, Covers(l, of)
  PROVE  Covers(l, Append(of, r))
<1>1. \A i \in DOMAIN of : i \in DOMAIN Append(of, r) /\ Append(of, r)[i] = of[i]
  OBVIOUS
<1>2. ASSUME NEW i \in DOMAIN Append(of, r), i < l.id PROVE i \in DOMAIN of
  <2>1. l.id \in 1..Len(of)
    BY DEF Covers
  <2>2. QED
    BY <1>2, <2>1
<1>3. QED
  BY <1>1, <1>2 DEF Covers

-----------------------------------------------------------------------------
(* Every step keeps the invariant.                                         *)

\* A process starts, with the log or without it.
LEMMA StartStep ==
  ASSUME Inv, Start \/ StartDegraded
  PROVE  Inv'
<1> USE DEF Inv
<1>1. /\ Down /\ run' = run + 1
      /\ log' = log /\ retained' = retained /\ lock' = lock /\ entry' = entry
      /\ runOf' = runOf /\ returned' = returned
      /\ pc' = [w \in Writers |-> "idle"]
      /\ \/ stream' = "open" /\ reason' = "none" /\ faults' = faults
         \/ stream' = "stderr" /\ reason' = "open" /\ faults' = faults + 1
  BY DEF Start, StartDegraded, disk
<1>2. Typed'
  <2>1. seq' \in Nat /\ prev' \in Seq(Nat)
    <3>1. CASE Start /\ Resumable
      <4>1. log[Len(log)] \in Line
        BY <3>1 DEF Resumable, Typed
      <4>2. /\ seq' = log[Len(log)].seq + 1
            /\ prev' = Append(log[Len(log)].prev, log[Len(log)].id)
        BY <3>1 DEF Start, ChainValue
      <4>3. QED
        BY <4>1, <4>2 DEF Line
    <3>2. QED
      <4>1. CASE StartDegraded \/ ~Resumable
        <5>1. seq' = 0 /\ prev' = <<>>
          BY <4>1 DEF Start, StartDegraded, Genesis
        <5>2. QED
          BY <5>1
      <4>2. QED
        BY <3>1, <4>1
  <2>2. /\ reason' \in {"none", "open", "write", "gap"}
        /\ stream' \in {"open", "stale", "none", "stderr"}
        /\ faults' \in Nat
    BY <1>1 DEF Typed
  <2>3. QED
    BY <1>1, <2>1, <2>2 DEF Typed
<1>3. Serial'
  BY <1>1 DEF Serial, Busy
<1>4. Lines'
  BY <1>1 DEF Lines, Busy
<1>5. \A i \in DOMAIN runOf' : runOf'[i] <= run' /\ runOf'[i] # run'
  <2>1. \A i \in DOMAIN runOf : runOf[i] \in Nat /\ runOf[i] <= run
    BY DEF Anchor, Typed
  <2>2. run \in Nat
    BY DEF Typed
  <2>3. QED
    BY <1>1, <2>1, <2>2
<1>6. Anchor'
  BY <1>1, <1>5 DEF Anchor
<1>7. Fresh'
  <2>1. \A k \in DOMAIN log : log[k].id \in DOMAIN runOf
    BY DEF Lines, AllCover, Covers
  <2>2. QED
    BY <1>1, <1>5, <2>1 DEF Fresh, Healthy
<1>8. Kept'
  BY <1>1, <1>5 DEF Kept
<1>9. QED
  BY <1>2, <1>3, <1>4, <1>6, <1>7, <1>8

\* A writer takes the lock and numbers its record.
LEMMA EmitStep ==
  ASSUME Inv, NEW w \in Writers, Emit(w)
  PROVE  Inv'
<1> USE DEF Inv
<1> DEFINE e == [kind |-> "record", id |-> Len(runOf) + 1, seq |-> seq, prev |-> prev]
<1>1. /\ pc[w] = "idle" /\ lock = None /\ lock' = w
      /\ runOf' = Append(runOf, run)
      /\ pc' = [pc EXCEPT ![w] = "handing"]
      /\ entry' = [entry EXCEPT ![w] = e]
      /\ UNCHANGED <<log, stream, retained, seq, prev, reason, returned, run, faults>>
  BY DEF Emit, LockFree, disk
<1>2. \A v \in Writers : pc[v] \notin Busy
  BY <1>1, ChainAssumption DEF Serial
<1>3. e \in Line
  BY DEF Typed, Line, Kind
<1>4. /\ \A v \in Writers : v # w => pc'[v] \notin Busy
      /\ pc'[w] = "handing" /\ entry'[w] = e
  BY <1>1, <1>2 DEF Typed
<1>5. /\ Len(runOf') = Len(runOf) + 1 /\ runOf' \in Seq(Nat) /\ Len(runOf) \in Nat
      /\ runOf'[Len(runOf) + 1] = run
      /\ \A i \in DOMAIN runOf : i \in DOMAIN runOf' /\ runOf'[i] = runOf[i]
      /\ \A i \in DOMAIN runOf' : i \in DOMAIN runOf \/ i = Len(runOf) + 1
  BY <1>1 DEF Typed
<1>6. Typed'
  BY <1>1, <1>3, <1>5 DEF Typed, Busy
<1>7. Serial'
  <2>1. Len(runOf) + 1 \notin returned
    BY <1>5 DEF Typed
  <2>2. /\ lock' = w /\ e \in Line /\ e.kind = "record"
        /\ e.seq = seq' /\ e.prev = prev' /\ e.id = Len(runOf') /\ e.id \notin returned'
        /\ runOf' # <<>> /\ runOf'[Len(runOf')] = run'
    BY <1>1, <1>3, <1>5, <2>1
  <2>3. QED
    BY <1>4, <2>2 DEF Serial
<1>9. \A i \in DOMAIN runOf : runOf[i] = run => Named(i, prev)
  BY <1>1, <1>2 DEF Anchor, Down
<1>10. Covers(e, runOf')
  <2>1. e.id = Len(runOf) + 1 /\ e.prev = prev
    OBVIOUS
  <2>2. e.id \in DOMAIN runOf'
    BY <1>5, <2>1
  <2>3. ASSUME NEW i \in DOMAIN runOf', i < e.id, runOf'[i] = runOf'[e.id]
        PROVE  Named(i, prev)
    BY <1>5, <1>9, <2>1, <2>3
  <2> HIDE DEF e
  <2>4. QED
    BY <2>1, <2>2, <2>3 DEF Covers
<1>11. Lines'
  <2>1. AllCover(log, runOf') /\ AllCover(retained, runOf')
    BY <1>1, CoversGrows DEF Lines, AllCover, Typed
  <2>2. QED
    BY <1>1, <1>4, <1>10, <2>1 DEF Lines
<1>12. Anchor'
  <2>1. \A i \in DOMAIN runOf' : runOf'[i] <= run
    <3>1. \A i \in DOMAIN runOf : runOf[i] <= run
      BY DEF Anchor
    <3>2. run <= run
      BY DEF Typed
    <3>3. QED
      BY <1>5, <3>1, <3>2
  <2>2. entry'[w].id = Len(runOf) + 1 /\ pc'[w] \in Busy
    BY <1>4 DEF Busy
  <2>3. QED
    BY <1>1, <1>5, <1>9, <2>1, <2>2 DEF Anchor
<1>13. ~Down /\ ~Down'
  BY <1>1, <1>4 DEF Down
<1>14. Fresh'
  <2>1. \A k \in DOMAIN log : log[k].id \in DOMAIN runOf
    BY DEF Lines, AllCover, Covers
  <2>2. QED
    BY <1>1, <1>5, <1>13, <2>1 DEF Fresh, Healthy
<1>15. Kept'
  <2> SUFFICES ASSUME Healthy', NEW i \in DOMAIN runOf', runOf'[i] = run', Handed(i)'
               PROVE  (Readable(i) \/ Doomed)'
    BY DEF Kept
  <2>1. i \in returned
    BY <1>1, <1>4 DEF Handed, Busy
  <2>2. i \in DOMAIN runOf /\ runOf[i] = run /\ Handed(i) /\ Healthy
    BY <1>1, <1>5, <1>13, <2>1 DEF Typed, Handed, Healthy
  <2>3. QED
    BY <1>1, <2>2 DEF Kept, Readable, Doomed
<1>16. QED
  BY <1>6, <1>7, <1>11, <1>12, <1>14, <1>15

\* What the steps of the handler have in common: the record under way, its
\* number and the anchor stay, and what is on disk and in the stream still
\* covers what it must.
LEMMA HandlerMoves ==
  ASSUME Inv, NEW w \in Writers, pc[w] \in {"handing", "writing"},
         NEW p \in {"writing", "advancing"}, pc' = [pc EXCEPT ![w] = p],
         UNCHANGED <<seq, prev, lock, entry, runOf, returned, run>>,
         log' \in Seq(Line), AllCover(log', runOf),
         retained' \in Seq(Line), AllCover(retained', runOf),
         faults' \in Nat, reason' \in {"none", "open", "write", "gap"},
         stream' \in {"open", "stale", "none", "stderr"}
  PROVE  /\ Typed' /\ Serial' /\ Lines' /\ Anchor'
         /\ ~Down /\ ~Down'
<1> USE DEF Inv
<1>1. \A v \in Writers : pc'[v] \in Busy <=> pc[v] \in Busy
  BY DEF Typed, Busy
<1>2. Typed'
  BY DEF Typed, Busy
<1>3. Serial'
  BY <1>1 DEF Serial
<1>4. Lines'
  BY <1>1 DEF Lines
<1>5. ~Down /\ ~Down'
  BY DEF Down, Typed
<1>6. Anchor'
  BY <1>1, <1>5 DEF Anchor
<1>7. QED
  BY <1>2, <1>3, <1>4, <1>5, <1>6

\* The handler reopens its file.
LEMMA ReopenStep ==
  ASSUME Inv, NEW w \in Writers, Reopen(w)
  PROVE  Inv'
<1>1. /\ pc[w] = "handing" /\ pc' = [pc EXCEPT ![w] = "writing"]
      /\ UNCHANGED <<seq, prev, lock, entry, runOf, returned, run, reason, faults>>
      /\ stream' = IF stream = "stderr" THEN "stderr" ELSE "open"
  BY DEF Reopen, anchor, ghosts
<1>2. \/ log' = Landed(retained) /\ retained' = <<>>
      \/ log' = log /\ retained' = retained
  BY DEF Reopen, Written, disk
<1>3. /\ log' \in Seq(Line) /\ AllCover(log', runOf)
      /\ retained' \in Seq(Line) /\ AllCover(retained', runOf)
  <2>1. /\ log \in Seq(Line) /\ AllCover(log, runOf)
        /\ retained \in Seq(Line) /\ AllCover(retained, runOf)
    BY DEF Inv, Typed, Lines
  <2>2. CASE log' = Landed(retained) /\ retained' = <<>>
    BY <2>1, <2>2, LandedCovers DEF AllCover
  <2>3. QED
    BY <1>2, <2>1, <2>2
<1>4. Typed' /\ Serial' /\ Lines' /\ Anchor' /\ ~Down /\ ~Down'
  <2>1. /\ faults' \in Nat /\ reason' \in {"none", "open", "write", "gap"}
        /\ stream' \in {"open", "stale", "none", "stderr"}
    BY <1>1 DEF Inv, Typed
  <2>2. QED
    BY <1>1, <1>3, <2>1, HandlerMoves
<1>5. CASE ~Healthy
  <2>1. ~Healthy'
    BY <1>1, <1>4, <1>5 DEF Healthy
  <2>2. QED
    BY <1>4, <2>1 DEF Inv, Fresh, Kept
<1>6. CASE Healthy
  <2>1. Healthy' /\ retained = <<>> /\ stream \in {"open", "stale"}
    BY <1>1, <1>4, <1>6 DEF Inv, Fresh, Healthy
  <2>2. Landed(<<>>) = log
    BY DEF Landed, Inv, Typed
  <2>3. log' = log /\ retained' = <<>> /\ stream' = "open"
    BY <1>1, <1>2, <2>1, <2>2
  <2>4. Fresh'
    BY <1>1, <1>4, <1>6, <2>3 DEF Inv, Fresh
  <2>5. \A i : Handed(i)' => Handed(i)
    BY <1>1 DEF Handed, Inv, Typed
  <2>6. Kept'
    BY <1>1, <1>6, <2>3, <2>5 DEF Inv, Kept, Readable, Doomed
  <2>7. QED
    BY <1>4, <2>4, <2>6 DEF Inv
<1>7. QED
  BY <1>5, <1>6

\* A write, a flush or an open fails, and the sink is degraded.
LEMMA FailStep ==
  ASSUME Inv, NEW w \in Writers, ReopenFails(w) \/ WriteFails(w)
  PROVE  Inv'
<1>1. /\ pc[w] \in {"handing", "writing"} /\ pc' = [pc EXCEPT ![w] = "advancing"]
      /\ UNCHANGED <<seq, prev, lock, entry, runOf, returned, run>>
      /\ reason' = IF reason = "none" THEN "write" ELSE reason
      /\ faults' = faults + 1
  BY DEF ReopenFails, WriteFails, HandleError, Degrade, anchor, ghosts
<1>2. /\ reason' \in {"open", "write", "gap"} /\ faults' \in Nat
      /\ stream' \in {"open", "stale", "none", "stderr"}
  BY <1>1 DEF ReopenFails, WriteFails, Inv, Typed
<1>3. /\ log \in Seq(Line) /\ AllCover(log, runOf)
      /\ retained \in Seq(Line) /\ AllCover(retained, runOf)
  BY DEF Inv, Typed, Lines
<1>4. /\ log' \in Seq(Line) /\ AllCover(log', runOf)
      /\ retained' \in Seq(Line) /\ AllCover(retained', runOf)
  <2>1. CASE ReopenFails(w)
    <3>1. \/ FlushFails(retained, retained)
          \/ log' = Landed(retained) /\ retained' = <<>>
          \/ log' = log /\ retained' = retained
      BY <2>1 DEF ReopenFails, Written, disk
    <3>2. PICK r0, of : r0 = retained /\ of = runOf
      OBVIOUS
    <3>3. CASE FlushFails(retained, retained)
      <4>1. FlushFails(r0, r0) /\ r0 \in Seq(Line) /\ AllCover(r0, of) /\ AllCover(log, of)
        BY <1>3, <3>2, <3>3
      <4>2. QED
        BY <1>3, <3>2, <4>1, FlushLines
    <3>4. CASE log' = Landed(retained) /\ retained' = <<>>
      BY <1>3, <3>4, LandedCovers DEF AllCover
    <3>5. QED
      BY <1>3, <3>1, <3>3, <3>4
  <2>2. CASE WriteFails(w)
    <3>1. PICK r0, p0, of : r0 = retained /\ p0 = Append(retained, entry[w]) /\ of = runOf
      OBVIOUS
    <3>2. /\ p0 \in Seq(Line) /\ AllCover(p0, of) /\ r0 \in Seq(Line)
          /\ AllCover(r0, of) /\ AllCover(log, of)
      <4>1. entry[w] \in Line /\ Covers(entry[w], runOf)
        BY <1>1 DEF Inv, Serial, Lines, Busy
      <4>2. QED
        BY <1>3, <3>1, <4>1 DEF AllCover
    <3>3. FlushFails(p0, p0) \/ FlushFails(p0, r0)
      BY <2>2, <3>1 DEF WriteFails
    <3>4. QED
      BY <1>3, <3>1, <3>2, <3>3, FlushLines
  <2>3. QED
    BY <2>1, <2>2
<1>5. Typed' /\ Serial' /\ Lines' /\ Anchor' /\ ~Down'
  BY <1>1, <1>2, <1>4, HandlerMoves
<1>6. ~Healthy'
  BY <1>2 DEF Healthy
<1>7. QED
  BY <1>5, <1>6 DEF Inv, Fresh, Kept

\* The record lands.  A healthy process finds it in the log, or finds the log
\* broken for good: by a line that stands before its own, which all have
\* predecessors.
LEMMA WriteStep ==
  ASSUME Inv, NEW w \in Writers, Write(w)
  PROVE  Inv'
<1>1. /\ pc[w] = "writing" /\ pc' = [pc EXCEPT ![w] = "advancing"]
      /\ UNCHANGED <<stream, seq, prev, lock, entry, runOf, returned, run, reason, faults>>
  BY DEF Write, anchor, ghosts
<1>2. \/ stream = "stderr" /\ log' = log /\ retained' = retained
      \/ log' = Landed(Append(retained, entry[w])) /\ retained' = <<>>
  BY DEF Write, Written, disk
<1>3. PICK e : e = entry[w]
  OBVIOUS
<1>4. /\ e \in Line /\ e.kind = "record" /\ Covers(e, runOf)
      /\ e.id = Len(runOf) /\ e.id \notin returned /\ runOf # <<>>
      /\ runOf[e.id] = run /\ e.id \in DOMAIN runOf /\ lock = w
  BY <1>1, <1>3 DEF Inv, Typed, Serial, Lines, Busy
<1>5. /\ log \in Seq(Line) /\ AllCover(log, runOf)
      /\ retained \in Seq(Line) /\ AllCover(retained, runOf)
  BY DEF Inv, Typed, Lines
<1>6. /\ log' \in Seq(Line) /\ AllCover(log', runOf)
      /\ retained' \in Seq(Line) /\ AllCover(retained', runOf)
  <2>1. CASE log' = Landed(Append(retained, entry[w])) /\ retained' = <<>>
    <3>1. PICK ls : ls = Append(retained, entry[w])
      OBVIOUS
    <3>2. ls \in Seq(Line) /\ AllCover(ls, runOf)
      BY <1>3, <1>4, <1>5, <3>1 DEF AllCover
    <3>3. Landed(ls) \in Seq(Line) /\ AllCover(Landed(ls), runOf)
      BY <1>5, <3>2, LandedCovers
    <3>4. QED
      BY <2>1, <3>1, <3>3 DEF AllCover
  <2>2. QED
    BY <1>2, <1>5, <2>1
<1>7. Typed' /\ Serial' /\ Lines' /\ Anchor' /\ ~Down /\ ~Down'
  <2>1. /\ faults' \in Nat /\ reason' \in {"none", "open", "write", "gap"}
        /\ stream' \in {"open", "stale", "none", "stderr"}
    BY <1>1 DEF Inv, Typed
  <2>2. QED
    BY <1>1, <1>6, <2>1, HandlerMoves
<1>8. CASE ~Healthy
  <2>1. ~Healthy'
    BY <1>1, <1>7, <1>8 DEF Healthy
  <2>2. QED
    BY <1>7, <2>1 DEF Inv, Fresh, Kept
<1>9. CASE Healthy
  <2>1. /\ retained = <<>> /\ stream \in {"open", "stale"}
        /\ \A k \in DOMAIN log : log[k].kind \in Unfinished => runOf[log[k].id] # run
    BY <1>9 DEF Inv, Fresh
  <2>2. log' = Landed(<<e>>) /\ retained' = <<>>
    BY <1>2, <1>3, <2>1
  <2>3. \/ log' = Append(log, e)
        \/ /\ log # <<>> /\ log[Len(log)].kind \in Unfinished
           /\ log' = [log EXCEPT ![Len(log)] = As(e, "junk")]
    BY <1>4, <1>5, <2>1, <2>2, RecordLands
  <2>4. PICK j : j = As(e, "junk")
    OBVIOUS
  <2>5. j \in Line /\ j.kind = "junk" /\ j.id = e.id /\ j.prev = e.prev
    BY <1>4, <2>4, AsLine DEF Kind, Same
  <2>6. Fresh'
    <3>1. \A k \in DOMAIN log' : log'[k].kind \in Unfinished => runOf[log'[k].id] # run
      <4>1. CASE log' = Append(log, e)
        <5>1. \A k \in DOMAIN log' : (k \in DOMAIN log /\ log'[k] = log[k]) \/ log'[k] = e
          BY <1>4, <1>5, <4>1
        <5>2. QED
          BY <1>4, <2>1, <5>1 DEF Unfinished
      <4>2. CASE log' = [log EXCEPT ![Len(log)] = As(e, "junk")]
        <5>1. \A k \in DOMAIN log' : k \in DOMAIN log /\ (log'[k] = log[k] \/ log'[k] = j)
          BY <1>5, <2>4, <4>2
        <5>2. QED
          BY <2>1, <2>5, <5>1 DEF Unfinished
      <4>3. QED
        BY <2>3, <4>1, <4>2
    <3>2. QED
      BY <1>1, <1>7, <2>1, <2>2, <3>1 DEF Fresh
  <2>7. Kept'
    <3> SUFFICES ASSUME NEW i \in DOMAIN runOf, runOf[i] = run, Handed(i)'
                 PROVE  Readable(i)' \/ Doomed'
      BY <1>1 DEF Kept
    <3>1. i = e.id \/ i \in returned
      <4>1. \A v \in Writers : pc[v] = "advancing" => FALSE
        BY <1>1, <1>4 DEF Inv, Serial, Busy
      <4>2. QED
        BY <1>1, <1>3, <4>1 DEF Handed, Inv, Typed
    <3>2. i # e.id => i < e.id /\ i \in returned
      BY <1>4, <1>5, <3>1 DEF Inv, Typed
    <3>3. i # e.id => e.prev # <<>> /\ (Readable(i) \/ Doomed)
      <4>1. ASSUME i # e.id PROVE Named(i, e.prev)
        BY <1>4, <3>2, <4>1 DEF Covers
      <4>2. ASSUME i # e.id PROVE Readable(i) \/ Doomed
        BY <1>9, <3>2, <4>2 DEF Inv, Kept, Handed
      <4>3. QED
        BY <4>1, <4>2 DEF Named
    <3>4. CASE log' = Append(log, e)
      <4>1. /\ Len(log) \in Nat /\ Len(log') = Len(log) + 1 /\ log'[Len(log) + 1] = e
            /\ Len(log) + 1 \in DOMAIN log'
            /\ \A k \in DOMAIN log : k \in DOMAIN log' /\ log'[k] = log[k]
            /\ \A k \in DOMAIN log' : k \in DOMAIN log \/ k = Len(log) + 1
        BY <1>4, <1>5, <3>4
      <4>2. Chained(e)
        BY <1>4 DEF Chained
      <4>3. Readable(e.id)'
        BY <4>1, <4>2 DEF Readable
      <4>4. Readable(i) => Readable(i)'
        BY <4>1 DEF Readable
      <4>5. Doomed /\ e.prev # <<>> => Doomed'
        BY <4>1 DEF Doomed, Genesis
      <4>6. QED
        BY <3>3, <4>3, <4>4, <4>5
    <3>5. CASE log # <<>> /\ log' = [log EXCEPT ![Len(log)] = As(e, "junk")]
      <4>1. /\ Len(log) \in DOMAIN log' /\ log'[Len(log)] = j
            /\ \A k \in DOMAIN log' : ~(k > Len(log))
        BY <1>5, <2>4, <3>5
      <4>2. QED
        BY <2>5, <4>1 DEF Doomed
    <3>6. QED
      BY <2>3, <3>4, <3>5
  <2>8. QED
    BY <1>7, <2>6, <2>7 DEF Inv
<1>10. QED
  BY <1>8, <1>9

\* The anchor takes the record in, and the lock is released.
LEMMA AdvanceStep ==
  ASSUME Inv, NEW w \in Writers, Advance(w)
  PROVE  Inv'
<1>1. PICK e : e = entry[w]
  OBVIOUS
<1>2. /\ pc[w] = "advancing" /\ pc' = [pc EXCEPT ![w] = "idle"]
      /\ seq' = seq + 1 /\ prev' = Append(e.prev, e.id)
      /\ returned' = returned \/ returned' = returned \cup {e.id}
      /\ entry' = [entry EXCEPT ![w] = None]
      /\ UNCHANGED <<log, stream, retained, reason, runOf, run, faults>>
  BY <1>1 DEF Advance, Advanced, ChainValue, disk
<1>3. /\ e \in Line /\ e.prev = prev /\ e.id = Len(runOf) /\ e.id \in DOMAIN runOf
      /\ lock = w
  BY <1>1, <1>2 DEF Inv, Typed, Serial, Busy
<1>4. /\ \A v \in Writers : v # w => pc[v] \notin Busy /\ pc'[v] = pc[v]
      /\ pc'[w] = "idle"
  BY <1>2, <1>3 DEF Inv, Typed, Serial
<1>5. \A v \in Writers : pc'[v] \notin Busy
  BY <1>4 DEF Busy
<1>6. ~Down /\ ~Down'
  BY <1>2, <1>4 DEF Down
<1>7. Typed'
  <2>1. seq' \in Nat /\ prev' \in Seq(Nat) /\ returned' \subseteq DOMAIN runOf
    BY <1>2, <1>3 DEF Inv, Typed, Line
  <2>2. QED
    BY <1>2, <2>1 DEF Inv, Typed
<1>8. Serial'
  BY <1>5 DEF Serial
<1>9. Lines'
  BY <1>2, <1>5 DEF Inv, Lines
<1>10. Anchor'
  <2>1. \A i \in DOMAIN runOf : runOf[i] = run => Named(i, prev) \/ i = e.id
    BY <1>1, <1>4, <1>6 DEF Inv, Anchor
  <2>2. prev \in Seq(Nat) /\ e.id \in Nat
    BY <1>3 DEF Inv, Typed, Line
  <2>3. \A i : Named(i, prev) \/ i = e.id => Named(i, prev')
    <3>1. /\ prev' = Append(prev, e.id)
          /\ \A n \in DOMAIN prev : n \in DOMAIN prev' /\ prev'[n] = prev[n]
          /\ Len(prev) + 1 \in DOMAIN prev' /\ prev'[Len(prev) + 1] = e.id
      BY <1>2, <1>3, <2>2
    <3>2. QED
      BY <3>1 DEF Named
  <2>4. QED
    BY <1>2, <2>1, <2>3 DEF Inv, Anchor
<1>11. Fresh'
  BY <1>2, <1>6 DEF Inv, Fresh, Healthy
<1>12. Kept'
  <2>1. \A i : Handed(i)' => Handed(i)
    BY <1>1, <1>2, <1>5 DEF Handed, Busy
  <2>2. Healthy' => Healthy
    BY <1>2, <1>6 DEF Healthy
  <2>3. QED
    BY <1>2, <2>1, <2>2 DEF Inv, Kept, Readable, Doomed
<1>13. QED
  BY <1>7, <1>8, <1>9, <1>10, <1>11, <1>12 DEF Inv

\* A gap is reported, or the file is rotated.
LEMMA AsideStep ==
  ASSUME Inv, SupervisorGap \/ Rotate
  PROVE  Inv'
<1>1. UNCHANGED <<log, retained, seq, prev, lock, pc, entry, runOf, returned, run, faults>>
  BY DEF SupervisorGap, Rotate, disk, anchor, ghosts
<1>2. /\ \/ reason' = reason
         \/ reason' \in {"open", "write", "gap"}
      /\ \/ stream' = stream
         \/ stream' = "stale" /\ stream = "open"
  <2>1. CASE SupervisorGap
    BY <2>1 DEF SupervisorGap, Degrade, Inv, Typed
  <2>2. CASE Rotate
    BY <2>2 DEF Rotate
  <2>3. QED
    BY <2>1, <2>2
<1>3. Healthy' => Healthy
  BY <1>1, <1>2 DEF Healthy, Down
<1>4. Typed'
  BY <1>1, <1>2 DEF Inv, Typed
<1>5. Serial' /\ Lines' /\ Anchor'
  BY <1>1 DEF Inv, Serial, Lines, Anchor, Down
<1>6. Fresh'
  BY <1>1, <1>2, <1>3 DEF Inv, Fresh, Down
<1>7. Kept'
  BY <1>1, <1>3 DEF Inv, Kept, Readable, Doomed, Handed
<1>8. QED
  BY <1>4, <1>5, <1>6, <1>7 DEF Inv

\* The process dies, in a write perhaps.
LEMMA CrashStep ==
  ASSUME Inv, Crash \/ \E w \in Writers : CrashMidWrite(w)
  PROVE  Inv'
<1>1. Dies /\ faults' \in Nat
  BY DEF Crash, CrashMidWrite, Inv, Typed
<1>2. /\ retained' = <<>> /\ stream' = "none"
      /\ pc' = [w \in Writers |-> "down"] /\ entry' = [w \in Writers |-> None]
      /\ UNCHANGED <<seq, prev, reason, runOf, returned, run>>
  BY <1>1 DEF Dies, ghosts
<1>3. log \in Seq(Line) /\ AllCover(log, runOf)
  BY DEF Inv, Typed, Lines
<1>4. log' \in Seq(Line) /\ AllCover(log', runOf)
  <2>1. CASE Crash
    BY <1>3, <2>1 DEF Crash, disk
  <2>2. CASE \E w \in Writers : CrashMidWrite(w)
    <3>1. PICK w \in Writers : CrashMidWrite(w)
      BY <2>2
    <3>2. PICK rs : rs = Append(retained, entry[w])
      OBVIOUS
    <3>3. rs \in Seq(Line) /\ AllCover(rs, runOf) /\ Len(rs) = Len(retained) + 1
      <4>1. entry[w] \in Line /\ Covers(entry[w], runOf)
        BY <3>1 DEF CrashMidWrite, Inv, Serial, Lines, Busy
      <4>2. retained \in Seq(Line) /\ AllCover(retained, runOf)
        BY DEF Inv, Typed, Lines
      <4>3. QED
        BY <3>2, <4>1, <4>2 DEF AllCover
    <3>4. PICK k \in 0..Len(retained), tail \in {"torn", "bare"} :
            log' = Landed(SubSeq(rs, 1, k) \o <<As(rs[k + 1], tail)>>)
      BY <3>1, <3>2 DEF CrashMidWrite, Written
    <3>5. PICK ls : ls = Part(rs, k, tail)
      OBVIOUS
    <3>6. log' = Landed(ls)
      BY <3>4, <3>5 DEF Part
    <3>7. k \in 0..Len(rs) - 1
      BY <3>3, <3>4 DEF Inv, Typed
    <3>8. ls \in Seq(Line) /\ AllCover(ls, runOf)
      BY <3>3, <3>5, <3>7, PartLines, SameCovers DEF AllCover
    <3>9. QED
      BY <1>3, <3>6, <3>8, LandedCovers
  <2>3. QED
    BY <2>1, <2>2
<1>5. Down' /\ ~Healthy'
  BY <1>2 DEF Down, Healthy
<1>6. Typed'
  BY <1>1, <1>2, <1>4 DEF Inv, Typed
<1>7. Serial' /\ Lines'
  BY <1>2, <1>4 DEF Serial, Lines, AllCover, Busy
<1>8. Anchor'
  BY <1>2, <1>5 DEF Inv, Anchor
<1>9. Fresh' /\ Kept'
  BY <1>2, <1>5 DEF Fresh, Kept
<1>10. QED
  BY <1>6, <1>7, <1>8, <1>9 DEF Inv

\* The invariant holds throughout.
THEOREM Invariance == Spec => []Inv
<1>1. Init => Inv
  BY DEF Init, Inv, Typed, Serial, Lines, AllCover, Anchor, Fresh, Kept, Healthy, Down,
         Busy, Genesis
<1>2. Inv /\ [Next]_vars => Inv'
  <2> SUFFICES ASSUME Inv, [Next]_vars PROVE Inv'
    OBVIOUS
  <2>1. CASE Next
    BY <2>1, StartStep, EmitStep, ReopenStep, FailStep, WriteStep, AdvanceStep, AsideStep,
       CrashStep DEF Next
  <2>2. CASE UNCHANGED vars
    BY <2>2 DEF vars, Inv, Typed, Serial, Lines, Anchor, Fresh, Kept, Healthy, Down,
                Readable, Doomed, Handed
  <2>3. QED
    BY <2>1, <2>2
<1>3. QED
  BY <1>1, <1>2, PTL DEF Spec

\* No loss goes unnoticed, whatever fails and however often the process dies: a
\* log that --verify-audit accepts has no hole before a record of the same
\* process, and a healthy process finds every record it has recorded in it.
THEOREM LossesNoticed == Spec => []LossNoticed
<1>1. Inv => LossNoticed
  <2> SUFFICES ASSUME Inv, Accepted(log) PROVE
        /\ \A i \in returned : \A j \in DOMAIN runOf :
             i < j /\ runOf[i] = runOf[j] /\ Readable(j) => Readable(i)
        /\ Healthy => \A i \in returned : runOf[i] = run => Readable(i)
    BY DEF LossNoticed, Healthy
  <2>1. log \in Seq(Line) /\ returned \subseteq DOMAIN runOf
    BY DEF Inv, Typed
  <2>2. ASSUME NEW i \in returned, NEW j \in DOMAIN runOf, i < j, runOf[i] = runOf[j],
               Readable(j)
        PROVE  Readable(i)
    <3>1. PICK k \in DOMAIN log : log[k].id = j /\ Chained(log[k])
      BY <2>2 DEF Readable
    <3>2. Named(i, log[k].prev)
      BY <2>1, <2>2, <3>1 DEF Inv, Lines, AllCover, Covers
    <3>3. PICK ls \in Seq(Line) : ls = log
      BY <2>1
    <3>4. \E m \in DOMAIN ls : ls[m].id = i /\ Chained(ls[m])
      BY <3>1, <3>2, <3>3, AcceptedHasAll
    <3>5. QED
      BY <3>3, <3>4 DEF Readable
  <2>3. ~Doomed
    <3> SUFFICES ASSUME Doomed PROVE FALSE
      OBVIOUS
    <3>1. PICK m \in DOMAIN log : /\ log[m].kind = "junk"
                                  /\ \A k \in DOMAIN log : k > m => log[k].prev # Genesis
      BY DEF Doomed
    <3>2. PICK s : s = FirstChained(log)
      OBVIOUS
    <3>3. s \in DOMAIN log /\ Chained(log[s])
      BY <2>1, <3>2, FirstChainedFound DEF Accepted
    <3>4. log[s].prev = Genesis /\ \A i \in s + 1..Len(log) : Chained(log[i])
      BY <3>2 DEF Accepted
    <3>5. ~Chained(log[m])
      BY <3>1 DEF Chained
    <3>6. m \in Nat /\ s \in Nat /\ m <= Len(log) /\ ~(s > m) /\ s # m
      BY <2>1, <3>1, <3>3, <3>4, <3>5
    <3>7. QED
      BY <2>1, <3>4, <3>5, <3>6
  <2>4. QED
    BY <2>1, <2>2, <2>3 DEF Inv, Kept, Handed
<1>2. QED
  BY <1>1, Invariance, PTL

-----------------------------------------------------------------------------
(* Without faults.                                                         *)

\* The next record of the chain lands behind it.
LEMMA HonestWrite ==
  ASSUME Inv, Honest, faults = 0, NEW w \in Writers, Write(w)
  PROVE  Honest'
<1>1. PICK e : e = entry[w]
  OBVIOUS
<1>2. /\ pc[w] = "writing" /\ pc' = [pc EXCEPT ![w] = "advancing"]
      /\ UNCHANGED <<stream, entry, returned>>
  BY DEF Write, ghosts
<1>3. /\ e \in Line /\ e.kind = "record" /\ e.seq = seq /\ e.prev = prev /\ lock = w
      /\ log \in Seq(Line) /\ pc \in [Writers -> {"down", "idle"} \cup Busy]
  BY <1>1, <1>2 DEF Inv, Typed, Serial, Busy
<1>4. \A v \in Writers : v # w => pc[v] \notin Busy
  BY <1>3 DEF Inv, Serial
<1>5. OneChain /\ Continues(seq, prev) /\ retained = <<>> /\ stream # "stderr"
  BY <1>2, <1>4 DEF Honest, Busy, Down
<1>6. ~AtUnfinished
  BY <1>3, <1>5 DEF AtUnfinished, OneChain, Unfinished
<1>7. Landed(<<e>>) = Append(log, e)
  BY <1>3, <1>6 DEF Landed
<1>8. log' = Append(log, e) /\ retained' = <<>>
  BY <1>1, <1>5, <1>7 DEF Write, Written
<1>9. /\ Len(log) \in Nat /\ Len(log') = Len(log) + 1 /\ log'[Len(log) + 1] = e
      /\ DOMAIN log' = 1..Len(log) + 1 /\ DOMAIN log = 1..Len(log)
      /\ \A k \in 1..Len(log) : log'[k] = log[k]
  BY <1>3, <1>8
<1>10. OneChain'
  <2>1. ASSUME NEW k \in 1..Len(log)
        PROVE  /\ log'[k].kind = "record" /\ log'[k].seq = k - 1
               /\ log'[k].prev = IF k = 1 THEN Genesis ELSE ChainValue(log'[k - 1])
    <3>1. k = 1 \/ k - 1 \in 1..Len(log)
      BY <1>9
    <3>2. QED
      BY <1>5, <1>9, <3>1 DEF OneChain
  <2>2. /\ e.kind = "record" /\ e.seq = (Len(log) + 1) - 1
        /\ e.prev = IF Len(log) + 1 = 1 THEN Genesis ELSE ChainValue(log'[Len(log) + 1 - 1])
    <3>1. e.seq = Len(log) /\ e.prev = IF log = <<>> THEN Genesis ELSE ChainValue(log[Len(log)])
      BY <1>3, <1>5 DEF Continues
    <3>2. CASE log = <<>>
      BY <1>3, <1>9, <3>1, <3>2
    <3>3. CASE log # <<>>
      <4>1. Len(log) \in 1..Len(log) /\ Len(log) + 1 # 1 /\ Len(log) + 1 - 1 = Len(log)
        BY <1>3, <1>9, <3>3
      <4>2. QED
        BY <1>3, <1>9, <3>1, <3>3, <4>1
    <3>4. QED
      BY <3>2, <3>3
  <2>3. QED
    <3>1. \A k \in DOMAIN log' : k \in 1..Len(log) \/ k = Len(log) + 1
      BY <1>9
    <3>2. QED
      BY <1>9, <2>1, <2>2, <3>1 DEF OneChain
<1>11. \A v \in Writers : pc'[v] = "advancing" => v = w
  BY <1>2, <1>3, <1>4 DEF Busy
<1>12. log' # <<>> /\ log'[Len(log')] = e /\ pc'[w] = "advancing"
  BY <1>2, <1>3, <1>8, <1>9
<1>13. \A i \in returned : Readable(i)'
  <2>1. \A i \in returned : Readable(i)
    BY DEF Honest
  <2>2. QED
    BY <1>9, <2>1 DEF Readable
<1>14. QED
  BY <1>1, <1>2, <1>5, <1>8, <1>10, <1>11, <1>12, <1>13 DEF Honest

\* Every step without a fault keeps an honest log honest.
LEMMA HonestStep ==
  ASSUME Inv, Honest, Next
  PROVE  Honest'
<1> SUFFICES ASSUME faults' = 0 PROVE Honest'
  BY DEF Honest
<1>1. faults = 0
  <2>1. faults \in Nat /\ (faults' = faults \/ faults' = faults + 1)
    BY DEF Next, Inv, Typed, Start, StartDegraded, SupervisorGap, Rotate, Crash, Emit, Reopen,
           ReopenFails, Write, WriteFails, Advance, CrashMidWrite
  <2>2. QED
    BY <2>1
<1>2. \/ Start \/ SupervisorGap \/ Rotate \/ Crash
      \/ \E w \in Writers : Emit(w) \/ Reopen(w) \/ Write(w) \/ Advance(w)
  BY <1>1 DEF Next, StartDegraded, ReopenFails, WriteFails, CrashMidWrite
<1>3. /\ OneChain /\ retained = <<>> /\ stream # "stderr"
      /\ \A w \in Writers : pc[w] = "advancing" => log # <<>> /\ log[Len(log)] = entry[w]
      /\ ~Down /\ (\A w \in Writers : pc[w] # "advancing") => Continues(seq, prev)
      /\ \A i \in returned : Readable(i)
      /\ log \in Seq(Line) /\ pc \in [Writers -> {"down", "idle"} \cup Busy]
  BY <1>1 DEF Honest, Inv, Typed
<1>4. CASE Start
  <2>1. Continues(seq', prev')
    <3>1. CASE log = <<>>
      BY <1>3, <1>4, <3>1 DEF Start, Resumable, Continues
    <3>2. CASE log # <<>>
      <4>1. Len(log) \in DOMAIN log
        BY <1>3, <3>2
      <4>2. log[Len(log)].kind = "record" /\ log[Len(log)].seq = Len(log) - 1
        BY <1>3, <4>1 DEF OneChain
      <4>3. seq' = Len(log) - 1 + 1 /\ prev' = ChainValue(log[Len(log)])
        BY <1>4, <3>2, <4>2 DEF Start, Resumable, Chained
      <4>4. QED
        BY <1>3, <3>2, <4>3 DEF Continues
    <3>3. QED
      BY <3>1, <3>2
  <2>2. /\ log' = log /\ retained' = retained /\ returned' = returned
        /\ stream' = "open" /\ pc' = [w \in Writers |-> "idle"]
    BY <1>4 DEF Start, disk
  <2>3. QED
    BY <1>3, <2>1, <2>2 DEF Honest, OneChain, Continues, Readable
<1>5. CASE SupervisorGap \/ Rotate
  <2>1. /\ UNCHANGED <<log, retained, seq, prev, pc, entry, returned>>
        /\ stream' # "stderr"
    BY <1>3, <1>5 DEF SupervisorGap, Rotate, disk, anchor, ghosts
  <2>2. QED
    BY <1>3, <2>1 DEF Honest, OneChain, Continues, Readable, Down
<1>6. CASE Crash
  <2>1. /\ log' = log /\ retained' = <<>> /\ returned' = returned
        /\ stream' = "none" /\ pc' = [w \in Writers |-> "down"]
    BY <1>6 DEF Crash, Dies, disk, ghosts
  <2>2. QED
    BY <1>3, <2>1 DEF Honest, OneChain, Readable, Down
<1>7. ASSUME NEW w \in Writers, Emit(w) PROVE Honest'
  <2>1. /\ pc[w] = "idle" /\ lock = None /\ pc' = [pc EXCEPT ![w] = "handing"]
        /\ UNCHANGED <<log, stream, retained, seq, prev, returned>>
    BY <1>7 DEF Emit, LockFree, disk
  <2>2. \A v \in Writers : pc[v] # "advancing" /\ pc'[v] # "advancing"
    BY <1>3, <2>1, ChainAssumption DEF Inv, Serial, Busy
  <2>3. ~Down
    BY <2>1 DEF Down
  <2>4. QED
    BY <1>3, <2>1, <2>2, <2>3 DEF Honest, OneChain, Continues, Readable
<1>8. ASSUME NEW w \in Writers, Reopen(w) PROVE Honest'
  <2>1. /\ pc[w] = "handing" /\ pc' = [pc EXCEPT ![w] = "writing"] /\ stream' = "open"
        /\ UNCHANGED <<seq, prev, entry, returned>>
    BY <1>3, <1>8 DEF Reopen, anchor, ghosts
  <2>2. Landed(<<>>) = log
    BY <1>3 DEF Landed
  <2>3. log' = log /\ retained' = <<>>
    BY <1>3, <1>8, <2>2 DEF Reopen, Written, disk
  <2>4. /\ \A v \in Writers : pc'[v] = "advancing" <=> pc[v] = "advancing"
        /\ ~Down
    BY <1>3, <2>1 DEF Down
  <2>5. QED
    BY <1>3, <2>1, <2>3, <2>4 DEF Honest, OneChain, Continues, Readable
<1>9. ASSUME NEW w \in Writers, Advance(w) PROVE Honest'
  <2>1. PICK e : e = entry[w]
    OBVIOUS
  <2>2. /\ pc[w] = "advancing" /\ pc' = [pc EXCEPT ![w] = "idle"]
        /\ seq' = seq + 1 /\ prev' = ChainValue(e)
        /\ returned' = returned \/ returned' = returned \cup {e.id}
        /\ UNCHANGED <<log, stream, retained>>
    BY <1>9, <2>1 DEF Advance, Advanced, disk
  <2>3. e \in Line /\ e.seq = seq /\ e.kind = "record" /\ lock = w
    BY <2>1, <2>2 DEF Inv, Serial, Busy
  <2>4. \A v \in Writers : pc'[v] # "advancing"
    BY <1>3, <2>2, <2>3 DEF Inv, Serial, Busy
  <2>5. log # <<>> /\ log[Len(log)] = e /\ Len(log) \in DOMAIN log /\ Len(log) \in Nat
    BY <1>3, <2>1, <2>2
  <2>6. Continues(seq, prev)'
    <3>1. e.seq = Len(log) - 1
      BY <1>3, <2>5 DEF OneChain
    <3>2. e.seq + 1 = Len(log)
      BY <2>5, <3>1
    <3>3. seq' = Len(log) /\ log' = log
      BY <2>2, <2>3, <3>2
    <3>4. QED
      BY <2>2, <2>5, <3>3 DEF Continues
  <2>7. Readable(e.id)
    BY <2>3, <2>5 DEF Readable, Chained
  <2>8. QED
    BY <1>3, <2>2, <2>4, <2>6, <2>7 DEF Honest, OneChain, Continues, Readable
<1>10. QED
  BY <1>1, <1>2, <1>4, <1>5, <1>6, <1>7, <1>8, <1>9, HonestWrite

\* A log that no fault has touched verifies and holds every record, for any number
\* of threads, crashes, restarts and rotations.
THEOREM ChainHolds == Spec => []ChainIntact
<1>1. Init => Honest
  BY DEF Init, Honest, OneChain, Down
<1>2. Inv /\ Honest /\ [Next]_vars => Honest'
  <2> SUFFICES ASSUME Inv, Honest, [Next]_vars PROVE Honest'
    OBVIOUS
  <2>1. CASE UNCHANGED vars
    BY <2>1 DEF vars, Honest, OneChain, Continues, Readable, Down
  <2>2. QED
    BY <2>1, HonestStep
<1>3. Inv /\ Honest => ChainIntact
  <2> SUFFICES ASSUME Inv, Honest, faults = 0, log # <<>> PROVE Accepted(log)
    BY DEF ChainIntact, Honest
  <2>1. OneChain /\ log \in Seq(Line)
    BY DEF Honest, Inv, Typed
  <2>2. 1 \in DOMAIN log /\ \A k \in DOMAIN log : Chained(log[k])
    BY <2>1 DEF OneChain, Chained
  <2>3. PICK s : s = FirstChained(log)
    OBVIOUS
  <2>4. s \in DOMAIN log /\ \A i \in 1..s - 1 : ~Chained(log[i])
    BY <2>1, <2>2, <2>3, FirstChainedFound
  <2>5. s = 1
    BY <2>1, <2>2, <2>4
  <2>6. \A i \in 2..Len(log) : i \in DOMAIN log /\ i # 1
    BY <2>1
  <2>7. /\ log[1].seq = 0 /\ log[1].prev = Genesis
        /\ \A i \in 2..Len(log) : Chained(log[i]) /\ log[i].seq = i - 1
                                  /\ log[i].prev = ChainValue(log[i - 1])
    BY <2>1, <2>2, <2>6 DEF OneChain
  <2>8. QED
    BY <2>2, <2>3, <2>5, <2>7 DEF Accepted
<1>4. QED
  BY <1>1, <1>2, <1>3, Invariance, PTL DEF Spec
=============================================================================
