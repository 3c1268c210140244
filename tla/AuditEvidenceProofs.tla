------------------------ MODULE AuditEvidenceProofs ------------------------
(***************************************************************************)
(* Proofs about AuditEvidence, for every number of retained segments,      *)
(* records, mishaps and approvals.                                         *)
(*                                                                         *)
(* Disk: the files hold the records in the order in which they were        *)
(* written, and a name that is missing leaves room for a record.  Chain:   *)
(* what a record says of the one before it is true of the records that are *)
(* there.  Accounted: a record is on the host, lost, or copied and older   *)
(* than everything on the host.  Reading: what the verifier has read fits  *)
(* what it has still to read, though logrotate renames and prunes between. *)
(* Sound: a run that is valid has whole seams.  Publishing: what goes off  *)
(* the host was compared first and names a record that was copied.         *)
(* Honest, last: what holds besides as long as there was no mishap.        *)
(***************************************************************************)
EXTENDS AuditEvidence, FiniteSetTheorems, SequenceTheorems, NaturalsInduction,
        WellFoundedInduction, TLAPS

Record == [id : Nat \ {0}, seq : Nat, prev : Nat, epoch : Nat \ {0}]
Path == Nat \X {"plain", "gz"}
Segment == [path : Path, recs : Seq(Record)]
MaybeNat == Nat \cup {None}
ApprovedEntry == [seq : Nat, prev : Nat, epoch : MaybeNat]
Anchor == [valid : BOOLEAN, seq : MaybeNat, chain : MaybeNat, epoch : MaybeNat]
Stage == {"idle", "read", "save", "anchor", "pull", "payload", "commit"}

-----------------------------------------------------------------------------
(* The invariant *)

Types ==
  /\ Name \subseteq 0 .. rotations /\ ActiveLog \in Name
  /\ log \in [Name -> Seq(Record)]
  /\ zipped \subseteq Rotated /\ doubled \in Rotated \cup {0}
  /\ writing \in Nat \cup {None}
  /\ memory \in [seq : Nat, prev : Nat, epoch : (Nat \ {0}) \cup {None}]
  /\ rotating \in {"idle", "compress", "rename", "prune"} /\ rotations \in Nat
  /\ \A c \in checkpoints : c.epoch \in MaybeNat
  /\ approved \in [valid : BOOLEAN, resets : SUBSET Nat, heads : SUBSET ApprovedEntry]
  /\ anchor \in Anchor \cup {None}
  /\ written \in Nat /\ forgotten \subseteq Nat /\ lost \subseteq Nat /\ seen \subseteq Nat
  /\ unseen \in BOOLEAN

VerifierType ==
  verifier \in [at : Stage, todo : SUBSET Path, got : SUBSET Segment, ok : BOOLEAN,
                calm : BOOLEAN, head : {"genesis", "approved", "checkpoint", "refused"},
                epoch : MaybeNat]

RemoteType ==
  /\ remote \in [files : [DOMAIN remote.files -> SUBSET Nat], anchor : Anchor \cup {None}]
  /\ DOMAIN remote.files \subseteq 0 .. rotations

\* The files, oldest first, hold ascending records.  Every rotation took at
\* least one record.
Ascending(recs) == \A i, j \in DOMAIN recs : i < j => recs[i].id < recs[j].id
Apart(earlier, later, distance) == \A a \in earlier, b \in later : a + distance <= b

Disk ==
  /\ \A n \in Name : Ascending(log[n])
  /\ \A n \in Rotated : log[n] # <<>>
  /\ \A m, n \in Rotated : m < n => Apart(Ids(log[m]), Ids(log[n]), n - m)
  /\ \A m \in Rotated : /\ Apart(Ids(log[m]), Ids(log[ActiveLog]), rotations + 1 - m)
                        /\ Apart(Ids(log[m]), {written}, rotations - m)
  /\ \A a \in Ids(log[ActiveLog]) : a <= written
  /\ rotating \in {"compress", "rename"} => log[ActiveLog] # <<>>
  /\ rotating # "compress" => doubled = 0
  /\ \/ writing \in {None, ActiveLog}
     \/ writing = rotations /\ writing \in Rotated /\ log[ActiveLog] = <<>>

OnDisk == UNION {ToSet(log[n]) : n \in Name}
WasRead == UNION {ToSet(s.recs) : s \in verifier.got}
Known == OnDisk \cup WasRead

\* A record names the record before it.  What lies between the two was missing
\* when the server resumed.
Chain ==
  /\ \A r \in Known : /\ r.id <= written /\ r.prev < r.id /\ r.epoch <= r.id
                      /\ r.prev = Genesis => r.epoch = r.id
                      /\ r.prev # Genesis => (r.prev + 1) .. (r.id - 1) \subseteq forgotten
  /\ \A r, q \in Known : /\ r.id = q.id => r = q
                         /\ r.prev = q.id => r.epoch = q.epoch
  /\ memory.prev <= written
  /\ memory.prev = Genesis <=> memory.epoch = None
  /\ memory.prev # Genesis =>
       /\ (memory.prev + 1) .. written \subseteq forgotten
       /\ memory.epoch <= memory.prev
       /\ \A q \in Known : q.id = memory.prev => q.epoch = memory.epoch

Copies(id) == {n \in DOMAIN remote.files \ Name : id \in remote.files[n]}
OnHost(id) == \E r \in OnDisk : r.id = id
Accounted ==
  \A id \in 1 .. written :
    id \in lost \/ OnHost(id) \/ (Copies(id) # {} /\ \A r \in OnDisk : id < r.id)

\* What was read, and what is still to be read, of a run of the verifier.
Names(paths) == {p[1] : p \in paths}
SegIds(s) == Ids(s.recs)
TodoFits ==
  /\ \A p \in verifier.todo : p[1] <= rotations /\ (p[1] = ActiveLog => p[2] = "plain")
  /\ verifier.calm => \A p, q \in verifier.todo \cup {s.path : s \in verifier.got} :
                        p[1] = q[1] => p = q
  /\ writing # ActiveLog /\ writing \in Names(verifier.todo) =>
       \A s \in verifier.got : s.path[1] # ActiveLog

ArchiveFits(s) ==
  s.path[1] # ActiveLog =>
    /\ s.path[1] # writing
    /\ Apart(SegIds(s), {written}, rotations - s.path[1])
    /\ Apart(SegIds(s), Ids(log[ActiveLog]), rotations + 1 - s.path[1])
    /\ s.path[1] \in Name => s.recs = log[s.path[1]]
    /\ \A n \in Rotated : /\ n > s.path[1] => Apart(SegIds(s), Ids(log[n]), n - s.path[1])
                          /\ n < s.path[1] => Apart(Ids(log[n]), SegIds(s), s.path[1] - n)

\* When logrotate has not moved meanwhile, there is a name between an archive and
\* the active file for every rotation since.
FromActive(n) == IF verifier.calm THEN rotations + 1 - n ELSE 1
ActiveFits(s) ==
  s.path[1] = ActiveLog =>
    \A n \in Rotated \cap Names(verifier.todo) : Apart(Ids(log[n]), SegIds(s), FromActive(n))

SegmentFits(s) ==
  /\ s.recs # <<>> /\ Ascending(s.recs)
  /\ \A i \in 2 .. Len(s.recs) : Linked(s.recs[i - 1], s.recs[i])
  /\ s.path \notin verifier.todo /\ s.path[1] <= rotations
  /\ s.path[1] = ActiveLog => s.path[2] = "plain"
  /\ ArchiveFits(s) /\ ActiveFits(s)

PairFits(s, t) ==
  /\ s.path[1] = t.path[1] => s.recs = t.recs
  /\ s.path = t.path => s = t
  /\ s.path[1] # ActiveLog =>
       /\ s.path[1] < t.path[1] => Apart(SegIds(s), SegIds(t), t.path[1] - s.path[1])
       /\ t.path[1] = ActiveLog => Apart(SegIds(s), SegIds(t), FromActive(s.path[1]))

Reading ==
  /\ TodoFits
  /\ \A s \in verifier.got : SegmentFits(s)
  /\ \A s, t \in verifier.got : PairFits(s, t)

\* A valid run: the seams hold, and behind a checkpoint the window is full.
Sewn(got) ==
  /\ got # {}
  /\ \A t \in got :
       \/ t = Oldest(got)
       \/ \E s \in got : Adjacent(got, s, t) /\ Continues(s, t)
       \/ AtGenesis(t)

Sound ==
  /\ verifier.at \in {"idle", "pull", "payload", "commit"} => verifier.got = {}
  /\ verifier.at # "read" => verifier.todo = {}
  /\ verifier.at \in {"idle", "read"} => verifier.head = "genesis"
  /\ verifier.at = "anchor" /\ verifier.ok => verifier.got # {}
  /\ Accepted => Sewn(verifier.got) /\ (verifier.head = "checkpoint" => FullWindow(verifier.got))

\* An anchor that is to go, or has gone, to the other host names a record that the
\* server appended; once the segments are there, so is that record.
Named(a) == a.valid /\ a.seq \in Nat /\ a.chain \in 1 .. written
Backed(id) == id \in lost \/ \E n \in DOMAIN remote.files : id \in remote.files[n]
Publishing ==
  /\ remote.anchor # None => Named(remote.anchor) /\ Backed(remote.anchor.chain)
  /\ verifier.at \in {"pull", "payload", "commit"} => anchor \in Anchor /\ Named(anchor)
  /\ verifier.at \in {"payload", "commit"} => Publishable(remote.anchor, anchor)
  /\ verifier.at = "commit" => Backed(anchor.chain)

EvidenceInv ==
  /\ Types /\ VerifierType /\ RemoteType
  /\ Disk /\ Chain /\ Accounted /\ Reading /\ Sound /\ Publishing

-----------------------------------------------------------------------------
(* Numbers and sequences *)

NatLess == {ss \in Nat \X Nat : ss[1] < ss[2]}

\* A non-empty set of naturals has a least element.
LEMMA NatHasLeast ==
  ASSUME NEW T, T \subseteq Nat, T # {}
  PROVE  \E n \in T : \A m \in T : n <= m
<1>1. IsWellFoundedOn(NatLess, Nat)
  BY NatLessThanWellFounded, Zenon DEF OpToRel, NatLess
<1>2. PICK n \in T : \A m \in T : ~(<<m, n>> \in NatLess)
  BY <1>1, WFMin
<1>3. \A m \in T : m \in Nat /\ n \in Nat /\ ~(m < n)
  BY <1>2 DEF NatLess
<1>4. QED
  BY <1>3

\* A non-empty set of naturals with an upper bound has a greatest element.
LEMMA NatHasGreatest ==
  ASSUME NEW T, T \subseteq Nat, T # {}, NEW b \in Nat, \A m \in T : m <= b
  PROVE  \E n \in T : \A m \in T : m <= n
<1> DEFINE B == {u \in Nat : \A m \in T : m <= u}
<1>1. PICK u \in B : \A v \in B : u <= v
  <2>1. B \subseteq Nat /\ b \in B
    OBVIOUS
  <2> HIDE DEF B
  <2> QED
    BY <2>1, NatHasLeast
<1>2. CASE u \in T
  BY <1>2
<1>3. CASE u \notin T
  <2>1. \A m \in T : m \in Nat /\ u \in Nat /\ m < u
    BY <1>3
  <2>2. PICK m \in T : TRUE
    OBVIOUS
  <2>3. u - 1 \in B
    BY <2>1, <2>2
  <2> QED
    BY <1>1, <2>3
<1> QED
  BY <1>2, <1>3

\* Max and Min of the names of files.
LEMMA MaxIsGreatest ==
  ASSUME NEW T, T \subseteq Nat, T # {}, NEW b \in Nat, \A m \in T : m <= b
  PROVE  Max(T) \in T /\ \A m \in T : m <= Max(T)
<1>1. PICK n \in T : \A m \in T : m <= n
  BY NatHasGreatest
<1>2. \E x \in T : \A y \in T : x >= y
  BY <1>1
<1> QED
  BY <1>2 DEF Max

\* The oldest name of a set of files is its Min.
LEMMA MinIsLeast ==
  ASSUME NEW T, T \subseteq Nat, T # {}
  PROVE  Min(T) \in T /\ \A m \in T : Min(T) <= m
<1>1. PICK n \in T : \A m \in T : n <= m
  BY NatHasLeast
<1>2. \E x \in T : \A y \in T : x =< y
  BY <1>1
<1> QED
  BY <1>2 DEF Min

\* The ids of a file are those of its records.
LEMMA IdsOfRecords ==
  ASSUME NEW recs
  PROVE  /\ \A r \in ToSet(recs) : r.id \in Ids(recs)
         /\ \A i \in Ids(recs) : \E r \in ToSet(recs) : r.id = i
BY DEF Ids, ToSet

\* An empty file holds nothing.
LEMMA EmptyFile ==
  Ids(<<>>) = {} /\ ToSet(<<>>) = {} /\ Ascending(<<>>)
BY DEF Ids, ToSet, Ascending

\* What is in a file are records, with their ids.
LEMMA RecordsTyped ==
  ASSUME NEW recs \in Seq(Record)
  PROVE  /\ ToSet(recs) \subseteq Record /\ Ids(recs) \subseteq Nat \ {0}
         /\ \A i \in DOMAIN recs : recs[i] \in Record /\ recs[i] \in ToSet(recs)
<1>1. \A i \in DOMAIN recs : recs[i] \in Record
  OBVIOUS
<1>2. \A r \in Record : r.id \in Nat \ {0}
  BY DEF Record
<1> QED
  BY <1>1, <1>2 DEF ToSet, Ids

\* A record is appended to a file.
LEMMA Appended ==
  ASSUME NEW recs \in Seq(Record), NEW r \in Record
  PROVE  /\ Append(recs, r) \in Seq(Record) /\ Append(recs, r) # <<>>
         /\ ToSet(Append(recs, r)) = ToSet(recs) \cup {r}
         /\ Ids(Append(recs, r)) = Ids(recs) \cup {r.id}
         /\ Ascending(recs) /\ (\A a \in Ids(recs) : a < r.id) => Ascending(Append(recs, r))
<1>1. /\ Append(recs, r) \in Seq(Record) /\ Append(recs, r) # <<>>
      /\ DOMAIN Append(recs, r) = DOMAIN recs \cup {Len(recs) + 1}
      /\ \A i \in DOMAIN recs : Append(recs, r)[i] = recs[i]
      /\ Append(recs, r)[Len(recs) + 1] = r
      /\ DOMAIN recs = 1 .. Len(recs) /\ Len(recs) \in Nat
  OBVIOUS
<1>2. PICK new : new = Append(recs, r)
  OBVIOUS
<1>3. ToSet(new) = ToSet(recs) \cup {r} /\ Ids(new) = Ids(recs) \cup {r.id}
  BY <1>1, <1>2 DEF ToSet, Ids
<1>4. ASSUME Ascending(recs), \A a \in Ids(recs) : a < r.id PROVE Ascending(new)
  <2> SUFFICES ASSUME NEW i \in DOMAIN new, NEW j \in DOMAIN new, i < j
               PROVE  new[i].id < new[j].id
    BY DEF Ascending
  <2>1. i \in DOMAIN recs
    BY <1>1, <1>2
  <2>2. new[i] = recs[i] /\ recs[i].id \in Ids(recs)
    BY <2>1, <1>1, <1>2 DEF Ids
  <2>3. CASE j \in DOMAIN recs
    BY <2>1, <2>2, <2>3, <1>1, <1>2, <1>4 DEF Ascending
  <2>4. CASE j = Len(recs) + 1
    BY <2>2, <2>4, <1>1, <1>2, <1>4
  <2> QED
    BY <2>3, <2>4, <1>1, <1>2
<1> QED
  BY <1>1, <1>2, <1>3, <1>4

\* The last record of a file is dropped.
LEMMA Dropped ==
  ASSUME NEW recs \in Seq(Record), recs # <<>>
  PROVE  /\ Front(recs) \in Seq(Record) /\ Last(recs) \in Record
         /\ ToSet(recs) = ToSet(Front(recs)) \cup {Last(recs)}
         /\ Ids(recs) = Ids(Front(recs)) \cup {Last(recs).id}
         /\ Ascending(recs) => /\ Ascending(Front(recs))
                               /\ \A a \in Ids(recs) : a <= Last(recs).id
<1>1. PICK f : f = Front(recs)
  OBVIOUS
<1>2. /\ f \in Seq(Record) /\ Len(recs) \in Nat \ {0} /\ DOMAIN f = 1 .. Len(recs) - 1
      /\ DOMAIN recs = 1 .. Len(recs) /\ \A i \in 1 .. Len(recs) - 1 : f[i] = recs[i]
  BY <1>1 DEF Front
<1>3. Last(recs) = recs[Len(recs)] /\ Last(recs) \in Record
  BY <1>2 DEF Last
<1>4. ToSet(recs) = ToSet(f) \cup {Last(recs)} /\ Ids(recs) = Ids(f) \cup {Last(recs).id}
  BY <1>2, <1>3 DEF ToSet, Ids
<1>5. ASSUME Ascending(recs) PROVE Ascending(f) /\ \A a \in Ids(recs) : a <= Last(recs).id
  <2>1. Ascending(f)
    BY <1>2, <1>5 DEF Ascending
  <2>2. ASSUME NEW i \in DOMAIN recs PROVE recs[i].id <= recs[Len(recs)].id
    <3>1. Len(recs) \in DOMAIN recs /\ recs[i] \in Record /\ recs[Len(recs)] \in Record
      BY <1>2
    <3>3. recs[i].id \in Nat /\ recs[Len(recs)].id \in Nat
      BY <3>1 DEF Record
    <3>2. i = Len(recs) \/ i < Len(recs)
      BY <1>2
    <3> QED
      BY <3>1, <3>2, <3>3, <1>5 DEF Ascending
  <2> QED
    BY <2>1, <2>2, <1>3 DEF Ids
<1> QED
  BY <1>1, <1>2, <1>3, <1>4, <1>5

-----------------------------------------------------------------------------
(* The order of the segments.  A key for each, in which `Earlier` is less.  *)

Key(s) == 2 * First(s).id + (IF s.path[2] = "gz" THEN 1 ELSE 0)
Sorted(G) ==
  /\ G \subseteq Segment
  /\ \A s \in G : s.recs # <<>> /\ Ascending(s.recs)
  /\ \A s, t \in G : Key(s) = Key(t) => s = t

\* The first and the last record of a segment are among its records.
LEMMA SegmentFacts ==
  ASSUME NEW s \in Segment, s.recs # <<>>
  PROVE  /\ First(s) \in Record /\ End(s) \in Record
         /\ First(s) \in ToSet(s.recs) /\ End(s) \in ToSet(s.recs)
         /\ First(s).id \in SegIds(s) /\ End(s).id \in SegIds(s)
         /\ First(s).id \in Nat /\ End(s).id \in Nat
         /\ s.path[1] \in Nat /\ s.path[2] \in {"plain", "gz"}
         /\ SegIds(s) \subseteq Nat \ {0} /\ Key(s) \in Nat
<1>1. s.recs \in Seq(Record) /\ s.path \in Path
  BY DEF Segment
<1>2. /\ 1 \in DOMAIN s.recs /\ Len(s.recs) \in DOMAIN s.recs
  BY <1>1
<1>3. First(s) \in Record /\ End(s) \in Record
  BY <1>1, <1>2 DEF First, End
<1>4. First(s) \in ToSet(s.recs) /\ End(s) \in ToSet(s.recs)
  BY <1>2 DEF ToSet, First, End
<1>5. First(s).id \in SegIds(s) /\ End(s).id \in SegIds(s)
  BY <1>4, IdsOfRecords DEF SegIds
<1>6. SegIds(s) \subseteq Nat \ {0}
  BY <1>1, RecordsTyped DEF SegIds
<1>7. s.path[1] \in Nat /\ s.path[2] \in {"plain", "gz"}
  BY <1>1 DEF Path
<1> QED
  BY <1>3, <1>4, <1>5, <1>6, <1>7 DEF Key

\* The first and the last record of a segment have its least and greatest id.
LEMMA SegmentBounds ==
  ASSUME NEW s \in Segment, s.recs # <<>>, Ascending(s.recs), NEW a \in SegIds(s)
  PROVE  First(s).id <= a /\ a <= End(s).id
<1>1. s.recs \in Seq(Record)
  BY DEF Segment
<1>2. PICK i \in DOMAIN s.recs : a = s.recs[i].id
  BY DEF SegIds, Ids
<1>3. /\ s.recs[i] \in Record /\ s.recs[1] \in Record /\ s.recs[Len(s.recs)] \in Record
      /\ 1 \in DOMAIN s.recs /\ Len(s.recs) \in DOMAIN s.recs
      /\ 1 = i \/ 1 < i
      /\ i = Len(s.recs) \/ i < Len(s.recs)
  BY <1>1
<1>4. s.recs[i].id \in Nat /\ s.recs[1].id \in Nat /\ s.recs[Len(s.recs)].id \in Nat
  BY <1>3 DEF Record
<1> QED
  BY <1>2, <1>3, <1>4 DEF Ascending, First, End

\* _order_key: the order of the segments is that of the numbers Key.
LEMMA EarlierIsLess ==
  ASSUME NEW s \in Segment, s.recs # <<>>, NEW t \in Segment, t.recs # <<>>
  PROVE  /\ Earlier(s, t) <=> Key(s) < Key(t)
         /\ Key(s) = Key(t) => First(s).id = First(t).id /\ s.path[2] = t.path[2]
<1>1. /\ First(s).id \in Nat /\ First(t).id \in Nat
      /\ s.path[2] \in {"plain", "gz"} /\ t.path[2] \in {"plain", "gz"}
  BY SegmentFacts
<1>2. PICK a, b : a = First(s).id /\ b = First(t).id
  OBVIOUS
<1>3. PICK i, j : /\ i = (IF s.path[2] = "gz" THEN 1 ELSE 0)
                  /\ j = (IF t.path[2] = "gz" THEN 1 ELSE 0)
  OBVIOUS
<1>4. /\ i \in {0, 1} /\ j \in {0, 1}
      /\ s.path[2] = "plain" <=> i = 0
      /\ t.path[2] = "gz" <=> j = 1
      /\ i = j => s.path[2] = t.path[2]
  BY <1>1, <1>3
<1>5. Key(s) = 2 * a + i /\ Key(t) = 2 * b + j
  BY <1>2, <1>3 DEF Key
<1>6. Earlier(s, t) <=> a < b \/ (a = b /\ i = 0 /\ j = 1)
  BY <1>2, <1>4 DEF Earlier
<1>7. ASSUME NEW m \in Nat, NEW n \in Nat, NEW x \in {0, 1}, NEW y \in {0, 1}
      PROVE  /\ 2 * m + x < 2 * n + y <=> m < n \/ (m = n /\ x = 0 /\ y = 1)
             /\ 2 * m + x = 2 * n + y => m = n /\ x = y
  OBVIOUS
<1> QED
  BY <1>1, <1>2, <1>4, <1>5, <1>6, <1>7

\* A non-empty set of segments of different keys has an oldest one.
LEMMA OldestFound ==
  ASSUME NEW G, Sorted(G), G # {}
  PROVE  Oldest(G) \in G /\ \A t \in G : Key(Oldest(G)) <= Key(t)
<1>1. \A s \in G : s \in Segment /\ s.recs # <<>> /\ Key(s) \in Nat
  BY SegmentFacts DEF Sorted
<1>2. PICK n \in {Key(s) : s \in G} : \A m \in {Key(s) : s \in G} : n <= m
  <2> DEFINE T == {Key(s) : s \in G}
  <2>1. T \subseteq Nat /\ T # {}
    BY <1>1
  <2> HIDE DEF T
  <2>2. \E n \in T : \A m \in T : n <= m
    BY <2>1, NatHasLeast
  <2> QED
    BY <2>2 DEF T
<1>3. PICK s \in G : \A t \in G : Key(s) <= Key(t)
  BY <1>2
<1>4. \A t \in G \ {s} : Earlier(s, t)
  <2> TAKE t \in G \ {s}
  <2>1. Key(s) <= Key(t) /\ Key(s) # Key(t)
    BY <1>3 DEF Sorted
  <2> QED
    BY <2>1, <1>1, EarlierIsLess
<1>5. Oldest(G) \in G /\ \A t \in G \ {Oldest(G)} : Earlier(Oldest(G), t)
  BY <1>4 DEF Oldest
<1>6. \A t \in G \ {Oldest(G)} : Key(Oldest(G)) < Key(t)
  BY <1>1, <1>5, EarlierIsLess
<1> QED
  BY <1>1, <1>5, <1>6

\* It has a newest one, when the keys have a bound.
LEMMA NewestFound ==
  ASSUME NEW G, Sorted(G), G # {}, NEW b \in Nat, \A t \in G : Key(t) <= b
  PROVE  Newest(G) \in G /\ \A t \in G : Key(t) <= Key(Newest(G))
<1>1. \A s \in G : s \in Segment /\ s.recs # <<>> /\ Key(s) \in Nat
  BY SegmentFacts DEF Sorted
<1>2. PICK n \in {Key(s) : s \in G} : \A m \in {Key(s) : s \in G} : m <= n
  <2> DEFINE T == {Key(s) : s \in G}
  <2>1. T \subseteq Nat /\ T # {} /\ \A m \in T : m <= b
    BY <1>1
  <2> HIDE DEF T
  <2>2. \E n \in T : \A m \in T : m <= n
    BY <2>1, NatHasGreatest
  <2> QED
    BY <2>2 DEF T
<1>3. PICK s \in G : \A t \in G : Key(t) <= Key(s)
  BY <1>2
<1>4. \A t \in G \ {s} : Earlier(t, s)
  <2> TAKE t \in G \ {s}
  <2>1. Key(t) <= Key(s) /\ Key(s) # Key(t)
    BY <1>3 DEF Sorted
  <2> QED
    BY <2>1, <1>1, EarlierIsLess
<1>5. Newest(G) \in G /\ \A t \in G \ {Newest(G)} : Earlier(t, Newest(G))
  BY <1>4 DEF Newest
<1>6. \A t \in G \ {Newest(G)} : Key(t) < Key(Newest(G))
  BY <1>1, <1>5, EarlierIsLess
<1> QED
  BY <1>1, <1>5, <1>6

\* Two segments with one key are one: their names are the same, since files of
\* different names hold different records.
LEMMA ReadSorted ==
  ASSUME Types, VerifierType, Chain, Reading
  PROVE  /\ Sorted(verifier.got)
         /\ \A s \in verifier.got : Key(s) <= 2 * written + 1
         /\ 2 * written + 1 \in Nat
<1>1. \A s \in verifier.got :
        /\ s \in Segment /\ s.recs # <<>> /\ Ascending(s.recs) /\ s.path \in Path
        /\ s.path[1] \in Nat /\ First(s).id \in SegIds(s) /\ First(s).id \in Nat
        /\ First(s) \in WasRead /\ s.path = <<s.path[1], s.path[2]>>
        /\ s.path[1] <= rotations /\ rotations \in Nat
  <2> TAKE s \in verifier.got
  <2>1. s \in Segment /\ s.recs # <<>> /\ Ascending(s.recs) /\ s.path[1] <= rotations
    BY DEF VerifierType, Reading, SegmentFits
  <2>2. s.path \in Path
    BY <2>1 DEF Segment
  <2>3. s.path = <<s.path[1], s.path[2]>>
    BY <2>2 DEF Path
  <2>4. First(s) \in ToSet(s.recs) /\ First(s).id \in SegIds(s) /\ First(s).id \in Nat /\ s.path[1] \in Nat
    BY <2>1, SegmentFacts
  <2> QED
    BY <2>1, <2>2, <2>3, <2>4 DEF WasRead, Types
<1>2. ASSUME NEW s \in verifier.got, NEW t \in verifier.got, Key(s) = Key(t) PROVE s = t
  <2>1. First(s).id = First(t).id /\ s.path[2] = t.path[2]
    BY <1>1, <1>2, EarlierIsLess
  <2>2. ASSUME NEW u \in verifier.got, NEW v \in verifier.got, First(u).id = First(v).id
        PROVE  ~(u.path[1] # ActiveLog /\ u.path[1] < v.path[1])
    <3> SUFFICES ASSUME u.path[1] # ActiveLog, u.path[1] < v.path[1] PROVE FALSE
      OBVIOUS
    <3>1. Apart(SegIds(u), SegIds(v), v.path[1] - u.path[1])
      BY DEF Reading, PairFits
    <3> QED
      BY <3>1, <1>1, <2>2 DEF Apart
  <2>3. ASSUME NEW u \in verifier.got, NEW v \in verifier.got, First(u).id = First(v).id
        PROVE  ~(u.path[1] # ActiveLog /\ v.path[1] = ActiveLog)
    <3> SUFFICES ASSUME u.path[1] # ActiveLog, v.path[1] = ActiveLog PROVE FALSE
      OBVIOUS
    <3>1. Apart(SegIds(u), SegIds(v), FromActive(u.path[1]))
      BY DEF Reading, PairFits
    <3> QED
      BY <3>1, <1>1, <2>3 DEF Apart, FromActive
  <2>4. s.path[1] = t.path[1]
    BY <1>1, <2>1, <2>2, <2>3 DEF ActiveLog
  <2>5. s.path = t.path
    BY <1>1, <2>1, <2>4
  <2> QED
    BY <2>5 DEF Reading, PairFits
<1>3. ASSUME NEW s \in verifier.got PROVE Key(s) <= 2 * written + 1
  <2>1. First(s).id <= written
    BY <1>1 DEF Chain, Known
  <2> QED
    BY <1>1, <2>1 DEF Key, Types
<1> QED
  BY <1>1, <1>2, <1>3 DEF Sorted, Types

\* latest_epoch is the id of a record or null.
LEMMA EpochTyped ==
  ASSUME Types, VerifierType, Chain, Reading, NEW s \in verifier.got
  PROVE  /\ Oldest(verifier.got) \in verifier.got /\ Newest(verifier.got) \in verifier.got
         /\ Epoch(verifier.got, s) \in MaybeNat
<1> DEFINE G == verifier.got
           resets == {t \in G : AtGenesis(t) /\ ~Earlier(s, t)}
<1>1. /\ Sorted(G) /\ \A t \in G : Key(t) <= 2 * written + 1
      /\ 2 * written + 1 \in Nat
  BY ReadSorted
<1>2. Oldest(G) \in G /\ Newest(G) \in G
  BY <1>1, OldestFound, NewestFound
<1>3. CASE resets # {}
  <2>1. Sorted(resets) /\ \A t \in resets : Key(t) <= 2 * written + 1
    BY <1>1 DEF Sorted
  <2>2. Newest(resets) \in resets
    <3> HIDE DEF resets
    <3> QED
      BY <1>1, <1>3, <2>1, NewestFound
  <2>3. Newest(resets) \in Segment /\ Newest(resets).recs # <<>>
    BY <2>1, <2>2 DEF Sorted
  <2>4. First(Newest(resets)).id \in Nat
    BY <2>3, SegmentFacts
  <2> QED
    BY <1>2, <1>3, <2>4 DEF Epoch, MaybeNat
<1>4. CASE resets = {} /\ HeadOf(G) = "approved"
  <2>1. ApprovedHead(Oldest(G)) # {}
    BY <1>4 DEF HeadOf
  <2>2. ApprovedHead(Oldest(G)) \subseteq ApprovedEntry
    BY DEF ApprovedHead, Ledger, Types
  <2>3. (CHOOSE h \in ApprovedHead(Oldest(G)) : TRUE) \in ApprovedEntry
    BY <2>1, <2>2
  <2>4. (CHOOSE h \in ApprovedHead(Oldest(G)) : TRUE).epoch \in MaybeNat
    BY <2>3 DEF ApprovedEntry
  <2> QED
    BY <1>2, <1>4, <2>4 DEF Epoch
<1>5. CASE resets = {} /\ HeadOf(G) = "checkpoint"
  <2>1. Before(Oldest(G)) # {}
    BY <1>5 DEF HeadOf
  <2>2. Before(Oldest(G)) \subseteq checkpoints
    BY DEF Before
  <2>3. (CHOOSE c \in Before(Oldest(G)) : TRUE) \in checkpoints
    BY <2>1, <2>2
  <2>4. (CHOOSE c \in Before(Oldest(G)) : TRUE).epoch \in MaybeNat
    BY <2>3 DEF Types
  <2> QED
    BY <1>2, <1>5, <2>4 DEF Epoch
<1>6. CASE resets = {} /\ HeadOf(G) # "approved" /\ HeadOf(G) # "checkpoint"
  BY <1>2, <1>6 DEF Epoch, MaybeNat
<1> QED
  BY <1>3, <1>4, <1>5, <1>6

-----------------------------------------------------------------------------
(* What the steps do to the files *)

NextRecord ==
  [id |-> written + 1, seq |-> memory.seq, prev |-> memory.prev,
   epoch |-> IF memory.epoch = None THEN written + 1 ELSE memory.epoch]

\* The file that the server writes to is there, also after a rename.
LEMMA WritingNamed ==
  ASSUME Types, Disk, writing # None
  PROVE  writing \in Name /\ log[writing] \in Seq(Record)
<1>1. writing = ActiveLog \/ writing \in Rotated
  BY DEF Disk
<1> QED
  BY <1>1 DEF Types, Rotated

\* The record that is written is newer than all others and its file is the
\* active one, or the newest archive while the active file is still empty.
LEMMA AppendStep ==
  ASSUME Types, Disk, AppendEnds
  PROVE  /\ NextRecord \in Record /\ NextRecord.id = written + 1 /\ written' = written + 1
         /\ writing \in Name /\ Name' = Name /\ log' \in [Name' -> Seq(Record)]
         /\ \A n \in Name : n # writing => log'[n] = log[n]
         /\ log'[writing] = Append(log[writing], NextRecord) /\ log'[writing] # <<>>
         /\ Ids(log'[writing]) = Ids(log[writing]) \cup {written + 1}
         /\ OnDisk' = OnDisk \cup {NextRecord}
         /\ memory' = [seq |-> NextRecord.seq + 1, prev |-> written + 1, epoch |-> NextRecord.epoch]
         /\ memory.epoch = None => NextRecord.epoch = written + 1
         /\ memory.epoch # None => NextRecord.epoch = memory.epoch
         /\ NextRecord.prev = memory.prev
<1>1. /\ writing \in Name /\ log[writing] \in Seq(Record)
  BY WritingNamed DEF AppendEnds
<1>2. NextRecord \in Record
  <2>1. written + 1 \in Nat \ {0} /\ memory.seq \in Nat /\ memory.prev \in Nat
    BY DEF Types
  <2>2. memory.epoch # None => memory.epoch \in Nat \ {0}
    BY DEF Types
  <2> QED
    BY <2>1, <2>2 DEF NextRecord, Record
<1>3. log' = [log EXCEPT ![writing] = Append(log[writing], NextRecord)]
  BY DEF AppendEnds, NextRecord
<1>4. /\ Append(log[writing], NextRecord) \in Seq(Record)
      /\ Append(log[writing], NextRecord) # <<>>
      /\ ToSet(Append(log[writing], NextRecord)) = ToSet(log[writing]) \cup {NextRecord}
      /\ Ids(Append(log[writing], NextRecord)) = Ids(log[writing]) \cup {NextRecord.id}
  BY <1>1, <1>2, Appended
<1>5. NextRecord.id = written + 1 /\ NextRecord.prev = memory.prev
  BY DEF NextRecord
<1>6. PICK new : new = Append(log[writing], NextRecord)
  OBVIOUS
<1>7. log \in [Name -> Seq(Record)]
  BY DEF Types
<1>8. /\ Name' = Name /\ log' \in [Name -> Seq(Record)]
      /\ \A n \in Name : n # writing => log'[n] = log[n]
      /\ log'[writing] = new
  BY <1>1, <1>3, <1>4, <1>6, <1>7 DEF Name
<1>9. OnDisk' = OnDisk \cup {NextRecord}
  <2>1. OnDisk' = UNION {ToSet(log'[n]) : n \in Name}
    BY <1>8 DEF OnDisk
  <2>2. ToSet(log'[writing]) = ToSet(log[writing]) \cup {NextRecord}
    BY <1>4, <1>6, <1>8
  <2>3. \A n \in Name : n # writing => ToSet(log'[n]) = ToSet(log[n])
    BY <1>8
  <2> QED
    BY <2>1, <2>2, <2>3, <1>1 DEF OnDisk
<1>10. /\ written' = written + 1
       /\ memory' = [seq |-> NextRecord.seq + 1, prev |-> written + 1, epoch |-> NextRecord.epoch]
  BY DEF AppendEnds, NextRecord
<1>11. /\ memory.epoch = None => NextRecord.epoch = written + 1
       /\ memory.epoch # None => NextRecord.epoch = memory.epoch
  BY DEF NextRecord
<1> QED
  BY <1>1, <1>2, <1>4, <1>5, <1>6, <1>8, <1>9, <1>10, <1>11

\* The active file becomes the newest archive, and a new one is empty.
LEMMA RenameStep ==
  ASSUME Types, Disk, Rename
  PROVE  LET R == rotations + 1 IN
         /\ rotations' = R /\ R \in Nat \ {0} /\ R \notin Name
         /\ Name' = Name \cup {R} /\ log' \in [Name' -> Seq(Record)]
         /\ log'[R] = log[ActiveLog] /\ log'[ActiveLog] = <<>> /\ log[ActiveLog] # <<>>
         /\ \A n \in Rotated : log'[n] = log[n] /\ n # R
         /\ Rotated' = Rotated \cup {R} /\ OnDisk' = OnDisk
         /\ \/ writing = None /\ writing' = None
            \/ writing = ActiveLog /\ writing' = R
<1> DEFINE R == rotations + 1
<1>1. R \in Nat \ {0} /\ R \notin Name /\ ActiveLog \in Name /\ R # ActiveLog
  BY DEF Types, ActiveLog
<1>2. log' = [n \in Name \cup {R} |-> IF n = R THEN log[ActiveLog]
                                     ELSE IF n = ActiveLog THEN <<>> ELSE log[n]]
  BY DEF Rename
<1>3. /\ Name' = Name \cup {R} /\ Rotated' = Rotated \cup {R}
      /\ log'[R] = log[ActiveLog] /\ log'[ActiveLog] = <<>>
      /\ \A n \in Rotated : log'[n] = log[n] /\ n # R
  BY <1>1, <1>2 DEF Rotated, Name
<1>4. log \in [Name -> Seq(Record)] /\ <<>> \in Seq(Record)
  BY DEF Types
<1>5. log' \in [Name' -> Seq(Record)]
  BY <1>1, <1>2, <1>3, <1>4
<1>6. OnDisk' = OnDisk
  <2>1. OnDisk' = UNION {ToSet(log'[n]) : n \in Name \cup {R}}
    BY <1>3 DEF OnDisk
  <2>2. ToSet(log'[ActiveLog]) = {} /\ ToSet(log'[R]) = ToSet(log[ActiveLog])
    BY <1>3, EmptyFile
  <2>3. \A n \in Rotated : ToSet(log'[n]) = ToSet(log[n])
    BY <1>3
  <2>4. Name = Rotated \cup {ActiveLog}
    BY <1>1 DEF Rotated
  <2>5. ASSUME NEW r PROVE r \in OnDisk' <=> r \in OnDisk
    BY <2>1, <2>2, <2>3, <2>4 DEF OnDisk
  <2> QED
    BY <2>5
<1>7. log[ActiveLog] # <<>>
  BY DEF Rename, Disk
<1>8. writing = None \/ writing = ActiveLog
  BY <1>7 DEF Disk
<1>9. \/ writing = None /\ writing' = None
      \/ writing = ActiveLog /\ writing' = R
  BY <1>8, EvidenceAssumption DEF Rename, ActiveLog
<1>10. rotations' = R
  BY DEF Rename
<1> QED
  BY <1>1, <1>3, <1>5, <1>6, <1>7, <1>9, <1>10

\* Some archives are removed and the others stay as they are.
LEMMA RemoveStep ==
  ASSUME Types, NEW X, X \subseteq Rotated, log' = [n \in Name \ X |-> log[n]]
  PROVE  /\ Name' = Name \ X /\ Rotated' = Rotated \ X /\ ActiveLog \in Name'
         /\ log' \in [Name' -> Seq(Record)]
         /\ \A n \in Name' : log'[n] = log[n]
         /\ OnDisk' \subseteq OnDisk
<1>1. /\ Name' = Name \ X /\ Rotated' = Rotated \ X
      /\ \A n \in Name' : log'[n] = log[n]
  BY DEF Name, Rotated
<1>2. ActiveLog \in Name'
  BY <1>1 DEF Types, Rotated
<1>3. log \in [Name -> Seq(Record)]
  BY DEF Types
<1>4. log' \in [Name' -> Seq(Record)]
  BY <1>1, <1>3
<1>5. OnDisk' \subseteq OnDisk
  BY <1>1 DEF OnDisk
<1> QED
  BY <1>1, <1>2, <1>4, <1>5

\* The archive that is pruned is the oldest and not the newest.
LEMMA PruneStep ==
  ASSUME Types, Disk, Prune
  PROVE  \E X \in SUBSET Rotated :
           /\ log' = [n \in Name \ X |-> log[n]]
           /\ \A g \in X : /\ \A n \in Rotated \ X : g < n
                           /\ g < rotations /\ g \in Nat /\ g # writing
           /\ zipped' = zipped \ X /\ doubled = 0 /\ doubled' = 0
           /\ lost' = lost \cup UNION {Ids(log[n]) \ Copied(n) : n \in X}
           /\ rotating' = "idle" /\ verifier' = Disturbed /\ writing' = writing
           /\ unseen' = (unseen \/ \E n \in X : log[n] # <<>> /\ Last(log[n]).id \notin seen)
           /\ X # {} => X = {Min(Rotated)} /\ Cardinality(Rotated) > RetainSegments
<1> DEFINE X == IF Cardinality(Rotated) > RetainSegments THEN {Min(Rotated)} ELSE {}
<1>1. /\ log' = [n \in Name \ X |-> log[n]]
      /\ zipped' = zipped \ X /\ doubled' = doubled
      /\ lost' = lost \cup UNION {Ids(log[n]) \ Copied(n) : n \in X}
      /\ rotating = "prune" /\ rotating' = "idle" /\ verifier' = Disturbed /\ writing' = writing
      /\ unseen' = (unseen \/ \E n \in X : log[n] # <<>> /\ Last(log[n]).id \notin seen)
  BY DEF Prune, Rotating
<1>2. doubled = 0
  BY <1>1 DEF Disk
<1>3. Rotated \subseteq 1 .. rotations /\ rotations \in Nat
  BY DEF Types, Rotated, ActiveLog
<1>4. CASE Cardinality(Rotated) > RetainSegments
  <2>1. Rotated # {}
    BY <1>4, FS_EmptySet, EvidenceAssumption
  <2>2. Rotated \subseteq Nat
    BY <1>3
  <2>3. Min(Rotated) \in Rotated /\ \A m \in Rotated : Min(Rotated) <= m
    BY <2>1, <2>2, MinIsLeast
  <2>4. Min(Rotated) # rotations
    <3> SUFFICES ASSUME Min(Rotated) = rotations PROVE FALSE
      OBVIOUS
    <3>1. \A n \in Rotated : n \in 1 .. rotations /\ rotations <= n
      BY <2>3, <1>3
    <3>3. \A n \in Rotated : n = rotations
      BY <3>1, <1>3
    <3>4. Rotated = {rotations}
      BY <3>3, <2>1
    <3>2. Cardinality(Rotated) = 1
      BY <3>4, FS_Singleton
    <3> QED
      BY <3>2, <1>4, EvidenceAssumption
  <2>5. X = {Min(Rotated)}
    BY <1>4
  <2>6. Min(Rotated) # writing
    <3>1. writing \in {None, ActiveLog, rotations}
      BY DEF Disk
    <3>2. Min(Rotated) \in 1 .. rotations
      BY <2>3, <1>3
    <3> QED
      BY <3>1, <3>2, <2>4, EvidenceAssumption DEF ActiveLog
  <2>7. PICK g : g = Min(Rotated)
    OBVIOUS
  <2>8. /\ g \in Rotated /\ g \in 1 .. rotations /\ g # rotations /\ g # writing
        /\ \A m \in Rotated \ {g} : m \in 1 .. rotations /\ g <= m /\ m # g
    BY <2>3, <2>4, <2>6, <2>7, <1>3
  <2>9. g < rotations /\ g \in Nat /\ \A m \in Rotated \ {g} : g < m
    BY <2>8, <1>3
  <2>10. X = {g}
    BY <2>5, <2>7
  <2> HIDE DEF X
  <2> QED
    BY <1>1, <1>2, <1>4, <2>5, <2>8, <2>9, <2>10
<1>5. CASE ~(Cardinality(Rotated) > RetainSegments)
  <2>1. X = {}
    BY <1>5
  <2> QED
    BY <1>1, <1>2, <2>1
<1> QED
  BY <1>4, <1>5

\* A crash takes the last record of the active file, which counts as lost.
LEMMA CrashStep ==
  ASSUME Types, Disk, HostCrash
  PROVE  /\ Name' = Name /\ log' \in [Name' -> Seq(Record)]
         /\ \A n \in Rotated : log'[n] = log[n]
         /\ Ids(log'[ActiveLog]) \subseteq Ids(log[ActiveLog]) /\ Ascending(log'[ActiveLog])
         /\ OnDisk' \subseteq OnDisk
         /\ \A r \in OnDisk : r \in OnDisk' \/ r.id \in lost'
<1>1. log[ActiveLog] # <<>> /\ log[ActiveLog] \in Seq(Record) /\ ActiveLog \in Name
  BY DEF HostCrash, Types
<1>2. PICK f : f = Front(log[ActiveLog])
  OBVIOUS
<1>3. /\ log' = [log EXCEPT ![ActiveLog] = f]
      /\ lost' = lost \cup {Last(log[ActiveLog]).id}
  BY <1>2 DEF HostCrash
<1>4. /\ f \in Seq(Record) /\ Ascending(f)
      /\ ToSet(log[ActiveLog]) = ToSet(f) \cup {Last(log[ActiveLog])}
      /\ Ids(f) \subseteq Ids(log[ActiveLog])
  BY <1>1, <1>2, Dropped DEF Disk
<1>5. log \in [Name -> Seq(Record)]
  BY DEF Types
<1>6. /\ Name' = Name /\ log' \in [Name' -> Seq(Record)]
      /\ log'[ActiveLog] = f /\ \A n \in Rotated : log'[n] = log[n]
  BY <1>1, <1>3, <1>4, <1>5 DEF Name, Rotated
<1>7. Name = Rotated \cup {ActiveLog}
  BY <1>1 DEF Rotated
<1>8. OnDisk' = UNION {ToSet(log'[n]) : n \in Name}
  BY <1>6 DEF OnDisk
<1>9. ASSUME NEW r PROVE r \in OnDisk' <=> r \in ToSet(f) \/ \E n \in Rotated : r \in ToSet(log[n])
  BY <1>6, <1>7, <1>8
<1>10. ASSUME NEW r
       PROVE r \in OnDisk <=> \/ r \in ToSet(f) \/ r = Last(log[ActiveLog])
                              \/ \E n \in Rotated : r \in ToSet(log[n])
  BY <1>4, <1>7 DEF OnDisk
<1>11. OnDisk' \subseteq OnDisk /\ \A r \in OnDisk : r \in OnDisk' \/ r.id \in lost'
  BY <1>3, <1>9, <1>10
<1> QED
  BY <1>4, <1>6, <1>11

\* A server that resumes continues the newest record that is on the disk.
Ordered(disk, newest) ==
  /\ disk \in [DOMAIN disk -> Seq(Record)] /\ ActiveLog \in DOMAIN disk
  /\ DOMAIN disk \subseteq 0 .. newest /\ newest \in Nat
  /\ \A n \in DOMAIN disk : Ascending(disk[n])
  /\ \A n \in DOMAIN disk \ {ActiveLog} : disk[n] # <<>>
  /\ \A m, n \in DOMAIN disk \ {ActiveLog} : m < n => Apart(Ids(disk[m]), Ids(disk[n]), n - m)
  /\ \A m \in DOMAIN disk \ {ActiveLog} : Apart(Ids(disk[m]), Ids(disk[ActiveLog]), newest + 1 - m)

\* A restarted server resumes behind the newest record there is, or at genesis.
LEMMA ResumedStep ==
  ASSUME NEW disk, NEW newest, Ordered(disk, newest)
  PROVE  LET all == UNION {ToSet(disk[n]) : n \in DOMAIN disk} IN
         \/ Resumed(disk) = Unchained /\ all = {}
         \/ \E l \in all : /\ Resumed(disk) = [seq |-> l.seq + 1, prev |-> l.id, epoch |-> l.epoch]
                           /\ l \in Record /\ \A r \in all : r.id <= l.id
<1> DEFINE archives == DOMAIN disk \ {ActiveLog}
           all == UNION {ToSet(disk[n]) : n \in DOMAIN disk}
<1>1. archives \subseteq 1 .. newest /\ newest \in Nat
  BY DEF Ordered, ActiveLog
<1>2. \A n \in DOMAIN disk : disk[n] \in Seq(Record) /\ Ids(disk[n]) \subseteq Nat
  BY RecordsTyped DEF Ordered
<1>3. ASSUME NEW n \in DOMAIN disk, disk[n] # <<>>
      PROVE  /\ Last(disk[n]) \in all /\ Last(disk[n]) \in Record
             /\ Last(disk[n]).id \in Ids(disk[n])
             /\ \A r \in ToSet(disk[n]) : r.id <= Last(disk[n]).id
  <2>1. /\ Last(disk[n]) \in Record
        /\ ToSet(disk[n]) = ToSet(Front(disk[n])) \cup {Last(disk[n])}
        /\ \A a \in Ids(disk[n]) : a <= Last(disk[n]).id
    BY <1>2, <1>3, Dropped DEF Ordered
  <2>2. \A r \in ToSet(disk[n]) : r.id \in Ids(disk[n])
    BY IdsOfRecords
  <2> QED
    BY <2>1, <2>2
<1>4. CASE disk[ActiveLog] # <<>>
  <2>1. PICK l : l = Last(disk[ActiveLog])
    OBVIOUS
  <2>2. /\ l \in all /\ l \in Record /\ l.id \in Ids(disk[ActiveLog])
        /\ \A r \in ToSet(disk[ActiveLog]) : r.id <= l.id
    BY <1>3, <1>4, <2>1 DEF Ordered
  <2>3. Resumed(disk) = [seq |-> l.seq + 1, prev |-> l.id, epoch |-> l.epoch]
    BY <1>4, <2>1 DEF Resumed
  <2>4. ASSUME NEW n \in archives, NEW r \in ToSet(disk[n]) PROVE r.id <= l.id
    <3>1. Apart(Ids(disk[n]), Ids(disk[ActiveLog]), newest + 1 - n)
      BY DEF Ordered
    <3>2. r.id \in Ids(disk[n]) /\ r.id \in Nat /\ l.id \in Nat
      BY <1>2, <2>2, IdsOfRecords DEF Ordered
    <3> QED
      BY <3>1, <3>2, <2>2, <1>1 DEF Apart
  <2> QED
    BY <2>2, <2>3, <2>4
<1>5. CASE disk[ActiveLog] = <<>> /\ archives = {}
  <2>1. Resumed(disk) = Unchained
    BY <1>5 DEF Resumed
  <2>2. DOMAIN disk = {ActiveLog}
    BY <1>5 DEF Ordered
  <2>3. all = {}
    BY <2>2, <1>5, EmptyFile
  <2> QED
    BY <2>1, <2>3
<1>6. CASE disk[ActiveLog] = <<>> /\ archives # {}
  <2>1. PICK n : n = Max(archives)
    OBVIOUS
  <2>2. n \in archives /\ \A m \in archives : m <= n
    <3>1. archives \subseteq Nat /\ \A m \in archives : m <= newest
      BY <1>1
    <3> HIDE DEF archives
    <3> QED
      BY <2>1, <3>1, <1>1, <1>6, MaxIsGreatest
  <2>3. PICK l : l = Last(disk[n])
    OBVIOUS
  <2>4. /\ l \in all /\ l \in Record /\ l.id \in Ids(disk[n]) /\ disk[n] # <<>>
        /\ \A r \in ToSet(disk[n]) : r.id <= l.id
    BY <1>3, <2>2, <2>3 DEF Ordered
  <2>5. Resumed(disk) = [seq |-> l.seq + 1, prev |-> l.id, epoch |-> l.epoch]
    BY <1>6, <2>1, <2>3, <2>4 DEF Resumed
  <2>6. ASSUME NEW m \in archives, NEW r \in ToSet(disk[m]) PROVE r.id <= l.id
    <3>1. CASE m = n
      BY <3>1, <2>4
    <3>2. CASE m < n
      <4>1. Apart(Ids(disk[m]), Ids(disk[n]), n - m)
        BY <2>2, <3>2 DEF Ordered
      <4>2. r.id \in Ids(disk[m]) /\ r.id \in Nat /\ l.id \in Nat /\ m \in Nat /\ n \in Nat
        BY <1>1, <1>2, <2>2, <2>4, IdsOfRecords DEF Ordered
      <4> QED
        BY <4>1, <4>2, <2>4, <3>2 DEF Apart
    <3> QED
      BY <3>1, <3>2, <2>2, <1>1
  <2>7. \A r \in all : r.id <= l.id
    BY <2>6, <1>6, EmptyFile
  <2> QED
    BY <2>4, <2>5, <2>7
<1> QED
  BY <1>4, <1>5, <1>6

host == <<log, writing, doubled, zipped, rotating, rotations, written>>

\* The steps of the verifier and the operator leave the files alone.
LEMMA StepsOnFiles ==
  ASSUME [EvidenceNext]_evidenceVars
  PROVE  \/ AppendBegins \/ AppendEnds \/ CompressBegins \/ CompressEnds \/ Rename \/ Prune
         \/ HostCrash \/ \E n \in Name : LoseArchive(n)
         \/ UNCHANGED host
<1>1. CASE UNCHANGED evidenceVars
  BY <1>1 DEF host, evidenceVars, files, rotation, past
<1>2. CASE Restart \/ Abort \/ LoseCheckpoints \/ SpoilLedger \/ Approve \/ \E n \in Name : Damage(n)
  BY <1>2 DEF Restart, Abort, LoseCheckpoints, SpoilLedger, Approve, Damage,
     host, files, rotation, past
<1>3. CASE VerifierNext
  BY <1>3 DEF VerifierNext, ListPaths, Decide, SaveCheckpoints, WriteAnchor, Compare, Sync,
     VerifySegment, host, files, rotation, past
<1>4. CASE ServerNext \/ LogrotateNext \/ MishapNext
  BY <1>2, <1>4 DEF ServerNext, LogrotateNext, MishapNext
<1> QED
  BY <1>1, <1>2, <1>3, <1>4 DEF EvidenceNext

\* Which steps touch the server's memory, the evidence and the history.
LEMMA MemorySteps ==
  ASSUME [EvidenceNext]_evidenceVars
  PROVE  memory' = memory \/ AppendEnds \/ Restart \/ HostCrash
<1>1. CASE UNCHANGED evidenceVars
  BY <1>1 DEF evidenceVars
<1>2. CASE VerifierNext
  BY <1>2 DEF VerifierNext, ListPaths, Decide, SaveCheckpoints, WriteAnchor, Compare, Sync, VerifySegment
<1>3. CASE LogrotateNext \/ AppendBegins \/ Abort \/ LoseCheckpoints \/ SpoilLedger \/ Approve
           \/ \E n \in Name : LoseArchive(n) \/ Damage(n)
  BY <1>3 DEF LogrotateNext, CompressBegins, CompressEnds, Rename, Prune, Rotating, AppendBegins,
     Abort, LoseCheckpoints, SpoilLedger, Approve, LoseArchive, Damage
<1> QED
  BY <1>1, <1>2, <1>3 DEF EvidenceNext, ServerNext, MishapNext

\* The checkpoints, the ledger and the anchor.
LEMMA EvidenceSteps ==
  ASSUME [EvidenceNext]_evidenceVars
  PROVE  \/ SaveCheckpoints \/ WriteAnchor \/ Approve \/ LoseCheckpoints \/ SpoilLedger
         \/ UNCHANGED <<checkpoints, approved, anchor>>
<1>1. CASE UNCHANGED evidenceVars
  BY <1>1 DEF evidenceVars, offHost
<1>2. CASE VerifierNext
  BY <1>2 DEF VerifierNext, ListPaths, Decide, Compare, Sync, VerifySegment, offHost
<1>3. CASE LogrotateNext \/ ServerNext \/ Abort \/ HostCrash
           \/ \E n \in Name : LoseArchive(n) \/ Damage(n)
  BY <1>3 DEF LogrotateNext, CompressBegins, CompressEnds, Rename, Prune, Rotating, ServerNext,
     AppendBegins, AppendEnds, Restart, Abort, HostCrash, LoseArchive, Damage, offHost
<1> QED
  BY <1>1, <1>2, <1>3 DEF EvidenceNext, MishapNext

\* What was lost, forgotten and seen.
LEMMA HistorySteps ==
  ASSUME [EvidenceNext]_evidenceVars
  PROVE  \/ Restart \/ HostCrash \/ Prune \/ SaveCheckpoints \/ \E n \in Name : LoseArchive(n)
         \/ UNCHANGED <<forgotten, lost, seen, unseen>>
<1>1. CASE UNCHANGED evidenceVars
  BY <1>1 DEF evidenceVars, past
<1>2. CASE VerifierNext
  BY <1>2 DEF VerifierNext, ListPaths, Decide, Compare, Sync, VerifySegment, WriteAnchor, past
<1>3. CASE LogrotateNext \/ ServerNext \/ Abort \/ LoseCheckpoints \/ SpoilLedger \/ Approve
           \/ \E n \in Name : Damage(n)
  BY <1>3 DEF LogrotateNext, CompressBegins, CompressEnds, Rename, Rotating, ServerNext,
     AppendBegins, AppendEnds, Abort, LoseCheckpoints, SpoilLedger, Approve, Damage, past
<1> QED
  BY <1>1, <1>2, <1>3 DEF EvidenceNext, MishapNext

\* The types of what the files hold, one by one.
LEMMA FilesTyped ==
  ASSUME Types
  PROVE  /\ \A n \in Name : log[n] \in Seq(Record) /\ \A a \in Ids(log[n]) : a \in Nat /\ 0 < a
         /\ \A n \in Rotated : n \in Name /\ n \in Nat /\ 0 < n /\ n <= rotations /\ n # ActiveLog
         /\ Name = Rotated \cup {ActiveLog}
         /\ rotations \in Nat /\ written \in Nat
<1>1. ASSUME NEW n \in Name
      PROVE  log[n] \in Seq(Record) /\ \A a \in Ids(log[n]) : a \in Nat /\ 0 < a
  <2>1. log[n] \in Seq(Record)
    BY DEF Types
  <2>2. Ids(log[n]) \subseteq Nat \ {0}
    BY <2>1, RecordsTyped
  <2> QED
    BY <2>1, <2>2
<1> QED
  BY <1>1 DEF Types, Rotated, ActiveLog

\* A new record is the greatest, in whichever file it lands.
LEMMA DiskAppend ==
  ASSUME Types, Disk, AppendEnds
  PROVE  Disk'
<1> DEFINE w == writing
           next == NextRecord
<1>1. /\ w \in Name /\ Name' = Name /\ Rotated' = Rotated
      /\ \A n \in Name : n # w => log'[n] = log[n]
      /\ log'[w] = Append(log[w], next) /\ log'[w] # <<>> /\ next \in Record /\ next.id = written + 1
      /\ Ids(log'[w]) = Ids(log[w]) \cup {written + 1}
      /\ written' = written + 1 /\ writing' = None
      /\ UNCHANGED <<doubled, rotating, rotations>>
  BY AppendStep DEF AppendEnds, rotation, Rotated
<1>2. /\ \A n \in Name : log[n] \in Seq(Record) /\ \A a \in Ids(log[n]) : a \in Nat /\ 0 < a
      /\ \A n \in Rotated : n \in Name /\ n \in Nat /\ 0 < n /\ n <= rotations /\ n # ActiveLog
      /\ Name = Rotated \cup {ActiveLog}
      /\ rotations \in Nat /\ written \in Nat
  BY FilesTyped
<1>3. \A n \in Name : \A a \in Ids(log[n]) : a <= written
  <2>1. \A a \in Ids(log[ActiveLog]) : a <= written
    BY DEF Disk
  <2>2. ASSUME NEW n \in Rotated, NEW a \in Ids(log[n]) PROVE a <= written
    <3>1. Apart(Ids(log[n]), {written}, rotations - n)
      BY DEF Disk
    <3>2. a + (rotations - n) <= written
      BY <3>1 DEF Apart
    <3>3. a \in Nat /\ n \in Nat /\ n <= rotations /\ rotations \in Nat /\ written \in Nat
      BY <1>2
    <3> QED
      BY <3>2, <3>3
  <2> QED
    BY <2>1, <2>2, <1>2
<1>4. w = ActiveLog \/ (w = rotations /\ w \in Rotated /\ log[ActiveLog] = <<>>)
  BY DEF Disk, AppendEnds
<1>5. \A n \in Name : Ascending(log'[n])
  <2>1. \A a \in Ids(log[w]) : a \in Nat /\ a <= written
    BY <1>1, <1>2, <1>3
  <2>4. written \in Nat /\ next.id = written + 1
    BY <1>1, <1>2
  <2>3. \A a \in Ids(log[w]) : a < next.id
    BY <2>1, <2>4
  <2>2. Ascending(log'[w])
    BY <2>3, <1>1, <1>2, Appended DEF Disk
  <2> QED
    BY <2>2, <1>1 DEF Disk
<1>6. \A n \in Rotated : log'[n] # <<>>
  BY <1>1, <1>2 DEF Disk
<1>7. ASSUME NEW m \in Rotated, NEW n \in Rotated, m < n
      PROVE  Apart(Ids(log'[m]), Ids(log'[n]), n - m)
  <2>1. m # w
    BY <1>2, <1>4, <1>7 DEF ActiveLog
  <2>2. Apart(Ids(log[m]), Ids(log[n]), n - m) /\ Apart(Ids(log[m]), {written}, rotations - m)
    BY <1>7 DEF Disk
  <2>3. Ids(log'[m]) = Ids(log[m])
    BY <2>1, <1>1, <1>2
  <2>4. CASE n # w
    BY <2>2, <2>3, <2>4, <1>1, <1>2
  <2>5. CASE n = w
    <3>1. n = rotations
      BY <2>5, <1>2, <1>4
    <3>2. Ids(log'[n]) = Ids(log[n]) \cup {written + 1}
      BY <2>5, <1>1
    <3>3. \A a \in Ids(log[m]) : a \in Nat /\ a + (rotations - m) <= written
      BY <2>2, <1>2 DEF Apart
    <3>4. m \in Nat /\ rotations \in Nat /\ written \in Nat
      BY <1>2
    <3>5. \A a \in Ids(log[m]) : a + (n - m) <= written + 1
      BY <3>1, <3>3, <3>4
    <3> QED
      BY <2>2, <2>3, <3>2, <3>5 DEF Apart
  <2> QED
    BY <2>4, <2>5
<1>8. ASSUME NEW m \in Rotated
      PROVE  /\ Apart(Ids(log'[m]), Ids(log'[ActiveLog]), rotations + 1 - m)
             /\ Apart(Ids(log'[m]), {written + 1}, rotations - m)
  <2>1. /\ Apart(Ids(log[m]), Ids(log[ActiveLog]), rotations + 1 - m)
        /\ Apart(Ids(log[m]), {written}, rotations - m)
    BY DEF Disk
  <2>2. CASE w = ActiveLog
    <3>1. Ids(log'[m]) = Ids(log[m]) /\ Ids(log'[ActiveLog]) = Ids(log[ActiveLog]) \cup {written + 1}
      BY <2>2, <1>1, <1>2 DEF ActiveLog
    <3>2. \A a \in Ids(log[m]) : a \in Nat /\ a + (rotations - m) <= written
      BY <2>1, <1>2 DEF Apart
    <3>3. m \in Nat /\ rotations \in Nat /\ written \in Nat
      BY <1>2
    <3>4. \A a \in Ids(log[m]) : a + (rotations + 1 - m) <= written + 1 /\ a + (rotations - m) <= written + 1
      BY <3>2, <3>3
    <3> QED
      BY <2>1, <3>1, <3>4 DEF Apart
  <2>3. CASE w = rotations /\ w \in Rotated /\ log[ActiveLog] = <<>>
    <3>1. Ids(log'[ActiveLog]) = {}
      BY <2>3, <1>1, <1>2, EmptyFile DEF ActiveLog
    <3>2. \/ Ids(log'[m]) = Ids(log[m])
          \/ m = rotations /\ Ids(log'[m]) = Ids(log[m]) \cup {written + 1}
      BY <2>3, <1>1, <1>2
    <3>3. \A a \in Ids(log[m]) : a \in Nat /\ a + (rotations - m) <= written
      BY <2>1, <1>2 DEF Apart
    <3>4. m \in Nat /\ rotations \in Nat /\ written \in Nat
      BY <1>2
    <3>5. \A a \in Ids(log[m]) : a + (rotations - m) <= written + 1
      BY <3>3, <3>4
    <3>6. \A a \in Ids(log'[m]) : a + (rotations - m) <= written + 1
      BY <3>2, <3>4, <3>5
    <3> QED
      BY <3>1, <3>6 DEF Apart
  <2> QED
    BY <2>2, <2>3, <1>4
<1>9. \A a \in Ids(log'[ActiveLog]) : a <= written + 1
  <2>1. ActiveLog \in Name /\ written \in Nat
    BY <1>2
  <2>2. ASSUME NEW a \in Ids(log[ActiveLog]) PROVE a \in Nat /\ a <= written
    BY <2>1, <1>2, <1>3
  <2>3. \A a \in Ids(log'[ActiveLog]) : a \in Ids(log[ActiveLog]) \/ a = written + 1
    <3>1. CASE w = ActiveLog
      BY <3>1, <1>1
    <3>2. CASE w # ActiveLog
      BY <2>1, <3>2, <1>1
    <3> QED
      BY <3>1, <3>2
  <2> QED
    BY <2>1, <2>2, <2>3
<1>10. rotating \in {"compress", "rename"} => log'[ActiveLog] # <<>>
  BY <1>1, <1>2 DEF Disk
<1>11. rotating # "compress" => doubled = 0
  BY DEF Disk
<1> QED
  BY <1>1, <1>5, <1>6, <1>7, <1>8, <1>9, <1>10, <1>11 DEF Disk

\* The renamed file is the newest archive, and younger than all others.
LEMMA DiskRename ==
  ASSUME Types, Disk, Rename
  PROVE  Disk'
<1> DEFINE R == rotations + 1
<1>1. /\ rotations' = R /\ R \in Nat \ {0} /\ R \notin Name
      /\ log'[R] = log[ActiveLog] /\ log'[ActiveLog] = <<>> /\ log[ActiveLog] # <<>>
      /\ \A n \in Rotated : log'[n] = log[n] /\ n # R
      /\ Rotated' = Rotated \cup {R} /\ Name' = Name \cup {R}
      /\ \/ writing = None /\ writing' = None
         \/ writing = ActiveLog /\ writing' = R
  BY RenameStep
<1>2. /\ \A n \in Name : log[n] \in Seq(Record) /\ \A a \in Ids(log[n]) : a \in Nat /\ 0 < a
      /\ \A n \in Rotated : n \in Name /\ n \in Nat /\ 0 < n /\ n <= rotations /\ n # ActiveLog
      /\ Name = Rotated \cup {ActiveLog}
      /\ rotations \in Nat /\ written \in Nat
  BY FilesTyped
<1>3. /\ written' = written /\ doubled' = doubled /\ rotating = "rename" /\ rotating' = "prune"
  BY DEF Rename, past
<1>4. PICK b \in Ids(log[ActiveLog]) : b <= written
  <2>1. PICK r : r \in ToSet(log[ActiveLog])
    BY <1>1, <1>2, Dropped
  <2> QED
    BY <2>1, IdsOfRecords DEF Disk
<1>5. \A n \in Name' : Ascending(log'[n])
  BY <1>1, <1>2, EmptyFile DEF Disk
<1>6. \A n \in Rotated' : log'[n] # <<>>
  BY <1>1 DEF Disk
<1>7. ASSUME NEW m \in Rotated', NEW n \in Rotated', m < n
      PROVE  Apart(Ids(log'[m]), Ids(log'[n]), n - m)
  <2>1. m \in Rotated /\ log'[m] = log[m]
    BY <1>1, <1>2, <1>7
  <2>2. CASE n = R
    <3>1. Apart(Ids(log[m]), Ids(log[ActiveLog]), rotations + 1 - m)
      BY <2>1 DEF Disk
    <3>2. Ids(log'[m]) = Ids(log[m]) /\ Ids(log'[n]) = Ids(log[ActiveLog])
      BY <2>1, <2>2, <1>1
    <3>3. n - m = rotations + 1 - m
      BY <2>1, <2>2, <1>2
    <3> QED
      BY <3>1, <3>2, <3>3
  <2>3. CASE n \in Rotated
    BY <2>1, <2>3, <1>1, <1>7 DEF Disk
  <2> QED
    BY <2>2, <2>3, <1>1
<1>8. ASSUME NEW m \in Rotated'
      PROVE  /\ Apart(Ids(log'[m]), Ids(log'[ActiveLog]), R + 1 - m)
             /\ Apart(Ids(log'[m]), {written}, R - m)
  <2>1. Ids(log'[ActiveLog]) = {}
    BY <1>1, EmptyFile
  <2>2. CASE m = R
    <3>1. \A a \in Ids(log'[m]) : a <= written /\ a \in Nat
      BY <2>2, <1>1, <1>2 DEF Disk
    <3> QED
      BY <2>1, <2>2, <3>1, <1>2 DEF Apart
  <2>3. CASE m \in Rotated
    <3>1. Apart(Ids(log[m]), Ids(log[ActiveLog]), rotations + 1 - m) /\ log'[m] = log[m]
      BY <2>3, <1>1 DEF Disk
    <3>2. \A a \in Ids(log[m]) : a + (rotations + 1 - m) <= b
      BY <3>1, <1>4 DEF Apart
    <3>3. b \in Nat /\ m \in Nat /\ Ids(log[m]) \subseteq Nat
      BY <1>2, <1>4, <2>3
    <3>4. \A a \in Ids(log[m]) : a + (R - m) <= written
      BY <3>2, <3>3, <1>2, <1>4
    <3> QED
      BY <2>1, <3>1, <3>4 DEF Apart
  <2> QED
    BY <2>2, <2>3, <1>1
<1>9. \A a \in Ids(log'[ActiveLog]) : a <= written
  BY <1>1, EmptyFile
<1>10. doubled' = 0
  BY <1>3 DEF Disk
<1>11. writing' \in {None, ActiveLog} \/ (writing' = R /\ R \in Rotated' /\ log'[ActiveLog] = <<>>)
  BY <1>1
<1> QED
  BY <1>1, <1>3, <1>5, <1>6, <1>7, <1>8, <1>9, <1>10, <1>11 DEF Disk

\* Files that disappear leave the others in order.
LEMMA DiskRemove ==
  ASSUME Types, Disk, NEW X, X \subseteq Rotated, writing \notin X,
         log' = [n \in Name \ X |-> log[n]],
         writing' = writing, rotations' = rotations, written' = written, doubled' = doubled,
         rotating' = rotating \/ (rotating' = "idle" /\ doubled = 0)
  PROVE  Disk'
<1>1. /\ Name' = Name \ X /\ Rotated' = Rotated \ X /\ ActiveLog \in Name'
      /\ \A n \in Name' : log'[n] = log[n]
  BY RemoveStep
<1>2. \A n \in Rotated' : n \in Rotated /\ log'[n] = log[n]
  BY <1>1 DEF Rotated
<1>3. log'[ActiveLog] = log[ActiveLog]
  BY <1>1
<1>4. \A n \in Name' : Ascending(log'[n])
  BY <1>1 DEF Disk
<1>5. /\ \A n \in Rotated' : log'[n] # <<>>
      /\ \A m, n \in Rotated' : m < n => Apart(Ids(log'[m]), Ids(log'[n]), n - m)
      /\ \A m \in Rotated' : /\ Apart(Ids(log'[m]), Ids(log'[ActiveLog]), rotations' + 1 - m)
                             /\ Apart(Ids(log'[m]), {written'}, rotations' - m)
      /\ \A a \in Ids(log'[ActiveLog]) : a <= written'
  BY <1>2, <1>3 DEF Disk
<1>6. /\ rotating' \in {"compress", "rename"} => log'[ActiveLog] # <<>>
      /\ rotating' # "compress" => doubled' = 0
  BY <1>3 DEF Disk
<1>7. \/ writing' \in {None, ActiveLog}
      \/ writing' = rotations' /\ writing' \in Rotated' /\ log'[ActiveLog] = <<>>
  BY <1>1, <1>3 DEF Disk
<1> QED
  BY <1>4, <1>5, <1>6, <1>7 DEF Disk

\* A crash shortens the active file only.
LEMMA DiskCrash ==
  ASSUME Types, Disk, HostCrash
  PROVE  Disk'
<1>1. /\ Name' = Name /\ Rotated' = Rotated
      /\ \A n \in Rotated : log'[n] = log[n]
      /\ Ids(log'[ActiveLog]) \subseteq Ids(log[ActiveLog]) /\ Ascending(log'[ActiveLog])
  BY CrashStep DEF Rotated
<1>2. /\ writing' = None /\ rotating' = "idle" /\ rotating = "idle"
      /\ UNCHANGED <<rotations, written, doubled>>
  BY DEF HostCrash, rotation
<1>3. Name = Rotated \cup {ActiveLog}
  BY FilesTyped
<1>4. \A n \in Name' : Ascending(log'[n])
  BY <1>1, <1>3 DEF Disk
<1>5. /\ \A n \in Rotated' : log'[n] # <<>>
      /\ \A m, n \in Rotated' : m < n => Apart(Ids(log'[m]), Ids(log'[n]), n - m)
      /\ \A m \in Rotated' : Apart(Ids(log'[m]), {written'}, rotations' - m)
  BY <1>1, <1>2 DEF Disk
<1>6. ASSUME NEW m \in Rotated'
      PROVE  Apart(Ids(log'[m]), Ids(log'[ActiveLog]), rotations' + 1 - m)
  <2>1. Apart(Ids(log[m]), Ids(log[ActiveLog]), rotations + 1 - m)
    BY <1>1 DEF Disk
  <2> QED
    BY <2>1, <1>1, <1>2 DEF Apart
<1>7. \A a \in Ids(log'[ActiveLog]) : a <= written'
  BY <1>1, <1>2 DEF Disk
<1>8. doubled' = 0
  BY <1>2 DEF Disk
<1> QED
  BY <1>2, <1>4, <1>5, <1>6, <1>7, <1>8 DEF Disk

\* Every step keeps the files in order.
LEMMA DiskStep ==
  ASSUME Types, Disk, [EvidenceNext]_evidenceVars
  PROVE  Disk'
<1>1. CASE AppendBegins
  <2>1. UNCHANGED <<log, doubled, rotating, rotations, written>> /\ writing' = ActiveLog
    BY <1>1 DEF AppendBegins, files, rotation, past
  <2> QED
    BY <2>1 DEF Disk, Name, Rotated
<1>2. CASE AppendEnds
  BY <1>2, DiskAppend
<1>3. CASE CompressBegins
  <2>1. /\ UNCHANGED <<log, writing, rotations, written>>
        /\ rotating' = "compress" /\ log[ActiveLog] # <<>>
    BY <1>3 DEF CompressBegins, Rotating, past
  <2> QED
    BY <2>1 DEF Disk, Name, Rotated
<1>4. CASE CompressEnds
  <2>1. /\ UNCHANGED <<log, writing, rotations, written>>
        /\ rotating = "compress" /\ rotating' = "rename" /\ doubled' = 0
    BY <1>4 DEF CompressEnds, Rotating, past
  <2> QED
    BY <2>1 DEF Disk, Name, Rotated
<1>5. CASE Rename
  BY <1>5, DiskRename
<1>6. CASE Prune
  <2>1. PICK X \in SUBSET Rotated :
          /\ log' = [n \in Name \ X |-> log[n]]
          /\ \A g \in X : g # writing
          /\ doubled = 0 /\ doubled' = 0 /\ rotating' = "idle" /\ writing' = writing
    BY <1>6, PruneStep
  <2>2. rotations' = rotations /\ written' = written
    BY <1>6 DEF Prune
  <2> QED
    BY <2>1, <2>2, DiskRemove
<1>7. CASE HostCrash
  BY <1>7, DiskCrash
<1>8. ASSUME NEW n \in Name, LoseArchive(n) PROVE Disk'
  <2>1. /\ log' = [k \in Name \ {n} |-> log[k]] /\ n \in Rotated /\ n # writing
        /\ UNCHANGED <<writing, rotations, written, doubled, rotating>>
    BY <1>8 DEF LoseArchive, rotation
  <2>2. {n} \subseteq Rotated /\ writing \notin {n}
    BY <2>1
  <2> QED
    BY <2>1, <2>2, DiskRemove
<1>9. CASE UNCHANGED host
  BY <1>9 DEF Disk, host, Name, Rotated
<1> QED
  BY <1>1, <1>2, <1>3, <1>4, <1>5, <1>6, <1>7, <1>8, <1>9, StepsOnFiles

-----------------------------------------------------------------------------
(* Nothing disappears unnoticed *)

\* Nothing that was lost, forgotten, written or seen is taken back.
LEMMA HistoryGrows ==
  ASSUME Types, [EvidenceNext]_evidenceVars
  PROVE  /\ lost \subseteq lost' /\ forgotten \subseteq forgotten'
         /\ written' = written \/ (AppendEnds /\ written' = written + 1)
         /\ seen \subseteq seen'
<1>1. CASE UNCHANGED evidenceVars
  BY <1>1 DEF evidenceVars, past
<1>2. CASE Restart \/ Abort \/ LoseCheckpoints \/ SpoilLedger \/ Approve \/ HostCrash
           \/ \E n \in Name : Damage(n) \/ LoseArchive(n)
  BY <1>2 DEF Restart, Abort, LoseCheckpoints, SpoilLedger, Approve, Damage, LoseArchive, HostCrash, past
<1>3. CASE VerifierNext
  BY <1>3 DEF VerifierNext, ListPaths, Decide, SaveCheckpoints, WriteAnchor, Compare, Sync,
     VerifySegment, past
<1>4. CASE ServerNext \/ LogrotateNext
  BY <1>2, <1>4 DEF ServerNext, LogrotateNext, AppendBegins, AppendEnds, CompressBegins,
     CompressEnds, Rename, Prune, Rotating, past
<1> QED
  BY <1>1, <1>2, <1>3, <1>4 DEF EvidenceNext, MishapNext

\* Only the sync writes off the host.
LEMMA StepsOffHost ==
  ASSUME RemoteType, [EvidenceNext]_evidenceVars
  PROVE  \/ remote' = remote
         \/ /\ verifier.at = "payload" /\ remote' = [remote EXCEPT !.files = Payload]
            /\ verifier' = Onto("commit") /\ UNCHANGED <<host, anchor, lost>>
         \/ /\ verifier.at = "commit" /\ remote' = [remote EXCEPT !.anchor = anchor]
            /\ verifier' = Onto("idle") /\ UNCHANGED <<host, anchor, lost>>
<1>1. CASE UNCHANGED evidenceVars
  BY <1>1 DEF evidenceVars, offHost
<1>2. CASE Restart \/ Abort \/ LoseCheckpoints \/ SpoilLedger \/ Approve \/ HostCrash
           \/ \E n \in Name : Damage(n) \/ LoseArchive(n)
  BY <1>2 DEF Restart, Abort, LoseCheckpoints, SpoilLedger, Approve, Damage, LoseArchive, HostCrash, offHost
<1>3. CASE Sync
  BY <1>3 DEF Sync, Pass, host, files, rotation, past
<1>4. CASE VerifierNext /\ ~Sync
  BY <1>4 DEF VerifierNext, ListPaths, Decide, SaveCheckpoints, WriteAnchor, Compare,
     VerifySegment, offHost
<1>5. CASE ServerNext \/ LogrotateNext
  BY <1>2, <1>5 DEF ServerNext, LogrotateNext, AppendBegins, AppendEnds, CompressBegins,
     CompressEnds, Rename, Prune, Rotating, offHost
<1> QED
  BY <1>1, <1>2, <1>3, <1>4, <1>5 DEF EvidenceNext, MishapNext

\* The new record is on the host.
LEMMA AccountedAppend ==
  ASSUME Types, Disk, Accounted, AppendEnds
  PROVE  Accounted'
<1>1. /\ Name' = Name /\ OnDisk' = OnDisk \cup {NextRecord} /\ NextRecord.id = written + 1
      /\ written' = written + 1 /\ written \in Nat
      /\ remote' = remote /\ lost' = lost
  BY AppendStep DEF AppendEnds, offHost, Types
<1>2. \A id : Copies(id)' = Copies(id)
  BY <1>1 DEF Copies
<1>3. SUFFICES ASSUME NEW id \in 1 .. written + 1
               PROVE  id \in lost' \/ OnHost(id)' \/ (Copies(id)' # {} /\ \A r \in OnDisk' : id < r.id)
  BY <1>1 DEF Accounted
<1>4. CASE id = written + 1
  BY <1>1, <1>4 DEF OnHost
<1>5. CASE id \in 1 .. written
  <2>1. id \in lost \/ OnHost(id) \/ (Copies(id) # {} /\ \A r \in OnDisk : id < r.id)
    BY <1>5 DEF Accounted
  <2>2. OnHost(id) => OnHost(id)'
    BY <1>1 DEF OnHost
  <2>3. id < NextRecord.id
    BY <1>1, <1>5
  <2> QED
    BY <2>1, <2>2, <2>3, <1>1, <1>2
<1> QED
  BY <1>1, <1>4, <1>5

\* A copy of an archive that is gone is not replaced: names are never reused.
LEMMA AccountedRename ==
  ASSUME Types, RemoteType, Disk, Accounted, Rename
  PROVE  Accounted'
<1>1. /\ Name' = Name \cup {rotations + 1} /\ rotations \in Nat /\ OnDisk' = OnDisk
      /\ written' = written /\ lost' = lost /\ remote' = remote
  BY RenameStep DEF Rename, past, offHost, Types
<1>2. rotations + 1 \notin DOMAIN remote.files
  BY <1>1 DEF RemoteType
<1>3. \A id : Copies(id)' = Copies(id) /\ OnHost(id)' = OnHost(id)
  BY <1>1, <1>2 DEF Copies, OnHost
<1> QED
  BY <1>1, <1>3 DEF Accounted

\* What is pruned has been copied or counts as lost.
LEMMA AccountedPrune ==
  ASSUME Types, RemoteType, Disk, Accounted, Prune
  PROVE  Accounted'
<1>1. PICK X \in SUBSET Rotated :
        /\ log' = [n \in Name \ X |-> log[n]]
        /\ \A g \in X : \A n \in Rotated \ X : g < n
        /\ lost' = lost \cup UNION {Ids(log[n]) \ Copied(n) : n \in X}
  BY PruneStep
<1>2. /\ Name' = Name \ X /\ Rotated' = Rotated \ X /\ \A n \in Name' : log'[n] = log[n]
      /\ OnDisk' \subseteq OnDisk
  BY <1>1, RemoveStep
<1>3. written' = written /\ remote' = remote
  BY DEF Prune, Rotating, offHost
<1>4. \A id : Copies(id) \subseteq Copies(id)'
  BY <1>2, <1>3 DEF Copies
<1>5. SUFFICES ASSUME NEW id \in 1 .. written
               PROVE  id \in lost' \/ OnHost(id)' \/ (Copies(id)' # {} /\ \A r \in OnDisk' : id < r.id)
  BY <1>3 DEF Accounted
<1>6. CASE id \in lost
  BY <1>1, <1>6
<1>7. CASE Copies(id) # {} /\ \A r \in OnDisk : id < r.id
  BY <1>2, <1>4, <1>7
<1>8. CASE OnHost(id)
  <2>1. PICK n \in Name : \E r \in ToSet(log[n]) : r.id = id
    BY <1>8 DEF OnHost, OnDisk
  <2>2. CASE n \notin X
    BY <2>1, <2>2, <1>2 DEF OnHost, OnDisk
  <2>3. CASE n \in X /\ id \notin Copied(n)
    <3>1. id \in Ids(log[n])
      BY <2>1, IdsOfRecords
    <3> QED
      BY <2>3, <3>1, <1>1
  <2>4. CASE n \in X /\ id \in Copied(n)
    <3>1. n \in Copies(id)'
      BY <2>4, <1>2, <1>3 DEF Copies, Copied
    <3>2. ASSUME NEW q \in OnDisk' PROVE id < q.id
      <4>1. PICK m \in Name' : q \in ToSet(log[m])
        BY <1>2 DEF OnDisk
      <4>2. n \in Rotated /\ m \in Name /\ id \in Ids(log[n]) /\ q.id \in Ids(log[m])
        BY <2>1, <2>4, <4>1, <1>2, IdsOfRecords
      <4>6. n \in Nat /\ n <= rotations /\ rotations \in Nat /\ q.id \in Nat
        BY <4>2, FilesTyped
      <4>7. m \in 0 .. rotations /\ id \in 1 .. written /\ written \in Nat
        BY <4>2 DEF Types
      <4>3. /\ m \in Nat /\ n \in Nat /\ n <= rotations /\ rotations \in Nat
            /\ id \in Nat /\ q.id \in Nat
        BY <4>6, <4>7
      <4>4. CASE m = ActiveLog
        <5>1. Apart(Ids(log[n]), Ids(log[ActiveLog]), rotations + 1 - n)
          BY <4>2 DEF Disk
        <5>2. id + (rotations + 1 - n) <= q.id
          BY <4>2, <4>4, <5>1 DEF Apart
        <5> QED
          BY <4>3, <5>2
      <4>5. CASE m # ActiveLog
        <5>1. m \in Rotated \ X
          BY <4>1, <4>2, <4>5, <1>2 DEF Rotated
        <5>2. n < m
          BY <2>4, <5>1, <1>1
        <5>3. Apart(Ids(log[n]), Ids(log[m]), m - n)
          BY <4>2, <5>1, <5>2 DEF Disk
        <5>4. id + (m - n) <= q.id
          BY <4>2, <5>3 DEF Apart
        <5> QED
          BY <4>3, <5>2, <5>4
      <4> QED
        BY <4>4, <4>5
    <3> QED
      BY <3>1, <3>2
  <2> QED
    BY <2>2, <2>3, <2>4
<1> QED
  BY <1>6, <1>7, <1>8 DEF Accounted

\* Every record stays accounted for.
LEMMA AccountedStep ==
  ASSUME Types, RemoteType, Disk, Accounted, [EvidenceNext]_evidenceVars
  PROVE  Accounted'
<1>1. CASE AppendEnds
  BY <1>1, AccountedAppend
<1>2. CASE Rename
  BY <1>2, AccountedRename
<1>3. CASE Prune
  BY <1>3, AccountedPrune
<1>4. ASSUME NEW n \in Name, LoseArchive(n) PROVE Accounted'
  <2>1. /\ log' = [k \in Name \ {n} |-> log[k]] /\ n \in Rotated
        /\ lost' = lost \cup Ids(log[n]) /\ written' = written /\ remote' = remote
    BY <1>4 DEF LoseArchive, offHost
  <2>2. {n} \subseteq Rotated
    BY <2>1
  <2>3. /\ Name' = Name \ {n} /\ \A k \in Name' : log'[k] = log[k]
        /\ OnDisk' \subseteq OnDisk
    BY <2>1, <2>2, RemoveStep
  <2>4. \A id : Copies(id) \subseteq Copies(id)'
    BY <2>1, <2>3 DEF Copies
  <2>5. ASSUME NEW id, OnHost(id) PROVE OnHost(id)' \/ id \in lost'
    <3>1. PICK k \in Name : \E r \in ToSet(log[k]) : r.id = id
      BY <2>5 DEF OnHost, OnDisk
    <3>2. CASE k = n
      BY <3>1, <3>2, <2>1, IdsOfRecords
    <3>3. CASE k # n
      BY <3>1, <3>3, <2>3 DEF OnHost, OnDisk
    <3> QED
      BY <3>2, <3>3
  <2> QED
    BY <2>1, <2>3, <2>4, <2>5 DEF Accounted
<1>5. CASE HostCrash
  <2>1. /\ Name' = Name /\ OnDisk' \subseteq OnDisk
        /\ \A r \in OnDisk : r \in OnDisk' \/ r.id \in lost'
    BY <1>5, CrashStep
  <2>2. written' = written /\ remote' = remote /\ lost \subseteq lost'
    BY <1>5 DEF HostCrash, offHost
  <2>3. \A id : /\ Copies(id)' = Copies(id)
                /\ OnHost(id) => OnHost(id)' \/ id \in lost'
    BY <2>1, <2>2 DEF Copies, OnHost
  <2> QED
    BY <2>1, <2>2, <2>3 DEF Accounted
<1>6. CASE AppendBegins \/ CompressBegins \/ CompressEnds
  <2>1. UNCHANGED <<log, written, lost, remote>>
    BY <1>6 DEF AppendBegins, CompressBegins, CompressEnds, Rotating, files, past, offHost
  <2> QED
    BY <2>1 DEF Accounted, OnHost, OnDisk, Copies, Name
<1>7. CASE UNCHANGED host
  <2>1. log' = log /\ written' = written /\ lost \subseteq lost' /\ Name' = Name /\ OnDisk' = OnDisk
    BY <1>7, HistoryGrows DEF host, Name, OnDisk
  <2>2. ASSUME NEW id PROVE Copies(id)' = Copies(id)
    <3>1. CASE remote' = remote
      BY <3>1, <2>1 DEF Copies
    <3>2. CASE remote' = [remote EXCEPT !.files = Payload]
      <4>1. remote'.files = Payload
        BY <3>2 DEF RemoteType
      <4>2. /\ DOMAIN Payload = DOMAIN remote.files \cup Name
            /\ \A n \in DOMAIN remote.files \ Name : Payload[n] = remote.files[n]
        BY DEF Payload
      <4> QED
        BY <4>1, <4>2, <2>1 DEF Copies
    <3>3. CASE remote' = [remote EXCEPT !.anchor = anchor]
      <4>1. remote'.files = remote.files
        BY <3>3 DEF RemoteType
      <4> QED
        BY <4>1, <2>1 DEF Copies
    <3> QED
      BY <3>1, <3>2, <3>3, StepsOffHost
  <2>3. \A id : OnHost(id)' = OnHost(id)
    BY <2>1 DEF OnHost
  <2> QED
    BY <2>1, <2>2, <2>3 DEF Accounted
<1> QED
  BY <1>1, <1>2, <1>3, <1>4, <1>5, <1>6, <1>7, StepsOnFiles

-----------------------------------------------------------------------------
(* What a step does to what was read *)

\* What the verifier has read and has still to read: the steps that touch it.
LEMMA StepsOfReading ==
  ASSUME VerifierType, [EvidenceNext]_evidenceVars
  PROVE  \/ ListPaths \/ \E path \in verifier.todo : VerifySegment(path)
         \/ verifier'.got = {} /\ verifier'.todo = {}
         \/ /\ verifier'.got = verifier.got /\ verifier'.todo = verifier.todo
            /\ verifier'.calm \in {verifier.calm, FALSE}
<1> USE DEF VerifierType
<1>1. CASE verifier' = verifier
  BY <1>1
<1>2. CASE verifier' = Disturbed
  BY <1>2 DEF Disturbed
<1>3. ASSUME NEW stage, verifier' = Onto(stage) PROVE verifier'.got = {} /\ verifier'.todo = {}
  BY <1>3 DEF Onto, Idle
<1>4. CASE UNCHANGED evidenceVars
  BY <1>1, <1>4 DEF evidenceVars
<1>5. CASE AppendBegins \/ AppendEnds \/ Restart \/ LoseCheckpoints \/ SpoilLedger \/ Approve
           \/ \E n \in Name : Damage(n) \/ LoseArchive(n)
  BY <1>1, <1>5 DEF AppendBegins, AppendEnds, Restart, LoseCheckpoints, SpoilLedger, Approve,
     Damage, LoseArchive
<1>6. CASE CompressBegins \/ CompressEnds \/ Rename \/ Prune
  BY <1>2, <1>6 DEF CompressBegins, CompressEnds, Rename, Prune, Rotating
<1>7. CASE HostCrash \/ WriteAnchor \/ Compare \/ Sync
  <2>1. \E stage : verifier' = Onto(stage)
    BY <1>7 DEF HostCrash, WriteAnchor, Compare, Sync
  <2> QED
    BY <2>1, <1>3
<1>8. CASE Abort
  <2>1. \/ verifier' = [verifier EXCEPT !.at = "anchor", !.ok = FALSE]
        \/ verifier' = Onto("idle")
    BY <1>8 DEF Abort
  <2> QED
    BY <2>1, <1>3
<1>9. CASE Decide
  BY <1>9 DEF Decide
<1>10. CASE SaveCheckpoints
  BY <1>10 DEF SaveCheckpoints
<1> QED
  BY <1>4, <1>5, <1>6, <1>7, <1>8, <1>9, <1>10
  DEF EvidenceNext, ServerNext, LogrotateNext, MishapNext, VerifierNext

\* A file that is read is whole, links and is not an archive that is being written.
LEMMA VerifyStep ==
  ASSUME Types, VerifierType, NEW path \in verifier.todo, VerifySegment(path)
  PROVE  /\ verifier'.todo = verifier.todo \ {path} /\ verifier'.at = "read" /\ verifier.at = "read"
         /\ verifier'.calm => verifier.calm
         /\ verifier'.head = verifier.head /\ verifier'.epoch = verifier.epoch
         /\ UNCHANGED <<host, offHost, memory, approved, past, mishaps, damaged>>
         /\ path \in Path
         /\ \/ verifier'.got = verifier.got
            \/ /\ verifier'.got = verifier.got \cup {[path |-> path, recs |-> log[path[1]]]}
               /\ path[1] \in Name /\ log[path[1]] # <<>>
               /\ [path |-> path, recs |-> log[path[1]]] \in Segment
               /\ \A i \in 2 .. Len(log[path[1]]) : Linked(log[path[1]][i - 1], log[path[1]][i])
               /\ path[1] = writing => path[1] = ActiveLog
<1>1. /\ verifier'.todo = verifier.todo \ {path} /\ verifier'.at = "read" /\ verifier.at = "read"
      /\ verifier'.calm => verifier.calm
      /\ verifier'.head = verifier.head /\ verifier'.epoch = verifier.epoch
      /\ verifier'.got = IF Unreadable(path) \/ log[path[1]] = <<>> THEN verifier.got
                         ELSE verifier.got \cup {[path |-> path, recs |-> log[path[1]]]}
  BY DEF VerifySegment, VerifierType
<1>2. UNCHANGED <<host, offHost, memory, approved, past, mishaps, damaged>>
  BY DEF VerifySegment, host, files, rotation, past
<1>3. path \in Path
  BY DEF VerifierType
<1>4. ASSUME ~Unreadable(path), log[path[1]] # <<>>
      PROVE  /\ path[1] \in Name /\ [path |-> path, recs |-> log[path[1]]] \in Segment
             /\ \A i \in 2 .. Len(log[path[1]]) : Linked(log[path[1]][i - 1], log[path[1]][i])
             /\ path[1] = writing => path[1] = ActiveLog
  <2>1. path \in Listed
    BY <1>4 DEF Unreadable
  <2>2. path[1] \in Name
    BY <2>1 DEF Listed, Types, Rotated
  <2>3. log[path[1]] \in Seq(Record)
    BY <2>2 DEF Types
  <2> QED
    BY <1>3, <1>4, <2>2, <2>3 DEF Unreadable, Segment
<1>5. CASE Unreadable(path) \/ log[path[1]] = <<>>
  <2>1. verifier'.got = verifier.got
    BY <1>1, <1>5
  <2> QED
    BY <1>1, <1>2, <1>3, <2>1
<1>6. CASE ~Unreadable(path) /\ log[path[1]] # <<>>
  <2>1. verifier'.got = verifier.got \cup {[path |-> path, recs |-> log[path[1]]]}
    BY <1>1, <1>6
  <2> QED
    BY <1>1, <1>2, <1>3, <1>4, <1>6, <2>1
<1> QED
  BY <1>5, <1>6

\* Only the server makes records.
LEMMA KnownStep ==
  ASSUME Types, VerifierType, Disk, [EvidenceNext]_evidenceVars
  PROVE  Known' \subseteq Known \/ (AppendEnds /\ Known' \subseteq Known \cup {NextRecord})
<1>1. OnDisk' \subseteq OnDisk \/ (AppendEnds /\ OnDisk' = OnDisk \cup {NextRecord})
  <2>1. CASE AppendEnds
    BY <2>1, AppendStep
  <2>2. CASE Rename
    BY <2>2, RenameStep
  <2>3. CASE Prune
    <3>1. PICK X \in SUBSET Rotated : log' = [n \in Name \ X |-> log[n]]
      BY <2>3, PruneStep
    <3> QED
      BY <3>1, RemoveStep
  <2>4. ASSUME NEW n \in Name, LoseArchive(n) PROVE OnDisk' \subseteq OnDisk
    <3>1. log' = [k \in Name \ {n} |-> log[k]] /\ {n} \subseteq Rotated
      BY <2>4 DEF LoseArchive
    <3> QED
      BY <3>1, RemoveStep
  <2>5. CASE HostCrash
    BY <2>5, CrashStep
  <2>6. CASE AppendBegins \/ CompressBegins \/ CompressEnds \/ UNCHANGED host
    <3>1. log' = log
      BY <2>6 DEF AppendBegins, CompressBegins, CompressEnds, host, files
    <3> QED
      BY <3>1 DEF OnDisk, Name
  <2> QED
    BY <2>1, <2>2, <2>3, <2>4, <2>5, <2>6, StepsOnFiles
<1>2. WasRead' \subseteq Known
  <2>1. CASE verifier'.got = verifier.got \/ verifier'.got = {}
    BY <2>1 DEF WasRead, Known
  <2>2. CASE ListPaths
    <3>1. verifier'.got = {}
      BY <2>2 DEF ListPaths, Idle
    <3> QED
      BY <3>1 DEF WasRead
  <2>3. ASSUME NEW path \in verifier.todo, VerifySegment(path) PROVE WasRead' \subseteq Known
    <3>1. CASE verifier'.got = verifier.got
      BY <2>1, <3>1
    <3>2. CASE /\ verifier'.got = verifier.got \cup {[path |-> path, recs |-> log[path[1]]]}
               /\ path[1] \in Name
      <4>1. \A s \in verifier'.got : s \in verifier.got \/ s.recs = log[path[1]]
        BY <3>2
      <4>2. ToSet(log[path[1]]) \subseteq OnDisk
        BY <3>2 DEF OnDisk
      <4>3. ASSUME NEW s \in verifier'.got, NEW r \in ToSet(s.recs) PROVE r \in Known
        <5>1. CASE s \in verifier.got
          BY <5>1 DEF Known, WasRead
        <5>2. CASE s.recs = log[path[1]]
          BY <5>2, <4>2 DEF Known
        <5> QED
          BY <5>1, <5>2, <4>1
      <4> QED
        BY <4>3 DEF WasRead
    <3> QED
      BY <2>3, <3>1, <3>2, VerifyStep
  <2> QED
    BY <2>1, <2>2, <2>3, StepsOfReading
<1> QED
  BY <1>1, <1>2 DEF Known

\* The types of the records, one by one.
LEMMA KnownTyped ==
  ASSUME Types, VerifierType
  PROVE  /\ Known \subseteq Record
         /\ \A r \in Known : /\ r.id \in Nat /\ 0 < r.id /\ r.seq \in Nat /\ r.prev \in Nat
                             /\ r.epoch \in Nat /\ 0 < r.epoch
<1>1. ASSUME NEW n \in Name PROVE ToSet(log[n]) \subseteq Record
  BY RecordsTyped DEF Types
<1>2. ASSUME NEW s \in verifier.got PROVE ToSet(s.recs) \subseteq Record
  BY RecordsTyped DEF VerifierType, Segment
<1>3. Known \subseteq Record
  BY <1>1, <1>2 DEF Known, OnDisk, WasRead
<1> QED
  BY <1>3 DEF Record

-----------------------------------------------------------------------------
(* The chain *)

\* The new record names the one before it, or begins a chain.
LEMMA ChainAppend ==
  ASSUME Types, VerifierType, Disk, Chain, AppendEnds
  PROVE  Chain'
<1> DEFINE next == NextRecord
<1>1. /\ next \in Record /\ next.id = written + 1 /\ written' = written + 1 /\ next.prev = memory.prev
      /\ memory'.prev = written + 1 /\ memory'.epoch = next.epoch
      /\ memory.epoch = None => next.epoch = written + 1
      /\ memory.epoch # None => next.epoch = memory.epoch
      /\ forgotten' = forgotten
  BY AppendStep DEF AppendEnds
<1>2. /\ written \in Nat /\ memory.prev \in Nat /\ memory.epoch \in Nat \cup {None}
      /\ next.epoch \in Nat \ {0} /\ None \notin Int
  BY <1>1, EvidenceAssumption DEF Types, Record
<1>3. Known' \subseteq Known \cup {next}
  <2>1. [EvidenceNext]_evidenceVars
    BY DEF EvidenceNext, ServerNext
  <2> QED
    BY <2>1, KnownStep
<1>4. \A r \in Known : r.id \in Nat /\ 0 < r.id /\ r.prev \in Nat /\ r.epoch \in Nat
  BY KnownTyped
<1>5. \A r \in Known : r.id <= written /\ r.prev < r.id
  BY DEF Chain
<1>6. /\ next.prev < next.id /\ next.epoch <= next.id
      /\ next.prev = Genesis => next.epoch = next.id
      /\ next.prev # Genesis => (next.prev + 1) .. (next.id - 1) \subseteq forgotten
  <2>1. CASE memory.prev = Genesis
    BY <2>1, <1>1, <1>2 DEF Chain, Genesis
  <2>2. CASE memory.prev # Genesis
    <3>1. memory.epoch # None /\ memory.epoch <= memory.prev /\ memory.prev <= written
      BY <2>2 DEF Chain
    <3>2. (memory.prev + 1) .. written \subseteq forgotten
      BY <2>2 DEF Chain
    <3>3. next.id - 1 = written
      BY <1>1, <1>2
    <3> QED
      BY <2>2, <3>1, <3>2, <3>3, <1>1, <1>2
  <2> QED
    BY <2>1, <2>2
<1>7. \A r \in Known' : /\ r.id <= written' /\ r.prev < r.id /\ r.epoch <= r.id
                        /\ r.prev = Genesis => r.epoch = r.id
                        /\ r.prev # Genesis => (r.prev + 1) .. (r.id - 1) \subseteq forgotten'
  <2> SUFFICES ASSUME NEW r \in Known'
               PROVE  /\ r.id <= written' /\ r.prev < r.id /\ r.epoch <= r.id
                      /\ r.prev = Genesis => r.epoch = r.id
                      /\ r.prev # Genesis => (r.prev + 1) .. (r.id - 1) \subseteq forgotten'
    OBVIOUS
  <2>1. CASE r = next
    BY <2>1, <1>1, <1>2, <1>6
  <2>2. CASE r \in Known
    <3>1. r.id <= written + 1
      BY <2>2, <1>2, <1>4, <1>5
    <3> QED
      BY <2>2, <3>1, <1>1 DEF Chain
  <2> QED
    BY <2>1, <2>2, <1>3
<1>8. ASSUME NEW r \in Known', NEW q \in Known'
      PROVE  (r.id = q.id => r = q) /\ (r.prev = q.id => r.epoch = q.epoch)
  <2>1. CASE r \in Known /\ q \in Known
    BY <2>1 DEF Chain
  <2>2. CASE r = next /\ q = next
    BY <2>2, <1>1, <1>2, <1>6
  <2>3. CASE r = next /\ q \in Known
    <3>1. q.id # next.id
      BY <2>3, <1>1, <1>2, <1>4, <1>5
    <3>2. ASSUME next.prev = q.id PROVE next.epoch = q.epoch
      <4>3. q.id \in Nat /\ 0 < q.id /\ next.prev = memory.prev
        BY <2>3, <1>1, <1>4
      <4>1. memory.prev = q.id /\ memory.prev # Genesis
        BY <3>2, <4>3 DEF Genesis
      <4>2. q.epoch = memory.epoch /\ memory.epoch # None
        BY <2>3, <4>1 DEF Chain
      <4> QED
        BY <4>2, <1>1
    <3> QED
      BY <2>3, <3>1, <3>2
  <2>4. CASE q = next /\ r \in Known
    BY <2>4, <1>1, <1>2, <1>4, <1>5
  <2> QED
    BY <2>1, <2>2, <2>3, <2>4, <1>3
<1>9. /\ memory'.prev <= written' /\ memory'.prev # Genesis /\ memory'.epoch # None
      /\ (memory'.prev + 1) .. written' \subseteq forgotten'
      /\ memory'.epoch <= memory'.prev
  BY <1>1, <1>2, <1>6 DEF Genesis
<1>10. \A q \in Known' : q.id = memory'.prev => q.epoch = memory'.epoch
  BY <1>1, <1>2, <1>3, <1>4, <1>5
<1> QED
  BY <1>7, <1>8, <1>9, <1>10 DEF Chain

\* The memory of a server that resumes fits the chain: all that is newer than what
\* it found is lost.
LEMMA ChainResumed ==
  ASSUME Types, VerifierType, Disk, Chain,
         Known' \subseteq Known, written' = written, forgotten \subseteq forgotten',
         \/ memory' = Unchained
         \/ \E l \in OnDisk' :
              /\ memory' = [seq |-> l.seq + 1, prev |-> l.id, epoch |-> l.epoch] /\ l \in Record
              /\ \A id \in (l.id + 1) .. written : id \in forgotten'
  PROVE  Chain'
<1>1. /\ \A r \in Known' : /\ r.id <= written' /\ r.prev < r.id /\ r.epoch <= r.id
                           /\ r.prev = Genesis => r.epoch = r.id
                           /\ r.prev # Genesis => (r.prev + 1) .. (r.id - 1) \subseteq forgotten'
      /\ \A r, q \in Known' : (r.id = q.id => r = q) /\ (r.prev = q.id => r.epoch = q.epoch)
  BY DEF Chain
<1>2. CASE memory' = Unchained
  <2>1. memory'.prev = Genesis /\ memory'.epoch = None /\ Genesis <= written'
    BY <1>2 DEF Unchained, Types, Genesis
  <2> QED
    BY <1>1, <2>1 DEF Chain
<1>3. CASE \E l \in OnDisk' :
             /\ memory' = [seq |-> l.seq + 1, prev |-> l.id, epoch |-> l.epoch] /\ l \in Record
             /\ \A id \in (l.id + 1) .. written : id \in forgotten'
  <2>1. PICK l \in OnDisk' :
          /\ memory' = [seq |-> l.seq + 1, prev |-> l.id, epoch |-> l.epoch] /\ l \in Record
          /\ \A id \in (l.id + 1) .. written : id \in forgotten'
    BY <1>3
  <2>2. l \in Known' /\ l \in Known
    BY <2>1 DEF Known
  <2>3. memory'.prev = l.id /\ memory'.epoch = l.epoch
    BY <2>1
  <2>4. /\ l.id \in Nat /\ 0 < l.id /\ l.epoch \in Nat /\ l.epoch <= l.id /\ l.id <= written'
    BY <2>2, <1>1, KnownTyped
  <2>5. memory'.prev # Genesis /\ memory'.epoch # None
    BY <2>3, <2>4, EvidenceAssumption DEF Genesis
  <2>6. (memory'.prev + 1) .. written' \subseteq forgotten'
    BY <2>1, <2>3
  <2>7. \A q \in Known' : q.id = memory'.prev => q.epoch = memory'.epoch
    BY <2>2, <2>3, <1>1
  <2> QED
    BY <1>1, <2>3, <2>4, <2>5, <2>6, <2>7 DEF Chain
<1> QED
  BY <1>2, <1>3

\* The files as a restarted server finds them.
LEMMA DiskOrdered ==
  ASSUME Types, Disk
  PROVE  Ordered(log, rotations)
BY DEF Types, Disk, Ordered, Name, Rotated

\* Every step keeps what the records say of one another true.
LEMMA ChainStep ==
  ASSUME Types, VerifierType, RemoteType, Disk, Chain, Accounted, [EvidenceNext]_evidenceVars, Types'
  PROVE  Chain'
<1>1. CASE AppendEnds
  BY <1>1, ChainAppend
<1>2. \/ AppendEnds \/ Restart \/ HostCrash \/ memory' = memory
  BY MemorySteps
<1>3. ASSUME ~AppendEnds PROVE Known' \subseteq Known /\ written' = written /\ forgotten \subseteq forgotten'
  BY <1>3, KnownStep, HistoryGrows
<1>4. ASSUME ~AppendEnds, memory' = memory PROVE Chain'
  BY <1>3, <1>4 DEF Chain
<1>5. ASSUME ~AppendEnds, NEW l \in OnDisk', \A r \in OnDisk' : r.id <= l.id, lost' \subseteq forgotten'
      PROVE  \A id \in (l.id + 1) .. written : id \in forgotten'
  <2> SUFFICES ASSUME NEW id \in (l.id + 1) .. written PROVE id \in lost'
    BY <1>5
  <2>1. Accounted' /\ written' = written
    BY <1>5, <1>3, AccountedStep
  <2>2. l.id \in Nat /\ written \in Nat /\ l \in Known
    BY <1>3, <1>5, KnownTyped DEF Known, Types
  <2>3. id \in 1 .. written' /\ id \in Nat /\ l.id < id
    BY <2>1, <2>2
  <2>4. id \in lost' \/ OnHost(id)' \/ \A r \in OnDisk' : id < r.id
    BY <2>1, <2>3 DEF Accounted
  <2>5. ~OnHost(id)'
    <3> SUFFICES ASSUME NEW r \in OnDisk', r.id = id PROVE FALSE
      BY DEF OnHost
    <3>1. id <= l.id
      BY <1>5
    <3> QED
      BY <3>1, <2>2, <2>3
  <2>6. ~(\A r \in OnDisk' : id < r.id)
    BY <1>5, <2>2, <2>3
  <2> QED
    BY <2>4, <2>5, <2>6
<1>6. ASSUME ~AppendEnds, Disk', memory' = Resumed(log'), lost' \subseteq forgotten' PROVE Chain'
  <2>1. PICK disk, newest : disk = log' /\ newest = rotations'
    OBVIOUS
  <2>2. Ordered(disk, newest)
    BY <2>1, <1>6 DEF Types, Disk, Ordered, Name, Rotated
  <2>3. OnDisk' = UNION {ToSet(disk[n]) : n \in DOMAIN disk}
    BY <2>1 DEF OnDisk, Name
  <2>4. \/ memory' = Unchained
        \/ \E l \in OnDisk' : /\ memory' = [seq |-> l.seq + 1, prev |-> l.id, epoch |-> l.epoch]
                              /\ l \in Record /\ \A r \in OnDisk' : r.id <= l.id
    BY <2>1, <2>2, <2>3, <1>6, ResumedStep
  <2>5. CASE memory' = Unchained
    BY <2>5, <1>3, <1>6, ChainResumed
  <2>6. ASSUME NEW l \in OnDisk', l \in Record, \A r \in OnDisk' : r.id <= l.id,
               memory' = [seq |-> l.seq + 1, prev |-> l.id, epoch |-> l.epoch]
        PROVE  Chain'
    <3>1. \A id \in (l.id + 1) .. written : id \in forgotten'
      BY <2>6, <1>5, <1>6
    <3> QED
      BY <2>6, <3>1, <1>3, <1>6, ChainResumed
  <2> QED
    BY <2>4, <2>5, <2>6
<1>7. ASSUME ~AppendEnds, Restart PROVE Chain'
  <2>1. /\ lost' = lost /\ forgotten' = forgotten \cup lost /\ log' = log
        /\ memory' = Resumed(log) \/ memory' = Unchained
    BY <1>7 DEF Restart, files
  <2>2. CASE memory' = Unchained
    BY <2>2, <1>3, <1>7, ChainResumed
  <2>3. CASE memory' = Resumed(log)
    <3>1. memory' = Resumed(log') /\ lost' \subseteq forgotten'
      BY <2>1, <2>3
    <3> QED
      BY <3>1, <1>6, <1>7, DiskStep
  <2> QED
    BY <2>1, <2>2, <2>3
<1>8. ASSUME ~AppendEnds, HostCrash PROVE Chain'
  <2>1. memory' = Resumed(log') /\ lost' \subseteq forgotten'
    BY <1>8 DEF HostCrash
  <2> QED
    BY <2>1, <1>6, <1>8, DiskStep
<1> QED
  BY <1>1, <1>2, <1>4, <1>7, <1>8

-----------------------------------------------------------------------------
(* What was read fits what is on the disk *)

\* The types of what was read, one by one.
LEMMA SegmentTyped ==
  ASSUME Types, VerifierType
  PROVE  /\ \A s \in verifier.got :
              /\ s \in Segment /\ s.path \in Path /\ s.path[1] \in Nat
              /\ \A a \in SegIds(s) : a \in Nat /\ 0 < a
         /\ \A p \in verifier.todo : p \in Path /\ p[1] \in Nat
         /\ \A n \in Names(verifier.todo) : n \in Nat
         /\ verifier.calm \in BOOLEAN
<1>1. ASSUME NEW s \in verifier.got
      PROVE  /\ s \in Segment /\ s.path \in Path /\ s.path[1] \in Nat
             /\ \A a \in SegIds(s) : a \in Nat /\ 0 < a
  <2>1. s \in Segment
    BY DEF VerifierType
  <2>2. s.path \in Path /\ s.recs \in Seq(Record)
    BY <2>1 DEF Segment
  <2>3. SegIds(s) \subseteq Nat \ {0}
    BY <2>2, RecordsTyped DEF SegIds
  <2> QED
    BY <2>1, <2>2, <2>3 DEF Path
<1>2. \A p \in verifier.todo : p \in Path /\ p[1] \in Nat
  BY DEF VerifierType, Path
<1>3. verifier.calm \in BOOLEAN
  BY DEF VerifierType
<1> QED
  BY <1>1, <1>2, <1>3 DEF Names

\* What is between an archive and the newest record fits one more record.
LEMMA ApartGrows ==
  ASSUME NEW A, \A a \in A : a \in Nat, NEW B, NEW w \in Nat, NEW d \in Int,
         Apart(A, {w}, d)
  PROVE  /\ Apart(A, {w + 1}, d)
         /\ Apart(A, B, d) => Apart(A, B \cup {w + 1}, d)
         /\ Apart(A, B, d + 1) => Apart(A, B \cup {w + 1}, d + 1)
<1>1. \A a \in A : a \in Nat /\ a + d <= w
  BY DEF Apart
<1>2. \A a \in A : a + d <= w + 1 /\ a + (d + 1) <= w + 1
  BY <1>1
<1> QED
  BY <1>2 DEF Apart

\* A record that is appended while a run reads comes behind what was read.
LEMMA ReadingAppend ==
  ASSUME Types, VerifierType, Disk, Reading, AppendEnds
  PROVE  Reading'
<1> DEFINE w == writing
<1>1. /\ w \in Name /\ Name' = Name /\ Rotated' = Rotated
      /\ \A n \in Name : n # w => log'[n] = log[n]
      /\ Ids(log'[w]) = Ids(log[w]) \cup {written + 1}
      /\ written' = written + 1 /\ writing' = None
      /\ verifier' = verifier /\ rotations' = rotations
  BY AppendStep DEF AppendEnds, rotation, Rotated
<1>2. /\ \A n \in Name : log[n] \in Seq(Record) /\ \A a \in Ids(log[n]) : a \in Nat /\ 0 < a
      /\ \A n \in Rotated : n \in Name /\ n \in Nat /\ 0 < n /\ n <= rotations /\ n # ActiveLog
      /\ ActiveLog \in Name /\ rotations \in Nat /\ written \in Nat
  BY FilesTyped
<1>3. /\ \A s \in verifier.got : /\ s.path[1] \in Nat
                                 /\ \A a \in SegIds(s) : a \in Nat /\ 0 < a
      /\ \A n \in Names(verifier.todo) : n \in Nat
  BY SegmentTyped
<1>4. w = ActiveLog \/ (w = rotations /\ w \in Rotated /\ log[ActiveLog] = <<>>)
  BY DEF Disk, AppendEnds
<1>5. None \notin Nat
  BY EvidenceAssumption
<1>6. TodoFits'
  BY <1>1, <1>3, <1>5 DEF Reading, TodoFits
<1>7. ASSUME NEW s \in verifier.got, s.path[1] # ActiveLog PROVE ArchiveFits(s)'
  <2> DEFINE p == s.path[1]
  <2>1. /\ p # w /\ Apart(SegIds(s), {written}, rotations - p)
        /\ Apart(SegIds(s), Ids(log[ActiveLog]), rotations + 1 - p)
        /\ p \in Name => s.recs = log[p]
        /\ \A n \in Rotated : /\ n > p => Apart(SegIds(s), Ids(log[n]), n - p)
                              /\ n < p => Apart(Ids(log[n]), SegIds(s), p - n)
        /\ p <= rotations
    BY <1>7 DEF Reading, SegmentFits, ArchiveFits
  <2>2. p \in Nat /\ rotations - p \in Int /\ rotations + 1 - p = (rotations - p) + 1
    BY <1>2, <1>3
  <2>3. /\ Apart(SegIds(s), {written + 1}, rotations - p)
        /\ \A B : /\ Apart(SegIds(s), B, rotations - p) =>
                       Apart(SegIds(s), B \cup {written + 1}, rotations - p)
                  /\ Apart(SegIds(s), B, rotations + 1 - p) =>
                       Apart(SegIds(s), B \cup {written + 1}, rotations + 1 - p)
    BY <2>1, <2>2, <1>2, <1>3, ApartGrows
  <2>4. Apart(SegIds(s), Ids(log'[ActiveLog]), rotations + 1 - p)
    <3>1. CASE w = ActiveLog
      BY <2>1, <2>3, <3>1, <1>1
    <3>2. CASE w # ActiveLog
      BY <2>1, <3>2, <1>1, <1>2
    <3> QED
      BY <3>1, <3>2
  <2>5. p \in Name => s.recs = log'[p]
    BY <2>1, <1>1
  <2>6. ASSUME NEW n \in Rotated
        PROVE  /\ n > p => Apart(SegIds(s), Ids(log'[n]), n - p)
               /\ n < p => Apart(Ids(log'[n]), SegIds(s), p - n)
    <3>1. CASE n # w
      BY <2>1, <3>1, <1>1, <1>2
    <3>2. CASE n = w
      <4>1. n = rotations
        BY <3>2, <1>2, <1>4
      <4>2. ~(n < p)
        BY <4>1, <2>1, <2>2, <1>2
      <4>3. n - p = rotations - p /\ Ids(log'[n]) = Ids(log[n]) \cup {written + 1}
        BY <3>2, <4>1, <1>1
      <4> QED
        BY <4>2, <4>3, <2>1, <2>3
    <3> QED
      BY <3>1, <3>2
  <2>7. p # None
    BY <2>2, <1>5
  <2> QED
    BY <2>3, <2>4, <2>5, <2>6, <2>7, <1>1 DEF ArchiveFits
<1>8. ASSUME NEW s \in verifier.got, s.path[1] = ActiveLog PROVE ActiveFits(s)'
  <2> SUFFICES ASSUME NEW n \in Rotated \cap Names(verifier.todo)
               PROVE  Apart(Ids(log'[n]), SegIds(s), FromActive(n))
    BY <1>1 DEF ActiveFits, FromActive
  <2>1. Apart(Ids(log[n]), SegIds(s), FromActive(n))
    BY <1>8 DEF Reading, SegmentFits, ActiveFits
  <2>2. n # w
    <3>1. w # ActiveLog /\ w \in Names(verifier.todo) => s.path[1] # ActiveLog
      BY DEF Reading, TodoFits
    <3> QED
      BY <3>1, <1>2, <1>8
  <2> QED
    BY <2>1, <2>2, <1>1, <1>2
<1>9. ASSUME NEW s \in verifier.got PROVE SegmentFits(s)'
  <2>1. ArchiveFits(s)' /\ ActiveFits(s)'
    BY <1>7, <1>8 DEF ArchiveFits, ActiveFits
  <2> QED
    BY <2>1, <1>1 DEF Reading, SegmentFits
<1>10. \A s, t \in verifier.got : PairFits(s, t)'
  BY <1>1 DEF Reading, PairFits, FromActive
<1> QED
  BY <1>1, <1>6, <1>9, <1>10 DEF Reading

\* With or without a rotation meanwhile, an archive is older than the active file.
LEMMA FromActiveWeaker ==
  ASSUME rotations \in Nat, NEW A, NEW B, NEW n \in Nat, n <= rotations,
         \A a \in A \cup B : a \in Nat, Apart(A, B, FromActive(n))
  PROVE  Apart(A, B, 1)
<1>1. FromActive(n) \in Nat /\ 1 <= FromActive(n)
  BY DEF FromActive
<1>2. PICK d : d = FromActive(n)
  OBVIOUS
<1>3. \A x \in A, y \in B : x \in Nat /\ y \in Nat /\ x + d <= y
  BY <1>2 DEF Apart
<1>4. \A x \in A, y \in B : x + 1 <= y
  BY <1>1, <1>2, <1>3
<1> QED
  BY <1>4 DEF Apart

\* A rotation while a run reads: what was read as the active file is now an archive.
LEMMA ReadingRename ==
  ASSUME Types, VerifierType, Disk, Reading, Rename
  PROVE  Reading'
<1> DEFINE R == rotations + 1
<1>1. /\ rotations' = R /\ R \in Nat \ {0} /\ R \notin Name
      /\ log'[R] = log[ActiveLog] /\ log'[ActiveLog] = <<>> /\ log[ActiveLog] # <<>>
      /\ \A n \in Rotated : log'[n] = log[n] /\ n # R
      /\ Rotated' = Rotated \cup {R} /\ Name' = Name \cup {R}
      /\ \/ writing = None /\ writing' = None
         \/ writing = ActiveLog /\ writing' = R
  BY RenameStep
<1>2. /\ \A n \in Name : log[n] \in Seq(Record) /\ \A a \in Ids(log[n]) : a \in Nat /\ 0 < a
      /\ \A n \in Rotated : n \in Name /\ n \in Nat /\ 0 < n /\ n <= rotations /\ n # ActiveLog
      /\ ActiveLog \in Name /\ Name = Rotated \cup {ActiveLog}
      /\ rotations \in Nat /\ written \in Nat
  BY FilesTyped
<1>3. /\ \A s \in verifier.got : /\ s.path[1] \in Nat
                                 /\ \A a \in SegIds(s) : a \in Nat /\ 0 < a
      /\ \A n \in Names(verifier.todo) : n \in Nat
      /\ \A p \in verifier.todo : p[1] \in Nat
  BY SegmentTyped
<1>4. /\ verifier'.got = verifier.got /\ verifier'.todo = verifier.todo /\ verifier'.calm = FALSE
      /\ written' = written
  BY DEF Rename, Disturbed, VerifierType, past
<1>5. PICK b \in Ids(log[ActiveLog]) : b <= written /\ b \in Nat
  <2>1. PICK r : r \in ToSet(log[ActiveLog])
    BY <1>1, <1>2, Dropped
  <2> QED
    BY <2>1, <1>2, IdsOfRecords DEF Disk
<1>6. \A p \in verifier.todo : p[1] <= rotations
  BY DEF Reading, TodoFits
<1>7. TodoFits'
  <2>1. \A p \in verifier.todo : p[1] <= R /\ p[1] # R /\ p[1] # None
    BY <1>2, <1>3, <1>6, EvidenceAssumption
  <2>2. writing' \notin Names(verifier.todo)
    BY <2>1, <1>1, <1>3, EvidenceAssumption DEF Names
  <2> QED
    BY <2>1, <2>2, <1>1, <1>4 DEF Reading, TodoFits
<1>8. ASSUME NEW s \in verifier.got, s.path[1] # ActiveLog PROVE ArchiveFits(s)'
  <2> DEFINE p == s.path[1]
  <2>1. /\ Apart(SegIds(s), Ids(log[ActiveLog]), rotations + 1 - p)
        /\ p \in Name => s.recs = log[p]
        /\ \A n \in Rotated : /\ n > p => Apart(SegIds(s), Ids(log[n]), n - p)
                              /\ n < p => Apart(Ids(log[n]), SegIds(s), p - n)
        /\ p <= rotations
    BY <1>8 DEF Reading, SegmentFits, ArchiveFits
  <2>2. p \in Nat /\ p # R /\ p < R /\ p # None /\ R - p = rotations + 1 - p
    BY <1>2, <1>3, <2>1, EvidenceAssumption
  <2>3. p # writing'
    BY <1>1, <2>2
  <2>4. Apart(SegIds(s), {written}, R - p)
    <3>1. \A a \in SegIds(s) : a + (rotations + 1 - p) <= b
      BY <2>1, <1>5 DEF Apart
    <3>2. \A a \in SegIds(s) : a \in Nat
      BY <1>3
    <3>3. \A a \in SegIds(s) : a + (R - p) <= written
      BY <3>1, <3>2, <2>2, <1>2, <1>5
    <3> QED
      BY <3>3 DEF Apart
  <2>5. Apart(SegIds(s), Ids(log'[ActiveLog]), R + 1 - p)
    BY <1>1, EmptyFile DEF Apart
  <2>6. p \in Name' => s.recs = log'[p]
    BY <2>1, <2>2, <1>1, <1>2, <1>8
  <2>7. ASSUME NEW n \in Rotated'
        PROVE  /\ n > p => Apart(SegIds(s), Ids(log'[n]), n - p)
               /\ n < p => Apart(Ids(log'[n]), SegIds(s), p - n)
    <3>1. CASE n = R
      <4>1. ~(n < p)
        BY <3>1, <2>2, <1>1
      <4>2. Ids(log'[n]) = Ids(log[ActiveLog]) /\ n - p = rotations + 1 - p
        BY <3>1, <2>2, <1>1
      <4> QED
        BY <4>1, <4>2, <2>1
    <3>2. CASE n \in Rotated
      BY <3>2, <2>1, <1>1
    <3> QED
      BY <3>1, <3>2, <1>1
  <2> QED
    BY <2>3, <2>4, <2>5, <2>6, <2>7, <1>1, <1>4 DEF ArchiveFits
<1>10. ASSUME NEW n PROVE FromActive(n)' = 1
  BY <1>4 DEF FromActive
<1>11. ASSUME NEW s \in verifier.got, s.path[1] = ActiveLog PROVE ActiveFits(s)'
  <2> SUFFICES ASSUME NEW n \in Rotated' \cap Names(verifier.todo)
               PROVE  Apart(Ids(log'[n]), SegIds(s), 1)
    BY <1>4 DEF ActiveFits, FromActive
  <2>1. n # R
    BY <1>2, <1>3, <1>6 DEF Names
  <2>2. n \in Rotated /\ log'[n] = log[n]
    BY <2>1, <1>1
  <2>3. Apart(Ids(log[n]), SegIds(s), FromActive(n))
    BY <2>2, <1>11 DEF Reading, SegmentFits, ActiveFits
  <2>4. n \in Nat /\ n <= rotations /\ \A a \in Ids(log[n]) \cup SegIds(s) : a \in Nat
    BY <2>2, <1>2, <1>3
  <2> QED
    BY <2>2, <2>3, <2>4, <1>2, FromActiveWeaker
<1>12. ASSUME NEW s \in verifier.got PROVE SegmentFits(s)'
  <2>1. ArchiveFits(s)' /\ ActiveFits(s)'
    BY <1>8, <1>11 DEF ArchiveFits, ActiveFits
  <2>2. s.path[1] <= R
    BY <1>2, <1>3 DEF Reading, SegmentFits
  <2> QED
    BY <2>1, <2>2, <1>1, <1>4 DEF Reading, SegmentFits
<1>13. ASSUME NEW s \in verifier.got, NEW t \in verifier.got PROVE PairFits(s, t)'
  <2>1. PairFits(s, t)
    BY DEF Reading
  <2>2. ASSUME s.path[1] # ActiveLog, t.path[1] = ActiveLog PROVE Apart(SegIds(s), SegIds(t), 1)
    <3>1. Apart(SegIds(s), SegIds(t), FromActive(s.path[1]))
      BY <2>1, <2>2 DEF PairFits
    <3>2. s.path[1] \in Nat /\ s.path[1] <= rotations /\ \A a \in SegIds(s) \cup SegIds(t) : a \in Nat
      BY <1>3 DEF Reading, SegmentFits
    <3> QED
      BY <3>1, <3>2, <1>2, FromActiveWeaker
  <2> QED
    BY <2>1, <2>2, <1>10 DEF PairFits
<1> QED
  BY <1>4, <1>7, <1>12, <1>13 DEF Reading

\* Files only disappear, and logrotate may disturb the run.
LEMMA ReadingShrinks ==
  ASSUME Types, VerifierType, Reading, NEW X, X \subseteq Rotated,
         log' = [n \in Name \ X |-> log[n]],
         rotations' = rotations, written' = written, writing' \in {writing, ActiveLog},
         verifier'.got = verifier.got, verifier'.todo = verifier.todo,
         verifier'.calm \in {verifier.calm, FALSE}
  PROVE  Reading'
<1>1. /\ Name' = Name \ X /\ Rotated' = Rotated \ X /\ ActiveLog \in Name'
      /\ \A n \in Name' : log'[n] = log[n]
  BY RemoveStep
<1>2. /\ \A n \in Name : \A a \in Ids(log[n]) : a \in Nat
      /\ \A n \in Rotated : n \in Name /\ n \in Nat /\ n <= rotations
      /\ rotations \in Nat
  BY FilesTyped
<1>3. /\ \A s \in verifier.got : /\ s.path[1] \in Nat
                                 /\ \A a \in SegIds(s) : a \in Nat /\ 0 < a
      /\ verifier.calm \in BOOLEAN
  BY SegmentTyped
<1>4. TodoFits'
  BY <1>3 DEF Reading, TodoFits
<1>5. ASSUME NEW s \in verifier.got, s.path[1] # ActiveLog PROVE ArchiveFits(s)'
  <2>1. ArchiveFits(s)
    BY DEF Reading, SegmentFits
  <2>2. \A n \in Rotated' : n \in Rotated /\ log'[n] = log[n]
    BY <1>1, <1>2
  <2> QED
    BY <2>1, <2>2, <1>1, <1>5 DEF ArchiveFits
<1>6. ASSUME NEW A, NEW B, NEW n \in Nat, n <= rotations, \A a \in A \cup B : a \in Nat,
             Apart(A, B, FromActive(n))
      PROVE  Apart(A, B, FromActive(n)')
  <2>1. CASE verifier'.calm = verifier.calm
    BY <2>1, <1>6 DEF FromActive
  <2>2. CASE verifier'.calm = FALSE
    <3>1. FromActive(n)' = 1
      BY <2>2 DEF FromActive
    <3> QED
      BY <3>1, <1>2, <1>6, FromActiveWeaker
  <2> QED
    BY <2>1, <2>2
<1>7. ASSUME NEW s \in verifier.got, s.path[1] = ActiveLog PROVE ActiveFits(s)'
  <2> SUFFICES ASSUME NEW n \in Rotated' \cap Names(verifier.todo)
               PROVE  Apart(Ids(log'[n]), SegIds(s), FromActive(n)')
    BY DEF ActiveFits
  <2>1. n \in Rotated /\ n \in Name' /\ log'[n] = log[n]
    BY <1>1, <1>2
  <2>2. Apart(Ids(log[n]), SegIds(s), FromActive(n))
    BY <2>1, <1>7 DEF Reading, SegmentFits, ActiveFits
  <2>3. n \in Nat /\ n <= rotations /\ \A a \in Ids(log[n]) \cup SegIds(s) : a \in Nat
    BY <2>1, <1>2, <1>3
  <2> QED
    BY <2>1, <2>2, <2>3, <1>6
<1>8. ASSUME NEW s \in verifier.got PROVE SegmentFits(s)'
  <2>1. ArchiveFits(s)' /\ ActiveFits(s)'
    BY <1>5, <1>7 DEF ArchiveFits, ActiveFits
  <2> QED
    BY <2>1 DEF Reading, SegmentFits
<1>9. ASSUME NEW s \in verifier.got, NEW t \in verifier.got PROVE PairFits(s, t)'
  <2>1. PairFits(s, t)
    BY DEF Reading
  <2>2. ASSUME s.path[1] # ActiveLog, t.path[1] = ActiveLog
        PROVE  Apart(SegIds(s), SegIds(t), FromActive(s.path[1])')
    <3>1. Apart(SegIds(s), SegIds(t), FromActive(s.path[1]))
      BY <2>1, <2>2 DEF PairFits
    <3>2. s.path[1] \in Nat /\ s.path[1] <= rotations /\ \A a \in SegIds(s) \cup SegIds(t) : a \in Nat
      BY <1>3 DEF Reading, SegmentFits
    <3> QED
      BY <3>1, <3>2, <1>6
  <2> QED
    BY <2>1, <2>2 DEF PairFits
<1> QED
  BY <1>4, <1>8, <1>9 DEF Reading

\* A run begins with the files under the names they have.
LEMMA ReadingList ==
  ASSUME Types, VerifierType, Disk, ListPaths
  PROVE  Reading'
<1>1. /\ verifier'.got = {} /\ verifier'.todo = Listed /\ verifier'.calm = (rotating = "idle")
      /\ UNCHANGED <<log, zipped, doubled, writing, rotations, written>>
  BY DEF ListPaths, Idle, files, rotation, past
<1>2. ASSUME NEW p \in Listed
      PROVE  /\ p[1] <= rotations /\ (p[1] = ActiveLog => p[2] = "plain")
             /\ doubled = 0 => p[2] = (IF p[1] \in zipped THEN "gz" ELSE "plain")
             /\ p = <<p[1], p[2]>>
  BY <1>1 DEF Listed, Types, Rotated, ActiveLog
<1>3. rotating = "idle" => \A p, q \in Listed : p[1] = q[1] => p = q
  BY <1>2 DEF Disk
<1> QED
  BY <1>1, <1>2, <1>3 DEF Reading, TodoFits

\* A file that is read fits what was read and what is still to be read.
LEMMA ReadingVerify ==
  ASSUME Types, VerifierType, Disk, Reading, NEW path \in verifier.todo, VerifySegment(path)
  PROVE  Reading'
<1> DEFINE p == path[1]
<1> PICK new : new = [path |-> path, recs |-> log[p]]
  OBVIOUS
<1>1. /\ verifier'.todo = verifier.todo \ {path}
      /\ verifier'.calm \in {verifier.calm, FALSE}
      /\ UNCHANGED <<log, writing, rotations, written>>
  <2>1. verifier'.calm = (verifier.calm /\ (path[1] = ActiveLog \/ path[1] # writing))
    BY DEF VerifySegment, VerifierType
  <2> QED
    BY <2>1, SegmentTyped, VerifyStep DEF host
<1>2. /\ \A n \in Name : \A a \in Ids(log[n]) : a \in Nat /\ 0 < a
      /\ \A n \in Rotated : n \in Name /\ n \in Nat /\ n <= rotations /\ n # ActiveLog
      /\ rotations \in Nat
  BY FilesTyped
<1>3. /\ \A s \in verifier.got : /\ s.path[1] \in Nat /\ s.path \in Path
                                 /\ \A a \in SegIds(s) : a \in Nat /\ 0 < a
      /\ path \in Path /\ p \in Nat /\ path = <<path[1], path[2]>>
  BY SegmentTyped DEF Path
<1>4. p <= rotations /\ (p = ActiveLog => path[2] = "plain")
  BY DEF Reading, TodoFits
<1>5. ASSUME NEW A, NEW B, NEW n \in Nat, n <= rotations, \A a \in A \cup B : a \in Nat,
             Apart(A, B, FromActive(n))
      PROVE  Apart(A, B, FromActive(n)')
  <2>1. CASE verifier'.calm = verifier.calm
    BY <2>1, <1>1, <1>5 DEF FromActive
  <2>2. CASE verifier'.calm = FALSE
    <3>1. FromActive(n)' = 1
      BY <2>2 DEF FromActive
    <3> QED
      BY <3>1, <1>2, <1>5, FromActiveWeaker
  <2> QED
    BY <2>1, <2>2, <1>1
<1>6. ASSUME NEW s \in verifier.got PROVE SegmentFits(s)'
  <2>1. SegmentFits(s)
    BY DEF Reading
  <2>2. ArchiveFits(s)'
    BY <2>1, <1>1 DEF SegmentFits, ArchiveFits, Name, Rotated
  <2>3. ASSUME s.path[1] = ActiveLog, NEW n \in Rotated \cap Names(verifier'.todo)
        PROVE  Apart(Ids(log[n]), SegIds(s), FromActive(n)')
    <3>1. n \in Rotated \cap Names(verifier.todo)
      BY <1>1 DEF Names
    <3>2. Apart(Ids(log[n]), SegIds(s), FromActive(n))
      BY <3>1, <2>1, <2>3 DEF SegmentFits, ActiveFits
    <3>3. n \in Nat /\ n <= rotations /\ \A a \in Ids(log[n]) \cup SegIds(s) : a \in Nat
      BY <1>2, <1>3
    <3> QED
      BY <3>2, <3>3, <1>5
  <2>4. ActiveFits(s)'
    BY <2>3, <1>1 DEF ActiveFits, Rotated, Name
  <2> QED
    BY <2>1, <2>2, <2>4, <1>1 DEF SegmentFits
<1>7. ASSUME NEW s \in verifier.got, NEW t \in verifier.got PROVE PairFits(s, t)'
  <2>1. PairFits(s, t)
    BY DEF Reading
  <2>2. ASSUME s.path[1] # ActiveLog, t.path[1] = ActiveLog
        PROVE  Apart(SegIds(s), SegIds(t), FromActive(s.path[1])')
    <3>1. Apart(SegIds(s), SegIds(t), FromActive(s.path[1]))
      BY <2>1, <2>2 DEF PairFits
    <3>2. s.path[1] \in Nat /\ s.path[1] <= rotations /\ \A a \in SegIds(s) \cup SegIds(t) : a \in Nat
      BY <1>3 DEF Reading, SegmentFits
    <3> QED
      BY <3>1, <3>2, <1>5
  <2> QED
    BY <2>1, <2>2 DEF PairFits
<1>8. CASE verifier'.got = verifier.got
  <2>1. TodoFits'
    BY <1>1, <1>8 DEF Reading, TodoFits, Names
  <2> QED
    BY <2>1, <1>6, <1>7, <1>8 DEF Reading
<1>9. CASE /\ verifier'.got = verifier.got \cup {new}
           /\ p \in Name /\ log[p] # <<>>
           /\ \A i \in 2 .. Len(log[p]) : Linked(log[p][i - 1], log[p][i])
           /\ p = writing => p = ActiveLog
  <2>1. /\ new.path = path /\ new.recs = log[p] /\ SegIds(new) = Ids(log[p])
    BY DEF SegIds
  <2>2. p # ActiveLog => p \in Rotated
    BY <1>9 DEF Rotated
  <2>3. TodoFits'
    <3>1. verifier'.todo \cup {s.path : s \in verifier'.got} = verifier.todo \cup {s.path : s \in verifier.got}
      BY <1>1, <1>9, <2>1
    <3>2. verifier'.calm => \A q, r \in verifier'.todo \cup {s.path : s \in verifier'.got} :
                              q[1] = r[1] => q = r
      BY <3>1, <1>1 DEF Reading, TodoFits
    <3>3. ASSUME writing # ActiveLog, writing \in Names(verifier'.todo), NEW s \in verifier'.got
          PROVE  s.path[1] # ActiveLog
      <4>1. writing \in Names(verifier.todo)
        BY <3>3, <1>1 DEF Names
      <4>2. CASE s \in verifier.got
        BY <4>1, <4>2, <3>3 DEF Reading, TodoFits
      <4>3. CASE s = new
        <5>1. writing # None
          BY <4>1, SegmentTyped, EvidenceAssumption
        <5>2. log[ActiveLog] = <<>>
          BY <5>1, <3>3 DEF Disk
        <5> QED
          BY <5>2, <4>3, <2>1, <1>9
      <4> QED
        BY <4>2, <4>3, <1>9
    <3>4. \A q \in verifier'.todo : q[1] <= rotations /\ (q[1] = ActiveLog => q[2] = "plain")
      BY <1>1 DEF Reading, TodoFits
    <3> QED
      BY <3>2, <3>3, <3>4, <1>1 DEF TodoFits
  <2>4. ArchiveFits(new)'
    <3> SUFFICES ASSUME p # ActiveLog
                 PROVE  /\ p # writing
                        /\ Apart(Ids(log[p]), {written}, rotations - p)
                        /\ Apart(Ids(log[p]), Ids(log[ActiveLog]), rotations + 1 - p)
                        /\ \A n \in Rotated : /\ n > p => Apart(Ids(log[p]), Ids(log[n]), n - p)
                                              /\ n < p => Apart(Ids(log[n]), Ids(log[p]), p - n)
      BY <2>1, <1>1 DEF ArchiveFits, Name, Rotated
    <3> QED
      BY <2>2, <1>2, <1>9 DEF Disk
  <2>5. ActiveFits(new)'
    <3> SUFFICES ASSUME p = ActiveLog, NEW n \in Rotated \cap Names(verifier'.todo)
                 PROVE  Apart(Ids(log[n]), Ids(log[p]), FromActive(n)')
      BY <2>1, <1>1 DEF ActiveFits, Name, Rotated
    <3>1. Apart(Ids(log[n]), Ids(log[ActiveLog]), rotations + 1 - n) /\ n \in Nat /\ n <= rotations
      BY <1>2 DEF Disk
    <3>2. CASE verifier'.calm
      BY <3>1, <3>2, <1>1 DEF FromActive
    <3>3. CASE ~verifier'.calm
      <4>1. \A a \in Ids(log[n]), c \in Ids(log[ActiveLog]) :
              a \in Nat /\ c \in Nat /\ a + (rotations + 1 - n) <= c
        BY <3>1, <1>2, <1>9 DEF Apart
      <4>2. \A a \in Ids(log[n]), c \in Ids(log[ActiveLog]) : a + 1 <= c
        BY <4>1, <3>1, <1>2
      <4> QED
        BY <4>2, <3>3 DEF Apart, FromActive
    <3> QED
      BY <3>2, <3>3
  <2>6. SegmentFits(new)'
    BY <2>1, <2>4, <2>5, <1>1, <1>4, <1>9 DEF SegmentFits, Disk
  <2>7. ASSUME NEW s \in verifier.got PROVE PairFits(s, new)' /\ PairFits(new, s)'
    <3>1. s.path # path /\ SegmentFits(s)
      BY DEF Reading, SegmentFits
    <3>2. s.path[1] = p => s.recs = log[p]
      <4>1. CASE p = ActiveLog
        <5>1. s.path[1] = p => s.path = path
          BY <3>1, <4>1, <1>3, <1>4 DEF SegmentFits, Path
        <5> QED
          BY <5>1, <3>1
      <4>2. CASE p # ActiveLog
        BY <3>1, <4>2, <1>9 DEF SegmentFits, ArchiveFits
      <4> QED
        BY <4>1, <4>2
    <3>3. s.path[1] # ActiveLog /\ s.path[1] < p => Apart(SegIds(s), SegIds(new), p - s.path[1])
      <4> SUFFICES ASSUME s.path[1] # ActiveLog, s.path[1] < p PROVE Apart(SegIds(s), Ids(log[p]), p - s.path[1])
        BY <2>1
      <4>1. p \in Rotated
        BY <1>3, <2>2 DEF ActiveLog
      <4> QED
        BY <4>1, <3>1, <1>3 DEF SegmentFits, ArchiveFits
    <3>4. s.path[1] # ActiveLog /\ p = ActiveLog => Apart(SegIds(s), SegIds(new), FromActive(s.path[1])')
      <4> SUFFICES ASSUME s.path[1] # ActiveLog, p = ActiveLog
                   PROVE  Apart(SegIds(s), Ids(log[ActiveLog]), FromActive(s.path[1])')
        BY <2>1
      <4>1. /\ Apart(SegIds(s), Ids(log[ActiveLog]), rotations + 1 - s.path[1])
            /\ s.path[1] \in Nat /\ s.path[1] <= rotations
        BY <3>1, <1>3 DEF SegmentFits, ArchiveFits
      <4>2. CASE verifier'.calm
        BY <4>1, <4>2, <1>1 DEF FromActive
      <4>3. CASE ~verifier'.calm
        <5>1. \A a \in SegIds(s), c \in Ids(log[ActiveLog]) :
                a \in Nat /\ c \in Nat /\ a + (rotations + 1 - s.path[1]) <= c
          BY <4>1, <1>2, <1>3, <1>9 DEF Apart
        <5>2. \A a \in SegIds(s), c \in Ids(log[ActiveLog]) : a + 1 <= c
          BY <5>1, <4>1, <1>2
        <5> QED
          BY <5>2, <4>3 DEF Apart, FromActive
      <4> QED
        BY <4>2, <4>3
    <3>5. p # ActiveLog /\ p < s.path[1] => Apart(SegIds(new), SegIds(s), s.path[1] - p)
      <4> SUFFICES ASSUME p # ActiveLog, p < s.path[1] PROVE Apart(Ids(log[p]), SegIds(s), s.path[1] - p)
        BY <2>1
      <4>1. p \in Rotated /\ s.path[1] # ActiveLog
        BY <1>3, <2>2 DEF ActiveLog
      <4> QED
        BY <4>1, <3>1, <1>3 DEF SegmentFits, ArchiveFits
    <3>6. p # ActiveLog /\ s.path[1] = ActiveLog => Apart(SegIds(new), SegIds(s), FromActive(p)')
      <4> SUFFICES ASSUME p # ActiveLog, s.path[1] = ActiveLog
                   PROVE  Apart(Ids(log[p]), SegIds(s), FromActive(p)')
        BY <2>1
      <4>1. p \in Rotated \cap Names(verifier.todo)
        BY <2>2 DEF Names
      <4>2. Apart(Ids(log[p]), SegIds(s), FromActive(p))
        BY <4>1, <3>1 DEF SegmentFits, ActiveFits
      <4>3. \A a \in Ids(log[p]) \cup SegIds(s) : a \in Nat
        BY <1>2, <1>3, <1>9
      <4> QED
        BY <4>2, <4>3, <1>3, <1>4, <1>5
    <3> QED
      BY <2>1, <3>1, <3>2, <3>3, <3>4, <3>5, <3>6 DEF PairFits
  <2>8. PairFits(new, new)'
    BY <2>1, <1>3 DEF PairFits, ActiveLog
  <2>9. \A s \in verifier'.got : SegmentFits(s)'
    BY <2>6, <1>6, <1>9
  <2>10. \A s, t \in verifier'.got : PairFits(s, t)'
    BY <2>7, <2>8, <1>7, <1>9
  <2> QED
    BY <2>3, <2>9, <2>10 DEF Reading
<1> QED
  BY <1>8, <1>9, VerifyStep

\* Every step keeps what was read in place.
LEMMA ReadingStep ==
  ASSUME Types, VerifierType, Disk, Reading, [EvidenceNext]_evidenceVars
  PROVE  Reading'
<1>1. CASE ListPaths
  BY <1>1, ReadingList
<1>2. ASSUME NEW path \in verifier.todo, VerifySegment(path) PROVE Reading'
  BY <1>2, ReadingVerify
<1>3. CASE verifier'.got = {} /\ verifier'.todo = {}
  BY <1>3 DEF Reading, TodoFits, Names
<1>4. CASE /\ verifier'.got = verifier.got /\ verifier'.todo = verifier.todo
           /\ verifier'.calm \in {verifier.calm, FALSE}
  <2>1. ASSUME log' = log, rotations' = rotations, written' = written, writing' \in {writing, ActiveLog}
        PROVE  Reading'
    <3>3. PICK X : X = {}
      OBVIOUS
    <3>1. log' = [n \in Name \ X |-> log[n]]
      BY <2>1, <3>3 DEF Types, Name
    <3>2. X \subseteq Rotated
      BY <3>3
    <3> QED
      BY <3>1, <3>2, <2>1, <1>4, ReadingShrinks
  <2>2. CASE AppendBegins
    <3>1. log' = log /\ rotations' = rotations /\ written' = written /\ writing' = ActiveLog
      BY <2>2 DEF AppendBegins, files, rotation, past
    <3> QED
      BY <2>1, <3>1
  <2>3. CASE AppendEnds
    BY <2>3, ReadingAppend
  <2>4. CASE CompressBegins \/ CompressEnds
    <3>1. log' = log /\ rotations' = rotations /\ written' = written /\ writing' = writing
      BY <2>4 DEF CompressBegins, CompressEnds, Rotating, past
    <3> QED
      BY <2>1, <3>1
  <2>5. CASE Rename
    BY <2>5, ReadingRename
  <2>6. CASE Prune
    <3>1. PICK X \in SUBSET Rotated : log' = [n \in Name \ X |-> log[n]]
      BY <2>6, PruneStep
    <3>2. rotations' = rotations /\ written' = written /\ writing' = writing
      BY <2>6 DEF Prune, Rotating
    <3> QED
      BY <3>1, <3>2, <1>4, ReadingShrinks
  <2>7. ASSUME NEW n \in Name, LoseArchive(n) PROVE Reading'
    <3>1. /\ log' = [k \in Name \ {n} |-> log[k]] /\ {n} \subseteq Rotated
          /\ rotations' = rotations /\ written' = written /\ writing' = writing
      BY <2>7 DEF LoseArchive, rotation
    <3> QED
      BY <3>1, <1>4, ReadingShrinks
  <2>8. CASE HostCrash
    <3>1. verifier'.got = {} /\ verifier'.todo = {}
      BY <2>8 DEF HostCrash, Onto, Idle
    <3> QED
      BY <3>1, <1>3
  <2>9. CASE UNCHANGED host
    <3>1. log' = log /\ rotations' = rotations /\ written' = written /\ writing' = writing
      BY <2>9 DEF host
    <3> QED
      BY <2>1, <3>1
  <2> QED
    BY <2>2, <2>3, <2>4, <2>5, <2>6, <2>7, <2>8, <2>9, StepsOnFiles
<1> QED
  BY <1>1, <1>2, <1>3, <1>4, StepsOfReading

-----------------------------------------------------------------------------
(* Types *)

\* Every step keeps the types of the verifier.
LEMMA VerifierTypeStep ==
  ASSUME Types, VerifierType, RemoteType, Chain, Reading, Disk, [EvidenceNext]_evidenceVars
  PROVE  VerifierType'
<1> USE DEF VerifierType
<1>1. CASE verifier' = verifier
  BY <1>1
<1>2. CASE verifier' = Disturbed
  BY <1>2 DEF Disturbed
<1>3. ASSUME NEW stage \in Stage, verifier' = Onto(stage) PROVE VerifierType'
  BY <1>3 DEF Onto, Idle, MaybeNat, Stage
<1>4. CASE UNCHANGED evidenceVars
  BY <1>1, <1>4 DEF evidenceVars
<1>5. CASE AppendBegins \/ AppendEnds \/ Restart \/ LoseCheckpoints \/ SpoilLedger \/ Approve
           \/ \E n \in Name : Damage(n) \/ LoseArchive(n)
  BY <1>1, <1>5 DEF AppendBegins, AppendEnds, Restart, LoseCheckpoints, SpoilLedger, Approve,
     Damage, LoseArchive
<1>6. CASE CompressBegins \/ CompressEnds \/ Rename \/ Prune
  BY <1>2, <1>6 DEF CompressBegins, CompressEnds, Rename, Prune, Rotating
<1>7. CASE HostCrash \/ WriteAnchor \/ Compare \/ Sync
  <2>1. \E stage \in Stage : verifier' = Onto(stage)
    BY <1>7 DEF HostCrash, WriteAnchor, Compare, Sync, Stage
  <2> QED
    BY <2>1, <1>3
<1>8. CASE Abort
  <2>1. \/ verifier' = [verifier EXCEPT !.at = "anchor", !.ok = FALSE]
        \/ verifier' = Onto("idle")
    BY <1>8 DEF Abort
  <2>2. CASE verifier' = [verifier EXCEPT !.at = "anchor", !.ok = FALSE]
    BY <2>2 DEF Stage
  <2> QED
    BY <2>1, <2>2, <1>3 DEF Stage
<1>9. CASE Decide
  <2> DEFINE ok == verifier.ok /\ verifier.got # {} /\ HeadOf(verifier.got) # "refused"
                     /\ SeamsHold(verifier.got)
             head == IF verifier.got = {} THEN "genesis" ELSE HeadOf(verifier.got)
             epoch == IF verifier.got = {} THEN None ELSE Epoch(verifier.got, Newest(verifier.got))
  <2>1. verifier' = [verifier EXCEPT !.at = IF ok THEN "save" ELSE "anchor",
                                     !.ok = ok, !.head = head, !.epoch = epoch]
    BY <1>9 DEF Decide
  <2>2. ok \in BOOLEAN
    BY DEF SeamsHold
  <2>3. head \in {"genesis", "approved", "checkpoint", "refused"}
    BY DEF HeadOf
  <2>4. epoch \in MaybeNat
    <3>1. CASE verifier.got = {}
      BY <3>1 DEF MaybeNat
    <3>2. CASE verifier.got # {}
      <4>1. Newest(verifier.got) \in verifier.got
        BY <3>2, ReadSorted, NewestFound
      <4> QED
        BY <3>2, <4>1, EpochTyped
    <3> QED
      BY <3>1, <3>2
  <2>5. (IF ok THEN "save" ELSE "anchor") \in Stage
    BY DEF Stage
  <2> HIDE DEF ok, head, epoch
  <2> QED
    BY <2>1, <2>2, <2>3, <2>4, <2>5
<1>10. CASE SaveCheckpoints
  BY <1>10 DEF SaveCheckpoints, Stage
<1>11. CASE ListPaths
  <2>1. verifier' = [Idle EXCEPT !.at = "read", !.todo = Listed, !.ok = Ledger.valid,
                                 !.calm = (rotating = "idle")]
    BY <1>11 DEF ListPaths
  <2>2. Ledger.valid \in BOOLEAN
    BY DEF Ledger, Types
  <2>3. Listed \subseteq (0 .. rotations) \X {"plain", "gz"}
    BY DEF Listed, Types, Rotated
  <2>4. (0 .. rotations) \X {"plain", "gz"} \subseteq Path
    BY DEF Path, Types
  <2>5. Listed \subseteq Path
    BY <2>3, <2>4
  <2> QED
    BY <2>1, <2>2, <2>5 DEF Idle, Stage, MaybeNat
<1>12. ASSUME NEW path \in verifier.todo, VerifySegment(path) PROVE VerifierType'
  <2>1. /\ verifier'.todo = verifier.todo \ {path}
        /\ \/ verifier'.got = verifier.got
           \/ \E s \in Segment : verifier'.got = verifier.got \cup {s}
    BY <1>12, VerifyStep
  <2>3. verifier'.got \subseteq Segment
    BY <2>1
  <2> DEFINE ok == verifier.ok /\ ~Unreadable(path)
             calm == verifier.calm /\ (path[1] = ActiveLog \/ path[1] # writing)
  <2>4. verifier' = [verifier EXCEPT !.todo = verifier'.todo, !.ok = ok, !.calm = calm,
                                     !.got = verifier'.got]
    <3>1. PICK got : verifier' = [verifier EXCEPT !.todo = @ \ {path}, !.ok = ok, !.calm = calm,
                                                  !.got = got]
      BY <1>12 DEF VerifySegment
    <3> HIDE DEF ok, calm
    <3> QED
      BY <3>1
  <2>5. ok \in BOOLEAN /\ calm \in BOOLEAN
    OBVIOUS
  <2> HIDE DEF ok, calm
  <2> QED
    BY <2>1, <2>3, <2>4, <2>5
<1> QED
  BY <1>4, <1>5, <1>6, <1>7, <1>8, <1>9, <1>10, <1>11, <1>12
  DEF EvidenceNext, ServerNext, LogrotateNext, MishapNext, VerifierNext

\* Every step keeps the types of the files.
LEMMA FileTypesStep ==
  ASSUME Types, Disk, [EvidenceNext]_evidenceVars
  PROVE  /\ Name' \subseteq 0 .. rotations' /\ ActiveLog \in Name'
         /\ log' \in [Name' -> Seq(Record)]
         /\ zipped' \subseteq Rotated' /\ doubled' \in Rotated' \cup {0}
         /\ writing' \in Nat \cup {None}
         /\ rotating' \in {"idle", "compress", "rename", "prune"} /\ rotations' \in Nat
         /\ written' \in Nat
<1>1. CASE AppendBegins
  BY <1>1 DEF AppendBegins, Types, files, rotation, past, Name, Rotated, ActiveLog
<1>2. CASE AppendEnds
  <2>1. Name' = Name /\ log' \in [Name' -> Seq(Record)] /\ written' = written + 1
    BY <1>2, AppendStep
  <2>2. UNCHANGED <<zipped, doubled, rotating, rotations>> /\ writing' = None
    BY <1>2 DEF AppendEnds, rotation
  <2> QED
    BY <2>1, <2>2 DEF Types, Rotated
<1>3. CASE CompressBegins
  <2>1. UNCHANGED <<log, writing, zipped, rotations, written>> /\ rotating' = "compress"
    BY <1>3 DEF CompressBegins, Rotating, past
  <2>2. doubled' \in Rotated \cup {0}
    <3>1. CASE Rotated \ zipped = {}
      BY <1>3, <3>1 DEF CompressBegins
    <3>2. CASE Rotated \ zipped # {}
      <4>1. \A n \in Rotated \ zipped : n \in Nat /\ n <= rotations
        BY FilesTyped
      <4>2. rotations \in Nat /\ Rotated \ zipped \subseteq Nat
        BY <4>1 DEF Types
      <4>3. Max(Rotated \ zipped) \in Rotated \ zipped
        BY <4>1, <4>2, <3>2, MaxIsGreatest
      <4> QED
        BY <1>3, <3>2, <4>3 DEF CompressBegins
    <3> QED
      BY <3>1, <3>2
  <2> QED
    BY <2>1, <2>2 DEF Types, Rotated, Name
<1>4. CASE CompressEnds
  <2>1. /\ UNCHANGED <<log, writing, rotations, written>> /\ rotating' = "rename"
        /\ zipped' = zipped \cup ({doubled} \ {0}) /\ doubled' = 0
    BY <1>4 DEF CompressEnds, Rotating, past
  <2> QED
    BY <2>1 DEF Types, Rotated, Name
<1>5. CASE Rename
  <2>1. /\ rotations' = rotations + 1 /\ Name' = Name \cup {rotations + 1}
        /\ log' \in [Name' -> Seq(Record)] /\ Rotated' = Rotated \cup {rotations + 1}
        /\ writing' \in {None, rotations + 1}
    BY <1>5, RenameStep
  <2>2. UNCHANGED <<zipped, doubled, written>> /\ rotating' = "prune"
    BY <1>5 DEF Rename, past
  <2>3. Name \subseteq 0 .. rotations /\ rotations \in Nat
    BY DEF Types
  <2>4. Name' \subseteq 0 .. rotations'
    BY <2>1, <2>3
  <2> QED
    BY <2>1, <2>2, <2>4 DEF Types
<1>6. CASE Prune
  <2>1. PICK X \in SUBSET Rotated :
          /\ log' = [n \in Name \ X |-> log[n]] /\ zipped' = zipped \ X /\ doubled' = 0
          /\ rotating' = "idle" /\ writing' = writing
    BY <1>6, PruneStep
  <2>2. rotations' = rotations /\ written' = written
    BY <1>6 DEF Prune
  <2>3. /\ Name' = Name \ X /\ Rotated' = Rotated \ X /\ ActiveLog \in Name'
        /\ log' \in [Name' -> Seq(Record)]
    BY <2>1, RemoveStep
  <2> QED
    BY <2>1, <2>2, <2>3 DEF Types
<1>7. CASE HostCrash
  <2>1. Name' = Name /\ log' \in [Name' -> Seq(Record)]
    BY <1>7, CrashStep
  <2>2. UNCHANGED <<zipped, doubled, writing, rotating, rotations, written>>
    BY <1>7 DEF HostCrash, rotation
  <2> QED
    BY <2>1, <2>2 DEF Types, Rotated
<1>8. ASSUME NEW n \in Name, LoseArchive(n)
      PROVE  /\ Name' \subseteq 0 .. rotations' /\ ActiveLog \in Name'
             /\ log' \in [Name' -> Seq(Record)]
             /\ zipped' \subseteq Rotated' /\ doubled' \in Rotated' \cup {0}
             /\ writing' \in Nat \cup {None}
             /\ rotating' \in {"idle", "compress", "rename", "prune"} /\ rotations' \in Nat
             /\ written' \in Nat
  <2>1. /\ log' = [k \in Name \ {n} |-> log[k]] /\ {n} \subseteq Rotated /\ n # doubled
        /\ zipped' = zipped \ {n}
        /\ UNCHANGED <<doubled, writing, rotating, rotations, written>>
    BY <1>8 DEF LoseArchive, rotation
  <2>2. /\ Name' = Name \ {n} /\ Rotated' = Rotated \ {n} /\ ActiveLog \in Name'
        /\ log' \in [Name' -> Seq(Record)]
    BY <2>1, RemoveStep
  <2> QED
    BY <2>1, <2>2 DEF Types
<1>9. CASE UNCHANGED host
  BY <1>9 DEF Types, host, Rotated, Name
<1> QED
  BY <1>1, <1>2, <1>3, <1>4, <1>5, <1>6, <1>7, <1>8, <1>9, StepsOnFiles

\* Every step keeps the types of what the server remembers.
LEMMA MemoryTypeStep ==
  ASSUME Types, Disk, [EvidenceNext]_evidenceVars
  PROVE  memory' \in [seq : Nat, prev : Nat, epoch : (Nat \ {0}) \cup {None}]
<1> DEFINE M == [seq : Nat, prev : Nat, epoch : (Nat \ {0}) \cup {None}]
<1>1. memory \in M
  BY DEF Types
<1>2. CASE AppendEnds
  <2>1. /\ memory' = [seq |-> NextRecord.seq + 1, prev |-> written + 1, epoch |-> NextRecord.epoch]
        /\ NextRecord \in Record /\ written \in Nat
    BY <1>2, AppendStep DEF Types
  <2>2. NextRecord.seq \in Nat /\ NextRecord.epoch \in Nat \ {0}
    BY <2>1 DEF Record
  <2> QED
    BY <2>1, <2>2
<1>3. Unchained \in M
  BY DEF Unchained, Genesis
<1>4. ASSUME NEW disk, NEW newest, Ordered(disk, newest) PROVE Resumed(disk) \in M
  <2>1. CASE Resumed(disk) = Unchained
    BY <2>1, <1>3
  <2>2. ASSUME NEW l \in Record, Resumed(disk) = [seq |-> l.seq + 1, prev |-> l.id, epoch |-> l.epoch]
        PROVE  Resumed(disk) \in M
    <3>1. l.seq \in Nat /\ l.id \in Nat /\ l.epoch \in Nat \ {0}
      BY DEF Record
    <3> QED
      BY <2>2, <3>1
  <2> QED
    BY <2>1, <2>2, <1>4, ResumedStep
<1>5. CASE Restart
  <2>1. memory' = Resumed(log) \/ memory' = Unchained
    BY <1>5 DEF Restart
  <2> QED
    BY <2>1, <1>3, <1>4, DiskOrdered
<1>6. CASE HostCrash
  <2>1. PICK disk, newest : disk = log' /\ newest = rotations'
    OBVIOUS
  <2>2. memory' = Resumed(disk)
    BY <1>6, <2>1 DEF HostCrash
  <2>3. Disk'
    BY DiskStep
  <2>4. Ordered(disk, newest)
    BY <2>1, <2>3, FileTypesStep DEF Disk, Ordered, Name, Rotated
  <2> QED
    BY <2>2, <2>4, <1>4
<1>7. memory' = memory \/ AppendEnds \/ Restart \/ HostCrash
  BY MemorySteps
<1> QED
  BY <1>1, <1>2, <1>5, <1>6, <1>7

\* Every step keeps the types of what the verifier writes.
LEMMA EvidenceTypesStep ==
  ASSUME Types, VerifierType, Chain, Reading, [EvidenceNext]_evidenceVars
  PROVE  /\ \A c \in checkpoints' : c.epoch \in MaybeNat
         /\ approved' \in [valid : BOOLEAN, resets : SUBSET Nat, heads : SUBSET ApprovedEntry]
         /\ anchor' \in Anchor \cup {None}
<1>1. CASE SaveCheckpoints
  <2>1. approved' = approved /\ anchor' = anchor
    BY <1>1 DEF SaveCheckpoints
  <2>2. ASSUME NEW c \in checkpoints' PROVE c.epoch \in MaybeNat
    <3>1. c \in Merged(checkpoints, verifier.got)
      BY <1>1 DEF SaveCheckpoints, LastEntries
    <3>2. CASE c \in checkpoints
      BY <3>2 DEF Types
    <3>3. CASE c \notin checkpoints
      <4>1. PICK s \in verifier.got : c.epoch = Epoch(verifier.got, s)
        BY <3>1, <3>3 DEF Merged, Boundaries
      <4> QED
        BY <4>1, EpochTyped
    <3> QED
      BY <3>2, <3>3
  <2> QED
    BY <2>1, <2>2 DEF Types
<1>2. CASE WriteAnchor
  <2>1. approved' = approved /\ checkpoints' = checkpoints
    BY <1>2 DEF WriteAnchor
  <2>2. PICK last : last = End(Newest(verifier.got))
    OBVIOUS
  <2>3. anchor' = [valid |-> verifier.ok, seq |-> IF verifier.got = {} THEN None ELSE last.seq,
                   chain |-> IF verifier.got = {} THEN None ELSE last.id, epoch |-> verifier.epoch]
    BY <1>2, <2>2 DEF WriteAnchor
  <2>4. verifier.ok \in BOOLEAN /\ verifier.epoch \in MaybeNat
    BY DEF VerifierType
  <2>5. verifier.got # {} => last.seq \in Nat /\ last.id \in Nat
    <3> SUFFICES ASSUME verifier.got # {} PROVE last.seq \in Nat /\ last.id \in Nat
      OBVIOUS
    <3>1. Newest(verifier.got) \in verifier.got
      BY ReadSorted, NewestFound
    <3>2. Newest(verifier.got) \in Segment /\ Newest(verifier.got).recs # <<>>
      BY <3>1 DEF VerifierType, Reading, SegmentFits
    <3>3. last \in Record
      BY <2>2, <3>2, SegmentFacts
    <3> QED
      BY <3>3 DEF Record
  <2>6. anchor' \in Anchor
    BY <2>3, <2>4, <2>5 DEF Anchor, MaybeNat
  <2> QED
    BY <2>1, <2>6 DEF Types
<1>3. CASE Approve
  <2>1. checkpoints' = checkpoints /\ anchor' = anchor
    BY <1>3 DEF Approve, offHost
  <2>2. PICK n \in Name :
          LET s == [path |-> <<n, "plain">>, recs |-> log[n]]
          IN /\ log[n] # <<>>
             /\ IF AtGenesis(s)
                THEN approved' = [approved EXCEPT !.valid = TRUE, !.resets = @ \cup {First(s).id}]
                ELSE \E e \in {First(s).epoch, None} :
                       approved' = [approved EXCEPT !.valid = TRUE, !.heads =
                         @ \cup {[seq |-> First(s).seq, prev |-> First(s).prev, epoch |-> e]}]
    BY <1>3 DEF Approve
  <2>3. PICK s : s = [path |-> <<n, "plain">>, recs |-> log[n]]
    OBVIOUS
  <2>4. s \in Segment /\ s.recs # <<>>
    <3>1. log[n] \in Seq(Record) /\ n \in Nat
      BY DEF Types
    <3> QED
      BY <2>2, <2>3, <3>1 DEF Segment, Path
  <2>5. First(s).id \in Nat /\ First(s).seq \in Nat /\ First(s).prev \in Nat /\ First(s).epoch \in Nat
    BY <2>4, SegmentFacts DEF Record
  <2>6. \/ approved' = [approved EXCEPT !.valid = TRUE, !.resets = @ \cup {First(s).id}]
        \/ \E e \in {First(s).epoch, None} :
             approved' = [approved EXCEPT !.valid = TRUE, !.heads =
               @ \cup {[seq |-> First(s).seq, prev |-> First(s).prev, epoch |-> e]}]
    BY <2>2, <2>3
  <2>7. approved \in [valid : BOOLEAN, resets : SUBSET Nat, heads : SUBSET ApprovedEntry]
    BY DEF Types
  <2>8. \A e \in {First(s).epoch, None} :
          [seq |-> First(s).seq, prev |-> First(s).prev, epoch |-> e] \in ApprovedEntry
    BY <2>5 DEF ApprovedEntry, MaybeNat
  <2>9. approved' \in [valid : BOOLEAN, resets : SUBSET Nat, heads : SUBSET ApprovedEntry]
    BY <2>5, <2>6, <2>7, <2>8
  <2> QED
    BY <2>1, <2>9 DEF Types
<1>4. CASE LoseCheckpoints \/ SpoilLedger
  BY <1>4 DEF LoseCheckpoints, SpoilLedger, offHost, Types
<1>5. CASE UNCHANGED <<checkpoints, approved, anchor>>
  BY <1>5 DEF Types
<1> QED
  BY <1>1, <1>2, <1>3, <1>4, <1>5, EvidenceSteps

\* Every step keeps the types on the host.
LEMMA TypesStep ==
  ASSUME Types, VerifierType, Disk, Chain, Reading, [EvidenceNext]_evidenceVars
  PROVE  Types'
<1>1. forgotten' \subseteq Nat /\ lost' \subseteq Nat /\ seen' \subseteq Nat /\ unseen' \in BOOLEAN
  <2>1. CASE Restart
    BY <2>1 DEF Restart, Types
  <2>2. CASE HostCrash
    <3>1. Last(log[ActiveLog]).id \in Nat
      <4>1. log[ActiveLog] \in Seq(Record) /\ log[ActiveLog] # <<>>
        BY <2>2 DEF HostCrash, Types
      <4> QED
        BY <4>1, Dropped DEF Record
    <3> QED
      BY <2>2, <3>1 DEF HostCrash, Types
  <2>3. CASE Prune
    <3>1. PICK X \in SUBSET Rotated :
            /\ lost' = lost \cup UNION {Ids(log[n]) \ Copied(n) : n \in X}
            /\ unseen' = (unseen \/ \E n \in X : log[n] # <<>> /\ Last(log[n]).id \notin seen)
      BY <2>3, PruneStep
    <3>2. \A n \in X : Ids(log[n]) \subseteq Nat
      BY FilesTyped
    <3>3. lost' \subseteq Nat /\ unseen' \in BOOLEAN
      BY <3>1, <3>2 DEF Types
    <3> QED
      BY <2>3, <3>3 DEF Prune, Types
  <2>4. ASSUME NEW n \in Name, LoseArchive(n) PROVE lost' \subseteq Nat /\ UNCHANGED <<forgotten, seen, unseen>>
    <3>1. Ids(log[n]) \subseteq Nat
      BY FilesTyped
    <3> QED
      BY <2>4, <3>1 DEF LoseArchive, Types
  <2>5. CASE SaveCheckpoints
    <3>1. \A s \in verifier.got : End(s).id \in Nat
      BY SegmentFacts DEF VerifierType, Reading, SegmentFits
    <3> QED
      BY <2>5, <3>1 DEF SaveCheckpoints, Types
  <2>6. CASE UNCHANGED <<forgotten, lost, seen, unseen>>
    BY <2>6 DEF Types
  <2> QED
    BY <2>1, <2>2, <2>3, <2>4, <2>5, <2>6, HistorySteps DEF Types
<1> QED
  BY <1>1, FileTypesStep, MemoryTypeStep, EvidenceTypesStep DEF Types

\* Every step keeps the types off the host.
LEMMA RemoteTypeStep ==
  ASSUME Types, RemoteType, Disk, [EvidenceNext]_evidenceVars
  PROVE  RemoteType'
<1>1. rotations' \in Nat /\ rotations \in Nat /\ rotations <= rotations'
  <2>1. rotations' = rotations \/ rotations' = rotations + 1
    BY RenameStep, PruneStep, StepsOnFiles DEF AppendBegins, AppendEnds, CompressBegins, CompressEnds,
       Prune, HostCrash, LoseArchive, host, rotation
  <2> QED
    BY <2>1 DEF Types
<1>2. /\ remote \in [files : [DOMAIN remote.files -> SUBSET Nat], anchor : Anchor \cup {None}]
      /\ DOMAIN remote.files \subseteq 0 .. rotations
  BY DEF RemoteType
<1>3. CASE remote' = remote
  <2>1. DOMAIN remote.files \subseteq 0 .. rotations'
    BY <1>1, <1>2
  <2> QED
    BY <2>1, <1>2, <1>3 DEF RemoteType
<1>4. CASE remote' = [remote EXCEPT !.files = Payload] /\ UNCHANGED host
  <2>1. remote'.files = Payload /\ remote'.anchor = remote.anchor
    BY <1>2, <1>4
  <2>2. DOMAIN Payload = DOMAIN remote.files \cup Name
    BY DEF Payload
  <2>3. \A n \in Name : Ids(log[n]) \subseteq Nat
    BY FilesTyped
  <2>4. Payload \in [DOMAIN Payload -> SUBSET Nat]
    BY <2>3, <1>2 DEF Payload
  <2>5. DOMAIN Payload \subseteq 0 .. rotations'
    BY <2>2, <1>2, <1>4 DEF Types, host
  <2>6. remote' \in [files : [DOMAIN Payload -> SUBSET Nat], anchor : Anchor \cup {None}]
    BY <2>4, <1>2, <1>4
  <2> QED
    BY <2>1, <2>5, <2>6 DEF RemoteType
<1>5. CASE remote' = [remote EXCEPT !.anchor = anchor]
  <2>1. remote'.files = remote.files /\ anchor \in Anchor \cup {None}
    BY <1>2, <1>5 DEF Types
  <2>2. remote' \in [files : [DOMAIN remote.files -> SUBSET Nat], anchor : Anchor \cup {None}]
    BY <2>1, <1>2, <1>5
  <2>3. DOMAIN remote.files \subseteq 0 .. rotations'
    BY <1>1, <1>2
  <2> QED
    BY <2>1, <2>2, <2>3 DEF RemoteType
<1> QED
  BY <1>3, <1>4, <1>5, StepsOffHost

-----------------------------------------------------------------------------
(* Valid runs and published anchors *)

\* What a run stands at and what it has come to: the steps that touch it.
LEMMA StepsOfVerifier ==
  ASSUME VerifierType, [EvidenceNext]_evidenceVars
  PROVE  \/ ListPaths \/ Decide \/ SaveCheckpoints \/ WriteAnchor
         \/ \E path \in verifier.todo : VerifySegment(path)
         \/ verifier' \in {verifier, Disturbed}
         \/ verifier' = Onto("idle")
         \/ Compare /\ verifier' = Onto("payload") /\ Publishable(remote.anchor, anchor)
         \/ Sync /\ verifier' = Onto("commit")
         \/ verifier.at = "save" /\ verifier' = [verifier EXCEPT !.at = "anchor", !.ok = FALSE]
<1>1. CASE UNCHANGED evidenceVars
  BY <1>1 DEF evidenceVars
<1>2. CASE AppendBegins \/ AppendEnds \/ Restart \/ LoseCheckpoints \/ SpoilLedger \/ Approve
           \/ \E n \in Name : Damage(n) \/ LoseArchive(n)
  BY <1>2 DEF AppendBegins, AppendEnds, Restart, LoseCheckpoints, SpoilLedger, Approve,
     Damage, LoseArchive
<1>3. CASE CompressBegins \/ CompressEnds \/ Rename \/ Prune
  BY <1>3 DEF CompressBegins, CompressEnds, Rename, Prune, Rotating
<1>4. CASE HostCrash \/ Compare \/ Sync \/ Abort
  BY <1>4 DEF HostCrash, Compare, Sync, Abort
<1> QED
  BY <1>1, <1>2, <1>3, <1>4 DEF EvidenceNext, ServerNext, LogrotateNext, MishapNext, VerifierNext

\* Decide accepts only what is sewn.
LEMMA SoundStep ==
  ASSUME VerifierType, Sound, [EvidenceNext]_evidenceVars
  PROVE  Sound'
<1> USE DEF VerifierType
<1>1. CASE ListPaths
  <2>1. /\ verifier'.at = "read" /\ verifier'.got = {} /\ verifier'.head = "genesis"
    BY <1>1 DEF ListPaths, Idle
  <2> QED
    BY <2>1 DEF Sound, Accepted
<1>2. ASSUME NEW path \in verifier.todo, VerifySegment(path) PROVE Sound'
  <2>1. verifier.at = "read" /\ verifier'.at = "read" /\ verifier'.head = verifier.head
    BY <1>2 DEF VerifySegment
  <2> QED
    BY <2>1 DEF Sound, Accepted
<1>3. CASE Decide
  <2>1. PICK ok, epoch :
          /\ ok = (verifier.ok /\ verifier.got # {} /\ HeadOf(verifier.got) # "refused"
                    /\ SeamsHold(verifier.got))
          /\ verifier' = [verifier EXCEPT
               !.at = IF ok THEN "save" ELSE "anchor", !.ok = ok,
               !.head = IF verifier.got = {} THEN "genesis" ELSE HeadOf(verifier.got),
               !.epoch = epoch]
          /\ verifier.todo = {}
    BY <1>3 DEF Decide
  <2>2. /\ verifier'.got = verifier.got /\ verifier'.todo = {} /\ verifier'.ok = ok
        /\ verifier'.at \in {"save", "anchor"}
        /\ verifier'.at = "save" => ok
        /\ verifier.got # {} => verifier'.head = HeadOf(verifier.got)
    BY <2>1
  <2>3. ok => verifier.got # {} /\ Sewn(verifier.got)
    BY <2>1 DEF SeamsHold, Sewn, ApprovedReset
  <2>4. HeadOf(verifier.got) = "checkpoint" => FullWindow(verifier.got)
    BY DEF HeadOf
  <2>5. verifier'.at = "save" => /\ verifier'.got = verifier.got /\ Sewn(verifier.got)
                                 /\ verifier'.head = "checkpoint" => FullWindow(verifier.got)
    BY <2>2, <2>3, <2>4
  <2> QED
    BY <2>2, <2>3, <2>5 DEF Sound, Accepted
<1>4. CASE SaveCheckpoints
  <2>1. /\ verifier.at = "save" /\ verifier' = [verifier EXCEPT !.at = "anchor"]
    BY <1>4 DEF SaveCheckpoints
  <2>2. /\ verifier'.at = "anchor" /\ verifier'.got = verifier.got /\ verifier'.todo = verifier.todo
    BY <2>1
  <2> QED
    BY <2>1, <2>2 DEF Sound, Accepted, Sewn
<1>5. ASSUME NEW stage \in {"idle", "pull", "payload", "commit"}, verifier' = Onto(stage)
      PROVE  Sound'
  <2>1. /\ verifier'.at = stage /\ verifier'.got = {} /\ verifier'.todo = {} /\ verifier'.head = "genesis"
    BY <1>5 DEF Onto, Idle
  <2> QED
    BY <2>1 DEF Sound, Accepted
<1>6. CASE WriteAnchor
  BY <1>5, <1>6 DEF WriteAnchor
<1>7. CASE verifier' \in {verifier, Disturbed}
  <2>1. /\ verifier'.at = verifier.at /\ verifier'.got = verifier.got /\ verifier'.todo = verifier.todo
        /\ verifier'.head = verifier.head /\ verifier'.ok = verifier.ok
    BY <1>7 DEF Disturbed
  <2> QED
    BY <2>1 DEF Sound, Accepted
<1>8. CASE verifier.at = "save" /\ verifier' = [verifier EXCEPT !.at = "anchor", !.ok = FALSE]
  <2>1. /\ verifier'.at = "anchor" /\ verifier'.got = verifier.got /\ verifier'.todo = verifier.todo
        /\ verifier'.ok = FALSE
    BY <1>8
  <2> QED
    BY <2>1, <1>8 DEF Sound, Accepted
<1> QED
  BY <1>1, <1>2, <1>3, <1>4, <1>5, <1>6, <1>7, <1>8, StepsOfVerifier

\* Which steps touch the local anchor.
LEMMA AnchorSteps ==
  ASSUME [EvidenceNext]_evidenceVars
  PROVE  WriteAnchor \/ anchor' = anchor
<1>1. CASE SaveCheckpoints \/ Approve \/ LoseCheckpoints \/ SpoilLedger
  BY <1>1 DEF SaveCheckpoints, Approve, LoseCheckpoints, SpoilLedger, offHost
<1> QED
  BY <1>1, EvidenceSteps

\* The copy of the segments backs every record that was appended.
LEMMA PayloadBacks ==
  ASSUME Types, RemoteType, Accounted, remote' = [remote EXCEPT !.files = Payload],
         UNCHANGED <<host, lost>>, NEW id \in 1 .. written
  PROVE  Backed(id)'
<1>1. remote'.files = Payload /\ lost' = lost
  BY DEF RemoteType
<1>2. CASE id \in lost
  BY <1>1, <1>2 DEF Backed
<1>3. CASE OnHost(id)
  <2>1. PICK n \in Name : id \in Ids(log[n])
    <3>1. PICK n \in Name : \E r \in ToSet(log[n]) : r.id = id
      BY <1>3 DEF OnHost, OnDisk
    <3> QED
      BY <3>1, IdsOfRecords
  <2>2. n \in DOMAIN Payload /\ Payload[n] = Ids(log[n])
    BY DEF Payload
  <2> QED
    BY <1>1, <2>1, <2>2 DEF Backed
<1>4. CASE Copies(id) # {}
  <2>1. PICK n \in DOMAIN remote.files \ Name : id \in remote.files[n]
    BY <1>4 DEF Copies
  <2>2. n \in DOMAIN Payload /\ Payload[n] = remote.files[n]
    BY DEF Payload
  <2> QED
    BY <1>1, <2>1, <2>2 DEF Backed
<1> QED
  BY <1>2, <1>3, <1>4 DEF Accounted

\* The anchor of a valid run names the last record of the newest segment.
LEMMA AnchorNamed ==
  ASSUME Types, VerifierType, Chain, Reading, Sound, WriteAnchor, verifier.ok
  PROVE  anchor' \in Anchor /\ Named(anchor)'
<1> DEFINE last == End(Newest(verifier.got))
<1>1. verifier.got # {} /\ verifier.at = "anchor"
  BY DEF WriteAnchor, Sound
<1>2. Newest(verifier.got) \in verifier.got
  BY <1>1, ReadSorted, NewestFound
<1>3. Newest(verifier.got) \in Segment /\ Newest(verifier.got).recs # <<>>
  BY <1>2 DEF VerifierType, Reading, SegmentFits
<1>4. last \in Record /\ last \in ToSet(Newest(verifier.got).recs)
  BY <1>3, SegmentFacts
<1>5. last \in Known
  BY <1>2, <1>4 DEF Known, WasRead
<1>6. last.id \in 1 .. written /\ last.seq \in Nat
  <2>1. last.id <= written
    BY <1>5 DEF Chain
  <2> QED
    BY <2>1, <1>4 DEF Record, Types
<1>7. /\ anchor' = [valid |-> verifier.ok, seq |-> last.seq, chain |-> last.id, epoch |-> verifier.epoch]
      /\ written' = written
  BY <1>1 DEF WriteAnchor, past
<1>8. anchor' \in Anchor
  BY <1>6, <1>7 DEF Anchor, MaybeNat, VerifierType
<1> QED
  BY <1>6, <1>7, <1>8 DEF Named

\* What is Named stays so, and what is Backed too unless the copies change.
LEMMA StaysPublished ==
  ASSUME Types, Types', [EvidenceNext]_evidenceVars
  PROVE  /\ \A a : Named(a) => Named(a)'
         /\ remote'.files = remote.files => \A id : Backed(id) => Backed(id)'
<1>1. lost \subseteq lost' /\ written \in Nat /\ written' \in Nat /\ written <= written'
  BY HistoryGrows, SMTT(30) DEF Types
<1>2. 1 .. written \subseteq 1 .. written'
  BY <1>1
<1> QED
  BY <1>1, <1>2 DEF Named, Backed

\* How a run gets to where it copies.
LEMMA AtSteps ==
  ASSUME VerifierType, RemoteType, [EvidenceNext]_evidenceVars
  PROVE  /\ verifier'.at \in {"pull", "payload", "commit"} =>
              WriteAnchor \/ verifier.at \in {"pull", "payload", "commit"}
         /\ verifier'.at \in {"payload", "commit"} =>
              verifier.at \in {"payload", "commit"} \/ Publishable(remote.anchor, anchor)
         /\ verifier'.at = "commit" =>
              \/ verifier.at = "commit"
              \/ /\ verifier.at = "payload" /\ remote' = [remote EXCEPT !.files = Payload]
                 /\ UNCHANGED <<host, anchor, lost>>
<1> USE DEF VerifierType
<1>1. CASE ListPaths \/ \E path \in verifier.todo : VerifySegment(path)
  BY <1>1 DEF ListPaths, VerifySegment, Idle
<1>2. CASE Decide \/ SaveCheckpoints
  BY <1>2 DEF Decide, SaveCheckpoints
<1>3. CASE WriteAnchor
  BY <1>3 DEF WriteAnchor, Onto, Idle
<1>4. CASE verifier' \in {verifier, Disturbed}
  BY <1>4 DEF Disturbed
<1>5. CASE verifier' = Onto("idle")
  BY <1>5 DEF Onto, Idle
<1>6. CASE Compare /\ verifier' = Onto("payload") /\ Publishable(remote.anchor, anchor)
  BY <1>6 DEF Compare, Onto, Idle
<1>7. CASE Sync /\ verifier' = Onto("commit")
  <2>1. verifier.at = "payload"
    BY <1>7 DEF Sync, Onto, Idle
  <2> QED
    BY <1>7, <2>1 DEF Sync, Pass, host, files, rotation, past
<1>8. CASE verifier.at = "save" /\ verifier' = [verifier EXCEPT !.at = "anchor", !.ok = FALSE]
  BY <1>8
<1> QED
  BY <1>1, <1>2, <1>3, <1>4, <1>5, <1>6, <1>7, <1>8, StepsOfVerifier

\* The publication stays in order: compared, then copied, then named.
LEMMA PublishingStep ==
  ASSUME EvidenceInv, Types', [EvidenceNext]_evidenceVars
  PROVE  Publishing'
<1> USE DEF EvidenceInv
<1>1. PICK a, b : a = remote.anchor /\ b = anchor
  OBVIOUS
<1>2. Named(a) => Named(a)'
  BY StaysPublished
<1>3. Named(b) => Named(b)'
  BY StaysPublished
<1>7. WriteAnchor => verifier'.at \in {"pull", "idle"}
  BY DEF WriteAnchor, Onto, Idle
<1>4. CASE remote' = remote /\ (verifier'.at = "commit" => verifier.at = "commit")
  <2>1. (remote.anchor # None => Named(remote.anchor) /\ Backed(remote.anchor.chain))'
    BY <1>1, <1>2, <1>4, StaysPublished DEF Publishing
  <2>2. ASSUME verifier'.at \in {"pull", "payload", "commit"}
        PROVE  (anchor \in Anchor /\ Named(anchor))'
    <3>1. CASE WriteAnchor
      <4>1. verifier.ok
        BY <2>2, <3>1 DEF WriteAnchor, Onto, Idle
      <4> QED
        BY <3>1, <4>1, AnchorNamed
    <3>2. CASE ~WriteAnchor
      <4>1. anchor' = anchor
        BY <3>2, AnchorSteps
      <4>2. verifier.at \in {"pull", "payload", "commit"}
        BY <2>2, <3>2, AtSteps
      <4> QED
        BY <4>1, <4>2, <1>1, <1>3 DEF Publishing
    <3> QED
      BY <3>1, <3>2
  <2>3. ASSUME verifier'.at \in {"payload", "commit"} PROVE Publishable(remote.anchor, anchor)'
    <3>1. ~WriteAnchor
      BY <1>7, <2>3
    <3>2. anchor' = anchor
      BY <3>1, AnchorSteps
    <3>3. verifier.at \in {"payload", "commit"} \/ Publishable(remote.anchor, anchor)
      BY <2>3, AtSteps
    <3>4. Publishable(remote.anchor, anchor)
      BY <3>3 DEF Publishing
    <3> QED
      BY <1>4, <3>2, <3>4 DEF Publishable
  <2>4. ASSUME verifier'.at = "commit" PROVE Backed(anchor.chain)'
    <3>1. verifier.at = "commit" /\ anchor' = anchor
      <4>1. ~WriteAnchor
        BY <1>7, <2>4
      <4> QED
        BY <1>4, <2>4, <4>1, AnchorSteps
    <3>2. Backed(b.chain)
      BY <1>1, <3>1 DEF Publishing
    <3>3. Backed(b.chain)'
      BY <1>4, <3>2, StaysPublished
    <3> QED
      BY <1>1, <3>1, <3>3
  <2> QED
    BY <2>1, <2>2, <2>3, <2>4 DEF Publishing
<1>5. CASE /\ verifier.at = "payload" /\ remote' = [remote EXCEPT !.files = Payload]
           /\ verifier'.at \in {"payload", "commit"} /\ UNCHANGED <<host, anchor, lost>>
  <2>1. /\ remote'.anchor = remote.anchor /\ anchor' = anchor
        /\ written' = written /\ lost' = lost
    BY <1>5 DEF RemoteType, host
  <2>2. \A id \in 1 .. written : Backed(id)'
    BY <1>5, PayloadBacks
  <2>3. /\ anchor \in Anchor /\ Named(anchor) /\ Publishable(remote.anchor, anchor)
        /\ remote.anchor # None => Named(remote.anchor)
    BY <1>5 DEF Publishing
  <2>4. /\ Named(b)' /\ b.chain \in 1 .. written
        /\ a # None => Named(a)' /\ a.chain \in 1 .. written
    BY <1>1, <2>1, <2>3 DEF Named
  <2>5. Backed(b.chain)' /\ (a # None => Backed(a.chain)')
    BY <2>2, <2>4
  <2>6. (anchor \in Anchor /\ Named(anchor) /\ Publishable(remote.anchor, anchor) /\ Backed(anchor.chain))'
    BY <1>1, <2>1, <2>3, <2>4, <2>5 DEF Publishable
  <2>7. (remote.anchor # None => Named(remote.anchor) /\ Backed(remote.anchor.chain))'
    BY <1>1, <2>1, <2>4, <2>5
  <2> QED
    BY <2>6, <2>7 DEF Publishing
<1>6. CASE /\ verifier.at = "commit" /\ remote' = [remote EXCEPT !.anchor = anchor]
           /\ verifier' = Onto("idle") /\ UNCHANGED <<host, anchor, lost>>
  <2>1. /\ remote'.anchor = anchor /\ remote'.files = remote.files
        /\ verifier'.at = "idle"
    BY <1>6 DEF RemoteType, Onto, Idle
  <2>2. Named(b) /\ Backed(b.chain)
    BY <1>1, <1>6 DEF Publishing
  <2>3. Named(b)' /\ Backed(b.chain)'
    BY <1>3, <2>1, <2>2, StaysPublished
  <2> QED
    BY <1>1, <2>1, <2>3 DEF Publishing
<1> QED
  <2>1. Onto("commit").at = "commit"
    BY DEF Onto, Idle
  <2>2. \/ remote' = remote
        \/ /\ verifier.at = "payload" /\ remote' = [remote EXCEPT !.files = Payload]
           /\ verifier'.at \in {"payload", "commit"} /\ UNCHANGED <<host, anchor, lost>>
        \/ /\ verifier.at = "commit" /\ remote' = [remote EXCEPT !.anchor = anchor]
           /\ verifier' = Onto("idle") /\ UNCHANGED <<host, anchor, lost>>
    BY <2>1, StepsOffHost
  <2>3. verifier'.at = "commit" /\ verifier.at # "commit" =>
          /\ verifier.at = "payload" /\ remote' = [remote EXCEPT !.files = Payload]
          /\ UNCHANGED <<host, anchor, lost>>
    BY AtSteps
  <2> QED
    BY <1>4, <1>5, <1>6, <2>2, <2>3

-----------------------------------------------------------------------------
(* The invariant *)

\* The host starts with an empty file and an empty record of evidence.
LEMMA EvidenceStarts ==
  ASSUME EvidenceInit
  PROVE  EvidenceInv
<1> USE DEF EvidenceInit
<1>1. PICK Z : Z = {ActiveLog}
  OBVIOUS
<1>2. log \in [Z -> {<<>>}] /\ Name = Z /\ log[ActiveLog] = <<>> /\ Rotated = {}
  BY <1>1 DEF Name, Rotated
<1>3. /\ ActiveLog = 0 /\ None \notin Nat /\ None # ActiveLog
  BY EvidenceAssumption DEF ActiveLog
<1>4. Types
  <2>1. log \in [Name -> Seq(Record)]
    <3>1. <<>> \in Seq(Record)
      OBVIOUS
    <3> QED
      BY <1>2, <3>1
  <2>2. memory \in [seq : Nat, prev : Nat, epoch : (Nat \ {0}) \cup {None}]
    BY DEF Unchained, Genesis
  <2>3. approved \in [valid : BOOLEAN, resets : SUBSET Nat, heads : SUBSET ApprovedEntry]
    OBVIOUS
  <2>4. Name \subseteq 0 .. rotations /\ ActiveLog \in Name
    BY <1>1, <1>2, <1>3
  <2>5. written \in Nat /\ rotations \in Nat /\ forgotten \subseteq Nat /\ lost \subseteq Nat
        /\ seen \subseteq Nat /\ unseen \in BOOLEAN /\ writing \in Nat \cup {None}
        /\ doubled \in Rotated \cup {0} /\ zipped \subseteq Rotated
        /\ rotating \in {"idle", "compress", "rename", "prune"}
    OBVIOUS
  <2>6. anchor \in Anchor \cup {None} /\ \A c \in checkpoints : c.epoch \in MaybeNat
    OBVIOUS
  <2> HIDE DEF EvidenceInit
  <2> QED
    BY <2>1, <2>2, <2>3, <2>4, <2>5, <2>6 DEF Types
<1>5. VerifierType
  BY DEF VerifierType, Idle, Stage, MaybeNat
<1>6. RemoteType
  <2>1. PICK F : F = [n \in Z |-> {}]
    OBVIOUS
  <2>2. remote = [files |-> F, anchor |-> None] /\ DOMAIN F = Z /\ F \in [DOMAIN F -> SUBSET Nat]
    BY <1>1, <2>1
  <2>3. Z \subseteq 0 .. rotations
    BY <1>1, <1>3
  <2> QED
    BY <2>2, <2>3 DEF RemoteType
<1>7. Disk
  BY <1>2, <1>3, EmptyFile DEF Disk
<1>8. OnDisk = {} /\ WasRead = {}
  BY <1>2, <1>1, EmptyFile DEF OnDisk, WasRead, Idle
<1>9. Chain
  BY <1>8 DEF Chain, Known, Unchained, Genesis
<1>10. Accounted
  BY DEF Accounted
<1>11. Reading
  BY DEF Reading, TodoFits, Idle, Names
<1>12. Sound
  BY DEF Sound, Accepted, Idle
<1>13. Publishing
  BY DEF Publishing, Idle
<1> QED
  BY <1>4, <1>5, <1>6, <1>7, <1>9, <1>10, <1>11, <1>12, <1>13 DEF EvidenceInv

\* Every step keeps the invariant.
LEMMA EvidenceKept ==
  ASSUME EvidenceInv, [EvidenceNext]_evidenceVars
  PROVE  EvidenceInv'
<1>1. Types' /\ VerifierType' /\ RemoteType'
  BY TypesStep, VerifierTypeStep, RemoteTypeStep DEF EvidenceInv
<1>2. Disk' /\ Accounted' /\ Reading' /\ Sound'
  BY DiskStep, AccountedStep, ReadingStep, SoundStep DEF EvidenceInv
<1>3. Chain'
  BY <1>1, ChainStep DEF EvidenceInv
<1>4. Publishing'
  BY <1>1, PublishingStep
<1> QED
  BY <1>1, <1>2, <1>3, <1>4 DEF EvidenceInv

\* The files, the chain in them, what a run of the verifier has read of them and
\* what is off the host fit each other, whatever rotates, dies or is lost meanwhile.
THEOREM EvidenceInvariant == EvidenceSpec => []EvidenceInv
<1>1. EvidenceInit => EvidenceInv
  BY EvidenceStarts
<1>2. EvidenceInv /\ [EvidenceNext]_evidenceVars => EvidenceInv'
  BY EvidenceKept
<1> QED
  BY <1>1, <1>2, PTL DEF EvidenceSpec

-----------------------------------------------------------------------------
(* The anchor off the host *)

\* Compare lets an anchor go on that is ahead of the published one or the same; the
\* segments are copied before it.
THEOREM RemoteStands == EvidenceSpec => RemoteNeverRolledBack
<1> DEFINE Step ==
      /\ (remote'.anchor # None /\ remote'.anchor.chain \notin lost') =>
           \E n \in DOMAIN remote'.files : remote'.anchor.chain \in remote'.files[n]
      /\ (remote.anchor # None /\ remote'.anchor.epoch = remote.anchor.epoch) =>
           \/ remote'.anchor.seq > remote.anchor.seq
           \/ remote'.anchor = remote.anchor
<1>1. ASSUME EvidenceInv, EvidenceInv', [EvidenceNext]_evidenceVars PROVE Step
  <2>1. (remote'.anchor # None /\ remote'.anchor.chain \notin lost') =>
           \E n \in DOMAIN remote'.files : remote'.anchor.chain \in remote'.files[n]
    BY <1>1 DEF EvidenceInv, Publishing, Backed
  <2>2. CASE remote'.anchor = remote.anchor
    BY <2>1, <2>2
  <2>3. CASE /\ verifier.at = "commit" /\ remote'.anchor = anchor
             /\ remote.anchor # None /\ remote'.anchor.epoch = remote.anchor.epoch
    <3>1. PICK a, b : a = remote.anchor /\ b = anchor
      OBVIOUS
    <3>2. /\ a # None /\ Named(a) /\ Named(b) /\ Publishable(a, b)
          /\ a \in Anchor /\ b \in Anchor /\ a.epoch = b.epoch
      BY <1>1, <2>3, <3>1 DEF EvidenceInv, Publishing, RemoteType
    <3>3. CASE b.seq > a.seq
      BY <2>1, <2>3, <3>1, <3>3
    <3>4. CASE b.seq = a.seq /\ b.chain = a.chain
      <4>1. a = b
        BY <3>2, <3>4 DEF Anchor, Named
      <4> QED
        BY <2>1, <2>3, <3>1, <4>1
    <3> QED
      BY <3>2, <3>3, <3>4 DEF Publishable, Named
  <2>4. \/ remote'.anchor = remote.anchor
        \/ verifier.at = "commit" /\ remote'.anchor = anchor
    BY <1>1, StepsOffHost DEF EvidenceInv, RemoteType
  <2> QED
    BY <2>1, <2>2, <2>3, <2>4
<1>2. EvidenceInv /\ EvidenceInv' /\ [EvidenceNext]_evidenceVars => [Step]_evidenceVars
  BY <1>1
<1> QED
  BY <1>2, EvidenceInvariant, PTL DEF EvidenceSpec, RemoteNeverRolledBack

-----------------------------------------------------------------------------
(* No gap in what was accepted *)

\* The records of two segments that were read are the same or lie apart.
LEMMA SegmentsSeparate ==
  ASSUME EvidenceInv, NEW s \in verifier.got, NEW t \in verifier.got
  PROVE  \/ s.recs = t.recs
         \/ \A x \in SegIds(s), y \in SegIds(t) : x < y
         \/ \A x \in SegIds(s), y \in SegIds(t) : y < x
<1>1. /\ s \in Segment /\ s.recs # <<>> /\ t \in Segment /\ t.recs # <<>>
      /\ s.path[1] <= rotations /\ t.path[1] <= rotations /\ rotations \in Nat
  BY DEF EvidenceInv, VerifierType, Reading, SegmentFits, Types
<1>2. /\ s.path[1] \in Nat /\ t.path[1] \in Nat
      /\ \A x \in SegIds(s) : x \in Nat
      /\ \A y \in SegIds(t) : y \in Nat
  BY <1>1, SegmentFacts
<1>3. PairFits(s, t) /\ PairFits(t, s)
  BY DEF EvidenceInv, Reading
<1>4. \A n \in Nat : n <= rotations => FromActive(n) \in Nat /\ FromActive(n) > 0
  BY <1>1 DEF FromActive
<1>5. CASE s.path[1] = t.path[1]
  BY <1>3, <1>5 DEF PairFits
<1>6. CASE s.path[1] # t.path[1]
  <2>1. \E d \in Nat : d > 0 /\ (Apart(SegIds(s), SegIds(t), d) \/ Apart(SegIds(t), SegIds(s), d))
    <3>1. CASE s.path[1] # ActiveLog /\ s.path[1] < t.path[1]
      <4>1. t.path[1] - s.path[1] \in Nat /\ t.path[1] - s.path[1] > 0
        BY <1>2, <3>1
      <4> QED
        BY <1>3, <3>1, <4>1 DEF PairFits
    <3>2. CASE t.path[1] # ActiveLog /\ t.path[1] < s.path[1]
      <4>1. s.path[1] - t.path[1] \in Nat /\ s.path[1] - t.path[1] > 0
        BY <1>2, <3>2
      <4> QED
        BY <1>3, <3>2, <4>1 DEF PairFits
    <3>3. CASE s.path[1] = ActiveLog /\ t.path[1] # ActiveLog
      BY <1>1, <1>2, <1>3, <1>4, <3>3 DEF PairFits
    <3>4. CASE t.path[1] = ActiveLog /\ s.path[1] # ActiveLog
      BY <1>1, <1>2, <1>3, <1>4, <3>4 DEF PairFits
    <3> QED
      BY <1>2, <1>6, <3>1, <3>2, <3>3, <3>4 DEF ActiveLog
  <2> QED
    BY <1>2, <2>1 DEF Apart
<1> QED
  BY <1>5, <1>6

\* A record that was read and the one before it: it is in the same segment or ends
\* the segment before; what is between the two is forgotten.
LEMMA Predecessor ==
  ASSUME EvidenceInv, Accepted, NEW t \in verifier.got, NEW y \in ToSet(t.recs)
  PROVE  \/ /\ y = First(t)
            /\ \/ t = Oldest(verifier.got)
               \/ y.seq = 0 /\ y.prev = Genesis
         \/ \E x \in WasRead :
              /\ x.id = y.prev /\ x.id < y.id /\ x.epoch = y.epoch
              /\ (x.id + 1) .. (y.id - 1) \subseteq forgotten
              /\ \/ x \in ToSet(t.recs)
                 \/ /\ y = First(t)
                    /\ \E s \in verifier.got : Adjacent(verifier.got, s, t) /\ x = End(s)
<1>1. /\ t \in Segment /\ t.recs # <<>> /\ t.recs \in Seq(Record)
      /\ \A i \in 2 .. Len(t.recs) : Linked(t.recs[i - 1], t.recs[i])
  BY DEF EvidenceInv, VerifierType, Reading, SegmentFits, Segment
<1>2. PICK i \in DOMAIN t.recs : y = t.recs[i]
  BY DEF ToSet
<1>3. y \in WasRead
  BY DEF WasRead
<1>4. ASSUME NEW x \in WasRead, x.id = y.prev
      PROVE  /\ x.id < y.id /\ x.epoch = y.epoch
             /\ (x.id + 1) .. (y.id - 1) \subseteq forgotten
  <2>1. x \in Known /\ y \in Known
    BY <1>3 DEF Known
  <2>2. y.prev < y.id /\ x.epoch = y.epoch
    BY <1>4, <2>1 DEF EvidenceInv, Chain
  <2>3. x \in Record
    BY KnownTyped, <2>1 DEF EvidenceInv
  <2>4. y.prev # Genesis
    BY <1>4, <2>3 DEF Record, Genesis
  <2> QED
    BY <1>4, <2>1, <2>2, <2>4 DEF EvidenceInv, Chain
<1>5. CASE i # 1
  <2>1. i \in 2 .. Len(t.recs) /\ i - 1 \in DOMAIN t.recs
    BY <1>1, <1>2, <1>5
  <2>2. PICK x : x = t.recs[i - 1]
    OBVIOUS
  <2>3. x \in ToSet(t.recs) /\ x.id = y.prev
    BY <1>1, <1>2, <2>1, <2>2 DEF Linked, ToSet
  <2>4. x \in WasRead
    BY <2>3 DEF WasRead
  <2> QED
    BY <1>4, <2>3, <2>4
<1>6. CASE i = 1
  <2>1. y = First(t)
    BY <1>2, <1>6 DEF First
  <2>2. CASE t = Oldest(verifier.got) \/ AtGenesis(t)
    BY <2>1, <2>2 DEF AtGenesis
  <2>3. ASSUME NEW s \in verifier.got, Adjacent(verifier.got, s, t), Continues(s, t)
        PROVE  \E x \in WasRead :
              /\ x.id = y.prev /\ x.id < y.id /\ x.epoch = y.epoch
              /\ (x.id + 1) .. (y.id - 1) \subseteq forgotten
              /\ y = First(t)
              /\ \E u \in verifier.got : Adjacent(verifier.got, u, t) /\ x = End(u)
    <3>1. PICK x : x = End(s)
      OBVIOUS
    <3>2. x \in WasRead
      <4>1. s \in Segment /\ s.recs # <<>>
        BY DEF EvidenceInv, VerifierType, Reading, SegmentFits
      <4> QED
        BY <3>1, <4>1, SegmentFacts DEF WasRead
    <3>3. x.id = y.prev
      BY <2>1, <2>3, <3>1 DEF Continues, Linked
    <3> QED
      BY <1>4, <2>1, <2>3, <3>1, <3>2, <3>3
  <2> QED
    BY <2>1, <2>2, <2>3 DEF EvidenceInv, Sound, Sewn
<1> QED
  BY <1>5, <1>6

\* A non-empty set of records that were read has one with the least id.
LEMMA LeastRead ==
  ASSUME EvidenceInv, NEW R, R \subseteq WasRead, R # {}
  PROVE  \E y \in R : \A r \in R : y.id <= r.id
<1>1. \A r \in R : r.id \in Nat
  <2> TAKE r \in R
  <2>1. r \in Record
    BY KnownTyped DEF EvidenceInv, Known
  <2> QED
    BY <2>1 DEF Record
<1> DEFINE T == {r.id : r \in R}
<1>2. T \subseteq Nat /\ T # {}
  BY <1>1
<1> HIDE DEF T
<1>3. PICK n \in T : \A m \in T : n <= m
  BY <1>2, NatHasLeast
<1> QED
  BY <1>3 DEF T

\* Whatever was read is not older than the oldest segment's first record.
LEMMA ReadFacts ==
  ASSUME EvidenceInv, NEW t \in verifier.got, NEW y \in ToSet(t.recs)
  PROVE  /\ y \in Record /\ y.id \in Nat /\ 0 < y.id /\ y.epoch \in Nat /\ y.id \in SegIds(t)
         /\ t \in Segment /\ t.recs # <<>>
         /\ First(t).id \in Nat /\ First(t).id <= y.id /\ y.epoch <= y.id
         /\ Oldest(verifier.got) \in verifier.got
         /\ First(Oldest(verifier.got)).id <= First(t).id
<1>1. /\ t \in Segment /\ t.recs # <<>> /\ Ascending(t.recs) /\ t.recs \in Seq(Record)
  BY DEF EvidenceInv, VerifierType, Reading, SegmentFits, Segment
<1>2. y \in Record /\ y.id \in SegIds(t)
  BY <1>1, RecordsTyped, IdsOfRecords DEF SegIds
<1>3. First(t).id <= y.id /\ First(t).id \in Nat
  BY <1>1, <1>2, SegmentBounds, SegmentFacts
<1>4. y.epoch <= y.id
  BY DEF EvidenceInv, Chain, Known, WasRead
<1>5. PICK o : o = Oldest(verifier.got)
  OBVIOUS
<1>6. Sorted(verifier.got) /\ o \in verifier.got /\ Key(o) <= Key(t)
  BY <1>5, ReadSorted, OldestFound DEF EvidenceInv
<1>7. o \in Segment /\ o.recs # <<>>
  BY <1>6 DEF Sorted
<1>8. First(o).id <= First(t).id
  <2>1. o = t \/ Key(o) < Key(t)
    <3>1. Key(o) \in Nat /\ Key(t) \in Nat
      BY <1>1, <1>7, SegmentFacts
    <3> QED
      BY <1>6, <3>1 DEF Sorted
  <2>2. o = t \/ Earlier(o, t)
    BY <1>1, <1>7, <2>1, EarlierIsLess
  <2> QED
    BY <1>1, <1>3, <1>7, <2>2, SegmentFacts DEF Earlier
<1> QED
  BY <1>1, <1>2, <1>3, <1>4, <1>5, <1>6, <1>8 DEF Record

\* A chain that was begun anew does not go on with the records of the one before.
LEMMA EpochsAscend ==
  ASSUME EvidenceInv, Accepted, NEW t \in verifier.got, First(t).epoch = First(t).id,
         NEW b \in WasRead, First(t).id <= b.id
  PROVE  First(t).id <= b.epoch
<1> SUFFICES ASSUME ~(First(t).id <= b.epoch) PROVE FALSE
  OBVIOUS
<1>1. PICK y : y = First(t)
  OBVIOUS
<1>2. t \in Segment /\ t.recs # <<>> /\ y \in ToSet(t.recs) /\ y.id \in Nat
  BY <1>1, SegmentFacts DEF EvidenceInv, VerifierType, Reading, SegmentFits
<1>3. y \in WasRead
  BY <1>2 DEF WasRead
<1>4. \A r \in WasRead : r.id \in Nat /\ r.epoch \in Nat
  BY KnownTyped DEF EvidenceInv, Known
<1> DEFINE R == {r \in WasRead : y.id <= r.id /\ r.epoch < y.id}
<1>5. b \in R
  BY <1>1, <1>2, <1>4
<1>6. PICK z \in R : \A r \in R : z.id <= r.id
  <2>1. R \subseteq WasRead /\ R # {}
    BY <1>5
  <2> HIDE DEF R
  <2> QED
    BY <2>1, LeastRead
<1>7. PICK v \in verifier.got : z \in ToSet(v.recs)
  BY <1>6 DEF WasRead
<1>8. y.id < z.id
  <2>1. y.id # z.id
    <3>1. y.id = z.id => y = z
      BY <1>3, <1>6 DEF EvidenceInv, Chain, Known
    <3> QED
      BY <1>1, <1>2, <1>4, <1>6, <3>1
  <2> QED
    BY <1>2, <1>4, <1>6, <2>1
<1>9. ASSUME z = First(v), v = Oldest(verifier.got) PROVE FALSE
  <2>1. First(Oldest(verifier.got)).id <= y.id
    BY <1>1, <1>2, ReadFacts
  <2> QED
    BY <1>2, <1>4, <1>8, <1>9, <2>1
<1>10. ASSUME z.prev = Genesis PROVE FALSE
  <2>1. z.epoch = z.id
    BY <1>6, <1>10 DEF EvidenceInv, Chain, Known
  <2> QED
    BY <1>2, <1>4, <1>6, <1>8, <2>1
<1>11. PICK x \in WasRead :
         /\ x.id < z.id /\ x.epoch = z.epoch
         /\ \/ x \in ToSet(v.recs)
            \/ /\ z = First(v)
               /\ \E s \in verifier.got : Adjacent(verifier.got, s, v) /\ x = End(s)
  BY <1>7, <1>9, <1>10, Predecessor
<1>12. x.id < y.id
  <2>1. x \notin R
    BY <1>4, <1>6, <1>11
  <2> QED
    BY <1>2, <1>4, <1>6, <1>11, <2>1
<1>13. CASE x \in ToSet(v.recs)
  <2>1. /\ x.id \in SegIds(v) /\ z.id \in SegIds(v) /\ y.id \in SegIds(t)
        /\ First(v).id <= x.id /\ First(v).id \in Nat
    BY <1>2, <1>7, <1>13, ReadFacts
  <2>2. v.recs # t.recs
    BY <1>1, <1>2, <1>4, <1>12, <2>1 DEF First
  <2> QED
    BY <1>2, <1>4, <1>8, <1>12, <2>1, <2>2, SegmentsSeparate
<1>14. ASSUME NEW s \in verifier.got, z = First(v), Adjacent(verifier.got, s, v), x = End(s)
       PROVE  FALSE
  <2>1. s \in Segment /\ s.recs # <<>> /\ x \in ToSet(s.recs)
    BY <1>14, SegmentFacts DEF EvidenceInv, VerifierType, Reading, SegmentFits
  <2>2. First(s).id <= x.id /\ First(s).id \in Nat
    BY <2>1, ReadFacts
  <2>3. First(s).id < First(t).id /\ First(t).id < First(v).id
    BY <1>1, <1>2, <1>4, <1>6, <1>8, <1>11, <1>12, <1>14, <2>2
  <2> QED
    BY <1>14, <2>3 DEF Adjacent, Earlier
<1> QED
  BY <1>11, <1>13, <1>14

\* Between two records of a chain there is no record missing that the server did
\* not forget: the one after the hole would name it.
LEMMA NoGap ==
  ASSUME EvidenceInv, Accepted, NEW a \in WasRead, NEW b \in WasRead, a.epoch = b.epoch,
         NEW i \in a.id .. b.id
  PROVE  i \in forgotten \/ \E r \in WasRead : r.id = i
<1> SUFFICES ASSUME i \notin forgotten, \A r \in WasRead : r.id # i PROVE FALSE
  OBVIOUS
<1>1. \A r \in WasRead : r.id \in Nat /\ r.epoch \in Nat
  BY KnownTyped DEF EvidenceInv, Known
<1>2. i \in Nat /\ a.id < i /\ i < b.id
  BY <1>1
<1> DEFINE R == {r \in WasRead : i < r.id}
<1>3. PICK y \in R : \A r \in R : y.id <= r.id
  <2>1. R \subseteq WasRead /\ R # {}
    BY <1>2
  <2> HIDE DEF R
  <2> QED
    BY <2>1, LeastRead
<1>4. PICK t \in verifier.got : y \in ToSet(t.recs)
  BY <1>3 DEF WasRead
<1>5. PICK s \in verifier.got : a \in ToSet(s.recs)
  BY DEF WasRead
<1>6. ASSUME NEW x \in WasRead, x.id < y.id, (x.id + 1) .. (y.id - 1) \subseteq forgotten PROVE FALSE
  <2>1. x.id < i
    BY <1>1, <1>2, <1>3, <1>6
  <2>2. i \in (x.id + 1) .. (y.id - 1)
    BY <1>1, <1>2, <1>3, <2>1
  <2> QED
    BY <1>6, <2>2
<1>7. ASSUME y = First(t), t = Oldest(verifier.got) PROVE FALSE
  <2>1. First(t).id <= First(s).id /\ First(s).id <= a.id /\ First(s).id \in Nat
    BY <1>5, <1>7, ReadFacts
  <2> QED
    BY <1>1, <1>2, <1>3, <1>7, <2>1
<1>8. ASSUME y = First(t), y.prev = Genesis PROVE FALSE
  <2>1. y.epoch = y.id
    BY <1>3, <1>8 DEF EvidenceInv, Chain, Known
  <2>2. y.id <= b.id
    BY <1>2, <1>3
  <2>3. y.id <= b.epoch
    BY <1>8, <2>1, <2>2, EpochsAscend
  <2>4. a.epoch <= a.id
    BY DEF EvidenceInv, Chain, Known
  <2> QED
    BY <1>1, <1>2, <1>3, <2>3, <2>4
<1> QED
  BY <1>4, <1>6, <1>7, <1>8, Predecessor

\* A run that nothing disturbed has one segment of a name: there are no more
\* archives among them than there are names.
LEMMA ArchivesCounted ==
  ASSUME EvidenceInv, verifier.calm, NEW lo \in Nat, NEW hi \in Nat, lo <= hi,
         \A s \in verifier.got : s.path[1] # ActiveLog => lo < s.path[1] /\ s.path[1] <= hi
  PROVE  /\ IsFiniteSet({s \in verifier.got : s.path[1] # ActiveLog})
         /\ Cardinality({s \in verifier.got : s.path[1] # ActiveLog}) \in Nat
         /\ Cardinality({s \in verifier.got : s.path[1] # ActiveLog}) <= hi - lo
<1> DEFINE A == {s \in verifier.got : s.path[1] # ActiveLog}
           T == lo + 1 .. hi
           f == [s \in A |-> s.path[1]]
<1>1. \A s \in A : s.path[1] \in T
  <2> TAKE s \in A
  <2>1. s.path[1] \in Nat
    BY SegmentFacts DEF EvidenceInv, VerifierType, Reading, SegmentFits
  <2> QED
    BY <2>1
<1>2. \A s, t \in A : s.path[1] = t.path[1] => s = t
  <2> TAKE s, t \in A
  <2> HAVE s.path[1] = t.path[1]
  <2>1. s.path = t.path
    BY DEF EvidenceInv, Reading, TodoFits
  <2> QED
    BY <2>1 DEF EvidenceInv, Reading, PairFits
<1>3. f \in Injection(A, T)
  <2>1. f \in [A -> T]
    BY <1>1
  <2>2. \A s, t \in A : f[s] = f[t] => s = t
    BY <1>2
  <2> HIDE DEF f, A, T
  <2> QED
    BY <2>1, <2>2, Zenon DEF Injection, IsInjective
<1>4. IsFiniteSet(T) /\ Cardinality(T) <= hi - lo
  <2>1. lo + 1 \in Int /\ hi \in Int
    OBVIOUS
  <2>2. IsFiniteSet(lo + 1 .. hi) /\ Cardinality(lo + 1 .. hi) = IF lo + 1 > hi THEN 0 ELSE hi - (lo + 1) + 1
    BY <2>1, FS_Interval
  <2> QED
    BY <2>2
<1> HIDE DEF f, T
<1>5. IsFiniteSet(A) /\ Cardinality(A) <= Cardinality(T)
  BY <1>3, <1>4, FS_Injection
<1>6. Cardinality(A) \in Nat /\ Cardinality(T) \in Nat
  BY <1>4, <1>5, FS_CardinalityType
<1> QED
  BY <1>4, <1>5, <1>6

\* Behind a checkpoint, an archive that is missing in the window is seen at the
\* seam over its place.
LEMMA WindowWhole ==
  ASSUME EvidenceInv, Accepted, verifier.calm, verifier.head = "checkpoint",
         NEW n \in (rotations - RetainSegments + 1) .. rotations,
         \A s \in verifier.got : s.path[1] # n,
         \E s \in verifier.got : s.path[1] \notin 1 .. n - 1
  PROVE  \E s \in verifier.got : /\ s.path[1] \notin 1 .. n - 1
                                 /\ AtGenesis(s) \/ First(s).id - 1 \in forgotten
<1> DEFINE A == {s \in verifier.got : s.path[1] # ActiveLog}
           N == {s \in verifier.got : s.path[1] \notin 1 .. n - 1}
<1>1. /\ \A s \in verifier.got : /\ s \in Segment /\ s.recs # <<>> /\ s.path[1] \in Nat
                                 /\ s.path[1] <= rotations
                                 /\ First(s).id \in SegIds(s) /\ End(s).id \in SegIds(s)
                                 /\ First(s).id \in Nat /\ End(s).id \in Nat /\ Key(s) \in Nat
      /\ rotations \in Nat /\ RetainSegments \in Nat /\ 0 < RetainSegments
      /\ n \in Int /\ rotations - RetainSegments < n /\ n <= rotations
  <2>1. \A s \in verifier.got : s \in Segment /\ s.recs # <<>> /\ s.path[1] <= rotations
    BY DEF EvidenceInv, VerifierType, Reading, SegmentFits
  <2>2. rotations \in Nat /\ RetainSegments \in Nat /\ 0 < RetainSegments
    BY EvidenceAssumption DEF EvidenceInv, Types
  <2>3. n \in Int /\ rotations - RetainSegments < n /\ n <= rotations
    BY <2>2
  <2> QED
    BY <2>1, <2>2, <2>3, SegmentFacts
<1>2. Cardinality(A) >= RetainSegments
  BY DEF EvidenceInv, Sound, FullWindow
<1>3. n \in Nat /\ 0 < n
  <2> SUFFICES ASSUME n <= 0 PROVE FALSE
    BY <1>1
  <2>2. \A s \in verifier.got : s.path[1] # ActiveLog => 0 < s.path[1] /\ s.path[1] <= rotations
    BY <1>1 DEF ActiveLog
  <2>3. 0 \in Nat /\ rotations \in Nat /\ 0 <= rotations
    BY <1>1
  <2>1. Cardinality(A) \in Nat /\ Cardinality(A) <= rotations - 0
    BY <2>2, <2>3, ArchivesCounted
  <2> HIDE DEF A
  <2> QED
    BY <1>1, <1>2, <2>1
<1>4. PICK p \in verifier.got : p.path[1] \in 1 .. n - 1
  <2> SUFFICES ASSUME \A s \in verifier.got : s.path[1] \notin 1 .. n - 1 PROVE FALSE
    OBVIOUS
  <2>1. \A s \in verifier.got : s.path[1] # ActiveLog => n < s.path[1] /\ s.path[1] <= rotations
    BY <1>1, <1>3 DEF ActiveLog
  <2>2. Cardinality(A) \in Nat /\ Cardinality(A) <= rotations - n
    BY <1>1, <1>3, <2>1, ArchivesCounted DEF EvidenceInv
  <2> HIDE DEF A
  <2> QED
    BY <1>1, <1>2, <1>3, <2>2
<1>5. PICK t \in N : \A s \in N : Key(t) <= Key(s)
  <2>1. Sorted(N) /\ N # {}
    BY ReadSorted DEF EvidenceInv, Sorted
  <2> HIDE DEF N
  <2> QED
    BY <2>1, OldestFound
<1>6. ASSUME NEW s \in verifier.got, s.path[1] \in 1 .. n - 1
      PROVE  /\ End(s).id + 2 <= First(t).id /\ First(s).id + 2 <= First(t).id
  <2>1. PairFits(s, t) /\ s.path[1] \in Nat /\ 0 < s.path[1] /\ s.path[1] < n
    BY <1>3, <1>6 DEF EvidenceInv, Reading
  <2>2. t.path[1] \in Nat /\ (t.path[1] = ActiveLog \/ n < t.path[1])
    BY <1>1, <1>3 DEF ActiveLog
  <2>3. PICK d \in Nat : d >= 2 /\ Apart(SegIds(s), SegIds(t), d)
    <3>1. CASE t.path[1] = ActiveLog
      <4>1. FromActive(s.path[1]) = rotations + 1 - s.path[1]
        BY DEF FromActive
      <4>3. PICK m \in Nat : m = s.path[1]
        BY <2>1
      <4>4. m < n /\ n <= rotations /\ rotations \in Nat
        BY <1>1, <2>1, <4>3
      <4>5. rotations + 1 - m \in Nat /\ rotations + 1 - m >= 2
        BY <1>3, <4>4
      <4>2. rotations + 1 - s.path[1] \in Nat /\ rotations + 1 - s.path[1] >= 2
        BY <4>3, <4>5
      <4> QED
        BY <2>1, <3>1, <4>1, <4>2 DEF PairFits, ActiveLog
    <3>2. CASE n < t.path[1]
      <4>1. t.path[1] - s.path[1] \in Nat /\ t.path[1] - s.path[1] >= 2 /\ s.path[1] < t.path[1]
        BY <1>3, <2>1, <2>2, <3>2
      <4> QED
        BY <2>1, <4>1 DEF PairFits, ActiveLog
    <3> QED
      BY <2>2, <3>1, <3>2
  <2>4. End(s).id + d <= First(t).id /\ First(s).id + d <= First(t).id
    BY <1>1, <2>3 DEF Apart
  <2>5. End(s).id \in Nat /\ First(s).id \in Nat /\ First(t).id \in Nat
    BY <1>1
  <2> QED
    BY <2>3, <2>4, <2>5
<1>7. t # Oldest(verifier.got)
  <2>1. First(t) \in ToSet(t.recs) /\ First(p) \in ToSet(p.recs)
    BY <1>1, SegmentFacts
  <2>2. First(Oldest(verifier.got)).id <= First(p).id /\ First(p).id + 2 <= First(t).id
    BY <1>4, <1>6, <2>1, ReadFacts
  <2> QED
    BY <1>1, <2>2
<1>8. CASE AtGenesis(t)
  BY <1>8
<1>9. ASSUME NEW s \in verifier.got, Adjacent(verifier.got, s, t), Continues(s, t)
      PROVE  First(t).id - 1 \in forgotten
  <2>1. Key(s) < Key(t)
    BY <1>1, <1>9, EarlierIsLess DEF Adjacent
  <2>2. s.path[1] \in 1 .. n - 1
    BY <1>1, <1>5, <2>1
  <2>3. End(s).id + 2 <= First(t).id
    BY <1>6, <2>2
  <2>4. First(t).prev = End(s).id /\ First(t) \in Known /\ 0 < End(s).id
    <3>1. First(t) \in ToSet(t.recs) /\ End(s) \in Record
      BY <1>1, SegmentFacts
    <3> QED
      BY <1>9, <3>1 DEF Continues, Linked, Known, WasRead, Record
  <2>5. (First(t).prev + 1) .. (First(t).id - 1) \subseteq forgotten
    BY <2>4 DEF EvidenceInv, Chain, Genesis
  <2>6. End(s).id \in Nat /\ First(t).id \in Nat
    BY <1>1
  <2>7. First(t).id - 1 \in (First(t).prev + 1) .. (First(t).id - 1)
    BY <2>3, <2>4, <2>6
  <2> QED
    BY <2>5, <2>7
<1> QED
  BY <1>7, <1>8, <1>9 DEF EvidenceInv, Sound, Sewn

\* A run is valid only over a history without a hole that the server did not make.
THEOREM GapsRefused == EvidenceSpec => []GapRefused
<1>1. EvidenceInv => GapRefused
  <2> SUFFICES ASSUME EvidenceInv, Accepted PROVE GapRefused
    BY DEF GapRefused
  <2>1. ASSUME NEW a \in WasRead, NEW b \in WasRead, a.epoch = b.epoch
        PROVE  (a.id .. b.id) \subseteq Read \cup forgotten
    <3>1. \A r \in WasRead : r.id \in Read
      BY IdsOfRecords DEF Read, WasRead
    <3> QED
      BY <2>1, <3>1, NoGap
  <2>2. ASSUME verifier.calm, verifier.head = "checkpoint",
               NEW n \in (rotations - RetainSegments + 1) .. rotations
        PROVE  \/ \E s \in verifier.got : s.path[1] = n
               \/ \A s \in verifier.got : s.path[1] \in 1 .. n - 1
               \/ \E s \in verifier.got : /\ s.path[1] \notin 1 .. n - 1
                                          /\ AtGenesis(s) \/ First(s).id - 1 \in forgotten
    BY <2>2, WindowWhole
  <2> QED
    BY <2>1, <2>2 DEF GapRefused, WasRead
<1> QED
  BY <1>1, EvidenceInvariant, PTL

-----------------------------------------------------------------------------
(* An honest run is accepted.  Without a mishap the records are numbered   *)
(* without a hole from one; what is on the host is an end of them, behind  *)
(* a record whose checkpoint was kept unless nobody saw it; and a run that *)
(* logrotate does not disturb finds all of it.                             *)

Numbered(r) == r.seq = r.id - 1 /\ r.prev = r.id - 1
OnHand ==
  /\ written # 0 => OnHost(written)
  /\ written # 0 => OnHost(1) \/ Cardinality(Rotated) >= RetainSegments
  /\ \A id \in 1 .. written : OnHost(id) \/ \A r \in OnDisk : id < r.id
  /\ \A id \in 1 .. written : ~OnHost(id) /\ OnHost(id + 1) => unseen \/ id \in seen

\* Nothing was damaged, and the server has not lost its place.
Sane ==
  /\ damaged = {} /\ approved.valid
  /\ memory.seq = written /\ memory.prev = written
  /\ \A r \in Known : Numbered(r)

\* What a run has seen has its checkpoint.
Remembered == \A id \in seen : \E c \in checkpoints : c.chain = id /\ c.seq = id - 1

\* The files are those that were there when the run began.
Unmoved ==
  /\ rotating = "idle" /\ verifier.ok
  /\ verifier.todo \subseteq Listed
  /\ \A s \in verifier.got : s.path[1] \in Name
  /\ \A n \in Rotated : n \in Names(verifier.todo) \/ \E s \in verifier.got : s.path[1] = n
  /\ \A s \in verifier.got : s.path[1] = ActiveLog =>
       log[ActiveLog] # <<>> /\ First(s) = log[ActiveLog][1]

Judged ==
  /\ verifier.at = "save" => verifier.ok
  /\ verifier.at = "anchor" /\ ~verifier.ok /\ verifier.calm => unseen \/ verifier.got = {}

Honest ==
  /\ mishaps \in Nat
  /\ mishaps = 0 => /\ Sane /\ OnHand /\ Remembered /\ Judged
                    /\ verifier.at = "read" /\ verifier.calm => Unmoved

\* The checkpoint file has room: save_checkpoints drops no entry.
Room == Accepted => LastEntries(Merged(checkpoints, verifier.got)) = Merged(checkpoints, verifier.got)

\* A step that is no mishap.
LEMMA NoMishap ==
  ASSUME mishaps \in Nat, [EvidenceNext]_evidenceVars
  PROVE  /\ mishaps' \in Nat
         /\ mishaps' = 0 =>
              /\ mishaps = 0
              /\ \/ UNCHANGED evidenceVars \/ AppendBegins \/ AppendEnds
                 \/ LogrotateNext \/ VerifierNext \/ Approve
<1>1. CASE UNCHANGED evidenceVars \/ AppendBegins \/ AppendEnds
  BY <1>1 DEF evidenceVars, AppendBegins, AppendEnds
<1>2. CASE LogrotateNext
  BY <1>2 DEF LogrotateNext, CompressBegins, CompressEnds, Rename, Prune, Rotating
<1>3. CASE VerifierNext
  BY <1>3 DEF VerifierNext, ListPaths, Decide, SaveCheckpoints, WriteAnchor, Compare, Sync,
     VerifySegment, past
<1>4. CASE Approve
  BY <1>4 DEF Approve
<1>5. CASE Restart \/ MishapNext
  <2>1. Accident
    BY <1>5 DEF MishapNext, Restart, Abort, HostCrash, LoseCheckpoints, SpoilLedger, LoseArchive,
       Damage
  <2> QED
    BY <2>1 DEF Accident
<1> QED
  BY <1>1, <1>2, <1>3, <1>4, <1>5 DEF EvidenceNext, ServerNext

\* A record is on the host when a file has it.
LEMMA InFile ==
  ASSUME NEW id
  PROVE  OnHost(id) <=> \E n \in Name : id \in Ids(log[n])
BY IdsOfRecords DEF OnHost, OnDisk

Older(m, n) == m # ActiveLog /\ (n = ActiveLog \/ m < n)

\* Of two files one is older, and so are its records.
LEMMA FilesApart ==
  ASSUME Types, Disk, NEW m \in Name, NEW n \in Name
  PROVE  /\ Older(m, n) => \A x \in Ids(log[m]), y \in Ids(log[n]) : x < y
         /\ m = n \/ Older(m, n) \/ Older(n, m)
<1>1. /\ m \in Nat /\ n \in Nat /\ m <= rotations /\ n <= rotations /\ rotations \in Nat
      /\ \A x \in Ids(log[m]) : x \in Nat
      /\ \A x \in Ids(log[n]) : x \in Nat
  BY FilesTyped DEF ActiveLog
<1>2. ASSUME Older(m, n), NEW x \in Ids(log[m]), NEW y \in Ids(log[n]) PROVE x < y
  <2>1. m \in Rotated /\ x \in Nat /\ y \in Nat
    BY <1>1, <1>2 DEF Older, Rotated
  <2>2. CASE n = ActiveLog
    <3>1. x + (rotations + 1 - m) <= y
      BY <2>1, <2>2 DEF Disk, Apart
    <3> QED
      BY <1>1, <2>1, <3>1
  <2>3. CASE n # ActiveLog
    <3>1. n \in Rotated /\ m < n
      BY <1>2, <2>3 DEF Older, Rotated
    <3>2. x + (n - m) <= y
      BY <2>1, <3>1 DEF Disk, Apart
    <3> QED
      BY <1>1, <2>1, <3>1, <3>2
  <2> QED
    BY <2>2, <2>3
<1> QED
  BY <1>1, <1>2 DEF Older

\* A new record is on hand.
LEMMA OnHandAppend ==
  ASSUME Types, Disk, OnHand, AppendEnds
  PROVE  OnHand'
<1>1. /\ Rotated' = Rotated /\ OnDisk' = OnDisk \cup {NextRecord} /\ NextRecord.id = written + 1
      /\ written' = written + 1 /\ written \in Nat /\ seen' = seen /\ unseen' = unseen
  BY AppendStep DEF AppendEnds, Types, Rotated
<1>2. \A id : OnHost(id)' <=> OnHost(id) \/ id = written + 1
  BY <1>1 DEF OnHost
<1>3. \A id \in 1 .. written + 1 : OnHost(id)' \/ \A r \in OnDisk' : id < r.id
  BY <1>1, <1>2 DEF OnHand
<1>4. ASSUME NEW id \in 1 .. written + 1, ~OnHost(id)', OnHost(id + 1)'
      PROVE  unseen \/ id \in seen
  <2>1. id \in 1 .. written /\ ~OnHost(id) /\ id # written
    BY <1>1, <1>2, <1>4 DEF OnHand
  <2>2. OnHost(id + 1)
    BY <1>1, <1>2, <1>4, <2>1
  <2> QED
    BY <2>1, <2>2 DEF OnHand
<1>5. OnHost(1)' \/ Cardinality(Rotated') >= RetainSegments
  BY <1>1, <1>2 DEF OnHand
<1> QED
  BY <1>1, <1>2, <1>3, <1>4, <1>5 DEF OnHand

\* The archives are finitely many.
LEMMA ArchivesFinite ==
  ASSUME Types
  PROVE  IsFiniteSet(Rotated) /\ Cardinality(Rotated) \in Nat
<1>1. Rotated \subseteq 0 .. rotations /\ 0 \in Int /\ rotations \in Int
  BY DEF Types, Rotated
<1>2. IsFiniteSet(0 .. rotations)
  BY <1>1, FS_Interval
<1> QED
  BY <1>1, <1>2, FS_Subset, FS_CardinalityType

\* A rotation adds an archive, and the same records are there.
LEMMA OnHandRename ==
  ASSUME Types, Disk, OnHand, Rename
  PROVE  OnHand'
<1>1. /\ Rotated' = Rotated \cup {rotations + 1} /\ rotations + 1 \notin Rotated /\ OnDisk' = OnDisk
      /\ written' = written /\ seen' = seen /\ unseen' = unseen
  BY RenameStep DEF Rename, past, Rotated
<1>2. Cardinality(Rotated') = Cardinality(Rotated) + 1
  BY <1>1, ArchivesFinite, FS_AddElement
<1>3. Cardinality(Rotated) >= RetainSegments => Cardinality(Rotated') >= RetainSegments
  BY <1>2, ArchivesFinite, EvidenceAssumption
<1> QED
  BY <1>1, <1>3 DEF OnHand, OnHost

\* What is pruned are the oldest records, up to the end of a file.
LEMMA OnHandPrune ==
  ASSUME Types, Disk, Chain, OnHand, Prune
  PROVE  OnHand'
<1>1. PICK X \in SUBSET Rotated :
        /\ log' = [n \in Name \ X |-> log[n]]
        /\ \A g \in X : \A n \in Rotated \ X : g < n
        /\ unseen' = (unseen \/ \E n \in X : log[n] # <<>> /\ Last(log[n]).id \notin seen)
        /\ X # {} => X = {Min(Rotated)} /\ Cardinality(Rotated) > RetainSegments
  BY PruneStep
<1>2. /\ Name' = Name \ X /\ Rotated' = Rotated \ X /\ \A n \in Name' : log'[n] = log[n]
      /\ OnDisk' \subseteq OnDisk
  BY <1>1, RemoveStep
<1>3. written' = written /\ seen' = seen /\ written \in Nat
  BY DEF Prune, Rotating, Types
<1>4. \A id : OnHost(id)' <=> \E n \in Name \ X : id \in Ids(log[n])
  <2>1. \A id : OnHost(id)' <=> \E n \in Name' : \E r \in ToSet(log'[n]) : r.id = id
    BY DEF OnHost, OnDisk
  <2> QED
    BY <1>2, <2>1, IdsOfRecords
<1>5. \A g \in X, n \in Name \ X : Older(g, n)
  BY <1>1 DEF Older, Rotated
<1>6. \A g \in X, n \in Name \ X : \A x \in Ids(log[g]), y \in Ids(log[n]) : x < y
  BY <1>5, FilesApart DEF Rotated
<1>7. \A n \in Name : \A y \in Ids(log[n]) : y \in Nat /\ y <= written
  <2>1. \A n \in Name : \A y \in Ids(log[n]) : \E r \in Known : r.id = y
    BY IdsOfRecords DEF Known, OnDisk
  <2> QED
    BY <2>1, FilesTyped DEF Chain
<1>8. ASSUME written # 0 PROVE OnHost(written)'
  <2>1. PICK n \in Name : written \in Ids(log[n])
    BY <1>8, InFile DEF OnHand
  <2>2. n \notin X
    <3> SUFFICES ASSUME n \in X PROVE FALSE
      OBVIOUS
    <3>1. X = {n} /\ Cardinality(Rotated) > 1
      BY <1>1, ArchivesFinite, EvidenceAssumption
    <3>2. PICK m \in Rotated : m # n
      <4>1. Rotated # {n}
        BY <3>1, FS_Singleton, SMTT(30)
      <4> QED
        BY <4>1
    <3>3. m \in Name \ X /\ log[m] # <<>> /\ log[m] \in Seq(Record)
      BY <3>1, <3>2, FilesTyped DEF Disk, Rotated
    <3>4. PICK y : y = log[m][1].id /\ y \in Ids(log[m])
      BY <3>3 DEF Ids
    <3>5. written < y /\ y \in Nat /\ y <= written
      BY <1>6, <1>7, <2>1, <3>1, <3>3, <3>4
    <3> QED
      BY <1>3, <3>5
  <2> QED
    BY <1>3, <1>4, <2>1, <2>2
<1>9. ASSUME written # 0 PROVE OnHost(1)' \/ Cardinality(Rotated') >= RetainSegments
  <2>1. CASE X = {}
    BY <1>2, <1>4, <1>9, <2>1, InFile DEF OnHand
  <2>2. CASE X # {}
    <3>1. PICK g : X = {g} /\ g \in Rotated /\ Cardinality(Rotated) > RetainSegments
      BY <1>1, <2>2
    <3>2. Cardinality(Rotated') = Cardinality(Rotated) - 1
      BY <1>2, <3>1, ArchivesFinite, FS_RemoveElement
    <3> QED
      BY <3>1, <3>2, ArchivesFinite, EvidenceAssumption
  <2> QED
    BY <2>1, <2>2
<1>10. ASSUME NEW id \in 1 .. written PROVE OnHost(id)' \/ \A r \in OnDisk' : id < r.id
  <2>1. CASE \A r \in OnDisk : id < r.id
    BY <1>2, <2>1
  <2>2. CASE OnHost(id) /\ ~OnHost(id)'
    <3>1. PICK g \in X : id \in Ids(log[g])
      BY <1>4, <2>2, InFile
    <3>2. ASSUME NEW r \in OnDisk' PROVE id < r.id
      <4>1. PICK n \in Name \ X : r.id \in Ids(log[n])
        BY <1>2, IdsOfRecords DEF OnDisk
      <4> QED
        BY <1>6, <3>1, <4>1
    <3> QED
      BY <3>2
  <2> QED
    BY <2>1, <2>2 DEF OnHand
<1>11. ASSUME NEW id \in 1 .. written, ~OnHost(id)', OnHost(id + 1)'
       PROVE  unseen' \/ id \in seen
  <2>1. PICK n \in Name \ X : id + 1 \in Ids(log[n])
    BY <1>4, <1>11
  <2>2. CASE ~OnHost(id)
    <3>1. OnHost(id + 1)
      BY <2>1, InFile
    <3> QED
      BY <1>1, <2>2, <3>1 DEF OnHand
  <2>3. CASE OnHost(id)
    <3>1. PICK g \in X : id \in Ids(log[g])
      BY <1>4, <1>11, <2>3, InFile
    <3>2. log[g] \in Seq(Record) /\ log[g] # <<>> /\ Ascending(log[g]) /\ g \in Name
      BY FilesTyped DEF Disk
    <3>3. /\ \A a \in Ids(log[g]) : a <= Last(log[g]).id
          /\ Last(log[g]).id \in Ids(log[g])
      BY <3>2, Dropped
    <3>4. Last(log[g]).id < id + 1 /\ id <= Last(log[g]).id
      BY <1>6, <2>1, <3>1, <3>3
    <3>5. Last(log[g]).id \in Nat /\ id \in Nat
      BY <1>7, <3>2, <3>3
    <3>6. Last(log[g]).id = id
      BY <3>4, <3>5
    <3> QED
      BY <1>1, <3>2, <3>6
  <2> QED
    BY <2>2, <2>3
<1> QED
  BY <1>3, <1>8, <1>9, <1>10, <1>11 DEF OnHand

\* Every step without a mishap leaves an end of the records on hand.
LEMMA OnHandStep ==
  ASSUME Types, Disk, Chain, OnHand, [EvidenceNext]_evidenceVars, mishaps \in Nat, mishaps' = 0
  PROVE  OnHand'
<1>1. CASE AppendEnds
  BY <1>1, OnHandAppend
<1>2. CASE Rename
  BY <1>2, OnHandRename
<1>3. CASE Prune
  BY <1>3, OnHandPrune
<1>4. CASE AppendBegins \/ CompressBegins \/ CompressEnds \/ UNCHANGED host
  <2>1. log' = log /\ written' = written
    BY <1>4 DEF AppendBegins, CompressBegins, CompressEnds, host, files, past
  <2>2. seen \subseteq seen'
    BY HistoryGrows
  <2>3. unseen => unseen'
    BY HistorySteps DEF Restart, HostCrash, Prune, SaveCheckpoints, LoseArchive
  <2>4. OnDisk' = OnDisk /\ Rotated' = Rotated
    BY <2>1 DEF OnDisk, Rotated, Name
  <2>5. \A id : OnHost(id)' <=> OnHost(id)
    BY <2>4 DEF OnHost
  <2> QED
    BY <2>1, <2>2, <2>3, <2>4, <2>5 DEF OnHand
<1>5. \/ AppendBegins \/ AppendEnds \/ CompressBegins \/ CompressEnds \/ Rename \/ Prune
      \/ UNCHANGED host
  <2>1. CASE HostCrash
    BY <2>1 DEF HostCrash, Accident
  <2>2. ASSUME NEW n \in Name, LoseArchive(n) PROVE FALSE
    BY <2>2 DEF LoseArchive, Accident
  <2> QED
    BY <2>1, <2>2, StepsOnFiles
<1> QED
  BY <1>1, <1>2, <1>3, <1>4, <1>5

\* Without a mishap nothing is damaged, and the server numbers the records from one.
LEMMA SaneStep ==
  ASSUME Types, VerifierType, Disk, Sane, [EvidenceNext]_evidenceVars, mishaps \in Nat, mishaps' = 0
  PROVE  Sane'
<1>1. \/ UNCHANGED evidenceVars \/ AppendBegins \/ AppendEnds
      \/ LogrotateNext \/ VerifierNext \/ Approve
  BY NoMishap
<1>2. damaged' = {}
  <2>1. CASE Rename
    BY <2>1 DEF Rename, Sane
  <2>2. CASE Prune
    BY <2>2 DEF Prune, Sane
  <2>3. CASE CompressBegins \/ CompressEnds \/ AppendEnds
    BY <2>3 DEF CompressBegins, CompressEnds, AppendEnds, Sane
  <2>4. CASE UNCHANGED evidenceVars \/ AppendBegins \/ Approve \/ VerifierNext
    BY <2>4 DEF evidenceVars, AppendBegins, Approve, VerifierNext, ListPaths, Decide,
       SaveCheckpoints, WriteAnchor, Compare, Sync, VerifySegment, files, Sane
  <2> QED
    BY <1>1, <2>1, <2>2, <2>3, <2>4 DEF LogrotateNext
<1>3. approved'.valid
  <2>1. CASE Approve
    <3>1. approved \in [valid : BOOLEAN, resets : SUBSET Nat, heads : SUBSET ApprovedEntry]
      BY DEF Types
    <3> QED
      BY <2>1, <3>1 DEF Approve
  <2>2. CASE SaveCheckpoints \/ WriteAnchor
    BY <2>2 DEF SaveCheckpoints, WriteAnchor, Sane
  <2>3. CASE LoseCheckpoints \/ SpoilLedger
    BY <2>3 DEF LoseCheckpoints, SpoilLedger, Accident
  <2> QED
    BY <2>1, <2>2, <2>3, EvidenceSteps DEF Sane
<1>4. CASE AppendEnds
  <2>1. /\ memory' = [seq |-> NextRecord.seq + 1, prev |-> written + 1, epoch |-> NextRecord.epoch]
        /\ written' = written + 1 /\ written \in Nat /\ NextRecord.id = written + 1
        /\ NextRecord.seq = memory.seq /\ NextRecord.prev = memory.prev
    BY <1>4, AppendStep DEF Types, NextRecord
  <2>2. memory'.seq = written' /\ memory'.prev = written' /\ Numbered(NextRecord)
    BY <2>1 DEF Sane, Numbered
  <2>3. Known' \subseteq Known \cup {NextRecord}
    BY KnownStep
  <2> QED
    BY <1>2, <1>3, <2>2, <2>3 DEF Sane, Numbered
<1>5. CASE ~AppendEnds
  <2>1. Known' \subseteq Known
    BY <1>5, KnownStep
  <2>2. memory' = memory
    BY <1>5, MemorySteps DEF Restart, HostCrash, Accident
  <2>3. written' = written
    BY <1>5, HistoryGrows
  <2> QED
    BY <1>2, <1>3, <2>1, <2>2, <2>3 DEF Sane
<1> QED
  BY <1>4, <1>5

\* The end of every segment of a valid run is among the checkpoints, which keep it.
LEMMA RememberedStep ==
  ASSUME EvidenceInv, Sane, Remembered, Room, [EvidenceNext]_evidenceVars, mishaps \in Nat, mishaps' = 0
  PROVE  Remembered'
<1>1. CASE SaveCheckpoints
  <2>1. /\ checkpoints' = Merged(checkpoints, verifier.got)
        /\ seen' = seen \cup {End(s).id : s \in verifier.got}
    BY <1>1 DEF SaveCheckpoints, Room, Accepted
  <2>2. ASSUME NEW s \in verifier.got
        PROVE  \E c \in checkpoints' : c.chain = End(s).id /\ c.seq = End(s).id - 1
    <3>1. PICK c : c = [seq |-> End(s).seq, chain |-> End(s).id, epoch |-> Epoch(verifier.got, s),
                        place |-> Place(checkpoints, verifier.got, s)]
      OBVIOUS
    <3>2. c \in checkpoints'
      BY <2>1, <3>1 DEF Merged, Boundaries
    <3>3. End(s) \in Known
      BY SegmentFacts DEF EvidenceInv, VerifierType, Reading, SegmentFits, Known, WasRead
    <3> QED
      BY <3>1, <3>2, <3>3 DEF Sane, Numbered
  <2>3. ASSUME NEW id \in seen
        PROVE  \E c \in checkpoints' : c.chain = id /\ c.seq = id - 1
    <3>1. PICK c \in checkpoints : c.chain = id /\ c.seq = id - 1
      BY DEF Remembered
    <3>2. CASE \E s \in verifier.got : SameKey(c, s)
      BY <2>2, <3>1, <3>2 DEF SameKey
    <3>3. CASE \A s \in verifier.got : ~SameKey(c, s)
      BY <2>1, <3>1, <3>3 DEF Merged, Boundaries
    <3> QED
      BY <3>2, <3>3
  <2> QED
    BY <2>1, <2>2, <2>3 DEF Remembered
<1>2. CASE ~SaveCheckpoints
  <2>1. checkpoints' = checkpoints
    <3>1. CASE WriteAnchor \/ Approve \/ SpoilLedger
      BY <3>1 DEF WriteAnchor, Approve, SpoilLedger, offHost
    <3>2. ~LoseCheckpoints
      BY DEF LoseCheckpoints, Accident
    <3> QED
      BY <1>2, <3>1, <3>2, EvidenceSteps
  <2>2. seen' = seen
    BY <1>2, HistorySteps DEF Restart, HostCrash, Prune, LoseArchive
  <2> QED
    BY <2>1, <2>2 DEF Remembered
<1> QED
  BY <1>1, <1>2

\* Of the segments of a run that nothing disturbed, one is older than the other.
LEMMA CalmSegments ==
  ASSUME EvidenceInv, verifier.calm, NEW s \in verifier.got, NEW t \in verifier.got
  PROVE  \/ s = t
         \/ \A x \in SegIds(s), y \in SegIds(t) : x < y
         \/ \A x \in SegIds(s), y \in SegIds(t) : y < x
<1>1. s.path[1] = t.path[1] => s = t
  BY DEF EvidenceInv, Reading, TodoFits, PairFits
<1>2. CASE s.path[1] # t.path[1]
  <2>1. /\ s.path[1] \in Nat /\ s.path[1] <= rotations /\ t.path[1] \in Nat /\ t.path[1] <= rotations
        /\ rotations \in Nat
        /\ \A x \in SegIds(s) : x \in Nat
        /\ \A y \in SegIds(t) : y \in Nat
    BY SegmentTyped DEF EvidenceInv, Reading, SegmentFits, Types
  <2>2. PairFits(s, t) /\ PairFits(t, s)
    BY DEF EvidenceInv, Reading
  <2>3. \A n \in Nat : n <= rotations => FromActive(n) \in Nat /\ FromActive(n) > 0
    BY <2>1 DEF FromActive
  <2>4. CASE Older(s.path[1], t.path[1])
    <3>1. \E d \in Nat : d > 0 /\ Apart(SegIds(s), SegIds(t), d)
      <4>1. CASE t.path[1] = ActiveLog
        BY <2>1, <2>2, <2>3, <2>4, <4>1 DEF PairFits, Older
      <4>2. CASE t.path[1] # ActiveLog
        <5>1. t.path[1] - s.path[1] \in Nat /\ t.path[1] - s.path[1] > 0
          BY <2>1, <2>4, <4>2 DEF Older
        <5> QED
          BY <2>2, <2>4, <4>2, <5>1 DEF PairFits, Older
      <4> QED
        BY <4>1, <4>2
    <3> QED
      BY <2>1, <3>1 DEF Apart
  <2>5. CASE Older(t.path[1], s.path[1])
    <3>1. \E d \in Nat : d > 0 /\ Apart(SegIds(t), SegIds(s), d)
      <4>1. CASE s.path[1] = ActiveLog
        BY <2>1, <2>2, <2>3, <2>5, <4>1 DEF PairFits, Older
      <4>2. CASE s.path[1] # ActiveLog
        <5>1. s.path[1] - t.path[1] \in Nat /\ s.path[1] - t.path[1] > 0
          BY <2>1, <2>5, <4>2 DEF Older
        <5> QED
          BY <2>2, <2>5, <4>2, <5>1 DEF PairFits, Older
      <4> QED
        BY <4>1, <4>2
    <3> QED
      BY <2>1, <3>1 DEF Apart
  <2> QED
    BY <1>2, <2>1, <2>4, <2>5 DEF Older
<1> QED
  BY <1>1, <1>2

\* A run that is at its end, that nothing disturbed, and that found something.
Complete ==
  /\ EvidenceInv /\ Sane /\ OnHand /\ Remembered /\ Unmoved
  /\ verifier.calm /\ verifier.todo = {} /\ verifier.got # {}

\* It has the files that are there: an archive as it is, the active file from its
\* first record.
LEMMA AllRead ==
  ASSUME Complete
  PROVE  /\ \A n \in Rotated : \E s \in verifier.got : s.path[1] = n /\ s.recs = log[n]
         /\ \A s \in verifier.got :
              /\ s \in Segment /\ s.recs # <<>> /\ Ascending(s.recs)
              /\ s.path[1] \in Name /\ First(s).id \in Ids(log[s.path[1]])
              /\ \A x \in Ids(log[s.path[1]]) : First(s).id <= x
              /\ First(s) \in Known /\ End(s) \in Known
<1>1. ASSUME NEW s \in verifier.got
      PROVE  /\ s \in Segment /\ s.recs # <<>> /\ Ascending(s.recs) /\ s.path[1] \in Name
             /\ First(s) \in Known /\ End(s) \in Known
             /\ s.path[1] # ActiveLog => s.recs = log[s.path[1]]
             /\ s.path[1] = ActiveLog => log[ActiveLog] # <<>> /\ First(s) = log[ActiveLog][1]
  <2>1. s \in Segment /\ s.recs # <<>> /\ Ascending(s.recs) /\ s.path[1] \in Name
    BY DEF Complete, EvidenceInv, VerifierType, Reading, SegmentFits, Unmoved
  <2>2. s.path[1] # ActiveLog => s.recs = log[s.path[1]]
    BY <2>1 DEF Complete, EvidenceInv, Reading, SegmentFits, ArchiveFits
  <2>3. First(s) \in ToSet(s.recs) /\ End(s) \in ToSet(s.recs)
    BY <2>1, SegmentFacts
  <2>4. First(s) \in Known /\ End(s) \in Known
    BY <2>3 DEF Known, WasRead
  <2> QED
    BY <2>1, <2>2, <2>4 DEF Complete, Unmoved
<1>2. ASSUME NEW s \in verifier.got
      PROVE  /\ First(s).id \in Ids(log[s.path[1]])
             /\ \A x \in Ids(log[s.path[1]]) : First(s).id <= x
  <2>1. PICK recs : recs = log[s.path[1]]
    OBVIOUS
  <2>2. recs # <<>> /\ First(s) = recs[1]
    BY <1>1, <2>1 DEF First
  <2>3. recs \in Seq(Record) /\ Ascending(recs)
    BY <1>1, <2>1, FilesTyped DEF Complete, EvidenceInv, Disk
  <2>4. 1 \in DOMAIN recs /\ \A i \in DOMAIN recs : i \in Nat /\ 1 <= i
    BY <2>2, <2>3
  <2>5. \A i \in DOMAIN recs : recs[i].id \in Nat
    BY <2>3, RecordsTyped DEF Record
  <2>6. \A i \in DOMAIN recs : recs[1].id <= recs[i].id
    BY <2>3, <2>4, <2>5 DEF Ascending
  <2> QED
    BY <2>1, <2>2, <2>4, <2>6 DEF Ids
<1>3. ASSUME NEW n \in Rotated
      PROVE  \E s \in verifier.got : s.path[1] = n /\ s.recs = log[n]
  <2>1. PICK s \in verifier.got : s.path[1] = n
    BY DEF Complete, Unmoved, Names
  <2> QED
    BY <1>1, <2>1 DEF Rotated
<1> QED
  BY <1>1, <1>2, <1>3

\* The record before the first one of a segment is in a segment that was read, or no
\* file has it and the segment is the oldest.
LEMMA BeforeFirst ==
  ASSUME Complete, NEW t \in verifier.got, NEW id \in Nat \ {0}, First(t).id = id + 1
  PROVE  \/ \E s \in verifier.got : s.path[1] # ActiveLog /\ s.recs = log[s.path[1]] /\ id \in SegIds(s)
         \/ ~OnHost(id)
<1> SUFFICES ASSUME OnHost(id)
             PROVE  \E s \in verifier.got : /\ s.path[1] # ActiveLog /\ s.recs = log[s.path[1]]
                                            /\ id \in SegIds(s)
  OBVIOUS
<1>1. PICK n \in Name : id \in Ids(log[n])
  BY InFile
<1>2. PICK m \in Name : m = t.path[1] /\ id + 1 \in Ids(log[m]) /\ \A x \in Ids(log[m]) : id + 1 <= x
  BY AllRead
<1>3. n # m
  BY <1>1, <1>2
<1>4. n # ActiveLog
  <2> SUFFICES ASSUME n = ActiveLog PROVE FALSE
    OBVIOUS
  <2>1. Older(m, n)
    BY <1>3 DEF Older
  <2>2. id + 1 < id
    BY <1>1, <1>2, <2>1, FilesApart DEF Complete, EvidenceInv
  <2> QED
    BY <2>2
<1>5. n \in Rotated
  BY <1>4 DEF Rotated
<1> QED
  BY <1>1, <1>4, <1>5, AllRead DEF SegIds

\* The first record of a segment names the one before it.
LEMMA FirstNumbered ==
  ASSUME Complete, NEW t \in verifier.got
  PROVE  /\ First(t).id \in Nat \ {0} /\ First(t).seq = First(t).id - 1
         /\ First(t).prev = First(t).id - 1 /\ First(t).id <= written /\ written \in Nat
         /\ First(t).id \in SegIds(t) /\ OnHost(First(t).id)
<1>1. /\ t \in Segment /\ t.recs # <<>> /\ First(t) \in Known
      /\ t.path[1] \in Name /\ First(t).id \in Ids(log[t.path[1]])
  BY AllRead
<1>2. OnHost(First(t).id)
  BY <1>1, InFile
<1>3. First(t).id \in SegIds(t) /\ First(t) \in Record
  BY <1>1, SegmentFacts
<1> QED
  BY <1>1, <1>2, <1>3 DEF Complete, Sane, Numbered, EvidenceInv, Chain, Types, Record

\* The oldest segment is the one with the least record.
LEMMA OldestRead ==
  ASSUME Complete
  PROVE  /\ Oldest(verifier.got) \in verifier.got
         /\ \A t \in verifier.got : First(Oldest(verifier.got)).id <= First(t).id
<1>1. /\ Sorted(verifier.got) /\ verifier.got # {}
  BY ReadSorted DEF Complete, EvidenceInv
<1>2. PICK o : o = Oldest(verifier.got)
  OBVIOUS
<1>3. o \in verifier.got /\ \A t \in verifier.got : Key(o) <= Key(t)
  BY <1>1, <1>2, OldestFound
<1>4. ASSUME NEW t \in verifier.got PROVE First(o).id <= First(t).id
  <2>1. First(o).id \in Nat /\ First(t).id \in Nat /\ Key(o) <= Key(t)
    BY <1>3, FirstNumbered
  <2> QED
    BY <2>1 DEF Key
<1> QED
  BY <1>2, <1>3, <1>4

\* The oldest segment begins at genesis or continues a checkpoint, with the whole
\* window behind it.
LEMMA HeadAccepted ==
  ASSUME Complete, ~unseen
  PROVE  HeadOf(verifier.got) # "refused"
<1>1. PICK o : o = Oldest(verifier.got)
  OBVIOUS
<1>2. o \in verifier.got /\ \A t \in verifier.got : First(o).id <= First(t).id
  BY <1>1, OldestRead
<1>3. PICK k : k = First(o).id
  OBVIOUS
<1>4. /\ k \in Nat \ {0} /\ First(o).seq = k - 1 /\ First(o).prev = k - 1 /\ OnHost(k)
      /\ k <= written /\ written \in Nat
  BY <1>2, <1>3, FirstNumbered
<1>5. CASE k = 1
  <2>1. AtGenesis(o)
    BY <1>4, <1>5 DEF AtGenesis, Genesis
  <2> QED
    BY <1>1, <2>1 DEF HeadOf
<1>6. CASE k # 1
  <2>1. PICK id \in Nat \ {0} : k = id + 1 /\ id \in 1 .. written
    <3>1. k - 1 \in Nat \ {0} /\ k = (k - 1) + 1 /\ k - 1 \in 1 .. written
      BY <1>4, <1>6
    <3> QED
      BY <3>1
  <2>2. ~OnHost(id)
    <3>1. ASSUME NEW s \in verifier.got, id \in SegIds(s) PROVE FALSE
      <4>1. s \in Segment /\ s.recs # <<>> /\ Ascending(s.recs)
        BY AllRead
      <4>2. First(s).id <= id
        BY <3>1, <4>1, SegmentBounds
      <4>3. k <= First(s).id /\ First(s).id \in Nat
        BY <1>2, <1>3, FirstNumbered
      <4> QED
        BY <2>1, <4>2, <4>3
    <3> QED
      BY <1>2, <1>3, <2>1, <3>1, BeforeFirst
  <2>3. PICK c \in checkpoints : c.chain = id /\ c.seq = id - 1
    <3>1. id \in seen
      BY <1>4, <2>1, <2>2 DEF Complete, OnHand
    <3> QED
      BY <3>1 DEF Complete, Remembered
  <2>4. c \in Before(o)
    BY <1>4, <2>1, <2>3 DEF Before
  <2>5. Cardinality(Rotated) >= RetainSegments
    <3>1. ~OnHost(1)
      <4> SUFFICES ASSUME OnHost(1) PROVE FALSE
        OBVIOUS
      <4>1. PICK r \in OnDisk : r.id = 1
        BY DEF OnHost
      <4>2. id < r.id
        BY <2>1, <2>2 DEF Complete, OnHand
      <4> QED
        BY <2>1, <4>1, <4>2
    <3> QED
      BY <1>4, <3>1 DEF Complete, OnHand
  <2>6. FullWindow(verifier.got)
    <3> DEFINE A == {s \in verifier.got : s.path[1] # ActiveLog}
               f == [s \in A |-> s.path[1]]
    <3>1. f \in Surjection(A, Rotated)
      <4>1. \A s \in A : s.path[1] \in Rotated
        BY AllRead DEF Rotated
      <4>2. f \in [A -> Rotated]
        BY <4>1
      <4>3. \A n \in Rotated : \E s \in A : f[s] = n
        BY AllRead DEF Rotated
      <4> HIDE DEF A, f
      <4> QED
        BY <4>2, <4>3, Zenon DEF Surjection
    <3>2. IsFiniteSet(A) /\ Cardinality(A) \in Nat
      <4>1. \A s \in verifier.got : s.path[1] # ActiveLog => 0 < s.path[1] /\ s.path[1] <= rotations
        BY AllRead, FilesTyped DEF Complete, EvidenceInv, Rotated
      <4>2. 0 \in Nat /\ rotations \in Nat /\ 0 <= rotations
        BY DEF Complete, EvidenceInv, Types
      <4> QED
        BY <4>1, <4>2, ArchivesCounted DEF Complete
    <3> HIDE DEF A, f
    <3>3. Cardinality(Rotated) <= Cardinality(A) /\ Cardinality(Rotated) \in Nat
      BY <3>1, <3>2, FS_Surjection, ArchivesFinite DEF Complete, EvidenceInv
    <3>4. Cardinality(A) >= RetainSegments
      BY <2>5, <3>2, <3>3, EvidenceAssumption
    <3> QED
      BY <3>4 DEF FullWindow, A
  <2> QED
    BY <1>1, <2>4, <2>6 DEF HeadOf
<1> QED
  BY <1>5, <1>6

\* Every other segment continues the one before it.
LEMMA SeamsAccepted ==
  ASSUME Complete
  PROVE  SeamsHold(verifier.got)
<1> SUFFICES ASSUME NEW t \in verifier.got, t # Oldest(verifier.got)
             PROVE  \E s \in verifier.got : Adjacent(verifier.got, s, t) /\ Continues(s, t)
  BY DEF SeamsHold
<1>1. PICK o \in verifier.got : o # t /\ First(o).id <= First(t).id
  BY OldestRead
<1>2. /\ First(o).id \in Nat \ {0} /\ First(t).id \in Nat \ {0} /\ First(t).id <= written
      /\ First(t).seq = First(t).id - 1 /\ First(t).prev = First(t).id - 1
      /\ First(o).id \in SegIds(o) /\ First(t).id \in SegIds(t) /\ OnHost(First(o).id)
      /\ written \in Nat
  BY <1>1, FirstNumbered
<1>3. First(o).id < First(t).id
  BY <1>1, <1>2, CalmSegments DEF Complete
<1>4. PICK id \in Nat \ {0} : First(t).id = id + 1 /\ id \in 1 .. written /\ First(o).id <= id
  <2>1. /\ First(t).id - 1 \in Nat \ {0} /\ First(t).id = (First(t).id - 1) + 1
        /\ First(t).id - 1 \in 1 .. written /\ First(o).id <= First(t).id - 1
    BY <1>2, <1>3
  <2> QED
    BY <2>1
<1>5. OnHost(id)
  <2> SUFFICES ASSUME ~OnHost(id) PROVE FALSE
    OBVIOUS
  <2>1. PICK r \in OnDisk : r.id = First(o).id
    BY <1>2 DEF OnHost
  <2>2. id < r.id
    BY <1>4 DEF Complete, OnHand
  <2> QED
    BY <1>2, <1>4, <2>1, <2>2
<1>6. PICK s \in verifier.got : id \in SegIds(s)
  BY <1>4, <1>5, BeforeFirst
<1>7. /\ s \in Segment /\ s.recs # <<>> /\ Ascending(s.recs) /\ End(s) \in Known
      /\ t \in Segment /\ t.recs # <<>> /\ Ascending(t.recs)
  BY AllRead
<1>8. s # t
  BY <1>4, <1>6, <1>7, SegmentBounds
<1>9. \A x \in SegIds(s), y \in SegIds(t) : x < y
  BY <1>2, <1>4, <1>6, <1>8, CalmSegments DEF Complete
<1>10. End(s).id = id
  <2>1. End(s).id \in SegIds(s) /\ End(s).id \in Nat
    BY <1>7, SegmentFacts
  <2>2. id <= End(s).id /\ End(s).id < id + 1
    BY <1>2, <1>4, <1>6, <1>7, <1>9, <2>1, SegmentBounds
  <2> QED
    BY <2>1, <2>2
<1>11. Continues(s, t)
  <2>1. End(s).seq = id - 1
    BY <1>7, <1>10 DEF Complete, Sane, Numbered
  <2> QED
    BY <1>2, <1>4, <1>10, <2>1 DEF Continues, Linked
<1>12. Adjacent(verifier.got, s, t)
  <2>1. First(s).id \in SegIds(s) /\ First(s).id \in Nat /\ First(s).id < First(t).id
    BY <1>2, <1>9, FirstNumbered
  <2>2. ASSUME NEW u \in verifier.got, Earlier(s, u), Earlier(u, t) PROVE FALSE
    <3>1. /\ u \in Segment /\ u.recs # <<>> /\ First(u).id \in SegIds(u) /\ First(u).id \in Nat
      BY AllRead, FirstNumbered
    <3>2. u # s /\ u # t
      <4>1. Key(s) < Key(u) /\ Key(u) < Key(t)
        BY <1>7, <2>2, <3>1, EarlierIsLess
      <4>2. Key(s) \in Nat /\ Key(u) \in Nat /\ Key(t) \in Nat
        BY <1>7, <3>1, SegmentFacts
      <4> QED
        BY <4>1, <4>2
    <3>3. First(s).id <= First(u).id /\ First(u).id <= First(t).id
      BY <1>2, <2>1, <2>2, <3>1 DEF Earlier
    <3>4. id < First(u).id
      BY <1>6, <2>1, <3>1, <3>2, <3>3, CalmSegments DEF Complete
    <3>5. First(u).id < id + 1
      BY <1>2, <1>4, <3>1, <3>2, <3>3, CalmSegments DEF Complete
    <3> QED
      BY <3>1, <3>4, <3>5
  <2> QED
    BY <2>1, <2>2 DEF Adjacent, Earlier
<1> QED
  BY <1>11, <1>12

\* Within a file every record continues the one before it.
LEMMA FilesLink ==
  ASSUME EvidenceInv, Sane, OnHand, NEW n \in Name, NEW i \in 2 .. Len(log[n])
  PROVE  Linked(log[n][i - 1], log[n][i])
<1>1. PICK recs : recs = log[n]
  OBVIOUS
<1>2. recs \in Seq(Record) /\ Ascending(recs) /\ i \in 2 .. Len(recs)
  BY <1>1, FilesTyped DEF EvidenceInv, Disk
<1>3. i \in DOMAIN recs /\ i - 1 \in DOMAIN recs /\ i \in Nat
  BY <1>2
<1>4. \A j \in DOMAIN recs : recs[j] \in Record /\ recs[j] \in Known
  BY <1>1, <1>2, RecordsTyped DEF Known, OnDisk
<1>5. PICK a \in Nat : a = recs[i - 1].id
  BY <1>3, <1>4 DEF Record
<1>6. PICK b \in Nat : b = recs[i].id
  BY <1>3, <1>4 DEF Record
<1>7. a < b /\ 0 < a /\ b <= written /\ written \in Nat
  <2>1. i - 1 < i
    BY <1>3
  <2>2. a < b
    BY <1>2, <1>3, <1>5, <1>6, <2>1 DEF Ascending
  <2>3. 0 < a
    BY <1>3, <1>4, <1>5 DEF Record
  <2>4. b <= written /\ written \in Nat
    BY <1>3, <1>4, <1>6 DEF EvidenceInv, Chain, Types
  <2> QED
    BY <2>2, <2>3, <2>4
<1>8. a \in Ids(log[n]) /\ b \in Ids(log[n])
  BY <1>1, <1>3, <1>5, <1>6 DEF Ids
<1>9. b = a + 1
  <2> SUFFICES ASSUME a + 1 < b PROVE FALSE
    BY <1>7
  <2>1. OnHost(a + 1)
    <3> SUFFICES ASSUME ~OnHost(a + 1) PROVE FALSE
      OBVIOUS
    <3>1. recs[i - 1] \in OnDisk
      BY <1>1, <1>2, <1>3, RecordsTyped DEF OnDisk
    <3>2. a + 1 \in 1 .. written
      BY <1>7
    <3>3. a + 1 < a
      BY <1>5, <3>1, <3>2 DEF OnHand
    <3> QED
      BY <3>3
  <2>2. PICK m \in Name : a + 1 \in Ids(log[m])
    BY <2>1, InFile
  <2>3. CASE m = n
    <3>1. PICK j \in DOMAIN recs : recs[j].id = a + 1
      BY <1>1, <2>2, <2>3 DEF Ids
    <3>2. j \in Nat
      BY <1>2, <3>1
    <3>3. j < i - 1 => a + 1 < a
      BY <1>2, <1>3, <1>5, <3>1 DEF Ascending
    <3>4. i < j => b < a + 1
      BY <1>2, <1>3, <1>6, <3>1 DEF Ascending
    <3> QED
      BY <1>3, <1>5, <1>6, <3>1, <3>2, <3>3, <3>4
  <2>4. CASE Older(m, n)
    <3>1. a + 1 < a
      BY <1>8, <2>2, <2>4, FilesApart DEF EvidenceInv
    <3> QED
      BY <3>1
  <2>5. CASE Older(n, m)
    <3>1. b < a + 1
      BY <1>8, <2>2, <2>5, FilesApart DEF EvidenceInv
    <3> QED
      BY <3>1
  <2> QED
    BY <2>2, <2>3, <2>4, <2>5, FilesApart DEF EvidenceInv
<1>10. Numbered(recs[i - 1]) /\ Numbered(recs[i])
  BY <1>3, <1>4 DEF Sane
<1>11. recs[i - 1].seq = a - 1 /\ recs[i].seq = b - 1 /\ recs[i].prev = b - 1
  BY <1>5, <1>6, <1>10 DEF Numbered
<1> QED
  BY <1>1, <1>5, <1>6, <1>9, <1>11 DEF Linked

\* A run that nothing disturbed can read the file it comes to.
LEMMA FileReadable ==
  ASSUME EvidenceInv, Sane, OnHand, Unmoved, NEW path \in verifier.todo,
         path[1] = ActiveLog \/ path[1] # writing
  PROVE  ~Unreadable(path) /\ path[1] \in Name
<1>1. path \in Listed /\ doubled = 0
  BY DEF Unmoved, EvidenceInv, Disk
<1>2. path[1] \in Name
  BY <1>1 DEF Listed
<1>3. path # <<doubled, "gz">>
  <2>1. path[1] = ActiveLog => path[2] = "plain"
    BY DEF EvidenceInv, Reading, TodoFits
  <2> QED
    BY <1>1, <2>1 DEF ActiveLog
<1>4. \A i \in 2 .. Len(log[path[1]]) : Linked(log[path[1]][i - 1], log[path[1]][i])
  BY <1>2, FilesLink
<1> QED
  BY <1>1, <1>2, <1>3, <1>4 DEF Unreadable, Sane

\* What a step without a mishap does to a run.
LEMMA HonestSteps ==
  ASSUME [EvidenceNext]_evidenceVars, mishaps \in Nat, mishaps' = 0
  PROVE  \/ ListPaths \/ Decide \/ SaveCheckpoints
         \/ \E path \in verifier.todo : VerifySegment(path)
         \/ verifier' = Disturbed
         \/ \E stage \in {"idle", "pull", "payload", "commit"} : verifier' = Onto(stage)
         \/ /\ verifier' = verifier
            /\ AppendBegins \/ AppendEnds \/ UNCHANGED host
<1>1. CASE UNCHANGED evidenceVars \/ Approve
  BY <1>1 DEF evidenceVars, Approve, host, files, rotation, past
<1>2. CASE AppendBegins \/ AppendEnds
  BY <1>2 DEF AppendBegins, AppendEnds
<1>3. CASE LogrotateNext
  BY <1>3 DEF LogrotateNext, CompressBegins, CompressEnds, Rename, Prune, Rotating
<1>4. CASE VerifierNext
  BY <1>4 DEF VerifierNext, WriteAnchor, Compare, Sync
<1> QED
  BY <1>1, <1>2, <1>3, <1>4, NoMishap

\* As long as nothing disturbs a run, the files are those it began with.
LEMMA UnmovedStep ==
  ASSUME EvidenceInv, Sane, OnHand, verifier.at = "read" /\ verifier.calm => Unmoved,
         [EvidenceNext]_evidenceVars, mishaps \in Nat, mishaps' = 0,
         verifier'.at = "read", verifier'.calm
  PROVE  Unmoved'
<1> USE DEF EvidenceInv
<1>1. CASE ListPaths
  <2>1. /\ verifier'.todo = Listed /\ verifier'.ok = Ledger.valid /\ verifier'.got = {}
        /\ verifier'.calm = (rotating = "idle") /\ UNCHANGED <<files, writing, rotation>>
    BY <1>1 DEF ListPaths, Idle
  <2>2. Ledger.valid
    BY DEF Ledger, Sane
  <2>3. Listed' = Listed /\ Rotated' = Rotated
    BY <2>1 DEF files, Listed, Rotated, Name
  <2>4. \A n \in Rotated : n \in Names(Listed)
    <3> TAKE n \in Rotated
    <3>1. PICK p : p = <<n, IF n \in zipped THEN "gz" ELSE "plain">>
      OBVIOUS
    <3>2. p \in Listed /\ p[1] = n
      BY <3>1 DEF Listed, Rotated
    <3> QED
      BY <3>2 DEF Names
  <2> QED
    BY <2>1, <2>2, <2>3, <2>4 DEF Unmoved, rotation
<1>2. ASSUME NEW path \in verifier.todo, VerifySegment(path) PROVE Unmoved'
  <2>1. /\ verifier.at = "read" /\ verifier.calm /\ verifier'.todo = verifier.todo \ {path}
        /\ UNCHANGED host
    BY <1>2, VerifyStep
  <2>2. Unmoved
    BY <2>1
  <2>3. path[1] = ActiveLog \/ path[1] # writing
    BY <1>2 DEF VerifySegment, VerifierType
  <2>4. ~Unreadable(path) /\ path[1] \in Name
    BY <2>2, <2>3, FileReadable
  <2>5. /\ verifier'.ok = verifier.ok
        /\ verifier'.got = IF log[path[1]] = <<>> THEN verifier.got
                           ELSE verifier.got \cup {[path |-> path, recs |-> log[path[1]]]}
    BY <1>2, <2>4 DEF VerifySegment, VerifierType
  <2>6. Listed' = Listed /\ Rotated' = Rotated /\ Name' = Name /\ log' = log /\ rotating' = rotating
    BY <2>1 DEF host, Listed, Rotated, Name
  <2>7. ASSUME NEW n \in Rotated
        PROVE  n \in Names(verifier'.todo) \/ \E s \in verifier'.got : s.path[1] = n
    <3>1. CASE n = path[1]
      <4>1. log[path[1]] # <<>>
        BY <3>1 DEF Disk
      <4>2. PICK s : s = [path |-> path, recs |-> log[path[1]]]
        OBVIOUS
      <4> QED
        BY <2>5, <3>1, <4>1, <4>2
    <3>2. CASE n # path[1] /\ n \in Names(verifier.todo)
      BY <2>1, <3>2 DEF Names
    <3>3. CASE \E s \in verifier.got : s.path[1] = n
      BY <2>5, <3>3
    <3> QED
      BY <2>2, <3>1, <3>2, <3>3 DEF Unmoved
  <2>8. ASSUME NEW s \in verifier'.got
        PROVE  /\ s.path[1] \in Name
               /\ s.path[1] = ActiveLog => log[ActiveLog] # <<>> /\ First(s) = log[ActiveLog][1]
    <3>1. CASE s \in verifier.got
      BY <2>2, <3>1 DEF Unmoved
    <3>2. CASE s = [path |-> path, recs |-> log[path[1]]] /\ log[path[1]] # <<>>
      BY <2>4, <3>2 DEF First
    <3> QED
      BY <2>5, <3>1, <3>2
  <2> QED
    BY <2>1, <2>2, <2>5, <2>6, <2>7, <2>8 DEF Unmoved
<1>3. CASE verifier' = verifier /\ (AppendBegins \/ UNCHANGED host)
  <2>1. log' = log /\ doubled' = doubled /\ zipped' = zipped /\ rotating' = rotating
    BY <1>3 DEF AppendBegins, host, files, rotation
  <2>2. Listed' = Listed /\ Rotated' = Rotated /\ Name' = Name
    BY <2>1 DEF Listed, Rotated, Name
  <2> QED
    BY <1>3, <2>1, <2>2 DEF Unmoved
<1>4. CASE verifier' = verifier /\ AppendEnds
  <2>1. doubled' = doubled /\ zipped' = zipped /\ rotating' = rotating /\ Name' = Name
    BY <1>4, AppendStep DEF AppendEnds, rotation
  <2>2. Listed' = Listed /\ Rotated' = Rotated
    BY <2>1 DEF Listed, Rotated
  <2>3. log[ActiveLog] # <<>> => log'[ActiveLog] # <<>> /\ log'[ActiveLog][1] = log[ActiveLog][1]
    <3>1. log[ActiveLog] \in Seq(Record) /\ ActiveLog \in Name
      BY DEF Types
    <3>2. CASE writing = ActiveLog
      <4>1. log'[ActiveLog] = Append(log[ActiveLog], NextRecord) /\ NextRecord \in Record
        BY <1>4, <3>2, AppendStep
      <4> QED
        BY <3>1, <4>1
    <3>3. CASE writing # ActiveLog
      BY <1>4, <3>1, <3>3, AppendStep
    <3> QED
      BY <3>2, <3>3
  <2> QED
    BY <1>4, <2>1, <2>2, <2>3 DEF Unmoved
<1>5. CASE verifier' = Disturbed
  BY <1>5 DEF Disturbed, VerifierType
<1>6. CASE Decide \/ SaveCheckpoints
  <2>1. verifier'.at \in {"save", "anchor"}
    <3>1. CASE SaveCheckpoints
      BY <3>1 DEF SaveCheckpoints, VerifierType
    <3>2. CASE Decide
      <4>1. PICK ok, head, epoch :
              verifier' = [verifier EXCEPT !.at = IF ok THEN "save" ELSE "anchor", !.ok = ok,
                                           !.head = head, !.epoch = epoch]
        BY <3>2 DEF Decide
      <4> QED
        BY <4>1 DEF VerifierType
    <3> QED
      BY <1>6, <3>1, <3>2
  <2> QED
    BY <2>1
<1>7. CASE \E stage \in {"idle", "pull", "payload", "commit"} : verifier' = Onto(stage)
  BY <1>7 DEF Onto, Idle
<1> QED
  BY <1>1, <1>2, <1>3, <1>4, <1>5, <1>6, <1>7, HonestSteps

\* A run that nothing disturbed and that found something is accepted.
LEMMA JudgedStep ==
  ASSUME EvidenceInv, Sane, OnHand, Remembered, Judged,
         verifier.at = "read" /\ verifier.calm => Unmoved,
         [EvidenceNext]_evidenceVars, mishaps \in Nat, mishaps' = 0
  PROVE  Judged'
<1> USE DEF EvidenceInv
<1>1. unseen => unseen'
  BY HistorySteps DEF Restart, HostCrash, Prune, SaveCheckpoints, LoseArchive
<1>2. CASE ListPaths \/ \E path \in verifier.todo : VerifySegment(path)
  <2>1. verifier'.at = "read"
    BY <1>2, VerifyStep DEF ListPaths, Idle
  <2> QED
    BY <2>1 DEF Judged
<1>3. CASE Decide
  <2>1. PICK ok, head, epoch :
          /\ ok = (verifier.ok /\ verifier.got # {} /\ HeadOf(verifier.got) # "refused"
                    /\ SeamsHold(verifier.got))
          /\ verifier' = [verifier EXCEPT !.at = IF ok THEN "save" ELSE "anchor", !.ok = ok,
                                          !.head = head, !.epoch = epoch]
          /\ verifier.at = "read" /\ verifier.todo = {}
    BY <1>3 DEF Decide
  <2>2. /\ verifier'.got = verifier.got /\ verifier'.calm = verifier.calm /\ verifier'.ok = ok
        /\ verifier'.at = "save" => ok
    BY <2>1 DEF VerifierType
  <2>3. ASSUME verifier.calm, ~unseen, verifier.got # {} PROVE ok
    <3>1. Complete /\ verifier.ok
      BY <2>1, <2>3 DEF Complete, Unmoved
    <3> QED
      BY <2>1, <2>3, <3>1, HeadAccepted, SeamsAccepted
  <2> QED
    BY <1>1, <2>2, <2>3 DEF Judged
<1>4. CASE SaveCheckpoints
  <2>1. verifier.at = "save" /\ verifier' = [verifier EXCEPT !.at = "anchor"]
    BY <1>4 DEF SaveCheckpoints
  <2>2. verifier'.at = "anchor" /\ verifier'.ok = verifier.ok
    BY <2>1 DEF VerifierType
  <2> QED
    BY <2>1, <2>2 DEF Judged
<1>5. CASE verifier' = Disturbed
  <2>1. verifier'.at = verifier.at /\ verifier'.ok = verifier.ok /\ verifier'.calm = FALSE
    BY <1>5 DEF Disturbed, VerifierType
  <2> QED
    BY <2>1 DEF Judged
<1>6. CASE \E stage \in {"idle", "pull", "payload", "commit"} : verifier' = Onto(stage)
  BY <1>6 DEF Onto, Idle, Judged
<1>7. CASE verifier' = verifier
  BY <1>1, <1>7 DEF Judged
<1> QED
  BY <1>2, <1>3, <1>4, <1>5, <1>6, <1>7, HonestSteps

\* Every step keeps an honest history honest.
LEMMA HonestKept ==
  ASSUME EvidenceInv, EvidenceInv', Room, Honest, [EvidenceNext]_evidenceVars
  PROVE  Honest'
<1>1. mishaps \in Nat /\ mishaps' \in Nat
  BY NoMishap DEF Honest
<1>2. SUFFICES ASSUME mishaps' = 0
               PROVE  /\ Sane' /\ OnHand' /\ Remembered' /\ Judged'
                      /\ verifier'.at = "read" /\ verifier'.calm => Unmoved'
  BY <1>1 DEF Honest
<1>3. /\ Sane /\ OnHand /\ Remembered /\ Judged
      /\ verifier.at = "read" /\ verifier.calm => Unmoved
  BY <1>1, <1>2, NoMishap DEF Honest
<1>4. Sane' /\ OnHand'
  BY <1>1, <1>2, <1>3, SaneStep, OnHandStep DEF EvidenceInv
<1>5. Remembered'
  BY <1>1, <1>2, <1>3, RememberedStep
<1>6. Judged'
  BY <1>1, <1>2, <1>3, JudgedStep
<1>7. verifier'.at = "read" /\ verifier'.calm => Unmoved'
  BY <1>1, <1>2, <1>3, UnmovedStep
<1> QED
  BY <1>4, <1>5, <1>6, <1>7

\* As long as the checkpoint file has room, a run that logrotate did not disturb is
\* refused without a mishap only if a segment was pruned before any valid run had
\* seen its end.
THEOREM HonestRunsAccepted == EvidenceSpec /\ []Room => []HonestAccepted
<1>1. EvidenceInit => Honest
  <2> SUFFICES ASSUME EvidenceInit PROVE Honest
    OBVIOUS
  <2>1. /\ Name = {ActiveLog} /\ log[ActiveLog] = <<>> /\ written = 0 /\ seen = {} /\ mishaps = 0
        /\ damaged = {} /\ approved.valid /\ memory.seq = 0 /\ memory.prev = 0
        /\ verifier.at = "idle" /\ verifier.got = {}
    BY DEF EvidenceInit, Name, Unchained, Idle, Genesis
  <2>2. Known = {}
    BY <2>1, EmptyFile DEF Known, OnDisk, WasRead
  <2> QED
    BY <2>1, <2>2 DEF Honest, Sane, OnHand, Remembered, Judged
<1>2. EvidenceInv /\ EvidenceInv' /\ Room /\ Honest /\ [EvidenceNext]_evidenceVars => Honest'
  BY HonestKept
<1>3. Honest => HonestAccepted
  BY DEF Honest, Judged, HonestAccepted
<1> QED
  BY <1>1, <1>2, <1>3, EvidenceInvariant, PTL DEF EvidenceSpec
=============================================================================
