------------------------- MODULE CrfsSharing_proofs --------------------------
(***************************************************************************)
(* Proofs about the entries of Crfs that lead to one block, the bitmap and *)
(* link counts, for every disk, sequence of calls and kill.                *)
(***************************************************************************)
EXTENDS Crfs_proofs, SequenceTheorems

-----------------------------------------------------------------------------
(* What entries share a block, and what is marked and counted.             *)

\* The valid entries of the disk, whether a path leads to them or not; no path leads
\* to the data of the first file.
Places == (Blocks \ {DataBlock}) \X Slots
Taken(d) == {v \in Places : ValidAt(d, v[1], v[2])}
KindOf(d, v) == d.kind[v[1]][v[2]]
IndexOf(d, v) == IndexAt(d, v[1], v[2])
FilesAt(d, i) == {v \in Taken(d) : KindOf(d, v) = File /\ IndexOf(d, v) = i}
NumLinks(d, i) == Cardinality(FilesAt(d, i))

\* The order of the writes of a call: the ones of cr_rm come first.
Rank(w) ==
    CASE w.op = "invalid" -> 1
      [] w.op = "links"   -> IF w.n = -1 THEN 2 ELSE NWords + 3
      [] w.op = "free"    -> 2 + w.word
      [] w.op = "entry"   -> NWords + 2
      [] w.op = "index"   -> NWords + 3
      [] w.op = "used"    -> NWords + 4
Sorted(writes) == \A i, j \in 1..Len(writes) : i < j => Rank(writes[i]) < Rank(writes[j])
Writes == ToSet(todo)
Ops(op) == {w \in Writes : w.op = op}

\* The only calls that were killed, if any, are of cr_rm.
OnlyRm == past.killed \subseteq {"rm"}

\* Blocks that will be marked, and blocks that an entry leads to, or will.
Bits == {w.block : w \in Ops("used")}
Freeing == Ops("free") # {}
Wanted == {IndexOf(disk, v) : v \in Taken(disk)} \union {w.index : w \in Ops("entry")}

Order ==
    /\ Sorted(todo)
    /\ (todo # <<>> /\ Top.op = "rm") => \A w \in Writes : w.op \in {"invalid", "free"} \/ Unlinks(w)
    /\ (todo # <<>> /\ Top.op = "hardlink") => \A w \in Writes : w.op \in {"entry", "links"}
    /\ \A w \in Ops("index") : w.slot # 0 => w.block \in past.short /\ w.block + 1 \in past.short
    /\ \A w \in Ops("free") : w.word \in Words
    /\ Regular => \A w \in Writes : (w.op = "entry" => w.dir # DataBlock) /\ (w.op = "index" => w.block \in Blocks)

\* While something may be given away, what an entry leads to is marked, or will be; or
\* blocks are being freed, the root soon among them, and links may not be counted.
InUse ==
    Regular =>
      /\ 0 \in disk.bitmap /\ ~ Looping(todo) => \A i \in Wanted :
            i \in disk.bitmap \/ i \in Bits \/ (Freeing /\ (OnlyRm => i \in Misplaced))
      /\ Freeing => \A w \in Ops("entry") : w.index \in Bits

\* Two entries that lead to one block, written or not, are of files.
Sharing ==
    Regular =>
      /\ \A u, v \in Taken(disk) : u # v /\ IndexOf(disk, u) = IndexOf(disk, v) => KindOf(disk, u) = File
      /\ \A w \in Ops("entry"), v \in Taken(disk) : IndexOf(disk, v) = w.index =>
            KindOf(disk, v) = File /\ w.kind = File

\* An index block that is freed has lost its last entry, or will before.
Unlinked(w) == w.op = "free" /\ w.word = 0
Removed ==
    (Regular /\ OnlyRm) =>
      /\ \A w \in Writes, v \in Taken(disk) : Unlinked(w) /\ IndexOf(disk, v) = w.block =>
            w.block \in Misplaced \/ (\E u \in Ops("invalid") : <<u.block, u.slot>> = v)
      /\ \A u \in Ops("invalid"), w \in Writes :
            Unlinks(w) => <<u.block, u.slot>> \in Taken(disk) /\ IndexOf(disk, <<u.block, u.slot>>) = w.block

\* Entries are written into blocks that are not the index block of a file, and no file
\* has more links than are counted, by the writes that are still to be done.
NewLinks(i) == IF \E w \in Ops("entry") : w.kind = File /\ w.index = i THEN 1 ELSE 0
Creating(i) == \E w \in Ops("index") : w.block = i
Gaining(i) == \E w \in Ops("links") : w.block = i /\ w.n = 1
Losing(i) == Ops("invalid") = {} /\ \E w \in Ops("links") : w.block = i /\ w.n = -1
Counts(i) ==
    IF Creating(i) THEN 1
    ELSE disk.word[i][LinkWord] + (IF Gaining(i) THEN 1 ELSE 0) - (IF Losing(i) THEN 1 ELSE 0)
Counted ==
    (Regular /\ OnlyRm) =>
      /\ \A w \in Ops("entry") : w.dir \in Misplaced \/
            ((\A v \in Taken(disk) : KindOf(disk, v) = File => IndexOf(disk, v) # w.dir)
               /\ (w.kind = File => w.index # w.dir))
      /\ \A i \in Blocks : i \in Misplaced \/ NumLinks(disk, i) + NewLinks(i) <= Counts(i)

\* While cr_hardlink makes the directories of the new name, the file to link to stays
\* where it was: none of them is on the way to it.
Outer == Last(stack)
WillLink == Regular /\ stack # <<>> /\ Outer.op = "hardlink" /\ Outer.again /\ (todo = <<>> \/ Len(stack) > 1)
Linking ==
    WillLink =>
      /\ graph_search(disk, Outer.orig).kind = File
      /\ \A k \in 1..(Len(stack) - 1) : ~ IsStart(stack[k].path, Outer.orig)

SInv == Order /\ InUse /\ Sharing /\ Removed /\ Counted

-----------------------------------------------------------------------------
(* Counting entries. *)

\* There are finitely many entries.
LEMMA TakenFinite ==
    ASSUME NEW d, NEW i
    PROVE  /\ IsFiniteSet(FilesAt(d, i)) /\ NumLinks(d, i) \in Nat
           /\ NumLinks(d, i) = 0 <=> FilesAt(d, i) = {}
<1>1. IsFiniteSet(Blocks) /\ IsFiniteSet(Slots)
  BY Sizes, FS_Interval DEF Blocks, Slots
<1>2. IsFiniteSet(Blocks \X Slots)
  BY <1>1, FS_Product
<1>3. FilesAt(d, i) \subseteq Blocks \X Slots
  BY DEF FilesAt, Taken, Places
<1>4. IsFiniteSet(FilesAt(d, i))
  BY <1>2, <1>3, FS_Subset
<1> QED
  BY <1>4, FS_CardinalityType, FS_EmptySet DEF NumLinks

\* e has no entries but those of d.
Fewer(d, e) ==
    /\ Taken(e) \subseteq Taken(d)
    /\ \A v \in Taken(e) : KindOf(e, v) = KindOf(d, v) /\ IndexOf(e, v) = IndexOf(d, v)

\* A disk that loses entries has no more links than before.
LEMMA FewerLinks ==
    ASSUME NEW d, NEW e, Fewer(d, e), NEW i
    PROVE  FilesAt(e, i) \subseteq FilesAt(d, i) /\ NumLinks(e, i) <= NumLinks(d, i)
<1>1. FilesAt(e, i) \subseteq FilesAt(d, i)
  BY DEF Fewer, FilesAt
<1> QED
  BY <1>1, TakenFinite, FS_Subset DEF NumLinks

\* An entry less is a link less, and one more is one more.
LEMMA LinkRemoved ==
    ASSUME NEW d, NEW e, Fewer(d, e), NEW v \in Taken(d), v \notin Taken(e), KindOf(d, v) = File
    PROVE  NumLinks(e, IndexOf(d, v)) <= NumLinks(d, IndexOf(d, v)) - 1
<1> DEFINE i == IndexOf(d, v)
<1>1. v \in FilesAt(d, i) /\ v \notin FilesAt(e, i)
  BY DEF FilesAt
<1>2. FilesAt(e, i) \subseteq FilesAt(d, i) \ {v}
  BY <1>1, FewerLinks
<1>3. IsFiniteSet(FilesAt(d, i))
  BY TakenFinite
<1> HIDE DEF i
<1>4. IsFiniteSet(FilesAt(d, i) \ {v}) /\ Cardinality(FilesAt(d, i) \ {v}) = Cardinality(FilesAt(d, i)) - 1
  BY <1>1, <1>3, FS_RemoveElement
<1>5. Cardinality(FilesAt(e, i)) <= Cardinality(FilesAt(d, i) \ {v})
  BY <1>2, <1>4, FS_Subset
<1>6. Cardinality(FilesAt(e, i)) \in Nat /\ Cardinality(FilesAt(d, i)) \in Nat
  BY TakenFinite DEF NumLinks
<1>7. NumLinks(e, i) <= NumLinks(d, i) - 1
  BY <1>4, <1>5, <1>6 DEF NumLinks
<1> QED
  BY <1>7 DEF i

\* e has the entries of d and v.
More(d, e, v) ==
    /\ v \notin Taken(d) /\ Taken(e) = Taken(d) \union {v}
    /\ \A u \in Taken(d) : KindOf(e, u) = KindOf(d, u) /\ IndexOf(e, u) = IndexOf(d, u)

\* A disk that gains one entry has one link more to its block, at most.
LEMMA LinkAdded ==
    ASSUME NEW d, NEW e, NEW v, More(d, e, v), NEW i
    PROVE  NumLinks(e, i) <= NumLinks(d, i) + (IF KindOf(e, v) = File /\ IndexOf(e, v) = i THEN 1 ELSE 0)
<1>1. IsFiniteSet(FilesAt(d, i)) /\ NumLinks(d, i) \in Nat /\ NumLinks(e, i) \in Nat
  BY TakenFinite
<1>2. CASE KindOf(e, v) = File /\ IndexOf(e, v) = i
  <2>1. FilesAt(e, i) \subseteq FilesAt(d, i) \union {v}
    BY DEF FilesAt, More
  <2>2. IsFiniteSet(FilesAt(d, i) \union {v}) /\ Cardinality(FilesAt(d, i) \union {v}) <= Cardinality(FilesAt(d, i)) + 1
    <3>1. v \notin FilesAt(d, i)
      BY DEF FilesAt, More
    <3>2. /\ IsFiniteSet(FilesAt(d, i) \union {v})
          /\ Cardinality(FilesAt(d, i) \union {v}) = Cardinality(FilesAt(d, i)) + 1
      BY <1>1, <3>1, FS_AddElement
    <3> QED
      BY <1>1, <3>2 DEF NumLinks
  <2>3. Cardinality(FilesAt(e, i)) <= Cardinality(FilesAt(d, i) \union {v})
    BY <2>1, <2>2, FS_Subset
  <2>4. Cardinality(FilesAt(d, i) \union {v}) \in Nat
    BY <2>2, FS_CardinalityType
  <2>5. NumLinks(e, i) <= NumLinks(d, i) + 1
    BY <1>1, <2>2, <2>3, <2>4 DEF NumLinks
  <2> QED
    BY <1>2, <2>5
<1>3. CASE ~ (KindOf(e, v) = File /\ IndexOf(e, v) = i)
  <2>1. FilesAt(e, i) \subseteq FilesAt(d, i)
    BY <1>3 DEF FilesAt, More
  <2>2. NumLinks(e, i) <= NumLinks(d, i)
    BY <1>1, <2>1, FS_Subset DEF NumLinks
  <2> QED
    BY <1>1, <1>3, <2>2
<1> QED
  BY <1>2, <1>3

\* Two links of one file are more than one.
LEMMA TwoLinks ==
    ASSUME NEW d, NEW i, NEW u \in FilesAt(d, i), NEW v \in FilesAt(d, i), u # v
    PROVE  NumLinks(d, i) > 1
<1>1. IsFiniteSet(FilesAt(d, i)) /\ NumLinks(d, i) \in Nat
  BY TakenFinite
<1>2. /\ IsFiniteSet(FilesAt(d, i) \ {u})
      /\ Cardinality(FilesAt(d, i) \ {u}) = Cardinality(FilesAt(d, i)) - 1
  BY <1>1, FS_RemoveElement
<1>3. v \in FilesAt(d, i) \ {u}
  OBVIOUS
<1>4. Cardinality(FilesAt(d, i) \ {u}) # 0 /\ Cardinality(FilesAt(d, i) \ {u}) \in Nat
  BY <1>2, <1>3, FS_EmptySet, FS_CardinalityType
<1> QED
  BY <1>1, <1>2, <1>4 DEF NumLinks

-----------------------------------------------------------------------------
(* What each write does to the entries, the bitmap and the link counts. *)

\* The entries of d and e are the same.
Same(d, e) == Fewer(d, e) /\ Fewer(e, d)

\* A write that only marks or frees blocks.
LEMMA BitmapEffect ==
    ASSUME NEW d, DiskOK(d), NEW w \in WriteType, w.op \in {"used", "free"}
    PROVE  /\ Same(d, Apply(d, w)) /\ Apply(d, w).word = d.word
           /\ w.op = "used" => Apply(d, w).bitmap = d.bitmap \union {w.block}
           /\ w.op = "free" => Apply(d, w).bitmap = d.bitmap \ {w.block}
<1> DEFINE e == Apply(d, w)
<1>1. d = [kind |-> d.kind, name |-> d.name, word |-> d.word, bitmap |-> d.bitmap]
  BY DiskIs
<1>2. \/ w.op = "used" /\ e = [d EXCEPT !.bitmap = d.bitmap \union {w.block}]
      \/ w.op = "free" /\ e = [d EXCEPT !.bitmap = d.bitmap \ {w.block}]
  BY DEF Apply
<1> HIDE DEF e
<1>3. /\ e.kind = d.kind /\ e.word = d.word
      /\ w.op = "used" => e.bitmap = d.bitmap \union {w.block}
      /\ w.op = "free" => e.bitmap = d.bitmap \ {w.block}
  BY <1>1, <1>2
<1>4. Same(d, e)
  BY <1>3 DEF Same, Fewer, Taken, ValidAt, KindOf, IndexOf, IndexAt
<1> QED
  BY <1>3, <1>4 DEF e

\* An entry that becomes invalid.
LEMMA InvalidEffect ==
    ASSUME NEW d, DiskOK(d), NEW w \in WriteType, w.op = "invalid"
    PROVE  /\ Fewer(d, Apply(d, w)) /\ Apply(d, w).word = d.word /\ Apply(d, w).bitmap = d.bitmap
           /\ <<w.block, w.slot>> \notin Taken(Apply(d, w))
<1> DEFINE e == Apply(d, w)
<1>1. d = [kind |-> d.kind, name |-> d.name, word |-> d.word, bitmap |-> d.bitmap]
  BY DiskIs
<1>2. e = [d EXCEPT !.kind[w.block][w.slot] = 1]
  BY DEF Apply
<1> HIDE DEF e
<1>3. e.word = d.word /\ e.bitmap = d.bitmap /\ e.kind = [d.kind EXCEPT ![w.block][w.slot] = 1]
  BY <1>1, <1>2
<1>4. w.block \in Blocks /\ w.slot \in Slots
  BY WriteIs
<1>5. \A b \in Blocks, s \in Slots : e.kind[b][s] = IF b = w.block /\ s = w.slot THEN 1 ELSE d.kind[b][s]
  BY <1>3, <1>4, DiskIs
<1>6. 1 \notin Valid
  BY DEF Valid, Dir, File
<1>7. Taken(e) \subseteq Taken(d) /\ <<w.block, w.slot>> \notin Taken(e)
  BY <1>4, <1>5, <1>6 DEF Taken, Places, ValidAt
<1>8. \A v \in Taken(e) : e.kind[v[1]][v[2]] = d.kind[v[1]][v[2]]
  BY <1>5, <1>6 DEF Taken, Places, ValidAt
<1>9. Fewer(d, e)
  BY <1>3, <1>7, <1>8 DEF Fewer, KindOf, IndexOf, IndexAt
<1> QED
  BY <1>3, <1>7, <1>9 DEF e

\* A link count.
LEMMA LinksEffect ==
    ASSUME NEW d, DiskOK(d), NEW w \in WriteType, w.op = "links",
           d.word[w.block][LinkWord] + w.n \in Nat
    PROVE  /\ Same(d, Apply(d, w)) /\ Apply(d, w).bitmap = d.bitmap
           /\ Apply(d, w).word[w.block][LinkWord] = d.word[w.block][LinkWord] + w.n
           /\ \A b \in Blocks : b # w.block => Apply(d, w).word[b] = d.word[b]
           /\ \A b \in Blocks, k \in Words : k # LinkWord => Apply(d, w).word[b][k] = d.word[b][k]
<1> DEFINE e == Apply(d, w)
           block == w.block
           num == w.n
<1>1. block \in Blocks /\ num \in Int /\ d.word[block][LinkWord] + num \in Nat
  BY WriteIs
<1>2. e = Relinked(d, block, num)
  BY DEF Apply, Relinked
<1> HIDE DEF e, block, num
<1>3. /\ e.kind = d.kind /\ e.bitmap = d.bitmap
      /\ e.word = [d.word EXCEPT ![block][LinkWord] = d.word[block][LinkWord] + num]
  BY <1>1, <1>2, Linked
<1>4. /\ w.block \in Blocks /\ LinkWord \in Words /\ d.word \in [Blocks -> [Words -> Nat]]
      /\ e.word = [d.word EXCEPT ![w.block][LinkWord] = d.word[w.block][LinkWord] + w.n]
  <2>1. LinkWord \in Words
    BY Sizes DEF LinkWord, Words
  <2> QED
    BY <1>1, <1>3, <2>1, DiskIs DEF block, num
<1>5. /\ e.word[w.block][LinkWord] = d.word[w.block][LinkWord] + w.n
      /\ \A b \in Blocks : b # w.block => e.word[b] = d.word[b]
      /\ \A b \in Blocks, k \in Words : k # LinkWord => e.word[b][k] = d.word[b][k]
  BY <1>3, <1>4
<1>6. \A b \in Blocks, s \in Slots : IndexAt(e, b, s) = IndexAt(d, b, s)
  BY <1>5, EntryWords DEF IndexAt
<1>7. Same(d, e)
  BY <1>3, <1>6 DEF Same, Fewer, Taken, Places, ValidAt, KindOf, IndexOf
<1> QED
  BY <1>3, <1>5, <1>7 DEF e

\* An entry, in a directory that has room for it.
LEMMA EntryEffect ==
    ASSUME NEW d, DiskOK(d), NEW w \in WriteType, w.op = "entry", w.dir # DataBlock
    PROVE  \/ Apply(d, w) = d
           \/ /\ \E s \in Slots : /\ More(d, Apply(d, w), <<w.dir, s>>)
                                  /\ KindOf(Apply(d, w), <<w.dir, s>>) = w.kind
                                  /\ IndexOf(Apply(d, w), <<w.dir, s>>) = w.index
              /\ Apply(d, w).bitmap = d.bitmap
              /\ \A b \in Blocks : b # w.dir => Apply(d, w).word[b] = d.word[b]
<1> DEFINE e == Apply(d, w)
<1>1. /\ w.dir \in Blocks /\ w.kind \in Valid /\ w.name \in Names
      /\ w.index \in Blocks
  BY WriteIs
<1>2. e = write_dir_block(d, w)
  BY DEF Apply
<1>3. CASE FreeSlots(d, w.dir) = {}
  BY <1>2, <1>3 DEF write_dir_block
<1>4. CASE FreeSlots(d, w.dir) # {}
  <2>1. PICK s \in FreeSlots(d, w.dir) : WithEntry(d, w, s, e)
    BY <1>1, <1>2, <1>4, EntryAdded
  <2>2. s \in Slots /\ d.kind[w.dir][s] \notin Valid
    BY DEF FreeSlots
  <2> HIDE DEF e
  <2>3. /\ e.bitmap = d.bitmap
        /\ \A b \in Blocks : \A t \in Slots :
              /\ e.kind[b][t] = IF b = w.dir /\ t = s THEN w.kind ELSE d.kind[b][t]
              /\ IndexAt(e, b, t) = IF b = w.dir /\ t = s THEN w.index ELSE IndexAt(d, b, t)
        /\ \A b \in Blocks : b # w.dir => e.word[b] = d.word[b]
    BY <1>1, <2>1, <2>2, EntryValues
  <2> DEFINE v == <<w.dir, s>>
  <2>4. KindOf(e, v) = w.kind /\ IndexOf(e, v) = w.index
    BY <1>1, <2>2, <2>3 DEF KindOf, IndexOf
  <2>5. v \notin Taken(d)
    BY <2>2 DEF Taken, ValidAt
  <2>6. ASSUME NEW u \in Places
        PROVE  u \in Taken(e) <=> u \in Taken(d) \/ u = v
    <3>1. u = v <=> u[1] = w.dir /\ u[2] = s
      BY DEF Places
    <3> QED
      BY <1>1, <2>2, <2>3, <3>1 DEF Taken, Places, ValidAt
  <2>7. Taken(e) = Taken(d) \union {v}
    <3>1. Taken(e) \subseteq Places /\ Taken(d) \subseteq Places /\ v \in Places
      BY <1>1, <2>2 DEF Taken, Places
    <3> QED
      BY <2>6, <3>1
  <2>8. ASSUME NEW u \in Taken(d)
        PROVE  KindOf(e, u) = KindOf(d, u) /\ IndexOf(e, u) = IndexOf(d, u)
    <3>1. u[1] \in Blocks /\ u[2] \in Slots /\ ~ (u[1] = w.dir /\ u[2] = s)
      BY <2>2 DEF Taken, Places, ValidAt
    <3> QED
      BY <2>3, <3>1 DEF KindOf, IndexOf
  <2>9. More(d, e, v)
    BY <2>5, <2>7, <2>8 DEF More
  <2> QED
    BY <2>2, <2>3, <2>4, <2>9 DEF e
<1> QED
  BY <1>3, <1>4

\* An index block that is written from its start hits no other block, and the next one at most.
LEMMA HitsHere ==
    ASSUME NEW block \in Blocks, NEW slot \in Slots, NEW b \in Blocks, NEW k \in Words,
           b # block, b # block + 1 \/ slot = 0
    PROVE  k \notin Hits(block, slot)[b]
<1> DEFINE y == b - block
           z == y * NWords
<1>1. Hits(block, slot)[b] = {j \in Words : z + j \in (8 * slot)..(8 * slot + 1 + Direct)}
  BY DEF Hits
<1>2. y \in Int /\ (y <= -1 \/ y >= 2 \/ (y = 1 /\ slot = 0))
  BY DEF Blocks
<1> HIDE DEF y
<1>3. /\ NWords \in Nat /\ NWords = 8 * NSlots /\ NWords >= 16 /\ k \in 0..(NWords - 1)
      /\ Direct = NWords - 12 /\ slot \in Nat /\ slot <= NSlots - 1
  BY Sizes DEF Words, Direct, Slots
<1>4. z \in Int /\ (z <= -NWords \/ z >= 2 * NWords \/ (z = NWords /\ slot = 0))
  <2>1. CASE y <= -1
    BY <1>2, <1>3, <2>1
  <2>2. CASE y >= 2
    BY <1>2, <1>3, <2>2
  <2>3. CASE y = 1 /\ slot = 0
    BY <1>2, <1>3, <2>3
  <2> QED
    BY <1>2, <2>1, <2>2, <2>3
<1> HIDE DEF z
<1>5. z + k \notin (8 * slot)..(8 * slot + 1 + Direct)
  BY <1>3, <1>4, Sizes
<1> QED
  BY <1>1, <1>5

\* An index block: entries may be lost, and if it is written from its start only its
\* own words change.
LEMMA IndexTouches ==
    ASSUME NEW d, DiskOK(d), NEW block \in Blocks, NEW slot \in Slots
    PROVE  LET e == write_index_block(d, block, slot)
           IN  /\ Fewer(d, e) /\ e.bitmap = d.bitmap
               /\ \A b \in Blocks \ {block} : \A k \in Words :
                     b # block + 1 \/ slot = 0 => e.word[b][k] = d.word[b][k]
               /\ slot = 0 => e.word[block][LinkWord] = 1
<1> DEFINE hit == Hits(block, slot)
           e == write_index_block(d, block, slot)
<1>1. /\ e = [kind |-> e.kind, name |-> d.name, word |-> e.word, bitmap |-> d.bitmap]
      /\ e.word = [b \in Blocks |-> [k \in Words |->
                      IF b = block /\ k = 8 * slot + LinkWord THEN 1
                      ELSE IF k \in hit[b] THEN 0 ELSE d.word[b][k]]]
      /\ e.kind = [b \in Blocks |-> [s \in Slots |-> IF 8 * s \in hit[b] THEN 0 ELSE d.kind[b][s]]]
  BY IndexAdded
<1>2. slot \in Nat /\ slot <= NSlots - 1 /\ \A s \in Slots : IndexWord(s) # 8 * slot + LinkWord
  BY Sizes DEF Slots, IndexWord, LinkWord
<1>3. \A b \in Blocks \ {block} : \A k \in Words : b # block + 1 \/ slot = 0 => k \notin hit[b]
  BY HitsHere
<1>4. LinkWord \in Words /\ LinkWord = 1
  BY Sizes DEF LinkWord, Words
<1> HIDE DEF hit, e
<1>5. slot = 0 => e.word[block][LinkWord] = 1
  BY <1>1, <1>4
<1>6. \A b \in Blocks \ {block} : \A k \in Words :
          b # block + 1 \/ slot = 0 => e.word[b][k] = d.word[b][k]
  BY <1>1, <1>3
<1>7. e.bitmap = d.bitmap
  BY <1>1
<1>8. ASSUME NEW b \in Blocks, NEW s \in Slots, ValidAt(e, b, s)
      PROVE  ValidAt(d, b, s) /\ e.kind[b][s] = d.kind[b][s] /\ IndexAt(e, b, s) = IndexAt(d, b, s)
  <2>1. 0 \notin Valid /\ IndexWord(s) \in Words
    BY EntryWords DEF Valid, Dir, File
  <2>2. 8 * s \notin hit[b] /\ e.kind[b][s] = d.kind[b][s]
    BY <1>1, <1>8, <2>1 DEF ValidAt
  <2>3. IndexWord(s) \notin hit[b]
    BY <2>2, HitsEntries DEF hit
  <2> QED
    BY <1>1, <1>2, <1>8, <2>1, <2>2, <2>3 DEF ValidAt, IndexAt
<1>9. Fewer(d, e)
  BY <1>8 DEF Fewer, Taken, Places, KindOf, IndexOf
<1> QED
  BY <1>5, <1>6, <1>7, <1>9 DEF e

\* What write_index_block does: entries may vanish and none appears, and beyond its own
\* block it changes words of the next one only, if it starts late.
LEMMA IndexEffect ==
    ASSUME NEW d, DiskOK(d), NEW w \in WriteType, w.op = "index", w.block \in Blocks
    PROVE  /\ Fewer(d, Apply(d, w)) /\ Apply(d, w).bitmap = d.bitmap
           /\ \A b \in Blocks \ {w.block} : \A k \in Words :
                 b # w.block + 1 \/ w.slot = 0 => Apply(d, w).word[b][k] = d.word[b][k]
           /\ w.slot = 0 => Apply(d, w).word[w.block][LinkWord] = 1
<1>1. w.block \in Blocks /\ w.slot \in Slots /\ Apply(d, w) = write_index_block(d, w.block, w.slot)
  BY WriteIs DEF Apply
<1> DEFINE block == w.block
           slot == w.slot
<1> HIDE DEF block, slot
<1>2. LET e == write_index_block(d, block, slot)
      IN  /\ Fewer(d, e) /\ e.bitmap = d.bitmap
          /\ \A b \in Blocks \ {block} : \A k \in Words :
                b # block + 1 \/ slot = 0 => e.word[b][k] = d.word[b][k]
          /\ slot = 0 => e.word[block][LinkWord] = 1
  BY <1>1, IndexTouches DEF block, slot
<1> QED
  BY <1>1, <1>2 DEF block, slot

-----------------------------------------------------------------------------(* The order of the writes, and what is left after one of them. *)

\* The ranks of the operations.
LEMMA RankIs ==
    ASSUME NEW w \in WriteType
    PROVE  /\ Rank(w) \in Nat /\ Rank(w) >= 1
           /\ Rank(w) = 1 <=> w.op = "invalid"
           /\ w.op = "entry" => Rank(w) = NWords + 2
           /\ w.op = "used" => Rank(w) = NWords + 4
           /\ w.op = "index" => Rank(w) = NWords + 3
           /\ w.op = "links" => Rank(w) = IF w.n = -1 THEN 2 ELSE NWords + 3
           /\ w.op = "free" => Rank(w) = 2 + w.word
<1>1. /\ w.op \in {"invalid", "used", "free", "links", "entry", "index"}
      /\ w.op = "links" => w.n \in {1, -1}
      /\ w.op = "free" => w.word \in Nat
      /\ NWords \in Nat /\ NWords >= 16
  BY WriteIs, Sizes
<1>2. CASE w.op = "invalid"
  BY <1>1, <1>2 DEF Rank
<1>3. CASE w.op = "used"
  BY <1>1, <1>3 DEF Rank
<1>4. CASE w.op = "free"
  BY <1>1, <1>4 DEF Rank
<1>5. CASE w.op = "links"
  BY <1>1, <1>5 DEF Rank
<1>6. CASE w.op = "entry"
  BY <1>1, <1>6 DEF Rank
<1>7. CASE w.op = "index"
  BY <1>1, <1>7 DEF Rank
<1> QED
  BY <1>1, <1>2, <1>3, <1>4, <1>5, <1>6, <1>7

\* The writes of a call are of the image.
LEMMA WritesTyped ==
    ASSUME IInv
    PROVE  Writes \in SUBSET WriteType /\ (Writes = {} <=> todo = <<>>)
<1>1. todo \in Seq(WriteType)
  BY DEF IInv, TodoOK, Pending
<1>2. /\ \A k \in DOMAIN todo : todo[k] \in WriteType
      /\ todo # <<>> => 1 \in DOMAIN todo
      /\ todo = <<>> => DOMAIN todo = {}
  BY <1>1
<1>3. Writes = {todo[k] : k \in DOMAIN todo}
  BY DEF Writes, ToSet
<1> QED
  BY <1>2, <1>3

\* What comes after a write.
LEMMA ComesAfter ==
    ASSUME IInv, Order, NEW w \in Writes, NEW x \in Writes, Rank(w) < Rank(x)
    PROVE  /\ x.op # "invalid"
           /\ w.op # "invalid" => ~ Unlinks(x) /\ ~ Unlinked(x)
           /\ w.op \in {"entry", "links", "index"} /\ ~ Unlinks(w) => x.op \notin {"free", "entry"}
           /\ w.op # "used" /\ (w.op = "index" => x.op \notin {"index", "links"})
<1>1. w \in WriteType /\ x \in WriteType
  BY WritesTyped
<1>2. /\ w.op = "free" => w.word \in Nat /\ w.word <= NWords - 1
      /\ x.op = "free" => x.word \in Nat /\ x.word <= NWords - 1
      /\ NWords \in Nat /\ NWords >= 16
  BY Sizes DEF Order, Ops, Words
<1>3. /\ w.op \in {"invalid", "used", "free", "links", "entry", "index"}
      /\ w.op = "links" => w.n \in {1, -1}
      /\ x.op \in {"invalid", "used", "free", "links", "entry", "index"}
      /\ x.op = "links" => x.n \in {1, -1}
  BY <1>1, WriteIs
<1>4. x.op # "invalid" /\ (w.op # "invalid" => ~ Unlinks(x) /\ ~ Unlinked(x))
  <2>1. Rank(x) >= 2 /\ (w.op # "invalid" => Rank(x) >= 3)
    BY <1>1, RankIs
  <2> QED
    BY <1>1, <1>2, <2>1, RankIs DEF Unlinks, Unlinked
<1>5. w.op \in {"entry", "links", "index"} /\ ~ Unlinks(w) => x.op \notin {"free", "entry"}
  <2>1. w.op \in {"entry", "links", "index"} /\ ~ Unlinks(w) => Rank(w) >= NWords + 2
    BY <1>1, <1>2, <1>3, RankIs DEF Unlinks
  <2>2. x.op \in {"free", "entry"} => Rank(x) <= NWords + 2
    BY <1>1, <1>2, RankIs
  <2> QED
    BY <1>1, <1>2, <2>1, <2>2, RankIs
<1>6. w.op # "used" /\ (w.op = "index" => x.op \notin {"index", "links"})
  <2>1. Rank(x) <= NWords + 4 /\ (x.op \in {"index", "links"} => Rank(x) <= NWords + 3)
    BY <1>1, <1>2, <1>3, RankIs
  <2> QED
    BY <1>1, <1>2, <2>1, RankIs
<1> QED
  BY <1>4, <1>5, <1>6

\* The first write is done, and the ones that are left come after it.
LEMMA WriteDone ==
    ASSUME IInv, Order, DiskWrite
    PROVE  \E w \in Writes :
              /\ w = Head(todo) /\ disk' = Apply(disk, w) /\ Writes' = Writes \ {w}
              /\ \A x \in Writes' : Rank(w) < Rank(x)
<1>1. todo \in Seq(WriteType) /\ todo # <<>> /\ Sorted(todo)
  BY DEF IInv, TodoOK, Pending, DiskWrite, Order
<1> DEFINE w == todo[1]
<1>2. /\ Len(todo) \in Nat /\ 1 \in 1..Len(todo) /\ Head(todo) = w
      /\ DOMAIN todo = 1..Len(todo) /\ DOMAIN Tail(todo) = 1..(Len(todo) - 1)
      /\ \A k \in 1..(Len(todo) - 1) : Tail(todo)[k] = todo[k + 1]
  BY <1>1
<1>3. disk' = Apply(disk, w) /\ todo' = Tail(todo)
  BY <1>2 DEF DiskWrite
<1>4. \A k \in 2..Len(todo) : Rank(w) < Rank(todo[k])
  BY <1>1, <1>2 DEF Sorted
<1>5. w \in Writes /\ Writes = {todo[k] : k \in 1..Len(todo)}
  BY <1>2 DEF Writes, ToSet
<1>6. Writes' = {todo[k] : k \in 2..Len(todo)}
  <2>1. Writes' = {Tail(todo)[k] : k \in 1..(Len(todo) - 1)}
    BY <1>2, <1>3 DEF Writes, ToSet
  <2>2. \A k \in 1..(Len(todo) - 1) : k + 1 \in 2..Len(todo) /\ Tail(todo)[k] = todo[k + 1]
    BY <1>2
  <2>3. \A k \in 2..Len(todo) : k - 1 \in 1..(Len(todo) - 1) /\ Tail(todo)[k - 1] = todo[k]
    <3> TAKE k \in 2..Len(todo)
    <3> DEFINE j == k - 1
    <3>1. j \in 1..(Len(todo) - 1) /\ j + 1 = k
      BY <1>2
    <3> HIDE DEF j
    <3>2. Tail(todo)[j] = todo[j + 1]
      BY <1>2, <3>1
    <3> QED
      BY <3>1, <3>2 DEF j
  <2> QED
    BY <2>1, <2>2, <2>3
<1>7. \A k \in 2..Len(todo) : todo[k] # w
  <2>1. todo[1] \in WriteType
    BY <1>1, <1>2
  <2>2. Rank(w) \in Nat
    BY <2>1, RankIs
  <2> HIDE DEF w
  <2> QED
    BY <1>4, <2>2
<1> HIDE DEF w
<1>8. \A k \in 1..Len(todo) : k = 1 \/ k \in 2..Len(todo)
  BY <1>2
<1>9. Writes' = Writes \ {w}
  BY <1>5, <1>6, <1>7, <1>8 DEF w
<1> QED
  BY <1>2, <1>3, <1>4, <1>5, <1>6, <1>9

\* What is left is in order.
LEMMA OrderLeft ==
    ASSUME IInv, Order, DiskWrite
    PROVE  Order'
<1>1. PICK w \in Writes : Writes' = Writes \ {w} /\ \A x \in Writes' : Rank(w) < Rank(x)
  BY WriteDone
<1>2. Writes \in SUBSET WriteType /\ past' = past
  BY WritesTyped DEF DiskWrite
<1>3. todo' # <<>> => Top' = Top /\ todo # <<>>
  <2>1. todo \in Seq(WriteType) /\ todo # <<>> /\ todo' = Tail(todo)
    BY DEF IInv, TodoOK, Pending, DiskWrite
  <2>2. todo' # <<>> => Len(todo) # 1
    BY <2>1
  <2> QED
    BY <2>1, <2>2 DEF DiskWrite, Top
<1>4. Sorted(todo')
  <2>1. todo \in Seq(WriteType) /\ todo # <<>> /\ todo' = Tail(todo) /\ Sorted(todo)
    BY DEF IInv, TodoOK, Pending, DiskWrite, Order
  <2>2. /\ Len(todo) \in Nat /\ Len(todo') = Len(todo) - 1
        /\ \A i \in 1..Len(todo') : (todo')[i] = todo[i + 1]
    BY <2>1
  <2>3. ASSUME NEW i \in 1..Len(todo'), NEW j \in 1..Len(todo'), i < j
        PROVE  Rank((todo')[i]) < Rank((todo')[j])
    <3> DEFINE k == i + 1
               m == j + 1
    <3>1. (todo')[i] = todo[k] /\ (todo')[j] = todo[m]
      BY <2>2
    <3>2. k \in 1..Len(todo) /\ m \in 1..Len(todo) /\ k < m
      <4> DEFINE n == Len(todo)
      <4>1. n \in Nat /\ Len(todo') = n - 1
        BY <2>2
      <4> HIDE DEF n
      <4>2. i \in 1..(n - 1) /\ j \in 1..(n - 1)
        BY <4>1
      <4>3. k \in 1..n /\ m \in 1..n /\ k < m
        BY <2>3, <4>1, <4>2
      <4> QED
        BY <4>3 DEF n
    <3> HIDE DEF k, m
    <3> QED
      BY <2>1, <3>1, <3>2 DEF Sorted
  <2> QED
    BY <2>3 DEF Sorted
<1>6. (todo' # <<>> /\ (Top').op = "rm") => \A x \in Writes' : x.op \in {"invalid", "free"} \/ Unlinks(x)
  BY <1>1, <1>3 DEF Order
<1>7. (todo' # <<>> /\ (Top').op = "hardlink") => \A x \in Writes' : x.op \in {"entry", "links"}
  BY <1>1, <1>3 DEF Order
<1>8. \A x \in Ops("index")' : x.slot # 0 => x.block \in (past').short /\ x.block + 1 \in (past').short
  BY <1>1, <1>2 DEF Order, Ops
<1>9. \A x \in Ops("free")' : x.word \in Words
  BY <1>1 DEF Order, Ops
<1>10. Regular' => \A x \in Writes' : (x.op = "entry" => x.dir # DataBlock) /\ (x.op = "index" => x.block \in Blocks)
  <2>1. Regular' <=> Regular
    BY <1>2 DEF Regular, Misplaced
  <2> QED
    BY <1>1, <2>1 DEF Order
<1> QED
  BY <1>4, <1>6, <1>7, <1>8, <1>9, <1>10 DEF Order

\* Writes that are as they should be while no disk was full.
Sound(d, w) ==
    /\ w.op = "entry" => w.dir # DataBlock
    /\ w.op = "index" => w.block \in Blocks
    /\ w.op = "links" => d.word[w.block][LinkWord] + w.n \in Nat

\* The entries that there are after a write.
LEMMA EntriesAfter ==
    ASSUME NEW d, DiskOK(d), NEW w \in WriteType, Sound(d, w)
    PROVE  /\ \A u \in Taken(Apply(d, w)) :
                 \/ u \in Taken(d) /\ KindOf(Apply(d, w), u) = KindOf(d, u) /\ IndexOf(Apply(d, w), u) = IndexOf(d, u)
                 \/ w.op = "entry" /\ KindOf(Apply(d, w), u) = w.kind /\ IndexOf(Apply(d, w), u) = w.index
           /\ w.op \notin {"used", "free"} => Apply(d, w).bitmap = d.bitmap
<1>1. CASE w.op \in {"used", "free"}
  BY <1>1, BitmapEffect DEF Same, Fewer
<1>2. CASE w.op = "invalid"
  BY <1>2, InvalidEffect DEF Fewer
<1>3. CASE w.op = "links"
  BY <1>3, LinksEffect DEF Sound, Same, Fewer
<1>4. CASE w.op = "index"
  BY <1>4, IndexEffect DEF Sound, Fewer
<1>5. CASE w.op = "entry"
  <2>1. CASE Apply(d, w) = d
    BY <1>5, <2>1
  <2>2. CASE Apply(d, w) # d
    <3>1. PICK s \in Slots : /\ More(d, Apply(d, w), <<w.dir, s>>)
                             /\ KindOf(Apply(d, w), <<w.dir, s>>) = w.kind
                             /\ IndexOf(Apply(d, w), <<w.dir, s>>) = w.index
      BY <1>5, <2>2, EntryEffect DEF Sound
    <3>2. Apply(d, w).bitmap = d.bitmap
      BY <1>5, <2>2, EntryEffect DEF Sound
    <3> DEFINE v == <<w.dir, s>>
               e == Apply(d, w)
    <3>3. More(d, e, v) /\ KindOf(e, v) = w.kind /\ IndexOf(e, v) = w.index
      BY <3>1
    <3> HIDE DEF v, e
    <3>4. \A u \in Taken(e) : \/ u \in Taken(d) /\ KindOf(e, u) = KindOf(d, u) /\ IndexOf(e, u) = IndexOf(d, u)
                              \/ KindOf(e, u) = w.kind /\ IndexOf(e, u) = w.index
      BY <3>3 DEF More
    <3> QED
      BY <1>5, <3>2, <3>4 DEF e
  <2> QED
    BY <2>1, <2>2
<1> QED
  BY <1>1, <1>2, <1>3, <1>4, <1>5, WriteIs

\* The histories do not change while a call writes.
LEMMA PastLeft ==
    ASSUME past' = past
    PROVE  Regular' = Regular /\ OnlyRm' = OnlyRm /\ Misplaced' = Misplaced
BY DEF Regular, OnlyRm, Misplaced

\* The first write of a call is done.
Does(w) ==
    /\ w \in Writes /\ w \in WriteType /\ w = Head(todo)
    /\ disk' = Apply(disk, w) /\ Writes' = Writes \ {w}
    /\ \A x \in Writes' : x \in WriteType /\ Rank(w) < Rank(x)

\* The pending writes are sound.
LEMMA WritesSound ==
    ASSUME IInv, Order, Regular, NEW w \in Writes
    PROVE  Sound(disk, w)
<1>1. w \in WriteType /\ todo \in Seq(WriteType) /\ DiskOK(disk)
  BY WritesTyped DEF IInv, TodoOK, Pending
<1>2. (w.op = "entry" => w.dir # DataBlock) /\ (w.op = "index" => w.block \in Blocks)
  BY DEF Order
<1>3. CASE w.op = "links"
  <2>1. w.block \in Blocks /\ w.n \in {1, -1} /\ LinkWord \in Words
    BY <1>1, <1>3, WriteIs, Sizes DEF LinkWord, Words
  <2>2. disk.word[w.block][LinkWord] \in Nat
    BY <1>1, <2>1, DiskIs
  <2>3. PICK k \in 1..Len(todo) : todo[k] = w
    BY <1>1 DEF Writes, ToSet
  <2>4. w.n = -1 => disk.word[w.block][LinkWord] > 0
    BY <1>3, <2>3 DEF IInv, TodoOK, Pending, Unlinks
  <2> QED
    BY <1>3, <2>1, <2>2, <2>4 DEF Sound
<1> QED
  BY <1>2, <1>3 DEF Sound

\* A write of a call: nothing is left to be made invalid.
LEMMA Done ==
    ASSUME IInv, SInv, DiskWrite
    PROVE  /\ DiskOK(disk) /\ past' = past /\ Ops("invalid")' = {}
           /\ \E w \in Writes : Does(w) /\ (Regular => Sound(disk, w))
<1>1. PICK w \in Writes : /\ w = Head(todo) /\ disk' = Apply(disk, w) /\ Writes' = Writes \ {w}
                          /\ \A x \in Writes' : Rank(w) < Rank(x)
  BY WriteDone DEF SInv
<1>2. Writes \in SUBSET WriteType /\ DiskOK(disk) /\ past' = past
  BY WritesTyped DEF IInv, DiskWrite
<1>3. \A x \in Writes' : x.op # "invalid"
  BY <1>1, ComesAfter DEF SInv
<1>4. Does(w)
  BY <1>1, <1>2 DEF Does
<1>5. Regular => Sound(disk, w)
  BY WritesSound DEF SInv
<1> QED
  BY <1>2, <1>3, <1>4, <1>5 DEF Ops

\* A write leaves Sharing as it is: the entry it makes was one that might share.
LEMMA SharingLeft ==
    ASSUME IInv, SInv, DiskWrite
    PROVE  Sharing'
<1> SUFFICES ASSUME Regular' PROVE Sharing'
  BY DEF Sharing
<1>1. DiskOK(disk) /\ Regular
  BY Done, PastLeft
<1>2. PICK w \in Writes : Does(w) /\ Sound(disk, w)
  BY <1>1, Done
<1> DEFINE e == disk'
           Old(u) == u \in Taken(disk) /\ KindOf(e, u) = KindOf(disk, u) /\ IndexOf(e, u) = IndexOf(disk, u)
           New(u) == w.op = "entry" /\ KindOf(e, u) = w.kind /\ IndexOf(e, u) = w.index
<1>3. \A u \in Taken(e) : Old(u) \/ New(u)
  BY <1>1, <1>2, EntriesAfter DEF Does
<1>4. /\ \A u, v \in Taken(disk) : u # v /\ IndexOf(disk, u) = IndexOf(disk, v) =>
            KindOf(disk, u) = File
      /\ \A x \in Ops("entry"), v \in Taken(disk) : IndexOf(disk, v) = x.index =>
            KindOf(disk, v) = File /\ x.kind = File
  BY <1>1 DEF SInv, Sharing
<1>5. CASE w.op = "entry"
  <2>1. Ops("entry")' = {} /\ w \in Ops("entry")
    <3>1. \A x \in Writes' : x.op # "entry"
      BY <1>2, <1>5, ComesAfter DEF Does, SInv, Unlinks
    <3> QED
      BY <1>2, <1>5, <3>1 DEF Ops
  <2>2. e = disk \/ \E s \in Slots : /\ More(disk, e, <<w.dir, s>>) /\ KindOf(e, <<w.dir, s>>) = w.kind
                                     /\ IndexOf(e, <<w.dir, s>>) = w.index
    BY <1>1, <1>2, <1>5, EntryEffect DEF Does, Sound
  <2>3. CASE e = disk
    BY <1>1, <1>4, <2>1, <2>3 DEF Sharing
  <2>4. ASSUME NEW n, More(disk, e, n), KindOf(e, n) = w.kind, IndexOf(e, n) = w.index
        PROVE  \A u, v \in Taken(e) : u # v /\ IndexOf(e, u) = IndexOf(e, v) =>
                   KindOf(e, u) = File
    <3> HIDE DEF e
    <3> TAKE u, v \in Taken(e)
    <3> HAVE u # v /\ IndexOf(e, u) = IndexOf(e, v)
    <3>1. /\ u = n \/ (u \in Taken(disk) /\ KindOf(e, u) = KindOf(disk, u) /\ IndexOf(e, u) = IndexOf(disk, u))
          /\ v = n \/ (v \in Taken(disk) /\ KindOf(e, v) = KindOf(disk, v) /\ IndexOf(e, v) = IndexOf(disk, v))
      BY <2>4 DEF More
    <3> QED
      BY <1>4, <2>1, <2>4, <3>1
  <2> HIDE DEF e
  <2>5. (\A u, v \in Taken(e) : u # v /\ IndexOf(e, u) = IndexOf(e, v) =>
             KindOf(e, u) = File) => Sharing'
    BY <1>1, <2>1 DEF Sharing, e
  <2> QED
    BY <2>2, <2>3, <2>4, <2>5
<1>6. CASE w.op # "entry"
  <2>1. \A u \in Taken(e) : Old(u)
    BY <1>3, <1>6
  <2>2. Ops("entry")' \subseteq Ops("entry")
    BY <1>2 DEF Ops, Does
  <2> QED
    BY <1>1, <1>4, <2>1, <2>2 DEF Sharing
<1> QED
  BY <1>5, <1>6

\* The last pointer that is freed is the root, or comes after it.
LEMMA FreeEnds ==
    ASSUME IInv, DiskWrite, ~ past.torn, 0 \in (disk').bitmap, Pointer(Head(todo))
    PROVE  Looping(todo')
<1>1. todo \in Seq(WriteType) /\ todo # <<>> /\ todo' = Tail(todo) /\ DiskOK(disk)
  BY DEF IInv, TodoOK, Pending, DiskWrite
<1> DEFINE w == todo[1]
<1>2. /\ Len(todo) \in Nat /\ 1 \in 1..Len(todo) /\ Head(todo) = w /\ w \in WriteType
      /\ Len(Tail(todo)) = Len(todo) - 1
      /\ Len(todo) >= 2 => Tail(todo) # <<>> /\ Head(Tail(todo)) = todo[2]
  <2>1. Len(todo) \in Nat /\ 1 \in 1..Len(todo) /\ Head(todo) = w /\ w \in WriteType
    BY <1>1
  <2>2. Len(Tail(todo)) = Len(todo) - 1 /\ Tail(todo) \in Seq(WriteType)
    BY <1>1
  <2>3. Len(todo) >= 2 => Tail(todo)[1] = todo[2]
    <3> SUFFICES ASSUME Len(todo) >= 2 PROVE Tail(todo)[1] = todo[2]
      OBVIOUS
    <3>1. 1 \in 1..(Len(todo) - 1) /\ 1 + 1 = 2
      BY <2>1
    <3>2. \A k \in 1..(Len(todo) - 1) : Tail(todo)[k] = todo[k + 1]
      BY <1>1
    <3>3. Tail(todo)[1] = todo[1 + 1]
      BY <3>1, <3>2
    <3> QED
      BY <3>1, <3>3
  <2>4. Len(todo) >= 2 => Tail(todo) # <<>> /\ Head(Tail(todo)) = Tail(todo)[1]
    <3> DEFINE rest == Tail(todo)
    <3>1. Len(todo) >= 2 => Len(rest) >= 1
      BY <2>1, <2>2
    <3>2. rest \in Seq(WriteType)
      BY <2>2
    <3> HIDE DEF rest
    <3>3. Len(rest) >= 1 => rest # <<>> /\ Head(rest) = rest[1]
      BY <3>2
    <3> QED
      BY <3>1, <3>3 DEF rest
  <2> QED
    BY <2>1, <2>2, <2>3, <2>4
<1>3. disk' = Apply(disk, w)
  BY <1>2 DEF DiskWrite
<1>4. w.op = "free" /\ Pointer(w)
  BY <1>2 DEF Pointer, Frees
<1> HIDE DEF w
<1>5. (disk').bitmap = disk.bitmap \ {w.block}
  BY <1>1, <1>2, <1>3, <1>4, BitmapEffect
<1>6. 0 \in disk.bitmap /\ w.block # 0
  BY <1>5
<1>7. RootFreed(todo) /\ Unbroken(todo)
  <2>1. Metadata(disk, todo)
    BY DEF IInv
  <2>2. \E i \in 1..Len(todo) : Frees(todo[i])
    BY <1>2, <1>4 DEF Frees, w
  <2> QED
    BY <1>6, <2>1, <2>2 DEF Metadata, Marked
<1>8. PICK i \in 1..Len(todo) : Frees(todo[i]) /\ todo[i].block = 0
  BY <1>7 DEF RootFreed
<1>9. i # 1
  BY <1>6, <1>8 DEF w
<1>10. 1 < i /\ Len(todo) >= 2 /\ 1 + 1 = 2
  BY <1>2, <1>8, <1>9
<1>11. Later(todo[1 + 1])
  <2>1. Pointer(todo[1])
    BY <1>4 DEF w
  <2> QED
    BY <1>2, <1>7, <1>8, <1>10, <2>1 DEF Unbroken
<1>12. Later(todo[2])
  BY <1>10, <1>11
<1> QED
  BY <1>1, <1>2, <1>10, <1>12 DEF Looping

\* A write leaves InUse as it is.
LEMMA InUseLeft ==
    ASSUME IInv, SInv, DiskWrite
    PROVE  InUse'
<1> SUFFICES ASSUME Regular' PROVE InUse'
  BY DEF InUse
<1>1. DiskOK(disk) /\ Regular /\ OnlyRm' = OnlyRm /\ Misplaced' = Misplaced /\ ~ past.torn
  BY Done, PastLeft DEF Regular
<1>2. PICK w \in Writes : Does(w) /\ Sound(disk, w)
  BY <1>1, Done
<1>3. w \in WriteType /\ disk' = Apply(disk, w) /\ Writes' = Writes \ {w} /\ \A x \in Writes' : x \in WriteType
  BY <1>2 DEF Does
<1>4. Wanted' \subseteq Wanted
  <2>1. \A u \in Taken(disk') : \/ u \in Taken(disk) /\ IndexOf(disk', u) = IndexOf(disk, u)
                                \/ w \in Ops("entry") /\ IndexOf(disk', u) = w.index
    BY <1>1, <1>2, <1>3, EntriesAfter DEF Ops
  <2>2. Ops("entry")' \subseteq Ops("entry")
    BY <1>3 DEF Ops
  <2> QED
    BY <2>1, <2>2 DEF Wanted
<1>5. /\ 0 \in disk.bitmap /\ ~ Looping(todo) => \A i \in Wanted :
            i \in disk.bitmap \/ i \in Bits \/ (Freeing /\ (OnlyRm => i \in Misplaced))
      /\ Freeing => \A x \in Ops("entry") : x.index \in Bits
  BY <1>1 DEF SInv, InUse
<1>6. Looping(todo) => w.op = "free" /\ w.word > 2
  BY <1>2 DEF Does, Looping, Later, Frees
<1>7. CASE w.op \notin {"used", "free"}
  <2>1. (disk').bitmap = disk.bitmap
    BY <1>1, <1>2, <1>3, <1>7, EntriesAfter
  <2>2. Bits' = Bits /\ Freeing' = Freeing /\ Ops("entry")' \subseteq Ops("entry")
    BY <1>3, <1>7 DEF Bits, Freeing, Ops
  <2> QED
    BY <1>1, <1>4, <1>5, <1>6, <1>7, <2>1, <2>2 DEF InUse
<1>8. CASE w.op = "used"
  <2>1. (disk').bitmap = disk.bitmap \union {w.block} /\ w.block # 0
    BY <1>1, <1>2, <1>3, <1>8, BitmapEffect, WriteIs
  <2>2. \A x \in Writes' : FALSE
    BY <1>2, <1>8, ComesAfter DEF Does, SInv
  <2>3. ~ Freeing /\ ~ Freeing' /\ Bits = {w.block}
    BY <1>2, <1>3, <1>8, <2>2 DEF Freeing, Bits, Ops
  <2> QED
    BY <1>1, <1>4, <1>5, <1>6, <1>8, <2>1, <2>3 DEF InUse
<1>9. ASSUME w.op = "free"
      PROVE  /\ (disk').bitmap = disk.bitmap \ {w.block}
             /\ Bits' = Bits /\ Ops("entry")' = Ops("entry") /\ Freeing
  <2>1. (disk').bitmap = disk.bitmap \ {w.block}
    BY <1>1, <1>3, <1>9, BitmapEffect
  <2>2. Bits' = Bits /\ Ops("entry")' = Ops("entry") /\ Freeing
    BY <1>2, <1>3, <1>9 DEF Bits, Ops, Freeing
  <2> QED
    BY <2>1, <2>2
<1>10. CASE w.op = "free" /\ w.word > 0
  <2>1. Pointer(Head(todo))
    BY <1>2, <1>10 DEF Does, Pointer, Frees
  <2>2. 0 \in (disk').bitmap => Looping(todo')
    BY <1>1, <2>1, FreeEnds
  <2> QED
    BY <1>5, <1>9, <1>10, <2>2 DEF InUse
<1>11. CASE Unlinked(w)
  <2>1. w.op = "free" /\ w.word = 0
    BY <1>11 DEF Unlinked
  <2>2. 0 \in (disk').bitmap => Freeing'
    <3> SUFFICES ASSUME 0 \in (disk').bitmap PROVE Freeing'
      OBVIOUS
    <3>1. todo \in Seq(WriteType) /\ todo # <<>> /\ Metadata(disk, todo)
      BY <1>1 DEF IInv, TodoOK, Pending, DiskWrite
    <3>2. \E i \in 1..Len(todo) : Frees(todo[i])
      <4>1. Head(todo) = todo[1] /\ 1 \in 1..Len(todo)
        BY <3>1
      <4> QED
        BY <1>2, <2>1, <4>1 DEF Does, Frees
    <3>3. 0 \in disk.bitmap /\ w.block # 0
      BY <1>9, <2>1
    <3>4. PICK i \in 1..Len(todo) : Frees(todo[i]) /\ todo[i].block = 0
      BY <3>1, <3>2, <3>3 DEF Metadata, Marked, RootFreed
    <3>5. todo[i] \in Writes /\ todo[i] # w
      BY <3>1, <3>3, <3>4 DEF Writes, ToSet
    <3> QED
      BY <1>3, <3>4, <3>5 DEF Freeing, Ops, Frees
  <2>3. Ops("invalid") = {}
    <3>1. \A x \in Writes' : x.op # "invalid"
      BY <1>2, ComesAfter DEF Does, SInv
    <3> QED
      BY <1>3, <2>1, <3>1 DEF Ops
  <2>4. ASSUME NEW i \in Wanted, i = w.block, OnlyRm
        PROVE  i \in Bits \/ i \in Misplaced
    <3>1. CASE i \in {IndexOf(disk, v) : v \in Taken(disk)}
      BY <1>1, <1>2, <1>11, <2>3, <2>4, <3>1 DEF SInv, Removed
    <3>2. CASE i \in {x.index : x \in Ops("entry")}
      BY <1>5, <1>9, <2>1, <3>2
    <3> QED
      BY <3>1, <3>2 DEF Wanted
  <2>5. \A i \in Wanted' : 0 \in (disk').bitmap =>
           i \in (disk').bitmap \/ i \in Bits' \/ (Freeing' /\ (OnlyRm' => i \in Misplaced'))
    <3> SUFFICES ASSUME NEW i \in Wanted', 0 \in (disk').bitmap
                 PROVE  i \in (disk').bitmap \/ i \in Bits \/ (OnlyRm => i \in Misplaced)
      BY <1>1, <1>9, <2>1, <2>2
    <3>1. i \in Wanted /\ 0 \in disk.bitmap /\ ~ Looping(todo)
      BY <1>4, <1>6, <1>9, <2>1
    <3>2. i \in disk.bitmap \/ i \in Bits \/ (OnlyRm => i \in Misplaced)
      BY <1>5, <3>1
    <3> QED
      BY <1>9, <2>1, <2>4, <3>1, <3>2
  <2> QED
    BY <1>5, <1>9, <2>1, <2>5 DEF InUse
<1> QED
  BY <1>3, <1>7, <1>8, <1>10, <1>11, WriteIs DEF Unlinked

\* A write leaves Removed as it is.
LEMMA RemovedLeft ==
    ASSUME IInv, SInv, DiskWrite
    PROVE  Removed'
<1> SUFFICES ASSUME Regular', OnlyRm' PROVE Removed'
  BY DEF Removed
<1>1. /\ DiskOK(disk) /\ Regular /\ OnlyRm /\ Misplaced' = Misplaced
      /\ Ops("invalid")' = {}
  BY Done, PastLeft
<1>2. PICK w \in Writes : Does(w) /\ Sound(disk, w)
  BY <1>1, Done
<1>3. w \in WriteType /\ disk' = Apply(disk, w) /\ Writes' = Writes \ {w}
  BY <1>2 DEF Does
<1>4. ASSUME NEW x \in Writes', NEW v \in Taken(disk'), Unlinked(x), IndexOf(disk', v) = x.block
      PROVE  x.block \in Misplaced
  <2>1. x \in Writes /\ w.op = "invalid"
    BY <1>2, <1>3, <1>4, ComesAfter DEF Does, SInv
  <2>3. v \in Taken(disk) /\ IndexOf(disk', v) = IndexOf(disk, v)
    BY <1>1, <1>2, <1>3, <2>1, EntriesAfter
  <2>4. x.block \in Misplaced \/ \E u \in Ops("invalid") : <<u.block, u.slot>> = v
    BY <1>1, <1>4, <2>1, <2>3 DEF SInv, Removed
  <2>5. ASSUME NEW u \in Ops("invalid"), <<u.block, u.slot>> = v
        PROVE  FALSE
    <3>1. u = w
      BY <1>1, <1>3, <2>5 DEF Ops
    <3> QED
      BY <1>1, <1>3, <1>4, <2>1, <2>5, <3>1, InvalidEffect
  <2> QED
    BY <2>3, <2>4, <2>5
<1> QED
  BY <1>1, <1>4 DEF Removed

\* No entry is added to the index block of a file by the writes that are left.
LEMMA DirsLeft ==
    ASSUME IInv, SInv, DiskWrite, Regular', OnlyRm', NEW w, Does(w), Sound(disk, w)
    PROVE  \A x \in Ops("entry")' : x.dir \in Misplaced' \/
              ((\A v \in Taken(disk') : KindOf(disk', v) = File => IndexOf(disk', v) # x.dir)
                 /\ (x.kind = File => x.index # x.dir))
<1>1. /\ Writes \in SUBSET WriteType /\ DiskOK(disk) /\ Regular /\ OnlyRm /\ Misplaced' = Misplaced
  BY Done, PastLeft, WritesTyped
<1>2. w \in WriteType /\ \A x \in Writes : x \in WriteType
  BY <1>1 DEF Does
<1> TAKE x \in Ops("entry")'
<1>3. x \in Ops("entry") /\ w.op # "entry"
  BY ComesAfter DEF Ops, Does, SInv, Unlinks
<1>4. \A u \in Taken(disk') : u \in Taken(disk) /\ KindOf(disk', u) = KindOf(disk, u) /\ IndexOf(disk', u) = IndexOf(disk, u)
  BY <1>1, <1>2, <1>3, EntriesAfter DEF Does
<1>5. x.dir \in Misplaced \/ ((\A v \in Taken(disk) : KindOf(disk, v) = File => IndexOf(disk, v) # x.dir)
                              /\ (x.kind = File => x.index # x.dir))
  BY <1>1, <1>3 DEF SInv, Counted
<1> QED
  BY <1>1, <1>4, <1>5

\* Links are counted after a write as they were before, by its operation.
Balanced(i) == i \in Misplaced \/ NumLinks(disk, i) + NewLinks(i) <= Counts(i)

\* The counts of a disk are numbers.
LEMMA CountIs ==
    ASSUME NEW d, DiskOK(d), NEW i \in Blocks
    PROVE  d.word[i][LinkWord] \in Nat /\ NumLinks(d, i) \in Nat /\ IsFiniteSet(FilesAt(d, i))
<1>1. LinkWord \in Words
  BY Sizes DEF LinkWord, Words
<1>2. d.word \in [Blocks -> [Words -> Nat]]
  BY DiskIs
<1>3. NumLinks(d, i) \in Nat /\ IsFiniteSet(FilesAt(d, i))
  BY TakenFinite
<1> QED
  BY <1>1, <1>2, <1>3

\* Marking and freeing blocks changes no count.
LEMMA BitmapCounts ==
    ASSUME IInv, SInv, DiskWrite, Regular', OnlyRm', NEW w, Does(w), Sound(disk, w), w.op \in {"used", "free"}, NEW i \in Blocks
    PROVE  Balanced(i)'
<1>1. /\ Writes \in SUBSET WriteType /\ DiskOK(disk) /\ Regular /\ OnlyRm /\ Misplaced' = Misplaced
  BY Done, PastLeft, WritesTyped
<1>2. Same(disk, disk') /\ (disk').word = disk.word
  BY <1>1, BitmapEffect DEF Does
<1>3. NumLinks(disk', i) <= NumLinks(disk, i) /\ NumLinks(disk', i) \in Nat /\ NumLinks(disk, i) \in Nat
  BY <1>2, FewerLinks, TakenFinite DEF Same
<1>4. /\ \A op \in {"index", "links", "entry", "invalid"} : Ops(op)' = Ops(op)
  BY DEF Does, Ops
<1>5. Creating(i)' = Creating(i) /\ Gaining(i)' = Gaining(i) /\ Losing(i)' = Losing(i) /\ NewLinks(i)' = NewLinks(i)
  BY <1>4 DEF Creating, Gaining, Losing, NewLinks
<1>6. Counts(i)' = Counts(i)
  BY <1>2, <1>5 DEF Counts
<1>7. Balanced(i)
  BY <1>1 DEF SInv, Counted, Balanced
<1>8. disk.word[i][LinkWord] \in Nat /\ Counts(i) \in Int /\ NewLinks(i) \in Nat
  BY <1>1, CountIs DEF Counts, NewLinks
<1> QED
  BY <1>1, <1>3, <1>5, <1>6, <1>7, <1>8 DEF Balanced

\* An entry that becomes invalid is a link less, and its count is about to be one less.
LEMMA InvalidCounts ==
    ASSUME IInv, SInv, DiskWrite, Regular', OnlyRm', NEW w, Does(w), Sound(disk, w), w.op = "invalid", NEW i \in Blocks
    PROVE  Balanced(i)'
<1>1. /\ Writes \in SUBSET WriteType /\ DiskOK(disk) /\ Regular /\ OnlyRm /\ Misplaced' = Misplaced
  BY Done, PastLeft, WritesTyped
<1> DEFINE v == <<w.block, w.slot>>
<1>2. Fewer(disk, disk') /\ (disk').word = disk.word /\ v \notin Taken(disk')
  BY <1>1, InvalidEffect DEF Does
<1>3. NumLinks(disk', i) <= NumLinks(disk, i) /\ NumLinks(disk', i) \in Nat /\ NumLinks(disk, i) \in Nat
  BY <1>2, FewerLinks, TakenFinite
<1>4. \A op \in {"index", "links", "entry"} : Ops(op)' = Ops(op)
  BY DEF Does, Ops
<1>5. Creating(i)' = Creating(i) /\ Gaining(i)' = Gaining(i) /\ NewLinks(i)' = NewLinks(i) /\ ~ Losing(i)
  <2>1. w \in Ops("invalid")
    BY DEF Does, Ops
  <2> QED
    BY <1>4, <2>1 DEF Creating, Gaining, Losing, NewLinks
<1>6. Balanced(i) /\ disk.word[i][LinkWord] \in Nat /\ Counts(i) \in Int /\ NewLinks(i) \in Nat
  <2>1. Balanced(i)
    BY <1>1 DEF SInv, Counted, Balanced
  <2> QED
    BY <1>1, <2>1, CountIs DEF Counts, NewLinks
<1>7. CASE Creating(i) \/ ~ Losing(i)'
  <2>1. Counts(i)' = Counts(i)
    BY <1>2, <1>5, <1>7 DEF Counts
  <2> QED
    BY <1>1, <1>3, <1>5, <1>6, <2>1 DEF Balanced
<1>8. CASE ~ Creating(i) /\ Losing(i)'
  <2>1. Counts(i)' = Counts(i) - 1 /\ Counts(i) >= disk.word[i][LinkWord]
    BY <1>2, <1>5, <1>6, <1>8 DEF Counts
  <2>2. PICK x \in Ops("links") : x.block = i /\ x.n = -1
    BY <1>4, <1>8 DEF Losing
  <2>3. v \in Taken(disk) /\ IndexOf(disk, v) = i
    <3>1. w \in Ops("invalid") /\ x \in Writes /\ Unlinks(x)
      BY <2>2 DEF Does, Ops, Unlinks
    <3> QED
      BY <1>1, <2>2, <3>1 DEF SInv, Removed
  <2>4. disk.word[i][LinkWord] > 0
    <3>1. x \in Writes /\ Unlinks(x)
      BY <2>2 DEF Ops, Unlinks
    <3>2. PICK k \in DOMAIN todo : x = todo[k]
      BY <3>1 DEF Writes, ToSet
    <3>3. k \in 1..Len(todo)
      BY <3>2 DEF IInv, TodoOK, Pending
    <3> QED
      BY <2>2, <3>1, <3>2, <3>3 DEF IInv, TodoOK, Pending
  <2>5. CASE KindOf(disk, v) = File
    <3>1. NumLinks(disk', i) <= NumLinks(disk, i) - 1
      BY <1>2, <2>3, <2>5, LinkRemoved
    <3> QED
      BY <1>1, <1>3, <1>5, <1>6, <2>1, <3>1 DEF Balanced
  <2>6. CASE KindOf(disk, v) # File
    <3>1. \A u \in Taken(disk) : u # v => IndexOf(disk, u) # i
      BY <1>1, <2>3, <2>6 DEF SInv, Sharing
    <3>2. NewLinks(i) = 0
      BY <1>1, <2>3, <2>6 DEF SInv, Sharing, NewLinks
    <3>3. FilesAt(disk', i) = {}
      BY <1>2, <3>1 DEF Fewer, FilesAt
    <3>4. NumLinks(disk', i) = 0
      BY <3>3, TakenFinite
    <3> QED
      BY <1>1, <1>5, <1>6, <2>1, <2>4, <3>2, <3>4 DEF Balanced
  <2> QED
    BY <2>5, <2>6
<1> QED
  BY <1>5, <1>7, <1>8

\* A count that changes was about to.
LEMMA LinksCounts ==
    ASSUME IInv, SInv, DiskWrite, Regular', OnlyRm', NEW w, Does(w), Sound(disk, w), w.op = "links", NEW i \in Blocks
    PROVE  Balanced(i)'
<1>1. /\ Writes \in SUBSET WriteType /\ DiskOK(disk) /\ Regular /\ OnlyRm /\ Misplaced' = Misplaced
  BY Done, PastLeft, WritesTyped
<1>2. w \in WriteType /\ (\A x \in Writes : x \in WriteType) /\ w \in Ops("links")
  BY <1>1 DEF Does, Ops
<1>3. /\ Same(disk, disk') /\ (disk').word[w.block][LinkWord] = disk.word[w.block][LinkWord] + w.n
      /\ \A b \in Blocks : b # w.block => (disk').word[b] = disk.word[b]
  BY <1>1, <1>2, LinksEffect DEF Does, Sound, Ops
<1>4. NumLinks(disk', i) <= NumLinks(disk, i) /\ NumLinks(disk', i) \in Nat /\ NumLinks(disk, i) \in Nat
  BY <1>3, FewerLinks, TakenFinite DEF Same
<1>5. /\ \A op \in {"index", "entry", "invalid"} : Ops(op)' = Ops(op)
      /\ Ops("links")' = Ops("links") \ {w}
  BY DEF Does, Ops
<1>6. Creating(i)' = Creating(i) /\ NewLinks(i)' = NewLinks(i)
  BY <1>5 DEF Creating, NewLinks
<1>7. w.n \in {1, -1} /\ w.block \in Blocks
  BY <1>2, WriteIs
<1>8. \A x \in Ops("links")' : x.n = 1 /\ w.n = -1
  <2> TAKE x \in Ops("links")'
  <2>1. x \in Writes' /\ x \in Writes /\ x \in WriteType /\ x.op = "links" /\ Rank(w) < Rank(x)
    BY <1>2, <1>5 DEF Does, Ops
  <2>2. Rank(w) = (IF w.n = -1 THEN 2 ELSE NWords + 3) /\ Rank(x) = IF x.n = -1 THEN 2 ELSE NWords + 3
    BY <1>2, <2>1, RankIs
  <2>3. x.n \in {1, -1} /\ NWords \in Nat
    BY <2>1, WriteIs, Sizes
  <2> QED
    BY <1>7, <2>1, <2>2, <2>3
<1>9. /\ Balanced(i) /\ disk.word[i][LinkWord] \in Nat /\ Counts(i) \in Int /\ NewLinks(i) \in Nat
  <2>1. Balanced(i)
    BY <1>1 DEF SInv, Counted, Balanced
  <2> QED
    BY <1>1, <2>1, CountIs DEF Counts, NewLinks
<1>10. ~ Losing(i)'
  BY <1>8 DEF Losing
<1>11. Ops("invalid") = {}
  BY ComesAfter DEF Does, Ops, SInv
<1>12. Counts(i)' = Counts(i)
  <2>1. CASE Creating(i)
    BY <1>6, <2>1 DEF Counts
  <2>2. CASE ~ Creating(i) /\ w.block # i
    <3>1. Gaining(i)' = Gaining(i) /\ ~ Losing(i)
      BY <1>2, <1>5, <1>8, <1>10, <1>11, <2>2 DEF Gaining, Losing
    <3> QED
      BY <1>3, <1>6, <1>10, <2>2, <3>1 DEF Counts
  <2>3. CASE ~ Creating(i) /\ w.block = i /\ w.n = 1
    <3>1. ~ Gaining(i)' /\ Gaining(i)
      BY <1>2, <1>8, <2>3 DEF Gaining
    <3>2. ~ Losing(i)
      <4>1. \A x \in Ops("links") : x = w
        BY <1>5, <1>8, <2>3
      <4> QED
        BY <2>3, <4>1 DEF Losing
    <3> QED
      BY <1>3, <1>6, <1>9, <1>10, <2>3, <3>1, <3>2 DEF Counts
  <2>4. CASE ~ Creating(i) /\ w.block = i /\ w.n = -1
    <3>1. Gaining(i)' = Gaining(i) /\ Losing(i)
      BY <1>2, <1>5, <1>11, <2>4 DEF Gaining, Losing
    <3> QED
      BY <1>3, <1>6, <1>9, <1>10, <2>4, <3>1 DEF Counts
  <2> QED
    BY <1>7, <2>1, <2>2, <2>3, <2>4
<1> QED
  BY <1>1, <1>4, <1>6, <1>9, <1>12 DEF Balanced

\* A new entry is a link more, and its count is about to be one more.
LEMMA EntryCounts ==
    ASSUME IInv, SInv, DiskWrite, Regular', OnlyRm', NEW w, Does(w), Sound(disk, w), w.op = "entry", NEW i \in Blocks
    PROVE  Balanced(i)'
<1>1. /\ Writes \in SUBSET WriteType /\ DiskOK(disk) /\ Regular /\ OnlyRm /\ Misplaced' = Misplaced
  BY Done, PastLeft, WritesTyped
<1>2. w \in WriteType /\ (\A x \in Writes : x \in WriteType) /\ w \in Ops("entry")
  BY <1>1 DEF Does, Ops
<1>3. \A op \in {"index", "links", "invalid"} : Ops(op)' = Ops(op)
  BY DEF Does, Ops
<1>4. Creating(i)' = Creating(i) /\ Gaining(i)' = Gaining(i) /\ Losing(i)' = Losing(i)
  BY <1>3 DEF Creating, Gaining, Losing
<1>5. Ops("entry")' = {}
  BY ComesAfter DEF Does, Ops, SInv, Unlinks
<1>6. NewLinks(i)' = 0 /\ NewLinks(i) \in Nat /\ (w.kind = File /\ w.index = i => NewLinks(i) = 1)
  BY <1>2, <1>5 DEF NewLinks
<1>7. ~ Losing(i)
  <2>1. \A x \in Writes : x = w \/ (x \in Writes' /\ ~ Unlinks(x))
    BY ComesAfter DEF Does, SInv
  <2> QED
    BY <1>2, <2>1 DEF Losing, Ops, Unlinks
<1>8. Balanced(i) /\ disk.word[i][LinkWord] \in Nat /\ Counts(i) \in Nat /\ NumLinks(disk, i) \in Nat
  <2>1. Balanced(i)
    BY <1>1 DEF SInv, Counted, Balanced
  <2> QED
    BY <1>1, <1>7, <2>1, CountIs DEF Counts
<1>9. CASE disk' = disk
  <2>1. Counts(i)' = Counts(i)
    BY <1>4, <1>9 DEF Counts
  <2> QED
    BY <1>1, <1>6, <1>8, <1>9, <2>1 DEF Balanced
<1>10. CASE disk' # disk
  <2>1. PICK s \in Slots : /\ More(disk, disk', <<w.dir, s>>)
                           /\ KindOf(disk', <<w.dir, s>>) = w.kind
                           /\ IndexOf(disk', <<w.dir, s>>) = w.index
    BY <1>1, <1>2, <1>10, EntryEffect DEF Does, Sound
  <2>2. \A b \in Blocks : b # w.dir => (disk').word[b] = disk.word[b]
    BY <1>1, <1>2, <1>10, EntryEffect DEF Does, Sound
  <2> DEFINE v == <<w.dir, s>>
  <2>3. More(disk, disk', v) /\ KindOf(disk', v) = w.kind /\ IndexOf(disk', v) = w.index
    BY <2>1
  <2> HIDE DEF v
  <2>4. /\ NumLinks(disk', i) \in Nat
        /\ NumLinks(disk', i) <= NumLinks(disk, i) + (IF w.kind = File /\ w.index = i THEN 1 ELSE 0)
    BY <2>3, LinkAdded, TakenFinite
  <2>5. NumLinks(disk', i) <= NumLinks(disk, i) + NewLinks(i)
    BY <1>6, <1>8, <2>4
  <2>6. CASE i # w.dir
    <3>1. Counts(i)' = Counts(i)
      BY <1>4, <2>2, <2>6 DEF Counts
    <3> QED
      BY <1>1, <1>6, <1>8, <2>4, <2>5, <3>1 DEF Balanced
  <2>7. CASE i = w.dir
    <3>1. \/ i \in Misplaced
          \/ (\A u \in Taken(disk) : KindOf(disk, u) = File => IndexOf(disk, u) # i) /\ (w.kind = File => w.index # i)
      BY <1>1, <1>2, <2>7 DEF SInv, Counted
    <3>2. i \in Misplaced \/ NumLinks(disk', i) = 0
      <4>1. i \in Misplaced \/ FilesAt(disk', i) = {}
        BY <2>3, <3>1 DEF FilesAt, More
      <4> QED
        BY <4>1, TakenFinite
    <3>3. Counts(i)' \in Nat
      <4>1. DiskOK(disk')
        BY DiskWriteKeeps DEF IInv
      <4>2. (disk').word[i][LinkWord] \in Nat
        BY <4>1, CountIs
      <4> QED
        BY <1>4, <1>7, <4>2 DEF Counts
    <3> QED
      BY <1>1, <1>6, <3>2, <3>3 DEF Balanced
  <2> QED
    BY <2>6, <2>7
<1> QED
  BY <1>9, <1>10

\* A new index block counts its one link; the counts it may spoil are excused.
LEMMA IndexCounts ==
    ASSUME IInv, SInv, DiskWrite, Regular', OnlyRm', NEW w, Does(w), Sound(disk, w), w.op = "index", NEW i \in Blocks
    PROVE  Balanced(i)'
<1>1. /\ Writes \in SUBSET WriteType /\ DiskOK(disk) /\ Regular /\ OnlyRm /\ Misplaced' = Misplaced
  BY Done, PastLeft, WritesTyped
<1>2. w \in WriteType /\ (\A x \in Writes : x \in WriteType) /\ w \in Ops("index")
  BY <1>1 DEF Does, Ops
<1>3. w.block \in Blocks /\ w.slot \in Slots
  BY <1>2, WriteIs DEF Sound
<1>4. /\ Fewer(disk, disk')
      /\ \A b \in Blocks \ {w.block} : \A k \in Words :
            b # w.block + 1 \/ w.slot = 0 => (disk').word[b][k] = disk.word[b][k]
      /\ w.slot = 0 => (disk').word[w.block][LinkWord] = 1
  BY <1>1, <1>2, <1>3, IndexEffect DEF Does
<1>5. NumLinks(disk', i) <= NumLinks(disk, i) /\ NumLinks(disk', i) \in Nat /\ NumLinks(disk, i) \in Nat
  BY <1>4, FewerLinks, TakenFinite
<1>6. \A x \in Writes' : x.op = "used"
  <2> TAKE x \in Writes'
  <2>1. x \in Writes /\ Rank(w) < Rank(x) /\ x \in WriteType
    BY DEF Does
  <2>2. x.op \notin {"invalid", "free", "entry", "index", "links"}
    <3>1. w \in Writes /\ Order
      BY DEF Does, SInv
    <3>2. x.op # "invalid" /\ x.op \notin {"free", "entry"} /\ x.op \notin {"index", "links"}
      BY <2>1, <3>1, ComesAfter DEF Unlinks
    <3> QED
      BY <3>2
  <2> QED
    BY <2>1, <2>2, WriteIs
<1>7. ~ Creating(i)' /\ ~ Gaining(i)' /\ ~ Losing(i)' /\ NewLinks(i)' = 0
  BY <1>6 DEF Creating, Gaining, Losing, NewLinks, Ops
<1>8. ~ Gaining(i) /\ ~ Losing(i) /\ (Creating(i) <=> w.block = i)
  <2>1. \A x \in Writes : x = w \/ x \in Writes'
    BY DEF Does
  <2> QED
    BY <1>2, <1>6, <2>1 DEF Gaining, Losing, Creating, Ops
<1>9. Balanced(i) /\ disk.word[i][LinkWord] \in Nat /\ NewLinks(i) \in Nat
  <2>1. Balanced(i)
    BY <1>1 DEF SInv, Counted, Balanced
  <2> QED
    BY <1>1, <2>1, CountIs DEF NewLinks
<1>10. LinkWord \in Words
  BY Sizes DEF LinkWord, Words
<1>11. CASE w.slot # 0 /\ (i = w.block \/ i = w.block + 1)
  <2>1. i \in past.short
    BY <1>2, <1>11 DEF SInv, Order
  <2> QED
    BY <1>1, <2>1 DEF Balanced, Misplaced
<1>12. CASE w.slot = 0 /\ i = w.block
  <2>1. Counts(i) = 1 /\ Counts(i)' = 1
    BY <1>4, <1>7, <1>8, <1>12 DEF Counts
  <2> QED
    BY <1>1, <1>5, <1>7, <1>9, <2>1 DEF Balanced
<1>13. CASE i # w.block /\ (w.slot = 0 \/ i # w.block + 1)
  <2>1. (disk').word[i][LinkWord] = disk.word[i][LinkWord]
    BY <1>4, <1>10, <1>13
  <2>2. Counts(i)' = Counts(i) /\ Counts(i) \in Nat
    BY <1>7, <1>8, <1>9, <1>13, <2>1 DEF Counts
  <2> QED
    BY <1>1, <1>5, <1>7, <1>9, <2>2 DEF Balanced
<1> QED
  BY <1>11, <1>12, <1>13

\* A write leaves Counted as it is.
LEMMA CountedLeft ==
    ASSUME IInv, SInv, DiskWrite
    PROVE  Counted'
<1> SUFFICES ASSUME Regular', OnlyRm' PROVE Counted'
  BY DEF Counted
<1>1. PICK w : Does(w) /\ Sound(disk, w)
  BY Done, PastLeft
<1>2. w \in WriteType
  BY <1>1 DEF Does
<1>3. ASSUME NEW i \in Blocks PROVE Balanced(i)'
  BY <1>1, <1>2, BitmapCounts, InvalidCounts, LinksCounts, EntryCounts, IndexCounts, WriteIs
<1>4. \A i \in Blocks : (i \in Misplaced \/ NumLinks(disk, i) + NewLinks(i) <= Counts(i))'
  BY <1>3 DEF Balanced
<1> QED
  BY <1>1, <1>4, DirsLeft DEF Counted

\* A write keeps the invariant.
LEMMA WriteShares ==
    ASSUME IInv, SInv, DiskWrite
    PROVE  SInv'
<1>2. Order'
  BY OrderLeft DEF SInv
<1> QED
  BY <1>2, InUseLeft, SharingLeft, RemovedLeft, CountedLeft DEF SInv

-----------------------------------------------------------------------------
(* The other steps: a call that is killed, or begins to write, or does neither. *)

\* Nothing is left to write.
LEMMA NoWrites ==
    ASSUME todo = <<>>
    PROVE  /\ Writes = {} /\ (\A op : Ops(op) = {}) /\ ~ Freeing /\ Bits = {} /\ Order
           /\ \A i : /\ (\E v \in Taken(disk) : IndexOf(disk, v) = i) <=> i \in Wanted
                     /\ NewLinks(i) = 0 /\ ~ Losing(i) /\ ~ Gaining(i) /\ ~ Creating(i)
<1>1. Writes = {} /\ \A op : Ops(op) = {}
  BY DEF Writes, ToSet, Ops
<1>2. Sorted(todo)
  BY DEF Sorted
<1> QED
  BY <1>1, <1>2 DEF Freeing, Bits, Order, Wanted, NewLinks, Losing, Gaining, Creating

\* What the invariant says between two calls.
Resting ==
    Regular =>
      /\ 0 \in disk.bitmap => \A v \in Taken(disk) : IndexOf(disk, v) \in disk.bitmap
      /\ \A u, v \in Taken(disk) : u # v /\ IndexOf(disk, u) = IndexOf(disk, v) => KindOf(disk, u) = File
      /\ OnlyRm => \A i \in Blocks : i \in Misplaced \/ NumLinks(disk, i) <= disk.word[i][LinkWord]

\* With nothing left to write, SInv says that of the disk.
LEMMA Rested ==
    ASSUME IInv, SInv, todo = <<>>
    PROVE  Resting
<1>1. \A i \in Blocks : NewLinks(i) = 0 /\ Counts(i) = disk.word[i][LinkWord]
                        /\ NumLinks(disk, i) \in Nat /\ disk.word[i][LinkWord] \in Nat
  BY NoWrites, CountIs DEF Counts, IInv
<1>2. Regular => (0 \in disk.bitmap => \A v \in Taken(disk) : IndexOf(disk, v) \in disk.bitmap)
  BY NoWrites DEF SInv, InUse, Looping
<1>3. Regular => \A u, v \in Taken(disk) : u # v /\ IndexOf(disk, u) = IndexOf(disk, v) =>
                   KindOf(disk, u) = File
  BY DEF SInv, Sharing
<1>4. Regular /\ OnlyRm => \A i \in Blocks : i \in Misplaced \/ NumLinks(disk, i) <= disk.word[i][LinkWord]
  BY <1>1 DEF SInv, Counted
<1> QED
  BY <1>2, <1>3, <1>4 DEF Resting

\* Steps that write nothing.
LEMMA QuietShares ==
    ASSUME SInv, todo = <<>>, todo' = <<>>, disk' = disk, past' = past
    PROVE  SInv'
<1>1. Writes' = Writes /\ Regular' = Regular /\ OnlyRm' = OnlyRm /\ Misplaced' = Misplaced
  BY PastLeft DEF Writes
<1>2. \A op : Ops(op)' = Ops(op)
  BY <1>1 DEF Ops
<1>3. Freeing' = Freeing /\ Bits' = Bits /\ Wanted' = Wanted
  BY <1>2 DEF Freeing, Bits, Wanted
<1>4. \A i : NewLinks(i)' = NewLinks(i) /\ Counts(i)' = Counts(i)
  BY <1>2 DEF NewLinks, Counts, Creating, Gaining, Losing
<1>6. Order'
  <2>1. Sorted(todo')
    BY DEF Sorted
  <2>2. Writes' = {} /\ Ops("index")' = {} /\ Ops("free")' = {}
    BY <1>1, <1>2, NoWrites
  <2> QED
    BY <2>1, <2>2 DEF Order
<1>7. InUse'
  BY <1>1, <1>2, <1>3 DEF SInv, InUse, Looping
<1>8. Sharing'
  BY <1>1, <1>2 DEF SInv, Sharing
<1>9. Removed'
  BY <1>1, <1>2 DEF SInv, Removed
<1>10. Counted'
  BY <1>1, <1>2, <1>4 DEF SInv, Counted
<1> QED
  BY <1>6, <1>7, <1>8, <1>9, <1>10 DEF SInv

\* A call that is killed: only cr_rm, before it frees a pointer or after the root, and
\* cr_hardlink leave a disk for which anything is claimed.
LEMMA KillShares ==
    ASSUME IInv, SInv, Kill
    PROVE  SInv'
<1>1. /\ todo # <<>> /\ disk' = disk /\ todo' = <<>>
      /\ past' = [past EXCEPT !.killed = @ \union {Top.op}, !.torn = @ \/ Torn]
      /\ Top.op \in {"mkdir", "open", "rm", "hardlink"} /\ Writes \in SUBSET WriteType
  BY TopIs, WritesTyped DEF Kill, IInv, TodoOK
<1>2. /\ (past').killed = past.killed \union {Top.op} /\ (past').full = past.full
      /\ (past').short = past.short /\ (past').under = past.under /\ (past').torn = (past.torn \/ Torn)
  BY <1>1 DEF IInv, PastType
<1>3. Misplaced' = Misplaced
  BY <1>2 DEF Misplaced
<1>4. Regular' => /\ Regular /\ (0 \in disk.bitmap => ~ Looping(todo))
                  /\ (Top.op = "rm" /\ OnlyRm /\ Misplaced = {}) \/ (Top.op = "hardlink" /\ ~ OnlyRm')
  <2> SUFFICES ASSUME Regular'
               PROVE  /\ Regular /\ (0 \in disk.bitmap => ~ Looping(todo))
                      /\ (Top.op = "rm" /\ OnlyRm /\ Misplaced = {}) \/ (Top.op = "hardlink" /\ ~ OnlyRm')
    OBVIOUS
  <2>1. ~ (past').full /\ ~ (past').torn
        /\ ((past').killed \subseteq {"hardlink"} \/ ((past').killed \subseteq {"rm"} /\ Misplaced = {}))
    BY <1>3 DEF Regular
  <2>2. ~ past.torn /\ ~ Torn /\ ~ past.full
    BY <1>2, <2>1
  <2>3. 0 \in disk.bitmap => ~ Looping(todo)
    BY <1>1, <2>2 DEF Torn, Looping, Later, Frees
  <2>4. CASE (past').killed \subseteq {"hardlink"}
    BY <1>2, <2>2, <2>3, <2>4 DEF Regular, OnlyRm
  <2>5. CASE (past').killed \subseteq {"rm"} /\ Misplaced = {}
    BY <1>2, <2>2, <2>3, <2>5 DEF Regular, OnlyRm
  <2> QED
    BY <2>1, <2>4, <2>5
<1>5. Writes' = {} /\ (\A op : Ops(op)' = {}) /\ Order' /\ ~ Freeing'
  <2>1. Writes' = {}
    BY <1>1 DEF Writes, ToSet
  <2>2. \A op : Ops(op)' = {}
    BY <2>1 DEF Ops
  <2>3. Sorted(todo')
    BY <1>1 DEF Sorted
  <2> QED
    BY <1>1, <2>1, <2>2, <2>3 DEF Order, Freeing
<1>6. CASE ~ Regular'
  BY <1>5, <1>6 DEF SInv, InUse, Sharing, Removed, Counted
<1>7. CASE Regular' /\ Top.op = "rm"
  <2>1. OnlyRm /\ Regular /\ Misplaced = {} /\ (0 \in disk.bitmap => ~ Looping(todo))
    BY <1>4, <1>7
  <2>2. \A x \in Writes : x.op \in {"invalid", "free"} \/ Unlinks(x)
    BY <1>1, <1>7 DEF SInv, Order
  <2>4. Ops("entry") = {} /\ Ops("used") = {} /\ Ops("index") = {}
    BY <2>2 DEF Ops, Unlinks
  <2>5. Wanted' \subseteq Wanted
    BY <1>1, <1>5 DEF Wanted
  <2>6. InUse'
    BY <1>1, <1>5, <2>1, <2>4, <2>5 DEF SInv, InUse, Bits
  <2>7. Sharing'
    BY <1>1, <1>5, <2>1 DEF SInv, Sharing
  <2>8. ASSUME NEW i \in Blocks
        PROVE  NumLinks(disk, i) + NewLinks(i)' <= Counts(i)'
    <3>1. disk.word[i][LinkWord] \in Nat /\ NumLinks(disk, i) \in Nat
      BY CountIs DEF IInv
    <3>2. NewLinks(i)' = 0 /\ Counts(i)' = disk.word[i][LinkWord]
      BY <1>1, <1>5, <3>1 DEF NewLinks, Counts, Creating, Gaining, Losing
    <3>3. NewLinks(i) = 0 /\ Counts(i) <= disk.word[i][LinkWord]
      <4>1. ~ Creating(i) /\ NewLinks(i) = 0
        BY <2>4 DEF Creating, NewLinks
      <4>2. ~ Gaining(i)
        BY <2>2 DEF Gaining, Ops, Unlinks
      <4> QED
        BY <3>1, <4>1, <4>2 DEF Counts
    <3>4. NumLinks(disk, i) + NewLinks(i) <= Counts(i)
      BY <2>1 DEF SInv, Counted
    <3>5. Counts(i) \in Int
      BY <3>1 DEF Counts
    <3> QED
      BY <3>1, <3>2, <3>3, <3>4, <3>5
  <2>9. Counted'
    BY <1>1, <1>5, <2>8 DEF Counted
  <2> QED
    BY <1>5, <2>6, <2>7, <2>9 DEF SInv, Removed
<1>8. CASE Regular' /\ Top.op = "hardlink"
  <2>1. ~ OnlyRm' /\ Regular /\ (0 \in disk.bitmap => ~ Looping(todo))
    BY <1>4, <1>8
  <2>2. \A x \in Writes : x.op \in {"entry", "links"}
    BY <1>1, <1>8 DEF SInv, Order
  <2>3. Ops("used") = {} /\ ~ Freeing
    BY <2>2 DEF Ops, Freeing
  <2>4. Wanted' \subseteq Wanted
    BY <1>1, <1>5 DEF Wanted
  <2>5. InUse'
    BY <1>1, <1>5, <2>1, <2>3, <2>4 DEF SInv, InUse, Bits
  <2>6. Sharing'
    BY <1>1, <1>5, <2>1 DEF SInv, Sharing
  <2> QED
    BY <1>5, <2>1, <2>5, <2>6 DEF SInv, Removed, Counted
<1> QED
  BY <1>4, <1>6, <1>7, <1>8

\* The initial disk has one file, which no other entry leads to.
LEMMA InitShares == Init => SInv
<1> SUFFICES ASSUME Init PROVE SInv
  OBVIOUS
<1>1. todo = <<>>
  BY DEF Init
<1>3. PICK f \in Blocks :
          /\ 0 \in Blocks /\ 0 \in Slots /\ disk.kind[0][0] = File /\ IndexAt(disk, 0, 0) = f
          /\ \A b \in Blocks \ {DataBlock}, s \in Slots : ValidAt(disk, b, s) => b = 0 /\ s = 0
          /\ f \in disk.bitmap /\ disk.word[f][LinkWord] = 1
  BY InitDisk
<1> DEFINE v == <<0, 0>>
<1>4. IndexOf(disk, v) = f /\ Taken(disk) \subseteq {v}
  <2>1. IndexOf(disk, v) = f
    BY <1>3 DEF IndexOf
  <2>2. ASSUME NEW u \in Taken(disk) PROVE u = v
    <3>1. u \in Places /\ ValidAt(disk, u[1], u[2])
      BY DEF Taken
    <3>2. u[1] = 0 /\ u[2] = 0 /\ u = <<u[1], u[2]>>
      BY <1>3, <3>1 DEF Places
    <3> QED
      BY <3>2
  <2> QED
    BY <2>1, <2>2
<1>5. ASSUME NEW i \in Blocks
      PROVE  NumLinks(disk, i) + NewLinks(i) <= Counts(i)
  <2>1. NewLinks(i) = 0 /\ Counts(i) = disk.word[i][LinkWord] /\ disk.word[i][LinkWord] \in Nat
    <3>1. disk.word[i][LinkWord] \in Nat
      BY InitDisk, CountIs
    <3> QED
      BY <1>1, <3>1, NoWrites DEF Counts
  <2>2. CASE i = f
    <3>1. FilesAt(disk, f) \subseteq {v}
      BY <1>4 DEF FilesAt
    <3>2. Cardinality({v}) = 1 /\ IsFiniteSet({v})
      BY FS_Singleton
    <3>3. NumLinks(disk, f) <= 1
      BY <3>1, <3>2, FS_Subset DEF NumLinks
    <3> QED
      BY <1>3, <2>1, <2>2, <3>3, TakenFinite
  <2>3. CASE i # f
    <3>1. FilesAt(disk, i) = {}
      BY <1>4, <2>3 DEF FilesAt
    <3> QED
      BY <2>1, <3>1, TakenFinite
  <2> QED
    BY <2>2, <2>3
<1>6. InUse
  <2>1. \A i \in Wanted : i \in disk.bitmap
    BY <1>1, <1>3, <1>4, NoWrites
  <2> QED
    BY <1>1, <2>1, NoWrites DEF InUse
<1>7. Sharing
  BY <1>1, <1>4, NoWrites DEF Sharing
<1>8. Removed
  BY <1>1, NoWrites DEF Removed
<1>9. Counted
  BY <1>1, <1>5, NoWrites DEF Counted
<1>10. Order
  BY <1>1, NoWrites
<1> QED
  BY <1>6, <1>7, <1>8, <1>9, <1>10 DEF SInv

\* Writes that follow others.
LEMMA Joined ==
    ASSUME NEW a \in Seq(WriteType), NEW b \in Seq(WriteType), Sorted(a), Sorted(b),
           \A x \in ToSet(a), y \in ToSet(b) : Rank(x) < Rank(y)
    PROVE  Sorted(a \o b) /\ ToSet(a \o b) = ToSet(a) \union ToSet(b)
<1>1. /\ Len(a) \in Nat /\ Len(b) \in Nat /\ a \o b \in Seq(WriteType) /\ Len(a \o b) = Len(a) + Len(b)
      /\ DOMAIN a = 1..Len(a) /\ DOMAIN b = 1..Len(b) /\ DOMAIN (a \o b) = 1..Len(a \o b)
  OBVIOUS
<1> DEFINE s == a \o b
<1>2. ASSUME NEW i \in 1..Len(s)
      PROVE  \/ i \in 1..Len(a) /\ s[i] = a[i]
             \/ i \notin 1..Len(a) /\ i - Len(a) \in 1..Len(b) /\ s[i] = b[i - Len(a)]
  BY <1>1
<1>3. \A i \in 1..Len(a) : i \in 1..Len(s) /\ s[i] = a[i]
  BY <1>1
<1>4. \A i \in 1..Len(b) : i + Len(a) \in 1..Len(s) /\ s[i + Len(a)] = b[i]
  BY <1>1
<1> HIDE DEF s
<1>5. ToSet(s) = {s[i] : i \in 1..Len(s)} /\ ToSet(a) = {a[i] : i \in 1..Len(a)} /\ ToSet(b) = {b[i] : i \in 1..Len(b)}
  BY <1>1 DEF ToSet, s
<1>6. ToSet(s) = ToSet(a) \union ToSet(b)
  <2>1. \A i \in 1..Len(s) : s[i] \in ToSet(a) \union ToSet(b)
    BY <1>2, <1>5
  <2>2. (\A i \in 1..Len(a) : a[i] \in ToSet(s)) /\ (\A i \in 1..Len(b) : b[i] \in ToSet(s))
    BY <1>3, <1>4, <1>5
  <2> QED
    BY <1>5, <2>1, <2>2
<1>7. ASSUME NEW i \in 1..Len(s), NEW j \in 1..Len(s), i < j
      PROVE  Rank(s[i]) < Rank(s[j])
  <2>1. CASE i \in 1..Len(a) /\ j \in 1..Len(a)
    BY <1>2, <1>7, <2>1 DEF Sorted
  <2>2. CASE i \in 1..Len(a) /\ j \notin 1..Len(a)
    <3>1. s[i] \in ToSet(a) /\ s[j] \in ToSet(b)
      BY <1>2, <1>5, <2>2
    <3> QED
      BY <3>1
  <2>3. CASE i \notin 1..Len(a)
    <3> DEFINE k == i - Len(a)
               m == j - Len(a)
    <3>1. j \notin 1..Len(a) /\ k < m
      BY <1>1, <1>7, <2>3
    <3>2. k \in 1..Len(b) /\ m \in 1..Len(b) /\ s[i] = b[k] /\ s[j] = b[m]
      BY <1>2, <2>3, <3>1
    <3> HIDE DEF k, m
    <3> QED
      BY <3>1, <3>2 DEF Sorted
  <2> QED
    BY <2>1, <2>2, <2>3
<1>8. Sorted(s)
  BY <1>7 DEF Sorted
<1> QED
  BY <1>6, <1>8 DEF s

\* No write, and one.
LEMMA OneWrite ==
    /\ Sorted(<<>>) /\ ToSet(<<>>) = {}
    /\ \A w \in WriteType : Sorted(<<w>>) /\ ToSet(<<w>>) = {w} /\ <<w>> \in Seq(WriteType)
<1>1. Sorted(<<>>) /\ ToSet(<<>>) = {}
  BY DEF Sorted, ToSet
<1>2. ASSUME NEW w \in WriteType
      PROVE  Sorted(<<w>>) /\ ToSet(<<w>>) = {w} /\ <<w>> \in Seq(WriteType)
  <2>1. <<w>> \in Seq(WriteType) /\ Len(<<w>>) = 1 /\ DOMAIN <<w>> = 1..1 /\ <<w>>[1] = w
    OBVIOUS
  <2>2. Sorted(<<w>>)
    BY <2>1 DEF Sorted
  <2>3. ToSet(<<w>>) = {w}
    BY <2>1 DEF ToSet
  <2> QED
    BY <2>1, <2>2, <2>3
<1> QED
  BY <1>1, <1>2

\* A write before others.
LEMMA Preceded ==
    ASSUME NEW w \in WriteType, NEW b \in Seq(WriteType), Sorted(b), \A y \in ToSet(b) : Rank(w) < Rank(y)
    PROVE  <<w>> \o b \in Seq(WriteType) /\ Sorted(<<w>> \o b) /\ ToSet(<<w>> \o b) = {w} \union ToSet(b)
<1> DEFINE one == <<w>>
<1>1. one \in Seq(WriteType) /\ Sorted(one) /\ ToSet(one) = {w}
  BY OneWrite
<1> HIDE DEF one
<1>2. \A x \in ToSet(one), y \in ToSet(b) : Rank(x) < Rank(y)
  BY <1>1
<1>3. Sorted(one \o b) /\ ToSet(one \o b) = ToSet(one) \union ToSet(b)
  BY <1>1, <1>2, Joined
<1>4. one \o b \in Seq(WriteType)
  BY <1>1
<1> QED
  BY <1>1, <1>3, <1>4 DEF one


\* The writes of cr_rm.
Removes(writes) ==
    /\ writes \in Seq(WriteType) /\ Sorted(writes)
    /\ \A w \in ToSet(writes) : w.op = "invalid" \/ (w.op = "free" /\ w.word \in Words) \/ Unlinks(w)
    /\ (\E w \in ToSet(writes) : Unlinks(w)) => \E w \in ToSet(writes) : w.op = "invalid"
    /\ Regular => \A u, w \in ToSet(writes) : u.op = "invalid" /\ Unlinks(w) =>
          <<u.block, u.slot>> \in Taken(disk) /\ IndexOf(disk, <<u.block, u.slot>>) = w.block
    /\ (Regular /\ OnlyRm) => \A w \in ToSet(writes), v \in Taken(disk) :
          Unlinked(w) /\ IndexOf(disk, v) = w.block =>
            \/ w.block \in Misplaced
            \/ \E u \in ToSet(writes) : u.op = "invalid" /\ <<u.block, u.slot>> = v

\* The writes of cr_rm come before the others.
LEMMA RemovesFirst ==
    ASSUME NEW r, Removes(r)
    PROVE  \A w \in ToSet(r) : w \in WriteType /\ Rank(w) <= NWords + 1
                                /\ w.op \notin {"entry", "used", "index"} /\ (w.op = "links" => Unlinks(w))
<1> TAKE w \in ToSet(r)
<1>1. r \in Seq(WriteType) /\ (w.op = "invalid" \/ (w.op = "free" /\ w.word \in Words) \/ Unlinks(w))
  BY DEF Removes
<1>2. w \in WriteType
  BY <1>1 DEF ToSet
<1>3. NWords \in Nat /\ NWords >= 16
  BY Sizes
<1>4. CASE w.op = "invalid"
  BY <1>2, <1>3, <1>4, RankIs
<1>5. CASE w.op = "free" /\ w.word \in Words
  <2>1. Rank(w) = 2 + w.word
    BY <1>2, <1>5, RankIs
  <2> QED
    BY <1>2, <1>3, <1>5, <2>1 DEF Words
<1>6. CASE Unlinks(w)
  BY <1>2, <1>3, <1>6, RankIs DEF Unlinks
<1> QED
  BY <1>1, <1>4, <1>5, <1>6

\* An entry of the disk, as a place.
LEMMA EntryTaken ==
    ASSUME DiskOK(disk), Metadata(disk, <<>>), NEW node, EntryOf(disk, node)
    PROVE  /\ <<node.dir, node.slot>> \in Taken(disk)
           /\ IndexOf(disk, <<node.dir, node.slot>>) = node.index
           /\ KindOf(disk, <<node.dir, node.slot>>) = node.kind
           /\ node.index \in Blocks /\ node.index \notin Kept /\ node.index # DataBlock
<1>1. EntriesOK(disk)
  BY DEF Metadata
<1>2. node.index \in Blocks /\ node.index \notin Kept /\ node.index # DataBlock
  BY <1>1, EntryType DEF NodeType
<1>3. /\ node.dir \in Blocks /\ node.slot \in Slots /\ ValidAt(disk, node.dir, node.slot)
      /\ node.kind = disk.kind[node.dir][node.slot] /\ node.index = IndexAt(disk, node.dir, node.slot)
      /\ node.dir # DataBlock
  BY <1>1 DEF EntryOf, Node
<1> QED
  BY <1>2, <1>3 DEF Taken, KindOf, IndexOf, Places

\* Between two calls, unless one was torn, the metadata is as it should be.
LEMMA RegularIs ==
    ASSUME IInv, todo = <<>>, Regular
    PROVE  Metadata(disk, <<>>)
BY DEF IInv, Regular

\* cr_rm frees the block of an entry only if no other entry leads to it.
LEMMA RmRemoves ==
    ASSUME IInv, SInv, todo = <<>>, NEW node, EntryOf(disk, node)
    PROVE  Removes(RmWrites(node))
<1> DEFINE v0 == <<node.dir, node.slot>>
           i == node.index
           first == SetInvalid(node)
           writes == RmWrites(node)
<1>1. DiskOK(disk) /\ writes \in Seq(WriteType) /\ i \in Blocks
  BY RmPending, EntryType DEF IInv, Pending, NodeType
<1>2. Regular => v0 \in Taken(disk) /\ IndexOf(disk, v0) = i /\ KindOf(disk, v0) = node.kind
  BY <1>1, RegularIs, EntryTaken
<1>3. first.op = "invalid" /\ <<first.block, first.slot>> = v0
  BY DEF SetInvalid
<1>5. CASE Shared(node)
  <2> DEFINE w == AddLinks(i, -1)
  <2>1. writes = <<first, w>>
    <3>1. writes = <<first>> \o <<w>>
      BY <1>5 DEF RmWrites
    <3> HIDE DEF first, w
    <3> QED
      BY <3>1, Concatenated
  <2>2. w.op = "links" /\ w.block = i /\ w.n = -1
    BY DEF AddLinks
  <2> HIDE DEF first, w, writes, v0, i
  <2>3. ToSet(writes) = {first, w} /\ first \in WriteType /\ w \in WriteType
    BY <1>1, <2>1 DEF ToSet
  <2>4. Rank(first) = 1 /\ Rank(w) = 2
    BY <1>3, <2>2, <2>3, RankIs
  <2>5. Sorted(writes)
    BY <2>1, <2>4 DEF Sorted
  <2>6. \A x \in ToSet(writes) : x.op = "invalid" \/ Unlinks(x)
    BY <1>3, <2>2, <2>3 DEF Unlinks
  <2>7. \A u, x \in ToSet(writes) : u.op = "invalid" /\ Unlinks(x) => u = first /\ x = w
    BY <1>3, <2>2, <2>3 DEF Unlinks
  <2>8. \A x \in ToSet(writes) : ~ Unlinked(x)
    BY <1>3, <2>2, <2>3 DEF Unlinked
  <2> QED
    BY <1>1, <1>2, <1>3, <2>2, <2>3, <2>5, <2>6, <2>7, <2>8 DEF Removes, writes
<1>6. CASE ~ Shared(node)
  <2>1. /\ Len(writes) = NWords /\ writes[1] = first /\ writes[2] = FreeBlock(i, 0)
        /\ \A k \in 3..NWords : writes[k] = FreeBlock(disk.word[i][k - 1], k - 1)
    BY <1>1, <1>6, RmForm DEF EntryOf
  <2>2. NWords \in Nat /\ NWords >= 16
    BY Sizes
  <2>3. \A x, k : FreeBlock(x, k).op = "free" /\ FreeBlock(x, k).word = k /\ FreeBlock(x, k).block = x
    BY DEF FreeBlock
  <2>4. ASSUME Regular, OnlyRm, NEW v \in Taken(disk), IndexOf(disk, v) = i, v # v0
        PROVE  i \in Misplaced
    <3>1. Resting
      BY Rested
    <3>2. KindOf(disk, v) = File /\ KindOf(disk, v0) = File
      BY <1>2, <2>4, <3>1 DEF Resting
    <3>3. v \in FilesAt(disk, i) /\ v0 \in FilesAt(disk, i)
      BY <1>2, <2>4, <3>2 DEF FilesAt
    <3>4. NumLinks(disk, i) > 1
      BY <2>4, <3>3, TwoLinks
    <3>5. i \in Misplaced \/ NumLinks(disk, i) <= disk.word[i][LinkWord]
      BY <1>1, <2>4, <3>1 DEF Resting
    <3>6. ~ (disk.word[i][LinkWord] > 1) /\ disk.word[i][LinkWord] \in Nat /\ NumLinks(disk, i) \in Nat
      BY <1>1, <1>6, CountIs DEF Shared
    <3> QED
      BY <3>4, <3>5, <3>6
  <2> HIDE DEF first, writes, v0, i
  <2>5. \A k \in 1..NWords : writes[k] \in WriteType
    BY <1>1, <2>1
  <2>6. \A k \in 2..NWords : writes[k].op = "free" /\ writes[k].word = IF k = 2 THEN 0 ELSE k - 1
    <3> TAKE k \in 2..NWords
    <3>1. CASE k = 2
      BY <2>1, <2>3, <3>1
    <3>2. CASE k # 2
      <4>1. k \in 3..NWords
        BY <2>2, <3>2
      <4> QED
        BY <2>1, <2>3, <3>2, <4>1
    <3> QED
      BY <3>1, <3>2
  <2>7. \A k \in 1..NWords : Rank(writes[k]) = IF k = 1 THEN 1 ELSE IF k = 2 THEN 2 ELSE k + 1
    <3> TAKE k \in 1..NWords
    <3>1. CASE k = 1
      BY <1>3, <2>1, <2>5, <3>1, RankIs
    <3>2. CASE k # 1
      <4>1. k \in 2..NWords
        BY <2>2, <3>2
      <4>2. Rank(writes[k]) = 2 + writes[k].word
        BY <2>5, <2>6, <4>1, RankIs
      <4>3. writes[k].word = IF k = 2 THEN 0 ELSE k - 1
        BY <2>6, <4>1
      <4>4. k \in Int /\ k # 1
        BY <3>2
      <4> QED
        BY <4>2, <4>3, <4>4
    <3> QED
      BY <3>1, <3>2
  <2>8. Sorted(writes)
    BY <2>1, <2>2, <2>7 DEF Sorted
  <2>9. \A x \in ToSet(writes) : x = first \/ \E k \in 2..NWords : x = writes[k]
    <3> TAKE x \in ToSet(writes)
    <3>1. PICK k \in 1..NWords : x = writes[k]
      BY <2>1 DEF ToSet
    <3>2. k = 1 \/ k \in 2..NWords
      BY <2>2
    <3> QED
      BY <2>1, <3>1, <3>2
  <2>10. \A x \in ToSet(writes) : x.op = "invalid" \/ (x.op = "free" /\ x.word \in Words)
    <3>1. \A k \in 2..NWords : writes[k].word \in Words
      BY <2>2, <2>6 DEF Words
    <3> QED
      BY <1>3, <2>6, <2>9, <3>1
  <2>11. \A x \in ToSet(writes) : Unlinked(x) => x.block = i
    <3> SUFFICES ASSUME NEW x \in ToSet(writes), x.op = "free", x.word = 0 PROVE x.block = i
      BY DEF Unlinked
    <3>1. PICK k \in 2..NWords : x = writes[k]
      BY <1>3, <2>9
    <3>2. k = 2
      BY <2>2, <2>6, <3>1
    <3> QED
      BY <2>1, <2>3, <3>1, <3>2
  <2>12. first \in ToSet(writes)
    BY <2>1, <2>2 DEF ToSet
  <2>13. \A x \in ToSet(writes) : ~ Unlinks(x)
    BY <2>10 DEF Unlinks
  <2> QED
    BY <1>1, <1>3, <2>4, <2>8, <2>10, <2>11, <2>12, <2>13 DEF Removes, writes
<1> QED
  BY <1>5, <1>6

\* Nothing removes nothing.
LEMMA NoneRemoves == Removes(<<>>)
BY OneWrite DEF Removes

\* A call begins: less is claimed of the disk from now on, or the same.
Grown == (Regular' => Regular) /\ OnlyRm' = OnlyRm /\ Misplaced \subseteq Misplaced'

\* What is claimed depends on the history of kills, full disks and misplaced blocks only.
LEMMA PastGrows ==
    ASSUME (past').killed = past.killed, (past').torn = past.torn, past.full => (past').full,
           past.short \subseteq (past').short, past.under \subseteq (past').under
    PROVE  Grown
<1>1. Misplaced \subseteq Misplaced' /\ OnlyRm' = OnlyRm
  BY DEF Misplaced, OnlyRm
<1>2. Misplaced' = {} => Misplaced = {}
  BY <1>1
<1>3. Regular' => Regular
  BY <1>2 DEF Regular
<1> QED
  BY <1>1, <1>3 DEF Grown

\* What a call that removes r and then adds something must say of what it adds.
Adds(r, A) ==
    /\ Regular' => \A e \in A : e.op = "entry" =>
          /\ (\E b \in A : b.op = "used" /\ b.block = e.index) \/ (e.index \in Wanted /\ r = <<>>)
          /\ \A v \in Taken(disk) : IndexOf(disk, v) = e.index => KindOf(disk, v) = File /\ e.kind = File
          /\ OnlyRm => e.dir \in Misplaced' \/
                ((\A v \in Taken(disk) : KindOf(disk, v) = File => IndexOf(disk, v) # e.dir)
                   /\ (e.kind = File => e.index # e.dir))
    /\ (Regular' /\ OnlyRm) => \A i \in Blocks : i \in Misplaced' \/ NumLinks(disk, i) + NewLinks(i)' <= Counts(i)'

\* The writes that may be added.
Additions(A) ==
    /\ A \in SUBSET WriteType
    /\ \A a \in A : Rank(a) >= NWords + 2 /\ a.op \in {"entry", "used", "index", "links"} /\ ~ Unlinks(a)

\* A call begins to write: what it removes is as RmRemoves says, and what it adds as Adds says.
LEMMA Begins ==
    ASSUME IInv, SInv, todo = <<>>, disk' = disk, Order', Grown, NEW r, Removes(r),
           NEW A, Additions(A), Writes' = ToSet(r) \union A, Adds(r, A)
    PROVE  SInv'
<1>1. Resting
  BY Rested
<1>2. (Regular' => Regular) /\ OnlyRm' = OnlyRm /\ Misplaced \subseteq Misplaced'
  BY DEF Grown
<1>3. \A w \in ToSet(r) : w \in WriteType /\ w.op \notin {"entry", "used", "index"} /\ (w.op = "links" => Unlinks(w))
  BY RemovesFirst
<1>4. /\ \A op \in {"entry", "used", "index"} : Ops(op)' = {a \in A : a.op = op}
      /\ \A op \in {"invalid", "free"} : Ops(op)' = {w \in ToSet(r) : w.op = op}
  <2>2. \A a \in A : a.op \notin {"invalid", "free"}
    BY DEF Additions
  <2> QED
    BY <1>3, <2>2 DEF Ops
<1>5. ASSUME Regular'
      PROVE  /\ 0 \in disk.bitmap => \A i \in Wanted' : i \in disk.bitmap \/ i \in Bits'
             /\ Freeing' => \A w \in Ops("entry")' : w.index \in Bits'
  <2>1. \A v \in Taken(disk) : 0 \in disk.bitmap => IndexOf(disk, v) \in disk.bitmap
    BY <1>1, <1>2, <1>5 DEF Resting
  <2>2. \A i \in Wanted : \E v \in Taken(disk) : IndexOf(disk, v) = i
    BY NoWrites
  <2>3. \A e \in Ops("entry")' : e.index \in Bits' \/ (e.index \in Wanted /\ r = <<>>)
    BY <1>4, <1>5 DEF Adds, Bits
  <2>4. \A i \in Wanted' : i \in Bits' \/ \E v \in Taken(disk) : IndexOf(disk, v) = i
    BY <2>2, <2>3 DEF Wanted
  <2>5. Freeing' => r # <<>>
    BY <1>4, OneWrite DEF Freeing
  <2> QED
    BY <2>1, <2>3, <2>4, <2>5
<1>6. InUse'
  BY <1>5 DEF InUse
<1>7. Sharing'
  <2> SUFFICES ASSUME Regular' PROVE Sharing'
    BY DEF Sharing
  <2>1. \A u, v \in Taken(disk) : u # v /\ IndexOf(disk, u) = IndexOf(disk, v) => KindOf(disk, u) = File
    BY <1>1, <1>2 DEF Resting
  <2>2. \A w \in Ops("entry")', v \in Taken(disk) : IndexOf(disk, v) = w.index => KindOf(disk, v) = File /\ w.kind = File
    BY <1>4 DEF Adds
  <2> QED
    BY <2>1, <2>2 DEF Sharing
<1>8. Removed'
  <2> SUFFICES ASSUME Regular', OnlyRm' PROVE Removed'
    BY DEF Removed
  <2>1. Regular /\ OnlyRm
    BY <1>2
  <2>2. \A w \in Writes' : Unlinked(w) \/ Unlinks(w) => w \in ToSet(r)
    BY DEF Additions, Unlinked
  <2>3. \A w \in Writes', v \in Taken(disk) : Unlinked(w) /\ IndexOf(disk, v) = w.block =>
            w.block \in Misplaced' \/ (\E u \in Ops("invalid")' : <<u.block, u.slot>> = v)
    BY <1>2, <1>4, <2>1, <2>2 DEF Removes
  <2>4. \A u \in Ops("invalid")', w \in Writes' : Unlinks(w) =>
            <<u.block, u.slot>> \in Taken(disk) /\ IndexOf(disk, <<u.block, u.slot>>) = w.block
    BY <1>4, <2>1, <2>2 DEF Removes
  <2> QED
    BY <2>3, <2>4 DEF Removed
<1>9. Counted'
  <2> SUFFICES ASSUME Regular', OnlyRm' PROVE Counted'
    BY DEF Counted
  <2>1. \A w \in Ops("entry")' : w.dir \in Misplaced' \/
            ((\A v \in Taken(disk) : KindOf(disk, v) = File => IndexOf(disk, v) # w.dir)
               /\ (w.kind = File => w.index # w.dir))
    BY <1>2, <1>4 DEF Adds
  <2>2. \A i \in Blocks : i \in Misplaced' \/ NumLinks(disk, i) + NewLinks(i)' <= Counts(i)'
    BY <1>2 DEF Adds
  <2> QED
    BY <2>1, <2>2 DEF Counted
<1> QED
  BY <1>6, <1>7, <1>8, <1>9 DEF SInv

\* No link is taken before the entry is invalid.
LEMMA NoneLosing ==
    ASSUME NEW r, Removes(r), NEW A, Additions(A), Writes' = ToSet(r) \union A, NEW i
    PROVE  ~ Losing(i)'
<1> SUFFICES ASSUME NEW w \in ToSet(r), Unlinks(w) PROVE Ops("invalid")' # {}
  BY DEF Losing, Ops, Additions, Unlinks
<1>2. PICK u \in ToSet(r) : u.op = "invalid"
  BY DEF Removes
<1> QED
  BY <1>2 DEF Ops

\* The order of the writes of a call that only removes.
LEMMA RemovesInOrder ==
    ASSUME NEW r, Removes(r), todo' = r, (todo' # <<>>) => (Top').op \in {"rm", "open"}
    PROVE  Order' /\ Writes' = ToSet(r)
<1>1. Writes' = ToSet(r) /\ Sorted(r)
  BY DEF Removes, Writes
<1>2. \A w \in ToSet(r) : w.op = "invalid" \/ (w.op = "free" /\ w.word \in Words) \/ Unlinks(w)
  BY DEF Removes
<1>3. Ops("index")' = {} /\ \A w \in Ops("free")' : w.word \in Words
  BY <1>1, <1>2 DEF Ops, Unlinks
<1>4. \A w \in Writes' : w.op # "entry" /\ w.op # "index"
  BY <1>1, <1>2 DEF Unlinks
<1>5. Sorted(todo')
  BY <1>1
<1>6. (todo' # <<>>) => (Top').op # "hardlink"
  OBVIOUS
<1> QED
  BY <1>1, <1>2, <1>3, <1>4, <1>5, <1>6 DEF Order

\* cr_rm, and cr_open when no block is left.
LEMMA RemovesShares ==
    ASSUME IInv, SInv, todo = <<>>, disk' = disk, NEW r, Removes(r), todo' = r,
           (todo' # <<>>) => (Top').op \in {"rm", "open"}, Grown
    PROVE  SInv'
<1>1. Order' /\ Writes' = ToSet(r)
  BY RemovesInOrder
<1> DEFINE A == {}
<1>2. Writes' = ToSet(r) \union A /\ Additions(A)
  BY <1>1 DEF Additions
<1> HIDE DEF A
<1>3. ASSUME Regular', OnlyRm, NEW i \in Blocks
      PROVE  i \in Misplaced' \/ NumLinks(disk, i) + NewLinks(i)' <= Counts(i)'
  <2>1. \A w \in ToSet(r) : w.op \notin {"entry", "index"} /\ (w.op = "links" => Unlinks(w))
    BY RemovesFirst
  <2>2. NewLinks(i)' = 0 /\ ~ Creating(i)' /\ ~ Gaining(i)'
    BY <1>1, <2>1 DEF NewLinks, Creating, Gaining, Ops, Unlinks
  <2>3. ~ Losing(i)'
    BY <1>2, NoneLosing
  <2>4. disk.word[i][LinkWord] \in Nat /\ NumLinks(disk, i) \in Nat
    BY CountIs DEF IInv
  <2>5. Counts(i)' = disk.word[i][LinkWord]
    BY <2>2, <2>3, <2>4 DEF Counts
  <2>6. i \in Misplaced' \/ NumLinks(disk, i) <= disk.word[i][LinkWord]
    BY <1>3, Rested DEF Resting, Grown
  <2> QED
    BY <2>2, <2>4, <2>5, <2>6
<1>4. Adds(r, A)
  BY <1>3 DEF Adds, A
<1> QED
  BY <1>1, <1>2, <1>4, Begins

\* The call that begins to write is the one that was running.
LEMMA WritesTop ==
    ASSUME IInv, stack # <<>>, NEW writes, NEW ret, Write(writes, ret)
    PROVE  todo' = writes /\ disk' = disk /\ (Top').op = Top.op
<1>1. stack \in Seq(FrameType) /\ Top \in FrameType /\ Top = stack[1]
  BY TopIs DEF IInv
<1>2. todo' = writes /\ disk' = disk /\ stack' = [stack EXCEPT ![1].ret = ret]
  BY DEF Write
<1>3. Head(stack') = [Top EXCEPT !.ret = ret]
  BY <1>1, <1>2
<1>4. ASSUME NEW frame \in FrameType PROVE [frame EXCEPT !.ret = ret].op = frame.op
  <2> DEFINE ops == {"mkdir", "open", "rm", "hardlink"}
             paths == Seq(Names) \ {<<>>}
             origs == Seq(Names)
             rets == {0, -1}
             nodes == NodeType
             B == BOOLEAN
             Kinds == [op : ops, path : paths, orig : origs, loaded : B, again : B, ret : rets,
                       here : nodes, parent : nodes, origin : nodes]
  <2>1. frame \in Kinds
    BY <1>4 DEF FrameType, Frames
  <2> HIDE DEF ops, paths, origs, rets, nodes, B
  <2> QED
    BY <2>1
<1>5. (Top').op = Top.op
  BY <1>1, <1>3, <1>4 DEF Top
<1> QED
  BY <1>2, <1>5

\* cr_rm.
LEMMA RmShares ==
    ASSUME IInv, SInv, Rm
    PROVE  SInv'
<1>1. Running("rm") /\ Exists(Here) /\ Write(RmWrites(Here), 0)
      /\ past' = [past EXCEPT !.dirs = @ \/ Here.kind = Dir]
  BY DEF Rm
<1>2. stack # <<>> /\ todo = <<>> /\ EntryOf(disk, Here) /\ Top.op = "rm"
  BY <1>1, RunningIs DEF Running
<1>3. todo' = RmWrites(Here) /\ disk' = disk /\ (Top').op = "rm" /\ Removes(RmWrites(Here))
  BY <1>1, <1>2, WritesTop, RmRemoves
<1> DEFINE dirs == past.dirs \/ Here.kind = Dir
<1>5. past' = [past EXCEPT !.dirs = dirs]
  BY <1>1
<1> HIDE DEF dirs
<1>6. /\ (past').killed = past.killed /\ (past').full = past.full /\ (past').torn = past.torn
      /\ (past').short = past.short /\ (past').under = past.under
  BY <1>5 DEF IInv, PastType
<1>7. Grown
  BY <1>6, PastGrows
<1> QED
  BY <1>2, <1>3, <1>7, RemovesShares

\* The writes of cr_open for the old file.
LEMMA RemovalRemoves ==
    ASSUME IInv, SInv, NEW op, Running(op)
    PROVE  Removes(Removal)
<1>1. todo = <<>> /\ (Exists(Here) => EntryOf(disk, Here))
  BY RunningIs
<1>2. CASE Exists(Here)
  BY <1>1, <1>2, RmRemoves DEF Removal
<1>3. CASE ~ Exists(Here)
  BY <1>3, NoneRemoves DEF Removal
<1> QED
  BY <1>2, <1>3

\* cr_open when no block is given away: the old file is removed all the same.
LEMMA OpenNoBlockShares ==
    ASSUME IInv, SInv, OpenNoBlock
    PROVE  SInv'
<1>1. Running("open")
  BY DEF OpenNoBlock, CanOpen
<1>2. stack # <<>> /\ todo = <<>> /\ Top.op = "open" /\ Removes(Removal)
  BY <1>1, RunningIs, RemovalRemoves DEF Running
<1>3. CASE Write(Removal, -1) /\ UNCHANGED past
  <2>1. todo' = Removal /\ disk' = disk /\ (Top').op = "open"
    BY <1>2, <1>3, WritesTop
  <2>2. Grown
    BY <1>3, PastGrows
  <2> QED
    BY <1>2, <2>1, <2>2, RemovesShares
<1>4. CASE Return(-1)
  BY <1>2, <1>4, QuietShares DEF Return
<1> QED
  BY <1>3, <1>4 DEF OpenNoBlock

\* The order of the writes of a call that removes and then adds.
LEMMA AddsInOrder ==
    ASSUME NEW r, Removes(r), NEW a \in Seq(WriteType), Sorted(a), Additions(ToSet(a)),
           todo' = r \o a, (Top').op # "rm",
           (Top').op = "hardlink" => r = <<>> /\ \A x \in ToSet(a) : x.op \in {"entry", "links"},
           \A x \in ToSet(a) : x.op = "index" /\ x.slot # 0 =>
               x.block \in (past').short /\ x.block + 1 \in (past').short,
           Regular' => \A x \in ToSet(a) : (x.op = "entry" => x.dir # DataBlock) /\ (x.op = "index" => x.block \in Blocks)
    PROVE  Order' /\ Writes' = ToSet(r) \union ToSet(a)
<1>1. r \in Seq(WriteType) /\ Sorted(r)
  BY DEF Removes
<1>2. /\ \A w \in ToSet(r) : w \in WriteType /\ Rank(w) <= NWords + 1 /\ w.op \notin {"entry", "used", "index"}
      /\ \A w \in ToSet(r) : w.op = "free" => w.word \in Words
  BY RemovesFirst DEF Removes, Unlinks
<1>3. \A w \in ToSet(r), x \in ToSet(a) : Rank(w) < Rank(x)
  <2> TAKE w \in ToSet(r), x \in ToSet(a)
  <2>1. x \in WriteType /\ Rank(x) >= NWords + 2
    BY DEF Additions
  <2>2. Rank(x) \in Nat /\ Rank(w) \in Nat /\ NWords \in Nat /\ Rank(w) <= NWords + 1
    BY <1>2, <2>1, RankIs, Sizes
  <2> QED
    BY <2>1, <2>2
<1>4. Sorted(r \o a) /\ ToSet(r \o a) = ToSet(r) \union ToSet(a)
  BY <1>1, <1>3, Joined
<1>5. Sorted(todo') /\ Writes' = ToSet(r) \union ToSet(a)
  BY <1>4 DEF Writes
<1>6. Ops("index")' = {x \in ToSet(a) : x.op = "index"} /\ \A w \in Ops("free")' : w.word \in Words
  BY <1>2, <1>5 DEF Ops, Additions
<1>7. (Top').op = "hardlink" => \A w \in Writes' : w.op \in {"entry", "links"}
  BY <1>5, OneWrite
<1>8. Regular' => \A w \in Writes' : (w.op = "entry" => w.dir # DataBlock) /\ (w.op = "index" => w.block \in Blocks)
  BY <1>2, <1>5
<1> QED
  BY <1>5, <1>6, <1>7, <1>8 DEF Order

\* The block that is given away: no entry leads to it.
LEMMA BlockFresh ==
    ASSUME IInv, SInv, todo = <<>>, Regular, ~ NoneFree(next_free_block(disk.bitmap)), next_free_block(disk.bitmap) # Full
    PROVE  LET index == next_free_block(disk.bitmap)
           IN  /\ index \in Blocks /\ index # 0 /\ Stored(index) = index
               /\ \A v \in Taken(disk) : IndexOf(disk, v) # index
<1> DEFINE index == next_free_block(disk.bitmap)
<1>1. DiskOK(disk) /\ Resting
  BY Rested DEF IInv
<1>2. index \in Blocks \ {0} /\ index \notin disk.bitmap /\ Stored(index) = index /\ 0 \in disk.bitmap
  BY <1>1, BlockGiven
<1> HIDE DEF index
<1>3. \A v \in Taken(disk) : IndexOf(disk, v) # index
  BY <1>1, <1>2 DEF Resting
<1> QED
  BY <1>2, <1>3 DEF index

\* No entry leads to the root.
LEMMA NoneToRoot ==
    ASSUME NEW d, Metadata(d, <<>>), NEW v \in Taken(d)
    PROVE  IndexOf(d, v) # 0
<1>1. v[1] \in Blocks \ {DataBlock} /\ v[2] \in Slots /\ ValidAt(d, v[1], v[2])
  BY DEF Taken, Places
<1>2. IndexAt(d, v[1], v[2]) \notin Kept
  BY <1>1 DEF Metadata, EntriesOK
<1> QED
  BY <1>2 DEF IndexOf, Kept, Reserved

\* No file leads to the block of a directory.
LEMMA ParentIs ==
    ASSUME IInv, SInv, NEW op, Running(op), Exists(Parent), Regular
    PROVE  /\ Parent.index \in Blocks /\ Parent.index # DataBlock /\ Parent.kind \in {Dir, File}
           /\ Parent.index = 0 \/ \E v \in Taken(disk) : IndexOf(disk, v) = Parent.index
           /\ Parent.kind = Dir => \A v \in Taken(disk) : KindOf(disk, v) = File => IndexOf(disk, v) # Parent.index
<1>1. /\ todo = <<>> /\ DiskOK(disk) /\ Parent.index \in Blocks /\ (Parent = Root \/ EntryOf(disk, Parent))
  <2>1. stack # <<>> /\ Top.loaded /\ todo = <<>> /\ DiskOK(disk) /\ Parent.index \in Blocks
    BY RunningIs
  <2> QED
    BY <2>1, FoundIs DEF Exists
<1>2. Resting /\ Metadata(disk, <<>>)
  BY <1>1, Rested, RegularIs
<1>3. CASE Parent = Root
  <2>1. Parent.index = 0 /\ Parent.kind = Dir
    BY <1>3 DEF Root, Node
  <2>2. \A v \in Taken(disk) : IndexOf(disk, v) # 0
    BY <1>2, NoneToRoot
  <2> QED
    BY <1>1, <2>1, <2>2 DEF DataBlock
<1>4. CASE EntryOf(disk, Parent)
  <2> DEFINE p == <<Parent.dir, Parent.slot>>
  <2>1. p \in Taken(disk) /\ IndexOf(disk, p) = Parent.index /\ KindOf(disk, p) = Parent.kind /\ Parent.index # DataBlock
    BY <1>1, <1>2, <1>4, EntryTaken
  <2> HIDE DEF p
  <2>2. Dir # File
    BY DEF Dir, File
  <2>3. Parent.kind \in {Dir, File}
    BY <1>1, <1>4, EntryType DEF Valid
  <2>4. Parent.kind = Dir => \A v \in Taken(disk) : KindOf(disk, v) = File => IndexOf(disk, v) # Parent.index
    BY <1>2, <2>1, <2>2 DEF Resting
  <2> QED
    BY <1>1, <2>1, <2>3, <2>4
<1> QED
  BY <1>1, <1>3, <1>4

\* What is written for a block that was found.
LEMMA IfStoredIs ==
    ASSUME NEW index, NEW w, index # Full => w \in WriteType
    PROVE  /\ IfStored(index, w) \in Seq(WriteType) /\ Sorted(IfStored(index, w))
           /\ ToSet(IfStored(index, w)) = IF index = Full THEN {} ELSE {w}
<1>1. CASE index = Full
  BY <1>1, OneWrite DEF IfStored
<1>2. CASE index # Full
  BY <1>2, OneWrite DEF IfStored
<1> QED
  BY <1>1, <1>2

\* cr_mkdir adds an entry for a block that is free.
LEMMA MkdirShares ==
    ASSUME IInv, SInv, Mkdir
    PROVE  SInv'
<1> DEFINE index == next_free_block(disk.bitmap)
           entry == AddEntry(Parent.index, Dir, Name, Stored(index))
           used == SetBit(index)
           bit == IfStored(index, used)
           a == <<entry>> \o bit
<1>1. /\ Running("mkdir") /\ ~ Exists(Here) /\ Parent.kind = Dir /\ ~ NoneFree(index)
      /\ Write(a, 0) /\ past' = [past EXCEPT !.full = @ \/ index = Full]
  BY DEF Mkdir, Filled
<1>2. stack # <<>> /\ todo = <<>> /\ DiskOK(disk) /\ Top.op = "mkdir" /\ Parent.index \in Blocks /\ Name \in Names
  BY <1>1, RunningIs DEF Running
<1>3. Stored(index) \in Blocks /\ (index # Full => index \in Blocks \ {0})
  BY <1>1, <1>2, BlockGiven
<1>4. Exists(Parent)
  BY <1>1 DEF Exists, NoNode, Node, Dir
<1>5. /\ index # Full /\ Regular => /\ Stored(index) = index
                                  /\ \A v \in Taken(disk) : IndexOf(disk, v) # index
  BY <1>1, <1>2, BlockFresh
<1> HIDE DEF index
<1>6. entry \in WriteType
  <2>1. Dir \in Valid
    BY DEF Valid
  <2> QED
    BY <1>2, <1>3, <2>1, WriteTyped
<1>7. index # Full => used \in WriteType
  BY <1>3, WriteTyped
<1>8. /\ entry.op = "entry" /\ entry.dir = Parent.index /\ entry.kind = Dir /\ entry.index = Stored(index)
      /\ used.op = "used" /\ used.block = index
  BY DEF AddEntry, SetBit
<1> HIDE DEF entry, used
<1>9. bit \in Seq(WriteType) /\ Sorted(bit) /\ ToSet(bit) = IF index = Full THEN {} ELSE {used}
  BY <1>7, IfStoredIs
<1> HIDE DEF bit
<1>10. Rank(entry) = NWords + 2 /\ (index # Full => Rank(used) = NWords + 4) /\ NWords \in Nat
  BY <1>6, <1>7, <1>8, RankIs, Sizes
<1>11. a \in Seq(WriteType) /\ Sorted(a) /\ ToSet(a) = {entry} \union ToSet(bit)
  BY <1>6, <1>9, <1>10, Preceded
<1>12. todo' = a /\ disk' = disk /\ (Top').op = "mkdir"
  BY <1>1, <1>2, WritesTop
<1> HIDE DEF a
<1>13. todo' = <<>> \o a
  BY <1>11, <1>12, ConcatEmptySeq
<1> DEFINE A == ToSet(a)
           none == <<>>
<1>14. Additions(A) /\ (\A x \in A : x = entry \/ (x = used /\ index # Full))
  <2>1. \A x \in A : x = entry \/ (x = used /\ index # Full)
    BY <1>9, <1>11
  <2>2. \A x \in A : x \in WriteType /\ Rank(x) >= NWords + 2 /\ x.op \in {"entry", "used"}
    BY <1>6, <1>7, <1>8, <1>10, <2>1
  <2> HIDE DEF A
  <2> QED
    BY <2>1, <2>2 DEF Additions, Unlinks
<1>15. Removes(none)
  BY NoneRemoves
<1> DEFINE full == past.full \/ index = Full
<1>17. /\ (past').killed = past.killed /\ (past').full = full /\ (past').torn = past.torn
       /\ (past').short = past.short /\ (past').under = past.under
  <2>1. past' = [past EXCEPT !.full = full]
    BY <1>1
  <2> HIDE DEF full
  <2> QED
    BY <2>1 DEF IInv, PastType
<1>18. Grown
  BY <1>17, PastGrows
<1>19. Regular' => Regular /\ index # Full /\ Misplaced \subseteq Misplaced'
  BY <1>17, <1>18 DEF Grown, Regular
<1>20. Regular' => /\ Parent.index # DataBlock
                   /\ \A v \in Taken(disk) : KindOf(disk, v) = File => IndexOf(disk, v) # Parent.index
  BY <1>1, <1>4, <1>19, ParentIs
<1>16. Order' /\ Writes' = ToSet(none) \union A
  BY <1>8, <1>11, <1>12, <1>13, <1>14, <1>15, <1>20, AddsInOrder
<1>21. Adds(none, A)
  <2>1. ASSUME Regular', NEW e \in A, e.op = "entry"
        PROVE  /\ (\E b \in A : b.op = "used" /\ b.block = e.index)
               /\ \A v \in Taken(disk) : IndexOf(disk, v) = e.index => KindOf(disk, v) = File /\ e.kind = File
               /\ e.dir \in Misplaced' \/
                     ((\A v \in Taken(disk) : KindOf(disk, v) = File => IndexOf(disk, v) # e.dir)
                        /\ (e.kind = File => e.index # e.dir))
    <3>1. e = entry /\ used \in A /\ e.index = index /\ e.kind # File
      BY <1>5, <1>8, <1>9, <1>11, <1>14, <1>19, <2>1 DEF Dir, File
    <3>2. \A v \in Taken(disk) : IndexOf(disk, v) # index
      BY <1>5, <1>19, <2>1
    <3> QED
      BY <1>8, <1>20, <2>1, <3>1, <3>2
  <2>2. ASSUME Regular', OnlyRm, NEW i \in Blocks
        PROVE  i \in Misplaced' \/ NumLinks(disk, i) + NewLinks(i)' <= Counts(i)'
    <3>1. \A w \in Writes' : w = entry \/ w = used
      BY <1>14, <1>16, OneWrite
    <3>2. NewLinks(i)' = 0 /\ ~ Creating(i)' /\ ~ Gaining(i)' /\ ~ Losing(i)'
      BY <1>8, <3>1 DEF NewLinks, Creating, Gaining, Losing, Ops, Dir, File
    <3>3. disk.word[i][LinkWord] \in Nat /\ NumLinks(disk, i) \in Nat
      BY <1>2, CountIs
    <3>4. Counts(i)' = disk.word[i][LinkWord]
      BY <1>12, <3>2, <3>3 DEF Counts
    <3>5. i \in Misplaced' \/ NumLinks(disk, i) <= disk.word[i][LinkWord]
      BY <1>2, <1>19, <2>2, Rested DEF Resting
    <3> QED
      BY <2>2, <3>2, <3>3, <3>4, <3>5
  <2> QED
    BY <2>1, <2>2 DEF Adds
<1> HIDE DEF A, none
<1> QED
  BY <1>2, <1>12, <1>14, <1>15, <1>16, <1>18, <1>21, Begins

\* Concatenation in the order of the code.
LEMMA Associated ==
    ASSUME NEW s \in Seq(WriteType), NEW t \in Seq(WriteType), NEW u \in Seq(WriteType)
    PROVE  s \o t \in Seq(WriteType) /\ (s \o t) \o u = s \o (t \o u)
<1> DEFINE S == WriteType
<1>1. s \in Seq(S) /\ t \in Seq(S) /\ u \in Seq(S)
  OBVIOUS
<1> HIDE DEF S
<1>2. s \o t \in Seq(S) /\ (s \o t) \o u = s \o (t \o u)
  BY <1>1, ConcatAssociative
<1> QED
  BY <1>2 DEF S

\* cr_open removes the old file and adds an entry for a block that was free before.
LEMMA OpenShares ==
    ASSUME IInv, SInv, Open
    PROVE  SInv'
<1> DEFINE index == next_free_block(disk.bitmap)
           entry == AddEntry(Parent.index, File, Name, Stored(index))
           new == AddIndex(index, OpenSlot)
           used == SetBit(index)
           block == <<new>>
           bit == IfStored(index, used)
           a == <<entry>> \o (block \o bit)
<1>1. /\ CanOpen /\ Exists(Parent) /\ ~ NoneFree(index) /\ Write(Removal \o <<entry>> \o block \o bit, 0)
      /\ past' = [past EXCEPT !.full = @ \/ index = Full,
                              !.under = @ \union IF Parent.kind = File THEN {Parent.index} ELSE {},
                              !.short = @ \union IF OpenSlot = 0 THEN {} ELSE {index, index + 1}]
  BY DEF Open
<1>2. Running("open")
  BY <1>1 DEF CanOpen
<1>3. /\ stack # <<>> /\ todo = <<>> /\ DiskOK(disk) /\ Top.op = "open" /\ Parent.index \in Blocks /\ Name \in Names
      /\ OpenSlot \in Slots /\ Removes(Removal)
  BY <1>2, RunningIs, OpenSlotIs, RemovalRemoves DEF Running
<1>4. /\ Stored(index) \in Blocks /\ index \in Blocks \union {Full}
      /\ index # Full => index \in Blocks \ {0}
  BY <1>1, <1>3, BlockGiven
<1>5. /\ index # Full /\ Regular => /\ Stored(index) = index
                                    /\ \A v \in Taken(disk) : IndexOf(disk, v) # index
  BY <1>1, <1>3, BlockFresh
<1> HIDE DEF index
<1>6. entry \in WriteType
  <2>1. File \in Valid
    BY DEF Valid
  <2> QED
    BY <1>3, <1>4, <2>1, WriteTyped
<1>7. (index # Full => used \in WriteType) /\ new \in WriteType
  BY <1>3, <1>4, WriteTyped
<1>8. /\ entry.op = "entry" /\ entry.dir = Parent.index /\ entry.kind = File /\ entry.index = Stored(index)
      /\ used.op = "used" /\ used.block = index
      /\ new.op = "index" /\ new.block = index /\ new.slot = OpenSlot
  BY DEF AddEntry, SetBit, AddIndex
<1> HIDE DEF entry, used, new
<1>9. /\ bit \in Seq(WriteType) /\ Sorted(bit) /\ ToSet(bit) = IF index = Full THEN {} ELSE {used}
      /\ block \in Seq(WriteType) /\ Sorted(block) /\ ToSet(block) = {new}
  BY <1>7, IfStoredIs, OneWrite
<1> HIDE DEF bit, block
<1>10. /\ Rank(entry) = NWords + 2 /\ (index # Full => Rank(used) = NWords + 4)
       /\ Rank(new) = NWords + 3 /\ NWords \in Nat
  BY <1>6, <1>7, <1>8, RankIs, Sizes
<1>11. a \in Seq(WriteType) /\ Sorted(a) /\ ToSet(a) = {entry, new} \union ToSet(bit)
  <2>1. \A x \in ToSet(block), y \in ToSet(bit) : Rank(x) < Rank(y)
    BY <1>9, <1>10
  <2>2. Sorted(block \o bit) /\ ToSet(block \o bit) = ToSet(block) \union ToSet(bit)
    BY <1>9, <2>1, Joined
  <2>3. block \o bit \in Seq(WriteType)
    BY <1>9
  <2>4. \A y \in ToSet(block \o bit) : Rank(entry) < Rank(y)
    BY <1>9, <1>10, <2>2
  <2>5. a \in Seq(WriteType) /\ Sorted(a) /\ ToSet(a) = {entry} \union ToSet(block \o bit)
    BY <1>6, <2>2, <2>3, <2>4, Preceded
  <2> QED
    BY <1>9, <2>2, <2>5
<1>12. todo' = Removal \o a /\ disk' = disk /\ (Top').op = "open"
  <2>1. todo' = ((Removal \o <<entry>>) \o block) \o bit /\ disk' = disk /\ (Top').op = "open"
    BY <1>1, <1>3, WritesTop
  <2> DEFINE r == Removal
             one == <<entry>>
  <2>2. r \in Seq(WriteType) /\ one \in Seq(WriteType)
    BY <1>3, <1>6 DEF Removes
  <2> HIDE DEF r, one
  <2>3. r \o one \in Seq(WriteType) /\ block \in Seq(WriteType) /\ bit \in Seq(WriteType)
    BY <1>9, <2>2
  <2> DEFINE t == block \o bit
  <2>4. t \in Seq(WriteType)
    BY <2>3, Associated, Zenon
  <2> DEFINE s == r \o one
  <2>5. s \in Seq(WriteType)
    BY <2>3
  <2>6. s \o t = r \o (one \o t)
    <3> HIDE DEF t
    <3> QED
      BY <2>2, <2>4, Associated, ZenonT(60)
  <2>7. (s \o block) \o bit = s \o t
    <3> HIDE DEF s
    <3> QED
      BY <2>3, <2>5, Associated, Zenon
  <2> QED
    BY <2>1, <2>6, <2>7 DEF r, one
<1> HIDE DEF a
<1> DEFINE A == ToSet(a)
           removed == Removal
<1>13. /\ Additions(A) /\ entry \in A /\ new \in A /\ (index # Full => used \in A)
       /\ \A x \in A : x = entry \/ x = new \/ (x = used /\ index # Full)
  <2>1. \A x \in A : x = entry \/ x = new \/ (x = used /\ index # Full)
    BY <1>9, <1>11
  <2>2. \A x \in A : x \in WriteType /\ Rank(x) >= NWords + 2 /\ x.op \in {"entry", "index", "used"}
    BY <1>6, <1>7, <1>8, <1>10, <2>1
  <2>3. entry \in A /\ new \in A /\ (index # Full => used \in A)
    BY <1>9, <1>11
  <2> HIDE DEF A
  <2> QED
    BY <2>1, <2>2, <2>3 DEF Additions, Unlinks
<1> DEFINE full == past.full \/ index = Full
           short == past.short \union IF OpenSlot = 0 THEN {} ELSE {index, index + 1}
           under == past.under \union IF Parent.kind = File THEN {Parent.index} ELSE {}
<1>14. /\ (past').killed = past.killed /\ (past').full = full /\ (past').torn = past.torn
       /\ (past').short = short /\ (past').under = under
  <2>1. past' = [past EXCEPT !.full = full, !.under = under, !.short = short]
    BY <1>1
  <2> HIDE DEF full, short, under
  <2> QED
    BY <2>1 DEF IInv, PastType
<1>15. Grown
  BY <1>14, PastGrows
<1>16. Regular' => Regular /\ index # Full /\ Misplaced \subseteq Misplaced'
  BY <1>14, <1>15 DEF Grown, Regular
<1>17. Regular' => /\ Parent.index # DataBlock /\ Parent.index # index /\ index \in Blocks
                   /\ Parent.index \in Misplaced' \/
                        \A v \in Taken(disk) : KindOf(disk, v) = File => IndexOf(disk, v) # Parent.index
  <2> SUFFICES ASSUME Regular'
               PROVE  /\ Parent.index # DataBlock /\ Parent.index # index /\ index \in Blocks
                      /\ Parent.index \in Misplaced' \/
                           \A v \in Taken(disk) : KindOf(disk, v) = File => IndexOf(disk, v) # Parent.index
    OBVIOUS
  <2>1. Regular /\ index # Full /\ index \in Blocks \ {0}
    BY <1>4, <1>16
  <2>2. /\ Parent.index # DataBlock /\ Parent.kind \in {Dir, File}
        /\ Parent.index = 0 \/ \E v \in Taken(disk) : IndexOf(disk, v) = Parent.index
        /\ Parent.kind = Dir => \A v \in Taken(disk) : KindOf(disk, v) = File => IndexOf(disk, v) # Parent.index
    BY <1>1, <1>2, <2>1, ParentIs
  <2>3. Parent.index # index
    BY <1>5, <2>1, <2>2
  <2>4. Parent.kind = File => Parent.index \in Misplaced'
    BY <1>14 DEF Misplaced
  <2> QED
    BY <2>1, <2>2, <2>3, <2>4
<1> HIDE DEF A, removed
<1>18. Order' /\ Writes' = ToSet(removed) \union A
  <2>1. \A x \in ToSet(a) : x.op = "index" /\ x.slot # 0 => x.block \in (past').short /\ x.block + 1 \in (past').short
    BY <1>8, <1>13, <1>14 DEF A
  <2>2. (Top').op # "rm" /\ (Top').op # "hardlink"
    BY <1>12
  <2>3. Removes(removed) /\ todo' = removed \o a /\ Additions(ToSet(a))
    BY <1>3, <1>12, <1>13 DEF A, removed
  <2>4. Regular' => \A x \in ToSet(a) : (x.op = "entry" => x.dir # DataBlock) /\ (x.op = "index" => x.block \in Blocks)
    BY <1>8, <1>13, <1>17 DEF A
  <2> QED
    BY <1>11, <2>1, <2>2, <2>3, <2>4, AddsInOrder DEF A
<1>19. ASSUME Regular', NEW e \in A, e.op = "entry"
       PROVE  /\ (\E b \in A : b.op = "used" /\ b.block = e.index)
              /\ \A v \in Taken(disk) : IndexOf(disk, v) = e.index => KindOf(disk, v) = File /\ e.kind = File
              /\ e.dir \in Misplaced' \/
                    ((\A v \in Taken(disk) : KindOf(disk, v) = File => IndexOf(disk, v) # e.dir)
                       /\ (e.kind = File => e.index # e.dir))
  <2>1. e = entry /\ used \in A /\ e.index = index
    BY <1>5, <1>8, <1>13, <1>16, <1>19
  <2>2. \A v \in Taken(disk) : IndexOf(disk, v) # index
    BY <1>5, <1>16, <1>19
  <2> QED
    BY <1>8, <1>17, <1>19, <2>1, <2>2
<1>20. ASSUME Regular', OnlyRm, NEW i \in Blocks
       PROVE  i \in Misplaced' \/ NumLinks(disk, i) + NewLinks(i)' <= Counts(i)'
  <2>1. \A w \in Writes' : w = entry \/ w = used \/ w = new \/ w \in ToSet(removed)
    BY <1>13, <1>18
  <2>2. \A w \in ToSet(removed) : w.op \notin {"entry", "index"} /\ (w.op = "links" => w.n = -1)
    <3>1. Removes(removed)
      BY <1>3 DEF removed
    <3> QED
      BY <3>1, RemovesFirst DEF Unlinks
  <2>3. ~ Losing(i)'
    BY <1>3, <1>13, <1>18, NoneLosing DEF removed
  <2>4. disk.word[i][LinkWord] \in Nat /\ NumLinks(disk, i) \in Nat
    BY <1>3, CountIs
  <2>5. ~ Gaining(i)'
    BY <1>8, <2>1, <2>2 DEF Gaining, Ops
  <2>6. i \in Misplaced' \/ NumLinks(disk, i) <= disk.word[i][LinkWord]
    BY <1>3, <1>16, <1>20, Rested DEF Resting
  <2>7. index # Full /\ entry.index = index
    BY <1>5, <1>8, <1>16, <1>20
  <2>8. CASE i = index
    <3>1. Creating(i)'
      BY <1>8, <1>13, <1>18, <2>7, <2>8 DEF Creating, Ops
    <3>2. Counts(i)' = 1
      BY <3>1 DEF Counts
    <3>3. NewLinks(i)' \in {0, 1}
      BY DEF NewLinks
    <3>4. NumLinks(disk, i) = 0
      <4>1. FilesAt(disk, i) = {}
        BY <1>5, <1>16, <1>20, <2>7, <2>8 DEF FilesAt
      <4> QED
        BY <4>1, TakenFinite
    <3> QED
      BY <3>2, <3>3, <3>4
  <2>9. CASE i # index
    <3>1. NewLinks(i)' = 0 /\ ~ Creating(i)'
      BY <1>8, <2>1, <2>2, <2>7, <2>9 DEF NewLinks, Creating, Ops
    <3>2. Counts(i)' = disk.word[i][LinkWord]
      BY <1>12, <2>3, <2>4, <2>5, <3>1 DEF Counts
    <3> QED
      BY <1>20, <2>4, <2>6, <3>1, <3>2
  <2> QED
    BY <2>8, <2>9
<1>21. Adds(removed, A)
  BY <1>19, <1>20 DEF Adds
<1> QED
  BY <1>3, <1>12, <1>13, <1>15, <1>18, <1>21, Begins DEF removed

\* cr_hardlink adds an entry for a file and counts it.
LEMMA HardlinkShares ==
    ASSUME IInv, SInv, Hardlink, Regular => Origin.kind = File
    PROVE  SInv'
<1> DEFINE i0 == Origin.index
           entry == AddEntry(Parent.index, File, Name, i0)
           link == AddLinks(i0, 1)
           one == <<link>>
           a == <<entry>> \o one
<1>1. /\ Running("hardlink") /\ Exists(Parent) /\ Exists(Origin) /\ Write(LinkWrites, 0)
      /\ past' = [past EXCEPT !.under = @ \union IF Parent.kind = File THEN {Parent.index} ELSE {}]
  BY DEF Hardlink, CanLink, Missing, Running
<1>2. /\ stack # <<>> /\ Top.loaded /\ todo = <<>> /\ DiskOK(disk) /\ Top.op = "hardlink"
      /\ Parent.index \in Blocks /\ Name \in Names
  BY <1>1, RunningIs DEF Running
<1>3. EntryOf(disk, Origin)
  BY <1>1, <1>2, FoundIs DEF Exists
<1> DEFINE v0 == <<Origin.dir, Origin.slot>>
<1>4. /\ i0 \in Blocks
      /\ Regular => v0 \in Taken(disk) /\ IndexOf(disk, v0) = i0 /\ KindOf(disk, v0) = File
  BY <1>1, <1>2, <1>3, EntryTaken, RegularIs, EntryType DEF NodeType
<1>5. Regular => /\ Parent.index # DataBlock /\ Parent.kind \in {Dir, File}
                 /\ Parent.kind = Dir => \A v \in Taken(disk) : KindOf(disk, v) = File => IndexOf(disk, v) # Parent.index
  BY <1>1, ParentIs
<1> HIDE DEF i0, v0
<1>6. entry \in WriteType /\ link \in WriteType
  <2>1. File \in Valid
    BY DEF Valid
  <2> QED
    BY <1>2, <1>4, <2>1, WriteTyped
<1>7. /\ entry.op = "entry" /\ entry.dir = Parent.index /\ entry.kind = File /\ entry.index = i0
      /\ link.op = "links" /\ link.block = i0 /\ link.n = 1
  BY DEF AddEntry, AddLinks
<1>8. LinkWrites = <<entry, link>>
  BY DEF LinkWrites, i0
<1> HIDE DEF entry, link
<1>9. Rank(entry) = NWords + 2 /\ Rank(link) = NWords + 3 /\ NWords \in Nat
  BY <1>6, <1>7, RankIs, Sizes
<1>10. one \in Seq(WriteType) /\ Sorted(one) /\ ToSet(one) = {link}
  BY <1>6, OneWrite
<1>11. LinkWrites = a
  BY <1>8, Concatenated
<1> HIDE DEF one
<1>12. a \in Seq(WriteType) /\ Sorted(a) /\ ToSet(a) = {entry, link}
  <2>1. \A y \in ToSet(one) : Rank(entry) < Rank(y)
    BY <1>9, <1>10
  <2> QED
    BY <1>6, <1>10, <2>1, Preceded
<1>13. todo' = a /\ disk' = disk /\ (Top').op = "hardlink"
  BY <1>1, <1>2, <1>11, WritesTop
<1> HIDE DEF a
<1>14. todo' = <<>> \o a
  BY <1>12, <1>13, ConcatEmptySeq
<1> DEFINE A == ToSet(a)
           none == <<>>
<1>15. Additions(A) /\ A = {entry, link}
  BY <1>6, <1>7, <1>9, <1>12 DEF Additions, Unlinks
<1>16. Removes(none)
  BY NoneRemoves
<1> DEFINE under == past.under \union IF Parent.kind = File THEN {Parent.index} ELSE {}
<1>18. /\ (past').killed = past.killed /\ (past').full = past.full /\ (past').torn = past.torn
       /\ (past').short = past.short /\ (past').under = under
  <2>1. past' = [past EXCEPT !.under = under]
    BY <1>1
  <2> HIDE DEF under
  <2> QED
    BY <2>1 DEF IInv, PastType
<1>19. Grown
  BY <1>18, PastGrows
<1>20. Regular' => Regular /\ Misplaced \subseteq Misplaced'
  BY <1>19 DEF Grown
<1>17. Order' /\ Writes' = ToSet(none) \union A
  BY <1>5, <1>7, <1>12, <1>13, <1>14, <1>15, <1>16, <1>20, AddsInOrder
<1>21. Resting
  BY <1>2, Rested
<1> HIDE DEF A, none
<1>22. ASSUME Regular', NEW e \in A, e.op = "entry"
       PROVE  /\ e.index \in Wanted
              /\ \A v \in Taken(disk) : IndexOf(disk, v) = e.index => KindOf(disk, v) = File /\ e.kind = File
              /\ e.dir \in Misplaced' \/
                    ((\A v \in Taken(disk) : KindOf(disk, v) = File => IndexOf(disk, v) # e.dir)
                       /\ (e.kind = File => e.index # e.dir))
  <2>1. e = entry /\ Regular
    BY <1>7, <1>15, <1>20, <1>22
  <2>2. i0 \in Wanted
    BY <1>4, <2>1 DEF Wanted
  <2>3. \A v \in Taken(disk) : IndexOf(disk, v) = i0 => KindOf(disk, v) = File
    BY <1>4, <1>21, <2>1 DEF Resting
  <2>4. CASE Parent.kind = File
    <3>1. Parent.index \in Misplaced'
      BY <1>18, <2>4 DEF Misplaced
    <3> QED
      BY <1>7, <2>1, <2>2, <2>3, <3>1
  <2>5. CASE Parent.kind = Dir
    <3>1. (\A v \in Taken(disk) : KindOf(disk, v) = File => IndexOf(disk, v) # Parent.index) /\ i0 # Parent.index
      BY <1>4, <1>5, <2>1, <2>5
    <3> QED
      BY <1>7, <2>1, <2>2, <2>3, <3>1
  <2> QED
    BY <1>5, <2>1, <2>4, <2>5
<1>23. ASSUME Regular', OnlyRm, NEW i \in Blocks
       PROVE  i \in Misplaced' \/ NumLinks(disk, i) + NewLinks(i)' <= Counts(i)'
  <2>1. Writes' = {entry, link}
    <3>1. ToSet(none) = {}
      BY OneWrite DEF none
    <3> QED
      BY <1>15, <1>17, <3>1
  <2>2. ~ Creating(i)' /\ ~ Losing(i)'
    BY <1>7, <2>1 DEF Creating, Losing, Ops
  <2>3. disk.word[i][LinkWord] \in Nat /\ NumLinks(disk, i) \in Nat
    BY <1>2, CountIs
  <2>4. i \in Misplaced' \/ NumLinks(disk, i) <= disk.word[i][LinkWord]
    BY <1>20, <1>21, <1>23 DEF Resting
  <2>5. CASE i = i0
    <3>1. Gaining(i)' /\ NewLinks(i)' \in {0, 1}
      BY <1>7, <2>1, <2>5 DEF Gaining, NewLinks, Ops
    <3>2. Counts(i)' = disk.word[i][LinkWord] + 1
      BY <1>13, <2>2, <2>3, <3>1 DEF Counts
    <3> QED
      BY <2>3, <2>4, <3>1, <3>2
  <2>6. CASE i # i0
    <3>1. ~ Gaining(i)' /\ NewLinks(i)' = 0
      BY <1>7, <2>1, <2>6 DEF Gaining, NewLinks, Ops
    <3>2. Counts(i)' = disk.word[i][LinkWord]
      BY <1>13, <2>2, <2>3, <3>1 DEF Counts
    <3> QED
      BY <2>3, <2>4, <3>1, <3>2
  <2> QED
    BY <2>5, <2>6
<1>24. Adds(none, A)
  BY <1>22, <1>23 DEF Adds, none
<1> QED
  BY <1>2, <1>13, <1>15, <1>16, <1>17, <1>19, <1>24, Begins

\* The other steps write nothing.
LEMMA UnchangedShares ==
    ASSUME SInv, UNCHANGED vars
    PROVE  SInv'
<1>1. disk' = disk /\ todo' = todo /\ stack' = stack /\ past' = past
  BY DEF vars
<1>2. Writes' = Writes /\ Regular' = Regular /\ OnlyRm' = OnlyRm /\ Misplaced' = Misplaced /\ Top' = Top
  BY <1>1, PastLeft DEF Writes, Top
<1>3. \A op : Ops(op)' = Ops(op)
  BY <1>2 DEF Ops
<1>4. Freeing' = Freeing /\ Bits' = Bits /\ Wanted' = Wanted
  BY <1>1, <1>3 DEF Freeing, Bits, Wanted
<1>5. \A i : NewLinks(i)' = NewLinks(i) /\ Counts(i)' = Counts(i)
  BY <1>1, <1>3 DEF NewLinks, Counts, Creating, Gaining, Losing
<1>7. Order'
  BY <1>1, <1>2, <1>3, <1>4 DEF SInv, Order, Sorted
<1>8. InUse'
  BY <1>1, <1>2, <1>3, <1>4 DEF SInv, InUse
<1>9. Sharing'
  BY <1>1, <1>2, <1>3 DEF SInv, Sharing
<1>10. Removed'
  BY <1>1, <1>2, <1>3 DEF SInv, Removed
<1>11. Counted'
  BY <1>1, <1>2, <1>3, <1>5 DEF SInv, Counted
<1> QED
  BY <1>7, <1>8, <1>9, <1>10, <1>11 DEF SInv

-----------------------------------------------------------------------------
(* The file that a call of cr_hardlink links to stays while its directories are made. *)

\* Two directories are not made of one block.
Unshared(d) == \A u, v \in Taken(d) : u # v /\ IndexOf(d, u) = IndexOf(d, v) => KindOf(d, u) = File

\* The last step of a search that finds a directory.
LEMMA DirFound ==
    ASSUME NEW d, DiskOK(d), EntriesOK(d), NEW p \in Seq(Names) \ {<<>>}, graph_search(d, p).kind = Dir
    PROVE  LET parent == graph_search(d, Front(p))
           IN  /\ parent.kind = Dir /\ graph_search(d, p).index # 0
               /\ \E s \in Slots : LET v == <<parent.index, s>>
                                  IN  /\ v \in Taken(d) /\ KindOf(d, v) = Dir /\ d.name[parent.index][s] = Last(p)
                                      /\ IndexOf(d, v) = graph_search(d, p).index
<1> DEFINE x == graph_search(d, p)
           parent == graph_search(d, Front(p))
           name == Last(p)
<1>1. Front(p) \in Seq(Names)
  BY FrontIs
<1>2. parent \in NodeType /\ parent.index # DataBlock
  BY <1>1, SearchIs
<1>3. x = Child(d, parent, name) /\ x.kind = Dir
  BY SearchEnds
<1> HIDE DEF x, parent, name
<1>4. x # NoNode
  BY <1>3 DEF NoNode, Node, Dir
<1>5. parent.kind = Dir /\ x \in Named(d, parent.index, name)
  BY <1>2, <1>3, <1>4, ChildFinds
<1>6. PICK s \in Slots : /\ d.kind[parent.index][s] \in Valid /\ d.name[parent.index][s] = name
                         /\ x = Node(d.kind[parent.index][s], d.word[parent.index][IndexWord(s)], parent.index, s)
  BY <1>5, NamedAre
<1> DEFINE v == <<parent.index, s>>
<1>7. parent.index \in Blocks \ {DataBlock}
  BY <1>2 DEF NodeType
<1>8. v \in Taken(d) /\ KindOf(d, v) = Dir /\ IndexOf(d, v) = x.index
  BY <1>3, <1>6, <1>7 DEF Taken, Places, ValidAt, KindOf, IndexOf, IndexAt, Node
<1>9. x.index # 0
  <2>1. IndexAt(d, parent.index, s) \notin Kept
    BY <1>6, <1>7 DEF EntriesOK, ValidAt
  <2> QED
    BY <1>6, <2>1 DEF IndexAt, Node, Kept, Reserved
<1> HIDE DEF v
<1>10. \E t \in Slots : LET u == <<parent.index, t>>
                       IN  /\ u \in Taken(d) /\ KindOf(d, u) = Dir /\ d.name[parent.index][t] = name
                           /\ IndexOf(d, u) = x.index
  BY <1>6, <1>8 DEF v
<1> QED
  BY <1>5, <1>9, <1>10 DEF x, parent, name

\* Paths with the same last name and the same beginning.
LEMMA SamePath ==
    ASSUME NEW p \in Seq(Names) \ {<<>>}, NEW q \in Seq(Names) \ {<<>>}, Front(p) = Front(q), Last(p) = Last(q)
    PROVE  p = q
<1>1. /\ Len(Front(p)) = Len(p) - 1 /\ \A i \in 1..(Len(p) - 1) : Front(p)[i] = p[i]
      /\ Len(Front(q)) = Len(q) - 1 /\ \A i \in 1..(Len(q) - 1) : Front(q)[i] = q[i]
  BY FrontIs
<1>2. Len(p) \in Nat /\ Len(q) \in Nat
  OBVIOUS
<1>3. Len(p) = Len(q)
  <2>1. Len(p) - 1 = Len(q) - 1
    BY <1>1
  <2> QED
    BY <1>2, <2>1
<1>4. \A i \in 1..Len(p) : p[i] = q[i]
  <2> TAKE i \in 1..Len(p)
  <2>1. CASE i = Len(p)
    BY <1>3, <2>1 DEF Last
  <2>2. CASE i # Len(p)
    <3>1. i \in 1..(Len(p) - 1)
      BY <1>2, <2>2
    <3> QED
      BY <1>1, <1>3, <3>1
  <2> QED
    BY <2>1, <2>2
<1> QED
  BY <1>3, <1>4, SeqEqual

\* Only one path leads to a directory.
LEMMA OnePath ==
    ASSUME NEW d, DiskOK(d), EntriesOK(d), Unshared(d), NEW p \in Seq(Names), NEW q \in Seq(Names),
           graph_search(d, p).kind = Dir, graph_search(d, q).kind = Dir,
           graph_search(d, p).index = graph_search(d, q).index
    PROVE  p = q
<1> DEFINE Equal(a, b) ==
               (/\ graph_search(d, a).kind = Dir /\ graph_search(d, b).kind = Dir
                /\ graph_search(d, a).index = graph_search(d, b).index) => a = b
           n == Len(p)
           S == {k \in 0..n : \A a, b \in Seq(Names) : Len(a) = k => Equal(a, b)}
<1>1. graph_search(d, <<>>).index = 0
  <2>1. <<>> \in Seq(Names)
    OBVIOUS
  <2>2. graph_search(d, <<>>) = Root
    BY <2>1, SearchIs
  <2> QED
    BY <2>2 DEF Root, Node
<1>2. 0 \in S
  <2> SUFFICES ASSUME NEW a \in Seq(Names), NEW b \in Seq(Names), Len(a) = 0, graph_search(d, b).kind = Dir,
                      graph_search(d, a).index = graph_search(d, b).index
               PROVE  a = b
    OBVIOUS
  <2>1. a = <<>>
    OBVIOUS
  <2>2. b # <<>> => graph_search(d, b).index # 0
    BY DirFound
  <2> QED
    BY <1>1, <2>1, <2>2
<1>3. ASSUME NEW k \in 0..(n - 1), k \in S PROVE k + 1 \in S
  <2> SUFFICES ASSUME NEW a \in Seq(Names), NEW b \in Seq(Names), Len(a) = k + 1,
                      graph_search(d, a).kind = Dir, graph_search(d, b).kind = Dir,
                      graph_search(d, a).index = graph_search(d, b).index
               PROVE  a = b
    OBVIOUS
  <2> DEFINE x == graph_search(d, Front(a))
             y == graph_search(d, Front(b))
  <2>1. a # <<>>
    OBVIOUS
  <2>2. graph_search(d, a).index # 0
    BY <2>1, DirFound
  <2>3. b # <<>>
    BY <1>1, <2>2
  <2>4. PICK s \in Slots : /\ <<x.index, s>> \in Taken(d) /\ KindOf(d, <<x.index, s>>) = Dir
                           /\ d.name[x.index][s] = Last(a) /\ x.kind = Dir
                           /\ IndexOf(d, <<x.index, s>>) = graph_search(d, a).index
    BY <2>1, DirFound
  <2>5. PICK t \in Slots : /\ <<y.index, t>> \in Taken(d) /\ KindOf(d, <<y.index, t>>) = Dir
                           /\ d.name[y.index][t] = Last(b) /\ y.kind = Dir
                           /\ IndexOf(d, <<y.index, t>>) = graph_search(d, b).index
    BY <2>3, DirFound
  <2>6. <<x.index, s>> = <<y.index, t>>
    BY <2>4, <2>5 DEF Unshared, Dir, File
  <2>7. x.index = y.index /\ Last(a) = Last(b)
    BY <2>4, <2>5, <2>6
  <2>8. Front(a) \in Seq(Names) /\ Len(Front(a)) = k /\ Front(b) \in Seq(Names)
    BY <2>1, <2>3, FrontIs
  <2>9. Front(a) = Front(b)
    BY <1>3, <2>4, <2>5, <2>7, <2>8
  <2> QED
    BY <2>1, <2>3, <2>7, <2>9, SamePath
<1>4. n \in Nat
  OBVIOUS
<1>5. 0..n \subseteq S
  <2> HIDE DEF S
  <2> QED
    BY <1>2, <1>3, <1>4, SetInduction
<1>6. n \in S
  <2>1. n \in 0..n
    BY <1>4
  <2> HIDE DEF n, S
  <2> QED
    BY <1>5, <2>1
<1> QED
  BY <1>6

\* A path that leads somewhere begins with paths that do.
LEMMA StartExists ==
    ASSUME NEW d, DiskOK(d), NEW p \in Seq(Names), NEW q \in Seq(Names), IsStart(p, q), Exists(graph_search(d, q))
    PROVE  Exists(graph_search(d, p))
<1> DEFINE m == Len(p)
           n == Len(q) - Len(p)
<1>1. PICK f : Follows(d, q, f) /\ graph_search(d, q) = f[Len(q)] /\ \A k \in 0..Len(q) : f[k] \in NodeType
  BY SearchSteps
<1>2. m \in Nat /\ n \in Nat /\ m + n = Len(q)
  BY DEF IsStart
<1>3. graph_search(d, p) = f[m]
  BY <1>1, Searched DEF IsStart
<1> DEFINE S == {k \in 0..n : f[m + k] = NoNode}
<1> SUFFICES ASSUME f[m] = NoNode PROVE f[m + n] = NoNode
  BY <1>1, <1>2, <1>3 DEF Exists
<1> HIDE DEF m, n
<1>4. 0 \in S
  BY <1>2
<1>5. ASSUME NEW k \in 0..(n - 1), k \in S PROVE k + 1 \in S
  <2> DEFINE j == m + k + 1
  <2>1. j \in 1..Len(q) /\ j - 1 = m + k /\ k + 1 \in 0..n /\ m + (k + 1) = j
    BY <1>2
  <2> HIDE DEF j
  <2>2. f[j] = Child(d, f[j - 1], q[j]) /\ f[j - 1] = NoNode
    BY <1>1, <1>5, <2>1 DEF Follows
  <2>3. NoNode.kind # Dir /\ NoNode \in NodeType
    BY RootType DEF NoNode, Node, Dir
  <2>4. f[j] = NoNode
    BY <2>2, <2>3, ChildFinds
  <2> QED
    BY <2>1, <2>4
<1>6. 0..n \subseteq S
  <2> HIDE DEF S
  <2> QED
    BY <1>2, <1>4, <1>5, SetInduction
<1>7. n \in S
  <2>1. n \in 0..n
    BY <1>2
  <2> HIDE DEF S
  <2> QED
    BY <1>6, <2>1
<1> QED
  BY <1>7

\* The entry that cr_mkdir writes is on the way of the paths that begin with its own only.
LEMMA EntryAside ==
    ASSUME NEW d, DiskOK(d), EntriesOK(d), Unshared(d), NEW w \in WriteType, w.op = "entry",
           NEW path \in Seq(Names) \ {<<>>}, NEW parent, parent = graph_search(d, Front(path)), parent.kind = Dir,
           w.dir = parent.index, w.name = Last(path), NEW orig \in Seq(Names), ~ IsStart(path, orig)
    PROVE  graph_search(write_dir_block(d, w), orig) = graph_search(d, orig)
<1> DEFINE e == write_dir_block(d, w)
           n == Len(orig)
<1>1. /\ w.dir \in Blocks /\ w.kind \in Valid /\ w.name \in Names
      /\ w.index \in Blocks
  BY WriteIs
<1> SUFFICES ASSUME FreeSlots(d, w.dir) # {} PROVE graph_search(e, orig) = graph_search(d, orig)
  BY DEF write_dir_block
<1>2. PICK s \in FreeSlots(d, w.dir) : WithEntry(d, w, s, e)
  BY <1>1, EntryAdded
<1>3. DiskOK(e)
  BY EntryWritten
<1>4. s \in Slots /\ d.kind[w.dir][s] \notin Valid
  BY <1>2 DEF FreeSlots
<1> HIDE DEF e
<1>5. \A b \in Blocks : \A t \in Slots :
          /\ e.kind[b][t] = IF b = w.dir /\ t = s THEN w.kind ELSE d.kind[b][t]
          /\ IndexAt(e, b, t) = IF b = w.dir /\ t = s THEN w.index ELSE IndexAt(d, b, t)
  BY <1>1, <1>2, <1>4, EntryValues
<1>6. \A b \in Blocks : \A t \in Slots : e.name[b][t] = IF b = w.dir /\ t = s THEN w.name ELSE d.name[b][t]
  <2>1. e.name = [d.name EXCEPT ![w.dir][s] = w.name]
    BY <1>2 DEF WithEntry
  <2>2. d.name \in [Blocks -> [Slots -> Names]]
    BY DiskIs
  <2> QED
    BY <1>1, <1>4, <2>1, <2>2
<1>7. ASSUME NEW b \in Blocks, NEW x, b # w.dir \/ x # w.name
      PROVE  Named(e, b, x) = Named(d, b, x)
  <2>1. \A t \in Slots : b # w.dir \/ t # s =>
            /\ e.kind[b][t] = d.kind[b][t] /\ e.name[b][t] = d.name[b][t]
            /\ e.word[b][IndexWord(t)] = d.word[b][IndexWord(t)]
    BY <1>5, <1>6 DEF IndexAt
  <2>2. b = w.dir => e.name[b][s] # x /\ d.kind[b][s] \notin Valid
    BY <1>4, <1>6, <1>7
  <2>3. \A y : y \in Named(e, b, x) <=> y \in Named(d, b, x)
    BY <2>1, <2>2, NamedAre
  <2> QED
    BY <2>3
<1>8. PICK f : Follows(d, orig, f) /\ graph_search(d, orig) = f[n] /\ \A k \in 0..n : f[k] \in NodeType
  BY SearchSteps
<1>9. /\ Front(path) \in Seq(Names) /\ Len(Front(path)) = Len(path) - 1
      /\ \A i \in 1..(Len(path) - 1) : Front(path)[i] = path[i]
  BY FrontIs
<1>10. ASSUME NEW k \in 1..n, f[k - 1].kind = Dir, f[k - 1].index = w.dir PROVE orig[k] # w.name
  <2> DEFINE j == k - 1
             a == SubSeq(orig, 1, j)
  <2>1. j \in 0..n /\ k = j + 1
    OBVIOUS
  <2> HIDE DEF j
  <2>2. a \in Seq(Names) /\ Len(a) = j /\ \A i \in 1..j : a[i] = orig[i]
    BY <2>1, StartIs
  <2> HIDE DEF a
  <2>3. graph_search(d, a) = f[j]
    BY <1>8, <2>1, <2>2, Searched
  <2>4. f[j].kind = Dir /\ f[j].index = parent.index
    BY <1>10 DEF j
  <2>5. a = Front(path)
    BY <1>9, <2>2, <2>3, <2>4, OnePath
  <2>6. Len(path) = k /\ \A i \in 1..(Len(path) - 1) : path[i] = orig[i]
    BY <1>9, <2>1, <2>2, <2>5
  <2>7. path[Len(path)] = w.name
    BY DEF Last
  <2> SUFFICES ASSUME orig[k] = w.name PROVE IsStart(path, orig)
    OBVIOUS
  <2>8. \A i \in 1..Len(path) : path[i] = orig[i]
    <3> TAKE i \in 1..Len(path)
    <3>1. i = k \/ i \in 1..(Len(path) - 1)
      BY <2>6
    <3> QED
      BY <2>6, <2>7, <3>1
  <2> QED
    BY <2>1, <2>6, <2>8 DEF IsStart
<1> HIDE DEF n
<1>11. Follows(e, orig, f)
  <2> SUFFICES ASSUME NEW k \in 1..n PROVE f[k] = Child(e, f[k - 1], orig[k])
    BY <1>8 DEF Follows, n
  <2> DEFINE x == f[k - 1]
             name == orig[k]
  <2>1. f[k] = Child(d, x, name)
    BY <1>8 DEF Follows, n
  <2>2. x \in NodeType /\ x.index \in Blocks
    <3>1. k - 1 \in 0..n
      BY DEF n
    <3> QED
      BY <1>8, <3>1 DEF NodeType
  <2>3. x.kind = Dir /\ x.index = w.dir => name # w.name
    BY <1>10
  <2> HIDE DEF x, name
  <2>4. CASE x.kind = Dir
    <3>1. Named(d, x.index, name) = Named(e, x.index, name)
      BY <1>7, <2>2, <2>3, <2>4
    <3>2. Child(d, x, name) = Child(e, x, name)
      BY <3>1, ChildSame
    <3> QED
      BY <2>1, <3>2 DEF x, name
  <2>5. CASE x.kind # Dir
    <3>1. Child(d, x, name) = NoNode /\ Child(e, x, name) = NoNode
      BY <1>3, <2>2, <2>5, ChildFinds
    <3> QED
      BY <2>1, <3>1 DEF x, name
  <2> QED
    BY <2>4, <2>5
<1>12. graph_search(e, orig) = f[n]
  BY <1>3, <1>11, Searched DEF n
<1> QED
  BY <1>8, <1>12

\* What reading, writing and trying again leave of the path to link to.
LEMMA FrameOrig ==
    ASSUME NEW frame \in FrameType, NEW h, NEW p, NEW o, NEW ret
    PROVE  /\ Reading(frame, h, p, o).orig = frame.orig /\ Returning(frame, ret).orig = frame.orig
           /\ Retried(frame).orig = frame.orig
<1> DEFINE ops == {"mkdir", "open", "rm", "hardlink"}
           paths == Seq(Names) \ {<<>>}
           origs == Seq(Names)
           rets == {0, -1}
           nodes == NodeType
           B == BOOLEAN
           Calls == [op : ops, path : paths, orig : origs, loaded : B, again : B, ret : rets,
                     here : nodes, parent : nodes, origin : nodes]
<1>1. frame \in Calls
  BY DEF FrameType, Frames
<1> HIDE DEF ops, paths, origs, rets, nodes, B
<1> QED
  BY <1>1 DEF Reading, Returning, Retried

\* The calls in progress, or all but the innermost, and the file that stays.
Alike(a, b) == a.op = b.op /\ a.path = b.path /\ a.orig = b.orig /\ a.again = b.again
LEMMA LinksAlike ==
    ASSUME Linking, stack \in Seq(FrameType), stack' \in Seq(FrameType), NEW n \in {0, 1}, Len(stack) = Len(stack') + n,
           \A k \in 1..Len(stack') : Alike((stack')[k], stack[k + n]), Regular' => Regular,
           stack' # <<>> /\ (todo' = <<>> \/ Len(stack') > 1) => todo = <<>> \/ Len(stack) > 1,
           WillLink /\ graph_search(disk, Outer.orig).kind = File => graph_search(disk', Outer.orig).kind = File
    PROVE  Linking'
<1> SUFFICES ASSUME WillLink'
             PROVE  /\ graph_search(disk', (Outer').orig).kind = File
                    /\ \A k \in 1..(Len(stack') - 1) : ~ IsStart((stack')[k].path, (Outer').orig)
  BY DEF Linking
<1>1. /\ Regular' /\ stack' # <<>> /\ (Outer').op = "hardlink" /\ (Outer').again
      /\ todo' = <<>> \/ Len(stack') > 1
  BY DEF WillLink
<1> DEFINE m == Len(stack')
<1>2. m \in Nat /\ m >= 1 /\ Len(stack) = m + n /\ m \in 1..m /\ stack # <<>>
  BY <1>1
<1>3. Outer' = (stack')[m] /\ Outer = stack[m + n]
  BY <1>2 DEF Outer, Last
<1> HIDE DEF m
<1>4. Alike(Outer', Outer)
  BY <1>2, <1>3 DEF m
<1>5. WillLink
  BY <1>1, <1>2, <1>4 DEF WillLink, Alike
<1>6. /\ graph_search(disk', Outer.orig).kind = File
      /\ \A k \in 1..(Len(stack) - 1) : ~ IsStart(stack[k].path, Outer.orig)
  BY <1>5 DEF Linking
<1>7. ASSUME NEW k \in 1..(m - 1) PROVE ~ IsStart((stack')[k].path, Outer.orig)
  <2>1. k \in 1..m /\ k + n \in 1..(Len(stack) - 1)
    BY <1>2
  <2>2. (stack')[k].path = stack[k + n].path
    BY <2>1 DEF Alike, m
  <2> QED
    BY <1>6, <2>1, <2>2
<1> QED
  BY <1>4, <1>6, <1>7 DEF Alike, m

\* No call is in progress any more.
LEMMA NoneLinks == ASSUME stack' = <<>> PROVE Linking'
BY DEF Linking, WillLink

\* A new call does not try again.
LEMMA CallLinks ==
    ASSUME Call
    PROVE  Linking'
<1>1. PICK frame : stack' = <<frame>> /\ ~ frame.again
  <2>1. PICK path \in Paths :
            \/ \E op \in {"mkdir", "open", "rm"} : stack' = <<Frame(op, path, <<>>)>>
            \/ \E orig \in Paths : stack' = <<Frame("hardlink", path, orig)>>
    BY DEF Call
  <2>2. PICK op, orig : stack' = <<Frame(op, path, orig)>>
    BY <2>1
  <2> DEFINE new == Frame(op, path, orig)
  <2>3. Fresh(new, op, path)
    BY FrameIs, Zenon
  <2> HIDE DEF new
  <2> QED
    BY <2>2, <2>3 DEF new, Fresh
<1>2. Outer' = frame
  BY <1>1 DEF Outer, Last
<1> QED
  BY <1>1, <1>2 DEF Linking, WillLink

\* The innermost call reads the disk, or goes on to its writes.
LEMMA TopLinks ==
    ASSUME IInv, IInv', Linking, stack # <<>>, todo = <<>>, disk' = disk, Regular' => Regular,
           NEW frame, Alike(frame, Top), stack' = [stack EXCEPT ![1] = frame]
    PROVE  Linking'
<1>1. stack \in Seq(FrameType) /\ stack' \in Seq(FrameType)
  BY DEF IInv, StackOK
<1>2. Top = stack[1]
  BY TopIs DEF IInv
<1>3. /\ Len(stack') = Len(stack) /\ Len(stack) \in Nat /\ (stack')[1] = frame
      /\ \A k \in 2..Len(stack) : (stack')[k] = stack[k]
  BY <1>1
<1>4. ASSUME NEW k \in 1..Len(stack') PROVE Alike((stack')[k], stack[k + 0])
  <2>1. k + 0 = k
    BY <1>3
  <2>2. CASE k = 1
    BY <1>2, <1>3, <2>1, <2>2
  <2>3. CASE k # 1
    <3>1. k \in 2..Len(stack)
      BY <1>3, <2>3
    <3> QED
      BY <1>3, <2>1, <3>1 DEF Alike
  <2> QED
    BY <2>2, <2>3
<1>5. Len(stack) = Len(stack') + 0
  BY <1>3
<1> DEFINE n == 0
<1>6. n \in {0, 1} /\ Len(stack) = Len(stack') + n /\ \A k \in 1..Len(stack') : Alike((stack')[k], stack[k + n])
  BY <1>4, <1>5
<1> HIDE DEF n
<1> QED
  BY <1>1, <1>6, LinksAlike

\* A call that reads the disk.
LEMMA LoadLinks ==
    ASSUME IInv, IInv', Linking, Load
    PROVE  Linking'
<1>1. StackOK /\ stack # <<>> /\ todo = <<>> /\ disk' = disk /\ past' = past
  BY DEF IInv, Load, Loading, TodoOK
<1>2. Top \in FrameType /\ Top = stack[1] /\ stack \in Seq(FrameType)
  BY <1>1, TopIs
<1> DEFINE h == IF Top.again THEN Top.here ELSE graph_search(disk, Top.path)
           p == graph_search(disk, Front(Top.path))
           o == graph_search(disk, Top.orig)
           frame == Reading(Top, h, p, o)
<1>3. stack' = [stack EXCEPT ![1] = frame]
  <2>1. stack' = [stack EXCEPT ![1].loaded = TRUE, ![1].here = IF Top.again THEN @ ELSE graph_search(disk, Top.path),
                         ![1].parent = p, ![1].origin = o]
    BY DEF Load
  <2>2. stack' = [stack EXCEPT ![1].loaded = TRUE, ![1].here = h, ![1].parent = p, ![1].origin = o]
    <3>1. stack[1].here = Top.here
      BY <1>2
    <3> QED
      BY <2>1, <3>1
  <2> HIDE DEF h, p, o
  <2> QED
    BY <1>1, <1>2, <2>2 DEF Reading
<1>4. Alike(frame, Top)
  <2> HIDE DEF h, p, o
  <2> QED
    BY <1>2, FrameKept, FrameOrig DEF Alike
<1>5. Regular' => Regular
  BY <1>1, PastLeft
<1> HIDE DEF frame
<1> QED
  BY <1>1, <1>3, <1>4, <1>5, TopLinks

\* A call that goes on to its writes.
LEMMA WriteLinks ==
    ASSUME IInv, IInv', Linking, stack # <<>>, todo = <<>>, NEW writes, NEW ret, Write(writes, ret), Regular' => Regular
    PROVE  Linking'
<1>1. Top \in FrameType /\ Top = stack[1] /\ stack \in Seq(FrameType)
  BY TopIs DEF IInv
<1> DEFINE frame == Returning(Top, ret)
<1>2. Alike(frame, Top)
  BY <1>1, FrameKept, FrameOrig DEF Alike
<1>3. stack' = [stack EXCEPT ![1] = frame]
  BY <1>1 DEF Write, Returning
<1>4. disk' = disk
  BY DEF Write
<1> HIDE DEF frame
<1> QED
  BY <1>2, <1>3, <1>4, TopLinks

\* All calls but the innermost.
LEMMA TailLinks ==
    ASSUME IInv, IInv', Linking, stack # <<>>, stack' = Tail(stack), past' = past,
           stack' # <<>> => todo = <<>> \/ Len(stack) > 1,
           WillLink /\ graph_search(disk, Outer.orig).kind = File => graph_search(disk', Outer.orig).kind = File
    PROVE  Linking'
<1>1. stack \in Seq(FrameType) /\ stack' \in Seq(FrameType)
  BY DEF IInv, StackOK
<1>2. Len(stack) = Len(stack') + 1 /\ \A k \in 1..Len(stack') : (stack')[k] = stack[k + 1]
  BY <1>1
<1> DEFINE n == 1
<1>3. n \in {0, 1} /\ Len(stack) = Len(stack') + n /\ \A k \in 1..Len(stack') : Alike((stack')[k], stack[k + n])
  BY <1>2 DEF Alike
<1> HIDE DEF n
<1>4. Regular' => Regular
  BY PastLeft
<1> QED
  BY <1>1, <1>3, <1>4, LinksAlike

\* A path that leads somewhere after the parent of another one was not found does not
\* begin with this parent.
LEMMA MissingAside ==
    ASSUME NEW d, DiskOK(d), NEW p \in Seq(Names), NEW q \in Seq(Names),
           ~ Exists(graph_search(d, p)), graph_search(d, q).kind = File
    PROVE  ~ IsStart(p, q)
<1>1. Exists(graph_search(d, q))
  BY DEF Exists, NoNode, Node, File
<1> QED
  BY <1>1, StartExists

\* The call for the missing parent.
LEMMA ParentLinks ==
    ASSUME IInv, IInv', Linking, stack # <<>>, Top.loaded, todo = <<>>, MakeParent,
           Top.op = "hardlink" /\ Len(stack) = 1 => Origin.kind = File
    PROVE  Linking'
<1>1. StackOK /\ DiskOK(disk) /\ stack \in Seq(FrameType) /\ Top \in FrameType /\ Top = stack[1]
  BY TopIs DEF IInv
<1> DEFINE outer == Retried(Top)
           inner == Frame("mkdir", Front(Top.path), <<>>)
           rest == Tail(stack)
<1>2. stack' = <<inner, outer>> \o rest /\ disk' = disk /\ todo' = <<>> /\ past' = past /\ ~ Exists(Parent)
  BY DEF MakeParent
<1>3. inner.path = Front(Top.path)
  <2>1. Fresh(inner, "mkdir", Front(Top.path))
    BY FrameIs, Zenon
  <2> HIDE DEF inner
  <2> QED
    BY <2>1 DEF Fresh
<1>4. outer.path = Top.path /\ outer.op = Top.op /\ outer.orig = Top.orig
  BY <1>1, FrameKept, FrameOrig
<1>5. /\ Front(Top.path) \in Seq(Names) /\ Parent = graph_search(disk, Front(Top.path))
      /\ Origin = graph_search(disk, Top.orig)
  BY <1>1, TopIs DEF StackOK, Found, Parent, Origin
<1> HIDE DEF inner, outer
<1> DEFINE n == Len(stack)
<1>6. /\ n \in Nat /\ n >= 1 /\ rest \in Seq(FrameType) /\ Len(rest) = n - 1
      /\ \A k \in 1..(n - 1) : rest[k] = stack[k + 1]
  BY <1>1
<1> HIDE DEF rest
<1>7. /\ Len(stack') = 2 + Len(rest) /\ (stack')[1] = inner /\ (stack')[2] = outer
      /\ \A k \in 1..Len(rest) : (stack')[k + 2] = rest[k]
  BY <1>2, <1>6
<1> HIDE DEF n
<1>8. Len(stack') = n + 1
  BY <1>6, <1>7
<1>9. \A k \in 2..n : (stack')[k + 1] = stack[k]
  <2> TAKE k \in 2..n
  <2> DEFINE j == k - 1
  <2>1. j \in 1..(n - 1) /\ j + 1 = k /\ j + 2 = k + 1
    BY <1>6
  <2> HIDE DEF j
  <2>2. (stack')[j + 2] = rest[j] /\ rest[j] = stack[j + 1]
    BY <1>6, <1>7, <2>1
  <2> QED
    BY <2>1, <2>2
<1> SUFFICES ASSUME WillLink'
             PROVE  /\ graph_search(disk', (Outer').orig).kind = File
                    /\ \A k \in 1..(Len(stack') - 1) : ~ IsStart((stack')[k].path, (Outer').orig)
  BY DEF Linking
<1> DEFINE q == (Outer').orig
<1>10. Regular /\ (Outer').op = "hardlink" /\ (Outer').again /\ Outer' = (stack')[n + 1]
  BY <1>2, <1>8, PastLeft DEF WillLink, Outer, Last
<1>11. n # 1 => Outer' = Outer
  <2> SUFFICES ASSUME n # 1 PROVE Outer' = Outer
    OBVIOUS
  <2>1. n \in 2..n
    BY <1>6
  <2>2. (stack')[n + 1] = stack[n]
    BY <1>9, <2>1
  <2>3. Outer = stack[n]
    BY DEF Outer, Last, n
  <2> QED
    BY <1>10, <2>2, <2>3
<1>12. /\ graph_search(disk, q).kind = File /\ q \in Seq(Names)
       /\ \A k \in 1..(n - 1) : ~ IsStart(stack[k].path, q)
  <2>1. CASE n = 1
    <3>1. Outer' = outer
      <4>1. n + 1 = 2
        BY <2>1
      <4> QED
        BY <1>7, <1>10, <4>1
    <3>2. q = Top.orig /\ Top.op = "hardlink"
      BY <1>4, <1>10, <3>1
    <3>3. Top.orig \in Seq(Names)
      BY <1>1, TopIs
    <3>4. Origin.kind = File
      BY <2>1, <3>2 DEF n
    <3>5. \A k \in 1..(n - 1) : FALSE
      BY <2>1
    <3> HIDE DEF q
    <3> QED
      BY <1>5, <3>2, <3>3, <3>4, <3>5
  <2>2. CASE n # 1
    <3>1. Outer' = Outer /\ WillLink
      BY <1>10, <1>11, <2>2 DEF WillLink
    <3>2. Outer \in FrameType
      <4>1. Outer = stack[n] /\ n \in 1..Len(stack)
        BY <1>6 DEF Outer, Last, n
      <4> QED
        BY <1>1, <4>1
    <3>3. Outer.orig \in Seq(Names)
      <4> HIDE DEF Outer
      <4> QED
        BY <3>2 DEF FrameType, Frames
    <3> QED
      BY <3>1, <3>3 DEF Linking, n
  <2> QED
    BY <2>1, <2>2
<1> HIDE DEF q
<1>13. ~ IsStart(inner.path, q)
  BY <1>1, <1>2, <1>3, <1>5, <1>12, MissingAside
<1>14. ASSUME NEW k \in 1..n PROVE ~ IsStart((stack')[k].path, q)
  <2>1. CASE k = 1
    BY <1>7, <1>13, <2>1
  <2>2. CASE k = 2
    <3>1. 1 \in 1..(n - 1)
      BY <1>6, <2>2
    <3> QED
      BY <1>1, <1>4, <1>7, <1>12, <2>2, <3>1
  <2>3. CASE k \notin {1, 2}
    <3> DEFINE j == k - 1
    <3>1. j \in 2..n /\ j \in 1..(n - 1) /\ k = j + 1
      BY <1>6, <2>3
    <3> HIDE DEF j
    <3>2. (stack')[j + 1] = stack[j]
      BY <1>9, <3>1
    <3> QED
      BY <1>12, <3>1, <3>2
  <2> QED
    BY <2>1, <2>2, <2>3
<1>15. Len(stack') - 1 = n
  BY <1>6, <1>8
<1> QED
  BY <1>2, <1>12, <1>14, <1>15 DEF q

\* The writes of cr_mkdir for a directory on the way to the new name leave the file to
\* link to where it is.
LEMMA LinkStays ==
    ASSUME IInv, IInv', XInv, SInv, Linking, DiskWrite, WillLink,
           graph_search(disk, Outer.orig).kind = File
    PROVE  graph_search(disk', Outer.orig).kind = File
<1> DEFINE q == Outer.orig
           w == Head(todo)
           path == Top.path
<1>1. /\ DiskOK(disk) /\ StackOK /\ Chain(stack) /\ todo \in Seq(WriteType) /\ todo # <<>> /\ stack # <<>>
      /\ disk' = Apply(disk, w)
  BY DEF IInv, XInv, TodoOK, Pending, DiskWrite
<1>2. w \in WriteType /\ w = todo[1] /\ Len(todo) >= 1
  BY <1>1
<1>3. /\ Regular /\ Len(stack) > 1
  BY <1>1 DEF WillLink
<1>4. stack \in Seq(FrameType) /\ path \in Seq(Names) \ {<<>>} /\ Top = stack[1]
  BY <1>1, TopIs
<1>5. q \in Seq(Names)
  <2> DEFINE n == Len(stack)
  <2>1. Outer = stack[n] /\ n \in 1..Len(stack)
    BY <1>3, <1>4 DEF Outer, Last
  <2>2. Outer \in FrameType
    BY <1>4, <2>1
  <2> HIDE DEF Outer
  <2> QED
    BY <2>2 DEF FrameType, Frames
<1>6. ~ IsStart(path, q)
  <2>1. 1 \in 1..(Len(stack) - 1)
    BY <1>3, <1>4
  <2>2. ~ IsStart(stack[1].path, q)
    BY <2>1 DEF Linking
  <2> QED
    BY <1>4, <2>2
<1>7. EntriesOK(disk)
  BY <1>3 DEF IInv, Regular, Metadata
<1>8. Unshared(disk)
  BY <1>3 DEF SInv, Sharing, Unshared
<1> HIDE DEF q, path
<1>9. CASE Making(disk, path, todo)
  <2> DEFINE parent == graph_search(disk, Front(path))
  <2>1. w.op = "entry" /\ parent.kind = Dir /\ w.dir = parent.index /\ w.name = Last(path)
    BY <1>9 DEF Making
  <2>2. disk' = write_dir_block(disk, w)
    BY <1>1, <2>1 DEF Apply
  <2> HIDE DEF w, parent
  <2>3. parent = graph_search(disk, Front(path))
    BY DEF parent
  <2>4. graph_search(write_dir_block(disk, w), q) = graph_search(disk, q)
    BY <1>1, <1>2, <1>4, <1>5, <1>6, <1>7, <1>8, <2>1, <2>3, EntryAside
  <2> QED
    BY <2>2, <2>4 DEF q
<1>10. CASE MarkOnly(todo)
  <2> DEFINE b == w.block
  <2>1. w.op = "used"
    BY <1>1, <1>2, <1>10 DEF MarkOnly
  <2>2. disk' = [disk EXCEPT !.bitmap = disk.bitmap \union {b}]
    BY <1>1, <2>1 DEF Apply
  <2> HIDE DEF b
  <2>3. disk = [kind |-> disk.kind, name |-> disk.name, word |-> disk.word, bitmap |-> disk.bitmap]
    BY <1>1, DiskIs
  <2>4. (disk').kind = disk.kind /\ (disk').name = disk.name /\ (disk').word = disk.word
    BY <2>2, <2>3
  <2>5. DiskOK(disk')
    BY DEF IInv
  <2> DEFINE d == disk
             e == disk'
  <2>6. DiskOK(d) /\ DiskOK(e) /\ e.kind = d.kind /\ e.name = d.name /\ e.word = d.word
    BY <1>1, <2>4, <2>5
  <2> HIDE DEF d, e
  <2>7. graph_search(e, q) = graph_search(d, q)
    BY <1>5, <2>6, BitmapSearch
  <2> QED
    BY <2>7 DEF d, e, q
<1> QED
  BY <1>1, <1>3, <1>9, <1>10 DEF XInv, path

\* One of the writes of a call.
LEMMA DiskWriteLinks ==
    ASSUME IInv, IInv', XInv, SInv, Linking, DiskWrite
    PROVE  Linking'
<1>1. stack # <<>> /\ todo # <<>> /\ todo \in Seq(WriteType) /\ todo' = Tail(todo) /\ past' = past
  BY DEF IInv, TodoOK, Pending, DiskWrite
<1>2. stack \in Seq(FrameType) /\ stack' \in Seq(FrameType)
  BY DEF IInv, StackOK
<1>3. WillLink /\ graph_search(disk, Outer.orig).kind = File => graph_search(disk', Outer.orig).kind = File
  BY LinkStays
<1>4. CASE Len(todo) = 1
  <2>1. stack' = Tail(stack)
    BY <1>4 DEF DiskWrite
  <2>2. stack' # <<>> => Len(stack) > 1
    BY <1>2, <2>1
  <2> QED
    BY <1>1, <1>3, <2>1, <2>2, TailLinks
<1>5. CASE Len(todo) # 1
  <2>1. stack' = stack
    BY <1>5 DEF DiskWrite
  <2>2. todo' # <<>>
    <3>1. Len(todo) \in Nat /\ Len(todo) >= 1 /\ Len(todo') = Len(todo) - 1
      BY <1>1
    <3>2. Len(todo') # 0
      BY <1>5, <3>1
    <3> QED
      BY <3>2
  <2> DEFINE n == 0
  <2>3. n \in {0, 1} /\ Len(stack) = Len(stack') + n /\ \A k \in 1..Len(stack') : Alike((stack')[k], stack[k + n])
    BY <1>2, <2>1 DEF Alike
  <2> HIDE DEF n
  <2>4. Regular' => Regular
    BY <1>1, PastLeft
  <2> QED
    BY <1>2, <1>3, <2>1, <2>2, <2>3, <2>4, LinksAlike
<1> QED
  BY <1>4, <1>5

\* The file that cr_hardlink links to is a file, also when it tries again.
LEMMA OriginIs ==
    ASSUME IInv, XInv, Linking, CanLink, Regular
    PROVE  Origin.kind = File
<1>1. Running("hardlink") /\ (Top.again \/ Origin.kind = File)
  BY DEF CanLink
<1> SUFFICES ASSUME Top.again PROVE Origin.kind = File
  BY <1>1
<1>2. stack # <<>> /\ todo = <<>> /\ Len(stack) = 1 /\ StackOK /\ Top.loaded /\ Top.op = "hardlink"
  BY <1>1, OutermostIs, RunningIs DEF Running
<1>3. stack \in Seq(FrameType) /\ Top = stack[1]
  BY <1>2, TopIs
<1>4. Outer = Top
  BY <1>2, <1>3 DEF Outer, Last
<1>5. graph_search(disk, Top.orig).kind = File
  BY <1>2, <1>4 DEF Linking, WillLink
<1> QED
  BY <1>2, <1>5 DEF StackOK, Found, Origin

\* A call that returns before it writes anything.
LEMMA ReturnLinks ==
    ASSUME IInv, IInv', Linking, stack # <<>>, todo = <<>>, NEW ret, Return(ret)
    PROVE  Linking'
<1>1. stack' = Tail(stack) /\ disk' = disk /\ past' = past
  BY DEF Return
<1> QED
  BY <1>1, TailLinks

\* A call that goes on to its writes may add to what happened to the disk.
LEMMA StartGrows ==
    ASSUME IInv, Mkdir \/ Rm \/ OpenNoBlock \/ Open \/ Hardlink
    PROVE  Grown
<1> DEFINE Longer(p) ==
               /\ p.killed = past.killed /\ p.torn = past.torn /\ (past.full => p.full)
               /\ past.short \subseteq p.short /\ past.under \subseteq p.under
<1>1. past \in PastType
  BY DEF IInv
<1>2. \A b : Longer([past EXCEPT !.full = @ \/ b])
  BY <1>1 DEF PastType
<1>3. \A b : Longer([past EXCEPT !.dirs = @ \/ b])
  BY <1>1 DEF PastType
<1>4. \A u : Longer([past EXCEPT !.under = @ \union u])
  BY <1>1 DEF PastType
<1>5. \A b, u, s : Longer([past EXCEPT !.full = @ \/ b, !.under = @ \union u, !.short = @ \union s])
  BY <1>1 DEF PastType
<1>6. CASE Mkdir
  <2>1. \E b : past' = [past EXCEPT !.full = @ \/ b]
    BY <1>6 DEF Mkdir, Filled
  <2> HIDE DEF Longer
  <2>2. Longer(past')
    BY <1>2, <2>1
  <2> QED
    BY <2>2, PastGrows DEF Longer
<1>7. CASE Rm
  <2>1. \E b : past' = [past EXCEPT !.dirs = @ \/ b]
    BY <1>7 DEF Rm
  <2> HIDE DEF Longer
  <2>2. Longer(past')
    BY <1>3, <2>1
  <2> QED
    BY <2>2, PastGrows DEF Longer
<1>8. CASE OpenNoBlock
  <2>1. past' = past
    BY <1>8 DEF OpenNoBlock, Return
  <2> QED
    BY <2>1, PastLeft DEF Grown
<1>9. CASE Open
  <2> DEFINE new(b, u, s) == [past EXCEPT !.full = @ \/ b, !.under = @ \union u, !.short = @ \union s]
  <2>1. PICK b, u, s : past' = new(b, u, s)
    BY <1>9 DEF Open
  <2>2. Longer(new(b, u, s))
    BY <1>5
  <2> HIDE DEF Longer, new
  <2>3. Longer(past')
    BY <2>1, <2>2
  <2> QED
    BY <2>3, PastGrows DEF Longer
<1>10. CASE Hardlink
  <2>1. \E u : past' = [past EXCEPT !.under = @ \union u]
    BY <1>10 DEF Hardlink
  <2> HIDE DEF Longer
  <2>2. Longer(past')
    BY <1>4, <2>1
  <2> QED
    BY <2>2, PastGrows DEF Longer
<1> QED
  BY <1>6, <1>7, <1>8, <1>9, <1>10

\* What the calls in progress leave of the file to link to.
LEMMA LinksStep ==
    ASSUME IInv, IInv', XInv, SInv, Linking, [Next]_vars
    PROVE  Linking'
<1>1. CASE Call
  BY <1>1, CallLinks
<1>2. CASE Kill \/ Recursion
  <2>1. stack' = <<>>
    BY <1>2 DEF Kill, Recursion, Segfault
  <2> QED
    BY <2>1, NoneLinks
<1>3. CASE DiskWrite
  BY <1>3, DiskWriteLinks
<1>4. CASE Load
  BY <1>4, LoadLinks
<1>5. CASE MkdirExists \/ MkdirNotDir \/ MkdirNoBlock \/ RmMissing \/ OpenIsDir \/ OpenNotDir
           \/ HardlinkExists \/ HardlinkNoFile
  <2>1. \E op : Running(op) /\ Return(-1)
    BY <1>5 DEF MkdirExists, MkdirNotDir, MkdirNoBlock, RmMissing, OpenIsDir, OpenNotDir,
                HardlinkExists, HardlinkNoFile
  <2>2. stack # <<>> /\ todo = <<>> /\ Return(-1)
    BY <2>1 DEF Running
  <2> QED
    BY <2>2, ReturnLinks
<1>6. CASE MkdirParent \/ OpenParent \/ OpenNoParent \/ HardlinkParent
  <2>1. CASE \E op : Running(op) /\ MissingParent
    <3>1. stack' = <<>>
      BY <2>1 DEF MissingParent, Segfault
    <3> QED
      BY <3>1, NoneLinks
  <2>2. CASE HardlinkParent /\ MakeParent
    <3>1. stack # <<>> /\ todo = <<>> /\ Top.loaded /\ Origin.kind = File
      BY <2>2 DEF HardlinkParent, CanLink, Running, MakeParent
    <3> QED
      BY <2>2, <3>1, ParentLinks
  <2>3. CASE \E op : op # "hardlink" /\ Running(op) /\ MakeParent
    <3>1. stack # <<>> /\ todo = <<>> /\ Top.loaded /\ Top.op # "hardlink" /\ MakeParent
      BY <2>3 DEF Running
    <3> QED
      BY <3>1, ParentLinks
  <2>4. \/ \E op : Running(op) /\ MissingParent
        \/ HardlinkParent /\ MakeParent
        \/ \E op : op # "hardlink" /\ Running(op) /\ MakeParent
    BY <1>6 DEF MkdirParent, OpenParent, OpenNoParent, HardlinkParent, CanLink
  <2> QED
    BY <2>1, <2>2, <2>3, <2>4
<1>7. CASE Mkdir \/ Rm \/ OpenNoBlock \/ Open \/ Hardlink
  <2>1. \E op : Running(op)
    BY <1>7 DEF Mkdir, Rm, OpenNoBlock, Open, Hardlink, CanOpen, CanLink
  <2>2. stack # <<>> /\ todo = <<>>
    BY <2>1 DEF Running
  <2>3. (\E writes, ret : Write(writes, ret)) \/ Return(-1)
    BY <1>7 DEF Mkdir, Rm, OpenNoBlock, Open, Hardlink
  <2>4. Grown
    BY <1>7, StartGrows
  <2> QED
    BY <2>2, <2>3, <2>4, WriteLinks, ReturnLinks DEF Grown
<1>8. CASE UNCHANGED vars
  <2>1. stack' = stack /\ disk' = disk /\ todo' = todo /\ past' = past
    BY <1>8 DEF vars
  <2>2. Regular' = Regular
    BY <2>1, PastLeft
  <2> QED
    BY <2>1, <2>2 DEF Linking, WillLink, Outer
<1> QED
  BY <1>1, <1>2, <1>3, <1>4, <1>5, <1>6, <1>7, <1>8 DEF Next, Run

\* Every step keeps what is known of shared blocks, and of the file to link to.
LEMMA SharesStep == IInv /\ XInv /\ SInv /\ Linking /\ [Next]_vars => SInv' /\ Linking'
<1> SUFFICES ASSUME IInv, XInv, SInv, Linking, [Next]_vars PROVE SInv' /\ Linking'
  OBVIOUS
<1>0. IInv' /\ Linking'
  BY StepOK, LinksStep
<1>1. CASE Call
  <2>1. todo = <<>> /\ todo' = <<>> /\ disk' = disk /\ past' = past
    BY <1>1 DEF Call, IInv, TodoOK
  <2> QED
    BY <1>0, <2>1, QuietShares
<1>2. CASE Kill
  BY <1>0, <1>2, KillShares
<1>3. CASE DiskWrite
  BY <1>0, <1>3, WriteShares
<1>4. CASE Load \/ Recursion
  <2>1. stack # <<>> /\ ~ Top.loaded /\ todo' = todo /\ disk' = disk /\ past' = past
    BY <1>4 DEF Load, Recursion, Loading, Segfault
  <2>2. todo = <<>>
    BY <2>1 DEF IInv, TodoOK
  <2> QED
    BY <1>0, <2>1, <2>2, QuietShares
<1>5. CASE MkdirExists \/ MkdirNotDir \/ MkdirNoBlock \/ RmMissing \/ OpenIsDir \/ OpenNotDir
           \/ HardlinkExists \/ HardlinkNoFile
  <2>1. \E op : Running(op) /\ Return(-1)
    BY <1>5 DEF MkdirExists, MkdirNotDir, MkdirNoBlock, RmMissing, OpenIsDir, OpenNotDir,
                HardlinkExists, HardlinkNoFile
  <2>2. todo = <<>> /\ todo' = <<>> /\ disk' = disk /\ past' = past
    BY <2>1 DEF Running, Return
  <2> QED
    BY <1>0, <2>2, QuietShares
<1>6. CASE MkdirParent \/ OpenParent \/ OpenNoParent \/ HardlinkParent
  <2>1. \E op : Running(op) /\ (MakeParent \/ Segfault)
    BY <1>6 DEF MkdirParent, OpenParent, OpenNoParent, HardlinkParent, CanLink, MissingParent
  <2>2. todo = <<>> /\ todo' = <<>> /\ disk' = disk /\ past' = past
    BY <2>1 DEF Running, MakeParent, Segfault
  <2> QED
    BY <1>0, <2>2, QuietShares
<1>7. CASE Mkdir
  BY <1>0, <1>7, MkdirShares
<1>8. CASE Rm
  BY <1>0, <1>8, RmShares
<1>9. CASE OpenNoBlock
  BY <1>0, <1>9, OpenNoBlockShares
<1>10. CASE Open
  BY <1>0, <1>10, OpenShares
<1>11. CASE Hardlink
  <2>1. CanLink
    BY <1>11 DEF Hardlink
  <2>2. Regular => Origin.kind = File
    BY <2>1, OriginIs
  <2> QED
    BY <1>0, <1>11, <2>2, HardlinkShares
<1>12. CASE UNCHANGED vars
  BY <1>0, <1>12, UnchangedShares
<1> QED
  BY <1>1, <1>2, <1>3, <1>4, <1>5, <1>6, <1>7, <1>8, <1>9, <1>10, <1>11, <1>12 DEF Next, Run

\* What shares a block, what is in use and what is counted is as SInv says at every
\* step of every sequence of calls, kills included.
THEOREM SharingInductive == Spec => [](SInv /\ Linking)
<1>1. Init => SInv /\ Linking
  <2>1. Init => Linking
    BY DEF Init, Linking, WillLink
  <2> QED
    BY <2>1, InitShares
<1>2. (IInv /\ XInv) /\ (SInv /\ Linking) /\ [Next]_vars => (SInv /\ Linking)'
  BY SharesStep
<1> QED
  BY <1>1, <1>2, ExplainedInductive, PTL DEF Spec

-----------------------------------------------------------------------------
(* What the runs check of the entries that a path leads to. *)

\* An entry that a path leads to is the entry of one place.
LEMMA LiveTaken ==
    ASSUME IInv, ~ past.torn, NEW e \in Live
    PROVE  /\ <<e.dir, e.slot>> \in Taken(disk) /\ e.index \in Blocks
           /\ IndexOf(disk, <<e.dir, e.slot>>) = e.index
           /\ KindOf(disk, <<e.dir, e.slot>>) = e.kind
<1>1. DiskOK(disk) /\ EntryOf(disk, e) /\ EntriesOK(disk)
  BY LiveAre DEF IInv, Metadata
<1>2. e.index \in Blocks
  BY <1>1, EntryType DEF NodeType
<1>3. /\ e.dir \in Blocks /\ e.slot \in Slots /\ ValidAt(disk, e.dir, e.slot)
      /\ e.kind = disk.kind[e.dir][e.slot] /\ e.index = IndexAt(disk, e.dir, e.slot)
      /\ e.dir # DataBlock
  BY <1>1 DEF EntryOf, Node
<1> QED
  BY <1>2, <1>3 DEF Taken, KindOf, IndexOf, Places

\* Two entries of one place are the same.
LEMMA LivePlace ==
    ASSUME IInv, NEW e \in Live, NEW f \in Live, <<e.dir, e.slot>> = <<f.dir, f.slot>>
    PROVE  e = f
<1>1. EntryOf(disk, e) /\ EntryOf(disk, f)
  BY LiveAre
<1>2. e.dir = f.dir /\ e.slot = f.slot
  OBVIOUS
<1> QED
  BY <1>1, <1>2 DEF EntryOf

\* No block is given away while an entry leads to it: while no cause for it occurred,
\* whatever calls run, two entries lead to one block only if they are links of one file.
THEOREM BlocksNotShared == Spec => []NoSharing
<1>1. IInv /\ SInv => NoSharing
  <2> SUFFICES ASSUME IInv, SInv, Regular, NEW e \in Live, NEW f \in Live, e # f, e.index = f.index
               PROVE  e.kind = File /\ f.kind = File
    BY DEF NoSharing
  <2>1. ~ past.torn
    BY DEF Regular
  <2> DEFINE u == <<e.dir, e.slot>>
             v == <<f.dir, f.slot>>
  <2>2. u # v
    BY LivePlace
  <2>3. /\ u \in Taken(disk) /\ IndexOf(disk, u) = e.index /\ KindOf(disk, u) = e.kind
        /\ v \in Taken(disk) /\ IndexOf(disk, v) = f.index /\ KindOf(disk, v) = f.kind
    BY <2>1, LiveTaken
  <2> HIDE DEF u, v
  <2>4. \A x, y \in Taken(disk) : x # y /\ IndexOf(disk, x) = IndexOf(disk, y) => KindOf(disk, x) = File
    BY DEF SInv, Sharing
  <2> QED
    BY <2>2, <2>3, <2>4
<1> QED
  BY <1>1, Inductive, SharingInductive, PTL

\* The files that a path leads to are files of the disk.
LEMMA LinksAre ==
    ASSUME IInv, ~ past.torn, NEW i
    PROVE  Links(i) \in Nat /\ Links(i) <= NumLinks(disk, i)
<1> DEFINE L == {e \in LiveFiles : e.index = i}
           T == FilesAt(disk, i)
           place == [e \in L |-> <<e.dir, e.slot>>]
<1>1. \A e \in L : e \in Live /\ <<e.dir, e.slot>> \in T
  BY LiveTaken, Zenon DEF LiveFiles, FilesAt
<1>2. \A e, f \in L : <<e.dir, e.slot>> = <<f.dir, f.slot>> => e = f
  BY <1>1, LivePlace
<1>3. IsFiniteSet(T) /\ NumLinks(disk, i) = Cardinality(T)
  BY TakenFinite DEF NumLinks
<1>4. Links(i) = Cardinality(L)
  BY DEF Links
<1> HIDE DEF L, T
<1>5. place \in Injection(L, T)
  BY <1>1, <1>2 DEF Injection, IsInjective
<1> QED
  BY <1>3, <1>4, <1>5, FS_Injection, FS_CardinalityType

\* The link count of a file is never less than its names, so that cr_rm frees a block
\* only with the last one.
THEOREM LinksAreCounted == Spec => []LinksCounted
<1>1. IInv /\ SInv => LinksCounted
  <2> SUFFICES ASSUME IInv, SInv, todo = <<>>, Regular, past.killed \subseteq {"rm"}, NEW e \in LiveFiles
               PROVE  e.index \in Misplaced \/ Links(e.index) <= disk.word[e.index][LinkWord]
    BY DEF LinksCounted, AtRest
  <2>1. OnlyRm /\ Resting /\ ~ past.torn
    BY Rested DEF OnlyRm, Regular
  <2>2. e.index \in Blocks
    BY <2>1, LiveTaken DEF LiveFiles
  <2>3. e.index \in Misplaced \/ NumLinks(disk, e.index) <= disk.word[e.index][LinkWord]
    BY <2>1, <2>2 DEF Resting
  <2>4. disk.word[e.index][LinkWord] \in Nat /\ NumLinks(disk, e.index) \in Nat
    BY <2>2, CountIs DEF IInv
  <2>5. Links(e.index) \in Nat /\ Links(e.index) <= NumLinks(disk, e.index)
    BY <2>1, LinksAre
  <2> QED
    BY <2>3, <2>4, <2>5
<1> QED
  BY <1>1, Inductive, SharingInductive, PTL
=============================================================================
