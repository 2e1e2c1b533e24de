---------------------------- MODULE Crfs_proofs -----------------------------
(***************************************************************************)
(* Proofs about Crfs, for disks and directories of every size, every set   *)
(* of paths, and any number of calls, wherever they are killed.            *)
(***************************************************************************)
EXTENDS Crfs, Recursion_proofs, FiniteSetTheorems, TLAPS

-----------------------------------------------------------------------------
(* The inductive invariant. *)

\* What an image holds.  Every entry, whether a path leads to it or not, has the
\* number of a block where it keeps one, and each block has a word that is 0 whatever
\* is written into it, so that cr_rm frees the root along with the bitmap.
IndexAt(d, b, s) == d.word[b][IndexWord(s)]
ValidAt(d, b, s) == d.kind[b][s] \in Valid
ZeroWord == 6

DiskType ==
    [kind : [Blocks -> [Slots -> {0, 1, Dir, File}]], name : [Blocks -> [Slots -> Names]],
     word : [Blocks -> [Words -> Nat]], bitmap : SUBSET Blocks]
DiskOK(d) ==
    /\ d \in DiskType
    /\ \A b \in Blocks : \A s \in Slots : IndexAt(d, b, s) \in Blocks
    /\ \A b \in Blocks : d.word[b][ZeroWord] = 0

\* The root, the bitmap and the data of the first file are no block of an entry.  What
\* this data reads as does not matter then.
Kept == Reserved \union {DataBlock}
EntriesOK(d) == \A b \in Blocks \ {DataBlock} : \A s \in Slots : ValidAt(d, b, s) => IndexAt(d, b, s) \notin Kept

\* The node of an entry, and what a search returns.
NodeType == [kind : {0} \union Valid, index : Blocks, dir : Blocks, slot : Slots]
EntryOf(d, node) ==
    /\ node.dir \in Blocks /\ node.slot \in Slots /\ ValidAt(d, node.dir, node.slot)
    /\ node = Node(d.kind[node.dir][node.slot], IndexAt(d, node.dir, node.slot), node.dir, node.slot)
    /\ EntriesOK(d) => node.dir # DataBlock

\* Calls: only the innermost may have read the disk, and what it has found there
\* is still there until its own writes begin.  A call that tries again has found
\* nothing at its path the first time.
Frames(ops) ==
    [op : ops, path : Seq(Names) \ {<<>>}, orig : Seq(Names), loaded : BOOLEAN, again : BOOLEAN, ret : {0, -1},
     here : NodeType, parent : NodeType, origin : NodeType]
Consistent(frame) ==
    /\ frame.again => frame.here = NoNode
    /\ frame.op = "hardlink" => frame.orig # <<>>
FrameType == {frame \in Frames({"mkdir", "open", "rm", "hardlink"}) : Consistent(frame)}
Found(frame, d) ==
    /\ ~ frame.again => frame.here = graph_search(d, frame.path)
    /\ frame.parent = graph_search(d, Front(frame.path))
    /\ frame.origin = graph_search(d, frame.orig)
StackOK ==
    /\ stack \in Seq(FrameType)
    /\ \A k \in 2..Len(stack) : ~ stack[k].loaded
    /\ (stack # <<>> /\ Top.loaded /\ todo = <<>>) => Found(Top, disk)

\* The writes of a call.
WriteType ==
    [op : {"invalid"}, block : Blocks, slot : Slots]
    \union [op : {"used"}, block : Blocks \ {0}]
    \union [op : {"free"}, block : Nat, word : Nat]
    \union [op : {"links"}, block : Blocks, n : {1, -1}]
    \union [op : {"entry"}, dir : Blocks, kind : Valid, name : Names, index : Blocks]
    \union [op : {"index"}, block : Blocks \union {Full}, slot : Slots]
\* A link is taken from a block that has one, and nothing but the entry is
\* touched before.
Unlinks(w) == w.op = "links" /\ w.n = -1
Pending(d, writes) ==
    /\ writes \in Seq(WriteType)
    /\ \A i \in 1..Len(writes) : Unlinks(writes[i]) =>
          /\ d.word[writes[i].block][LinkWord] > 0
          /\ \A j \in 1..(i - 1) : writes[j].op = "invalid"
TodoOK ==
    /\ Pending(disk, todo)
    /\ todo # <<>> => stack # <<>> /\ Top.loaded

\* Why no entry leads to the root or to the bitmap.  The pointers of a block are freed
\* one after the other, and one of them is 0; before the first one, and while block 0
\* is marked and no pointer is being freed, the kept blocks are marked.
Frees(w) == w.op = "free"
Pointer(w) == Frees(w) /\ w.word > 0
Later(w) == Frees(w) /\ w.word > 2
Harmless(w) ==
    /\ w.op = "entry" => w.index \notin Kept
    /\ Frees(w) /\ w.word = 0 => w.block \notin Kept
RootFreed(writes) == \E i \in 1..Len(writes) : Frees(writes[i]) /\ writes[i].block = 0
Looping(writes) == writes # <<>> /\ Later(Head(writes))
Unbroken(writes) ==
    \A i, j \in 1..Len(writes) : i < j /\ Pointer(writes[i]) /\ Frees(writes[j]) => Later(writes[i + 1])
Marked(d, writes) ==
    0 \in d.bitmap =>
        /\ (\E i \in 1..Len(writes) : Frees(writes[i])) => RootFreed(writes)
        /\ ~ Looping(writes) => 1 \in d.bitmap /\ DataBlock \in d.bitmap
Metadata(d, writes) ==
    /\ EntriesOK(d)
    /\ \A i \in 1..Len(writes) : Harmless(writes[i])
    /\ Unbroken(writes)
    /\ Marked(d, writes)

PastType ==
    [killed : SUBSET {"mkdir", "open", "rm", "hardlink"}, torn : BOOLEAN, full : BOOLEAN,
     short : SUBSET Int, under : SUBSET Blocks, dirs : BOOLEAN]

IInv ==
    /\ DiskOK(disk) /\ StackOK /\ TodoOK
    /\ calls \in 0..MaxCalls /\ segfault \in BOOLEAN
    /\ past \in PastType
    /\ ~ past.torn => Metadata(disk, todo)

-----------------------------------------------------------------------------
(* Blocks, slots and words. *)

\* The sizes of a disk.
LEMMA Sizes ==
    /\ NSlots \in Nat /\ NSlots >= 2 /\ NBlocks \in Nat /\ NBlocks > 5
    /\ NWords \in Nat /\ NWords = 8 * NSlots /\ MaxCalls \in Nat
BY LayoutAssumption DEF NWords

\* Where an entry keeps the number of its block, and the word that is 0.
LEMMA EntryWords ==
    ASSUME NEW s \in Slots
    PROVE  /\ s \in Nat /\ IndexWord(s) \in Words /\ IndexWord(s) # LinkWord /\ IndexWord(s) # ZeroWord
           /\ \A t \in Slots : t # s => IndexWord(s) # IndexWord(t) /\ IndexWord(s) \notin (8 * t)..(8 * t + 7)
           /\ ZeroWord \in Words /\ LinkWord \in Words
BY Sizes DEF Slots, Words, IndexWord, LinkWord, ZeroWord

\* Every set of numbers that is not empty has a minimum.
LEMMA MinIs ==
    ASSUME NEW S \in SUBSET Nat, S # {}
    PROVE  Min(S) \in S /\ \A x \in S : Min(S) <= x
<1>1. \E x \in S : \A y \in S : x <= y
  BY LeastNumber
<1> QED
  BY <1>1 DEF Min

-----------------------------------------------------------------------------
(* Paths. *)

\* The entries of a block with a name.
Named(d, b, n) == {e \in Entries(d, b) : d.name[e.dir][e.slot] = n}

\* They are found by slot.
LEMMA NamedAre ==
    ASSUME NEW d, NEW b, NEW n, NEW e
    PROVE  e \in Named(d, b, n) <=>
               \E s \in Slots : /\ d.kind[b][s] \in Valid /\ d.name[b][s] = n
                                /\ e = Node(d.kind[b][s], d.word[b][IndexWord(s)], b, s)
<1>1. \A s : LET x == Node(d.kind[b][s], d.word[b][IndexWord(s)], b, s) IN x.dir = b /\ x.slot = s
  BY DEF Node
<1>2. ASSUME e \in Named(d, b, n)
      PROVE  \E s \in Slots : /\ d.kind[b][s] \in Valid /\ d.name[b][s] = n
                              /\ e = Node(d.kind[b][s], d.word[b][IndexWord(s)], b, s)
  <2>1. PICK s \in Slots : d.kind[b][s] \in Valid /\ e = Node(d.kind[b][s], d.word[b][IndexWord(s)], b, s)
    BY <1>2 DEF Named, Entries
  <2>2. d.name[e.dir][e.slot] = n
    BY <1>2 DEF Named
  <2> QED
    BY <1>1, <2>1, <2>2
<1>3. ASSUME NEW s \in Slots, d.kind[b][s] \in Valid, d.name[b][s] = n,
             e = Node(d.kind[b][s], d.word[b][IndexWord(s)], b, s)
      PROVE  e \in Named(d, b, n)
  <2>1. e \in Entries(d, b)
    BY <1>3 DEF Entries
  <2>2. d.name[e.dir][e.slot] = n
    BY <1>1, <1>3
  <2> QED
    BY <2>1, <2>2 DEF Named
<1> QED
  BY <1>2, <1>3

\* A directory leads to one of its entries with the name, if there is any.
LEMMA ChildFinds ==
    ASSUME NEW d, DiskOK(d), NEW node \in NodeType, NEW n
    PROVE  IF node.kind = Dir /\ Named(d, node.index, n) # {} THEN Child(d, node, n) \in Named(d, node.index, n)
           ELSE Child(d, node, n) = NoNode
<1> DEFINE found == Named(d, node.index, n)
           slots == {e.slot : e \in found}
<1>0. Child(d, node, n) = IF node.kind = Dir /\ found # {}
                          THEN CHOOSE e \in found : \A f \in found : e.slot <= f.slot ELSE NoNode
  BY DEF Child, Named
<1>1. CASE node.kind = Dir /\ found # {}
  <2>1. \A e \in found : e.slot \in Nat
    <3> TAKE e \in found
    <3>1. PICK s \in Slots : e = Node(d.kind[node.index][s], d.word[node.index][IndexWord(s)], node.index, s)
      BY NamedAre
    <3> QED
      BY <3>1, EntryWords DEF Node
  <2> HIDE DEF found
  <2>2. slots \in SUBSET Nat /\ slots # {}
    BY <1>1, <2>1
  <2>3. PICK m \in slots : \A k \in slots : m <= k
    <3> HIDE DEF slots
    <3> QED
      BY <2>2, LeastNumber
  <2>4. \E e \in found : \A f \in found : e.slot <= f.slot
    BY <2>3, SMTT(60)
  <2>5. Child(d, node, n) \in found
    BY <1>0, <1>1, <2>4, Zenon
  <2> QED
    BY <1>1, <2>5 DEF found
<1>2. CASE ~ (node.kind = Dir /\ found # {})
  BY <1>0, <1>2
<1> QED
  BY <1>1, <1>2

\* A name of a directory leads to an entry of the disk or nowhere.
LEMMA ChildIs ==
    ASSUME NEW d, DiskOK(d), NEW node \in NodeType, NEW n, EntriesOK(d) => node.index # DataBlock
    PROVE  Child(d, node, n) = NoNode \/ EntryOf(d, Child(d, node, n))
<1> DEFINE e == Child(d, node, n)
<1>1. CASE e \in Named(d, node.index, n)
  <2>1. node.index \in Blocks
    BY DEF NodeType
  <2>2. PICK s \in Slots : /\ d.kind[node.index][s] \in Valid
                           /\ e = Node(d.kind[node.index][s], d.word[node.index][IndexWord(s)], node.index, s)
    BY <1>1, NamedAre
  <2> HIDE DEF e
  <2>3. EntryOf(d, e)
    BY <2>1, <2>2 DEF EntryOf, ValidAt, IndexAt, Node
  <2> QED
    BY <2>3 DEF e
<1>2. CASE e \notin Named(d, node.index, n)
  BY <1>2, ChildFinds
<1> QED
  BY <1>1, <1>2

\* An entry is a node.
LEMMA EntryType ==
    ASSUME NEW d, DiskOK(d), NEW node, EntryOf(d, node)
    PROVE  /\ node \in NodeType /\ node.kind \in Valid /\ node # NoNode
           /\ EntriesOK(d) => node.index \notin Kept /\ node.index # DataBlock
<1>1. /\ node.kind = d.kind[node.dir][node.slot] /\ node.index = IndexAt(d, node.dir, node.slot)
      /\ node.kind \in Valid
  BY DEF EntryOf, Node, ValidAt
<1>2. node.index \in Blocks
  BY <1>1 DEF EntryOf, DiskOK
<1>3. EntriesOK(d) => node.index \notin Kept
  BY <1>1 DEF EntryOf, EntriesOK
<1>4. DataBlock \in Kept
  BY DEF Kept
<1>5. node \in NodeType
  BY <1>1, <1>2 DEF EntryOf, Node, NodeType
<1> QED
  BY <1>1, <1>3, <1>4, <1>5 DEF NoNode, Node, Valid, Dir, File

\* The two nodes that are no entries.
LEMMA RootType == Root \in NodeType /\ NoNode \in NodeType /\ Exists(Root)
BY Sizes DEF Root, NoNode, Node, NodeType, Valid, Dir, File, Blocks, Slots, Exists

\* What a search finds name by name: f[k] is the node of the first k names.
Follows(d, path, f) ==
    /\ f[0] = Root
    /\ \A k \in 1..Len(path) : f[k] = Child(d, f[k - 1], path[k])

\* A search goes down the path name by name.
LEMMA SearchSteps ==
    ASSUME NEW d, DiskOK(d), NEW path \in Seq(Names)
    PROVE  \E f : /\ Follows(d, path, f) /\ graph_search(d, path) = f[Len(path)]
                  /\ \A k \in 0..Len(path) : f[k] \in NodeType
                  /\ \A k \in 1..Len(path) : f[k] = NoNode \/ EntryOf(d, f[k])
<1> DEFINE S == {x \in NodeType : x = Root \/ x = NoNode \/ EntryOf(d, x)}
           n == Len(path)
           step == [k \in Nat |-> [x \in S |-> Child(d, x, path[k])]]
<1>1. Root \in S /\ n \in Nat
  BY RootType
<1>2. ASSUME NEW x \in S, NEW k
      PROVE  LET c == Child(d, x, k) IN c \in S /\ (c = NoNode \/ EntryOf(d, c))
  <2>1. EntriesOK(d) => x.index # DataBlock
    BY EntryType DEF Root, NoNode, Node, DataBlock
  <2> QED
    BY <2>1, ChildIs, EntryType, RootType
<1>3. step \in [Nat -> [S -> S]]
  <2> HIDE DEF S
  <2> QED
    BY <1>2
<1> HIDE DEF S, step, n
<1>4. PICK f : Recurs(f, n, Root, step)
  BY <1>1, <1>3, RecursionExists
<1>5. f \in [0..n -> S]
  BY <1>1, <1>3, <1>4, RecursionType
<1> DEFINE Searches(g) == g = [k \in 0..n |-> IF k = 0 THEN Root ELSE Child(d, g[k - 1], path[k])]
           search == CHOOSE g : Searches(g)
<1>6. \A k \in 0..n : f[k] = IF k = 0 THEN Root ELSE Child(d, f[k - 1], path[k])
  <2> TAKE k \in 0..n
  <2>1. f[k] = IF k = 0 THEN Root ELSE step[k][f[k - 1]]
    BY <1>4 DEF Recurs
  <2>2. k # 0 => k - 1 \in 0..n /\ k \in Nat
    BY <1>1
  <2>3. k # 0 => step[k][f[k - 1]] = Child(d, f[k - 1], path[k])
    BY <1>5, <2>2 DEF step
  <2> QED
    BY <2>1, <2>3
<1>7. Searches(f)
  <2>1. f = [k \in 0..n |-> f[k]]
    BY <1>5
  <2> QED
    BY <1>6, <2>1
<1>8. Searches(search)
  <2> HIDE DEF Searches
  <2> QED
    BY <1>7
<1>9. graph_search(d, path) = search[n]
  BY DEF graph_search, n
<1> HIDE DEF search
<1>10. \A k \in 0..n : search[k] = IF k = 0 THEN Root ELSE Child(d, search[k - 1], path[k])
  BY <1>8
<1>11. Follows(d, path, search)
  <2>1. 0 \in 0..n /\ \A k \in 1..n : k \in 0..n /\ k # 0
    BY <1>1
  <2>2. search[0] = Root /\ \A k \in 1..n : search[k] = Child(d, search[k - 1], path[k])
    BY <1>10, <2>1
  <2> QED
    BY <2>2 DEF Follows, n
<1> DEFINE Good == {k \in 0..n : search[k] \in S /\ (k # 0 => search[k] = NoNode \/ EntryOf(d, search[k]))}
<1>12. 0 \in Good
  BY <1>1, <1>10
<1>13. ASSUME NEW k \in 0..(n - 1), k \in Good
       PROVE  k + 1 \in Good
  <2> DEFINE j == k + 1
  <2>1. j \in 0..n /\ j # 0 /\ j - 1 = k
    BY <1>1
  <2> HIDE DEF j
  <2>2. search[j] = Child(d, search[k], path[j]) /\ search[k] \in S
    BY <1>10, <1>13, <2>1
  <2>3. search[j] \in S /\ (search[j] = NoNode \/ EntryOf(d, search[j]))
    BY <1>2, <2>2
  <2> QED
    BY <2>1, <2>3 DEF j
<1>14. 0..n \subseteq Good
  <2> HIDE DEF Good
  <2> QED
    BY <1>1, <1>12, <1>13, SetInduction
<1>15. \A k \in 0..n : search[k] \in NodeType
  BY <1>14 DEF S
<1>16. \A k \in 1..n : search[k] = NoNode \/ EntryOf(d, search[k])
  <2>1. \A k \in 1..n : k \in 0..n /\ k # 0
    BY <1>1
  <2> QED
    BY <1>14, <2>1
<1> QED
  BY <1>9, <1>11, <1>15, <1>16 DEF n

\* A search returns the root for the empty path, and for any other an entry of the
\* disk or nothing.
LEMMA SearchIs ==
    ASSUME NEW d, DiskOK(d), NEW path \in Seq(Names)
    PROVE  LET node == graph_search(d, path)
           IN  /\ node \in NodeType
               /\ path = <<>> => node = Root
               /\ path # <<>> => node = NoNode \/ EntryOf(d, node)
               /\ EntriesOK(d) => node.index # DataBlock
<1> DEFINE n == Len(path)
<1>1. PICK f : /\ Follows(d, path, f) /\ graph_search(d, path) = f[n]
               /\ \A k \in 0..n : f[k] \in NodeType
               /\ \A k \in 1..n : f[k] = NoNode \/ EntryOf(d, f[k])
  BY SearchSteps
<1>2. n \in Nat /\ n \in 0..n /\ (path = <<>> => n = 0) /\ (path # <<>> => n \in 1..n)
  OBVIOUS
<1>3. f[0] = Root
  BY <1>1 DEF Follows
<1>4. Root.index # DataBlock /\ NoNode.index # DataBlock
  BY DEF Root, NoNode, Node, DataBlock
<1> HIDE DEF n
<1> QED
  BY <1>1, <1>2, <1>3, <1>4, EntryType

-----------------------------------------------------------------------------
(* The writes. *)

\* The operands of a write, by its operation.
LEMMA WriteIs ==
    ASSUME NEW w \in WriteType
    PROVE  /\ w.op \in {"invalid", "used", "free", "links", "entry", "index"}
           /\ w.op = "invalid" => w.block \in Blocks /\ w.slot \in Slots
           /\ w.op = "used" => w.block \in Blocks /\ w.block # 0
           /\ w.op = "free" => w.block \in Nat /\ w.word \in Nat
           /\ w.op = "links" => w.block \in Blocks /\ w.n \in {1, -1}
           /\ w.op = "entry" => /\ w.dir \in Blocks /\ w.kind \in Valid /\ w.name \in Names
                                /\ w.index \in Blocks
           /\ w.op = "index" => w.block \in Blocks \union {Full} /\ w.slot \in Slots
BY DEF WriteType

\* The parts of a disk.
LEMMA DiskIs ==
    ASSUME NEW d, DiskOK(d)
    PROVE  /\ d = [kind |-> d.kind, name |-> d.name, word |-> d.word, bitmap |-> d.bitmap]
           /\ d.kind \in [Blocks -> [Slots -> {0, 1, Dir, File}]] /\ d.name \in [Blocks -> [Slots -> Names]]
           /\ d.word \in [Blocks -> [Words -> Nat]] /\ d.bitmap \subseteq Blocks
           /\ \A b \in Blocks : \A s \in Slots : IndexAt(d, b, s) \in Blocks
           /\ \A b \in Blocks : d.word[b][ZeroWord] = 0
BY DEF DiskOK, DiskType

\* A disk is made of its parts.
LEMMA DiskTyped ==
    ASSUME NEW kind \in [Blocks -> [Slots -> {0, 1, Dir, File}]], NEW name \in [Blocks -> [Slots -> Names]],
           NEW word \in [Blocks -> [Words -> Nat]], NEW bitmap \in SUBSET Blocks
    PROVE  [kind |-> kind, name |-> name, word |-> word, bitmap |-> bitmap] \in DiskType
BY DEF DiskType

\* A write that only marks or frees blocks.
LEMMA BitmapWritten ==
    ASSUME NEW d, DiskOK(d), NEW B \in SUBSET Blocks
    PROVE  LET e == [d EXCEPT !.bitmap = B]
           IN  DiskOK(e) /\ e.kind = d.kind /\ e.name = d.name /\ e.word = d.word /\ e.bitmap = B
<1> DEFINE e == [d EXCEPT !.bitmap = B]
<1>0. d = [kind |-> d.kind, name |-> d.name, word |-> d.word, bitmap |-> d.bitmap]
  BY DiskIs
<1>1. e = [kind |-> d.kind, name |-> d.name, word |-> d.word, bitmap |-> B]
  BY <1>0
<1>2. e \in DiskType
  BY <1>1, DiskIs DEF DiskType
<1>3. e.kind = d.kind /\ e.name = d.name /\ e.word = d.word /\ e.bitmap = B
  BY <1>1
<1> HIDE DEF e
<1>4. DiskOK(e)
  BY <1>2, <1>3 DEF DiskOK, IndexAt
<1> QED
  BY <1>3, <1>4 DEF e

\* An entry becomes invalid.
LEMMA Invalidated ==
    ASSUME NEW d, DiskOK(d), NEW b \in Blocks, NEW s \in Slots
    PROVE  LET e == [d EXCEPT !.kind[b][s] = 1]
           IN  /\ DiskOK(e) /\ e.name = d.name /\ e.word = d.word /\ e.bitmap = d.bitmap
               /\ \A c \in Blocks, t \in Slots : e.kind[c][t] = IF c = b /\ t = s THEN 1 ELSE d.kind[c][t]
<1> DEFINE e == [d EXCEPT !.kind[b][s] = 1]
<1>0. d = [kind |-> d.kind, name |-> d.name, word |-> d.word, bitmap |-> d.bitmap]
  BY DiskIs
<1>1. e = [kind |-> [d.kind EXCEPT ![b][s] = 1], name |-> d.name, word |-> d.word, bitmap |-> d.bitmap]
  BY <1>0
<1>2. e.word = d.word /\ e.name = d.name /\ e.bitmap = d.bitmap /\ e.kind = [d.kind EXCEPT ![b][s] = 1]
  BY <1>1
<1>3. \A c \in Blocks, t \in Slots : e.kind[c][t] = IF c = b /\ t = s THEN 1 ELSE d.kind[c][t]
  BY <1>2, DiskIs
<1>4. e.kind \in [Blocks -> [Slots -> {0, 1, Dir, File}]]
  BY <1>2, DiskIs
<1>5. e \in DiskType
  BY <1>1, <1>4, DiskIs DEF DiskType
<1> HIDE DEF e
<1>6. DiskOK(e)
  BY <1>2, <1>5, DiskIs DEF DiskOK, IndexAt
<1> QED
  BY <1>2, <1>3, <1>6 DEF e

\* The write of a link count.
Relinked(d, b, n) == [d EXCEPT !.word[b][LinkWord] = @ + n, !.name[b][0] = Cut[@]]

\* A link is counted or not any more, and the name of the first entry may be cut.
LEMMA Linked ==
    ASSUME NEW d, DiskOK(d), NEW b \in Blocks, NEW n \in Int, d.word[b][LinkWord] + n \in Nat
    PROVE  LET e == Relinked(d, b, n)
           IN  /\ DiskOK(e) /\ e.kind = d.kind /\ e.bitmap = d.bitmap
               /\ e.word = [d.word EXCEPT ![b][LinkWord] = d.word[b][LinkWord] + n]
<1> DEFINE e == Relinked(d, b, n)
<1>0. d = [kind |-> d.kind, name |-> d.name, word |-> d.word, bitmap |-> d.bitmap]
  BY DiskIs
<1> DEFINE Words1 == [d.word EXCEPT ![b][LinkWord] = d.word[b][LinkWord] + n]
           cut1 == Cut[d.name[b][0]]
           f == [d EXCEPT !.word = Words1]
<1>1. e = [kind |-> d.kind, name |-> [d.name EXCEPT ![b][0] = cut1], word |-> Words1, bitmap |-> d.bitmap]
  <2>1. e = [f EXCEPT !.name[b][0] = cut1]
    BY DEF Relinked
  <2> HIDE DEF e, Words1, cut1
  <2>2. f = [kind |-> d.kind, name |-> d.name, word |-> Words1, bitmap |-> d.bitmap]
    BY <1>0
  <2> HIDE DEF f
  <2> QED
    BY <2>1, <2>2
<1>2. /\ e.kind = d.kind /\ e.bitmap = d.bitmap
      /\ e.word = [d.word EXCEPT ![b][LinkWord] = d.word[b][LinkWord] + n]
      /\ e.name = [d.name EXCEPT ![b][0] = Cut[d.name[b][0]]]
  BY <1>1
<1> DEFINE v == d.word[b][LinkWord] + n
<1>3. d.word \in [Blocks -> [Words -> Nat]] /\ v \in Nat
  BY DiskIs
<1> HIDE DEF v
<1>4. e.word \in [Blocks -> [Words -> Nat]]
  <2>1. e.word = [d.word EXCEPT ![b][LinkWord] = v]
    BY <1>2 DEF v
  <2> DEFINE W == d.word
             row == [W[b] EXCEPT ![LinkWord] = v]
  <2>2. W \in [Blocks -> [Words -> Nat]]
    BY <1>3
  <2>3. e.word = [W EXCEPT ![b] = row]
    BY <2>1
  <2> HIDE DEF W, e
  <2>4. W[b] \in [Words -> Nat]
    BY <2>2
  <2>5. row \in [Words -> Nat]
    BY <1>3, <2>4
  <2> HIDE DEF row
  <2> QED
    BY <2>2, <2>3, <2>5
<1>5. \A c \in Blocks, k \in Words : k # LinkWord => e.word[c][k] = d.word[c][k]
  BY <1>2, <1>3
<1>6. e \in DiskType
  <2>1. 0 \in Slots /\ Cut \in [Names -> Names]
    BY Sizes, NamesAssumption DEF Slots
  <2>2. e.name \in [Blocks -> [Slots -> Names]]
    BY <1>2, <2>1, DiskIs
  <2>3. e = [kind |-> e.kind, name |-> e.name, word |-> e.word, bitmap |-> e.bitmap]
    BY <1>1
  <2>4. e.kind \in [Blocks -> [Slots -> {0, 1, Dir, File}]] /\ e.bitmap \in SUBSET Blocks
    BY <1>2, DiskIs
  <2> HIDE DEF e
  <2>5. [kind |-> e.kind, name |-> e.name, word |-> e.word, bitmap |-> e.bitmap] \in DiskType
    BY <1>4, <2>2, <2>4, DiskTyped
  <2> QED
    BY <2>3, <2>5
<1> HIDE DEF e
<1>7. \A c \in Blocks, t \in Slots : IndexAt(e, c, t) = IndexAt(d, c, t)
  BY <1>5, EntryWords DEF IndexAt
<1>8. \A c \in Blocks : e.word[c][ZeroWord] = 0
  <2>1. ZeroWord \in Words /\ ZeroWord # LinkWord
    BY Sizes DEF Words, ZeroWord, LinkWord
  <2> QED
    BY <1>5, <2>1, DiskIs
<1>9. DiskOK(e)
  BY <1>6, <1>7, <1>8, DiskIs DEF DiskOK
<1> QED
  BY <1>2, <1>9 DEF e

\* A disk with the entry w in slot s.
Rows(s) == (8 * s)..(8 * s + 7)
WithEntry(d, w, s, e) ==
    /\ e = [kind |-> e.kind, name |-> e.name, word |-> e.word, bitmap |-> d.bitmap]
    /\ e.kind = [d.kind EXCEPT ![w.dir][s] = w.kind]
    /\ e.name = [d.name EXCEPT ![w.dir][s] = w.name]
    /\ e.word = [d.word EXCEPT ![w.dir] = [k \in Words |->
                     IF k \in Rows(s) THEN EntryWord(s, w.name, w.index, k) ELSE d.word[w.dir][k]]]

\* The words of an entry: numbers, the block in the last, and 0 before it.
LEMMA EntryWordIs ==
    ASSUME NEW s \in Slots, NEW name \in Names, NEW index \in Blocks
    PROVE  /\ \A k \in Rows(s) : EntryWord(s, name, index, k) \in Nat
           /\ EntryWord(s, name, index, IndexWord(s)) = index
           /\ s = 0 => EntryWord(s, name, index, ZeroWord) = 0
           /\ \A k \in Rows(s) : k # LinkWord => EntryWord(s, name, index, k) \in Blocks
           /\ s = 0 => EntryWord(s, name, index, LinkWord) = Count[name]
<1>1. /\ Letters[name] \in [0..6 -> Blocks \ {1}] /\ Letters[name][6] = 0 /\ Count[name] \in Nat
  BY NamesAssumption
<1>2. s \in Nat /\ Blocks \subseteq Nat
  BY Sizes DEF Slots, Blocks
<1>3. EntryWord(s, name, index, IndexWord(s)) = index
  BY EntryWords DEF EntryWord
<1>4. ASSUME NEW k \in Rows(s)
      PROVE  /\ EntryWord(s, name, index, k) \in Nat
             /\ k # LinkWord => EntryWord(s, name, index, k) \in Blocks
  <2>1. CASE k = IndexWord(s)
    BY <1>2, <1>3, <2>1
  <2>2. CASE k # IndexWord(s) /\ k = LinkWord
    BY <1>1, <2>2 DEF EntryWord
  <2>3. CASE k # IndexWord(s) /\ k # LinkWord
    <3>1. k - 8 * s \in 0..6
      BY <1>2, <2>3 DEF Rows, IndexWord
    <3>2. EntryWord(s, name, index, k) = Letters[name][k - 8 * s]
      BY <2>3 DEF EntryWord
    <3> QED
      BY <1>1, <1>2, <3>1, <3>2
  <2> QED
    BY <2>1, <2>2, <2>3
<1>5. ASSUME s = 0
      PROVE  EntryWord(s, name, index, ZeroWord) = 0 /\ EntryWord(s, name, index, LinkWord) = Count[name]
  <2>1. ZeroWord # IndexWord(s) /\ ZeroWord # LinkWord /\ ZeroWord - 8 * s = 6 /\ LinkWord # IndexWord(s)
    BY <1>5 DEF ZeroWord, IndexWord, LinkWord
  <2> QED
    BY <1>1, <2>1 DEF EntryWord
<1> QED
  BY <1>3, <1>4, <1>5

\* What write_dir_block leaves of a directory that has room.
LEMMA EntryAdded ==
    ASSUME NEW d, DiskOK(d), NEW w, w.dir \in Blocks, FreeSlots(d, w.dir) # {}
    PROVE  \E s \in FreeSlots(d, w.dir) : WithEntry(d, w, s, write_dir_block(d, w))
<1> DEFINE s == Min(FreeSlots(d, w.dir))
<1>1. s \in FreeSlots(d, w.dir)
  <2>1. FreeSlots(d, w.dir) \in SUBSET Nat
    BY Sizes DEF FreeSlots, Slots
  <2> QED
    BY <2>1, MinIs
<1> DEFINE e == write_dir_block(d, w)
           new == [k \in Words |-> IF k \in Rows(s) THEN EntryWord(s, w.name, w.index, k) ELSE d.word[w.dir][k]]
<1>2. e = [d EXCEPT !.kind[w.dir][s] = w.kind, !.name[w.dir][s] = w.name, !.word[w.dir] = new]
  BY DEF write_dir_block, Rows
<1> HIDE DEF s, e, new
<1>4. d = [kind |-> d.kind, name |-> d.name, word |-> d.word, bitmap |-> d.bitmap]
  BY DiskIs
<1>5. e = [kind |-> [d.kind EXCEPT ![w.dir][s] = w.kind], name |-> [d.name EXCEPT ![w.dir][s] = w.name],
           word |-> [d.word EXCEPT ![w.dir] = new], bitmap |-> d.bitmap]
  BY <1>2, <1>4
<1>6. /\ e.kind = [d.kind EXCEPT ![w.dir][s] = w.kind] /\ e.name = [d.name EXCEPT ![w.dir][s] = w.name]
      /\ e.word = [d.word EXCEPT ![w.dir] = new]
      /\ e = [kind |-> e.kind, name |-> e.name, word |-> e.word, bitmap |-> d.bitmap]
  BY <1>5
<1>7. WithEntry(d, w, s, e)
  BY <1>6 DEF WithEntry, new
<1> QED
  BY <1>1, <1>7 DEF e

\* The entry that was written, and all others.
LEMMA EntryValues ==
    ASSUME NEW d, DiskOK(d), NEW w, w.dir \in Blocks, w.index \in Blocks, w.kind \in Valid, w.name \in Names,
           NEW s \in Slots, NEW e, WithEntry(d, w, s, e)
    PROVE  /\ e \in DiskType /\ e.bitmap = d.bitmap
           /\ \A b \in Blocks : \A t \in Slots :
                 /\ e.kind[b][t] = IF b = w.dir /\ t = s THEN w.kind ELSE d.kind[b][t]
                 /\ IndexAt(e, b, t) = IF b = w.dir /\ t = s THEN w.index ELSE IndexAt(d, b, t)
           /\ \A b \in Blocks : e.word[b][ZeroWord] = 0
           /\ \A b \in Blocks : b # w.dir => e.word[b] = d.word[b]
           /\ e.word[w.dir][LinkWord] = IF s = 0 THEN Count[w.name] ELSE d.word[w.dir][LinkWord]
           /\ \A k \in Words : e.word[w.dir][k] = IF k \in Rows(s) THEN EntryWord(s, w.name, w.index, k)
                                                  ELSE d.word[w.dir][k]
<1> DEFINE value(k) == IF k \in Rows(s) THEN EntryWord(s, w.name, w.index, k) ELSE d.word[w.dir][k]
<1>1. /\ e = [kind |-> e.kind, name |-> e.name, word |-> e.word, bitmap |-> d.bitmap]
      /\ e.kind = [d.kind EXCEPT ![w.dir][s] = w.kind]
      /\ e.name = [d.name EXCEPT ![w.dir][s] = w.name]
      /\ e.word = [d.word EXCEPT ![w.dir] = [k \in Words |-> value(k)]]
  BY DEF WithEntry
<1>2. /\ d.kind \in [Blocks -> [Slots -> {0, 1, Dir, File}]] /\ d.name \in [Blocks -> [Slots -> Names]]
      /\ d.word \in [Blocks -> [Words -> Nat]] /\ d.bitmap \subseteq Blocks
  BY DiskIs
<1>3. \A k \in Words : value(k) \in Nat
  <2>1. w.index \in Nat /\ \A k \in Words : d.word[w.dir][k] \in Nat
    BY <1>2, Sizes DEF Blocks
  <2> QED
    BY <2>1, EntryWordIs
<1>4. e \in DiskType
  <2>1. e.kind \in [Blocks -> [Slots -> {0, 1, Dir, File}]]
    BY <1>1, <1>2 DEF Valid
  <2>2. e.name \in [Blocks -> [Slots -> Names]]
    BY <1>1, <1>2
  <2>3. e.word \in [Blocks -> [Words -> Nat]]
    <3> DEFINE row == [k \in Words |-> value(k)]
    <3>1. e.word = [d.word EXCEPT ![w.dir] = row]
      BY <1>1
    <3>2. row \in [Words -> Nat]
      BY <1>3
    <3> HIDE DEF row
    <3> QED
      BY <1>2, <3>1, <3>2
  <2>4. e = [kind |-> e.kind, name |-> e.name, word |-> e.word, bitmap |-> d.bitmap]
    BY <1>1
  <2>5. d.bitmap \in SUBSET Blocks
    BY <1>2
  <2>6. [kind |-> e.kind, name |-> e.name, word |-> e.word, bitmap |-> d.bitmap] \in DiskType
    BY <2>1, <2>2, <2>3, <2>5, DiskTyped
  <2> QED
    BY <2>4, <2>6
<1>5. \A k \in Words : e.word[w.dir][k] = value(k)
  BY <1>1, <1>2
<1>6. \A b \in Blocks : b # w.dir => e.word[b] = d.word[b]
  BY <1>1, <1>2
<1>7. \A b \in Blocks : \A t \in Slots : e.kind[b][t] = IF b = w.dir /\ t = s THEN w.kind ELSE d.kind[b][t]
  BY <1>1, <1>2
<1>8. ASSUME NEW b \in Blocks, NEW t \in Slots
      PROVE  IndexAt(e, b, t) = IF b = w.dir /\ t = s THEN w.index ELSE IndexAt(d, b, t)
  <2>1. IndexWord(t) \in Words /\ (t # s => IndexWord(t) \notin Rows(s)) /\ IndexWord(s) \in Rows(s)
    BY EntryWords DEF Rows, IndexWord
  <2> QED
    BY <1>5, <1>6, <2>1, EntryWordIs DEF IndexAt
<1>9. ASSUME NEW b \in Blocks
      PROVE  e.word[b][ZeroWord] = 0
  <2>1. ZeroWord \in Words /\ (ZeroWord \in Rows(s) => s = 0) /\ d.word[b][ZeroWord] = 0
    BY EntryWords, DiskIs, Sizes DEF Rows, Slots, ZeroWord
  <2> QED
    BY <1>5, <1>6, <2>1, EntryWordIs
<1>10. e.word[w.dir][LinkWord] = IF s = 0 THEN Count[w.name] ELSE d.word[w.dir][LinkWord]
  <2>1. LinkWord \in Words /\ (LinkWord \in Rows(s) <=> s = 0)
    BY EntryWords, Sizes DEF Slots, LinkWord, Rows
  <2> QED
    BY <1>5, <2>1, EntryWordIs
<1>11. e.bitmap = d.bitmap
  BY <1>1
<1> QED
  BY <1>4, <1>5, <1>6, <1>7, <1>8, <1>9, <1>10, <1>11

\* An entry is written.
LEMMA EntryWritten ==
    ASSUME NEW d, DiskOK(d), NEW w \in WriteType, w.op = "entry"
    PROVE  LET e == write_dir_block(d, w)
           IN  DiskOK(e) /\ e.bitmap = d.bitmap /\ (EntriesOK(d) /\ Harmless(w) => EntriesOK(e))
<1>1. /\ w.dir \in Blocks /\ w.kind \in Valid /\ w.name \in Names /\ w.index \in Blocks
  BY WriteIs
<1>2. CASE FreeSlots(d, w.dir) = {}
  BY <1>2 DEF write_dir_block
<1>3. CASE FreeSlots(d, w.dir) # {}
  <2> DEFINE e == write_dir_block(d, w)
  <2>1. PICK s \in FreeSlots(d, w.dir) : WithEntry(d, w, s, e)
    BY <1>1, <1>3, EntryAdded
  <2>2. s \in Slots
    BY DEF FreeSlots
  <2> HIDE DEF e
  <2>3. /\ e \in DiskType /\ e.bitmap = d.bitmap
        /\ \A b \in Blocks : \A t \in Slots :
              /\ e.kind[b][t] = IF b = w.dir /\ t = s THEN w.kind ELSE d.kind[b][t]
              /\ IndexAt(e, b, t) = IF b = w.dir /\ t = s THEN w.index ELSE IndexAt(d, b, t)
        /\ \A b \in Blocks : e.word[b][ZeroWord] = 0
    BY <1>1, <2>1, <2>2, EntryValues
  <2>4. \A b \in Blocks : \A t \in Slots : IndexAt(e, b, t) \in Blocks
    BY <1>1, <2>3, DiskIs
  <2>5. DiskOK(e)
    BY <2>3, <2>4 DEF DiskOK
  <2>6. ASSUME EntriesOK(d), Harmless(w)
        PROVE  EntriesOK(e)
    <3>1. \A b \in Blocks \ {DataBlock} : \A t \in Slots : ValidAt(d, b, t) => IndexAt(d, b, t) \notin Kept
      BY <2>6 DEF EntriesOK
    <3>2. w.index \notin Kept
      BY <2>6 DEF Harmless
    <3> QED
      BY <2>3, <3>1, <3>2 DEF EntriesOK, ValidAt
  <2> QED
    BY <2>3, <2>5, <2>6 DEF e
<1> QED
  BY <1>2, <1>3

\* Where write_index_block hits the number of an entry, it hits the entry too.
LEMMA HitsEntries ==
    ASSUME NEW block \in Blocks \union {Full}, NEW slot \in Slots, NEW b \in Blocks, NEW s \in Slots,
           IndexWord(s) \in Hits(block, slot)[b]
    PROVE  8 * s \in Hits(block, slot)[b]
<1> DEFINE y == (b - block) * NSlots
           first == 8 * slot
           end == first + 1 + Direct
<1>1. /\ b \in Int /\ block \in Int /\ s \in Nat /\ slot \in Nat /\ y \in Int
      /\ Direct \in Int /\ 8 * s \in Words
  BY Sizes DEF Blocks, Slots, Direct, Words, Full
<1>2. (b - block) * NWords = 8 * y
  BY <1>1, Sizes
<1>3. Hits(block, slot)[b] = {k \in Words : 8 * y + k \in first..end}
  BY <1>2 DEF Hits
<1>4. 8 * y + (8 * s + 7) \in first..end
  BY <1>3 DEF IndexWord
<1> HIDE DEF y
<1>5. first <= 8 * y + (8 * s + 7) /\ 8 * y + (8 * s + 7) <= end
  BY <1>1, <1>4
<1>6. slot <= y + s
  BY <1>1, <1>5
<1>7. 8 * y + 8 * s \in first..end
  BY <1>1, <1>5, <1>6
<1> QED
  BY <1>1, <1>3, <1>7

\* What write_index_block leaves.
LEMMA IndexAdded ==
    ASSUME NEW d, DiskOK(d), NEW block, NEW slot
    PROVE  LET e == write_index_block(d, block, slot)
               hit == Hits(block, slot)
           IN  /\ e = [kind |-> e.kind, name |-> d.name, word |-> e.word, bitmap |-> d.bitmap]
               /\ e.word = [b \in Blocks |-> [k \in Words |->
                               IF b = block /\ k = 8 * slot + LinkWord THEN 1
                               ELSE IF k \in hit[b] THEN 0 ELSE d.word[b][k]]]
               /\ e.kind = [b \in Blocks |-> [s \in Slots |-> IF 8 * s \in hit[b] THEN 0 ELSE d.kind[b][s]]]
<1> DEFINE hit == Hits(block, slot)
           words == [b \in Blocks |-> [k \in Words |->
                        IF b = block /\ k = 8 * slot + LinkWord THEN 1
                        ELSE IF k \in hit[b] THEN 0 ELSE d.word[b][k]]]
           kinds == [b \in Blocks |-> [s \in Slots |-> IF 8 * s \in hit[b] THEN 0 ELSE d.kind[b][s]]]
           e == write_index_block(d, block, slot)
<1>1. e = [d EXCEPT !.word = words, !.kind = kinds]
  BY DEF write_index_block
<1>2. d = [kind |-> d.kind, name |-> d.name, word |-> d.word, bitmap |-> d.bitmap]
  BY DiskIs
<1> HIDE DEF hit, words, kinds, e
<1>3. e = [kind |-> kinds, name |-> d.name, word |-> words, bitmap |-> d.bitmap]
  BY <1>1, <1>2
<1>4. e = [kind |-> e.kind, name |-> d.name, word |-> e.word, bitmap |-> d.bitmap]
      /\ e.word = words /\ e.kind = kinds
  BY <1>3
<1> QED
  BY <1>4 DEF e, words, kinds, hit

\* An index block, wherever it is put.
LEMMA IndexWritten ==
    ASSUME NEW d, DiskOK(d), NEW block \in Blocks \union {Full}, NEW slot \in Slots
    PROVE  LET e == write_index_block(d, block, slot)
           IN  DiskOK(e) /\ e.bitmap = d.bitmap /\ (EntriesOK(d) => EntriesOK(e))
<1> DEFINE hit == Hits(block, slot)
           e == write_index_block(d, block, slot)
<1>1. /\ e = [kind |-> e.kind, name |-> d.name, word |-> e.word, bitmap |-> d.bitmap]
      /\ e.word = [b \in Blocks |-> [k \in Words |->
                      IF b = block /\ k = 8 * slot + LinkWord THEN 1
                      ELSE IF k \in hit[b] THEN 0 ELSE d.word[b][k]]]
      /\ e.kind = [b \in Blocks |-> [s \in Slots |-> IF 8 * s \in hit[b] THEN 0 ELSE d.kind[b][s]]]
  BY IndexAdded
<1>2. /\ d.kind \in [Blocks -> [Slots -> {0, 1, Dir, File}]] /\ d.name \in [Blocks -> [Slots -> Names]]
      /\ d.word \in [Blocks -> [Words -> Nat]] /\ d.bitmap \subseteq Blocks
  BY DiskIs
<1> HIDE DEF e, hit
<1>3. e \in DiskType
  <2>1. e.kind \in [Blocks -> [Slots -> {0, 1, Dir, File}]]
    BY <1>1, <1>2
  <2>2. e.word \in [Blocks -> [Words -> Nat]]
    BY <1>1, <1>2
  <2>3. e = [kind |-> e.kind, name |-> d.name, word |-> e.word, bitmap |-> d.bitmap]
    BY <1>1
  <2>4. d.bitmap \in SUBSET Blocks
    BY <1>2
  <2>5. [kind |-> e.kind, name |-> d.name, word |-> e.word, bitmap |-> d.bitmap] \in DiskType
    BY <1>2, <2>1, <2>2, <2>4, DiskTyped
  <2> QED
    BY <2>3, <2>5
<1>4. slot \in Nat /\ \A s \in Slots : IndexWord(s) # 8 * slot + LinkWord
  BY Sizes DEF Slots, IndexWord, LinkWord
<1>5. ASSUME NEW b \in Blocks, NEW s \in Slots
      PROVE  /\ IndexAt(e, b, s) \in Blocks
             /\ ValidAt(e, b, s) => ValidAt(d, b, s) /\ IndexAt(e, b, s) = IndexAt(d, b, s)
  <2>1. IndexWord(s) \in Words
    BY EntryWords
  <2>2. IndexAt(e, b, s) = IF IndexWord(s) \in hit[b] THEN 0 ELSE IndexAt(d, b, s)
    BY <1>1, <1>4, <2>1 DEF IndexAt
  <2>3. 0 \in Blocks
    BY Sizes DEF Blocks
  <2>4. ValidAt(e, b, s) => 8 * s \notin hit[b] /\ ValidAt(d, b, s)
    <3>1. 0 \notin Valid
      BY DEF Valid, Dir, File
    <3> QED
      BY <1>1, <3>1 DEF ValidAt
  <2>5. ValidAt(e, b, s) => IndexWord(s) \notin hit[b]
    BY <2>4, HitsEntries DEF hit
  <2> QED
    BY <2>2, <2>3, <2>4, <2>5, DiskIs
<1>6. \A b \in Blocks : e.word[b][ZeroWord] = 0
  <2>1. ZeroWord \in Words /\ ZeroWord # 8 * slot + LinkWord
    BY <1>4, Sizes DEF Words, ZeroWord, LinkWord
  <2> QED
    BY <1>1, <2>1, DiskIs
<1>7. e.bitmap = d.bitmap
  BY <1>1
<1>8. DiskOK(e)
  BY <1>3, <1>5, <1>6 DEF DiskOK
<1>9. EntriesOK(d) => EntriesOK(e)
  BY <1>5 DEF EntriesOK
<1> QED
  BY <1>7, <1>8, <1>9 DEF e

\* No write breaks the image, and only a free block that is marked or a block that
\* is freed changes the bitmap.
LEMMA Applied ==
    ASSUME NEW d, DiskOK(d), NEW w \in WriteType, Unlinks(w) => d.word[w.block][LinkWord] > 0
    PROVE  LET e == Apply(d, w)
           IN  /\ DiskOK(e) /\ (EntriesOK(d) /\ Harmless(w) => EntriesOK(e))
               /\ e.bitmap = IF w.op = "used" THEN d.bitmap \union {w.block}
                             ELSE IF w.op = "free" THEN d.bitmap \ {w.block} ELSE d.bitmap
<1>1. CASE w.op = "invalid"
  <2>1. Apply(d, w) = [d EXCEPT !.kind[w.block][w.slot] = 1]
    BY <1>1 DEF Apply
  <2>2. w.block \in Blocks /\ w.slot \in Slots
    BY <1>1, WriteIs
  <2> DEFINE e == [d EXCEPT !.kind[w.block][w.slot] = 1]
  <2>3. /\ DiskOK(e) /\ e.word = d.word /\ e.bitmap = d.bitmap
        /\ \A c \in Blocks, t \in Slots : e.kind[c][t] = IF c = w.block /\ t = w.slot THEN 1 ELSE d.kind[c][t]
    BY <2>2, Invalidated
  <2> HIDE DEF e
  <2>4. \A c \in Blocks, t \in Slots : ValidAt(e, c, t) => ValidAt(d, c, t)
    BY <2>3 DEF ValidAt, Valid, Dir, File
  <2>5. EntriesOK(d) => EntriesOK(e)
    BY <2>3, <2>4 DEF EntriesOK, IndexAt
  <2> QED
    BY <1>1, <2>1, <2>3, <2>5 DEF e
<1>2. CASE w.op = "used" \/ w.op = "free"
  <2> DEFINE B == IF w.op = "used" THEN d.bitmap \union {w.block} ELSE d.bitmap \ {w.block}
             e == [d EXCEPT !.bitmap = B]
  <2>1. Apply(d, w) = e
    BY <1>2 DEF Apply
  <2>2. B \in SUBSET Blocks
    BY <1>2, WriteIs, DiskIs
  <2>3. DiskOK(e) /\ e.kind = d.kind /\ e.word = d.word /\ e.bitmap = B
    <3> HIDE DEF B
    <3> QED
      BY <2>2, BitmapWritten
  <2> HIDE DEF e
  <2>4. EntriesOK(d) => EntriesOK(e)
    BY <2>3 DEF EntriesOK, ValidAt, IndexAt
  <2> QED
    BY <1>2, <2>1, <2>3, <2>4
<1>3. CASE w.op = "links"
  <2>1. Apply(d, w) = Relinked(d, w.block, w.n)
    BY <1>3 DEF Apply, Relinked
  <2>2. w.block \in Blocks /\ (w.n = 1 \/ w.n = -1) /\ w.n \in Int
    BY <1>3, WriteIs
  <2>3. LinkWord \in Words
    BY Sizes DEF LinkWord, Words
  <2>4. d.word[w.block][LinkWord] \in Nat
    BY <2>2, <2>3, DiskIs
  <2>5. d.word[w.block][LinkWord] + w.n \in Nat
    BY <1>3, <2>2, <2>4 DEF Unlinks
  <2> DEFINE e == Relinked(d, w.block, w.n)
             v == d.word[w.block][LinkWord] + w.n
  <2>6. /\ DiskOK(e) /\ e.kind = d.kind /\ e.bitmap = d.bitmap
        /\ e.word = [d.word EXCEPT ![w.block][LinkWord] = v]
    <3> DEFINE b == w.block
               n == w.n
    <3>1. b \in Blocks /\ n \in Int /\ d.word[b][LinkWord] + n \in Nat
      BY <2>2, <2>5
    <3> HIDE DEF b, n
    <3>2. /\ DiskOK(Relinked(d, b, n)) /\ Relinked(d, b, n).kind = d.kind
          /\ Relinked(d, b, n).bitmap = d.bitmap
          /\ Relinked(d, b, n).word = [d.word EXCEPT ![b][LinkWord] = d.word[b][LinkWord] + n]
      BY <3>1, Linked
    <3> QED
      BY <3>2 DEF b, n
  <2> HIDE DEF e, v
  <2>7. ASSUME NEW b \in Blocks, NEW s \in Slots
        PROVE  IndexAt(e, b, s) = IndexAt(d, b, s) /\ (ValidAt(e, b, s) <=> ValidAt(d, b, s))
    <3>1. IndexWord(s) \in Words /\ IndexWord(s) # LinkWord
      BY EntryWords
    <3>2. e.word[b][IndexWord(s)] = d.word[b][IndexWord(s)]
      BY <2>2, <2>6, <3>1, DiskIs
    <3> QED
      BY <2>6, <3>2 DEF IndexAt, ValidAt
  <2>8. EntriesOK(d) => EntriesOK(e)
    BY <2>7 DEF EntriesOK
  <2> QED
    BY <1>3, <2>1, <2>6, <2>8 DEF e
<1>4. CASE w.op = "entry"
  BY <1>4, EntryWritten DEF Apply
<1>5. CASE w.op = "index"
  BY <1>5, WriteIs, IndexWritten DEF Apply
<1> QED
  BY <1>1, <1>2, <1>3, <1>4, <1>5, WriteIs

-----------------------------------------------------------------------------
(* Steps. *)

\* The directory and the name of a path.
LEMMA PathIs ==
    ASSUME NEW path \in Seq(Names) \ {<<>>}
    PROVE  Front(path) \in Seq(Names) /\ Last(path) \in Names
BY DEF Front, Last

\* A new call.
LEMMA FrameTyped ==
    ASSUME NEW op \in {"mkdir", "open", "rm", "hardlink"}, NEW path \in Seq(Names) \ {<<>>},
           NEW orig \in Seq(Names), op = "hardlink" => orig # <<>>
    PROVE  Frame(op, path, orig) \in FrameType /\ ~ Frame(op, path, orig).loaded
<1> DEFINE Calls(ops, paths, P, S, T) ==
               [op : ops, path : paths, orig : P, loaded : {FALSE}, again : {FALSE}, ret : S,
                here : T, parent : T, origin : T]
           F == Frame(op, path, orig)
<1>1. None \in Calls({"none"}, {<<>>}, {<<>>}, {0}, {NoNode})
  BY DEF None
<1>2. F \in Calls({op}, {path}, {orig}, {0}, {NoNode})
  BY <1>1 DEF Frame
<1> HIDE DEF F
<1>3. F \in Frames({op}) /\ ~ F.loaded /\ ~ F.again /\ F.op = op /\ F.orig = orig
  BY <1>2, RootType DEF Frames
<1>4. F \in FrameType
  BY <1>3 DEF FrameType, Frames, Consistent
<1> QED
  BY <1>3, <1>4 DEF F

\* A call that knows what it will return, and one that has read the disk.
Returning(frame, ret) == [frame EXCEPT !.ret = ret]
Reading(frame, h, p, o) == [frame EXCEPT !.loaded = TRUE, !.here = h, !.parent = p, !.origin = o]

\* A call that knows what it will return.
LEMMA FrameReturns ==
    ASSUME NEW frame \in FrameType, NEW ret \in {0, -1}
    PROVE  LET new == Returning(frame, ret)
           IN  /\ new \in FrameType /\ new.loaded = frame.loaded /\ new.path = frame.path
               /\ new.orig = frame.orig /\ new.here = frame.here /\ new.again = frame.again
               /\ new.parent = frame.parent /\ new.origin = frame.origin
<1> DEFINE ops == {"mkdir", "open", "rm", "hardlink"}
           paths == Seq(Names) \ {<<>>}
           origs == Seq(Names)
           rets == {0, -1}
           nodes == NodeType
           B == BOOLEAN
           Calls == [op : ops, path : paths, orig : origs, loaded : B, again : B, ret : rets,
                     here : nodes, parent : nodes, origin : nodes]
           new == Returning(frame, ret)
<1>1. frame \in Calls /\ Calls = Frames(ops) /\ Consistent(frame) /\ ret \in rets
  BY DEF FrameType, Frames
<1> HIDE DEF ops, paths, origs, rets, nodes, B
<1>2. /\ new \in Calls /\ new.loaded = frame.loaded /\ new.path = frame.path
      /\ new.orig = frame.orig /\ new.here = frame.here /\ new.again = frame.again /\ new.op = frame.op
      /\ new.parent = frame.parent /\ new.origin = frame.origin
  BY <1>1 DEF Returning
<1> HIDE DEF new
<1>3. Consistent(new)
  BY <1>1, <1>2 DEF Consistent
<1> QED
  BY <1>1, <1>2, <1>3 DEF FrameType, ops, new

\* A call that will try again.
LEMMA FrameRetried ==
    ASSUME NEW frame \in FrameType, frame.here = NoNode
    PROVE  Retried(frame) \in FrameType /\ ~ Retried(frame).loaded
<1> DEFINE ops == {"mkdir", "open", "rm", "hardlink"}
           paths == Seq(Names) \ {<<>>}
           origs == Seq(Names)
           rets == {0, -1}
           nodes == NodeType
           B == BOOLEAN
           Calls == [op : ops, path : paths, orig : origs, loaded : B, again : B, ret : rets,
                     here : nodes, parent : nodes, origin : nodes]
           new == Retried(frame)
<1>1. frame \in Calls /\ Calls = Frames(ops) /\ Consistent(frame) /\ TRUE \in B /\ FALSE \in B
  BY DEF FrameType, Frames
<1> HIDE DEF ops, paths, origs, rets, nodes, B
<1>2. new \in Calls /\ ~ new.loaded /\ new.orig = frame.orig /\ new.here = frame.here /\ new.op = frame.op
  BY <1>1 DEF Retried
<1> HIDE DEF new
<1>3. Consistent(new)
  BY <1>1, <1>2 DEF Consistent
<1> QED
  BY <1>1, <1>2, <1>3 DEF FrameType, ops, new

\* A call that has read the disk.
KeepsHere(frame, h) == frame.again => h = NoNode
ReadBy(new, frame, h, p, o) ==
    /\ new \in FrameType /\ new.here = h /\ new.parent = p /\ new.origin = o
    /\ new.path = frame.path /\ new.orig = frame.orig /\ new.loaded = TRUE
    /\ new.again = frame.again
LEMMA FrameLoaded ==
    ASSUME NEW frame \in FrameType, NEW h \in NodeType, NEW p \in NodeType, NEW o \in NodeType,
           KeepsHere(frame, h)
    PROVE  ReadBy(Reading(frame, h, p, o), frame, h, p, o)
<1> DEFINE ops == {"mkdir", "open", "rm", "hardlink"}
           paths == Seq(Names) \ {<<>>}
           origs == Seq(Names)
           rets == {0, -1}
           nodes == NodeType
           B == BOOLEAN
           Calls == [op : ops, path : paths, orig : origs, loaded : B, again : B, ret : rets,
                     here : nodes, parent : nodes, origin : nodes]
           new == Reading(frame, h, p, o)
<1>1. /\ frame \in Calls /\ Calls = Frames(ops) /\ Consistent(frame) /\ TRUE \in B /\ FALSE \in B
      /\ h \in nodes /\ p \in nodes /\ o \in nodes
  BY DEF FrameType, Frames
<1> HIDE DEF ops, paths, origs, rets, nodes, B
<1>2. /\ new \in Calls /\ new.here = h /\ new.parent = p /\ new.origin = o
      /\ new.path = frame.path /\ new.orig = frame.orig /\ new.loaded = TRUE
      /\ new.again = frame.again /\ new.op = frame.op
  BY <1>1 DEF Reading
<1> HIDE DEF new
<1>3. Consistent(new)
  BY <1>1, <1>2 DEF Consistent, KeepsHere
<1> QED
  BY <1>1, <1>2, <1>3 DEF FrameType, ops, new, ReadBy

\* The calls in progress, with the innermost one replaced.
LEMMA TopReplaced ==
    ASSUME NEW s \in Seq(FrameType), s # <<>>, NEW frame \in FrameType, \A k \in 2..Len(s) : ~ s[k].loaded
    PROVE  LET t == [s EXCEPT ![1] = frame]
           IN  /\ t \in Seq(FrameType) /\ t # <<>> /\ Head(t) = frame
               /\ \A k \in 2..Len(t) : ~ t[k].loaded
OBVIOUS

\* The calls in progress, without the innermost one.
LEMMA TopRemoved ==
    ASSUME NEW s \in Seq(FrameType), s # <<>>, \A k \in 2..Len(s) : ~ s[k].loaded
    PROVE  LET t == Tail(s)
           IN  /\ t \in Seq(FrameType) /\ \A k \in 2..Len(t) : ~ t[k].loaded
               /\ t # <<>> => ~ Head(t).loaded
OBVIOUS

\* The initial disk is well formed, and has one entry, of a file, but for what the data
\* of the file reads as.
LEMMA InitDisk ==
    ASSUME Init
    PROVE  /\ DiskOK(disk) /\ EntriesOK(disk) /\ Kept \subseteq disk.bitmap
           /\ \E f \in Blocks \ Kept :
                 /\ 0 \in Blocks /\ 0 \in Slots /\ disk.kind[0][0] = File /\ IndexAt(disk, 0, 0) = f
                 /\ \A b \in Blocks \ {DataBlock}, s \in Slots : ValidAt(disk, b, s) => b = 0 /\ s = 0
                 /\ f \in disk.bitmap /\ disk.word[f][LinkWord] = 1
                 /\ \A b \in Blocks \ {0, f, DataBlock} : \A k \in Words : disk.word[b][k] = 0
<1>1. PICK f \in {2, 3}, n \in Names, data \in Data :
          disk = [kind |-> [b \in Blocks |-> [s \in Slots |->
                               CASE b = 0 /\ s = 0 -> File
                                 [] b = DataBlock -> data.kind[s]
                                 [] OTHER -> 0]],
                  name |-> [b \in Blocks |-> [s \in Slots |-> IF b = DataBlock THEN data.name[s] ELSE n]],
                  word |-> [b \in Blocks |-> [k \in Words |->
                               CASE b = 0 /\ k < 8 -> EntryWord(0, n, f, k)
                                 [] b = f /\ k \in {0, LinkWord} -> 1
                                 [] b = f /\ k = 2 -> DataBlock
                                 [] b = DataBlock -> DataWord(data, k)
                                 [] OTHER -> 0]],
                  bitmap |-> Reserved \union {f, DataBlock}]
  BY DEF Init
<1> DEFINE kinds == [b \in Blocks |-> [s \in Slots |->
                        CASE b = 0 /\ s = 0 -> File
                          [] b = DataBlock -> data.kind[s]
                          [] OTHER -> 0]]
           names == [b \in Blocks |-> [s \in Slots |-> IF b = DataBlock THEN data.name[s] ELSE n]]
           value(b, k) == CASE b = 0 /\ k < 8 -> EntryWord(0, n, f, k)
                            [] b = f /\ k \in {0, LinkWord} -> 1
                            [] b = f /\ k = 2 -> DataBlock
                            [] b = DataBlock -> DataWord(data, k)
                            [] OTHER -> 0
           words == [b \in Blocks |-> [k \in Words |-> value(b, k)]]
<1>2. disk = [kind |-> kinds, name |-> names, word |-> words, bitmap |-> Reserved \union {f, DataBlock}]
  BY <1>1
<1>3. /\ f \in Blocks \ Kept /\ 0 \in Blocks /\ 0 \in Slots /\ DataBlock \in Blocks
      /\ f # 0 /\ f # DataBlock /\ DataBlock # 0 /\ Blocks \subseteq Nat /\ LinkWord \in Words /\ LinkWord # IndexWord(0)
  BY Sizes DEF Kept, Reserved, Blocks, Slots, DataBlock, LinkWord, Words, IndexWord
<1>4. /\ data.kind \in [Slots -> {0, 1, Dir, File}] /\ data.name \in [Slots -> Names]
      /\ data.index \in [Slots -> Blocks \ {1}]
  BY DataAssumption
<1>5. ASSUME NEW k \in Words
      PROVE  /\ DataWord(data, k) \in Nat
             /\ \A s \in Slots : k = IndexWord(s) => DataWord(data, k) \in Blocks
             /\ k = ZeroWord => DataWord(data, k) = 0
  <2> DEFINE s == k \div 8
  <2>1. s \in Slots /\ k \in Rows(s) /\ (k = ZeroWord => s = 0) /\ (\A t \in Slots : k = IndexWord(t) => t = s)
    BY Sizes DEF Slots, Words, Rows, ZeroWord, IndexWord
  <2>2. DataWord(data, k) = IF data.kind[s] \in Valid THEN EntryWord(s, data.name[s], data.index[s], k) ELSE 0
    BY DEF DataWord
  <2> HIDE DEF s
  <2>3. data.name[s] \in Names /\ data.index[s] \in Blocks
    BY <1>4, <2>1
  <2>4. /\ EntryWord(s, data.name[s], data.index[s], k) \in Nat
        /\ k = IndexWord(s) => EntryWord(s, data.name[s], data.index[s], k) \in Blocks
        /\ k = ZeroWord => EntryWord(s, data.name[s], data.index[s], k) = 0
    BY <2>1, <2>3, EntryWordIs
  <2> QED
    BY <1>3, <2>1, <2>2, <2>4
<1>6. ASSUME NEW k \in Words, k < 8
      PROVE  /\ EntryWord(0, n, f, k) \in Nat
             /\ k = IndexWord(0) => EntryWord(0, n, f, k) = f
             /\ k = ZeroWord => EntryWord(0, n, f, k) = 0
  <2>1. k \in Rows(0)
    BY <1>6 DEF Rows, Words
  <2> QED
    BY <1>3, <2>1, EntryWordIs
<1>7. ASSUME NEW b \in Blocks, NEW k \in Words
      PROVE  value(b, k) \in Nat /\ (k = ZeroWord => value(b, k) = 0)
  <2>1. CASE b = 0 /\ k < 8
    BY <1>3, <1>6, <2>1
  <2>2. CASE b = f
    BY <1>3, <2>2 DEF ZeroWord, LinkWord, DataBlock
  <2>3. CASE b = DataBlock
    BY <1>3, <1>5, <2>3
  <2>4. CASE ~ (b = 0 /\ k < 8) /\ b # f /\ b # DataBlock
    BY <2>4
  <2> QED
    BY <2>1, <2>2, <2>3, <2>4
<1>8. ASSUME NEW b \in Blocks, NEW s \in Slots
      PROVE  value(b, IndexWord(s)) \in Blocks /\ (b = 0 /\ s = 0 => value(b, IndexWord(s)) = f)
  <2> DEFINE k == IndexWord(s)
  <2>0. k \in Words /\ k # LinkWord /\ k # 0 /\ k # 2 /\ (k < 8 <=> s = 0)
    BY EntryWords DEF IndexWord, LinkWord
  <2>1. CASE b = 0 /\ s = 0
    BY <1>3, <1>6, <2>0, <2>1
  <2>2. CASE b = f
    BY <1>3, <2>0, <2>2
  <2>3. CASE b = DataBlock
    BY <1>3, <1>5, <2>0, <2>3
  <2>4. CASE ~ (b = 0 /\ s = 0) /\ b # f /\ b # DataBlock
    BY <1>3, <2>0, <2>4
  <2> QED
    BY <2>1, <2>2, <2>3, <2>4
<1>9. \A b \in Blocks \ {0, f, DataBlock} : \A k \in Words : value(b, k) = 0
  OBVIOUS
<1>10. value(f, LinkWord) = 1
  BY <1>3 DEF LinkWord
<1> HIDE DEF value
<1>11. kinds \in [Blocks -> [Slots -> {0, 1, Dir, File}]]
  BY <1>4
<1>12. names \in [Blocks -> [Slots -> Names]]
  BY <1>4
<1>13. words \in [Blocks -> [Words -> Nat]]
  BY <1>7
<1>14. kinds[0][0] = File /\ \A b \in Blocks \ {DataBlock}, s \in Slots : kinds[b][s] # 0 => b = 0 /\ s = 0
  BY <1>3
<1>15. \A b \in Blocks, k \in Words : words[b][k] = value(b, k)
  OBVIOUS
<1> HIDE DEF kinds, names, words
<1>16. /\ disk.kind = kinds /\ disk.word = words /\ disk.bitmap = Reserved \union {f, DataBlock}
       /\ disk.bitmap \in SUBSET Blocks /\ disk \in DiskType
  <2>1. Reserved \union {f, DataBlock} \in SUBSET Blocks
    BY <1>3, Sizes DEF Reserved, Blocks
  <2> QED
    BY <1>2, <1>11, <1>12, <1>13, <2>1, DiskTyped
<1>17. \A b \in Blocks, s \in Slots : IndexAt(disk, b, s) = value(b, IndexWord(s))
  BY <1>15, <1>16, EntryWords DEF IndexAt
<1>18. DiskOK(disk)
  <2>1. ASSUME NEW b \in Blocks, NEW t \in Slots PROVE IndexAt(disk, b, t) \in Blocks
    BY <1>8, <1>17
  <2>2. ASSUME NEW b \in Blocks PROVE disk.word[b][ZeroWord] = 0
    <3>1. ZeroWord \in Words
      BY Sizes DEF Words, ZeroWord
    <3>2. disk.word[b][ZeroWord] = value(b, ZeroWord)
      BY <1>15, <1>16, <3>1
    <3> QED
      BY <1>7, <3>1, <3>2
  <2> QED
    BY <1>16, <2>1, <2>2 DEF DiskOK
<1>19. \A b \in Blocks \ {DataBlock}, s \in Slots : ValidAt(disk, b, s) => b = 0 /\ s = 0
  BY <1>14, <1>16 DEF ValidAt, Valid, Dir, File
<1>20. IndexAt(disk, 0, 0) = f
  BY <1>3, <1>8, <1>17
<1>21. EntriesOK(disk)
  BY <1>3, <1>19, <1>20 DEF EntriesOK
<1>22. Kept \subseteq disk.bitmap
  BY <1>16 DEF Kept
<1> QED
  BY <1>3, <1>9, <1>10, <1>14, <1>15, <1>16, <1>18, <1>19, <1>20, <1>21, <1>22

\* The initial state is well formed.
LEMMA InitOK == Init => IInv
<1> SUFFICES ASSUME Init PROVE IInv
  OBVIOUS
<1>1. DiskOK(disk) /\ EntriesOK(disk) /\ Kept \subseteq disk.bitmap
  BY InitDisk
<1>2. stack = <<>> /\ todo = <<>> /\ calls = 0 /\ segfault = FALSE
  BY DEF Init
<1>3. StackOK /\ TodoOK
  BY <1>2 DEF StackOK, TodoOK, Pending
<1>4. calls \in 0..MaxCalls
  BY <1>2, Sizes
<1>5. segfault \in BOOLEAN
  BY <1>2
<1>6. past \in PastType
  BY DEF Init, PastType
<1>7. Metadata(disk, todo)
  BY <1>1, <1>2 DEF Metadata, Marked, Unbroken, Kept, Reserved
<1> QED
  BY <1>1, <1>3, <1>4, <1>5, <1>6, <1>7 DEF IInv

\* The innermost call.
LEMMA TopIs ==
    ASSUME StackOK, stack # <<>>
    PROVE  /\ stack \in Seq(FrameType) /\ Top \in FrameType /\ Top = stack[1]
           /\ \A k \in 2..Len(stack) : ~ stack[k].loaded
           /\ Top.op \in {"mkdir", "open", "rm", "hardlink"} /\ Name \in Names
           /\ Top.path \in Seq(Names) \ {<<>>} /\ Top.orig \in Seq(Names)
           /\ Front(Top.path) \in Seq(Names)
           /\ Here \in NodeType /\ Parent \in NodeType /\ Origin \in NodeType
           /\ Top.again => Here = NoNode
           /\ Top.op = "hardlink" => Top.orig # <<>>
<1>1. /\ stack \in Seq(FrameType) /\ Top \in FrameType /\ Top = stack[1]
      /\ \A k \in 2..Len(stack) : ~ stack[k].loaded
  BY DEF StackOK, Top
<1>2. /\ Top.op \in {"mkdir", "open", "rm", "hardlink"}
      /\ Top.path \in Seq(Names) \ {<<>>} /\ Top.orig \in Seq(Names)
      /\ Here \in NodeType /\ Parent \in NodeType /\ Origin \in NodeType
      /\ Top.again => Here = NoNode
      /\ Top.op = "hardlink" => Top.orig # <<>>
  <2> HIDE DEF Top
  <2> QED
    BY <1>1 DEF FrameType, Frames, Consistent, Here, Parent, Origin
<1>3. Front(Top.path) \in Seq(Names) /\ Name \in Names
  BY <1>2, PathIs DEF Name
<1> QED
  BY <1>1, <1>2, <1>3

\* What a call that has not written yet has found.
LEMMA FoundIs ==
    ASSUME IInv, stack # <<>>, Top.loaded, todo = <<>>
    PROVE  /\ Here = NoNode \/ EntryOf(disk, Here)
           /\ Parent = Root \/ Parent = NoNode \/ EntryOf(disk, Parent)
           /\ Front(Top.path) = <<>> => Parent = Root
           /\ Top.op = "hardlink" => Origin = NoNode \/ EntryOf(disk, Origin)
<1>1. DiskOK(disk) /\ StackOK
  BY DEF IInv
<1>2. /\ Top.path \in Seq(Names) \ {<<>>} /\ Front(Top.path) \in Seq(Names) /\ Top.orig \in Seq(Names)
      /\ Top.again => Here = NoNode
      /\ Top.op = "hardlink" => Top.orig # <<>>
  BY <1>1, TopIs
<1>3. /\ ~ Top.again => Here = graph_search(disk, Top.path)
      /\ Parent = graph_search(disk, Front(Top.path))
      /\ Origin = graph_search(disk, Top.orig)
  BY <1>1 DEF StackOK, Found, Here, Parent, Origin
<1>4. graph_search(disk, Top.path) = NoNode \/ EntryOf(disk, graph_search(disk, Top.path))
  BY <1>1, <1>2, SearchIs
<1>5. LET node == graph_search(disk, Front(Top.path))
      IN  /\ Front(Top.path) = <<>> => node = Root
          /\ node = Root \/ node = NoNode \/ EntryOf(disk, node)
  BY <1>1, <1>2, SearchIs
<1>6. Top.orig # <<>> => LET node == graph_search(disk, Top.orig) IN node = NoNode \/ EntryOf(disk, node)
  BY <1>1, <1>2, SearchIs
<1> QED
  BY <1>2, <1>3, <1>4, <1>5, <1>6

\* The block that is given away is free, and not one of those that are kept if these
\* are marked; neither is the one that an entry has when the disk is full.
LEMMA BlockGiven ==
    ASSUME NEW d, DiskOK(d), ~ NoneFree(next_free_block(d.bitmap))
    PROVE  LET index == next_free_block(d.bitmap)
           IN  /\ Stored(index) \in Blocks /\ index \in Blocks \union {Full}
               /\ index # Full => index \in Blocks \ {0} /\ index \notin d.bitmap /\ Stored(index) = index
               /\ 0 \in d.bitmap
               /\ Metadata(d, <<>>) => Stored(index) \notin Kept
<1> DEFINE free == Blocks \ d.bitmap
           index == next_free_block(d.bitmap)
<1>0. 0 \in Blocks /\ (Metadata(d, <<>>) /\ 0 \in d.bitmap => Kept \subseteq d.bitmap)
  <2>1. ~ Looping(<<>>)
    BY DEF Looping
  <2> QED
    BY <2>1, Sizes DEF Metadata, Marked, Kept, Reserved, Blocks
<1>1. CASE free = {}
  <2>1. index = Full
    BY <1>1 DEF next_free_block
  <2>2. Stored(index) = NBlocks - 1
    BY <2>1 DEF Stored
  <2> QED
    BY <1>0, <1>1, <2>1, <2>2, Sizes DEF Blocks, Kept, Reserved, DataBlock
<1>2. CASE free # {}
  <2>1. index = Min(free) /\ index # 0
    BY <1>2 DEF next_free_block, NoneFree
  <2>2. free \in SUBSET Nat
    BY DEF Blocks
  <2>3. Min(free) \in free /\ \A x \in free : Min(free) <= x
    <3> HIDE DEF free
    <3> QED
      BY <1>2, <2>2, MinIs
  <2>4. 0 \notin free
    <3> SUFFICES ASSUME 0 \in free PROVE FALSE
      OBVIOUS
    <3>1. Min(free) <= 0 /\ Min(free) \in Nat
      BY <2>2, <2>3
    <3>2. Min(free) = 0
      <4> HIDE DEF free
      <4> QED
        BY <3>1
    <3> QED
      BY <2>1, <3>2
  <2>5. index \in Blocks /\ index \notin d.bitmap /\ 0 \in d.bitmap
    BY <1>0, <2>1, <2>3, <2>4
  <2> HIDE DEF index
  <2>6. index # Full /\ Stored(index) = index
    BY <2>5 DEF Blocks, Full, Stored
  <2> QED
    BY <1>0, <2>1, <2>5, <2>6 DEF index
<1> QED
  BY <1>1, <1>2

\* Writes that follow others, none of which takes a link.
LEMMA Appended ==
    ASSUME NEW d, NEW a, Pending(d, a), NEW b \in Seq(WriteType), \A i \in 1..Len(b) : ~ Unlinks(b[i])
    PROVE  Pending(d, a \o b)
<1>1. a \in Seq(WriteType) /\ Len(a) \in Nat /\ Len(b) \in Nat
  BY DEF Pending
<1>2. a \o b \in Seq(WriteType) /\ Len(a \o b) = Len(a) + Len(b)
  BY <1>1
<1>3. ASSUME NEW i \in 1..Len(a \o b), Unlinks((a \o b)[i])
      PROVE  /\ d.word[(a \o b)[i].block][LinkWord] > 0
             /\ \A j \in 1..(i - 1) : (a \o b)[j].op = "invalid"
  <2>1. i \in 1..Len(a) /\ (a \o b)[i] = a[i]
    <3>1. CASE i \in 1..Len(a)
      BY <1>1, <3>1
    <3>2. CASE i \notin 1..Len(a)
      <4>1. i - Len(a) \in 1..Len(b) /\ (a \o b)[i] = b[i - Len(a)]
        BY <1>1, <1>2, <3>2
      <4> QED
        BY <1>3, <4>1
    <3> QED
      BY <3>1, <3>2
  <2>2. \A j \in 1..(i - 1) : (a \o b)[j] = a[j]
    BY <1>1, <2>1
  <2>3. Unlinks(a[i])
    BY <1>3, <2>1
  <2> QED
    BY <2>1, <2>2, <2>3 DEF Pending
<1> QED
  BY <1>2, <1>3 DEF Pending

\* No writes.
LEMMA NonePending == ASSUME NEW d PROVE Pending(d, <<>>)
BY DEF Pending

\* One write that takes no link.
LEMMA OnePending ==
    ASSUME NEW d, NEW w \in WriteType, ~ Unlinks(w)
    PROVE  Pending(d, <<w>>) /\ <<w>> \in Seq(WriteType) /\ \A i \in 1..Len(<<w>>) : ~ Unlinks(<<w>>[i])
BY DEF Pending

\* The writes of the operations.
LEMMA WriteTyped ==
    /\ \A b \in Blocks, s \in Slots : [op |-> "invalid", block |-> b, slot |-> s] \in WriteType
    /\ \A b \in Blocks \union {Full}, s \in Slots : AddIndex(b, s) \in WriteType /\ ~ Unlinks(AddIndex(b, s))
    /\ \A b \in Blocks \ {0} : SetBit(b) \in WriteType /\ ~ Unlinks(SetBit(b))
    /\ \A b \in Nat, k \in Nat : FreeBlock(b, k) \in WriteType /\ ~ Unlinks(FreeBlock(b, k))
    /\ \A b \in Blocks, n \in {1, -1} : AddLinks(b, n) \in WriteType /\ (n = 1 => ~ Unlinks(AddLinks(b, n)))
    /\ \A b \in Blocks, k \in Valid, n \in Names, i \in Blocks :
          AddEntry(b, k, n, i) \in WriteType /\ ~ Unlinks(AddEntry(b, k, n, i))
<1>1. \A b \in Blocks, s \in Slots : [op |-> "invalid", block |-> b, slot |-> s] \in WriteType
  BY DEF WriteType
<1>2. \A b \in Blocks \union {Full}, s \in Slots : AddIndex(b, s) \in WriteType /\ ~ Unlinks(AddIndex(b, s))
  BY DEF WriteType, AddIndex, Unlinks
<1>3. \A b \in Blocks \ {0} : SetBit(b) \in WriteType /\ ~ Unlinks(SetBit(b))
  BY DEF WriteType, SetBit, Unlinks
<1>4. \A b \in Nat, k \in Nat : FreeBlock(b, k) \in WriteType /\ ~ Unlinks(FreeBlock(b, k))
  BY DEF WriteType, FreeBlock, Unlinks
<1>5. \A b \in Blocks, n \in {1, -1} : AddLinks(b, n) \in WriteType /\ (n = 1 => ~ Unlinks(AddLinks(b, n)))
  BY DEF WriteType, AddLinks, Unlinks
<1>6. \A b \in Blocks, k \in Valid, n \in Names, i \in Blocks :
          AddEntry(b, k, n, i) \in WriteType /\ ~ Unlinks(AddEntry(b, k, n, i))
  BY DEF WriteType, AddEntry, Unlinks
<1> QED
  BY <1>1, <1>2, <1>3, <1>4, <1>5, <1>6

\* What they mean for the metadata.
LEMMA WriteHarmless ==
    /\ \A node : Harmless(SetInvalid(node)) /\ ~ Frees(SetInvalid(node))
    /\ \A b, s : Harmless(AddIndex(b, s)) /\ ~ Frees(AddIndex(b, s))
    /\ \A b : Harmless(SetBit(b)) /\ ~ Frees(SetBit(b))
    /\ \A b, n : Harmless(AddLinks(b, n)) /\ ~ Frees(AddLinks(b, n))
    /\ \A b, k, n, i : ~ Frees(AddEntry(b, k, n, i)) /\ (i \notin Kept => Harmless(AddEntry(b, k, n, i)))
BY DEF Harmless, Frees, SetInvalid, AddIndex, SetBit, AddLinks, AddEntry

\* Short sequences.
LEMMA Concatenated ==
    ASSUME NEW a, NEW b, NEW c
    PROVE  <<a>> \o <<b>> = <<a, b>> /\ <<a>> \o <<b, c>> = <<a, b, c>>
<1> DEFINE s == <<a>> \o <<b>>
           t == <<a, b>>
           u == <<a>> \o <<b, c>>
           v == <<a, b, c>>
           S == {a, b, c}
<1>1. /\ s \in Seq(S) /\ t \in Seq(S) /\ Len(s) = 2 /\ Len(t) = 2
      /\ u \in Seq(S) /\ v \in Seq(S) /\ Len(u) = 3 /\ Len(v) = 3
  OBVIOUS
<1>2. s[1] = t[1] /\ s[2] = t[2] /\ u[1] = v[1] /\ u[2] = v[2] /\ u[3] = v[3]
  OBVIOUS
<1> HIDE DEF s, t, u, v, S
<1>3. (\A i \in 1..2 : s[i] = t[i]) /\ (\A i \in 1..3 : u[i] = v[i])
  BY <1>2
<1>4. s = t /\ u = v
  BY <1>1, <1>3
<1> QED
  BY <1>4 DEF s, t, u, v

\* Writes that free nothing, after others.
LEMMA MetadataAppended ==
    ASSUME NEW d, NEW a \in Seq(WriteType), Metadata(d, a), ~ Looping(a), NEW b \in Seq(WriteType),
           \A i \in 1..Len(b) : Harmless(b[i]) /\ ~ Frees(b[i])
    PROVE  Metadata(d, a \o b) /\ ~ Looping(a \o b)
<1> DEFINE s == a \o b
<1>1. /\ Len(a) \in Nat /\ Len(b) \in Nat /\ Len(s) = Len(a) + Len(b)
      /\ \A i \in 1..Len(a) : s[i] = a[i]
      /\ \A i \in 1..Len(s) : i > Len(a) => s[i] = b[i - Len(a)] /\ i - Len(a) \in 1..Len(b)
      /\ s # <<>> => Len(s) > 0 /\ Head(s) = s[1]
      /\ a # <<>> => Head(a) = a[1]
  OBVIOUS
<1> HIDE DEF s
<1>2. ASSUME NEW i \in 1..Len(s), Frees(s[i])
      PROVE  i \in 1..Len(a)
  BY <1>1, <1>2
<1>3. \A i \in 1..Len(s) : Harmless(s[i])
  <2> TAKE i \in 1..Len(s)
  <2>1. CASE i \in 1..Len(a)
    BY <1>1, <2>1 DEF Metadata
  <2>2. CASE i \notin 1..Len(a)
    BY <1>1, <2>2
  <2> QED
    BY <2>1, <2>2
<1>4. Unbroken(s)
  <2> SUFFICES ASSUME NEW i \in 1..Len(s), NEW j \in 1..Len(s), i < j, Pointer(s[i]), Frees(s[j])
               PROVE  Later(s[i + 1])
    BY DEF Unbroken
  <2>1. i \in 1..Len(a) /\ j \in 1..Len(a) /\ i + 1 \in 1..Len(a)
    BY <1>1, <1>2 DEF Pointer
  <2>2. Later(a[i + 1])
    BY <1>1, <2>1 DEF Metadata, Unbroken
  <2> QED
    BY <1>1, <2>1, <2>2
<1>5. ~ Looping(s)
  <2> SUFFICES ASSUME Looping(s) PROVE FALSE
    OBVIOUS
  <2>1. s # <<>> /\ Frees(s[1]) /\ Later(s[1]) /\ 1 \in 1..Len(s)
    BY <1>1 DEF Looping, Later
  <2>2. 1 \in 1..Len(a) /\ a # <<>>
    BY <1>1, <1>2, <2>1
  <2> QED
    BY <1>1, <2>1, <2>2 DEF Looping
<1>6. ASSUME RootFreed(a) PROVE RootFreed(s)
  <2>1. PICK i \in 1..Len(a) : Frees(a[i]) /\ a[i].block = 0
    BY <1>6 DEF RootFreed
  <2>2. i \in 1..Len(s) /\ s[i] = a[i]
    BY <1>1
  <2> QED
    BY <2>1, <2>2 DEF RootFreed
<1>7. Marked(d, s)
  <2>1. (\E i \in 1..Len(s) : Frees(s[i])) => \E i \in 1..Len(a) : Frees(a[i])
    BY <1>1, <1>2
  <2> QED
    BY <1>6, <2>1 DEF Metadata, Marked
<1> QED
  BY <1>3, <1>4, <1>5, <1>7 DEF Metadata, s

\* Writes that free nothing, by themselves.
LEMMA MetadataOf ==
    ASSUME NEW d, Metadata(d, <<>>), NEW b \in Seq(WriteType),
           \A i \in 1..Len(b) : Harmless(b[i]) /\ ~ Frees(b[i])
    PROVE  Metadata(d, b) /\ ~ Looping(b)
<1>1. <<>> \in Seq(WriteType) /\ ~ Looping(<<>>) /\ <<>> \o b = b
  BY DEF Looping
<1> QED
  BY <1>1, MetadataAppended

\* One write after others.
LEMMA MetadataOne ==
    ASSUME NEW d, NEW a \in Seq(WriteType), Metadata(d, a), ~ Looping(a), NEW w \in WriteType,
           Harmless(w), ~ Frees(w)
    PROVE  Metadata(d, a \o <<w>>) /\ ~ Looping(a \o <<w>>)
<1>1. <<w>> \in Seq(WriteType) /\ \A i \in 1..Len(<<w>>) : Harmless(<<w>>[i]) /\ ~ Frees(<<w>>[i])
  OBVIOUS
<1> QED
  BY <1>1, MetadataAppended

\* Two writes and then others.
LEMMA Followed2 ==
    ASSUME NEW T, NEW a \in T, NEW b \in T, NEW P \in Seq(T)
    PROVE  LET s == <<a>> \o (<<b>> \o P)
           IN  /\ s \in Seq(T) /\ Len(s) = Len(P) + 2 /\ s[1] = a /\ s[2] = b
               /\ \A i \in 3..(Len(P) + 2) : s[i] = P[i - 2]
<1> DEFINE t == <<b>> \o P
           s == <<a>> \o t
<1>1. t \in Seq(T) /\ Len(t) = Len(P) + 1 /\ t[1] = b /\ \A i \in 2..(Len(P) + 1) : t[i] = P[i - 1]
  OBVIOUS
<1> HIDE DEF t
<1>2. s \in Seq(T) /\ Len(s) = Len(t) + 1 /\ s[1] = a /\ \A i \in 2..(Len(t) + 1) : s[i] = t[i - 1]
  BY <1>1
<1> HIDE DEF s
<1>3. Len(P) \in Nat /\ Len(s) = Len(P) + 2
  BY <1>1, <1>2
<1>4. s[2] = b
  BY <1>1, <1>2, <1>3
<1>5. ASSUME NEW i \in 3..(Len(P) + 2) PROVE s[i] = P[i - 2]
  <2>1. i \in 2..(Len(t) + 1) /\ i - 1 \in 2..(Len(P) + 1) /\ (i - 1) - 1 = i - 2
    BY <1>1, <1>3
  <2> QED
    BY <1>1, <1>2, <2>1
<1> QED
  BY <1>2, <1>3, <1>4, <1>5 DEF s, t

\* The writes of cr_rm for a file that has no other name: its entry, its block, and the
\* pointers that its block holds, one after the other.
LEMMA RmForm ==
    ASSUME DiskOK(disk), NEW node, node.dir \in Blocks, node.slot \in Slots, node.index \in Blocks, ~ Shared(node)
    PROVE  LET s == RmWrites(node)
           IN  /\ s \in Seq(WriteType) /\ Len(s) = NWords /\ s[1] = SetInvalid(node)
               /\ s[2] = FreeBlock(node.index, 0)
               /\ \A i \in 3..NWords : s[i] = FreeBlock(disk.word[node.index][i - 1], i - 1)
<1> DEFINE P == Freed(disk, node.index)
           n == NWords - 2
<1>1. n \in Nat /\ n + 2 = NWords /\ NWords \in Nat
  BY Sizes
<1>2. \A k \in 1..n : k + 1 \in Words /\ disk.word[node.index][k + 1] \in Nat /\ k + 1 \in Nat
  <2>1. \A k \in 1..n : k + 1 \in Words
    BY <1>1 DEF Words
  <2> QED
    BY <2>1, DiskIs
<1>3. P = [k \in 1..n |-> FreeBlock(disk.word[node.index][k + 1], k + 1)]
  BY DEF Freed, Pointers
<1> HIDE DEF P
<1>4. P \in Seq(WriteType) /\ Len(P) = n
  <2>1. \A k \in 1..n : FreeBlock(disk.word[node.index][k + 1], k + 1) \in WriteType
    BY <1>2, WriteTyped
  <2>2. P \in [1..n -> WriteType]
    BY <1>3, <2>1
  <2> HIDE DEF n
  <2> QED
    BY <1>1, <2>2
<1>5. SetInvalid(node) \in WriteType /\ FreeBlock(node.index, 0) \in WriteType
  <2>1. node.index \in Nat
    BY DEF Blocks
  <2> QED
    BY <2>1, WriteTyped DEF SetInvalid
<1> DEFINE s == <<SetInvalid(node)>> \o (<<FreeBlock(node.index, 0)>> \o P)
<1>6. /\ s \in Seq(WriteType) /\ Len(s) = n + 2 /\ s[1] = SetInvalid(node) /\ s[2] = FreeBlock(node.index, 0)
      /\ \A i \in 3..(n + 2) : s[i] = P[i - 2]
  <2> DEFINE a == SetInvalid(node)
             b == FreeBlock(node.index, 0)
  <2>1. a \in WriteType /\ b \in WriteType
    BY <1>5
  <2> HIDE DEF a, b, n
  <2> QED
    BY <1>4, <2>1, Followed2 DEF a, b
<1>7. RmWrites(node) = s
  BY DEF RmWrites, P
<1> HIDE DEF s
<1>8. ASSUME NEW i \in 3..NWords PROVE s[i] = FreeBlock(disk.word[node.index][i - 1], i - 1)
  <2>1. i \in 3..(n + 2) /\ i - 2 \in 1..n /\ (i - 2) + 1 = i - 1
    BY <1>1
  <2> QED
    BY <1>3, <1>6, <2>1
<1> QED
  BY <1>1, <1>6, <1>7, <1>8

\* With the pointers of a block goes always a 0, so that the root is freed too.
LEMMA RmMetadata ==
    ASSUME DiskOK(disk), Metadata(disk, <<>>), NEW node, EntryOf(disk, node)
    PROVE  Metadata(disk, RmWrites(node)) /\ ~ Looping(RmWrites(node))
<1>1. node.dir \in Blocks /\ node.slot \in Slots /\ node.index \in Blocks \ Kept
  BY EntryType DEF NodeType, Metadata
<1>2. CASE Shared(node)
  <2> DEFINE a == SetInvalid(node)
             b == AddLinks(node.index, -1)
  <2>1. RmWrites(node) = <<a>> \o <<b>>
    BY <1>2 DEF RmWrites
  <2>2. a \in WriteType /\ b \in WriteType
    BY <1>1, WriteTyped DEF SetInvalid
  <2>3. Harmless(a) /\ Harmless(b) /\ ~ Frees(a) /\ ~ Frees(b)
    BY WriteHarmless
  <2> HIDE DEF a, b
  <2>4. <<a>> \o <<b>> \in Seq(WriteType) /\ \A i \in 1..Len(<<a>> \o <<b>>) : (<<a>> \o <<b>>)[i] \in {a, b}
    BY <2>2
  <2>5. \A i \in 1..Len(<<a>> \o <<b>>) : Harmless((<<a>> \o <<b>>)[i]) /\ ~ Frees((<<a>> \o <<b>>)[i])
    BY <2>3, <2>4
  <2> QED
    BY <2>1, <2>4, <2>5, MetadataOf
<1>3. CASE ~ Shared(node)
  <2> DEFINE s == RmWrites(node)
             word(i) == disk.word[node.index][i]
  <2>1. /\ s \in Seq(WriteType) /\ Len(s) = NWords /\ s[1] = SetInvalid(node)
        /\ s[2] = FreeBlock(node.index, 0)
        /\ \A i \in 3..NWords : s[i] = FreeBlock(word(i - 1), i - 1)
    BY <1>1, <1>3, RmForm
  <2>2. NWords \in Nat /\ NWords > 8 /\ ZeroWord + 1 \in 3..NWords /\ word((ZeroWord + 1) - 1) = 0
    <3>1. ZeroWord \in Nat /\ (ZeroWord + 1) - 1 = ZeroWord
      BY DEF ZeroWord
    <3>2. word(ZeroWord) = 0
      BY <1>1, DiskIs
    <3>3. word((ZeroWord + 1) - 1) = 0
      BY <3>1, <3>2
    <3>4. NWords \in Nat /\ NWords > 8 /\ ZeroWord + 1 \in 3..NWords
      BY Sizes DEF ZeroWord
    <3> QED
      BY <3>3, <3>4
  <2> HIDE DEF s, word
  <2>3. /\ ~ Frees(s[1]) /\ Harmless(s[1]) /\ Harmless(s[2]) /\ s[2].word = 0
    BY <1>1, <2>1, WriteHarmless DEF FreeBlock, Frees, Harmless
  <2>4. ASSUME NEW i \in 3..NWords
        PROVE  Frees(s[i]) /\ Later(s[i]) = (i - 1 > 2) /\ Harmless(s[i]) /\ s[i].block = word(i - 1)
    <3> DEFINE k == i - 1
               x == word(k)
    <3>1. s[i] = FreeBlock(x, k)
      BY <2>1
    <3>2. k \in Nat /\ k > 1
      BY <2>2
    <3> HIDE DEF k, x
    <3>3. s[i].op = "free" /\ s[i].block = x /\ s[i].word = k
      BY <3>1 DEF FreeBlock
    <3>4. Frees(s[i]) /\ Later(s[i]) = (k > 2) /\ Harmless(s[i]) /\ s[i].block = x
      BY <3>2, <3>3 DEF Frees, Later, Harmless
    <3> QED
      BY <3>4 DEF k, x
  <2>5. \A i \in 1..Len(s) : i = 1 \/ i = 2 \/ i \in 3..NWords
    BY <2>1, <2>2
  <2>6. \A i \in 1..Len(s) : Harmless(s[i])
    BY <2>3, <2>4, <2>5
  <2>7. Unbroken(s)
    <3> SUFFICES ASSUME NEW i \in 1..Len(s), NEW j \in 1..Len(s), i < j, Pointer(s[i]), Frees(s[j])
                 PROVE  Later(s[i + 1])
      BY DEF Unbroken
    <3>1. i # 1 /\ i # 2
      BY <2>3 DEF Pointer
    <3>2. i + 1 \in 3..NWords /\ (i + 1) - 1 > 2
      BY <2>1, <2>2, <2>5, <3>1
    <3> QED
      BY <2>4, <3>2
  <2>8. RootFreed(s)
    <3> DEFINE i == ZeroWord + 1
    <3>1. i \in 3..NWords /\ word(i - 1) = 0
      BY <2>2
    <3> HIDE DEF i
    <3>2. i \in 1..Len(s) /\ Frees(s[i]) /\ s[i].block = 0
      BY <2>1, <2>2, <2>4, <3>1
    <3> QED
      BY <3>2 DEF RootFreed
  <2>9. ~ Looping(s)
    <3>1. s # <<>> => Head(s) = s[1]
      BY <2>1
    <3> QED
      BY <2>3, <3>1 DEF Looping, Later
  <2>10. Marked(disk, s)
    <3>1. ~ Looping(<<>>)
      BY DEF Looping
    <3> QED
      BY <2>8, <3>1 DEF Metadata, Marked
  <2>11. Metadata(disk, s)
    BY <2>6, <2>7, <2>10 DEF Metadata
  <2> QED
    BY <2>9, <2>11 DEF s
<1> QED
  BY <1>2, <1>3

\* The next write leaves what is said of the metadata: while a pointer is freed and
\* block 0 is marked, the next write frees a pointer too.
LEMMA MetadataWritten ==
    ASSUME NEW d, DiskOK(d), NEW writes \in Seq(WriteType), writes # <<>>, Metadata(d, writes),
           Unlinks(Head(writes)) => d.word[Head(writes).block][LinkWord] > 0
    PROVE  Metadata(Apply(d, Head(writes)), Tail(writes))
<1> DEFINE w == Head(writes)
           t == Tail(writes)
           e == Apply(d, w)
<1>1. /\ Len(writes) \in Nat /\ 1 \in 1..Len(writes) /\ w = writes[1] /\ w \in WriteType
      /\ Len(t) = Len(writes) - 1 /\ \A i \in 1..Len(t) : t[i] = writes[i + 1] /\ i + 1 \in 1..Len(writes)
      /\ t # <<>> => Head(t) = t[1] /\ 1 \in 1..Len(t)
  OBVIOUS
<1>2. Harmless(w)
  BY <1>1 DEF Metadata
<1>3. EntriesOK(e) /\ e.bitmap = IF w.op = "used" THEN d.bitmap \union {w.block}
                                  ELSE IF w.op = "free" THEN d.bitmap \ {w.block} ELSE d.bitmap
  BY <1>1, <1>2, Applied DEF Metadata
<1> HIDE DEF e, w, t
<1>4. \A i \in 1..Len(t) : Harmless(t[i])
  BY <1>1 DEF Metadata
<1>5. Unbroken(t)
  <2> SUFFICES ASSUME NEW i \in 1..Len(t), NEW j \in 1..Len(t), i < j, Pointer(t[i]), Frees(t[j])
               PROVE  Later(t[i + 1])
    BY DEF Unbroken
  <2> DEFINE k == i + 1
             m == j + 1
  <2>1. k \in 1..Len(writes) /\ m \in 1..Len(writes) /\ k < m /\ Pointer(writes[k]) /\ Frees(writes[m])
    BY <1>1
  <2>2. k \in 1..Len(t) /\ t[k] = writes[k + 1]
    BY <1>1
  <2> HIDE DEF k, m
  <2>3. Later(writes[k + 1])
    BY <2>1 DEF Metadata, Unbroken
  <2> QED
    BY <2>2, <2>3 DEF k
<1>6. ASSUME 0 \in e.bitmap
      PROVE  /\ (\E i \in 1..Len(t) : Frees(t[i])) => RootFreed(t)
             /\ ~ Looping(t) => 1 \in e.bitmap /\ DataBlock \in e.bitmap
  <2>1. 0 \in d.bitmap /\ ~ (Frees(w) /\ w.block = 0)
    BY <1>1, <1>3, <1>6, WriteIs DEF Frees
  <2>2. (\E i \in 1..Len(writes) : Frees(writes[i])) => RootFreed(writes)
    BY <2>1 DEF Metadata, Marked
  <2>3. ASSUME RootFreed(writes) PROVE RootFreed(t)
    <3>1. PICK j \in 1..Len(writes) : Frees(writes[j]) /\ writes[j].block = 0
      BY <2>3 DEF RootFreed
    <3>2. j # 1
      BY <1>1, <2>1, <3>1
    <3> DEFINE i == j - 1
    <3>3. i \in 1..Len(t) /\ i + 1 = j
      BY <1>1, <3>2
    <3> HIDE DEF i
    <3>4. t[i] = writes[j]
      BY <1>1, <3>3
    <3> QED
      BY <3>1, <3>3, <3>4 DEF RootFreed
  <2>4. (\E i \in 1..Len(t) : Frees(t[i])) => RootFreed(t)
    BY <1>1, <2>2, <2>3
  <2>5. ASSUME ~ Looping(t)
        PROVE  1 \in e.bitmap /\ DataBlock \in e.bitmap
    <3>1. ~ Pointer(w)
      <4> SUFFICES ASSUME Pointer(w) PROVE FALSE
        OBVIOUS
      <4>1. RootFreed(writes)
        BY <1>1, <2>2 DEF Pointer
      <4>2. PICK j \in 1..Len(writes) : Frees(writes[j]) /\ writes[j].block = 0
        BY <4>1 DEF RootFreed
      <4>3. j > 1
        BY <1>1, <2>1, <4>2
      <4>4. Later(writes[1 + 1])
        BY <1>1, <4>2, <4>3 DEF Metadata, Unbroken
      <4>5. t # <<>> /\ t[1] = writes[1 + 1]
        BY <1>1, <4>3
      <4> QED
        BY <1>1, <2>5, <4>4, <4>5 DEF Looping
    <3>2. ~ Looping(writes)
      <4>1. w.op = "free" => w.word \in Nat
        BY <1>1, WriteIs
      <4> QED
        BY <3>1, <4>1 DEF Looping, Later, Pointer, Frees, w
    <3>3. 1 \in d.bitmap /\ DataBlock \in d.bitmap
      BY <2>1, <3>2 DEF Metadata, Marked
    <3>4. Frees(w) => w.block \notin Kept
      <4>1. w.op = "free" => w.word \in Nat
        BY <1>1, WriteIs
      <4> QED
        BY <1>2, <3>1, <4>1 DEF Pointer, Frees, Harmless
    <3> QED
      BY <1>3, <3>3, <3>4 DEF Kept, Reserved, Frees
  <2> QED
    BY <2>4, <2>5
<1>7. Metadata(e, t)
  BY <1>3, <1>4, <1>5, <1>6 DEF Metadata, Marked
<1> QED
  BY <1>7 DEF e, w, t

\* The writes of cr_rm.
LEMMA RmPending ==
    ASSUME DiskOK(disk), NEW node, EntryOf(disk, node)
    PROVE  Pending(disk, RmWrites(node))
<1>1. node.dir \in Blocks /\ node.slot \in Slots /\ node.index \in Blocks
  BY EntryType DEF NodeType
<1>2. SetInvalid(node) \in WriteType /\ SetInvalid(node).op = "invalid" /\ ~ Unlinks(SetInvalid(node))
  <2>1. SetInvalid(node) \in WriteType
    BY <1>1, WriteTyped DEF SetInvalid
  <2> QED
    BY <2>1 DEF SetInvalid, Unlinks
<1>3. CASE Shared(node)
  <2> DEFINE w == AddLinks(node.index, -1)
  <2>1. w \in WriteType
    BY <1>1, WriteTyped
  <2>2. w.block = node.index /\ disk.word[node.index][LinkWord] > 1
    BY <1>3 DEF AddLinks, Shared
  <2>3. disk.word[node.index][LinkWord] \in Nat
    <3>1. LinkWord \in Words
      BY Sizes DEF Words, LinkWord
    <3> QED
      BY <1>1, <3>1, DiskIs
  <2>4. disk.word[w.block][LinkWord] > 0
    <3> HIDE DEF w
    <3> QED
      BY <2>2, <2>3
  <2>5. RmWrites(node) = <<SetInvalid(node), w>>
    <3>1. RmWrites(node) = <<SetInvalid(node)>> \o <<w>>
      BY <1>3 DEF RmWrites
    <3> HIDE DEF w
    <3> QED
      BY <3>1, Concatenated
  <2> HIDE DEF w
  <2> QED
    BY <1>2, <2>1, <2>4, <2>5 DEF Pending
<1>4. CASE ~ Shared(node)
  <2> DEFINE s == RmWrites(node)
  <2>1. /\ s \in Seq(WriteType) /\ Len(s) = NWords /\ s[1] = SetInvalid(node)
        /\ s[2] = FreeBlock(node.index, 0)
        /\ \A i \in 3..NWords : s[i] = FreeBlock(disk.word[node.index][i - 1], i - 1)
    BY <1>1, <1>4, RmForm
  <2>2. NWords \in Nat
    BY Sizes
  <2> HIDE DEF s
  <2>3. \A i \in 1..Len(s) : ~ Unlinks(s[i])
    <3> TAKE i \in 1..Len(s)
    <3>1. i = 1 \/ i = 2 \/ i \in 3..NWords
      BY <2>1, <2>2
    <3>2. CASE i = 1
      BY <1>2, <2>1, <3>2
    <3>3. CASE i = 2
      BY <2>1, <3>3 DEF FreeBlock, Unlinks
    <3>4. CASE i \in 3..NWords
      <4>1. \A x, k : FreeBlock(x, k).op = "free"
        BY DEF FreeBlock
      <4>2. s[i].op = "free"
        BY <2>1, <3>4, <4>1
      <4> QED
        BY <4>2 DEF Unlinks
    <3> QED
      BY <3>1, <3>2, <3>3, <3>4
  <2>4. Pending(disk, s)
    BY <2>1, <2>3 DEF Pending
  <2> QED
    BY <2>4 DEF s
<1> QED
  BY <1>3, <1>4

\* A new call.
LEMMA CallKeeps ==
    ASSUME IInv, Call
    PROVE  IInv'
<1>1. stack = <<>> /\ todo = <<>>
  BY DEF Call, IInv, TodoOK
<1>2. PICK frame \in FrameType : ~ frame.loaded /\ stack' = <<frame>>
  <2>1. PICK path \in Paths :
            \/ \E op \in {"mkdir", "open", "rm"} : stack' = <<Frame(op, path, <<>>)>>
            \/ \E orig \in Paths : stack' = <<Frame("hardlink", path, orig)>>
    BY DEF Call
  <2>2. Paths \subseteq Seq(Names) \ {<<>>} /\ <<>> \in Seq(Names)
    BY LayoutAssumption
  <2> QED
    BY <2>1, <2>2, FrameTyped
<1>3. /\ todo' = todo /\ disk' = disk /\ segfault' = segfault /\ past' = past
      /\ calls' = calls + 1 /\ calls < MaxCalls
  BY DEF Call
<1>4. StackOK'
  BY <1>2 DEF StackOK, Top
<1>5. TodoOK'
  BY <1>1, <1>3 DEF TodoOK, Pending
<1>6. DiskOK(disk)' /\ (segfault \in BOOLEAN)'
  BY <1>3 DEF IInv
<1>7. (calls \in 0..MaxCalls)'
  BY <1>3, Sizes DEF IInv
<1>8. (past \in PastType)' /\ (~ past.torn => Metadata(disk, todo))'
  BY <1>3 DEF IInv
<1> QED
  BY <1>4, <1>5, <1>6, <1>7, <1>8 DEF IInv

\* A call that reads the disk.
LEMMA LoadKeeps ==
    ASSUME IInv, Load
    PROVE  IInv'
<1>1. DiskOK(disk) /\ StackOK /\ TodoOK /\ stack # <<>> /\ ~ Top.loaded /\ todo = <<>>
  BY DEF IInv, Load, Loading, TodoOK
<1> DEFINE h == IF Top.again THEN Top.here ELSE graph_search(disk, Top.path)
           p == graph_search(disk, Front(Top.path))
           o == graph_search(disk, Top.orig)
           frame == Reading(Top, h, p, o)
<1>2. h \in NodeType /\ p \in NodeType /\ o \in NodeType /\ (Top.again => h = NoNode)
  <2>1. /\ Top.path \in Seq(Names) \ {<<>>} /\ Front(Top.path) \in Seq(Names) /\ Top.orig \in Seq(Names)
        /\ Top.again => Top.here = NoNode
    BY <1>1, TopIs DEF Here
  <2>2. graph_search(disk, Top.path) \in NodeType /\ p \in NodeType /\ o \in NodeType
    BY <1>1, <2>1, SearchIs
  <2> QED
    BY <2>1, <2>2, RootType
<1>3. /\ Top \in FrameType /\ stack \in Seq(FrameType) /\ Top = stack[1]
      /\ \A k \in 2..Len(stack) : ~ stack[k].loaded
  BY <1>1, TopIs
<1>4. stack' = [stack EXCEPT ![1] = frame]
  <2>1. stack' = [stack EXCEPT ![1].loaded = TRUE, ![1].here = IF Top.again THEN @ ELSE graph_search(disk, Top.path),
                         ![1].parent = p, ![1].origin = o]
    BY DEF Load
  <2>2. stack' = [stack EXCEPT ![1].loaded = TRUE, ![1].here = h, ![1].parent = p, ![1].origin = o]
    <3>1. stack[1].here = Top.here
      BY <1>3
    <3> QED
      BY <2>1, <3>1
  <2> HIDE DEF h, p, o
  <2> QED
    BY <1>1, <1>3, <2>2 DEF Reading
<1>5. /\ frame \in FrameType /\ frame.here = h /\ frame.parent = p /\ frame.origin = o
      /\ frame.path = Top.path /\ frame.orig = Top.orig /\ frame.loaded = TRUE
      /\ frame.again = Top.again
  <2>1. Top \in FrameType
    BY <1>3
  <2>2. KeepsHere(Top, h)
    BY <1>2 DEF KeepsHere
  <2> HIDE DEF h, p, o
  <2>3. ReadBy(frame, Top, h, p, o)
    BY <1>2, <2>1, <2>2, FrameLoaded
  <2> HIDE DEF frame
  <2> QED
    BY <2>3 DEF ReadBy
<1>6. disk' = disk /\ todo' = todo /\ segfault' = segfault /\ calls' = calls /\ past' = past
  BY DEF Load
<1>7. Found(frame, disk)
  <2> HIDE DEF frame
  <2> QED
    BY <1>5 DEF Found
<1> HIDE DEF frame, h, p, o
<1>8. /\ stack' \in Seq(FrameType) /\ stack' # <<>> /\ Head(stack') = frame
      /\ \A k \in 2..Len(stack') : ~ (stack')[k].loaded
  BY <1>1, <1>3, <1>4, <1>5, TopReplaced
<1>9. StackOK'
  BY <1>6, <1>7, <1>8 DEF StackOK, Top
<1>10. TodoOK'
  BY <1>1, <1>6 DEF TodoOK, Pending
<1>11. (past \in PastType)' /\ (~ past.torn => Metadata(disk, todo))'
  BY <1>6 DEF IInv
<1> QED
  BY <1>6, <1>9, <1>10, <1>11 DEF IInv

\* The program ends.
LEMMA SegfaultKeeps ==
    ASSUME IInv, todo = <<>>, Segfault
    PROVE  IInv'
<1>1. /\ stack' = <<>> /\ todo' = <<>> /\ disk' = disk /\ calls' = calls /\ segfault' \in BOOLEAN
      /\ past' = past
  BY DEF Segfault
<1>2. StackOK' /\ TodoOK'
  BY <1>1 DEF StackOK, TodoOK, Pending
<1>3. (past \in PastType)' /\ (~ past.torn => Metadata(disk, todo))'
  BY <1>1 DEF IInv
<1> QED
  BY <1>1, <1>2, <1>3 DEF IInv

\* The end of a call: the one that waited for it has not read the disk since.
LEMMA ReturnKeeps ==
    ASSUME IInv, stack # <<>>, todo = <<>>, NEW ret, Return(ret)
    PROVE  IInv'
<1>1. /\ stack' = Tail(stack) /\ todo' = <<>> /\ disk' = disk /\ calls' = calls /\ segfault' = segfault
      /\ past' = past
  BY DEF Return
<1>2. StackOK
  BY DEF IInv
<1>3. /\ stack' \in Seq(FrameType) /\ \A k \in 2..Len(stack') : ~ (stack')[k].loaded
      /\ stack' # <<>> => ~ Head(stack').loaded
  BY <1>1, <1>2, TopIs, TopRemoved
<1>4. StackOK'
  BY <1>3 DEF StackOK, Top
<1>5. TodoOK'
  BY <1>1 DEF TodoOK, Pending
<1>6. (past \in PastType)' /\ (~ past.torn => Metadata(disk, todo))'
  BY <1>1 DEF IInv
<1> QED
  BY <1>1, <1>4, <1>5, <1>6 DEF IInv

\* A call that goes on to its writes.
LEMMA WriteKeeps ==
    ASSUME IInv, stack # <<>>, Top.loaded, todo = <<>>,
           NEW writes, Pending(disk, writes), NEW ret \in {0, -1}, Write(writes, ret),
           ~ past.torn => Metadata(disk, writes), past' \in PastType, past'.torn = past.torn
    PROVE  IInv'
<1>1. StackOK
  BY DEF IInv
<1>2. /\ Top \in FrameType /\ stack \in Seq(FrameType) /\ Top = stack[1]
      /\ \A k \in 2..Len(stack) : ~ stack[k].loaded
  BY <1>1, TopIs
<1> DEFINE frame == Returning(Top, ret)
<1>3. /\ frame \in FrameType /\ frame.loaded = Top.loaded /\ frame.path = Top.path
      /\ frame.orig = Top.orig /\ frame.here = Top.here /\ frame.again = Top.again
      /\ frame.parent = Top.parent /\ frame.origin = Top.origin
  BY <1>2, FrameReturns, ZenonT(60)
<1>4. stack' = [stack EXCEPT ![1] = frame]
  BY <1>2 DEF Write, Returning
<1>5. todo' = writes /\ disk' = disk /\ calls' = calls /\ segfault' = segfault
  BY DEF Write
<1> HIDE DEF frame
<1>6. /\ stack' \in Seq(FrameType) /\ stack' # <<>> /\ Head(stack') = frame
      /\ \A k \in 2..Len(stack') : ~ (stack')[k].loaded
  BY <1>2, <1>3, <1>4, TopReplaced
<1>7. Found(Top, disk)
  BY <1>1 DEF StackOK
<1>8. Found(frame, disk)
  BY <1>3, <1>7 DEF Found
<1>9. StackOK'
  BY <1>5, <1>6, <1>8 DEF StackOK, Top
<1>10. TodoOK'
  <2>1. Top' = frame /\ frame.loaded
    BY <1>3, <1>6 DEF Top
  <2> QED
    BY <1>5, <1>6, <2>1 DEF TodoOK
<1>11. (past \in PastType)' /\ (~ past.torn => Metadata(disk, todo))'
  BY <1>5
<1> QED
  BY <1>5, <1>9, <1>10, <1>11 DEF IInv

\* The recursion over a missing parent: the root is never missing, so that there is
\* always a shorter path left.
LEMMA MakeParentKeeps ==
    ASSUME IInv, stack # <<>>, Top.loaded, todo = <<>>, MakeParent, Here = NoNode
    PROVE  IInv'
<1>1. StackOK
  BY DEF IInv
<1>2. /\ Top \in FrameType /\ stack \in Seq(FrameType) /\ Top = stack[1]
      /\ \A k \in 2..Len(stack) : ~ stack[k].loaded
      /\ Front(Top.path) \in Seq(Names)
  BY <1>1, TopIs
<1>3. Front(Top.path) # <<>>
  BY FoundIs, RootType DEF MakeParent
<1> DEFINE outer == Retried(Top)
           inner == Frame("mkdir", Front(Top.path), <<>>)
<1>4. outer \in FrameType /\ ~ outer.loaded
  BY <1>2, FrameRetried DEF Here
<1>5. inner \in FrameType /\ ~ inner.loaded
  <2>1. Front(Top.path) \in Seq(Names) \ {<<>>} /\ <<>> \in Seq(Names)
    BY <1>2, <1>3
  <2> QED
    BY <2>1, FrameTyped
<1>6. stack' = <<inner, outer>> \o Tail(stack)
  BY DEF MakeParent
<1>7. disk' = disk /\ todo' = todo /\ segfault' = segfault /\ calls' = calls /\ past' = past
  BY DEF MakeParent
<1> HIDE DEF inner, outer
<1>8. /\ Tail(stack) \in Seq(FrameType) /\ \A k \in 1..Len(Tail(stack)) : ~ Tail(stack)[k].loaded
  BY <1>2
<1> DEFINE rest == Tail(stack)
<1> HIDE DEF rest
<1>9. /\ <<inner, outer>> \o rest \in Seq(FrameType) /\ Len(<<inner, outer>> \o rest) = 2 + Len(rest)
      /\ (<<inner, outer>> \o rest)[1] = inner /\ (<<inner, outer>> \o rest)[2] = outer
      /\ \A k \in 3..Len(<<inner, outer>> \o rest) :
            k - 2 \in 1..Len(rest) /\ (<<inner, outer>> \o rest)[k] = rest[k - 2]
  BY <1>4, <1>5, <1>8 DEF rest
<1>10. stack' \in Seq(FrameType) /\ stack' # <<>> /\ Head(stack') = inner
  BY <1>6, <1>9 DEF rest
<1>11. \A k \in 2..Len(stack') : ~ (stack')[k].loaded
  <2> TAKE k \in 2..Len(stack')
  <2>1. CASE k = 2
    BY <1>4, <1>6, <1>9, <2>1 DEF rest
  <2>2. CASE k # 2
    <3>1. k \in 3..Len(stack')
      BY <2>2
    <3>2. k - 2 \in 1..Len(rest) /\ (stack')[k] = rest[k - 2]
      BY <1>6, <1>9, <3>1 DEF rest
    <3> QED
      BY <1>8, <3>2 DEF rest
  <2> QED
    BY <2>1, <2>2
<1>12. StackOK'
  BY <1>5, <1>10, <1>11 DEF StackOK, Top
<1>13. TodoOK'
  BY <1>7 DEF TodoOK, Pending
<1>14. (past \in PastType)' /\ (~ past.torn => Metadata(disk, todo))'
  BY <1>7 DEF IInv
<1> QED
  BY <1>7, <1>12, <1>13, <1>14 DEF IInv

\* What a running call is.
LEMMA RunningIs ==
    ASSUME IInv, NEW op, Running(op)
    PROVE  /\ stack # <<>> /\ Top.loaded /\ todo = <<>> /\ DiskOK(disk) /\ StackOK
           /\ Parent.index \in Blocks /\ Name \in Names
           /\ Exists(Here) => EntryOf(disk, Here)
           /\ past \in PastType /\ (~ past.torn => Metadata(disk, <<>>))
<1>1. stack # <<>> /\ Top.loaded /\ todo = <<>> /\ DiskOK(disk) /\ StackOK
  BY DEF Running, IInv
<1>2. Parent \in NodeType /\ Name \in Names
  BY <1>1, TopIs
<1>3. Exists(Here) => EntryOf(disk, Here)
  BY <1>1, FoundIs DEF Exists
<1>4. past \in PastType /\ (~ past.torn => Metadata(disk, <<>>))
  BY <1>1 DEF IInv
<1> QED
  BY <1>1, <1>2, <1>3, <1>4 DEF NodeType

\* What a call may note about the disk.
LEMMA PastKept ==
    ASSUME past \in PastType
    PROVE  /\ \A b \in BOOLEAN : LET new == [past EXCEPT !.full = @ \/ b]
                                IN  new \in PastType /\ new.torn = past.torn
           /\ \A b \in BOOLEAN : LET new == [past EXCEPT !.dirs = @ \/ b]
                                IN  new \in PastType /\ new.torn = past.torn
           /\ \A u \in SUBSET Blocks : LET new == [past EXCEPT !.under = @ \union u]
                                      IN  new \in PastType /\ new.torn = past.torn
           /\ \A b \in BOOLEAN, u \in SUBSET Blocks, n \in SUBSET Int :
                 LET new == [past EXCEPT !.full = @ \/ b, !.under = @ \union u, !.short = @ \union n]
                 IN  new \in PastType /\ new.torn = past.torn
           /\ \A op \in {"mkdir", "open", "rm", "hardlink"}, b \in BOOLEAN :
                 LET new == [past EXCEPT !.killed = @ \union {op}, !.torn = @ \/ b]
                 IN  new \in PastType /\ new.torn = (past.torn \/ b)
BY DEF PastType

\* One of the writes for a block that was found.
LEMMA IfStoredPending ==
    ASSUME NEW index, NEW w, index # Full => w \in WriteType /\ ~ Unlinks(w), Harmless(w), ~ Frees(w)
    PROVE  LET s == IfStored(index, w)
           IN  s \in Seq(WriteType) /\ \A i \in 1..Len(s) : ~ Unlinks(s[i]) /\ Harmless(s[i]) /\ ~ Frees(s[i])
<1>1. CASE index = Full
  BY <1>1 DEF IfStored
<1>2. CASE index # Full
  BY <1>2 DEF IfStored
<1> QED
  BY <1>1, <1>2

\* cr_mkdir goes on to the entry of the new directory and its mark in the bitmap.
LEMMA MkdirKeeps ==
    ASSUME IInv, Mkdir
    PROVE  IInv'
<1>1. Running("mkdir")
  BY DEF Mkdir
<1>2. /\ stack # <<>> /\ Top.loaded /\ todo = <<>> /\ DiskOK(disk)
      /\ Parent.index \in Blocks /\ Name \in Names
      /\ past \in PastType /\ (~ past.torn => Metadata(disk, <<>>))
  BY <1>1, RunningIs
<1> DEFINE index == next_free_block(disk.bitmap)
           entry == AddEntry(Parent.index, Dir, Name, Stored(index))
           bit == IfStored(index, SetBit(index))
<1>3. ~ NoneFree(index) /\ Write(<<entry>> \o bit, 0) /\ past' = [past EXCEPT !.full = @ \/ index = Full]
  BY DEF Mkdir, Filled
<1>4. /\ Stored(index) \in Blocks /\ (~ past.torn => Stored(index) \notin Kept)
      /\ index # Full => index \in Blocks \ {0}
  BY <1>2, <1>3, BlockGiven
<1> HIDE DEF index
<1>5. /\ entry \in WriteType /\ ~ Unlinks(entry) /\ ~ Frees(entry)
      /\ ~ past.torn => Harmless(entry)
  <2>1. Dir \in Valid
    BY DEF Valid
  <2> QED
    BY <1>2, <1>4, <2>1, WriteTyped, WriteHarmless
<1>6. /\ index # Full => SetBit(index) \in WriteType /\ ~ Unlinks(SetBit(index))
      /\ Harmless(SetBit(index)) /\ ~ Frees(SetBit(index))
  BY <1>4, WriteTyped, WriteHarmless
<1>7. bit \in Seq(WriteType) /\ \A i \in 1..Len(bit) : ~ Unlinks(bit[i]) /\ Harmless(bit[i]) /\ ~ Frees(bit[i])
  BY <1>6, IfStoredPending
<1> HIDE DEF entry, bit
<1>8. Pending(disk, <<entry>>) /\ <<entry>> \in Seq(WriteType)
  BY <1>5, OnePending
<1>9. Pending(disk, <<entry>> \o bit)
  BY <1>7, <1>8, Appended
<1>10. ASSUME ~ past.torn PROVE Metadata(disk, <<entry>> \o bit)
  <2>1. \A i \in 1..Len(<<entry>>) : Harmless(<<entry>>[i]) /\ ~ Frees(<<entry>>[i])
    BY <1>5, <1>10
  <2>2. Metadata(disk, <<entry>>) /\ ~ Looping(<<entry>>)
    BY <1>2, <1>8, <1>10, <2>1, MetadataOf
  <2> QED
    BY <1>7, <1>8, <2>2, MetadataAppended
<1>11. past' \in PastType /\ past'.torn = past.torn
  BY <1>2, <1>3, PastKept
<1> QED
  BY <1>2, <1>3, <1>9, <1>10, <1>11, WriteKeeps

\* cr_rm goes on to its writes for a node it has found.
LEMMA RmKeeps ==
    ASSUME IInv, Rm
    PROVE  IInv'
<1>1. Running("rm") /\ Exists(Here) /\ Write(RmWrites(Here), 0) /\ past' = [past EXCEPT !.dirs = @ \/ Here.kind = Dir]
  BY DEF Rm
<1>2. /\ stack # <<>> /\ Top.loaded /\ todo = <<>> /\ DiskOK(disk) /\ EntryOf(disk, Here)
      /\ past \in PastType /\ (~ past.torn => Metadata(disk, <<>>))
  BY <1>1, RunningIs
<1>3. Pending(disk, RmWrites(Here)) /\ (~ past.torn => Metadata(disk, RmWrites(Here)))
  BY <1>2, RmPending, RmMetadata
<1>4. past' \in PastType /\ past'.torn = past.torn
  BY <1>1, <1>2, PastKept
<1> QED
  BY <1>1, <1>2, <1>3, <1>4, WriteKeeps

\* The writes of cr_open for the old file.
LEMMA RemovalPending ==
    ASSUME IInv, NEW op, Running(op)
    PROVE  /\ Pending(disk, Removal)
           /\ ~ past.torn => Metadata(disk, Removal) /\ ~ Looping(Removal)
<1>1. DiskOK(disk) /\ (Exists(Here) => EntryOf(disk, Here)) /\ (~ past.torn => Metadata(disk, <<>>))
  BY RunningIs
<1>2. CASE Exists(Here)
  BY <1>1, <1>2, RmPending, RmMetadata DEF Removal
<1>3. CASE ~ Exists(Here)
  BY <1>1, <1>3, NonePending DEF Removal, Looping
<1> QED
  BY <1>2, <1>3

\* cr_open finds no block for the new file, and removes the old one at most.
LEMMA OpenNoBlockKeeps ==
    ASSUME IInv, OpenNoBlock
    PROVE  IInv'
<1>1. Running("open")
  BY DEF OpenNoBlock, CanOpen
<1>2. /\ stack # <<>> /\ Top.loaded /\ todo = <<>> /\ Pending(disk, Removal)
      /\ ~ past.torn => Metadata(disk, Removal)
      /\ past \in PastType
  BY <1>1, RunningIs, RemovalPending
<1>3. (Write(Removal, -1) /\ past' = past) \/ Return(-1)
  BY DEF OpenNoBlock
<1> QED
  BY <1>2, <1>3, WriteKeeps, ReturnKeeps

\* The slot from which the index block of a new file is written.
LEMMA OpenSlotIs ==
    ASSUME IInv, NEW op, Running(op)
    PROVE  OpenSlot \in Slots
<1> DEFINE free == FreeSlots(disk, Parent.index) \union IF Exists(Here) THEN {Here.slot} ELSE {}
<1>1. free \in SUBSET Slots /\ Slots \in SUBSET Nat /\ 0 \in Slots
  BY RunningIs, Sizes DEF FreeSlots, EntryOf, Slots
<1>2. OpenSlot = IF free = {} THEN 0 ELSE Min(free)
  BY DEF OpenSlot
<1> HIDE DEF free
<1>3. free # {} => Min(free) \in free
  BY <1>1, MinIs
<1> QED
  BY <1>1, <1>2, <1>3

\* cr_open goes on to the old file, the entry, the index block and the mark of the new one.
LEMMA OpenKeeps ==
    ASSUME IInv, Open
    PROVE  IInv'
<1>1. Running("open")
  BY DEF Open, CanOpen
<1>2. /\ stack # <<>> /\ Top.loaded /\ todo = <<>> /\ DiskOK(disk) /\ StackOK
      /\ Parent.index \in Blocks /\ Name \in Names
      /\ past \in PastType /\ (~ past.torn => Metadata(disk, <<>>))
  BY <1>1, RunningIs
<1> DEFINE index == next_free_block(disk.bitmap)
           entry == AddEntry(Parent.index, File, Name, Stored(index))
           block == AddIndex(index, OpenSlot)
           bit == IfStored(index, SetBit(index))
           u == IF Parent.kind = File THEN {Parent.index} ELSE {}
           n == IF OpenSlot = 0 THEN {} ELSE {index, index + 1}
<1>3. /\ ~ NoneFree(index) /\ Write(Removal \o <<entry>> \o <<block>> \o bit, 0)
      /\ past' = [past EXCEPT !.full = @ \/ index = Full, !.under = @ \union u, !.short = @ \union n]
  BY DEF Open
<1>4. /\ Stored(index) \in Blocks /\ (~ past.torn => Stored(index) \notin Kept)
      /\ index \in Blocks \union {Full} /\ (index # Full => index \in Blocks \ {0})
  BY <1>2, <1>3, BlockGiven
<1>5. past' \in PastType /\ past'.torn = past.torn
  <2>1. u \in SUBSET Blocks /\ n \in SUBSET Int
    BY <1>2, <1>4 DEF Blocks, Full
  <2> DEFINE b == index = Full
  <2>2. b \in BOOLEAN /\ past' = [past EXCEPT !.full = @ \/ b, !.under = @ \union u, !.short = @ \union n]
    BY <1>3
  <2> HIDE DEF u, n, index, b
  <2> QED
    BY <1>2, <2>1, <2>2, PastKept, ZenonT(60)
<1> HIDE DEF index, u, n
<1>6. /\ entry \in WriteType /\ ~ Unlinks(entry) /\ ~ Frees(entry)
      /\ ~ past.torn => Harmless(entry)
  <2>1. File \in Valid
    BY DEF Valid
  <2> QED
    BY <1>2, <1>4, <2>1, WriteTyped, WriteHarmless
<1>7. /\ index # Full => SetBit(index) \in WriteType /\ ~ Unlinks(SetBit(index))
      /\ Harmless(SetBit(index)) /\ ~ Frees(SetBit(index))
  BY <1>4, WriteTyped, WriteHarmless
<1>8. OpenSlot \in Slots
  BY <1>1, OpenSlotIs
<1>9. block \in WriteType /\ ~ Unlinks(block) /\ ~ Frees(block) /\ Harmless(block)
  BY <1>4, <1>8, WriteTyped, WriteHarmless
<1>10. bit \in Seq(WriteType) /\ \A i \in 1..Len(bit) : ~ Unlinks(bit[i]) /\ Harmless(bit[i]) /\ ~ Frees(bit[i])
  BY <1>7, IfStoredPending
<1> HIDE DEF entry, bit, block
<1>11. /\ <<entry>> \in Seq(WriteType) /\ \A i \in 1..Len(<<entry>>) : ~ Unlinks(<<entry>>[i])
       /\ <<block>> \in Seq(WriteType) /\ \A i \in 1..Len(<<block>>) : ~ Unlinks(<<block>>[i])
  BY <1>6, <1>9, OnePending
<1>12. /\ Pending(disk, Removal) /\ Removal \in Seq(WriteType)
       /\ ~ past.torn => Metadata(disk, Removal) /\ ~ Looping(Removal)
  BY <1>1, RemovalPending DEF Pending
<1> HIDE DEF Removal
<1>13. Pending(disk, Removal \o <<entry>>)
  BY <1>11, <1>12, Appended
<1>14. Pending(disk, (Removal \o <<entry>>) \o <<block>>)
  BY <1>11, <1>13, Appended
<1>15. Pending(disk, ((Removal \o <<entry>>) \o <<block>>) \o bit)
  BY <1>10, <1>14, Appended
<1>16. ASSUME ~ past.torn PROVE Metadata(disk, ((Removal \o <<entry>>) \o <<block>>) \o bit)
  <2>1. Metadata(disk, Removal \o <<entry>>) /\ ~ Looping(Removal \o <<entry>>)
    BY <1>6, <1>12, <1>16, MetadataOne
  <2>2. LET s == (Removal \o <<entry>>) \o <<block>> IN Metadata(disk, s) /\ ~ Looping(s)
    BY <1>9, <1>13, <2>1, MetadataOne DEF Pending
  <2> QED
    BY <1>10, <1>14, <2>2, MetadataAppended DEF Pending
<1> QED
  BY <1>2, <1>3, <1>5, <1>15, <1>16, WriteKeeps

\* cr_hardlink goes on to the entry and the count of the new link.
LEMMA HardlinkKeeps ==
    ASSUME IInv, Hardlink
    PROVE  IInv'
<1> DEFINE u == IF Parent.kind = File THEN {Parent.index} ELSE {}
<1>1. /\ Running("hardlink") /\ Exists(Origin) /\ Write(LinkWrites, 0)
      /\ past' = [past EXCEPT !.under = @ \union u]
  <2>1. Top.op = "hardlink" /\ ~ Missing
    BY DEF Hardlink, CanLink, Running
  <2> QED
    BY <2>1 DEF Hardlink, CanLink, Missing
<1>2. /\ stack # <<>> /\ Top.loaded /\ todo = <<>> /\ DiskOK(disk)
      /\ Parent.index \in Blocks /\ Name \in Names
      /\ past \in PastType /\ (~ past.torn => Metadata(disk, <<>>))
  BY <1>1, RunningIs
<1>3. EntryOf(disk, Origin)
  <2>1. Top.op = "hardlink"
    BY <1>1 DEF Running
  <2> QED
    BY <1>1, <1>2, <2>1, FoundIs DEF Exists
<1>4. Origin.index \in Blocks /\ (~ past.torn => Origin.index \notin Kept)
  BY <1>2, <1>3, EntryType DEF NodeType, Metadata
<1> DEFINE entry == AddEntry(Parent.index, File, Name, Origin.index)
           link == AddLinks(Origin.index, 1)
<1>5. /\ entry \in WriteType /\ ~ Unlinks(entry) /\ ~ Frees(entry)
      /\ ~ past.torn => Harmless(entry)
  <2>1. File \in Valid
    BY DEF Valid
  <2> QED
    BY <1>2, <1>4, <2>1, WriteTyped, WriteHarmless
<1>6. link \in WriteType /\ ~ Unlinks(link) /\ ~ Frees(link) /\ Harmless(link)
  BY <1>4, WriteTyped, WriteHarmless
<1>7. LinkWrites = <<entry, link>>
  BY DEF LinkWrites
<1>8. past' \in PastType /\ past'.torn = past.torn
  <2>1. u \in SUBSET Blocks
    BY <1>2
  <2> HIDE DEF u
  <2> QED
    BY <1>1, <1>2, <2>1, PastKept
<1> HIDE DEF entry, link
<1>9. Pending(disk, LinkWrites)
  BY <1>5, <1>6, <1>7 DEF Pending
<1>10. ASSUME ~ past.torn PROVE Metadata(disk, LinkWrites)
  <2>1. \A i \in 1..Len(<<entry, link>>) : Harmless(<<entry, link>>[i]) /\ ~ Frees(<<entry, link>>[i])
    BY <1>5, <1>6, <1>10
  <2>2. <<entry, link>> \in Seq(WriteType)
    BY <1>5, <1>6
  <2>3. Metadata(disk, <<entry, link>>)
    BY <1>2, <1>10, <2>1, <2>2, MetadataOf
  <2> QED
    BY <1>7, <2>3
<1> QED
  BY <1>1, <1>2, <1>8, <1>9, <1>10, WriteKeeps

\* A write that only makes an entry invalid leaves the words alone.
LEMMA InvalidWords ==
    ASSUME NEW d, DiskOK(d), NEW w, w.op = "invalid"
    PROVE  Apply(d, w).word = d.word
<1>1. d = [kind |-> d.kind, name |-> d.name, word |-> d.word, bitmap |-> d.bitmap]
  BY DiskIs
<1>2. Apply(d, w) = [d EXCEPT !.kind[w.block][w.slot] = 1]
  BY DEF Apply
<1> QED
  BY <1>1, <1>2

\* The next write of the innermost call, which returns after the last one.
LEMMA DiskWriteKeeps ==
    ASSUME IInv, DiskWrite
    PROVE  IInv'
<1>1. /\ DiskOK(disk) /\ StackOK /\ Pending(disk, todo) /\ todo # <<>> /\ stack # <<>> /\ Top.loaded
  BY DEF IInv, TodoOK, DiskWrite
<1>2. /\ todo \in Seq(WriteType) /\ Len(todo) \in Nat /\ Len(todo) >= 1
  BY <1>1 DEF Pending
<1>3. /\ disk' = Apply(disk, todo[1]) /\ todo' = Tail(todo) /\ segfault' = segfault /\ calls' = calls
      /\ past' = past
  BY <1>2 DEF DiskWrite
<1>0. (past \in PastType)' /\ (~ past.torn => Metadata(disk, todo))'
  <2>1. todo[1] = Head(todo) /\ (Unlinks(Head(todo)) => disk.word[Head(todo).block][LinkWord] > 0)
    BY <1>1, <1>2 DEF Pending
  <2>2. past \in PastType /\ (~ past.torn => Metadata(disk, todo))
    BY DEF IInv
  <2>3. ~ past.torn => Metadata(Apply(disk, Head(todo)), Tail(todo))
    BY <1>1, <1>2, <2>1, <2>2, MetadataWritten
  <2> QED
    BY <1>3, <2>1, <2>2, <2>3
<1>4. DiskOK(disk')
  <2>1. todo[1] \in WriteType /\ (Unlinks(todo[1]) => disk.word[todo[1].block][LinkWord] > 0)
    BY <1>1, <1>2 DEF Pending
  <2> QED
    BY <1>1, <1>3, <2>1, Applied
<1>5. Pending(disk', todo')
  <2>1. todo' \in Seq(WriteType) /\ Len(todo') = Len(todo) - 1 /\ \A i \in 1..Len(todo') : (todo')[i] = todo[i + 1]
    BY <1>2, <1>3
  <2>2. ASSUME NEW i \in 1..Len(todo'), Unlinks((todo')[i])
        PROVE  /\ (disk').word[(todo')[i].block][LinkWord] > 0
               /\ \A j \in 1..(i - 1) : (todo')[j].op = "invalid"
    <3>1. i + 1 \in 1..Len(todo) /\ (todo')[i] = todo[i + 1]
      BY <1>2, <2>1
    <3>2. /\ disk.word[todo[i + 1].block][LinkWord] > 0
          /\ \A j \in 1..i : todo[j].op = "invalid"
      <4> DEFINE k == i + 1
      <4>1. k \in 1..Len(todo) /\ Unlinks(todo[k]) /\ k - 1 = i
        BY <2>2, <3>1
      <4> HIDE DEF k
      <4>2. /\ disk.word[todo[k].block][LinkWord] > 0
            /\ \A j \in 1..(k - 1) : todo[j].op = "invalid"
        BY <1>1, <4>1 DEF Pending
      <4> QED
        BY <4>1, <4>2 DEF k
    <3>3. todo[1].op = "invalid"
      <4>1. 1 \in 1..i
        OBVIOUS
      <4> QED
        BY <3>2, <4>1
    <3>4. (disk').word = disk.word
      BY <1>1, <1>3, <3>3, InvalidWords
    <3>5. ASSUME NEW j \in 1..(i - 1) PROVE (todo')[j].op = "invalid"
      <4>1. j \in 1..Len(todo') /\ j + 1 \in 1..i
        OBVIOUS
      <4>2. (todo')[j] = todo[j + 1]
        BY <2>1, <4>1
      <4> QED
        BY <3>2, <4>1, <4>2
    <3> QED
      BY <3>1, <3>2, <3>4, <3>5
  <2> QED
    BY <2>1, <2>2 DEF Pending
<1>6. CASE Len(todo) = 1
  <2>1. todo' = <<>> /\ stack' = Tail(stack)
    BY <1>2, <1>3, <1>6 DEF DiskWrite
  <2>2. /\ stack' \in Seq(FrameType) /\ \A k \in 2..Len(stack') : ~ (stack')[k].loaded
        /\ stack' # <<>> => ~ Head(stack').loaded
    BY <1>1, <2>1, TopIs, TopRemoved
  <2>3. StackOK'
    BY <2>2 DEF StackOK, Top
  <2>4. TodoOK'
    BY <1>5, <2>1 DEF TodoOK
  <2> QED
    BY <1>0, <1>3, <1>4, <2>3, <2>4 DEF IInv
<1>7. CASE Len(todo) # 1
  <2>1. todo' # <<>> /\ stack' = stack
    <3>1. stack' = stack
      BY <1>7 DEF DiskWrite
    <3>2. Len(todo') = Len(todo) - 1
      BY <1>2, <1>3
    <3>3. Len(todo') # 0
      BY <1>2, <1>7, <3>2
    <3> QED
      BY <3>1, <3>3
  <2>2. StackOK'
    BY <1>1, <2>1 DEF StackOK
  <2>3. TodoOK'
    BY <1>1, <1>5, <2>1 DEF TodoOK, Top
  <2> QED
    BY <1>0, <1>3, <1>4, <2>2, <2>3 DEF IInv
<1> QED
  BY <1>6, <1>7

\* A process that is killed leaves the disk between two writes.
LEMMA KillKeeps ==
    ASSUME IInv, Kill
    PROVE  IInv'
<1>1. /\ stack' = <<>> /\ todo' = <<>> /\ disk' = disk /\ calls' = calls /\ segfault' = segfault
      /\ todo # <<>> /\ past' = [past EXCEPT !.killed = @ \union {Top.op}, !.torn = @ \/ Torn]
  BY DEF Kill
<1>2. StackOK' /\ TodoOK'
  BY <1>1 DEF StackOK, TodoOK, Pending
<1>3. Top.op \in {"mkdir", "open", "rm", "hardlink"} /\ past \in PastType
  BY <1>1, TopIs DEF IInv, TodoOK
<1>4. past' \in PastType /\ past'.torn = (past.torn \/ Torn)
  <2> DEFINE op == Top.op
             b == Torn
  <2>1. b \in BOOLEAN /\ op \in {"mkdir", "open", "rm", "hardlink"}
    BY <1>3 DEF Torn
  <2>2. past' = [past EXCEPT !.killed = @ \union {op}, !.torn = @ \/ b]
    BY <1>1
  <2> HIDE DEF op, b
  <2>3. past' \in PastType /\ past'.torn = (past.torn \/ b)
    BY <1>3, <2>1, <2>2, PastKept
  <2> QED
    BY <2>3 DEF b
<1>5. ASSUME ~ past.torn, ~ Torn PROVE Metadata(disk, <<>>)
  <2>1. Metadata(disk, todo)
    BY <1>5 DEF IInv
  <2>2. 0 \in disk.bitmap => ~ Looping(todo)
    BY <1>5 DEF Looping, Later, Frees, Torn
  <2>3. Marked(disk, <<>>)
    BY <2>1, <2>2 DEF Metadata, Marked
  <2> QED
    BY <2>1, <2>3 DEF Metadata, Unbroken
<1> QED
  BY <1>1, <1>2, <1>4, <1>5 DEF IInv

\* Every step keeps the inductive invariant.
LEMMA StepOK == IInv /\ [Next]_vars => IInv'
<1> SUFFICES ASSUME IInv, [Next]_vars PROVE IInv'
  OBVIOUS
<1>1. CASE Call
  BY <1>1, CallKeeps
<1>2. CASE Kill
  BY <1>2, KillKeeps
<1>3. CASE DiskWrite
  BY <1>3, DiskWriteKeeps
<1>4. CASE Load
  BY <1>4, LoadKeeps
<1>5. CASE Recursion
  <2>1. Segfault /\ stack # <<>> /\ ~ Top.loaded
    BY <1>5 DEF Recursion, Loading
  <2>2. todo = <<>>
    BY <2>1 DEF IInv, TodoOK
  <2> QED
    BY <2>1, <2>2, SegfaultKeeps
<1>6. CASE MkdirExists \/ MkdirNotDir \/ MkdirNoBlock \/ RmMissing \/ OpenIsDir \/ OpenNotDir
           \/ HardlinkExists \/ HardlinkNoFile
  <2>1. \E op : Running(op) /\ Return(-1)
    BY <1>6 DEF MkdirExists, MkdirNotDir, MkdirNoBlock, RmMissing, OpenIsDir, OpenNotDir,
                HardlinkExists, HardlinkNoFile
  <2> QED
    BY <2>1, ReturnKeeps DEF Running
<1>7. CASE MkdirParent \/ OpenParent \/ OpenNoParent \/ HardlinkParent
  <2>1. \E op : Running(op) /\ ((MakeParent /\ Here = NoNode) \/ Segfault)
    BY <1>7 DEF MkdirParent, OpenParent, OpenNoParent, HardlinkParent, CanLink, MissingParent, Exists
  <2>2. stack # <<>> /\ Top.loaded /\ todo = <<>>
    BY <2>1 DEF Running
  <2> QED
    BY <2>1, <2>2, MakeParentKeeps, SegfaultKeeps
<1>8. CASE Mkdir
  BY <1>8, MkdirKeeps
<1>9. CASE Rm
  BY <1>9, RmKeeps
<1>10. CASE OpenNoBlock
  BY <1>10, OpenNoBlockKeeps
<1>11. CASE Open
  BY <1>11, OpenKeeps
<1>12. CASE Hardlink
  BY <1>12, HardlinkKeeps
<1>13. CASE UNCHANGED vars
  <2>1. /\ disk' = disk /\ stack' = stack /\ todo' = todo /\ calls' = calls /\ segfault' = segfault
        /\ past' = past
    BY <1>13 DEF vars
  <2>2. DiskOK(disk') /\ StackOK' /\ TodoOK'
    BY <2>1 DEF IInv, StackOK, TodoOK, Top
  <2> QED
    BY <2>1, <2>2 DEF IInv
<1> QED
  BY <1>1, <1>2, <1>3, <1>4, <1>5, <1>6, <1>7, <1>8, <1>9, <1>10, <1>11, <1>12, <1>13 DEF Next, Run

\* IInv is inductive: in every reachable state, also after a kill, the image is well
\* formed, the calls in progress are those of the code, and what is still to be written
\* keeps the image well formed.
THEOREM Inductive == Spec => []IInv
<1>1. Init => IInv
  BY InitOK
<1>2. IInv /\ [Next]_vars => IInv'
  BY StepOK
<1> QED
  BY <1>1, <1>2, PTL DEF Spec

\* The image and the variables keep their types: kinds of entries, words, the bitmap.
THEOREM TypeCorrect == Spec => []TypeOK
<1>1. IInv => TypeOK
  <2> SUFFICES ASSUME IInv PROVE TypeOK
    OBVIOUS
  <2>1. /\ disk.kind \in [Blocks -> [Slots -> {0, 1, Dir, File}]]
        /\ disk.word \in [Blocks -> [Words -> Nat]]
        /\ disk.bitmap \subseteq Blocks
    BY DiskIs DEF IInv
  <2>2. calls \in 0..MaxCalls /\ segfault \in BOOLEAN /\ (todo # <<>> => stack # <<>>)
    BY DEF IInv, TodoOK
  <2>3. \A k \in DOMAIN stack : stack[k].op \in {"mkdir", "open", "rm", "hardlink"}
    <3>1. stack \in Seq(FrameType)
      BY DEF IInv, StackOK
    <3>2. \A k \in DOMAIN stack : stack[k] \in FrameType
      BY <3>1
    <3>3. \A frame \in FrameType : frame.op \in {"mkdir", "open", "rm", "hardlink"}
      BY DEF FrameType, Frames
    <3> QED
      BY <3>2, <3>3
  <2> QED
    BY <2>1, <2>2, <2>3 DEF TypeOK
<1> QED
  BY <1>1, Inductive, PTL

-----------------------------------------------------------------------------
(* The directories that load_dir reaches. *)

\* The entries of a directory are entries of the disk.
LEMMA EntriesAre ==
    ASSUME NEW d, DiskOK(d), NEW b \in Blocks, NEW e \in Entries(d, b)
    PROVE  /\ e.dir = b /\ e.kind \in Valid /\ e.index \in Blocks
           /\ EntriesOK(d) /\ b # DataBlock => e.index \notin Kept
           /\ (EntriesOK(d) => b # DataBlock) => EntryOf(d, e)
<1>1. PICK s \in Slots : ValidAt(d, b, s) /\ e = Node(d.kind[b][s], IndexAt(d, b, s), b, s)
  BY DEF Entries, ValidAt, IndexAt
<1>2. e.dir = b /\ e.slot = s /\ e.kind = d.kind[b][s] /\ e.index = IndexAt(d, b, s)
  BY <1>1 DEF Node
<1>3. e.kind \in Valid /\ e.index \in Blocks
  BY <1>1, <1>2, DiskIs DEF ValidAt
<1>4. EntriesOK(d) /\ b # DataBlock => e.index \notin Kept
  BY <1>1, <1>2 DEF EntriesOK
<1>5. (EntriesOK(d) => b # DataBlock) => EntryOf(d, e)
  BY <1>1, <1>2 DEF EntryOf
<1> QED
  BY <1>2, <1>3, <1>4, <1>5

\* What load_dir reads, step by step.
LEMMA ReachedSteps ==
    ASSUME NEW d, DiskOK(d), NEW dirs \in SUBSET Blocks
    PROVE  \E found : /\ found[0] = dirs /\ found[NBlocks] = Reached(d, dirs)
                      /\ \A n \in 1..NBlocks : found[n] = Loaded(d, found[n - 1])
<1> DEFINE S == SUBSET Blocks
           step == [k \in Nat |-> [B \in S |-> Loaded(d, B)]]
           Finds(f) == f = [n \in 0..NBlocks |-> IF n = 0 THEN dirs ELSE Loaded(d, f[n - 1])]
           found == CHOOSE f : Finds(f)
<1>1. \A B \in S : Loaded(d, B) \in S
  <2> TAKE B \in S
  <2>1. ASSUME NEW b \in B, NEW e \in Entries(d, b) PROVE e.index \in Blocks
    BY <2>1, EntriesAre
  <2> QED
    BY <2>1 DEF Loaded, Subdirs
<1>2. step \in [Nat -> [S -> S]]
  <2> HIDE DEF S
  <2> QED
    BY <1>1
<1>3. NBlocks \in Nat /\ dirs \in S
  BY Sizes
<1> HIDE DEF S, step
<1>4. PICK f : Recurs(f, NBlocks, dirs, step)
  BY <1>2, <1>3, RecursionExists
<1>5. f \in [0..NBlocks -> S]
  BY <1>2, <1>3, <1>4, RecursionType
<1>6. \A n \in 0..NBlocks : f[n] = IF n = 0 THEN dirs ELSE Loaded(d, f[n - 1])
  <2> TAKE n \in 0..NBlocks
  <2>1. f[n] = IF n = 0 THEN dirs ELSE step[n][f[n - 1]]
    BY <1>4 DEF Recurs
  <2>2. n # 0 => n - 1 \in 0..NBlocks /\ n \in Nat
    BY <1>3
  <2>3. n # 0 => step[n][f[n - 1]] = Loaded(d, f[n - 1])
    BY <1>5, <2>2 DEF step
  <2> QED
    BY <2>1, <2>3
<1>7. Finds(f)
  <2>1. f = [n \in 0..NBlocks |-> f[n]]
    BY <1>5
  <2> QED
    BY <1>6, <2>1
<1>8. Finds(found)
  <2> HIDE DEF Finds
  <2> QED
    BY <1>7
<1>9. Reached(d, dirs) = found[NBlocks]
  BY DEF Reached
<1> HIDE DEF found
<1>10. \A n \in 0..NBlocks : found[n] = IF n = 0 THEN dirs ELSE Loaded(d, found[n - 1])
  BY <1>8
<1>11. \A n \in 1..NBlocks : n \in 0..NBlocks /\ n # 0
  BY <1>3
<1>12. 0 \in 0..NBlocks
  BY <1>3
<1> QED
  BY <1>9, <1>10, <1>11, <1>12

\* It stays in every set of blocks that has the subdirectories of its directories.
LEMMA ReachedWithin ==
    ASSUME NEW d, DiskOK(d), NEW S \in SUBSET Blocks, NEW dirs \in SUBSET S,
           \A b \in S : \A e \in Entries(d, b) : e.kind = Dir => e.index \in S
    PROVE  Reached(d, dirs) \in SUBSET S
<1>1. PICK found : /\ found[0] = dirs /\ found[NBlocks] = Reached(d, dirs)
                   /\ \A n \in 1..NBlocks : found[n] = Loaded(d, found[n - 1])
  BY ReachedSteps
<1>2. NBlocks \in Nat
  BY Sizes
<1> DEFINE Good == {n \in 0..NBlocks : found[n] \in SUBSET S}
<1>3. 0 \in Good
  BY <1>1, <1>2
<1>4. ASSUME NEW n \in 0..(NBlocks - 1), n \in Good
      PROVE  n + 1 \in Good
  <2> DEFINE m == n + 1
  <2>1. m \in 0..NBlocks /\ m \in 1..NBlocks /\ m - 1 = n
    BY <1>2
  <2> HIDE DEF m
  <2>2. found[m] = Loaded(d, found[n]) /\ found[n] \in SUBSET S
    BY <1>1, <1>4, <2>1
  <2>3. found[m] \in SUBSET S
    BY <2>2 DEF Loaded, Subdirs
  <2> QED
    BY <2>1, <2>3 DEF m
<1>5. 0..NBlocks \subseteq Good
  <2> HIDE DEF Good
  <2> QED
    BY <1>2, <1>3, <1>4, SetInduction
<1> QED
  BY <1>1, <1>2, <1>5

\* load_dir reads blocks of the disk, and no data while entries are where they belong.
LEMMA ReachedBlocks ==
    ASSUME NEW d, DiskOK(d), NEW dirs \in SUBSET Blocks
    PROVE  /\ Reached(d, dirs) \in SUBSET Blocks
           /\ EntriesOK(d) /\ DataBlock \notin dirs => DataBlock \notin Reached(d, dirs)
<1>1. \A b \in Blocks : \A e \in Entries(d, b) : e.index \in Blocks
  BY EntriesAre
<1>2. Reached(d, dirs) \in SUBSET Blocks
  BY <1>1, ReachedWithin
<1>3. ASSUME EntriesOK(d), DataBlock \notin dirs
      PROVE  DataBlock \notin Reached(d, dirs)
  <2> DEFINE S == Blocks \ {DataBlock}
  <2>1. S \in SUBSET Blocks /\ dirs \in SUBSET S
    BY <1>3
  <2>2. ASSUME NEW b \in S, NEW e \in Entries(d, b) PROVE e.index \in S
    BY <1>3, <2>2, EntriesAre DEF Kept
  <2>3. Reached(d, dirs) \in SUBSET S
    <3> HIDE DEF S
    <3> QED
      BY <2>1, <2>2, ReachedWithin
  <2> QED
    BY <2>3
<1> QED
  BY <1>2, <1>3

\* It reads every subdirectory of what it reads: either a step finds nothing new, and
\* then no later one does, or each finds at least one of the blocks.
LEMMA ReachedClosed ==
    ASSUME NEW d, DiskOK(d), NEW dirs \in SUBSET Blocks
    PROVE  dirs \subseteq Reached(d, dirs) /\ Subdirs(d, Reached(d, dirs)) \subseteq Reached(d, dirs)
<1>1. PICK found : /\ found[0] = dirs /\ found[NBlocks] = Reached(d, dirs)
                   /\ \A n \in 1..NBlocks : found[n] = Loaded(d, found[n - 1])
  BY ReachedSteps
<1>2. NBlocks \in Nat /\ IsFiniteSet(Blocks) /\ Cardinality(Blocks) = NBlocks
  <2>1. NBlocks \in Nat /\ NBlocks > 5
    BY Sizes
  <2>2. IsFiniteSet(0..(NBlocks - 1)) /\ Cardinality(0..(NBlocks - 1)) = IF 0 > NBlocks - 1 THEN 0 ELSE NBlocks - 1 - 0 + 1
    BY <2>1, FS_Interval
  <2> QED
    BY <2>1, <2>2 DEF Blocks
<1> DEFINE Closed(B) == Loaded(d, B) = B
           Good == {n \in 0..NBlocks : /\ found[n] \in SUBSET Blocks /\ dirs \subseteq found[n]
                                       /\ Closed(found[n]) \/ Cardinality(found[n]) >= n}
<1>3. 0 \in Good
  <2>1. IsFiniteSet(dirs)
    BY <1>2, FS_Subset
  <2>2. Cardinality(dirs) >= 0
    BY <2>1, FS_CardinalityType
  <2> QED
    BY <1>1, <1>2, <2>2
<1>4. ASSUME NEW n \in 0..(NBlocks - 1), n \in Good
      PROVE  n + 1 \in Good
  <2> DEFINE m == n + 1
             A == found[n]
             B == found[m]
  <2>1. m \in 0..NBlocks /\ m \in 1..NBlocks /\ m - 1 = n /\ n \in Nat
    BY <1>2
  <2>2. B = Loaded(d, A) /\ A \in SUBSET Blocks /\ dirs \subseteq A
    <3> HIDE DEF m
    <3> QED
      BY <1>1, <1>4, <2>1
  <2>3. B \in SUBSET Blocks
    <3>1. \A b \in Blocks : \A e \in Entries(d, b) : e.index \in Blocks
      BY EntriesAre
    <3> QED
      BY <2>2, <3>1 DEF Loaded, Subdirs
  <2>4. A \subseteq B
    BY <2>2 DEF Loaded
  <2>5. CASE Closed(A)
    <3>1. B = A
      BY <2>2, <2>5
    <3> HIDE DEF m, Closed
    <3>2. Closed(B)
      BY <2>5, <3>1
    <3> QED
      BY <2>1, <2>2, <2>3, <3>1, <3>2 DEF m
  <2>6. CASE ~ Closed(A)
    <3>1. PICK b \in B : b \notin A
      BY <2>2, <2>4, <2>6
    <3>2. IsFiniteSet(A) /\ IsFiniteSet(B) /\ A \union {b} \subseteq B
      BY <1>2, <2>2, <2>3, <2>4, <3>1, FS_Subset
    <3>3. IsFiniteSet(A \union {b}) /\ Cardinality(A \union {b}) = Cardinality(A) + 1
      BY <3>1, <3>2, FS_AddElement
    <3>4. Cardinality(A \union {b}) <= Cardinality(B)
      BY <3>2, FS_Subset
    <3>5. Cardinality(A) \in Nat /\ Cardinality(B) \in Nat /\ Cardinality(A) >= n
      BY <1>4, <2>6, <3>2, FS_CardinalityType
    <3>6. Cardinality(B) >= m
      <4> HIDE DEF A, B
      <4> QED
        BY <2>1, <3>3, <3>4, <3>5
    <3> HIDE DEF m, Closed
    <3> QED
      BY <2>1, <2>2, <2>3, <2>4, <3>6 DEF m
  <2> QED
    BY <2>5, <2>6
<1>5. 0..NBlocks \subseteq Good
  <2> HIDE DEF Good
  <2> QED
    BY <1>2, <1>3, <1>4, SetInduction
<1> DEFINE R == Reached(d, dirs)
<1>6. R \in SUBSET Blocks /\ dirs \subseteq R /\ (Closed(R) \/ Cardinality(R) >= NBlocks)
  BY <1>1, <1>2, <1>5
<1>7. CASE Closed(R)
  BY <1>6, <1>7 DEF Loaded
<1>8. CASE Cardinality(R) >= NBlocks
  <2>1. R = Blocks
    BY <1>2, <1>6, <1>8, FS_Subset, FS_CardinalityType
  <2>2. \A b \in Blocks : \A e \in Entries(d, b) : e.index \in Blocks
    BY EntriesAre
  <2>3. Subdirs(d, R) \subseteq Blocks
    <3> HIDE DEF R
    <3> QED
      BY <2>1, <2>2 DEF Subdirs
  <2> QED
    BY <1>6, <2>1, <2>3
<1> QED
  BY <1>6, <1>7, <1>8

\* The entries that load_disk finds are entries of the disk.
LEMMA LiveAre ==
    ASSUME IInv, NEW e \in Live
    PROVE  EntryOf(disk, e) /\ e.dir \in Reached(disk, {0})
<1>1. DiskOK(disk) /\ {0} \in SUBSET Blocks /\ DataBlock \notin {0}
  BY Sizes DEF IInv, Blocks, DataBlock
<1>2. PICK b \in Reached(disk, {0}) : e \in Entries(disk, b)
  BY DEF Live
<1>3. b \in Blocks /\ (EntriesOK(disk) => b # DataBlock)
  BY <1>1, ReachedBlocks
<1> QED
  BY <1>1, <1>2, <1>3, EntriesAre

\* The metadata is safe: whatever sequence of calls runs, wherever it is killed, no
\* entry leads to the root directory or to the bitmap, although cr_rm frees both; unless
\* it was cr_rm that was killed, after its first pointer and before the one that is 0.
THEOREM MetadataIsSafe == Spec => []MetadataSafe
<1>1. IInv => MetadataSafe
  <2> SUFFICES ASSUME IInv, ~ past.torn, NEW e \in Live PROVE e.index \notin Reserved
    BY DEF MetadataSafe
  <2>1. DiskOK(disk) /\ EntriesOK(disk)
    BY DEF IInv, Metadata
  <2>2. e.index \notin Kept
    BY <2>1, LiveAre, EntryType
  <2> QED
    BY <2>2 DEF Kept
<1> QED
  BY <1>1, Inductive, PTL

-----------------------------------------------------------------------------
(* The steps of a search. *)

\* Two searches that go down the same names find the same, as far as they do.
LEMMA SameSteps ==
    ASSUME NEW d, NEW p \in Seq(Names), NEW q \in Seq(Names), Len(p) <= Len(q),
           \A k \in 1..Len(p) : p[k] = q[k], NEW f, NEW g, Follows(d, p, f), Follows(d, q, g)
    PROVE  \A k \in 0..Len(p) : f[k] = g[k]
<1> DEFINE n == Len(p)
           Good == {k \in 0..n : f[k] = g[k]}
<1>1. n \in Nat /\ n <= Len(q) /\ Len(q) \in Nat
  OBVIOUS
<1>2. 0 \in Good
  BY <1>1 DEF Follows
<1>3. ASSUME NEW k \in 0..(n - 1), k \in Good
      PROVE  k + 1 \in Good
  <2> DEFINE j == k + 1
  <2>1. j \in 1..n /\ j \in 1..Len(q) /\ j \in 0..n /\ j - 1 = k
    BY <1>1
  <2> HIDE DEF j
  <2>2. f[j] = Child(d, f[k], p[j]) /\ g[j] = Child(d, g[k], q[j]) /\ p[j] = q[j]
    BY <2>1 DEF Follows
  <2>3. f[j] = g[j]
    BY <1>3, <2>2
  <2> QED
    BY <2>1, <2>3 DEF j
<1>4. 0..n \subseteq Good
  <2> HIDE DEF Good
  <2> QED
    BY <1>1, <1>2, <1>3, SetInduction
<1> QED
  BY <1>4

\* A search finds what the search for a path that it begins with finds, and then
\* goes on.
LEMMA Searched ==
    ASSUME NEW d, DiskOK(d), NEW path \in Seq(Names), NEW f, Follows(d, path, f),
           NEW p \in Seq(Names), Len(p) <= Len(path), \A i \in 1..Len(p) : p[i] = path[i]
    PROVE  graph_search(d, p) = f[Len(p)]
<1>1. PICK g : Follows(d, p, g) /\ graph_search(d, p) = g[Len(p)]
  BY SearchSteps
<1>2. \A k \in 0..Len(p) : g[k] = f[k]
  BY <1>1, SameSteps
<1>3. Len(p) \in 0..Len(p)
  OBVIOUS
<1> QED
  BY <1>1, <1>2, <1>3

\* The first names of a path.
LEMMA StartIs ==
    ASSUME NEW path \in Seq(Names), NEW k \in 0..Len(path)
    PROVE  /\ SubSeq(path, 1, k) \in Seq(Names) /\ Len(SubSeq(path, 1, k)) = k
           /\ \A i \in 1..k : SubSeq(path, 1, k)[i] = path[i]
<1>1. SubSeq(path, 1, k) \in Seq(Names)
  OBVIOUS
<1>2. Len(SubSeq(path, 1, k)) = k
  OBVIOUS
<1>3. \A i \in 1..k : SubSeq(path, 1, k)[i] = path[i]
  OBVIOUS
<1> QED
  BY <1>1, <1>2, <1>3

\* A path without its last name.
LEMMA FrontIs ==
    ASSUME NEW path \in Seq(Names) \ {<<>>}
    PROVE  /\ Front(path) \in Seq(Names) /\ Len(Front(path)) = Len(path) - 1
           /\ \A i \in 1..(Len(path) - 1) : Front(path)[i] = path[i]
<1>1. Len(path) - 1 \in 0..Len(path) /\ Front(path) = SubSeq(path, 1, Len(path) - 1)
  BY DEF Front
<1> QED
  BY <1>1, StartIs

\* The last step of a search.
LEMMA SearchEnds ==
    ASSUME NEW d, DiskOK(d), NEW path \in Seq(Names) \ {<<>>}
    PROVE  graph_search(d, path) = Child(d, graph_search(d, Front(path)), Last(path))
<1> DEFINE n == Len(path)
<1>1. PICK f : Follows(d, path, f) /\ graph_search(d, path) = f[n]
  BY SearchSteps
<1>2. n \in 1..n /\ Last(path) = path[n]
  BY DEF Last
<1>3. /\ Front(path) \in Seq(Names) /\ Len(Front(path)) = n - 1
      /\ \A i \in 1..(n - 1) : Front(path)[i] = path[i]
  BY FrontIs
<1>4. graph_search(d, Front(path)) = f[n - 1]
  <2> DEFINE p == Front(path)
  <2>1. /\ p \in Seq(Names) /\ Len(p) = n - 1 /\ Len(p) <= Len(path)
        /\ \A i \in 1..Len(p) : p[i] = path[i]
    BY <1>2, <1>3
  <2> HIDE DEF p
  <2>2. Follows(d, path, f)
    BY <1>1
  <2>3. graph_search(d, p) = f[Len(p)]
    BY <2>1, <2>2, Searched
  <2> QED
    BY <2>1, <2>3 DEF p
<1>5. f[n] = Child(d, f[n - 1], path[n])
  BY <1>1, <1>2 DEF Follows
<1> QED
  BY <1>1, <1>2, <1>4, <1>5

-----------------------------------------------------------------------------
(* What the writes of cr_mkdir do to a search. *)

\* A name leads where it led when the directory has the same entries with it.
LEMMA ChildSame ==
    ASSUME NEW d, NEW e, NEW node, NEW n, Named(d, node.index, n) = Named(e, node.index, n)
    PROVE  Child(d, node, n) = Child(e, node, n)
<1> DEFINE first(S) == IF node.kind = Dir /\ S # {} THEN CHOOSE x \in S : \A y \in S : x.slot <= y.slot ELSE NoNode
<1>1. Child(d, node, n) = first(Named(d, node.index, n)) /\ Child(e, node, n) = first(Named(e, node.index, n))
  BY DEF Child, Named
<1> HIDE DEF first
<1> QED
  BY <1>1

\* The bitmap says nothing about the paths.
LEMMA BitmapSearch ==
    ASSUME NEW d, DiskOK(d), NEW e, DiskOK(e), e.kind = d.kind, e.name = d.name, e.word = d.word,
           NEW path \in Seq(Names)
    PROVE  graph_search(e, path) = graph_search(d, path)
<1>1. \A x, n : Child(e, x, n) = Child(d, x, n)
  <2> TAKE x, n
  <2>1. Named(e, x.index, n) = Named(d, x.index, n)
    BY DEF Named, Entries
  <2> QED
    BY <2>1, ChildSame
<1>2. PICK f : Follows(d, path, f) /\ graph_search(d, path) = f[Len(path)]
  BY SearchSteps
<1>3. Follows(e, path, f)
  BY <1>1, <1>2 DEF Follows
<1>4. graph_search(e, path) = f[Len(path)]
  BY <1>3, Searched
<1> QED
  BY <1>2, <1>4

\* While directories form no loop, a path leads through a directory only once.
LEMMA DirsOnce ==
    ASSUME NEW d, DiskOK(d), ~ Loops(d), NEW path \in Seq(Names), NEW f, Follows(d, path, f),
           f[Len(path)].kind = Dir
    PROVE  /\ \A k \in 0..Len(path) : f[k] \in NodeType /\ f[k].kind = Dir
           /\ \A k \in 0..(Len(path) - 1) : f[k].index # f[Len(path)].index
<1> DEFINE n == Len(path)
           R == Reached(d, {0})
<1>1. n \in Nat /\ n \in 0..n
  OBVIOUS
<1>2. ASSUME NEW k \in 0..n PROVE f[k] \in NodeType
  <2> DEFINE a == SubSeq(path, 1, k)
  <2>1. a \in Seq(Names) /\ Len(a) = k /\ \A i \in 1..k : a[i] = path[i]
    BY StartIs
  <2> HIDE DEF a
  <2>2. graph_search(d, a) = f[k]
    BY <1>1, <2>1, Searched
  <2> QED
    BY <2>1, <2>2, SearchIs
<1> HIDE DEF n
<1>3. \A k \in 1..n : f[k] = Child(d, f[k - 1], path[k])
  BY DEF Follows, n
<1>4. ASSUME NEW k \in 1..n, f[k].kind = Dir
      PROVE  f[k - 1].kind = Dir /\ f[k] \in Entries(d, f[k - 1].index)
  <2> DEFINE j == k - 1
  <2>1. j \in 0..n /\ f[j] \in NodeType
    BY <1>1, <1>2
  <2> HIDE DEF j
  <2>2. f[k] # NoNode /\ f[k] = Child(d, f[j], path[k])
    BY <1>3, <1>4 DEF NoNode, Node, Dir, j
  <2>3. f[j].kind = Dir /\ f[k] \in Named(d, f[j].index, path[k])
    BY <2>1, <2>2, ChildFinds
  <2> QED
    BY <2>3 DEF Named, j
<1> DEFINE Down == {m \in 0..n : f[n - m].kind = Dir}
<1>5. 0..n \subseteq Down
  <2>1. 0 \in Down
    BY <1>1 DEF n
  <2>2. ASSUME NEW m \in 0..(n - 1), m \in Down PROVE m + 1 \in Down
    <3> DEFINE k == n - m
    <3>1. k \in 1..n /\ k - 1 = n - (m + 1) /\ m + 1 \in 0..n /\ f[k].kind = Dir
      BY <1>1, <2>2
    <3> HIDE DEF k
    <3>2. f[k - 1].kind = Dir
      BY <1>4, <3>1
    <3> QED
      BY <3>1, <3>2
  <2> HIDE DEF Down
  <2> QED
    BY <1>1, <2>1, <2>2, SetInduction
<1>6. \A k \in 0..n : f[k].kind = Dir
  <2> TAKE k \in 0..n
  <2>1. n - k \in 0..n /\ n - (n - k) = k
    BY <1>1
  <2> QED
    BY <1>5, <2>1
<1>7. \A k \in 1..n : f[k] \in Entries(d, f[k - 1].index)
  <2> TAKE k \in 1..n
  <2>1. k \in 0..n
    BY <1>1
  <2> QED
    BY <1>4, <1>6, <2>1
<1>8. {0} \in SUBSET Blocks
  BY Sizes DEF Blocks
<1>9. R \in SUBSET Blocks /\ 0 \in R /\ Subdirs(d, R) \subseteq R
  BY <1>8, ReachedBlocks, ReachedClosed
<1> HIDE DEF R
<1> DEFINE Good == {k \in 0..n : f[k].index \in R}
<1>10. 0..n \subseteq Good
  <2>1. 0 \in Good
    BY <1>1, <1>9 DEF Follows, Root, Node
  <2>2. ASSUME NEW k \in 0..(n - 1), k \in Good PROVE k + 1 \in Good
    <3> DEFINE j == k + 1
    <3>1. j \in 1..n /\ j \in 0..n /\ j - 1 = k
      BY <1>1
    <3> HIDE DEF j
    <3>2. f[j] \in Entries(d, f[k].index) /\ f[j].kind = Dir /\ f[k].index \in R
      BY <1>6, <1>7, <2>2, <3>1
    <3>3. f[j].index \in Subdirs(d, R)
      BY <3>2 DEF Subdirs
    <3> QED
      BY <1>9, <3>1, <3>3 DEF j
  <2> HIDE DEF Good
  <2> QED
    BY <1>1, <2>1, <2>2, SetInduction
<1>11. ASSUME NEW k \in 0..(n - 1), f[k].index = f[n].index PROVE FALSE
  <2> DEFINE b == f[k].index
             D == Reached(d, Subdirs(d, {b}))
             Below == {j \in 0..n : j > k => f[j].index \in D}
  <2>1. k \in 0..n /\ b \in R
    BY <1>1, <1>10
  <2>2. Subdirs(d, {b}) \in SUBSET Blocks
    <3>1. b \in Blocks
      BY <1>9, <2>1
    <3> HIDE DEF b
    <3> QED
      BY <3>1, EntriesAre DEF Subdirs
  <2>3. Subdirs(d, {b}) \subseteq D /\ Subdirs(d, D) \subseteq D
    BY <2>2, ReachedClosed
  <2> HIDE DEF D
  <2>4. 0 \in Below
    BY <1>1, <2>1
  <2>5. ASSUME NEW i \in 0..(n - 1), i \in Below PROVE i + 1 \in Below
    <3> DEFINE j == i + 1
    <3>1. j \in 1..n /\ j \in 0..n /\ j - 1 = i /\ i \in 0..n /\ (j > k => i = k \/ i > k)
      BY <1>1
    <3> HIDE DEF j
    <3>2. f[j] \in Entries(d, f[i].index) /\ f[j].kind = Dir
      BY <1>6, <1>7, <3>1
    <3>3. i = k => f[j].index \in D
      <4>1. i = k => f[j].index \in Subdirs(d, {b})
        BY <3>2 DEF Subdirs
      <4> QED
        BY <2>3, <4>1
    <3>4. i > k => f[j].index \in D
      <4>1. i > k => f[i].index \in D
        BY <2>5
      <4>2. i > k => f[j].index \in Subdirs(d, D)
        BY <3>2, <4>1 DEF Subdirs
      <4> QED
        BY <2>3, <4>2
    <3> QED
      BY <3>1, <3>3, <3>4 DEF j
  <2>6. 0..n \subseteq Below
    <3> HIDE DEF Below
    <3> QED
      BY <1>1, <2>4, <2>5, SetInduction
  <2>7. f[n].index \in D
    BY <1>1, <2>6
  <2> QED
    BY <1>11, <2>1, <2>7 DEF Loops, R, D
<1> QED
  BY <1>2, <1>6, <1>11 DEF n

\* The entry that cr_mkdir writes is found by its path, if the directory had room: the
\* path does not lead through the same directory before, where the name could now lead
\* elsewhere.
LEMMA EntryFound ==
    ASSUME NEW d, DiskOK(d), NEW w \in WriteType, w.op = "entry", FreeSlots(d, w.dir) # {},
           NEW path \in Seq(Names) \ {<<>>}, ~ Loops(d),
           NEW parent, parent = graph_search(d, Front(path)), parent.kind = Dir,
           w.dir = parent.index, w.name = Last(path)
    PROVE  Exists(graph_search(write_dir_block(d, w), path))
<1> DEFINE e == write_dir_block(d, w)
<1>1. /\ w.dir \in Blocks /\ w.kind \in Valid /\ w.name \in Names
      /\ w.index \in Blocks
  BY WriteIs
<1>2. PICK s \in FreeSlots(d, w.dir) : WithEntry(d, w, s, e)
  BY <1>1, EntryAdded
<1>3. DiskOK(e)
  BY EntryWritten
<1>4. s \in Slots /\ d.kind[w.dir][s] \notin Valid
  BY <1>2 DEF FreeSlots
<1> HIDE DEF e
<1>5. \A b \in Blocks : \A t \in Slots :
          /\ e.kind[b][t] = IF b = w.dir /\ t = s THEN w.kind ELSE d.kind[b][t]
          /\ IndexAt(e, b, t) = IF b = w.dir /\ t = s THEN w.index ELSE IndexAt(d, b, t)
  BY <1>1, <1>2, <1>4, EntryValues
<1>6. \A b \in Blocks : \A t \in Slots : e.name[b][t] = IF b = w.dir /\ t = s THEN w.name ELSE d.name[b][t]
  <2>1. e.name = [d.name EXCEPT ![w.dir][s] = w.name]
    BY <1>2 DEF WithEntry
  <2>2. d.name \in [Blocks -> [Slots -> Names]]
    BY DiskIs
  <2> QED
    BY <1>1, <1>4, <2>1, <2>2
<1>7. Front(path) \in Seq(Names)
  BY FrontIs
<1>8. parent \in NodeType
  BY <1>7, SearchIs
<1> DEFINE p == Front(path)
           n == Len(p)
<1>9. PICK f : Follows(d, p, f) /\ parent = f[n]
  BY <1>7, SearchSteps
<1>10. \A k \in 0..(n - 1) : f[k].index \in Blocks \ {w.dir}
  <2>1. /\ \A k \in 0..n : f[k] \in NodeType
        /\ \A k \in 0..(n - 1) : f[k].index # parent.index
    <3> HIDE DEF p
    <3> QED
      BY <1>7, <1>9, DirsOnce DEF p
  <2>2. n \in Nat
    BY <1>7
  <2> HIDE DEF n
  <2>3. \A k \in 0..(n - 1) : k \in 0..n
    BY <2>2
  <2> QED
    BY <2>1, <2>3 DEF NodeType
<1>11. \A b \in Blocks \ {w.dir} : \A x : Named(e, b, x) = Named(d, b, x)
  <2> SUFFICES ASSUME NEW b \in Blocks \ {w.dir}, NEW x
               PROVE  Named(e, b, x) = Named(d, b, x)
    OBVIOUS
  <2>1. \A t \in Slots : /\ e.kind[b][t] = d.kind[b][t] /\ e.name[b][t] = d.name[b][t]
                         /\ e.word[b][IndexWord(t)] = d.word[b][IndexWord(t)]
    BY <1>5, <1>6 DEF IndexAt
  <2>2. \A y : y \in Named(e, b, x) <=> y \in Named(d, b, x)
    BY <2>1, NamedAre
  <2> QED
    BY <2>2
<1>12. graph_search(e, p) = parent
  <2>1. n \in Nat
    BY <1>7
  <2>2. Follows(e, p, f)
    <3> SUFFICES ASSUME NEW k \in 1..n PROVE f[k] = Child(e, f[k - 1], p[k])
      BY <1>9 DEF Follows
    <3> DEFINE x == f[k - 1]
    <3>1. k - 1 \in 0..(n - 1)
      BY <2>1
    <3>2. x.index \in Blocks \ {w.dir}
      BY <1>10, <3>1
    <3>3. f[k] = Child(d, x, p[k])
      BY <1>9 DEF Follows
    <3> HIDE DEF x
    <3>4. Named(d, x.index, p[k]) = Named(e, x.index, p[k])
      BY <1>11, <3>2
    <3>5. Child(d, x, p[k]) = Child(e, x, p[k])
      BY <3>4, ChildSame
    <3> QED
      BY <3>3, <3>5 DEF x
  <2> HIDE DEF p
  <2>3. graph_search(e, p) = f[Len(p)]
    BY <1>3, <1>7, <2>1, <2>2, Searched DEF p
  <2> QED
    BY <1>9, <2>3
<1> HIDE DEF n
<1>13. Node(e.kind[w.dir][s], e.word[w.dir][IndexWord(s)], w.dir, s) \in Named(e, w.dir, w.name)
  BY <1>1, <1>4, <1>5, <1>6, NamedAre
<1>14. graph_search(e, path) \in Named(e, w.dir, w.name)
  <2>1. Child(e, parent, w.name) \in Named(e, w.dir, w.name)
    BY <1>3, <1>8, <1>13, ChildFinds
  <2> QED
    BY <1>3, <1>12, <2>1, SearchEnds DEF p
<1>15. graph_search(e, path).kind \in Valid
  BY <1>14, NamedAre DEF Node
<1> QED
  BY <1>15 DEF Exists, NoNode, Node, Valid, Dir, File, e

-----------------------------------------------------------------------------
(* Why a program ends. *)

\* The last ancestor that a path has, without its last name, is a file or a full
\* directory.
Blocked(d, path) ==
    \E k \in 0..(Len(path) - 2) :
        LET node == graph_search(d, SubSeq(path, 1, k))
        IN  /\ Exists(node) /\ ~ Exists(graph_search(d, SubSeq(path, 1, k + 1)))
            /\ node.kind = File \/ FreeSlots(d, node.index) = {}
\* The parent of a path is there, unless there is a cause for which it could not be made.
Tried(d, path) == Exists(graph_search(d, Front(path))) \/ 0 \notin d.bitmap \/ Blocked(d, path)

\* The writes of cr_mkdir for a path, before and after that of the entry.
MarkOnly(writes) == \A k \in 1..Len(writes) : writes[k].op = "used"
Making(d, path, writes) ==
    /\ writes # <<>> /\ MarkOnly(Tail(writes)) /\ ~ Loops(d)
    /\ LET w == Head(writes)
           parent == graph_search(d, Front(path))
       IN  w.op = "entry" /\ parent.kind = Dir /\ w.dir = parent.index /\ w.name = Last(path)

\* Every call in progress but the outermost is one of cr_mkdir for the parent of the
\* path of the call that waits for it, and so for a beginning of the outermost path.
IsStart(p, q) == Len(p) <= Len(q) /\ \A i \in 1..Len(p) : p[i] = q[i]
Chain(s) ==
    \A k \in 1..Len(s) :
        /\ IsStart(s[k].path, s[Len(s)].path)
        /\ k < Len(s) => s[k].op = "mkdir" /\ s[k].path = Front(s[k + 1].path)

\* A call that tries again has its parent, or there is a cause why not; and the call
\* that makes the parent is on the way to that.
Explained(d, path, orig) ==
    Loops(d) \/ 0 \notin d.bitmap \/ Blocked(d, path) \/ ~ Exists(graph_search(d, orig))
XInv ==
    /\ segfault => stack = <<>> /\ Explained(disk, last.path, last.orig)
    /\ Chain(stack)
    /\ (todo = <<>> /\ stack # <<>> /\ Top.loaded) => ~ Loops(disk)
    /\ (todo = <<>> /\ stack # <<>> /\ Top.again) => Tried(disk, Top.path)
    /\ (todo # <<>> /\ Len(stack) > 1) =>
          \/ Making(disk, Top.path, todo)
          \/ MarkOnly(todo) /\ Tried(disk, stack[2].path)

\* The beginnings of a path lead where those of a longer path lead.
LEMMA BlockedStart ==
    ASSUME NEW d, DiskOK(d), NEW p \in Seq(Names), NEW q \in Seq(Names), IsStart(p, q), Blocked(d, p)
    PROVE  Blocked(d, q)
<1>1. PICK f : Follows(d, q, f)
  BY SearchSteps
<1>2. ASSUME NEW k \in 0..Len(p)
      PROVE  graph_search(d, SubSeq(p, 1, k)) = graph_search(d, SubSeq(q, 1, k))
  <2>1. k \in 0..Len(q) /\ k <= Len(q)
    BY DEF IsStart
  <2> DEFINE a == SubSeq(p, 1, k)
             b == SubSeq(q, 1, k)
  <2>2. /\ a \in Seq(Names) /\ Len(a) = k /\ \A i \in 1..k : a[i] = p[i]
        /\ b \in Seq(Names) /\ Len(b) = k /\ \A i \in 1..k : b[i] = q[i]
    BY <2>1, StartIs
  <2> HIDE DEF a, b
  <2>3. \A i \in 1..k : a[i] = q[i]
    BY <2>2 DEF IsStart
  <2>4. graph_search(d, a) = f[k] /\ graph_search(d, b) = f[k]
    BY <1>1, <2>1, <2>2, <2>3, Searched
  <2> QED
    BY <2>4 DEF a, b
<1>3. PICK k \in 0..(Len(p) - 2) :
          LET node == graph_search(d, SubSeq(p, 1, k))
          IN  /\ Exists(node) /\ ~ Exists(graph_search(d, SubSeq(p, 1, k + 1)))
              /\ node.kind = File \/ FreeSlots(d, node.index) = {}
  BY DEF Blocked
<1>4. k \in 0..Len(p) /\ k + 1 \in 0..Len(p) /\ k \in 0..(Len(q) - 2)
  BY DEF IsStart
<1>5. /\ graph_search(d, SubSeq(p, 1, k)) = graph_search(d, SubSeq(q, 1, k))
      /\ graph_search(d, SubSeq(p, 1, k + 1)) = graph_search(d, SubSeq(q, 1, k + 1))
  BY <1>2, <1>4
<1> QED
  BY <1>3, <1>4, <1>5 DEF Blocked

\* cr_mkdir cannot make the parent of a path in a file or in a full directory.
LEMMA BlockedParent ==
    ASSUME NEW d, NEW path \in Seq(Names) \ {<<>>}, NEW dir \in Seq(Names) \ {<<>>}, dir = Front(path),
           NEW node, node = graph_search(d, Front(dir)), Exists(node), ~ Exists(graph_search(d, dir)),
           node.kind = File \/ FreeSlots(d, node.index) = {}
    PROVE  Blocked(d, path)
<1> DEFINE k == Len(path) - 2
<1>1. Len(dir) = Len(path) - 1 /\ Len(dir) >= 1 /\ Len(path) \in Nat
  BY FrontIs
<1>2. k \in 0..k /\ k + 1 = Len(path) - 1
  BY <1>1
<1>3. dir = SubSeq(path, 1, k + 1)
  BY <1>2 DEF Front
<1>4. Front(dir) = SubSeq(path, 1, k)
  <2> DEFINE a == Front(dir)
             b == SubSeq(path, 1, k)
  <2>0. Len(dir) - 1 = k /\ k + 1 = Len(path) - 1
    BY <1>1
  <2>1. a \in Seq(Names) /\ Len(a) = k /\ \A i \in 1..k : a[i] = dir[i]
    <3>1. a \in Seq(Names) /\ Len(a) = Len(dir) - 1 /\ \A i \in 1..(Len(dir) - 1) : a[i] = dir[i]
      BY FrontIs
    <3> HIDE DEF a, k
    <3> QED
      BY <2>0, <3>1
  <2>2. b \in Seq(Names) /\ Len(b) = k /\ \A i \in 1..k : b[i] = path[i]
    BY <1>1, StartIs
  <2>3. \A i \in 1..k : dir[i] = path[i]
    <3>1. \A i \in 1..(Len(path) - 1) : dir[i] = path[i]
      BY FrontIs
    <3>2. 1..k \subseteq 1..(Len(path) - 1)
      BY <1>1
    <3> QED
      BY <3>1, <3>2
  <2> HIDE DEF a, b, k
  <2>4. \A i \in 1..k : a[i] = b[i]
    BY <2>1, <2>2, <2>3
  <2>5. a = b
    BY <2>1, <2>2, <2>4
  <2> QED
    BY <2>5 DEF a, b
<1> HIDE DEF k
<1> QED
  BY <1>2, <1>3, <1>4 DEF Blocked, k

\* A mark in the bitmap takes no cause away.
LEMMA TriedMarked ==
    ASSUME NEW d, DiskOK(d), NEW e, DiskOK(e), e.kind = d.kind, e.name = d.name, e.word = d.word,
           NEW b, b # 0, e.bitmap = d.bitmap \union {b}, NEW path \in Seq(Names) \ {<<>>}, Tried(d, path)
    PROVE  Tried(e, path)
<1>1. Front(path) \in Seq(Names)
  BY FrontIs
<1>2. graph_search(e, Front(path)) = graph_search(d, Front(path))
  BY <1>1, BitmapSearch
<1>3. 0 \notin d.bitmap => 0 \notin e.bitmap
  OBVIOUS
<1>4. ASSUME Blocked(d, path)
      PROVE  Blocked(e, path)
  <2>1. PICK k \in 0..(Len(path) - 2) :
            LET node == graph_search(d, SubSeq(path, 1, k))
            IN  /\ Exists(node) /\ ~ Exists(graph_search(d, SubSeq(path, 1, k + 1)))
                /\ node.kind = File \/ FreeSlots(d, node.index) = {}
    BY <1>4 DEF Blocked
  <2>2. k \in 0..Len(path) /\ k + 1 \in 0..Len(path)
    OBVIOUS
  <2> DEFINE p == SubSeq(path, 1, k)
             q == SubSeq(path, 1, k + 1)
  <2>3. p \in Seq(Names) /\ q \in Seq(Names)
    BY <2>2, StartIs
  <2> HIDE DEF p, q
  <2>4. graph_search(e, p) = graph_search(d, p) /\ graph_search(e, q) = graph_search(d, q)
    BY <2>3, BitmapSearch
  <2>5. \A i : FreeSlots(e, i) = FreeSlots(d, i)
    BY DEF FreeSlots
  <2> QED
    BY <2>1, <2>4, <2>5 DEF Blocked, p, q
<1> QED
  BY <1>2, <1>3, <1>4 DEF Tried

\* The write of the entry: the parent of the path is there then, or has no room.
LEMMA EntryTried ==
    ASSUME NEW d, DiskOK(d), NEW writes \in Seq(WriteType), NEW path \in Seq(Names) \ {<<>>},
           NEW dir \in Seq(Names) \ {<<>>}, dir = Front(path), Making(d, dir, writes)
    PROVE  Tried(Apply(d, Head(writes)), path)
<1> DEFINE w == Head(writes)
           parent == graph_search(d, Front(dir))
<1>1. /\ w.op = "entry" /\ parent.kind = Dir /\ w.dir = parent.index /\ w.name = Last(dir)
      /\ ~ Loops(d) /\ w \in WriteType
  BY DEF Making
<1>2. Apply(d, w) = write_dir_block(d, w)
  BY <1>1 DEF Apply
<1>3. Exists(parent)
  BY <1>1 DEF Exists, NoNode, Node, Dir
<1> HIDE DEF w, parent
<1>4. CASE FreeSlots(d, w.dir) = {}
  <2>1. Apply(d, w) = d
    BY <1>2, <1>4 DEF write_dir_block
  <2>2. Exists(graph_search(d, dir)) \/ Blocked(d, path)
    BY <1>1, <1>3, <1>4, BlockedParent DEF parent
  <2> QED
    BY <2>1, <2>2 DEF Tried, w
<1>5. CASE FreeSlots(d, w.dir) # {}
  <2>1. Exists(graph_search(write_dir_block(d, w), dir))
    BY <1>1, <1>5, EntryFound DEF parent
  <2> QED
    BY <1>2, <2>1 DEF Tried, w
<1> QED
  BY <1>4, <1>5

-----------------------------------------------------------------------------
(* Steps, and the calls in progress. *)

\* What reading, writing and trying again leave of a call.
LEMMA FrameKept ==
    ASSUME NEW frame \in FrameType, NEW h, NEW p, NEW o, NEW ret
    PROVE  /\ Reading(frame, h, p, o).path = frame.path /\ Reading(frame, h, p, o).op = frame.op
           /\ Reading(frame, h, p, o).again = frame.again
           /\ Returning(frame, ret).path = frame.path /\ Returning(frame, ret).op = frame.op
           /\ Returning(frame, ret).again = frame.again
           /\ Retried(frame).path = frame.path /\ Retried(frame).op = frame.op
<1> DEFINE ops == {"mkdir", "open", "rm", "hardlink"}
           paths == Seq(Names) \ {<<>>}
           origs == Seq(Names)
           rets == {0, -1}
           nodes == NodeType
           B == BOOLEAN
           Calls == [op : ops, path : paths, orig : origs, loaded : B, again : B, ret : rets,
                     here : nodes, parent : nodes, origin : nodes]
<1>1. frame \in Calls
  BY DEF FrameType, Frames
<1> HIDE DEF ops, paths, origs, rets, nodes, B
<1> QED
  BY <1>1 DEF Reading, Returning, Retried

\* A new call by itself.
Fresh(new, op, path) == new.op = op /\ new.path = path /\ ~ new.again /\ ~ new.loaded
LEMMA FrameIs ==
    ASSUME NEW op, NEW path, NEW orig
    PROVE  Fresh(Frame(op, path, orig), op, path)
<1> DEFINE Calls(ops, paths, P, S, T) ==
               [op : ops, path : paths, orig : P, loaded : {FALSE}, again : {FALSE}, ret : S,
                here : T, parent : T, origin : T]
           F == Frame(op, path, orig)
<1>1. None \in Calls({"none"}, {<<>>}, {<<>>}, {0}, {NoNode})
  BY DEF None
<1>2. F \in Calls({op}, {path}, {orig}, {0}, {NoNode})
  BY <1>1 DEF Frame
<1> HIDE DEF F
<1>3. Fresh(F, op, path)
  BY <1>2 DEF Fresh
<1> QED
  BY <1>3 DEF F

\* The chain, with the same paths and operations.
LEMMA ChainSame ==
    ASSUME NEW s \in Seq(FrameType), Chain(s), NEW t \in Seq(FrameType), Len(t) = Len(s),
           \A k \in 1..Len(s) : t[k].path = s[k].path /\ t[k].op = s[k].op
    PROVE  Chain(t)
<1> SUFFICES ASSUME NEW k \in 1..Len(t)
             PROVE  /\ IsStart(t[k].path, t[Len(t)].path)
                    /\ k < Len(t) => t[k].op = "mkdir" /\ t[k].path = Front(t[k + 1].path)
  BY DEF Chain
<1>1. Len(s) \in Nat /\ Len(t) = Len(s) /\ k \in 1..Len(s) /\ Len(s) \in 1..Len(s)
  OBVIOUS
<1>2. IsStart(s[k].path, s[Len(s)].path) /\ (k < Len(s) => s[k].op = "mkdir" /\ s[k].path = Front(s[k + 1].path))
  BY <1>1 DEF Chain
<1>3. k < Len(s) => k + 1 \in 1..Len(s)
  BY <1>1
<1>4. k < Len(s) => t[k + 1].path = s[k + 1].path
  BY <1>3
<1>5. t[k].path = s[k].path /\ t[k].op = s[k].op /\ t[Len(s)].path = s[Len(s)].path
  BY <1>1
<1> QED
  BY <1>1, <1>2, <1>4, <1>5

\* The chain, without the innermost call.
LEMMA ChainTail ==
    ASSUME NEW s \in Seq(FrameType), s # <<>>, Chain(s)
    PROVE  Chain(Tail(s))
<1> DEFINE t == Tail(s)
<1>1. Len(s) \in Nat /\ Len(s) >= 1 /\ Len(t) = Len(s) - 1 /\ \A k \in 1..Len(t) : t[k] = s[k + 1]
  OBVIOUS
<1> HIDE DEF t
<1>2. ASSUME NEW k \in 1..Len(t)
      PROVE  /\ IsStart(t[k].path, t[Len(t)].path)
             /\ k < Len(t) => t[k].op = "mkdir" /\ t[k].path = Front(t[k + 1].path)
  <2> DEFINE j == k + 1
  <2>1. j \in 1..Len(s) /\ t[k] = s[j] /\ Len(t) \in 1..Len(t) /\ Len(t) + 1 = Len(s)
    BY <1>1
  <2>2. t[Len(t)] = s[Len(s)]
    BY <1>1, <2>1
  <2>3. k < Len(t) => j < Len(s) /\ k + 1 \in 1..Len(t) /\ t[k + 1] = s[j + 1]
    BY <1>1
  <2> HIDE DEF j
  <2>4. IsStart(s[j].path, s[Len(s)].path) /\ (j < Len(s) => s[j].op = "mkdir" /\ s[j].path = Front(s[j + 1].path))
    BY <2>1 DEF Chain
  <2> QED
    BY <2>1, <2>2, <2>3, <2>4
<1>3. Chain(t)
  BY <1>2 DEF Chain
<1> QED
  BY <1>3 DEF t

\* The chain, with a call for the parent of the innermost path.
LEMMA ChainLonger ==
    ASSUME NEW s \in Seq(FrameType), s # <<>>, Chain(s), NEW t \in Seq(FrameType), Len(t) = Len(s) + 1,
           t[1].op = "mkdir", t[1].path = Front(s[1].path),
           \A k \in 1..Len(s) : t[k + 1].path = s[k].path /\ t[k + 1].op = s[k].op
    PROVE  Chain(t)
<1> DEFINE n == Len(s)
<1>1. n \in Nat /\ n >= 1 /\ Len(t) = n + 1 /\ n \in 1..n /\ 1 \in 1..n
  OBVIOUS
<1> HIDE DEF n
<1>2. t[n + 1].path = s[n].path /\ t[2].path = s[1].path
  BY <1>1 DEF n
<1>3. IsStart(t[1].path, t[n + 1].path)
  <2> DEFINE p == s[1].path
  <2>1. IsStart(p, s[n].path)
    BY <1>1 DEF Chain, n
  <2>2. p \in Seq(Names) \ {<<>>}
    <3>1. s[1] \in FrameType
      BY <1>1 DEF n
    <3> QED
      BY <3>1 DEF FrameType, Frames
  <2>3. s[n].path \in Seq(Names)
    <3>1. s[n] \in FrameType
      BY <1>1 DEF n
    <3> QED
      BY <3>1 DEF FrameType, Frames
  <2> DEFINE q == s[n].path
  <2>4. Len(p) \in Nat /\ Len(q) \in Nat
    BY <2>2, <2>3
  <2> HIDE DEF p, q
  <2>5. Len(Front(p)) = Len(p) - 1 /\ \A i \in 1..(Len(p) - 1) : Front(p)[i] = p[i]
    BY <2>2, FrontIs
  <2>6. Len(p) <= Len(q) /\ \A i \in 1..Len(p) : p[i] = q[i]
    BY <2>1 DEF IsStart, q
  <2>7. 1..(Len(p) - 1) \subseteq 1..Len(p)
    BY <2>4
  <2>8. IsStart(Front(p), q)
    BY <2>4, <2>5, <2>6, <2>7 DEF IsStart
  <2> QED
    BY <1>2, <2>8 DEF p, q
<1>4. ASSUME NEW k \in 1..Len(t)
      PROVE  /\ IsStart(t[k].path, t[Len(t)].path)
             /\ k < Len(t) => t[k].op = "mkdir" /\ t[k].path = Front(t[k + 1].path)
  <2>1. CASE k = 1
    BY <1>1, <1>2, <1>3, <2>1
  <2>2. CASE k # 1
    <3> DEFINE j == k - 1
    <3>1. j \in 1..n /\ k = j + 1 /\ (k < Len(t) => j < n /\ j + 1 \in 1..n)
      BY <1>1, <2>2
    <3> HIDE DEF j
    <3>2. IsStart(s[j].path, s[n].path) /\ (j < n => s[j].op = "mkdir" /\ s[j].path = Front(s[j + 1].path))
      BY <3>1 DEF Chain, n
    <3>3. t[k].path = s[j].path /\ t[k].op = s[j].op
      BY <3>1 DEF n
    <3>4. k < Len(t) => t[k + 1].path = s[j + 1].path
      <4> SUFFICES ASSUME k < Len(t) PROVE t[k + 1].path = s[j + 1].path
        OBVIOUS
      <4> DEFINE m == j + 1
      <4>1. m \in 1..n /\ k + 1 = m + 1
        BY <3>1
      <4> HIDE DEF m
      <4>2. t[m + 1].path = s[m].path
        BY <4>1 DEF n
      <4> QED
        BY <4>1, <4>2 DEF m
    <3> QED
      BY <1>1, <1>2, <3>1, <3>2, <3>3, <3>4
  <2> QED
    BY <2>1, <2>2
<1> QED
  BY <1>4 DEF Chain

\* The innermost call and the one that waits for it.
LEMMA ChainIs ==
    ASSUME IInv, Chain(stack), stack # <<>>
    PROVE  /\ Len(stack) \in Nat /\ Len(stack) >= 1 /\ Top = stack[1]
           /\ stack[Len(stack)].path \in Seq(Names) /\ IsStart(Top.path, stack[Len(stack)].path)
           /\ Len(stack) > 1 => /\ Top.op = "mkdir" /\ Top.path = Front(stack[2].path)
                                /\ stack[2].path \in Seq(Names) \ {<<>>}
<1>1. stack \in Seq(FrameType) /\ Top = stack[1]
  BY TopIs DEF IInv
<1>2. Len(stack) \in Nat /\ Len(stack) >= 1 /\ \A k \in 1..Len(stack) : stack[k] \in FrameType
  BY <1>1
<1>3. \A frame \in FrameType : frame.path \in Seq(Names) \ {<<>>}
  BY DEF FrameType, Frames
<1>4. 1 \in 1..Len(stack) /\ Len(stack) \in 1..Len(stack) /\ (Len(stack) > 1 => 2 \in 1..Len(stack))
  BY <1>2
<1>5. /\ IsStart(stack[1].path, stack[Len(stack)].path)
      /\ 1 < Len(stack) => stack[1].op = "mkdir" /\ stack[1].path = Front(stack[1 + 1].path)
  BY <1>4 DEF Chain
<1>6. Len(stack) > 1 => Top.op = "mkdir" /\ Top.path = Front(stack[2].path)
  BY <1>1, <1>2, <1>5
<1> QED
  BY <1>1, <1>2, <1>3, <1>4, <1>5, <1>6

-----------------------------------------------------------------------------
(* The invariant of the ends of a program. *)

\* At first no call is in progress.
LEMMA XInit == Init => XInv
BY DEF Init, XInv, Chain

\* While a call is in progress, the program has not ended.
LEMMA StillRuns ==
    ASSUME XInv, stack # <<>>, IInv
    PROVE  segfault = FALSE
BY DEF XInv, IInv

\* A new call is the only one, and has not tried to make a parent.
LEMMA CallExplained ==
    ASSUME IInv, Call
    PROVE  XInv'
<1>1. stack = <<>> /\ todo = <<>> /\ ~ segfault
  BY DEF Call, IInv, TodoOK
<1>2. PICK frame : stack' = <<frame>> /\ ~ frame.again /\ ~ frame.loaded /\ frame.path \in Seq(Names)
  <2>1. PICK path \in Paths :
            \/ \E op \in {"mkdir", "open", "rm"} : stack' = <<Frame(op, path, <<>>)>>
            \/ \E orig \in Paths : stack' = <<Frame("hardlink", path, orig)>>
    BY DEF Call
  <2>2. path \in Seq(Names)
    BY LayoutAssumption
  <2>3. PICK op, orig : stack' = <<Frame(op, path, orig)>>
    BY <2>1
  <2> DEFINE frame == Frame(op, path, orig)
  <2>4. Fresh(frame, op, path)
    BY FrameIs, Zenon
  <2> HIDE DEF frame
  <2> QED
    BY <2>2, <2>3, <2>4 DEF frame, Fresh
<1>3. todo' = <<>> /\ segfault' = FALSE
  BY <1>1 DEF Call, IInv
<1>4. Len(stack') = 1 /\ (stack')[1] = frame /\ Head(stack') = frame
  BY <1>2
<1>5. IsStart(frame.path, frame.path)
  BY <1>2 DEF IsStart
<1>6. Chain(stack')
  BY <1>4, <1>5 DEF Chain
<1> QED
  BY <1>2, <1>3, <1>4, <1>6 DEF XInv, Top

\* A process that is killed leaves no call behind.
LEMMA KillExplained ==
    ASSUME IInv, XInv, Kill
    PROVE  XInv'
<1>1. stack # <<>> /\ stack' = <<>> /\ todo' = <<>> /\ segfault' = segfault
  BY DEF Kill, IInv, TodoOK
<1>2. segfault' = FALSE
  BY <1>1, StillRuns
<1>3. Chain(stack')
  BY <1>1 DEF Chain
<1> QED
  BY <1>1, <1>2, <1>3 DEF XInv

\* A call that reads the disk keeps its path, and whether it tries again.
LEMMA LoadExplained ==
    ASSUME IInv, XInv, Load
    PROVE  XInv'
<1>1. StackOK /\ stack # <<>> /\ todo = <<>> /\ Chain(stack)
  BY DEF IInv, Load, Loading, TodoOK, XInv
<1>2. /\ Top \in FrameType /\ stack \in Seq(FrameType) /\ Top = stack[1]
      /\ \A k \in 2..Len(stack) : ~ stack[k].loaded
  BY <1>1, TopIs
<1> DEFINE h == IF Top.again THEN Top.here ELSE graph_search(disk, Top.path)
           p == graph_search(disk, Front(Top.path))
           o == graph_search(disk, Top.orig)
           frame == Reading(Top, h, p, o)
<1>3. stack' = [stack EXCEPT ![1] = frame]
  <2>1. stack' = [stack EXCEPT ![1].loaded = TRUE, ![1].here = IF Top.again THEN @ ELSE graph_search(disk, Top.path),
                         ![1].parent = p, ![1].origin = o]
    BY DEF Load
  <2>2. stack' = [stack EXCEPT ![1].loaded = TRUE, ![1].here = h, ![1].parent = p, ![1].origin = o]
    <3>1. stack[1].here = Top.here
      BY <1>2
    <3> QED
      BY <2>1, <3>1
  <2> HIDE DEF h, p, o
  <2> QED
    BY <1>1, <1>2, <2>2 DEF Reading
<1>4. frame.path = Top.path /\ frame.op = Top.op /\ frame.again = Top.again
  <2>1. Top \in FrameType
    BY <1>2
  <2> HIDE DEF h, p, o
  <2> QED
    BY <2>1, FrameKept
<1>5. disk' = disk /\ todo' = <<>> /\ segfault' = segfault /\ ~ Loops(disk)
  BY <1>1 DEF Load
<1> HIDE DEF frame, h, p, o
<1>6. /\ Len(stack') = Len(stack) /\ Len(stack) >= 1 /\ Len(stack) \in Nat
      /\ (stack')[1] = frame /\ \A k \in 2..Len(stack) : (stack')[k] = stack[k]
  BY <1>1, <1>2, <1>3
<1>7. stack' \in Seq(FrameType)
  BY LoadKeeps DEF IInv, StackOK
<1>8. \A k \in 1..Len(stack) : (stack')[k].path = stack[k].path /\ (stack')[k].op = stack[k].op
  <2> TAKE k \in 1..Len(stack)
  <2>1. CASE k = 1
    BY <1>2, <1>4, <1>6, <2>1
  <2>2. CASE k # 1
    <3>1. k \in 2..Len(stack)
      BY <2>2
    <3> QED
      BY <1>6, <3>1
  <2> QED
    BY <2>1, <2>2
<1>9. Chain(stack')
  BY <1>1, <1>2, <1>6, <1>7, <1>8, ChainSame
<1>10. Top' = frame
  BY <1>6, <1>7 DEF Top
<1>11. Top.again => Tried(disk, Top.path)
  BY <1>1 DEF XInv
<1>12. segfault' = FALSE
  BY <1>1, <1>5, StillRuns
<1> QED
  BY <1>4, <1>5, <1>9, <1>10, <1>11, <1>12 DEF XInv

\* The program ends, for one of the causes.
LEMMA SegfaultIs ==
    ASSUME IInv, XInv, stack # <<>>, todo = <<>>, Segfault,
           Explained(disk, Top.path, Last(stack).orig)
    PROVE  XInv'
<1>1. DiskOK(disk) /\ StackOK /\ Chain(stack)
  BY DEF IInv, XInv
<1>2. /\ stack' = <<>> /\ todo' = <<>> /\ disk' = disk /\ last'.path = stack[Len(stack)].path
      /\ last'.orig = Last(stack).orig
  <2>1. last'.path = Last(stack).path /\ last'.orig = Last(stack).orig
    BY DEF Segfault
  <2> QED
    BY <2>1 DEF Segfault, Last
<1>3. Blocked(disk, Top.path) => Blocked(disk, stack[Len(stack)].path)
  BY <1>1, ChainIs, TopIs, BlockedStart
<1>4. Chain(stack')
  BY <1>2 DEF Chain
<1>5. Explained(disk', last'.path, last'.orig)
  BY <1>2, <1>3 DEF Explained
<1> QED
  BY <1>2, <1>4, <1>5 DEF XInv

\* The other operations are never called by another one.
LEMMA OutermostIs ==
    ASSUME IInv, XInv, NEW op, op # "mkdir", Running(op)
    PROVE  stack # <<>> /\ todo = <<>> /\ Len(stack) = 1
<1>1. stack # <<>> /\ todo = <<>> /\ Top.op = op /\ Chain(stack)
  BY DEF Running, XInv
<1>2. Len(stack) \in Nat /\ Len(stack) >= 1 /\ (Len(stack) > 1 => Top.op = "mkdir")
  BY <1>1, ChainIs
<1>3. ~ (Len(stack) > 1)
  BY <1>1, <1>2, Zenon
<1>4. Len(stack) = 1
  <2> DEFINE n == Len(stack)
  <2>1. n \in Nat /\ n >= 1 /\ ~ (n > 1)
    BY <1>2, <1>3, Zenon
  <2> HIDE DEF n
  <2>2. n = 1
    BY <2>1
  <2> QED
    BY <2>2 DEF n
<1> QED
  BY <1>1, <1>4

\* A missing parent that was tried to be made, or a file to link to that is gone.
LEMMA MissingExplained ==
    ASSUME IInv, XInv, NEW op, Running(op), MissingParent
    PROVE  XInv'
<1>1. /\ stack # <<>> /\ todo = <<>> /\ Top.loaded /\ Top.again /\ Segfault
      /\ ~ Exists(Parent) \/ (Top.op = "hardlink" /\ ~ Exists(Origin))
  BY DEF Running, MissingParent, Missing
<1>2. Parent = graph_search(disk, Front(Top.path)) /\ Origin = graph_search(disk, Top.orig)
  BY <1>1 DEF IInv, StackOK, Found, Parent, Origin
<1>3. Tried(disk, Top.path)
  BY <1>1 DEF XInv
<1>4. CASE ~ Exists(Parent)
  BY <1>1, <1>2, <1>3, <1>4, SegfaultIs DEF Tried, Explained
<1>5. CASE Top.op = "hardlink" /\ ~ Exists(Origin)
  <2>1. Running("hardlink")
    BY <1>1, <1>5 DEF Running
  <2>2. Len(stack) = 1
    BY <2>1, OutermostIs
  <2>3. Last(stack) = Top
    <3>1. stack \in Seq(FrameType) /\ Top = stack[1]
      BY <1>1, TopIs DEF IInv
    <3> QED
      BY <2>2, <3>1 DEF Last
  <2> QED
    BY <1>1, <1>2, <1>5, <2>3, SegfaultIs DEF Explained
<1> QED
  BY <1>1, <1>4, <1>5

\* The end of a call, and what the one that waited for it finds.
LEMMA ReturnExplained ==
    ASSUME IInv, XInv, stack # <<>>, todo = <<>>, NEW ret, Return(ret),
           Len(stack) > 1 => Tried(disk, stack[2].path)
    PROVE  XInv'
<1>1. stack' = Tail(stack) /\ todo' = <<>> /\ disk' = disk /\ segfault' = segfault
  BY DEF Return
<1>2. stack \in Seq(FrameType) /\ Chain(stack)
  BY DEF IInv, StackOK, XInv
<1>3. Chain(stack')
  BY <1>1, <1>2, ChainTail
<1>4. stack' # <<>> => Len(stack) > 1 /\ Top' = stack[2] /\ ~ Top'.loaded
  <2>1. stack' # <<>> => Len(stack) > 1 /\ Top' = stack[2]
    BY <1>1, <1>2 DEF Top
  <2>2. \A k \in 2..Len(stack) : ~ stack[k].loaded
    BY DEF IInv, StackOK
  <2>3. Len(stack) \in Nat
    BY <1>2
  <2> QED
    BY <2>1, <2>2, <2>3
<1>5. segfault' = FALSE
  BY <1>1, StillRuns
<1> QED
  BY <1>1, <1>3, <1>4, <1>5 DEF XInv

\* A call that goes on to its writes.
LEMMA WriteExplained ==
    ASSUME IInv, XInv, stack # <<>>, Top.loaded, todo = <<>>, NEW writes, NEW ret, Write(writes, ret), IInv',
           Len(stack) > 1 => Making(disk, Top.path, writes)
    PROVE  XInv'
<1>1. StackOK /\ Chain(stack)
  BY DEF IInv, XInv
<1>2. Top \in FrameType /\ stack \in Seq(FrameType) /\ Top = stack[1]
  BY <1>1, TopIs
<1> DEFINE frame == Returning(Top, ret)
<1>3. frame.path = Top.path /\ frame.op = Top.op /\ frame.again = Top.again
  BY <1>2, FrameKept
<1>4. stack' = [stack EXCEPT ![1] = frame]
  BY <1>2 DEF Write, Returning
<1>5. todo' = writes /\ disk' = disk /\ segfault' = segfault
  BY DEF Write
<1> HIDE DEF frame
<1>6. /\ Len(stack') = Len(stack) /\ Len(stack) >= 1 /\ Len(stack) \in Nat
      /\ (stack')[1] = frame /\ \A k \in 2..Len(stack) : (stack')[k] = stack[k]
  BY <1>2, <1>4
<1>7. stack' \in Seq(FrameType)
  BY DEF IInv, StackOK
<1>8. \A k \in 1..Len(stack) : (stack')[k].path = stack[k].path /\ (stack')[k].op = stack[k].op
  <2> TAKE k \in 1..Len(stack)
  <2>1. CASE k = 1
    BY <1>2, <1>3, <1>6, <2>1
  <2>2. CASE k # 1
    <3>1. k \in 2..Len(stack)
      BY <2>2
    <3> QED
      BY <1>6, <3>1
  <2> QED
    BY <2>1, <2>2
<1>9. Chain(stack')
  BY <1>1, <1>2, <1>6, <1>7, <1>8, ChainSame
<1>10. Top' = frame
  BY <1>6, <1>7 DEF Top
<1>11. (Top.again => Tried(disk, Top.path)) /\ ~ Loops(disk)
  BY DEF XInv
<1>12. segfault' = FALSE
  BY <1>5, StillRuns
<1> QED
  BY <1>3, <1>5, <1>6, <1>9, <1>10, <1>11, <1>12 DEF XInv

\* The call for the missing parent.
LEMMA MakeParentExplained ==
    ASSUME IInv, XInv, stack # <<>>, Top.loaded, todo = <<>>, MakeParent, Here = NoNode
    PROVE  XInv'
<1>1. StackOK /\ Chain(stack)
  BY DEF IInv, XInv
<1>2. Top \in FrameType /\ stack \in Seq(FrameType) /\ Top = stack[1]
  BY <1>1, TopIs
<1> DEFINE outer == Retried(Top)
           inner == Frame("mkdir", Front(Top.path), <<>>)
           rest == Tail(stack)
<1>3. stack' = <<inner, outer>> \o rest /\ disk' = disk /\ todo' = <<>> /\ segfault' = segfault
  BY DEF MakeParent
<1>4. inner.op = "mkdir" /\ inner.path = Front(Top.path) /\ ~ inner.again /\ ~ inner.loaded
  <2>1. Fresh(inner, "mkdir", Front(Top.path))
    BY FrameIs, Zenon
  <2> HIDE DEF inner
  <2> QED
    BY <2>1 DEF Fresh
<1>5. outer.path = Top.path /\ outer.op = Top.op
  BY <1>2, FrameKept
<1>6. stack' \in Seq(FrameType)
  BY MakeParentKeeps DEF IInv, StackOK
<1> HIDE DEF inner, outer
<1>7. /\ Len(stack) \in Nat /\ Len(stack) >= 1 /\ rest \in Seq(FrameType) /\ Len(rest) = Len(stack) - 1
      /\ \A k \in 1..Len(rest) : rest[k] = stack[k + 1]
  BY <1>2
<1> HIDE DEF rest
<1>8. /\ Len(stack') = 2 + Len(rest) /\ (stack')[1] = inner /\ (stack')[2] = outer
      /\ \A k \in 1..Len(rest) : (stack')[k + 2] = rest[k]
  BY <1>3, <1>7
<1>9. \A k \in 1..Len(stack) : (stack')[k + 1].path = stack[k].path /\ (stack')[k + 1].op = stack[k].op
  <2> TAKE k \in 1..Len(stack)
  <2>1. CASE k = 1
    BY <1>2, <1>5, <1>8, <2>1
  <2>2. CASE k # 1
    <3> DEFINE j == k - 1
    <3>1. j \in 1..Len(rest) /\ j + 1 = k /\ j + 2 = k + 1
      BY <1>7, <2>2
    <3> HIDE DEF j
    <3>2. (stack')[j + 2] = rest[j] /\ rest[j] = stack[j + 1]
      BY <1>7, <1>8, <3>1
    <3> QED
      BY <3>1, <3>2
  <2> QED
    BY <2>1, <2>2
<1>10. Len(stack') = Len(stack) + 1 /\ (stack')[1].op = "mkdir" /\ (stack')[1].path = Front(stack[1].path)
  BY <1>2, <1>4, <1>7, <1>8
<1>11. Chain(stack')
  BY <1>1, <1>2, <1>6, <1>9, <1>10, ChainLonger
<1>12. Top' = inner
  BY <1>6, <1>7, <1>8 DEF Top
<1>13. segfault' = FALSE
  BY <1>3, StillRuns
<1> QED
  BY <1>3, <1>4, <1>11, <1>12, <1>13 DEF XInv

\* One of the writes of a call.
LEMMA DiskWriteExplained ==
    ASSUME IInv, XInv, DiskWrite
    PROVE  XInv'
<1>1. /\ DiskOK(disk) /\ StackOK /\ Chain(stack) /\ todo \in Seq(WriteType) /\ todo # <<>> /\ stack # <<>>
  BY DEF IInv, XInv, TodoOK, Pending, DiskWrite
<1>2. Len(todo) \in Nat /\ Len(todo) >= 1 /\ Head(todo) \in WriteType /\ Head(todo) = todo[1]
  BY <1>1
<1>3. disk' = Apply(disk, Head(todo)) /\ todo' = Tail(todo) /\ segfault' = segfault
  BY DEF DiskWrite
<1>4. stack \in Seq(FrameType)
  BY <1>1 DEF StackOK
<1>5. segfault' = FALSE
  BY <1>1, <1>3, StillRuns
<1>6. ASSUME Len(stack) > 1
      PROVE  MarkOnly(todo') /\ Tried(disk', stack[2].path)
  <2>1. Top.path = Front(stack[2].path) /\ stack[2].path \in Seq(Names) \ {<<>>}
    BY <1>1, <1>6, ChainIs
  <2>2. Top.path \in Seq(Names) \ {<<>>}
    BY <1>1, TopIs
  <2>3. CASE Making(disk, Top.path, todo)
    <3>1. MarkOnly(todo')
      BY <1>3, <2>3 DEF Making
    <3>2. Tried(disk', stack[2].path)
      BY <1>1, <1>3, <2>1, <2>2, <2>3, EntryTried
    <3> QED
      BY <3>1, <3>2
  <2>4. CASE MarkOnly(todo) /\ Tried(disk, stack[2].path)
    <3> DEFINE w == Head(todo)
               b == w.block
    <3>1. w.op = "used"
      BY <1>2, <2>4 DEF MarkOnly
    <3>2. b # 0
      BY <1>2, <3>1, WriteIs
    <3>3. disk' = [disk EXCEPT !.bitmap = disk.bitmap \union {b}]
      BY <1>3, <3>1 DEF Apply
    <3> HIDE DEF w, b
    <3>4. disk' = [kind |-> disk.kind, name |-> disk.name, word |-> disk.word,
                   bitmap |-> disk.bitmap \union {b}]
      <4>1. disk = [kind |-> disk.kind, name |-> disk.name, word |-> disk.word, bitmap |-> disk.bitmap]
        BY <1>1, DiskIs
      <4> QED
        BY <3>3, <4>1
    <3>5. /\ (disk').kind = disk.kind /\ (disk').name = disk.name /\ (disk').word = disk.word
          /\ (disk').bitmap = disk.bitmap \union {b}
      BY <3>4
    <3>6. DiskOK(disk')
      BY DiskWriteKeeps DEF IInv
    <3>7. Tried(disk', stack[2].path)
      <4> DEFINE d == disk
                 e == disk'
                 path == stack[2].path
      <4>1. /\ DiskOK(d) /\ DiskOK(e) /\ e.kind = d.kind /\ e.name = d.name /\ e.word = d.word
            /\ e.bitmap = d.bitmap \union {b} /\ path \in Seq(Names) \ {<<>>} /\ Tried(d, path)
        BY <1>1, <2>1, <2>4, <3>5, <3>6
      <4> HIDE DEF d, e, path
      <4>2. Tried(e, path)
        BY <3>2, <4>1, TriedMarked
      <4> QED
        BY <4>2 DEF e, path
    <3>8. MarkOnly(todo')
      <4>1. Len(todo') = Len(todo) - 1 /\ \A k \in 1..Len(todo') : (todo')[k] = todo[k + 1]
        BY <1>1, <1>3
      <4>2. \A k \in 1..Len(todo') : k + 1 \in 1..Len(todo)
        BY <1>2, <4>1
      <4> QED
        BY <2>4, <4>1, <4>2 DEF MarkOnly
    <3> QED
      BY <3>7, <3>8
  <2> QED
    BY <1>1, <1>6, <2>3, <2>4 DEF XInv
<1>7. CASE Len(todo) = 1
  <2>1. todo' = <<>> /\ stack' = Tail(stack)
    BY <1>1, <1>3, <1>7 DEF DiskWrite
  <2>2. Chain(stack')
    BY <1>1, <1>4, <2>1, ChainTail
  <2>3. stack' # <<>> => Len(stack) > 1 /\ Top' = stack[2] /\ ~ Top'.loaded
    <3>1. stack' # <<>> => Len(stack) > 1 /\ Top' = stack[2]
      BY <1>4, <2>1 DEF Top
    <3>2. \A k \in 2..Len(stack) : ~ stack[k].loaded
      BY <1>1 DEF StackOK
    <3>3. Len(stack) \in Nat
      BY <1>4
    <3> QED
      BY <3>1, <3>2, <3>3
  <2> QED
    BY <1>5, <1>6, <2>1, <2>2, <2>3 DEF XInv
<1>8. CASE Len(todo) # 1
  <2>1. stack' = stack
    BY <1>8 DEF DiskWrite
  <2>2. todo' # <<>>
    <3>1. Len(todo') = Len(todo) - 1
      BY <1>1, <1>3
    <3>2. Len(todo') # 0
      BY <1>2, <1>8, <3>1
    <3> QED
      BY <3>2
  <2> QED
    BY <1>1, <1>5, <1>6, <2>1, <2>2 DEF XInv
<1> QED
  BY <1>7, <1>8

\* cr_mkdir by itself.
LEMMA MkdirExplained ==
    ASSUME IInv, XInv, MkdirExists \/ MkdirNotDir \/ MkdirNoBlock \/ Mkdir
    PROVE  XInv'
<1>1. Running("mkdir")
  BY DEF MkdirExists, MkdirNotDir, MkdirNoBlock, Mkdir
<1>2. stack # <<>> /\ Top.loaded /\ todo = <<>> /\ DiskOK(disk) /\ StackOK /\ Chain(stack)
  BY <1>1, RunningIs DEF XInv
<1>3. /\ Exists(Here) => Here = graph_search(disk, Top.path)
      /\ Parent = graph_search(disk, Front(Top.path))
  <2>1. ~ Top.again => Here = graph_search(disk, Top.path)
    BY <1>2 DEF StackOK, Found, Here
  <2>2. Top.again => Here = NoNode
    BY <1>2, TopIs
  <2> QED
    BY <1>2, <2>1, <2>2 DEF StackOK, Found, Parent, Exists
<1>4. Top.path \in Seq(Names) \ {<<>>} /\ ~ Loops(disk)
  BY <1>2, TopIs DEF XInv
<1>5. Len(stack) > 1 => Top.path = Front(stack[2].path) /\ stack[2].path \in Seq(Names) \ {<<>>}
  BY <1>2, ChainIs
<1>6. CASE MkdirExists
  <2>1. Len(stack) > 1 => Tried(disk, stack[2].path)
    BY <1>3, <1>5, <1>6 DEF MkdirExists, Tried
  <2> QED
    BY <1>2, <1>6, <2>1, ReturnExplained DEF MkdirExists
<1>7. CASE MkdirNotDir
  <2>1. ~ Exists(Here) /\ Parent.kind = File /\ Return(-1)
    BY <1>7 DEF MkdirNotDir
  <2>2. Exists(Parent)
    BY <2>1 DEF Exists, NoNode, Node, File
  <2>3. Len(stack) > 1 => Tried(disk, stack[2].path)
    BY <1>3, <1>4, <1>5, <2>1, <2>2, BlockedParent DEF Tried
  <2> QED
    BY <1>2, <2>1, <2>3, ReturnExplained
<1>8. CASE MkdirNoBlock
  <2>1. NoneFree(next_free_block(disk.bitmap)) /\ Return(-1)
    BY <1>8 DEF MkdirNoBlock
  <2> DEFINE free == Blocks \ disk.bitmap
  <2>2. free # {} /\ Min(free) = 0 /\ free \in SUBSET Nat
    BY <2>1 DEF NoneFree, next_free_block, Full, Blocks
  <2>3. Min(free) \in free
    <3> HIDE DEF free
    <3> QED
      BY <2>2, MinIs
  <2>4. 0 \notin disk.bitmap
    BY <2>2, <2>3
  <2> QED
    BY <1>2, <2>1, <2>4, ReturnExplained DEF Tried
<1>9. CASE Mkdir
  <2> DEFINE index == next_free_block(disk.bitmap)
             entry == AddEntry(Parent.index, Dir, Name, Stored(index))
             bit == IfStored(index, SetBit(index))
             writes == <<entry>> \o bit
  <2>1. Write(writes, 0) /\ ~ Exists(Here) /\ Parent.kind = Dir
    BY <1>9 DEF Mkdir
  <2>2. entry.op = "entry" /\ entry.dir = Parent.index /\ entry.name = Name
    BY DEF AddEntry
  <2>3. bit \in Seq({SetBit(index)}) /\ MarkOnly(bit)
    <3>1. SetBit(index).op = "used"
      BY DEF SetBit
    <3>2. bit = <<>> \/ bit = <<SetBit(index)>>
      BY DEF IfStored
    <3> DEFINE w == SetBit(index)
    <3>3. bit = <<>> \/ bit = <<w>>
      BY <3>2
    <3> HIDE DEF bit, w
    <3>4. MarkOnly(<<>>)
      BY DEF MarkOnly
    <3>5. MarkOnly(<<w>>)
      BY <3>1 DEF MarkOnly, w
    <3>6. <<>> \in Seq({w}) /\ <<w>> \in Seq({w})
      OBVIOUS
    <3>7. bit \in Seq({w}) /\ MarkOnly(bit)
      BY <3>3, <3>4, <3>5, <3>6
    <3> QED
      BY <3>7 DEF w
  <2> DEFINE B == {SetBit(index)}
  <2> HIDE DEF index, entry, bit, B
  <2>4. bit \in Seq(B)
    BY <2>3 DEF B
  <2>5. writes # <<>> /\ Head(writes) = entry /\ Tail(writes) = bit
    BY <2>4
  <2> HIDE DEF writes
  <2>6. Making(disk, Top.path, writes)
    BY <1>3, <1>4, <2>1, <2>2, <2>3, <2>5 DEF Making, Name
  <2>7. IInv'
    BY <1>9, MkdirKeeps
  <2> QED
    BY <1>2, <2>1, <2>6, <2>7, WriteExplained
<1> QED
  BY <1>6, <1>7, <1>8, <1>9

\* Every step keeps the invariant.
LEMMA XStep == IInv /\ XInv /\ [Next]_vars => XInv'
<1> SUFFICES ASSUME IInv, XInv, [Next]_vars PROVE XInv'
  OBVIOUS
<1>0. IInv'
  BY StepOK
<1>1. CASE Call
  BY <1>1, CallExplained
<1>2. CASE Kill
  BY <1>2, KillExplained
<1>3. CASE DiskWrite
  BY <1>3, DiskWriteExplained
<1>4. CASE Load
  BY <1>4, LoadExplained
<1>5. CASE Recursion
  <2>1. Segfault /\ Loops(disk) /\ stack # <<>> /\ todo = <<>>
    BY <1>5 DEF Recursion, Loading, IInv, TodoOK
  <2> QED
    BY <2>1, SegfaultIs DEF Explained
<1>6. CASE MkdirExists \/ MkdirNotDir \/ MkdirNoBlock \/ Mkdir
  BY <1>6, MkdirExplained
<1>7. CASE RmMissing \/ OpenIsDir \/ OpenNotDir \/ HardlinkExists \/ HardlinkNoFile
  <2>1. \E op : op # "mkdir" /\ Running(op) /\ Return(-1)
    BY <1>7 DEF RmMissing, OpenIsDir, OpenNotDir, HardlinkExists, HardlinkNoFile
  <2>2. stack # <<>> /\ todo = <<>> /\ Len(stack) = 1 /\ Return(-1)
    BY <2>1, OutermostIs
  <2> QED
    BY <2>2, ReturnExplained
<1>8. CASE MkdirParent \/ OpenParent \/ OpenNoParent \/ HardlinkParent
  <2>1. PICK op : Running(op) /\ ((MakeParent /\ Here = NoNode) \/ MissingParent)
    BY <1>8 DEF MkdirParent, OpenParent, OpenNoParent, HardlinkParent, CanLink, Exists
  <2>2. stack # <<>> /\ Top.loaded /\ todo = <<>>
    BY <2>1 DEF Running
  <2> QED
    BY <2>1, <2>2, MakeParentExplained, MissingExplained
<1>9. CASE Rm \/ OpenNoBlock \/ Open \/ Hardlink
  <2>1. \E op : op # "mkdir" /\ Running(op)
    BY <1>9 DEF Rm, OpenNoBlock, Open, Hardlink, CanOpen, CanLink
  <2>2. stack # <<>> /\ todo = <<>> /\ Len(stack) = 1 /\ Top.loaded
    BY <2>1, OutermostIs DEF Running
  <2>3. (\E writes, ret : Write(writes, ret)) \/ Return(-1)
    BY <1>9 DEF Rm, OpenNoBlock, Open, Hardlink
  <2> QED
    BY <1>0, <2>2, <2>3, WriteExplained, ReturnExplained
<1>10. CASE UNCHANGED vars
  BY <1>10 DEF vars, XInv, Top
<1> QED
  BY <1>1, <1>2, <1>3, <1>4, <1>5, <1>6, <1>7, <1>8, <1>9, <1>10 DEF Next, Run

\* XInv is inductive along with IInv: whatever calls run, wherever they are killed, a
\* call that waits for the parent of its path finds it, or a cause why it was not made.
THEOREM ExplainedInductive == Spec => [](IInv /\ XInv)
<1>1. Init => IInv /\ XInv
  BY InitOK, XInit
<1>2. IInv /\ XInv /\ [Next]_vars => (IInv /\ XInv)'
  BY StepOK, XStep
<1> QED
  BY <1>1, <1>2, PTL DEF Spec

\* A program ends by itself for one of four causes only: a loop of directories, block 0
\* free, an ancestor of the path of the call that is a file or a full directory, or a file
\* to link to that is not found any more.
THEOREM EndsExplained == Spec => []SegfaultExplained
<1>1. XInv => SegfaultExplained
  BY DEF XInv, Explained, SegfaultExplained, Blocked, Ancestor, NoRoom
<1> QED
  BY <1>1, ExplainedInductive, PTL
=============================================================================
