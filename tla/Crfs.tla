-------------------------------- MODULE Crfs --------------------------------
(***************************************************************************)
(* crfs, the file system in a disk image: cr_API.c and the functions it    *)
(* calls.  An operation reads the whole disk (load_disk), decides, and     *)
(* then writes the image piece by piece; here it computes the sequence of  *)
(* its writes, todo, and the process may be killed before any of them.     *)
(* The same bytes of a block are read as directory entries by one function *)
(* and as an index block by another, so a block keeps both readings: kind  *)
(* and name of each entry, and the words.  So the letters of a name are    *)
(* also what they read as when cr_rm takes a directory for a file:         *)
(* pointers and, in the first entry, a link count.                         *)
(***************************************************************************)
EXTENDS Integers, Sequences, FiniteSetsExt, SequencesExt

CONSTANTS
    Names,       \* names of files and directories, up to 25 letters
    Letters,     \* the words of an entry before the last, by name: the pointers they hold
    Count,       \* the link count that letters 4 to 7 of a name read as
    Cut,         \* the name that is left when this count is written again
    Data,        \* what the data block of the first file may hold, read as entries
    Paths,       \* paths the operations are called with
    NSlots,      \* entries of a directory block (64)
    NBlocks,     \* blocks of the disk (65536)
    MaxCalls,    \* bound: operations called
    MaxKills     \* bound: operations killed halfway

Slots == 0..(NSlots - 1)
Blocks == 0..(NBlocks - 1)
NWords == 8 * NSlots              \* an entry takes 8 words of 4 bytes
Words == 0..(NWords - 1)
DirectAll == NWords               \* fault: the other words are forgotten
Direct == NWords - 12             \* words of an index block: size, n_hardlinks,
LinkWord == 1                     \* Direct pointers and 10 indirect ones
Reserved == {0, 1}                \* root directory and bitmap
IndexWord(slot) == 8 * slot + 7   \* where an entry keeps the index of its block
Dir == 2
File == 4
Valid == {Dir, File}
DataBlock == 4                    \* of the file that a disk starts with

ASSUME LayoutAssumption ==
    /\ Paths \subseteq Seq(Names) \ {<<>>}
    /\ NSlots \in Nat /\ NSlots >= 2 /\ NBlocks \in Nat /\ NBlocks > 5
    /\ MaxCalls \in Nat /\ MaxKills \in Nat
\* Two letters never read as the number of the bitmap, and the last letters of
\* an entry are 0.
ASSUME NamesAssumption ==
    /\ Letters \in [Names -> [0..6 -> Blocks \ {1}]] /\ \A n \in Names : Letters[n][6] = 0
    /\ Count \in [Names -> Nat] /\ Cut \in [Names -> Names]
ASSUME DataAssumption ==
    Data \subseteq [kind : [Slots -> {0, 1, Dir, File}], name : [Slots -> Names], index : [Slots -> Blocks \ {1}]]

VARIABLES
    disk,        \* kind and name by block and slot, word by block, bitmap: used blocks
    stack,       \* calls in progress, the innermost first
    todo,        \* writes that the innermost call still has to do
    last,        \* the call that returned last
    segfault,    \* the program dereferenced NULL or recursed without end
    calls,       \* bound counter
    past         \* history: what happened to the disk so far

vars == <<disk, stack, todo, last, segfault, calls, past>>

-----------------------------------------------------------------------------
\* load_disk and graph_search: the node of a path, a sequence of names.
Node(kind, index, dir, slot) == [kind |-> kind, index |-> index, dir |-> dir, slot |-> slot]
Root == Node(Dir, 0, 0, 0)
NoNode == Node(0, 0, 0, 0)
Exists(node) == node # NoNode

Entries(d, dir) ==
    {Node(d.kind[dir][s], d.word[dir][IndexWord(s)], dir, s) : s \in {k \in Slots : d.kind[dir][k] \in Valid}}

\* The first entry of a directory with that name.
Child(d, node, n) ==
    LET found == {e \in Entries(d, node.index) : d.name[e.dir][e.slot] = n}
    IN  IF node.kind = Dir /\ found # {} THEN CHOOSE e \in found : \A f \in found : e.slot <= f.slot
        ELSE NoNode
graph_search(d, path) ==
    LET node[n \in 0..Len(path)] == IF n = 0 THEN Root ELSE Child(d, node[n - 1], path[n])
    IN  node[Len(path)]

Subdirs(d, dirs) == UNION {{e.index : e \in {f \in Entries(d, b) : f.kind = Dir}} : b \in dirs}
\* Directory blocks that load_dir reaches from dirs: no path is longer than
\* the disk has blocks.
Loaded(d, found) == found \union Subdirs(d, found)
Reached(d, dirs) ==
    LET found[n \in 0..NBlocks] == IF n = 0 THEN dirs ELSE Loaded(d, found[n - 1])
    IN  found[NBlocks]
\* load_dir does not return.
Loops(d) == \E b \in Reached(d, {0}) : b \in Reached(d, Subdirs(d, {b}))

Full == -1
next_free_block(bitmap) == IF Blocks \ bitmap = {} THEN Full ELSE Min(Blocks \ bitmap)
FreeSlots(d, dir) == {s \in Slots : d.kind[dir][s] \notin Valid}

-----------------------------------------------------------------------------
\* The writes.
SetInvalid(node) == [op |-> "invalid", block |-> node.dir, slot |-> node.slot]
SetBit(block) == [op |-> "used", block |-> block]
\* The block was read from a word of an index block, the index block itself from none.
FreeBlock(block, word) == [op |-> "free", block |-> block, word |-> word]
AddLinks(block, n) == [op |-> "links", block |-> block, n |-> n]
AddEntry(dir, kind, name, index) ==
    [op |-> "entry", dir |-> dir, kind |-> kind, name |-> name, index |-> index]
AddIndex(block, slot) == [op |-> "index", block |-> block, slot |-> slot]

\* The words of an entry.
EntryWord(slot, name, index, k) ==
    CASE k = IndexWord(slot) -> index
      [] k = LinkWord -> Count[name]
      [] OTHER -> Letters[name][k - 8 * slot]

\* A full directory is left as it is.
write_dir_block(d, w) ==
    IF FreeSlots(d, w.dir) = {} THEN d
    ELSE LET s == Min(FreeSlots(d, w.dir))
         IN  [d EXCEPT !.kind[w.dir][s] = w.kind, !.name[w.dir][s] = w.name,
                       !.word[w.dir] = [k \in Words |->
                           IF k \in (8 * s)..(8 * s + 7) THEN EntryWord(s, w.name, w.index, k) ELSE @[k]]]

\* The index block of an empty file is written from the offset of its directory
\* entry on, and runs into the next block; the ten indirect pointers all go to
\* that offset, where size was.  Block -1 lies before block 0.
Hits(block, slot) ==
    [b \in Blocks |-> {k \in Words : (b - block) * NWords + k \in (8 * slot)..(8 * slot + 1 + Direct)}]
write_index_block(d, block, slot) ==
    LET hit == Hits(block, slot)
    IN  [d EXCEPT
            !.word = [b \in Blocks |-> [k \in Words |->
                         IF b = block /\ k = 8 * slot + LinkWord THEN 1
                         ELSE IF k \in hit[b] THEN 0 ELSE d.word[b][k]]],
            !.kind = [b \in Blocks |-> [s \in Slots |-> IF 8 * s \in hit[b] THEN 0 ELSE d.kind[b][s]]]]

Apply(d, w) ==
    CASE w.op = "invalid" -> [d EXCEPT !.kind[w.block][w.slot] = 1]
      [] w.op = "used"    -> [d EXCEPT !.bitmap = @ \union {w.block}]
      [] w.op = "free"    -> [d EXCEPT !.bitmap = @ \ {w.block}]
      [] w.op = "links"   -> [d EXCEPT !.word[w.block][LinkWord] = @ + w.n, !.name[w.block][0] = Cut[@]]
      [] w.op = "entry"   -> write_dir_block(d, w)
      [] w.op = "index"   -> write_index_block(d, w.block, w.slot)

-----------------------------------------------------------------------------
None == [op |-> "none", path |-> <<>>, orig |-> <<>>, loaded |-> FALSE, again |-> FALSE, ret |-> 0,
         here |-> NoNode, parent |-> NoNode, origin |-> NoNode]
NoCall == [op |-> "none", path |-> <<>>, ret |-> 0]
Frame(op, path, orig) == [None EXCEPT !.op = op, !.path = path, !.orig = orig]

DataWord(data, k) ==
    LET s == k \div 8
    IN  IF data.kind[s] \in Valid THEN EntryWord(s, data.name[s], data.index[s], k) ELSE 0

\* A disk with one file of one data block, with or without a free block before it.
Init ==
    /\ \E f \in {2, 3}, n \in Names, data \in Data :
          disk = [kind |-> [b \in Blocks |-> [s \in Slots |->
                               CASE b = 0 /\ s = 0 -> File
                                 [] b = DataBlock -> data.kind[s]
                                 [] OTHER -> 0]],
                  name |-> [b \in Blocks |-> [s \in Slots |-> IF b = DataBlock THEN data.name[s] ELSE n]],
                  word |-> [b \in Blocks |-> [k \in Words |->
                               CASE b = 0 /\ k < 8 -> EntryWord(0, n, f, k)
                                 [] b = f /\ k \in {0, LinkWord} -> 1
                                 [] b = f /\ k = 2 -> DataBlock
                                 [] b = DataBlock -> DataWord(data, k)
                                 [] OTHER -> 0]],
                  bitmap |-> Reserved \union {f, DataBlock}]
    /\ stack = <<>> /\ todo = <<>> /\ last = NoCall /\ segfault = FALSE /\ calls = 0
    /\ past = [killed |-> {}, torn |-> FALSE, full |-> FALSE, short |-> {}, under |-> {}, dirs |-> FALSE]

Call ==
    /\ stack = <<>> /\ ~ segfault /\ calls < MaxCalls
    /\ \E path \in Paths :
          \/ \E op \in {"mkdir", "open", "rm"} : stack' = <<Frame(op, path, <<>>)>>
          \/ \E orig \in Paths : stack' = <<Frame("hardlink", path, orig)>>
    /\ calls' = calls + 1 /\ last' = NoCall
    /\ UNCHANGED <<disk, todo, segfault, past>>

Top == Head(stack)
Here == Top.here
Parent == Top.parent
Origin == Top.origin
Name == Last(Top.path)

Segfault ==
    /\ segfault' = TRUE /\ stack' = <<>>
    /\ last' = [op |-> "segfault", path |-> Last(stack).path, orig |-> Last(stack).orig, ret |-> -1]
    /\ UNCHANGED <<disk, todo, calls, past>>

\* A call reads the whole tree and looks up its paths, unless load_dir goes
\* round a loop until the memory of the process is used up.  The second time
\* what it found, or did not find, at its path is not asked again.
Loading == stack # <<>> /\ ~ Top.loaded
Load ==
    /\ Loading /\ ~ Loops(disk)
    /\ stack' = [stack EXCEPT ![1].loaded = TRUE,
                    ![1].here = IF Top.again THEN @ ELSE graph_search(disk, Top.path),
                    ![1].parent = graph_search(disk, Front(Top.path)),
                    ![1].origin = graph_search(disk, Top.orig)]
    /\ UNCHANGED <<disk, todo, last, segfault, calls, past>>
Recursion == Loading /\ Loops(disk) /\ Segfault

Running(op) == stack # <<>> /\ Top.loaded /\ todo = <<>> /\ Top.op = op
Return(ret) ==
    /\ stack' = Tail(stack) /\ last' = [op |-> Top.op, path |-> Top.path, ret |-> ret]
    /\ UNCHANGED <<disk, todo, segfault, calls, past>>
\* The call goes on to its writes, and then returns ret.
Write(writes, ret) ==
    /\ todo' = writes /\ stack' = [stack EXCEPT ![1].ret = ret]
    /\ UNCHANGED <<disk, last, segfault, calls>>

DiskWrite ==
    /\ todo # <<>>
    /\ disk' = Apply(disk, Head(todo)) /\ todo' = Tail(todo)
    /\ IF Len(todo) = 1 THEN stack' = Tail(stack) /\ last' = [op |-> Top.op, path |-> Top.path, ret |-> Top.ret]
       ELSE UNCHANGED <<stack, last>>
    /\ UNCHANGED <<segfault, calls, past>>

\* fault: the call does not remember that it has tried already
RetriedForever(frame) == [frame EXCEPT !.loaded = FALSE]
Retried(frame) == [frame EXCEPT !.again = TRUE, !.loaded = FALSE]

\* The parent directory is missing: cr_mkdir creates it, and this call tries again.
MakeParentNever == ~ Exists(Parent) /\ Segfault       \* fault: no recursion
MakeParent ==
    /\ ~ Exists(Parent) /\ ~ Top.again
    /\ stack' = <<Frame("mkdir", Front(Top.path), <<>>), Retried(Top)>> \o Tail(stack)
    /\ UNCHANGED <<disk, todo, last, segfault, calls, past>>

\* It is still missing, or the file to link to is now, and its node is
\* dereferenced all the same.
Missing == ~ Exists(Parent) \/ (Top.op = "hardlink" /\ ~ Exists(Origin))
MissingParent == Missing /\ Top.again /\ Segfault

\* The number of a block when none is left: -1, of which an entry keeps 16 bits.
Stored(index) == IF index = Full THEN NBlocks - 1 ELSE index
IfStoredNever(index, write) == <<>>           \* fault: write_bitmap forgotten
\* write_bitmap of block -1 writes far behind the end of the image.
IfStored(index, write) == IF index = Full THEN <<>> ELSE <<write>>
Filled(index) == past' = [past EXCEPT !.full = @ \/ index = Full]

NoneFree(index) == index = 0

MkdirExists == Running("mkdir") /\ Exists(Here) /\ Return(-1)
MkdirParent == Running("mkdir") /\ ~ Exists(Here) /\ (MakeParent \/ MissingParent)
MkdirNotDir == Running("mkdir") /\ ~ Exists(Here) /\ Parent.kind = File /\ Return(-1)
MkdirNoBlock ==
    /\ Running("mkdir") /\ ~ Exists(Here) /\ Parent.kind = Dir
    /\ NoneFree(next_free_block(disk.bitmap)) /\ Return(-1)
Mkdir ==
    /\ Running("mkdir") /\ ~ Exists(Here) /\ Parent.kind = Dir
    /\ LET index == next_free_block(disk.bitmap)
       IN  /\ ~ NoneFree(index)
           /\ Write(<<AddEntry(Parent.index, Dir, Name, Stored(index))>>
                    \o IfStored(index, SetBit(index)), 0)
           /\ Filled(index)

\* cr_rm: its writes for a node; a directory block is read as an index block too.
Pointers(d, block) == [k \in 1..(NWords - 2) |-> FreeBlock(d.word[block][k + 1], k + 1)]
\* fault: the pointers that are 0 are skipped
FreedNonzero(d, block) == SelectSeq(Pointers(d, block), LAMBDA w : w.block # 0)
Freed(d, block) == Pointers(d, block)
SharedAlways(node) == TRUE                    \* fault: n_hardlinks not tested
SharedNever(node) == FALSE                    \* fault: one link taken for all
Shared(node) == disk.word[node.index][LinkWord] > 1
RmWrites(node) ==
    <<SetInvalid(node)>>
    \o IF Shared(node) THEN <<AddLinks(node.index, -1)>>
       ELSE <<FreeBlock(node.index, 0)>> \o Freed(disk, node.index)

RmMissing == Running("rm") /\ ~ Exists(Here) /\ Return(-1)
Rm ==
    /\ Running("rm") /\ Exists(Here)
    /\ Write(RmWrites(Here), 0)
    /\ past' = [past EXCEPT !.dirs = @ \/ Here.kind = Dir]

\* cr_open with mode 'w'.  The block and the directory are chosen on the tree
\* and the bitmap read before the old file is removed, the entry after.
Removal == IF Exists(Here) THEN RmWrites(Here) ELSE <<>>
OpenSlot ==
    LET free == FreeSlots(disk, Parent.index) \union IF Exists(Here) THEN {Here.slot} ELSE {}
    IN  IF free = {} THEN 0 ELSE Min(free)

OpenIsDir == Running("open") /\ Here.kind = Dir /\ Return(-1)
OpenNotDir == Running("open") /\ ~ Exists(Here) /\ ~ Top.again /\ Parent.kind = File /\ Return(-1)
OpenParent == Running("open") /\ ~ Exists(Here) /\ MakeParent
OpenNoParent ==
    /\ Running("open") /\ MissingParent /\ ~ NoneFree(next_free_block(disk.bitmap))
CanOpen == Running("open") /\ Here.kind # Dir /\ (Top.again \/ Parent.kind = Dir)
OpenNoBlock ==
    /\ CanOpen /\ NoneFree(next_free_block(disk.bitmap))
    /\ IF Exists(Here) THEN Write(Removal, -1) /\ UNCHANGED past ELSE Return(-1)
Open ==
    /\ CanOpen /\ Exists(Parent)
    /\ LET index == next_free_block(disk.bitmap)
       IN  /\ ~ NoneFree(index)
           /\ Write(Removal
                    \o <<AddEntry(Parent.index, File, Name, Stored(index))>>
                    \o <<AddIndex(index, OpenSlot)>>
                    \o IfStored(index, SetBit(index)), 0)
           /\ past' = [past EXCEPT !.full = @ \/ index = Full,
                           !.under = @ \union IF Parent.kind = File THEN {Parent.index} ELSE {},
                           !.short = @ \union IF OpenSlot = 0 THEN {} ELSE {index, index + 1}]

\* cr_hardlink.  The parent of the new name may be a file: its index block
\* gets the entry.
HardlinkExists == Running("hardlink") /\ Exists(Here) /\ Return(-1)
HardlinkNoFile ==
    /\ Running("hardlink") /\ ~ Exists(Here) /\ ~ Top.again
    /\ Origin.kind # File /\ Return(-1)
CanLink == Running("hardlink") /\ ~ Exists(Here) /\ (Top.again \/ Origin.kind = File)
HardlinkParent == CanLink /\ (MakeParent \/ MissingParent)
LinkWritesUncounted == <<AddEntry(Parent.index, File, Name, Origin.index)>>   \* fault: no count
LinkWrites == <<AddEntry(Parent.index, File, Name, Origin.index), AddLinks(Origin.index, 1)>>
Hardlink ==
    /\ CanLink /\ ~ Missing
    /\ Write(LinkWrites, 0)
    /\ past' = [past EXCEPT !.under = @ \union IF Parent.kind = File THEN {Parent.index} ELSE {}]

\* The process is killed between two writes, and another one mounts the disk.
\* It is torn if cr_rm had freed pointers already, and block 0 not yet.
Torn == Head(todo).op = "free" /\ Head(todo).word > 2 /\ 0 \in disk.bitmap
Kill ==
    /\ todo # <<>> /\ calls < MaxCalls /\ Cardinality(past.killed) < MaxKills
    /\ past' = [past EXCEPT !.killed = @ \union {Top.op}, !.torn = @ \/ Torn]
    /\ stack' = <<>> /\ todo' = <<>>
    /\ UNCHANGED <<disk, last, segfault, calls>>

Run ==
    \/ DiskWrite \/ Load \/ Recursion
    \/ MkdirExists \/ MkdirParent \/ MkdirNotDir \/ MkdirNoBlock \/ Mkdir
    \/ RmMissing \/ Rm
    \/ OpenIsDir \/ OpenNotDir \/ OpenParent \/ OpenNoParent \/ OpenNoBlock \/ Open
    \/ HardlinkExists \/ HardlinkNoFile \/ HardlinkParent \/ Hardlink

Next == Call \/ Kill \/ Run

Spec == Init /\ [][Next]_vars
FairSpec == Spec /\ WF_vars(Run)      \* a call keeps running

-----------------------------------------------------------------------------
\* Entries that load_disk finds.
Live == UNION {Entries(disk, b) : b \in Reached(disk, {0})}
LiveFiles == {e \in Live : e.kind = File}
Links(block) == Cardinality({e \in LiveFiles : e.index = block})
AtRest == todo = <<>>

TypeOK ==
    /\ disk.kind \in [Blocks -> [Slots -> {0, 1, Dir, File}]]
    /\ disk.word \in [Blocks -> [Words -> Nat]]
    /\ disk.bitmap \subseteq Blocks
    /\ calls \in 0..MaxCalls /\ segfault \in BOOLEAN
    /\ \A k \in DOMAIN stack : stack[k].op \in {"mkdir", "open", "rm", "hardlink"}
    /\ todo # <<>> => stack # <<>>

\* No entry ever leads to the root directory or to the bitmap: cr_rm frees
\* them in the bitmap, but block 0 along with the others, and while block 0 is
\* free nothing is allocated; unless cr_rm was killed between its first pointer
\* and the one that is 0.
MetadataSafe == ~ past.torn => \A e \in Live : e.index \notin Reserved

\* Histories in which no block is given away that an entry leads to: the disk was
\* never full, only cr_hardlink was killed halfway, or only cr_rm, before it freed a
\* pointer or after block 0, and then all link counts are where they belong.
Misplaced == past.short \union past.under
Regular ==
    /\ ~ past.full /\ ~ past.torn
    /\ past.killed \subseteq {"hardlink"} \/ (past.killed \subseteq {"rm"} /\ Misplaced = {})

\* Two entries lead to one block only if they are hard links of one file.
NoSharing ==
    Regular => \A e, f \in Live : e # f /\ e.index = f.index => e.kind = File /\ f.kind = File

\* A file has no more links than its index block counts, so that cr_rm does not
\* free it under another name, if its index block was written whole.
LinksCounted ==
    (AtRest /\ Regular /\ past.killed \subseteq {"rm"}) =>
        \A e \in LiveFiles : e.index \in Misplaced \/ Links(e.index) <= disk.word[e.index][LinkWord]

\* The blocks of live entries are marked used, also when cr_rm was killed
\* halfway, until a directory is removed.
BlocksMarked ==
    (AtRest /\ Regular /\ Misplaced = {} /\ ~ past.dirs /\ past.killed \subseteq {"rm"}) =>
        \A e \in Live : e.index \in disk.bitmap

\* Nobody but its own creation and cr_hardlink into it changes the size and the
\* pointers of a file: what write_index_block writes past its block hits the
\* next block and no other.
Intact(e) == \A k \in Words \ {LinkWord} : disk'.word[e.index][k] = disk.word[e.index][k]
FilesIntact ==
    [][(disk' # disk /\ ~ past.full' /\ past.killed = {}) => \A e \in LiveFiles \cap LiveFiles' :
          e.index \in Misplaced' \/ Intact(e)]_vars

\* A call that is not killed returns or ends the program: the recursion of
\* cr_mkdir over missing parents ends.
Returns == (stack # <<>>) ~> (stack = <<>>)

\* A program ends by itself for one of four causes: the directories form a
\* loop, no block is given away any more because block 0 is free, the last
\* ancestor that a path has is a file or a full directory, or the file to link
\* to is not found any more once the directories of the new name are made.
Ancestor(path, k) == graph_search(disk, SubSeq(path, 1, k))
NoRoom(node) == node.kind = File \/ FreeSlots(disk, node.index) = {}
SegfaultExplained ==
    segfault =>
        \/ Loops(disk) \/ 0 \notin disk.bitmap \/ ~ Exists(graph_search(disk, last.orig))
        \/ \E k \in 0..(Len(last.path) - 2) :
              /\ Exists(Ancestor(last.path, k)) /\ ~ Exists(Ancestor(last.path, k + 1))
              /\ NoRoom(Ancestor(last.path, k))

-----------------------------------------------------------------------------
\* "Los bloques que estaban siendo usados por el archivo quedan libres si, y
\* solo si, la cantidad de hardlinks restante es igual a cero"
\* (DOCUMENTACION.md, cr_rm): a file that has a name left keeps its blocks.
FreedOnlyUnlinked ==
    (AtRest /\ ~ past.full /\ ~ past.dirs /\ past.killed = {}) =>
        \A e \in LiveFiles : e.index \in disk.bitmap
=============================================================================
