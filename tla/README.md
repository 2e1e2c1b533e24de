# A verification project for IIC2333-SO-Redes

The repository holds four independent C programs written for an operating
systems and networks course, and the lecture material around them. This
directory holds TLA+ models of those programs, the TLC configurations that
check them on small instances, and theorems proved with TLAPS.

All source paths below are relative to `src/`. Short names used in this file:

| short name | directory |
|---|---|
| `t1/` | `tareas/t1/src/` |
| `t2/` | `tareas/t2/src/` |
| `crfs/` | `proyectos/proyecto-so/src/crfs/` |
| `redes/` | `proyectos/proyecto-redes/src/` |

## 1. Inventory

### 1.1 CPU scheduler (`t1/main.c`, `t1/structs.c`)

A discrete-time simulator of one CPU. *State*: an array of `Process` records
(state, remaining bursts, index of the current burst, quantum counter and six
statistics), a doubly linked ready queue ordered by priority and then by pid,
the flag `running` and the pointer `head`. *Operations*: `try_queue_up` /
`ready_queue_up` (ordered insertion), `queue_pop`, one tick of the main loop
(admit every process, dispatch, run one unit, account, test for the end), in a
preemptive version (quantum > 0) and a non-preemptive one (quantum = 0).
*Hard*: several counters that have to agree after long sequences of ticks; the
tick in which a burst ends and the quantum expires together; the tick in which a
process changes state is counted once in `waiting_time` and corrected by -1.
*Correct when*: the ready queue is exactly the READY processes in order, one
process runs, the dispatched process is the best READY one, burst indices stay
in the array, the statistics add up, every process finishes.

### 1.2 Draughts server and clients (`redes/`)

One server, two clients, TCP. *Server state* (`server/main.c`): the program
point, the two sockets, the nicknames, the game (board and two scores), who
holds the turn, the packets allocated. *Client state*: a loop that receives
one packet, handles it (`client/handlers/handlers.c`) and sends at most one
packet. *Board state* (`game/board.c`): 64 cells, the two piece counters and
`no_kills`. *Interaction*: request/answer packets over two byte streams;
`shared/connection/` builds, sends and receives packets.
*Hard*: the server blocks on one socket at a time; a client may have answers in
flight that nobody has read; the server frees packets it sends again; the last
`Disconnect` uses `sockets[n_socket - 1]`; the backtracking that
validates a chain of captures has to undo what it tried.

### 1.3 crfs, a file system in a disk image (`crfs/`)

*State*: the disk image: block 0 is the root directory, blocks 1-4 hold the
bitmap, other blocks are directories (64 entries), index blocks (size,
hard link count, 500 direct and 10 indirect pointers) and data. Open files
(`crFILE`) keep a copy of the index block and a read position. Every operation
re-reads the whole tree (`load_disk`). *Operations*: `cr_mount`, `cr_bitmap`,
`cr_exists`, `cr_ls`, `cr_mkdir`, `cr_open` (r, w), `cr_read`, `cr_write` (a
stub), `cr_close`, `cr_rm`, `cr_hardlink`, `cr_unload`, `cr_load` (a stub).
*Hard*: each operation is a series of separate writes to the image; blocks are
recycled without being cleared; the bitmap, the entries and the link counts
are three records of one fact.

### 1.4 mapreduce (`t2/main.c`)

Three word-count map/reduce passes over a text, with child processes and
System V shared memory, or with threads. *State*: the words of the text not
given away yet, the number of chunks and of children, the arrays of identifiers
that grow by doubling, the lists that the rounds have reduced to, and, outside
the program, the segments the system keeps under a key. *Operations*: the first
map in `main`, `forkMap`, `forkReduce`, `addSharedMemory`, `shmStruct` and
`shmWrite` in the children, `threadMap` and `threadReduce`. *Interaction*: a child
writes its list into a segment that the reducing child reads; `wait` is the only
synchronisation. *Hard*: up to 8 children run while the parent keeps reading;
keys come from `ftok` with the segment number, of which only 8 bits are used;
`wait` collects any child; segments stay when the program is killed, and the
next run is given them; no result of a call is tested. *Correct when*: the
output is the count of the whole text whatever the order in which children end,
no segment is left behind, no array is used past its end, every run ends.

### 1.5 The rest

`redes/shared/logger` appends a line per packet to a file; `crfs/main.c` is a
test driver; the printers, the Makefiles, `tareas/t1/src/pauta/score_getter.py`,
the `ayudantias` and the lecture material are no part of the programs. None of
them keeps state that another component reads.

## 2. Modules

| module | models | composes |
|---|---|---|
| `PriorityCpu` | what a scheduler of one CPU promises (abstract) | |
| `Scheduler` | `t1/main.c` and `t1/structs.c`, whole main loop | `INSTANCE PriorityCpu` |
| `Scheduler_proofs` | theorems about `Scheduler` | extends `Scheduler` |
| `Match` | what the draughts server promises two players (abstract) | |
| `GameServer` | the server, both clients, both streams | one composed system, `INSTANCE Match` |
| `GameServer_proofs` | theorems about it | extends `GameServer` |
| `Board` | `check_movement`, its search, the end of a game | stands under `LegalMove` of `GameServer` |
| `Board_proofs` | theorems about it | extends `Board` |
| `Crfs` | `cr_mkdir`, `cr_open` 'w', `cr_rm`, `cr_hardlink` on the image | |
| `Crfs_proofs`, `CrfsSharing_proofs` | theorems about it | extend `Crfs` |
| `CrRead` | `cr_open` 'r', `cr_read`, `cr_close`, the copy of a file by `cr_unload` | |
| `CrRead_proofs` | theorems about it | extends `CrRead` |
| `WordCount` | what a run of `t2` promises (abstract) | |
| `MapReduce` | `t2/main.c`: both versions, all rounds, shared memory, a run after a killed one | `INSTANCE WordCount` |
| `MapReduce_proofs` | theorems about it | extends `MapReduce` |
| `Recursion_proofs` | lemmas: induction over numbers, functions defined by recursion | used by the proofs of `MapReduce`, `CrRead` and `Crfs` |
| `MC*` | instances for TLC: inputs, and what may stop | extend the module they name |

Definitions that begin with the comment `fault` are never used by a
specification. Each is a plausible mistake in the definition that follows it,
and a property is kept only if TLC finds it violated with the mistake in place.

### 2.1 Scheduler

One tick of the main loop is four phases, in the order of the code, and `pc`
names the phase: `AdmitEnqueue`/`AdmitSkip`/`AdmitEnd` (`try_queue_up` for each
pid in turn), `Dispatch`/`NoDispatch` (`queue_pop`), one of `RunFinish`,
`RunBlock`, `RunPreempt`, `RunContinue`, `RunIdle` (the process on the CPU), and
`Account` (the loop over all processes that updates the statistics, wakes
WAITING processes and ends the program). Variables keep the names of the fields
of `Process`; the linked list is a sequence; `ran` is the only history
variable. `total_counter` is one variable because every process is given the
same value in every tick.

### 2.2 GameServer

A server action goes from one `receiveMessage` to the next, because the server
is one thread and everything in between only sends: `ServerGreet`,
`ServerNickname0`, `ServerNicknameUsed`, `ServerNickname1`, one `ServerTurn...`
action for each type of packet that can arrive in a turn, `ServerAgainMover`,
`ServerAgainOther` and `ServerClose` for the two answers to AskNewGame. A client
action takes one packet, and sends what its handler returns: `ClientShow` (only
prints), `ClientNickname`, `ClientBoard`, `ClientAgain` (ask the user),
`ClientEcho` (`errbadpkg` and `image`, which answer by themselves),
`ClientDisconnect`. `ClientLost` and `ClientKilled` are what may end a client
whose server is gone: it reads uninitialised bytes in a loop that nothing ends for
certain, so `ClientLost` is a step that may be taken and never has to be. Streams
are sequences: TCP neither loses nor reorders.

`ClientDies` kills a client at any moment. What it had sent is still read; then
`ServerReadsNothing` is a `recv` that returns at once, and the server goes on with
what the stack holds as the packet, `Uninitialised`, or crashes on it. Of what is
sent to a dead client only the fact is kept; sooner or later it comes back as
`ConnectionReset`, and the next send after that is `ServerKilled`: SIGPIPE, in the
middle of what is otherwise one action, so that the other client gets only part
of its packets. The program sets no handler for it.

`Match` is what all this amounts to for the two players, without streams, notices
or an order of packets: whose answer the game waits for (`due`), what each
player is asked (`asked`), and the answer it has given and nobody has used yet
(`said`). A player answers once what it is asked (`Answer`), and names, moves,
scores and rematches come from such answers only (`Given`); `Stop` says what may
end the match. Nothing is promised to a player who left the dialogue (`Leave`):
it was killed, or an image it sent was served, which makes it one answer ahead
for good. The mapping is at the end of `GameServer`: `Asked` are the packets
on the way to a client that ask for an answer, `Said` its packets not yet read,
both of them empty for a player outside `Keeps`.

The board is a version number, and `LegalMove` is any move `check_movement` may
accept; which it accepts is the subject of `Board`.

### 2.3 Board

`check_movement` is `Reject` (every early return), `Step` (a move without
capture), or `Search`, which starts `backtracking`. The recursion is a stack of
frames, with one action for each capture done (`Do`) and undone (`Undo`);
`Found` and `Exhausted` are the two ways it returns to the server. `before`
remembers the board when the search began. `Undo` writes through
`cells[new_row][new_cell]`, a byte behind the board: `heap` records it, and
`HeapAbort` is the allocator that finds it.

### 2.4 Crfs

`disk` is the image: for each block the kinds and names of its entries and its
32-bit words, for the same bytes are read as directory entries by one function and
as an index block by another, and the bitmap. An operation loads the tree
(`Load`), decides on what it loaded (one action per outcome: `MkdirExists`,
`MkdirParent`, `MkdirNotDir`, `MkdirNoBlock`, `Mkdir`, and so on), and puts its
writes in `todo`; `DiskWrite` does one write, so that `Kill` can end the process
between two. Each pointer that `cr_rm` frees is a write of its own (`Pointers`,
`FreeBlock`). `stack` holds the recursive calls of `cr_mkdir`. A call that has made
its parent loads the disk again and does not ask again what it found at its own path
the first time (`Load`, `again`); the file to link to it does look up again, and
does not test (`Missing`). `past` is history: what happened to the disk that the
properties have to allow for.

A name is a model value with the words its letters read as: `Letters`, the pointers
that a `cr_rm` of its directory frees, and `Count`, the link count. `write_4bytes`
into such a count changes the name (`Cut`). `read_index_block` multiplies the first
letter of a word by `(unsigned int) pow(2, 32)`, which is not defined in C; where the
compiler folds it to 4294967295 a name of four letters is more than one link
already, else one of five. `Data` is what the data block of the file on the first disk
may hold, read as entries: it is what a block given away without being cleared leads
to. On a full disk an entry gets block `NBlocks - 1` (`Stored`), and the index block is
written at block -1: what of it runs on into block 0 is in `Hits`, the rest, like the
bit of that block, lies far behind the end of the image.

### 2.5 CrRead

A byte of the image is the pair of its block and its offset, so that a wrong
block or a wrong place shows. `read_file_to_buffer` is the double loop of the
code, and `Passed` one turn of the outer loop, applied by the recursive function
`pass`: `Part` is what the inner loop reads in one go, `TurnedBlock` the carry of the
offset, `Stopped` the test at the end of the turn. `buffer` is the memory of the
caller by distance from its start, because the code adds `amount_read` to the
pointer it is given; `copy` is the file `cr_unload` writes.

### 2.6 WordCount and MapReduce

A word is a number in the order of `strcmp`, with a length. The parent and its
children are processes: `ForkMap`, `WaitSlot`, `WaitAll`, `ForkLast`, `WaitLast`,
`ForkReduce`, `WaitReduce` go from one `fork` or `wait` to the next, `MapChild`
and `ReduceChild` are what a child writes before it ends. A child reads the words
as they were when it was forked, which is what `fork` copies. The first map in
`main` and `forkMap` do the same to different inputs (`Input`), and are one set of
actions with `round` 1, 2, 3. `kernel` is the shared memory of the system: it is
not reset by `Restart`, which is a run after one that has ended or was killed
with its children. `addSharedMemory` takes a segment that has the key already,
and is refused (`bad`) one that is too small; a child that uses refused memory
dies, and the parent does not notice, except when it reads the length of the
first list itself (`CrashReduced`). The threads of the other version are joined as
soon as they are created, so `ThreadMap` and `ThreadReduce` run one as a whole.
Every run computes all three outputs, as the code does, and prints one of them.

`WordCount` defines the three outputs from the text as a whole, by cardinalities
of sets and without any list that grows, and says when a run may answer
otherwise: shared memory was refused to it, which happens only when the text is
longer than all keys together or an earlier run was unclean, or the text is
empty. `unclean` and `refused` are history variables of `MapReduce` for that.

## 3. Properties and runs

All runs together take about ten minutes with two workers.

| run | instance | states | what it shows |
|---|---|---|---|
| `scheduler` | 3 processes, 12 short jobs each with quantum 0, 1, 2; two long jobs (30 each) and a short one with quantum 0, 3, 5; the course's sample input | 547 k | nine properties of every step of every tick, samples reproduced, termination, refinement of `PriorityCpu` |
| `server_safety` | 2 moves, 2 games, 1 image and 1 message per client, 1 client killed | 1.3 M | server and clients agree on the answers due; the server implements `Match` |
| `server_liveness` | 2 moves, 1 game, 1 image per client, 1 client killed | 83 k | the server always gets its answer; Disconnect ends both; a killed client ends the server |
| `board_safety` | 5 x 5 board, 2 men each, draw after 4 moves | 41 k | what a search leaves intact |
| `crfs_safety` | 7 blocks, 2 entries per directory, 3 operations, 1 killed | 1.1 M | metadata, sharing, link counts, bitmap, causes of a crash |
| `crfs_liveness` | 6 blocks, 3 entries per directory, 2 operations, 1 killed | 55 k | every call returns; no other file is hit |
| `crread_safety` | files of 0 to 12 bytes on blocks of 2, two indirect blocks, reads of 0 to 12 | 1202 | the buffer holds the file from its beginning |
| `mapreduce` | chunks of 2 words, 2 children, 4 keys, texts of 0 to 7 words, a second run | 47 480 | the output is the count of the text; nothing is left behind; every run ends |
| `server_disconnect`, `board_rejected`, `crfs_freed`, `crread_returns` | the smallest instance with the case | | violated: see section 6 |

**Scheduler.** `QueueOrdered` relates the list to `in_queue` and `state`, three
records of one fact set in four places. `CpuExclusive`, `BurstInBounds` and
`WorkConserving` are the safety of the dispatcher. `StatisticsAddUp`,
`DispatchesAccounted` and `ResponseWithinWaiting` relate statistics that the code
updates in different functions and phases, among them the `waiting_time - 1` on
release that `Account` cancels; the first also says that without a quantum every
dispatch ends with its burst. `MatchesSamples` ties the model to the course's own
outputs; where it differs from what the program's README says of them, section 6
tells. `ImplementsPriorityCpu` says that whoever gets the CPU is the best of
*all* READY processes, in the queue or not.

**GameServer.** `AnswersAhead` is the central one: questions on the way plus
answers unread are exactly one for the client the server waits for, and one more
for each image it served, because the client answers the server's Image.
`ImplementsMatch` is the whole dialogue in one property: whatever is in the
streams, each step of the server is one that the two players can account for by
what they were asked and have answered, in the right stage, for the board as it
is, once. A duplicated question, a notice that is answered, an answer that is
used for a later question, a name, a point or a rematch out of nothing would
each be a step that `Match` does not have. It excludes clients that used images
because for them it is false, as the extra answer shifts every later one. Two
things that hold because of it are theorems by themselves: `OneMatter`, an
invariant of `Match`, and `FreshMoves`, a move is applied to the board it was
made for. `Answered` is the absence of a wait that nobody ends. `KillEndsServer`
is what is left of "we disconnect both clients" when one is killed: nothing in
the program handles it, the server reads nonsense and goes on, and what ends the
match is the signal that kills the server. Only a survivor that the server keeps
asking again (for a nickname that is taken, a move that is not legal) keeps it
going, because nothing is sent to the dead one meanwhile. That the other client
ends as well is not claimed: its loop (`client/main.c:44`) does not test `recv`.
`server_safety` has deadlock checking on.

**Board.** After any search that fails, counters and pieces are restored
(`RejectedKeepsPieces`: nothing is lost; what is *added* is the finding of
section 6); nothing is ever added to the opponent's side (`OpponentOnlyLoses`);
no counter is above the number of pieces (`CountedAreThere`); no man stands
uncrowned on its last row, also when it was crowned and undone in a chain
(`LastRowCrowned`).

**Crfs.** `MetadataSafe` is worth a word: `cr_rm` does clear the bits of blocks
0 and of any block number that a misplaced pointer holds, so that safety of the
root and of the bitmap rests on `next_free_block` returning 0 whenever 0 is
free, and on block 0 being freed by the same `cr_rm` that frees anything. The frees
are writes of their own, 510 of them, and a kill between the first and the one for a
pointer that is 0 breaks it: blocks are then given away with what a file had in them,
which is read as entries, whatever they lead to. `past.torn` marks such a kill, and
none of the four properties is claimed after it; the runs take it, and TLC finds each
of them violated when that guard is taken away.

`NoSharing`, `LinksCounted` and `BlocksMarked` relate entries, link counts
and bitmap, also when a process was killed; the conditions under which each of
them holds are conjuncts of its guard, and each guard was found by taking it
away: `past.full` (an entry to block 65535 after the disk was full), `past.short`
(index block written from the offset of its entry), `past.under` (entry put in
the index block of a file), `past.dirs` (a directory removed with `cr_rm`), and
`past.torn`. Without a kill `NoSharing` needs only the first: link counts that are too
low free blocks too early, but by then block 0 is free and nothing is given away. A
`cr_rm` killed after its first write to the bitmap has freed a block and not block 0,
and that is harmless only if the link count was right (`Misplaced`; `Regular` is this
condition with those of a full disk and a torn `cr_rm`); the shortest sequence that
shows it has four calls, and was met in the attempt to prove the guard without it.
`SegfaultExplained` lists the only causes for the program to end by itself: a
loop of directories, block 0 free, a parent that cannot be made because the
last ancestor there is, is a file or a full directory, or a file to link to that is
no longer there when the directories of its new name have been made (an entry made
on a full disk can lead to the block of another, and a write into one file is then a
write into both). `FilesIntact` bounds what
the misplaced `write_index_block` does to one block behind its own, and
`Returns` says that the recursion over missing parents ends.

**CrRead.** `CursorAgrees` relates the three records of the position,
`BufferHoldsPrefix` compares the buffer with the file byte by byte after any
sequence of reads, and the copy that `cr_unload` makes. It takes the code's convention,
a caller that passes the same pointer to every call; the document has another one
(section 6). `ReadAdvances` is what is left of the
promise of `cr_read`: a call may read less than it says, but never nothing while
there is something to read.

**MapReduce.** `ImplementsWordCount` is the central one: the order in which
children end, the way the text falls into chunks, lists left behind by an
earlier run and keys that run out are all in it. `ReduceSeesAll` is why it holds:
when the reducing child is forked nobody else is alive and each segment has the
list of its own chunk. `ChildrenBounded` is the comment at `#define MAXCHILDS`.
`SegmentsReleased` is about what stays in the system, `Ends` about `wait`.
`OverrunBounded` says how far the arrays are used behind the memory they have:
`identifiers` holds longs and is allocated for one int, so its first element ends 4
bytes behind it and the second, which the reduction writes after a single chunk, 12;
once doubled it is used one long too far at most. `room` counts in ints, with longs
and pointers of two, as on the machines the Makefile is for.

### Bounds

* Scheduler: three processes are the fewest with a queue of two behind a running
  one, so that insertion goes to the head, the middle and the tail; jobs have one
  and two CPU bursts, waits of 0 and 1, and arrivals at 0 and 2, so that arrival,
  end of wait and preemption meet in one tick; quanta 1 and 2 against bursts of
  1, 2 and 3 give a burst shorter than, equal to and longer than the quantum.
  The theorems need none of these bounds.
* GameServer: two moves let each client move once and come back to the first; a
  second game and the answers after it exercise `AnswerNewGame` in a turn; one
  image makes a client one answer ahead, and more would only make it more. Two
  clients, so one killed is enough to leave a survivor. Texts are abstracted to
  "begins with '1'", which is all that the server looks at, and nicknames to two; these are
  only compared with each other, so `server_safety` takes them as symmetric.
* Board: with two men each on five rows there are chains of two captures, crowned
  men, queens on both sides and phantom pieces; the constants of the code are 8,
  3 and 10. Larger boards add longer chains, not other cases of `is_valid`.
* Crfs: two or three entries make a full directory reachable in two operations;
  six or seven blocks make a full disk reachable. A directory entry is 8 words
  and an index block has 2 + (words - 12) + 10, as in the code. One name has eight
  letters and begins with the only ones of another, so that its words are pointers, it
  counts as many links, and a count written into it leaves the other. The first disk
  has one file with one data block, which holds, read as entries, a directory in block
  0 and a file in block 5.

* CrRead: five index positions would do; the six are two direct ones and two
  indirect blocks of two, so that a file may end in, and a read may cross, each
  kind of border. Sizes of requests are below, equal to and above those of a block
  and of the file, and 0.
* MapReduce: two words per chunk and texts of every length from 0 to 3, and of
  4 to 7 some: no chunk, one, a full and a partial one, two full ones, three, and
  four, which are as many as there are keys, so that the segment of the reduction
  has the key of the first chunk. Two children at a time make the parent wait in
  the middle of a map; the code has 8, and nothing depends on the number but
  `ChildrenBounded`. One restart: what a run finds depends on what is left in the
  system, not on how many runs have left it.

### Fairness

The scheduler is one thread that never blocks: weak fairness of `Next`. The
server and each client are processes of their own that the system keeps running,
and a user who is asked answers in the end: weak fairness of `ServerStep` and of
each `ClientStep(c)`, which includes that TCP reports a reset in the end; none of
`ClientDies`, and none of `ClientLost`, because nothing makes a client end whose server
is gone. `Answered` and `DisconnectEndsBoth` are false without
users who answer. A crfs call runs on until it returns: weak fairness of `Run`,
none of `Call` or `Kill`. The parent of `t2` and its children are processes that
the system schedules: weak fairness of `Parent` and of `Children`, none of
`Restart`.

## 4. Proofs

TLC checks the properties of section 3 on small instances; the theorems below
hold for every value of the constants that the assumption named in each module
admits. Those assumptions are what the code fixes or reads: `N` is a natural
number and every job has an odd number of bursts (`t1/main.c` reads `2 * aux - 1`
of them), the board is larger than its two camps, sizes of blocks, chunks and
tables are positive. No theorem bounds the number of messages, moves, words,
ticks or reads; where a model has a bound for TLC, it is a constant.

Each safety theorem comes from an inductive invariant `IInv` of its component
(`Init => IInv`, `IInv /\ [Next]_vars => IInv'`, `IInv => property`), and each
`IInv` was checked with TLC on the instance of the run before it was proved.

| module | theorem | property |
|---|---|---|
| `Scheduler_proofs` | `TypeCorrect` | `TypeOK` |
| | `QueueCorrect` | `QueueOrdered` |
| | `CpuIsExclusive` | `CpuExclusive` |
| | `NoOverrun` | `BurstInBounds` |
| | `CpuIsNeverIdle` | `WorkConserving` |
| | `StatisticsCorrect` | `StatisticsAddUp` |
| | `Implementation` | `ImplementsPriorityCpu` |
| | `DispatchesCorrect` | `DispatchesAccounted` |
| | `ResponseCorrect` | `ResponseWithinWaiting` |
| `GameServer_proofs` | `TypeCorrect` | `TypeOK` |
| | `AnswersAgree` | `AnswersAhead` |
| | `MovesAreFresh` | (`FreshMoves`) |
| | `OneMatterHolds` | (`OneMatter`) |
| | `Implementation` | `ImplementsMatch` |
| `Board_proofs` | `TypeCorrect` | `TypeOK` |
| | `CountsAreThere` | `CountedAreThere` |
| | `MenAreCrowned` | `LastRowCrowned` |
| | `RejectedMoves` | `RejectedKeepsPieces` |
| | `OpponentIsSafe` | `OpponentOnlyLoses` |
| `MapReduce_proofs` | `TypeCorrect` | `TypeOK` |
| | `ChildrenAreBounded` | `ChildrenBounded` |
| | `ReduceIsLast` | `ReduceSeesAll` |
| | `SegmentsAreReleased` | `SegmentsReleased` |
| | `OverrunIsBounded` | `OverrunBounded` |
| | `RoundsAreRight` | (`RInv`) |
| | `Implementation` | `ImplementsWordCount` |
| `Crfs_proofs` | `TypeCorrect` | `TypeOK` |
| | `MetadataIsSafe` | `MetadataSafe` |
| | `EndsExplained` | `SegfaultExplained` |
| `CrfsSharing_proofs` | `BlocksNotShared` | `NoSharing` |
| | `LinksAreCounted` | `LinksCounted` |
| `CrRead_proofs` | `CursorCorrect` | `CursorAgrees` |
| | `BufferCorrect` | `BufferHoldsPrefix` |
| | `ReadsAdvance` | `ReadAdvances` |

Those in parentheses have no entry of their own in a run: the first two follow
from `ImplementsMatch`, which `server_safety` checks, and `RInv` is the
strengthening that `ImplementsWordCount` needs; it was checked with TLC on the
instance of `mapreduce`, and with one word per chunk and two keys.

### Scheduler

`IInv` conjoins `TypeOK`, `QueueOrdered`, `CpuExclusive`, `BurstInBounds` and two
facts that are not properties by themselves. `AdmitLoop` says which processes
the admit loop has already passed: without it the completeness of the queue at
`Dispatch` has no support in the step from `admit`. `ArrivedInTime` says that a
process that is not IDLE has arrived, without which `response_time` could be
negative and `TypeOK` is not inductive. `QueueOrdered` needs `CpuExclusive` (a
process taken off the queue is RUNNING and so not READY), and `BurstInBounds`
needs the link between state and parity of `actual_subprocess`, and the odd
number of bursts. `WorkConserving` and `StatisticsAddUp` are proved inductive
relative to `IInv`, and so is the step simulation of `PriorityCpu`: `Dispatch`
pops the head of an ordered and complete queue, which is the process that
outranks every other READY one. The insertion of `ready_queue_up` is treated
once, in lemmas about the position it inserts at.

The statistics need three more facts. `QuantumInBounds`: a process on the CPU has
some of its quantum left. `Owed` is the tick that a release takes from
`waiting_time` and `Account` gives back, so that `ResponsePaid` can say in every
phase of a tick what `ResponseWithinWaiting` says after `Account`; and a process
that was never dispatched has not run. `Dispatches` is `DispatchesAccounted` for
one process; the lemmas about it say how halves of the index of a burst count.

### GameServer

`AnswersAhead` speaks of the client the server waits for. It becomes inductive
when it is said of both clients in every phase: `Connected(c)` is "questions on
the way to `c` plus messages of `c` unread are `Owed(c)` plus the images it
sent", and `Unconnected(c)` that nothing has been exchanged yet. Two things have
to be known besides: the server never sends a `Disconnect` and goes on
(`~ Ends`), and nobody who is alive has left (`client[c] \notin {"exited",
"lost"}`). The number of questions in a stream (`Due`) is a cardinality; lemmas
say what it is for a stream that grows at its end or loses its first packet.
`Fresh` is `FreshMoves` with the boards that are on the way and not yet seen.
The server's packets are given once for each message type (`Packages`,
`Messages`), and a dead client is the only source of a packet without a type.

`Implementation` compares the two behaviours step by step. Of a stream `Match`
sees only the set of its questions (`QuestionsOf`), so a packet list is described
by the questions it poses (`Poses`): none for a notice, its own for a question,
and those of both parts when two lists are joined. For a player who keeps to the
dialogue `IInv` gives `HearsIs`: it is connected, and its open questions and
unread messages together are at most one. So when the server reads, nothing is
left of what it had asked (`ServedHears`), and what is asked afterwards is what it
sends in that step (`ServedAsks`); when a client answers, nothing is left of what
it was asked. `GivenIs` says that what is read is the answer that `Match` knows.
That needs `OneMatter`: the counts of `IInv` say how many answers there are, not to
which question. `OneMatter` in turn is kept by every step of `Match` (`MatchKeeps`),
which is shown on the abstract actions, and so for all steps of the server at
once. The invariant of the proof is therefore `IInv` and `OneMatter` together:
given both, a step of any process is a step of `Match` or changes nothing in it
(`NextPlays`, one lemma for each action), and given that, both hold again. What
the server reads from a dead client's socket, and the signal that kills it, need no
case of their own in `Match`: the player is outside `Keeps`, so either nothing
changes or the match may stop.

### Board

A search writes on the board and undoes what it has written, but not all of it:
`UNDO` empties the wrong square. So `IInv` cannot say that the board is the one
the search began with. `LeftOver` says what it is: a search moves by two rows at
a time, hence lands on rows of one parity and captures on the other; on the
captured side the board is `before` without the pieces of the frames of the
stack, on the landing side it is `before` with pieces of the mover added on
squares that were free. `FramesOK` says that the frames are a chain that fits
`before`, and that no two of them have taken the same piece, which is what lets
`UNDO` give each piece and each count back. From that the counters are those of
`before` minus the pieces taken (`Counters`), and `CountedAreThere` follows
although rejected searches leave pieces that nobody counts.

### MapReduce

`IInv` says which children exist in each phase of the parent (`KidsInPhase`), that
`childs_amount` is their number as long as it is tested (`Counted`), what
memory is behind the arrays (`Sized`), that every chunk given away has a segment
(`Present`), that a child that has ended has left its list in it and that
nobody else writes there while there are keys enough (`Written`), and after
clean runs only the segments of this round exist (`Clean`). Lists are built by
recursive functions; that they are sequences of entries is shown with the lemmas
of `Recursion_proofs`.

`Implementation` says that the program computes `WordCount`. It rests on three
groups of lemmas, all of them about lists of any length.

* *Chunks make no difference* (`ChunksMerged`). A merged list has one entry of
  each kind, the kind being the word, the count or the length (`Kind`,
  `Distinct`), so merging a list that is merged already gives it back
  (`MergedTwice`), and merging two lists one behind the other is the same
  whether or not the second was merged before (`MergedConcat`); by induction over
  the chunks, the merged chunks reduce to what the whole input does. The second
  round joins strings, so the order matters there, and is kept.
* *Sorting* (`InOrderIs`). The entries of a list that has each first word once
  are ordered strictly and totally by `Before`; `bubbleSort` gives them in that
  order, and there is only one such sequence (`SortedUnique`), which is therefore
  the one that `WordCount` chooses.
* *The three rounds* (`RoundOne`, `RoundTwo`, `RoundThree`). What the list holds
  after `k` entries of the input is given in closed form (`CountedUpTo`,
  `GroupedUpTo`, `SummedUpTo`), kept by one more entry, and compared at the end
  with the sets and cardinalities of `WordCount`. Rounds two and three assume of
  their input that it is the output of round one (`Listed`): in order, which makes
  the words of a group ascend and the first word of a length the rarest.

The second invariant, `RInv`, says that the rounds that are over have given these
results (`RightSoFar`) and the child that reduces leaves what the whole input
reduces to (`ReducedRight`), for the runs of which that can be said (`Sound`): those
with threads, and those to which memory was not refused, with a text or after
clean runs. Two parts of it are about shared memory. `GivenAway`: chunks are no
more than the words need, so a run that has too many chunks for its keys has too
many words, as `WordCount` says. `Fits`: no segment is larger than the chunks
before its key, whichever run has made it, so that with as many chunks as keys
the one that `forkReduce` asks for is always too small. That is why a run whose
chunks overwrite each other's lists fails instead of printing a wrong count:
nothing in the code tests for it. There must be more than one key for this.

### Crfs

`MetadataSafe` speaks of the entries that a path leads to, but a block that is
given away becomes a directory or is written into without being cleared, so the
invariant speaks of blocks that no path leads to as well. `DiskOK` is what holds
whatever was killed: the index of every entry is some block, and every block has a
word that is 0 (`ZeroWord`: no write ever puts anything but 0 where the last letters
of the first name of a directory are, which `cr_rm` takes for a pointer). `Metadata`
is what holds unless a `cr_rm` was torn: every valid entry, of whatever block, leads to
none of the `Kept` ones, which are the root, the bitmap and the block with the data of
the first file (`EntriesOK`); that data may read as anything, because its block is
never given away. For that the kept blocks have to stay marked as long as block 0 is
(`Marked`), and two accidents see to it: a pointer 0 in every block, which means that
`cr_rm` frees block 0 whenever it frees anything (`RootFreed`), and `next_free_block`,
which gives away the first free block, refused by its callers when it is 0. In the
middle of the pointers (`Looping`) it is not so, but there nothing else runs, and a kill
there, while block 0 is marked, is what sets `past.torn`; `Unbroken` says that no other
write comes between them. `HitsEntries` is why a misplaced
index block does not spoil this: where it overwrites the index of an entry it
overwrites its kind too, because both begin at multiples of 8 words. `StackOK`
says that what the innermost call has found is on the disk until it begins to
write, and `Pending` that a link is taken from a block that has one, with nothing
but the entry invalidated before. `SearchIs` and `ReachedBlocks` treat the two
recursions over the tree, with the lemmas of `Recursion_proofs`.

`NoSharing` and `LinksCounted` depend on each other: `cr_rm` frees a block when it
counts one link, so a count that is too low makes two names share what is given
away next; and an entry written into an index block spoils counts, so that what
entries share matters for the counts. `SInv` is about all entries of the disk
(`Taken`) and the writes that are still to be done. It claims something while the
history is `Regular`, and more of it while only `cr_rm` was killed (`OnlyRm`):

* `Order`: the writes of a call come in the order of their `Rank`, the ones that
  remove before the ones that add.
* `InUse`: as long as block 0 is marked and no pointer is being freed, every block
  that an entry leads to is marked, or is about to be. While there are blocks left to
  free it may also have a wrong count, because block 0 is one of them; once block 0 is
  free nothing is given away any more, and nothing has to be said. In the loop over
  the pointers nothing is claimed: it ends with block 0 freed, or with a kill there that
  makes the history not `Regular` (`FreeEnds`).
* `Sharing`: two entries of one block are of files, those not yet written included.
* `Removed`: when a block is about to be freed, the entries that lead to it are
  about to be invalidated.
* `Counted`: entries are not written into index blocks, and links with those about
  to be written are no more than counts with what is about to be added to them;
  `Misplaced` blocks, whose counts are at a wrong place or overwritten, excepted.

Each write that `Apply` knows is treated once, by what it does to the entries and the
counts (`Fewer`, `More`); `Begins` treats a call that begins to write by what it
removes and what it adds. `cr_hardlink` needs one thing besides, because it does not
test the second time whether there is a file to link to: `Linking` says that this
file stays where it was while the directories of the new name are made. It holds
because none of those is on the way to it (`StartExists`), and because only one path
leads to a directory as long as `Sharing` holds (`OnePath`), so that a new entry in it
is on the way of no other path (`EntryAside`). For the number of calls in progress it
rests on the chain of `XInv`, below.

`SegfaultExplained` speaks of the outermost path and of the disk at the end, but a
parent is missing because of what a call further in did or could not do. `XInv` keeps
the two together. `Chain`: every call but the outermost is a `cr_mkdir` for the parent
of the path of the one that waits for it, so that all paths begin the outermost one.
`Tried`: a call that tries again finds its parent, or a cause why it was not made; and
the writes of the call that makes it lead there (`Making`). `EntryFound` is the step
that matters: an entry of a new name changes no search that found anything, and the
search for its path finds it. `SearchSteps` gives the nodes on the way of a search, of
which the rest is made (`Searched`, `SearchEnds`). A directory loop needs
no argument: `load_dir` meets it before anything else.

### CrRead

`IInv` is short: the index block is the one of a file that fits, an open file is
exactly at one of its bytes (`At(mode, n)` is the whole `crFILE` after `n` bytes),
the buffer is the file up to there, the copy is the file. The work is in the loop
of `read_file_to_buffer`. `PassIs` says what one turn does: it reads to the
nearest of three ends, all that it stores is in one block, and the carry leaves
the position of the byte it has come to. `ReadIs` says what the loop does, by
induction over its turns: every turn that does not stop has read a whole number
of blocks, so that the turns that are left suffice for the file; a read gets on
unless it is at its end; from the beginning with the size of the file it comes to
the end. `PointerIs` is that `crFILE_init` finds block `i` of the file at place `i`,
through an indirect block or not. The early stop that `crread_returns` shows
is in all of this: nothing here says that a read returns what it has read.

### Recursion

The provers cannot instantiate the library's induction theorems, whose parameter
is a predicate. `Recursion_proofs` states them with sets: every non-empty set of
numbers has a least one (`LeastNumber`), a set that has 0 and with each number
below `n` the next has all of `0..n` (`SetInduction`), and a function computed
step by step exists, is unique and has its values where its steps have
(`RecursionExists`, `RecursionUnique`, `RecursionType`). `FlattenType` and `FlattenIs` are
about an operator of the community modules.

### Only model-checked

* Liveness: `Terminates`, `Answered`, `DisconnectEndsBoth`, `KillEndsServer`, `Returns`,
  `Ends`. TLAPS proves neither `ENABLED` nor, therefore, what weak fairness gives.
* `MatchesSamples`: one input.
* `BlocksMarked` and `FilesIntact` of `Crfs`.

## 5. Hazards

`PROJECT.json` lists each hazard at its line with the properties that would
catch it. The ones no property covers are those that depend on the layout of
memory or the buffers of the C library (the double free of a SpreadMsg;
`fclose` in a child of `t2` on the file its parent reads, `t2/main.c:555`; what lies
behind `identifiers`, `t2/main.c:527`), a capture of one's own queen, and what
the code makes of inputs that its own documents exclude (CPU bursts of 0). Of the
same kinds, and not in the list: `scores[2]` and `order` one byte past their
arrays (`server/main.c:82`), and two runs of `t2` at a time in one directory, which
share their keys (`t2/main.c:103`).

## 6. Where code and documents disagree

Shown by a run, with a trace:

* `server_disconnect`: when somebody does not want another game and socket 0 made
  the last move, the second Disconnect goes to `sockets[-1]` (`server/main.c:167`);
  client 1 is never told, against `README.md:24` of the project.
* `board_rejected`: `UNDO` empties `cells[new_row][new_cell]` instead of
  `[new_col]` (`board.c:203`). After a search that fails behind its first capture,
  a rejected move has left a copy of the piece on the square it would have
  landed on, against `board.c:210`.
* `crfs_freed`: the link count of a file that is not the first entry of its
  directory is written at the wrong place (`cr_API.c:246`), and `cr_rm` of one of
  two names frees the blocks of the other.
* `crread_returns`: a read that ends at the end of a block may stop early,
  because the total of all reads is compared with the size of this one
  (`functions.c:370`); `cr_read` returns the size it was asked for. The next read
  goes on at the right place.

Noticed in what the passing runs check:

* `BufferHoldsPrefix`: `cr_read` adds what it has read in all to the pointer it is given
  (`functions.c:354`), against `DOCUMENTACION.md:64` ("los guarda en la dirección
  apuntada por `buffer`"). The property is about a caller that passes the same pointer
  again; one that passes the address for the next bytes gets them that much behind it.
* `MatchesSamples`: `t1/README.md:6` says that the program gives GERMY in `out3.txt` a
  response time and a waiting time that are one too high, and that all else is right. It
  gives 0 and 9, the numbers of the sample; and all turnaround times are one more
  than those of the three samples (`t1/main.c:108`).

Noticed while modelling, and in the models, but with no run of their own:
`get_winner` tests `n_black == 0` twice (`board.c:80`), so there is no winner when
white has lost; after the first `cr_rm` block 0 is free, `next_free_block` returns 0
and every later `cr_open` 'w' and `cr_mkdir` fails (`cr_API.c:329`); a run of `t2`
after one that was killed may print nothing, or a wrong count, and end with status
0 (`t2/main.c:110`), and 256 chunks or more end in a segmentation fault
(`t2/main.c:104`); client 1 gets
`score2` twice (`server/main.c:85`); client 1 may be told that it plays white
(`server/main.c:105`); a man may capture its own queen (`board.c:125`); a double
capture may take a counter from 1 to -1 when there are phantom pieces, so that
`game_ended` does not see 0; `cr_mkdir` in a full directory returns 0 and loses a
block (`functions.c:117`); `write_index_block` for the third and later entries of
a directory writes into the next block (`functions.c:345`), and on a full disk from
block -1 into block 0; a `cr_rm` killed among its frees leaves blocks to give away
that hold a file (`cr_API.c:329`); `cr_rm` of a directory takes letters of a name
for a link count (`functions.c:310`).

## 7. Not modelled

* `cr_write` and `cr_load` are stubs, and `cr_mount`, `cr_bitmap`, `cr_exists` and
  `cr_ls` change nothing. `cr_rm` of `/root` itself, whose parent is
  uninitialised, is left out; so is the recursion of `cr_unload`, which makes
  directories outside the image, and a negative `nbytes`.
* `GameServer` has no abort after a rejected move: the byte that `UNDO` writes
  behind the board, and what the allocator makes of it, are in `Board` only.
* `t2`: arguments, words longer than their buffer, the layout of a segment,
  two runs at a time, a child killed without its parent, a parent killed without its
  children (`Restart` ends both; orphans that write into the segments of the next
  run are not in the model), and failures of `fork`.
* crfs: files of more than one data block, and so one that uses all of its 510
  pointers, whose removal would free no block 0; bytes of a file that read as an
  entry with the number of the bitmap, 1 (`DataAssumption`), and names with two
  letters that do (`NamesAssumption`). `MetadataSafe` and the properties that rest on it
  are not claimed for them, nor after a torn `cr_rm`.
* Packets split by TCP into several `recv` calls, text, layout, logging.
* `redes/shared/logger`, `crfs/main.c`, the printers, the examples and scripts: no
  state that another component reads.

## 8. Plan

1. *Done*: `PriorityCpu`, `Scheduler`, `Scheduler_proofs`; `GameServer`; `Crfs`;
   `Board`; `CrRead`; `WordCount` and `MapReduce`.
2. *Done*: theorems about `Scheduler`, `GameServer`, `Board`, `MapReduce`, `CrRead`,
   and the safety properties of `Crfs` but `BlocksMarked` and `FilesIntact`.
3. *Done*: `Match`, an abstract specification for `GameServer`, and the proof that
   `GameServer` implements it; the proof that `MapReduce` implements `WordCount`.
