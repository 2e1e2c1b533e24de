------------------------------ MODULE MapReduce ------------------------------
(***************************************************************************)
(* tareas/t2/src/main.c: the words of a text, counted in three rounds of    *)
(* map and reduce.  With "fork" each chunk of MAXWORDS words goes to a      *)
(* child process that leaves its list in a segment of System V shared       *)
(* memory, where the child that reduces finds it; segments outlive the      *)
(* program until it removes them.  With "threads" a thread is joined as     *)
(* soon as it has been created, so that a step runs it as a whole.          *)
(* The three outputs, of which a run prints one, are all computed here.     *)
(***************************************************************************)
EXTENDS Integers, FiniteSets, SequencesExt

CONSTANTS
    Length,      \* of each word, a number in the order of strcmp
    Texts,       \* texts of the first run
    Retry,       \* texts of the later ones
    Versions,    \* "fork", "threads"
    MAXWORDS,    \* words of a chunk (1000)
    MAXCHILDS,   \* children at a time (8)
    Keys,        \* keys that ftok makes out of one path (256)
    MaxRuns,     \* bound: runs, one after the other
    Segfault     \* in the place of a result that the program dies of

ASSUME SizesAssumption ==
    /\ MAXWORDS \in Nat \ {0} /\ MAXCHILDS \in Nat \ {0} /\ Keys \in Nat \ {0, 1}
    /\ MaxRuns \in Nat \ {0} /\ Versions \subseteq {"fork", "threads"}
    /\ DOMAIN Length \subseteq Int /\ Texts \subseteq Seq(DOMAIN Length) /\ Retry \subseteq Texts
    /\ Segfault \notin Seq([count : Nat, string : Seq(DOMAIN Length)])

VARIABLES
    text, version,
    pc,          \* "map", "slot": wait for one child, "last": the last chunk, "mapped", "reduce", "done"
    round,       \* 1 to 3: the type of this round
    chunks,      \* chunks given away: shared_index, and childs_amount of the threads
    childs,      \* childs_amount of the processes
    kids,        \* children not waited for yet, by number: "running" or "ended"
    bad,         \* chunks to which shared memory was refused
    kernel,      \* segments by round and key: size in words, and the list in it
    lists,       \* words_chunk_list of the threads
    capacity,    \* memory_buffer
    room,        \* memory behind identifiers, and behind words_chunk_list of the
                 \* threads: in ints, of which a long or a pointer takes two
    results,     \* what the rounds so far have reduced to
    runs,        \* bound counter
    unclean,     \* history: an earlier run may have left segments behind
    refused      \* history: shared memory was refused to this run

memory == <<bad, kernel, refused>>
arrays == <<lists, capacity, room>>
history == <<runs, unclean>>
vars == <<text, version, pc, round, chunks, childs, kids, memory, arrays, results, history>>

Count == INSTANCE WordCount WITH
    Capacity <- MAXWORDS * (Keys - 1), out <- IF pc = "done" THEN results ELSE <<>>
Entry(count, string) == Count!Entry(count, string)
Entries == [count : Nat, string : Seq(DOMAIN Length)]
Rounds == 1..3

-----------------------------------------------------------------------------
\* One entry added to a list: joined to the first one that is the same for the
\* round, or put at the end.
Same(a, b) ==
    CASE round = 1 -> a.string = b.string
      [] round = 2 -> a.count = b.count
      [] round = 3 -> Length[a.string[1]] = Length[b.string[1]]
Joined(a, b) ==
    IF round = 2 THEN [a EXCEPT !.string = @ \o b.string] ELSE [a EXCEPT !.count = @ + b.count]
Place(list, e) == SelectInSeq(list, LAMBDA a : Same(a, e))
Added[list \in Seq(Entries)] == [e \in Entries |->
    LET k == Place(list, e)
    IN  IF k = 0 THEN Append(list, e) ELSE [list EXCEPT ![k] = Joined(@, e)]]
Merged(entries) ==
    LET upto[n \in 0..Len(entries)] == IF n = 0 THEN <<>> ELSE Added[upto[n - 1]][entries[n]]
    IN  upto[Len(entries)]

Before(a, b) == a.count < b.count \/ (a.count = b.count /\ a.string[1] < b.string[1])
\* The entries that go before entry i: equal ones keep their order.
Ahead(list, i) ==
    {j \in DOMAIN list : Before(list[j], list[i]) \/ (~ Before(list[i], list[j]) /\ j < i)}
bubbleSort[list \in Seq(Entries)] ==
    [n \in DOMAIN list |-> list[CHOOSE i \in DOMAIN list : Cardinality(Ahead(list, i)) = n - 1]]
Reduced(entries) == IF round = 2 THEN Merged(entries) ELSE bubbleSort[Merged(entries)]

\* What the round reads: the words, or the list of the first round.
Input == IF round = 1 THEN [i \in DOMAIN text |-> Entry(1, <<text[i]>>)] ELSE results[1]
Rest == Len(Input) - chunks * MAXWORDS
Chunk(i) == SubSeq(Input, i * MAXWORDS + 1, IF (i + 1) * MAXWORDS < Len(Input) THEN (i + 1) * MAXWORDS ELSE Len(Input))

-----------------------------------------------------------------------------
\* Shared memory.  A segment that has the key already is taken as it is, and
\* refused if it is too small.
KeyWhole(i) == i                                    \* fault: as if ftok kept all of the number
Key(i) == i % Keys
Segments == kernel[round]
Segment(size, list) == [size |-> size, list |-> list]
Extended(f, key, value) == [k \in DOMAIN f \union {key} |-> IF k = key THEN value ELSE f[k]]
addSharedMemory(words) ==
    LET key == Key(chunks)
        taken == key \in DOMAIN Segments
        small == taken /\ Segments[key].size < words
    IN  /\ kernel' = IF taken THEN kernel ELSE [kernel EXCEPT ![round] = Extended(@, key, Segment(words, <<>>))]
        /\ bad' = IF small THEN bad \union {chunks} ELSE bad
        /\ refused' = (refused \/ small)

\* A child without its memory dies of a segmentation fault and writes nothing.
shmWrite(i, list) ==
    IF i \in bad THEN kernel ELSE [kernel EXCEPT ![round][Key(i)].list = list]

\* shmctl(IPC_RMID) of the segments 0 to n - 1 of this round.
Released(n) ==
    LET gone == {Key(i) : i \in 0..(n - 1) \ bad}
    IN  [kernel EXCEPT ![round] = [key \in DOMAIN @ \ gone |-> @[key]]]

-----------------------------------------------------------------------------
\* What a run starts with: main.c allocates an int where it keeps longs.
FirstRoom(v) == IF v = "fork" THEN 1 ELSE 2

Init ==
    /\ text \in Texts /\ version \in Versions
    /\ pc = "map" /\ round = 1 /\ chunks = 0 /\ childs = 0 /\ kids = <<>> /\ bad = {}
    /\ lists = <<>> /\ capacity = 1 /\ room = FirstRoom(version) /\ results = <<>>
    /\ kernel = [r \in Rounds |-> <<>>]
    /\ runs = 1 /\ unclean = FALSE /\ refused = FALSE

\* wait(): one child that has ended, whichever, or none if there are no children.
Wait ==
    IF kids = <<>> THEN UNCHANGED kids
    ELSE \E i \in DOMAIN kids : kids[i] = "ended" /\ kids' = [k \in DOMAIN kids \ {i} |-> kids[k]]
Fork == kids' = Extended(kids, chunks, "running")

\* The arrays grow by doubling, and then identifiers has longs.
Doubled == capacity' = 2 * capacity /\ room' = 2 * capacity'
GrowNever == UNCHANGED <<capacity, room>>           \* fault: the arrays are not doubled
Grow == IF round = 1 /\ chunks = capacity THEN Doubled ELSE UNCHANGED <<capacity, room>>

ForkedAtMost(n) == n > MAXCHILDS                    \* fault: one child more
AllSlotsTaken(n) == n = MAXCHILDS

\* A full chunk goes to a child of its own.
ForkMap ==
    /\ version = "fork" /\ pc = "map" /\ Rest >= MAXWORDS
    /\ Grow /\ addSharedMemory(MAXWORDS) /\ Fork
    /\ chunks' = chunks + 1 /\ childs' = childs + 1
    /\ pc' = IF AllSlotsTaken(childs + 1) THEN "slot" ELSE "map"
    /\ UNCHANGED <<text, version, round, lists, results, history>>

WaitSlot ==
    /\ pc = "slot" /\ Wait
    /\ childs' = childs - 1 /\ pc' = "map"
    /\ UNCHANGED <<text, version, round, chunks, memory, arrays, results, history>>

\* The child: shmStruct, on the words as they were when it was forked.
MapChild(i) ==
    /\ i < chunks /\ kids[i] = "running"
    /\ kernel' = shmWrite(i, Merged(Chunk(i)))
    /\ kids' = [kids EXCEPT ![i] = "ended"]
    /\ UNCHANGED <<text, version, pc, round, chunks, childs, bad, refused, arrays, results, history>>

\* No full chunk is left: every child is waited for, then the rest of the words
\* goes to one more child.
Full == version = "fork" /\ pc = "map" /\ Rest < MAXWORDS
WaitAll ==
    /\ Full /\ kids # <<>> /\ Wait
    /\ UNCHANGED <<text, version, pc, round, chunks, childs, memory, arrays, results, history>>

DrainedAtOnce == TRUE                               \* fault: nobody is waited for
DrainedNever == FALSE                               \* fault: the loop goes on when no child is left
Drained == kids = <<>>

ForkLast ==
    /\ Full /\ Drained /\ Rest > 0
    /\ Grow /\ addSharedMemory(Rest) /\ Fork
    /\ chunks' = chunks + 1 /\ pc' = "last"
    /\ UNCHANGED <<text, version, round, childs, lists, results, history>>

WaitLast ==
    /\ pc = "last" /\ Wait /\ pc' = "mapped"
    /\ UNCHANGED <<text, version, round, chunks, childs, memory, arrays, results, history>>

-----------------------------------------------------------------------------
\* forkReduce: its segment is the one after those of the chunks.
Mapped == pc = "mapped" \/ (pc = "map" /\ Rest = 0)
ForkReduce ==
    /\ version = "fork" /\ Mapped /\ Drained
    /\ addSharedMemory(MAXWORDS * chunks) /\ Fork
    /\ pc' = "reduce"
    /\ UNCHANGED <<text, version, round, chunks, childs, arrays, results, history>>

\* The lists of all chunks, in their order.
FoundLastFirst == FlattenSeq([i \in 1..chunks |-> Segments[Key(chunks - i)].list])   \* fault: from the last one
Found == FlattenSeq([i \in 1..chunks |-> Segments[Key(i - 1)].list])

\* The child that reduces dies when a chunk has no memory.  Without chunks the
\* length it starts from is not initialised.
ReduceChild ==
    /\ pc = "reduce" /\ kids[chunks] = "running"
    /\ \/ kernel' = IF bad \ {chunks} # {} THEN kernel ELSE shmWrite(chunks, Reduced(Found))
       \/ chunks = 0 /\ UNCHANGED kernel
    /\ kids' = [kids EXCEPT ![chunks] = "ended"]
    /\ UNCHANGED <<text, version, pc, round, chunks, childs, bad, refused, arrays, results, history>>

ReleasedChunks == Released(chunks)                  \* fault: shared_index not increased
ReleasedAll == Released(chunks + 1)
Reading == IF chunks \in bad THEN Segfault ELSE Segments[Key(chunks)].list

\* The next round, or the end of the program.
NextRound(list) ==
    /\ results' = Append(results, list)
    /\ pc' = IF round = 3 THEN "done" ELSE "map"
    /\ round' = IF round = 3 THEN 3 ELSE round + 1
    /\ chunks' = 0 /\ bad' = {} /\ lists' = <<>>

WaitReduce ==
    /\ pc = "reduce" /\ Wait
    /\ round = 1 => Reading # Segfault
    /\ kernel' = ReleasedAll
    /\ NextRound(Reading)
    /\ childs' = 0
    /\ capacity' = Len(results'[1]) \div MAXWORDS + 2 /\ room' = 2 * capacity'
    /\ UNCHANGED <<text, version, refused, history>>

\* The program dies when it looks for the length of the first list in a segment
\* it has not got.
Crash == pc' = "done" /\ results' = [r \in Rounds |-> Segfault]
CrashReduced ==
    /\ pc = "reduce" /\ Wait
    /\ round = 1 /\ Reading = Segfault /\ Crash
    /\ kernel' = ReleasedAll
    /\ UNCHANGED <<text, version, round, chunks, childs, bad, refused, arrays, history>>

\* After an empty text the length may be any number: the second round reads
\* past the segment, or has no array for its identifiers.
CrashEmpty ==
    /\ version = "fork" /\ pc = "map" /\ text = <<>> /\ round = 2 /\ results[1] = <<>> /\ Crash
    /\ addSharedMemory(0) \/ UNCHANGED memory
    /\ UNCHANGED <<text, version, round, chunks, childs, kids, arrays, history>>

-----------------------------------------------------------------------------
\* The version with threads.
ThreadMap ==
    /\ version = "threads" /\ pc = "map" /\ Rest >= MAXWORDS
    /\ IF chunks = capacity THEN Doubled ELSE UNCHANGED <<capacity, room>>
    /\ lists' = Append(lists, Merged(Chunk(chunks)))
    /\ chunks' = chunks + 1
    /\ UNCHANGED <<text, version, pc, round, childs, kids, memory, results, history>>

\* The last chunk: thread_ids is doubled, words_chunk_list is not.
ThreadMapLast ==
    /\ version = "threads" /\ pc = "map" /\ Rest < MAXWORDS /\ Rest > 0
    /\ capacity' = IF chunks = capacity THEN 2 * capacity ELSE capacity
    /\ lists' = Append(lists, Merged(Chunk(chunks)))
    /\ chunks' = chunks + 1 /\ pc' = "mapped"
    /\ UNCHANGED <<text, version, round, childs, kids, memory, room, results, history>>

ThreadReduce ==
    /\ version = "threads" /\ Mapped
    /\ NextRound(Reduced(FlattenSeq(lists)))
    /\ capacity' = 1 /\ room' = FirstRoom(version)
    /\ UNCHANGED <<text, version, childs, kids, kernel, refused, history>>

-----------------------------------------------------------------------------
\* The program is run again, after it has ended or when it has been killed with
\* its children, in the middle of releasing the segments too.
Restart ==
    /\ runs < MaxRuns /\ runs' = runs + 1
    /\ text' \in Retry /\ UNCHANGED version
    /\ unclean' = (unclean \/ (version = "fork" /\ (pc # "done" \/ text = <<>>)))
    /\ \/ UNCHANGED kernel
       \/ pc = "reduce" /\ kids[chunks] = "ended" /\ \E n \in 1..chunks : kernel' = Released(n)
    /\ pc' = "map" /\ round' = 1 /\ chunks' = 0 /\ childs' = 0 /\ kids' = <<>> /\ bad' = {}
    /\ lists' = <<>> /\ capacity' = 1 /\ room' = FirstRoom(version) /\ results' = <<>> /\ refused' = FALSE

Parent ==
    \/ ForkMap \/ WaitSlot \/ WaitAll \/ ForkLast \/ WaitLast
    \/ ForkReduce \/ WaitReduce \/ CrashReduced \/ CrashEmpty
    \/ ThreadMap \/ ThreadMapLast \/ ThreadReduce
Child(i) == MapChild(i) \/ (i = chunks /\ ReduceChild)
Children == \E i \in DOMAIN kids : Child(i)

Next == Parent \/ Children \/ Restart

Spec == Init /\ [][Next]_vars
\* The system schedules the program and its children.
Fairness == WF_vars(Parent) /\ WF_vars(Children)

-----------------------------------------------------------------------------
TypeOK ==
    /\ text \in Texts /\ version \in Versions /\ round \in Rounds
    /\ pc \in {"map", "slot", "last", "mapped", "reduce", "done"}
    /\ chunks \in Nat /\ childs \in Nat /\ DOMAIN kids \subseteq 0..chunks
    /\ \A i \in DOMAIN kids : kids[i] \in {"running", "ended"}
    /\ bad \subseteq 0..chunks /\ DOMAIN kernel = Rounds
    /\ \A r \in Rounds : DOMAIN kernel[r] \subseteq 0..(Keys - 1)
    /\ Len(results) <= 3 /\ runs \in 1..MaxRuns /\ capacity \in Nat /\ room \in Nat

\* "#define MAXCHILDS 8  /* 9 with main */" (main.c:15): there are never more
\* children than that, alive or waiting to be waited for, and while full chunks
\* are left childs_amount is their number.
ChildrenBounded ==
    /\ Cardinality(DOMAIN kids) <= MAXCHILDS
    /\ (version = "fork" /\ pc \in {"map", "slot"} /\ Rest >= MAXWORDS) => childs = Cardinality(DOMAIN kids)

\* The child that reduces is forked when every child of the round has written
\* its list and none can write any more: each segment has the words of its own
\* chunk, whatever an earlier run had left in it.
ReduceSeesAll ==
    (pc = "reduce" /\ chunks < Keys) =>
        /\ DOMAIN kids \subseteq {chunks}
        /\ \A i \in 0..(chunks - 1) \ bad : Segments[Key(i)].list = Merged(Chunk(i))

\* A run that is not killed removes all segments it has made, of every round it
\* has finished, also the one that dies in the end because it has too many
\* chunks; what the system has left then is what an unclean run left there.
SegmentsReleased ==
    (~ unclean /\ text # <<>>) =>
        \A r \in Rounds : (pc = "done" \/ r < round) => kernel[r] = <<>>

\* The arrays are used past their end, but never far: identifiers, which has the size
\* of one int at first, by 12 bytes when forkReduce puts its segment behind that of a
\* single chunk, else by one long or pointer at most, as thread_ids and
\* words_chunk_list are; in the later rounds, which know their size, not at all.
Used == 2 * IF version = "fork" THEN chunks + (IF pc = "reduce" THEN 1 ELSE 0) ELSE Len(lists)
OverrunBounded ==
    /\ chunks <= capacity
    /\ Used <= room + IF version = "fork" /\ chunks = 1 THEN 3 ELSE 2
    /\ (version = "fork" /\ round > 1) => Used <= room

\* A run answers with the right counts, or goes wrong for one of the reasons
\* that WordCount admits: whatever the order in which children end, however the
\* words fall into chunks, and after a run that was killed at any point.
ImplementsWordCount == Count!Spec

\* Every run ends, the last one too: neither the program nor a child waits for ever.
Ends == []<>(pc = "done")
=============================================================================
