-------------------------- MODULE MapReduce_proofs --------------------------
(***************************************************************************)
(* Proofs about MapReduce, for every text and every number of words of a   *)
(* chunk, of children and of keys, whatever the order in which the         *)
(* children end and wherever a run is killed.                              *)
(***************************************************************************)
EXTENDS MapReduce, Recursion_proofs, FiniteSetTheorems, SequenceTheorems

-----------------------------------------------------------------------------
(* The inductive invariant. *)

\* Which children there can be in each phase of the parent, and which chunks
\* have been refused memory.
KidsInPhase ==
    /\ version = "threads" => /\ DOMAIN kids = {} /\ pc \in {"map", "mapped", "done"}
                              /\ \A r \in Rounds : DOMAIN kernel[r] = {}
    /\ pc \in {"map", "slot"} => DOMAIN kids \subseteq 0..(chunks - 1)
    /\ pc = "last" => chunks > 0 /\ DOMAIN kids = {chunks - 1}
    /\ pc \in {"mapped", "done"} => DOMAIN kids = {}
    /\ pc = "reduce" => DOMAIN kids = {chunks}
    /\ pc \notin {"reduce", "done"} => bad \subseteq 0..(chunks - 1)

\* childs_amount is the number of children as long as it is looked at.
Counted ==
    /\ Cardinality(DOMAIN kids) <= MAXCHILDS
    /\ pc = "slot" => childs = Cardinality(DOMAIN kids) /\ childs = MAXCHILDS
    /\ version = "fork" /\ pc = "map" /\ Rest >= MAXWORDS =>
           childs = Cardinality(DOMAIN kids) /\ childs < MAXCHILDS

\* results has an element for each round that is over, the first of them a list.
RoundsOver ==
    pc # "done" => /\ results = [r \in 1..(round - 1) |-> results[r]]
                   /\ round > 1 => Len(results[1]) \in Nat

\* What the arrays have room for.
Sized ==
    /\ capacity > 0 /\ chunks <= capacity
    /\ pc \in {"map", "slot"} => Rest >= 0
    /\ version = "fork" /\ round > 1 /\ pc # "done" =>
           capacity = Len(results[1]) \div MAXWORDS + 2 /\ chunks + 1 <= capacity
    /\ version = "fork" => room = 2 * capacity \/ (round = 1 /\ capacity = 1 /\ room = 1)
    /\ version = "threads" => /\ lists = [i \in 1..chunks |-> lists[i]]
                              /\ 2 * chunks <= room + 2
                              /\ pc = "map" => room = 2 * capacity
                              /\ round = 1 => \A i \in 1..chunks : lists[i] \in Seq(Entries)

\* Every chunk given away has a segment, its own or one that had the key before.
Present ==
    /\ \A r \in Rounds : /\ kernel[r] = [key \in DOMAIN kernel[r] |-> kernel[r][key]]
                        /\ \A key \in DOMAIN kernel[r] : DOMAIN kernel[r][key] = {"size", "list"}
    /\ \A key \in DOMAIN kernel[1] : Len(kernel[1][key].list) \in Nat
    /\ version = "fork" /\ pc # "done" => \A i \in 0..(chunks - 1) : Key(i) \in DOMAIN Segments
    /\ pc = "reduce" => Key(chunks) \in DOMAIN Segments

\* A child that has ended has written its list, where nobody overwrites it
\* while there are keys enough; with too few keys it is the list of some chunk,
\* until the child that reduces has written its own.
HasWritten(i) == i \notin bad /\ (i \in DOMAIN kids => kids[i] = "ended")
Written ==
    version = "fork" /\ pc # "done" =>
        \A i \in 0..(chunks - 1) : HasWritten(i) =>
            /\ chunks < Keys => Segments[Key(i)].list = Merged(Chunk(i))
            /\ (round = 1 /\ ~ (pc = "reduce" /\ kids[chunks] = "ended")) =>
                   Segments[Key(i)].list \in Seq(Entries)

\* After clean runs the only segments are those that this round has made.
Made == IF pc = "reduce" THEN 0..chunks ELSE 0..(chunks - 1)
Clean ==
    ~ unclean =>
        /\ \A r \in Rounds : r > round => DOMAIN kernel[r] = {}
        /\ pc # "done" => DOMAIN Segments \subseteq {Key(i) : i \in Made \ bad}
        /\ text # <<>> => \A r \in Rounds : (pc = "done" \/ r < round) => DOMAIN kernel[r] = {}

IInv ==
    /\ TypeOK /\ KidsInPhase /\ Counted /\ RoundsOver /\ Sized
    /\ Present /\ Written /\ Clean

-----------------------------------------------------------------------------
(* What the operators of the model return. *)

\* The assumption on the constants, one by one.
LEMMA Sizes ==
    /\ MAXWORDS \in Nat /\ MAXWORDS > 0 /\ MAXCHILDS \in Nat /\ MAXCHILDS > 0
    /\ Keys \in Nat /\ Keys > 0
  BY SizesAssumption

\* A key is one of the Keys that there are; small numbers have one each.
LEMMA KeyType ==
    ASSUME NEW i \in Nat
    PROVE  Key(i) \in 0..(Keys - 1) /\ (i < Keys => Key(i) = i)
  BY Sizes DEF Key

\* Nothing that is computed of the input changes while the round goes on.
LEMMA SameInput ==
    ASSUME text' = text, round' = round, results' = results, NEW i
    PROVE  Input' = Input /\ Chunk(i)' = Chunk(i) /\ Merged(Chunk(i))' = Merged(Chunk(i))
  <1>1. Input' = Input
    BY DEF Input
  <1>2. Chunk(i)' = Chunk(i)
    BY <1>1 DEF Chunk
  <1>3. \A a, b : Same(a, b)' = Same(a, b) /\ Joined(a, b)' = Joined(a, b)
    BY DEF Same, Joined
  <1>4. \A list, e : Place(list, e)' = Place(list, e)
    BY <1>3 DEF Place, SelectInSeq
  <1>5. Added' = Added
    BY <1>3, <1>4 DEF Added
  <1>6. QED
    BY <1>1, <1>2, <1>5 DEF Merged

\* The search for an entry that is the same finds a place of the list or 0.
LEMMA SearchType ==
    ASSUME NEW list \in Seq(Entries), NEW e
    PROVE  Place(list, e) \in 0..Len(list)
  <1> DEFINE I == {i \in 1..Len(list) : Same(list[i], e)}
  <1>1. CASE I = {}
    BY <1>1 DEF Place, SelectInSeq
  <1>2. CASE I # {}
    <2>1. \E x \in I : \A y \in I : x <= y
      <3>1. I \in SUBSET Nat
        OBVIOUS
      <3> HIDE DEF I
      <3>2. QED
        BY <1>2, <3>1, LeastNumber
    <2>2. Min(I) \in I
      BY <2>1 DEF Min
    <2>3. QED
      BY <1>2, <2>2 DEF Place, SelectInSeq
  <1>3. QED
    BY <1>1, <1>2

\* Adding an entry to a list makes a list of entries,
LEMMA AddedType ==
    ASSUME NEW list \in Seq(Entries), NEW e \in Entries
    PROVE  Added[list][e] \in Seq(Entries)
  <1> DEFINE k == Place(list, e)
  <1>1. Added[list][e] = IF k = 0 THEN Append(list, e) ELSE [list EXCEPT ![k] = Joined(list[k], e)]
    BY DEF Added
  <1>2. k \in 0..Len(list)
    BY SearchType
  <1> HIDE DEF k
  <1>3. CASE k = 0
    BY <1>1, <1>3
  <1>4. CASE k # 0
    <2>1. k \in 1..Len(list) /\ list[k] \in Entries
      BY <1>2, <1>4
    <2>2. Joined(list[k], e) \in Entries
      <3>1. /\ list[k].count \in Nat /\ list[k].string \in Seq(DOMAIN Length)
            /\ e.count \in Nat /\ e.string \in Seq(DOMAIN Length)
        BY <2>1 DEF Entries
      <3>2. list[k].count + e.count \in Nat
        BY <3>1
      <3>3. list[k].string \o e.string \in Seq(DOMAIN Length)
        BY <3>1
      <3>4. QED
        BY <2>1, <3>2, <3>3 DEF Joined, Entries
    <2>3. QED
      BY <1>1, <1>4, <2>1, <2>2
  <1>5. QED
    BY <1>3, <1>4

\* and so does adding all entries of a sequence to an empty list.
LEMMA MergedType ==
    ASSUME NEW entries \in Seq(Entries)
    PROVE  Merged(entries) \in Seq(Entries)
  <1> DEFINE n == Len(entries)
             S == Seq(Entries)
             Adds(f) == f = [k \in 0..n |-> IF k = 0 THEN <<>> ELSE Added[f[k - 1]][entries[k]]]
             upto == CHOOSE f : Adds(f)
             step == [k \in Nat |-> [x \in S |-> IF k \in 1..n THEN Added[x][entries[k]] ELSE x]]
  <1>1. n \in Nat /\ \A k \in 1..n : entries[k] \in Entries
    OBVIOUS
  <1>2. step \in [Nat -> [S -> S]]
    <2>1. ASSUME NEW k \in Nat, NEW x \in S
          PROVE  (IF k \in 1..n THEN Added[x][entries[k]] ELSE x) \in S
      BY <1>1, AddedType
    <2>2. QED
      BY <2>1
  <1>3. <<>> \in S
    OBVIOUS
  <1>4. ASSUME NEW f
        PROVE  Recurs(f, n, <<>>, step) => Adds(f) /\ f \in [0..n -> S]
    <2> SUFFICES ASSUME Recurs(f, n, <<>>, step) PROVE Adds(f) /\ f \in [0..n -> S]
      OBVIOUS
    <2>1. f \in [0..n -> S]
      <3> HIDE DEF step, n, S
      <3>1. QED
        BY <1>1, <1>2, <1>3, RecursionType
    <2>2. ASSUME NEW k \in 0..n
          PROVE  f[k] = IF k = 0 THEN <<>> ELSE Added[f[k - 1]][entries[k]]
      <3>1. f[k] = IF k = 0 THEN <<>> ELSE step[k][f[k - 1]]
        <4> HIDE DEF step
        <4>1. QED
          BY DEF Recurs
      <3>2. k # 0 => k \in 1..n /\ k - 1 \in 0..n
        BY <1>1
      <3>3. k # 0 => f[k - 1] \in S
        BY <2>1, <3>2
      <3>4. k # 0 => step[k][f[k - 1]] = Added[f[k - 1]][entries[k]]
        BY <3>2, <3>3
      <3>5. QED
        BY <3>1, <3>4
    <2>3. f = [k \in 0..n |-> f[k]]
      BY <2>1
    <2>4. QED
      BY <2>1, <2>2, <2>3
  <1>5. ASSUME NEW f, Adds(f)
        PROVE  f \in [0..n -> S]
    <2>1. DOMAIN f = 0..n /\ \A k \in 0..n : f[k] = IF k = 0 THEN <<>> ELSE Added[f[k - 1]][entries[k]]
      BY <1>5
    <2> DEFINE Good == {k \in 0..n : f[k] \in S}
    <2>2. 0 \in Good
      BY <1>1, <2>1
    <2>3. ASSUME NEW k \in 0..(n - 1), k \in Good
          PROVE  k + 1 \in Good
      <3> DEFINE m == k + 1
      <3>1. m \in 1..n /\ m - 1 = k /\ m # 0
        BY <1>1
      <3> HIDE DEF m
      <3>2. f[m] = Added[f[k]][entries[m]] /\ f[k] \in S /\ entries[m] \in Entries
        BY <1>1, <2>1, <2>3, <3>1
      <3>3. f[m] \in S
        BY <3>2, AddedType
      <3>4. QED
        BY <3>1, <3>3 DEF m
    <2>4. 0..n \subseteq Good
      <3> HIDE DEF Good, n
      <3>1. QED
        BY <1>1, <2>2, <2>3, SetInduction
    <2>5. f = [k \in 0..n |-> f[k]]
      BY <1>5
    <2>6. QED
      BY <2>4, <2>5
  <1>6. \E f : Recurs(f, n, <<>>, step)
    <2> HIDE DEF step, n, S
    <2>1. QED
      BY <1>1, <1>2, <1>3, RecursionExists
  <1>7. Adds(upto)
    <2>1. \E f : Adds(f)
      <3> HIDE DEF Adds, step
      <3>1. QED
        BY <1>4, <1>6
    <2> HIDE DEF Adds
    <2>2. QED
      BY <2>1
  <1>8. upto \in [0..n -> S]
    <2> HIDE DEF upto
    <2>1. QED
      BY <1>5, <1>7
  <1>9. Merged(entries) = upto[n]
    BY DEF Merged
  <1>10. QED
    <2> HIDE DEF upto
    <2>1. QED
      BY <1>1, <1>8, <1>9

\* Sorting keeps the length: that of the reduced list is a number.
LEMMA ReducedLength ==
    ASSUME NEW entries \in Seq(Entries)
    PROVE  Len(Reduced(entries)) \in Nat
  <1>1. Merged(entries) \in Seq(Entries)
    BY MergedType
  <1> DEFINE list == Merged(entries)
  <1>2. CASE round = 2
    BY <1>1, <1>2 DEF Reduced
  <1>3. CASE round # 2
    <2>1. Reduced(entries) = bubbleSort[list]
      BY <1>3 DEF Reduced
    <2> HIDE DEF list
    <2>2. list \in Seq(Entries)
      BY <1>1 DEF list
    <2>3. DOMAIN bubbleSort[list] = DOMAIN list /\ \E g : bubbleSort[list] = [n \in DOMAIN list |-> g[n]]
      <3> DEFINE g == [n \in DOMAIN list |->
                          list[CHOOSE i \in DOMAIN list : Cardinality(Ahead(list, i)) = n - 1]]
      <3>1. bubbleSort[list] = g
        BY <2>2 DEF bubbleSort
      <3>2. g = [n \in DOMAIN list |-> g[n]]
        OBVIOUS
      <3>3. QED
        BY <3>1, <3>2
    <2>4. PICK g : bubbleSort[list] = [n \in DOMAIN list |-> g[n]]
      BY <2>3
    <2>5. DOMAIN list = 1..Len(list) /\ Len(list) \in Nat
      BY <2>2
    <2>6. Len(bubbleSort[list]) = Len(list)
      BY <2>4, <2>5
    <2>7. QED
      BY <2>1, <2>5, <2>6
  <1>4. QED
    BY <1>2, <1>3

\* The first round reads one entry for each word of the text.
LEMMA InputEntries ==
    ASSUME TypeOK, round = 1
    PROVE  Input \in Seq(Entries)
  <1>1. text \in Seq(DOMAIN Length)
    BY SizesAssumption DEF TypeOK
  <1>2. \A i \in DOMAIN text : <<text[i]>> \in Seq(DOMAIN Length)
    BY <1>1
  <1>3. \A i \in DOMAIN text : Entry(1, <<text[i]>>) \in Entries
    BY <1>2 DEF Entry, Count!Entry, Entries
  <1>4. Input = [i \in 1..Len(text) |-> Entry(1, <<text[i]>>)]
    BY <1>1 DEF Input
  <1>5. QED
    BY <1>1, <1>3, <1>4

\* What a round reads has a length.
LEMMA InputLength ==
    ASSUME TypeOK, RoundsOver, pc # "done"
    PROVE  /\ Len(Input) \in Nat /\ (round > 1 => Input = results[1])
           /\ chunks * MAXWORDS \in Nat /\ Rest = Len(Input) - chunks * MAXWORDS
  <1>1. round \in Rounds /\ chunks \in Nat /\ MAXWORDS \in Nat
    BY Sizes DEF TypeOK
  <1>2. chunks * MAXWORDS \in Nat
    BY <1>1
  <1>3. CASE round = 1
    BY <1>2, <1>3, InputEntries DEF Rest
  <1>4. CASE round > 1
    <2>1. Input = results[1] /\ Len(results[1]) \in Nat
      BY <1>4 DEF Input, RoundsOver
    <2>2. QED
      BY <1>2, <2>1 DEF Rest
  <1>5. QED
    BY <1>1, <1>3, <1>4 DEF Rounds

\* A chunk is a part of what the round reads.
LEMMA ChunkType ==
    ASSUME Input \in Seq(Entries), NEW i \in Nat
    PROVE  Chunk(i) \in Seq(Entries)
  <1> DEFINE from == i * MAXWORDS + 1
             end == (i + 1) * MAXWORDS
             to == IF end < Len(Input) THEN end ELSE Len(Input)
  <1>1. from \in Nat /\ from >= 1 /\ end \in Nat
    BY Sizes
  <1> HIDE DEF from, end
  <1>2. to \in Int /\ to <= Len(Input)
    BY <1>1
  <1> HIDE DEF to
  <1>3. SubSeq(Input, from, to) \in Seq(Entries)
    BY <1>1, <1>2
  <1>4. QED
    BY <1>3 DEF Chunk, from, to, end

-----------------------------------------------------------------------------
(* What the calls of the system do. *)

\* wait() takes one child that has ended away and leaves the others alone.
LEMMA WaitTakesOne ==
    ASSUME Wait, DOMAIN kids # {}
    PROVE  \E i \in DOMAIN kids : /\ kids[i] = "ended" /\ DOMAIN kids' = DOMAIN kids \ {i}
                                  /\ \A k \in DOMAIN kids \ {i} : kids'[k] = kids[k]
  <1>1. kids # <<>>
    <2>1. DOMAIN <<>> = {}
      OBVIOUS
    <2>2. QED
      BY <2>1
  <1>2. QED
    BY <1>1 DEF Wait

\* There is a new child, which has not done anything yet.
LEMMA ForkAddsOne ==
    ASSUME Fork
    PROVE  /\ DOMAIN kids' = DOMAIN kids \union {chunks} /\ kids'[chunks] = "running"
           /\ \A k \in DOMAIN kids \ {chunks} : kids'[k] = kids[k]
  BY DEF Fork, Extended

\* What Present says of the segments, whoever uses them.
KernelOK ==
    /\ DOMAIN kernel = Rounds
    /\ \A r \in Rounds : /\ DOMAIN kernel[r] \subseteq 0..(Keys - 1)
                         /\ kernel[r] = [key \in DOMAIN kernel[r] |-> kernel[r][key]]
                         /\ \A key \in DOMAIN kernel[r] : DOMAIN kernel[r][key] = {"size", "list"}
    /\ \A key \in DOMAIN kernel[1] : Len(kernel[1][key].list) \in Nat

\* The invariant says of the segments what the lemmas about them ask for.
LEMMA InvKernelOK ==
    ASSUME TypeOK, Present
    PROVE  KernelOK
  BY DEF TypeOK, Present, KernelOK

\* A segment is made for the key of the chunk unless there is one, and then it
\* may be refused; all that is in the segments stays there.
LEMMA SegmentAdded ==
    ASSUME KernelOK, round \in Rounds, chunks \in Nat, NEW words, addSharedMemory(words)
    PROVE  /\ KernelOK'
           /\ \A r \in Rounds : r # round => kernel'[r] = kernel[r]
           /\ DOMAIN kernel'[round] = DOMAIN Segments \union {Key(chunks)}
           /\ \A key \in DOMAIN Segments : kernel'[round][key] = Segments[key]
           /\ bad' = bad \/ (bad' = bad \union {chunks} /\ Key(chunks) \in DOMAIN Segments)
  <1> DEFINE key == Key(chunks)
             new == Extended(Segments, key, Segment(words, <<>>))
  <1>1. key \in 0..(Keys - 1)
    BY KeyType
  <1>2. /\ kernel' = IF key \in DOMAIN Segments THEN kernel ELSE [kernel EXCEPT ![round] = new]
        /\ bad' = bad \/ (bad' = bad \union {chunks} /\ key \in DOMAIN Segments)
    BY DEF addSharedMemory, Segments
  <1>3. CASE key \in DOMAIN Segments
    <2>1. kernel' = kernel
      BY <1>2, <1>3
    <2>2. QED
      BY <2>1, <1>2, <1>3 DEF KernelOK, Segments
  <1>4. CASE key \notin DOMAIN Segments
    <2>1. /\ new = [k \in DOMAIN new |-> new[k]] /\ DOMAIN new = DOMAIN Segments \union {key}
          /\ \A k \in DOMAIN Segments : new[k] = Segments[k]
          /\ new[key] = [size |-> words, list |-> <<>>]
      BY <1>4 DEF Extended, Segment
    <2> HIDE DEF new, key
    <2>2. /\ DOMAIN kernel' = Rounds /\ kernel'[round] = new
          /\ \A r \in Rounds : r # round => kernel'[r] = kernel[r]
      BY <1>2, <1>4 DEF KernelOK
    <2>3. Len(new[key].list) \in Nat /\ DOMAIN new[key] = {"size", "list"}
      BY <2>1
    <2>4. \A k \in DOMAIN new : k # key => k \in DOMAIN Segments
      BY <2>1
    <2>5. KernelOK'
      <3>1. \A r \in Rounds : DOMAIN kernel'[r] \subseteq 0..(Keys - 1)
        BY <1>1, <2>1, <2>2 DEF KernelOK, Segments
      <3>2. \A r \in Rounds : kernel'[r] = [k \in DOMAIN kernel'[r] |-> kernel'[r][k]]
        BY <2>1, <2>2 DEF KernelOK
      <3>3. \A r \in Rounds : \A k \in DOMAIN kernel'[r] : DOMAIN kernel'[r][k] = {"size", "list"}
        BY <2>1, <2>2, <2>3, <2>4 DEF KernelOK, Segments
      <3>4. \A k \in DOMAIN kernel'[1] : Len(kernel'[1][k].list) \in Nat
        BY <2>1, <2>2, <2>3, <2>4 DEF KernelOK, Segments, Rounds
      <3>5. QED
        BY <2>2, <3>1, <3>2, <3>3, <3>4 DEF KernelOK
    <2>6. QED
      BY <1>2, <1>4, <2>1, <2>2, <2>5 DEF key
  <1>5. QED
    BY <1>3, <1>4

\* A child writes its list, and no other, unless it has no memory.
LEMMA ListWritten ==
    ASSUME KernelOK, round \in Rounds, NEW i \in Nat, i \notin bad, Key(i) \in DOMAIN Segments,
           NEW list, round = 1 => Len(list) \in Nat, kernel' = shmWrite(i, list)
    PROVE  /\ KernelOK'
           /\ \A r \in Rounds : DOMAIN kernel'[r] = DOMAIN kernel[r]
           /\ \A key \in DOMAIN Segments : kernel'[round][key].list = IF key = Key(i) THEN list ELSE Segments[key].list
  <1> DEFINE new == [Segments[Key(i)] EXCEPT !.list = list]
             there == [Segments EXCEPT ![Key(i)] = new]
  <1>1. kernel' = [kernel EXCEPT ![round] = there]
    BY DEF shmWrite, Segments
  <1>2. new.list = list /\ DOMAIN new = {"size", "list"}
    BY DEF KernelOK, Segments
  <1> HIDE DEF new
  <1>3. /\ DOMAIN there = DOMAIN Segments /\ there[Key(i)] = new
        /\ \A key \in DOMAIN Segments : key # Key(i) => there[key] = Segments[key]
        /\ there = [key \in DOMAIN there |-> there[key]]
    OBVIOUS
  <1> HIDE DEF there
  <1>4. /\ DOMAIN kernel' = Rounds /\ kernel'[round] = there
        /\ \A r \in Rounds : r # round => kernel'[r] = kernel[r]
    BY <1>1 DEF KernelOK
  <1>5. \A r \in Rounds : DOMAIN kernel'[r] = DOMAIN kernel[r]
    BY <1>3, <1>4 DEF Segments
  <1>6. \A key \in DOMAIN Segments : kernel'[round][key].list = IF key = Key(i) THEN list ELSE Segments[key].list
    BY <1>2, <1>3, <1>4
  <1>7. KernelOK'
    <2>1. \A r \in Rounds : DOMAIN kernel'[r] \subseteq 0..(Keys - 1)
      BY <1>5 DEF KernelOK
    <2>2. \A r \in Rounds : kernel'[r] = [k \in DOMAIN kernel'[r] |-> kernel'[r][k]]
      BY <1>3, <1>4 DEF KernelOK
    <2>3. \A r \in Rounds : \A k \in DOMAIN kernel'[r] : DOMAIN kernel'[r][k] = {"size", "list"}
      BY <1>2, <1>3, <1>4 DEF KernelOK, Segments
    <2>4. \A k \in DOMAIN kernel'[1] : Len(kernel'[1][k].list) \in Nat
      <3>1. CASE round = 1
        BY <3>1, <1>5, <1>6 DEF KernelOK, Segments, Rounds
      <3>2. CASE round # 1
        BY <3>2, <1>4 DEF KernelOK, Rounds
      <3>3. QED
        BY <3>1, <3>2
    <2>5. QED
      BY <1>4, <2>1, <2>2, <2>3, <2>4 DEF KernelOK
  <1>8. QED
    BY <1>5, <1>6, <1>7

\* A release takes the segments of n chunks away, but for the refused ones.
LEMMA SegmentsGone ==
    ASSUME KernelOK, round \in Rounds, NEW n, kernel' = Released(n)
    PROVE  /\ KernelOK'
           /\ \A r \in Rounds : r # round => kernel'[r] = kernel[r]
           /\ DOMAIN kernel'[round] = DOMAIN Segments \ {Key(i) : i \in 0..(n - 1) \ bad}
  <1> DEFINE gone == {Key(i) : i \in 0..(n - 1) \ bad}
             left == [key \in DOMAIN Segments \ gone |-> Segments[key]]
  <1>1. kernel' = [kernel EXCEPT ![round] = left]
    BY DEF Released, Segments
  <1> HIDE DEF gone
  <1>2. /\ DOMAIN left = DOMAIN Segments \ gone /\ \A key \in DOMAIN left : left[key] = Segments[key]
        /\ left = [key \in DOMAIN left |-> left[key]]
    OBVIOUS
  <1> HIDE DEF left
  <1>3. /\ DOMAIN kernel' = Rounds /\ kernel'[round] = left
        /\ \A r \in Rounds : r # round => kernel'[r] = kernel[r]
    BY <1>1 DEF KernelOK
  <1>4. KernelOK'
    <2>1. \A r \in Rounds : DOMAIN kernel'[r] \subseteq DOMAIN kernel[r]
      BY <1>2, <1>3 DEF Segments
    <2>2. \A r \in Rounds : \A key \in DOMAIN kernel'[r] : kernel'[r][key] = kernel[r][key]
      BY <1>2, <1>3 DEF Segments
    <2>3. \A r \in Rounds : kernel'[r] = [k \in DOMAIN kernel'[r] |-> kernel'[r][k]]
      BY <1>2, <1>3 DEF KernelOK
    <2>4. QED
      BY <1>3, <2>1, <2>2, <2>3 DEF KernelOK, Rounds
  <1>5. QED
    BY <1>2, <1>3, <1>4 DEF gone

\* The children are finitely many.
LEMMA KidsFinite ==
    ASSUME TypeOK
    PROVE  IsFiniteSet(DOMAIN kids) /\ Cardinality(DOMAIN kids) \in Nat
  <1>1. chunks \in Nat /\ DOMAIN kids \subseteq 0..chunks
    BY DEF TypeOK
  <1>2. IsFiniteSet(0..chunks)
    BY <1>1, FS_Interval
  <1>3. IsFiniteSet(DOMAIN kids)
    BY <1>1, <1>2, FS_Subset
  <1>4. QED
    BY <1>3, FS_CardinalityType

-----------------------------------------------------------------------------
(* The initial states. *)

\* The invariant holds when the program starts.
LEMMA InitIInv == Init => IInv
  <1> SUFFICES ASSUME Init PROVE IInv
    OBVIOUS
  <1>1. DOMAIN <<>> = {} /\ Len(<<>>) = 0 /\ <<>> = [r \in 1..0 |-> <<>>[r]] /\ Cardinality({}) = 0
    BY FS_EmptySet
  <1>2. /\ text \in Texts /\ version \in Versions /\ pc = "map" /\ round = 1 /\ chunks = 0 /\ childs = 0
        /\ kids = <<>> /\ bad = {} /\ lists = <<>> /\ capacity = 1 /\ room = FirstRoom(version) /\ results = <<>>
        /\ kernel = [r \in Rounds |-> <<>>] /\ unclean = FALSE
    BY DEF Init
  <1>3. runs \in 1..MaxRuns
    BY SizesAssumption DEF Init
  <1>4. TypeOK
    BY <1>1, <1>2, <1>3 DEF TypeOK, Rounds, FirstRoom
  <1>5. KidsInPhase /\ Counted
    BY <1>1, <1>2, Sizes DEF KidsInPhase, Counted
  <1>6. RoundsOver /\ Sized
    <2>1. RoundsOver
      BY <1>1, <1>2 DEF RoundsOver
    <2>2. Rest = Len(Input) - chunks * MAXWORDS /\ Len(Input) \in Nat
      BY <1>2, <1>4, <2>1, InputLength
    <2>3. Rest >= 0
      BY <1>2, <2>2, Sizes
    <2>4. QED
      BY <1>1, <1>2, <2>1, <2>3 DEF Sized, FirstRoom
  <1>7. Present /\ Written /\ Clean
    BY <1>1, <1>2 DEF Present, Written, Clean, Segments, Rounds, Made
  <1>8. QED
    BY <1>4, <1>5, <1>6, <1>7 DEF IInv

-----------------------------------------------------------------------------
(* The steps of the parent that fork a child. *)

\* A new child has its segment and has not written: what the others have
\* written stays as it is.
LEMMA ForkKeepsLists ==
    ASSUME IInv, version = "fork", pc \notin {"reduce", "done"}, DOMAIN kids \subseteq 0..(chunks - 1),
           Fork, NEW words, addSharedMemory(words),
           UNCHANGED <<text, version, round, results, unclean>>,
           \/ chunks' = chunks + 1 /\ pc' \in {"map", "slot", "last"}
           \/ chunks' = chunks /\ pc' = "reduce"
    PROVE  /\ Present' /\ Written' /\ Clean'
           /\ DOMAIN kids' = DOMAIN kids \union {chunks} /\ kids'[chunks] = "running"
           /\ DOMAIN kids' \subseteq 0..chunks /\ \A i \in DOMAIN kids' : kids'[i] \in {"running", "ended"}
           /\ bad' \subseteq 0..chunks /\ KernelOK'
  <1>1. /\ TypeOK /\ Present /\ Written /\ Clean /\ KidsInPhase
        /\ chunks \in Nat /\ round \in Rounds /\ bad \subseteq 0..(chunks - 1)
    BY DEF IInv, TypeOK, KidsInPhase
  <1>2. /\ KernelOK'
        /\ \A r \in Rounds : r # round => kernel'[r] = kernel[r]
        /\ DOMAIN kernel'[round] = DOMAIN Segments \union {Key(chunks)}
        /\ \A key \in DOMAIN Segments : kernel'[round][key] = Segments[key]
        /\ bad' = bad \/ (bad' = bad \union {chunks} /\ Key(chunks) \in DOMAIN Segments)
    <2>1. KernelOK
      BY <1>1, InvKernelOK
    <2>2. QED
      BY <1>1, <2>1, SegmentAdded
  <1>3. /\ DOMAIN kids' = DOMAIN kids \union {chunks} /\ kids'[chunks] = "running"
        /\ \A k \in DOMAIN kids \ {chunks} : kids'[k] = kids[k]
    BY ForkAddsOne
  <1>4. Segments' = kernel'[round]
    BY DEF Segments
  <1>5. Present'
    <2>1. \A i \in 0..chunks : Key(i) \in DOMAIN Segments'
      BY <1>1, <1>2, <1>4 DEF Present
    <2>2. chunks' = chunks \/ chunks' = chunks + 1
      OBVIOUS
    <2>3. \A i \in 0..(chunks' - 1) : Key(i) \in DOMAIN Segments'
      <3>1. chunks \in Nat
        BY <1>1
      <3>2. \A i \in 0..(chunks' - 1) : i \in 0..chunks
        <4>1. CASE chunks' = chunks
          BY ONLY <3>1, <4>1
        <4>2. CASE chunks' = chunks + 1
          BY ONLY <3>1, <4>2
        <4>3. QED
          BY <2>2, <4>1, <4>2
      <3>3. QED
        BY <2>1, <3>2
    <2>4. pc' = "reduce" => Key(chunks') \in DOMAIN Segments'
      BY <1>1, <2>1
    <2>5. QED
      BY <1>2, <2>3, <2>4 DEF Present, KernelOK, Key
  <1>6. Written'
    <2> SUFFICES ASSUME NEW i \in 0..(chunks' - 1), HasWritten(i)'
                 PROVE  /\ chunks' < Keys => Segments'[Key(i)].list = Merged(Chunk(i))'
                        /\ (round' = 1 /\ ~ (pc' = "reduce" /\ kids'[chunks'] = "ended")) =>
                               Segments'[Key(i)].list \in Seq(Entries)
      BY DEF Written, Key, Entries
    <2>1. i # chunks
      BY <1>1, <1>3 DEF HasWritten
    <2>2. i \in 0..(chunks - 1) /\ chunks <= chunks'
      BY <1>1, <2>1
    <2>3. HasWritten(i)
      BY <1>2, <1>3, <2>1 DEF HasWritten
    <2>4. Segments'[Key(i)] = Segments[Key(i)]
      BY <1>1, <1>2, <1>4, <2>2 DEF Present
    <2>5. Merged(Chunk(i))' = Merged(Chunk(i))
      BY SameInput
    <2>6. /\ chunks < Keys => Segments[Key(i)].list = Merged(Chunk(i))
          /\ round = 1 => Segments[Key(i)].list \in Seq(Entries)
      BY <1>1, <2>2, <2>3 DEF Written
    <2>7. chunks' < Keys => chunks < Keys
      BY <1>1, <2>2, Sizes
    <2>8. QED
      BY <2>4, <2>5, <2>6, <2>7
  <1>7. Clean'
    <2> SUFFICES ASSUME ~ unclean PROVE Clean'
      BY DEF Clean
    <2>1. \A r \in Rounds : r > round' => DOMAIN kernel'[r] = {}
      BY <1>1, <1>2 DEF Clean, Rounds
    <2>2. text' # <<>> => \A r \in Rounds : (pc' = "done" \/ r < round') => DOMAIN kernel'[r] = {}
      BY <1>1, <1>2 DEF Clean, Rounds
    <2>3. Made' = 0..chunks /\ Made = 0..(chunks - 1)
      BY <1>1 DEF Made
    <2>4. DOMAIN Segments \subseteq {Key(i) : i \in Made \ bad}
      BY <1>1 DEF Clean
    <2>5. DOMAIN Segments' \subseteq {Key(i) : i \in Made' \ bad'}
      <3> SUFFICES ASSUME NEW key \in DOMAIN Segments'
                   PROVE  \E i \in Made' \ bad' : key = Key(i)
        OBVIOUS
      <3>1. CASE key \in DOMAIN Segments
        <4>1. PICK i \in Made \ bad : key = Key(i)
          BY <2>4, <3>1
        <4>2. i \in Made' \ bad'
          BY <1>1, <1>2, <2>3, <4>1
        <4>3. QED
          BY <4>1, <4>2
      <3>2. CASE key \notin DOMAIN Segments
        <4>1. key = Key(chunks) /\ bad' = bad
          BY <1>2, <1>4, <3>2
        <4>2. chunks \in Made' \ bad'
          BY <1>1, <2>3, <4>1
        <4>3. QED
          BY <4>1, <4>2
      <3>3. QED
        BY <3>1, <3>2
    <2>6. QED
      BY <2>1, <2>2, <2>5 DEF Clean, Key
  <1>8. \A i \in DOMAIN kids' : kids'[i] \in {"running", "ended"}
    BY <1>1, <1>3 DEF TypeOK
  <1>9. DOMAIN kids' \subseteq 0..chunks /\ bad' \subseteq 0..chunks
    <2>1. \A i \in 0..(chunks - 1) : i \in 0..chunks
      BY <1>1
    <2>2. chunks \in 0..chunks
      BY <1>1
    <2>3. QED
      BY <1>1, <1>2, <1>3, <2>1, <2>2
  <1>10. QED
    BY <1>2, <1>3, <1>5, <1>6, <1>7, <1>8, <1>9

\* The chunks of n words are at most n over MAXWORDS.
LEMMA ChunksFit ==
    ASSUME NEW n \in Nat, NEW k \in Nat
    PROVE  /\ n \div MAXWORDS \in Nat /\ (k + 1) * MAXWORDS = k * MAXWORDS + MAXWORDS
           /\ k * MAXWORDS \in Nat
           /\ k * MAXWORDS <= n => k <= n \div MAXWORDS
  BY Sizes

\* A full chunk can be taken away from what is left.
LEMMA OneChunkLess ==
    ASSUME TypeOK, RoundsOver, pc # "done", UNCHANGED <<text, round, results>>,
           chunks' = chunks + 1, Rest >= MAXWORDS
    PROVE  Rest' >= 0
  <1>1. Rest = Len(Input) - chunks * MAXWORDS /\ Len(Input) \in Nat /\ chunks \in Nat
    BY InputLength DEF TypeOK
  <1>2. Rest' = Len(Input) - (chunks + 1) * MAXWORDS
    BY SameInput DEF Rest
  <1>3. (chunks + 1) * MAXWORDS = chunks * MAXWORDS + MAXWORDS /\ chunks * MAXWORDS \in Nat
    BY <1>1, ChunksFit
  <1>4. QED
    BY <1>1, <1>2, <1>3, Sizes

\* identifiers has room for the segment of another chunk.
LEMMA RoomForOne ==
    ASSUME IInv, version = "fork", pc # "done", Grow, Rest > 0
    PROVE  /\ capacity' \in Nat /\ capacity' > 0 /\ chunks + 1 <= capacity' /\ room' \in Nat
           /\ round > 1 => capacity' = capacity /\ chunks + 2 <= capacity
           /\ room' = 2 * capacity' \/ (round = 1 /\ capacity' = 1 /\ room' = 1)
  <1>1. /\ TypeOK /\ Sized /\ RoundsOver /\ chunks \in Nat /\ capacity \in Nat /\ capacity > 0
        /\ chunks <= capacity /\ round \in Rounds /\ room \in Nat
        /\ room = 2 * capacity \/ (round = 1 /\ capacity = 1 /\ room = 1)
    BY DEF IInv, TypeOK, Sized
  <1>2. CASE round = 1
    BY <1>1, <1>2 DEF Grow, Doubled
  <1>3. CASE round > 1
    <2> DEFINE n == Len(results[1])
    <2>1. n \in Nat /\ Rest = n - chunks * MAXWORDS /\ chunks * MAXWORDS \in Nat
      BY <1>1, <1>3, InputLength
    <2>2. capacity' = capacity /\ room' = room /\ capacity = n \div MAXWORDS + 2
      BY <1>1, <1>3 DEF Grow, Sized
    <2> HIDE DEF n
    <2>3. chunks <= n \div MAXWORDS /\ n \div MAXWORDS \in Nat
      BY <1>1, <2>1, ChunksFit
    <2>4. QED
      BY <1>1, <2>2, <2>3
  <1>4. QED
    BY <1>1, <1>2, <1>3 DEF Rounds

\* A full chunk goes to a child when there are fewer than MAXCHILDS.
LEMMA ForkMapIInv ==
    ASSUME IInv, ForkMap
    PROVE  IInv'
  <1>1. /\ TypeOK /\ KidsInPhase /\ Counted /\ RoundsOver /\ Sized
        /\ version = "fork" /\ pc = "map" /\ Rest >= MAXWORDS
        /\ chunks' = chunks + 1 /\ childs' = childs + 1
        /\ pc' = (IF childs + 1 = MAXCHILDS THEN "slot" ELSE "map")
        /\ UNCHANGED <<text, version, round, lists, results, runs, unclean>>
        /\ Grow /\ addSharedMemory(MAXWORDS) /\ Fork
    BY DEF IInv, ForkMap, AllSlotsTaken, history
  <1>2. chunks \in Nat /\ childs \in Nat /\ DOMAIN kids \subseteq 0..(chunks - 1)
    BY <1>1 DEF TypeOK, KidsInPhase
  <1>3. /\ Present' /\ Written' /\ Clean'
        /\ DOMAIN kids' = DOMAIN kids \union {chunks}
        /\ DOMAIN kids' \subseteq 0..chunks /\ \A i \in DOMAIN kids' : kids'[i] \in {"running", "ended"}
        /\ bad' \subseteq 0..chunks /\ KernelOK'
    BY <1>1, <1>2, ForkKeepsLists
  <1>4. /\ capacity' \in Nat /\ capacity' > 0 /\ chunks + 1 <= capacity' /\ room' \in Nat
        /\ round > 1 => capacity' = capacity /\ chunks + 2 <= capacity
        /\ room' = 2 * capacity' \/ (round = 1 /\ capacity' = 1 /\ room' = 1)
    <2>1. Rest > 0
      BY <1>1, Sizes, InputLength
    <2>2. QED
      BY <1>1, <2>1, RoomForOne
  <1>5. Cardinality(DOMAIN kids') = childs + 1 /\ childs < MAXCHILDS
    <2>1. IsFiniteSet(DOMAIN kids) /\ childs = Cardinality(DOMAIN kids) /\ childs < MAXCHILDS
      BY <1>1, KidsFinite DEF Counted
    <2>2. chunks \notin DOMAIN kids
      BY <1>2
    <2>3. QED
      BY <1>3, <2>1, <2>2, FS_AddElement
  <1>6. TypeOK'
    <2>1. \A i \in 0..chunks : i \in 0..(chunks + 1)
      BY <1>2
    <2>2. DOMAIN kids' \subseteq 0..chunks' /\ bad' \subseteq 0..chunks'
      BY <1>1, <1>3, <2>1
    <2>3. chunks' \in Nat /\ childs' \in Nat
      BY <1>1, <1>2
    <2>4. QED
      BY <1>1, <1>3, <1>4, <2>2, <2>3 DEF TypeOK, KernelOK
  <1>7. KidsInPhase'
    <2>1. chunks' - 1 = chunks
      BY <1>1, <1>2
    <2>2. QED
      BY <1>1, <1>3, <2>1 DEF KidsInPhase
  <1>8. Counted'
    BY <1>1, <1>2, <1>5, Sizes DEF Counted
  <1>9. RoundsOver' /\ Sized'
    <2>1. Rest' >= 0
      BY <1>1, <1>2, OneChunkLess
    <2>2. QED
      BY <1>1, <1>2, <1>4, <2>1 DEF RoundsOver, Sized
  <1>10. QED
    BY <1>3, <1>6, <1>7, <1>8, <1>9 DEF IInv

\* The last chunk goes to a child when there is no other.
LEMMA ForkLastIInv ==
    ASSUME IInv, ForkLast
    PROVE  IInv'
  <1>1. /\ TypeOK /\ KidsInPhase /\ RoundsOver /\ Sized
        /\ version = "fork" /\ pc = "map" /\ Rest > 0 /\ kids = <<>>
        /\ chunks' = chunks + 1 /\ pc' = "last"
        /\ UNCHANGED <<text, version, round, childs, lists, results, runs, unclean>>
        /\ Grow /\ addSharedMemory(Rest) /\ Fork
    BY DEF IInv, ForkLast, Full, Drained, history
  <1>2. chunks \in Nat /\ childs \in Nat /\ DOMAIN kids = {}
    BY <1>1 DEF TypeOK
  <1>3. /\ Present' /\ Written' /\ Clean'
        /\ DOMAIN kids' = DOMAIN kids \union {chunks}
        /\ DOMAIN kids' \subseteq 0..chunks /\ \A i \in DOMAIN kids' : kids'[i] \in {"running", "ended"}
        /\ bad' \subseteq 0..chunks /\ KernelOK'
    <2>1. DOMAIN kids \subseteq 0..(chunks - 1)
      BY <1>2
    <2>2. QED
      BY <1>1, <2>1, ForkKeepsLists
  <1>4. /\ capacity' \in Nat /\ capacity' > 0 /\ chunks + 1 <= capacity' /\ room' \in Nat
        /\ round > 1 => capacity' = capacity /\ chunks + 2 <= capacity
        /\ room' = 2 * capacity' \/ (round = 1 /\ capacity' = 1 /\ room' = 1)
    BY <1>1, RoomForOne
  <1>5. DOMAIN kids' = {chunks} /\ Cardinality(DOMAIN kids') = 1
    BY <1>2, <1>3, FS_Singleton
  <1>6. TypeOK'
    <2>1. \A i \in 0..chunks : i \in 0..(chunks + 1)
      BY <1>2
    <2>2. DOMAIN kids' \subseteq 0..chunks' /\ bad' \subseteq 0..chunks'
      BY <1>1, <1>3, <2>1
    <2>3. chunks' \in Nat
      BY <1>1, <1>2
    <2>4. QED
      BY <1>1, <1>3, <1>4, <2>2, <2>3 DEF TypeOK, KernelOK
  <1>7. KidsInPhase'
    <2>1. chunks' - 1 = chunks /\ chunks' > 0
      BY <1>1, <1>2
    <2>2. QED
      BY <1>1, <1>3, <1>5, <2>1 DEF KidsInPhase
  <1>8. Counted'
    BY <1>1, <1>5, Sizes DEF Counted
  <1>9. RoundsOver' /\ Sized'
    BY <1>1, <1>2, <1>4 DEF RoundsOver, Sized
  <1>10. QED
    BY <1>3, <1>6, <1>7, <1>8, <1>9 DEF IInv

\* The child that reduces is the only one.
LEMMA ForkReduceIInv ==
    ASSUME IInv, ForkReduce
    PROVE  IInv'
  <1>1. /\ TypeOK /\ KidsInPhase /\ RoundsOver /\ Sized
        /\ version = "fork" /\ pc \in {"map", "mapped"} /\ kids = <<>> /\ pc' = "reduce"
        /\ UNCHANGED <<text, version, round, chunks, childs, lists, capacity, room, results, runs, unclean>>
        /\ addSharedMemory(MAXWORDS * chunks) /\ Fork
    BY DEF IInv, ForkReduce, Mapped, Drained, history, arrays
  <1>2. chunks \in Nat /\ DOMAIN kids = {}
    BY <1>1 DEF TypeOK
  <1>3. /\ Present' /\ Written' /\ Clean'
        /\ DOMAIN kids' = DOMAIN kids \union {chunks}
        /\ DOMAIN kids' \subseteq 0..chunks /\ \A i \in DOMAIN kids' : kids'[i] \in {"running", "ended"}
        /\ bad' \subseteq 0..chunks /\ KernelOK'
    <2>1. DOMAIN kids \subseteq 0..(chunks - 1)
      BY <1>2
    <2>2. QED
      BY <1>1, <2>1, ForkKeepsLists
  <1>4. DOMAIN kids' = {chunks} /\ Cardinality(DOMAIN kids') = 1
    BY <1>2, <1>3, FS_Singleton
  <1>5. TypeOK'
    BY <1>1, <1>3 DEF TypeOK, KernelOK
  <1>6. KidsInPhase' /\ Counted'
    BY <1>1, <1>4, Sizes DEF KidsInPhase, Counted
  <1>7. RoundsOver' /\ Sized'
    BY <1>1 DEF RoundsOver, Sized
  <1>8. QED
    BY <1>3, <1>5, <1>6, <1>7 DEF IInv

-----------------------------------------------------------------------------
(* The steps of the parent that wait for a child. *)

\* What was written stays written when a child that has ended is taken away.
LEMMA WaitKeepsLists ==
    ASSUME IInv, Wait, DOMAIN kids # {}, pc \notin {"reduce", "done"}, pc' \notin {"reduce", "done"},
           UNCHANGED <<text, version, round, chunks, bad, kernel, results, unclean>>
    PROVE  /\ Present' /\ Written' /\ Clean'
           /\ DOMAIN kids' \subseteq DOMAIN kids
           /\ \A i \in DOMAIN kids' : kids'[i] \in {"running", "ended"}
           /\ Cardinality(DOMAIN kids') = Cardinality(DOMAIN kids) - 1
  <1>1. TypeOK /\ Present /\ Written /\ Clean
    BY DEF IInv
  <1>2. PICK taken \in DOMAIN kids : /\ kids[taken] = "ended" /\ DOMAIN kids' = DOMAIN kids \ {taken}
                                     /\ \A k \in DOMAIN kids \ {taken} : kids'[k] = kids[k]
    BY WaitTakesOne
  <1>3. Segments' = Segments
    BY DEF Segments
  <1>4. Present'
    BY <1>1, <1>3 DEF Present, Key
  <1>5. Written'
    <2> SUFFICES ASSUME version = "fork", NEW i \in 0..(chunks - 1), HasWritten(i)'
                 PROVE  /\ chunks < Keys => Segments[Key(i)].list = Merged(Chunk(i))'
                        /\ round = 1 => Segments[Key(i)].list \in Seq(Entries)
      BY <1>3 DEF Written, Key, Entries
    <2>1. HasWritten(i)
      BY <1>2 DEF HasWritten
    <2>2. Merged(Chunk(i))' = Merged(Chunk(i))
      BY SameInput
    <2>3. QED
      BY <1>1, <2>1, <2>2 DEF Written
  <1>6. Clean'
    BY <1>1, <1>3 DEF Clean, Made, Key
  <1>7. Cardinality(DOMAIN kids') = Cardinality(DOMAIN kids) - 1
    BY <1>1, <1>2, KidsFinite, FS_RemoveElement
  <1>8. \A i \in DOMAIN kids' : kids'[i] \in {"running", "ended"}
    BY <1>1, <1>2 DEF TypeOK
  <1>9. QED
    BY <1>2, <1>4, <1>5, <1>6, <1>7, <1>8

\* One of MAXCHILDS children has ended.
LEMMA WaitSlotIInv ==
    ASSUME IInv, WaitSlot
    PROVE  IInv'
  <1>1. /\ TypeOK /\ KidsInPhase /\ Counted /\ RoundsOver /\ Sized
        /\ pc = "slot" /\ Wait /\ childs' = childs - 1 /\ pc' = "map"
        /\ UNCHANGED <<text, version, round, chunks, bad, kernel, lists, capacity, room, results, runs, unclean>>
    BY DEF IInv, WaitSlot, memory, arrays, history
  <1>2. childs = Cardinality(DOMAIN kids) /\ childs = MAXCHILDS /\ childs > 0 /\ childs \in Nat
    BY <1>1, Sizes DEF Counted
  <1>3. DOMAIN kids # {}
    BY <1>2, FS_EmptySet
  <1>4. /\ Present' /\ Written' /\ Clean'
        /\ DOMAIN kids' \subseteq DOMAIN kids
        /\ \A i \in DOMAIN kids' : kids'[i] \in {"running", "ended"}
        /\ Cardinality(DOMAIN kids') = Cardinality(DOMAIN kids) - 1
    BY <1>1, <1>3, WaitKeepsLists
  <1>5. TypeOK'
    BY <1>1, <1>2, <1>4 DEF TypeOK
  <1>6. KidsInPhase'
    BY <1>1, <1>4 DEF KidsInPhase
  <1>7. Counted'
    BY <1>1, <1>2, <1>4 DEF Counted
  <1>8. RoundsOver' /\ Sized'
    <2>1. version = "fork"
      BY <1>1, SizesAssumption DEF KidsInPhase, TypeOK
    <2>2. Rest' = Rest
      BY <1>1, SameInput DEF Rest
    <2>3. QED
      BY <1>1, <2>1, <2>2 DEF RoundsOver, Sized
  <1>9. QED
    BY <1>4, <1>5, <1>6, <1>7, <1>8 DEF IInv

\* No full chunk is left; the parent waits for every child.
LEMMA WaitAllIInv ==
    ASSUME IInv, WaitAll
    PROVE  IInv'
  <1>1. /\ TypeOK /\ KidsInPhase /\ Counted /\ RoundsOver /\ Sized
        /\ version = "fork" /\ pc = "map" /\ Rest < MAXWORDS /\ kids # <<>> /\ Wait
        /\ UNCHANGED <<text, version, pc, round, chunks, childs, bad, kernel, lists, capacity, room, results,
                       runs, unclean>>
    BY DEF IInv, WaitAll, Full, memory, arrays, history
  <1>2. DOMAIN kids # {}
    BY <1>1 DEF Wait
  <1>3. /\ Present' /\ Written' /\ Clean'
        /\ DOMAIN kids' \subseteq DOMAIN kids
        /\ \A i \in DOMAIN kids' : kids'[i] \in {"running", "ended"}
        /\ Cardinality(DOMAIN kids') = Cardinality(DOMAIN kids) - 1
    BY <1>1, <1>2, WaitKeepsLists
  <1>4. Rest' = Rest /\ Rest \in Int
    BY <1>1, SameInput, InputLength DEF Rest
  <1>5. TypeOK'
    BY <1>1, <1>3 DEF TypeOK
  <1>6. KidsInPhase'
    BY <1>1, <1>3 DEF KidsInPhase
  <1>7. Counted'
    <2>1. Cardinality(DOMAIN kids) \in Nat
      BY <1>1, KidsFinite
    <2>2. ~ (Rest' >= MAXWORDS)
      BY <1>1, <1>4, Sizes
    <2>3. QED
      BY <1>1, <1>3, <2>1, <2>2, Sizes DEF Counted
  <1>8. RoundsOver' /\ Sized'
    BY <1>1, <1>4 DEF RoundsOver, Sized
  <1>9. QED
    BY <1>3, <1>5, <1>6, <1>7, <1>8 DEF IInv

\* The last child has ended.
LEMMA WaitLastIInv ==
    ASSUME IInv, WaitLast
    PROVE  IInv'
  <1>1. /\ TypeOK /\ KidsInPhase /\ Counted /\ RoundsOver /\ Sized
        /\ pc = "last" /\ pc' = "mapped" /\ Wait
        /\ UNCHANGED <<text, version, round, chunks, childs, bad, kernel, lists, capacity, room, results,
                       runs, unclean>>
    BY DEF IInv, WaitLast, memory, arrays, history
  <1>2. DOMAIN kids = {chunks - 1} /\ version = "fork"
    BY <1>1, SizesAssumption DEF KidsInPhase, TypeOK
  <1>3. /\ Present' /\ Written' /\ Clean'
        /\ Cardinality(DOMAIN kids') = Cardinality(DOMAIN kids) - 1
    BY <1>1, <1>2, WaitKeepsLists
  <1>4. DOMAIN kids' = {}
    BY <1>1, <1>2, WaitTakesOne
  <1>5. TypeOK'
    BY <1>1, <1>4 DEF TypeOK
  <1>6. KidsInPhase' /\ Counted'
    BY <1>1, <1>2, <1>4, Sizes, FS_EmptySet DEF KidsInPhase, Counted
  <1>7. RoundsOver' /\ Sized'
    BY <1>1, <1>2 DEF RoundsOver, Sized
  <1>8. QED
    BY <1>3, <1>5, <1>6, <1>7 DEF IInv

-----------------------------------------------------------------------------
(* The steps of the children. *)

\* What a child changes besides the segments: it has ended.
LEMMA ChildEnds ==
    ASSUME IInv, NEW i \in DOMAIN kids, kids' = [kids EXCEPT ![i] = "ended"], KernelOK',
           \A r \in Rounds : DOMAIN kernel'[r] = DOMAIN kernel[r],
           UNCHANGED <<text, version, pc, round, chunks, childs, bad, lists, capacity, room, results, runs, unclean>>
    PROVE  /\ version = "fork" /\ pc # "done" /\ DOMAIN kids' = DOMAIN kids
           /\ Written' => IInv'
  <1>1. /\ TypeOK /\ KidsInPhase /\ Counted /\ RoundsOver /\ Sized /\ Present /\ Clean
    BY DEF IInv
  <1>2. /\ DOMAIN kids' = DOMAIN kids /\ \A k \in DOMAIN kids : kids'[k] \in {kids[k], "ended"}
    OBVIOUS
  <1>3. version = "fork" /\ pc # "done" /\ round \in Rounds
    BY <1>1, SizesAssumption DEF KidsInPhase, TypeOK
  <1>4. Rest' = Rest /\ DOMAIN Segments' = DOMAIN Segments
    BY <1>3, SameInput DEF Rest, Segments
  <1>5. TypeOK'
    BY <1>1, <1>2 DEF TypeOK, KernelOK
  <1>6. KidsInPhase' /\ Counted'
    BY <1>1, <1>2, <1>3, <1>4 DEF KidsInPhase, Counted
  <1>7. RoundsOver' /\ Sized'
    BY <1>1, <1>3, <1>4 DEF RoundsOver, Sized
  <1>8. Present'
    BY <1>1, <1>4 DEF Present, KernelOK, Key
  <1>9. Clean'
    BY <1>1, <1>4 DEF Clean, Made, Key
  <1>10. QED
    BY <1>2, <1>3, <1>5, <1>6, <1>7, <1>8, <1>9 DEF IInv

\* A child writes the list of its chunk; with keys enough it is the only one
\* that writes there.
LEMMA MapChildIInv ==
    ASSUME IInv, NEW i \in DOMAIN kids, MapChild(i)
    PROVE  IInv'
  <1>1. /\ TypeOK /\ KidsInPhase /\ RoundsOver /\ Sized /\ Present /\ Written
        /\ i < chunks /\ kids[i] = "running"
        /\ kernel' = shmWrite(i, Merged(Chunk(i))) /\ kids' = [kids EXCEPT ![i] = "ended"]
        /\ UNCHANGED <<text, version, pc, round, chunks, childs, bad, lists, capacity, room, results, runs, unclean>>
    BY DEF IInv, MapChild, arrays, history
  <1>2. i \in 0..(chunks - 1) /\ chunks \in Nat /\ round \in Rounds
    BY <1>1 DEF TypeOK
  <1>3. version = "fork" /\ pc \notin {"reduce", "done"}
    BY <1>1, <1>2, SizesAssumption DEF KidsInPhase, TypeOK
  <1>4. Key(i) \in DOMAIN Segments /\ KernelOK
    BY <1>1, <1>2, <1>3, InvKernelOK DEF Present
  <1>5. round = 1 => Merged(Chunk(i)) \in Seq(Entries)
    BY <1>1, <1>2, InputEntries, ChunkType, MergedType
  <1>6. i \in bad => kernel' = kernel
    BY <1>1 DEF shmWrite
  <1>7. i \notin bad => /\ KernelOK'
                        /\ \A r \in Rounds : DOMAIN kernel'[r] = DOMAIN kernel[r]
                        /\ \A key \in DOMAIN Segments :
                              kernel'[round][key].list = IF key = Key(i) THEN Merged(Chunk(i)) ELSE Segments[key].list
    <2>1. round = 1 => Len(Merged(Chunk(i))) \in Nat
      BY <1>5
    <2>2. i \in Nat
      BY <1>2
    <2>3. QED
      BY <1>1, <1>2, <1>4, <2>1, <2>2, ListWritten
  <1>8. KernelOK' /\ \A r \in Rounds : DOMAIN kernel'[r] = DOMAIN kernel[r]
    BY <1>4, <1>6, <1>7 DEF KernelOK
  <1>9. Written'
    <2> SUFFICES ASSUME NEW j \in 0..(chunks - 1), HasWritten(j)'
                 PROVE  /\ chunks < Keys => kernel'[round][Key(j)].list = Merged(Chunk(j))'
                        /\ round = 1 => kernel'[round][Key(j)].list \in Seq(Entries)
      BY <1>1 DEF Written, Key, Segments, Entries
    <2>1. Merged(Chunk(j))' = Merged(Chunk(j))
      BY <1>1, SameInput
    <2>2. j \notin bad
      BY <1>1 DEF HasWritten
    <2>3. Key(j) \in DOMAIN Segments
      BY <1>1, <1>3 DEF Present
    <2>4. CASE j = i
      BY <1>4, <1>5, <1>7, <2>1, <2>2, <2>4
    <2>5. CASE j # i
      <3>1. HasWritten(j)
        BY <1>1, <2>2, <2>5 DEF HasWritten
      <3>2. /\ chunks < Keys => Segments[Key(j)].list = Merged(Chunk(j))
            /\ round = 1 => Segments[Key(j)].list \in Seq(Entries)
        BY <1>1, <1>3, <3>1 DEF Written
      <3>3. chunks < Keys => Key(j) # Key(i)
        <4>1. j \in Nat /\ i \in Nat /\ (chunks < Keys => j < Keys /\ i < Keys)
          BY <1>2, Sizes
        <4>2. QED
          BY <2>5, <4>1, KeyType
      <3>4. CASE i \in bad
        BY <1>6, <2>1, <3>2, <3>4 DEF Segments
      <3>5. CASE i \notin bad
        BY <1>5, <1>7, <2>1, <2>3, <3>2, <3>3, <3>5
      <3>6. QED
        BY <3>4, <3>5
    <2>6. QED
      BY <2>4, <2>5
  <1>10. QED
    BY <1>1, <1>8, <1>9, ChildEnds

\* What the child that reduces finds are lists, if no chunk was refused.
LEMMA FoundType ==
    ASSUME TypeOK, KidsInPhase, Written, version = "fork", pc = "reduce", round = 1,
           kids[chunks] = "running", bad = {}
    PROVE  Found \in Seq(Entries)
  <1>1. chunks \in Nat /\ DOMAIN kids = {chunks}
    BY DEF TypeOK, KidsInPhase
  <1>2. \A i \in 1..chunks : Segments[Key(i - 1)].list \in Seq(Entries)
    <2> SUFFICES ASSUME NEW i \in 1..chunks
                 PROVE  Segments[Key(i - 1)].list \in Seq(Entries)
      OBVIOUS
    <2>1. i - 1 \in 0..(chunks - 1) /\ i - 1 # chunks
      BY <1>1
    <2>2. HasWritten(i - 1)
      BY <1>1, <2>1 DEF HasWritten
    <2>3. QED
      BY <2>1, <2>2 DEF Written
  <1>3. [i \in 1..chunks |-> Segments[Key(i - 1)].list] \in Seq(Seq(Entries))
    BY <1>1, <1>2
  <1>4. QED
    BY <1>3, FlattenType DEF Found

\* The child that reduces leaves the lists of the chunks alone if it has a key
\* of its own.
LEMMA ReduceChildIInv ==
    ASSUME IInv, chunks \in DOMAIN kids, ReduceChild
    PROVE  IInv'
  <1>1. /\ TypeOK /\ KidsInPhase /\ Present /\ Written
        /\ pc = "reduce" /\ kids[chunks] = "running" /\ kids' = [kids EXCEPT ![chunks] = "ended"]
        /\ UNCHANGED <<text, version, pc, round, chunks, childs, bad, lists, capacity, room, results, runs, unclean>>
    BY DEF IInv, ReduceChild, arrays, history
  <1>2. kernel' = kernel \/ (bad \ {chunks} = {} /\ kernel' = shmWrite(chunks, Reduced(Found)))
    BY DEF ReduceChild
  <1>3. chunks \in Nat /\ round \in Rounds /\ DOMAIN kids = {chunks} /\ version = "fork"
    BY <1>1, SizesAssumption DEF TypeOK, KidsInPhase
  <1>4. KernelOK /\ Key(chunks) \in DOMAIN Segments
    BY <1>1, InvKernelOK DEF Present
  <1>5. /\ KernelOK' /\ \A r \in Rounds : DOMAIN kernel'[r] = DOMAIN kernel[r]
        /\ \A key \in DOMAIN Segments : key # Key(chunks) => kernel'[round][key].list = Segments[key].list
    <2>1. CASE kernel' = kernel
      BY <1>4, <2>1 DEF KernelOK, Segments
    <2>2. CASE kernel' # kernel
      <3>1. bad \ {chunks} = {} /\ chunks \notin bad /\ kernel' = shmWrite(chunks, Reduced(Found))
        BY <1>2, <2>2 DEF shmWrite
      <3>2. bad = {}
        BY <3>1
      <3>3. round = 1 => Len(Reduced(Found)) \in Nat
        BY <1>1, <1>3, <3>2, FoundType, ReducedLength
      <3>4. QED
        BY <1>3, <1>4, <3>1, <3>3, ListWritten
    <2>3. QED
      BY <2>1, <2>2
  <1>6. Written'
    <2> SUFFICES ASSUME NEW j \in 0..(chunks - 1), HasWritten(j)', chunks < Keys
                 PROVE  kernel'[round][Key(j)].list = Merged(Chunk(j))'
      <3>1. pc' = "reduce" /\ kids'[chunks'] = "ended"
        BY <1>1, <1>3
      <3>2. QED
        BY <1>1, <3>1 DEF Written, Key, Segments
    <2>1. Merged(Chunk(j))' = Merged(Chunk(j))
      BY <1>1, SameInput
    <2>2. HasWritten(j)
      BY <1>1, <1>3 DEF HasWritten
    <2>3. Key(j) \in DOMAIN Segments
      BY <1>1, <1>3 DEF Present
    <2>4. Key(j) # Key(chunks)
      <3>1. j \in Nat /\ j < Keys /\ j # chunks
        BY <1>3, Sizes
      <3>2. QED
        BY <1>3, <3>1, KeyType
    <2>5. QED
      BY <1>1, <1>3, <1>5, <2>1, <2>2, <2>3, <2>4 DEF Written
  <1>7. QED
    BY <1>1, <1>3, <1>5, <1>6, ChildEnds

-----------------------------------------------------------------------------
(* The ends of a round and of a run. *)

\* A fact of arithmetic.
LEMMA OneMore ==
    ASSUME NEW m \in Nat, NEW n \in Nat
    PROVE  0 <= n /\ 2 * 0 <= n + 2 /\ (2 * m <= n => 2 * (m + 1) <= n + 2)
  OBVIOUS

\* A sequence is one element longer after Append, whatever the elements are.
LEMMA Appended ==
    ASSUME NEW n \in Nat, NEW s, s = [r \in 1..n |-> s[r]], NEW e
    PROVE  /\ Len(Append(s, e)) = n + 1
           /\ Append(s, e) = [r \in 1..(n + 1) |-> Append(s, e)[r]]
           /\ Append(s, e)[n + 1] = e
           /\ \A r \in 1..n : Append(s, e)[r] = s[r]
  <1> DEFINE S == {s[r] : r \in 1..n} \union {e}
  <1>1. [r \in 1..n |-> s[r]] \in Seq(S)
    OBVIOUS
  <1>2. s \in Seq(S)
    BY <1>1
  <1>3. Len([r \in 1..n |-> s[r]]) = n
    OBVIOUS
  <1>4. Len(s) = n
    BY <1>3
  <1>5. e \in S
    OBVIOUS
  <1> HIDE DEF S
  <1>6. QED
    BY <1>2, <1>4, <1>5

\* The next round begins with its list behind the others, and with no chunk.
LEMMA RoundEnds ==
    ASSUME IInv, pc # "done", NEW list, NextRound(list), round = 1 => Len(list) \in Nat,
           UNCHANGED <<text, version, runs, unclean>>, childs' \in Nat, DOMAIN kids' = {},
           version = "fork" => childs' = 0,
           KernelOK', \A r \in Rounds : r > round => kernel'[r] = kernel[r],
           version = "threads" => \A r \in Rounds : DOMAIN kernel'[r] = {},
           capacity' \in Nat, capacity' > 0, room' \in Nat,
           version = "fork" => capacity' = Len(results'[1]) \div MAXWORDS + 2 /\ capacity' > 1,
           room' = 2 * capacity',
           ~ unclean => DOMAIN kernel'[round] = {},
           ~ unclean /\ text # <<>> => \A r \in Rounds : r < round => DOMAIN kernel'[r] = {}
    PROVE  IInv'
  <1>1. /\ TypeOK /\ KidsInPhase /\ RoundsOver /\ Clean /\ round \in 1..3
    BY DEF IInv, TypeOK, Rounds
  <1>2. /\ results' = Append(results, list) /\ chunks' = 0 /\ bad' = {} /\ lists' = <<>>
        /\ pc' = (IF round = 3 THEN "done" ELSE "map")
        /\ round' = (IF round = 3 THEN 3 ELSE round + 1)
    BY DEF NextRound
  <1>3. /\ Len(results') = round /\ results' = [r \in 1..round |-> results'[r]]
        /\ Len(results'[1]) \in Nat \/ round = 3
    <2>1. results = [r \in 1..(round - 1) |-> results[r]] /\ round - 1 \in Nat /\ (round - 1) + 1 = round
      BY <1>1 DEF RoundsOver
    <2>2. /\ Len(results') = round /\ results' = [r \in 1..round |-> results'[r]]
          /\ results'[round] = list /\ \A r \in 1..(round - 1) : results'[r] = results[r]
      BY <1>2, <2>1, Appended
    <2>3. CASE round = 1
      BY <2>2, <2>3
    <2>4. CASE round > 1
      <3>1. results'[1] = results[1]
        BY <1>1, <2>2, <2>4
      <3>2. QED
        BY <1>1, <2>2, <2>4, <3>1 DEF RoundsOver
    <2>5. QED
      BY <1>1, <2>2, <2>3, <2>4
  <1>4. TypeOK'
    BY <1>1, <1>2, <1>3 DEF TypeOK, KernelOK, Rounds
  <1>5. KidsInPhase'
    BY <1>1, <1>2 DEF KidsInPhase
  <1>6. Counted'
    BY <1>1, <1>2, Sizes, FS_EmptySet, SizesAssumption DEF Counted, TypeOK
  <1>7. RoundsOver'
    BY <1>1, <1>2, <1>3 DEF RoundsOver
  <1>8. Sized'
    <2>1. pc' = "map" => Rest' >= 0
      <3> SUFFICES ASSUME pc' = "map" PROVE Rest' >= 0
        OBVIOUS
      <3>1. round' = round + 1 /\ round' > 1
        BY <1>1, <1>2
      <3>2. Input' = results'[1] /\ Len(results'[1]) \in Nat
        BY <1>1, <1>2, <1>3, <3>1 DEF Input
      <3>3. 0 * MAXWORDS = 0
        BY Sizes
      <3>4. QED
        BY <1>2, <3>2, <3>3 DEF Rest
    <2>2. <<>> = [i \in 1..0 |-> <<>>[i]]
      OBVIOUS
    <2>3. round' # 1
      BY <1>1, <1>2
    <2>4. pc' # "slot" /\ chunks' <= capacity' /\ 2 * chunks' <= room' + 2
      <3>1. pc' # "slot" /\ chunks' = 0
        BY <1>2
      <3>2. 0 <= capacity' /\ 2 * 0 <= room' + 2
        <4> DEFINE now == room'
                   size == capacity'
        <4>1. now \in Nat /\ size \in Nat
          OBVIOUS
        <4> HIDE DEF now, size
        <4>2. 0 <= size /\ 2 * 0 <= now + 2
          BY <4>1, OneMore
        <4>3. QED
          BY <4>2 DEF now, size
      <3>3. QED
        BY <3>1, <3>2
    <2>5. lists' = [i \in 1..chunks' |-> lists'[i]]
      BY <1>2, <2>2
    <2>6. version' = version
      OBVIOUS
    <2>7. version' = "fork" /\ round' > 1 /\ pc' # "done" =>
              capacity' = Len(results'[1]) \div MAXWORDS + 2 /\ chunks' + 1 <= capacity'
      BY <2>6, <1>2
    <2>8. room' = 2 * capacity'
      OBVIOUS
    <2>9. QED
      BY <2>1, <2>3, <2>4, <2>5, <2>7, <2>8 DEF Sized
  <1>9. Present' /\ Written'
    BY <1>2 DEF Present, Written, KernelOK
  <1>10. Clean'
    <2> SUFFICES ASSUME ~ unclean PROVE Clean'
      BY DEF Clean
    <2>1. \A r \in Rounds : r > round' => DOMAIN kernel'[r] = {}
      BY <1>1, <1>2 DEF Clean, Rounds
    <2>2. pc' # "done" => DOMAIN Segments' = {}
      <3> SUFFICES ASSUME pc' # "done" PROVE DOMAIN kernel'[round'] = {}
        BY DEF Segments
      <3>1. round' \in Rounds /\ round' > round
        BY <1>1, <1>2 DEF Rounds
      <3>2. kernel'[round'] = kernel[round'] /\ DOMAIN kernel[round'] = {}
        BY <1>1, <3>1 DEF Clean
      <3>3. QED
        BY <3>2
    <2>3. text' # <<>> => \A r \in Rounds : (pc' = "done" \/ r < round') => DOMAIN kernel'[r] = {}
      <3> SUFFICES ASSUME text # <<>>, NEW r \in Rounds, pc' = "done" \/ r < round'
                   PROVE  DOMAIN kernel'[r] = {}
        OBVIOUS
      <3>1. r < round \/ r = round
        BY <1>1, <1>2 DEF Rounds
      <3>2. QED
        BY <3>1
    <2>4. QED
      BY <2>1, <2>2, <2>3 DEF Clean
  <1>11. QED
    BY <1>4, <1>5, <1>6, <1>7, <1>8, <1>9, <1>10 DEF IInv

\* The segments of the round are all released when the child that reduces has
\* ended.
LEMMA ReleasedAllGone ==
    ASSUME IInv, pc = "reduce", kernel' = ReleasedAll
    PROVE  /\ KernelOK' /\ \A r \in Rounds : r # round => kernel'[r] = kernel[r]
           /\ ~ unclean => DOMAIN kernel'[round] = {}
  <1>1. TypeOK /\ Present /\ Clean /\ chunks \in Nat /\ round \in Rounds
    BY DEF IInv, TypeOK
  <1>2. KernelOK
    BY <1>1, InvKernelOK
  <1>3. /\ KernelOK' /\ \A r \in Rounds : r # round => kernel'[r] = kernel[r]
        /\ DOMAIN kernel'[round] = DOMAIN Segments \ {Key(i) : i \in 0..((chunks + 1) - 1) \ bad}
    BY <1>1, <1>2, SegmentsGone DEF ReleasedAll
  <1>4. (chunks + 1) - 1 = chunks
    BY <1>1
  <1>5. ~ unclean => DOMAIN Segments \subseteq {Key(i) : i \in 0..chunks \ bad}
    BY <1>1 DEF Clean, Made
  <1>6. QED
    BY <1>3, <1>4, <1>5

\* A round of the version with processes is over.
LEMMA WaitReduceIInv ==
    ASSUME IInv, WaitReduce
    PROVE  IInv'
  <1>1. /\ TypeOK /\ KidsInPhase /\ Present /\ Clean /\ RoundsOver
        /\ pc = "reduce" /\ Wait /\ (round = 1 => Reading # Segfault)
        /\ kernel' = ReleasedAll /\ NextRound(Reading) /\ childs' = 0
        /\ capacity' = Len(results'[1]) \div MAXWORDS + 2 /\ room' = 2 * capacity'
        /\ UNCHANGED <<text, version, runs, unclean>>
    BY DEF IInv, WaitReduce, history
  <1>2. DOMAIN kids = {chunks} /\ version = "fork" /\ round \in 1..3
    BY <1>1, SizesAssumption DEF KidsInPhase, TypeOK, Rounds
  <1>3. DOMAIN kids' = {}
    BY <1>1, <1>2, WaitTakesOne
  <1>4. round = 1 => Len(Reading) \in Nat
    BY <1>1 DEF Reading, Present, Segments
  <1>5. capacity' \in Nat /\ capacity' > 1
    <2>1. Len(results'[1]) \in Nat
      <3>1. results = [r \in 1..(round - 1) |-> results[r]] /\ round - 1 \in Nat /\ (round - 1) + 1 = round
        BY <1>1, <1>2 DEF RoundsOver
      <3>2. /\ results'[round] = Reading /\ \A r \in 1..(round - 1) : results'[r] = results[r]
        BY <1>1, <3>1, Appended DEF NextRound
      <3>3. CASE round = 1
        BY <1>4, <3>2, <3>3
      <3>4. CASE round > 1
        BY <1>1, <1>2, <3>2, <3>4 DEF RoundsOver
      <3>5. QED
        BY <1>2, <3>3, <3>4
    <2>2. Len(results'[1]) \div MAXWORDS \in Nat
      BY <2>1, ChunksFit
    <2>3. QED
      BY <1>1, <2>2
  <1>6. /\ KernelOK' /\ \A r \in Rounds : r # round => kernel'[r] = kernel[r]
        /\ ~ unclean => DOMAIN kernel'[round] = {}
    BY <1>1, ReleasedAllGone
  <1>7. \A r \in Rounds : r > round => r # round
    BY <1>2 DEF Rounds
  <1>8. ~ unclean /\ text # <<>> => \A r \in Rounds : r < round => DOMAIN kernel'[r] = {}
    BY <1>1, <1>2, <1>6 DEF Clean, Rounds
  <1>9. room' \in Nat /\ pc # "done" /\ version # "threads" /\ capacity' > 0
    BY <1>1, <1>2, <1>5
  <1>10. QED
    BY <1>1, <1>2, <1>3, <1>4, <1>5, <1>6, <1>7, <1>8, <1>9, RoundEnds

\* A round of the version with threads is over.
LEMMA ThreadReduceIInv ==
    ASSUME IInv, ThreadReduce
    PROVE  IInv'
  <1> DEFINE list == Reduced(FlattenSeq(lists))
  <1>1. /\ TypeOK /\ KidsInPhase /\ Present /\ Sized
        /\ version = "threads" /\ pc \in {"map", "mapped"} /\ NextRound(list)
        /\ capacity' = 1 /\ room' = 2
        /\ UNCHANGED <<text, version, childs, kids, kernel, runs, unclean>>
    BY DEF IInv, ThreadReduce, Mapped, history, FirstRoom
  <1>2. /\ DOMAIN kids = {} /\ \A r \in Rounds : DOMAIN kernel[r] = {}
        /\ childs \in Nat /\ round \in Rounds
    BY <1>1 DEF KidsInPhase, TypeOK
  <1>3. round = 1 => Len(list) \in Nat
    <2> SUFFICES ASSUME round = 1 PROVE Len(list) \in Nat
      OBVIOUS
    <2>1. chunks \in Nat /\ lists = [i \in 1..chunks |-> lists[i]] /\ \A i \in 1..chunks : lists[i] \in Seq(Entries)
      BY <1>1 DEF Sized, TypeOK
    <2>2. lists \in Seq(Seq(Entries))
      BY <2>1
    <2>3. QED
      BY <2>2, FlattenType, ReducedLength
  <1>4. KernelOK'
    BY <1>1, InvKernelOK DEF KernelOK
  <1>5. /\ version # "fork" /\ pc # "done" /\ capacity' > 0 /\ capacity' \in Nat /\ room' \in Nat
        /\ room' = 2 * capacity'
    BY <1>1
  <1> HIDE DEF list
  <1>6. QED
    BY <1>1, <1>2, <1>3, <1>4, <1>5, RoundEnds

\* The program dies: it leaves no child behind.
LEMMA CrashIInv ==
    ASSUME IInv, Crash, UNCHANGED <<text, version, round, chunks, childs, lists, capacity, room, runs, unclean>>,
           pc \notin {"mapped", "done"}, version = "fork",
           DOMAIN kids' = {}, KernelOK', bad' \subseteq 0..chunks, \A r \in Rounds : r > round => kernel'[r] = kernel[r],
           ~ unclean /\ text # <<>> => \A r \in Rounds : DOMAIN kernel'[r] = {}
    PROVE  IInv'
  <1>1. TypeOK /\ Sized /\ Clean /\ pc' = "done" /\ results' = [r \in Rounds |-> Segfault]
    BY DEF IInv, Crash
  <1>2. Len(results') = 3
    BY <1>1 DEF Rounds
  <1>3. TypeOK'
    <2>1. DOMAIN kids' \subseteq 0..chunks' /\ \A i \in DOMAIN kids' : kids'[i] \in {"running", "ended"}
      OBVIOUS
    <2>2. Len(results') <= 3
      BY <1>2
    <2>3. DOMAIN kernel' = Rounds /\ \A r \in Rounds : DOMAIN kernel'[r] \subseteq 0..(Keys - 1)
      BY DEF KernelOK
    <2>4. QED
      BY <1>1, <2>1, <2>2, <2>3 DEF TypeOK
  <1>4. KidsInPhase' /\ Counted'
    BY <1>1, Sizes, FS_EmptySet DEF KidsInPhase, Counted
  <1>5. RoundsOver' /\ Sized'
    BY <1>1 DEF RoundsOver, Sized
  <1>6. Present' /\ Written'
    BY <1>1 DEF Present, Written, KernelOK
  <1>7. Clean'
    BY <1>1 DEF Clean
  <1>8. QED
    BY <1>3, <1>4, <1>5, <1>6, <1>7 DEF IInv

\* The parent fails while it reads the result of the first round.
LEMMA CrashReducedIInv ==
    ASSUME IInv, CrashReduced
    PROVE  IInv'
  <1>1. /\ TypeOK /\ KidsInPhase /\ Clean
        /\ pc = "reduce" /\ Wait /\ round = 1 /\ Crash /\ kernel' = ReleasedAll
        /\ UNCHANGED <<text, version, round, chunks, childs, bad, lists, capacity, room, runs, unclean>>
    BY DEF IInv, CrashReduced, arrays, history
  <1>2. DOMAIN kids = {chunks} /\ version = "fork" /\ bad \subseteq 0..chunks
    BY <1>1, SizesAssumption DEF KidsInPhase, TypeOK
  <1>3. DOMAIN kids' = {}
    BY <1>1, <1>2, WaitTakesOne
  <1>4. /\ KernelOK' /\ \A r \in Rounds : r # round => kernel'[r] = kernel[r]
        /\ ~ unclean => DOMAIN kernel'[round] = {}
    BY <1>1, ReleasedAllGone
  <1>5. \A r \in Rounds : r > round => r # round
    BY <1>1 DEF Rounds
  <1>6. ~ unclean => \A r \in Rounds : DOMAIN kernel'[r] = {}
    BY <1>1, <1>4 DEF Clean, Rounds
  <1>7. QED
    BY <1>1, <1>2, <1>3, <1>4, <1>5, <1>6, CrashIInv

\* After an empty text the second round fails.
LEMMA CrashEmptyIInv ==
    ASSUME IInv, CrashEmpty
    PROVE  IInv'
  <1>1. /\ TypeOK /\ KidsInPhase /\ Present /\ Sized /\ RoundsOver
        /\ version = "fork" /\ pc = "map" /\ text = <<>> /\ round = 2 /\ results[1] = <<>> /\ Crash
        /\ addSharedMemory(0) \/ UNCHANGED <<bad, kernel>>
        /\ UNCHANGED <<text, version, round, chunks, childs, kids, lists, capacity, room, runs, unclean>>
    BY DEF IInv, CrashEmpty, memory, arrays, history
  <1>2. chunks = 0
    <2>1. Rest = Len(Input) - chunks * MAXWORDS /\ Input = results[1] /\ Rest >= 0
      BY <1>1, InputLength DEF Sized
    <2>2. chunks * MAXWORDS <= 0 /\ chunks \in Nat
      BY <1>1, <2>1, Sizes DEF TypeOK
    <2>3. QED
      BY <2>2, Sizes
  <1>3. DOMAIN kids = {} /\ bad = {} /\ KernelOK
    <2>1. 0..(0 - 1) = {}
      OBVIOUS
    <2>2. QED
      BY <1>1, <1>2, <2>1, InvKernelOK DEF KidsInPhase
  <1>4. KernelOK' /\ bad' \subseteq 0..chunks /\ \A r \in Rounds : r # round => kernel'[r] = kernel[r]
    <2>1. CASE addSharedMemory(0)
      <3>1. round \in Rounds /\ chunks \in Nat
        BY <1>1 DEF TypeOK
      <3>2. /\ KernelOK' /\ \A r \in Rounds : r # round => kernel'[r] = kernel[r]
            /\ bad' = bad \/ bad' = bad \union {chunks}
        BY <1>3, <2>1, <3>1, SegmentAdded
      <3>3. 0 \in 0..0
        OBVIOUS
      <3>4. QED
        BY <1>2, <1>3, <3>2, <3>3
    <2>2. CASE UNCHANGED <<bad, kernel>>
      BY <1>3, <2>2 DEF KernelOK
    <2>3. QED
      BY <1>1, <2>1, <2>2
  <1>5. \A r \in Rounds : r > round => r # round
    BY <1>1 DEF Rounds
  <1>6. QED
    BY <1>1, <1>3, <1>4, <1>5, CrashIInv
-----------------------------------------------------------------------------
(* The version with threads, and the next run. *)

\* The list of the thread is put behind the others.
LEMMA ThreadAddsList ==
    ASSUME IInv, version = "threads", pc = "map", Rest > 0, lists' = Append(lists, Merged(Chunk(chunks))),
           chunks' = chunks + 1, UNCHANGED <<text, version, round, childs, kids, bad, kernel, results, runs, unclean>>,
           pc' \in {"map", "mapped"}, pc' = "map" => Rest' >= 0 /\ room' = 2 * capacity',
           capacity' \in Nat, room' \in Nat, chunks + 1 <= capacity', 2 * chunks <= room'
    PROVE  IInv'
  <1>1. /\ TypeOK /\ KidsInPhase /\ RoundsOver /\ Sized /\ Present /\ Clean /\ Counted
        /\ chunks \in Nat /\ round \in Rounds
    BY DEF IInv, TypeOK
  <1>2. DOMAIN kids = {} /\ (\A r \in Rounds : DOMAIN kernel[r] = {}) /\ bad \subseteq 0..(chunks - 1)
    BY <1>1 DEF KidsInPhase
  <1>3. \A i \in 0..(chunks - 1) : i \in 0..(chunks + 1) /\ i \in 0..((chunks + 1) - 1)
    BY <1>1
  <1>4. bad' \subseteq 0..chunks' /\ bad' \subseteq 0..(chunks' - 1)
    BY <1>2, <1>3
  <1>5. TypeOK'
    <2>1. chunks' \in Nat
      BY <1>1
    <2>2. QED
      BY <1>1, <1>2, <1>4, <2>1 DEF TypeOK
  <1>6. KidsInPhase'
    BY <1>2, <1>4 DEF KidsInPhase
  <1>7. Counted' /\ RoundsOver'
    BY <1>1 DEF Counted, RoundsOver
  <1>8. Sized'
    <2> DEFINE e == Merged(Chunk(chunks))
    <2>1. round = 1 => e \in Seq(Entries)
      BY <1>1, InputEntries, ChunkType, MergedType
    <2>2. lists = [i \in 1..chunks |-> lists[i]] /\ (round = 1 => \A i \in 1..chunks : lists[i] \in Seq(Entries))
      BY <1>1 DEF Sized
    <2> HIDE DEF e
    <2>3. /\ lists' = [i \in 1..(chunks + 1) |-> lists'[i]] /\ lists'[chunks + 1] = e
          /\ \A i \in 1..chunks : lists'[i] = lists[i]
      BY <1>1, <2>2, Appended DEF e
    <2>4. \A i \in 1..(chunks + 1) : i = chunks + 1 \/ i \in 1..chunks
      BY <1>1
    <2>5. round = 1 => \A i \in 1..(chunks + 1) : lists'[i] \in Seq(Entries)
      BY <2>1, <2>2, <2>3, <2>4
    <2>6. capacity' > 0 /\ chunks' <= capacity' /\ 2 * chunks' <= room' + 2
      <3>1. chunks + 1 > 0 /\ chunks + 1 \in Nat
        BY <1>1
      <3>2. capacity' > 0
        BY ONLY <3>1, chunks + 1 <= capacity', capacity' \in Nat
      <3>3. 2 * (chunks + 1) <= room' + 2
        <4> DEFINE now == room'
        <4>1. chunks \in Nat /\ now \in Nat /\ 2 * chunks <= now
          BY <1>1
        <4> HIDE DEF now
        <4>2. 2 * (chunks + 1) <= now + 2
          BY <4>1, OneMore
        <4>3. QED
          BY <4>2 DEF now
      <3>4. QED
        BY <3>2, <3>3
    <2>7. lists' = [i \in 1..chunks' |-> lists'[i]] /\ (round' = 1 => \A i \in 1..chunks' : lists'[i] \in Seq(Entries'))
      BY <2>3, <2>5 DEF Entries
    <2>8. version' # "fork" /\ pc' # "slot"
      OBVIOUS
    <2>9. QED
      BY <2>6, <2>7, <2>8 DEF Sized
  <1>9. Present'
    BY <1>1, <1>2 DEF Present, Key, Rounds
  <1>10. Written' /\ Clean'
    <2>1. round' = round /\ unclean' = unclean /\ text' = text /\ kernel' = kernel /\ round' \in Rounds
      BY <1>1
    <2>2. \A r \in Rounds : DOMAIN kernel'[r] = {}
      BY <1>2
    <2>3. QED
      BY <2>1, <2>2 DEF Written, Clean, Segments
  <1>11. QED
    BY <1>5, <1>6, <1>7, <1>8, <1>9, <1>10 DEF IInv

\* A thread maps a full chunk; both arrays are doubled when they are used up.
LEMMA ThreadMapIInv ==
    ASSUME IInv, ThreadMap
    PROVE  IInv'
  <1>1. /\ TypeOK /\ RoundsOver /\ Sized
        /\ version = "threads" /\ pc = "map" /\ pc' = "map" /\ Rest >= MAXWORDS
        /\ lists' = Append(lists, Merged(Chunk(chunks))) /\ chunks' = chunks + 1
        /\ UNCHANGED <<text, version, round, childs, kids, bad, kernel, results, runs, unclean>>
    BY DEF IInv, ThreadMap, memory, history
  <1>2. IF chunks = capacity THEN capacity' = 2 * capacity /\ room' = 2 * capacity'
        ELSE UNCHANGED <<capacity, room>>
    BY DEF ThreadMap, Doubled
  <1>3. chunks \in Nat /\ capacity \in Nat /\ capacity > 0 /\ chunks <= capacity /\ room = 2 * capacity
    BY <1>1 DEF TypeOK, Sized
  <1>4. /\ capacity' \in Nat /\ room' \in Nat /\ chunks + 1 <= capacity' /\ 2 * chunks <= room'
        /\ room' = 2 * capacity'
    <2>1. CASE chunks = capacity
      BY <1>2, <1>3, <2>1
    <2>2. CASE chunks # capacity
      BY <1>2, <1>3, <2>2
    <2>3. QED
      BY <2>1, <2>2
  <1>5. Rest > 0
    BY <1>1, Sizes, InputLength
  <1>6. Rest' >= 0
    BY <1>1, OneChunkLess
  <1>7. QED
    BY <1>1, <1>4, <1>5, <1>6, ThreadAddsList

\* A thread maps the last chunk, when only one of the arrays is doubled.
LEMMA ThreadMapLastIInv ==
    ASSUME IInv, ThreadMapLast
    PROVE  IInv'
  <1>1. /\ TypeOK /\ Sized
        /\ version = "threads" /\ pc = "map" /\ pc' = "mapped" /\ Rest > 0
        /\ lists' = Append(lists, Merged(Chunk(chunks))) /\ chunks' = chunks + 1
        /\ capacity' = (IF chunks = capacity THEN 2 * capacity ELSE capacity) /\ room' = room
        /\ UNCHANGED <<text, version, round, childs, kids, bad, kernel, results, runs, unclean>>
    BY DEF IInv, ThreadMapLast, memory, history
  <1>2. chunks \in Nat /\ capacity \in Nat /\ capacity > 0 /\ chunks <= capacity /\ room = 2 * capacity
    BY <1>1 DEF TypeOK, Sized
  <1>3. capacity' \in Nat /\ room' \in Nat /\ chunks + 1 <= capacity' /\ 2 * chunks <= room'
    BY <1>1, <1>2
  <1>4. pc' # "map"
    BY <1>1
  <1>5. QED
    BY <1>1, <1>3, <1>4, ThreadAddsList

\* A new run begins with what the one before has left in the kernel: nothing, if
\* that one has ended and had words to count.
LEMMA RestartIInv ==
    ASSUME IInv, Restart
    PROVE  IInv'
  <1>1. /\ TypeOK /\ KidsInPhase /\ Present /\ Clean
        /\ runs < MaxRuns /\ runs' = runs + 1 /\ text' \in Texts /\ version' = version
        /\ unclean' = (unclean \/ (version = "fork" /\ (pc # "done" \/ text = <<>>)))
        /\ kernel' = kernel \/ (pc = "reduce" /\ \E n \in 1..chunks : kernel' = Released(n))
    BY SizesAssumption DEF IInv, Restart
  <1>2. /\ pc' = "map" /\ round' = 1 /\ chunks' = 0 /\ childs' = 0 /\ kids' = <<>> /\ bad' = {}
        /\ lists' = <<>> /\ capacity' = 1 /\ room' = FirstRoom(version) /\ results' = <<>>
    BY DEF Restart
  <1>3. DOMAIN <<>> = {} /\ Len(<<>>) = 0 /\ <<>> = [r \in 1..0 |-> <<>>[r]] /\ Cardinality({}) = 0
    BY FS_EmptySet
  <1>4. KernelOK /\ round \in Rounds
    BY <1>1, InvKernelOK DEF TypeOK
  <1>5. KernelOK'
    <2>1. CASE kernel' = kernel
      BY <1>4, <2>1 DEF KernelOK
    <2>2. CASE \E n \in 1..chunks : kernel' = Released(n)
      BY <1>4, <2>2, SegmentsGone
    <2>3. QED
      BY <1>1, <2>1, <2>2
  <1>6. TypeOK'
    <2>1. runs' \in 1..MaxRuns
      BY <1>1, SizesAssumption DEF TypeOK
    <2>2. DOMAIN kids' = {}
      BY <1>2, <1>3
    <2>3. Len(results') <= 3
      BY <1>2, <1>3
    <2>4. version' \in Versions
      BY <1>1 DEF TypeOK
    <2>5. QED
      BY <1>1, <1>2, <1>5, <2>1, <2>2, <2>3, <2>4 DEF TypeOK, KernelOK, Rounds, FirstRoom
  <1>7. version = "threads" => kernel' = kernel /\ \A r \in Rounds : DOMAIN kernel'[r] = {}
    BY <1>1 DEF KidsInPhase
  <1>8. ~ unclean' => \A r \in Rounds : DOMAIN kernel'[r] = {}
    <2> SUFFICES ASSUME ~ unclean' PROVE \A r \in Rounds : DOMAIN kernel'[r] = {}
      OBVIOUS
    <2>1. ~ unclean /\ (version = "threads" \/ (pc = "done" /\ text # <<>>))
      BY <1>1, SizesAssumption DEF TypeOK
    <2>2. CASE version = "threads"
      BY <1>7, <2>2
    <2>3. CASE pc = "done" /\ text # <<>>
      BY <1>1, <2>1, <2>3 DEF Clean
    <2>4. QED
      BY <2>1, <2>2, <2>3
  <1>9. KidsInPhase' /\ Counted'
    <2>1. DOMAIN kids' = {} /\ Cardinality(DOMAIN kids') = 0
      BY <1>2, <1>3
    <2>2. KidsInPhase'
      BY <1>1, <1>2, <1>7, <2>1 DEF KidsInPhase
    <2>3. Counted'
      BY <1>2, <2>1, Sizes DEF Counted
    <2>4. QED
      BY <2>2, <2>3
  <1>10. RoundsOver' /\ Sized'
    <2>1. RoundsOver'
      BY <1>2, <1>3 DEF RoundsOver
    <2>2. Rest' >= 0
      <3>1. text' \in Seq(DOMAIN Length)
        BY <1>1, SizesAssumption
      <3>2. Len(Input') \in Nat
        BY <1>2, <3>1 DEF Input
      <3>3. 0 * MAXWORDS = 0
        BY Sizes
      <3>4. QED
        BY <1>2, <3>2, <3>3 DEF Rest
    <2>3. QED
      BY <1>1, <1>2, <1>3, <2>1, <2>2 DEF Sized, FirstRoom
  <1>11. Present' /\ Written' /\ Clean'
    <2>1. Present'
      BY <1>2, <1>5 DEF Present, KernelOK
    <2>2. Written'
      BY <1>2 DEF Written
    <2>3. Clean'
      BY <1>2, <1>8 DEF Clean, Segments, Rounds
    <2>4. QED
      BY <2>1, <2>2, <2>3
  <1>12. QED
    BY <1>6, <1>9, <1>10, <1>11 DEF IInv

-----------------------------------------------------------------------------
(* A list is merged entry by entry: cutting what a round reads into chunks    *)
(* and merging them first makes no difference.                                *)

\* What the entries that are joined in a round have in common.
Kind(e) ==
    CASE round = 1 -> e.string
      [] round = 2 -> e.count
      [] round = 3 -> Length[e.string[1]]
Kinds(list) == {Kind(list[i]) : i \in DOMAIN list}
\* A list that has been merged has one entry of a kind.
Distinct(list) == \A i, j \in DOMAIN list : Kind(list[i]) = Kind(list[j]) => i = j

\* Entries are the same when they are of one kind,
LEMMA SameIs ==
    ASSUME round \in Rounds, NEW a, NEW b
    PROVE  Same(a, b) <=> Kind(a) = Kind(b)
  <1>1. CASE round = 1
    BY <1>1 DEF Same, Kind
  <1>2. CASE round = 2
    BY <1>2 DEF Same, Kind
  <1>3. CASE round = 3
    BY <1>3 DEF Same, Kind
  <1>4. QED
    BY <1>1, <1>2, <1>3 DEF Rounds

\* and joining them keeps the kind of the first, in whatever order they are joined.
LEMMA JoinedIs ==
    ASSUME round \in Rounds, NEW a \in Entries, NEW b \in Entries
    PROVE  /\ Joined(a, b) \in Entries /\ Kind(Joined(a, b)) = Kind(a)
           /\ \A c \in Entries : Joined(Joined(a, b), c) = Joined(a, Joined(b, c))
  <1>1. /\ a = [count |-> a.count, string |-> a.string] /\ b = [count |-> b.count, string |-> b.string]
        /\ a.count \in Nat /\ b.count \in Nat
        /\ a.string \in Seq(DOMAIN Length) /\ b.string \in Seq(DOMAIN Length)
    BY DEF Entries
  <1>2. CASE round = 2
    <2>1. Joined(a, b) = [count |-> a.count, string |-> a.string \o b.string]
      BY <1>1, <1>2 DEF Joined
    <2>2. a.string \o b.string \in Seq(DOMAIN Length)
      BY <1>1
    <2>3. Joined(a, b) \in Entries /\ Kind(Joined(a, b)) = Kind(a)
      BY <1>1, <1>2, <2>1, <2>2 DEF Entries, Kind
    <2>4. ASSUME NEW c \in Entries
          PROVE  Joined(Joined(a, b), c) = Joined(a, Joined(b, c))
      <3>1. c.string \in Seq(DOMAIN Length)
        BY DEF Entries
      <3>2. Joined(Joined(a, b), c) = [count |-> a.count, string |-> (a.string \o b.string) \o c.string]
        BY <1>2, <2>1 DEF Joined
      <3>3. Joined(b, c) = [count |-> b.count, string |-> b.string \o c.string]
        BY <1>1, <1>2 DEF Joined
      <3>4. Joined(a, Joined(b, c)) = [count |-> a.count, string |-> a.string \o (b.string \o c.string)]
        BY <1>1, <1>2, <3>3 DEF Joined
      <3>5. (a.string \o b.string) \o c.string = a.string \o (b.string \o c.string)
        <4> DEFINE W == Seq(DOMAIN Length)
        <4>1. \A x, y, z \in W : (x \o y) \o z = x \o (y \o z)
          BY ConcatAssociative
        <4>2. a.string \in W /\ b.string \in W /\ c.string \in W
          BY <1>1, <3>1
        <4> HIDE DEF W
        <4>3. QED
          BY <4>1, <4>2
      <3>6. QED
        BY <3>2, <3>4, <3>5
    <2>5. QED
      BY <2>3, <2>4
  <1>3. CASE round # 2
    <2>1. Joined(a, b) = [count |-> a.count + b.count, string |-> a.string]
      BY <1>1, <1>3 DEF Joined
    <2>2. Joined(a, b) \in Entries /\ Kind(Joined(a, b)) = Kind(a)
      BY <1>1, <1>3, <2>1 DEF Entries, Kind, Rounds
    <2>3. ASSUME NEW c \in Entries
          PROVE  Joined(Joined(a, b), c) = Joined(a, Joined(b, c))
      <3>1. c.count \in Nat
        BY DEF Entries
      <3>2. Joined(Joined(a, b), c) = [count |-> (a.count + b.count) + c.count, string |-> a.string]
        BY <1>3, <2>1 DEF Joined
      <3>3. Joined(b, c) = [count |-> b.count + c.count, string |-> b.string]
        BY <1>1, <1>3 DEF Joined
      <3>4. Joined(a, Joined(b, c)) = [count |-> a.count + (b.count + c.count), string |-> a.string]
        BY <1>1, <1>3, <3>3 DEF Joined
      <3>5. (a.count + b.count) + c.count = a.count + (b.count + c.count)
        BY <1>1, <3>1
      <3>6. QED
        BY <3>2, <3>4, <3>5
    <2>4. QED
      BY <2>2, <2>3
  <1>4. QED
    BY <1>2, <1>3

\* An entry of a new kind is put at the end,
LEMMA AddedNew ==
    ASSUME round \in Rounds, NEW list \in Seq(Entries), NEW e \in Entries, Kind(e) \notin Kinds(list)
    PROVE  Added[list][e] = Append(list, e)
  <1>1. Added[list][e] = LET k == Place(list, e)
                         IN  IF k = 0 THEN Append(list, e) ELSE [list EXCEPT ![k] = Joined(list[k], e)]
    BY DEF Added
  <1>2. {i \in 1..Len(list) : Same(list[i], e)} = {}
    BY SameIs DEF Kinds
  <1>3. Place(list, e) = 0
    BY <1>2 DEF Place, SelectInSeq
  <1>4. QED
    BY <1>1, <1>3

\* one of a kind that there is, is joined.
LEMMA AddedAt ==
    ASSUME round \in Rounds, NEW list \in Seq(Entries), Distinct(list), NEW e \in Entries,
           NEW k \in DOMAIN list, Kind(list[k]) = Kind(e)
    PROVE  Added[list][e] = [list EXCEPT ![k] = Joined(list[k], e)]
  <1>1. Added[list][e] = LET j == Place(list, e)
                         IN  IF j = 0 THEN Append(list, e) ELSE [list EXCEPT ![j] = Joined(list[j], e)]
    BY DEF Added
  <1> DEFINE I == {i \in 1..Len(list) : Same(list[i], e)}
  <1>2. I = {k}
    <2>1. k \in 1..Len(list)
      OBVIOUS
    <2>2. \A i \in 1..Len(list) : Same(list[i], e) <=> i = k
      BY SameIs DEF Distinct
    <2>3. QED
      BY <2>1, <2>2
  <1>3. I # {} /\ Place(list, e) = Min(I)
    BY <1>2 DEF Place, SelectInSeq
  <1>4. Min(I) = k
    <2>1. k <= k
      OBVIOUS
    <2>2. QED
      BY <1>2, <2>1 DEF Min
  <1>5. k # 0
    OBVIOUS
  <1>6. QED
    BY <1>1, <1>3, <1>4, <1>5

\* Adding an entry keeps one entry of a kind, and the places of the kinds.
LEMMA AddedKinds ==
    ASSUME round \in Rounds, NEW list \in Seq(Entries), Distinct(list), NEW e \in Entries
    PROVE  /\ Added[list][e] \in Seq(Entries) /\ Distinct(Added[list][e])
           /\ Kinds(Added[list][e]) = Kinds(list) \union {Kind(e)}
  <1>0. Added[list][e] \in Seq(Entries)
    BY AddedType
  <1>1. CASE Kind(e) \notin Kinds(list)
    <2>1. Added[list][e] = Append(list, e)
      BY <1>1, AddedNew
    <2> DEFINE more == Append(list, e)
    <2>2. /\ DOMAIN more = 1..(Len(list) + 1) /\ more[Len(list) + 1] = e
          /\ \A i \in 1..Len(list) : more[i] = list[i]
          /\ DOMAIN list = 1..Len(list) /\ Len(list) \in Nat
      OBVIOUS
    <2> HIDE DEF more
    <2>3. \A i \in DOMAIN more : i = Len(list) + 1 \/ i \in 1..Len(list)
      BY <2>2
    <2>4. \A i \in 1..Len(list) : Kind(more[i]) = Kind(list[i]) /\ Kind(list[i]) # Kind(e)
      BY <1>1, <2>2 DEF Kinds
    <2>5. Distinct(more)
      BY <2>2, <2>3, <2>4 DEF Distinct
    <2>6. Kinds(more) = Kinds(list) \union {Kind(e)}
      <3>1. Len(list) + 1 \in DOMAIN more /\ \A i \in 1..Len(list) : i \in DOMAIN more
        BY <2>2
      <3>2. QED
        BY <2>2, <2>3, <2>4, <3>1 DEF Kinds
    <2>7. QED
      BY <1>0, <2>1, <2>5, <2>6 DEF more
  <1>2. CASE Kind(e) \in Kinds(list)
    <2>1. PICK k \in DOMAIN list : Kind(list[k]) = Kind(e)
      BY <1>2 DEF Kinds
    <2>2. Added[list][e] = [list EXCEPT ![k] = Joined(list[k], e)]
      BY <2>1, AddedAt
    <2>3. Kind(Joined(list[k], e)) = Kind(list[k])
      BY JoinedIs
    <2>4. DOMAIN Added[list][e] = DOMAIN list /\ \A i \in DOMAIN list : Kind(Added[list][e][i]) = Kind(list[i])
      BY <2>2, <2>3
    <2>5. QED
      BY <1>0, <1>2, <2>4 DEF Distinct, Kinds
  <1>3. QED
    BY <1>1, <1>2

\* What a list is after the entries have been added to it, one after the other.
Folds(f, list, entries) ==
    f = [k \in 0..Len(entries) |-> IF k = 0 THEN list ELSE Added[f[k - 1]][entries[k]]]
MergedInto(list, entries) == (CHOOSE f : Folds(f, list, entries))[Len(entries)]

\* The entries are added one after the other: every intermediate list is a list
\* of entries.
LEMMA FoldIs ==
    ASSUME NEW list \in Seq(Entries), NEW entries \in Seq(Entries)
    PROVE  \E f \in [0..Len(entries) -> Seq(Entries)] :
               /\ f[0] = list /\ \A k \in 1..Len(entries) : f[k] = Added[f[k - 1]][entries[k]]
               /\ MergedInto(list, entries) = f[Len(entries)]
  <1> DEFINE n == Len(entries)
             S == Seq(Entries)
             upto == CHOOSE f : Folds(f, list, entries)
             step == [k \in Nat |-> [x \in S |-> IF k \in 1..n THEN Added[x][entries[k]] ELSE x]]
  <1>1. n \in Nat /\ \A k \in 1..n : entries[k] \in Entries
    OBVIOUS
  <1>2. step \in [Nat -> [S -> S]]
    <2>1. ASSUME NEW k \in Nat, NEW x \in S
          PROVE  (IF k \in 1..n THEN Added[x][entries[k]] ELSE x) \in S
      BY <1>1, AddedType
    <2>2. QED
      BY <2>1
  <1>3. PICK g : Recurs(g, n, list, step)
    <2> HIDE DEF step, n, S
    <2>1. list \in S
      BY DEF S
    <2>2. QED
      BY <1>1, <1>2, <2>1, RecursionExists
  <1>4. g \in [0..n -> S]
    <2> HIDE DEF step, n, S
    <2>1. list \in S
      BY DEF S
    <2>2. QED
      BY <1>1, <1>2, <1>3, <2>1, RecursionType
  <1>5. Folds(g, list, entries)
    <2>1. ASSUME NEW k \in 0..n
          PROVE  g[k] = IF k = 0 THEN list ELSE Added[g[k - 1]][entries[k]]
      <3>1. g[k] = IF k = 0 THEN list ELSE step[k][g[k - 1]]
        <4> HIDE DEF step
        <4>1. QED
          BY <1>3 DEF Recurs
      <3>2. k # 0 => k \in 1..n /\ k - 1 \in 0..n
        BY <1>1
      <3>3. k # 0 => g[k - 1] \in S
        BY <1>4, <3>2
      <3>4. k # 0 => step[k][g[k - 1]] = Added[g[k - 1]][entries[k]]
        BY <3>2, <3>3
      <3>5. QED
        BY <3>1, <3>4
    <2>2. g = [k \in 0..n |-> g[k]]
      BY <1>4
    <2>3. QED
      BY <2>1, <2>2 DEF Folds
  <1>6. Folds(upto, list, entries)
    <2> HIDE DEF step
    <2>1. QED
      BY <1>5
  <1> HIDE DEF upto
  <1>7. /\ DOMAIN upto = 0..n
        /\ \A k \in 0..n : upto[k] = IF k = 0 THEN list ELSE Added[upto[k - 1]][entries[k]]
    BY <1>6 DEF Folds
  <1>8. \A k \in 1..n : upto[k] = Added[upto[k - 1]][entries[k]]
    BY <1>1, <1>7
  <1> DEFINE Good == {k \in 0..n : upto[k] \in S}
  <1>9. 0 \in Good
    BY <1>1, <1>7
  <1>10. ASSUME NEW k \in 0..(n - 1), k \in Good
         PROVE  k + 1 \in Good
    <2> DEFINE m == k + 1
    <2>1. m \in 1..n /\ m - 1 = k
      BY <1>1
    <2> HIDE DEF m
    <2>2. upto[m] = Added[upto[k]][entries[m]] /\ upto[k] \in S /\ entries[m] \in Entries
      BY <1>1, <1>8, <1>10, <2>1
    <2>3. upto[m] \in S
      BY <2>2, AddedType
    <2>4. QED
      BY <2>1, <2>3 DEF m
  <1>11. 0..n \subseteq Good
    <2> HIDE DEF Good, n
    <2>1. QED
      BY <1>1, <1>9, <1>10, SetInduction
  <1>12. upto \in [0..n -> S]
    <2>1. upto = [k \in 0..n |-> upto[k]]
      BY <1>6 DEF Folds
    <2>2. QED
      BY <1>11, <2>1
  <1>13. MergedInto(list, entries) = upto[n] /\ upto[0] = list
    BY <1>1, <1>7 DEF MergedInto, upto
  <1>14. QED
    BY <1>8, <1>12, <1>13

\* Merging nothing changes nothing; an entry more is added to what the others give.
LEMMA FoldSteps ==
    ASSUME NEW list \in Seq(Entries)
    PROVE  /\ MergedInto(list, <<>>) = list
           /\ \A s \in Seq(Entries) : MergedInto(list, s) \in Seq(Entries)
           /\ \A s \in Seq(Entries), e \in Entries :
                  MergedInto(list, Append(s, e)) = Added[MergedInto(list, s)][e]
  <1>1. MergedInto(list, <<>>) = list
    <2>1. <<>> \in Seq(Entries) /\ Len(<<>>) = 0
      OBVIOUS
    <2>2. QED
      BY <2>1, FoldIs
  <1>2. ASSUME NEW s \in Seq(Entries)
        PROVE  MergedInto(list, s) \in Seq(Entries)
    <2>1. PICK f \in [0..Len(s) -> Seq(Entries)] : MergedInto(list, s) = f[Len(s)]
      BY FoldIs
    <2>2. Len(s) \in 0..Len(s)
      OBVIOUS
    <2>3. QED
      BY <2>1, <2>2
  <1>3. ASSUME NEW s \in Seq(Entries), NEW e \in Entries
        PROVE  MergedInto(list, Append(s, e)) = Added[MergedInto(list, s)][e]
    <2> DEFINE n == Len(s)
               t == Append(s, e)
    <2>1. n \in Nat /\ t \in Seq(Entries) /\ Len(t) = n + 1 /\ t[n + 1] = e /\ \A k \in 1..n : t[k] = s[k]
      OBVIOUS
    <2>2. PICK f : /\ f[0] = list /\ \A k \in 1..n : f[k] = Added[f[k - 1]][s[k]]
                   /\ MergedInto(list, s) = f[n]
      BY FoldIs
    <2> HIDE DEF t
    <2>3. PICK g : /\ g[0] = list /\ \A k \in 1..Len(t) : g[k] = Added[g[k - 1]][t[k]]
                   /\ MergedInto(list, t) = g[Len(t)]
      BY <2>1, FoldIs
    <2> HIDE DEF n
    <2> DEFINE Good == {k \in 0..n : f[k] = g[k]}
    <2>4. 0 \in Good
      BY <2>1, <2>2, <2>3
    <2>5. ASSUME NEW k \in 0..(n - 1), k \in Good
          PROVE  k + 1 \in Good
      <3> DEFINE m == k + 1
      <3>1. m \in 1..n /\ m \in 1..Len(t) /\ m - 1 = k
        BY <2>1
      <3> HIDE DEF m
      <3>2. f[m] = Added[f[k]][s[m]] /\ g[m] = Added[g[k]][t[m]]
        BY <2>2, <2>3, <3>1
      <3>3. f[m] = g[m]
        BY <2>1, <2>5, <3>1, <3>2
      <3>4. QED
        BY <3>1, <3>3 DEF m
    <2>6. 0..n \subseteq Good
      <3> HIDE DEF Good
      <3>1. QED
        BY <2>1, <2>4, <2>5, SetInduction
    <2>7. f[n] = g[n]
      BY <2>1, <2>6
    <2>8. g[n + 1] = Added[g[n]][t[n + 1]]
      <3>1. n + 1 \in 1..Len(t) /\ (n + 1) - 1 = n
        BY <2>1
      <3>2. QED
        BY <2>3, <3>1
    <2>9. QED
      BY <2>1, <2>2, <2>3, <2>7, <2>8 DEF t
  <1>4. QED
    BY <1>1, <1>2, <1>3

\* The last entry is added to what the others give.
LEMMA FoldAppend ==
    ASSUME NEW list \in Seq(Entries), NEW s \in Seq(Entries), NEW e \in Entries
    PROVE  MergedInto(list, Append(s, e)) = Added[MergedInto(list, s)][e]
  <1>1. \A t \in Seq(Entries), x \in Entries : MergedInto(list, Append(t, x)) = Added[MergedInto(list, t)][x]
    BY ONLY FoldSteps, list \in Seq(Entries)
  <1>2. QED
    BY <1>1

\* Merged begins with an empty list.
LEMMA MergedIs ==
    ASSUME NEW entries
    PROVE  Merged(entries) = MergedInto(<<>>, entries)
  BY DEF Merged, MergedInto, Folds

\* What is true of the empty sequence, and of one element more, is true of all.
LEMMA ListInduction ==
    ASSUME NEW S, NEW Good \in SUBSET Seq(S), <<>> \in Good,
           \A s \in Good : \A e \in S : Append(s, e) \in Good
    PROVE  Seq(S) \subseteq Good
  <1> SUFFICES ASSUME NEW s \in Seq(S) PROVE s \in Good
    OBVIOUS
  <1> DEFINE n == Len(s)
             Fine == {k \in 0..n : SubSeq(s, 1, k) \in Good}
  <1>1. n \in Nat /\ \A k \in 1..n : s[k] \in S
    BY ElementOfSeq
  <1>2. 0 \in Fine
    <2>1. SubSeq(s, 1, 0) = <<>>
      BY SubSeqEmpty
    <2>2. 0 \in 0..n
      BY <1>1
    <2>3. SubSeq(s, 1, 0) \in Good
      BY <2>1, Zenon
    <2> HIDE DEF n
    <2>4. QED
      BY <2>2, <2>3, Zenon
  <1>3. ASSUME NEW k \in 0..(n - 1), k \in Fine
        PROVE  k + 1 \in Fine
    <2> DEFINE m == k + 1
    <2>1. m \in 1..n /\ m \in 0..n /\ m - 1 = k /\ 1 \in 1..n
      BY <1>1
    <2>2. SubSeq(s, 1, k) \in Good /\ SubSeq(s, 1, k) \in Seq(S) /\ s[m] \in S
      BY <1>1, <1>3, <2>1
    <2> HIDE DEF m
    <2>3. SubSeq(s, 1, m) = Append(SubSeq(s, 1, k), s[m])
      <3>1. SubSeq(s, 1, m) = SubSeq(s, 1, k) \o <<s[m]>>
        BY <2>1, SubSeqRecursiveSecond
      <3>2. QED
        BY <2>2, <3>1, AppendIsConcat
    <2>4. SubSeq(s, 1, m) \in Good
      BY <2>2, <2>3
    <2>5. QED
      BY <2>1, <2>4 DEF m
  <1>4. 0..n \subseteq Fine
    <2> HIDE DEF n, Fine
    <2>1. QED
      BY <1>1, <1>2, <1>3, SetInduction
  <1>5. SubSeq(s, 1, n) = s
    BY SubSeqFull
  <1>6. n \in Fine
    <2>1. n \in 0..n
      BY <1>1
    <2> HIDE DEF n, Fine
    <2>2. QED
      BY <1>4, <2>1
  <1>7. QED
    BY <1>5, <1>6

\* The empty list has no kinds, one entry more adds its own.
LEMMA KindsOf ==
    /\ Kinds(<<>>) = {} /\ Distinct(<<>>)
    /\ \A s \in Seq(Entries), e \in Entries :
           /\ Kinds(Append(s, e)) = Kinds(s) \union {Kind(e)}
           /\ Distinct(Append(s, e)) <=> Distinct(s) /\ Kind(e) \notin Kinds(s)
  <1>1. Kinds(<<>>) = {} /\ Distinct(<<>>)
    BY DEF Kinds, Distinct
  <1>2. ASSUME NEW s \in Seq(Entries), NEW e \in Entries
        PROVE  /\ Kinds(Append(s, e)) = Kinds(s) \union {Kind(e)}
               /\ Distinct(Append(s, e)) <=> Distinct(s) /\ Kind(e) \notin Kinds(s)
    <2> DEFINE more == Append(s, e)
               n == Len(s)
    <2>1. /\ DOMAIN more = 1..(n + 1) /\ more[n + 1] = e /\ n \in Nat
          /\ DOMAIN s = 1..n /\ \A i \in 1..n : more[i] = s[i]
      OBVIOUS
    <2> HIDE DEF more, n
    <2>2. /\ \A i \in DOMAIN more : i = n + 1 \/ i \in DOMAIN s
          /\ n + 1 \in DOMAIN more /\ n + 1 \notin DOMAIN s
          /\ \A i \in DOMAIN s : i \in DOMAIN more /\ more[i] = s[i]
      BY <2>1
    <2>3. Kinds(more) = Kinds(s) \union {Kind(e)}
      BY <2>1, <2>2 DEF Kinds
    <2>4. Distinct(more) <=> Distinct(s) /\ Kind(e) \notin Kinds(s)
      <3>1. Distinct(more) => Distinct(s)
        BY <2>2 DEF Distinct
      <3>2. Distinct(more) => Kind(e) \notin Kinds(s)
        BY <2>1, <2>2 DEF Distinct, Kinds
      <3>3. ASSUME Distinct(s), Kind(e) \notin Kinds(s) PROVE Distinct(more)
        <4> SUFFICES ASSUME NEW i \in DOMAIN more, NEW j \in DOMAIN more, Kind(more[i]) = Kind(more[j])
                     PROVE  i = j
          BY DEF Distinct
        <4>1. CASE i \in DOMAIN s /\ j \in DOMAIN s
          BY <2>2, <3>3, <4>1 DEF Distinct
        <4>2. CASE i = n + 1 /\ j \in DOMAIN s
          BY <2>1, <2>2, <3>3, <4>2 DEF Kinds
        <4>3. CASE i \in DOMAIN s /\ j = n + 1
          BY <2>1, <2>2, <3>3, <4>3 DEF Kinds
        <4>4. QED
          BY <2>2, <4>1, <4>2, <4>3
      <3>4. QED
        BY <3>1, <3>2, <3>3
    <2>5. QED
      BY <2>3, <2>4 DEF more
  <1>3. QED
    BY <1>1, <1>2

\* Merging into a list keeps one entry of a kind, and has all kinds.
LEMMA MergedKinds ==
    ASSUME round \in Rounds, NEW list \in Seq(Entries), Distinct(list)
    PROVE  \A s \in Seq(Entries) : /\ MergedInto(list, s) \in Seq(Entries) /\ Distinct(MergedInto(list, s))
                                   /\ Kinds(MergedInto(list, s)) = Kinds(list) \union Kinds(s)
  <1> DEFINE Good == {s \in Seq(Entries) : /\ MergedInto(list, s) \in Seq(Entries)
                                           /\ Distinct(MergedInto(list, s))
                                           /\ Kinds(MergedInto(list, s)) = Kinds(list) \union Kinds(s)}
  <1>1. <<>> \in Good
    BY FoldSteps, KindsOf
  <1>2. ASSUME NEW s \in Good, NEW e \in Entries
        PROVE  Append(s, e) \in Good
    <2> DEFINE m == MergedInto(list, s)
    <2>1. s \in Seq(Entries) /\ m \in Seq(Entries) /\ Distinct(m) /\ Kinds(m) = Kinds(list) \union Kinds(s)
      OBVIOUS
    <2>2. MergedInto(list, Append(s, e)) = Added[m][e]
      BY <2>1, FoldSteps
    <2> HIDE DEF m
    <2>3. Added[m][e] \in Seq(Entries) /\ Distinct(Added[m][e]) /\ Kinds(Added[m][e]) = Kinds(m) \union {Kind(e)}
      BY <2>1, AddedKinds
    <2>4. Kinds(Append(s, e)) = Kinds(s) \union {Kind(e)} /\ Append(s, e) \in Seq(Entries)
      BY <2>1, KindsOf
    <2>5. QED
      BY <2>1, <2>2, <2>3, <2>4
  <1>3. Seq(Entries) \subseteq Good
    <2>1. Good \in SUBSET Seq(Entries)
      OBVIOUS
    <2> HIDE DEF Good
    <2>2. QED
      BY <1>1, <1>2, <2>1, ListInduction
  <1>4. QED
    BY <1>3

\* Changing an element of a sequence before or after one is put at the end.
LEMMA ChangedAppend ==
    ASSUME NEW S, NEW s \in Seq(S), NEW x \in S, NEW y \in S
    PROVE  /\ [Append(s, x) EXCEPT ![Len(s) + 1] = y] = Append(s, y)
           /\ \A k \in DOMAIN s : Append([s EXCEPT ![k] = y], x) = [Append(s, x) EXCEPT ![k] = y]
  <1> DEFINE n == Len(s)
             a == Append(s, x)
             b == Append(s, y)
  <1>1. n \in Nat /\ DOMAIN s = 1..n
    BY LenProperties
  <1>2. /\ a \in Seq(S) /\ Len(a) = n + 1 /\ a[n + 1] = x /\ \A i \in 1..n : a[i] = s[i]
        /\ b \in Seq(S) /\ Len(b) = n + 1 /\ b[n + 1] = y /\ \A i \in 1..n : b[i] = s[i]
    BY AppendProperties
  <1> HIDE DEF a, b, n
  <1>3. [a EXCEPT ![n + 1] = y] = b
    <2> DEFINE c == [a EXCEPT ![n + 1] = y]
    <2>1. n + 1 \in 1..Len(a)
      BY <1>1, <1>2
    <2>2. c \in Seq(S) /\ Len(c) = Len(a) /\ \A j \in 1..Len(a) : c[j] = IF j = n + 1 THEN y ELSE a[j]
      BY <1>2, <2>1, ExceptSeq
    <2> HIDE DEF c
    <2>3. \A i \in 1..Len(c) : c[i] = b[i]
      BY <1>1, <1>2, <2>2
    <2>4. c = b
      BY <1>2, <2>2, <2>3, SeqEqual
    <2>5. QED
      BY <2>4 DEF c
  <1>4. ASSUME NEW k \in DOMAIN s
        PROVE  Append([s EXCEPT ![k] = y], x) = [a EXCEPT ![k] = y]
    <2> DEFINE t == [s EXCEPT ![k] = y]
               c == [a EXCEPT ![k] = y]
               d == Append(t, x)
    <2>1. k \in 1..n /\ k \in 1..Len(a) /\ k # n + 1
      BY <1>1, <1>2
    <2>2. t \in Seq(S) /\ Len(t) = n /\ \A j \in 1..n : t[j] = IF j = k THEN y ELSE s[j]
      BY <2>1, ExceptSeq DEF n
    <2>3. c \in Seq(S) /\ Len(c) = Len(a) /\ \A j \in 1..Len(a) : c[j] = IF j = k THEN y ELSE a[j]
      BY <1>2, <2>1, ExceptSeq
    <2> HIDE DEF t, c
    <2>4. d \in Seq(S) /\ Len(d) = n + 1 /\ d[n + 1] = x /\ \A i \in 1..n : d[i] = t[i]
      BY <2>2, AppendProperties
    <2> HIDE DEF d
    <2>5. \A i \in 1..Len(d) : i = n + 1 \/ i \in 1..n
      BY <1>1, <2>4
    <2>6. \A i \in 1..Len(d) : d[i] = c[i]
      BY <1>1, <1>2, <2>1, <2>2, <2>3, <2>4, <2>5
    <2>7. d = c
      BY <1>2, <2>3, <2>4, <2>6, SeqEqual
    <2>8. QED
      BY <2>7 DEF c, d, t
  <1>5. QED
    BY <1>3, <1>4 DEF a, b, n

\* Adding an entry and then another of its kind is adding the two joined.
LEMMA AddedJoined ==
    ASSUME round \in Rounds, NEW list \in Seq(Entries), Distinct(list),
           NEW a \in Entries, NEW e \in Entries, Kind(a) = Kind(e)
    PROVE  Added[Added[list][a]][e] = Added[list][Joined(a, e)]
  <1> DEFINE first == Added[list][a]
             both == Joined(a, e)
  <1>1. first \in Seq(Entries) /\ Distinct(first)
    BY AddedKinds
  <1>2. both \in Entries /\ Kind(both) = Kind(a)
    BY JoinedIs
  <1>3. CASE Kind(a) \notin Kinds(list)
    <2> DEFINE k == Len(list) + 1
    <2>1. first = Append(list, a) /\ Added[list][both] = Append(list, both)
      BY <1>2, <1>3, AddedNew
    <2>2. k \in DOMAIN Append(list, a) /\ Append(list, a)[k] = a
      OBVIOUS
    <2>3. k \in DOMAIN first /\ first[k] = a
      BY <2>1, <2>2
    <2> HIDE DEF first, both, k
    <2>4. Added[first][e] = [first EXCEPT ![k] = Joined(first[k], e)]
      BY <1>1, <2>3, AddedAt
    <2>5. [Append(list, a) EXCEPT ![k] = both] = Append(list, both)
      BY <1>2, ChangedAppend DEF k
    <2>6. Added[first][e] = Added[list][both]
      BY <2>1, <2>3, <2>4, <2>5 DEF both
    <2>7. QED
      BY <2>6 DEF both, first
  <1>4. CASE Kind(a) \in Kinds(list)
    <2>1. PICK k \in DOMAIN list : Kind(list[k]) = Kind(a)
      BY <1>4 DEF Kinds
    <2>2. list[k] \in Entries
      OBVIOUS
    <2>3. /\ first = [list EXCEPT ![k] = Joined(list[k], a)]
          /\ Added[list][both] = [list EXCEPT ![k] = Joined(list[k], both)]
      <3>1. first = [list EXCEPT ![k] = Joined(list[k], a)]
        BY <2>1, AddedAt
      <3>2. both \in Entries /\ Kind(list[k]) = Kind(both)
        BY <1>2, <2>1
      <3> HIDE DEF first, both
      <3>3. Added[list][both] = [list EXCEPT ![k] = Joined(list[k], both)]
        BY <2>1, <3>2, AddedAt
      <3>4. QED
        BY <3>1, <3>3
    <2>4. Kind(Joined(list[k], a)) = Kind(a) /\ Joined(Joined(list[k], a), e) = Joined(list[k], both)
      BY <2>1, <2>2, JoinedIs
    <2> HIDE DEF first, both
    <2>5. k \in DOMAIN first /\ first[k] = Joined(list[k], a)
      BY <2>3
    <2>6. Added[first][e] = [first EXCEPT ![k] = Joined(first[k], e)]
      BY <1>1, <2>4, <2>5, AddedAt
    <2>7. QED
      BY <2>3, <2>4, <2>5, <2>6 DEF first, both
  <1>5. QED
    BY <1>3, <1>4

\* An entry of a kind that the list has, and one of another kind, may be added in
\* any order.
LEMMA AddedCommute ==
    ASSUME round \in Rounds, NEW list \in Seq(Entries), Distinct(list),
           NEW e \in Entries, NEW x \in Entries, Kind(e) \in Kinds(list), Kind(x) # Kind(e)
    PROVE  Added[Added[list][e]][x] = Added[Added[list][x]][e]
  <1>1. PICK k \in DOMAIN list : Kind(list[k]) = Kind(e)
    BY DEF Kinds
  <1> DEFINE j == Joined(list[k], e)
             withE == Added[list][e]
             withX == Added[list][x]
  <1>2. list[k] \in Entries /\ j \in Entries /\ Kind(j) = Kind(e)
    BY <1>1, JoinedIs
  <1>3. withE = [list EXCEPT ![k] = j]
    BY <1>1, AddedAt
  <1>4. /\ withE \in Seq(Entries) /\ Distinct(withE) /\ Kinds(withE) = Kinds(list)
        /\ withX \in Seq(Entries) /\ Distinct(withX)
    <2>1. withE \in Seq(Entries) /\ Distinct(withE) /\ Kinds(withE) = Kinds(list) \union {Kind(e)}
      BY AddedKinds
    <2>2. withX \in Seq(Entries) /\ Distinct(withX)
      BY AddedKinds
    <2> HIDE DEF withE, withX
    <2>3. QED
      BY <2>1, <2>2
  <1>5. CASE Kind(x) \notin Kinds(list)
    <2>1. withX = Append(list, x)
      BY <1>5, AddedNew
    <2> HIDE DEF withE, withX, j
    <2>2. Added[withE][x] = Append(withE, x)
      BY <1>4, <1>5, AddedNew
    <2>3. k \in DOMAIN withX /\ withX[k] = list[k]
      BY <2>1
    <2>4. Added[withX][e] = [withX EXCEPT ![k] = j]
      BY <1>1, <1>4, <2>3, AddedAt DEF j
    <2>5. Append([list EXCEPT ![k] = j], x) = [Append(list, x) EXCEPT ![k] = j]
      BY <1>2, ChangedAppend
    <2>6. QED
      BY <1>3, <2>1, <2>2, <2>4, <2>5 DEF withE, withX
  <1>6. CASE Kind(x) \in Kinds(list)
    <2>1. PICK i \in DOMAIN list : Kind(list[i]) = Kind(x)
      BY <1>6 DEF Kinds
    <2>2. i # k
      BY <1>1, <2>1
    <2>3. withX = [list EXCEPT ![i] = Joined(list[i], x)]
      BY <2>1, AddedAt
    <2> HIDE DEF withE, withX, j
    <2>4. i \in DOMAIN withE /\ withE[i] = list[i] /\ k \in DOMAIN withX /\ withX[k] = list[k]
      BY <1>3, <2>2, <2>3
    <2>5. Added[withE][x] = [withE EXCEPT ![i] = Joined(list[i], x)]
      BY <1>4, <2>1, <2>4, AddedAt
    <2>6. Added[withX][e] = [withX EXCEPT ![k] = j]
      BY <1>1, <1>4, <2>4, AddedAt DEF j
    <2>7. [[list EXCEPT ![k] = j] EXCEPT ![i] = Joined(list[i], x)]
              = [[list EXCEPT ![i] = Joined(list[i], x)] EXCEPT ![k] = j]
      BY <2>2
    <2>8. Added[withE][x] = Added[withX][e]
      BY <1>3, <2>3, <2>5, <2>6, <2>7
    <2>9. QED
      BY <2>8 DEF withE, withX
  <1>7. QED
    BY <1>5, <1>6

\* Merging a list to which an entry was added is adding the entry after the rest.
LEMMA MergedAdded ==
    ASSUME round \in Rounds, NEW acc \in Seq(Entries), Distinct(acc), NEW e \in Entries
    PROVE  \A list \in Seq(Entries) :
               Distinct(list) => MergedInto(acc, Added[list][e]) = Added[MergedInto(acc, list)][e]
  <1> DEFINE Right(list) == MergedInto(acc, Added[list][e]) = Added[MergedInto(acc, list)][e]
             Good == {list \in Seq(Entries) : Distinct(list) => Right(list)}
  <1>1. ASSUME NEW list \in Seq(Entries), Kind(e) \notin Kinds(list)
        PROVE  Right(list)
    <2>1. Added[list][e] = Append(list, e)
      BY <1>1, AddedNew
    <2>2. MergedInto(acc, Append(list, e)) = Added[MergedInto(acc, list)][e]
      BY FoldAppend
    <2>3. QED
      BY <2>1, <2>2
  <1>2. <<>> \in Good
    <2>1. <<>> \in Seq(Entries)
      OBVIOUS
    <2>2. Right(<<>>)
      BY <1>1, <2>1, KindsOf
    <2>3. QED
      BY <2>1, <2>2
  <1>3. ASSUME NEW s \in Good, NEW x \in Entries
        PROVE  Append(s, x) \in Good
    <2> DEFINE list == Append(s, x)
               m == MergedInto(acc, s)
    <2>1. s \in Seq(Entries) /\ list \in Seq(Entries)
      OBVIOUS
    <2> SUFFICES ASSUME Distinct(list) PROVE Right(list)
      BY <2>1
    <2>2. Distinct(s) /\ Kind(x) \notin Kinds(s) /\ Kinds(list) = Kinds(s) \union {Kind(x)}
      BY <2>1, KindsOf
    <2>3. m \in Seq(Entries) /\ Distinct(m) /\ Kinds(m) = Kinds(acc) \union Kinds(s)
      BY <2>1, MergedKinds
    <2>4. MergedInto(acc, list) = Added[m][x]
      BY <2>1, FoldAppend
    <2>5. CASE Kind(e) \notin Kinds(list)
      BY <1>1, <2>1, <2>5
    <2>6. CASE Kind(e) = Kind(x)
      <3> DEFINE n == Len(s) + 1
      <3>1. n \in DOMAIN list /\ list[n] = x
        OBVIOUS
      <3>2. Added[list][e] = [list EXCEPT ![n] = Joined(x, e)]
        <4> HIDE DEF list, n
        <4>1. QED
          BY <2>1, <2>6, <3>1, AddedAt
      <3>3. Joined(x, e) \in Entries
        BY JoinedIs
      <3>4. Added[list][e] = Append(s, Joined(x, e))
        BY <2>1, <3>2, <3>3, ChangedAppend
      <3> HIDE DEF list, m, n
      <3>5. MergedInto(acc, Added[list][e]) = Added[m][Joined(x, e)]
        BY <2>1, <3>3, <3>4, FoldAppend DEF m
      <3>6. Added[m][Joined(x, e)] = Added[Added[m][x]][e]
        BY <2>3, <2>6, AddedJoined
      <3>7. QED
        BY <2>4, <3>5, <3>6
    <2>7. CASE Kind(e) \in Kinds(s) /\ Kind(e) # Kind(x)
      <3>1. PICK k \in DOMAIN s : Kind(s[k]) = Kind(e)
        BY <2>7 DEF Kinds
      <3>2. s[k] \in Entries /\ k \in DOMAIN list /\ list[k] = s[k]
        BY <2>1
      <3>3. Joined(s[k], e) \in Entries
        BY <3>2, JoinedIs
      <3>4. Added[list][e] = [list EXCEPT ![k] = Joined(s[k], e)]
        <4> HIDE DEF list
        <4>1. QED
          BY <2>1, <3>1, <3>2, AddedAt
      <3>5. Added[s][e] = [s EXCEPT ![k] = Joined(s[k], e)]
        BY <2>1, <2>2, <3>1, AddedAt
      <3>6. Added[list][e] = Append(Added[s][e], x)
        BY <2>1, <3>3, <3>4, <3>5, ChangedAppend
      <3> HIDE DEF list, m
      <3>7. Added[s][e] \in Seq(Entries)
        BY <2>1, AddedType
      <3>8. MergedInto(acc, Added[list][e]) = Added[MergedInto(acc, Added[s][e])][x]
        BY <3>6, <3>7, FoldAppend
      <3>9. MergedInto(acc, Added[s][e]) = Added[m][e]
        BY <2>2 DEF m
      <3>10. Kind(e) \in Kinds(m)
        BY <2>3, <2>7
      <3>11. Added[Added[m][e]][x] = Added[Added[m][x]][e]
        BY <2>3, <2>7, <3>10, AddedCommute
      <3>12. QED
        BY <2>4, <3>8, <3>9, <3>11
    <2>8. QED
      BY <2>2, <2>5, <2>6, <2>7
  <1>4. Seq(Entries) \subseteq Good
    <2>1. Good \in SUBSET Seq(Entries)
      OBVIOUS
    <2> HIDE DEF Good
    <2>2. QED
      BY <1>2, <1>3, <2>1, ListInduction
  <1>5. QED
    BY <1>4

\* What has been merged already may be merged again.
LEMMA MergedTwice ==
    ASSUME round \in Rounds, NEW acc \in Seq(Entries), Distinct(acc)
    PROVE  \A s \in Seq(Entries) : MergedInto(acc, MergedInto(<<>>, s)) = MergedInto(acc, s)
  <1> DEFINE Good == {s \in Seq(Entries) : MergedInto(acc, MergedInto(<<>>, s)) = MergedInto(acc, s)}
  <1>0. <<>> \in Seq(Entries) /\ Distinct(<<>>)
    BY KindsOf
  <1>1. <<>> \in Good
    BY <1>0, FoldSteps
  <1>2. ASSUME NEW s \in Good, NEW e \in Entries
        PROVE  Append(s, e) \in Good
    <2> DEFINE m == MergedInto(<<>>, s)
    <2>1. s \in Seq(Entries) /\ Append(s, e) \in Seq(Entries) /\ MergedInto(acc, m) = MergedInto(acc, s)
      OBVIOUS
    <2>2. m \in Seq(Entries) /\ Distinct(m)
      BY <1>0, <2>1, MergedKinds
    <2>3. MergedInto(<<>>, Append(s, e)) = Added[m][e]
      BY <1>0, <2>1, FoldAppend
    <2> HIDE DEF m
    <2>4. MergedInto(acc, Added[m][e]) = Added[MergedInto(acc, m)][e]
      BY <2>2, MergedAdded
    <2>5. MergedInto(acc, Append(s, e)) = Added[MergedInto(acc, s)][e]
      BY <2>1, FoldAppend
    <2>6. QED
      BY <2>1, <2>3, <2>4, <2>5
  <1>3. Seq(Entries) \subseteq Good
    <2>1. Good \in SUBSET Seq(Entries)
      OBVIOUS
    <2> HIDE DEF Good
    <2>2. QED
      BY <1>1, <1>2, <2>1, ListInduction
  <1>4. QED
    BY <1>3

\* Two sequences are merged one after the other.
LEMMA MergedConcat ==
    ASSUME NEW acc \in Seq(Entries), NEW s \in Seq(Entries)
    PROVE  \A t \in Seq(Entries) : MergedInto(acc, s \o t) = MergedInto(MergedInto(acc, s), t)
  <1> DEFINE m == MergedInto(acc, s)
             Good == {t \in Seq(Entries) : MergedInto(acc, s \o t) = MergedInto(m, t)}
  <1>0. m \in Seq(Entries)
    BY FoldSteps
  <1> HIDE DEF m
  <1>1. <<>> \in Good
    <2>1. s \o <<>> = s
      BY ConcatEmptySeq
    <2>2. MergedInto(m, <<>>) = m
      BY <1>0, FoldSteps
    <2>3. <<>> \in Seq(Entries)
      OBVIOUS
    <2>4. QED
      BY <2>1, <2>2, <2>3 DEF m
  <1>2. ASSUME NEW t \in Good, NEW e \in Entries
        PROVE  Append(t, e) \in Good
    <2>1. t \in Seq(Entries) /\ Append(t, e) \in Seq(Entries) /\ MergedInto(acc, s \o t) = MergedInto(m, t)
      OBVIOUS
    <2>2. s \o t \in Seq(Entries) /\ s \o Append(t, e) = Append(s \o t, e)
      <3>1. s \o t \in Seq(Entries) /\ <<e>> \in Seq(Entries)
        BY <2>1
      <3>2. Append(t, e) = t \o <<e>> /\ Append(s \o t, e) = (s \o t) \o <<e>>
        BY <2>1, <3>1, AppendIsConcat
      <3>3. (s \o t) \o <<e>> = s \o (t \o <<e>>)
        BY <2>1, <3>1, ConcatAssociative
      <3>4. QED
        BY <3>1, <3>2, <3>3
    <2>3. MergedInto(acc, Append(s \o t, e)) = Added[MergedInto(acc, s \o t)][e]
      BY <2>2, FoldAppend
    <2>4. MergedInto(m, Append(t, e)) = Added[MergedInto(m, t)][e]
      BY <1>0, <2>1, FoldAppend
    <2>5. QED
      BY <2>1, <2>2, <2>3, <2>4
  <1>3. Seq(Entries) \subseteq Good
    <2>1. Good \in SUBSET Seq(Entries)
      OBVIOUS
    <2> HIDE DEF Good
    <2>2. QED
      BY <1>1, <1>2, <2>1, ListInduction
  <1>4. QED
    BY <1>3 DEF m

\* The chunks that have been given away, one behind the other, are the beginning
\* of what the round reads.
Upto(k) == IF k * MAXWORDS < Len(Input) THEN k * MAXWORDS ELSE Len(Input)

\* The next chunk goes behind them.
LEMMA ChunkAdjacent ==
    ASSUME Input \in Seq(Entries), NEW k \in Nat, k * MAXWORDS < Len(Input)
    PROVE  /\ Chunk(k) \in Seq(Entries) /\ SubSeq(Input, 1, Upto(k)) \in Seq(Entries)
           /\ SubSeq(Input, 1, Upto(k)) \o Chunk(k) = SubSeq(Input, 1, Upto(k + 1))
  <1> DEFINE from == k * MAXWORDS
             n == Len(Input)
             to == Upto(k + 1)
  <1>1. n \in Nat /\ from \in Nat /\ (k + 1) * MAXWORDS = from + MAXWORDS /\ MAXWORDS \in Nat /\ MAXWORDS > 0
    BY Sizes
  <1>2. Upto(k) = from /\ to = IF from + MAXWORDS < n THEN from + MAXWORDS ELSE n
    BY <1>1 DEF Upto
  <1>3. Chunk(k) = SubSeq(Input, from + 1, to)
    BY <1>1, <1>2 DEF Chunk
  <1>4. Chunk(k) \in Seq(Entries)
    BY ChunkType
  <1> HIDE DEF from, n, to
  <1>5. 1 \in 1..(n + 1) /\ from \in (1 - 1)..n /\ to \in from..n
    BY <1>1, <1>2 DEF from, n
  <1>6. SubSeq(Input, 1, from) \o SubSeq(Input, from + 1, to) = SubSeq(Input, 1, to)
    BY <1>5, ConcatAdjacentSubSeq DEF n
  <1>7. SubSeq(Input, 1, from) \in Seq(Entries)
    <2>1. \A i \in 1..from : Input[i] \in Entries
      BY <1>1, <1>5, ElementOfSeq DEF n
    <2>2. QED
      BY <1>1, <2>1, SubSeqProperties
  <1>8. QED
    BY <1>2, <1>3, <1>4, <1>6, <1>7 DEF to

\* Reducing the lists of all chunks gives what reducing the input as a whole does.
LEMMA ChunksMerged ==
    ASSUME round \in Rounds, Input \in Seq(Entries), NEW n \in Nat, n * MAXWORDS >= Len(Input),
           n > 0 => (n - 1) * MAXWORDS < Len(Input)
    PROVE  Reduced(FlattenSeq([i \in 1..n |-> Merged(Chunk(i - 1))])) = Reduced(Input)
  <1> DEFINE s == [i \in 1..n |-> Merged(Chunk(i - 1))]
  <1>0. <<>> \in Seq(Entries) /\ Distinct(<<>>)
    BY KindsOf
  <1>1. \A i \in 1..n : i - 1 \in Nat /\ (i - 1) * MAXWORDS < Len(Input)
    <2> SUFFICES ASSUME NEW i \in 1..n PROVE i - 1 \in Nat /\ (i - 1) * MAXWORDS < Len(Input)
      OBVIOUS
    <2> DEFINE a == i - 1
               b == n - 1
    <2>1. a \in Nat /\ b \in Nat /\ a <= b /\ n > 0
      OBVIOUS
    <2> HIDE DEF a, b
    <2>2. a * MAXWORDS <= b * MAXWORDS /\ a * MAXWORDS \in Nat /\ b * MAXWORDS \in Nat
      BY <2>1, Sizes
    <2>3. b * MAXWORDS < Len(Input) /\ Len(Input) \in Nat
      BY <2>1 DEF b
    <2>4. QED
      BY <2>1, <2>2, <2>3 DEF a
  <1>2. \A i \in 1..n : s[i] \in Seq(Entries) /\ s[i] = MergedInto(<<>>, Chunk(i - 1))
    BY <1>1, ChunkType, MergedType, MergedIs
  <1>3. s \in Seq(Seq(Entries)) /\ Len(s) = n
    BY <1>2
  <1>4. CASE n = 0
    <2>1. Len(Input) = 0 /\ s = <<>> /\ Len(<<>>) = 0
      BY <1>3, <1>4, Sizes
    <2>2. Input = <<>> /\ FlattenSeq(s) = <<>>
      BY <2>1 DEF FlattenSeq
    <2>3. QED
      BY <2>2
  <1>5. CASE n # 0
    <2> HIDE DEF s
    <2>1. PICK f \in [1..n -> Seq(Entries)] :
              /\ \A k \in 1..n : f[k] = IF k = 1 THEN s[k] ELSE f[k - 1] \o s[k]
              /\ FlattenSeq(s) = f[n]
      BY <1>3, <1>5, FlattenIs
    <2> DEFINE Right(k) == MergedInto(<<>>, f[k]) = MergedInto(<<>>, SubSeq(Input, 1, Upto(k)))
               Good == {k \in 0..n : k = 0 \/ Right(k)}
    <2>2. 0 \in Good
      BY <1>5
    <2>3. ASSUME NEW k \in 0..(n - 1), k \in Good
          PROVE  k + 1 \in Good
      <3> DEFINE m == k + 1
                 before == SubSeq(Input, 1, Upto(k))
      <3>1. m \in 1..n /\ m \in 0..n /\ m - 1 = k /\ k \in Nat /\ k * MAXWORDS < Len(Input)
        <4>1. m \in 1..n /\ m \in 0..n /\ m - 1 = k /\ k \in Nat
          OBVIOUS
        <4> HIDE DEF m
        <4>2. (m - 1) * MAXWORDS < Len(Input)
          BY <1>1, <4>1
        <4>3. QED
          BY <4>1, <4>2
      <3>2. before \in Seq(Entries) /\ Chunk(k) \in Seq(Entries) /\ before \o Chunk(k) = SubSeq(Input, 1, Upto(m))
        BY <3>1, ChunkAdjacent
      <3> HIDE DEF m
      <3>3. s[m] = MergedInto(<<>>, Chunk(k)) /\ s[m] \in Seq(Entries)
        BY <1>2, <3>1
      <3>4. f[m] = IF m = 1 THEN s[m] ELSE f[k] \o s[m]
        BY <2>1, <3>1
      <3>5. CASE k = 0
        <4>1. f[m] = s[m]
          BY <3>1, <3>4, <3>5
        <4>2. before = <<>>
          <5>1. Upto(k) = 0
            BY <3>1, <3>5, Sizes DEF Upto
          <5>2. QED
            BY <5>1, SubSeqEmpty
        <4>3. SubSeq(Input, 1, Upto(m)) = Chunk(k)
          BY <3>2, <4>2, ConcatEmptySeq
        <4>4. MergedInto(<<>>, s[m]) = MergedInto(<<>>, Chunk(k))
          BY <1>0, <3>2, <3>3, MergedTwice
        <4>5. QED
          BY <3>1, <4>1, <4>3, <4>4 DEF m
      <3>6. CASE k # 0
        <4>1. k \in 1..n /\ f[m] = f[k] \o s[m] /\ f[k] \in Seq(Entries)
          <5>1. k \in 1..n /\ m # 1
            BY <3>1, <3>6
          <5>2. f[k] \in Seq(Entries)
            BY <5>1
          <5>3. QED
            BY <3>4, <5>1, <5>2
        <4>2. MergedInto(<<>>, f[k]) = MergedInto(<<>>, before)
          BY <2>3, <3>6
        <4> DEFINE acc == MergedInto(<<>>, before)
        <4>3. acc \in Seq(Entries) /\ Distinct(acc)
          BY <1>0, <3>2, MergedKinds
        <4> HIDE DEF acc, before
        <4>4. MergedInto(<<>>, f[m]) = MergedInto(acc, s[m])
          <5> DEFINE x == f[k]
                     y == s[m]
          <5>1. x \in Seq(Entries) /\ y \in Seq(Entries) /\ f[m] = x \o y /\ MergedInto(<<>>, x) = acc
            BY <3>3, <4>1, <4>2 DEF acc
          <5> HIDE DEF x, y
          <5>2. MergedInto(<<>>, x \o y) = MergedInto(MergedInto(<<>>, x), y)
            BY <1>0, <5>1, MergedConcat
          <5>3. QED
            BY <5>1, <5>2 DEF y
        <4>5. MergedInto(acc, s[m]) = MergedInto(acc, Chunk(k))
          BY <3>2, <3>3, <4>3, MergedTwice
        <4>6. MergedInto(<<>>, before \o Chunk(k)) = MergedInto(acc, Chunk(k))
          BY <1>0, <3>2, MergedConcat DEF acc
        <4>7. Right(m)
          BY <3>2, <4>4, <4>5, <4>6
        <4>8. QED
          BY <3>1, <4>7 DEF m
      <3>7. QED
        BY <3>5, <3>6
    <2>4. 0..n \subseteq Good
      <3> HIDE DEF Good
      <3>1. QED
        BY <2>2, <2>3, SetInduction
    <2>5. Right(n)
      BY <1>5, <2>4
    <2>6. SubSeq(Input, 1, Upto(n)) = Input
      <3>1. Upto(n) = Len(Input)
        BY Sizes DEF Upto
      <3>2. QED
        BY <3>1, SubSeqFull
    <2>7. Merged(FlattenSeq(s)) = Merged(Input)
      BY <2>1, <2>5, <2>6, MergedIs
    <2>8. QED
      BY <2>7 DEF Reduced, s
  <1>6. QED
    BY <1>4, <1>5

-----------------------------------------------------------------------------
(* A list whose entries can be told apart is in one order only. *)

\* The library's operators are the same in the two modules.
LEMMA CountOperators ==
    /\ \A S : Count!Cardinality(S) = Cardinality(S)
    /\ \A s : Count!ToSet(s) = ToSet(s)
  <1>1. \A S : Count!Cardinality(S) = Cardinality(S)
    BY DEF Count!Cardinality, Cardinality, Count!IsFiniteSet, IsFiniteSet
  <1>2. \A s : Count!ToSet(s) = ToSet(s)
    BY DEF Count!ToSet, ToSet
  <1>3. QED
    BY <1>1, <1>2

\* Sequences of distinct elements that are as many as there are have them all.
LEMMA AllOnce ==
    ASSUME NEW S, IsFiniteSet(S), NEW s \in Injection(1..Cardinality(S), S)
    PROVE  \A x \in S : \E i \in 1..Cardinality(S) : s[i] = x
  <1> DEFINE n == Cardinality(S)
  <1>1. n \in Nat
    BY FS_CardinalityType
  <1>2. Cardinality(1..n) = n
    BY <1>1, FS_Interval
  <1>3. s \in Surjection(1..n, S)
    BY <1>2, FS_Injection
  <1>4. QED
    BY <1>3 DEF Surjection

\* Two sequences of all elements of a set, both in order, are one.
Asymmetric(R, S) == \A a, b \in S : <<a, b>> \in R => <<b, a>> \notin R
InOrderOf(R, S, s) ==
    s \in [1..Cardinality(S) -> S] /\ \A i, j \in 1..Cardinality(S) : i < j => <<s[i], s[j]>> \in R

\* At each place there is the same element in both.
LEMMA SortedUnique ==
    ASSUME NEW S, IsFiniteSet(S), NEW R, Asymmetric(R, S), NEW s, InOrderOf(R, S, s), NEW t, InOrderOf(R, S, t)
    PROVE  s = t
  <1>1. PICK n : n = Cardinality(S)
    OBVIOUS
  <1> DEFINE Good == {k \in 0..n : \A i \in 1..k : s[i] = t[i]}
  <1>2. n \in Nat
    BY <1>1, FS_CardinalityType
  <1>3. /\ \A a, b \in S : <<a, b>> \in R => <<b, a>> \notin R
        /\ s \in [1..n -> S] /\ t \in [1..n -> S]
        /\ \A i, j \in 1..n : i < j => <<s[i], s[j]>> \in R /\ <<t[i], t[j]>> \in R
    BY <1>1 DEF Asymmetric, InOrderOf
  <1>4. \A i, j \in 1..n : (s[i] = s[j] \/ t[i] = t[j]) => i = j
    <2> SUFFICES ASSUME NEW i \in 1..n, NEW j \in 1..n, i < j
                 PROVE  s[i] # s[j] /\ t[i] # t[j]
      BY <1>2
    <2>1. <<s[i], s[j]>> \in R /\ <<t[i], t[j]>> \in R /\ s[i] \in S /\ s[j] \in S /\ t[i] \in S /\ t[j] \in S
      BY <1>3
    <2>2. QED
      BY <1>3, <2>1
  <1>5. \A x \in S : (\E i \in 1..n : s[i] = x) /\ (\E i \in 1..n : t[i] = x)
    <2>1. s \in Injection(1..n, S) /\ t \in Injection(1..n, S)
      BY <1>4, <1>3 DEF Injection, IsInjective
    <2>2. \A x \in S : \E i \in 1..n : s[i] = x
      BY ONLY IsFiniteSet(S), n = Cardinality(S), <2>1, AllOnce
    <2>3. \A x \in S : \E i \in 1..n : t[i] = x
      BY ONLY IsFiniteSet(S), n = Cardinality(S), <2>1, AllOnce
    <2>4. QED
      BY <2>2, <2>3
  <1>6. 0 \in Good
    BY <1>2
  <1>7. ASSUME NEW k \in 0..(n - 1), k \in Good
        PROVE  k + 1 \in Good
    <2> DEFINE m == k + 1
    <2>1. m \in 1..n /\ m \in 0..n /\ \A i \in 1..n : i >= m \/ i \in 1..k
      BY <1>2
    <2>2. \A i \in 1..m : i = m \/ i \in 1..k
      BY <1>2
    <2>3. \A i \in 1..k : s[i] = t[i] /\ i \in 1..n
      BY <1>2, <1>7
    <2> HIDE DEF m
    <2>4. s[m] \in S /\ t[m] \in S
      BY <1>3, <2>1
    <2>5. PICK i \in 1..n : s[i] = t[m]
      BY <1>5, <2>4
    <2>6. PICK j \in 1..n : t[j] = s[m]
      BY <1>5, <2>4
    <2>7. i >= m /\ j >= m
      <3>1. ASSUME i \in 1..k PROVE FALSE
        <4>1. t[i] = t[m] /\ i < m
          BY <1>2, <2>3, <2>5, <3>1 DEF m
        <4>2. QED
          BY <1>4, <2>1, <4>1
      <3>2. ASSUME j \in 1..k PROVE FALSE
        <4>1. s[j] = s[m] /\ j < m
          BY <1>2, <2>3, <2>6, <3>2 DEF m
        <4>2. QED
          BY <1>4, <2>1, <4>1
      <3>3. QED
        BY <2>1, <3>1, <3>2
    <2>8. s[m] = t[m]
      <3> SUFFICES ASSUME i # m, j # m PROVE FALSE
        BY <2>5, <2>6
      <3>1. m < i /\ m < j
        BY <1>2, <2>1, <2>7
      <3>2. <<s[m], s[i]>> \in R /\ <<t[m], t[j]>> \in R
        BY <1>3, <2>1, <3>1
      <3>3. QED
        BY <1>3, <2>4, <2>5, <2>6, <3>2
    <2>9. QED
      BY <2>1, <2>2, <2>3, <2>8 DEF m
  <1>8. 0..n \subseteq Good
    <2> HIDE DEF Good
    <2>1. QED
      BY <1>2, <1>6, <1>7, SetInduction
  <1>9. \A i \in 1..n : s[i] = t[i]
    BY <1>2, <1>8
  <1>10. s = [i \in 1..n |-> s[i]] /\ t = [i \in 1..n |-> t[i]]
    BY <1>3
  <1>11. QED
    BY <1>9, <1>10

\* Entries of which no two begin with the same word.
Words == DOMAIN Length
Told(list) ==
    /\ list \in Seq(Entries) /\ \A i \in DOMAIN list : list[i].string # <<>>
    /\ \A i, j \in DOMAIN list : list[i].string[1] = list[j].string[1] => i = j
Ordered(s) == \A i, j \in DOMAIN s : i < j => Before(s[i], s[j])

\* The order of the entries is strict and transitive, and total on entries that
\* begin with different words.
LEMMA BeforeIs ==
    \A a, b, c \in Entries :
           (a.string # <<>> /\ b.string # <<>> /\ c.string # <<>>) =>
                /\ Before(a, b) => ~ Before(b, a)
                /\ (Before(a, b) /\ Before(b, c)) => Before(a, c)
                /\ a.string[1] # b.string[1] => (Before(a, b) \/ Before(b, a))
  <1>1. Words \subseteq Int
    BY SizesAssumption DEF Words
  <1>2. \A a \in Entries : a.count \in Nat /\ (a.string # <<>> => a.string[1] \in Words)
    <2>1. ASSUME NEW a \in Entries, a.string # <<>>
          PROVE  a.string[1] \in Words
      <3>1. a.string \in Seq(Words)
        BY DEF Entries, Words
      <3>2. Len(a.string) # 0
        BY <2>1, <3>1, EmptySeq
      <3>3. QED
        BY <3>1, <3>2, ElementOfSeq
    <2>2. QED
      BY <2>1 DEF Entries
  <1>3. ASSUME NEW a \in Entries, NEW b \in Entries, NEW c \in Entries
        PROVE  (a.string # <<>> /\ b.string # <<>> /\ c.string # <<>>) =>
                    /\ Before(a, b) => ~ Before(b, a)
                    /\ (Before(a, b) /\ Before(b, c)) => Before(a, c)
                    /\ a.string[1] # b.string[1] => (Before(a, b) \/ Before(b, a))

    <2>2. ASSUME a.string # <<>>, b.string # <<>>, c.string # <<>>
          PROVE  /\ Before(a, b) => ~ Before(b, a)
                 /\ (Before(a, b) /\ Before(b, c)) => Before(a, c)
                 /\ a.string[1] # b.string[1] => (Before(a, b) \/ Before(b, a))
      <3>0. \A e \in Entries : e.string # <<>> => (e.count \in Int /\ e.string[1] \in Int)
        <4>1. \A e \in Entries : e.count \in Int
          BY <1>2
        <4>2. \A e \in Entries : e.string # <<>> => e.string[1] \in Int
          BY <1>1, <1>2
        <4>3. QED
          BY <4>1, <4>2
      <3>1. /\ a.count \in Int /\ b.count \in Int /\ c.count \in Int
            /\ a.string[1] \in Int /\ b.string[1] \in Int /\ c.string[1] \in Int
        BY <3>0, <2>2
      <3>2. QED
        BY <3>1 DEF Before
    <2>3. QED
      BY <2>2
  <1>4. QED
    BY <1>3

\* A sequence that has each element once has as many as it is long.
LEMMA OnceEach ==
    ASSUME NEW S, NEW s \in Seq(S), \A i, j \in 1..Len(s) : s[i] = s[j] => i = j
    PROVE  IsFiniteSet(ToSet(s)) /\ Cardinality(ToSet(s)) = Len(s) /\ s \in [1..Len(s) -> ToSet(s)]
  <1> DEFINE n == Len(s)
             T == ToSet(s)
  <1>1. n \in Nat /\ s \in [1..n -> S]
    OBVIOUS
  <1>2. IsFiniteSet(1..n) /\ Cardinality(1..n) = n
    BY <1>1, FS_Interval
  <1>3. T = {s[i] : i \in 1..n}
    BY <1>1 DEF ToSet
  <1>4. s \in [1..n -> T] /\ s \in Surjection(1..n, T) /\ s \in Injection(1..n, T)
    BY <1>1, <1>3 DEF Surjection, Injection, IsInjective
  <1> HIDE DEF T
  <1>5. IsFiniteSet(T) /\ (Cardinality(T) = Cardinality(1..n) <=> s \in Injection(1..n, T))
    BY ONLY <1>2, <1>4, FS_Surjection
  <1>6. QED
    BY <1>2, <1>4, <1>5 DEF T

\* What bubbleSort makes of a list that can be told apart is in order, and has the
\* same entries.
LEMMA Sorts ==
    ASSUME NEW list, Told(list)
    PROVE  /\ bubbleSort[list] \in [1..Len(list) -> ToSet(list)] /\ Ordered(bubbleSort[list])
           /\ IsFiniteSet(ToSet(list)) /\ Cardinality(ToSet(list)) = Len(list)
  <1> DEFINE n == Len(list)
             A(i) == Ahead(list, i)
             rank == [i \in 1..n |-> Cardinality(A(i)) + 1]
             at(k) == CHOOSE i \in DOMAIN list : Cardinality(A(i)) = k - 1
  <1>1. list \in Seq(Entries) /\ n \in Nat /\ DOMAIN list = 1..n /\ list \in [1..n -> Entries]
    BY DEF Told
  <1>2. \A i \in 1..n : list[i] \in Entries /\ list[i].string # <<>>
    BY <1>1 DEF Told
  <1>3. \A i, j \in 1..n : /\ i # j => (Before(list[i], list[j]) \/ Before(list[j], list[i]))
                           /\ Before(list[i], list[j]) => ~ Before(list[j], list[i])
    BY <1>1, <1>2, BeforeIs DEF Told
  <1>4. \A i, j, k \in 1..n : Before(list[i], list[j]) /\ Before(list[j], list[k]) => Before(list[i], list[k])
    BY <1>2, BeforeIs
  <1>5. \A i \in 1..n : A(i) = {j \in 1..n : Before(list[j], list[i])}
    BY <1>1, <1>3 DEF Ahead
  <1> HIDE DEF A
  <1>6. \A i \in 1..n : IsFiniteSet(A(i)) /\ Cardinality(A(i)) \in 0..(n - 1)
    <2> SUFFICES ASSUME NEW i \in 1..n PROVE IsFiniteSet(A(i)) /\ Cardinality(A(i)) \in 0..(n - 1)
      OBVIOUS
    <2>1. IsFiniteSet(1..n) /\ Cardinality(1..n) = n
      <3>1. n \in Nat
        BY <1>1
      <3> HIDE DEF n
      <3>2. 1 \in Int /\ n \in Int /\ n - 1 + 1 = n /\ (n < 1 => n = 0)
        BY <3>1
      <3>3. IsFiniteSet(1..n) /\ Cardinality(1..n) = (IF 1 > n THEN 0 ELSE n - 1 + 1)
        BY <3>2, FS_Interval
      <3>4. QED
        BY <3>2, <3>3
    <2>2. IsFiniteSet((1..n) \ {i}) /\ Cardinality((1..n) \ {i}) = n - 1
      BY <2>1, FS_RemoveElement
    <2>3. A(i) \subseteq (1..n) \ {i}
      BY <1>3, <1>5
    <2>4. IsFiniteSet(A(i)) /\ Cardinality(A(i)) <= n - 1
      BY <2>2, <2>3, FS_Subset
    <2>5. Cardinality(A(i)) \in Nat
      BY <2>4, FS_CardinalityType
    <2>6. QED
      BY <1>1, <2>4, <2>5
  <1>7. \A i, j \in 1..n : Before(list[i], list[j]) => Cardinality(A(i)) < Cardinality(A(j))
    <2> SUFFICES ASSUME NEW i \in 1..n, NEW j \in 1..n, Before(list[i], list[j])
                 PROVE  Cardinality(A(i)) < Cardinality(A(j))
      OBVIOUS
    <2>1. A(i) \subseteq A(j) /\ i \in A(j) /\ i \notin A(i)
      BY <1>3, <1>4, <1>5
    <2>2. A(i) # A(j)
      BY <2>1
    <2>3. Cardinality(A(i)) <= Cardinality(A(j)) /\ Cardinality(A(i)) # Cardinality(A(j))
      BY <1>6, <2>1, <2>2, FS_Subset
    <2>4. QED
      BY <1>1, <1>6, <2>3
  <1>8. rank \in Injection(1..n, 1..n)
    <2>1. rank \in [1..n -> 1..n]
      BY <1>1, <1>6
    <2>2. \A i, j \in 1..n : rank[i] = rank[j] => i = j
      <3> SUFFICES ASSUME NEW i \in 1..n, NEW j \in 1..n, i # j PROVE rank[i] # rank[j]
        OBVIOUS
      <3>1. Cardinality(A(i)) \in Nat /\ Cardinality(A(j)) \in Nat
        BY <1>6
      <3>2. Cardinality(A(i)) # Cardinality(A(j))
        BY <1>3, <1>7, <3>1
      <3>3. QED
        BY <3>1, <3>2
    <2>3. QED
      BY <2>1, <2>2 DEF Injection, IsInjective
  <1>9. \A k \in 1..n : \E i \in 1..n : rank[i] = k
    <2>1. IsFiniteSet(1..n) /\ Cardinality(1..n) = n
      BY <1>1, FS_Interval
    <2> HIDE DEF rank, n
    <2>2. rank \in Injection(1..Cardinality(1..n), 1..n)
      BY <1>8, <2>1
    <2> DEFINE S == 1..n
               m == Cardinality(S)
    <2>3. IsFiniteSet(S) /\ rank \in Injection(1..m, S)
      BY <2>1, <2>2
    <2> HIDE DEF S
    <2>4. \A k \in S : \E i \in 1..m : rank[i] = k
      BY ONLY <2>3, AllOnce
    <2>5. QED
      BY <2>1, <2>4 DEF S
  <1>10. \A k \in 1..n : at(k) \in 1..n /\ Cardinality(A(at(k))) = k - 1
    <2> SUFFICES ASSUME NEW k \in 1..n PROVE at(k) \in 1..n /\ Cardinality(A(at(k))) = k - 1
      OBVIOUS
    <2>1. PICK i \in 1..n : rank[i] = k
      BY <1>9
    <2>2. Cardinality(A(i)) = k - 1
      BY <1>1, <1>6, <2>1
    <2>3. QED
      BY <1>1, <2>2
  <1>11. bubbleSort[list] = [k \in 1..n |-> list[at(k)]]
    BY <1>1 DEF bubbleSort, A
  <1> HIDE DEF at
  <1>12. \A k, l \in 1..n : k < l => Before(list[at(k)], list[at(l)])
    <2> SUFFICES ASSUME NEW k \in 1..n, NEW l \in 1..n, k < l PROVE Before(list[at(k)], list[at(l)])
      OBVIOUS
    <2>1. /\ at(k) \in 1..n /\ Cardinality(A(at(k))) = k - 1
          /\ at(l) \in 1..n /\ Cardinality(A(at(l))) = l - 1
      BY <1>10
    <2>2. at(k) # at(l)
      BY <1>1, <2>1
    <2>3. ~ Before(list[at(l)], list[at(k)])
      BY <1>1, <1>7, <2>1
    <2>4. QED
      BY <1>3, <2>1, <2>2, <2>3
  <1>13. bubbleSort[list] \in [1..n -> ToSet(list)]
    BY <1>1, <1>10, <1>11 DEF ToSet
  <1>14. Ordered(bubbleSort[list])
    BY <1>11, <1>12 DEF Ordered
  <1>15. IsFiniteSet(ToSet(list)) /\ Cardinality(ToSet(list)) = n
    <2>1. \A i, j \in 1..n : list[i] = list[j] => i = j
      BY <1>1 DEF Told
    <2>2. QED
      BY <1>1, <2>1, OnceEach
  <1>16. QED
    BY <1>13, <1>14, <1>15

\* The set of the entries, in order, is the one list that is in order: of entries,
LEMMA InOrderIs ==
    ASSUME NEW S \in SUBSET Entries, IsFiniteSet(S), \A e \in S : e.string # <<>>,
           NEW s \in [1..Cardinality(S) -> S], Ordered(s)
    PROVE  Count!InOrder(S, Count!Before) = s
  <1> DEFINE n == Cardinality(S)
             R == {p \in S \X S : Before(p[1], p[2])}
             r == Count!InOrder(S, Count!Before)
  <1>1. \A a, b : Count!Before(a, b) <=> Before(a, b)
    BY DEF Count!Before, Before
  <1>2. r = CHOOSE x \in [1..n -> S] : \A i, j \in DOMAIN x : i < j => Count!Before(x[i], x[j])
    BY CountOperators DEF Count!InOrder
  <1>3. \A i, j \in DOMAIN s : i < j => Count!Before(s[i], s[j])
    BY <1>1 DEF Ordered
  <1>4. r \in [1..n -> S] /\ \A i, j \in DOMAIN r : i < j => Count!Before(r[i], r[j])
    BY <1>2, <1>3
  <1>5. \A i, j \in DOMAIN r : i < j => Before(r[i], r[j])
    BY <1>1, <1>4
  <1>6. \A i, j \in 1..n : i < j => <<s[i], s[j]>> \in R /\ <<r[i], r[j]>> \in R
    <2> HIDE DEF r
    <2>1. QED
      BY <1>4, <1>5 DEF Ordered
  <1>7. Asymmetric(R, S)
    BY BeforeIs DEF Asymmetric
  <1> HIDE DEF R, r
  <1>8. InOrderOf(R, S, s) /\ InOrderOf(R, S, r)
    BY <1>4, <1>6 DEF InOrderOf
  <1>9. s = r
    BY <1>7, <1>8, SortedUnique
  <1>10. QED
    BY <1>9 DEF r

\* and of words.
LEMMA WordsInOrder ==
    ASSUME NEW S \in SUBSET Words, IsFiniteSet(S),
           NEW s \in [1..Cardinality(S) -> S], \A i, j \in DOMAIN s : i < j => s[i] < s[j]
    PROVE  Count!InOrder(S, <) = s
  <1> DEFINE n == Cardinality(S)
             R == {p \in S \X S : p[1] < p[2]}
             r == Count!InOrder(S, <)
  <1>1. r = CHOOSE x \in [1..n -> S] : \A i, j \in DOMAIN x : i < j => x[i] < x[j]
    BY CountOperators DEF Count!InOrder
  <1>2. r \in [1..n -> S] /\ \A i, j \in DOMAIN r : i < j => r[i] < r[j]
    BY <1>1
  <1>3. \A i, j \in 1..n : i < j => <<s[i], s[j]>> \in R /\ <<r[i], r[j]>> \in R
    <2> HIDE DEF r
    <2>1. QED
      BY <1>2
  <1>4. Asymmetric(R, S)
    BY SizesAssumption DEF Words, Asymmetric
  <1> HIDE DEF R, r
  <1>5. InOrderOf(R, S, s) /\ InOrderOf(R, S, r)
    BY <1>2, <1>3 DEF InOrderOf
  <1>6. s = r
    BY <1>4, <1>5, SortedUnique
  <1>7. QED
    BY <1>6 DEF r

\* A list that is in order is its entries in order.
LEMMA OrderedIs ==
    ASSUME NEW s \in Seq(Entries), \A i \in DOMAIN s : s[i].string # <<>>, Ordered(s)
    PROVE  s = Count!InOrder(ToSet(s), Count!Before)
  <1>1. \A i, j \in 1..Len(s) : s[i] = s[j] => i = j
    <2> SUFFICES ASSUME NEW i \in 1..Len(s), NEW j \in 1..Len(s), i < j PROVE s[i] # s[j]
      OBVIOUS
    <2>1. i \in DOMAIN s /\ j \in DOMAIN s /\ s[i] \in Entries /\ s[j] \in Entries
      OBVIOUS
    <2>2. Before(s[i], s[j]) /\ s[i].string # <<>> /\ s[j].string # <<>>
      BY <2>1 DEF Ordered
    <2>3. ~ Before(s[j], s[i])
      BY <2>1, <2>2, BeforeIs
    <2>4. QED
      BY <2>2, <2>3
  <1>2. IsFiniteSet(ToSet(s)) /\ Cardinality(ToSet(s)) = Len(s) /\ s \in [1..Len(s) -> ToSet(s)]
    BY <1>1, OnceEach
  <1>3. ToSet(s) \in SUBSET Entries /\ \A e \in ToSet(s) : e.string # <<>>
    BY DEF ToSet
  <1>4. QED
    BY <1>2, <1>3, InOrderIs

\* A sequence of ascending words is what WordCount puts in order.
LEMMA WordsOrderedIs ==
    ASSUME NEW s \in Seq(Words), \A i, j \in DOMAIN s : i < j => s[i] < s[j]
    PROVE  s = Count!InOrder(ToSet(s), <)
  <1>1. \A i, j \in 1..Len(s) : s[i] = s[j] => i = j
    <2>1. Words \subseteq Int /\ \A i \in 1..Len(s) : s[i] \in Words /\ i \in DOMAIN s
      BY SizesAssumption DEF Words
    <2> SUFFICES ASSUME NEW i \in 1..Len(s), NEW j \in 1..Len(s), i < j PROVE s[i] # s[j]
      OBVIOUS
    <2>2. s[i] \in Int /\ s[j] \in Int /\ s[i] < s[j]
      BY <2>1
    <2>3. QED
      BY <2>2
  <1>2. IsFiniteSet(ToSet(s)) /\ Cardinality(ToSet(s)) = Len(s) /\ s \in [1..Len(s) -> ToSet(s)]
    BY <1>1, OnceEach
  <1>3. ToSet(s) \in SUBSET Words
    BY DEF ToSet
  <1>4. QED
    BY <1>2, <1>3, WordsInOrder

\* bubbleSort gives the entries of a list in order.
LEMMA SortedIs ==
    ASSUME NEW list, Told(list)
    PROVE  bubbleSort[list] = Count!InOrder(ToSet(list), Count!Before)
  <1>1. /\ bubbleSort[list] \in [1..Len(list) -> ToSet(list)] /\ Ordered(bubbleSort[list])
        /\ IsFiniteSet(ToSet(list)) /\ Cardinality(ToSet(list)) = Len(list)
    BY Sorts
  <1>2. ToSet(list) \in SUBSET Entries /\ \A e \in ToSet(list) : e.string # <<>>
    BY DEF ToSet, Told
  <1>3. QED
    BY <1>1, <1>2, InOrderIs

-----------------------------------------------------------------------------
(* What each round reduces its input to: first the words of the text. *)

\* An entry has the count and the words that it is made of.
LEMMA EntryIs ==
    /\ \A c, s : Entry(c, s) = [count |-> c, string |-> s] /\ Count!Entry(c, s) = Entry(c, s)
    /\ \A c \in Nat, w \in Words : /\ Entry(c, <<w>>) \in Entries /\ Entry(c, <<w>>).string = <<w>>
                                   /\ Entry(c, <<w>>).count = c /\ <<w>> # <<>> /\ <<w>>[1] = w
  BY DEF Entry, Count!Entry, Entries, Words

\* The number of places in P, up to one place and up to the next.
Places(k, P) == Cardinality((1..k) \cap P)

\* There is one place more if the next is in P.
LEMMA PlacesNext ==
    ASSUME NEW k \in Nat, NEW P
    PROVE  /\ Places(k, P) \in Nat /\ Places(0, P) = 0
           /\ Places(k + 1, P) = Places(k, P) + (IF k + 1 \in P THEN 1 ELSE 0)
  <1> DEFINE A == (1..k) \cap P
  <1>1. IsFiniteSet(1..k)
    BY FS_Interval
  <1>2. IsFiniteSet(A)
    BY <1>1, FS_Intersection
  <1>3. Cardinality(A) \in Nat
    BY <1>2, FS_CardinalityType
  <1>4. Places(0, P) = 0
    <2>1. (1..0) \cap P = {}
      OBVIOUS
    <2>2. QED
      BY <2>1, FS_EmptySet DEF Places
  <1>5. CASE k + 1 \in P
    <2>1. (1..(k + 1)) \cap P = A \union {k + 1} /\ k + 1 \notin A
      BY <1>5
    <2> HIDE DEF A
    <2>2. Cardinality(A \union {k + 1}) = Cardinality(A) + 1
      BY <1>2, <2>1, FS_AddElement
    <2>3. QED
      BY <1>2, <1>3, <1>4, <1>5, <2>1, <2>2 DEF A, Places
  <1>6. CASE k + 1 \notin P
    <2>1. (1..(k + 1)) \cap P = A
      BY <1>6
    <2> HIDE DEF A
    <2>2. QED
      BY <1>2, <1>3, <1>4, <1>6, <2>1 DEF A, Places
  <1>7. QED
    BY <1>5, <1>6

\* The places of a word in the text, all and the first ones.
Has(w) == {i \in DOMAIN text : text[i] = w}
First(k, w) == Places(k, Has(w))

\* Counting the places one after the other gives the occurrences of the word.
LEMMA FirstIs ==
    ASSUME text \in Seq(Words), NEW w
    PROVE  /\ First(Len(text), w) = Count!Occurrences(text, w) /\ First(0, w) = 0
           /\ \A k \in Nat : First(k, w) \in Nat
           /\ \A k \in 1..Len(text) : First(k, w) = First(k - 1, w) + (IF text[k] = w THEN 1 ELSE 0)
  <1>1. First(Len(text), w) = Count!Occurrences(text, w)
    <2>1. (1..Len(text)) \cap Has(w) = {i \in DOMAIN text : text[i] = w}
      BY DEF Has
    <2>2. QED
      BY <2>1, CountOperators DEF First, Places, Count!Occurrences
  <1>2. First(0, w) = 0
    BY PlacesNext DEF First
  <1>3. \A k \in Nat : First(k, w) \in Nat
    BY PlacesNext DEF First
  <1>4. ASSUME NEW k \in 1..Len(text)
        PROVE  First(k, w) = First(k - 1, w) + (IF text[k] = w THEN 1 ELSE 0)
    <2> DEFINE j == k - 1
    <2>1. j \in Nat /\ k = j + 1
      OBVIOUS
    <2>2. k \in Has(w) <=> text[k] = w
      BY DEF Has
    <2> HIDE DEF j
    <2>3. First(j + 1, w) = First(j, w) + (IF j + 1 \in Has(w) THEN 1 ELSE 0)
      BY <2>1, PlacesNext DEF First
    <2>4. QED
      BY <2>1, <2>2, <2>3 DEF j
  <1>5. QED
    BY <1>1, <1>2, <1>3, <1>4

\* Each word with the number of its places so far.
CountedUpTo(list, k) ==
    /\ list \in Seq(Entries) /\ Distinct(list) /\ Kinds(list) = {<<text[i]>> : i \in 1..k}
    /\ \A j \in DOMAIN list : \E w \in Words : list[j] = Entry(First(k, w), <<w>>)

\* Adding the entry of the next word keeps the counts right.
LEMMA CountedNext ==
    ASSUME round = 1, text \in Seq(Words), NEW m \in 1..Len(text), NEW list, CountedUpTo(list, m - 1)
    PROVE  CountedUpTo(Added[list][Entry(1, <<text[m]>>)], m)
  <1> DEFINE k == m - 1
             e == Entry(1, <<text[m]>>)
             next == Added[list][e]
  <1>1. round \in Rounds /\ list \in Seq(Entries) /\ Distinct(list) /\ Kinds(list) = {<<text[i]>> : i \in 1..k}
    BY DEF Rounds, CountedUpTo
  <1>2. text[m] \in Words /\ e \in Entries /\ Kind(e) = <<text[m]>>
    <2>1. text[m] \in Words
      OBVIOUS
    <2>2. e \in Entries /\ e.string = <<text[m]>>
      BY <2>1, EntryIs
    <2> HIDE DEF e
    <2>3. QED
      BY <2>1, <2>2 DEF Kind
  <1>3. \A w \in Words : First(m, w) = First(k, w) + (IF text[m] = w THEN 1 ELSE 0) /\ First(k, w) \in Nat
    <2>1. k \in Nat
      OBVIOUS
    <2>2. QED
      BY <2>1, FirstIs
  <1>4. next \in Seq(Entries) /\ Distinct(next) /\ Kinds(next) = Kinds(list) \union {<<text[m]>>}
    <2> HIDE DEF e
    <2>1. QED
      BY <1>1, <1>2, AddedKinds
  <1>5. Kinds(next) = {<<text[i]>> : i \in 1..m}
    <2>1. \A i : i \in 1..m <=> (i \in 1..k \/ i = m)
      OBVIOUS
    <2> HIDE DEF next, k
    <2>2. QED
      BY <1>1, <1>4, <2>1
  <1>6. \A j \in DOMAIN list : \E w \in Words :
            list[j] = Entry(First(k, w), <<w>>) /\ Kind(list[j]) = <<w>> /\ Kind(list[j]) \in Kinds(list)
    <2> SUFFICES ASSUME NEW j \in DOMAIN list
                 PROVE  \E w \in Words : list[j] = Entry(First(k, w), <<w>>) /\ Kind(list[j]) = <<w>> /\ Kind(list[j]) \in Kinds(list)
      OBVIOUS
    <2>1. PICK w \in Words : list[j] = Entry(First(k, w), <<w>>)
      BY DEF CountedUpTo
    <2>2. Kind(list[j]) = <<w>>
      <3>1. First(k, w) \in Nat
        BY <1>3
      <3>2. Entry(First(k, w), <<w>>).string = <<w>>
        BY <3>1, EntryIs
      <3>3. QED
        BY <2>1, <3>2 DEF Kind
    <2>3. Kind(list[j]) \in Kinds(list)
      BY DEF Kinds
    <2>4. QED
      BY <2>1, <2>2, <2>3
  <1>7. CASE Kind(e) \notin Kinds(list)
    <2>1. next = Append(list, e)
      <3> HIDE DEF e
      <3>1. QED
        BY <1>1, <1>2, <1>7, AddedNew
    <2>2. First(k, text[m]) = 0
      <3>1. (1..k) \cap Has(text[m]) = {}
        BY <1>1, <1>2, <1>7 DEF Has
      <3>2. QED
        BY <3>1, FS_EmptySet DEF First, Places
    <2>3. e = Entry(First(m, text[m]), <<text[m]>>)
      BY <1>2, <1>3, <2>2
    <2>4. \A j \in DOMAIN list : \E w \in Words : list[j] = Entry(First(m, w), <<w>>)
      <3> SUFFICES ASSUME NEW j \in DOMAIN list PROVE \E w \in Words : list[j] = Entry(First(m, w), <<w>>)
        OBVIOUS
      <3>1. PICK w \in Words : list[j] = Entry(First(k, w), <<w>>) /\ <<w>> \in Kinds(list)
        BY <1>6
      <3>2. w # text[m]
        BY <1>2, <1>7, <3>1
      <3>3. First(m, w) = First(k, w)
        BY <1>3, <3>2
      <3>4. QED
        BY <3>1, <3>3
    <2>5. \A j \in DOMAIN next : (j \in DOMAIN list /\ next[j] = list[j]) \/ next[j] = e
      <3> HIDE DEF e
      <3>1. QED
        BY <1>1, <2>1
    <2>6. \A j \in DOMAIN next : \E w \in Words : next[j] = Entry(First(m, w), <<w>>)
      <3> HIDE DEF next, e, k
      <3>1. QED
        BY <1>2, <2>3, <2>4, <2>5
    <2>7. QED
      BY <1>4, <1>5, <2>6 DEF CountedUpTo
  <1>8. CASE Kind(e) \in Kinds(list)
    <2>1. PICK p \in DOMAIN list : Kind(list[p]) = Kind(e)
      BY <1>8 DEF Kinds
    <2>2. next = [list EXCEPT ![p] = Joined(list[p], e)]
      <3> HIDE DEF e
      <3>1. QED
        BY <1>1, <1>2, <2>1, AddedAt
    <2>3. Joined(list[p], e) = Entry(First(m, text[m]), <<text[m]>>)
      <3>1. PICK w \in Words : list[p] = Entry(First(k, w), <<w>>) /\ Kind(list[p]) = <<w>>
        BY <1>6
      <3>2. w = text[m]
        <4>1. <<w>>[1] = w /\ <<text[m]>>[1] = text[m]
          OBVIOUS
        <4>2. QED
          BY <1>2, <2>1, <3>1, <4>1
      <3>3. list[p] = [count |-> First(k, w), string |-> <<w>>] /\ e.count = 1
        BY <3>1, EntryIs
      <3>4. Joined(list[p], e) = [count |-> First(k, w) + 1, string |-> <<w>>]
        BY <3>3 DEF Joined
      <3>5. QED
        BY <1>3, <3>2, <3>4, EntryIs
    <2>4. ASSUME NEW j \in DOMAIN list, j # p
          PROVE  \E w \in Words : list[j] = Entry(First(m, w), <<w>>)
      <3>1. PICK w \in Words : list[j] = Entry(First(k, w), <<w>>) /\ Kind(list[j]) = <<w>>
        BY <1>6
      <3>2. w # text[m]
        BY <1>1, <1>2, <2>1, <2>4, <3>1 DEF Distinct
      <3>3. First(m, w) = First(k, w)
        BY <1>3, <3>2
      <3>4. QED
        BY <3>1, <3>3
    <2>5. DOMAIN next = DOMAIN list /\ \A j \in DOMAIN list : next[j] = IF j = p THEN Joined(list[p], e) ELSE list[j]
      BY <2>2
    <2>6. \A j \in DOMAIN next : \E w \in Words : next[j] = Entry(First(m, w), <<w>>)
      <3> HIDE DEF next, e, k
      <3>1. QED
        BY <1>2, <2>3, <2>4, <2>5
    <2>7. QED
      BY <1>4, <1>5, <2>6 DEF CountedUpTo
  <1>9. QED
    BY <1>7, <1>8

\* A text has been cut into entries of one word each.
LEMMA InputOne ==
    ASSUME round = 1, text \in Seq(Words)
    PROVE  /\ Input \in Seq(Entries) /\ Len(Input) = Len(text)
           /\ \A i \in 1..Len(text) : Input[i] = Entry(1, <<text[i]>>)
  <1>1. Input = [i \in 1..Len(text) |-> Entry(1, <<text[i]>>)]
    BY DEF Input
  <1>2. \A i \in 1..Len(text) : Entry(1, <<text[i]>>) \in Entries
    <2>1. \A i \in 1..Len(text) : text[i] \in Words
      OBVIOUS
    <2>2. QED
      BY <2>1, EntryIs
  <1>3. Len(text) \in Nat
    OBVIOUS
  <1> HIDE DEF Input
  <1>4. QED
    BY <1>1, <1>2, <1>3

\* The first round counts the whole text.
LEMMA MergedOne ==
    ASSUME round = 1, text \in Seq(Words)
    PROVE  CountedUpTo(Merged(Input), Len(text))
  <1> DEFINE n == Len(text)
  <1>1. /\ Input \in Seq(Entries) /\ Len(Input) = n /\ n \in Nat
        /\ \A i \in 1..n : Input[i] = Entry(1, <<text[i]>>)
    BY InputOne
  <1>2. <<>> \in Seq(Entries)
    OBVIOUS
  <1>3. PICK f \in [0..n -> Seq(Entries)] :
            /\ f[0] = <<>> /\ \A k \in 1..n : f[k] = Added[f[k - 1]][Input[k]]
            /\ MergedInto(<<>>, Input) = f[n]
    <2> HIDE DEF n
    <2>1. \E f \in [0..Len(Input) -> Seq(Entries)] :
              /\ f[0] = <<>> /\ \A k \in 1..Len(Input) : f[k] = Added[f[k - 1]][Input[k]]
              /\ MergedInto(<<>>, Input) = f[Len(Input)]
      BY <1>1, <1>2, FoldIs
    <2>2. QED
      BY <1>1, <2>1
  <1> DEFINE Good == {k \in 0..n : CountedUpTo(f[k], k)}
  <1>4. 0 \in Good
    <2>1. 1..0 = {} /\ DOMAIN f[0] = {} /\ f[0] = <<>>
      BY <1>3
    <2>2. CountedUpTo(f[0], 0)
      BY <1>2, <2>1, KindsOf DEF CountedUpTo
    <2>3. QED
      BY <1>1, <2>2
  <1>5. ASSUME NEW k \in 0..(n - 1), k \in Good
        PROVE  k + 1 \in Good
    <2> DEFINE m == k + 1
    <2>1. m \in 1..n /\ m - 1 = k
      BY <1>1
    <2> HIDE DEF m
    <2>2. f[m] = Added[f[k]][Entry(1, <<text[m]>>)] /\ CountedUpTo(f[m - 1], m - 1)
      BY <1>1, <1>3, <1>5, <2>1
    <2>3. CountedUpTo(f[m], m)
      BY <2>1, <2>2, CountedNext
    <2>4. QED
      BY <2>1, <2>3 DEF m
  <1>6. 0..n \subseteq Good
    <2> HIDE DEF Good, n
    <2>1. QED
      BY <1>1, <1>4, <1>5, SetInduction
  <1>7. CountedUpTo(f[n], n)
    BY <1>1, <1>6
  <1>8. QED
    BY <1>3, <1>7, MergedIs

\* The first output of WordCount, with the operators that the lemmas speak of.
LEMMA RepetitionsIs ==
    ASSUME NEW t
    PROVE  Count!Repetitions(t) = Count!InOrder({Entry(Count!Occurrences(t, w), <<w>>) : w \in ToSet(t)}, Count!Before)
  BY CountOperators DEF Count!Repetitions, Entry

\* The first round counts the words.
LEMMA RoundOne ==
    ASSUME round = 1, text \in Seq(Words)
    PROVE  /\ Reduced(Input) = Count!Repetitions(text)
           /\ Told(Merged(Input)) /\ ToSet(Merged(Input)) = {Entry(Count!Occurrences(text, w), <<w>>) : w \in ToSet(text)}
  <1> DEFINE list == Merged(Input)
             n == Len(text)
             occ(w) == Count!Occurrences(text, w)
             all == {Entry(occ(w), <<w>>) : w \in ToSet(text)}
  <1>1. CountedUpTo(list, n)
    BY MergedOne
  <1> HIDE DEF list
  <1>2. /\ list \in Seq(Entries) /\ Distinct(list) /\ Kinds(list) = {<<text[i]>> : i \in 1..n}
        /\ \A j \in DOMAIN list : \E w \in Words : list[j] = Entry(First(n, w), <<w>>)
    BY <1>1 DEF CountedUpTo
  <1>3. \A w \in Words : First(n, w) = occ(w) /\ occ(w) \in Nat
    <2>1. n \in Nat
      OBVIOUS
    <2>2. QED
      BY <2>1, FirstIs
  <1> HIDE DEF occ
  <1>4. ToSet(text) = {text[i] : i \in 1..n} /\ ToSet(text) \subseteq Words
    BY DEF ToSet
  <1>5. ASSUME NEW j \in DOMAIN list
        PROVE  \E w \in ToSet(text) : list[j] = Entry(occ(w), <<w>>) /\ Kind(list[j]) = <<w>> /\ list[j].string = <<w>>
    <2>1. PICK w \in Words : list[j] = Entry(occ(w), <<w>>)
      BY <1>2, <1>3
    <2>2. list[j].string = <<w>>
      BY <1>3, <2>1, EntryIs
    <2>3. Kind(list[j]) = <<w>>
      BY <2>2 DEF Kind
    <2>4. <<w>> \in {<<text[i]>> : i \in 1..n}
      BY <1>2, <2>3 DEF Kinds
    <2>5. PICK i \in 1..n : <<w>> = <<text[i]>>
      BY <2>4
    <2>6. w = text[i]
      <3>1. <<w>>[1] = w /\ <<text[i]>>[1] = text[i]
        OBVIOUS
      <3>2. QED
        BY <2>5, <3>1
    <2>7. QED
      BY <1>4, <2>1, <2>2, <2>3, <2>6
  <1>6. Told(list)
    <2>1. \A i \in DOMAIN list : list[i].string # <<>> /\ Kind(list[i]) = <<list[i].string[1]>>
      <3> SUFFICES ASSUME NEW i \in DOMAIN list PROVE list[i].string # <<>> /\ Kind(list[i]) = <<list[i].string[1]>>
        OBVIOUS
      <3>1. PICK w \in ToSet(text) : Kind(list[i]) = <<w>> /\ list[i].string = <<w>>
        BY <1>5
      <3>2. <<w>> # <<>> /\ <<w>>[1] = w
        OBVIOUS
      <3>3. QED
        BY <3>1, <3>2
    <2>2. QED
      BY <1>2, <2>1 DEF Told, Distinct
  <1>7. ToSet(list) = all
    <2>1. ToSet(list) \subseteq all
      BY <1>5 DEF ToSet
    <2>2. ASSUME NEW w \in ToSet(text) PROVE Entry(occ(w), <<w>>) \in ToSet(list)
      <3>1. <<w>> \in Kinds(list)
        BY <1>2, <1>4
      <3>2. PICK j \in DOMAIN list : Kind(list[j]) = <<w>>
        BY <3>1 DEF Kinds
      <3>3. PICK v \in ToSet(text) : list[j] = Entry(occ(v), <<v>>) /\ Kind(list[j]) = <<v>>
        BY <1>5
      <3>4. v = w
        <4>1. <<w>>[1] = w /\ <<v>>[1] = v
          OBVIOUS
        <4>2. QED
          BY <3>2, <3>3, <4>1
      <3>5. QED
        BY <3>3, <3>4 DEF ToSet
    <2>3. QED
      BY <2>1, <2>2
  <1>8. Count!Repetitions(text) = Count!InOrder(all, Count!Before)
    BY RepetitionsIs DEF occ
  <1>9. Reduced(Input) = bubbleSort[list]
    BY DEF Reduced, list
  <1>10. QED
    BY <1>6, <1>7, <1>8, <1>9, SortedIs DEF list, occ

\* The words of the text in the order of the first output, each with its number.
Listed(list) ==
    /\ Told(list) /\ Ordered(list)
    /\ ToSet(list) = {Entry(Count!Occurrences(text, w), <<w>>) : w \in ToSet(text)}

\* How often a word occurs is a number.
LEMMA OccurrencesNat ==
    ASSUME text \in Seq(Words)
    PROVE  \A w : Count!Occurrences(text, w) \in Nat
  <1>1. Len(text) \in Nat
    OBVIOUS
  <1>2. QED
    BY <1>1, FirstIs

\* The first round ends with such a list.
LEMMA ListedOne ==
    ASSUME round = 1, text \in Seq(Words)
    PROVE  Listed(Reduced(Input))
  <1> DEFINE list == Merged(Input)
             sorted == bubbleSort[list]
             occ(w) == Count!Occurrences(text, w)
             all == {Entry(occ(w), <<w>>) : w \in ToSet(text)}
             n == Len(list)
  <1>1. Reduced(Input) = sorted
    BY DEF Reduced
  <1>2. Told(list) /\ ToSet(list) = all
    BY RoundOne
  <1>3. /\ sorted \in [1..n -> ToSet(list)] /\ Ordered(sorted)
        /\ IsFiniteSet(ToSet(list)) /\ Cardinality(ToSet(list)) = n
    BY <1>2, Sorts
  <1>4. list \in Seq(Entries) /\ n \in Nat /\ ToSet(list) \subseteq Entries /\ \A e \in ToSet(list) : e.string # <<>>
    BY <1>2 DEF Told, ToSet
  <1> HIDE DEF list, sorted, n
  <1>5. DOMAIN sorted = 1..n /\ sorted \in Seq(Entries) /\ Len(sorted) = n /\ \A i \in 1..n : sorted[i] \in ToSet(list)
    BY <1>3, <1>4
  <1>6. \A i, j \in 1..n : sorted[i] = sorted[j] => i = j
    <2> SUFFICES ASSUME NEW i \in 1..n, NEW j \in 1..n, i < j PROVE sorted[i] # sorted[j]
      BY <1>4
    <2>1. Before(sorted[i], sorted[j])
      BY <1>3, <1>5 DEF Ordered
    <2>2. sorted[i] \in Entries /\ sorted[i].string # <<>> /\ sorted[j] \in Entries /\ sorted[j].string # <<>>
      BY <1>4, <1>5
    <2>3. ~ Before(sorted[j], sorted[i])
      BY <2>1, <2>2, BeforeIs
    <2>4. QED
      BY <2>1, <2>3
  <1>7. \A a, b \in all : a.string[1] = b.string[1] => a = b
    <2>1. \A w \in ToSet(text) : Entry(occ(w), <<w>>).string[1] = w
      <3>1. \A c, s : Entry(c, s).string = s
        BY EntryIs
      <3>2. \A w : <<w>>[1] = w
        OBVIOUS
      <3> HIDE DEF occ
      <3>3. QED
        BY <3>1, <3>2
    <2> HIDE DEF occ
    <2>2. ASSUME NEW a \in all, NEW b \in all, a.string[1] = b.string[1]
          PROVE  a = b
      <3>1. PICK v \in ToSet(text) : a = Entry(occ(v), <<v>>)
        OBVIOUS
      <3>2. PICK w \in ToSet(text) : b = Entry(occ(w), <<w>>)
        OBVIOUS
      <3>3. v = w
        BY <2>1, <2>2, <3>1, <3>2
      <3>4. QED
        BY <3>1, <3>2, <3>3
    <2> HIDE DEF all
    <2>3. QED
      BY <2>2
  <1>8. Told(sorted)
    <2>1. \A i, j \in DOMAIN sorted : sorted[i].string[1] = sorted[j].string[1] => i = j
      <3> HIDE DEF all
      <3>1. QED
        BY <1>2, <1>5, <1>6, <1>7
    <2>2. QED
      BY <1>4, <1>5, <2>1 DEF Told
  <1>9. ToSet(sorted) = all
    <2>1. \A x \in ToSet(list) : \E i \in 1..n : sorted[i] = x
      <3> DEFINE S == ToSet(list)
                 m == Cardinality(S)
      <3>1. IsFiniteSet(S) /\ sorted \in Injection(1..m, S)
        BY <1>3, <1>5, <1>6 DEF Injection, IsInjective
      <3> HIDE DEF S
      <3>2. \A x \in S : \E i \in 1..m : sorted[i] = x
        BY ONLY <3>1, AllOnce
      <3>3. QED
        BY <1>3, <3>2 DEF S
    <2>2. ToSet(sorted) = {sorted[i] : i \in 1..n}
      BY <1>5 DEF ToSet
    <2> HIDE DEF all
    <2>3. QED
      BY <1>2, <1>5, <2>1, <2>2
  <1>10. QED
    BY <1>1, <1>3, <1>8, <1>9 DEF Listed

\* The list is the first output, of a length that is at most that of the text.
LEMMA ListedIs ==
    ASSUME text \in Seq(Words), NEW list, Listed(list)
    PROVE  /\ list = Count!Repetitions(text) /\ list \in Seq(Entries)
           /\ Len(list) \in Nat /\ Len(list) <= Len(text) /\ (list = <<>> <=> text = <<>>)
           /\ \A q \in 1..Len(list) :
                  /\ list[q].string[1] \in ToSet(text) /\ list[q].string = <<list[q].string[1]>>
                  /\ list[q].count = Count!Occurrences(text, list[q].string[1]) /\ list[q].count \in Nat
           /\ \A w \in ToSet(text) : \E q \in 1..Len(list) : list[q].string[1] = w
           /\ \A p, q \in 1..Len(list) : list[p].string[1] = list[q].string[1] => p = q
           /\ \A p, q \in 1..Len(list) : p < q => Before(list[p], list[q])
  <1> DEFINE occ(w) == Count!Occurrences(text, w)
             all == {Entry(occ(w), <<w>>) : w \in ToSet(text)}
             n == Len(list)
  <1>1. /\ list \in Seq(Entries) /\ n \in Nat /\ DOMAIN list = 1..n /\ \A i \in 1..n : list[i] \in Entries
        /\ \A i \in 1..n : list[i].string # <<>>
        /\ \A i, j \in 1..n : list[i].string[1] = list[j].string[1] => i = j
    BY DEF Listed, Told
  <1>2. ToSet(list) = all /\ ToSet(list) = {list[i] : i \in 1..n}
    BY <1>1 DEF Listed, ToSet
  <1>3. \A w : occ(w) \in Nat
    BY OccurrencesNat
  <1>4. list = Count!Repetitions(text)
    <2>1. list = Count!InOrder(ToSet(list), Count!Before)
      BY <1>1, OrderedIs DEF Listed
    <2>2. Count!Repetitions(text) = Count!InOrder(all, Count!Before)
      BY RepetitionsIs
    <2> HIDE DEF all
    <2>3. QED
      BY <1>2, <2>1, <2>2
  <1>5. ToSet(text) = {text[i] : i \in 1..Len(text)} /\ Len(text) \in Nat
    BY DEF ToSet
  <1>6. ASSUME NEW w
        PROVE  /\ Entry(occ(w), <<w>>).string = <<w>> /\ Entry(occ(w), <<w>>).string[1] = w
               /\ Entry(occ(w), <<w>>).count = occ(w)
    <2>1. \A c, s : Entry(c, s).string = s /\ Entry(c, s).count = c
      BY EntryIs
    <2>2. <<w>>[1] = w
      OBVIOUS
    <2>3. QED
      BY <2>1, <2>2
  <1> HIDE DEF occ
  <1>7. n <= Len(text)
    <2> DEFINE T == ToSet(list)
               g == [i \in 1..Len(text) |-> Entry(occ(text[i]), <<text[i]>>)]
    <2>1. T = {Entry(occ(text[i]), <<text[i]>>) : i \in 1..Len(text)}
      BY <1>2, <1>5
    <2>2. g \in Surjection(1..Len(text), T)
      BY <2>1 DEF Surjection
    <2>3. IsFiniteSet(1..Len(text)) /\ Cardinality(1..Len(text)) = Len(text)
      BY <1>5, FS_Interval
    <2> HIDE DEF T, g
    <2>4. Cardinality(T) <= Cardinality(1..Len(text))
      BY ONLY <2>2, <2>3, FS_Surjection
    <2>5. \A i, j \in 1..n : list[i] = list[j] => i = j
      BY <1>1
    <2>6. Cardinality(T) = n
      BY <1>1, <2>5, OnceEach DEF T
    <2>7. QED
      BY <2>3, <2>4, <2>6
  <1>8. ASSUME NEW q \in 1..n
        PROVE  /\ list[q].string[1] \in ToSet(text) /\ list[q].string = <<list[q].string[1]>>
               /\ list[q].count = occ(list[q].string[1]) /\ list[q].count \in Nat
    <2>1. PICK w \in ToSet(text) : list[q] = Entry(occ(w), <<w>>)
      BY <1>2
    <2>2. QED
      BY <1>3, <1>6, <2>1
  <1>9. ASSUME NEW w \in ToSet(text)
        PROVE  \E q \in 1..n : list[q].string[1] = w
    <2>1. PICK q \in 1..n : list[q] = Entry(occ(w), <<w>>)
      BY <1>2
    <2>2. QED
      BY <1>6, <2>1
  <1>10. list = <<>> <=> text = <<>>
    <2>1. list = <<>> <=> n = 0
      BY <1>1
    <2>2. text = <<>> <=> Len(text) = 0
      OBVIOUS
    <2>3. n = 0 => Len(text) = 0
      <3> SUFFICES ASSUME n = 0, Len(text) # 0 PROVE FALSE
        OBVIOUS
      <3>1. text[1] \in ToSet(text)
        BY <1>5
      <3>2. PICK q \in 1..n : TRUE
        BY <1>9, <3>1
      <3>3. QED
        BY <3>2
    <2>4. QED
      BY <1>1, <1>5, <1>7, <2>1, <2>2, <2>3
  <1>11. \A p, q \in 1..n : p < q => Before(list[p], list[q])
    BY <1>1 DEF Listed, Ordered
  <1>12. QED
    BY <1>1, <1>4, <1>7, <1>8, <1>9, <1>10, <1>11 DEF occ

-----------------------------------------------------------------------------
(* The second round: the words with the same number. *)

\* One behind the other, in their order.
CountAt(q) == Input[q].count
WordAt(q) == Input[q].string[1]
Ascending(s) == \A i, j \in DOMAIN s : i < j => s[i] < s[j]
WordsWith(k, c) == {WordAt(q) : q \in {p \in 1..k : CountAt(p) = c}}
GroupedUpTo(list, k) ==
    /\ list \in Seq(Entries) /\ Distinct(list) /\ Kinds(list) = {CountAt(q) : q \in 1..k}
    /\ \A i, j \in DOMAIN list : i < j => list[i].count < list[j].count
    /\ \A j \in DOMAIN list : Ascending(list[j].string) /\ ToSet(list[j].string) = WordsWith(k, list[j].count)

\* A word that is greater than all may be put at the end.
LEMMA AscendingMore ==
    ASSUME NEW s \in Seq(Words), Ascending(s), NEW w \in Words, \A v \in ToSet(s) : v < w
    PROVE  /\ s \o <<w>> \in Seq(Words) /\ Ascending(s \o <<w>>) /\ ToSet(s \o <<w>>) = ToSet(s) \union {w}
  <1> DEFINE t == s \o <<w>>
             n == Len(s)
  <1>1. /\ t \in Seq(Words) /\ Len(t) = n + 1 /\ n \in Nat /\ DOMAIN t = 1..(n + 1) /\ DOMAIN s = 1..n
        /\ t[n + 1] = w /\ \A i \in 1..n : t[i] = s[i]
    OBVIOUS
  <1>2. \A i \in 1..(n + 1) : i = n + 1 \/ i \in 1..n
    BY <1>1
  <1>3. \A i \in 1..n : s[i] \in ToSet(s)
    BY <1>1 DEF ToSet
  <1> HIDE DEF t, n
  <1>4. Ascending(t)
    <2> SUFFICES ASSUME NEW i \in 1..(n + 1), NEW j \in 1..(n + 1), i < j PROVE t[i] < t[j]
      BY <1>1 DEF Ascending
    <2>1. i \in 1..n
      BY <1>1
    <2>2. CASE j = n + 1
      BY <1>1, <1>3, <2>1, <2>2
    <2>3. CASE j \in 1..n
      BY <1>1, <2>1, <2>3 DEF Ascending
    <2>4. QED
      BY <1>2, <2>2, <2>3
  <1>5. ToSet(t) = ToSet(s) \union {w}
    <2>1. n + 1 \in 1..(n + 1) /\ \A i \in 1..n : i \in 1..(n + 1)
      BY <1>1
    <2>2. QED
      BY <1>1, <1>2, <2>1 DEF ToSet
  <1>6. QED
    BY <1>1, <1>4, <1>5 DEF t

\* The next word joins the ones that have its number.
LEMMA WordsWithNext ==
    ASSUME NEW m \in Nat \ {0}, NEW c
    PROVE  WordsWith(m, c) = IF CountAt(m) = c THEN WordsWith(m - 1, c) \union {WordAt(m)} ELSE WordsWith(m - 1, c)
  <1>1. \A p : p \in 1..m <=> (p \in 1..(m - 1) \/ p = m)
    OBVIOUS
  <1>2. QED
    BY <1>1 DEF WordsWith

\* Adding the next entry keeps the groups right.
LEMMA GroupedNext ==
    ASSUME round = 2, text \in Seq(Words), Listed(Input), NEW m \in 1..Len(Input), NEW list, GroupedUpTo(list, m - 1)
    PROVE  GroupedUpTo(Added[list][Input[m]], m)
  <1> DEFINE k == m - 1
             e == Input[m]
             next == Added[list][e]
  <1>1. /\ round \in Rounds /\ list \in Seq(Entries) /\ Distinct(list) /\ Kinds(list) = {CountAt(q) : q \in 1..k}
        /\ \A i, j \in DOMAIN list : i < j => list[i].count < list[j].count
        /\ \A j \in DOMAIN list : Ascending(list[j].string) /\ ToSet(list[j].string) = WordsWith(k, list[j].count)
    BY DEF Rounds, GroupedUpTo
  <1>2. /\ Input \in Seq(Entries) /\ k \in Nat /\ m \in Nat \ {0}
        /\ \A q \in 1..m : q \in 1..Len(Input) /\ Input[q] \in Entries /\ CountAt(q) \in Nat /\ WordAt(q) \in Words
    <2>1. Input \in Seq(Entries) /\ Len(Input) \in Nat
      BY ListedIs
    <2>2. \A q \in 1..m : q \in 1..Len(Input)
      BY <2>1
    <2>3. \A q \in 1..Len(Input) : Input[q] \in Entries
      BY <2>1
    <2>4. \A q \in 1..Len(Input) : CountAt(q) \in Nat /\ WordAt(q) \in ToSet(text)
      BY ListedIs DEF CountAt, WordAt
    <2>5. ToSet(text) \subseteq Words
      BY DEF ToSet
    <2>6. k \in Nat /\ m \in Nat \ {0}
      BY <2>1
    <2> HIDE DEF Input, k
    <2>7. QED
      BY <2>1, <2>2, <2>3, <2>4, <2>5, <2>6
  <1>3. e \in Entries /\ e.count = CountAt(m) /\ e.string = <<WordAt(m)>> /\ Kind(e) = CountAt(m) /\ WordAt(m) \in Words
    <2>1. e \in Entries /\ e.string = <<WordAt(m)>> /\ WordAt(m) \in Words
      BY <1>2, ListedIs DEF WordAt
    <2>2. e.count = CountAt(m)
      BY DEF CountAt
    <2> HIDE DEF e
    <2>3. QED
      BY <2>1, <2>2 DEF Kind
  <1>4. \A q \in 1..k : CountAt(q) <= CountAt(m) /\ (CountAt(q) = CountAt(m) => WordAt(q) < WordAt(m))
    <2> SUFFICES ASSUME NEW q \in 1..k
                 PROVE  CountAt(q) <= CountAt(m) /\ (CountAt(q) = CountAt(m) => WordAt(q) < WordAt(m))
      OBVIOUS
    <2>1. q \in 1..m /\ m \in 1..m /\ q < m
      BY <1>2
    <2>2. Before(Input[q], Input[m])
      BY <1>2, <2>1, ListedIs
    <2>3. CountAt(q) \in Nat /\ CountAt(m) \in Nat
      BY <1>2, <2>1
    <2>4. CountAt(q) < CountAt(m) \/ (CountAt(q) = CountAt(m) /\ WordAt(q) < WordAt(m))
      BY <2>2 DEF Before, CountAt, WordAt
    <2>5. QED
      BY <2>3, <2>4
  <1>5. next \in Seq(Entries) /\ Distinct(next) /\ Kinds(next) = Kinds(list) \union {CountAt(m)}
    <2> HIDE DEF e
    <2>1. QED
      BY <1>1, <1>3, AddedKinds
  <1>6. Kinds(next) = {CountAt(q) : q \in 1..m}
    <2>1. \A i : i \in 1..m <=> (i \in 1..k \/ i = m)
      BY <1>2
    <2> HIDE DEF next, k
    <2>2. QED
      BY <1>1, <1>5, <2>1
  <1>7. \A c : WordsWith(m, c) = IF CountAt(m) = c THEN WordsWith(k, c) \union {WordAt(m)} ELSE WordsWith(k, c)
    BY <1>2, WordsWithNext
  <1>8. \A j \in DOMAIN list : Kind(list[j]) = list[j].count /\ list[j].count \in Kinds(list) /\ list[j].count \in Nat
    <2>1. \A j \in DOMAIN list : list[j] \in Entries
      BY <1>1
    <2>2. \A j \in DOMAIN list : Kind(list[j]) = list[j].count
      BY DEF Kind
    <2>3. QED
      BY <2>1, <2>2 DEF Kinds, Entries
  <1> HIDE DEF e
  <1>9. CASE CountAt(m) \notin Kinds(list)
    <2> DEFINE n == Len(list)
    <2>1. next = Append(list, e)
      BY <1>1, <1>3, <1>9, AddedNew
    <2>2. /\ n \in Nat /\ DOMAIN list = 1..n /\ DOMAIN next = 1..(n + 1) /\ next[n + 1] = e
          /\ \A j \in 1..n : next[j] = list[j]
      BY <1>1, <2>1
    <2>3. \A j \in 1..(n + 1) : j = n + 1 \/ j \in 1..n
      BY <2>2
    <2>4. \A j \in 1..n : list[j].count < CountAt(m)
      <3> SUFFICES ASSUME NEW j \in 1..n PROVE list[j].count < CountAt(m)
        OBVIOUS
      <3>1. list[j].count \in Kinds(list) /\ list[j].count \in Nat
        BY <1>8, <2>2
      <3>2. PICK q \in 1..k : list[j].count = CountAt(q)
        BY <1>1, <3>1
      <3>3. CountAt(q) <= CountAt(m) /\ CountAt(q) # CountAt(m) /\ CountAt(m) \in Nat
        BY <1>2, <1>4, <1>9, <3>1, <3>2
      <3>4. QED
        BY <3>1, <3>2, <3>3
    <2> HIDE DEF next, n, k
    <2>5. \A i, j \in DOMAIN next : i < j => next[i].count < next[j].count
      <3> SUFFICES ASSUME NEW i \in 1..(n + 1), NEW j \in 1..(n + 1), i < j
                   PROVE  next[i].count < next[j].count
        BY <2>2
      <3>1. i \in 1..n
        BY <2>2
      <3>2. CASE j = n + 1
        BY <1>3, <2>2, <2>4, <3>1, <3>2
      <3>3. CASE j \in 1..n
        BY <1>1, <2>2, <3>1, <3>3
      <3>4. QED
        BY <2>3, <3>2, <3>3
    <2>6. Ascending(e.string) /\ ToSet(e.string) = WordsWith(m, e.count)
      <3>1. WordsWith(k, CountAt(m)) = {}
        BY <1>1, <1>9 DEF WordsWith
      <3>2. WordsWith(m, CountAt(m)) = {WordAt(m)}
        BY <1>7, <3>1
      <3>3. Ascending(<<WordAt(m)>>) /\ ToSet(<<WordAt(m)>>) = {WordAt(m)}
        BY DEF Ascending, ToSet
      <3>4. QED
        BY <1>3, <3>2, <3>3
    <2>7. \A j \in 1..n : Ascending(list[j].string) /\ ToSet(list[j].string) = WordsWith(m, list[j].count)
      BY <1>1, <1>7, <1>8, <1>9, <2>2
    <2>8. \A j \in DOMAIN next : Ascending(next[j].string) /\ ToSet(next[j].string) = WordsWith(m, next[j].count)
      BY <2>2, <2>3, <2>6, <2>7
    <2>9. QED
      BY <1>5, <1>6, <2>5, <2>8 DEF GroupedUpTo, next, e
  <1>10. CASE CountAt(m) \in Kinds(list)
    <2>1. PICK p \in DOMAIN list : Kind(list[p]) = Kind(e)
      BY <1>3, <1>10 DEF Kinds
    <2> DEFINE both == Joined(list[p], e)
    <2>2. next = [list EXCEPT ![p] = both]
      BY <1>1, <1>3, <2>1, AddedAt
    <2>3. list[p].count = CountAt(m)
      BY <1>3, <1>8, <2>1
    <2>4. both.count = list[p].count /\ both.string = list[p].string \o <<WordAt(m)>>
      <3>1. list[p] \in Entries
        BY <1>1
      <3>2. list[p] = [count |-> list[p].count, string |-> list[p].string]
        BY <3>1 DEF Entries
      <3>3. both = [count |-> list[p].count, string |-> list[p].string \o e.string]
        BY <3>2 DEF Joined
      <3>4. QED
        BY <1>3, <3>3
    <2>5. Ascending(both.string) /\ ToSet(both.string) = WordsWith(m, both.count)
      <3> DEFINE s == list[p].string
      <3>1. s \in Seq(Words) /\ Ascending(s) /\ ToSet(s) = WordsWith(k, CountAt(m))
        <4>1. list[p] \in Entries
          BY <1>1
        <4>2. QED
          BY <1>1, <2>3, <4>1 DEF Entries, Words
      <3>2. \A v \in ToSet(s) : v < WordAt(m)
        BY <1>4, <3>1 DEF WordsWith
      <3> HIDE DEF s
      <3>3. Ascending(s \o <<WordAt(m)>>) /\ ToSet(s \o <<WordAt(m)>>) = ToSet(s) \union {WordAt(m)}
        BY <1>3, <3>1, <3>2, AscendingMore
      <3>4. QED
        BY <1>7, <2>3, <2>4, <3>1, <3>3 DEF s
    <2> HIDE DEF both
    <2>6. DOMAIN next = DOMAIN list /\ \A j \in DOMAIN list : next[j] = IF j = p THEN both ELSE list[j]
      BY <2>2
    <2>7. \A j \in DOMAIN list : next[j].count = list[j].count
      BY <2>4, <2>6
    <2> HIDE DEF next, k
    <2>8. ASSUME NEW j \in DOMAIN list, j # p
          PROVE  Ascending(list[j].string) /\ ToSet(list[j].string) = WordsWith(m, list[j].count)
      <3>1. list[j].count # CountAt(m)
        BY <1>1, <1>3, <1>8, <2>1, <2>8 DEF Distinct
      <3>2. QED
        BY <1>1, <1>7, <3>1
    <2>9. \A j \in DOMAIN next : Ascending(next[j].string) /\ ToSet(next[j].string) = WordsWith(m, next[j].count)
      BY <2>5, <2>6, <2>8
    <2>10. \A i, j \in DOMAIN next : i < j => next[i].count < next[j].count
      BY <1>1, <2>6, <2>7
    <2>11. QED
      BY <1>5, <1>6, <2>9, <2>10 DEF GroupedUpTo, next, e
  <1>11. QED
    BY <1>9, <1>10

\* The second round groups all words.
LEMMA MergedTwo ==
    ASSUME round = 2, text \in Seq(Words), Listed(Input)
    PROVE  GroupedUpTo(Merged(Input), Len(Input))
  <1> DEFINE n == Len(Input)
  <1>1. Input \in Seq(Entries) /\ n \in Nat
    BY ListedIs
  <1>2. <<>> \in Seq(Entries)
    OBVIOUS
  <1>3. PICK f \in [0..n -> Seq(Entries)] :
            /\ f[0] = <<>> /\ \A k \in 1..n : f[k] = Added[f[k - 1]][Input[k]]
            /\ MergedInto(<<>>, Input) = f[n]
    BY <1>1, <1>2, FoldIs
  <1> DEFINE Good == {k \in 0..n : GroupedUpTo(f[k], k)}
  <1>4. 0 \in Good
    <2>1. 1..0 = {} /\ DOMAIN f[0] = {} /\ f[0] = <<>>
      BY <1>3
    <2>2. GroupedUpTo(f[0], 0)
      BY <1>2, <2>1, KindsOf DEF GroupedUpTo
    <2>3. QED
      BY <1>1, <2>2
  <1>5. ASSUME NEW k \in 0..(n - 1), k \in Good
        PROVE  k + 1 \in Good
    <2> DEFINE m == k + 1
    <2>1. m \in 1..n /\ m - 1 = k
      BY <1>1
    <2> HIDE DEF m
    <2>2. f[m] = Added[f[k]][Input[m]] /\ GroupedUpTo(f[m - 1], m - 1)
      BY <1>3, <1>5, <2>1
    <2>3. GroupedUpTo(f[m], m)
      BY <2>1, <2>2, GroupedNext
    <2>4. QED
      BY <2>1, <2>3 DEF m
  <1>6. 0..n \subseteq Good
    <2> HIDE DEF Good, n
    <2>1. QED
      BY <1>1, <1>4, <1>5, SetInduction
  <1>7. GroupedUpTo(f[n], n)
    BY <1>1, <1>6
  <1>8. QED
    BY <1>3, <1>7, MergedIs

\* The second output of WordCount, with the operators that the lemmas speak of.
LEMMA ByRepetitionsIs ==
    ASSUME NEW t
    PROVE  /\ Count!ByRepetitions(t) =
                  Count!InOrder({Entry(c, Count!WordsRepeated(t, c)) : c \in {Count!Occurrences(t, w) : w \in ToSet(t)}}, Count!Before)
           /\ \A c : Count!WordsRepeated(t, c) = Count!InOrder({w \in ToSet(t) : Count!Occurrences(t, w) = c}, <)
  <1>1. Count!ByRepetitions(t) =
            Count!InOrder({Entry(c, Count!WordsRepeated(t, c)) : c \in {Count!Occurrences(t, w) : w \in ToSet(t)}}, Count!Before)
    BY CountOperators DEF Count!ByRepetitions, Entry
  <1>2. \A c : Count!WordsRepeated(t, c) = Count!InOrder({w \in ToSet(t) : Count!Occurrences(t, w) = c}, <)
    BY CountOperators DEF Count!WordsRepeated
  <1>3. QED
    BY <1>1, <1>2

\* The second round groups the words by their number.
LEMMA RoundTwo ==
    ASSUME round = 2, text \in Seq(Words), Listed(Input)
    PROVE  Reduced(Input) = Count!ByRepetitions(text)
  <1> DEFINE list == Merged(Input)
             n == Len(Input)
             occ(w) == Count!Occurrences(text, w)
             group(c) == {w \in ToSet(text) : occ(w) = c}
             counts == {occ(w) : w \in ToSet(text)}
             all == {Entry(c, Count!WordsRepeated(text, c)) : c \in counts}
  <1>1. GroupedUpTo(list, n)
    BY MergedTwo
  <1> HIDE DEF list
  <1>2. /\ list \in Seq(Entries) /\ Distinct(list) /\ Kinds(list) = {CountAt(q) : q \in 1..n}
        /\ \A i, j \in DOMAIN list : i < j => list[i].count < list[j].count
        /\ \A j \in DOMAIN list : Ascending(list[j].string) /\ ToSet(list[j].string) = WordsWith(n, list[j].count)
    BY <1>1 DEF GroupedUpTo
  <1>3. /\ \A q \in 1..n : WordAt(q) \in ToSet(text) /\ CountAt(q) = occ(WordAt(q))
        /\ \A w \in ToSet(text) : \E q \in 1..n : WordAt(q) = w
    BY ListedIs DEF WordAt, CountAt
  <1> HIDE DEF n, occ
  <1>4. Kinds(list) = counts
    BY <1>2, <1>3
  <1>5. \A c : WordsWith(n, c) = group(c)
    BY <1>3 DEF WordsWith
  <1>6. ASSUME NEW j \in DOMAIN list
        PROVE  /\ list[j].count \in counts /\ list[j].string = Count!WordsRepeated(text, list[j].count)
               /\ list[j].string # <<>> /\ list[j] = Entry(list[j].count, list[j].string)
    <2> DEFINE c == list[j].count
               s == list[j].string
    <2>1. list[j] \in Entries
      BY <1>2
    <2>2. list[j] = [count |-> c, string |-> s] /\ s \in Seq(Words)
      BY <2>1 DEF Entries, Words
    <2>3. Kind(list[j]) = c
      BY DEF Kind
    <2>4. c \in counts
      BY <1>4, <2>3 DEF Kinds
    <2>5. ToSet(s) = group(c) /\ Ascending(s)
      BY <1>2, <1>5
    <2> HIDE DEF s, c, counts
    <2>6. s = Count!InOrder(ToSet(s), <)
      BY <2>2, <2>5, WordsOrderedIs DEF Ascending
    <2>7. s = Count!WordsRepeated(text, c)
      <3>1. Count!WordsRepeated(text, c) = Count!InOrder(group(c), <)
        BY ByRepetitionsIs DEF occ
      <3> HIDE DEF group
      <3>2. QED
        BY <2>5, <2>6, <3>1
    <2>8. s # <<>>
      <3>1. ToSet(<<>>) = {}
        BY DEF ToSet
      <3>2. group(c) # {}
        BY <2>4 DEF counts
      <3>3. QED
        BY <2>5, <3>1, <3>2
    <2>9. list[j] = Entry(c, s)
      BY <2>2, EntryIs
    <2>10. QED
      BY <2>4, <2>7, <2>8, <2>9 DEF c, s
  <1>7. ToSet(list) = all
    <2>1. ToSet(list) \subseteq all
      <3> SUFFICES ASSUME NEW j \in DOMAIN list PROVE list[j] \in all
        BY DEF ToSet
      <3> HIDE DEF counts
      <3>1. QED
        BY <1>6
    <2>2. ASSUME NEW c \in counts PROVE Entry(c, Count!WordsRepeated(text, c)) \in ToSet(list)
      <3>1. PICK j \in DOMAIN list : Kind(list[j]) = c
        BY <1>4 DEF Kinds
      <3>2. list[j].count = c
        BY <3>1 DEF Kind
      <3>3. list[j] = Entry(c, Count!WordsRepeated(text, c))
        BY <1>6, <3>2
      <3>4. QED
        BY <3>3 DEF ToSet
    <2>3. QED
      BY <2>1, <2>2
  <1>8. Ordered(list)
    BY <1>2 DEF Ordered, Before
  <1>9. list = Count!InOrder(ToSet(list), Count!Before)
    BY <1>2, <1>6, <1>8, OrderedIs
  <1>10. Count!ByRepetitions(text) = Count!InOrder(all, Count!Before)
    BY ByRepetitionsIs DEF occ
  <1>11. Reduced(Input) = list
    BY DEF Reduced, list
  <1> HIDE DEF all
  <1>12. QED
    BY <1>7, <1>9, <1>10, <1>11

-----------------------------------------------------------------------------
(* The third round: the words of each length. *)

\* Of each length the first word, and the number of words.
LengthAt(q) == Length[WordAt(q)]
OfUpTo(k, l) == {i \in DOMAIN text : Length[text[i]] = l /\ \E q \in 1..k : text[i] = WordAt(q)}
FirstOf(q) == \A p \in 1..(q - 1) : LengthAt(p) # LengthAt(q)
SummedUpTo(list, k) ==
    /\ list \in Seq(Entries) /\ Distinct(list) /\ Kinds(list) = {LengthAt(q) : q \in 1..k}
    /\ \A j \in DOMAIN list : \E q \in 1..k :
           FirstOf(q) /\ list[j] = Entry(Cardinality(OfUpTo(k, LengthAt(q))), <<WordAt(q)>>)

\* The next word adds its occurrences to those of its length.
LEMMA OfUpToNext ==
    ASSUME text \in Seq(Words), Listed(Input), NEW m \in 1..Len(Input), NEW l
    PROVE  /\ Cardinality(OfUpTo(m - 1, l)) \in Nat
           /\ Cardinality(OfUpTo(m, l)) =
                  Cardinality(OfUpTo(m - 1, l)) + (IF LengthAt(m) = l THEN CountAt(m) ELSE 0)
  <1> DEFINE k == m - 1
             A == OfUpTo(k, l)
             B == Has(WordAt(m))
             n == Len(text)
  <1>1. k \in Nat /\ n \in Nat /\ (\A p : p \in 1..m <=> (p \in 1..k \/ p = m)) /\ \A p \in 1..m : p \in 1..Len(Input)
    <2>1. Len(Input) \in Nat
      BY ListedIs
    <2> HIDE DEF Input
    <2>2. QED
      BY <2>1
  <1>2. IsFiniteSet(A) /\ IsFiniteSet(B) /\ Cardinality(A) \in Nat /\ Cardinality(B) \in Nat
    <2>1. IsFiniteSet(1..n)
      BY <1>1, FS_Interval
    <2>2. A \subseteq 1..n /\ B \subseteq 1..n
      BY DEF OfUpTo, Has
    <2> HIDE DEF A, B
    <2>3. IsFiniteSet(A) /\ IsFiniteSet(B)
      BY <2>1, <2>2, FS_Subset
    <2>4. QED
      BY <2>3, FS_CardinalityType
  <1>3. Cardinality(B) = CountAt(m)
    <2>1. CountAt(m) = Count!Occurrences(text, WordAt(m))
      BY ListedIs DEF CountAt, WordAt
    <2>2. Count!Occurrences(text, WordAt(m)) = Cardinality(B)
      BY CountOperators DEF Count!Occurrences, Has
    <2>3. QED
      BY <2>1, <2>2
  <1>4. CASE LengthAt(m) # l
    <2>1. OfUpTo(m, l) = A
      BY <1>1, <1>4 DEF OfUpTo, LengthAt
    <2>2. QED
      BY <1>2, <1>4, <2>1
  <1>5. CASE LengthAt(m) = l
    <2>1. OfUpTo(m, l) = A \union B
      BY <1>1, <1>5 DEF OfUpTo, LengthAt, Has
    <2>2. A \cap B = {}
      <3>1. \A q \in 1..k : WordAt(q) # WordAt(m)
        <4> SUFFICES ASSUME NEW q \in 1..k, WordAt(q) = WordAt(m) PROVE FALSE
          OBVIOUS
        <4>1. q \in 1..Len(Input) /\ q # m
          BY <1>1
        <4>2. QED
          BY <4>1, ListedIs DEF WordAt
      <3>2. QED
        BY <3>1 DEF OfUpTo, Has
    <2> HIDE DEF A, B
    <2>3. Cardinality(A \union B) = Cardinality(A) + Cardinality(B) - Cardinality(A \cap B)
      BY <1>2, FS_Union
    <2>4. Cardinality(A \cap B) = 0
      BY <2>2, FS_EmptySet
    <2>5. QED
      BY <1>2, <1>3, <1>5, <2>1, <2>3, <2>4 DEF A
  <1>6. QED
    BY <1>4, <1>5

\* Adding the next entry keeps the sums right.
LEMMA SummedNext ==
    ASSUME round = 3, text \in Seq(Words), Listed(Input), NEW m \in 1..Len(Input), NEW list, SummedUpTo(list, m - 1)
    PROVE  SummedUpTo(Added[list][Input[m]], m)
  <1> DEFINE k == m - 1
             e == Input[m]
             next == Added[list][e]
             sum(n, l) == Cardinality(OfUpTo(n, l))
  <1>1. /\ round \in Rounds /\ list \in Seq(Entries) /\ Distinct(list) /\ Kinds(list) = {LengthAt(q) : q \in 1..k}
        /\ \A j \in DOMAIN list : \E q \in 1..k : FirstOf(q) /\ list[j] = Entry(sum(k, LengthAt(q)), <<WordAt(q)>>)
    BY DEF Rounds, SummedUpTo
  <1>2. /\ Input \in Seq(Entries) /\ k \in Nat /\ m \in Nat \ {0} /\ e \in Entries /\ e.count \in Nat
        /\ e.count = CountAt(m) /\ e.string = <<WordAt(m)>>
    <2>1. Input \in Seq(Entries) /\ Len(Input) \in Nat
      BY ListedIs
    <2>2. e.count = CountAt(m) /\ e.string = <<WordAt(m)>> /\ e.count \in Nat
      BY ListedIs DEF CountAt, WordAt
    <2>3. e \in Entries
      BY <2>1
    <2> HIDE DEF Input, e
    <2>4. QED
      BY <2>1, <2>2, <2>3
  <1> HIDE DEF e
  <1>3. Kind(e) = LengthAt(m)
    <2>1. <<WordAt(m)>>[1] = WordAt(m)
      OBVIOUS
    <2>2. QED
      BY <1>2, <2>1 DEF Kind, LengthAt
  <1>4. \A l : sum(k, l) \in Nat /\ sum(m, l) = sum(k, l) + (IF LengthAt(m) = l THEN CountAt(m) ELSE 0)
    BY OfUpToNext
  <1> HIDE DEF sum
  <1>5. next \in Seq(Entries) /\ Distinct(next) /\ Kinds(next) = Kinds(list) \union {LengthAt(m)}
    BY <1>1, <1>2, <1>3, AddedKinds
  <1>6. \A i : i \in 1..m <=> (i \in 1..k \/ i = m)
    BY <1>2
  <1>7. Kinds(next) = {LengthAt(q) : q \in 1..m}
    <2> HIDE DEF next, k
    <2>1. QED
      BY <1>1, <1>5, <1>6
  <1>8. ASSUME NEW j \in DOMAIN list
        PROVE  \E q \in 1..k : /\ FirstOf(q) /\ list[j] = Entry(sum(k, LengthAt(q)), <<WordAt(q)>>)
                               /\ Kind(list[j]) = LengthAt(q) /\ Kind(list[j]) \in Kinds(list)
    <2>1. PICK q \in 1..k : FirstOf(q) /\ list[j] = Entry(sum(k, LengthAt(q)), <<WordAt(q)>>)
      BY <1>1
    <2>2. list[j].string = <<WordAt(q)>> /\ <<WordAt(q)>>[1] = WordAt(q)
      BY <2>1, EntryIs
    <2>3. Kind(list[j]) = LengthAt(q)
      BY <2>2 DEF Kind, LengthAt
    <2>4. QED
      BY <2>1, <2>3 DEF Kinds
  <1>9. CASE LengthAt(m) \notin Kinds(list)
    <2>1. next = Append(list, e)
      BY <1>1, <1>2, <1>3, <1>9, AddedNew
    <2>2. FirstOf(m)
      BY <1>1, <1>9 DEF FirstOf
    <2>3. sum(k, LengthAt(m)) = 0
      <3>1. OfUpTo(k, LengthAt(m)) = {}
        BY <1>1, <1>9 DEF OfUpTo, LengthAt
      <3>2. QED
        BY <3>1, FS_EmptySet DEF sum
    <2>4. e = Entry(sum(m, LengthAt(m)), <<WordAt(m)>>)
      <3>1. sum(m, LengthAt(m)) = e.count
        BY <1>2, <1>4, <2>3
      <3>2. e = [count |-> e.count, string |-> e.string]
        BY <1>2 DEF Entries
      <3>3. QED
        BY <1>2, <3>1, <3>2, EntryIs
    <2>5. ASSUME NEW j \in DOMAIN list
          PROVE  \E q \in 1..m : FirstOf(q) /\ list[j] = Entry(sum(m, LengthAt(q)), <<WordAt(q)>>)
      <3>1. PICK q \in 1..k : /\ FirstOf(q) /\ list[j] = Entry(sum(k, LengthAt(q)), <<WordAt(q)>>)
                              /\ LengthAt(q) \in Kinds(list)
        BY <1>8
      <3>2. sum(m, LengthAt(q)) = sum(k, LengthAt(q))
        BY <1>4, <1>9, <3>1
      <3>3. QED
        BY <1>6, <3>1, <3>2
    <2>6. \A j \in DOMAIN next : (j \in DOMAIN list /\ next[j] = list[j]) \/ next[j] = e
      BY <1>1, <2>1
    <2>7. \A j \in DOMAIN next : \E q \in 1..m : FirstOf(q) /\ next[j] = Entry(sum(m, LengthAt(q)), <<WordAt(q)>>)
      <3> HIDE DEF next, k
      <3>1. m \in 1..m
        BY <1>6
      <3>2. QED
        BY <2>2, <2>4, <2>5, <2>6, <3>1
    <2>8. QED
      BY <1>5, <1>7, <2>7 DEF SummedUpTo, sum, next, e
  <1>10. CASE LengthAt(m) \in Kinds(list)
    <2>1. PICK p \in DOMAIN list : Kind(list[p]) = LengthAt(m)
      BY <1>10 DEF Kinds
    <2> DEFINE both == Joined(list[p], e)
    <2>2. next = [list EXCEPT ![p] = both]
      BY <1>1, <1>2, <1>3, <2>1, AddedAt
    <2>3. \E q \in 1..m : FirstOf(q) /\ both = Entry(sum(m, LengthAt(q)), <<WordAt(q)>>)
      <3>1. PICK q \in 1..k : /\ FirstOf(q) /\ list[p] = Entry(sum(k, LengthAt(q)), <<WordAt(q)>>)
                              /\ LengthAt(q) = LengthAt(m)
        BY <1>8, <2>1
      <3>2. list[p] = [count |-> sum(k, LengthAt(q)), string |-> <<WordAt(q)>>]
        BY <3>1, EntryIs
      <3>3. both = [count |-> sum(k, LengthAt(q)) + e.count, string |-> <<WordAt(q)>>]
        BY <3>2 DEF Joined
      <3>4. sum(m, LengthAt(q)) = sum(k, LengthAt(q)) + e.count
        BY <1>2, <1>4, <3>1
      <3>5. both = Entry(sum(m, LengthAt(q)), <<WordAt(q)>>)
        BY <3>3, <3>4, EntryIs
      <3> HIDE DEF both
      <3>6. QED
        BY <1>6, <3>1, <3>5
    <2> HIDE DEF both
    <2>4. DOMAIN next = DOMAIN list /\ \A j \in DOMAIN list : next[j] = IF j = p THEN both ELSE list[j]
      BY <2>2
    <2>5. ASSUME NEW j \in DOMAIN list, j # p
          PROVE  \E q \in 1..m : FirstOf(q) /\ list[j] = Entry(sum(m, LengthAt(q)), <<WordAt(q)>>)
      <3>1. PICK q \in 1..k : /\ FirstOf(q) /\ list[j] = Entry(sum(k, LengthAt(q)), <<WordAt(q)>>)
                              /\ Kind(list[j]) = LengthAt(q)
        BY <1>8
      <3>2. LengthAt(q) # LengthAt(m)
        BY <1>1, <2>1, <2>5, <3>1 DEF Distinct
      <3>3. sum(m, LengthAt(q)) = sum(k, LengthAt(q))
        BY <1>4, <3>2
      <3>4. QED
        BY <1>6, <3>1, <3>3
    <2>6. \A j \in DOMAIN next : \E q \in 1..m : FirstOf(q) /\ next[j] = Entry(sum(m, LengthAt(q)), <<WordAt(q)>>)
      <3> HIDE DEF next, k
      <3>1. QED
        BY <2>3, <2>4, <2>5
    <2>7. QED
      BY <1>5, <1>7, <2>6 DEF SummedUpTo, sum, next, e
  <1>11. QED
    BY <1>9, <1>10

\* The third round sums up all words.
LEMMA MergedThree ==
    ASSUME round = 3, text \in Seq(Words), Listed(Input)
    PROVE  SummedUpTo(Merged(Input), Len(Input))
  <1> DEFINE n == Len(Input)
  <1>1. Input \in Seq(Entries) /\ n \in Nat
    BY ListedIs
  <1>2. <<>> \in Seq(Entries)
    OBVIOUS
  <1>3. PICK f \in [0..n -> Seq(Entries)] :
            /\ f[0] = <<>> /\ \A k \in 1..n : f[k] = Added[f[k - 1]][Input[k]]
            /\ MergedInto(<<>>, Input) = f[n]
    BY <1>1, <1>2, FoldIs
  <1> DEFINE Good == {k \in 0..n : SummedUpTo(f[k], k)}
  <1>4. 0 \in Good
    <2>1. 1..0 = {} /\ DOMAIN f[0] = {} /\ f[0] = <<>>
      BY <1>3
    <2>2. SummedUpTo(f[0], 0)
      BY <1>2, <2>1, KindsOf DEF SummedUpTo
    <2>3. QED
      BY <1>1, <2>2
  <1>5. ASSUME NEW k \in 0..(n - 1), k \in Good
        PROVE  k + 1 \in Good
    <2> DEFINE m == k + 1
    <2>1. m \in 1..n /\ m - 1 = k
      BY <1>1
    <2> HIDE DEF m
    <2>2. f[m] = Added[f[k]][Input[m]] /\ SummedUpTo(f[m - 1], m - 1)
      BY <1>3, <1>5, <2>1
    <2>3. SummedUpTo(f[m], m)
      BY <2>1, <2>2, SummedNext
    <2>4. QED
      BY <2>1, <2>3 DEF m
  <1>6. 0..n \subseteq Good
    <2> HIDE DEF Good, n
    <2>1. QED
      BY <1>1, <1>4, <1>5, SetInduction
  <1>7. SummedUpTo(f[n], n)
    BY <1>1, <1>6
  <1>8. QED
    BY <1>3, <1>7, MergedIs

\* The first word of a length in the list is the least repeated one.
LEMMA RarestIs ==
    ASSUME text \in Seq(Words), Listed(Input), NEW q \in 1..Len(Input), FirstOf(q)
    PROVE  Count!Rarest(text, LengthAt(q)) = Input[q]
  <1> DEFINE l == LengthAt(q)
             n == Len(Input)
             have == {e \in ToSet(Count!Repetitions(text)) : Length[e.string[1]] = l}
             first(e) == \A f \in have \ {e} : Before(e, f)
  <1>1. Count!Rarest(text, l) = CHOOSE e \in have : first(e)
    BY CountOperators DEF Count!Rarest, Count!Before, Before
  <1>2. /\ Input = Count!Repetitions(text) /\ Input \in Seq(Entries) /\ n \in Nat
        /\ \A i \in 1..n : Input[i] \in Entries /\ Input[i].string # <<>>
        /\ \A p, r \in 1..n : p < r => Before(Input[p], Input[r])
    <2>1. Input = Count!Repetitions(text) /\ Input \in Seq(Entries) /\ n \in Nat
      BY ListedIs
    <2>2. \A i \in 1..n : Input[i].string # <<>>
      BY <2>1 DEF Listed, Told
    <2>3. \A p, r \in 1..n : p < r => Before(Input[p], Input[r])
      BY ListedIs
    <2>4. \A i \in 1..n : Input[i] \in Entries
      BY <2>1
    <2> HIDE DEF Input, n
    <2>5. QED
      BY <2>1, <2>2, <2>3, <2>4
  <1> HIDE DEF l, n
  <1>3. have = {Input[p] : p \in {r \in 1..n : LengthAt(r) = l}}
    <2>1. ToSet(Input) = {Input[p] : p \in 1..n}
      BY <1>2 DEF ToSet, n
    <2> HIDE DEF Input
    <2>2. QED
      BY <1>2, <2>1 DEF LengthAt, WordAt
  <1> HIDE DEF have
  <1>4. Input[q] \in have
    BY <1>3 DEF l, n
  <1>5. first(Input[q])
    <2> SUFFICES ASSUME NEW f \in have, f # Input[q] PROVE Before(Input[q], f)
      OBVIOUS
    <2>1. PICK p \in 1..n : f = Input[p] /\ LengthAt(p) = l
      BY <1>3
    <2>2. p # q /\ ~ p \in 1..(q - 1)
      BY <2>1 DEF FirstOf, l
    <2>3. q < p /\ q \in 1..n
      BY <1>2, <2>2 DEF n
    <2>4. QED
      BY <1>2, <2>1, <2>3
  <1>6. \A e \in have : first(e) => e = Input[q]
    <2> SUFFICES ASSUME NEW e \in have, first(e), e # Input[q] PROVE FALSE
      OBVIOUS
    <2>1. Before(e, Input[q]) /\ Before(Input[q], e)
      BY <1>4, <1>5
    <2>2. PICK p \in 1..n : e = Input[p]
      BY <1>3
    <2>3. e \in Entries /\ e.string # <<>> /\ Input[q] \in Entries /\ Input[q].string # <<>>
      BY <1>2, <2>2 DEF n
    <2>4. QED
      BY <2>1, <2>3, BeforeIs
  <1> HIDE DEF first
  <1>7. QED
    BY <1>1, <1>4, <1>5, <1>6 DEF l

\* The third output of WordCount, with the operators that the lemmas speak of.
LEMMA ByLengthIs ==
    ASSUME NEW t
    PROVE  Count!ByLength(t) =
               Count!InOrder({Entry(Cardinality(Count!OfLength(t, l)), Count!Rarest(t, l).string) :
                                  l \in {Length[w] : w \in ToSet(t)}}, Count!Before)
  BY CountOperators DEF Count!ByLength, Entry

\* The third round counts the words of each length.
LEMMA RoundThree ==
    ASSUME round = 3, text \in Seq(Words), Listed(Input)
    PROVE  Reduced(Input) = Count!ByLength(text)
  <1> DEFINE list == Merged(Input)
             n == Len(Input)
             total(l) == Cardinality(Count!OfLength(text, l))
             rare(l) == Count!Rarest(text, l).string
             lengths == {Length[w] : w \in ToSet(text)}
             all == {Entry(total(l), rare(l)) : l \in lengths}
  <1>1. SummedUpTo(list, n)
    BY MergedThree
  <1> HIDE DEF list
  <1>2. /\ list \in Seq(Entries) /\ Distinct(list) /\ Kinds(list) = {LengthAt(q) : q \in 1..n}
        /\ \A j \in DOMAIN list : \E q \in 1..n :
               FirstOf(q) /\ list[j] = Entry(Cardinality(OfUpTo(n, LengthAt(q))), <<WordAt(q)>>)
    BY <1>1 DEF SummedUpTo
  <1>3. /\ \A q \in 1..n : WordAt(q) \in ToSet(text) /\ Input[q].string = <<WordAt(q)>>
        /\ \A w \in ToSet(text) : \E q \in 1..n : WordAt(q) = w
    BY ListedIs DEF WordAt
  <1> HIDE DEF n
  <1>4. Kinds(list) = lengths
    BY <1>2, <1>3 DEF LengthAt
  <1>5. \A l : Cardinality(OfUpTo(n, l)) = total(l)
    <2> SUFFICES ASSUME NEW l PROVE Cardinality(OfUpTo(n, l)) = total(l)
      OBVIOUS
    <2>1. OfUpTo(n, l) = {i \in DOMAIN text : Length[text[i]] = l}
      <3>1. \A i \in DOMAIN text : text[i] \in ToSet(text)
        BY DEF ToSet
      <3>2. QED
        BY <1>3, <3>1 DEF OfUpTo
    <2>2. QED
      BY <2>1 DEF Count!OfLength
  <1> HIDE DEF total
  <1>6. ASSUME NEW j \in DOMAIN list
        PROVE  \E l \in lengths : /\ list[j] = Entry(total(l), rare(l)) /\ Kind(list[j]) = l
                                  /\ list[j].string # <<>> /\ Length[list[j].string[1]] = l
    <2>1. PICK q \in 1..n : FirstOf(q) /\ list[j] = Entry(Cardinality(OfUpTo(n, LengthAt(q))), <<WordAt(q)>>)
      BY <1>2
    <2> DEFINE l == LengthAt(q)
    <2>2. list[j] = Entry(total(l), <<WordAt(q)>>)
      BY <1>5, <2>1
    <2>3. rare(l) = <<WordAt(q)>>
      <3>1. Count!Rarest(text, LengthAt(q)) = Input[q]
        BY <2>1, RarestIs DEF n
      <3>2. QED
        BY <1>3, <3>1
    <2>4. list[j].string = <<WordAt(q)>> /\ <<WordAt(q)>>[1] = WordAt(q) /\ <<WordAt(q)>> # <<>>
      BY <2>2, EntryIs
    <2>5. Length[list[j].string[1]] = l
      BY <2>4 DEF LengthAt
    <2> HIDE DEF l
    <2>6. Kind(list[j]) = l
      BY <2>5 DEF Kind
    <2>7. l \in lengths
      BY <1>3 DEF l, LengthAt
    <2> HIDE DEF rare, lengths
    <2>8. QED
      BY <2>2, <2>3, <2>4, <2>5, <2>6, <2>7
  <1> HIDE DEF rare
  <1>7. ToSet(list) = all
    <2>1. ToSet(list) \subseteq all
      <3> SUFFICES ASSUME NEW j \in DOMAIN list PROVE list[j] \in all
        BY DEF ToSet
      <3> HIDE DEF lengths
      <3>1. QED
        BY <1>6
    <2>2. ASSUME NEW l \in lengths PROVE Entry(total(l), rare(l)) \in ToSet(list)
      <3>1. PICK j \in DOMAIN list : Kind(list[j]) = l
        BY <1>4 DEF Kinds
      <3> HIDE DEF lengths
      <3>2. list[j] = Entry(total(l), rare(l))
        BY <1>6, <3>1
      <3>3. QED
        BY <3>2 DEF ToSet
    <2>3. QED
      BY <2>1, <2>2
  <1>8. Told(list)
    <2>1. \A j \in DOMAIN list : list[j].string # <<>> /\ Kind(list[j]) = Length[list[j].string[1]]
      <3> HIDE DEF lengths
      <3>1. QED
        BY <1>6
    <2>2. QED
      BY <1>2, <2>1 DEF Told, Distinct
  <1>9. Count!ByLength(text) = Count!InOrder(all, Count!Before)
    BY ByLengthIs DEF total, rare
  <1>10. Reduced(Input) = bubbleSort[list]
    BY DEF Reduced, list
  <1> HIDE DEF all
  <1>11. QED
    BY <1>7, <1>8, <1>9, <1>10, SortedIs

-----------------------------------------------------------------------------
(* What the rounds have reduced to: the second part of the invariant. *)

\* The runs whose answer has to be right, unless shared memory is refused to
\* them yet.
Sound == version = "threads" \/ (~ refused /\ (text # <<>> \/ ~ unclean))

\* A segment is no larger than a chunk, or than the chunks before it.
Largest(key) == MAXWORDS * (IF key = 0 THEN 1 ELSE key)
Fits ==
    \A r \in Rounds : \A key \in DOMAIN kernel[r] :
        kernel[r][key].size \in Nat /\ kernel[r][key].size <= Largest(key)

\* No chunk is refused its memory silently; with too few keys the child that
\* reduces is, if no other is.
Refusals ==
    /\ refused \in BOOLEAN /\ unclean \in BOOLEAN
    /\ bad # {} => refused
    /\ pc = "reduce" /\ ~ refused => chunks < Keys

\* The chunks given away are no more than the words need, and in the end enough.
GivenAway ==
    pc # "done" => /\ chunks > 0 => (chunks - 1) * MAXWORDS < Len(Input)
                   /\ pc \in {"last", "mapped", "reduce"} => Rest <= 0

ThreadLists ==
    version = "threads" /\ pc # "done" => lists = [i \in 1..chunks |-> Merged(Chunk(i - 1))]

\* The child that reduces leaves what the whole input reduces to.
ReducedRight ==
    version = "fork" /\ pc = "reduce" /\ Sound /\ (chunks = 0 \/ kids[chunks] = "ended") =>
        Segments[Key(chunks)].list = Reduced(Input)

\* The rounds that are over have given what WordCount says.
RightSoFar ==
    /\ Sound /\ pc # "done" => /\ round > 1 => Listed(results[1])
                               /\ round > 2 => results[2] = Count!ByRepetitions(text)
    /\ pc = "done" => results # <<>>

RInv == Fits /\ Refusals /\ GivenAway /\ ThreadLists /\ ReducedRight /\ RightSoFar

\* The text is one of words, and there is more than one key.
LEMMA TextType ==
    ASSUME TypeOK
    PROVE  text \in Seq(Words) /\ Keys > 1 /\ (version = "fork" \/ version = "threads")
  BY SizesAssumption DEF TypeOK, Words

\* What a round reads in a run that is sound: the text, or its words with their
\* numbers, which are not more.
LEMMA SoundInput ==
    ASSUME TypeOK, RightSoFar, Sound, pc # "done"
    PROVE  /\ Input \in Seq(Entries) /\ Len(Input) \in Nat /\ Len(Input) <= Len(text)
           /\ Len(text) \in Nat /\ (Input = <<>> <=> text = <<>>)
           /\ round # 1 => Listed(Input)
  <1>1. text \in Seq(Words) /\ Len(text) \in Nat /\ round \in 1..3
    BY TextType DEF TypeOK, Rounds
  <1>2. CASE round = 1
    <2>1. Input \in Seq(Entries) /\ Len(Input) = Len(text)
      BY <1>1, <1>2, InputOne
    <2>2. Input = <<>> <=> text = <<>>
      BY <1>1, <2>1, EmptySeq
    <2>3. QED
      BY <1>1, <1>2, <2>1, <2>2
  <1>3. CASE round # 1
    <2>1. Input = results[1] /\ Listed(Input)
      BY <1>1, <1>3 DEF Input, RightSoFar
    <2> HIDE DEF Listed
    <2>2. QED
      BY <1>1, <2>1, ListedIs
  <1>4. QED
    BY <1>2, <1>3

\* What it reduces to is what WordCount says.
LEMMA SoundReduced ==
    ASSUME TypeOK, RightSoFar, Sound, pc # "done"
    PROVE  /\ round = 1 => Listed(Reduced(Input))
           /\ round = 2 => Reduced(Input) = Count!ByRepetitions(text)
           /\ round = 3 => Reduced(Input) = Count!ByLength(text)
  <1>1. text \in Seq(Words)
    BY TextType
  <1>2. round # 1 => Listed(Input)
    BY SoundInput
  <1>3. CASE round = 1
    BY <1>1, <1>3, ListedOne
  <1>4. CASE round = 2
    BY <1>1, <1>2, <1>4, RoundTwo
  <1>5. CASE round = 3
    BY <1>1, <1>2, <1>5, RoundThree
  <1>6. QED
    BY <1>3, <1>4, <1>5

\* Nothing reduces to nothing.
LEMMA NothingReduced ==
    ASSUME Input = <<>>
    PROVE  Reduced(Input) = <<>>
  <1>1. <<>> \in Seq(Entries) /\ DOMAIN <<>> = {}
    OBVIOUS
  <1>2. Merged(<<>>) = <<>>
    BY <1>1, MergedIs, FoldSteps
  <1>3. bubbleSort[<<>>] = <<>>
    <2>1. bubbleSort[<<>>] = [n \in DOMAIN <<>> |-> <<>>[CHOOSE i \in DOMAIN <<>> : Cardinality(Ahead(<<>>, i)) = n - 1]]
      BY <1>1 DEF bubbleSort
    <2>2. [n \in DOMAIN <<>> |-> <<>>[CHOOSE i \in DOMAIN <<>> : Cardinality(Ahead(<<>>, i)) = n - 1]] = <<>>
      BY <1>1
    <2>3. QED
      BY <2>1, <2>2
  <1>4. QED
    BY <1>2, <1>3 DEF Reduced

\* While the round goes on nothing changes of what it has to reduce to.
LEMMA SameRound ==
    ASSUME text' = text, round' = round, results' = results
    PROVE  Input' = Input /\ Reduced(Input)' = Reduced(Input)
  <1>1. Input' = Input
    BY SameInput
  <1>2. \A a, b : Same(a, b)' = Same(a, b) /\ Joined(a, b)' = Joined(a, b)
    BY DEF Same, Joined
  <1>3. \A list, e : Place(list, e)' = Place(list, e)
    BY <1>2 DEF Place, SelectInSeq
  <1>4. Added' = Added
    BY <1>2, <1>3 DEF Added
  <1>5. Merged(Input)' = Merged(Input)
    BY <1>1, <1>4 DEF Merged
  <1>6. bubbleSort' = bubbleSort
    BY DEF bubbleSort, Ahead, Before, Entries
  <1>7. QED
    BY <1>1, <1>5, <1>6 DEF Reduced

\* Nor of what WordCount says of the text.
LEMMA SameListed ==
    ASSUME text' = text
    PROVE  /\ \A list : results'[1] = list /\ Listed(list) => Listed(results[1])'
           /\ Count!Repetitions(text)' = Count!Repetitions(text)
           /\ Count!ByRepetitions(text)' = Count!ByRepetitions(text)
           /\ Count!ByLength(text)' = Count!ByLength(text)
  <1>1. \A w : Count!Occurrences(text, w)' = Count!Occurrences(text, w)
    BY DEF Count!Occurrences
  <1>2. ToSet(text)' = ToSet(text)
    BY DEF ToSet
  <1>3. ASSUME NEW list, results'[1] = list, Listed(list)
        PROVE  Listed(results[1])'
    <2>1. ToSet(results[1])' = ToSet(list)
      BY <1>3 DEF ToSet
    <2>2. Told(results[1])' /\ Ordered(results[1])'
      BY <1>3 DEF Listed, Told, Ordered, Before, Entries
    <2>3. QED
      BY <1>1, <1>2, <1>3, <2>1, <2>2 DEF Listed, Entry, Count!Entry
  <1>4. QED
    BY <1>3

-----------------------------------------------------------------------------
(* The size of segments, and what the calls of the system do to it. *)

\* A chunk is no larger than any segment may be; the chunks are larger than
\* every segment when they are as many as the keys.
LEMMA LargestIs ==
    ASSUME NEW key \in 0..(Keys - 1)
    PROVE  /\ Largest(key) \in Nat /\ MAXWORDS <= Largest(key)
           /\ key > 0 => MAXWORDS * key <= Largest(key)
           /\ \A n \in Nat : n >= Keys /\ Keys > 1 => Largest(key) < MAXWORDS * n
  <1> DEFINE k == IF key = 0 THEN 1 ELSE key
  <1>1. /\ k \in Nat /\ k >= 1 /\ Largest(key) = MAXWORDS * k /\ key \in Nat /\ (key > 0 => k = key)
        /\ \A n \in Nat : n >= Keys /\ Keys > 1 => k < n
    BY Sizes DEF Largest
  <1> HIDE DEF k
  <1>2. MAXWORDS * k \in Nat /\ MAXWORDS <= MAXWORDS * k
    BY <1>1, Sizes
  <1>3. ASSUME NEW n \in Nat, k < n
        PROVE  MAXWORDS * k < MAXWORDS * n
    BY <1>1, <1>3, Sizes
  <1>4. QED
    BY <1>1, <1>2, <1>3

\* A new segment fits if the words do, and is empty; one that is too small is
\* refused, and the run knows.
LEMMA MemoryAdded ==
    ASSUME KernelOK, Fits, round \in Rounds, chunks \in Nat, refused \in BOOLEAN,
           NEW words \in Nat, addSharedMemory(words),
           Key(chunks) \notin DOMAIN Segments => words <= Largest(Key(chunks))
    PROVE  /\ Fits' /\ refused' \in BOOLEAN /\ (refused => refused') /\ (bad' # bad => refused')
           /\ refused' => refused \/ (Key(chunks) \in DOMAIN Segments /\ Segments[Key(chunks)].size < words)
           /\ (Key(chunks) \in DOMAIN Segments /\ Segments[Key(chunks)].size < words) => refused'
           /\ Key(chunks) \notin DOMAIN Segments => kernel'[round][Key(chunks)].list = <<>>
  <1> DEFINE key == Key(chunks)
             small == key \in DOMAIN Segments /\ Segments[key].size < words
             new == Extended(Segments, key, Segment(words, <<>>))
  <1>1. /\ kernel' = IF key \in DOMAIN Segments THEN kernel ELSE [kernel EXCEPT ![round] = new]
        /\ refused' = (refused \/ small) /\ bad' = IF small THEN bad \union {chunks} ELSE bad
    BY DEF addSharedMemory, Segments
  <1>2. /\ refused' \in BOOLEAN /\ (refused => refused') /\ (bad' # bad => refused')
        /\ (refused' => refused \/ small) /\ (small => refused')
    BY <1>1
  <1> HIDE DEF small
  <1>3. CASE key \in DOMAIN Segments
    BY <1>1, <1>2, <1>3 DEF Fits, small
  <1>4. CASE key \notin DOMAIN Segments
    <2>1. /\ DOMAIN new = DOMAIN Segments \union {key}
          /\ \A k \in DOMAIN Segments : new[k] = Segments[k]
          /\ new[key].size = words /\ new[key].list = <<>>
      BY <1>4 DEF Extended, Segment
    <2>2. words <= Largest(key)
      BY <1>4
    <2> HIDE DEF new, key
    <2>3. /\ kernel'[round] = new /\ \A r \in Rounds : r # round => kernel'[r] = kernel[r]
      BY <1>1, <1>4 DEF KernelOK
    <2>4. Fits'
      <3> SUFFICES ASSUME NEW r \in Rounds, NEW k \in DOMAIN kernel'[r]
                   PROVE  kernel'[r][k].size \in Nat /\ kernel'[r][k].size <= Largest(k)
        BY DEF Fits, Largest
      <3>1. CASE r # round
        BY <2>3, <3>1 DEF Fits
      <3>2. CASE r = round /\ k = key
        BY <2>1, <2>2, <2>3, <3>2
      <3>3. CASE r = round /\ k # key
        BY <2>1, <2>3, <3>3 DEF Fits, Segments
      <3>4. QED
        BY <3>1, <3>2, <3>3
    <2>5. QED
      BY <1>2, <1>4, <2>1, <2>3, <2>4 DEF small, key
  <1>5. QED
    BY <1>3, <1>4

\* A child that writes leaves the sizes alone.
LEMMA WrittenFits ==
    ASSUME KernelOK, Fits, round \in Rounds, NEW i \in Nat, Key(i) \in DOMAIN Segments,
           NEW list, kernel' = shmWrite(i, list)
    PROVE  Fits'
  <1> DEFINE new == [Segments[Key(i)] EXCEPT !.list = list]
             there == [Segments EXCEPT ![Key(i)] = new]
  <1>1. CASE i \in bad
    BY <1>1 DEF shmWrite, Fits, Largest
  <1>2. CASE i \notin bad
    <2>1. kernel' = [kernel EXCEPT ![round] = there]
      BY <1>2 DEF shmWrite, Segments
    <2>2. new.size = Segments[Key(i)].size
      BY DEF KernelOK, Segments
    <2> HIDE DEF new
    <2>3. /\ DOMAIN there = DOMAIN Segments /\ there[Key(i)] = new
          /\ \A key \in DOMAIN Segments : key # Key(i) => there[key] = Segments[key]
      OBVIOUS
    <2> HIDE DEF there
    <2>4. /\ kernel'[round] = there /\ \A r \in Rounds : r # round => kernel'[r] = kernel[r]
      BY <2>1 DEF KernelOK
    <2> SUFFICES ASSUME NEW r \in Rounds, NEW k \in DOMAIN kernel'[r]
                 PROVE  kernel'[r][k].size \in Nat /\ kernel'[r][k].size <= Largest(k)
      BY DEF Fits, Largest
    <2>5. k \in DOMAIN kernel[r] /\ kernel'[r][k].size = kernel[r][k].size
      BY <2>2, <2>3, <2>4 DEF Segments
    <2>6. QED
      BY <2>5 DEF Fits
  <1>3. QED
    BY <1>1, <1>2

\* A release takes segments away.
LEMMA ReleasedFits ==
    ASSUME KernelOK, Fits, round \in Rounds, NEW n, kernel' = Released(n)
    PROVE  Fits'
  <1> DEFINE gone == {Key(i) : i \in 0..(n - 1) \ bad}
             left == [key \in DOMAIN Segments \ gone |-> Segments[key]]
  <1>1. kernel' = [kernel EXCEPT ![round] = left]
    BY DEF Released, Segments
  <1> HIDE DEF gone
  <1>2. DOMAIN left \subseteq DOMAIN Segments /\ \A key \in DOMAIN left : left[key] = Segments[key]
    OBVIOUS
  <1> HIDE DEF left
  <1>3. kernel'[round] = left /\ \A r \in Rounds : r # round => kernel'[r] = kernel[r]
    BY <1>1 DEF KernelOK
  <1> SUFFICES ASSUME NEW r \in Rounds, NEW k \in DOMAIN kernel'[r]
               PROVE  kernel'[r][k].size \in Nat /\ kernel'[r][k].size <= Largest(k)
    BY DEF Fits, Largest
  <1>4. k \in DOMAIN kernel[r] /\ kernel'[r][k].size = kernel[r][k].size
    BY <1>2, <1>3 DEF Segments
  <1>5. QED
    BY <1>4 DEF Fits

\* What the rounds that are over have given stays right while the next goes on.
LEMMA StillRight ==
    ASSUME RightSoFar, UNCHANGED <<text, version, round, results, unclean>>, refused => refused',
           pc # "done", pc' # "done"
    PROVE  RightSoFar'
  <1>1. Sound' => Sound
    BY DEF Sound
  <1>2. Listed(results[1]) => Listed(results[1])'
    BY SameListed
  <1>3. Count!ByRepetitions(text)' = Count!ByRepetitions(text)
    BY SameListed
  <1>4. QED
    BY <1>1, <1>2, <1>3 DEF RightSoFar

-----------------------------------------------------------------------------
(* The second part of the invariant: steps that fork a child. *)

\* A segment is asked for: it fits, or is refused.
LEMMA ForkedRInv ==
    ASSUME IInv, RInv, version = "fork", pc \notin {"reduce", "done"}, NEW words \in Nat, addSharedMemory(words),
           Key(chunks) \notin DOMAIN Segments => words <= Largest(Key(chunks)),
           UNCHANGED <<text, version, round, results, unclean>>, pc' # "done"
    PROVE  /\ Fits' /\ RightSoFar' /\ ThreadLists'
           /\ refused' \in BOOLEAN /\ unclean' \in BOOLEAN /\ (bad' # {} => refused')
           /\ pc' # "reduce" => Refusals' /\ ReducedRight'
  <1>1. /\ TypeOK /\ Present /\ Fits /\ Refusals /\ RightSoFar
        /\ round \in Rounds /\ chunks \in Nat /\ refused \in BOOLEAN /\ unclean \in BOOLEAN
    BY DEF IInv, RInv, Refusals, TypeOK
  <1>2. KernelOK
    BY <1>1, InvKernelOK
  <1>3. Fits' /\ refused' \in BOOLEAN /\ (refused => refused') /\ (bad' # bad => refused')
    BY <1>1, <1>2, MemoryAdded
  <1>4. RightSoFar'
    BY <1>1, <1>3, StillRight
  <1>5. bad' # {} => refused'
    BY <1>1, <1>3 DEF Refusals
  <1>6. QED
    BY <1>1, <1>3, <1>4, <1>5 DEF ThreadLists, Refusals, ReducedRight

\* A chunk more: it begins before the end of the input.
LEMMA OneChunkMore ==
    ASSUME IInv, pc # "done", Rest > 0, chunks' = chunks + 1, UNCHANGED <<text, round, results>>,
           pc' \in {"map", "slot"} \/ Rest <= MAXWORDS
    PROVE  GivenAway'
  <1>1. /\ chunks \in Nat /\ Rest = Len(Input) - chunks * MAXWORDS /\ Len(Input) \in Nat /\ chunks * MAXWORDS \in Nat
    BY InputLength DEF IInv, TypeOK
  <1>2. Input' = Input /\ Rest' = Len(Input) - (chunks + 1) * MAXWORDS
    BY SameInput DEF Rest
  <1>3. (chunks + 1) * MAXWORDS = chunks * MAXWORDS + MAXWORDS
    BY <1>1, ChunksFit
  <1>4. chunks' - 1 = chunks
    BY <1>1
  <1>5. (chunks' - 1) * MAXWORDS < Len(Input)
    BY <1>1, <1>4
  <1>6. pc' \in {"map", "slot"} \/ Rest' <= 0
    BY <1>1, <1>2, <1>3, Sizes
  <1>7. QED
    BY <1>2, <1>5, <1>6 DEF GivenAway

\* A child more maps a full chunk.
LEMMA ForkMapRInv ==
    ASSUME IInv, RInv, ForkMap
    PROVE  RInv'
  <1>1. /\ version = "fork" /\ pc = "map" /\ Rest >= MAXWORDS /\ chunks' = chunks + 1 /\ pc' \in {"slot", "map"}
        /\ addSharedMemory(MAXWORDS) /\ UNCHANGED <<text, version, round, results, unclean>>
    BY DEF ForkMap, AllSlotsTaken, history
  <1>2. Key(chunks) \in 0..(Keys - 1)
    BY KeyType DEF IInv, TypeOK
  <1>3. MAXWORDS <= Largest(Key(chunks)) /\ MAXWORDS \in Nat
    BY <1>2, LargestIs, Sizes
  <1>4. Fits' /\ RightSoFar' /\ ThreadLists' /\ Refusals' /\ ReducedRight'
    BY <1>1, <1>3, ForkedRInv
  <1>5. Rest > 0
    BY <1>1, Sizes, InputLength DEF IInv
  <1>6. GivenAway'
    BY <1>1, <1>5, OneChunkMore
  <1>7. QED
    BY <1>4, <1>6 DEF RInv

\* The last child maps what is left of the input.
LEMMA ForkLastRInv ==
    ASSUME IInv, RInv, ForkLast
    PROVE  RInv'
  <1>1. /\ version = "fork" /\ pc = "map" /\ Rest < MAXWORDS /\ Rest > 0 /\ chunks' = chunks + 1 /\ pc' = "last"
        /\ addSharedMemory(Rest) /\ UNCHANGED <<text, version, round, results, unclean>>
    BY DEF ForkLast, Full, history
  <1>2. Key(chunks) \in 0..(Keys - 1)
    BY KeyType DEF IInv, TypeOK
  <1>3. Rest \in Nat /\ Rest <= Largest(Key(chunks)) /\ Rest <= MAXWORDS
    <2>1. Rest \in Int
      BY <1>1, InputLength DEF IInv
    <2>2. MAXWORDS <= Largest(Key(chunks)) /\ Largest(Key(chunks)) \in Nat
      BY <1>2, LargestIs
    <2>3. QED
      BY <1>1, <2>1, <2>2, Sizes
  <1>4. Fits' /\ RightSoFar' /\ ThreadLists' /\ Refusals' /\ ReducedRight'
    BY <1>1, <1>3, ForkedRInv
  <1>5. GivenAway'
    BY <1>1, <1>3, OneChunkMore
  <1>6. QED
    BY <1>4, <1>5 DEF RInv

\* The parent waits for children that map.
LEMMA WaitRInv ==
    ASSUME IInv, RInv, pc \in {"map", "slot", "last"}, pc' \in {"map", "slot", "mapped"}, pc' = "mapped" => pc = "last",
           UNCHANGED <<text, version, round, chunks, bad, kernel, refused, lists, results, unclean>>
    PROVE  RInv'
  <1>1. Fits' /\ Refusals'
    BY DEF RInv, Fits, Refusals, Largest
  <1>2. RightSoFar'
    BY StillRight DEF RInv
  <1>3. \A i : Input' = Input /\ Merged(Chunk(i))' = Merged(Chunk(i))
    BY SameInput
  <1>4. GivenAway'
    BY <1>3 DEF RInv, GivenAway, Rest
  <1>5. ThreadLists'
    BY <1>3 DEF RInv, ThreadLists
  <1>6. ReducedRight'
    BY DEF ReducedRight
  <1>7. QED
    BY <1>1, <1>2, <1>4, <1>5, <1>6 DEF RInv

\* These are three steps of the parent.
LEMMA WaitsRInv ==
    ASSUME IInv, RInv, WaitSlot \/ WaitAll \/ WaitLast
    PROVE  RInv'
  <1>1. /\ pc \in {"map", "slot", "last"} /\ pc' \in {"map", "slot", "mapped"} /\ (pc' = "mapped" => pc = "last")
        /\ UNCHANGED <<text, version, round, chunks, bad, kernel, refused, lists, results, unclean>>
    BY DEF WaitSlot, WaitAll, WaitLast, Full, memory, arrays, history
  <1>2. QED
    BY <1>1, WaitRInv

\* The segment of the child that reduces is too small if there are no more keys
\* than chunks; if there are no chunks, nothing is what it has to have.
LEMMA ForkReduceRInv ==
    ASSUME IInv, RInv, ForkReduce
    PROVE  RInv'
  <1>1. /\ TypeOK /\ Present /\ Clean /\ RoundsOver /\ KidsInPhase /\ Fits /\ GivenAway /\ RightSoFar /\ Sized
    BY DEF IInv, RInv
  <1>2. /\ version = "fork" /\ pc \in {"map", "mapped"} /\ (pc = "map" => Rest = 0) /\ pc' = "reduce" /\ Fork
        /\ addSharedMemory(MAXWORDS * chunks) /\ UNCHANGED <<text, version, round, chunks, results, unclean>>
    BY DEF ForkReduce, Mapped, history
  <1>3. /\ chunks \in Nat /\ round \in Rounds /\ KernelOK /\ refused \in BOOLEAN /\ Keys > 1 /\ Keys \in Nat
        /\ MAXWORDS * chunks \in Nat
    BY <1>1, InvKernelOK, TextType, Sizes DEF TypeOK, RInv, Refusals
  <1>4. chunks < Keys => Key(chunks) = chunks
    BY <1>3, KeyType
  <1>5. Key(chunks) \in 0..(Keys - 1)
    BY <1>3, KeyType
  <1>6. Key(chunks) \notin DOMAIN Segments => chunks < Keys
    <2> SUFFICES ASSUME chunks >= Keys PROVE Key(chunks) \in DOMAIN Segments
      BY <1>3
    <2>1. Key(chunks) \in 0..(chunks - 1) /\ Key(Key(chunks)) = Key(chunks)
      <3>1. Key(chunks) \in Nat /\ Key(chunks) < Keys /\ Key(chunks) <= chunks - 1
        BY <1>3, <1>5
      <3>2. QED
        BY <1>3, <3>1, KeyType
    <2>2. QED
      BY <1>1, <1>2, <2>1 DEF Present
  <1>7. Key(chunks) \notin DOMAIN Segments => MAXWORDS * chunks <= Largest(Key(chunks))
    <2> SUFFICES ASSUME chunks < Keys PROVE MAXWORDS * chunks <= Largest(chunks)
      BY <1>4, <1>6
    <2>1. chunks \in 0..(Keys - 1)
      BY <1>3
    <2>2. CASE chunks = 0
      <3>1. MAXWORDS * chunks = 0 /\ Largest(chunks) >= 0
        BY <2>1, <2>2, LargestIs, Sizes
      <3>2. QED
        BY <1>3, <2>1, <3>1, LargestIs
    <2>3. CASE chunks # 0
      BY <1>3, <2>1, <2>3, LargestIs
    <2>4. QED
      BY <2>2, <2>3
  <1>8. /\ Fits' /\ RightSoFar' /\ ThreadLists'
        /\ refused' \in BOOLEAN /\ unclean' \in BOOLEAN /\ (bad' # {} => refused')
    BY <1>2, <1>3, <1>7, ForkedRInv
  <1>9. ~ refused' => chunks < Keys
    <2> SUFFICES ASSUME chunks >= Keys PROVE refused'
      BY <1>3
    <2>1. Key(chunks) \in DOMAIN Segments
      BY <1>3, <1>6
    <2>2. Segments[Key(chunks)].size \in Nat /\ Segments[Key(chunks)].size <= Largest(Key(chunks))
      BY <1>1, <1>3, <2>1 DEF Fits, Segments
    <2>3. Largest(Key(chunks)) < MAXWORDS * chunks /\ Largest(Key(chunks)) \in Nat
      BY <1>3, <1>5, LargestIs
    <2>4. Segments[Key(chunks)].size < MAXWORDS * chunks
      BY ONLY <1>3, <2>2, <2>3
    <2>5. QED
      BY <1>1, <1>2, <1>3, <1>7, <2>1, <2>4, MemoryAdded
  <1>10. Refusals'
    BY <1>2, <1>8, <1>9 DEF Refusals
  <1>11. Rest <= 0
    BY <1>1, <1>2 DEF GivenAway
  <1>12. GivenAway'
    <2>1. Input' = Input
      BY <1>2, SameInput
    <2>2. QED
      BY <1>1, <1>2, <1>11, <2>1 DEF GivenAway, Rest
  <1>13. ReducedRight'
    <2> SUFFICES ASSUME Sound', chunks = 0 \/ kids'[chunks] = "ended"
                 PROVE  Segments'[Key(chunks)].list = Reduced(Input)'
      BY <1>2 DEF ReducedRight, Key
    <2>1. chunks = 0
      BY <1>2, ForkAddsOne
    <2>2. Sound
      <3>1. refused => refused'
        BY <1>1, <1>2, <1>3, <1>7, MemoryAdded
      <3>2. QED
        BY <1>2, <3>1 DEF Sound
    <2>3. Input = <<>> /\ text = <<>>
      <3>1. pc # "done"
        BY <1>2
      <3>2. Input \in Seq(Entries) /\ Len(Input) \in Nat /\ (Input = <<>> <=> text = <<>>)
        BY <1>1, <2>2, <3>1, SoundInput
      <3>3. Rest = Len(Input) - chunks * MAXWORDS
        BY <1>1, <3>1, InputLength
      <3>4. Len(Input) = 0
        BY <1>11, <2>1, <3>2, <3>3, Sizes
      <3>5. QED
        BY <3>2, <3>4, EmptySeq
    <2>4. DOMAIN Segments = {}
      <3>1. ~ unclean
        BY <1>2, <2>2, <2>3 DEF Sound
      <3>2. Made = 0..(0 - 1)
        BY <1>2, <2>1 DEF Made
      <3>3. Made = {}
        BY <3>2
      <3>4. QED
        BY <1>1, <1>2, <3>1, <3>3 DEF Clean
    <2>5. kernel'[round][Key(chunks)].list = <<>>
      BY <1>1, <1>2, <1>3, <1>7, <2>4, MemoryAdded
    <2>6. Reduced(Input)' = <<>>
      BY <1>2, <2>3, NothingReduced, SameRound
    <2>7. QED
      BY <1>2, <2>5, <2>6 DEF Segments
  <1>14. QED
    BY <1>8, <1>10, <1>12, <1>13 DEF RInv

-----------------------------------------------------------------------------
(* The second part of the invariant: children, and the ends of rounds. *)

\* The lists of the chunks, put together, reduce to what the whole input does.
LEMMA ChunksReduced ==
    ASSUME TypeOK, RoundsOver, GivenAway, RightSoFar, Sound, pc # "done", pc = "map" => Rest <= 0, pc # "slot"
    PROVE  Reduced(FlattenSeq([i \in 1..chunks |-> Merged(Chunk(i - 1))])) = Reduced(Input)
  <1>1. /\ chunks \in Nat /\ round \in Rounds /\ Input \in Seq(Entries) /\ Len(Input) \in Nat
        /\ Rest = Len(Input) - chunks * MAXWORDS /\ chunks * MAXWORDS \in Nat
    BY SoundInput, InputLength DEF TypeOK
  <1>2. Rest <= 0 /\ (chunks > 0 => (chunks - 1) * MAXWORDS < Len(Input))
    BY DEF GivenAway, TypeOK
  <1>3. chunks * MAXWORDS >= Len(Input)
    BY <1>1, <1>2
  <1>4. QED
    BY <1>1, <1>2, <1>3, ChunksMerged

\* The child that reduces finds these lists.
LEMMA FoundReduced ==
    ASSUME IInv, RInv, version = "fork", pc = "reduce", Sound
    PROVE  bad = {} /\ Reduced(Found) = Reduced(Input)
  <1>1. /\ TypeOK /\ KidsInPhase /\ RoundsOver /\ Written /\ GivenAway /\ RightSoFar
        /\ chunks \in Nat /\ DOMAIN kids = {chunks}
    BY DEF IInv, RInv, TypeOK, KidsInPhase
  <1>2. bad = {} /\ chunks < Keys
    BY DEF RInv, Refusals, Sound
  <1>3. \A i \in 1..chunks : Segments[Key(i - 1)].list = Merged(Chunk(i - 1))
    <2> SUFFICES ASSUME NEW i \in 1..chunks
                 PROVE  Segments[Key(i - 1)].list = Merged(Chunk(i - 1))
      OBVIOUS
    <2>1. i - 1 \in 0..(chunks - 1) /\ i - 1 # chunks
      BY <1>1
    <2>2. HasWritten(i - 1)
      BY <1>1, <1>2, <2>1 DEF HasWritten
    <2>3. QED
      BY <1>1, <1>2, <2>1, <2>2 DEF Written
  <1>4. Found = FlattenSeq([i \in 1..chunks |-> Merged(Chunk(i - 1))])
    <2>1. [i \in 1..chunks |-> Segments[Key(i - 1)].list] = [i \in 1..chunks |-> Merged(Chunk(i - 1))]
      BY <1>3
    <2>2. QED
      BY <2>1 DEF Found
  <1>5. QED
    BY <1>1, <1>2, <1>4, ChunksReduced

\* A child that maps writes its list, long before the child that reduces.
LEMMA MapChildRInv ==
    ASSUME IInv, RInv, NEW i \in DOMAIN kids, MapChild(i)
    PROVE  RInv'
  <1>1. /\ TypeOK /\ KidsInPhase /\ Present /\ Fits
        /\ i < chunks /\ kernel' = shmWrite(i, Merged(Chunk(i)))
        /\ UNCHANGED <<text, version, pc, round, chunks, bad, refused, lists, results, unclean>>
    BY DEF IInv, RInv, MapChild, arrays, history
  <1>2. chunks \in Nat /\ round \in Rounds /\ i \in Nat /\ KernelOK
    BY <1>1, InvKernelOK DEF TypeOK
  <1>3. pc \notin {"reduce", "done"} /\ version = "fork"
    BY <1>1, <1>2, TextType DEF KidsInPhase
  <1>4. Key(i) \in DOMAIN Segments
    <2>1. i \in 0..(chunks - 1)
      BY <1>1, <1>2
    <2>2. QED
      BY <1>1, <1>3, <2>1 DEF Present
  <1>5. Fits'
    BY <1>1, <1>2, <1>4, WrittenFits
  <1>6. Refusals' /\ ReducedRight' /\ ThreadLists'
    BY <1>1, <1>3 DEF RInv, Refusals, ReducedRight, ThreadLists
  <1>7. RightSoFar'
    BY <1>1, <1>3, StillRight DEF RInv
  <1>8. GivenAway'
    <2>1. Input' = Input
      BY <1>1, SameInput
    <2>2. QED
      BY <1>1, <2>1 DEF RInv, GivenAway, Rest
  <1>9. QED
    BY <1>5, <1>6, <1>7, <1>8 DEF RInv

\* The child that reduces writes what the input reduces to.
LEMMA ReduceChildRInv ==
    ASSUME IInv, RInv, chunks \in DOMAIN kids, ReduceChild
    PROVE  RInv'
  <1>1. /\ TypeOK /\ KidsInPhase /\ Present /\ Fits /\ RoundsOver
        /\ pc = "reduce" /\ kids[chunks] = "running" /\ kids' = [kids EXCEPT ![chunks] = "ended"]
        /\ UNCHANGED <<text, version, pc, round, chunks, bad, refused, lists, results, unclean>>
    BY DEF IInv, RInv, ReduceChild, arrays, history
  <1>2. chunks \in Nat /\ round \in Rounds /\ KernelOK /\ version = "fork" /\ Key(chunks) \in DOMAIN Segments
    BY <1>1, InvKernelOK, TextType DEF TypeOK, KidsInPhase, Present
  <1>3. \/ kernel' = IF bad \ {chunks} # {} THEN kernel ELSE shmWrite(chunks, Reduced(Found))
        \/ chunks = 0 /\ kernel' = kernel
    BY DEF ReduceChild
  <1>4. Fits'
    <2>1. CASE kernel' = kernel
      BY <1>1, <2>1 DEF Fits, Largest
    <2>2. CASE kernel' = shmWrite(chunks, Reduced(Found))
      BY <1>1, <1>2, <2>2, WrittenFits
    <2>3. QED
      BY <1>3, <2>1, <2>2
  <1>5. Refusals' /\ ThreadLists'
    BY <1>1, <1>2 DEF RInv, Refusals, ThreadLists
  <1>6. RightSoFar'
    BY <1>1, StillRight DEF RInv
  <1>7. Input' = Input /\ Reduced(Input)' = Reduced(Input)
    BY <1>1, SameRound
  <1>8. GivenAway'
    BY <1>1, <1>7 DEF RInv, GivenAway, Rest
  <1>9. ReducedRight'
    <2> SUFFICES ASSUME Sound PROVE kernel'[round][Key(chunks)].list = Reduced(Input)
      BY <1>1, <1>7 DEF ReducedRight, Sound, Key, Segments
    <2>1. bad = {} /\ Reduced(Found) = Reduced(Input)
      BY <1>1, <1>2, FoundReduced
    <2>2. CASE kernel' = shmWrite(chunks, Reduced(Found))
      <3>1. round = 1 => Len(Reduced(Found)) \in Nat
        BY <1>1, <1>2, <2>1, InputEntries, ReducedLength
      <3>2. chunks \notin bad
        BY <2>1
      <3>3. QED
        BY <1>2, <2>1, <2>2, <3>1, <3>2, ListWritten
    <2>3. CASE chunks = 0 /\ kernel' = kernel
      BY <1>1, <1>2, <2>3 DEF RInv, ReducedRight, Segments
    <2>4. QED
      BY <1>3, <2>1, <2>2, <2>3
  <1>10. QED
    BY <1>4, <1>5, <1>6, <1>8, <1>9 DEF RInv

\* A round ends with what the whole input reduces to.
LEMMA RoundEndsRInv ==
    ASSUME IInv, RInv, pc # "done", NEW list, NextRound(list), Sound => list = Reduced(Input),
           round = 1 => Len(list) \in Nat,
           UNCHANGED <<text, version, unclean, refused>>, Fits'
    PROVE  RInv' /\ (round = 3 /\ Sound => results' = Count!Results(text)) /\ results' # <<>>
  <1>1. /\ TypeOK /\ RoundsOver /\ round \in 1..3 /\ Refusals /\ RightSoFar
        /\ text \in Seq(Words) /\ Len(text) \in Nat
    BY TextType DEF IInv, RInv, TypeOK, Rounds
  <1>2. /\ results' = Append(results, list) /\ pc' = (IF round = 3 THEN "done" ELSE "map")
        /\ round' = (IF round = 3 THEN 3 ELSE round + 1)
        /\ chunks' = 0 /\ bad' = {} /\ lists' = <<>>
    BY DEF NextRound
  <1>3. /\ results = [r \in 1..(round - 1) |-> results[r]] /\ round - 1 \in Nat /\ (round - 1) + 1 = round
    BY <1>1 DEF RoundsOver
  <1>4. /\ results' = [r \in 1..round |-> results'[r]] /\ Len(results') = round
        /\ results'[round] = list /\ \A r \in 1..(round - 1) : results'[r] = results[r]
    BY <1>2, <1>3, Appended
  <1>5. results' # <<>>
    <2>1. DOMAIN results' # {} /\ DOMAIN <<>> = {}
      BY <1>1, <1>4
    <2>2. QED
      BY <2>1
  <1>6. Sound' = Sound
    BY DEF Sound
  <1>7. Sound => /\ round = 1 => Listed(list)
                 /\ round = 2 => list = Count!ByRepetitions(text)
                 /\ round = 3 => list = Count!ByLength(text)
    BY <1>1, SoundReduced
  <1>8. Sound /\ round > 1 => Listed(results[1])
    BY <1>1 DEF RightSoFar
  <1>9. Sound => Listed(results'[1])
    <2>1. CASE round = 1
      BY <1>4, <1>7, <2>1
    <2>2. CASE round # 1
      <3>1. 1 \in 1..(round - 1)
        BY <1>1, <2>2
      <3>2. results'[1] = results[1] /\ round > 1
        BY <1>1, <1>4, <2>2, <3>1
      <3>3. QED
        BY <1>8, <3>2
    <2>3. QED
      BY <2>1, <2>2
  <1>10. Sound /\ round > 1 => results'[2] = Count!ByRepetitions(text)
    <2>1. CASE round = 2
      BY <1>4, <1>7, <2>1
    <2>2. CASE round = 3
      <3>1. 2 \in 1..(round - 1)
        BY <2>2
      <3>2. results'[2] = results[2]
        BY <1>4, <3>1
      <3>3. QED
        BY <1>1, <2>2, <3>2 DEF RightSoFar
    <2>3. QED
      BY <1>1, <2>1, <2>2
  <1>11. round = 3 /\ Sound => results' = Count!Results(text)
    <2> SUFFICES ASSUME round = 3, Sound PROVE results' = Count!Results(text)
      OBVIOUS
    <2>1. results'[1] = Count!Repetitions(text)
      BY <1>1, <1>9, ListedIs
    <2>2. results'[2] = Count!ByRepetitions(text) /\ results'[3] = Count!ByLength(text)
      BY <1>4, <1>7, <1>10
    <2>3. results' = [r \in 1..3 |-> results'[r]]
      BY <1>4
    <2>4. QED
      BY <2>1, <2>2, <2>3 DEF Count!Results
  <1>12. RightSoFar'
    <2>1. ASSUME Sound', pc' # "done"
          PROVE  /\ round' > 1 => Listed(results[1])'
                 /\ round' > 2 => results'[2] = Count!ByRepetitions(text)'
      <3>1. Listed(results[1])'
        BY <1>6, <1>9, <2>1, SameListed
      <3>2. round' > 2 => round > 1
        BY <1>1, <1>2
      <3>3. Count!ByRepetitions(text)' = Count!ByRepetitions(text)
        BY SameListed
      <3>4. QED
        BY <1>6, <1>10, <2>1, <3>1, <3>2, <3>3
    <2>2. QED
      BY <1>5, <2>1 DEF RightSoFar
  <1>13. Refusals' /\ ReducedRight'
    BY <1>1, <1>2 DEF Refusals, ReducedRight
  <1>14. ThreadLists'
    <2>1. <<>> = [i \in 1..0 |-> Merged(Chunk(i - 1))']
      OBVIOUS
    <2>2. QED
      BY <1>2, <2>1 DEF ThreadLists
  <1>15. GivenAway'
    BY <1>2 DEF GivenAway
  <1>16. QED
    BY <1>5, <1>11, <1>12, <1>13, <1>14, <1>15 DEF RInv

-----------------------------------------------------------------------------
(* The second part of the invariant: steps that end a round or a run. *)

\* The parent reads what the child that reduces has written.
LEMMA SoundReading ==
    ASSUME IInv, RInv, pc = "reduce", Wait
    PROVE  version = "fork" /\ (Sound => Reading = Reduced(Input))
  <1>1. DOMAIN kids = {chunks} /\ version = "fork"
    BY TextType DEF IInv, KidsInPhase
  <1>2. kids[chunks] = "ended"
    BY <1>1, WaitTakesOne
  <1>3. Sound => bad = {}
    BY <1>1, FoundReduced
  <1>4. QED
    BY <1>1, <1>2, <1>3 DEF RInv, ReducedRight, Reading

\* A round of the version with processes is over.
LEMMA WaitReduceRInv ==
    ASSUME IInv, RInv, WaitReduce
    PROVE  RInv' /\ (round = 3 /\ Sound => results' = Count!Results(text)) /\ results' # <<>>
  <1>1. /\ pc = "reduce" /\ Wait /\ NextRound(Reading) /\ kernel' = Released(chunks + 1)
        /\ UNCHANGED <<text, version, unclean, refused>>
    BY DEF WaitReduce, ReleasedAll, history
  <1>2. Sound => Reading = Reduced(Input)
    BY <1>1, SoundReading
  <1>3. round = 1 => Len(Reading) \in Nat
    BY DEF WaitReduce, IInv, Reading, Present, Segments
  <1>4. Fits'
    <2>1. KernelOK /\ round \in Rounds /\ Fits
      BY InvKernelOK DEF IInv, RInv, TypeOK
    <2>2. QED
      BY <1>1, <2>1, ReleasedFits
  <1>5. QED
    BY <1>1, <1>2, <1>3, <1>4, RoundEndsRInv

\* A round of the version with threads is over.
LEMMA ThreadReduceRInv ==
    ASSUME IInv, RInv, ThreadReduce
    PROVE  RInv' /\ (round = 3 /\ Sound => results' = Count!Results(text)) /\ results' # <<>>
  <1> DEFINE list == Reduced(FlattenSeq(lists))
  <1>1. /\ version = "threads" /\ pc \in {"map", "mapped"} /\ (pc = "map" => Rest = 0) /\ NextRound(list)
        /\ UNCHANGED <<text, version, unclean, refused, kernel>>
    BY DEF ThreadReduce, Mapped, history
  <1>2. Sound
    BY <1>1 DEF Sound
  <1>3. TypeOK /\ RoundsOver /\ GivenAway /\ RightSoFar /\ ThreadLists /\ Fits
    BY DEF IInv, RInv
  <1>4. list = Reduced(Input)
    <2>1. lists = [i \in 1..chunks |-> Merged(Chunk(i - 1))]
      BY <1>1, <1>3 DEF ThreadLists
    <2>2. pc # "done" /\ pc # "slot" /\ (pc = "map" => Rest <= 0)
      BY <1>1
    <2>3. QED
      BY <1>2, <1>3, <2>1, <2>2, ChunksReduced
  <1>5. round = 1 => Len(list) \in Nat
    BY <1>3, <1>4, InputEntries, ReducedLength
  <1>6. Fits' /\ pc # "done"
    BY <1>1, <1>3 DEF Fits, Largest
  <1> HIDE DEF list
  <1>7. QED
    BY <1>1, <1>4, <1>5, <1>6, RoundEndsRInv

\* The program dies, but not when its answer has to be right.
LEMMA CrashRInv ==
    ASSUME RInv, Crash, Fits', refused' \in BOOLEAN, bad' # {} => refused', unclean' = unclean
    PROVE  RInv' /\ results' # <<>>
  <1>1. pc' = "done" /\ results' = [r \in Rounds |-> Segfault]
    BY DEF Crash
  <1>2. results' # <<>>
    <2>1. DOMAIN results' # {} /\ DOMAIN <<>> = {}
      BY <1>1 DEF Rounds
    <2>2. QED
      BY <2>1
  <1>3. QED
    BY <1>1, <1>2 DEF RInv, Refusals, GivenAway, ThreadLists, ReducedRight, RightSoFar

\* The parent dies only when a segment was refused to the child that reduces.
LEMMA CrashReducedRInv ==
    ASSUME IInv, RInv, CrashReduced
    PROVE  RInv' /\ results' # <<>> /\ ~ Sound /\ version = "fork"
  <1>1. /\ pc = "reduce" /\ Wait /\ round = 1 /\ Reading = Segfault /\ Crash /\ kernel' = Released(chunks + 1)
        /\ UNCHANGED <<text, version, bad, unclean, refused>>
    BY DEF CrashReduced, ReleasedAll, history
  <1>2. KernelOK /\ round \in Rounds /\ Fits /\ TypeOK /\ RightSoFar
    BY InvKernelOK DEF IInv, RInv, TypeOK
  <1>3. Fits'
    BY <1>1, <1>2, ReleasedFits
  <1>4. RInv' /\ results' # <<>>
    BY <1>1, <1>3, CrashRInv DEF RInv, Refusals
  <1>5. version = "fork" /\ (Sound => Segfault = Reduced(Input))
    BY <1>1, SoundReading
  <1>6. Sound => Reduced(Input) \in Seq(Entries)
    <2> SUFFICES ASSUME Sound PROVE Reduced(Input) \in Seq(Entries)
      OBVIOUS
    <2>1. pc # "done"
      BY <1>1
    <2>2. Listed(Reduced(Input)) /\ text \in Seq(Words)
      BY <1>1, <1>2, <2>1, SoundReduced, TextType
    <2>3. QED
      BY <2>2, ListedIs
  <1>7. Segfault \notin Seq(Entries)
    BY SizesAssumption DEF Entries
  <1>8. QED
    BY <1>4, <1>5, <1>6, <1>7

\* After an empty text it dies without a refusal.
LEMMA CrashEmptyRInv ==
    ASSUME IInv, RInv, CrashEmpty
    PROVE  RInv' /\ results' # <<>> /\ version = "fork" /\ text = <<>> /\ refused' = refused
  <1>1. /\ version = "fork" /\ pc = "map" /\ text = <<>> /\ round = 2 /\ Crash
        /\ addSharedMemory(0) \/ UNCHANGED <<bad, kernel, refused>>
        /\ UNCHANGED <<text, version, round, chunks, kids, unclean>>
    BY DEF CrashEmpty, memory, history
  <1>2. /\ KernelOK /\ round \in Rounds /\ chunks \in Nat /\ Fits /\ refused \in BOOLEAN
        /\ (bad # {} => refused)
    BY InvKernelOK DEF IInv, RInv, Refusals, TypeOK
  <1>3. Fits' /\ refused' = refused /\ (bad' # {} => refused')
    <2>1. CASE addSharedMemory(0)
      <3>1. 0 <= Largest(Key(chunks))
        BY <1>2, KeyType, LargestIs
      <3>2. /\ Fits' /\ refused' \in BOOLEAN /\ (refused => refused') /\ (bad' # bad => refused')
            /\ refused' => refused \/ (Key(chunks) \in DOMAIN Segments /\ Segments[Key(chunks)].size < 0)
        BY <1>2, <2>1, <3>1, MemoryAdded
      <3>3. Key(chunks) \in DOMAIN Segments => ~ (Segments[Key(chunks)].size < 0)
        BY <1>2 DEF Fits, Segments
      <3>4. QED
        BY <1>2, <3>2, <3>3
    <2>2. CASE UNCHANGED <<bad, kernel, refused>>
      BY <1>2, <2>2 DEF Fits, Largest
    <2>3. QED
      BY <1>1, <2>1, <2>2
  <1>4. refused' \in BOOLEAN /\ unclean' = unclean
    BY <1>1, <1>2, <1>3
  <1>5. RInv' /\ results' # <<>>
    BY <1>1, <1>3, <1>4, CrashRInv
  <1>6. QED
    BY <1>1, <1>3, <1>5

-----------------------------------------------------------------------------
(* The second part of the invariant: threads, and the next run. *)

\* A thread adds the list of its chunk to the others.
LEMMA ThreadsRInv ==
    ASSUME IInv, RInv, ThreadMap \/ ThreadMapLast
    PROVE  RInv'
  <1>1. /\ version = "threads" /\ pc = "map" /\ pc' \in {"map", "mapped"} /\ Rest > 0
        /\ pc' = "map" \/ Rest <= MAXWORDS
        /\ lists' = Append(lists, Merged(Chunk(chunks))) /\ chunks' = chunks + 1
        /\ UNCHANGED <<text, version, round, bad, kernel, refused, results, unclean>>
    <2>1. Rest \in Int
      BY InputLength DEF IInv, ThreadMap, ThreadMapLast
    <2>2. CASE ThreadMap
      BY <2>1, <2>2, Sizes DEF ThreadMap, memory, history
    <2>3. CASE ThreadMapLast
      BY <2>1, <2>3, Sizes DEF ThreadMapLast, memory, history
    <2>4. QED
      BY <2>2, <2>3
  <1>2. chunks \in Nat /\ lists = [i \in 1..chunks |-> Merged(Chunk(i - 1))]
    BY <1>1 DEF IInv, TypeOK, RInv, ThreadLists
  <1>3. GivenAway'
    BY <1>1, OneChunkMore
  <1>4. ThreadLists'
    <2>1. lists = [i \in 1..chunks |-> lists[i]]
      BY <1>2
    <2>2. /\ lists' = [i \in 1..(chunks + 1) |-> lists'[i]]
          /\ lists'[chunks + 1] = Merged(Chunk(chunks)) /\ \A i \in 1..chunks : lists'[i] = lists[i]
      BY <1>1, <1>2, <2>1, Appended
    <2>3. \A i : Merged(Chunk(i))' = Merged(Chunk(i))
      BY <1>1, SameInput
    <2>4. ASSUME NEW i \in 1..(chunks + 1)
          PROVE  lists'[i] = Merged(Chunk(i - 1))'
      <3>1. CASE i = chunks + 1
        <4>1. i - 1 = chunks
          BY <1>2, <3>1
        <4>2. QED
          BY <2>2, <2>3, <3>1, <4>1
      <3>2. CASE i # chunks + 1
        <4>1. i \in 1..chunks
          BY <1>2, <3>2
        <4>2. QED
          BY <1>2, <2>2, <2>3, <4>1
      <3>3. QED
        BY <3>1, <3>2
    <2>5. lists' = [i \in 1..chunks' |-> Merged(Chunk(i - 1))']
      BY <1>1, <2>2, <2>4
    <2>6. QED
      BY <2>5 DEF ThreadLists
  <1>5. Fits' /\ Refusals' /\ ReducedRight'
    BY <1>1 DEF RInv, Fits, Refusals, ReducedRight, Largest
  <1>6. RightSoFar'
    BY <1>1, StillRight DEF RInv
  <1>7. QED
    BY <1>3, <1>4, <1>5, <1>6 DEF RInv

\* The next run starts with nothing but the segments that are left.
LEMMA RestartRInv ==
    ASSUME IInv, RInv, Restart
    PROVE  RInv'
  <1>1. /\ pc' = "map" /\ round' = 1 /\ chunks' = 0 /\ bad' = {} /\ lists' = <<>> /\ refused' = FALSE
        /\ unclean' \in BOOLEAN /\ (kernel' = kernel \/ \E n \in 1..chunks : kernel' = Released(n))
    BY DEF Restart
  <1>2. KernelOK /\ round \in Rounds /\ Fits
    BY InvKernelOK DEF IInv, RInv, TypeOK
  <1>3. Fits'
    <2>1. CASE kernel' = kernel
      BY <1>2, <2>1 DEF Fits, Largest
    <2>2. QED
      BY <1>1, <1>2, <2>1, ReleasedFits
  <1>4. ThreadLists'
    <2>1. <<>> = [i \in 1..0 |-> Merged(Chunk(i - 1))']
      OBVIOUS
    <2>2. QED
      BY <1>1, <2>1 DEF ThreadLists
  <1>5. Refusals' /\ GivenAway'
    <2>1. Refusals'
      BY <1>1 DEF Refusals
    <2>2. ~ (chunks' > 0) /\ pc' \notin {"last", "mapped", "reduce"}
      BY <1>1
    <2>3. QED
      BY <2>1, <2>2 DEF GivenAway
  <1>6. ReducedRight' /\ RightSoFar'
    BY <1>1 DEF ReducedRight, RightSoFar
  <1>7. QED
    BY <1>3, <1>4, <1>5, <1>6 DEF RInv

\* The second part of the invariant holds when the program starts,
LEMMA InitRInv == Init => RInv
  <1> SUFFICES ASSUME Init PROVE RInv
    OBVIOUS
  <1>1. /\ pc = "map" /\ round = 1 /\ chunks = 0 /\ bad = {} /\ lists = <<>> /\ refused = FALSE
        /\ unclean = FALSE /\ kernel = [r \in Rounds |-> <<>>]
    BY DEF Init
  <1>2. Fits
    <2>1. DOMAIN <<>> = {}
      OBVIOUS
    <2>2. QED
      BY <1>1, <2>1 DEF Fits
  <1>3. ThreadLists
    <2>1. <<>> = [i \in 1..0 |-> Merged(Chunk(i - 1))]
      OBVIOUS
    <2>2. QED
      BY <1>1, <2>1 DEF ThreadLists
  <1>4. Refusals /\ GivenAway
    <2>1. Refusals
      BY <1>1 DEF Refusals
    <2>2. ~ (chunks > 0) /\ pc \notin {"last", "mapped", "reduce"}
      BY <1>1
    <2>3. QED
      BY <2>1, <2>2 DEF GivenAway
  <1>5. ReducedRight /\ RightSoFar
    BY <1>1 DEF ReducedRight, RightSoFar
  <1>6. QED
    BY <1>2, <1>3, <1>4, <1>5 DEF RInv

\* and every step keeps it, with the help of the first one.
LEMMA NextRInv == IInv /\ RInv /\ [Next]_vars => RInv'
  <1> SUFFICES ASSUME IInv, RInv, [Next]_vars PROVE RInv'
    OBVIOUS
  <1>1. ASSUME Parent PROVE RInv'
    BY <1>1, ForkMapRInv, WaitsRInv, ForkLastRInv, ForkReduceRInv, WaitReduceRInv, CrashReducedRInv,
       CrashEmptyRInv, ThreadsRInv, ThreadReduceRInv DEF Parent
  <1>2. ASSUME Children PROVE RInv'
    BY <1>2, MapChildRInv, ReduceChildRInv DEF Children, Child
  <1>3. CASE Restart
    BY <1>3, RestartRInv
  <1>4. CASE UNCHANGED vars
    <2>1. UNCHANGED <<text, version, pc, round, chunks, kids, bad, kernel, refused, lists, results, unclean>>
      BY <1>4 DEF vars, memory, arrays, history
    <2>2. \A i : Input' = Input /\ Merged(Chunk(i))' = Merged(Chunk(i)) /\ Reduced(Input)' = Reduced(Input)
      BY <2>1, SameInput, SameRound
    <2>3. Fits' /\ Refusals' /\ GivenAway' /\ ThreadLists'
      BY <2>1, <2>2 DEF RInv, Fits, Largest, Refusals, GivenAway, ThreadLists, Rest
    <2>4. ReducedRight'
      BY <2>1, <2>2 DEF RInv, ReducedRight, Sound, Segments, Key
    <2>5. RightSoFar'
      <3>1. Listed(results[1]) => Listed(results[1])'
        BY <2>1, SameListed
      <3>2. Count!ByRepetitions(text)' = Count!ByRepetitions(text)
        BY <2>1, SameListed
      <3>3. QED
        BY <2>1, <3>1, <3>2 DEF RInv, RightSoFar, Sound
    <2>6. QED
      BY <2>3, <2>4, <2>5 DEF RInv
  <1>5. QED
    BY <1>1, <1>2, <1>3, <1>4 DEF Next

-----------------------------------------------------------------------------
(* Steps of MapReduce are steps of WordCount. *)

\* Nothing is seen of a step in the middle of a run, unless memory is refused.
LEMMA Unseen ==
    ASSUME pc # "done", pc' # "done", UNCHANGED <<text, version, unclean, refused>>
    PROVE  UNCHANGED Count!vars
  BY DEF Count!vars

\* Shared memory is refused to a run that finds nothing in its way only if it
\* has more chunks than there are keys.
LEMMA SmallWhenTooMany ==
    ASSUME IInv, RInv, version = "fork", pc \in {"map", "mapped"}, ~ unclean, ~ refused,
           Key(chunks) \in DOMAIN Segments
    PROVE  Len(text) > MAXWORDS * (Keys - 1)
  <1>1. /\ TypeOK /\ RoundsOver /\ Clean /\ GivenAway /\ RightSoFar
        /\ chunks \in Nat /\ Keys \in Nat /\ Keys > 1 /\ MAXWORDS \in Nat
    BY TextType, Sizes DEF IInv, RInv, TypeOK
  <1>2. chunks >= Keys
    <2>1. Made = 0..(chunks - 1)
      BY DEF Made
    <2>2. PICK i \in 0..(chunks - 1) : Key(chunks) = Key(i)
      BY <1>1, <2>1 DEF Clean
    <2>3. SUFFICES ASSUME chunks < Keys PROVE FALSE
      BY <1>1
    <2>4. i \in Nat /\ i < Keys /\ i # chunks
      BY <1>1, <2>2, <2>3
    <2>5. Key(chunks) = chunks /\ Key(i) = i
      BY <1>1, <2>3, <2>4, KeyType
    <2>6. QED
      BY <2>2, <2>4, <2>5
  <1>3. Sound
    BY DEF Sound
  <1>4. Len(Input) \in Nat /\ Len(Input) <= Len(text) /\ Len(text) \in Nat
    BY <1>1, <1>3, SoundInput
  <1>5. (chunks - 1) * MAXWORDS < Len(Input)
    BY <1>1, <1>2 DEF GivenAway
  <1>6. MAXWORDS * (Keys - 1) <= (chunks - 1) * MAXWORDS /\ MAXWORDS * (Keys - 1) \in Nat /\ (chunks - 1) * MAXWORDS \in Nat
    <2> DEFINE a == Keys - 1
               b == chunks - 1
    <2>1. a \in Nat /\ b \in Nat /\ a <= b
      BY <1>1, <1>2
    <2> HIDE DEF a, b
    <2>2. MAXWORDS * a <= b * MAXWORDS /\ MAXWORDS * a \in Nat /\ b * MAXWORDS \in Nat
      BY <1>1, <2>1
    <2>3. QED
      BY <2>2 DEF a, b
  <1>7. QED
    BY <1>4, <1>5, <1>6

\* Asking for a segment is a refusal, for a reason that WordCount names, or
\* nothing that it sees.
LEMMA AddingRefuses ==
    ASSUME IInv, RInv, version = "fork", pc \in {"map", "mapped"}, pc' # "done",
           NEW words \in Nat, addSharedMemory(words), UNCHANGED <<text, version, unclean>>
    PROVE  Count!Refuse \/ UNCHANGED Count!vars
  <1> DEFINE small == Key(chunks) \in DOMAIN Segments /\ Segments[Key(chunks)].size < words
  <1>1. refused \in BOOLEAN /\ refused' = (refused \/ small)
    BY DEF RInv, Refusals, addSharedMemory
  <1>2. CASE refused \/ ~ small
    <2>1. refused' = refused
      BY <1>1, <1>2
    <2>2. QED
      BY <2>1, Unseen
  <1>3. CASE ~ refused /\ small
    <2>1. refused' = TRUE
      BY <1>1, <1>3
    <2>2. unclean \/ Len(text) > MAXWORDS * (Keys - 1)
      BY <1>3, SmallWhenTooMany
    <2>3. QED
      BY <2>1, <2>2 DEF Count!Refuse, Count!Processes
  <1>4. QED
    BY <1>2, <1>3

\* A run that ends gives an answer.
LEMMA EndingAnswers ==
    ASSUME pc # "done", pc' = "done", results' # <<>>, UNCHANGED <<text, version, unclean, refused>>,
           results' = Count!Results(text) \/ (version = "fork" /\ (refused \/ text = <<>>))
    PROVE  Count!Answer
  BY DEF Count!Answer, Count!Undefined, Count!Processes

\* A round that is over, the last one or another.
LEMMA RoundAnswers ==
    ASSUME IInv, RInv, WaitReduce \/ ThreadReduce
    PROVE  Count!Answer \/ UNCHANGED Count!vars
  <1>1. /\ pc # "done" /\ pc' = (IF round = 3 THEN "done" ELSE "map")
        /\ UNCHANGED <<text, version, unclean, refused>>
    BY DEF WaitReduce, ThreadReduce, Mapped, NextRound, history
  <1>2. (round = 3 /\ Sound => results' = Count!Results(text)) /\ results' # <<>>
    BY WaitReduceRInv, ThreadReduceRInv
  <1>3. ~ Sound => version = "fork" /\ (refused \/ text = <<>>)
    BY TextType DEF Sound, IInv
  <1>4. CASE round = 3
    BY <1>1, <1>2, <1>3, <1>4, EndingAnswers
  <1>5. CASE round # 3
    BY <1>1, <1>5, Unseen
  <1>6. QED
    BY <1>4, <1>5

\* The program starts as WordCount does.
LEMMA InitCounts == Init => Count!Init
  <1> SUFFICES ASSUME Init PROVE Count!Init
    OBVIOUS
  <1>1. text \in Texts /\ version \in Versions /\ unclean = FALSE /\ refused = FALSE /\ pc = "map"
    BY DEF Init
  <1>2. version \in {"fork", "threads"}
    BY <1>1, SizesAssumption
  <1>3. QED
    BY <1>1, <1>2 DEF Count!Init

\* Every step is one of WordCount, or nothing that it sees.
LEMMA NextCounts == IInv /\ RInv /\ [Next]_vars => [Count!Next]_(Count!vars)
  <1> SUFFICES ASSUME IInv, RInv, [Next]_vars PROVE Count!Next \/ UNCHANGED Count!vars
    OBVIOUS
  <1>1. CASE ForkMap
    <2>1. /\ version = "fork" /\ pc = "map" /\ pc' # "done" /\ addSharedMemory(MAXWORDS)
          /\ UNCHANGED <<text, version, unclean>>
      BY <1>1 DEF ForkMap, history
    <2>2. MAXWORDS \in Nat
      BY Sizes
    <2>3. QED
      BY <2>1, <2>2, AddingRefuses DEF Count!Next
  <1>2. CASE ForkLast
    <2>1. /\ version = "fork" /\ pc = "map" /\ pc' # "done" /\ addSharedMemory(Rest)
          /\ UNCHANGED <<text, version, unclean>> /\ Rest > 0
      BY <1>2 DEF ForkLast, Full, history
    <2>2. Rest \in Nat
      BY <2>1, InputLength DEF IInv
    <2>3. QED
      BY <2>1, <2>2, AddingRefuses DEF Count!Next
  <1>3. CASE ForkReduce
    <2>1. /\ version = "fork" /\ pc \in {"map", "mapped"} /\ pc' # "done" /\ addSharedMemory(MAXWORDS * chunks)
          /\ UNCHANGED <<text, version, unclean>>
      BY <1>3 DEF ForkReduce, Mapped, history
    <2>2. MAXWORDS * chunks \in Nat
      BY Sizes DEF IInv, TypeOK
    <2>3. QED
      BY <2>1, <2>2, AddingRefuses DEF Count!Next
  <1>4. CASE WaitSlot \/ WaitAll \/ WaitLast \/ ThreadMap \/ ThreadMapLast
    <2>1. pc # "done" /\ pc' # "done" /\ UNCHANGED <<text, version, unclean, refused>>
      BY <1>4 DEF WaitSlot, WaitAll, WaitLast, Full, ThreadMap, ThreadMapLast, memory, history
    <2>2. QED
      BY <2>1, Unseen
  <1>5. CASE WaitReduce \/ ThreadReduce
    BY <1>5, RoundAnswers DEF Count!Next
  <1>6. CASE CrashReduced
    <2>1. pc # "done" /\ pc' = "done" /\ UNCHANGED <<text, version, unclean, refused>>
      BY <1>6 DEF CrashReduced, Crash, history
    <2>2. results' # <<>> /\ version = "fork" /\ ~ Sound
      BY <1>6, CrashReducedRInv
    <2>3. refused \/ text = <<>>
      BY <2>2 DEF Sound
    <2>4. QED
      BY <2>1, <2>2, <2>3, EndingAnswers DEF Count!Next
  <1>7. CASE CrashEmpty
    <2>1. pc # "done" /\ pc' = "done" /\ UNCHANGED <<text, version, unclean>>
      BY <1>7 DEF CrashEmpty, Crash, history
    <2>2. results' # <<>> /\ version = "fork" /\ text = <<>> /\ refused' = refused
      BY <1>7, CrashEmptyRInv
    <2>3. QED
      BY <2>1, <2>2, EndingAnswers DEF Count!Next
  <1>8. CASE Children
    <2>1. PICK i \in DOMAIN kids : MapChild(i) \/ ReduceChild
      BY <1>8 DEF Children, Child
    <2>2. UNCHANGED <<text, version, pc, results, unclean, refused>>
      BY <2>1 DEF MapChild, ReduceChild, history
    <2>3. QED
      BY <2>2 DEF Count!vars
  <1>9. CASE Restart
    <2>1. /\ text' \in Texts /\ version' = version /\ pc' = "map" /\ refused' = FALSE
          /\ unclean' = (unclean \/ (version = "fork" /\ (pc # "done" \/ text = <<>>)))
      BY <1>9, SizesAssumption DEF Restart
    <2>2. pc = "done" <=> (IF pc = "done" THEN results ELSE <<>>) # <<>>
      BY DEF RInv, RightSoFar
    <2>3. Count!Again
      BY <2>1, <2>2 DEF Count!Again, Count!Processes
    <2>4. QED
      BY <2>3 DEF Count!Next
  <1>10. CASE UNCHANGED vars
    BY <1>10 DEF vars, memory, history, Count!vars
  <1>11. QED
    BY <1>1, <1>2, <1>3, <1>4, <1>5, <1>6, <1>7, <1>8, <1>9, <1>10 DEF Next, Parent

-----------------------------------------------------------------------------
(* The theorems. *)

\* Every step keeps the invariant.
LEMMA NextIInv == IInv /\ [Next]_vars => IInv'
  <1> SUFFICES ASSUME IInv, [Next]_vars PROVE IInv'
    OBVIOUS
  <1>1. ASSUME Parent PROVE IInv'
    BY <1>1, ForkMapIInv, WaitSlotIInv, WaitAllIInv, ForkLastIInv, WaitLastIInv, ForkReduceIInv,
       WaitReduceIInv, CrashReducedIInv, CrashEmptyIInv, ThreadMapIInv, ThreadMapLastIInv, ThreadReduceIInv
       DEF Parent
  <1>2. ASSUME Children PROVE IInv'
    BY <1>2, MapChildIInv, ReduceChildIInv DEF Children, Child
  <1>3. CASE Restart
    BY <1>3, RestartIInv
  <1>4. CASE UNCHANGED vars
    <2>1. UNCHANGED <<text, version, pc, round, chunks, childs, kids, bad, kernel, lists, capacity, room,
                      results, runs, unclean>>
      BY <1>4 DEF vars, memory, arrays, history
    <2>2. Rest' = Rest /\ Segments' = Segments
      BY <2>1, SameInput DEF Rest, Segments
    <2>3. TypeOK' /\ KidsInPhase' /\ RoundsOver'
      BY <2>1 DEF IInv, TypeOK, KidsInPhase, RoundsOver
    <2>4. Counted' /\ Sized'
      BY <2>1, <2>2 DEF IInv, Counted, Sized, Entries
    <2>5. Present' /\ Clean'
      BY <2>1, <2>2 DEF IInv, Present, Clean, Made, Key
    <2>6. Written'
      <3>1. \A i : Merged(Chunk(i))' = Merged(Chunk(i))
        BY <2>1, SameInput
      <3>2. QED
        BY <2>1, <2>2, <3>1 DEF IInv, Written, HasWritten, Key, Entries
    <2>7. QED
      BY <2>3, <2>4, <2>5, <2>6 DEF IInv
  <1>5. QED
    BY <1>1, <1>2, <1>3, <1>4 DEF Next

\* The invariant holds in every state of every execution.
THEOREM Inductive == Spec => []IInv
  <1>1. Init => IInv
    BY InitIInv
  <1>2. IInv /\ [Next]_vars => IInv'
    BY NextIInv
  <1>3. QED
    BY <1>1, <1>2, PTL DEF Spec

\* Every variable has the values it is meant to have; in particular no key is
\* out of range and no chunk that was not given away has been refused memory.
THEOREM TypeCorrect == Spec => []TypeOK
  <1>1. IInv => TypeOK
    BY DEF IInv
  <1>2. QED
    BY <1>1, Inductive, PTL

\* There are never more children than MAXCHILDS, and childs_amount counts them
\* while full chunks are left.
THEOREM ChildrenAreBounded == Spec => []ChildrenBounded
  <1>1. IInv => ChildrenBounded
    BY DEF IInv, Counted, ChildrenBounded
  <1>2. QED
    BY <1>1, Inductive, PTL

\* The child that reduces finds in each segment the words of its own chunk.
THEOREM ReduceIsLast == Spec => []ReduceSeesAll
  <1>1. IInv => ReduceSeesAll
    <2> SUFFICES ASSUME IInv, pc = "reduce", chunks < Keys PROVE ReduceSeesAll
      BY DEF ReduceSeesAll
    <2>1. TypeOK /\ KidsInPhase /\ Written /\ chunks \in Nat
      BY DEF IInv, TypeOK
    <2>2. DOMAIN kids = {chunks} /\ version = "fork"
      BY <2>1, SizesAssumption DEF KidsInPhase, TypeOK
    <2>3. ASSUME NEW i \in 0..(chunks - 1), i \notin bad
          PROVE  Segments[Key(i)].list = Merged(Chunk(i))
      <3>1. i # chunks
        BY <2>1
      <3>2. HasWritten(i)
        BY <2>2, <2>3, <3>1 DEF HasWritten
      <3>3. QED
        BY <2>1, <2>2, <3>2 DEF Written
    <2>4. QED
      BY <2>2, <2>3 DEF ReduceSeesAll
  <1>2. QED
    BY <1>1, Inductive, PTL

\* Clean runs leave no segment of a round that is over.
THEOREM SegmentsAreReleased == Spec => []SegmentsReleased
  <1>1. IInv => SegmentsReleased
    <2> SUFFICES ASSUME IInv, ~ unclean, text # <<>>, NEW r \in Rounds, pc = "done" \/ r < round
                 PROVE  kernel[r] = <<>>
      BY DEF SegmentsReleased
    <2>1. DOMAIN kernel[r] = {}
      BY DEF IInv, Clean
    <2>2. kernel[r] = [key \in DOMAIN kernel[r] |-> kernel[r][key]]
      BY DEF IInv, Present
    <2>3. kernel[r] = [key \in {} |-> kernel[r][key]]
      BY <2>1, <2>2
    <2>4. QED
      BY <2>3
  <1>2. QED
    BY <1>1, Inductive, PTL

\* No array is used further past its end than by three ints, in a run with one
\* chunk, or by one long or pointer; in the later rounds identifiers is never.
THEOREM OverrunIsBounded == Spec => []OverrunBounded
  <1>1. IInv => OverrunBounded
    <2> SUFFICES ASSUME IInv PROVE OverrunBounded
      OBVIOUS
    <2>1. chunks \in Nat /\ capacity \in Nat /\ room \in Nat /\ chunks <= capacity
      BY DEF IInv, TypeOK, Sized
    <2>2. CASE version = "threads"
      <3>1. lists = [i \in 1..chunks |-> lists[i]] /\ 2 * chunks <= room + 2
        BY <2>2 DEF IInv, Sized
      <3>2. Len(lists) = chunks
        BY <2>1, <3>1
      <3>3. QED
        BY <2>1, <2>2, <3>1, <3>2 DEF OverrunBounded, Used
    <2>3. CASE version = "fork"
      <3>1. room = 2 * capacity \/ (round = 1 /\ capacity = 1 /\ room = 1)
        BY <2>3 DEF IInv, Sized
      <3>2. round > 1 /\ pc = "reduce" => chunks + 1 <= capacity
        BY <2>3 DEF IInv, Sized
      <3>3. QED
        BY <2>1, <2>3, <3>1, <3>2 DEF OverrunBounded, Used
    <2>4. QED
      BY <2>2, <2>3, SizesAssumption DEF IInv, TypeOK
  <1>2. QED
    BY <1>1, Inductive, PTL

\* What a run has reduced its text to so far is what WordCount says, unless
\* shared memory was refused to it.
THEOREM RoundsAreRight == Spec => []RInv
  <1>1. Init => RInv
    BY InitRInv
  <1>2. IInv /\ RInv /\ [Next]_vars => RInv'
    BY NextRInv
  <1>3. QED
    BY <1>1, <1>2, Inductive, PTL DEF Spec

\* A run answers with the right counts, however its words fall into chunks and
\* in whatever order its children end, unless shared memory is refused to it:
\* and that happens to no run that follows clean ones and has no more words
\* than there are keys for.
THEOREM Implementation == Spec => ImplementsWordCount
  <1>1. Init => Count!Init
    BY InitCounts
  <1>2. IInv /\ RInv /\ [Next]_vars => [Count!Next]_(Count!vars)
    BY NextCounts
  <1>3. QED
    BY <1>1, <1>2, Inductive, RoundsAreRight, PTL DEF Spec, ImplementsWordCount, Count!Spec
=============================================================================
