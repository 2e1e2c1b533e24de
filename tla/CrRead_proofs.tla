---------------------------- MODULE CrRead_proofs ---------------------------
(***************************************************************************)
(* Proofs about CrRead, for blocks and index blocks of every size, every   *)
(* file and every sequence of reads: where the position in the file is, and  *)
(* what the reads leave in the buffer.                                      *)
(***************************************************************************)
EXTENDS CrRead, Recursion_proofs, TLAPS

-----------------------------------------------------------------------------
(* The inductive invariant. *)

\* The crFILE when n bytes have been read.
At(mode, n) ==
    [mode |-> mode, size |-> iblock.size, data_pointers |-> Pointers,
     amount_read |-> n, actual_offset |-> n % BLOCK_SIZE, actual_data_index |-> n \div BLOCK_SIZE]

\* The bytes a to n - 1 of the file.
Slice(a, n) == [k \in a..(n - 1) |-> Content(k)]

\* The index block is that of a file that fits.
ImageOK == iblock.size \in 0..(Total * BLOCK_SIZE) /\ iblock = Index(iblock.size)
FileOK == file = NULL \/ \E mode \in {"r", "w"}, n \in 0..iblock.size : file = At(mode, n)
IInv ==
    /\ ImageOK /\ FileOK
    /\ IsOpen => buffer = Slice(0, file.amount_read)
    /\ copy = <<>> \/ copy = Slice(0, iblock.size)

-----------------------------------------------------------------------------
(* Blocks and offsets. *)

\* Every byte has one block and one offset in it,
LEMMA Places ==
    ASSUME NEW n \in Nat
    PROVE  /\ n \div BLOCK_SIZE \in Nat /\ n % BLOCK_SIZE \in 0..(BLOCK_SIZE - 1)
           /\ n = (n \div BLOCK_SIZE) * BLOCK_SIZE + (n % BLOCK_SIZE)
           /\ (n \div BLOCK_SIZE) * BLOCK_SIZE <= n
BY SizesAssumption

\* and they are the only ones.
LEMMA PlaceIs ==
    ASSUME NEW q \in Nat, NEW r \in 0..(BLOCK_SIZE - 1), NEW n, n = q * BLOCK_SIZE + r
    PROVE  n \in Nat /\ n \div BLOCK_SIZE = q /\ n % BLOCK_SIZE = r
BY SizesAssumption

\* A byte of the file is in one of the blocks that the index block can point to.
LEMMA InReach ==
    ASSUME ImageOK, NEW n \in Nat, n < iblock.size
    PROVE  Total \in Nat /\ n \div BLOCK_SIZE \in 0..(Total - 1)
<1>1. Total \in Nat
  BY SizesAssumption DEF Total
<1>2. iblock.size \in Nat /\ iblock.size <= Total * BLOCK_SIZE
  BY <1>1, SizesAssumption DEF ImageOK
<1>3. n < Total * BLOCK_SIZE
  BY <1>1, <1>2, SizesAssumption
<1> DEFINE q == n \div BLOCK_SIZE
<1>4. q \in Nat /\ q * BLOCK_SIZE <= n
  BY Places
<1> HIDE DEF q
<1>5. q < Total
  <2> SUFFICES ASSUME q >= Total PROVE FALSE
    BY <1>1, <1>4
  <2>1. q * BLOCK_SIZE >= Total * BLOCK_SIZE
    BY <1>1, <1>4, SizesAssumption
  <2> QED
    BY <2>1, <1>1, <1>3, <1>4, SizesAssumption
<1> QED
  BY <1>1, <1>4, <1>5 DEF q

\* So is the end of the file, or right behind the last block.
LEMMA EndInReach ==
    ASSUME ImageOK, NEW n \in Nat, n <= iblock.size
    PROVE  Total \in Nat /\ n \div BLOCK_SIZE \in 0..Total
<1>1. Total \in Nat
  BY SizesAssumption DEF Total
<1>2. iblock.size \in Nat /\ iblock.size <= Total * BLOCK_SIZE
  BY <1>1, SizesAssumption DEF ImageOK
<1>3. n <= Total * BLOCK_SIZE
  BY <1>1, <1>2, SizesAssumption
<1> DEFINE q == n \div BLOCK_SIZE
<1>4. q \in Nat /\ q * BLOCK_SIZE <= n
  BY Places
<1> HIDE DEF q
<1>5. q <= Total
  <2> SUFFICES ASSUME q >= Total + 1 PROVE FALSE
    BY <1>1, <1>4
  <2>1. q * BLOCK_SIZE >= (Total + 1) * BLOCK_SIZE
    BY <1>1, <1>4, SizesAssumption
  <2>2. (Total + 1) * BLOCK_SIZE = Total * BLOCK_SIZE + BLOCK_SIZE
    BY <1>1, SizesAssumption
  <2> QED
    BY <2>1, <2>2, <1>1, <1>3, <1>4, SizesAssumption
<1> QED
  BY <1>1, <1>4, <1>5 DEF q

\* Each block of the file has its number among the pointers, where an indirect
\* block holds them too.
LEMMA PointerIs ==
    ASSUME ImageOK, NEW n \in Nat, n < iblock.size
    PROVE  Pointers[n \div BLOCK_SIZE] = DataBlock(n \div BLOCK_SIZE)
<1> DEFINE i == n \div BLOCK_SIZE
           size == iblock.size
<1>1. size \in Nat /\ iblock = Index(size)
  BY SizesAssumption DEF ImageOK, Total
<1>2. i \in 0..(Total - 1) /\ Total \in Nat
  BY InReach
<1>3. i * BLOCK_SIZE <= n
  BY Places
<1> HIDE DEF i
<1>4. i < Blocks(size)
  <2> DEFINE last == size + BLOCK_SIZE - 1
  <2>1. last \in Nat /\ (i + 1) * BLOCK_SIZE <= last
    <3>1. (i + 1) * BLOCK_SIZE = i * BLOCK_SIZE + BLOCK_SIZE /\ i * BLOCK_SIZE \in Nat
      BY <1>2, SizesAssumption
    <3> QED
      BY <1>1, <1>3, <3>1, SizesAssumption
  <2> DEFINE q == last \div BLOCK_SIZE
  <2> HIDE DEF last
  <2>2. q \in Nat /\ last % BLOCK_SIZE < BLOCK_SIZE /\ last = q * BLOCK_SIZE + (last % BLOCK_SIZE)
        /\ last % BLOCK_SIZE \in Nat
    BY <2>1, Places, SizesAssumption
  <2> HIDE DEF q
  <2>3. q > i
    <3> SUFFICES ASSUME q + 1 <= i + 1 PROVE FALSE
      BY <1>2, <2>2
    <3>1. (q + 1) * BLOCK_SIZE <= (i + 1) * BLOCK_SIZE
      BY <1>2, <2>2, SizesAssumption
    <3>2. (q + 1) * BLOCK_SIZE = q * BLOCK_SIZE + BLOCK_SIZE
      BY <2>2, SizesAssumption
    <3>3. q * BLOCK_SIZE \in Nat /\ (i + 1) * BLOCK_SIZE \in Nat
      BY <1>2, <2>2, SizesAssumption
    <3> DEFINE rest == last % BLOCK_SIZE
               whole == q * BLOCK_SIZE
               next == (i + 1) * BLOCK_SIZE
    <3>4. /\ rest \in Nat /\ rest < BLOCK_SIZE /\ whole \in Nat /\ next \in Nat
          /\ last = whole + rest /\ next <= last /\ whole + BLOCK_SIZE <= next
      BY <2>1, <2>2, <3>1, <3>2, <3>3
    <3> HIDE DEF rest, whole, next
    <3> QED
      BY <2>1, <3>4, SizesAssumption
  <2> QED
    BY <2>3 DEF Blocks, q, last
<1>5. CASE i < Direct
  <2>1. Pointers[i] = iblock.data_pointers[i]
    BY <1>2, <1>5 DEF Pointers
  <2>2. Index(size).data_pointers[i] = DataBlock(i)
    BY <1>2, <1>4, <1>5, SizesAssumption DEF Index
  <2> QED
    BY <1>1, <2>1, <2>2 DEF i
<1>6. CASE i >= Direct
  <2> DEFINE j == (i - Direct) \div PerBlock
             k == (i - Direct) % PerBlock
  <2>1. Pointers[i] = read_data_block(iblock.indirect_blocks[j])[k]
    BY <1>2, <1>6, SizesAssumption DEF Pointers
  <2>2. j \in Nat /\ k \in 0..(PerBlock - 1) /\ i = Direct + (j * PerBlock + k)
    BY <1>2, <1>6, SizesAssumption
  <2> HIDE DEF j, k
  <2>3. j < Indirect
    <3> SUFFICES ASSUME j >= Indirect PROVE FALSE
      BY <2>2, SizesAssumption
    <3>1. j * PerBlock >= Indirect * PerBlock
      BY <2>2, SizesAssumption
    <3> QED
      BY <1>2, <2>2, <3>1, SizesAssumption DEF Total
  <2>4. j * PerBlock \in Nat
    BY <2>2, SizesAssumption
  <2>5. Blocks(size) \in Int
    BY <1>1, SizesAssumption DEF Blocks
  <2>6. Direct + j * PerBlock < Blocks(size)
    BY <1>4, <2>2, <2>4, <2>5, SizesAssumption
  <2>7. iblock.indirect_blocks[j] = PointerBlock(j)
    BY <1>1, <2>2, <2>3, <2>6, SizesAssumption DEF Index
  <2>8. PointerBlock(j) # 0 /\ PointerBlock(j) - PointerBlock(0) = j
    BY <1>2, <2>2 DEF PointerBlock
  <2>9. Direct + j * PerBlock + k = i
    BY <1>2, <2>2, <2>4, SizesAssumption
  <2>10. read_data_block(PointerBlock(j))[k] = DataBlock(i)
    BY <1>4, <2>2, <2>8, <2>9 DEF read_data_block
  <2> QED
    BY <2>1, <2>7, <2>10 DEF i
<1> QED
  BY <1>2, <1>5, <1>6, SizesAssumption

-----------------------------------------------------------------------------
(* The loop of read_file_to_buffer. *)

\* States of the loop that began at byte b: it has come to byte n,
Reached(b, n) == [file |-> At("r", n), bytes |-> Slice(b, n), aux |-> n - b, stop |-> FALSE]
\* and stops there.
Ended(b, n) == [file |-> At("r", n), bytes |-> Slice(b, n), aux |-> n - b, stop |-> TRUE]

\* Where a pass ends: at the end of the request, of the file, or of the block.
Next3(n, end) == n + Min3(end - n, iblock.size - n, BLOCK_SIZE - (n % BLOCK_SIZE))

\* The pass reads on to the nearest of the three ends.
LEMMA Reading ==
    ASSUME ImageOK, NEW end \in 0..iblock.size, NEW n \in 0..end
    PROVE  LET m == Next3(n, end)
           IN  /\ m \in n..end /\ m - n <= BLOCK_SIZE - (n % BLOCK_SIZE)
               /\ n < end => n < m
               /\ m = end \/ m = n + (BLOCK_SIZE - (n % BLOCK_SIZE))
<1>1. iblock.size \in Nat
  BY SizesAssumption DEF ImageOK, Total
<1>2. n \in Nat /\ end \in Nat /\ n <= end /\ end <= iblock.size
  BY <1>1
<1> DEFINE r == BLOCK_SIZE - (n % BLOCK_SIZE)
<1>3. r \in Nat /\ r > 0
  BY <1>2, Places, SizesAssumption
<1> HIDE DEF r
<1> DEFINE m == n + Min3(end - n, iblock.size - n, r)
<1>4. /\ m \in n..end /\ m - n <= r
      /\ n < end => n < m
      /\ m = end \/ m = n + r
  BY <1>1, <1>2, <1>3 DEF Min3
<1> QED
  BY <1>4 DEF Next3, r

\* One store over another that ends where it begins.
LEMMA Joined ==
    ASSUME NEW a \in Nat, NEW n \in Nat, NEW m \in Nat, a <= n, n <= m
    PROVE  Over(Slice(n, m), Slice(a, n)) = Slice(a, m)
<1>1. DOMAIN Slice(n, m) = n..(m - 1) /\ DOMAIN Slice(a, n) = a..(n - 1)
  BY DEF Slice
<1>2. n..(m - 1) \union a..(n - 1) = a..(m - 1)
  OBVIOUS
<1> QED
  BY <1>1, <1>2 DEF Over, Slice

\* The bytes that a pass stores are those of the file, which are all in one block.
LEMMA StoresContent ==
    ASSUME ImageOK, NEW n \in Nat, NEW m \in Nat, n <= m, m <= iblock.size,
           m - n <= BLOCK_SIZE - (n % BLOCK_SIZE)
    PROVE  Stored(At("r", n), m - n) = Slice(n, m)
<1> DEFINE q == n \div BLOCK_SIZE
           r == n % BLOCK_SIZE
<1>1. q \in Nat /\ r \in 0..(BLOCK_SIZE - 1) /\ n = q * BLOCK_SIZE + r
  BY Places
<1>2. ASSUME NEW k \in n..(m - 1)
      PROVE  Byte(Pointers[q], r + k - n) = Content(k)
  <2>1. k \in Nat /\ k < iblock.size
    BY <1>2, SizesAssumption DEF ImageOK, Total
  <2>2. r + k - n \in 0..(BLOCK_SIZE - 1) /\ k = q * BLOCK_SIZE + (r + k - n)
    <3> HIDE DEF q, r
    <3>1. m - n <= BLOCK_SIZE - r
      BY DEF r
    <3>2. q * BLOCK_SIZE \in Nat
      BY <1>1, SizesAssumption
    <3> QED
      BY <1>1, <1>2, <2>1, <3>1, <3>2, SizesAssumption
  <2> HIDE DEF q, r
  <2>3. k \div BLOCK_SIZE = q /\ k % BLOCK_SIZE = r + k - n
    BY <1>1, <2>2, PlaceIs
  <2>4. Pointers[q] = DataBlock(q)
    BY <2>1, <2>3, PointerIs
  <2> QED
    BY <2>3, <2>4 DEF Content
<1>3. Stored(At("r", n), m - n) = [k \in n..(n + (m - n) - 1) |-> Byte(Pointers[q], r + k - n)]
  BY DEF Stored, At
<1>4. n + (m - n) - 1 = m - 1
  OBVIOUS
<1> HIDE DEF q, r
<1> QED
  BY <1>2, <1>3, <1>4 DEF Slice

\* After a pass the position is where its end says.
LEMMA Turned ==
    ASSUME NEW n \in Nat, NEW m \in Nat, n <= m, m - n <= BLOCK_SIZE - (n % BLOCK_SIZE)
    PROVE  TurnedBlock(Advanced(At("r", n), m - n)) = At("r", m)
<1> DEFINE q == n \div BLOCK_SIZE
           r == n % BLOCK_SIZE
<1>1. q \in Nat /\ r \in 0..(BLOCK_SIZE - 1) /\ n = q * BLOCK_SIZE + r /\ BLOCK_SIZE \in Nat \ {0}
  BY Places, SizesAssumption
<1> DEFINE next == Advanced(At("r", n), m - n)
<1>2. next = [At("r", n) EXCEPT !.actual_offset = r + (m - n), !.amount_read = m]
  <2>1. n + (m - n) = m
    OBVIOUS
  <2> QED
    BY <2>1 DEF Advanced, At
<1>3. q * BLOCK_SIZE \in Nat /\ (q + 1) * BLOCK_SIZE = q * BLOCK_SIZE + BLOCK_SIZE /\ m - n <= BLOCK_SIZE - r
  BY <1>1
<1> HIDE DEF q, r
<1>4. CASE r + (m - n) = BLOCK_SIZE
  <2>1. m = (q + 1) * BLOCK_SIZE + 0 /\ q + 1 \in Nat /\ 0 \in 0..(BLOCK_SIZE - 1)
    BY <1>1, <1>3, <1>4
  <2>2. m \div BLOCK_SIZE = q + 1 /\ m % BLOCK_SIZE = 0
    BY <2>1, PlaceIs
  <2>3. next = [mode |-> "r", size |-> iblock.size, data_pointers |-> Pointers,
                amount_read |-> m, actual_offset |-> BLOCK_SIZE, actual_data_index |-> q]
    BY <1>2, <1>4 DEF At, q
  <2> HIDE DEF next
  <2>4. TurnedBlock(next) = [mode |-> "r", size |-> iblock.size, data_pointers |-> Pointers,
                             amount_read |-> m, actual_offset |-> 0, actual_data_index |-> q + 1]
    BY <2>3 DEF TurnedBlock
  <2>5. TurnedBlock(next) = At("r", m)
    BY <2>2, <2>4 DEF At
  <2> QED
    BY <2>5 DEF next
<1>5. CASE r + (m - n) # BLOCK_SIZE
  <2>1. m = q * BLOCK_SIZE + (r + (m - n)) /\ r + (m - n) \in 0..(BLOCK_SIZE - 1)
    BY <1>1, <1>3, <1>5
  <2>2. m \div BLOCK_SIZE = q /\ m % BLOCK_SIZE = r + (m - n)
    BY <1>1, <2>1, PlaceIs
  <2>3. TurnedBlock(next) = next
    BY <1>2, <1>5 DEF TurnedBlock, At
  <2> QED
    BY <1>2, <2>2, <2>3 DEF At, q
<1> QED
  BY <1>4, <1>5

\* One pass of the loop of a request that began at byte b and ends at byte end.
LEMMA PassIs ==
    ASSUME ImageOK, NEW b \in Nat, NEW end \in b..iblock.size, NEW n \in b..end
    PROVE  LET m == Next3(n, end)
           IN  Passed(Reached(b, n), end - b) =
              IF m = end - b \/ m = iblock.size THEN Ended(b, m) ELSE Reached(b, m)
<1>1. iblock.size \in Nat
  BY SizesAssumption DEF ImageOK, Total
<1>2. n \in Nat /\ end \in 0..iblock.size /\ n \in 0..end /\ b <= n
  BY <1>1
<1> DEFINE m == Next3(n, end)
           p == Reached(b, n)
<1>3. m \in n..end /\ m - n <= BLOCK_SIZE - (n % BLOCK_SIZE)
  BY <1>2, Reading
<1>4. Part(p.file, end - b, p.aux) = m - n
  <2>1. Part(p.file, end - b, p.aux) =
           Min3((end - b) - (n - b), iblock.size - n, BLOCK_SIZE - (n % BLOCK_SIZE))
    BY DEF Part, Reached, At
  <2>2. (end - b) - (n - b) = end - n
    BY <1>1, <1>2
  <2> DEFINE least == Min3(end - n, iblock.size - n, BLOCK_SIZE - (n % BLOCK_SIZE))
  <2>3. least \in Int
    BY <1>1, <1>2, Places, SizesAssumption DEF Min3
  <2>4. m = n + least
    BY DEF Next3
  <2> HIDE DEF least, m
  <2>5. m - n = least
    BY <1>2, <2>3, <2>4
  <2> QED
    BY <2>1, <2>2, <2>5 DEF least
<1> HIDE DEF m
<1>5. m \in Nat /\ n <= m /\ m <= iblock.size
  BY <1>1, <1>2, <1>3
<1>6. Stored(p.file, m - n) = Slice(n, m)
  BY <1>2, <1>3, <1>5, StoresContent DEF Reached
<1>7. TurnedBlock(Advanced(p.file, m - n)) = At("r", m)
  BY <1>2, <1>3, <1>5, Turned DEF Reached
<1>8. Over(Slice(n, m), p.bytes) = Slice(b, m)
  BY <1>2, <1>5, Joined DEF Reached
<1>9. p.aux + (m - n) = m - b
  BY <1>2, <1>5 DEF Reached
<1>10. Stopped(At("r", m), end - b) <=> (m = end - b \/ m = iblock.size)
  BY DEF Stopped, At
<1>11. Passed(p, end - b) = [file |-> At("r", m), bytes |-> Slice(b, m), aux |-> m - b,
                             stop |-> Stopped(At("r", m), end - b)]
  <2>1. p.stop = FALSE
    BY DEF Reached
  <2> QED
    BY <1>4, <1>6, <1>7, <1>8, <1>9, <2>1 DEF Passed
<1>12. CASE m = end - b \/ m = iblock.size
  <2>1. Stopped(At("r", m), end - b) = TRUE
    BY <1>10, <1>12 DEF Stopped
  <2>2. Passed(p, end - b) = Ended(b, m)
    BY <1>11, <2>1 DEF Ended
  <2> QED
    BY <1>12, <2>2 DEF m
<1>13. CASE ~ (m = end - b \/ m = iblock.size)
  <2>1. Stopped(At("r", m), end - b) = FALSE
    BY <1>10, <1>13 DEF Stopped
  <2>2. Passed(p, end - b) = Reached(b, m)
    BY <1>11, <2>1 DEF Reached
  <2> QED
    BY <1>13, <2>2 DEF m
<1> QED
  BY <1>12, <1>13

\* An end that is there is not left.
LEMMA EndStays ==
    ASSUME NEW b, NEW n, NEW nbytes
    PROVE  Passed(Ended(b, n), nbytes) = Ended(b, n)
BY DEF Passed, Ended

\* What read_file_to_buffer does with a file of which b bytes have been read, to
\* read on to byte end: it stops at n, and it gets on unless it is there already.
\* From the beginning to the end of the file it stops nowhere else.
LEMMA ReadIs ==
    ASSUME ImageOK, NEW b \in Nat, NEW end \in b..iblock.size
    PROVE  \E n \in b..end :
              /\ read_file_to_buffer(end - b, At("r", b)) \in {Reached(b, n), Ended(b, n)}
              /\ b < end => b < n
              /\ b = 0 /\ end = iblock.size => n = end
<1>1. iblock.size \in Nat /\ end \in Nat /\ b <= end /\ end <= iblock.size
  BY SizesAssumption DEF ImageOK, Total
<1> DEFINE S == {Reached(b, n) : n \in b..end} \union {Ended(b, n) : n \in b..end}
           a == Reached(b, b)
           left == Total - b \div BLOCK_SIZE
           step == [k \in Nat |-> [p \in S |-> Passed(p, end - b)]]
<1>2. a \in S
  BY <1>1
<1>3. ASSUME NEW p \in S
      PROVE  Passed(p, end - b) \in S
  <2>1. CASE \E n \in b..end : p = Ended(b, n)
    BY <2>1, EndStays
  <2>2. CASE \E n \in b..end : p = Reached(b, n)
    <3>1. PICK n \in b..end : p = Reached(b, n)
      BY <2>2
    <3> DEFINE m == Next3(n, end)
    <3>2. Passed(p, end - b) \in {Ended(b, m), Reached(b, m)}
      BY <3>1, PassIs
    <3>3. n \in 0..end /\ end \in 0..iblock.size
      BY <1>1
    <3>4. m \in n..end
      BY <3>3, Reading
    <3> HIDE DEF m
    <3>5. m \in b..end
      BY <1>1, <3>4
    <3> QED
      BY <3>2, <3>5
  <2> QED
    BY <2>1, <2>2
<1>4. step \in [Nat -> [S -> S]]
  <2> HIDE DEF S
  <2> QED
    BY <1>3
<1>5. left \in Nat
  <2>1. Total \in Nat /\ b \div BLOCK_SIZE \in 0..Total
    BY <1>1, EndInReach
  <2> QED
    BY <2>1
<1> HIDE DEF S, step, left
<1>6. PICK f : Recurs(f, left, a, step)
  BY <1>2, <1>4, <1>5, RecursionExists
<1> DEFINE Passes(g) == g = [i \in 0..left |-> IF i = 0 THEN a ELSE Passed(g[i - 1], end - b)]
           pass == CHOOSE g : Passes(g)
<1>7. f \in [0..left -> S]
  BY <1>2, <1>4, <1>5, <1>6, RecursionType
<1>8. \A i \in 0..left : f[i] \in S /\ f[i] = IF i = 0 THEN a ELSE Passed(f[i - 1], end - b)
  <2> TAKE i \in 0..left
  <2>1. f[i] = IF i = 0 THEN a ELSE step[i][f[i - 1]]
    BY <1>6 DEF Recurs
  <2>2. i # 0 => i - 1 \in 0..left /\ i \in Nat
    BY <1>5
  <2>3. i # 0 => step[i][f[i - 1]] = Passed(f[i - 1], end - b)
    BY <1>7, <2>2 DEF step
  <2> QED
    BY <1>7, <2>1, <2>3
<1>9. Passes(f)
  <2>1. f = [i \in 0..left |-> f[i]]
    BY <1>7
  <2> QED
    BY <1>8, <2>1
<1>10. Passes(pass)
  <2> HIDE DEF Passes
  <2> QED
    BY <1>9
<1>11. read_file_to_buffer(end - b, At("r", b)) = pass[left]
  <2>1. At("r", b).actual_data_index = b \div BLOCK_SIZE
    BY DEF At
  <2>2. a = [file |-> At("r", b), bytes |-> <<>>, aux |-> 0, stop |-> FALSE]
    <3>1. b - b = 0 /\ Slice(b, b) = <<>>
      BY DEF Slice
    <3> QED
      BY <3>1 DEF Reached
  <2> QED
    BY <2>1, <2>2 DEF read_file_to_buffer, left
<1>12. pass[0] = a /\ \A i \in 0..left : i # 0 => pass[i] = Passed(pass[i - 1], end - b)
  <2>1. 0 \in 0..left
    BY <1>5
  <2> HIDE DEF pass
  <2> QED
    BY <1>10, <2>1
<1> HIDE DEF pass
<1> DEFINE Whole == b = 0 /\ end = iblock.size
           After(k, n) ==
               /\ k # 0 /\ b < end => b < n
               /\ \/ pass[k] = Ended(b, n) /\ (Whole => n = end)
                  \/ pass[k] = Reached(b, n) /\ (Whole => n = k * BLOCK_SIZE)
           Good == {k \in 0..left : \E n \in b..end : After(k, n)}
<1>13. 0 \in Good
  <2>1. After(0, b)
    BY <1>12, SizesAssumption
  <2>2. b \in b..end /\ 0 \in 0..left
    BY <1>1, <1>5
  <2> QED
    BY <2>1, <2>2
<1>14. ASSUME NEW k \in 0..(left - 1), k \in Good
       PROVE  k + 1 \in Good
  <2>1. PICK n \in b..end : After(k, n)
    BY <1>14
  <2>2. k \in Nat /\ k + 1 \in 0..left /\ k + 1 # 0 /\ (k + 1) - 1 = k
    BY <1>5
  <2>3. pass[k + 1] = Passed(pass[k], end - b)
    <3> DEFINE j == k + 1
    <3>1. j \in 0..left /\ j # 0 /\ j - 1 = k
      BY <2>2
    <3> HIDE DEF j
    <3>2. pass[j] = Passed(pass[j - 1], end - b)
      BY <1>12, <3>1
    <3>3. pass[j] = Passed(pass[k], end - b)
      BY <3>1, <3>2
    <3> QED
      BY <3>3 DEF j
  <2>4. CASE pass[k] = Ended(b, n)
    <3>1. k # 0
      BY <1>12, <2>4 DEF Reached, Ended
    <3>2. Whole => n = end
      BY <2>1, <2>4 DEF Reached, Ended
    <3>3. After(k + 1, n)
      BY <2>1, <2>3, <2>4, <3>1, <3>2, EndStays
    <3> QED
      BY <2>2, <3>3
  <2>5. CASE pass[k] = Reached(b, n)
    <3> DEFINE m == Next3(n, end)
               over == m = end - b \/ m = iblock.size
    <3>1. pass[k + 1] = IF over THEN Ended(b, m) ELSE Reached(b, m)
      BY <2>3, <2>5, PassIs
    <3>2. n \in 0..end /\ end \in 0..iblock.size /\ n \in Nat
      BY <1>1
    <3>3. /\ m \in n..end
          /\ n < end => n < m
          /\ m = end \/ m = n + (BLOCK_SIZE - (n % BLOCK_SIZE))
      BY <3>2, Reading
    <3> HIDE DEF m
    <3>4. m \in b..end
      BY <1>1, <3>3
    <3>5. b < end => b < m
      BY <1>1, <3>3
    <3>6. ASSUME Whole
          PROVE  IF over THEN m = end ELSE m = (k + 1) * BLOCK_SIZE
      <4>1. n = k * BLOCK_SIZE + 0 /\ 0 \in 0..(BLOCK_SIZE - 1)
        <5>1. n = k * BLOCK_SIZE
          BY <2>1, <2>5, <3>6 DEF Reached, Ended
        <5> QED
          BY <2>2, <5>1, SizesAssumption
      <4>2. n % BLOCK_SIZE = 0
        BY <2>2, <4>1, PlaceIs
      <4>3. over <=> m = end
        BY <1>1, <3>6
      <4>4. (k + 1) * BLOCK_SIZE = k * BLOCK_SIZE + BLOCK_SIZE
        BY <2>2, SizesAssumption
      <4> QED
        BY <3>3, <4>1, <4>2, <4>3, <4>4, SizesAssumption
    <3> HIDE DEF over
    <3>7. After(k + 1, m)
      BY <3>1, <3>5, <3>6
    <3> QED
      BY <2>2, <3>4, <3>7
  <2> QED
    BY <2>1, <2>4, <2>5
<1>15. 0..left \subseteq Good
  <2> HIDE DEF Good
  <2> QED
    BY <1>5, <1>13, <1>14, SetInduction
<1>16. PICK n \in b..end : After(left, n)
  BY <1>5, <1>15
<1>17. b < end => left # 0
  <2>1. ASSUME b < end PROVE b \div BLOCK_SIZE \in 0..(Total - 1) /\ Total \in Nat
    BY <1>1, <2>1, InReach
  <2> QED
    BY <2>1 DEF left
<1>18. Whole => n = end
  <2> SUFFICES ASSUME Whole, n = left * BLOCK_SIZE PROVE n = end
    BY <1>16
  <2>1. 0 = 0 * BLOCK_SIZE + 0 /\ 0 \in 0..(BLOCK_SIZE - 1)
    BY SizesAssumption
  <2>2. b \div BLOCK_SIZE = 0
    BY <2>1, PlaceIs
  <2>3. left = Total /\ n = Total * BLOCK_SIZE
    <3>1. Total \in Nat
      BY SizesAssumption DEF Total
    <3> QED
      BY <2>2, <3>1 DEF left
  <2>4. end <= Total * BLOCK_SIZE
    BY SizesAssumption DEF ImageOK
  <2> QED
    BY <1>1, <2>3, <2>4
<1>19. pass[left] \in {Reached(b, n), Ended(b, n)} /\ (b < end => b < n)
  BY <1>16, <1>17
<1> QED
  BY <1>11, <1>18, <1>19

-----------------------------------------------------------------------------
(* The actions. *)

\* cr_open puts the position at the beginning of the file.
LEMMA OpenedIs ==
    ASSUME NEW mode
    PROVE  crFILE(mode) = At(mode, 0)
<1>1. 0 = 0 * BLOCK_SIZE + 0 /\ 0 \in 0..(BLOCK_SIZE - 1)
  BY SizesAssumption
<1>2. 0 \div BLOCK_SIZE = 0 /\ 0 % BLOCK_SIZE = 0
  BY <1>1, PlaceIs
<1> QED
  BY <1>2 DEF crFILE, At

\* What a cr_read leaves, wherever the file stands: it has come to byte n, and the
\* buffer holds the file up to there.
LEMMA ReadGoesOn ==
    ASSUME ImageOK, FileOK, NEW nbytes \in Nat, Read(nbytes), buffer = Slice(0, file.amount_read)
    PROVE  \E b \in 0..iblock.size : \E n \in b..iblock.size :
              /\ file = At("r", b) /\ file' = At("r", n) /\ buffer' = Slice(0, n)
              /\ nbytes # 0 /\ b < iblock.size => b < n
<1>1. PICK b \in 0..iblock.size : file = At("r", b)
  BY DEF FileOK, Read, NULL, At
<1>2. iblock.size \in Nat /\ b \in Nat /\ b <= iblock.size
  BY SizesAssumption DEF ImageOK, Total
<1> DEFINE g == Granted(file, nbytes)
<1>3. g = IF b + nbytes > iblock.size THEN iblock.size - b ELSE nbytes
  BY <1>1 DEF Granted, At
<1> HIDE DEF g
<1> DEFINE end == b + g
<1>4. end \in b..iblock.size /\ end - b = g /\ (nbytes # 0 /\ b < iblock.size => b < end)
  BY <1>2, <1>3
<1> HIDE DEF end
<1> DEFINE done == read_file_to_buffer(end - b, At("r", b))
<1>5. PICK n \in b..end : done \in {Reached(b, n), Ended(b, n)} /\ (b < end => b < n)
  BY <1>2, <1>4, ReadIs
<1>6. done.file = At("r", n) /\ done.bytes = Slice(b, n)
  BY <1>5 DEF Reached, Ended
<1> HIDE DEF done
<1>7. file' = done.file /\ buffer' = Over(done.bytes, buffer)
  BY <1>1, <1>4 DEF Read, g, done
<1>8. n \in Nat /\ b <= n /\ n \in b..iblock.size
  BY <1>2, <1>4
<1>9. buffer = Slice(0, b)
  BY <1>1 DEF At
<1>10. buffer' = Slice(0, n)
  BY <1>2, <1>6, <1>7, <1>8, <1>9, Joined
<1> QED
  BY <1>1, <1>4, <1>5, <1>6, <1>7, <1>8, <1>10

\* cr_unload writes the whole file.
LEMMA UnloadWritesAll ==
    ASSUME ImageOK, Unload
    PROVE  copy' = Slice(0, iblock.size)
<1>1. iblock.size \in Nat
  BY SizesAssumption DEF ImageOK, Total
<1>2. crFILE("r") = At("r", 0)
  BY OpenedIs
<1>3. Granted(crFILE("r"), iblock.size) = iblock.size - 0
  BY <1>1, <1>2 DEF Granted, At
<1> DEFINE done == read_file_to_buffer(iblock.size - 0, At("r", 0))
<1>4. done \in {Reached(0, iblock.size), Ended(0, iblock.size)}
  BY <1>1, ReadIs
<1>5. done.bytes = Slice(0, iblock.size)
  BY <1>4 DEF Reached, Ended
<1> QED
  BY <1>2, <1>3, <1>5 DEF Unload

\* The crFILE is that of the same image while the image does not change.
LEMMA SameImage ==
    ASSUME UNCHANGED iblock
    PROVE  \A mode, n : At(mode, n)' = At(mode, n)
<1>1. Pointers' = Pointers
  BY DEF Pointers, read_data_block, Blocks
<1> QED
  BY <1>1 DEF At

-----------------------------------------------------------------------------
(* The theorems. *)

\* The file is always at one of its bytes, with the three records of the position
\* agreeing, the buffer holds what has been read, and the copy is the whole file.
THEOREM Inductive == Spec => []IInv
<1>1. Init => IInv
  <2> SUFFICES ASSUME Init PROVE IInv
    OBVIOUS
  <2>1. ImageOK
    <3>1. PICK size \in 0..(Total * BLOCK_SIZE) : iblock = Index(size)
      BY DEF Init
    <3>2. iblock.size = size
      BY <3>1 DEF Index
    <3> QED
      BY <3>1, <3>2 DEF ImageOK
  <2>2. FileOK /\ ~ IsOpen
    BY DEF Init, FileOK, IsOpen, NULL
  <2> QED
    BY <2>1, <2>2 DEF Init, IInv
<1>2. IInv /\ [Next]_vars => IInv'
  <2> SUFFICES ASSUME IInv, [Next]_vars PROVE IInv'
    OBVIOUS
  <2>1. UNCHANGED iblock
    BY DEF Next, Open, Read, ReadError, Close, Unload, vars
  <2>2. \A mode, n : At(mode, n)' = At(mode, n)
    BY <2>1, SameImage
  <2>3. ImageOK'
    BY <2>1 DEF IInv, ImageOK, Index, Blocks
  <2>4. iblock.size \in Nat
    BY SizesAssumption DEF IInv, ImageOK, Total
  \* The parts of IInv that have to be shown, over the image as it is.
  <2> DEFINE FileNext == file' = NULL \/ \E mode \in {"r", "w"}, n \in 0..iblock.size : file' = At(mode, n)
             BufferNext == file'.mode = "r" => buffer' = Slice(0, file'.amount_read)
             CopyNext == copy' = <<>> \/ copy' = Slice(0, iblock.size)
  <2>5. FileNext /\ BufferNext /\ CopyNext => IInv'
    <3>1. FileNext => FileOK'
      BY <2>1, <2>2 DEF FileOK, NULL
    <3>2. BufferNext => (IsOpen => buffer = Slice(0, file.amount_read))'
      BY <2>1 DEF IsOpen, Slice, Content
    <3>3. CopyNext => (copy = <<>> \/ copy = Slice(0, iblock.size))'
      BY <2>1 DEF Slice, Content
    <3> QED
      BY <2>3, <3>1, <3>2, <3>3 DEF IInv
  <2>6. UNCHANGED <<file, buffer>> => FileNext /\ BufferNext
    BY DEF IInv, FileOK, IsOpen
  <2>7. UNCHANGED copy => CopyNext
    BY DEF IInv
  <2>8. CASE Open
    <3>1. PICK mode \in {"r", "w"} : file' = At(mode, 0)
      BY <2>8, OpenedIs DEF Open
    <3>2. FileNext
      BY <2>4, <3>1
    <3>3. Slice(0, 0) = <<>>
      BY DEF Slice
    <3>4. BufferNext
      BY <2>8, <3>1, <3>3 DEF Open, At
    <3> QED
      BY <2>5, <2>7, <2>8, <3>2, <3>4 DEF Open
  <2>9. CASE \E n \in Requests : Read(n)
    <3>1. PICK nbytes \in Requests : Read(nbytes)
      BY <2>9
    <3>2. nbytes \in Nat /\ buffer = Slice(0, file.amount_read)
      BY <3>1, SizesAssumption DEF IInv, IsOpen, Read
    <3>3. PICK b \in 0..iblock.size : \E n \in b..iblock.size : file' = At("r", n) /\ buffer' = Slice(0, n)
      BY <3>1, <3>2, ReadGoesOn DEF IInv
    <3>4. PICK n \in b..iblock.size : file' = At("r", n) /\ buffer' = Slice(0, n)
      BY <3>3
    <3>5. FileNext
      BY <2>4, <3>4
    <3>6. BufferNext
      BY <3>4 DEF At
    <3> QED
      BY <2>5, <2>7, <3>1, <3>5, <3>6 DEF Read
  <2>10. CASE ReadError
    BY <2>5, <2>6, <2>7, <2>10 DEF ReadError
  <2>11. CASE Close
    BY <2>5, <2>7, <2>11 DEF Close, NULL
  <2>12. CASE Unload
    <3>1. CopyNext
      BY <2>12, UnloadWritesAll DEF IInv
    <3> QED
      BY <2>5, <2>6, <2>12, <3>1 DEF Unload
  <2>13. CASE UNCHANGED vars
    BY <2>5, <2>6, <2>7, <2>13 DEF vars
  <2> QED
    BY <2>8, <2>9, <2>10, <2>11, <2>12, <2>13 DEF Next
<1> QED
  BY <1>1, <1>2, PTL DEF Spec

\* The three records of the position agree after every call, in files of every
\* size (crFILE_init, read_file_to_buffer).
THEOREM CursorCorrect == Spec => []CursorAgrees
<1>1. IInv => CursorAgrees
  <2> SUFFICES ASSUME IInv, IsOpen PROVE CursorAgrees
    BY DEF CursorAgrees
  <2>1. PICK n \in 0..iblock.size : file = At("r", n)
    BY DEF IInv, FileOK, IsOpen, NULL, At
  <2>2. n \in Nat /\ n \in 0..iblock.size
    BY SizesAssumption DEF IInv, ImageOK, Total
  <2>3. /\ n = (n \div BLOCK_SIZE) * BLOCK_SIZE + (n % BLOCK_SIZE)
        /\ n % BLOCK_SIZE \in 0..(BLOCK_SIZE - 1)
    BY <2>2, Places
  <2> QED
    BY <2>1, <2>2, <2>3 DEF CursorAgrees, At
<1> QED
  BY <1>1, Inductive, PTL

\* However the reads fall on the blocks, the buffer holds the file from its first
\* byte to the last one read, and cr_unload copies the whole file (cr_read, write_file).
THEOREM BufferCorrect == Spec => []BufferHoldsPrefix
<1>1. IInv => BufferHoldsPrefix
  BY DEF IInv, BufferHoldsPrefix, Prefix, Slice
<1> QED
  BY <1>1, Inductive, PTL

\* A cr_read of at least one byte advances while there is something to read.
THEOREM ReadsAdvance == Spec => ReadAdvances
<1>1. ASSUME IInv, NEW n \in Requests \ {0}, Read(n), file.amount_read < file.size
      PROVE  file'.amount_read > file.amount_read
  <2>1. n \in Nat /\ n # 0 /\ buffer = Slice(0, file.amount_read)
    BY <1>1, SizesAssumption DEF IInv, IsOpen, Read
  <2>2. PICK b \in 0..iblock.size : \E m \in b..iblock.size :
            /\ file = At("r", b) /\ file' = At("r", m)
            /\ n # 0 /\ b < iblock.size => b < m
    BY <1>1, <2>1, ReadGoesOn DEF IInv
  <2>3. PICK m \in b..iblock.size :
            /\ file = At("r", b) /\ file' = At("r", m)
            /\ n # 0 /\ b < iblock.size => b < m
    BY <2>2
  <2> QED
    BY <1>1, <2>1, <2>3 DEF At
<1>2. IInv => [\A n \in Requests \ {0} :
                   (Read(n) /\ file.amount_read < file.size) => file'.amount_read > file.amount_read]_vars
  BY <1>1
<1> QED
  BY <1>2, Inductive, PTL DEF ReadAdvances
=============================================================================
