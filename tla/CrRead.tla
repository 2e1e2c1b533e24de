------------------------------- MODULE CrRead -------------------------------
(***************************************************************************)
(* Reading a file of crfs: cr_open with mode 'r', cr_read, cr_close, and    *)
(* the copy that cr_unload makes of it (cr_API.c, functions.c).  The image  *)
(* does not change meanwhile.  A byte is the block and the offset it is     *)
(* read from; the buffer of the caller is the same for all reads, as in     *)
(* main.c.  Modes and errors of cr_open are in Crfs.                        *)
(***************************************************************************)
EXTENDS Integers

CONSTANTS
    BLOCK_SIZE,     \* bytes of a block (2048)
    Direct,         \* pointers of an index block to data (500)
    Indirect,       \* pointers of an index block to blocks of pointers (10)
    PerBlock,       \* pointers in such a block (512)
    Requests        \* values of nbytes

Total == Direct + Indirect * PerBlock               \* 5620

ASSUME SizesAssumption ==
    /\ BLOCK_SIZE \in Nat \ {0} /\ Direct \in Nat \ {0} /\ Indirect \in Nat /\ PerBlock \in Nat \ {0}
    /\ Requests \subseteq Nat

VARIABLES
    iblock,         \* the index block of the file: size, data_pointers, indirect_blocks
    file,           \* the crFILE, or NULL
    buffer,         \* bytes that the reads have stored, by distance from the start
    ret,            \* what the last call has returned
    copy            \* bytes that cr_unload has written

vars == <<iblock, file, buffer, ret, copy>>

NULL == [mode |-> "none"]
Byte(block, offset) == <<block, offset>>

-----------------------------------------------------------------------------
\* A file of size bytes on an image: its blocks are numbered in order, then the
\* blocks of pointers.  Pointers that are not used are 0, and what block 0 has
\* in the place of pointers is Junk.
Blocks(size) == (size + BLOCK_SIZE - 1) \div BLOCK_SIZE
DataBlock(i) == i + 1
PointerBlock(j) == Total + j + 1
Junk == -1
Index(size) ==
    [size |-> size,
     data_pointers |-> [i \in 0..(Direct - 1) |-> IF i < Blocks(size) THEN DataBlock(i) ELSE 0],
     indirect_blocks |-> [j \in 0..(Indirect - 1) |->
                             IF Direct + j * PerBlock < Blocks(size) THEN PointerBlock(j) ELSE 0]]

\* The pointers in a block of pointers.
read_data_block(b) ==
    [k \in 0..(PerBlock - 1) |->
        LET i == Direct + (b - PointerBlock(0)) * PerBlock + k
        IN  IF b = 0 THEN Junk ELSE IF i < Blocks(iblock.size) THEN DataBlock(i) ELSE 0]

Init ==
    /\ \E size \in 0..(Total * BLOCK_SIZE) : iblock = Index(size)
    /\ file = NULL /\ buffer = <<>> /\ ret = 0 /\ copy = <<>>

\* crFILE_init: the direct pointers, and after them those of each indirect block.
PointersOverlap == [i \in 0..(Total - 1) |->         \* fault: every indirect block at the same place
    IF i < Direct THEN iblock.data_pointers[i]
    ELSE read_data_block(iblock.indirect_blocks[Indirect - 1])[(i - Direct) % PerBlock]]
Pointers == [i \in 0..(Total - 1) |->
    IF i < Direct THEN iblock.data_pointers[i]
    ELSE read_data_block(iblock.indirect_blocks[(i - Direct) \div PerBlock])[(i - Direct) % PerBlock]]
crFILE(mode) ==
    [mode |-> mode, size |-> iblock.size, data_pointers |-> Pointers,
     amount_read |-> 0, actual_offset |-> 0, actual_data_index |-> 0]

Open ==
    /\ file = NULL
    /\ \E mode \in {"r", "w"} : file' = crFILE(mode)
    /\ buffer' = <<>>
    /\ UNCHANGED <<iblock, ret, copy>>

-----------------------------------------------------------------------------
\* What the inner loop of read_file_to_buffer reads in one go.
Min3(a, b, c) == IF a <= b /\ a <= c THEN a ELSE IF b <= c THEN b ELSE c
Part(f, nbytes, aux) == Min3(nbytes - aux, f.size - f.amount_read, BLOCK_SIZE - f.actual_offset)

\* At the end of a block the next one begins.
StayedInBlock(f) == f                                \* fault: the offset runs on
TurnedBlock(f) ==
    IF f.actual_offset = BLOCK_SIZE
    THEN [f EXCEPT !.actual_offset = 0, !.actual_data_index = @ + 1] ELSE f

\* The outer loop stops when the file has been read to its end, or when the
\* total of all reads is as large as this request.
Stopped(f, nbytes) == f.amount_read = nbytes \/ f.amount_read = f.size

\* fault: the total is not counted up
AdvancedNot(f, part) == [f EXCEPT !.actual_offset = @ + part]
Advanced(f, part) == [f EXCEPT !.actual_offset = @ + part, !.amount_read = @ + part]

\* The byte of the file goes to that distance from the start of the buffer which
\* the total has reached.
Stored(f, part) ==
    [k \in f.amount_read..(f.amount_read + part - 1) |->
        Byte(f.data_pointers[f.actual_data_index], f.actual_offset + k - f.amount_read)]

\* What one store leaves of another.
Over(f, g) == [k \in DOMAIN f \union DOMAIN g |-> IF k \in DOMAIN f THEN f[k] ELSE g[k]]

\* One pass of the outer loop.
Passed(p, nbytes) ==
    LET part == Part(p.file, nbytes, p.aux)
        next == TurnedBlock(Advanced(p.file, part))
    IN  IF p.stop THEN p
        ELSE [file |-> next, bytes |-> Over(Stored(p.file, part), p.bytes),
              aux |-> p.aux + part, stop |-> Stopped(next, nbytes)]

\* read_file_to_buffer: at most one pass for each block the file may have left.
read_file_to_buffer(nbytes, f) ==
    LET left == Total - f.actual_data_index
        pass[i \in 0..left] ==
            IF i = 0 THEN [file |-> f, bytes |-> <<>>, aux |-> 0, stop |-> FALSE]
            ELSE Passed(pass[i - 1], nbytes)
    IN  pass[left]

\* cr_read returns nbytes, or what is left of the file.
Granted(f, nbytes) == IF f.amount_read + nbytes > f.size THEN f.size - f.amount_read ELSE nbytes

Read(nbytes) ==
    /\ file.mode = "r"
    /\ LET done == read_file_to_buffer(Granted(file, nbytes), file)
       IN  file' = done.file /\ buffer' = Over(done.bytes, buffer)
    /\ ret' = Granted(file, nbytes)
    /\ UNCHANGED <<iblock, copy>>

\* No file, or one that is open for writing.
ReadError ==
    /\ file.mode # "r" /\ ret' = -1
    /\ UNCHANGED <<iblock, file, buffer, copy>>

Close ==
    /\ file' = NULL /\ ret' = IF file = NULL THEN -1 ELSE 0
    /\ UNCHANGED <<iblock, buffer, copy>>

\* write_file: opens the file, reads all of it and closes it.
Unload ==
    /\ copy' = read_file_to_buffer(Granted(crFILE("r"), iblock.size), crFILE("r")).bytes
    /\ ret' = 0
    /\ UNCHANGED <<iblock, file, buffer>>

Next == Open \/ (\E n \in Requests : Read(n)) \/ ReadError \/ Close \/ Unload

Spec == Init /\ [][Next]_vars

-----------------------------------------------------------------------------
IsOpen == file.mode = "r"

\* The three records of the position agree: the bytes read so far, and the
\* block and the offset of the next one.
CursorAgrees ==
    IsOpen =>
        /\ file.amount_read = file.actual_data_index * BLOCK_SIZE + file.actual_offset
        /\ file.actual_offset \in 0..(BLOCK_SIZE - 1) /\ file.amount_read \in 0..file.size

\* Byte n of the file, where the image has it.
Content(n) == Byte(DataBlock(n \div BLOCK_SIZE), n % BLOCK_SIZE)
Prefix(n) == [k \in 0..(n - 1) |-> Content(k)]

\* A caller that passes the same buffer to every cr_read finds in it the file
\* from its beginning, every byte once, and nothing else, however the reads
\* fall on the blocks and across the indirect ones; cr_unload copies it whole.
\* That is a convention of the code alone: functions.c:354 adds the total of all reads
\* to the pointer, where DOCUMENTACION.md:64 says that the bytes go to the address
\* that buffer points to.  A caller that follows the document, and passes the address
\* for the next bytes, gets them that much behind it.
BufferHoldsPrefix ==
    /\ IsOpen => buffer = Prefix(file.amount_read)
    /\ copy # <<>> => copy = Prefix(iblock.size)

\* A cr_read of at least one byte gets on while there is something to read: a
\* caller that reads until 0 comes to the end, although one call may stop early.
ReadAdvances ==
    [][\A n \in Requests \ {0} :
        (Read(n) /\ file.amount_read < file.size) => file'.amount_read > file.amount_read]_vars

-----------------------------------------------------------------------------
\* "Retorna la cantidad de bytes efectivamente leidos" (DOCUMENTACION.md, cr_read).
ReturnsBytesRead == [][\A n \in Requests : Read(n) => ret' = file'.amount_read - file.amount_read]_vars
=============================================================================
