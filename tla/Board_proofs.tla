---------------------------- MODULE Board_proofs ----------------------------
(***************************************************************************)
(* Proofs about Board, for boards of every size: what a search that does    *)
(* and undoes captures on the board itself leaves there, however long its   *)
(* chains are, and although what it lands on is never emptied again.        *)
(***************************************************************************)
EXTENDS Board, FiniteSetTheorems, TLAPS

-----------------------------------------------------------------------------
(* The inductive invariant. *)

Cell == Pieces \union {"b", "n"}
FrameType ==
    [at : Squares, cell : Pieces, dir : 0..4, prev_no_kills : 0..NoKillLimit, killed_cell : Pieces \union {"b"}]

\* A board: pieces on dark squares only, and no man on the row where it is crowned.
CellsOK(f) ==
    /\ f \in [Squares -> Cell]
    /\ \A s \in Squares : (dark(s) <=> f[s] # "n") /\ Crowned(f[s], s) = f[s]

Typed ==
    /\ CellsOK(cells)
    /\ n_white \in Int /\ n_black \in Int /\ no_kills \in 0..NoKillLimit
    /\ turn \in Player /\ heap \in {"sound", "corrupt", "aborted"}
    /\ destiny \in Squares \union {Nowhere} /\ stack \in Seq(FrameType)
    /\ stack = <<>> => before = <<>>

\* The number of pieces of a colour, and those that a search has taken so far.
One(cell, colour) == IF cell \in colour THEN 1 ELSE 0
Number(f, colour) == Cardinality({s \in Squares : f[s] \in colour})
Tally(frames, n, colour) == Cardinality({k \in 1..n : frames[k].killed_cell \in colour})
Active == 1..(Len(stack) - 1)
Taken(colour) == Tally(stack, Len(stack) - 1, colour)
Colours == {Black, White}

\* No piece is counted that is not on the board, in the middle of a search too.
Numbers == n_white <= Number(cells, White) /\ n_black <= Number(cells, Black)

\* A search moves by two rows: it lands on rows of the parity of the one it
\* started from, and takes what is on the others.
Origin == stack[1].at
SameSide(s) == s[1] % 2 = Origin[1] % 2
Free(s) == before.cells[s] = "b" \/ s = Origin

BeforeOK ==
    /\ CellsOK(before.cells) /\ before.no_kills \in 0..NoKillLimit
    /\ before.n_white \in Int /\ before.n_black \in Int

\* The frames: each stands on a square that was free, and all but the last one
\* have taken a piece, each another one.
FrameOK(k) ==
    /\ stack[k].cell \in Own(turn) /\ Crowned(stack[k].cell, stack[k].at) = stack[k].cell
    /\ SameSide(stack[k].at) /\ Free(stack[k].at)
ActiveOK(k) ==
    /\ stack[k].dir \in 1..4 /\ Landing(stack[k]) \in Squares
    /\ stack[k].killed_cell = before.cells[Killed(stack[k])] /\ stack[k].killed_cell \in Pieces
    /\ stack[k].prev_no_kills = IF k = 1 THEN before.no_kills ELSE 0
FramesOK ==
    /\ stack[1].cell = before.cells[Origin] /\ cells[Top.at] = Top.cell
    /\ \A k \in DOMAIN stack : FrameOK(k)
    /\ \A k \in Active : ActiveOK(k)
    /\ \A j, k \in Active : Killed(stack[j]) = Killed(stack[k]) => j = k

\* What the search has left of the board it began with.
TakenAway(s) == \E k \in Active : s = Killed(stack[k])
LeftOver ==
    \A s \in Squares :
        /\ ~ SameSide(s) => cells[s] = IF TakenAway(s) THEN "b" ELSE before.cells[s]
        /\ SameSide(s) /\ Free(s) => cells[s] \in Own(turn) \union {"b"}
        /\ SameSide(s) /\ ~ Free(s) => cells[s] = before.cells[s]

\* What it has done to the counters.
Accounts ==
    /\ no_kills = IF Len(stack) = 1 THEN before.no_kills ELSE 0
    /\ n_white = before.n_white - Taken(White) /\ n_black = before.n_black - Taken(Black)

InSearch == stack # <<>> => BeforeOK /\ FramesOK /\ LeftOver /\ Accounts

IInv == Typed /\ Numbers /\ InSearch

-----------------------------------------------------------------------------
(* Squares and directions. *)

\* The assumption on the constants.
LEMMA Sizes ==
    /\ Size \in Nat /\ MenRows \in Nat /\ MenRows > 0 /\ 2 * MenRows < Size
    /\ NoKillLimit \in Nat /\ NoKillLimit > 0
  BY BoardAssumption

\* A square has a row and a column.
LEMMA SquareType ==
    ASSUME NEW s \in Squares
    PROVE  /\ s = <<s[1], s[2]>> /\ s[1] \in Int /\ s[2] \in Int
           /\ 0 <= s[1] /\ s[1] < Size /\ 0 <= s[2] /\ s[2] < Size
  BY Sizes DEF Squares, Rows

\* All four directions are diagonal.
LEMMA DirsType ==
    ASSUME NEW dir \in 1..4
    PROVE  Dirs[dir][1] \in {-1, 1} /\ Dirs[dir][2] \in {-1, 1}
  <1>1. dir = 1 \/ dir = 2 \/ dir = 3 \/ dir = 4
    OBVIOUS
  <1>2. QED
    BY <1>1 DEF Dirs

\* Between a square and the one two steps away there is a square of the board;
\* all three are of the same colour, and the one in between is on a row of the
\* other parity.
LEMMA Capture ==
    ASSUME NEW s \in Squares, NEW dir \in 1..4, Beyond(s, dir, 2) \in Squares
    PROVE  /\ Beyond(s, dir, 1) \in Squares
           /\ Beyond(s, dir, 1)[1] % 2 # s[1] % 2 /\ Beyond(s, dir, 2)[1] % 2 = s[1] % 2
           /\ dark(Beyond(s, dir, 1)) <=> dark(s)
           /\ dark(Beyond(s, dir, 2)) <=> dark(s)
           /\ Beyond(s, dir, 1) # s /\ Beyond(s, dir, 2) # s /\ Beyond(s, dir, 1) # Beyond(s, dir, 2)
  <1> DEFINE r == s[1]  c == s[2]  dr == Dirs[dir][1]  dc == Dirs[dir][2]
  <1>1. r \in Int /\ c \in Int /\ 0 <= r /\ r < Size /\ 0 <= c /\ c < Size /\ s = <<r, c>>
    BY SquareType
  <1>2. (dr = -1 \/ dr = 1) /\ (dc = -1 \/ dc = 1)
    BY DirsType
  <1>3. Beyond(s, dir, 1) = <<r + 1 * dr, c + 1 * dc>> /\ Beyond(s, dir, 2) = <<r + 2 * dr, c + 2 * dc>>
    BY DEF Beyond
  <1> HIDE DEF r, c, dr, dc
  <1>4. 1 * dr = dr /\ 1 * dc = dc /\ 2 * dr = dr + dr /\ 2 * dc = dc + dc
    BY <1>2
  <1>5. 0 <= r + (dr + dr) /\ r + (dr + dr) < Size /\ 0 <= c + (dc + dc) /\ c + (dc + dc) < Size
    BY <1>3, <1>4, Sizes DEF Squares, Rows
  <1>6. 0 <= r + dr /\ r + dr < Size /\ 0 <= c + dc /\ c + dc < Size /\ r + dr \in Int /\ c + dc \in Int
    BY <1>1, <1>2, <1>5, Sizes
  <1>7. Beyond(s, dir, 1) \in Squares
    BY <1>3, <1>4, <1>6, Sizes DEF Squares, Rows
  <1>8. (r + dr) % 2 # r % 2 /\ (r + (dr + dr)) % 2 = r % 2
    BY <1>1, <1>2
  <1>9. /\ ((r + dr) + (c + dc)) % 2 = (r + c) % 2
        /\ ((r + (dr + dr)) + (c + (dc + dc))) % 2 = (r + c) % 2
    BY <1>1, <1>2
  <1>10. /\ dark(Beyond(s, dir, 1)) <=> dark(s)
         /\ dark(Beyond(s, dir, 2)) <=> dark(s)
    BY <1>1, <1>3, <1>4, <1>9 DEF dark
  <1>11. Beyond(s, dir, 1) # s /\ Beyond(s, dir, 2) # s /\ Beyond(s, dir, 1) # Beyond(s, dir, 2)
    BY <1>1, <1>2, <1>3, <1>4
  <1>12. QED
    BY <1>1, <1>3, <1>4, <1>7, <1>8, <1>10, <1>11

\* A set of directions that is not empty has a smallest one.
LEMMA MinDir ==
    ASSUME NEW S \in SUBSET (1..4), S # {}
    PROVE  Min(S) \in S
  <1>1. \E x \in S : \A y \in S : x <= y
    <2>1. CASE 1 \in S
      BY <2>1
    <2>2. CASE 1 \notin S /\ 2 \in S
      BY <2>2
    <2>3. CASE 1 \notin S /\ 2 \notin S /\ 3 \in S
      BY <2>3
    <2>4. CASE 1 \notin S /\ 2 \notin S /\ 3 \notin S
      <3>1. \A x \in S : x = 4
        BY <2>4
      <3>2. \A x, y \in S : x <= y
        BY <3>1
      <3>3. QED
        BY <3>2
    <2>5. QED
      BY <2>1, <2>2, <2>3, <2>4
  <1>2. QED
    BY <1>1 DEF Min

\* A crowned piece is a piece of the same colour, and is not crowned again.
LEMMA CrownedType ==
    ASSUME NEW cell \in Pieces, NEW s
    PROVE  /\ Crowned(cell, s) \in Pieces /\ Crowned(Crowned(cell, s), s) = Crowned(cell, s)
           /\ \A colour \in Colours : One(Crowned(cell, s), colour) = One(cell, colour)
           /\ \A player \in Player : cell \in Own(player) => Crowned(cell, s) \in Own(player)
  BY DEF Pieces, Black, White, Crowned, Colours, One, Own, Player

-----------------------------------------------------------------------------
(* Numbers of pieces. *)

\* There are finitely many squares, and so pieces.
LEMMA NumberType ==
    ASSUME NEW f, NEW colour
    PROVE  IsFiniteSet({s \in Squares : f[s] \in colour}) /\ Number(f, colour) \in Nat
  <1>1. IsFiniteSet(Rows)
    BY Sizes, FS_Interval DEF Rows
  <1>2. IsFiniteSet(Squares)
    BY <1>1, FS_Product DEF Squares
  <1>3. IsFiniteSet({s \in Squares : f[s] \in colour})
    BY <1>2, FS_Subset
  <1>4. QED
    BY <1>3, FS_CardinalityType DEF Number

\* f with a cell put on a square.
Puts(g, f, s, cell) == g[s] = cell /\ \A t \in Squares : t # s => g[t] = f[t]

\* What is put on a square is there once more, and what was there once less.
LEMMA PutCounts ==
    ASSUME NEW f, NEW g, NEW s \in Squares, NEW cell, Puts(g, f, s, cell), NEW colour
    PROVE  Number(g, colour) = Number(f, colour) + One(cell, colour) - One(f[s], colour)
  <1> DEFINE F == {t \in Squares : f[t] \in colour}
             G == {t \in Squares : g[t] \in colour}
  <1>1. g[s] = cell /\ \A t \in Squares : t # s => g[t] = f[t]
    BY DEF Puts
  <1>2. IsFiniteSet(F) /\ Cardinality(F) \in Nat /\ Number(f, colour) = Cardinality(F)
    BY NumberType DEF Number
  <1>3. Number(g, colour) = Cardinality(G)
    BY DEF Number
  <1>4. CASE cell \in colour /\ f[s] \notin colour
    <2>1. G = F \union {s} /\ s \notin F
      BY <1>1, <1>4
    <2> HIDE DEF F, G
    <2>2. Cardinality(G) = Cardinality(F) + 1
      BY <1>2, <2>1, FS_AddElement
    <2>3. QED
      BY <1>2, <1>3, <1>4, <2>2 DEF One
  <1>5. CASE cell \notin colour /\ f[s] \in colour
    <2>1. G = F \ {s} /\ s \in F
      BY <1>1, <1>5
    <2> HIDE DEF F, G
    <2>2. Cardinality(G) = Cardinality(F) - 1
      BY <1>2, <2>1, FS_RemoveElement
    <2>3. QED
      BY <1>2, <1>3, <1>5, <2>2 DEF One
  <1>6. CASE cell \in colour <=> f[s] \in colour
    <2>1. G = F
      BY <1>1, <1>6
    <2> HIDE DEF F, G
    <2>2. QED
      BY <1>2, <1>3, <1>6, <2>1 DEF One
  <1>7. QED
    BY <1>4, <1>5, <1>6

\* One frame more has taken one piece more, if it was of the colour.
LEMMA TallyNext ==
    ASSUME NEW n \in Nat, NEW frames, NEW colour
    PROVE  /\ Tally(frames, n, colour) \in Nat
           /\ Tally(frames, n + 1, colour) = Tally(frames, n, colour) + One(frames[n + 1].killed_cell, colour)
  <1> DEFINE F == {k \in 1..n : frames[k].killed_cell \in colour}
             G == {k \in 1..(n + 1) : frames[k].killed_cell \in colour}
  <1>1. IsFiniteSet(F) /\ Cardinality(F) \in Nat
    <2>1. IsFiniteSet(1..n)
      BY FS_Interval
    <2>2. IsFiniteSet(F)
      BY <2>1, FS_Subset
    <2>3. QED
      BY <2>2, FS_CardinalityType
  <1>2. Tally(frames, n, colour) = Cardinality(F) /\ Tally(frames, n + 1, colour) = Cardinality(G)
    BY DEF Tally
  <1>3. CASE frames[n + 1].killed_cell \in colour
    <2>1. G = F \union {n + 1} /\ n + 1 \notin F
      BY <1>3
    <2> HIDE DEF F, G
    <2>2. Cardinality(G) = Cardinality(F) + 1
      BY <1>1, <2>1, FS_AddElement
    <2>3. QED
      BY <1>1, <1>2, <1>3, <2>2 DEF One
  <1>4. CASE frames[n + 1].killed_cell \notin colour
    <2>1. G = F
      <3>1. \A k \in 1..(n + 1) : k # n + 1 => k \in 1..n
        OBVIOUS
      <3>2. \A k \in 1..n : k \in 1..(n + 1)
        OBVIOUS
      <3>3. QED
        BY <1>4, <3>1, <3>2
    <2> HIDE DEF F, G
    <2>2. QED
      BY <1>1, <1>2, <1>4, <2>1 DEF One
  <1>5. QED
    BY <1>3, <1>4

\* Only the frames that are counted matter.
LEMMA TallySame ==
    ASSUME NEW n, NEW frames, NEW others, NEW colour, \A k \in 1..n : frames[k] = others[k]
    PROVE  Tally(frames, n, colour) = Tally(others, n, colour)
  <1>1. {k \in 1..n : frames[k].killed_cell \in colour} = {k \in 1..n : others[k].killed_cell \in colour}
    OBVIOUS
  <1>2. QED
    BY <1>1 DEF Tally

\* The stack after a call and after a return.
LEMMA Pushed ==
    ASSUME stack \in Seq(FrameType), stack # <<>>, NEW frame \in FrameType, NEW new \in FrameType,
           stack' = [stack EXCEPT ![Len(stack)] = frame] \o <<new>>
    PROVE  /\ stack' \in Seq(FrameType) /\ Len(stack) \in Nat /\ Len(stack) > 0
           /\ Len(stack') = Len(stack) + 1 /\ stack'[Len(stack) + 1] = new /\ stack'[Len(stack)] = frame
           /\ \A k \in 1..(Len(stack) - 1) : stack'[k] = stack[k]
  <1>1. [stack EXCEPT ![Len(stack)] = frame] \in Seq(FrameType) /\ Len(stack) \in Nat /\ Len(stack) > 0
    OBVIOUS
  <1> DEFINE s == [stack EXCEPT ![Len(stack)] = frame]
  <1>2. Len(s) = Len(stack) /\ s[Len(stack)] = frame /\ \A k \in 1..(Len(stack) - 1) : s[k] = stack[k]
    OBVIOUS
  <1> HIDE DEF s
  <1>3. s \in Seq(FrameType) /\ stack' = s \o <<new>> /\ <<new>> \in Seq(FrameType)
    BY <1>1 DEF s
  <1>4. QED
    BY <1>1, <1>2, <1>3

\* The frames that remain when the last one returns.
LEMMA Popped ==
    ASSUME stack \in Seq(FrameType), Len(stack) > 1, stack' = SubSeq(stack, 1, Len(stack) - 1)
    PROVE  /\ stack' \in Seq(FrameType) /\ Len(stack) \in Nat
           /\ Len(stack') = Len(stack) - 1 /\ stack' # <<>>
           /\ \A k \in 1..(Len(stack) - 1) : stack'[k] = stack[k]
  <1> DEFINE n == Len(stack) - 1
  <1>1. n \in Nat /\ n > 0 /\ n <= Len(stack) /\ Len(stack) \in Nat
    OBVIOUS
  <1> HIDE DEF n
  <1>2. SubSeq(stack, 1, n) \in Seq(FrameType)
    BY <1>1
  <1>3. Len(SubSeq(stack, 1, n)) = n /\ \A k \in 1..n : SubSeq(stack, 1, n)[k] = stack[k]
    BY <1>1
  <1>4. stack' = SubSeq(stack, 1, n)
    BY DEF n
  <1>5. Len(stack') = n /\ stack' # <<>>
    <2>1. Len(<<>>) = 0
      OBVIOUS
    <2>2. QED
      BY <1>1, <1>3, <1>4, <2>1
  <1>6. QED
    BY <1>1, <1>2, <1>3, <1>4, <1>5 DEF n

-----------------------------------------------------------------------------
(* The steps outside a search. *)

\* The counters are the numbers of pieces at the start.
LEMMA NewBoardOK ==
    /\ CellsOK(NewBoard.cells) /\ NewBoard.n_white \in Int /\ NewBoard.n_black \in Int
    /\ NewBoard.n_white <= Number(NewBoard.cells, White) /\ NewBoard.n_black <= Number(NewBoard.cells, Black)
  <1>1. /\ NewBoard.cells = [s \in Squares |-> board_init(s)]
        /\ NewBoard.n_white = Placed("o") /\ NewBoard.n_black = Placed("x")
    BY DEF NewBoard
  <1>2. ASSUME NEW s \in Squares
        PROVE  /\ board_init(s) \in Cell /\ (dark(s) <=> board_init(s) # "n")
               /\ Crowned(board_init(s), s) = board_init(s)
               /\ board_init(s) \in White <=> board_init(s) = "o"
               /\ board_init(s) \in Black <=> board_init(s) = "x"
    <2>1. board_init(s) \in {"x", "o", "b", "n"} /\ (dark(s) <=> board_init(s) # "n")
      <3>1. CASE dark(s)
        <4>1. board_init(s) \in {"x", "o", "b"}
          BY <3>1 DEF board_init, dark
        <4>2. QED
          BY <3>1, <4>1
      <3>2. CASE ~ dark(s)
        BY <3>2 DEF board_init, dark
      <3>3. QED
        BY <3>1, <3>2
    <2>2. board_init(s) = "x" => s[1] < MenRows
      BY DEF board_init
    <2>3. board_init(s) = "o" => s[1] >= Size - MenRows
      BY DEF board_init
    <2>4. s[1] \in Int
      BY SquareType
    <2>5. Crowned(board_init(s), s) = board_init(s)
      <3>1. board_init(s) = "x" => s[1] # Size - 1
        BY <2>2, <2>4, Sizes
      <3>2. board_init(s) = "o" => s[1] # 0
        BY <2>3, <2>4, Sizes
      <3>3. QED
        BY <2>1, <3>1, <3>2 DEF Crowned
    <2>6. QED
      BY <2>1, <2>5 DEF Cell, Pieces, Black, White
  <1>3. CellsOK(NewBoard.cells)
    BY <1>1, <1>2 DEF CellsOK
  <1>4. NewBoard.n_white = Number(NewBoard.cells, White) /\ NewBoard.n_black = Number(NewBoard.cells, Black)
    <2>1. /\ {s \in Squares : board_init(s) = "o"} = {s \in Squares : NewBoard.cells[s] \in White}
          /\ {s \in Squares : board_init(s) = "x"} = {s \in Squares : NewBoard.cells[s] \in Black}
      BY <1>1, <1>2
    <2>2. QED
      BY <1>1, <2>1 DEF Placed, Number
  <1>5. NewBoard.n_white \in Nat /\ NewBoard.n_black \in Nat
    BY <1>4, NumberType
  <1>6. QED
    BY <1>3, <1>4, <1>5

\* The invariant holds of the first board.
LEMMA InitIInv == Init => IInv
  <1> SUFFICES ASSUME Init PROVE IInv
    OBVIOUS
  <1>1. CellsOK(cells) /\ n_white \in Int /\ n_black \in Int /\ Numbers
    BY NewBoardOK DEF Init, Numbers
  <1>2. no_kills = 0 /\ 0 \in 0..NoKillLimit
    BY Sizes DEF Init, NewBoard
  <1>3. <<>> \in Seq(FrameType)
    OBVIOUS
  <1>4. Typed
    BY <1>1, <1>2, <1>3 DEF Init, Typed
  <1>5. InSearch
    BY DEF Init, InSearch
  <1>6. QED
    BY <1>1, <1>4, <1>5 DEF IInv

\* A board stays one when a piece that is no man to be crowned, or nothing, is
\* put on a dark square.
LEMMA PutOK ==
    ASSUME NEW f, CellsOK(f), NEW s \in Squares, f[s] # "n", NEW cell \in Pieces \union {"b"},
           Crowned(cell, s) = cell
    PROVE  CellsOK([f EXCEPT ![s] = cell])
  <1> DEFINE g == [f EXCEPT ![s] = cell]
  <1>1. f \in [Squares -> Cell] /\ cell \in Cell /\ cell # "n"
    BY DEF CellsOK, Cell, Pieces, Black, White
  <1>2. g \in [Squares -> Cell] /\ g[s] = cell /\ \A t \in Squares : t # s => g[t] = f[t]
    BY <1>1
  <1> HIDE DEF g
  <1>3. ASSUME NEW t \in Squares
        PROVE  (dark(t) <=> g[t] # "n") /\ Crowned(g[t], t) = g[t]
    <2>1. (dark(t) <=> f[t] # "n") /\ Crowned(f[t], t) = f[t]
      BY DEF CellsOK
    <2>2. CASE t = s
      BY <1>1, <1>2, <2>1, <2>2
    <2>3. CASE t # s
      BY <1>2, <2>1, <2>3
    <2>4. QED
      BY <2>2, <2>3
  <1>4. QED
    BY <1>2, <1>3 DEF CellsOK, g

\* An empty square is not crowned, nor counted.
LEMMA Empty ==
    /\ \A s : Crowned("b", s) = "b"
    /\ \A colour \in Colours : One("b", colour) = 0
  BY DEF Crowned, Colours, One, Black, White

\* A piece that moves is still there.
LEMMA StepIInv ==
    ASSUME IInv, Step
    PROVE  IInv'
  <1>1. /\ Typed /\ Numbers /\ CellsOK(cells) /\ turn \in Player
        /\ stack = <<>> /\ no_kills # NoKillLimit /\ no_kills' = no_kills + 1 /\ turn' = 3 - turn
        /\ UNCHANGED <<n_white, n_black, stack, destiny, before, heap>>
    BY DEF IInv, Typed, Step, Playing, game_ended, search
  <1>2. PICK origin \in Squares, dest \in Squares :
            /\ cells[origin] \in Own(turn) /\ cells[dest] = "b"
            /\ cells' = [cells EXCEPT ![origin] = "b", ![dest] = Crowned(cells[origin], dest)]
    BY DEF Step, Movable, is_empty
  <1> DEFINE cell == cells[origin]
             new == Crowned(cell, dest)
             lifted == [cells EXCEPT ![origin] = "b"]
  <1>3. cell \in Pieces /\ cell # "b" /\ cell # "n"
    BY <1>2 DEF Own, Pieces, Black, White
  <1>4. new \in Pieces /\ Crowned(new, dest) = new /\ \A colour \in Colours : One(new, colour) = One(cell, colour)
    BY <1>3, CrownedType
  <1>5. cells \in [Squares -> Cell]
    BY <1>1 DEF CellsOK
  <1>6. Puts(lifted, cells, origin, "b")
    BY <1>5 DEF Puts
  <1>7. origin # dest /\ lifted[dest] = "b" /\ lifted \in [Squares -> Cell]
    BY <1>2, <1>3, <1>5 DEF Cell
  <1> HIDE DEF cell, new
  <1>8. cells' = [lifted EXCEPT ![dest] = new]
    BY <1>2, <1>5 DEF new, cell
  <1>9. Puts(cells', lifted, dest, new)
    BY <1>7, <1>8 DEF Puts
  <1>10. CellsOK(lifted)
    BY <1>1, <1>3, Empty, PutOK DEF cell
  <1> HIDE DEF lifted
  <1>11. CellsOK(cells')
    BY <1>4, <1>7, <1>8, <1>10, PutOK
  <1>12. ASSUME NEW colour \in Colours
         PROVE  Number(cells', colour) = Number(cells, colour)
    <2>1. Number(lifted, colour) = Number(cells, colour) + One("b", colour) - One(cell, colour)
      BY <1>6, PutCounts DEF cell
    <2>2. Number(cells', colour) = Number(lifted, colour) + One(new, colour) - One("b", colour)
      BY <1>7, <1>9, PutCounts
    <2>3. One(new, colour) = One(cell, colour) /\ One("b", colour) = 0 /\ One(cell, colour) \in Int
      BY <1>4, Empty DEF One
    <2>4. Number(cells, colour) \in Nat
      BY NumberType
    <2>5. QED
      BY <2>1, <2>2, <2>3, <2>4
  <1>13. Numbers'
    BY <1>1, <1>12 DEF Numbers, Colours
  <1>14. Typed'
    <2>1. no_kills' \in 0..NoKillLimit /\ turn' \in Player
      BY <1>1, Sizes DEF Typed, Player
    <2>2. QED
      BY <1>1, <1>11, <2>1 DEF Typed
  <1>15. QED
    BY <1>1, <1>13, <1>14 DEF IInv, InSearch

\* A search begins with the board as it is.
LEMMA SearchIInv ==
    ASSUME IInv, Search
    PROVE  IInv'
  <1>1. /\ Typed /\ Numbers /\ CellsOK(cells) /\ turn \in Player /\ stack = <<>>
        /\ before' = [cells |-> cells, n_white |-> n_white, n_black |-> n_black, no_kills |-> no_kills]
        /\ UNCHANGED <<cells, n_white, n_black, no_kills, turn, heap>>
    BY DEF IInv, Typed, Search, Playing, board
  <1>2. PICK origin \in Squares, dest \in Squares :
            /\ cells[origin] \in Own(turn)
            /\ stack' = <<Frame(origin, cells[origin])>> /\ destiny' = dest
    BY DEF Search, Movable
  <1> DEFINE frame == Frame(origin, cells[origin])
  <1>3. frame.at = origin /\ frame.cell = cells[origin] /\ frame \in FrameType
    <2>1. cells[origin] \in Pieces /\ 0 \in 0..NoKillLimit /\ 0 \in 0..4
      BY <1>1, <1>2, Sizes DEF Own, Pieces, Player
    <2>2. QED
      BY <2>1 DEF Frame, FrameType
  <1> HIDE DEF frame
  <1>4. stack' = <<frame>> /\ stack' # <<>> /\ stack' \in Seq(FrameType) /\ Len(stack') = 1 /\ stack'[1] = frame
    BY <1>2, <1>3 DEF frame
  <1>5. Typed'
    BY <1>1, <1>2, <1>4 DEF Typed
  <1>6. Numbers'
    BY <1>1 DEF Numbers
  <1>7. /\ before'.cells = cells /\ before'.n_white = n_white /\ before'.n_black = n_black
        /\ before'.no_kills = no_kills
    BY <1>1
  <1>8. Origin' = origin /\ Active' = {}
    <2>1. 1..(1 - 1) = {}
      OBVIOUS
    <2>2. QED
      BY <1>3, <1>4, <2>1 DEF Origin, Active
  <1>9. BeforeOK'
    BY <1>1, <1>7 DEF BeforeOK, Typed
  <1>10. FramesOK'
    <2>1. Crowned(cells[origin], origin) = cells[origin]
      BY <1>1 DEF CellsOK
    <2>2. FrameOK(1)'
      BY <1>1, <1>2, <1>3, <1>4, <1>7, <1>8, <2>1 DEF FrameOK, SameSide, Free
    <2>3. DOMAIN stack' = {1}
      BY <1>4
    <2>4. Top' = frame
      BY <1>4 DEF Top
    <2>5. QED
      BY <1>1, <1>3, <1>4, <1>7, <1>8, <2>2, <2>3, <2>4 DEF FramesOK
  <1>11. LeftOver'
    BY <1>1, <1>2, <1>7, <1>8 DEF LeftOver, TakenAway, Free
  <1>12. Accounts'
    <2>1. \A colour : Tally(stack', 0, colour) = 0
      <3>1. \A colour : {k \in 1..0 : stack'[k].killed_cell \in colour} = {}
        OBVIOUS
      <3>2. QED
        BY <3>1, FS_EmptySet DEF Tally
    <2>2. Taken(White)' = 0 /\ Taken(Black)' = 0
      <3>1. Len(stack') - 1 = 0
        BY <1>4
      <3>2. QED
        BY <2>1, <3>1 DEF Taken, White, Black
    <2>3. QED
      BY <1>1, <1>4, <1>7, <2>2 DEF Accounts, Typed
  <1>13. QED
    BY <1>5, <1>6, <1>9, <1>10, <1>11, <1>12 DEF IInv, InSearch

\* When the search is over, or the program, the board is as it is.
LEMMA EndIInv ==
    ASSUME IInv, UNCHANGED <<cells, n_white, n_black, no_kills>>, turn' \in Player,
           heap' \in {"sound", "corrupt", "aborted"}, stack' = <<>>, before' = <<>>, destiny' \in Squares \union {Nowhere}
    PROVE  IInv'
  <1>1. <<>> \in Seq(FrameType)
    OBVIOUS
  <1>2. QED
    BY <1>1 DEF IInv, Typed, Numbers, InSearch

\* The search returns, whether it has found the destiny or not.
LEMMA ReturnsIInv ==
    ASSUME IInv, NEW accepted \in BOOLEAN, Returns(accepted)
    PROVE  IInv'
  <1>1. turn \in Player /\ 3 - turn \in Player /\ heap \in {"sound", "corrupt", "aborted"}
    BY DEF IInv, Typed, Player
  <1>2. QED
    BY <1>1, EndIInv DEF Returns, board

\* The program is stopped by the allocator.
LEMMA HeapAbortIInv ==
    ASSUME IInv, HeapAbort
    PROVE  IInv'
  <1>1. turn \in Player
    BY DEF IInv, Typed
  <1>2. QED
    BY <1>1, EndIInv DEF HeapAbort, board

\* A new game begins on a new board.
LEMMA NewGameIInv ==
    ASSUME IInv, NewGame
    PROVE  IInv'
  <1>1. Typed /\ stack = <<>> /\ UNCHANGED <<stack, destiny, before, heap>> /\ turn' \in Player
    BY DEF IInv, NewGame, search
  <1>2. /\ cells' = NewBoard.cells /\ n_white' = NewBoard.n_white /\ n_black' = NewBoard.n_black
        /\ no_kills' = 0 /\ 0 \in 0..NoKillLimit
    BY Sizes DEF NewGame, NewBoard
  <1>3. Typed' /\ Numbers'
    BY <1>1, <1>2, NewBoardOK DEF Typed, Numbers
  <1>4. QED
    BY <1>1, <1>3 DEF IInv, InSearch

-----------------------------------------------------------------------------
(* The steps of a search. *)

\* What the invariant says of the last frame.
LEMMA TopType ==
    ASSUME IInv, stack # <<>>
    PROVE  /\ Len(stack) \in Nat /\ Len(stack) > 0 /\ Top = stack[Len(stack)] /\ Top \in FrameType
           /\ DOMAIN stack = 1..Len(stack) /\ Origin \in Squares
           /\ BeforeOK /\ FramesOK /\ LeftOver /\ Accounts /\ Typed /\ Numbers
           /\ cells \in [Squares -> Cell] /\ before.cells \in [Squares -> Cell]
  <1>1. stack \in Seq(FrameType) /\ Typed /\ Numbers /\ InSearch
    BY DEF IInv, Typed
  <1>2. Len(stack) \in Nat /\ Len(stack) > 0 /\ DOMAIN stack = 1..Len(stack)
    BY <1>1
  <1>3. Top \in FrameType /\ stack[1] \in FrameType
    BY <1>1, <1>2 DEF Top
  <1>4. Origin \in Squares
    BY <1>3 DEF Origin, FrameType
  <1>5. QED
    BY <1>1, <1>2, <1>3, <1>4 DEF InSearch, Top, Typed, BeforeOK, CellsOK

\* A capture: the piece stands where its frame is, and lands on a free square.
LEMMA DoIInv ==
    ASSUME IInv, Do
    PROVE  IInv'
  <1> DEFINE dir == Min(Untried(Top))
             n == Len(stack)
             at == Top.at
             cell == Top.cell
             killed == Beyond(at, dir, 1)
             landing == Beyond(at, dir, 2)
             killed_cell == cells[killed]
             frame == [Top EXCEPT !.dir = dir, !.prev_no_kills = no_kills, !.killed_cell = killed_cell]
             new_cell == Crowned(cell, landing)
             new == Frame(landing, new_cell)
  <1>1. /\ stack # <<>> /\ Untried(Top) # {}
        /\ UNCHANGED <<turn, destiny, before, heap>> /\ no_kills' = 0
    BY DEF Do, Searching
  <1>2. /\ frame.at = Top.at /\ Killed(frame) = killed /\ Landing(frame) = landing /\ frame.killed_cell = killed_cell
        /\ frame.dir = dir /\ frame.prev_no_kills = no_kills /\ frame.cell = cell
    <2>1. Top \in FrameType
      BY <1>1, TopType
    <2>2. /\ frame.at = Top.at /\ frame.dir = dir /\ frame.prev_no_kills = no_kills /\ frame.cell = cell
          /\ frame.killed_cell = killed_cell
      BY <2>1 DEF FrameType
    <2> HIDE DEF frame
    <2>3. QED
      BY <2>2 DEF Killed, Landing
  <1>3. /\ cells' = [cells EXCEPT ![at] = "b", ![killed] = "b", ![landing] = new_cell]
        /\ n_black' = Counted(n_black, Black, killed_cell, -1)
        /\ n_white' = Counted(n_white, White, killed_cell, -1)
        /\ stack' = [stack EXCEPT ![Len(stack)] = frame] \o <<new>>
    BY <1>2 DEF Do
  <1>4. dir \in 1..4 /\ landing \in Squares /\ cells[landing] = "b" /\ killed_cell # "b"
    <2>1. Top.dir \in 0..4
      BY <1>1, TopType DEF FrameType
    <2>2. \A d \in (Top.dir + 1)..4 : d \in 1..4
      BY <2>1
    <2>3. Untried(Top) \in SUBSET (1..4)
      BY <2>2 DEF Untried
    <2>4. dir \in Untried(Top)
      BY <1>1, <2>3, MinDir
    <2>5. is_valid(at, cell, dir)
      BY <2>4 DEF Untried
    <2>6. QED
      BY <2>3, <2>4, <2>5 DEF is_valid, is_empty
  <1>5. at \in Squares /\ cell \in Pieces /\ n \in Nat /\ n > 0 /\ cells[at] = cell /\ Top = stack[n]
    BY <1>1, TopType DEF FrameType, FramesOK
  <1> HIDE DEF dir, n, at, cell, killed, landing
  <1>6. /\ killed \in Squares /\ killed # at /\ landing # at /\ killed # landing
        /\ killed[1] % 2 # at[1] % 2 /\ landing[1] % 2 = at[1] % 2
        /\ dark(killed) <=> dark(at)
    BY <1>4, <1>5, Capture DEF killed, landing
  <1>7. cell \in Own(turn) /\ SameSide(at) /\ Free(at) /\ turn \in Player
    <2>1. FrameOK(n)
      BY <1>1, <1>5, TopType DEF FramesOK, n
    <2>2. QED
      BY <1>1, <1>5, <2>1, TopType DEF FrameOK, Typed, at, cell
  <1>8. SameSide(landing) /\ ~ SameSide(killed) /\ Free(landing)
    <2>1. SameSide(landing) /\ ~ SameSide(killed)
      BY <1>6, <1>7 DEF SameSide
    <2>2. QED
      BY <1>1, <1>4, <2>1, TopType DEF LeftOver, Free
  <1>9. killed_cell \in Pieces /\ killed_cell = before.cells[killed] /\ ~ TakenAway(killed)
    <2>1. killed_cell \in Cell /\ (dark(killed) <=> killed_cell # "n") /\ (dark(at) <=> cells[at] # "n")
      BY <1>1, <1>5, <1>6, TopType DEF Typed, CellsOK
    <2>2. cells[at] # "n"
      BY <1>5 DEF Pieces, Black, White
    <2>3. killed_cell \in Pieces
      BY <1>4, <1>6, <2>1, <2>2 DEF Cell
    <2>4. killed_cell = IF TakenAway(killed) THEN "b" ELSE before.cells[killed]
      BY <1>1, <1>6, <1>8, TopType DEF LeftOver
    <2>5. QED
      BY <1>4, <2>3, <2>4
  <1>10. /\ new_cell \in Pieces /\ Crowned(new_cell, landing) = new_cell /\ new_cell \in Own(turn)
         /\ \A colour \in Colours : One(new_cell, colour) = One(cell, colour)
    BY <1>5, <1>7, CrownedType
  <1>11. no_kills \in 0..NoKillLimit /\ 0 \in 0..NoKillLimit /\ n_white \in Int /\ n_black \in Int
    BY <1>1, Sizes, TopType DEF Typed
  <1>12. frame \in FrameType /\ new \in FrameType
    <2>1. Top \in FrameType /\ dir \in 0..4 /\ 0 \in 0..4
      BY <1>1, <1>4, TopType
    <2>2. frame \in FrameType
      BY <1>9, <1>11, <2>1 DEF FrameType
    <2>3. new \in FrameType
      BY <1>4, <1>10, <1>11, <2>1 DEF FrameType, Frame
    <2>4. QED
      BY <2>2, <2>3
  <1>13. new.at = landing /\ new.cell = new_cell
    BY DEF Frame
  <1> HIDE DEF frame, new, new_cell, killed_cell
  <1>14. /\ stack' \in Seq(FrameType) /\ Len(stack') = n + 1 /\ stack'[n + 1] = new /\ stack'[n] = frame
         /\ \A k \in 1..(n - 1) : stack'[k] = stack[k]
    <2>1. stack \in Seq(FrameType)
      BY <1>1, TopType DEF Typed
    <2>2. QED
      BY <1>1, <1>3, <1>12, <2>1, Pushed DEF n
  <1> DEFINE f == [cells EXCEPT ![at] = "b"]
             g == [f EXCEPT ![killed] = "b"]
  <1>15. /\ cells \in [Squares -> Cell] /\ f \in [Squares -> Cell] /\ g \in [Squares -> Cell]
         /\ f[killed] = killed_cell /\ g[landing] = "b"
    <2>1. cells \in [Squares -> Cell] /\ "b" \in Cell
      BY <1>1, TopType DEF Cell
    <2>2. QED
      BY <1>4, <1>6, <2>1 DEF killed_cell
  <1>16. /\ cells' = [g EXCEPT ![landing] = new_cell]
         /\ Puts(f, cells, at, "b") /\ Puts(g, f, killed, "b") /\ Puts(cells', g, landing, new_cell)
    <2>1. cells' = [g EXCEPT ![landing] = new_cell]
      BY <1>3, <1>15
    <2>2. Puts(f, cells, at, "b")
      BY <1>5, <1>15 DEF Puts
    <2>3. Puts(g, f, killed, "b")
      BY <1>6, <1>15 DEF Puts
    <2> HIDE DEF g
    <2>4. Puts(cells', g, landing, new_cell)
      BY <1>4, <1>15, <2>1 DEF Puts
    <2>5. QED
      BY <2>1, <2>2, <2>3, <2>4
  <1>17. CellsOK(cells')
    <2>1. CellsOK(cells) /\ cells[at] # "n" /\ f[killed] # "n" /\ g[landing] # "n"
      BY <1>1, <1>5, <1>9, <1>15, TopType DEF Typed, Pieces, Black, White
    <2>2. CellsOK(f)
      BY <1>5, <2>1, Empty, PutOK
    <2> HIDE DEF f
    <2>3. CellsOK(g)
      BY <1>6, <2>1, <2>2, Empty, PutOK
    <2> HIDE DEF g
    <2>4. QED
      BY <1>4, <1>10, <1>16, <2>1, <2>3, PutOK
  <1> HIDE DEF f, g
  <1>18. \A s \in Squares : cells'[s] = IF s = landing THEN new_cell ELSE IF s = killed \/ s = at THEN "b" ELSE cells[s]
    BY <1>6, <1>16 DEF Puts
  <1>19. ASSUME NEW colour \in Colours
         PROVE  Number(cells', colour) = Number(cells, colour) - One(killed_cell, colour)
    <2>1. Number(f, colour) = Number(cells, colour) + One("b", colour) - One(cell, colour)
      BY <1>5, <1>16, PutCounts
    <2>2. Number(g, colour) = Number(f, colour) + One("b", colour) - One(killed_cell, colour)
      BY <1>6, <1>15, <1>16, PutCounts
    <2>3. Number(cells', colour) = Number(g, colour) + One(new_cell, colour) - One("b", colour)
      BY <1>4, <1>15, <1>16, PutCounts
    <2>4. /\ One(new_cell, colour) = One(cell, colour) /\ One("b", colour) = 0
          /\ One(cell, colour) \in Int /\ One(killed_cell, colour) \in Int
      BY <1>10, Empty DEF One
    <2>5. Number(cells, colour) \in Nat
      BY NumberType
    <2>6. QED
      BY <2>1, <2>2, <2>3, <2>4, <2>5
  <1>20. /\ n_white' = n_white - One(killed_cell, White) /\ n_black' = n_black - One(killed_cell, Black)
         /\ \A colour : One(killed_cell, colour) \in Int
    BY <1>3, <1>11 DEF Counted, One
  <1>21. Numbers'
    <2>1. \A colour \in Colours : Number(cells, colour) \in Nat
      BY NumberType
    <2>2. n_white <= Number(cells, White) /\ n_black <= Number(cells, Black) /\ White \in Colours /\ Black \in Colours
      BY <1>1, TopType DEF Numbers, Colours
    <2>3. n_white' <= Number(cells', White) /\ n_black' <= Number(cells', Black)
      BY <1>11, <1>19, <1>20, <2>1, <2>2
    <2>4. QED
      BY <2>3 DEF Numbers, White, Black
  <1>22. Typed'
    <2>1. n_white' \in Int /\ n_black' \in Int
      BY <1>11, <1>20
    <2>2. stack' # <<>>
      <3>1. Len(<<>>) = 0
        OBVIOUS
      <3>2. QED
        BY <1>5, <1>14, <3>1
    <2>3. QED
      BY <1>1, <1>11, <1>14, <1>17, <2>1, <2>2, TopType DEF Typed
  <1>23. /\ Origin' = Origin /\ Active' = 1..n
         /\ \A k \in 1..n : k = n \/ k \in 1..(n - 1)
         /\ n \notin 1..(n - 1)
    <2>1. Len(stack') - 1 = n
      BY <1>5, <1>14
    <2>2. stack'[1].at = stack[1].at
      <3>1. CASE n = 1
        BY <1>2, <1>5, <1>14, <3>1
      <3>2. CASE n # 1
        BY <1>5, <1>14, <3>2
      <3>3. QED
        BY <3>1, <3>2
    <2>3. QED
      BY <1>5, <2>1, <2>2 DEF Origin, Active
  <1>24. FramesOK'
    <2>1. stack'[1].cell = before'.cells[Origin']
      <3>1. stack[1].cell = before.cells[Origin]
        BY <1>1, TopType DEF FramesOK
      <3>2. stack'[1].cell = stack[1].cell
        <4>1. CASE n = 1
          BY <1>2, <1>5, <1>14, <4>1 DEF cell
        <4>2. CASE n # 1
          BY <1>5, <1>14, <4>2
        <4>3. QED
          BY <4>1, <4>2
      <3>3. QED
        BY <1>1, <1>23, <3>1, <3>2
    <2>2. Top' = new /\ cells'[new.at] = new.cell
      BY <1>4, <1>13, <1>14, <1>18 DEF Top
    <2>3. ASSUME NEW k \in DOMAIN stack'
          PROVE  FrameOK(k)'
      <3>1. k \in 1..(n - 1) \/ k = n \/ k = n + 1
        BY <1>5, <1>14
      <3>2. CASE k \in 1..(n - 1)
        <4>1. FrameOK(k) /\ stack'[k] = stack[k]
          BY <1>1, <1>5, <1>14, <3>2, TopType DEF FramesOK, n
        <4>2. QED
          BY <1>1, <1>23, <4>1 DEF FrameOK, SameSide, Free
      <3>3. CASE k = n
        <4>1. FrameOK(n) /\ stack'[n].at = stack[n].at /\ stack'[n].cell = stack[n].cell
          BY <1>1, <1>2, <1>5, <1>14, TopType DEF FramesOK, n, at, cell
        <4>2. QED
          BY <1>1, <1>23, <3>3, <4>1 DEF FrameOK, SameSide, Free
      <3>4. CASE k = n + 1
        BY <1>1, <1>8, <1>10, <1>13, <1>14, <1>23, <3>4 DEF FrameOK, SameSide, Free
      <3>5. QED
        BY <3>1, <3>2, <3>3, <3>4
    <2>4. ASSUME NEW k \in 1..(n - 1)
          PROVE  ActiveOK(k) /\ stack'[k] = stack[k] /\ Killed(stack[k]) # killed
      <3>1. k \in Active
        BY DEF Active, n
      <3>2. QED
        BY <1>1, <1>9, <1>14, <3>1, TopType DEF FramesOK, TakenAway
    <2>5. ASSUME NEW k \in Active'
          PROVE  ActiveOK(k)'
      <3>1. CASE k = n
        <4>1. no_kills = IF n = 1 THEN before.no_kills ELSE 0
          BY <1>1, TopType DEF Accounts, n
        <4>2. QED
          BY <1>1, <1>2, <1>4, <1>9, <1>14, <3>1, <4>1 DEF ActiveOK
      <3>2. CASE k \in 1..(n - 1)
        BY <1>1, <2>4, <3>2 DEF ActiveOK
      <3>3. QED
        BY <1>23, <3>1, <3>2
    <2>6. ASSUME NEW j \in Active', NEW k \in Active', Killed(stack'[j]) = Killed(stack'[k])
          PROVE  j = k
      <3>1. \A i \in 1..(n - 1) : stack'[i] = stack[i] /\ i \in Active /\ Killed(stack'[i]) # killed
        BY <2>4 DEF Active, n
      <3>2. Killed(stack'[n]) = killed
        BY <1>2, <1>14
      <3>3. \A i, l \in Active : Killed(stack[i]) = Killed(stack[l]) => i = l
        BY <1>1, TopType DEF FramesOK
      <3>4. QED
        BY <1>23, <2>6, <3>1, <3>2, <3>3
    <2>7. QED
      BY <2>1, <2>2, <2>3, <2>5, <2>6 DEF FramesOK, Killed, Beyond, Dirs
  <1>25. LeftOver'
    <2> SUFFICES ASSUME NEW s \in Squares
                 PROVE  /\ ~ SameSide(s) => cells'[s] = IF TakenAway(s)' THEN "b" ELSE before.cells[s]
                        /\ SameSide(s) /\ Free(s) => cells'[s] \in Own(turn) \union {"b"}
                        /\ SameSide(s) /\ ~ Free(s) => cells'[s] = before.cells[s]
      BY <1>1, <1>23 DEF LeftOver, SameSide, Free, Squares, Rows, Own, White, Black
    <2>1. /\ ~ SameSide(s) => cells[s] = IF TakenAway(s) THEN "b" ELSE before.cells[s]
          /\ SameSide(s) /\ Free(s) => cells[s] \in Own(turn) \union {"b"}
          /\ SameSide(s) /\ ~ Free(s) => cells[s] = before.cells[s]
      BY <1>1, TopType DEF LeftOver
    <2>2. TakenAway(s)' <=> (TakenAway(s) \/ s = killed)
      <3>1. TakenAway(s)' <=> \E k \in 1..n : s = Killed(stack'[k])
        BY <1>23 DEF TakenAway, Killed, Beyond, Dirs
      <3>2. TakenAway(s) <=> \E k \in 1..(n - 1) : s = Killed(stack[k])
        BY DEF TakenAway, Active, n
      <3>3. n \in 1..n /\ \A k \in 1..(n - 1) : k \in 1..n
        BY <1>5
      <3>4. Killed(stack'[n]) = killed
        BY <1>2, <1>14
      <3>5. QED
        BY <1>14, <1>23, <3>1, <3>2, <3>3, <3>4
    <2>3. QED
      BY <1>7, <1>8, <1>10, <1>18, <2>1, <2>2
  <1>26. Accounts'
    <2>1. ASSUME NEW colour
          PROVE  Tally(stack', n, colour) = Tally(stack, n - 1, colour) + One(killed_cell, colour)
                 /\ Tally(stack, n - 1, colour) \in Nat
      <3>1. n - 1 \in Nat /\ (n - 1) + 1 = n
        BY <1>5
      <3>2. Tally(stack', n - 1, colour) = Tally(stack, n - 1, colour)
        BY <1>14, TallySame
      <3>3. QED
        BY <1>2, <1>14, <3>1, <3>2, TallyNext
    <2>2. Len(stack') - 1 = n /\ Len(stack') # 1
      BY <1>5, <1>14
    <2>3. /\ n_white = before.n_white - Tally(stack, n - 1, White)
          /\ n_black = before.n_black - Tally(stack, n - 1, Black)
          /\ before.n_white \in Int /\ before.n_black \in Int
      BY <1>1, TopType DEF Accounts, Taken, n, BeforeOK
    <2>4. /\ n_white' = before.n_white - Tally(stack', n, White)
          /\ n_black' = before.n_black - Tally(stack', n, Black)
      BY <1>20, <2>1, <2>3
    <2>5. QED
      BY <1>1, <2>2, <2>4 DEF Accounts, Taken, White, Black
  <1>27. BeforeOK'
    BY <1>1, TopType DEF BeforeOK
  <1>28. QED
    BY <1>21, <1>22, <1>24, <1>25, <1>26, <1>27 DEF IInv, InSearch

\* A capture undone: both pieces are back, and what the moving one had landed on
\* stays as it is.
LEMMA UndoIInv ==
    ASSUME IInv, Undo
    PROVE  IInv'
  <1> DEFINE n == Len(stack) - 1
             frame == stack[n]
             at == frame.at
             cell == frame.cell
             killed == Killed(frame)
             killed_cell == frame.killed_cell
  <1>1. /\ stack # <<>> /\ Len(stack) > 1
        /\ cells' = [cells EXCEPT ![at] = cell, ![killed] = killed_cell]
        /\ n_black' = Counted(n_black, Black, killed_cell, 1)
        /\ n_white' = Counted(n_white, White, killed_cell, 1)
        /\ no_kills' = frame.prev_no_kills /\ stack' = SubSeq(stack, 1, Len(stack) - 1) /\ heap' = "corrupt"
        /\ UNCHANGED <<turn, destiny, before>>
    BY DEF Undo, Searching, PutBack
  <1>2. n \in Nat /\ n > 0 /\ Len(stack) = n + 1 /\ n \in Active /\ n \in DOMAIN stack /\ n - 1 \in Nat
    BY <1>1, TopType DEF Active
  <1>3. frame \in FrameType
    <2>1. stack \in Seq(FrameType)
      BY <1>1, TopType DEF Typed
    <2>2. QED
      BY <1>2, <2>1
  <1>4. at \in Squares /\ cell \in Pieces /\ frame.prev_no_kills \in 0..NoKillLimit
    BY <1>3 DEF FrameType
  <1>5. FrameOK(n) /\ ActiveOK(n)
    BY <1>1, <1>2, TopType DEF FramesOK
  <1>6. /\ cell \in Own(turn) /\ Crowned(cell, at) = cell /\ SameSide(at) /\ Free(at)
        /\ frame.dir \in 1..4 /\ Landing(frame) \in Squares
        /\ killed_cell = before.cells[killed] /\ killed_cell \in Pieces
        /\ frame.prev_no_kills = IF n = 1 THEN before.no_kills ELSE 0
    BY <1>5 DEF FrameOK, ActiveOK
  <1> HIDE DEF n, frame, at, cell, killed, killed_cell
  <1>7. killed \in Squares /\ killed # at /\ ~ SameSide(killed)
    <2>1. killed = Beyond(at, frame.dir, 1) /\ Beyond(at, frame.dir, 2) \in Squares
      BY <1>6 DEF killed, at, Killed, Landing
    <2>2. QED
      BY <1>4, <1>6, <2>1, Capture DEF SameSide
  <1>8. cells[killed] = "b" /\ cells[at] \in Own(turn) \union {"b"} /\ turn \in Player
    <2>1. TakenAway(killed)
      BY <1>2 DEF TakenAway, killed, frame
    <2>2. QED
      BY <1>1, <1>4, <1>6, <1>7, <2>1, TopType DEF LeftOver, Typed
  <1>9. cells[at] # "n" /\ cells[killed] # "n" /\ CellsOK(cells) /\ cells \in [Squares -> Cell]
    BY <1>1, <1>8, TopType DEF Own, Black, White, Player, Typed
  <1> DEFINE f == [cells EXCEPT ![at] = cell]
  <1>10. /\ cells' = [f EXCEPT ![killed] = killed_cell] /\ f[killed] = "b"
         /\ Puts(f, cells, at, cell) /\ Puts(cells', f, killed, killed_cell)
    <2>1. cells' = [f EXCEPT ![killed] = killed_cell]
      BY <1>1, <1>9
    <2>2. Puts(f, cells, at, cell) /\ f[killed] = "b" /\ DOMAIN f = Squares
      BY <1>4, <1>7, <1>8, <1>9 DEF Puts
    <2> HIDE DEF f
    <2>3. Puts(cells', f, killed, killed_cell)
      BY <1>7, <2>1, <2>2 DEF Puts
    <2>4. QED
      BY <2>1, <2>2, <2>3
  <1>11. CellsOK(cells')
    <2>1. CellsOK(f)
      BY <1>4, <1>6, <1>9, PutOK
    <2>2. Crowned(killed_cell, killed) = killed_cell
      BY <1>1, <1>6, <1>7, TopType DEF BeforeOK, CellsOK
    <2> HIDE DEF f
    <2>3. QED
      BY <1>6, <1>7, <1>10, <2>1, <2>2, PutOK
  <1> HIDE DEF f
  <1>12. \A s \in Squares : cells'[s] = IF s = killed THEN killed_cell ELSE IF s = at THEN cell ELSE cells[s]
    BY <1>10 DEF Puts
  <1>13. /\ n_white' = n_white + One(killed_cell, White) /\ n_black' = n_black + One(killed_cell, Black)
         /\ \A colour : One(killed_cell, colour) \in Int
         /\ n_white \in Int /\ n_black \in Int
    BY <1>1, TopType DEF Counted, One, Typed
  <1>14. ASSUME NEW colour \in Colours
         PROVE  Number(cells', colour) >= Number(cells, colour) + One(killed_cell, colour)
    <2>1. Number(f, colour) = Number(cells, colour) + One(cell, colour) - One(cells[at], colour)
      BY <1>4, <1>10, PutCounts
    <2>2. Number(cells', colour) = Number(f, colour) + One(killed_cell, colour) - One("b", colour)
      BY <1>7, <1>10, PutCounts
    <2>3. One(cells[at], colour) <= One(cell, colour) /\ One(cells[at], colour) \in Int /\ One(cell, colour) \in Int
      BY <1>6, <1>8 DEF Own, Player, One, Colours, Black, White
    <2>4. One("b", colour) = 0
      BY Empty
    <2>5. Number(cells, colour) \in Nat
      BY NumberType
    <2>6. QED
      BY <1>13, <2>1, <2>2, <2>3, <2>4, <2>5
  <1>15. Numbers'
    <2>1. \A colour \in Colours : Number(cells, colour) \in Nat /\ Number(cells', colour) \in Nat
      BY NumberType
    <2>2. n_white <= Number(cells, White) /\ n_black <= Number(cells, Black) /\ White \in Colours /\ Black \in Colours
      BY <1>1, TopType DEF Numbers, Colours
    <2>3. n_white' <= Number(cells', White) /\ n_black' <= Number(cells', Black)
      BY <1>13, <1>14, <2>1, <2>2
    <2>4. QED
      BY <2>3 DEF Numbers, White, Black
  <1>16. /\ stack' \in Seq(FrameType) /\ Len(stack') = n /\ stack' # <<>>
         /\ \A k \in 1..n : stack'[k] = stack[k]
    <2>1. stack \in Seq(FrameType)
      BY <1>1, TopType DEF Typed
    <2>2. QED
      BY <1>1, <2>1, Popped DEF n
  <1>17. Typed'
    BY <1>1, <1>4, <1>11, <1>13, <1>16, TopType DEF Typed
  <1>18. Origin' = Origin /\ Active' = 1..(n - 1) /\ Active = 1..n
    BY <1>2, <1>16 DEF Origin, Active, n
  <1>19. \A k \in 1..(n - 1) : k \in 1..n /\ k \in Active /\ k # n
    BY <1>2, <1>18
  <1>20. FramesOK'
    <2>1. stack'[1].cell = before'.cells[Origin']
      BY <1>1, <1>2, <1>16, <1>18, TopType DEF FramesOK
    <2>2. Top' = frame /\ cells'[frame.at] = frame.cell
      BY <1>2, <1>4, <1>7, <1>12, <1>16 DEF Top, frame, at, cell
    <2>3. ASSUME NEW k \in DOMAIN stack'
          PROVE  FrameOK(k)'
      <3>1. k \in 1..n /\ k \in DOMAIN stack
        BY <1>1, <1>2, <1>16, TopType
      <3>2. FrameOK(k) /\ stack'[k] = stack[k]
        BY <1>1, <1>16, <3>1, TopType DEF FramesOK
      <3>3. QED
        BY <1>1, <1>18, <3>2 DEF FrameOK, SameSide, Free
    <2>4. ASSUME NEW k \in Active'
          PROVE  ActiveOK(k)'
      <3>1. ActiveOK(k) /\ stack'[k] = stack[k]
        BY <1>1, <1>16, <1>18, <1>19, TopType DEF FramesOK
      <3>2. QED
        BY <1>1, <3>1 DEF ActiveOK
    <2>5. ASSUME NEW j \in Active', NEW k \in Active', Killed(stack'[j]) = Killed(stack'[k])
          PROVE  j = k
      BY <1>1, <1>16, <1>18, <1>19, <2>5, TopType DEF FramesOK
    <2>6. QED
      BY <2>1, <2>2, <2>3, <2>4, <2>5 DEF FramesOK, Killed, Beyond, Dirs
  <1>21. LeftOver'
    <2> SUFFICES ASSUME NEW s \in Squares
                 PROVE  /\ ~ SameSide(s) => cells'[s] = IF TakenAway(s)' THEN "b" ELSE before.cells[s]
                        /\ SameSide(s) /\ Free(s) => cells'[s] \in Own(turn) \union {"b"}
                        /\ SameSide(s) /\ ~ Free(s) => cells'[s] = before.cells[s]
      BY <1>1, <1>18 DEF LeftOver, SameSide, Free, Squares, Rows, Own, White, Black
    <2>1. /\ ~ SameSide(s) => cells[s] = IF TakenAway(s) THEN "b" ELSE before.cells[s]
          /\ SameSide(s) /\ Free(s) => cells[s] \in Own(turn) \union {"b"}
          /\ SameSide(s) /\ ~ Free(s) => cells[s] = before.cells[s]
      BY <1>1, TopType DEF LeftOver
    <2>2. TakenAway(s)' <=> (TakenAway(s) /\ s # killed)
      <3>1. TakenAway(s)' <=> \E k \in 1..(n - 1) : s = Killed(stack[k])
        BY <1>16, <1>18, <1>19 DEF TakenAway, Killed, Beyond, Dirs
      <3>2. \A k \in 1..(n - 1) : Killed(stack[k]) # killed
        BY <1>1, <1>2, <1>19, TopType DEF FramesOK, killed, frame
      <3>3. \A k \in 1..n : k = n \/ k \in 1..(n - 1)
        BY <1>2
      <3>4. QED
        BY <1>18, <1>19, <3>1, <3>2, <3>3 DEF TakenAway, killed, frame
    <2>3. QED
      BY <1>6, <1>7, <1>12, <2>1, <2>2
  <1>22. Accounts'
    <2>1. ASSUME NEW colour
          PROVE  Tally(stack, n, colour) = Tally(stack', n - 1, colour) + One(killed_cell, colour)
                 /\ Tally(stack', n - 1, colour) \in Nat
      <3>1. (n - 1) + 1 = n
        BY <1>2
      <3>2. Tally(stack', n - 1, colour) = Tally(stack, n - 1, colour)
        BY <1>16, <1>19, TallySame
      <3>3. QED
        BY <1>2, <3>1, <3>2, TallyNext DEF killed_cell, frame
    <2>2. /\ n_white = before.n_white - Tally(stack, n, White)
          /\ n_black = before.n_black - Tally(stack, n, Black)
          /\ before.n_white \in Int /\ before.n_black \in Int
      BY <1>1, TopType DEF Accounts, Taken, n, BeforeOK
    <2>3. /\ n_white' = before.n_white - Tally(stack', n - 1, White)
          /\ n_black' = before.n_black - Tally(stack', n - 1, Black)
      BY <1>13, <2>1, <2>2
    <2>4. QED
      BY <1>1, <1>6, <1>16, <2>3 DEF Accounts, Taken, White, Black
  <1>23. BeforeOK'
    BY <1>1, TopType DEF BeforeOK
  <1>24. QED
    BY <1>15, <1>17, <1>20, <1>21, <1>22, <1>23 DEF IInv, InSearch

-----------------------------------------------------------------------------
(* The theorems. *)

\* Every step keeps the invariant.
LEMMA NextIInv == IInv /\ [Next]_vars => IInv'
  <1> SUFFICES ASSUME IInv, [Next]_vars PROVE IInv'
    OBVIOUS
  <1>1. CASE Found
    BY <1>1, ReturnsIInv DEF Found
  <1>2. CASE Exhausted
    BY <1>2, ReturnsIInv DEF Exhausted
  <1>3. CASE UNCHANGED vars
    <2>1. UNCHANGED <<cells, n_white, n_black, no_kills, turn, stack, destiny, before, heap>>
      BY <1>3 DEF vars, board, search
    <2>2. Typed' /\ Numbers'
      BY <2>1 DEF IInv, Typed, Numbers
    <2>3. BeforeOK => BeforeOK'
      BY <2>1 DEF BeforeOK
    <2>4. FramesOK => FramesOK'
      BY <2>1 DEF FramesOK, FrameOK, ActiveOK, SameSide, Free, Origin, Active, Top
    <2>5. LeftOver => LeftOver'
      BY <2>1 DEF LeftOver, TakenAway, SameSide, Free, Origin, Active
    <2>6. Accounts => Accounts'
      BY <2>1 DEF Accounts, Taken
    <2>7. QED
      BY <2>1, <2>2, <2>3, <2>4, <2>5, <2>6 DEF IInv, InSearch
  <1>4. CASE Reject
    <2>1. UNCHANGED vars
      BY <1>4 DEF Reject
    <2>2. QED
      BY <1>3, <2>1
  <1>5. QED
    BY <1>1, <1>2, <1>3, <1>4, StepIInv, SearchIInv, DoIInv, UndoIInv, HeapAbortIInv, NewGameIInv DEF Next

\* The invariant holds in every state of every execution.
THEOREM Inductive == Spec => []IInv
  <1>1. Init => IInv
    BY InitIInv
  <1>2. IInv /\ [Next]_vars => IInv'
    BY NextIInv
  <1>3. QED
    BY <1>1, <1>2, PTL DEF Spec

\* The board holds pieces on dark squares only, and a search stays on it: no
\* capture is tried outside.
THEOREM TypeCorrect == Spec => []TypeOK
  <1>1. IInv => TypeOK
    <2> SUFFICES ASSUME IInv PROVE TypeOK
      OBVIOUS
    <2>1. Typed /\ CellsOK(cells)
      BY DEF IInv, Typed
    <2>2. \A k \in DOMAIN stack : stack[k].at \in Squares /\ stack[k].cell \in Pieces /\ stack[k].dir \in 0..4
      <3>1. \A k \in DOMAIN stack : stack[k] \in FrameType
        BY <2>1 DEF Typed
      <3>2. QED
        BY <3>1 DEF FrameType
    <2>3. \A s \in Squares : dark(s) = (cells[s] # "n")
      BY <2>1 DEF CellsOK, dark
    <2>4. QED
      BY <2>1, <2>2, <2>3 DEF TypeOK, Typed, CellsOK, Cell
  <1>2. QED
    BY <1>1, Inductive, PTL

\* The counters never exceed the pieces: the game cannot go on against a player
\* who has none left.
THEOREM CountsAreThere == Spec => []CountedAreThere
  <1>1. IInv => CountedAreThere
    BY DEF IInv, Numbers, Number, CountedAreThere, On
  <1>2. QED
    BY <1>1, Inductive, PTL

\* No man stands on the row where it is to be crowned, whatever was moved,
\* captured, undone or left behind.
THEOREM MenAreCrowned == Spec => []LastRowCrowned
  <1>1. IInv => LastRowCrowned
    <2> SUFFICES ASSUME IInv, NEW k \in Rows
                 PROVE  cells[<<Size - 1, k>>] # "x" /\ cells[<<0, k>>] # "o"
      BY DEF LastRowCrowned
    <2>1. CellsOK(cells)
      BY DEF IInv, Typed
    <2>2. <<Size - 1, k>> \in Squares /\ <<0, k>> \in Squares
      BY Sizes DEF Squares, Rows
    <2>3. /\ Crowned(cells[<<Size - 1, k>>], <<Size - 1, k>>) = cells[<<Size - 1, k>>]
          /\ Crowned(cells[<<0, k>>], <<0, k>>) = cells[<<0, k>>]
      BY <2>1, <2>2 DEF CellsOK
    <2>4. \A cell : /\ cell = "x" => Crowned(cell, <<Size - 1, k>>) = "X"
                    /\ cell = "o" => Crowned(cell, <<0, k>>) = "O"
      BY DEF Crowned
    <2>5. QED
      BY <2>3, <2>4
  <1>2. QED
    BY <1>1, Inductive, PTL

\* What a search leaves behind when its call ends.
LEMMA EndOfCall ==
    ASSUME IInv, [Next]_vars, CallEnds
    PROVE  /\ stack # <<>> /\ UNCHANGED <<cells, n_white, n_black, no_kills>>
           /\ turn' # turn \/ Len(stack) = 1
  <1>1. stack # <<>> /\ before' # before /\ heap' # "aborted"
    BY DEF IInv, Typed, CallEnds
  <1>2. Found \/ Exhausted
    <2>1. ~ (Reject \/ Step \/ Search \/ Do \/ Undo \/ NewGame \/ UNCHANGED vars)
      BY <1>1 DEF Reject, Step, Search, Do, Undo, NewGame, Playing, vars, search
    <2>2. ~ HeapAbort
      BY <1>1 DEF HeapAbort
    <2>3. QED
      BY <2>1, <2>2 DEF Next
  <1>3. turn \in Player
    BY DEF IInv, Typed
  <1>4. CASE Found
    BY <1>1, <1>3, <1>4 DEF Found, Returns, board, Player
  <1>5. CASE Exhausted
    BY <1>1, <1>5 DEF Exhausted, Returns, board
  <1>6. QED
    BY <1>2, <1>4, <1>5

\* A rejected move costs nobody a piece, and leaves the counters as they were.
THEOREM RejectedMoves == Spec => RejectedKeepsPieces
  <1> DEFINE Kept ==
        (CallEnds /\ turn' = turn) =>
          /\ <<n_white, n_black, no_kills>>' = <<before.n_white, before.n_black, before.no_kills>>
          /\ \A s \in Squares : before.cells[s] # "b" => cells'[s] = before.cells[s]
  <1>1. IInv /\ [Next]_vars => Kept
    <2> SUFFICES ASSUME IInv, [Next]_vars, CallEnds, turn' = turn PROVE Kept
      OBVIOUS
    <2>1. stack # <<>> /\ UNCHANGED <<cells, n_white, n_black, no_kills>> /\ Len(stack) = 1
      BY EndOfCall
    <2>2. BeforeOK /\ FramesOK /\ LeftOver /\ Accounts
      BY <2>1, TopType
    <2>3. Active = {}
      <3>1. 1..(1 - 1) = {}
        OBVIOUS
      <3>2. QED
        BY <2>1, <3>1 DEF Active
    <2>4. no_kills = before.no_kills /\ n_white = before.n_white /\ n_black = before.n_black
      <3>1. \A colour : Taken(colour) = 0
        <4>1. \A colour : {k \in Active : stack[k].killed_cell \in colour} = {}
          BY <2>3
        <4>2. QED
          BY <4>1, FS_EmptySet DEF Taken, Tally, Active
      <3>2. QED
        BY <2>1, <2>2, <3>1 DEF Accounts, BeforeOK
    <2>5. ASSUME NEW s \in Squares, before.cells[s] # "b"
          PROVE  cells[s] = before.cells[s]
      <3>1. CASE s = Origin
        BY <2>1, <2>2, <3>1 DEF FramesOK, Top, Origin
      <3>2. CASE s # Origin
        BY <2>2, <2>3, <2>5, <3>2 DEF LeftOver, TakenAway, Free
      <3>3. QED
        BY <3>1, <3>2
    <2>6. QED
      BY <2>1, <2>4, <2>5
  <1>2. QED
    BY <1>1, Inductive, PTL DEF Spec, RejectedKeepsPieces

\* The search does nothing to the other player but take pieces away.
THEOREM OpponentIsSafe == Spec => OpponentOnlyLoses
  <1> DEFINE Safe == CallEnds => \A s \in Squares : cells'[s] \in Opposite(turn) => cells'[s] = before.cells[s]
  <1>1. IInv /\ [Next]_vars => Safe
    <2> SUFFICES ASSUME IInv, [Next]_vars, CallEnds, NEW s \in Squares, cells'[s] \in Opposite(turn)
                 PROVE  cells'[s] = before.cells[s]
      OBVIOUS
    <2>1. stack # <<>> /\ cells' = cells
      BY EndOfCall
    <2>2. LeftOver /\ turn \in Player
      BY <2>1, TopType DEF Typed
    <2>3. cells[s] \notin Own(turn) \union {"b"}
      BY <2>1, <2>2 DEF Opposite, Own, Player, Black, White
    <2>4. QED
      BY <2>1, <2>2, <2>3 DEF LeftOver
  <1>2. QED
    BY <1>1, Inductive, PTL DEF Spec, OpponentOnlyLoses
=============================================================================
