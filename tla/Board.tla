-------------------------------- MODULE Board --------------------------------
(***************************************************************************)
(* board.c: the board of the server, which checks and makes the moves that *)
(* players send.  A move that is not to a neighbouring square is searched  *)
(* by backtracking on the board itself: each capture is done on it, and    *)
(* undone when it leads nowhere.  The recursion is a stack of frames here, *)
(* one step for each capture done or undone.                               *)
(***************************************************************************)
EXTENDS Integers, Sequences, FiniteSetsExt

CONSTANTS
    Size,         \* rows and columns of the board (8)
    MenRows,      \* rows of each player's men at the start (3)
    NoKillLimit   \* moves without a capture that end the game (10)

ASSUME BoardAssumption ==
    /\ Size \in Nat /\ MenRows \in Nat \ {0} /\ 2 * MenRows < Size
    /\ NoKillLimit \in Nat \ {0}

Rows == 0..(Size - 1)
Squares == Rows \X Rows
Coordinates == (0..Size) \X (0..Size)       \* Size stands for all that is not on the board
Black == {"x", "X"}
White == {"o", "O"}
Men == {"x", "o"}
Pieces == Black \union White
Player == 1..2                              \* turn: 1 is white, 2 is black
Own(player) == IF player = 1 THEN White ELSE Black
Opposite(player) == Own(3 - player)

VARIABLES
    cells,        \* piece, "b" (empty) or "n" (not used) on each square
    n_white,
    n_black,
    no_kills,
    turn,         \* player whose move check_movement gets
    stack,        \* frames of backtracking, the outermost first
    destiny,      \* where the search has to arrive
    before,       \* history: the board when the search began
    heap          \* what UNDO has done to the memory outside the board

board == <<cells, n_white, n_black, no_kills>>
search == <<stack, destiny, before>>
vars == <<board, turn, search, heap>>

-----------------------------------------------------------------------------
dark(s) == (s[1] + s[2]) % 2 = 1
board_init(s) ==
    CASE ~ dark(s)                            -> "n"
      [] dark(s) /\ s[1] < MenRows            -> "x"
      [] dark(s) /\ s[1] >= Size - MenRows    -> "o"
      [] OTHER                                -> "b"
Placed(kind) == Cardinality({s \in Squares : board_init(s) = kind})

NewBoard ==
    [cells |-> [s \in Squares |-> board_init(s)], n_white |-> Placed("o"), n_black |-> Placed("x"), no_kills |-> 0]
Nowhere == <<Size, Size>>
Init ==
    /\ cells = NewBoard.cells /\ no_kills = NewBoard.no_kills
    /\ n_white = NewBoard.n_white /\ n_black = NewBoard.n_black
    /\ turn \in Player
    /\ stack = <<>> /\ destiny = Nowhere /\ before = <<>>
    /\ heap = "sound"

\* fault: the draw is declared one move late
game_endedLate == n_black = 0 \/ n_white = 0 \/ no_kills > NoKillLimit
game_ended == n_black = 0 \/ n_white = 0 \/ no_kills = NoKillLimit
is_empty(s) == cells[s] = "b"
Playing == stack = <<>> /\ heap # "aborted" /\ ~ game_ended

\* What a piece becomes on the row it arrives at.
CrownedNever(cell, s) == cell                 \* fault: no queens
Crowned(cell, s) ==
    CASE cell = "x" /\ s[1] = Size - 1 -> "X"
      [] cell = "o" /\ s[1] = 0        -> "O"
      [] OTHER                         -> cell

-----------------------------------------------------------------------------
\* check_movement, before it searches.
Movable(origin, dest) ==
    /\ origin \in Squares /\ dest \in Squares
    /\ cells[origin] \in Own(turn) /\ is_empty(dest)
Distance(a, b) == IF a > b THEN a - b ELSE b - a
Neighbours(s, t) == Distance(s[1], t[1]) = 1 /\ Distance(s[2], t[2]) = 1
Forward(cell, s, t) == (cell = "x" => s[1] < t[1]) /\ (cell = "o" => s[1] > t[1])

Rejected(origin, dest) ==
    Movable(origin, dest) => Neighbours(origin, dest) /\ ~ Forward(cells[origin], origin, dest)
Reject ==
    /\ Playing
    /\ {move \in Coordinates \X Coordinates : Rejected(move[1], move[2])} # {}
    /\ UNCHANGED vars

Step ==
    /\ Playing
    /\ \E origin, dest \in Squares :
          /\ Movable(origin, dest) /\ Neighbours(origin, dest) /\ Forward(cells[origin], origin, dest)
          /\ cells' = [cells EXCEPT ![origin] = "b", ![dest] = Crowned(cells[origin], dest)]
    /\ no_kills' = no_kills + 1 /\ turn' = 3 - turn
    /\ UNCHANGED <<n_white, n_black, search, heap>>

Frame(at, cell) == [at |-> at, cell |-> cell, dir |-> 0, prev_no_kills |-> 0, killed_cell |-> "b"]
Search ==
    /\ Playing
    /\ \E origin, dest \in Squares :
          /\ Movable(origin, dest) /\ ~ Neighbours(origin, dest)
          /\ stack' = <<Frame(origin, cells[origin])>> /\ destiny' = dest
    /\ before' = [cells |-> cells, n_white |-> n_white, n_black |-> n_black, no_kills |-> no_kills]
    /\ UNCHANGED <<board, turn, heap>>

-----------------------------------------------------------------------------
\* backtracking.
Dirs == <<<<-1, -1>>, <<-1, 1>>, <<1, -1>>, <<1, 1>>>>     \* ESI, ESD, EII, EID
Beyond(s, dir, n) == <<s[1] + n * Dirs[dir][1], s[2] + n * Dirs[dir][2]>>

is_valid(s, cell, dir) ==
    /\ cell = "x" => dir \in {3, 4}
    /\ cell = "o" => dir \in {1, 2}
    /\ Beyond(s, dir, 2) \in Squares /\ is_empty(Beyond(s, dir, 2))
    /\ cells[Beyond(s, dir, 1)] \notin {cell, "b"}

Top == stack[Len(stack)]
Killed(frame) == Beyond(frame.at, frame.dir, 1)
Landing(frame) == Beyond(frame.at, frame.dir, 2)
Untried(frame) == {dir \in (frame.dir + 1)..4 : is_valid(frame.at, frame.cell, dir)}
Searching == stack # <<>> /\ heap # "aborted"
Returns(accepted) ==
    /\ stack' = <<>> /\ destiny' = Nowhere /\ before' = <<>>
    /\ turn' = IF accepted THEN 3 - turn ELSE turn
    /\ UNCHANGED <<board, heap>>

Found == Searching /\ Top.at = destiny /\ Returns(TRUE)

\* fault: queens are not counted
CountedMen(n, colour, cell, change) == n + IF cell \in colour \intersect Men THEN change ELSE 0
\* A counter of pieces, when one of them is taken (-1) or put back (1).
Counted(n, colour, cell, change) == n + IF cell \in colour THEN change ELSE 0

Do ==
    /\ Searching /\ Top.at # destiny /\ Untried(Top) # {}
    /\ LET dir == Min(Untried(Top))
           frame == [Top EXCEPT !.dir = dir, !.prev_no_kills = no_kills,
                                !.killed_cell = cells[Beyond(Top.at, dir, 1)]]
           new_cell == Crowned(Top.cell, Landing(frame))
       IN  /\ cells' = [cells EXCEPT ![frame.at] = "b", ![Killed(frame)] = "b", ![Landing(frame)] = new_cell]
           /\ n_black' = Counted(n_black, Black, frame.killed_cell, -1)
           /\ n_white' = Counted(n_white, White, frame.killed_cell, -1)
           /\ stack' = [stack EXCEPT ![Len(stack)] = frame] \o <<Frame(Landing(frame), new_cell)>>
    /\ no_kills' = 0
    /\ UNCHANGED <<turn, destiny, before, heap>>

\* faults: the captured piece is not put back, or the two are swapped
PutBackSwapped(frame) == [cells EXCEPT ![frame.at] = frame.killed_cell, ![Killed(frame)] = frame.cell]
PutBackForgotten(frame) == [cells EXCEPT ![frame.at] = frame.cell]
PutBack(frame) == [cells EXCEPT ![frame.at] = frame.cell, ![Killed(frame)] = frame.killed_cell]

\* The caller's frame undoes its capture.  The square that the piece landed on
\* is to be emptied through cells[new_row][new_cell], whose second index is the
\* code of a character, at least 79: a byte behind the board is written.
Undo ==
    /\ Searching /\ Top.at # destiny /\ Untried(Top) = {} /\ Len(stack) > 1
    /\ LET frame == stack[Len(stack) - 1]
       IN  /\ cells' = PutBack(frame)
           /\ n_black' = Counted(n_black, Black, frame.killed_cell, 1)
           /\ n_white' = Counted(n_white, White, frame.killed_cell, 1)
           /\ no_kills' = frame.prev_no_kills
    /\ stack' = SubSeq(stack, 1, Len(stack) - 1)
    /\ heap' = "corrupt"
    /\ UNCHANGED <<turn, destiny, before>>

Exhausted == Searching /\ Top.at # destiny /\ Untried(Top) = {} /\ Len(stack) = 1 /\ Returns(FALSE)

\* The allocator may find the byte that UNDO wrote, at any later call.
HeapAbort ==
    /\ heap = "corrupt" /\ heap' = "aborted"
    /\ stack' = <<>> /\ destiny' = Nowhere /\ before' = <<>>
    /\ UNCHANGED <<board, turn>>

\* The server destroys the board and makes another one.
NewGame ==
    /\ stack = <<>> /\ heap # "aborted" /\ game_ended
    /\ cells' = NewBoard.cells /\ no_kills' = NewBoard.no_kills
    /\ n_white' = NewBoard.n_white /\ n_black' = NewBoard.n_black
    /\ turn' \in Player
    /\ UNCHANGED <<search, heap>>

Next ==
    \/ Reject \/ Step \/ Search
    \/ Found \/ Do \/ Undo \/ Exhausted
    \/ HeapAbort \/ NewGame

Spec == Init /\ [][Next]_vars

-----------------------------------------------------------------------------
On(colour) == {s \in Squares : cells[s] \in colour}
Idle == stack = <<>> /\ heap # "aborted"

\* The board holds pieces on dark squares only, and the frames of a search are
\* on the board.
TypeOK ==
    /\ cells \in [Squares -> Pieces \union {"b", "n"}]
    /\ \A s \in Squares : dark(s) = (cells[s] # "n")
    /\ n_white \in Int /\ n_black \in Int /\ no_kills \in 0..NoKillLimit
    /\ turn \in Player
    /\ heap \in {"sound", "corrupt", "aborted"}
    /\ destiny \in Squares \union {Nowhere}
    /\ \A k \in DOMAIN stack : stack[k].at \in Squares /\ stack[k].cell \in Pieces /\ stack[k].dir \in 0..4

\* No piece is counted that is not on the board, after any number of searches
\* that failed.
CountedAreThere == Idle => n_white <= Cardinality(On(White)) /\ n_black <= Cardinality(On(Black))

\* A man on the last row has been crowned.
LastRowCrowned ==
    Idle => \A k \in Rows : cells[<<Size - 1, k>>] # "x" /\ cells[<<0, k>>] # "o"

CallEnds == before # <<>> /\ before' = <<>> /\ heap' # "aborted"

\* A move that is rejected after a search leaves the counters as they were, and
\* every piece where it was.
RejectedKeepsPieces ==
    [][(CallEnds /\ turn' = turn) =>
          /\ <<n_white, n_black, no_kills>>' = <<before.n_white, before.n_black, before.no_kills>>
          /\ \A s \in Squares : before.cells[s] # "b" => cells'[s] = before.cells[s]]_vars

\* Whatever the search tries, the opponent has its pieces where it had them, or
\* has lost them.
OpponentOnlyLoses ==
    [][CallEnds =>
          \A s \in Squares : cells'[s] \in Opposite(turn) => cells'[s] = before.cells[s]]_vars

-----------------------------------------------------------------------------
\* "En caso contrario retorna false y deja el board como estaba" (board.c:210).
RejectedUnchanged == [][(CallEnds /\ turn' = turn) => cells' = before.cells]_vars
=============================================================================
