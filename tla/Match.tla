-------------------------------- MODULE Match --------------------------------
(***************************************************************************)
(* What the draughts server promises two players, with no streams, no      *)
(* notices and no order of packets: the players are named, move in turns,  *)
(* and play again when both want to.  A player who keeps to the dialogue   *)
(* is asked one thing at a time and gives one answer to it; nothing is     *)
(* promised to one who left it.  GameServer implements it.                 *)
(***************************************************************************)
EXTENDS Integers, Sequences

CONSTANT Names

VARIABLES
    stage, due,    \* whose answer the match waits for
    name, score, board, willing,
    keeps,         \* the players who keep to the dialogue
    asked, said    \* by player: its open questions, its answers not yet read

vars == <<stage, due, name, score, board, willing, keeps, asked, said>>

Players == 0..1
Rival(p) == 1 - p

Item(type, val) == [type |-> type, val |-> val]
Text(one, seen) == [one |-> one, seen |-> seen]

AskName == Item("AskNickname", Text(FALSE, 0))
AskBoard(b) == Item("BoardState", b)
AskAgain == Item("AskNewGame", Text(FALSE, 0))

\* What may be answered to a question; a move is for the board that was shown.
Replies(q) ==
    CASE q.type = "AskNickname" -> {Item("RetNickname", n) : n \in Names}
      [] q.type = "BoardState" ->
            {Item(type, Text(one, q.val)) :
                type \in {"SendMove", "SendMsg", "Image", "Disconnect"}, one \in BOOLEAN}
      [] OTHER -> {Item("AnswerNewGame", Text(one, 0)) : one \in BOOLEAN}

Init ==
    /\ stage = "meeting" /\ due = 0
    /\ name = [p \in Players |-> "none"] /\ score = [p \in Players |-> 0]
    /\ board = 0 /\ willing = TRUE
    /\ keeps = Players
    /\ asked = [p \in Players |-> {}] /\ said = [p \in Players |-> <<>>]

\* The answer that the match waits for; whoever left the dialogue may say anything.
Given(a) == due \in keeps => said[due] = <<a>>

\* All that was said is read, and S is asked q, those of S that keep to the dialogue.
Ask(S, q) ==
    /\ asked' = [p \in Players |-> IF p \in S \cap keeps THEN {q} ELSE {}]
    /\ said' = [p \in Players |-> <<>>]
    /\ UNCHANGED keeps

Open ==
    /\ stage' = "playing" /\ due' \in Players
    /\ Ask({due'}, AskBoard(board'))

Meet == stage = "meeting" /\ due = 0 /\ due' = 1
        /\ UNCHANGED <<stage, name, score, board, willing, keeps, asked, said>>

AskBoth ==
    /\ stage = "meeting" /\ due = 1
    /\ stage' = "naming" /\ due' = 0
    /\ Ask(Players, AskName)
    /\ UNCHANGED <<name, score, board, willing>>

\* The other player may answer meanwhile.
FirstName ==
    /\ stage = "naming" /\ due = 0 /\ due' = 1
    /\ \E n \in Names : Given(Item("RetNickname", n)) /\ name' = [name EXCEPT ![0] = n]
    /\ asked' = [asked EXCEPT ![0] = {}] /\ said' = [said EXCEPT ![0] = <<>>]
    /\ UNCHANGED <<stage, score, board, willing, keeps>>

NameTaken ==
    /\ stage = "naming" /\ due = 1
    /\ Given(Item("RetNickname", name[0]))
    /\ Ask({1}, AskName)
    /\ UNCHANGED <<stage, due, name, score, board, willing>>

SecondName ==
    /\ stage = "naming" /\ due = 1
    /\ \E n \in Names \ {name[0]} :
          Given(Item("RetNickname", n)) /\ name' = [name EXCEPT ![1] = n]
    /\ Open
    /\ UNCHANGED <<score, board, willing>>

\* A move that is not legal, or a message: the same board once more.
Repeat ==
    /\ stage = "playing"
    /\ \E type \in {"SendMove", "SendMsg"}, one \in BOOLEAN : Given(Item(type, Text(one, board)))
    /\ Ask({due}, AskBoard(board))
    /\ UNCHANGED <<stage, due, name, score, board, willing>>

Moves ==
    /\ stage = "playing"
    /\ Given(Item("SendMove", Text(FALSE, board)))
    /\ board' = board + 1

Move ==
    /\ Moves
    /\ due' = Rival(due)
    /\ Ask({due'}, AskBoard(board'))
    /\ UNCHANGED <<stage, name, score, willing>>

\* A game adds at most a point to each.
Finish ==
    /\ Moves
    /\ \E S \in SUBSET Players : score' = [p \in Players |-> score[p] + IF p \in S THEN 1 ELSE 0]
    /\ stage' = "again_mover" /\ willing' = TRUE
    /\ Ask({due}, AskAgain)
    /\ UNCHANGED <<due, name>>

FirstWish ==
    /\ stage = "again_mover" /\ stage' = "again_other"
    /\ Given(Item("AnswerNewGame", Text(willing', 0)))
    /\ willing' \in BOOLEAN
    /\ due' = Rival(due)
    /\ Ask({due'}, AskAgain)
    /\ UNCHANGED <<name, score, board>>

Rematch ==
    /\ stage = "again_other" /\ willing
    /\ Given(Item("AnswerNewGame", Text(TRUE, 0)))
    /\ board' = board + 1
    /\ Open
    /\ UNCHANGED <<name, score, willing>>

Answer(p) ==
    /\ said[p] = <<>>
    /\ \E q \in asked[p] : \E a \in Replies(q) : said' = [said EXCEPT ![p] = <<a>>]
    /\ asked' = [asked EXCEPT ![p] = {}]
    /\ UNCHANGED <<stage, due, name, score, board, willing, keeps>>

\* A player uses images or is killed: nothing more is promised to it.
Leave(p) ==
    /\ p \in keeps /\ keeps' = keeps \ {p}
    /\ asked' = [asked EXCEPT ![p] = {}] /\ said' = [said EXCEPT ![p] = <<>>]
    /\ UNCHANGED <<stage, due, name, score, board, willing>>

\* Not of its own: a player left, disconnects, sends a message or wants no more.
EndsMatch(a) ==
    \/ a.type \in {"Disconnect", "SendMsg"}
    \/ a.type = "AnswerNewGame" /\ ~ a.val.one
Stop ==
    /\ stage # "over" /\ stage' = "over"
    /\ \/ keeps # Players
       \/ said[due] # <<>> /\ EndsMatch(said[due][1])
       \/ stage = "again_other" /\ ~ willing
    /\ due' \in Players
    /\ Ask({}, AskAgain)
    /\ UNCHANGED <<name, score, board, willing>>

Next ==
    \/ Meet \/ AskBoth \/ FirstName \/ NameTaken \/ SecondName
    \/ Repeat \/ Move \/ Finish \/ FirstWish \/ Rematch \/ Stop
    \/ \E p \in Players : Answer(p) \/ Leave(p)

Spec == Init /\ [][Next]_vars

-----------------------------------------------------------------------------
Question ==
    CASE stage = "naming" -> AskName [] stage = "playing" -> AskBoard(board) [] OTHER -> AskAgain

\* Each player has at most one thing before it, which is what its stage asks for
\* or its answer to that: nothing of an earlier board, game or stage is left over.
OneAtATime ==
    /\ stage = "again_mover" => willing
    /\ \A p \in Players :
          /\ asked[p] # {} => asked[p] = {Question} /\ said[p] = <<>>
          /\ said[p] # <<>> => \E a \in Replies(Question) : said[p] = <<a>>
          /\ asked[p] # {} \/ said[p] # <<>> =>
                /\ p \in keeps /\ stage \notin {"meeting", "over"}
                /\ p = due \/ (stage = "naming" /\ due = 0)
=============================================================================
