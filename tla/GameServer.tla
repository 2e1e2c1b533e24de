------------------------------ MODULE GameServer -----------------------------
(***************************************************************************)
(* The draughts server of proyecto-redes, its two clients and the TCP      *)
(* streams between them: server/main.c with its handlers, client/main.c    *)
(* with its handlers, shared/connection.  The server is one thread that    *)
(* blocks on one socket at a time; an action of it goes from one receive   *)
(* to the next.  A client receives a packet, asks its user when the packet *)
(* is a question, and sends at most one packet.  The board is abstracted   *)
(* to a version number, and check_movement and game_ended to a choice.     *)
(***************************************************************************)
EXTENDS Integers, Sequences, FiniteSets

CONSTANTS
    Nicknames,    \* what a user may type
    MaxMoves,     \* bound: accepted moves in all games
    MaxGames,     \* bound: games after which nobody asks for another
    MaxImages,    \* bound: images sent by one client
    MaxMsgs,      \* bound: messages sent by one client
    MaxDeaths     \* bound: clients killed while the server runs

ASSUME BoundsAssumption ==
    MaxMoves \in Nat /\ MaxGames \in Nat /\ MaxImages \in Nat /\ MaxMsgs \in Nat /\ MaxDeaths \in Nat

VARIABLES
    pc,           \* which receive the server is blocked in, or how it ended
    n_socket,     \* whose turn it is
    nickname, score,
    version,      \* of the board: counts accepted moves and new boards
    moves, games, \* counters that only the bounds read
    aux_play_again,
    s2c, c2s,     \* the streams, by client
    client,       \* "off", "on", or how it ended: "exited", "lost", killed: "dead",
                  \* and "reset" when the server's end of the connection knows
    images, msgs  \* history: Image and SendMsg packets served, by client

server == <<pc, n_socket, nickname, score, version, moves, games, aux_play_again>>
history == <<images, msgs>>
vars == <<server, history, s2c, c2s, client>>

Clients == 0..1                   \* indices of sockets
Other(c) == 1 - c
Running == pc \notin {"stopped", "crashed"}

Pkg(type, val) == [type |-> type, val |-> val]
\* What a user typed: does it begin with '1', and the board it answers to.
Typed(one, seen) == [one |-> one, seen |-> seen]
Blank == Typed(FALSE, 0)

Died(c) == client[c] \in {"dead", "reset"}

\* sendMessage.  Of what is sent to a dead client only the fact remains.
Unread(c, pkgs) ==
    IF Died(c) /\ s2c[c] \o pkgs # <<>> THEN <<Pkg("Garbage", Blank)>> ELSE s2c[c] \o pkgs
SendBoth(pkgs) == s2c' = [c \in Clients |-> Unread(c, pkgs[c])]
SendTo(c, pkgs) == s2c' = [s2c EXCEPT ![c] = Unread(c, pkgs)]

\* receiveMessage on the socket of c, and the packet it returns.
Packet(c) == Head(c2s[c])
Receive(c) == c2s[c] # <<>> /\ c2s' = [c2s EXCEPT ![c] = Tail(@)]

-----------------------------------------------------------------------------
Init ==
    /\ pc = "conn0" /\ n_socket = 0
    /\ nickname = [c \in Clients |-> "none"] /\ score = [c \in Clients |-> 0]
    /\ version = 0 /\ moves = 0 /\ games = 0 /\ aux_play_again = TRUE
    /\ s2c = [c \in Clients |-> <<>>] /\ c2s = [c \in Clients |-> <<>>]
    /\ client = [c \in Clients |-> "off"]
    /\ images = [c \in Clients |-> 0] /\ msgs = [c \in Clients |-> 0]

\* initializeServer greets the first client, then the second one; then both
\* are asked for a nickname.
ServerGreet(c) ==
    /\ pc = IF c = 0 THEN "conn0" ELSE "conn1"
    /\ Receive(c) /\ Packet(c).type = "StartConnection"
    /\ LET greeting == <<Pkg("ConnectionEstablished", Blank)>>
           question == <<Pkg("AskNickname", Blank)>>
       IN  IF c = 0 THEN SendTo(0, greeting)
           ELSE SendBoth([d \in Clients |-> IF d = 0 THEN question ELSE greeting \o question])
    /\ pc' = IF c = 0 THEN "conn1" ELSE "nick0"
    /\ UNCHANGED <<n_socket, nickname, score, version, moves, games, aux_play_again,
                   history, client>>

\* What opens a game: both get Start, their Scores and WhosFirst; the one told
\* '2' starts and gets the board.
ScoresFor(c) == IF c = 0 THEN <<score'[0], score'[1]>> ELSE <<score'[1], score'[1]>>

\* fault: both players see the board when the game opens
GetsBoardBoth(c) == TRUE
GetsBoard(c) == c = n_socket'

Opening(c) ==
    <<Pkg("Start", Blank), Pkg("Scores", ScoresFor(c)), Pkg("WhosFirst", IF c = n_socket' THEN 2 ELSE 1)>>
    \o IF GetsBoard(c) THEN <<Pkg("BoardState", version')>> ELSE <<>>
StartGame(before) ==
    /\ n_socket' \in Clients
    /\ games' = games + 1
    /\ pc' = "turn"
    /\ SendBoth([c \in Clients |-> before[c] \o Opening(c)])

ServerNickname0 ==
    /\ pc = "nick0" /\ Receive(0) /\ Packet(0).type = "RetNickname"
    /\ nickname' = [nickname EXCEPT ![0] = Packet(0).val]
    /\ pc' = "nick1"
    /\ UNCHANGED <<n_socket, score, version, moves, games, aux_play_again, history, s2c, client>>

SameNickname == Packet(1).val = nickname[0]

\* fault: the loop waits for another nickname without asking for it
AskAgainSilent == UNCHANGED s2c
AskAgain == SendTo(1, <<Pkg("AskNickname", Blank)>>)

ServerNicknameUsed ==
    /\ pc = "nick1" /\ Receive(1) /\ Packet(1).type = "RetNickname"
    /\ SameNickname
    /\ AskAgain
    /\ UNCHANGED <<server, history, client>>

ServerNickname1 ==
    /\ pc = "nick1" /\ Receive(1) /\ Packet(1).type = "RetNickname"
    /\ ~ SameNickname
    /\ nickname' = [nickname EXCEPT ![1] = Packet(1).val]
    /\ UNCHANGED <<score, version>>
    /\ StartGame([c \in Clients |-> <<Pkg("Oponentfound", nickname'[Other(c)])>>])
    /\ UNCHANGED <<moves, aux_play_again, history, client>>

-----------------------------------------------------------------------------
\* The turn of n_socket: its answer to a BoardState.
Turn(type) == pc = "turn" /\ Receive(n_socket) /\ Packet(n_socket).type = type

\* The answer leads to no move: some reply, and the board once more.
Again(type, reply) ==
    /\ Turn(type)
    /\ SendTo(n_socket, reply \o <<Pkg("BoardState", version)>>)
    /\ UNCHANGED <<server, client>>

ServerTurnGreeting ==
    /\ Again("StartConnection", <<Pkg("ConnectionEstablished", Blank)>>)
    /\ UNCHANGED history

ServerTurnImage ==
    /\ Again("Image", <<Pkg("Image", Blank)>>)
    /\ images' = [images EXCEPT ![n_socket] = @ + 1] /\ UNCHANGED msgs

\* A late answer to AskNewGame.
ServerTurnAnswer ==
    /\ Again("AnswerNewGame", <<Pkg("StartConnection", Blank)>>)
    /\ UNCHANGED history

\* No packet type, or one that has no place in a turn.
ServerTurnBadPackage ==
    /\ Again("Garbage", <<Pkg("ErrBadPkg", Blank)>>)
    /\ UNCHANGED history

ServerTurnBadMove == Again("SendMove", <<Pkg("ErrMove", Blank)>>) /\ UNCHANGED history

\* The message is passed on, which frees the packet; then main.c sends the
\* freed packet to the sender and frees it again.  The allocator stops the
\* program, or bytes of no packet type are sent.
ServerTurnMsg ==
    /\ Turn("SendMsg")
    /\ msgs' = [msgs EXCEPT ![n_socket] = @ + 1]
    /\ \E next \in {"turn", "crashed"} :
          /\ pc' = next
          /\ SendBoth([c \in Clients |->
                 IF c # n_socket THEN <<Pkg("SpreadMsg", Blank)>>
                 ELSE <<Pkg("Garbage", Blank)>>
                      \o IF next = "turn" THEN <<Pkg("BoardState", version)>> ELSE <<>>])
    /\ UNCHANGED <<n_socket, nickname, score, version, moves, games, aux_play_again,
                   images, client>>

\* fault: only the client that asked for it is disconnected
IsToldOne(c) == c = n_socket
IsTold(c) == c \in Clients

ServerTurnDisconnect ==
    /\ Turn("Disconnect")
    /\ SendBoth([c \in Clients |-> IF IsTold(c) THEN <<Pkg("Disconnect", Blank)>> ELSE <<>>])
    /\ pc' = "stopped"
    /\ UNCHANGED <<n_socket, nickname, score, version, moves, games, aux_play_again,
                   history, client>>

\* A legal move begins with a letter.
LegalMove ==
    /\ Turn("SendMove") /\ ~ Packet(n_socket).val.one
    /\ moves < MaxMoves
    /\ moves' = moves + 1 /\ version' = version + 1

\* fault: the turn is not taken modulo the number of players
NextSocketPlus == n_socket + 1
NextSocket == Other(n_socket)

ServerTurnMove ==
    /\ LegalMove
    /\ n_socket' = NextSocket
    /\ SendBoth([c \in Clients |->
           IF c = n_socket THEN <<Pkg("OkMove", Blank)>> ELSE <<Pkg("BoardState", version')>>])
    /\ UNCHANGED <<pc, nickname, score, games, aux_play_again, history, client>>

\* Why game_ended answers yes, and what get_winner makes of it.
Endings == {"no_kills", "n_black", "n_white"}
get_winner(ending) == CASE ending = "no_kills" -> 0 [] ending = "n_black" -> 1 [] OTHER -> -1
Scores(winner) ==
    [c \in Clients |-> score[c] + IF winner = 0 \/ winner = c + 1 THEN 1 ELSE 0]

AskedFirst(c) == c = n_socket

ServerTurnEnd ==
    /\ LegalMove
    /\ \E ending \in Endings :
          LET winner == get_winner(ending)
              end == <<Pkg("GameWinnerLoser", winner), Pkg("End", Blank)>>
          IN  /\ score' = Scores(winner)
              /\ SendBoth([c \in Clients |->
                     IF AskedFirst(c) THEN end \o <<Pkg("AskNewGame", Blank)>> ELSE end])
    /\ pc' = "again_mover" /\ aux_play_again' = TRUE
    /\ UNCHANGED <<n_socket, nickname, games, history, client>>

\* Whatever packet comes is the answer to AskNewGame: '1' means yes.
SaysYesAny(c) == Packet(c).type = "AnswerNewGame"   \* fault: any answer is a yes
SaysYes(c) == Packet(c).type \in {"SendMove", "SendMsg", "Image", "AnswerNewGame"} /\ Packet(c).val.one

ServerAgainMover ==
    /\ pc = "again_mover" /\ Receive(n_socket)
    /\ aux_play_again' = (aux_play_again /\ SaysYes(n_socket))
    /\ SendTo(Other(n_socket), <<Pkg("AskNewGame", Blank)>>)
    /\ pc' = "again_other"
    /\ UNCHANGED <<n_socket, nickname, score, version, moves, games, history, client>>

ServerAgainOther ==
    /\ pc = "again_other" /\ Receive(Other(n_socket))
    /\ aux_play_again /\ SaysYes(Other(n_socket))
    /\ version' = version + 1
    /\ score' = score
    /\ StartGame([c \in Clients |-> <<>>])
    /\ UNCHANGED <<nickname, moves, aux_play_again, history, client>>

\* The second Disconnect goes to sockets[n_socket - 1], which is a client only
\* when n_socket is 1; then the program ends.
ServerClose ==
    /\ pc = "again_other" /\ Receive(Other(n_socket))
    /\ ~ (aux_play_again /\ SaysYes(Other(n_socket)))
    /\ SendBoth([c \in Clients |->
           IF c \in {n_socket, n_socket - 1} THEN <<Pkg("Disconnect", Blank)>> ELSE <<>>])
    /\ pc' = "stopped"
    /\ UNCHANGED <<n_socket, nickname, score, version, moves, games, aux_play_again,
                   history, client>>

\* The client whose packet the server is blocked on.
Awaited == CASE pc \in {"conn0", "nick0"} -> 0 [] pc \in {"conn1", "nick1"} -> 1
             [] pc = "again_other" -> Other(n_socket) [] OTHER -> n_socket

\* The client is dead and its stream empty: recv returns at once, and the packet
\* is whatever the stack holds, its size too, which may be negative.  A name may be
\* any; Garbage stands for all packets whose reply goes to the dead client only.
Uninitialised ==
    IF pc \in {"nick0", "nick1"} THEN [type : {"RetNickname"}, val : Nicknames]
    ELSE {Pkg("SendMove", Typed(one, version)) : one \in BOOLEAN}
         \union {Pkg(type, Blank) : type \in {"Garbage", "Disconnect"}}
         \union IF msgs[Awaited] < MaxMsgs THEN {Pkg("SendMsg", Blank)} ELSE {}
ServerReadsNothing ==
    /\ Running /\ Died(Awaited) /\ c2s[Awaited] = <<>>
    /\ \/ pc' = "crashed" /\ UNCHANGED c2s
       \/ UNCHANGED pc /\ \E m \in Uninitialised : c2s' = [c2s EXCEPT ![Awaited] = <<m>>]
    /\ UNCHANGED <<n_socket, nickname, score, version, moves, games, aux_play_again,
                   history, s2c, client>>

\* What has been sent to a dead client comes back as a reset of the connection.
ConnectionReset(c) ==
    /\ client[c] = "dead" /\ s2c[c] # <<>>
    /\ client' = [client EXCEPT ![c] = "reset"] /\ s2c' = [s2c EXCEPT ![c] = <<>>]
    /\ UNCHANGED <<server, history, c2s>>

\* A send on a connection that was reset kills the server (SIGPIPE).  It is in the
\* middle of its step, and the other client gets only part of what was meant for it.
BrokenNever(c) == FALSE                          \* fault: SIGPIPE is ignored
Broken(c) == client[c] = "reset" /\ s2c[c] # <<>>
ServerKilled(c) ==
    /\ Broken(c) /\ pc' = "crashed"
    /\ \E n \in 0..Len(s2c[Other(c)]) :
          s2c' = [s2c EXCEPT ![c] = <<>>, ![Other(c)] = SubSeq(@, 1, n)]
    /\ UNCHANGED <<n_socket, nickname, score, version, moves, games, aux_play_again,
                   history, c2s, client>>

-----------------------------------------------------------------------------
\* The client: initializeClient, and one turn of the loop in client/main.c.
Answer(c, pkgs) == c2s' = [c2s EXCEPT ![c] = @ \o pkgs]

\* The first client to be accepted is client 0.
ClientConnect(c) ==
    /\ Running /\ client[c] = "off" /\ (c = 1 => client[0] # "off")
    /\ client' = [client EXCEPT ![c] = "on"]
    /\ Answer(c, <<Pkg("StartConnection", Blank)>>)
    /\ UNCHANGED <<server, history, s2c>>

ClientReceive(c, types) ==
    /\ client[c] = "on" /\ s2c[c] # <<>> /\ Head(s2c[c]).type \in types
    /\ s2c' = [s2c EXCEPT ![c] = Tail(@)]
    /\ UNCHANGED <<server, history>>

ClientShow(c) ==
    /\ ClientReceive(c, {"ConnectionEstablished", "Oponentfound", "Start", "Scores", "WhosFirst",
                         "ErrMove", "OkMove", "End", "GameWinnerLoser", "SpreadMsg",
                         "StartConnection", "Garbage"})
    /\ UNCHANGED <<c2s, client>>

ClientNickname(c) ==
    /\ ClientReceive(c, {"AskNickname"})
    /\ \E name \in Nicknames : Answer(c, <<Pkg("RetNickname", name)>>)
    /\ UNCHANGED client

Questions == {"AskNickname", "BoardState", "AskNewGame"}
Unserved(c, type) == Len(SelectSeq(c2s[c], LAMBDA m : m.type = type))

\* The user picks a command of the menu and types its text.  A text that
\* begins with '1' may be taken for a yes to AskNewGame, hence the bound.
ClientBoard(c) ==
    /\ ClientReceive(c, {"BoardState"})
    /\ \E type \in {"SendMove", "SendMsg", "Image", "Disconnect"}, one \in BOOLEAN :
          /\ type = "Image" => images[c] + Unserved(c, type) < MaxImages
          /\ type = "SendMsg" => msgs[c] + Unserved(c, type) < MaxMsgs
          /\ one => (games < MaxGames /\ type # "Disconnect")
          /\ Answer(c, <<Pkg(type, Typed(one, Head(s2c[c]).val))>>)
    /\ UNCHANGED client

ClientAgain(c) ==
    /\ ClientReceive(c, {"AskNewGame"})
    /\ \E one \in BOOLEAN :
          /\ one => games < MaxGames
          /\ Answer(c, <<Pkg("AnswerNewGame", Typed(one, 0))>>)
    /\ UNCHANGED client

\* errbadpkg and image answer at once, without the user.
Echoes == {"ErrBadPkg", "Image"}
ClientEcho(c) ==
    /\ ClientReceive(c, Echoes)
    /\ Answer(c, <<Pkg("StartConnection", Blank)>>)
    /\ UNCHANGED client

ClientDisconnect(c) ==
    /\ ClientReceive(c, {"Disconnect"})
    /\ client' = [client EXCEPT ![c] = "exited"]
    /\ UNCHANGED c2s

\* The server is gone and the stream is empty: recv returns 0 for ever, nobody
\* tests it, and the loop of client/main.c goes on with uninitialised bytes.  Those
\* may be the bytes of Disconnect, or of a question, whose answer kills the client;
\* any other pass of the loop changes nothing here, so the client need not end.
ClientLost(c) ==
    /\ client[c] = "on" /\ s2c[c] = <<>> /\ ~ Running
    /\ \E end \in {"lost", "exited"} : client' = [client EXCEPT ![c] = end]
    /\ UNCHANGED <<server, history, s2c, c2s>>

\* A packet that the server will never read makes TCP reset the connection,
\* and the next send kills the client.
ClientKilled(c) ==
    /\ ~ Running /\ c2s[c] # <<>>
    /\ ClientReceive(c, Questions \union Echoes)
    /\ client' = [client EXCEPT ![c] = "lost"]
    /\ UNCHANGED c2s

\* The client is killed by its user or by the system.
ClientDies(c) ==
    /\ Running /\ client[c] = "on" /\ Cardinality({d \in Clients : Died(d)}) < MaxDeaths
    /\ client' = [client EXCEPT ![c] = "dead"]
    /\ UNCHANGED <<server, history, s2c, c2s>>

ServerNext ==
    \/ \E c \in Clients : ServerGreet(c)
    \/ ServerReadsNothing \/ ServerTurnBadPackage
    \/ ServerNickname0 \/ ServerNicknameUsed \/ ServerNickname1
    \/ ServerTurnGreeting \/ ServerTurnImage \/ ServerTurnAnswer \/ ServerTurnBadMove
    \/ ServerTurnMsg \/ ServerTurnDisconnect \/ ServerTurnMove \/ ServerTurnEnd
    \/ ServerAgainMover \/ ServerAgainOther \/ ServerClose

ClientNext(c) ==
    \/ ClientConnect(c) \/ ClientShow(c) \/ ClientNickname(c) \/ ClientBoard(c)
    \/ ClientAgain(c) \/ ClientEcho(c) \/ ClientDisconnect(c) \/ ClientKilled(c)

\* A server that is killed does nothing in between.
Whole == \A c \in Clients : ~ Broken(c)
ServerStep == (\E c \in Clients : ServerKilled(c)) \/ (Whole /\ ServerNext)
ClientStep(c) == Whole /\ (ClientNext(c) \/ ConnectionReset(c))

Next == ServerStep \/ \E c \in Clients : ClientStep(c) \/ (Whole /\ (ClientDies(c) \/ ClientLost(c)))

Spec == Init /\ [][Next]_vars
\* Each process runs on, and a user who is asked answers in the end.  Nothing makes
\* a client end whose server is gone: ClientLost is not among the fair steps.
FairSpec == Spec /\ WF_vars(ServerStep) /\ \A c \in Clients : WF_vars(ClientStep(c))

-----------------------------------------------------------------------------
Pending(c) == {i \in 1..Len(s2c[c]) : s2c[c][i].type \in Questions \union Echoes}

\* Types of the server's state, and the kinds of packet each stream may hold.
TypeOK ==
    /\ pc \in {"conn0", "conn1", "nick0", "nick1", "turn", "again_mover", "again_other",
              "stopped", "crashed"}
    /\ n_socket \in Clients /\ aux_play_again \in BOOLEAN
    /\ nickname \in [Clients -> Nicknames \union {"none"}]
    /\ score \in [Clients -> Nat] /\ images \in [Clients -> Nat] /\ msgs \in [Clients -> Nat]
    /\ version \in Nat /\ moves \in 0..MaxMoves /\ games \in Nat
    /\ client \in [Clients -> {"off", "on", "exited", "lost", "dead", "reset"}]
    /\ \A c \in Clients : \A i \in DOMAIN c2s[c] :
          c2s[c][i].type \in {"StartConnection", "RetNickname", "SendMove", "SendMsg", "Image",
                              "AnswerNewGame", "Disconnect"}
                             \union IF Died(c) THEN {"Garbage"} ELSE {}

\* Clients greet without being asked, and client 1 is asked for its nickname
\* while the server still reads the one of client 0.
Owed(c) == IF c = Awaited \/ (c = 1 /\ pc \in {"conn0", "nick0"}) THEN 1 ELSE 0

\* The server and a client never disagree on how many answers are due: what
\* the client has yet to answer and what the server has yet to read add up to
\* the one answer the server waits for, plus one for each image it served,
\* because image in the client answers an Image that nobody asked about.
AnswersAhead ==
    Running => \A c \in Clients :
        client[c] = "on" => Cardinality(Pending(c)) + Len(c2s[c]) = Owed(c) + images[c]

\* A move is applied to the very board its player was looking at, for a player
\* that lives and has not used images: no move made for an older board is left unread.
FreshMoves ==
    [][(moves' # moves /\ images[n_socket] = 0 /\ ~ Died(n_socket)) => Packet(n_socket).val.seen = version]_vars

\* Whoever the server waits for does answer, whatever the two clients do.
Answered ==
    /\ (pc = "nick1") ~> (pc # "nick1" \/ c2s[1] # <<>>)
    /\ \A c \in Clients : (Running /\ Awaited = c) ~> (c2s[c] # <<>> \/ ~ Running \/ Awaited # c)

\* A Disconnect sent when the server asks for a move ends both clients, if
\* none of them used images.
DisconnectEndsBoth ==
    (/\ pc = "turn" /\ c2s[n_socket] # <<>> /\ Packet(n_socket).type = "Disconnect"
     /\ \A c \in Clients : images[c] = 0)
        ~> ((\A c \in Clients : client[c] = "exited") \/ \E c \in Clients : Died(c))

\* When a client is killed the server does not go on for ever with it: a send to the
\* dead one kills the server, or what it reads in its place ends the game, unless from
\* some time on the server only asks the other one again, for a nickname or a move it
\* does not accept.  Of the other client nothing is said: it may read its dead
\* connection for ever (client/main.c never tests recv).
KillEndsServer ==
    \A c \in Clients :
        <>Died(c) => \/ <>[](~ Running)
                     \/ <>[](pc \in {"nick1", "turn"} /\ Awaited = Other(c))

-----------------------------------------------------------------------------
(* What the streams amount to for the two players: Match. *)
Keeps == {c \in Clients : images[c] = 0 /\ ~ Died(c)}
Stage ==
    CASE pc \in {"conn0", "conn1"} -> "meeting" [] pc \in {"nick0", "nick1"} -> "naming"
      [] pc = "turn" -> "playing" [] pc \in {"again_mover", "again_other"} -> pc
      [] OTHER -> "over"
Hears(c) == c \in Keeps /\ Stage \notin {"meeting", "over"}
Asked == [c \in Clients |-> IF Hears(c) THEN {s2c[c][i] : i \in Pending(c)} ELSE {}]
Said == [c \in Clients |-> IF Hears(c) THEN c2s[c] ELSE <<>>]

Game == INSTANCE Match WITH
    Names <- Nicknames, stage <- Stage, due <- Awaited, name <- nickname,
    board <- version, willing <- aux_play_again, keeps <- Keeps, asked <- Asked, said <- Said

\* Whatever is under way in the streams, with a client killed at any moment, the
\* server and its clients play Match: names, moves, scores and rematches come only
\* from what players who keep to the dialogue answered to what they were asked.
ImplementsMatch == Game!Spec

\* A player who lives and has not used images has one thing before it, the question
\* of the stage or its answer: none of an earlier board, game or stage is left over.
OneMatter == Game!OneAtATime

-----------------------------------------------------------------------------
\* "Cuando realizamos un disconnect desde cualquiera de los jugadores ...
\* desconectamos a ambos clientes" (README.md of proyecto-redes).
BothDisconnected == (pc = "stopped") ~> (\A c \in Clients : client[c] = "exited")
=============================================================================
