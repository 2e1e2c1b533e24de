-------------------------- MODULE GameServer_proofs -------------------------
(***************************************************************************)
(* Proofs about GameServer, for every set of nicknames and every bound:    *)
(* how many answers the server and its clients owe each other, whatever    *)
(* the clients send, whenever a client is killed, and which board a move    *)
(* was made for.                                                           *)
(***************************************************************************)
EXTENDS GameServer, FiniteSetTheorems, FunctionTheorems, SequenceTheorems, TLAPS

-----------------------------------------------------------------------------
(* The inductive invariant. *)

\* What the packets of the two directions carry.
Vals == Nicknames \union {"none", Blank} \union Int \union (Nat \X Nat)
Texts == Nicknames \union [one : BOOLEAN, seen : Vals]
Requests ==
    {"StartConnection", "RetNickname", "SendMove", "SendMsg", "Image", "AnswerNewGame", "Disconnect"}

\* Packets that a client only shows, and those it answers.
Plain ==
    {"ConnectionEstablished", "Oponentfound", "Start", "Scores", "WhosFirst", "ErrMove", "OkMove",
     "End", "GameWinnerLoser", "SpreadMsg", "StartConnection", "Garbage"}
Asking == Questions \union Echoes

Packages == [type : Plain \union Asking \union {"Disconnect"}, val : Vals]
Messages == [type : Requests \union {"Garbage"}, val : Texts]

\* The packets of a stream that ask for an answer, and their number.
Questionnaire(s) == {i \in 1..Len(s) : s[i].type \in Asking}
Due(s) == Cardinality(Questionnaire(s))

\* A board sent in s is version v of it, and a move in s was made for version v.
Shows(s, v) == \A i \in 1..Len(s) : s[i].type = "BoardState" => s[i].val = v
Moved(s, v) == \A i \in 1..Len(s) : s[i].type = "SendMove" => s[i].val.seen = v
Ends(s) == \E i \in 1..Len(s) : s[i].type = "Disconnect"

Values ==
    /\ pc \in {"conn0", "conn1", "nick0", "nick1", "turn", "again_mover", "again_other",
              "stopped", "crashed"}
    /\ n_socket \in Clients /\ aux_play_again \in BOOLEAN
    /\ nickname \in [Clients -> Nicknames \union {"none"}]
    /\ score \in [Clients -> Nat] /\ images \in [Clients -> Nat] /\ msgs \in [Clients -> Nat]
    /\ version \in Nat /\ moves \in 0..MaxMoves /\ games \in Nat
    /\ client \in [Clients -> {"off", "on", "exited", "lost", "dead", "reset"}]

\* The messages of c: of the types a client sends, no type once it is dead.
Sends(s, dead) ==
    \A i \in 1..Len(s) :
        /\ s[i].type \in Requests \/ (dead /\ s[i].type = "Garbage")
        /\ s[i].type = "RetNickname" => s[i].val \in Nicknames
Streams ==
    /\ s2c \in [Clients -> Seq(Packages)] /\ c2s \in [Clients -> Seq(Messages)]
    /\ \A c \in Clients : Sends(c2s[c], Died(c))

\* While the server runs: nobody has left, nothing has been exchanged with who
\* is not connected, and the two ends of a connection agree on what is due.
Unconnected(c) ==
    /\ s2c[c] = <<>> /\ c2s[c] = <<>> /\ images[c] = 0
    /\ pc = "conn0" \/ (c = 1 /\ pc = "conn1")
Connected(c) == ~ Ends(s2c[c]) /\ Due(s2c[c]) + Len(c2s[c]) = Owed(c) + images[c]
Agreed(c) ==
    /\ client[c] \notin {"exited", "lost"}
    /\ client[c] = "off" => Unconnected(c)
    /\ client[c] = "on" => Connected(c)
Agreement == Running => \A c \in Clients : Agreed(c)

\* The one whose turn it is sees the board as it is, and has not moved on another.
Fresh ==
    (pc = "turn" /\ client[n_socket] = "on" /\ images[n_socket] = 0)
        => Shows(s2c[n_socket], version) /\ Moved(c2s[n_socket], version)

IInv == Values /\ Streams /\ Agreement /\ Fresh

-----------------------------------------------------------------------------
(* Streams: what is due in a stream that grows at its end and shrinks at    *)
(* its beginning.                                                          *)

\* The answers due in any stream are finitely many.
LEMMA DueType ==
    ASSUME NEW S, NEW s \in Seq(S)
    PROVE  IsFiniteSet(Questionnaire(s)) /\ Due(s) \in Nat
<1>1. Len(s) \in Nat
  OBVIOUS
<1>2. IsFiniteSet(1..Len(s)) /\ Questionnaire(s) \in SUBSET (1..Len(s))
  BY <1>1, FS_Interval DEF Questionnaire
<1> QED
  BY <1>2, FS_Subset, FS_CardinalityType DEF Due

\* The places i + k for the places i of a set.
Shift(P, k) == {i + k : i \in P}

\* The shifted set is finite when the set is, and has as many elements.
LEMMA Shifted ==
    ASSUME NEW P \in SUBSET Int, IsFiniteSet(P), NEW k \in Int
    PROVE  IsFiniteSet(Shift(P, k)) /\ Cardinality(Shift(P, k)) = Cardinality(P)
<1> DEFINE Q == Shift(P, k)
           f == [i \in P |-> i + k]
<1>1. f \in Bijection(P, Q)
  <2>1. f \in [P -> Q] /\ (\A a, b \in P : f[a] = f[b] => a = b) /\ (\A t \in Q : \E a \in P : f[a] = t)
    BY DEF Shift
  <2> QED
    BY <2>1, Fun_IsBij
<1> QED
  BY <1>1, FS_Bijection DEF ExistsBijection

\* What is sent adds its questions to those of the stream.
LEMMA DueOfConcat ==
    ASSUME NEW S, NEW s \in Seq(S), NEW t \in Seq(S)
    PROVE  Due(s \o t) = Due(s) + Due(t)
<1> DEFINE A == Questionnaire(s)
           B == Shift(Questionnaire(t), Len(s))
<1>1. Len(s) \in Nat /\ Len(t) \in Nat /\ Len(s \o t) = Len(s) + Len(t)
  BY ConcatProperties
<1>2. \A i \in 1..Len(s) : (s \o t)[i] = s[i]
  BY <1>1, ConcatProperties
<1>3. \A i \in 1..Len(t) : (s \o t)[i + Len(s)] = t[i]
  BY <1>1, ConcatProperties
<1>4. Questionnaire(s \o t) = A \union B
  <2>1. ASSUME NEW i \in Questionnaire(s \o t) PROVE i \in A \union B
    <3>1. CASE i <= Len(s)
      BY <3>1, <2>1, <1>1, <1>2 DEF Questionnaire
    <3>2. CASE i > Len(s)
      <4> DEFINE j == i - Len(s)
      <4>1. j \in 1..Len(t) /\ i = j + Len(s)
        BY <3>2, <2>1, <1>1 DEF Questionnaire
      <4>2. j \in Questionnaire(t)
        BY <4>1, <2>1, <1>3 DEF Questionnaire
      <4> QED
        BY <4>1, <4>2 DEF Shift
    <3> QED
      BY <3>1, <3>2, <2>1, <1>1 DEF Questionnaire
  <2>2. ASSUME NEW i \in A PROVE i \in Questionnaire(s \o t)
    BY <2>2, <1>1, <1>2 DEF Questionnaire
  <2>3. ASSUME NEW j \in Questionnaire(t) PROVE j + Len(s) \in Questionnaire(s \o t)
    BY <2>3, <1>1, <1>3 DEF Questionnaire
  <2> QED
    BY <2>1, <2>2, <2>3 DEF Shift
<1>5. IsFiniteSet(A) /\ IsFiniteSet(B) /\ Cardinality(B) = Due(t) /\ Cardinality(A) = Due(s)
  <2>1. Questionnaire(t) \in SUBSET Int
    BY <1>1 DEF Questionnaire
  <2>2. IsFiniteSet(Questionnaire(t)) /\ IsFiniteSet(A)
    BY DueType
  <2>3. IsFiniteSet(B) /\ Cardinality(B) = Cardinality(Questionnaire(t))
    BY <2>1, <2>2, <1>1, Shifted
  <2> QED
    BY <2>2, <2>3 DEF Due
<1>6. A \cap B = {}
  BY <1>1 DEF Questionnaire, Shift
<1>7. Due(s) \in Nat /\ Due(t) \in Nat
  BY DueType
<1>8. Cardinality(A \cap B) = 0
  BY <1>6, FS_EmptySet
<1> HIDE DEF A, B
<1>9. Cardinality(A \union B) = Cardinality(A) + Cardinality(B) - Cardinality(A \cap B)
  BY <1>5, FS_Union
<1> QED
  BY <1>4, <1>5, <1>7, <1>8, <1>9 DEF Due

\* What is sent ends the client, or shows a board, when one of its parts does.
LEMMA PlacesOfConcat ==
    ASSUME NEW S, NEW s \in Seq(S), NEW t \in Seq(S)
    PROVE  /\ ~ Ends(s) /\ ~ Ends(t) => ~ Ends(s \o t)
           /\ \A v : Shows(s, v) /\ Shows(t, v) => Shows(s \o t, v)
<1>1. Len(s) \in Nat /\ Len(t) \in Nat /\ Len(s \o t) = Len(s) + Len(t)
      /\ \A i \in 1..Len(s) + Len(t) : (s \o t)[i] = IF i <= Len(s) THEN s[i] ELSE t[i - Len(s)]
  BY ConcatProperties
<1>2. ASSUME NEW i \in 1..Len(s \o t)
      PROVE  \/ i \in 1..Len(s) /\ (s \o t)[i] = s[i]
             \/ i - Len(s) \in 1..Len(t) /\ (s \o t)[i] = t[i - Len(s)]
  BY <1>1, <1>2
<1> QED
  BY <1>2 DEF Ends, Shows

\* A packet asks for one answer or for none.
LEMMA DueOfOne ==
    ASSUME NEW p
    PROVE  Due(<<p>>) = IF p.type \in Asking THEN 1 ELSE 0
<1>1. Len(<<p>>) = 1 /\ <<p>>[1] = p
  OBVIOUS
<1>2. CASE p.type \in Asking
  <2>1. Questionnaire(<<p>>) = {1}
    BY <1>1, <1>2 DEF Questionnaire
  <2> QED
    BY <2>1, <1>2, FS_Singleton DEF Due
<1>3. CASE p.type \notin Asking
  <2>1. Questionnaire(<<p>>) = {}
    BY <1>1, <1>3 DEF Questionnaire
  <2> QED
    BY <2>1, <1>3, FS_EmptySet DEF Due
<1> QED
  BY <1>2, <1>3

\* Nothing is due in an empty stream.
LEMMA DueOfNone ==
    Due(<<>>) = 0
<1>1. Questionnaire(<<>>) = {}
  BY DEF Questionnaire
<1> QED
  BY <1>1, FS_EmptySet DEF Due

\* A board is itself a question: a stream in which nothing is due shows none.
LEMMA NothingDue ==
    ASSUME NEW S, NEW s \in Seq(S), Due(s) = 0, NEW v
    PROVE  Shows(s, v)
<1>1. Questionnaire(s) = {}
  BY DueType, FS_EmptySet DEF Due
<1> QED
  BY <1>1 DEF Questionnaire, Shows, Asking, Questions

\* The client takes the first packet of its stream.
LEMMA Taking ==
    ASSUME NEW S, NEW s \in Seq(S), s # <<>>
    PROVE  /\ Head(s) \in S /\ Tail(s) \in Seq(S) /\ Len(Tail(s)) = Len(s) - 1 /\ Len(s) \in Nat \ {0}
           /\ Head(s) = s[1]
           /\ \A i \in 1..Len(Tail(s)) : i + 1 \in 1..Len(s) /\ Tail(s)[i] = s[i + 1]
           /\ Due(s) = Due(Tail(s)) + IF Head(s).type \in Asking THEN 1 ELSE 0
<1>1. /\ Head(s) \in S /\ Tail(s) \in Seq(S) /\ Len(Tail(s)) = Len(s) - 1 /\ Len(s) \in Nat \ {0}
      /\ Head(s) = s[1]
      /\ \A i \in 1..Len(Tail(s)) : i + 1 \in 1..Len(s) /\ Tail(s)[i] = s[i + 1]
  BY HeadTailProperties
<1>2. s = <<Head(s)>> \o Tail(s)
  OBVIOUS
<1>3. <<Head(s)>> \in Seq(S)
  BY <1>1
<1>4. Due(s) = Due(<<Head(s)>>) + Due(Tail(s))
  BY <1>1, <1>2, <1>3, DueOfConcat
<1>5. Due(Tail(s)) \in Nat
  BY <1>1, DueType
<1> QED
  BY <1>1, <1>4, <1>5, DueOfOne

-----------------------------------------------------------------------------
(* What the server sends in a step.                                        *)

\* Packets that ask for k answers, none of which ends the client, and in which
\* a board is version v of it.
Carries(p, k, v) == p \in Seq(Packages) /\ Due(p) = k /\ ~ Ends(p) /\ Shows(p, v)

\* No packet asks for no answer.
LEMMA CarriesNone ==
    ASSUME NEW v
    PROVE  Carries(<<>>, 0, v)
BY DueOfNone DEF Carries, Ends, Shows

\* One packet: it asks for one answer or none, by its type.
LEMMA CarriesOne ==
    ASSUME NEW type \in Plain \union Asking, NEW val \in Vals, NEW v,
           type = "BoardState" => val = v
    PROVE  Carries(<<Pkg(type, val)>>, IF type \in Asking THEN 1 ELSE 0, v)
<1>0. type # "Disconnect"
  BY DEF Plain, Asking, Questions, Echoes
<1>1. Pkg(type, val) \in Packages /\ Pkg(type, val).type = type /\ Pkg(type, val).val = val
  BY DEF Packages, Pkg
<1> HIDE DEF Pkg, Packages
<1>2. Due(<<Pkg(type, val)>>) = IF type \in Asking THEN 1 ELSE 0
  BY <1>1, DueOfOne
<1>3. <<Pkg(type, val)>> \in Seq(Packages) /\ Len(<<Pkg(type, val)>>) = 1
      /\ <<Pkg(type, val)>>[1] = Pkg(type, val)
  BY <1>1
<1> QED
  BY <1>0, <1>1, <1>2, <1>3 DEF Carries, Ends, Shows

\* Packets followed by others ask for the answers of both.
LEMMA CarriesConcat ==
    ASSUME NEW v, NEW p, NEW j, NEW q, NEW k, Carries(p, j, v), Carries(q, k, v)
    PROVE  Carries(p \o q, j + k, v)
<1>1. p \in Seq(Packages) /\ q \in Seq(Packages) /\ Due(p) = j /\ Due(q) = k
  BY DEF Carries
<1>2. p \o q \in Seq(Packages) /\ Due(p \o q) = j + k
  BY <1>1, ConcatProperties, DueOfConcat
<1>3. ~ Ends(p \o q) /\ Shows(p \o q, v)
  BY <1>1, PlacesOfConcat DEF Carries
<1> QED
  BY <1>2, <1>3 DEF Carries

\* The values that packets carry.
LEMMA ValsKnown ==
    /\ Blank \in Vals
    /\ \A x \in Int : x \in Vals
    /\ \A x \in Nicknames \union {"none"} : x \in Vals
    /\ \A x \in Nat, y \in Nat : <<x, y>> \in Vals
BY DEF Vals

\* A packet that is only shown asks for no answer, and shows no board.
LEMMA CarriesPlain ==
    ASSUME NEW type \in Plain, NEW val \in Vals, NEW v
    PROVE  Carries(<<Pkg(type, val)>>, 0, v)
<1>1. type # "BoardState" /\ type \notin Asking
  BY DEF Plain, Asking, Questions, Echoes
<1>2. Carries(<<Pkg(type, val)>>, IF type \in Asking THEN 1 ELSE 0, v)
  BY <1>1, CarriesOne
<1> QED
  BY <1>1, <1>2

\* A question other than the board, or a packet that is echoed, asks for one answer.
LEMMA CarriesQuestion ==
    ASSUME NEW type \in {"AskNickname", "AskNewGame", "ErrBadPkg", "Image"}, NEW v
    PROVE  Carries(<<Pkg(type, Blank)>>, 1, v)
<1>1. type # "BoardState" /\ type \in Asking
  BY DEF Asking, Questions, Echoes
<1>2. Carries(<<Pkg(type, Blank)>>, IF type \in Asking THEN 1 ELSE 0, v)
  BY <1>1, CarriesOne, ValsKnown
<1> QED
  BY <1>1, <1>2

\* The board as it is now asks for one answer.
LEMMA CarriesBoard ==
    ASSUME NEW v \in Nat
    PROVE  Carries(<<Pkg("BoardState", v)>>, 1, v)
<1>1. "BoardState" \in Asking /\ v \in Vals
  BY ValsKnown DEF Asking, Questions
<1> DEFINE type == "BoardState"
<1>2. type \in Plain \union Asking /\ (type = "BoardState" => v = v)
  BY <1>1
<1> HIDE DEF type
<1>3. Carries(<<Pkg(type, v)>>, IF type \in Asking THEN 1 ELSE 0, v)
  BY <1>1, <1>2, CarriesOne
<1> QED
  BY <1>1, <1>3 DEF type

\* Each client that lives gets what the server sends it in a step.
Sent(pkgs) ==
    /\ s2c' \in [Clients -> Seq(Packages)]
    /\ \A c \in Clients : ~ Died(c) => s2c'[c] = s2c[c] \o pkgs[c]

\* What is kept of the packets sent to a dead client is a packet as well.
LEMMA GarbageIsPackage ==
    <<Pkg("Garbage", Blank)>> \in Seq(Packages)
<1>1. "Garbage" \in Plain
  BY DEF Plain
<1>2. Carries(<<Pkg("Garbage", Blank)>>, 0, 0)
  BY <1>1, CarriesPlain, ValsKnown
<1> QED
  BY <1>2 DEF Carries

\* sendMessage to both clients, and to one of them: who lives gets what was sent.
LEMMA SendsBoth ==
    ASSUME Streams, NEW pkgs, \A c \in Clients : pkgs[c] \in Seq(Packages), SendBoth(pkgs)
    PROVE  Sent(pkgs)
<1>1. \A c \in Clients : s2c[c] \o pkgs[c] \in Seq(Packages)
  BY ConcatProperties DEF Streams
<1>2. <<Pkg("Garbage", Blank)>> \in Seq(Packages)
  BY GarbageIsPackage
<1>3. \A c \in Clients : Unread(c, pkgs[c]) \in Seq(Packages)
  BY <1>1, <1>2 DEF Unread
<1> QED
  BY <1>3 DEF Sent, SendBoth, Unread

\* sendMessage to one client leaves the stream of the other as it was.
LEMMA SendsOne ==
    ASSUME Streams, NEW d \in Clients, NEW p \in Seq(Packages), SendTo(d, p)
    PROVE  Sent([c \in Clients |-> IF c = d THEN p ELSE <<>>])
<1> DEFINE pkgs == [c \in Clients |-> IF c = d THEN p ELSE <<>>]
<1>1. s2c \in [Clients -> Seq(Packages)] /\ s2c[d] \o p \in Seq(Packages)
  BY ConcatProperties DEF Streams
<1>2. <<Pkg("Garbage", Blank)>> \in Seq(Packages)
  BY GarbageIsPackage
<1>3. Unread(d, p) \in Seq(Packages)
  BY <1>1, <1>2 DEF Unread
<1>4. s2c' \in [Clients -> Seq(Packages)]
  BY <1>1, <1>3 DEF SendTo
<1>5. ASSUME NEW c \in Clients, ~ Died(c) PROVE s2c'[c] = s2c[c] \o pkgs[c]
  <2>1. CASE c = d
    BY <2>1, <1>1, <1>5 DEF SendTo, Unread
  <2>2. CASE c # d
    <3>1. s2c[c] \o <<>> = s2c[c]
      BY <1>1, ConcatEmptySeq
    <3> QED
      BY <2>2, <1>1, <3>1 DEF SendTo
  <2> QED
    BY <2>1, <2>2
<1> QED
  BY <1>4, <1>5 DEF Sent

-----------------------------------------------------------------------------
(* A step in which the server reads the message it waits for.              *)

\* Whose packet the server waits for, by where it is.
LEMMA AwaitedIs ==
    ASSUME Values
    PROVE  /\ Awaited \in Clients
           /\ pc \in {"conn0", "nick0"} => Awaited = 0
           /\ pc \in {"conn1", "nick1"} => Awaited = 1
           /\ pc = "again_other" => Awaited = Other(n_socket)
           /\ pc \notin {"conn0", "nick0", "conn1", "nick1", "again_other"} => Awaited = n_socket
BY DEF Values, Awaited, Other, Clients

\* Once both are greeted nobody is unconnected.
LEMMA NoneOff ==
    ASSUME Agreement, Running, pc \notin {"conn0", "conn1"}
    PROVE  \A c \in Clients : client[c] # "off"
BY DEF Agreement, Agreed, Unconnected

\* What a step adds to the answers due from c, one answer of it being read.
Reads(c) == IF c = Awaited THEN 1 ELSE 0
Gain(c) == Owed(c)' + images'[c] - Owed(c) - images[c] + Reads(c)

\* What is due and what is owed change by the same amount.
LEMMA Balance ==
    ASSUME NEW due \in Nat, NEW len \in Nat, NEW owed \in Nat, NEW served \in Nat, NEW read \in Nat,
           NEW owing \in Nat, NEW serving \in Nat, due + len = owed + served
    PROVE  (due + (owing + serving - owed - served + read)) + (len - read) = owing + serving
OBVIOUS

\* The server reads a message and sends packets: the invariant holds again when
\* each client is sent as many questions as the step adds, with the board as it
\* is, and the turn stays where it was or goes to one whose stream is used up.
LEMMA ServeIInv ==
    ASSUME IInv, Running, Receive(Awaited), client' = client, Values', NEW pkgs, Sent(pkgs),
           \A c \in Clients : images[c] <= images'[c],
           \A c \in Clients : Running' /\ client[c] = "on" => Carries(pkgs[c], Gain(c), version'),
           \A c \in Clients : Running' /\ client[c] = "off" =>
              /\ pkgs[c] = <<>> /\ images'[c] = images[c]
              /\ pc' = "conn0" \/ (c = 1 /\ pc' = "conn1"),
           pc' = "turn" =>
              \/ pc = "turn" /\ n_socket' = n_socket /\ version' = version
              \/ images' = images /\ Owed(n_socket') = Reads(n_socket')
    PROVE  IInv'
<1>1. Values /\ Streams /\ Agreement /\ Fresh
  BY DEF IInv
<1>2. Awaited \in Clients
  BY <1>1, AwaitedIs
<1> DEFINE a == Awaited
<1>3. /\ c2s \in [Clients -> Seq(Messages)] /\ a \in Clients
      /\ c2s[a] # <<>> /\ c2s' = [c2s EXCEPT ![a] = Tail(c2s[a])]
  BY <1>1, <1>2 DEF Streams, Receive
<1>4. /\ Tail(c2s[a]) \in Seq(Messages) /\ Len(Tail(c2s[a])) = Len(c2s[a]) - 1
      /\ Len(c2s[a]) \in Nat \ {0}
      /\ \A i \in 1..Len(Tail(c2s[a])) :
            i + 1 \in 1..Len(c2s[a]) /\ Tail(c2s[a])[i] = c2s[a][i + 1]
  BY <1>3, Taking
<1> HIDE DEF a
<1>5. /\ c2s' \in [Clients -> Seq(Messages)] /\ c2s'[a] = Tail(c2s[a])
      /\ \A c \in Clients : c # a => c2s'[c] = c2s[c]
  BY <1>3, <1>4
<1>6. ASSUME NEW c \in Clients, NEW i \in 1..Len(c2s'[c])
      PROVE  \E j \in 1..Len(c2s[c]) : c2s'[c][i] = c2s[c][j]
  <2>1. CASE c = a
    BY <2>1, <1>4, <1>5, <1>6
  <2>2. CASE c # a
    BY <2>2, <1>5, <1>6
  <2> QED
    BY <2>1, <2>2
<1>7. Streams'
  <2>1. s2c' \in [Clients -> Seq(Packages)]
    BY DEF Sent
  <2>2. ASSUME NEW c \in Clients PROVE Sends(c2s[c], Died(c)) /\ (Died(c)' <=> Died(c))
    BY <1>1 DEF Streams, Died
  <2>3. ASSUME NEW c \in Clients PROVE Sends(c2s'[c], Died(c)')
    BY <2>2, <1>6 DEF Sends
  <2> QED
    BY <2>1, <2>3, <1>5 DEF Streams, Clients, Messages, Packages, Vals, Texts, Blank, Typed, Requests,
         Plain, Asking, Questions, Echoes
<1>8. ASSUME NEW c \in Clients, client[c] = "on", Running'
      PROVE  /\ Agreed(c)' /\ s2c'[c] = s2c[c] \o pkgs[c] /\ Carries(pkgs[c], Gain(c), version')
             /\ s2c[c] \in Seq(Packages) /\ pkgs[c] \in Seq(Packages) /\ Connected(c)
  <2>1. Connected(c)
    BY <1>1, <1>8 DEF Agreement, Agreed
  <2>2. Carries(pkgs[c], Gain(c), version')
    BY <1>8
  <2>3. s2c'[c] = s2c[c] \o pkgs[c]
    BY <1>8 DEF Sent, Died
  <2>4. s2c[c] \in Seq(Packages) /\ pkgs[c] \in Seq(Packages) /\ Due(pkgs[c]) = Gain(c)
        /\ ~ Ends(pkgs[c]) /\ ~ Ends(s2c[c])
    BY <1>1, <2>1, <2>2 DEF Streams, Carries, Connected
  <2>5. Due(s2c'[c]) = Due(s2c[c]) + Gain(c) /\ Due(s2c[c]) \in Nat
    BY <2>3, <2>4, DueOfConcat, DueType
  <2>6. Len(c2s'[c]) = Len(c2s[c]) - Reads(c) /\ Len(c2s[c]) \in Nat
    BY <1>3, <1>4, <1>5 DEF Reads, a
  <2>7. Owed(c) \in Nat /\ Owed(c)' \in Nat /\ images[c] \in Nat /\ images'[c] \in Nat /\ Reads(c) \in Nat
    BY <1>1 DEF Values, Owed, Reads
  <2>8. Due(s2c[c]) + Len(c2s[c]) = Owed(c) + images[c]
    BY <2>1 DEF Connected
  <2>9. Due(s2c'[c]) + Len(c2s'[c]) = Owed(c)' + images'[c]
    <3>1. Gain(c) = Owed(c)' + images'[c] - Owed(c) - images[c] + Reads(c)
      BY DEF Gain
    <3> DEFINE due == Due(s2c[c])
               len == Len(c2s[c])
               owed == Owed(c)
               served == images[c]
               owing == Owed(c)'
               serving == images'[c]
               read == Reads(c)
    <3>2. /\ due \in Nat /\ len \in Nat /\ owed \in Nat /\ served \in Nat /\ owing \in Nat
          /\ serving \in Nat /\ read \in Nat /\ due + len = owed + served
      BY <2>5, <2>6, <2>7, <2>8
    <3>3. Due(s2c'[c]) = due + (owing + serving - owed - served + read) /\ Len(c2s'[c]) = len - read
      BY <2>5, <2>6, <3>1
    <3> HIDE DEF due, len, owed, served, owing, serving, read
    <3>4. (due + (owing + serving - owed - served + read)) + (len - read) = owing + serving
      BY <3>2, Balance
    <3>5. Due(s2c'[c]) + Len(c2s'[c]) = owing + serving
      BY <3>3, <3>4
    <3> QED
      BY <3>5 DEF owing, serving
  <2>10. ~ Ends(s2c'[c])
    BY <2>3, <2>4, PlacesOfConcat
  <2>11. Connected(c)'
    BY <2>9, <2>10 DEF Connected, Due, Questionnaire, Asking, Questions, Echoes, Ends
  <2> QED
    BY <2>1, <2>2, <2>3, <2>4, <2>11, <1>8 DEF Agreed
<1>9. Agreement'
  <2> SUFFICES ASSUME Running', NEW c \in Clients PROVE Agreed(c)'
    BY DEF Agreement, Clients
  <2>1. client[c] \notin {"exited", "lost"} /\ (client[c] = "off" => Unconnected(c))
    BY <1>1 DEF Agreement, Agreed
  <2>2. CASE client[c] = "on"
    BY <2>2, <1>8
  <2>3. CASE client[c] = "off"
    <3>1. Unconnected(c) /\ c # a
      BY <2>1, <2>3, <1>3 DEF Unconnected
    <3>2. s2c'[c] = <<>>
      <4>1. s2c'[c] = s2c[c] \o pkgs[c] /\ pkgs[c] = <<>> /\ s2c[c] = <<>>
        BY <2>3, <3>1 DEF Sent, Died, Unconnected
      <4> QED
        BY <4>1
    <3>3. c2s'[c] = <<>> /\ images'[c] = 0
      BY <3>1, <2>3, <1>5 DEF Unconnected
    <3> QED
      BY <2>1, <2>3, <3>2, <3>3 DEF Agreed, Unconnected
  <2> QED
    BY <2>1, <2>2, <2>3 DEF Agreed
<1>10. Fresh'
  <2>0. PICK n \in Clients : n = n_socket'
    BY DEF Values, Clients
  <2> SUFFICES ASSUME pc' = "turn", client'[n] = "on", images'[n] = 0
               PROVE  Shows(s2c'[n], version') /\ Moved(c2s'[n], version')
    BY <2>0 DEF Fresh, Shows, Moved
  <2>1. n \in Clients /\ Running' /\ client[n] = "on"
    BY <2>0 DEF Running
  <2>2. /\ s2c'[n] = s2c[n] \o pkgs[n] /\ Carries(pkgs[n], Gain(n), version')
        /\ s2c[n] \in Seq(Packages) /\ pkgs[n] \in Seq(Packages) /\ Connected(n)
    BY <2>1, <1>8
  <2>3. images[n] = 0
    BY <2>1, <1>1 DEF Values
  <2>4. Shows(s2c[n], version') /\ Moved(c2s'[n], version')
    <3>1. CASE pc = "turn" /\ n = n_socket /\ version' = version
      <4>1. Shows(s2c[n], version) /\ Moved(c2s[n], version)
        BY <3>1, <2>1, <2>3, <1>1 DEF Fresh
      <4>2. Moved(c2s'[n], version)
        BY <4>1, <2>1, <1>6 DEF Moved
      <4> QED
        BY <4>1, <4>2, <3>1
    <3>2. CASE Owed(n) = Reads(n)
      <4>1. Due(s2c[n]) \in Nat /\ Len(c2s[n]) \in Nat /\ Len(c2s'[n]) \in Nat
        BY <2>1, <2>2, <1>3, <1>5, DueType
      <4>2. Due(s2c[n]) + Len(c2s[n]) = Reads(n)
        BY <2>2, <2>3, <3>2, <4>1 DEF Connected, Reads
      <4>3. Len(c2s'[n]) = Len(c2s[n]) - Reads(n) /\ Len(c2s'[n]) >= 0
        BY <1>3, <1>4, <1>5, <2>1, <4>1 DEF Reads, a
      <4>4. Due(s2c[n]) = 0 /\ Len(c2s'[n]) = 0
        BY <4>1, <4>2, <4>3 DEF Reads
      <4> QED
        BY <4>4, <2>2, NothingDue DEF Moved
    <3> QED
      BY <2>0, <3>1, <3>2
  <2>5. Shows(s2c'[n], version')
    BY <2>2, <2>4, PlacesOfConcat DEF Carries
  <2> QED
    BY <2>4, <2>5
<1> QED
  BY <1>7, <1>9, <1>10 DEF IInv

\* After the greetings the server owes itself the answer it waits for and no other.
LEMMA GainIs ==
    ASSUME Values, Values', pc \notin {"conn0", "nick0"}, NEW c \in Clients
    PROVE  Owed(c) = Reads(c) /\ Gain(c) = Owed(c)' + images'[c] - images[c]
<1>1. Owed(c) = Reads(c) /\ Reads(c) \in Nat
  BY DEF Owed, Reads
<1>2. Owed(c)' \in Nat
  BY DEF Owed
<1>3. images[c] \in Nat /\ images'[c] \in Nat
  BY DEF Values
<1> DEFINE owed == Owed(c)
           owing == Owed(c)'
<1>4. Gain(c) = owing + images'[c] - owed - images[c] + Reads(c)
  BY DEF Gain
<1>5. owed = Reads(c) /\ owing \in Nat
  BY <1>1, <1>2
<1> HIDE DEF owed, owing
<1>6. Gain(c) = owing + images'[c] - images[c]
  BY <1>1, <1>3, <1>4, <1>5
<1> QED
  BY <1>1, <1>6 DEF owing

\* A step of a turn, or of what follows it: nobody is unconnected.
LEMMA TurnIInv ==
    ASSUME IInv, Running, pc \notin {"conn0", "conn1", "nick0"}, Receive(Awaited), client' = client,
           Values', NEW pkgs, Sent(pkgs), \A c \in Clients : images[c] <= images'[c],
           \A c \in Clients : Running' /\ client[c] = "on" =>
              Carries(pkgs[c], Owed(c)' + images'[c] - images[c], version'),
           pc' = "turn" =>
              \/ pc = "turn" /\ n_socket' = n_socket /\ version' = version
              \/ images' = images
    PROVE  IInv'
<1>1. Values /\ Agreement
  BY DEF IInv
<1>2. \A c \in Clients : client[c] # "off"
  BY <1>1, NoneOff
<1>3. \A c \in Clients : Running' /\ client[c] = "on" => Carries(pkgs[c], Gain(c), version')
  BY <1>1, GainIs
<1>4. pc' = "turn" => \/ pc = "turn" /\ n_socket' = n_socket /\ version' = version
                      \/ images' = images /\ Owed(n_socket') = Reads(n_socket')
  <2>1. n_socket' \in Clients
    BY DEF Values
  <2> QED
    BY <2>1, <1>1, GainIs
<1> QED
  BY <1>2, <1>3, <1>4, ServeIInv

\* The answer leads to no move: a reply that asks for k answers, which are counted
\* as images, and the board once more.
LEMMA AgainIInv ==
    ASSUME IInv, NEW type, NEW reply \in Seq(Packages), NEW k \in Nat, Again(type, reply),
           images' = [images EXCEPT ![n_socket] = @ + k], msgs' = msgs,
           client[n_socket] = "on" => Carries(reply, k, version)
    PROVE  IInv'
<1>1. Values /\ Streams
  BY DEF IInv
<1>2. pc = "turn" /\ Receive(n_socket) /\ UNCHANGED <<server, client>> /\ n_socket \in Clients
      /\ version \in Nat
  BY <1>1 DEF Again, Turn, Values
<1>3. Running /\ Receive(Awaited) /\ pc \notin {"conn0", "conn1", "nick0"}
  BY <1>1, <1>2, AwaitedIs DEF Running
<1>4. images[n_socket] \in Nat /\ images'[n_socket] = images[n_socket] + k
      /\ (\A c \in Clients : c # n_socket => images'[c] = images[c] /\ images[c] \in Nat)
      /\ images' \in [Clients -> Nat]
  BY <1>1, <1>2 DEF Values
<1>5. Values'
  BY <1>1, <1>2, <1>4 DEF Values, server, Clients
<1> DEFINE p == reply \o <<Pkg("BoardState", version)>>
           pkgs == [c \in Clients |-> IF c = n_socket THEN p ELSE <<>>]
<1>6. Carries(<<Pkg("BoardState", version)>>, 1, version)
  BY <1>2, CarriesBoard
<1>7. p \in Seq(Packages)
  BY <1>6, ConcatProperties DEF Carries
<1>8. SendTo(n_socket, p)
  BY DEF Again
<1> HIDE DEF p
<1>9. Sent(pkgs)
  BY <1>1, <1>2, <1>7, <1>8, SendsOne
<1>10. pc' = "turn" /\ n_socket' = n_socket /\ version' = version /\ client' = client
  BY <1>2 DEF server
<1>11. \A c \in Clients : Owed(c)' = IF c = n_socket THEN 1 ELSE 0
  BY <1>10 DEF Owed, Awaited
<1>12. ASSUME NEW c \in Clients, client[c] = "on"
       PROVE  Carries(pkgs[c], Owed(c)' + images'[c] - images[c], version')
  <2>1. CASE c = n_socket
    <3>1. Carries(p, k + 1, version)
      BY <1>6, <1>12, <2>1, CarriesConcat DEF p
    <3>2. Owed(c)' + images'[c] - images[c] = k + 1
      <4>1. Owed(c)' = 1
        BY <1>11, <2>1
      <4> QED
        BY <4>1, <2>1, <1>4
    <3> QED
      BY <3>1, <3>2, <2>1, <1>2, <1>10
  <2>2. CASE c # n_socket
    <3>1. Owed(c)' + images'[c] - images[c] = 0
      <4>1. Owed(c)' = 0
        BY <1>11, <2>2
      <4> QED
        BY <4>1, <2>2, <1>4
    <3> QED
      BY <3>1, <2>2, CarriesNone
  <2> QED
    BY <2>1, <2>2
<1>13. \A c \in Clients : images[c] <= images'[c]
  BY <1>4
<1> HIDE DEF pkgs
<1> QED
  BY <1>2, <1>3, <1>5, <1>9, <1>10, <1>12, <1>13, TurnIInv

\* Every reply of a turn that leads to no move.
LEMMA NoMoveIInv ==
    ASSUME IInv,
           \/ ServerTurnGreeting \/ ServerTurnImage \/ ServerTurnAnswer
           \/ ServerTurnBadPackage \/ ServerTurnBadMove
    PROVE  IInv'
<1>1. Values /\ Streams
  BY DEF IInv
<1>2. n_socket \in Clients /\ images \in [Clients -> Nat] /\ Len(c2s[n_socket]) \in Nat
      /\ images[n_socket] = images[n_socket] + 0
  BY <1>1 DEF Values, Streams
<1>3. images = [images EXCEPT ![n_socket] = @ + 0]
  BY <1>2
<1>4. ASSUME NEW type \in Plain PROVE Carries(<<Pkg(type, Blank)>>, 0, version)
  BY <1>4, CarriesPlain, ValsKnown
<1>5. CASE ServerTurnGreeting
  <2>1. Carries(<<Pkg("ConnectionEstablished", Blank)>>, 0, version)
    BY <1>4 DEF Plain
  <2>2. <<Pkg("ConnectionEstablished", Blank)>> \in Seq(Packages)
    BY <2>1 DEF Carries
  <2> QED
    BY <2>1, <2>2, <1>3, <1>5, AgainIInv DEF ServerTurnGreeting, history
<1>6. CASE ServerTurnImage
  <2>1. Carries(<<Pkg("Image", Blank)>>, 1, version)
    BY CarriesQuestion
  <2>2. <<Pkg("Image", Blank)>> \in Seq(Packages)
    BY <2>1 DEF Carries
  <2> QED
    BY <2>1, <2>2, <1>6, AgainIInv DEF ServerTurnImage
<1>7. CASE ServerTurnAnswer
  <2>1. Carries(<<Pkg("StartConnection", Blank)>>, 0, version)
    BY <1>4 DEF Plain
  <2>2. <<Pkg("StartConnection", Blank)>> \in Seq(Packages)
    BY <2>1 DEF Carries
  <2> QED
    BY <2>1, <2>2, <1>3, <1>7, AgainIInv DEF ServerTurnAnswer, history
<1>8. CASE ServerTurnBadPackage
  <2>1. client[n_socket] # "on"
    <3>1. c2s[n_socket] # <<>> /\ Head(c2s[n_socket]).type = "Garbage"
      BY <1>8 DEF ServerTurnBadPackage, Again, Turn, Receive, Packet
    <3>2. Head(c2s[n_socket]) = c2s[n_socket][1] /\ 1 \in 1..Len(c2s[n_socket])
      BY <1>1, <1>2, <3>1 DEF Streams
    <3>3. Sends(c2s[n_socket], Died(n_socket))
      BY <1>1, <1>2 DEF Streams
    <3> QED
      BY <3>1, <3>2, <3>3 DEF Sends, Requests, Died
  <2>2. <<Pkg("ErrBadPkg", Blank)>> \in Seq(Packages)
    BY CarriesQuestion DEF Carries
  <2> QED
    BY <2>1, <2>2, <1>3, <1>8, AgainIInv DEF ServerTurnBadPackage, history
<1>9. CASE ServerTurnBadMove
  <2>1. Carries(<<Pkg("ErrMove", Blank)>>, 0, version)
    BY <1>4 DEF Plain
  <2>2. <<Pkg("ErrMove", Blank)>> \in Seq(Packages)
    BY <2>1 DEF Carries
  <2> QED
    BY <2>1, <2>2, <1>3, <1>9, AgainIInv DEF ServerTurnBadMove, history
<1> QED
  BY <1>5, <1>6, <1>7, <1>8, <1>9

-----------------------------------------------------------------------------
(* The other steps of the server, one lemma for each.                       *)

\* A step that serves no image.
LEMMA PlainTurnIInv ==
    ASSUME IInv, Running, pc \notin {"conn0", "conn1", "nick0"}, Receive(Awaited), client' = client,
           Values', NEW pkgs, Sent(pkgs), images' = images,
           \A c \in Clients : Running' /\ client[c] = "on" => Carries(pkgs[c], Owed(c)', version')
    PROVE  IInv'
<1>1. images \in [Clients -> Nat]
  BY DEF IInv, Values
<1>2. ASSUME NEW c \in Clients, Running', client[c] = "on"
      PROVE  Carries(pkgs[c], Owed(c)' + images'[c] - images[c], version')
  <2>1. Owed(c)' \in Nat
    BY DEF Owed
  <2> DEFINE owing == Owed(c)'
  <2>2. Carries(pkgs[c], owing, version') /\ owing \in Nat
    BY <1>2, <2>1
  <2> HIDE DEF owing
  <2>3. owing + images'[c] - images[c] = owing
    BY <1>1, <2>2
  <2>4. Carries(pkgs[c], owing + images'[c] - images[c], version')
    BY <2>2, <2>3
  <2> QED
    BY <2>4 DEF owing
<1>3. \A c \in Clients : images[c] <= images'[c]
  BY <1>1
<1> QED
  BY <1>2, <1>3, TurnIInv

\* A message for the opponent: the sender is asked again if the server survives.
LEMMA MsgIInv ==
    ASSUME IInv, ServerTurnMsg
    PROVE  IInv'
<1>1. Values /\ Streams
  BY DEF IInv
<1>2. PICK next \in {"turn", "crashed"} :
         /\ pc' = next
         /\ SendBoth([c \in Clients |->
                IF c # n_socket THEN <<Pkg("SpreadMsg", Blank)>>
                ELSE <<Pkg("Garbage", Blank)>>
                     \o IF next = "turn" THEN <<Pkg("BoardState", version)>> ELSE <<>>])
  BY DEF ServerTurnMsg
<1> DEFINE own == <<Pkg("Garbage", Blank)>>
                  \o IF next = "turn" THEN <<Pkg("BoardState", version)>> ELSE <<>>
           pkgs == [c \in Clients |-> IF c # n_socket THEN <<Pkg("SpreadMsg", Blank)>> ELSE own]
<1>3. /\ pc = "turn" /\ Receive(n_socket) /\ msgs' = [msgs EXCEPT ![n_socket] = @ + 1]
      /\ UNCHANGED <<n_socket, nickname, score, version, moves, games, aux_play_again, images, client>>
  BY DEF ServerTurnMsg, Turn
<1>4. Running /\ Receive(Awaited) /\ pc \notin {"conn0", "conn1", "nick0"} /\ version \in Nat
  BY <1>1, <1>3, AwaitedIs DEF Running, Values
<1>5. Values'
  BY <1>1, <1>2, <1>3 DEF Values
<1>6. Carries(own, IF next = "turn" THEN 1 ELSE 0, version)
  <2>1. Carries(<<Pkg("Garbage", Blank)>>, 0, version)
    BY CarriesPlain, ValsKnown DEF Plain
  <2>2. CASE next = "turn"
    <3>1. Carries(<<Pkg("BoardState", version)>>, 1, version)
      BY <1>4, CarriesBoard
    <3> HIDE DEF Pkg
    <3> QED
      BY <2>1, <2>2, <3>1, CarriesConcat, 0 + 1 = 1
  <2>3. CASE next # "turn"
    <3>1. Carries(<<>>, 0, version)
      BY CarriesNone
    <3> HIDE DEF Pkg
    <3> QED
      BY <2>1, <2>3, <3>1, CarriesConcat, 0 + 0 = 0
  <2> QED
    BY <2>2, <2>3
<1>7. Carries(<<Pkg("SpreadMsg", Blank)>>, 0, version)
  BY CarriesPlain, ValsKnown DEF Plain
<1>8. \A c \in Clients : pkgs[c] = IF c # n_socket THEN <<Pkg("SpreadMsg", Blank)>> ELSE own
  OBVIOUS
<1>9. SendBoth(pkgs)
  BY <1>2
<1> HIDE DEF pkgs, own
<1>10. Sent(pkgs)
  BY <1>1, <1>6, <1>7, <1>8, <1>9, SendsBoth DEF Carries
<1>11. ASSUME NEW c \in Clients, Running', client[c] = "on"
       PROVE  Carries(pkgs[c], Owed(c)', version')
  <2>1. next = "turn"
    BY <1>2, <1>11 DEF Running
  <2>2. Owed(c)' = IF c = n_socket THEN 1 ELSE 0
    BY <1>2, <1>3, <2>1 DEF Owed, Awaited
  <2> QED
    BY <1>3, <1>6, <1>7, <1>8, <2>1, <2>2
<1> QED
  BY <1>3, <1>4, <1>5, <1>10, <1>11, PlainTurnIInv

\* The server's last packet: nothing else is said of a stream once it has stopped.
LEMMA LastIInv ==
    ASSUME IInv, ServerTurnDisconnect \/ ServerClose
    PROVE  IInv'
<1>1. Values /\ Streams
  BY DEF IInv
<1>2. /\ Running /\ pc \notin {"conn0", "conn1", "nick0"} /\ Receive(Awaited) /\ pc' = "stopped"
      /\ UNCHANGED <<n_socket, nickname, score, version, moves, games, aux_play_again, history, client>>
  BY <1>1, AwaitedIs DEF ServerTurnDisconnect, ServerClose, Turn, Running
<1>3. Values'
  BY <1>1, <1>2 DEF Values, history
<1>4. <<Pkg("Disconnect", Blank)>> \in Seq(Packages) /\ <<>> \in Seq(Packages)
  BY ValsKnown DEF Pkg, Packages
<1>5. PICK told \in [Clients -> BOOLEAN] :
         SendBoth([c \in Clients |-> IF told[c] THEN <<Pkg("Disconnect", Blank)>> ELSE <<>>])
  <2> DEFINE all == [c \in Clients |-> IsTold(c)]
             some == [c \in Clients |-> c \in {n_socket, n_socket - 1}]
  <2>1. CASE ServerTurnDisconnect
    <3>1. all \in [Clients -> BOOLEAN]
      BY DEF IsTold
    <3>2. SendBoth([c \in Clients |-> IF all[c] THEN <<Pkg("Disconnect", Blank)>> ELSE <<>>])
      BY <2>1 DEF ServerTurnDisconnect, SendBoth
    <3> QED
      BY <3>1, <3>2
  <2>2. CASE ServerClose
    <3>1. some \in [Clients -> BOOLEAN]
      OBVIOUS
    <3>2. SendBoth([c \in Clients |-> IF some[c] THEN <<Pkg("Disconnect", Blank)>> ELSE <<>>])
      BY <2>2 DEF ServerClose, SendBoth
    <3> QED
      BY <3>1, <3>2
  <2> QED
    BY <2>1, <2>2
<1> DEFINE pkgs == [c \in Clients |-> IF told[c] THEN <<Pkg("Disconnect", Blank)>> ELSE <<>>]
<1>6. \A c \in Clients : pkgs[c] \in Seq(Packages)
  BY <1>4
<1>7. SendBoth(pkgs)
  BY <1>5
<1> HIDE DEF pkgs
<1>8. Sent(pkgs)
  BY <1>1, <1>6, <1>7, SendsBoth
<1>9. ~ Running' /\ images' = images /\ client' = client
  BY <1>2 DEF Running, history
<1> QED
  BY <1>2, <1>3, <1>8, <1>9, PlainTurnIInv

\* A move: the opponent, who owed no answer, is shown the new board.
LEMMA MoveIInv ==
    ASSUME IInv, ServerTurnMove
    PROVE  IInv'
<1>1. Values /\ Streams
  BY DEF IInv
<1>2. /\ pc = "turn" /\ Receive(n_socket) /\ moves < MaxMoves
      /\ moves' = moves + 1 /\ version' = version + 1 /\ n_socket' = Other(n_socket)
      /\ UNCHANGED <<pc, nickname, score, games, aux_play_again, history, client>>
      /\ n_socket \in Clients
  BY <1>1 DEF ServerTurnMove, LegalMove, Turn, NextSocket, Values
<1>3. Running /\ Receive(Awaited) /\ pc \notin {"conn0", "conn1", "nick0"}
  BY <1>1, <1>2, AwaitedIs DEF Running
<1>4. Values' /\ version' \in Nat
  BY <1>1, <1>2, BoundsAssumption DEF Values, history, Other, Clients
<1> DEFINE pkgs == [c \in Clients |->
               IF c = n_socket THEN <<Pkg("OkMove", Blank)>> ELSE <<Pkg("BoardState", version')>>]
<1>5. Carries(<<Pkg("OkMove", Blank)>>, 0, version') /\ Carries(<<Pkg("BoardState", version')>>, 1, version')
  BY <1>4, CarriesPlain, CarriesBoard, ValsKnown DEF Plain
<1>6. SendBoth(pkgs)
  BY DEF ServerTurnMove
<1>7. \A c \in Clients :
         pkgs[c] = IF c = n_socket THEN <<Pkg("OkMove", Blank)>> ELSE <<Pkg("BoardState", version')>>
  OBVIOUS
<1> HIDE DEF pkgs
<1>8. Sent(pkgs)
  BY <1>1, <1>5, <1>6, <1>7, SendsBoth DEF Carries
<1>9. ASSUME NEW c \in Clients PROVE Carries(pkgs[c], Owed(c)', version')
  <2>1. Owed(c)' = IF c = Other(n_socket) THEN 1 ELSE 0
    BY <1>2 DEF Owed, Awaited
  <2>2. c = Other(n_socket) <=> c # n_socket
    BY <1>2 DEF Other, Clients
  <2> QED
    BY <1>5, <1>7, <2>1, <2>2
<1>10. images' = images /\ client' = client
  BY <1>2 DEF history
<1> QED
  BY <1>3, <1>4, <1>8, <1>9, <1>10, PlainTurnIInv

\* The last move of a game: its player is asked whether to play again.
LEMMA EndIInv ==
    ASSUME IInv, ServerTurnEnd
    PROVE  IInv'
<1>1. Values /\ Streams
  BY DEF IInv
<1>2. PICK ending \in Endings :
         LET winner == get_winner(ending)
             end == <<Pkg("GameWinnerLoser", winner), Pkg("End", Blank)>>
         IN  /\ score' = Scores(winner)
             /\ SendBoth([c \in Clients |->
                    IF AskedFirst(c) THEN end \o <<Pkg("AskNewGame", Blank)>> ELSE end])
  BY DEF ServerTurnEnd
<1> DEFINE winner == get_winner(ending)
           end == <<Pkg("GameWinnerLoser", winner), Pkg("End", Blank)>>
           pkgs == [c \in Clients |-> IF AskedFirst(c) THEN end \o <<Pkg("AskNewGame", Blank)>> ELSE end]
<1>3. /\ pc = "turn" /\ Receive(n_socket) /\ moves < MaxMoves
      /\ moves' = moves + 1 /\ version' = version + 1
      /\ pc' = "again_mover" /\ aux_play_again' = TRUE
      /\ UNCHANGED <<n_socket, nickname, games, history, client>>
      /\ n_socket \in Clients
  BY <1>1 DEF ServerTurnEnd, LegalMove, Turn, Values
<1>4. Running /\ Receive(Awaited) /\ pc \notin {"conn0", "conn1", "nick0"}
  BY <1>1, <1>3, AwaitedIs DEF Running
<1>5. winner \in Int
  BY DEF get_winner, Endings
<1>6. score' = Scores(winner) /\ SendBoth(pkgs)
  BY <1>2
<1>7. \A c \in Clients : pkgs[c] = IF c = n_socket THEN end \o <<Pkg("AskNewGame", Blank)>> ELSE end
  BY DEF AskedFirst
<1> HIDE DEF winner
<1>8. score' \in [Clients -> Nat]
  BY <1>1, <1>6 DEF Values, Scores
<1>9. Values' /\ version' \in Nat
  BY <1>1, <1>3, <1>8, BoundsAssumption DEF Values, history
<1>10. Carries(end, 0, version') /\ Carries(end \o <<Pkg("AskNewGame", Blank)>>, 1, version')
  <2>1. Carries(<<Pkg("GameWinnerLoser", winner)>>, 0, version') /\ Carries(<<Pkg("End", Blank)>>, 0, version')
    BY <1>5, CarriesPlain, ValsKnown DEF Plain
  <2>2. end = <<Pkg("GameWinnerLoser", winner)>> \o <<Pkg("End", Blank)>>
    OBVIOUS
  <2>3. Carries(<<Pkg("AskNewGame", Blank)>>, 1, version')
    BY CarriesQuestion
  <2> HIDE DEF end
  <2>4. Carries(end, 0 + 0, version')
    BY <2>1, <2>2, CarriesConcat
  <2>5. Carries(end \o <<Pkg("AskNewGame", Blank)>>, 0 + 1, version')
    BY <2>3, <2>4, CarriesConcat
  <2> QED
    BY <2>4, <2>5
<1> HIDE DEF end, pkgs
<1>11. Sent(pkgs)
  BY <1>1, <1>6, <1>7, <1>10, SendsBoth DEF Carries
<1>12. ASSUME NEW c \in Clients PROVE Carries(pkgs[c], Owed(c)', version')
  <2>1. Owed(c)' = IF c = n_socket THEN 1 ELSE 0
    BY <1>3 DEF Owed, Awaited
  <2> QED
    BY <1>7, <1>10, <2>1
<1>13. images' = images /\ client' = client
  BY <1>3 DEF history
<1> QED
  BY <1>4, <1>9, <1>11, <1>12, <1>13, PlainTurnIInv

\* Then the opponent is asked, who owed no answer.
LEMMA AgainMoverIInv ==
    ASSUME IInv, ServerAgainMover
    PROVE  IInv'
<1>1. Values /\ Streams
  BY DEF IInv
<1>2. /\ pc = "again_mover" /\ Receive(n_socket)
      /\ aux_play_again' = (aux_play_again /\ SaysYes(n_socket))
      /\ SendTo(Other(n_socket), <<Pkg("AskNewGame", Blank)>>)
      /\ pc' = "again_other"
      /\ UNCHANGED <<n_socket, nickname, score, version, moves, games, history, client>>
      /\ n_socket \in Clients /\ Other(n_socket) \in Clients
  BY <1>1 DEF ServerAgainMover, Values, Other, Clients
<1>3. Running /\ Receive(Awaited) /\ pc \notin {"conn0", "conn1", "nick0"}
  BY <1>1, <1>2, AwaitedIs DEF Running
<1>4. Values'
  <2>1. aux_play_again' \in BOOLEAN
    BY <1>1, <1>2, Zenon DEF Values, SaysYes
  <2> QED
    BY <1>1, <1>2, <2>1 DEF Values, history
<1> DEFINE pkgs == [c \in Clients |-> IF c = Other(n_socket) THEN <<Pkg("AskNewGame", Blank)>> ELSE <<>>]
<1>5. Carries(<<Pkg("AskNewGame", Blank)>>, 1, version') /\ Carries(<<>>, 0, version')
  BY CarriesQuestion, CarriesNone
<1>6. Sent(pkgs)
  BY <1>1, <1>2, <1>5, SendsOne DEF Carries
<1>7. ASSUME NEW c \in Clients PROVE Carries(pkgs[c], Owed(c)', version')
  <2>1. Owed(c)' = IF c = Other(n_socket) THEN 1 ELSE 0
    BY <1>2 DEF Owed, Awaited
  <2> QED
    BY <1>5, <2>1
<1>8. images' = images /\ client' = client
  BY <1>2 DEF history
<1> HIDE DEF pkgs
<1> QED
  BY <1>3, <1>4, <1>6, <1>7, <1>8, PlainTurnIInv

\* What opens a game asks for the first move, and for nothing else.
LEMMA OpeningCarries ==
    ASSUME Values', NEW c \in Clients
    PROVE  Carries(Opening(c), IF c = n_socket' THEN 1 ELSE 0, version')
<1>1. n_socket' \in Clients /\ score' \in [Clients -> Nat] /\ version' \in Nat
  BY DEF Values
<1> DEFINE first == IF c = n_socket' THEN 2 ELSE 1
           scores == ScoresFor(c)
           start == <<Pkg("Start", Blank)>>
           told == <<Pkg("Scores", scores)>>
           who == <<Pkg("WhosFirst", first)>>
           board == IF GetsBoard(c) THEN <<Pkg("BoardState", version')>> ELSE <<>>
<1>2. scores \in Nat \X Nat /\ first \in Int
  BY <1>1 DEF ScoresFor, Clients
<1>3. Opening(c) = ((start \o told) \o who) \o board
  BY DEF Opening
<1> HIDE DEF first, scores
<1>4. Carries(start, 0, version') /\ Carries(told, 0, version') /\ Carries(who, 0, version')
  BY <1>2, CarriesPlain, ValsKnown DEF Plain, Vals
<1>5. Carries(board, IF c = n_socket' THEN 1 ELSE 0, version')
  BY <1>1, CarriesBoard, CarriesNone DEF GetsBoard
<1> HIDE DEF start, told, who, board
<1>6. Carries(start \o told, 0 + 0, version')
  BY <1>4, CarriesConcat
<1>7. Carries((start \o told) \o who, (0 + 0) + 0, version')
  BY <1>4, <1>6, CarriesConcat
<1>8. Carries(Opening(c), ((0 + 0) + 0) + (IF c = n_socket' THEN 1 ELSE 0), version')
  BY <1>3, <1>5, <1>7, CarriesConcat
<1> QED
  BY <1>8

\* A game opens when the answer waited for has been read, and only the one who starts
\* is asked for anything.
LEMMA StartGameIInv ==
    ASSUME IInv, Running, pc \notin {"conn0", "conn1", "nick0"}, Receive(Awaited), client' = client,
           images' = images, Values', NEW before, StartGame(before),
           \A c \in Clients : Carries(before[c], 0, version')
    PROVE  IInv'
<1>1. Values /\ Streams
  BY DEF IInv
<1> DEFINE pkgs == [c \in Clients |-> before[c] \o Opening(c)]
<1>2. pc' = "turn" /\ SendBoth(pkgs)
  BY DEF StartGame
<1>3. ASSUME NEW c \in Clients PROVE Carries(pkgs[c], IF c = n_socket' THEN 1 ELSE 0, version')
  <2>1. Carries(Opening(c), IF c = n_socket' THEN 1 ELSE 0, version')
    BY OpeningCarries
  <2>2. Carries(before[c] \o Opening(c), 0 + (IF c = n_socket' THEN 1 ELSE 0), version')
    BY <2>1, CarriesConcat
  <2> QED
    BY <2>2
<1> HIDE DEF pkgs
<1>4. Sent(pkgs)
  BY <1>1, <1>2, <1>3, SendsBoth DEF Carries
<1>5. ASSUME NEW c \in Clients PROVE Carries(pkgs[c], Owed(c)', version')
  <2>1. Owed(c)' = IF c = n_socket' THEN 1 ELSE 0
    BY <1>2 DEF Owed, Awaited
  <2> QED
    BY <1>3, <2>1
<1> QED
  BY <1>4, <1>5, PlainTurnIInv

\* The first message of a stream is one that its client may have sent.
LEMMA FirstMessage ==
    ASSUME Streams, NEW c \in Clients, c2s[c] # <<>>
    PROVE  /\ Packet(c) \in Messages
           /\ Packet(c).type = "RetNickname" => Packet(c).val \in Nicknames
<1>1. c2s[c] \in Seq(Messages) /\ Sends(c2s[c], Died(c))
  BY DEF Streams
<1>2. Packet(c) = c2s[c][1] /\ 1 \in 1..Len(c2s[c]) /\ Packet(c) \in Messages
  BY <1>1 DEF Packet
<1> QED
  BY <1>1, <1>2 DEF Sends

\* The second nickname opens the first game.
LEMMA Nickname1IInv ==
    ASSUME IInv, ServerNickname1
    PROVE  IInv'
<1>1. Values /\ Streams
  BY DEF IInv
<1> DEFINE before == [c \in Clients |-> <<Pkg("Oponentfound", nickname'[Other(c)])>>]
<1>2. /\ pc = "nick1" /\ Receive(1) /\ Packet(1).type = "RetNickname"
      /\ nickname' = [nickname EXCEPT ![1] = Packet(1).val]
      /\ StartGame(before)
      /\ UNCHANGED <<score, version, moves, aux_play_again, history, client>>
  BY DEF ServerNickname1
<1>3. Running /\ Receive(Awaited) /\ pc \notin {"conn0", "conn1", "nick0"}
  BY <1>1, <1>2, AwaitedIs DEF Running
<1>4. Packet(1).val \in Nicknames
  BY <1>1, <1>2, FirstMessage DEF Receive, Clients
<1>5. Values'
  <2>1. n_socket' \in Clients /\ games' = games + 1 /\ pc' = "turn"
    BY <1>2 DEF StartGame
  <2>2. nickname' \in [Clients -> Nicknames \union {"none"}]
    BY <1>1, <1>2, <1>4 DEF Values
  <2> QED
    BY <1>1, <1>2, <2>1, <2>2 DEF Values, history
<1>6. ASSUME NEW c \in Clients PROVE Carries(before[c], 0, version')
  <2>1. Other(c) \in Clients
    BY DEF Other, Clients
  <2>2. nickname'[Other(c)] \in Vals
    BY <1>5, <2>1, ValsKnown DEF Values
  <2>3. Carries(<<Pkg("Oponentfound", nickname'[Other(c)])>>, 0, version')
    BY <2>2, CarriesPlain DEF Plain
  <2> QED
    BY <2>3
<1>7. images' = images /\ client' = client
  BY <1>2 DEF history
<1> HIDE DEF before
<1> QED
  BY <1>2, <1>3, <1>5, <1>6, <1>7, StartGameIInv

\* Two answers of yes open another game.
LEMMA AgainOtherIInv ==
    ASSUME IInv, ServerAgainOther
    PROVE  IInv'
<1>1. Values /\ Streams
  BY DEF IInv
<1> DEFINE before == [c \in Clients |-> <<>>]
<1>2. /\ pc = "again_other" /\ Receive(Other(n_socket)) /\ version' = version + 1 /\ score' = score
      /\ StartGame(before)
      /\ UNCHANGED <<nickname, moves, aux_play_again, history, client>>
  BY DEF ServerAgainOther
<1>3. Running /\ Receive(Awaited) /\ pc \notin {"conn0", "conn1", "nick0"}
  BY <1>1, <1>2, AwaitedIs DEF Running
<1>4. Values'
  BY <1>1, <1>2 DEF Values, history, StartGame
<1>5. \A c \in Clients : Carries(before[c], 0, version')
  BY CarriesNone
<1>6. images' = images /\ client' = client
  BY <1>2 DEF history
<1> HIDE DEF before
<1> QED
  BY <1>2, <1>3, <1>4, <1>5, <1>6, StartGameIInv

\* The nickname is in use: it is asked for again.
LEMMA NicknameUsedIInv ==
    ASSUME IInv, ServerNicknameUsed
    PROVE  IInv'
<1>1. Values /\ Streams
  BY DEF IInv
<1>2. /\ pc = "nick1" /\ Receive(1) /\ SendTo(1, <<Pkg("AskNickname", Blank)>>)
      /\ UNCHANGED <<server, history, client>>
  BY DEF ServerNicknameUsed, AskAgain
<1>3. Running /\ Receive(Awaited) /\ pc \notin {"conn0", "conn1", "nick0"}
  BY <1>1, <1>2, AwaitedIs DEF Running
<1>4. Values' /\ pc' = "nick1"
  BY <1>1, <1>2 DEF Values, server, history
<1> DEFINE pkgs == [c \in Clients |-> IF c = 1 THEN <<Pkg("AskNickname", Blank)>> ELSE <<>>]
<1>5. Carries(<<Pkg("AskNickname", Blank)>>, 1, version') /\ Carries(<<>>, 0, version')
  BY CarriesQuestion, CarriesNone
<1>6. Sent(pkgs)
  <2>1. 1 \in Clients
    BY DEF Clients
  <2> QED
    BY <2>1, <1>1, <1>2, <1>5, SendsOne DEF Carries
<1>7. ASSUME NEW c \in Clients PROVE Carries(pkgs[c], Owed(c)', version')
  <2>1. Owed(c)' = IF c = 1 THEN 1 ELSE 0
    BY <1>4 DEF Owed, Awaited
  <2> QED
    BY <1>5, <2>1
<1>8. images' = images /\ client' = client
  BY <1>2 DEF history
<1> HIDE DEF pkgs
<1> QED
  BY <1>3, <1>4, <1>6, <1>7, <1>8, PlainTurnIInv

\* The first nickname: the second has been asked for already.
LEMMA Nickname0IInv ==
    ASSUME IInv, ServerNickname0
    PROVE  IInv'
<1>1. Values /\ Streams /\ Agreement
  BY DEF IInv
<1>2. /\ pc = "nick0" /\ Receive(0) /\ Packet(0).type = "RetNickname"
      /\ nickname' = [nickname EXCEPT ![0] = Packet(0).val] /\ pc' = "nick1"
      /\ UNCHANGED <<n_socket, score, version, moves, games, aux_play_again, history, s2c, client>>
  BY DEF ServerNickname0
<1>3. Running /\ Awaited = 0 /\ Receive(Awaited)
  BY <1>1, <1>2, AwaitedIs DEF Running
<1>4. Packet(0).val \in Nicknames
  BY <1>1, <1>2, FirstMessage DEF Receive, Clients
<1>5. Values'
  BY <1>1, <1>2, <1>4 DEF Values, history
<1> DEFINE pkgs == [c \in Clients |-> <<>>]
<1>6. Sent(pkgs)
  <2>1. \A c \in Clients : s2c[c] \o <<>> = s2c[c]
    BY <1>1, ConcatEmptySeq DEF Streams
  <2> QED
    BY <1>1, <1>2, <2>1 DEF Sent, Streams
<1>7. images' = images /\ client' = client
  BY <1>2 DEF history
<1>8. ASSUME NEW c \in Clients PROVE Carries(pkgs[c], Gain(c), version')
  <2>1. Owed(c) = 1
    BY <1>2, <1>3 DEF Owed, Clients
  <2>2. Owed(c)' = IF c = 1 THEN 1 ELSE 0
    BY <1>2 DEF Owed, Awaited
  <2>3. Reads(c) = IF c = 0 THEN 1 ELSE 0
    BY <1>3 DEF Reads
  <2>4. images[c] \in Nat /\ images'[c] = images[c]
    BY <1>1, <1>7 DEF Values
  <2>5. Gain(c) = 0
    BY <2>1, <2>2, <2>3, <2>4 DEF Gain, Clients
  <2> QED
    BY <2>5, CarriesNone
<1>9. \A c \in Clients : client[c] # "off" /\ images[c] <= images'[c]
  BY <1>1, <1>2, <1>3, <1>7, NoneOff DEF Values
<1> HIDE DEF pkgs
<1> QED
  BY <1>2, <1>3, <1>5, <1>6, <1>7, <1>8, <1>9, ServeIInv

\* The greeting of one client; after that of the second both owe a nickname.
LEMMA GreetIInv ==
    ASSUME IInv, NEW c \in Clients, ServerGreet(c)
    PROVE  IInv'
<1>1. Values /\ Streams /\ Agreement
  BY DEF IInv
<1> DEFINE greeting == <<Pkg("ConnectionEstablished", Blank)>>
           question == <<Pkg("AskNickname", Blank)>>
<1>2. /\ pc = IF c = 0 THEN "conn0" ELSE "conn1"
      /\ Receive(c)
      /\ IF c = 0 THEN SendTo(0, greeting)
         ELSE SendBoth([d \in Clients |-> IF d = 0 THEN question ELSE greeting \o question])
      /\ pc' = IF c = 0 THEN "conn1" ELSE "nick0"
      /\ UNCHANGED <<n_socket, nickname, score, version, moves, games, aux_play_again,
                     history, client>>
  BY DEF ServerGreet
<1>3. Running /\ Awaited = c /\ Receive(Awaited)
  BY <1>1, <1>2, AwaitedIs DEF Running, Clients
<1>4. Values'
  BY <1>1, <1>2 DEF Values, history
<1>5. images' = images /\ client' = client
  BY <1>2 DEF history
<1>6. /\ Carries(greeting, 0, version') /\ Carries(question, 1, version')
      /\ Carries(greeting \o question, 1, version') /\ Carries(<<>>, 0, version')
  <2>1. Carries(greeting, 0, version') /\ Carries(question, 1, version')
    BY CarriesPlain, CarriesQuestion, ValsKnown DEF Plain
  <2> HIDE DEF greeting, question
  <2>2. Carries(greeting \o question, 0 + 1, version')
    BY <2>1, CarriesConcat
  <2> QED
    BY <2>1, <2>2, CarriesNone
<1> HIDE DEF greeting, question
<1> DEFINE told == [d \in Clients |-> IF d = 0 THEN greeting ELSE <<>>]
           both == [d \in Clients |-> IF d = 0 THEN question ELSE greeting \o question]
           pkgs == IF c = 0 THEN told ELSE both
<1>7. Sent(pkgs)
  <2>1. CASE c = 0
    <3>1. Sent(told)
      BY <2>1, <1>1, <1>2, <1>6, SendsOne DEF Carries
    <3> QED
      BY <2>1, <3>1
  <2>2. CASE c # 0
    <3>1. \A d \in Clients : both[d] \in Seq(Packages)
      BY <1>6 DEF Carries
    <3>2. SendBoth(both)
      BY <2>2, <1>2
    <3> HIDE DEF both
    <3>3. Sent(both)
      BY <1>1, <3>1, <3>2, SendsBoth
    <3> QED
      BY <2>2, <3>3
  <2> QED
    BY <2>1, <2>2
<1>8. ASSUME NEW d \in Clients PROVE Carries(pkgs[d], Gain(d), version')
  <2>1. images[d] \in Nat /\ images'[d] = images[d]
    BY <1>1, <1>5 DEF Values
  <2>2. Reads(d) = IF d = c THEN 1 ELSE 0
    BY <1>3 DEF Reads
  <2>3. Owed(d) = IF d = c \/ d = 1 THEN 1 ELSE 0
    BY <1>2, <1>3 DEF Owed, Clients
  <2>4. Owed(d)' = IF d = 1 \/ c = 1 THEN 1 ELSE 0
    BY <1>2 DEF Owed, Awaited, Clients
  <2>5. Gain(d) = IF c = 1 THEN 1 ELSE 0
    BY <2>1, <2>2, <2>3, <2>4 DEF Gain, Clients
  <2> QED
    BY <2>5, <1>6 DEF Clients
<1>9. ASSUME NEW d \in Clients, client[d] = "off"
      PROVE  pkgs[d] = <<>> /\ d = 1 /\ pc' = "conn1"
  <2>1. Unconnected(d)
    BY <1>1, <1>3, <1>9 DEF Agreement, Agreed
  <2>2. d # c
    BY <2>1, <1>2 DEF Unconnected, Receive
  <2> QED
    BY <2>1, <2>2, <1>2 DEF Unconnected, Clients
<1>10. \A d \in Clients : images[d] <= images'[d]
  BY <1>1, <1>5 DEF Values
<1>11. pc' # "turn"
  BY <1>2
<1> HIDE DEF pkgs
<1> QED
  BY <1>3, <1>4, <1>5, <1>7, <1>8, <1>9, <1>10, <1>11, ServeIInv

\* The server ends: nothing but types is said of the streams any more.
LEMMA CrashIInv ==
    ASSUME Streams', Values', pc' \in {"stopped", "crashed"}
    PROVE  IInv'
BY DEF IInv, Agreement, Fresh, Running

\* The server is killed in the middle of a step.
LEMMA KilledIInv ==
    ASSUME IInv, NEW c \in Clients, ServerKilled(c)
    PROVE  IInv'
<1>1. Values /\ Streams
  BY DEF IInv
<1>2. PICK n \in 0..Len(s2c[Other(c)]) :
         s2c' = [s2c EXCEPT ![c] = <<>>, ![Other(c)] = SubSeq(@, 1, n)]
  BY DEF ServerKilled
<1>3. /\ pc' = "crashed"
      /\ UNCHANGED <<n_socket, nickname, score, version, moves, games, aux_play_again,
                     history, c2s, client>>
  BY DEF ServerKilled
<1>4. Values'
  BY <1>1, <1>3 DEF Values, history
<1>5. Other(c) \in Clients /\ Other(c) # c
  BY DEF Other, Clients
<1>6. s2c[Other(c)] \in Seq(Packages)
  BY <1>1, <1>5 DEF Streams
<1>7. \A i \in 1..n : s2c[Other(c)][i] \in Packages
  BY <1>2, <1>6
<1>8. n \in Int
  BY <1>2, <1>6
<1>9. SubSeq(s2c[Other(c)], 1, n) \in Seq(Packages) /\ <<>> \in Seq(Packages)
  BY <1>7, <1>8, SubSeqProperties
<1>10. s2c' \in [Clients -> Seq(Packages)]
  BY <1>1, <1>2, <1>5, <1>9 DEF Streams
<1>11. Streams'
  BY <1>1, <1>3, <1>10 DEF Streams, Died, Sends, Clients, Messages, Packages, Vals, Texts, Blank, Typed,
     Requests, Plain, Asking, Questions, Echoes
<1> QED
  BY <1>3, <1>4, <1>11, CrashIInv

\* What a dead client left unread in the server's buffer is taken for a message.
LEMMA NothingIInv ==
    ASSUME IInv, ServerReadsNothing
    PROVE  IInv'
<1>1. Values /\ Streams /\ Agreement /\ Fresh
  BY DEF IInv
<1>2. /\ Running /\ Died(Awaited) /\ c2s[Awaited] = <<>> /\ Awaited \in Clients
      /\ UNCHANGED <<n_socket, nickname, score, version, moves, games, aux_play_again,
                     history, s2c, client>>
  BY <1>1, AwaitedIs DEF ServerReadsNothing
<1>3. CASE pc' = "crashed" /\ UNCHANGED c2s
  <2>1. Values'
    BY <1>1, <1>2, <1>3 DEF Values, history
  <2>2. Streams'
    BY <1>1, <1>2, <1>3 DEF Streams, Died, Sends, Clients, Messages, Packages, Vals, Texts, Blank, Typed,
       Requests, Plain, Asking, Questions, Echoes
  <2> QED
    BY <1>3, <2>1, <2>2, CrashIInv
<1>4. CASE UNCHANGED pc /\ \E m \in Uninitialised : c2s' = [c2s EXCEPT ![Awaited] = <<m>>]
  <2>1. PICK m \in Uninitialised : c2s' = [c2s EXCEPT ![Awaited] = <<m>>]
    BY <1>4
  <2>2. Values'
    BY <1>1, <1>2, <1>4 DEF Values, history
  <2>3. /\ m \in Messages /\ (m.type \in Requests \/ m.type = "Garbage")
        /\ m.type = "RetNickname" => m.val \in Nicknames
    <3>1. CASE pc \in {"nick0", "nick1"}
      BY <3>1 DEF Uninitialised, Messages, Requests, Texts
    <3>2. CASE pc \notin {"nick0", "nick1"}
      <4>1. Blank \in Texts
        BY DEF Texts, Vals, Blank, Typed
      <4>2. version \in Vals
        BY <1>1, ValsKnown DEF Values
      <4>3. \A one \in BOOLEAN : Typed(one, version) \in Texts
        BY <4>2 DEF Texts, Typed
      <4>4. m \in {Pkg("SendMove", Typed(one, version)) : one \in BOOLEAN}
                  \union {Pkg(type, Blank) : type \in {"Garbage", "Disconnect"}}
                  \union {Pkg("SendMsg", Blank)}
        BY <3>2 DEF Uninitialised
      <4>5. \E type \in {"SendMove", "Garbage", "Disconnect", "SendMsg"}, val \in Texts : m = Pkg(type, val)
        BY <4>1, <4>3, <4>4
      <4> QED
        BY <4>5 DEF Pkg, Messages, Requests
    <3> QED
      BY <3>1, <3>2
  <2>4. <<m>> \in Seq(Messages) /\ c2s' \in [Clients -> Seq(Messages)] /\ c2s'[Awaited] = <<m>>
        /\ \A c \in Clients : c # Awaited => c2s'[c] = c2s[c]
    BY <2>1, <2>3, <1>1, <1>2 DEF Streams
  <2>5. ASSUME NEW c \in Clients PROVE Sends(c2s'[c], Died(c)')
    <3>1. Sends(c2s[c], Died(c)) /\ (Died(c)' <=> Died(c))
      BY <1>1, <1>2 DEF Streams, Died
    <3>2. CASE c = Awaited
      BY <3>1, <3>2, <2>3, <2>4, <1>2 DEF Sends
    <3>3. CASE c # Awaited
      BY <3>1, <3>3, <2>4 DEF Sends
    <3> QED
      BY <3>2, <3>3
  <2>6. Streams'
    BY <2>4, <2>5, <1>1, <1>2 DEF Streams, Clients, Messages, Packages, Vals, Texts, Blank, Typed,
       Requests, Plain, Asking, Questions, Echoes
  <2>7. ASSUME NEW c \in Clients PROVE Agreed(c)'
    <3>1. Agreed(c)
      BY <1>1, <1>2 DEF Agreement
    <3>2. CASE c = Awaited
      BY <3>1, <3>2, <1>2 DEF Agreed, Died
    <3>3. CASE c # Awaited
      <4>1. c2s'[c] = c2s[c] /\ s2c' = s2c /\ images' = images /\ client' = client /\ pc' = pc
            /\ n_socket' = n_socket
        BY <3>3, <2>4, <1>2, <1>4 DEF history
      <4>2. Owed(c)' = Owed(c)
        BY <4>1 DEF Owed, Awaited, Other
      <4> QED
        BY <3>1, <4>1, <4>2 DEF Agreed, Connected, Unconnected, Due, Questionnaire, Ends, Asking,
           Questions, Echoes
    <3> QED
      BY <3>2, <3>3
  <2>8. Fresh'
    <3>1. pc = "turn" => client[n_socket] # "on"
      BY <1>1, <1>2, AwaitedIs DEF Died
    <3> QED
      BY <3>1, <1>2, <1>4 DEF Fresh
  <2> QED
    BY <2>2, <2>6, <2>7, <2>8 DEF IInv, Agreement, Clients
<1> QED
  BY <1>3, <1>4 DEF ServerReadsNothing

-----------------------------------------------------------------------------
(* The steps of a client, and of the connection to it.                      *)

\* A step of one client: the rest of the invariant is about the other one.
LEMMA LocalIInv ==
    ASSUME IInv, NEW c \in Clients, UNCHANGED <<server, history>>,
           client' \in [Clients -> {"off", "on", "exited", "lost", "dead", "reset"}],
           s2c' \in [Clients -> Seq(Packages)], c2s' \in [Clients -> Seq(Messages)],
           Sends(c2s'[c], Died(c)'),
           \A d \in Clients \ {c} : s2c'[d] = s2c[d] /\ c2s'[d] = c2s[d] /\ client'[d] = client[d],
           Running => Agreed(c)',
           (pc = "turn" /\ n_socket = c /\ client'[c] = "on" /\ images[c] = 0)
              => Shows(s2c'[c], version) /\ Moved(c2s'[c], version)
    PROVE  IInv'
<1>1. Values /\ Streams /\ Agreement /\ Fresh
  BY DEF IInv
<1>2. /\ pc' = pc /\ n_socket' = n_socket /\ version' = version /\ images' = images
      /\ (Running' <=> Running)
  BY DEF server, history, Running
<1>3. Values'
  BY <1>1 DEF Values, server, history
<1>4. Streams'
  <2>1. ASSUME NEW d \in Clients PROVE Sends(c2s'[d], Died(d)')
    <3>1. CASE d = c
      BY <3>1
    <3>2. CASE d # c
      BY <3>2, <1>1 DEF Streams, Died
    <3> QED
      BY <3>1, <3>2
  <2> QED
    BY <2>1 DEF Streams, Clients, Messages, Packages, Vals, Texts, Blank, Typed, Requests, Plain,
       Asking, Questions, Echoes
<1>5. ASSUME Running', NEW d \in Clients PROVE Agreed(d)'
  <2>1. CASE d = c
    BY <2>1, <1>2, <1>5
  <2>2. CASE d # c
    <3>1. Agreed(d)
      BY <1>1, <1>2, <1>5 DEF Agreement
    <3>2. Owed(d)' = Owed(d)
      BY <1>2 DEF Owed, Awaited, Other
    <3>3. s2c'[d] = s2c[d] /\ c2s'[d] = c2s[d] /\ client'[d] = client[d]
      BY <2>2
    <3> QED
      BY <3>1, <3>2, <3>3, <1>2 DEF Agreed, Connected, Unconnected, Due, Questionnaire, Ends, Asking,
         Questions, Echoes
  <2> QED
    BY <2>1, <2>2
<1>6. Fresh'
  <2> SUFFICES ASSUME pc = "turn", client'[n_socket] = "on", images[n_socket] = 0
               PROVE  Shows(s2c'[n_socket], version) /\ Moved(c2s'[n_socket], version)
    BY <1>2 DEF Fresh, Shows, Moved
  <2>1. n_socket \in Clients
    BY <1>1 DEF Values
  <2>2. CASE n_socket = c
    BY <2>2
  <2>3. CASE n_socket # c
    BY <2>1, <2>3, <1>1 DEF Fresh
  <2> QED
    BY <2>2, <2>3
<1> QED
  BY <1>3, <1>4, <1>5, <1>6 DEF IInv, Agreement, Clients

\* What a client owes does not change while the server does nothing.
LEMMA OwedSame ==
    ASSUME UNCHANGED <<server, history>>, NEW c \in Clients
    PROVE  Owed(c)' = Owed(c) /\ images' = images /\ (Running' <=> Running) /\ pc' = pc
           /\ n_socket' = n_socket /\ version' = version
BY DEF Owed, Awaited, Other, server, history, Running

\* The agreement in the words of the next state.
LEMMA ConnectedNext ==
    ASSUME UNCHANGED <<server, history>>, NEW c \in Clients, client'[c] = "on",
           ~ Ends(s2c'[c]), Due(s2c'[c]) + Len(c2s'[c]) = Owed(c) + images[c]
    PROVE  Agreed(c)'
<1>1. Owed(c)' = Owed(c) /\ images' = images
  BY OwedSame
<1> QED
  BY <1>1 DEF Agreed, Connected, Due, Questionnaire, Ends, Asking, Questions, Echoes

\* A client connects, and greets the server without being asked.
LEMMA ConnectIInv ==
    ASSUME IInv, NEW c \in Clients, ClientConnect(c)
    PROVE  IInv'
<1>1. Values /\ Streams /\ Agreement
  BY DEF IInv
<1> DEFINE m == Pkg("StartConnection", Blank)
<1>2. /\ Running /\ client[c] = "off" /\ client' = [client EXCEPT ![c] = "on"]
      /\ c2s' = [c2s EXCEPT ![c] = @ \o <<m>>] /\ UNCHANGED <<server, history, s2c>>
  BY DEF ClientConnect, Answer
<1>3. Unconnected(c)
  BY <1>1, <1>2 DEF Agreement, Agreed
<1>4. m \in Messages /\ m.type = "StartConnection"
  BY DEF Pkg, Messages, Requests, Texts, Vals, Blank, Typed
<1> HIDE DEF m
<1>5. c2s[c] = <<>> /\ <<>> \o <<m>> = <<m>> /\ <<m>> \in Seq(Messages)
  BY <1>3, <1>4 DEF Unconnected
<1>6. /\ c2s' \in [Clients -> Seq(Messages)] /\ c2s'[c] = <<m>> /\ s2c' = s2c
      /\ s2c \in [Clients -> Seq(Packages)]
      /\ \A d \in Clients \ {c} : c2s'[d] = c2s[d] /\ client'[d] = client[d]
      /\ client' \in [Clients -> {"off", "on", "exited", "lost", "dead", "reset"}]
      /\ client'[c] = "on"
  BY <1>1, <1>2, <1>5 DEF Streams, Values
<1>7. Sends(c2s'[c], Died(c)')
  BY <1>4, <1>6 DEF Sends, Requests
<1>8. Agreed(c)'
  <2>1. s2c'[c] = <<>> /\ images[c] = 0
    BY <1>3, <1>6 DEF Unconnected
  <2>2. Owed(c) = 1
    BY <1>1, <1>3, AwaitedIs DEF Unconnected, Owed, Clients
  <2>3. Due(s2c'[c]) + Len(c2s'[c]) = Owed(c) + images[c]
    BY <2>1, <2>2, <1>6, DueOfNone
  <2>4. ~ Ends(s2c'[c])
    BY <2>1 DEF Ends
  <2> QED
    BY <2>3, <2>4, <1>2, <1>6, ConnectedNext
<1>9. ~ (pc = "turn")
  BY <1>3 DEF Unconnected
<1> QED
  BY <1>2, <1>6, <1>7, <1>8, <1>9, LocalIInv

\* A client reads a packet: what remains in its stream.
LEMMA ReceivesIInv ==
    ASSUME IInv, NEW c \in Clients, NEW types, ClientReceive(c, types)
    PROVE  /\ s2c' \in [Clients -> Seq(Packages)] /\ c2s \in [Clients -> Seq(Messages)]
           /\ Head(s2c[c]).type \in types /\ Head(s2c[c]) \in Packages
           /\ Head(s2c[c]) = s2c[c][1] /\ 1 \in 1..Len(s2c[c])
           /\ client[c] = "on" /\ ~ Died(c) /\ Sends(c2s[c], Died(c))
           /\ UNCHANGED <<server, history>>
           /\ \A d \in Clients \ {c} : s2c'[d] = s2c[d]
           /\ Due(s2c'[c]) \in Nat
           /\ Due(s2c[c]) = Due(s2c'[c]) + IF Head(s2c[c]).type \in Asking THEN 1 ELSE 0
           /\ Running => ~ Ends(s2c[c]) /\ ~ Ends(s2c'[c])
           /\ Running => Due(s2c[c]) + Len(c2s[c]) = Owed(c) + images[c]
           /\ \A v : Shows(s2c[c], v) => Shows(s2c'[c], v)
<1>1. Values /\ Streams /\ Agreement
  BY DEF IInv
<1>2. /\ client[c] = "on" /\ s2c[c] # <<>> /\ Head(s2c[c]).type \in types
      /\ s2c' = [s2c EXCEPT ![c] = Tail(@)] /\ UNCHANGED <<server, history>>
  BY DEF ClientReceive
<1> DEFINE s == s2c[c]
<1>3. s \in Seq(Packages)
  BY <1>1 DEF Streams
<1>4. /\ Head(s) \in Packages /\ Tail(s) \in Seq(Packages) /\ Len(Tail(s)) = Len(s) - 1
      /\ Len(s) \in Nat \ {0} /\ Head(s) = s[1]
      /\ \A i \in 1..Len(Tail(s)) : i + 1 \in 1..Len(s) /\ Tail(s)[i] = s[i + 1]
      /\ Due(s) = Due(Tail(s)) + IF Head(s).type \in Asking THEN 1 ELSE 0
  BY <1>2, <1>3, Taking
<1>5. Due(Tail(s)) \in Nat
  BY <1>4, DueType
<1>6. s2c'[c] = Tail(s) /\ s2c' \in [Clients -> Seq(Packages)]
      /\ \A d \in Clients \ {c} : s2c'[d] = s2c[d]
  BY <1>1, <1>2, <1>4 DEF Streams
<1>7. Running => ~ Ends(s) /\ ~ Ends(Tail(s)) /\ Due(s) + Len(c2s[c]) = Owed(c) + images[c]
  <2>1. Running => Connected(c)
    BY <1>1, <1>2 DEF Agreement, Agreed
  <2> QED
    BY <2>1, <1>4 DEF Connected, Ends
<1>8. \A v : Shows(s, v) => Shows(Tail(s), v)
  BY <1>4 DEF Shows
<1>9. ~ Died(c) /\ c2s \in [Clients -> Seq(Messages)] /\ Sends(c2s[c], Died(c))
  BY <1>1, <1>2 DEF Died, Streams
<1>10. 1 \in 1..Len(s)
  BY <1>4
<1> HIDE DEF s
<1> QED
  BY <1>2, <1>4, <1>5, <1>6, <1>7, <1>8, <1>9, <1>10 DEF s

\* A packet that is only shown was due no answer.
LEMMA ShowIInv ==
    ASSUME IInv, NEW c \in Clients, ClientShow(c)
    PROVE  IInv'
<1> DEFINE types == {"ConnectionEstablished", "Oponentfound", "Start", "Scores", "WhosFirst",
                     "ErrMove", "OkMove", "End", "GameWinnerLoser", "SpreadMsg",
                     "StartConnection", "Garbage"}
<1>1. ClientReceive(c, types) /\ UNCHANGED <<c2s, client>>
  BY DEF ClientShow
<1>2. \A type \in types : type \notin Asking
  BY DEF Asking, Questions, Echoes
<1> HIDE DEF types
<1>3. /\ s2c' \in [Clients -> Seq(Packages)] /\ c2s \in [Clients -> Seq(Messages)]
      /\ Head(s2c[c]).type \in types
      /\ client[c] = "on" /\ Sends(c2s[c], Died(c)) /\ UNCHANGED <<server, history>>
      /\ \A d \in Clients \ {c} : s2c'[d] = s2c[d]
      /\ Due(s2c'[c]) \in Nat /\ Due(s2c[c]) = Due(s2c'[c]) + IF Head(s2c[c]).type \in Asking THEN 1 ELSE 0
      /\ Running => ~ Ends(s2c'[c])
      /\ Running => Due(s2c[c]) + Len(c2s[c]) = Owed(c) + images[c]
      /\ \A v : Shows(s2c[c], v) => Shows(s2c'[c], v)
  BY <1>1, ReceivesIInv
<1>4. Due(s2c[c]) = Due(s2c'[c])
  BY <1>2, <1>3
<1>5. Running => Agreed(c)'
  BY <1>1, <1>3, <1>4, ConnectedNext
<1>6. (Died(c)' <=> Died(c)) /\ client' = client /\ c2s' = c2s
  BY <1>1 DEF Died
<1>7. (pc = "turn" /\ n_socket = c /\ client'[c] = "on" /\ images[c] = 0)
         => Shows(s2c'[c], version) /\ Moved(c2s'[c], version)
  BY <1>3, <1>6 DEF IInv, Fresh
<1>8. client' \in [Clients -> {"off", "on", "exited", "lost", "dead", "reset"}]
  BY <1>6 DEF IInv, Values
<1>9. Sends(c2s'[c], Died(c)')
  BY <1>3, <1>6 DEF Sends
<1> QED
  BY <1>3, <1>5, <1>6, <1>7, <1>8, <1>9, LocalIInv

\* A client answers a question with one message; a move it sends is for the
\* board that it has just been shown.
LEMMA AnswersIInv ==
    ASSUME IInv, NEW c \in Clients, NEW types \in SUBSET Asking, ClientReceive(c, types), client' = client,
           NEW m \in Messages, Answer(c, <<m>>), m.type \in Requests,
           m.type = "RetNickname" => m.val \in Nicknames,
           m.type = "SendMove" => Head(s2c[c]).type = "BoardState" /\ m.val.seen = Head(s2c[c]).val
    PROVE  IInv'
<1>1. Values /\ Streams /\ Fresh
  BY DEF IInv
<1>2. /\ s2c' \in [Clients -> Seq(Packages)] /\ c2s \in [Clients -> Seq(Messages)]
      /\ Head(s2c[c]).type \in types /\ Head(s2c[c]) = s2c[c][1] /\ 1 \in 1..Len(s2c[c])
      /\ client[c] = "on" /\ ~ Died(c) /\ Sends(c2s[c], Died(c)) /\ UNCHANGED <<server, history>>
      /\ \A d \in Clients \ {c} : s2c'[d] = s2c[d]
      /\ Due(s2c'[c]) \in Nat /\ Due(s2c[c]) = Due(s2c'[c]) + IF Head(s2c[c]).type \in Asking THEN 1 ELSE 0
      /\ Running => ~ Ends(s2c'[c])
      /\ Running => Due(s2c[c]) + Len(c2s[c]) = Owed(c) + images[c]
      /\ \A v : Shows(s2c[c], v) => Shows(s2c'[c], v)
  BY ReceivesIInv
<1>3. c2s' = [c2s EXCEPT ![c] = @ \o <<m>>]
  BY DEF Answer
<1>4. <<m>> \in Seq(Messages) /\ Len(<<m>>) = 1 /\ <<m>>[1] = m /\ c2s[c] \in Seq(Messages)
  BY <1>2
<1>5. /\ c2s[c] \o <<m>> \in Seq(Messages) /\ Len(c2s[c] \o <<m>>) = Len(c2s[c]) + 1
      /\ Len(c2s[c]) \in Nat
      /\ \A i \in 1..Len(c2s[c]) + 1 :
            (c2s[c] \o <<m>>)[i] = IF i <= Len(c2s[c]) THEN c2s[c][i] ELSE <<m>>[i - Len(c2s[c])]
  BY <1>4, ConcatProperties
<1>6. /\ c2s' \in [Clients -> Seq(Messages)] /\ c2s'[c] = c2s[c] \o <<m>>
      /\ \A d \in Clients \ {c} : c2s'[d] = c2s[d]
  BY <1>2, <1>3, <1>5
<1>7. ASSUME NEW i \in 1..Len(c2s'[c])
      PROVE  (i \in 1..Len(c2s[c]) /\ c2s'[c][i] = c2s[c][i]) \/ c2s'[c][i] = m
  <2>1. CASE i <= Len(c2s[c])
    BY <2>1, <1>5, <1>6, <1>7
  <2>2. CASE i > Len(c2s[c])
    <3>1. i = Len(c2s[c]) + 1 /\ i - Len(c2s[c]) = 1
      BY <2>2, <1>5, <1>6, <1>7
    <3> QED
      BY <3>1, <1>4, <1>5, <1>6
  <2> QED
    BY <2>1, <2>2, <1>5, <1>6
<1>8. Sends(c2s'[c], Died(c)')
  BY <1>2, <1>7 DEF Sends, Died
<1>9. Running => Agreed(c)'
  <2> SUFFICES ASSUME Running PROVE Agreed(c)'
    OBVIOUS
  <2>1. Due(s2c[c]) = Due(s2c'[c]) + 1
    BY <1>2
  <2>2. Due(s2c'[c]) + Len(c2s'[c]) = Due(s2c[c]) + Len(c2s[c])
    BY <2>1, <1>2, <1>5, <1>6
  <2> QED
    BY <2>2, <1>2, ConnectedNext
<1>10. ASSUME pc = "turn", n_socket = c, images[c] = 0
       PROVE  Shows(s2c'[c], version) /\ Moved(c2s'[c], version)
  <2>1. Shows(s2c[c], version) /\ Moved(c2s[c], version)
    BY <1>1, <1>2, <1>10 DEF Fresh
  <2>2. m.type = "SendMove" => m.val.seen = version
    BY <2>1, <1>2 DEF Shows
  <2>3. Moved(c2s'[c], version)
    BY <2>1, <2>2, <1>7 DEF Moved
  <2> QED
    BY <2>1, <2>3, <1>2
<1>11. client' \in [Clients -> {"off", "on", "exited", "lost", "dead", "reset"}]
  BY <1>1 DEF Values
<1> QED
  BY <1>2, <1>6, <1>8, <1>9, <1>10, <1>11, LocalIInv

\* The answers of the client, one by one.
LEMMA ReplyIInv ==
    ASSUME IInv, NEW c \in Clients,
           ClientNickname(c) \/ ClientBoard(c) \/ ClientAgain(c) \/ ClientEcho(c)
    PROVE  IInv'
<1>1. {"AskNickname"} \in SUBSET Asking /\ {"BoardState"} \in SUBSET Asking
      /\ {"AskNewGame"} \in SUBSET Asking /\ Echoes \in SUBSET Asking
  BY DEF Asking, Questions, Echoes
<1>2. ASSUME NEW type \in Requests, NEW val \in Texts
      PROVE  Pkg(type, val) \in Messages /\ Pkg(type, val).type = type /\ Pkg(type, val).val = val
  BY DEF Pkg, Messages
<1>3. ASSUME NEW one \in BOOLEAN, NEW seen \in Vals
      PROVE  Typed(one, seen) \in Texts /\ Typed(one, seen).seen = seen
  BY DEF Typed, Texts
<1>4. Blank \in Texts /\ 0 \in Vals
  BY ValsKnown DEF Blank, Typed, Texts
<1> HIDE DEF Pkg, Typed, Blank
<1>5. CASE ClientNickname(c)
  <2>1. PICK name \in Nicknames : Answer(c, <<Pkg("RetNickname", name)>>)
    BY <1>5 DEF ClientNickname
  <2>2. ClientReceive(c, {"AskNickname"}) /\ client' = client
    BY <1>5 DEF ClientNickname
  <2>3. "RetNickname" \in Requests /\ name \in Texts
    BY DEF Requests, Texts
  <2> DEFINE m == Pkg("RetNickname", name)
  <2>4. m \in Messages /\ m.type = "RetNickname" /\ m.val = name /\ Answer(c, <<m>>)
    BY <1>2, <2>1, <2>3
  <2> HIDE DEF m
  <2> QED
    BY <1>1, <2>2, <2>3, <2>4, AnswersIInv
<1>6. CASE ClientBoard(c)
  <2>1. ClientReceive(c, {"BoardState"}) /\ client' = client
    BY <1>6 DEF ClientBoard
  <2>2. PICK type \in {"SendMove", "SendMsg", "Image", "Disconnect"}, one \in BOOLEAN :
           Answer(c, <<Pkg(type, Typed(one, Head(s2c[c]).val))>>)
    BY <1>6 DEF ClientBoard
  <2>3. Head(s2c[c]) \in Packages /\ Head(s2c[c]).type = "BoardState"
    BY <2>1, ReceivesIInv
  <2>4. Head(s2c[c]).val \in Vals
    BY <2>3 DEF Packages
  <2> DEFINE text == Typed(one, Head(s2c[c]).val)
             m == Pkg(type, text)
  <2>5. text \in Texts /\ text.seen = Head(s2c[c]).val
    BY <2>4, <1>3
  <2>6. type \in Requests /\ type # "RetNickname"
    BY DEF Requests
  <2>7. Answer(c, <<m>>)
    BY <2>2
  <2> HIDE DEF text
  <2>8. m \in Messages /\ m.type = type /\ m.val = text
    BY <2>5, <2>6, <1>2
  <2> HIDE DEF m
  <2> QED
    BY <1>1, <2>1, <2>3, <2>5, <2>6, <2>7, <2>8, AnswersIInv
<1>7. CASE ClientAgain(c)
  <2>1. ClientReceive(c, {"AskNewGame"}) /\ client' = client
    BY <1>7 DEF ClientAgain
  <2>2. PICK one \in BOOLEAN : Answer(c, <<Pkg("AnswerNewGame", Typed(one, 0))>>)
    BY <1>7 DEF ClientAgain
  <2>3. "AnswerNewGame" \in Requests /\ Typed(one, 0) \in Texts
    BY <1>3, <1>4 DEF Requests
  <2> DEFINE m == Pkg("AnswerNewGame", Typed(one, 0))
  <2>4. m \in Messages /\ m.type = "AnswerNewGame" /\ Answer(c, <<m>>)
    BY <1>2, <2>2, <2>3
  <2> HIDE DEF m
  <2> QED
    BY <1>1, <2>1, <2>3, <2>4, AnswersIInv
<1>8. CASE ClientEcho(c)
  <2>1. ClientReceive(c, Echoes) /\ client' = client
    BY <1>8 DEF ClientEcho
  <2> DEFINE m == Pkg("StartConnection", Blank)
  <2>2. "StartConnection" \in Requests
    BY DEF Requests
  <2>3. m \in Messages /\ m.type = "StartConnection" /\ Answer(c, <<m>>)
    BY <1>2, <1>4, <1>8, <2>2 DEF ClientEcho
  <2> HIDE DEF m
  <2> QED
    BY <1>1, <2>1, <2>2, <2>3, AnswersIInv
<1> QED
  BY <1>5, <1>6, <1>7, <1>8

\* A client leaves: told to, or because the server has gone.
LEMMA LeavesIInv ==
    ASSUME IInv, NEW c \in Clients, ClientDisconnect(c) \/ ClientLost(c) \/ ClientKilled(c)
    PROVE  IInv'
<1>1. Values /\ Streams /\ Agreement
  BY DEF IInv
<1>2. ~ Running /\ client[c] = "on" /\ UNCHANGED <<server, history, c2s>>
      /\ s2c' \in [Clients -> Seq(Packages)] /\ \A d \in Clients \ {c} : s2c'[d] = s2c[d]
  <2>1. CASE ClientDisconnect(c)
    <3>1. ClientReceive(c, {"Disconnect"}) /\ UNCHANGED c2s
      BY <2>1 DEF ClientDisconnect
    <3>2. /\ Head(s2c[c]).type = "Disconnect" /\ Head(s2c[c]) = s2c[c][1] /\ 1 \in 1..Len(s2c[c])
          /\ Running => ~ Ends(s2c[c])
          /\ s2c' \in [Clients -> Seq(Packages)] /\ \A d \in Clients \ {c} : s2c'[d] = s2c[d]
          /\ client[c] = "on" /\ UNCHANGED <<server, history>>
      BY <3>1, ReceivesIInv
    <3>3. ~ Running
      BY <3>2 DEF Ends
    <3> QED
      BY <3>1, <3>2, <3>3
  <2>2. CASE ClientLost(c)
    BY <2>2, <1>1 DEF ClientLost, Streams
  <2>3. CASE ClientKilled(c)
    <3>1. ClientReceive(c, Questions \union Echoes) /\ UNCHANGED c2s /\ ~ Running
      BY <2>3 DEF ClientKilled
    <3>2. /\ s2c' \in [Clients -> Seq(Packages)] /\ \A d \in Clients \ {c} : s2c'[d] = s2c[d]
          /\ client[c] = "on" /\ UNCHANGED <<server, history>>
      BY <3>1, ReceivesIInv
    <3> QED
      BY <3>1, <3>2
  <2> QED
    BY <2>1, <2>2, <2>3
<1>3. \E end \in {"exited", "lost"} : client' = [client EXCEPT ![c] = end]
  BY DEF ClientDisconnect, ClientLost, ClientKilled
<1>4. /\ client' \in [Clients -> {"off", "on", "exited", "lost", "dead", "reset"}]
      /\ client'[c] \in {"exited", "lost"}
      /\ \A d \in Clients \ {c} : client'[d] = client[d]
  BY <1>1, <1>3 DEF Values
<1>5. Sends(c2s'[c], Died(c)') /\ c2s' = c2s
  BY <1>1, <1>2, <1>4 DEF Streams, Sends, Died
<1>6. c2s' \in [Clients -> Seq(Messages)]
  BY <1>1, <1>5 DEF Streams
<1>7. client'[c] # "on"
  BY <1>4
<1> QED
  BY <1>2, <1>4, <1>5, <1>6, <1>7, LocalIInv

\* A client is killed, and then the server's end of its connection learns of it.
LEMMA DiesIInv ==
    ASSUME IInv, NEW c \in Clients, ClientDies(c) \/ ConnectionReset(c)
    PROVE  IInv'
<1>1. Values /\ Streams
  BY DEF IInv
<1>2. /\ \E end \in {"dead", "reset"} : client' = [client EXCEPT ![c] = end]
      /\ s2c' = s2c \/ s2c' = [s2c EXCEPT ![c] = <<>>]
      /\ UNCHANGED <<server, history, c2s>>
  BY DEF ClientDies, ConnectionReset
<1>3. /\ client' \in [Clients -> {"off", "on", "exited", "lost", "dead", "reset"}]
      /\ client'[c] \in {"dead", "reset"}
      /\ \A d \in Clients \ {c} : client'[d] = client[d]
  BY <1>1, <1>2 DEF Values
<1>4. s2c' \in [Clients -> Seq(Packages)] /\ \A d \in Clients \ {c} : s2c'[d] = s2c[d]
  <2>1. <<>> \in Seq(Packages) /\ s2c \in [Clients -> Seq(Packages)]
    BY <1>1 DEF Streams
  <2> HIDE DEF Packages
  <2> QED
    BY <1>2, <2>1
<1>5. Sends(c2s'[c], Died(c)') /\ c2s' = c2s
  BY <1>1, <1>2, <1>3 DEF Streams, Sends, Died
<1>6. c2s' \in [Clients -> Seq(Messages)]
  BY <1>1, <1>5 DEF Streams
<1>7. Agreed(c)' /\ client'[c] # "on"
  BY <1>3 DEF Agreed
<1> QED
  BY <1>2, <1>3, <1>4, <1>5, <1>6, <1>7, LocalIInv

-----------------------------------------------------------------------------
(* Match: what each player is asked and what it has answered. *)

\* The packets of a stream that ask for an answer.
QuestionsOf(s) == {s[i] : i \in Questionnaire(s)}

\* What a player is asked is what its stream holds that asks for an answer.
LEMMA AskedIs ==
    /\ Asked = [c \in Clients |-> IF Hears(c) THEN QuestionsOf(s2c[c]) ELSE {}]
    /\ Asked' = [c \in Clients |-> IF Hears(c)' THEN QuestionsOf(s2c'[c]) ELSE {}]
    /\ Said = [c \in Clients |-> IF Hears(c) THEN c2s[c] ELSE <<>>]
    /\ Said' = [c \in Clients |-> IF Hears(c)' THEN c2s'[c] ELSE <<>>]
BY DEF Asked, Said, QuestionsOf, Pending, Questionnaire, Asking, Questions, Echoes, Clients

\* The stages of Match are the places of the server.
LEMMA StageIs ==
    ASSUME Values
    PROVE  /\ Stage \in {"meeting", "naming", "playing", "again_mover", "again_other", "over"}
           /\ Stage = "meeting" <=> pc \in {"conn0", "conn1"}
           /\ Stage = "naming" <=> pc \in {"nick0", "nick1"}
           /\ Stage = "playing" <=> pc = "turn"
           /\ Stage = "again_mover" <=> pc = "again_mover"
           /\ Stage = "again_other" <=> pc = "again_other"
           /\ Stage = "over" <=> ~ Running
<1>1. pc \in {"conn0", "conn1", "nick0", "nick1", "turn", "again_mover", "again_other",
             "stopped", "crashed"}
  BY DEF Values
<1>2. CASE pc \in {"conn0", "conn1"}
  <2>1. Stage = "meeting"
    BY <1>2 DEF Stage, Running
  <2> QED
    BY <2>1, <1>2 DEF Running
<1>3. CASE pc \in {"nick0", "nick1"}
  <2>1. Stage = "naming"
    BY <1>3 DEF Stage, Running
  <2> QED
    BY <2>1, <1>3 DEF Running
<1>4. CASE pc = "turn"
  <2>1. Stage = "playing"
    BY <1>4 DEF Stage, Running
  <2> QED
    BY <2>1, <1>4 DEF Running
<1>5. CASE pc = "again_mover"
  <2>1. Stage = "again_mover"
    BY <1>5 DEF Stage, Running
  <2> QED
    BY <2>1, <1>5 DEF Running
<1>6. CASE pc = "again_other"
  <2>1. Stage = "again_other"
    BY <1>6 DEF Stage, Running
  <2> QED
    BY <2>1, <1>6 DEF Running
<1>7. CASE pc \in {"stopped", "crashed"}
  <2>1. Stage = "over"
    BY <1>7 DEF Stage, Running
  <2> QED
    BY <2>1, <1>7 DEF Running
<1> QED
  BY <1>1, <1>2, <1>3, <1>4, <1>5, <1>6, <1>7

\* The players of Match are the clients of the server.
LEMMA PlayersAre ==
    Game!Players = Clients /\ Keeps \in SUBSET Clients /\ \A c \in Clients : Game!Rival(c) = Other(c)
BY DEF Game!Players, Clients, Keeps, Game!Rival, Other

\* What is asked at each stage.
LEMMA QuestionIs ==
    /\ Stage = "naming" => Game!Question = Game!AskName
    /\ Stage = "playing" => Game!Question = Game!AskBoard(version)
    /\ Stage \notin {"naming", "playing"} => Game!Question = Game!AskAgain
    /\ Stage' = "naming" => (Game!Question)' = Game!AskName
    /\ Stage' = "playing" => (Game!Question)' = Game!AskBoard(version')
    /\ Stage' \notin {"naming", "playing"} => (Game!Question)' = Game!AskAgain
BY DEF Game!Question, Game!AskName, Game!AskBoard, Game!AskAgain

\* A step that asks the players of S what the new stage asks for, and leaves the
\* others with nothing before them.
LEMMA AskKeeps ==
    ASSUME NEW S \in SUBSET Clients, NEW q, Game!Ask(S, q),
           Stage' = "again_mover" => aux_play_again',
           S # {} => Stage' \notin {"meeting", "over"} /\ q = (Game!Question)',
           \A p \in S : p = Awaited' \/ (Stage' = "naming" /\ Awaited' = 0)
    PROVE  (Game!OneAtATime)'
<1>1. \A p \in Clients : Said'[p] = <<>> /\ Asked'[p] = IF p \in S \cap Keeps THEN {q} ELSE {}
  BY PlayersAre DEF Game!Ask
<1>2. Keeps' = Keeps
  BY DEF Game!Ask
<1>3. ASSUME NEW p \in Clients, Asked'[p] # {}
      PROVE  Asked'[p] = {(Game!Question)'} /\ p \in Keeps' /\ Stage' \notin {"meeting", "over"}
             /\ (p = Awaited' \/ (Stage' = "naming" /\ Awaited' = 0))
  BY <1>1, <1>2, <1>3
<1> QED
  BY <1>1, <1>3, PlayersAre DEF Game!OneAtATime

\* A step in which one player answers, leaves or gives the first name.
LEMMA OneKeeps ==
    ASSUME Game!OneAtATime, NEW c \in Clients, UNCHANGED <<Stage, version, aux_play_again>>,
           \A p \in Clients \ {c} : Asked'[p] = Asked[p] /\ Said'[p] = Said[p],
           \A p \in Clients \ {c} : p \in Keeps => p \in Keeps',
           Asked'[c] = {},
           \/ Said'[c] = <<>>
           \/ /\ Asked[c] # {} /\ UNCHANGED Keeps
              /\ \E a \in Game!Replies(Game!Question) : Said'[c] = <<a>>,
           \/ UNCHANGED Awaited
           \/ Stage = "naming" /\ Awaited = 0 /\ Awaited' = 1 /\ c = 0 /\ Said'[c] = <<>>
    PROVE  (Game!OneAtATime)'
<1>1. (Game!Question)' = Game!Question
  BY QuestionIs
<1> DEFINE OK(p, as, sa, keep, due) ==
          /\ as # {} => as = {Game!Question} /\ sa = <<>>
          /\ sa # <<>> => \E a \in Game!Replies(Game!Question) : sa = <<a>>
          /\ as # {} \/ sa # <<>> =>
                /\ p \in keep /\ Stage \notin {"meeting", "over"}
                /\ p = due \/ (Stage = "naming" /\ due = 0)
<1>2. ASSUME NEW p \in Clients PROVE OK(p, Asked[p], Said[p], Keeps, Awaited)
  BY PlayersAre DEF Game!OneAtATime
<1>3. ASSUME NEW p \in Clients PROVE OK(p, Asked'[p], Said'[p], Keeps', Awaited')
  <2>1. CASE p = c
    BY <1>2, <2>1
  <2>2. CASE p # c
    BY <1>2, <2>2 DEF Clients
  <2> QED
    BY <2>1, <2>2
<1>4. Stage = "again_mover" => aux_play_again
  BY DEF Game!OneAtATime
<1> QED
  BY <1>1, <1>3, <1>4, PlayersAre DEF Game!OneAtATime, Game!Replies

\* The questions of a stream that grows are its own and those that are sent.
LEMMA QuestionsOfConcat ==
    ASSUME NEW S, NEW s \in Seq(S), NEW t \in Seq(S)
    PROVE  QuestionsOf(s \o t) = QuestionsOf(s) \union QuestionsOf(t)
<1>1. Len(s) \in Nat /\ Len(t) \in Nat /\ Len(s \o t) = Len(s) + Len(t)
      /\ \A i \in 1..Len(s) + Len(t) : (s \o t)[i] = IF i <= Len(s) THEN s[i] ELSE t[i - Len(s)]
  BY ConcatProperties
<1>2. ASSUME NEW i \in Questionnaire(s \o t)
      PROVE  \/ i \in Questionnaire(s) /\ (s \o t)[i] = s[i]
             \/ i - Len(s) \in Questionnaire(t) /\ (s \o t)[i] = t[i - Len(s)]
  BY <1>1, <1>2 DEF Questionnaire
<1>3. ASSUME NEW i \in Questionnaire(s) PROVE i \in Questionnaire(s \o t) /\ (s \o t)[i] = s[i]
  BY <1>1, <1>3 DEF Questionnaire
<1>4. ASSUME NEW i \in Questionnaire(t)
      PROVE  i + Len(s) \in Questionnaire(s \o t) /\ (s \o t)[i + Len(s)] = t[i]
  <2>1. i \in 1..Len(t) /\ i + Len(s) \in 1..Len(s) + Len(t) /\ ~ (i + Len(s) <= Len(s))
        /\ (i + Len(s)) - Len(s) = i /\ t[i].type \in Asking
    BY <1>1, <1>4 DEF Questionnaire
  <2>2. (s \o t)[i + Len(s)] = t[i]
    BY <1>1, <2>1
  <2> QED
    BY <1>1, <2>1, <2>2 DEF Questionnaire
<1>5. ASSUME NEW q \in QuestionsOf(s \o t) PROVE q \in QuestionsOf(s) \union QuestionsOf(t)
  <2>1. PICK i \in Questionnaire(s \o t) : q = (s \o t)[i]
    BY <1>5 DEF QuestionsOf
  <2>2. CASE i \in Questionnaire(s) /\ (s \o t)[i] = s[i]
    BY <2>1, <2>2 DEF QuestionsOf
  <2>3. CASE i - Len(s) \in Questionnaire(t) /\ (s \o t)[i] = t[i - Len(s)]
    BY <2>1, <2>3 DEF QuestionsOf
  <2> QED
    BY <2>1, <2>2, <2>3, <1>2
<1>6. ASSUME NEW q \in QuestionsOf(s) PROVE q \in QuestionsOf(s \o t)
  <2>1. PICK i \in Questionnaire(s) : q = s[i]
    BY <1>6 DEF QuestionsOf
  <2> QED
    BY <2>1, <1>3 DEF QuestionsOf
<1>7. ASSUME NEW q \in QuestionsOf(t) PROVE q \in QuestionsOf(s \o t)
  <2>1. PICK i \in Questionnaire(t) : q = t[i]
    BY <1>7 DEF QuestionsOf
  <2> DEFINE j == i + Len(s)
  <2>2. j \in Questionnaire(s \o t) /\ (s \o t)[j] = q
    BY <2>1, <1>4
  <2> HIDE DEF j
  <2> QED
    BY <2>2 DEF QuestionsOf
<1> QED
  BY <1>5, <1>6, <1>7

\* One packet is a question or none.
LEMMA QuestionsOfOne ==
    ASSUME NEW p
    PROVE  QuestionsOf(<<p>>) = IF p.type \in Asking THEN {p} ELSE {}
<1>1. Len(<<p>>) = 1 /\ <<p>>[1] = p
  OBVIOUS
<1>2. Questionnaire(<<p>>) = IF p.type \in Asking THEN {1} ELSE {}
  BY <1>1 DEF Questionnaire
<1> QED
  BY <1>1, <1>2 DEF QuestionsOf

\* A stream in which nothing is due holds no question, and one with a question is due an answer.
LEMMA QuestionsOfNone ==
    ASSUME NEW S, NEW s \in Seq(S)
    PROVE  /\ QuestionsOf(s) = {} <=> Due(s) = 0
           /\ s = <<>> => QuestionsOf(s) = {}
<1>1. Due(s) = 0 <=> Questionnaire(s) = {}
  BY DueType, FS_EmptySet DEF Due
<1>2. s = <<>> => Questionnaire(s) = {}
  BY DEF Questionnaire
<1> QED
  BY <1>1, <1>2 DEF QuestionsOf

\* What a client takes from its stream is its first question or none of them.
LEMMA QuestionsOfTail ==
    ASSUME NEW S, NEW s \in Seq(S), s # <<>>
    PROVE  QuestionsOf(s) = (IF Head(s).type \in Asking THEN {Head(s)} ELSE {})
                            \union QuestionsOf(Tail(s))
<1>1. Head(s) \in S /\ Tail(s) \in Seq(S) /\ s = <<Head(s)>> \o Tail(s)
  BY Taking
<1>2. <<Head(s)>> \in Seq(S)
  BY <1>1
<1>3. QuestionsOf(<<Head(s)>> \o Tail(s)) = QuestionsOf(<<Head(s)>>) \union QuestionsOf(Tail(s))
  BY <1>1, <1>2, QuestionsOfConcat
<1> QED
  BY <1>1, <1>3, QuestionsOfOne

\* Packets that pose the questions of Q.
Poses(p, Q) == p \in Seq(Packages) /\ QuestionsOf(p) = Q

\* No packet poses none.
LEMMA PosesNone ==
    Poses(<<>>, {})
<1>1. <<>> \in Seq(Packages)
  OBVIOUS
<1> DEFINE none == <<>>
<1>2. none \in Seq(Packages) /\ none = <<>>
  BY <1>1
<1> HIDE DEF none
<1>3. QuestionsOf(none) = {}
  BY <1>2, QuestionsOfNone
<1> QED
  BY <1>2, <1>3 DEF Poses

\* A packet that is only shown, or that ends the client, poses none.
LEMMA PosesPlain ==
    ASSUME NEW type \in Plain \union {"Disconnect"}, NEW val \in Vals
    PROVE  Poses(<<Pkg(type, val)>>, {})
<1>1. type \notin Asking
  BY DEF Plain, Asking, Questions, Echoes
<1>2. Pkg(type, val) \in Packages /\ Pkg(type, val).type = type
  BY DEF Packages, Pkg
<1> HIDE DEF Pkg, Packages
<1>3. <<Pkg(type, val)>> \in Seq(Packages)
  BY <1>2
<1> QED
  BY <1>1, <1>2, <1>3, QuestionsOfOne DEF Poses

\* A question poses itself.
LEMMA PosesOne ==
    ASSUME NEW type \in Asking, NEW val \in Vals
    PROVE  Poses(<<Pkg(type, val)>>, {Pkg(type, val)})
<1>1. Pkg(type, val) \in Packages /\ Pkg(type, val).type = type
  BY DEF Packages, Pkg
<1> HIDE DEF Pkg, Packages
<1>2. <<Pkg(type, val)>> \in Seq(Packages)
  BY <1>1
<1> QED
  BY <1>1, <1>2, QuestionsOfOne DEF Poses

\* Packets followed by others pose the questions of both.
LEMMA PosesConcat ==
    ASSUME NEW p, NEW P, NEW q, NEW Q, Poses(p, P), Poses(q, Q)
    PROVE  Poses(p \o q, P \union Q)
<1>1. p \o q \in Seq(Packages)
  BY ConcatProperties DEF Poses
<1> QED
  BY <1>1, QuestionsOfConcat DEF Poses

\* The questions of Match are the packets that ask them.
LEMMA PosesQuestion ==
    ASSUME NEW v \in Nat
    PROVE  /\ Poses(<<Pkg("AskNickname", Blank)>>, {Game!AskName})
           /\ Poses(<<Pkg("AskNewGame", Blank)>>, {Game!AskAgain})
           /\ Poses(<<Pkg("BoardState", v)>>, {Game!AskBoard(v)})
<1>1. /\ Game!AskName = Pkg("AskNickname", Blank) /\ Game!AskAgain = Pkg("AskNewGame", Blank)
      /\ Game!AskBoard(v) = Pkg("BoardState", v)
  BY DEF Game!AskName, Game!AskAgain, Game!AskBoard, Game!Item, Game!Text, Pkg, Blank, Typed
<1>2. "AskNickname" \in Asking /\ "AskNewGame" \in Asking /\ "BoardState" \in Asking
  BY DEF Asking, Questions
<1>3. Blank \in Vals /\ v \in Vals
  BY ValsKnown
<1> HIDE DEF Pkg, Blank
<1> QED
  BY <1>1, <1>2, <1>3, PosesOne

\* While names, moves or wishes are due, a player who keeps to the dialogue is
\* connected, and owes the one answer that the server waits for.
LEMMA HearsIs ==
    ASSUME IInv, NEW c \in Clients, Hears(c)
    PROVE  /\ Running /\ client[c] = "on" /\ c \in Keeps /\ images[c] = 0
           /\ pc \notin {"conn0", "conn1"}
           /\ s2c[c] \in Seq(Packages) /\ c2s[c] \in Seq(Messages) /\ ~ Ends(s2c[c])
           /\ Due(s2c[c]) \in Nat /\ Len(c2s[c]) \in Nat
           /\ Due(s2c[c]) + Len(c2s[c]) = Owed(c)
           /\ Owed(c) \in {0, 1}
<1>1. Values /\ Streams /\ Agreement
  BY DEF IInv
<1>2. c \in Keeps /\ Stage \notin {"meeting", "over"}
  BY DEF Hears
<1>3. Running /\ pc \notin {"conn0", "conn1"} /\ images[c] = 0 /\ ~ Died(c)
  BY <1>1, <1>2, StageIs DEF Keeps
<1>4. Agreed(c) /\ client[c] # "off"
  BY <1>1, <1>3, NoneOff DEF Agreement
<1>5. client[c] \in {"off", "on", "exited", "lost", "dead", "reset"}
  BY <1>1 DEF Values
<1>6. client[c] = "on"
  BY <1>3, <1>4, <1>5 DEF Agreed, Died
<1>7. Connected(c)
  BY <1>4, <1>6 DEF Agreed
<1>8. s2c[c] \in Seq(Packages) /\ c2s[c] \in Seq(Messages)
  BY <1>1 DEF Streams
<1>9. Due(s2c[c]) \in Nat /\ Len(c2s[c]) \in Nat
  BY <1>8, DueType
<1>10. Owed(c) \in {0, 1}
  BY DEF Owed
<1>11. Due(s2c[c]) + Len(c2s[c]) = Owed(c)
  <2>1. Due(s2c[c]) + Len(c2s[c]) = Owed(c) + images[c]
    BY <1>7 DEF Connected
  <2> QED
    BY <2>1, <1>3, <1>10
<1> QED
  BY <1>2, <1>3, <1>6, <1>7, <1>8, <1>9, <1>10, <1>11 DEF Connected

-----------------------------------------------------------------------------
(* What the server reads and asks, for who keeps to the dialogue. *)

\* The last of one answer, none being due.
LEMMA LastOne ==
    ASSUME NEW S, NEW s \in Seq(S), NEW due \in Nat
    PROVE  /\ s # <<>> /\ due + Len(s) = 1 => due = 0 /\ s = <<Head(s)>> /\ Tail(s) = <<>>
           /\ due + Len(s) = 0 => due = 0 /\ s = <<>>
<1>1. Len(s) \in Nat /\ (Len(s) = 0 <=> s = <<>>)
  BY EmptySeq
<1>2. CASE s # <<>> /\ due + Len(s) = 1
  <2> DEFINE n == Len(s)
  <2>0. n \in Nat /\ n # 0 /\ due + n = 1
    BY <1>1, <1>2
  <2> HIDE DEF n
  <2>1. n = 1 /\ due = 0
    BY <2>0
  <2>2. Tail(s) \in Seq(S) /\ Len(Tail(s)) = 0
    BY <1>2, <2>1, Taking DEF n
  <2>3. Tail(s) = <<>>
    BY <2>2, EmptySeq
  <2>4. s = <<Head(s)>> \o Tail(s) /\ Head(s) \in S
    BY <1>2, Taking
  <2> QED
    BY <2>1, <2>3, <2>4
<1> QED
  BY <1>1, <1>2

\* The server reads the answer it waits for and sends packets: nothing is left of
\* what a player who keeps to the dialogue was asked and said, but what it is sent.
LEMMA ServedHears ==
    ASSUME IInv, Running, Receive(Awaited), pc \notin {"conn0", "nick0"}, client' = client,
           NEW pkgs, Sent(pkgs), NEW c \in Clients, images'[c] = 0 => images[c] = 0,
           pkgs[c] \in Seq(Packages), Hears(c)'
    PROVE  Asked'[c] = QuestionsOf(pkgs[c]) /\ Said'[c] = <<>>
<1>1. Values /\ Streams /\ Agreed(c)
  BY DEF IInv, Agreement
<1>2. Awaited \in Clients /\ c2s \in [Clients -> Seq(Messages)] /\ s2c \in [Clients -> Seq(Packages)]
  BY <1>1, AwaitedIs DEF Streams
<1>3. images[c] = 0 /\ ~ Died(c) /\ client[c] \in {"off", "on", "exited", "lost", "dead", "reset"}
  BY <1>1 DEF Hears, Keeps, Died, Values
<1>4. client[c] # "off"
  <2> SUFFICES ASSUME Unconnected(c) PROVE FALSE
    BY <1>1 DEF Agreed
  <2>1. c2s[c] = <<>> /\ c = 1 /\ pc = "conn1"
    BY DEF Unconnected
  <2> QED
    BY <2>1, <1>1, AwaitedIs DEF Receive
<1>5. Connected(c)
  BY <1>1, <1>3, <1>4 DEF Agreed, Died
<1>6. Owed(c) = Reads(c) /\ Reads(c) \in Nat
  BY DEF Owed, Reads
<1>7. /\ s2c[c] \in Seq(Packages) /\ c2s[c] \in Seq(Messages)
      /\ Due(s2c[c]) \in Nat /\ Len(c2s[c]) \in Nat
  BY <1>2, DueType
<1>8. Due(s2c[c]) + Len(c2s[c]) = Reads(c)
  <2>1. Due(s2c[c]) + Len(c2s[c]) = Owed(c) + images[c]
    BY <1>5 DEF Connected
  <2> QED
    BY <2>1, <1>3, <1>6
<1>9. Due(s2c[c]) = 0 /\ c2s'[c] = <<>>
  <2>1. CASE c = Awaited
    <3>1. c2s[c] # <<>> /\ c2s'[c] = Tail(c2s[c])
      BY <2>1, <1>2 DEF Receive
    <3>2. Reads(c) = 1
      BY <2>1 DEF Reads
    <3> QED
      BY <3>1, <3>2, <1>7, <1>8, LastOne
  <2>2. CASE c # Awaited
    <3>1. Reads(c) = 0 /\ c2s'[c] = c2s[c]
      BY <2>2, <1>2 DEF Receive, Reads
    <3> QED
      BY <3>1, <1>7, <1>8, LastOne
  <2> QED
    BY <2>1, <2>2
<1>10. s2c'[c] = s2c[c] \o pkgs[c]
  BY <1>3 DEF Sent
<1>11. QuestionsOf(s2c'[c]) = QuestionsOf(pkgs[c])
  <2> DEFINE s == s2c[c]
             p == pkgs[c]
  <2>1. s \in Seq(Packages) /\ p \in Seq(Packages) /\ Due(s) = 0
    BY <1>7, <1>9
  <2> HIDE DEF s, p
  <2>2. QuestionsOf(s) = {} /\ QuestionsOf(s \o p) = QuestionsOf(s) \union QuestionsOf(p)
    BY <2>1, QuestionsOfConcat, QuestionsOfNone
  <2> QED
    BY <2>2, <1>10 DEF s, p
<1> QED
  BY <1>9, <1>11, AskedIs

\* The players of S are asked q, and nothing else of anyone.
LEMMA ServedAsks ==
    ASSUME IInv, Running, Receive(Awaited), pc \notin {"conn0", "nick0"}, client' = client,
           NEW pkgs, Sent(pkgs), NEW S \in SUBSET Clients, NEW q,
           UNCHANGED Keeps, \A c \in Clients : images'[c] = 0 => images[c] = 0,
           Stage' \notin {"meeting", "over"},
           \A c \in Clients : c \in Keeps => Poses(pkgs[c], IF c \in S THEN {q} ELSE {})
    PROVE  Game!Ask(S, q)
<1>1. Keeps' = Keeps
  OBVIOUS
<1>2. ASSUME NEW c \in Clients, Hears(c)'
      PROVE  Asked'[c] = (IF c \in S THEN {q} ELSE {}) /\ Said'[c] = <<>>
  <2>1. pkgs[c] \in Seq(Packages) /\ QuestionsOf(pkgs[c]) = IF c \in S THEN {q} ELSE {}
    BY <1>1, <1>2 DEF Poses, Hears
  <2> QED
    BY <2>1, <1>2, ServedHears
<1>3. ASSUME NEW c \in Clients
      PROVE  Asked'[c] = (IF c \in S \cap Keeps THEN {q} ELSE {}) /\ Said'[c] = <<>>
  <2>1. Hears(c)' <=> c \in Keeps
    BY <1>1 DEF Hears
  <2>2. CASE c \in Keeps
    BY <2>1, <2>2, <1>2
  <2>3. CASE c \notin Keeps
    BY <2>1, <2>3, AskedIs
  <2> QED
    BY <2>2, <2>3
<1>4. Asked' = [c \in Clients |-> IF c \in S \cap Keeps THEN {q} ELSE {}] /\ Said' = [c \in Clients |-> <<>>]
  <2>1. Asked' = [c \in Clients |-> Asked'[c]] /\ Said' = [c \in Clients |-> Said'[c]]
    BY AskedIs
  <2> HIDE DEF Asked, Said
  <2> QED
    BY <2>1, <1>3
<1> QED
  BY <1>1, <1>4, PlayersAre DEF Game!Ask

\* Once the match is over nobody is asked anything.
LEMMA OverAsks ==
    ASSUME NEW q, Stage' = "over", UNCHANGED Keeps
    PROVE  Game!Ask({}, q)
<1>1. \A c \in Clients : ~ Hears(c)'
  BY DEF Hears
<1>2. Asked' = [c \in Clients |-> {}] /\ Said' = [c \in Clients |-> <<>>]
  BY <1>1, AskedIs
<1> QED
  BY <1>2, PlayersAre DEF Game!Ask

\* What the server reads of a player who keeps to the dialogue is its answer to the
\* question of the stage.
LEMMA GivenIs ==
    ASSUME IInv, Game!OneAtATime, Running, Receive(Awaited), pc \notin {"conn0", "conn1"}
    PROVE  /\ Game!Given(Packet(Awaited))
           /\ Awaited \in Keeps =>
                 /\ Packet(Awaited) \in Game!Replies(Game!Question)
                 /\ Said[Awaited] = <<Packet(Awaited)>>
<1>1. Awaited \in Clients
  BY AwaitedIs DEF IInv
<1> SUFFICES ASSUME Awaited \in Keeps
             PROVE  /\ Packet(Awaited) \in Game!Replies(Game!Question)
                    /\ Said[Awaited] = <<Packet(Awaited)>>
  BY DEF Game!Given
<1>2. Stage \notin {"meeting", "over"}
  BY StageIs DEF IInv
<1>3. Said[Awaited] = c2s[Awaited] /\ c2s[Awaited] # <<>>
  BY <1>1, <1>2, AskedIs DEF Hears, Receive
<1>4. PICK a \in Game!Replies(Game!Question) : Said[Awaited] = <<a>>
  BY <1>1, <1>3, PlayersAre DEF Game!OneAtATime
<1>5. Packet(Awaited) = a
  BY <1>3, <1>4 DEF Packet
<1> QED
  BY <1>4, <1>5

-----------------------------------------------------------------------------
(* One thing at a time: no step of Match breaks it. *)

\* The abstract streams are those of the two players.
LEMMA AskedType ==
    ASSUME Streams
    PROVE  Asked \in [Clients -> SUBSET Packages] /\ Said \in [Clients -> Seq(Messages)]
<1>1. ASSUME NEW c \in Clients PROVE Asked[c] \in SUBSET Packages /\ Said[c] \in Seq(Messages)
  <2>1. s2c[c] \in Seq(Packages) /\ c2s[c] \in Seq(Messages)
    BY DEF Streams
  <2>2. QuestionsOf(s2c[c]) \in SUBSET Packages
    BY <2>1 DEF QuestionsOf, Questionnaire
  <2> QED
    BY <2>1, <2>2, AskedIs
<1> QED
  BY <1>1, AskedIs

\* No step of Match gives a player a second thing, or leaves it one of an earlier
\* board, game or stage.
LEMMA MatchKeeps ==
    ASSUME Values, Streams, Game!OneAtATime, Game!Next
    PROVE  (Game!OneAtATime)'
<1>1. /\ Awaited \in Clients /\ 0 \in Clients /\ 1 \in Clients
      /\ Game!Players = Clients /\ Keeps \in SUBSET Clients
      /\ Asked \in [Clients -> SUBSET Packages] /\ Said \in [Clients -> Seq(Messages)]
  BY AwaitedIs, AskedType, PlayersAre DEF Clients
<1>2. CASE Game!Meet
  <2>1. UNCHANGED <<Stage, version, aux_play_again, Keeps, Asked, Said>> /\ Stage = "meeting"
    BY <1>2 DEF Game!Meet
  <2>2. (Game!Question)' = Game!Question
    BY <2>1, QuestionIs
  <2> QED
    BY <2>1, <2>2 DEF Game!OneAtATime
<1>3. CASE Game!AskBoth
  <2>1. Stage' = "naming" /\ Awaited' = 0 /\ Game!Ask(Clients, Game!AskName)
    BY <1>1, <1>3 DEF Game!AskBoth
  <2> QED
    BY <2>1, QuestionIs, AskKeeps
<1>4. CASE Game!FirstName
  <2>1. /\ Stage = "naming" /\ Awaited = 0 /\ Awaited' = 1
        /\ Asked' = [Asked EXCEPT ![0] = {}] /\ Said' = [Said EXCEPT ![0] = <<>>]
        /\ UNCHANGED <<Stage, version, aux_play_again, Keeps>>
    BY <1>4 DEF Game!FirstName
  <2>2. /\ Asked'[0] = {} /\ Said'[0] = <<>>
        /\ \A p \in Clients \ {0} : Asked'[p] = Asked[p] /\ Said'[p] = Said[p]
    BY <2>1, <1>1
  <2> QED
    BY <2>1, <2>2, <1>1, OneKeeps
<1>5. CASE Game!NameTaken
  <2>1. Stage' = "naming" /\ Awaited' = 1 /\ Game!Ask({1}, Game!AskName)
    BY <1>5 DEF Game!NameTaken
  <2> QED
    BY <2>1, <1>1, QuestionIs, AskKeeps
<1>6. CASE Game!Open
  <2>1. Stage' = "playing" /\ Awaited' \in Clients /\ Game!Ask({Awaited'}, Game!AskBoard(version'))
    BY <1>1, <1>6 DEF Game!Open
  <2> QED
    BY <2>1, QuestionIs, AskKeeps
<1>7. CASE Game!Repeat
  <2>1. Stage' = "playing" /\ Awaited' = Awaited /\ version' = version
        /\ Game!Ask({Awaited}, Game!AskBoard(version))
    BY <1>7 DEF Game!Repeat
  <2> QED
    BY <2>1, <1>1, QuestionIs, AskKeeps
<1>8. CASE Game!Move
  <2>1. Stage' = "playing" /\ Awaited' = Other(Awaited)
        /\ Game!Ask({Awaited'}, Game!AskBoard(version'))
    BY <1>1, <1>8, PlayersAre DEF Game!Move, Game!Moves
  <2>2. Awaited' \in Clients
    BY <1>1, <2>1 DEF Other, Clients
  <2> QED
    BY <2>1, <2>2, QuestionIs, AskKeeps
<1>9. CASE Game!Finish
  <2>1. Stage' = "again_mover" /\ Awaited' = Awaited /\ aux_play_again' = TRUE
        /\ Game!Ask({Awaited}, Game!AskAgain)
    BY <1>9 DEF Game!Finish
  <2> QED
    BY <2>1, <1>1, QuestionIs, AskKeeps
<1>10. CASE Game!FirstWish
  <2>1. Stage' = "again_other" /\ Awaited' = Other(Awaited)
        /\ Game!Ask({Awaited'}, Game!AskAgain)
    BY <1>1, <1>10, PlayersAre DEF Game!FirstWish
  <2>2. Awaited' \in Clients
    BY <1>1, <2>1 DEF Other, Clients
  <2> QED
    BY <2>1, <2>2, QuestionIs, AskKeeps
<1>11. CASE Game!Stop
  <2>1. Stage' = "over" /\ Game!Ask({}, Game!AskAgain)
    BY <1>11 DEF Game!Stop
  <2> QED
    BY <2>1, AskKeeps
<1>12. ASSUME NEW p \in Clients, Game!Answer(p) PROVE (Game!OneAtATime)'
  <2>1. PICK q \in Asked[p] : \E a \in Game!Replies(q) : Said' = [Said EXCEPT ![p] = <<a>>]
    BY <1>12 DEF Game!Answer
  <2>2. PICK a \in Game!Replies(q) : Said' = [Said EXCEPT ![p] = <<a>>]
    BY <2>1
  <2>3. q = Game!Question
    BY <1>1, <2>1 DEF Game!OneAtATime
  <2>4. /\ Asked' = [Asked EXCEPT ![p] = {}]
        /\ UNCHANGED <<Stage, Awaited, version, aux_play_again, Keeps>>
    BY <1>12 DEF Game!Answer
  <2>5. /\ Asked'[p] = {} /\ Said'[p] = <<a>>
        /\ \A d \in Clients \ {p} : Asked'[d] = Asked[d] /\ Said'[d] = Said[d]
    BY <2>2, <2>4, <1>1
  <2> QED
    BY <2>1, <2>2, <2>3, <2>4, <2>5, OneKeeps
<1>13. ASSUME NEW p \in Clients, Game!Leave(p) PROVE (Game!OneAtATime)'
  <2>1. /\ Asked' = [Asked EXCEPT ![p] = {}] /\ Said' = [Said EXCEPT ![p] = <<>>]
        /\ UNCHANGED <<Stage, Awaited, version, aux_play_again>> /\ Keeps' = Keeps \ {p}
    BY <1>13 DEF Game!Leave
  <2>2. /\ Asked'[p] = {} /\ Said'[p] = <<>>
        /\ \A d \in Clients \ {p} : Asked'[d] = Asked[d] /\ Said'[d] = Said[d]
    BY <2>1, <1>1
  <2> QED
    BY <2>1, <2>2, OneKeeps
<1>14. Game!SecondName \/ Game!Rematch => Game!Open
  BY DEF Game!SecondName, Game!Rematch
<1> QED
  BY <1>1, <1>2, <1>3, <1>4, <1>5, <1>6, <1>7, <1>8, <1>9, <1>10, <1>11, <1>12, <1>13, <1>14
  DEF Game!Next

\* What a player who keeps to the dialogue says in its turn: a command about the
\* board as it is.
LEMMA GivenPlaying ==
    ASSUME IInv, Game!OneAtATime, pc = "turn", Receive(n_socket)
    PROVE  n_socket \in Keeps =>
              \E type \in {"SendMove", "SendMsg", "Image", "Disconnect"}, one \in BOOLEAN :
                 /\ Packet(n_socket) = Game!Item(type, Game!Text(one, version))
                 /\ Packet(n_socket).type = type /\ (Packet(n_socket).val.one <=> one)
                 /\ Said[n_socket] = <<Game!Item(type, Game!Text(one, version))>>
<1> SUFFICES ASSUME n_socket \in Keeps
             PROVE  \E type \in {"SendMove", "SendMsg", "Image", "Disconnect"}, one \in BOOLEAN :
                       /\ Packet(n_socket) = Game!Item(type, Game!Text(one, version))
                       /\ Packet(n_socket).type = type /\ (Packet(n_socket).val.one <=> one)
                       /\ Said[n_socket] = <<Game!Item(type, Game!Text(one, version))>>
  OBVIOUS
<1>1. Values /\ Awaited = n_socket /\ Running
  BY AwaitedIs DEF IInv, Running
<1>2. Game!Question = Game!AskBoard(version)
  BY <1>1, StageIs, QuestionIs
<1>3. Packet(n_socket) \in Game!Replies(Game!AskBoard(version)) /\ Said[n_socket] = <<Packet(n_socket)>>
  BY <1>1, <1>2, GivenIs
<1>4. Packet(n_socket) \in {Game!Item(type, Game!Text(one, version)) :
                              type \in {"SendMove", "SendMsg", "Image", "Disconnect"}, one \in BOOLEAN}
  <2>1. Game!AskBoard(version).type = "BoardState" /\ Game!AskBoard(version).val = version
    BY DEF Game!AskBoard, Game!Item
  <2> QED
    BY <1>3, <2>1 DEF Game!Replies
<1>5. PICK type \in {"SendMove", "SendMsg", "Image", "Disconnect"}, one \in BOOLEAN :
         Packet(n_socket) = Game!Item(type, Game!Text(one, version))
  BY <1>4
<1>6. Packet(n_socket).type = type /\ Packet(n_socket).val.one = one
  BY <1>5 DEF Game!Item, Game!Text
<1> QED
  BY <1>3, <1>5, <1>6, Zenon

\* What it says when asked for another game.
LEMMA GivenWish ==
    ASSUME IInv, Game!OneAtATime, pc \in {"again_mover", "again_other"}, Receive(Awaited)
    PROVE  Awaited \in Keeps =>
              \E one \in BOOLEAN :
                 /\ Packet(Awaited) = Game!Item("AnswerNewGame", Game!Text(one, 0))
                 /\ SaysYes(Awaited) <=> one
                 /\ Said[Awaited] = <<Game!Item("AnswerNewGame", Game!Text(one, 0))>>
<1> SUFFICES ASSUME Awaited \in Keeps
             PROVE  \E one \in BOOLEAN :
                       /\ Packet(Awaited) = Game!Item("AnswerNewGame", Game!Text(one, 0))
                       /\ SaysYes(Awaited) <=> one
                       /\ Said[Awaited] = <<Game!Item("AnswerNewGame", Game!Text(one, 0))>>
  OBVIOUS
<1>1. Values /\ Running
  BY DEF IInv, Running
<1>2. Game!Question = Game!AskAgain
  BY <1>1, StageIs, QuestionIs
<1>3. Packet(Awaited) \in Game!Replies(Game!AskAgain) /\ Said[Awaited] = <<Packet(Awaited)>>
  BY <1>1, <1>2, GivenIs
<1>4. Packet(Awaited) \in {Game!Item("AnswerNewGame", Game!Text(one, 0)) : one \in BOOLEAN}
  <2>1. Game!AskAgain.type = "AskNewGame"
    BY DEF Game!AskAgain, Game!Item
  <2> QED
    BY <1>3, <2>1 DEF Game!Replies
<1>5. PICK one \in BOOLEAN : Packet(Awaited) = Game!Item("AnswerNewGame", Game!Text(one, 0))
  BY <1>4
<1>6. Packet(Awaited).type = "AnswerNewGame" /\ Packet(Awaited).val.one = one
  BY <1>5 DEF Game!Item, Game!Text
<1>7. SaysYes(Awaited) <=> one
  BY <1>6, Zenon DEF SaysYes
<1> QED
  BY <1>3, <1>5, <1>7, Zenon

\* A name that it gives.
LEMMA GivenName ==
    ASSUME IInv, Game!OneAtATime, pc \in {"nick0", "nick1"}, Receive(Awaited),
           Packet(Awaited).type = "RetNickname"
    PROVE  /\ Packet(Awaited).val \in Nicknames
           /\ Game!Given(Game!Item("RetNickname", Packet(Awaited).val))
<1>1. Values /\ Running /\ Streams /\ pc \notin {"conn0", "conn1"}
  BY DEF IInv, Running
<1>2. Awaited \in Clients
  BY <1>1, AwaitedIs
<1>3. Packet(Awaited).val \in Nicknames
  BY <1>1, <1>2, FirstMessage DEF Receive
<1>4. Game!Given(Packet(Awaited))
  BY <1>1, GivenIs
<1>5. ASSUME Awaited \in Keeps
      PROVE  Packet(Awaited) = Game!Item("RetNickname", Packet(Awaited).val)
  <2>1. Game!Question = Game!AskName /\ Game!AskName.type = "AskNickname"
    BY <1>1, StageIs, QuestionIs DEF Game!AskName, Game!Item
  <2>2. Packet(Awaited) \in Game!Replies(Game!AskName)
    BY <1>1, <1>5, <2>1, GivenIs
  <2>3. Packet(Awaited) \in {Game!Item("RetNickname", n) : n \in Nicknames}
    BY <2>1, <2>2 DEF Game!Replies
  <2> QED
    BY <2>3 DEF Game!Item
<1> QED
  BY <1>3, <1>4, <1>5 DEF Game!Given

-----------------------------------------------------------------------------
(* Each step of the server is a step of Match, or none. *)

\* A step of Match, or none.
Plays == Game!Next \/ UNCHANGED Game!vars

\* The greetings: after the second one both are asked for a name.
LEMMA GreetPlays ==
    ASSUME IInv, NEW c \in Clients, ServerGreet(c)
    PROVE  Plays
<1>1. Values /\ Streams
  BY DEF IInv
<1> DEFINE greeting == <<Pkg("ConnectionEstablished", Blank)>>
           question == <<Pkg("AskNickname", Blank)>>
           both == [d \in Clients |-> IF d = 0 THEN question ELSE greeting \o question]
<1>2. /\ pc = IF c = 0 THEN "conn0" ELSE "conn1"
      /\ Receive(c)
      /\ c # 0 => SendBoth(both)
      /\ pc' = IF c = 0 THEN "conn1" ELSE "nick0"
      /\ UNCHANGED <<n_socket, nickname, score, version, moves, games, aux_play_again, images, client>>
  BY DEF ServerGreet, history
<1>3. UNCHANGED Keeps
  BY <1>2 DEF Keeps, Died
<1>4. CASE c = 0
  <2>1. Stage = "meeting" /\ Stage' = "meeting" /\ Awaited = 0 /\ Awaited' = 1
    BY <1>2, <1>4 DEF Stage, Awaited
  <2>2. UNCHANGED <<Asked, Said>>
    BY <2>1, AskedIs DEF Hears
  <2> QED
    BY <1>2, <1>3, <2>1, <2>2 DEF Plays, Game!Next, Game!Meet
<1>5. CASE c # 0
  <2>1. /\ pc = "conn1" /\ pc' = "nick0" /\ Stage = "meeting" /\ Stage' = "naming"
        /\ Awaited = 1 /\ Awaited' = 0 /\ c = 1 /\ Running
    BY <1>2, <1>5 DEF Stage, Awaited, Clients, Running
  <2>2. Poses(greeting, {}) /\ Poses(question, {Game!AskName})
    BY <1>1, PosesPlain, PosesQuestion, ValsKnown DEF Plain, Values
  <2> HIDE DEF greeting, question
  <2>3. Poses(greeting \o question, {} \union {Game!AskName})
    BY <2>2, PosesConcat
  <2>4. \A d \in Clients : Poses(both[d], {Game!AskName})
    BY <2>2, <2>3
  <2>5. SendBoth(both) /\ \A d \in Clients : both[d] \in Seq(Packages)
    BY <1>2, <1>5, <2>4 DEF Poses
  <2> HIDE DEF both
  <2>6. Sent(both)
    BY <1>1, <2>5, SendsBoth
  <2>7. Game!Ask(Clients, Game!AskName)
    BY <1>2, <1>3, <2>1, <2>4, <2>6, ServedAsks
  <2>8. Game!AskBoth
    BY <1>2, <2>1, <2>7, PlayersAre DEF Game!AskBoth
  <2> QED
    BY <2>8 DEF Plays, Game!Next
<1> QED
  BY <1>4, <1>5

\* The first name; the other player may have answered meanwhile.
LEMMA Nickname0Plays ==
    ASSUME IInv, Game!OneAtATime, ServerNickname0
    PROVE  Plays
<1>1. Values /\ Streams
  BY DEF IInv
<1>2. /\ pc = "nick0" /\ Receive(0) /\ Packet(0).type = "RetNickname"
      /\ nickname' = [nickname EXCEPT ![0] = Packet(0).val]
      /\ pc' = "nick1"
      /\ UNCHANGED <<n_socket, score, version, moves, games, aux_play_again, images, s2c, client>>
  BY DEF ServerNickname0, history
<1>3. /\ Awaited = 0 /\ Awaited' = 1 /\ Stage = "naming" /\ Stage' = "naming" /\ UNCHANGED Keeps
      /\ 0 \in Clients
  BY <1>2 DEF Awaited, Stage, Keeps, Died, Clients
<1>4. Packet(0).val \in Nicknames /\ Game!Given(Game!Item("RetNickname", Packet(0).val))
  BY <1>2, <1>3, GivenName
<1>5. c2s \in [Clients -> Seq(Messages)] /\ c2s[0] # <<>> /\ c2s' = [c2s EXCEPT ![0] = Tail(c2s[0])]
  BY <1>1, <1>2 DEF Streams, Receive
<1>6. Asked'[0] = {} /\ Said'[0] = <<>>
  <2>1. CASE Hears(0)
    <3>1. Said[0] = c2s[0] /\ Asked[0] = QuestionsOf(s2c[0]) /\ Hears(0)'
      BY <2>1, <1>3, AskedIs DEF Hears
    <3>2. Asked[0] = {}
      BY <3>1, <1>3, <1>5, PlayersAre DEF Game!OneAtATime
    <3>3. c2s[0] \in Seq(Messages) /\ Due(s2c[0]) \in Nat /\ Due(s2c[0]) + Len(c2s[0]) = 1
      <4>1. Due(s2c[0]) + Len(c2s[0]) = Owed(0) /\ c2s[0] \in Seq(Messages) /\ Due(s2c[0]) \in Nat
        BY <2>1, <1>3, HearsIs
      <4> QED
        BY <4>1, <1>3 DEF Owed
    <3>4. Tail(c2s[0]) = <<>>
      BY <3>3, <1>5, LastOne
    <3>5. c2s'[0] = <<>> /\ s2c'[0] = s2c[0]
      BY <1>2, <1>3, <1>5, <3>4
    <3> QED
      BY <3>1, <3>2, <3>5, <1>3, AskedIs
  <2>2. CASE ~ Hears(0)
    BY <2>2, <1>3, AskedIs DEF Hears
  <2> QED
    BY <2>1, <2>2
<1>7. ASSUME NEW d \in Clients \ {0} PROVE Asked'[d] = Asked[d] /\ Said'[d] = Said[d]
  <2>1. (Hears(d)' <=> Hears(d)) /\ c2s'[d] = c2s[d] /\ s2c'[d] = s2c[d]
    BY <1>2, <1>3, <1>5 DEF Hears
  <2> QED
    BY <2>1, AskedIs
<1>8. Asked' = [Asked EXCEPT ![0] = {}] /\ Said' = [Said EXCEPT ![0] = <<>>]
  <2>1. /\ Asked = [d \in Clients |-> Asked[d]] /\ Said = [d \in Clients |-> Said[d]]
        /\ Asked' = [d \in Clients |-> Asked'[d]] /\ Said' = [d \in Clients |-> Said'[d]]
    BY AskedIs
  <2> QED
    BY <2>1, <1>6, <1>7, <1>3
<1>9. Game!FirstName
  BY <1>2, <1>3, <1>4, <1>8 DEF Game!FirstName
<1> QED
  BY <1>9 DEF Plays, Game!Next

\* The name is in use: it is asked for again.
LEMMA NicknameUsedPlays ==
    ASSUME IInv, Game!OneAtATime, ServerNicknameUsed
    PROVE  Plays
<1>1. Values /\ Streams
  BY DEF IInv
<1>2. /\ pc = "nick1" /\ Receive(1) /\ Packet(1).type = "RetNickname" /\ Packet(1).val = nickname[0]
      /\ SendTo(1, <<Pkg("AskNickname", Blank)>>)
      /\ UNCHANGED <<pc, n_socket, nickname, score, version, aux_play_again, images, client>>
  BY DEF ServerNicknameUsed, SameNickname, AskAgain, server, history
<1>3. /\ Awaited = 1 /\ Awaited' = 1 /\ Stage = "naming" /\ Stage' = "naming" /\ UNCHANGED Keeps
      /\ 1 \in Clients /\ Running
  BY <1>2 DEF Awaited, Stage, Keeps, Died, Clients, Running
<1>4. Game!Given(Game!Item("RetNickname", nickname[0]))
  BY <1>2, <1>3, GivenName
<1> DEFINE p == <<Pkg("AskNickname", Blank)>>
           pkgs == [c \in Clients |-> IF c = 1 THEN p ELSE <<>>]
<1>5. Poses(p, {Game!AskName}) /\ Poses(<<>>, {})
  BY <1>1, PosesQuestion, PosesNone DEF Values
<1>6. p \in Seq(Packages) /\ SendTo(1, p)
  BY <1>2, <1>5 DEF Poses
<1> HIDE DEF p
<1>7. Sent(pkgs)
  BY <1>1, <1>3, <1>6, SendsOne
<1>8. \A c \in Clients : Poses(pkgs[c], IF c \in {1} THEN {Game!AskName} ELSE {})
  BY <1>5
<1> HIDE DEF pkgs
<1>9. Game!Ask({1}, Game!AskName)
  BY <1>2, <1>3, <1>7, <1>8, ServedAsks
<1>10. Game!NameTaken
  BY <1>2, <1>3, <1>4, <1>9 DEF Game!NameTaken
<1> QED
  BY <1>10 DEF Plays, Game!Next

\* What opens a game asks its first player for a move, and nothing else of anyone.
LEMMA OpeningPoses ==
    ASSUME Values', NEW c \in Clients
    PROVE  Poses(Opening(c), IF c = n_socket' THEN {Game!AskBoard(version')} ELSE {})
<1>1. n_socket' \in Clients /\ score' \in [Clients -> Nat] /\ version' \in Nat
  BY DEF Values
<1> DEFINE first == IF c = n_socket' THEN 2 ELSE 1
           scores == ScoresFor(c)
           start == <<Pkg("Start", Blank)>>
           told == <<Pkg("Scores", scores)>>
           who == <<Pkg("WhosFirst", first)>>
           shown == IF GetsBoard(c) THEN <<Pkg("BoardState", version')>> ELSE <<>>
           Q == IF c = n_socket' THEN {Game!AskBoard(version')} ELSE {}
<1>2. scores \in Nat \X Nat /\ first \in Int
  BY <1>1 DEF ScoresFor, Clients
<1>3. Opening(c) = ((start \o told) \o who) \o shown
  BY DEF Opening
<1> HIDE DEF first, scores
<1>4. Poses(start, {}) /\ Poses(told, {}) /\ Poses(who, {})
  BY <1>2, PosesPlain, ValsKnown DEF Plain, Vals
<1>5. Poses(shown, Q)
  BY <1>1, PosesQuestion, PosesNone DEF GetsBoard
<1> HIDE DEF start, told, who, shown, Q
<1>6. Poses(start \o told, {} \union {})
  BY <1>4, PosesConcat
<1>7. Poses((start \o told) \o who, ({} \union {}) \union {})
  BY <1>4, <1>6, PosesConcat
<1>8. Poses(Opening(c), (({} \union {}) \union {}) \union Q)
  BY <1>3, <1>5, <1>7, PosesConcat
<1>9. (({} \union {}) \union {}) \union Q = Q
  OBVIOUS
<1> QED
  BY <1>8, <1>9 DEF Q

\* A game opens.
LEMMA StartGamePlays ==
    ASSUME IInv, Running, pc \notin {"conn0", "conn1", "nick0"}, Receive(Awaited), client' = client,
           images' = images, Values', NEW before, StartGame(before),
           \A c \in Clients : Poses(before[c], {})
    PROVE  Game!Open /\ UNCHANGED Keeps
<1>1. Values /\ Streams /\ UNCHANGED Keeps
  BY DEF IInv, Keeps, Died
<1> DEFINE pkgs == [c \in Clients |-> before[c] \o Opening(c)]
<1>2. pc' = "turn" /\ SendBoth(pkgs) /\ n_socket' \in Clients
  BY DEF StartGame
<1>3. ASSUME NEW c \in Clients
      PROVE  Poses(pkgs[c], IF c \in {n_socket'} THEN {Game!AskBoard(version')} ELSE {})
  <2> DEFINE Q == IF c = n_socket' THEN {Game!AskBoard(version')} ELSE {}
  <2>1. Poses(Opening(c), Q) /\ Poses(before[c], {})
    BY OpeningPoses
  <2> HIDE DEF Q
  <2>2. Poses(before[c] \o Opening(c), {} \union Q)
    BY <2>1, PosesConcat
  <2>3. {} \union Q = Q
    OBVIOUS
  <2> QED
    BY <2>2, <2>3 DEF Q
<1>4. \A c \in Clients : pkgs[c] \in Seq(Packages)
  BY <1>3 DEF Poses
<1> HIDE DEF pkgs
<1>5. Sent(pkgs)
  BY <1>1, <1>2, <1>4, SendsBoth
<1>6. Stage' = "playing" /\ Awaited' = n_socket'
  BY <1>2 DEF Stage, Awaited
<1>7. {n_socket'} \in SUBSET Clients
  BY <1>2
<1>8. Game!Ask({n_socket'}, Game!AskBoard(version'))
  BY <1>1, <1>3, <1>5, <1>6, <1>7, ServedAsks
<1> QED
  BY <1>1, <1>2, <1>6, <1>8, PlayersAre DEF Game!Open

\* The second name opens the first game.
LEMMA Nickname1Plays ==
    ASSUME IInv, Values', Game!OneAtATime, ServerNickname1
    PROVE  Plays
<1>1. Values /\ Streams
  BY DEF IInv
<1> DEFINE before == [c \in Clients |-> <<Pkg("Oponentfound", nickname'[Other(c)])>>]
<1>2. /\ pc = "nick1" /\ Receive(1) /\ Packet(1).type = "RetNickname" /\ Packet(1).val # nickname[0]
      /\ nickname' = [nickname EXCEPT ![1] = Packet(1).val]
      /\ StartGame(before)
      /\ UNCHANGED <<score, version, aux_play_again, images, client>>
  BY DEF ServerNickname1, SameNickname, history
<1>3. Awaited = 1 /\ Stage = "naming" /\ 1 \in Clients /\ Running
  BY <1>2 DEF Awaited, Stage, Clients, Running
<1>4. Packet(1).val \in Nicknames \ {nickname[0]} /\ Game!Given(Game!Item("RetNickname", Packet(1).val))
  BY <1>2, <1>3, GivenName
<1>5. ASSUME NEW c \in Clients PROVE Poses(before[c], {})
  <2>1. Other(c) \in Clients
    BY DEF Other, Clients
  <2>2. nickname'[Other(c)] \in Vals
    BY <2>1, ValsKnown DEF Values
  <2> QED
    BY <2>2, PosesPlain DEF Plain
<1> HIDE DEF before
<1>6. Game!Open
  BY <1>2, <1>3, <1>5, StartGamePlays
<1>7. Game!SecondName
  BY <1>2, <1>3, <1>4, <1>6 DEF Game!SecondName
<1> QED
  BY <1>7 DEF Plays, Game!Next

\* Two wishes for another game open it.
LEMMA AgainOtherPlays ==
    ASSUME IInv, Values', Game!OneAtATime, ServerAgainOther
    PROVE  Plays
<1>1. Values /\ Streams
  BY DEF IInv
<1> DEFINE before == [c \in Clients |-> <<>>]
<1>2. /\ pc = "again_other" /\ Receive(Other(n_socket))
      /\ aux_play_again /\ SaysYes(Other(n_socket))
      /\ version' = version + 1 /\ score' = score
      /\ StartGame(before)
      /\ UNCHANGED <<nickname, aux_play_again, images, client>>
  BY DEF ServerAgainOther, history
<1>3. Awaited = Other(n_socket) /\ Stage = "again_other" /\ Running
  BY <1>2 DEF Awaited, Stage, Running
<1>4. Game!Given(Game!Item("AnswerNewGame", Game!Text(TRUE, 0)))
  <2> SUFFICES ASSUME Awaited \in Keeps
               PROVE  Said[Awaited] = <<Game!Item("AnswerNewGame", Game!Text(TRUE, 0))>>
    BY DEF Game!Given
  <2>1. PICK one \in BOOLEAN :
           /\ SaysYes(Awaited) <=> one
           /\ Said[Awaited] = <<Game!Item("AnswerNewGame", Game!Text(one, 0))>>
    BY <1>2, <1>3, GivenWish
  <2>2. one = TRUE
    BY <1>2, <1>3, <2>1
  <2> QED
    BY <2>1, <2>2
<1>5. \A c \in Clients : Poses(before[c], {})
  BY PosesNone
<1> HIDE DEF before
<1>6. Game!Open /\ UNCHANGED Keeps
  BY <1>2, <1>3, <1>5, StartGamePlays
<1>7. Game!Rematch
  BY <1>2, <1>3, <1>4, <1>6 DEF Game!Rematch
<1> QED
  BY <1>7 DEF Plays, Game!Next

\* An answer that leads to no move: the same board once more, or a player who uses images.
LEMMA AgainPlays ==
    ASSUME IInv, Game!OneAtATime, NEW type, NEW reply \in Seq(Packages), NEW k \in Nat, Again(type, reply),
           images' = [images EXCEPT ![n_socket] = @ + k],
           \/ k = 0 /\ type \notin {"Image", "SendMsg", "Disconnect"} /\ (n_socket \in Keeps => Poses(reply, {}))
           \/ k = 1 /\ type = "Image"
    PROVE  Plays
<1>1. Values /\ Streams
  BY DEF IInv
<1>2. /\ pc = "turn" /\ Receive(n_socket) /\ Packet(n_socket).type = type
      /\ SendTo(n_socket, reply \o <<Pkg("BoardState", version)>>)
      /\ UNCHANGED <<pc, n_socket, nickname, score, version, aux_play_again, client>>
  BY DEF Again, Turn, server
<1>3. /\ n_socket \in Clients /\ version \in Nat /\ images \in [Clients -> Nat]
      /\ images'[n_socket] = images[n_socket] + k
      /\ \A c \in Clients : c # n_socket => images'[c] = images[c]
  BY <1>1 DEF Values
<1>4. /\ Awaited = n_socket /\ Awaited' = n_socket /\ Stage = "playing" /\ Stage' = "playing" /\ Running
      /\ pc \notin {"conn0", "conn1", "nick0"}
  BY <1>2 DEF Awaited, Stage, Running
<1> DEFINE shown == <<Pkg("BoardState", version)>>
           p == reply \o shown
           pkgs == [c \in Clients |-> IF c = n_socket THEN p ELSE <<>>]
<1>5. Poses(shown, {Game!AskBoard(version)}) /\ Poses(<<>>, {})
  BY <1>3, PosesQuestion, PosesNone
<1>6. SendTo(n_socket, p)
  BY <1>2
<1> HIDE DEF shown
<1>7. p \in Seq(Packages)
  BY <1>5, ConcatProperties DEF Poses
<1>8. Poses(reply, {}) => Poses(p, {Game!AskBoard(version)})
  <2> SUFFICES ASSUME Poses(reply, {}) PROVE Poses(p, {Game!AskBoard(version)})
    OBVIOUS
  <2>1. Poses(p, {} \union {Game!AskBoard(version)})
    BY <1>5, PosesConcat
  <2> QED
    BY <2>1
<1> HIDE DEF p
<1>9. Sent(pkgs)
  BY <1>1, <1>3, <1>6, <1>7, SendsOne
<1>10. \A c \in Clients : images'[c] = 0 => images[c] = 0
  BY <1>3
<1>11. CASE n_socket \in Keeps /\ type = "Image"
  <2>1. k = 1 /\ images[n_socket] = 0
    BY <1>11 DEF Keeps
  <2>2. images'[n_socket] # 0
    BY <2>1, <1>3
  <2>3. Keeps' = Keeps \ {n_socket}
    <3>1. ASSUME NEW c \in Clients PROVE c \in Keeps' <=> c \in Keeps /\ c # n_socket
      BY <2>2, <1>2, <1>3 DEF Keeps, Died
    <3> QED
      BY <3>1 DEF Keeps
  <2>4. Asked'[n_socket] = {} /\ Said'[n_socket] = <<>>
    BY <2>3, <1>3, AskedIs DEF Hears
  <2>5. ASSUME NEW c \in Clients \ {n_socket} PROVE Asked'[c] = Asked[c] /\ Said'[c] = Said[c]
    <3>1. Asked[c] = {} /\ Said[c] = <<>>
      BY <1>4, PlayersAre DEF Game!OneAtATime
    <3>2. CASE Hears(c)'
      <4>1. pkgs[c] = <<>> /\ pkgs[c] \in Seq(Packages)
        BY <1>5 DEF Poses
      <4> HIDE DEF pkgs
      <4>2. Asked'[c] = QuestionsOf(pkgs[c]) /\ Said'[c] = <<>>
        BY <3>2, <4>1, <1>2, <1>4, <1>9, <1>10, ServedHears
      <4> QED
        BY <3>1, <4>1, <4>2, <1>5 DEF Poses
    <3>3. CASE ~ Hears(c)'
      BY <3>1, <3>3, AskedIs
    <3> QED
      BY <3>2, <3>3
  <2>6. Asked' = [Asked EXCEPT ![n_socket] = {}] /\ Said' = [Said EXCEPT ![n_socket] = <<>>]
    <3>1. /\ Asked = [d \in Clients |-> Asked[d]] /\ Said = [d \in Clients |-> Said[d]]
          /\ Asked' = [d \in Clients |-> Asked'[d]] /\ Said' = [d \in Clients |-> Said'[d]]
      BY AskedIs
    <3> QED
      BY <3>1, <2>4, <2>5, <1>3
  <2>7. Game!Leave(n_socket)
    BY <1>2, <1>4, <1>11, <2>3, <2>6 DEF Game!Leave
  <2> QED
    BY <2>7, <1>3, PlayersAre DEF Plays, Game!Next
<1>12. CASE n_socket \notin Keeps \/ type # "Image"
  <2>1. UNCHANGED Keeps
    <3>1. ASSUME NEW c \in Clients PROVE c \in Keeps' <=> c \in Keeps
      <4>1. CASE c = n_socket /\ c \notin Keeps
        <5>1. Died(c) \/ images'[c] # 0
          BY <4>1, <1>3 DEF Keeps
        <5> QED
          BY <4>1, <5>1, <1>2 DEF Keeps, Died
      <4>2. CASE c # n_socket \/ k = 0
        <5>1. images'[c] = images[c]
          BY <4>2, <1>3
        <5> QED
          BY <5>1, <1>2 DEF Keeps, Died
      <4> QED
        BY <4>1, <4>2, <1>12
    <3> QED
      BY <3>1 DEF Keeps
  <2>2. ASSUME NEW c \in Clients, c \in Keeps
        PROVE  Poses(pkgs[c], IF c \in {n_socket} THEN {Game!AskBoard(version)} ELSE {})
    BY <2>2, <1>5, <1>8, <1>12
  <2> HIDE DEF pkgs
  <2>3. Game!Ask({n_socket}, Game!AskBoard(version))
    BY <2>1, <2>2, <1>2, <1>3, <1>4, <1>9, <1>10, ServedAsks
  <2>4. CASE n_socket \notin Keeps \/ type = "SendMove"
    <3>1. \E t \in {"SendMove", "SendMsg"}, one \in BOOLEAN :
             Game!Given(Game!Item(t, Game!Text(one, version)))
      BY <2>4, <1>2, <1>4, GivenPlaying DEF Game!Given
    <3>2. Game!Repeat
      BY <1>2, <1>4, <2>3, <3>1 DEF Game!Repeat
    <3> QED
      BY <3>2 DEF Plays, Game!Next
  <2>5. CASE n_socket \in Keeps /\ type # "SendMove"
    <3>1. type \in {"SendMove", "SendMsg", "Image", "Disconnect"}
      BY <2>5, <1>2, GivenPlaying
    <3> QED
      BY <3>1, <2>5, <1>12
  <2> QED
    BY <2>4, <2>5
<1> QED
  BY <1>11, <1>12

\* Every answer in a turn that leads to no move.
LEMMA NoMovePlays ==
    ASSUME IInv, Game!OneAtATime,
           \/ ServerTurnGreeting \/ ServerTurnImage \/ ServerTurnAnswer
           \/ ServerTurnBadPackage \/ ServerTurnBadMove
    PROVE  Plays
<1>1. n_socket \in Clients /\ images \in [Clients -> Nat]
  BY DEF IInv, Values
<1>2. images[n_socket] \in Nat /\ images = [images EXCEPT ![n_socket] = @ + 0]
  BY <1>1
<1>3. ASSUME NEW type \in Plain
      PROVE  <<Pkg(type, Blank)>> \in Seq(Packages) /\ Poses(<<Pkg(type, Blank)>>, {})
  BY <1>3, PosesPlain, ValsKnown DEF Poses
<1>4. CASE ServerTurnGreeting
  BY <1>2, <1>3, <1>4, AgainPlays DEF ServerTurnGreeting, history, Plain
<1>5. CASE ServerTurnImage
  <2>1. <<Pkg("Image", Blank)>> \in Seq(Packages)
    BY CarriesQuestion DEF Carries
  <2> QED
    BY <2>1, <1>5, AgainPlays DEF ServerTurnImage
<1>6. CASE ServerTurnAnswer
  BY <1>2, <1>3, <1>6, AgainPlays DEF ServerTurnAnswer, history, Plain
<1>7. CASE ServerTurnBadMove
  BY <1>2, <1>3, <1>7, AgainPlays DEF ServerTurnBadMove, history, Plain
<1>8. CASE ServerTurnBadPackage
  <2>1. <<Pkg("ErrBadPkg", Blank)>> \in Seq(Packages)
    BY CarriesQuestion DEF Carries
  <2>2. n_socket \notin Keeps
    <3>1. pc = "turn" /\ Receive(n_socket) /\ Packet(n_socket).type = "Garbage"
      BY <1>8 DEF ServerTurnBadPackage, Again, Turn
    <3> QED
      BY <3>1, GivenPlaying
  <2> QED
    BY <2>1, <2>2, <1>2, <1>8, AgainPlays DEF ServerTurnBadPackage, history
<1> QED
  BY <1>4, <1>5, <1>6, <1>7, <1>8

\* A message: the same board once more, or the end of the server.
LEMMA MsgPlays ==
    ASSUME IInv, Game!OneAtATime, ServerTurnMsg
    PROVE  Plays
<1>1. Values /\ Streams
  BY DEF IInv
<1>2. PICK next \in {"turn", "crashed"} :
         /\ pc' = next
         /\ SendBoth([c \in Clients |->
                IF c # n_socket THEN <<Pkg("SpreadMsg", Blank)>>
                ELSE <<Pkg("Garbage", Blank)>>
                     \o IF next = "turn" THEN <<Pkg("BoardState", version)>> ELSE <<>>])
  BY DEF ServerTurnMsg
<1>3. /\ pc = "turn" /\ Receive(n_socket) /\ Packet(n_socket).type = "SendMsg"
      /\ UNCHANGED <<n_socket, nickname, score, version, aux_play_again, images, client>>
      /\ n_socket \in Clients /\ version \in Nat
  BY <1>1 DEF ServerTurnMsg, Turn, Values
<1>4. /\ Awaited = n_socket /\ Awaited' = n_socket /\ Stage = "playing" /\ Running
      /\ UNCHANGED Keeps /\ pc \notin {"conn0", "conn1", "nick0"}
  BY <1>2, <1>3 DEF Awaited, Stage, Keeps, Died, Running
<1>5. n_socket \in Keeps =>
         \E one \in BOOLEAN : Said[n_socket] = <<Game!Item("SendMsg", Game!Text(one, version))>>
  BY <1>3, GivenPlaying
<1>6. CASE next = "crashed"
  <2>1. Stage' = "over"
    BY <1>2, <1>6 DEF Stage
  <2>2. Game!Ask({}, Game!AskAgain)
    BY <1>4, <2>1, OverAsks
  <2>3. \/ Keeps # Clients
        \/ Said[n_socket] # <<>> /\ Game!EndsMatch(Said[n_socket][1])
    <3> SUFFICES ASSUME n_socket \in Keeps
                 PROVE  Said[n_socket] # <<>> /\ Game!EndsMatch(Said[n_socket][1])
      BY <1>3
    <3>1. PICK one \in BOOLEAN : Said[n_socket] = <<Game!Item("SendMsg", Game!Text(one, version))>>
      BY <1>5
    <3> QED
      BY <3>1 DEF Game!EndsMatch, Game!Item
  <2>4. Game!Stop
    BY <1>3, <1>4, <2>1, <2>2, <2>3, PlayersAre DEF Game!Stop
  <2> QED
    BY <2>4 DEF Plays, Game!Next
<1>7. CASE next = "turn"
  <2> DEFINE noise == <<Pkg("Garbage", Blank)>>
             shown == <<Pkg("BoardState", version)>>
             spread == <<Pkg("SpreadMsg", Blank)>>
             pkgs == [c \in Clients |-> IF c # n_socket THEN spread ELSE noise \o shown]
  <2>1. Poses(noise, {}) /\ Poses(shown, {Game!AskBoard(version)}) /\ Poses(spread, {})
    BY <1>3, PosesPlain, PosesQuestion, ValsKnown DEF Plain
  <2>2. SendBoth(pkgs)
    BY <1>2, <1>7 DEF SendBoth
  <2> HIDE DEF noise, shown, spread
  <2>3. Poses(noise \o shown, {} \union {Game!AskBoard(version)})
    BY <2>1, PosesConcat
  <2>4. \A c \in Clients : Poses(pkgs[c], IF c \in {n_socket} THEN {Game!AskBoard(version)} ELSE {})
    BY <2>1, <2>3
  <2>5. \A c \in Clients : pkgs[c] \in Seq(Packages)
    BY <2>4 DEF Poses
  <2> HIDE DEF pkgs
  <2>6. Sent(pkgs)
    BY <1>1, <2>2, <2>5, SendsBoth
  <2>7. Stage' = "playing"
    BY <1>2, <1>7 DEF Stage
  <2>8. Game!Ask({n_socket}, Game!AskBoard(version))
    BY <1>3, <1>4, <2>4, <2>6, <2>7, ServedAsks
  <2>9. \E one \in BOOLEAN : Game!Given(Game!Item("SendMsg", Game!Text(one, version)))
    BY <1>4, <1>5 DEF Game!Given
  <2>10. Game!Repeat
    BY <1>3, <1>4, <2>7, <2>8, <2>9 DEF Game!Repeat
  <2> QED
    BY <2>10 DEF Plays, Game!Next
<1> QED
  BY <1>6, <1>7

\* A player disconnects in its turn.
LEMMA DisconnectPlays ==
    ASSUME IInv, Game!OneAtATime, ServerTurnDisconnect
    PROVE  Plays
<1>1. /\ pc = "turn" /\ Receive(n_socket) /\ Packet(n_socket).type = "Disconnect"
      /\ pc' = "stopped" /\ n_socket \in Clients
      /\ UNCHANGED <<n_socket, nickname, score, version, aux_play_again, images, client>>
  BY DEF ServerTurnDisconnect, Turn, history, IInv, Values
<1>2. /\ Awaited = n_socket /\ Awaited' = n_socket /\ Stage = "playing" /\ Stage' = "over"
      /\ UNCHANGED Keeps
  BY <1>1 DEF Awaited, Stage, Keeps, Died
<1>3. Game!Ask({}, Game!AskAgain)
  BY <1>2, OverAsks
<1>4. \/ Keeps # Clients
      \/ Said[n_socket] # <<>> /\ Game!EndsMatch(Said[n_socket][1])
  <2> SUFFICES ASSUME n_socket \in Keeps
               PROVE  Said[n_socket] # <<>> /\ Game!EndsMatch(Said[n_socket][1])
    BY <1>1
  <2>1. PICK one \in BOOLEAN : Said[n_socket] = <<Game!Item("Disconnect", Game!Text(one, version))>>
    BY <1>1, GivenPlaying
  <2> QED
    BY <2>1 DEF Game!EndsMatch, Game!Item
<1>5. Game!Stop
  BY <1>1, <1>2, <1>3, <1>4, PlayersAre DEF Game!Stop
<1> QED
  BY <1>5 DEF Plays, Game!Next

\* Somebody wants no other game.
LEMMA ClosePlays ==
    ASSUME IInv, Game!OneAtATime, ServerClose
    PROVE  Plays
<1>1. /\ pc = "again_other" /\ Receive(Other(n_socket)) /\ pc' = "stopped" /\ n_socket \in Clients
      /\ ~ (aux_play_again /\ SaysYes(Other(n_socket)))
      /\ UNCHANGED <<n_socket, nickname, score, version, aux_play_again, images, client>>
  BY DEF ServerClose, history, IInv, Values
<1>2. /\ Awaited = Other(n_socket) /\ Awaited' = n_socket /\ Stage = "again_other" /\ Stage' = "over"
      /\ UNCHANGED Keeps /\ Other(n_socket) \in Clients
  BY <1>1 DEF Awaited, Stage, Keeps, Died, Other, Clients
<1>3. Game!Ask({}, Game!AskAgain)
  BY <1>2, OverAsks
<1>4. \/ Keeps # Clients
      \/ Said[Awaited] # <<>> /\ Game!EndsMatch(Said[Awaited][1])
      \/ ~ aux_play_again
  <2> SUFFICES ASSUME Awaited \in Keeps, aux_play_again
               PROVE  Said[Awaited] # <<>> /\ Game!EndsMatch(Said[Awaited][1])
    BY <1>2
  <2>1. PICK one \in BOOLEAN :
           /\ SaysYes(Awaited) <=> one
           /\ Said[Awaited] = <<Game!Item("AnswerNewGame", Game!Text(one, 0))>>
    BY <1>1, <1>2, GivenWish
  <2>2. one = FALSE
    BY <1>1, <1>2, <2>1
  <2> QED
    BY <2>1, <2>2 DEF Game!EndsMatch, Game!Item, Game!Text
<1>5. Game!Stop
  BY <1>1, <1>2, <1>3, <1>4, PlayersAre DEF Game!Stop
<1> QED
  BY <1>5 DEF Plays, Game!Next

\* A move that is made is a move for the board as it is.
LEMMA MovesPlays ==
    ASSUME IInv, Game!OneAtATime, LegalMove
    PROVE  Game!Moves
<1>1. /\ pc = "turn" /\ Receive(n_socket) /\ Packet(n_socket).type = "SendMove"
      /\ ~ Packet(n_socket).val.one /\ version' = version + 1
  BY DEF LegalMove, Turn
<1>2. Awaited = n_socket /\ Stage = "playing"
  BY <1>1 DEF Awaited, Stage
<1>3. n_socket \in Keeps => Said[n_socket] = <<Game!Item("SendMove", Game!Text(FALSE, version))>>
  <2> SUFFICES ASSUME n_socket \in Keeps
               PROVE  Said[n_socket] = <<Game!Item("SendMove", Game!Text(FALSE, version))>>
    OBVIOUS
  <2>1. PICK type \in {"SendMove", "SendMsg", "Image", "Disconnect"}, one \in BOOLEAN :
           /\ Packet(n_socket).type = type /\ (Packet(n_socket).val.one <=> one)
           /\ Said[n_socket] = <<Game!Item(type, Game!Text(one, version))>>
    BY <1>1, GivenPlaying
  <2>2. type = "SendMove"
    BY <1>1, <2>1
  <2>3. one = FALSE
    BY <1>1, <2>1
  <2> QED
    BY <2>1, <2>2, <2>3
<1> QED
  BY <1>1, <1>2, <1>3 DEF Game!Moves, Game!Given

\* The turn passes to the other player, who is shown the new board.
LEMMA MovePlays ==
    ASSUME IInv, Game!OneAtATime, ServerTurnMove
    PROVE  Plays
<1>1. Values /\ Streams
  BY DEF IInv
<1>2. /\ pc = "turn" /\ Receive(n_socket) /\ version' = version + 1 /\ n_socket' = Other(n_socket)
      /\ LegalMove
      /\ UNCHANGED <<pc, nickname, score, aux_play_again, images, client>>
      /\ n_socket \in Clients /\ Other(n_socket) \in Clients
  BY <1>1 DEF ServerTurnMove, LegalMove, Turn, NextSocket, Values, history, Other, Clients
<1>3. /\ Awaited = n_socket /\ Awaited' = Other(n_socket) /\ Stage = "playing" /\ Stage' = "playing"
      /\ UNCHANGED Keeps /\ Running /\ pc \notin {"conn0", "conn1", "nick0"}
  BY <1>2 DEF Awaited, Stage, Keeps, Died, Running
<1> DEFINE ok == <<Pkg("OkMove", Blank)>>
           shown == <<Pkg("BoardState", version')>>
           pkgs == [c \in Clients |-> IF c = n_socket THEN ok ELSE shown]
<1>4. version' \in Nat
  BY <1>1, <1>2 DEF Values
<1>5. Poses(ok, {}) /\ Poses(shown, {Game!AskBoard(version')})
  BY <1>4, PosesPlain, PosesQuestion, ValsKnown DEF Plain
<1>6. SendBoth(pkgs)
  BY DEF ServerTurnMove
<1> HIDE DEF ok, shown
<1>7. ASSUME NEW c \in Clients
      PROVE  Poses(pkgs[c], IF c \in {Other(n_socket)} THEN {Game!AskBoard(version')} ELSE {})
  <2>1. c = Other(n_socket) <=> c # n_socket
    BY <1>2 DEF Other, Clients
  <2> QED
    BY <2>1, <1>5
<1>8. \A c \in Clients : pkgs[c] \in Seq(Packages)
  BY <1>7 DEF Poses
<1> HIDE DEF pkgs
<1>9. Sent(pkgs)
  BY <1>1, <1>6, <1>8, SendsBoth
<1>10. Game!Ask({Other(n_socket)}, Game!AskBoard(version'))
  BY <1>2, <1>3, <1>7, <1>9, ServedAsks
<1>11. Game!Moves
  BY <1>2, MovesPlays
<1>12. Game!Move
  BY <1>2, <1>3, <1>10, <1>11, PlayersAre DEF Game!Move
<1> QED
  BY <1>12 DEF Plays, Game!Next

\* The move ends the game: its player is asked for another one.
LEMMA EndPlays ==
    ASSUME IInv, Game!OneAtATime, ServerTurnEnd
    PROVE  Plays
<1>1. Values /\ Streams
  BY DEF IInv
<1>2. PICK ending \in Endings :
         LET winner == get_winner(ending)
             end == <<Pkg("GameWinnerLoser", winner), Pkg("End", Blank)>>
         IN  /\ score' = Scores(winner)
             /\ SendBoth([c \in Clients |->
                    IF AskedFirst(c) THEN end \o <<Pkg("AskNewGame", Blank)>> ELSE end])
  BY DEF ServerTurnEnd
<1> DEFINE winner == get_winner(ending)
           end == <<Pkg("GameWinnerLoser", winner), Pkg("End", Blank)>>
           ask == <<Pkg("AskNewGame", Blank)>>
           pkgs == [c \in Clients |-> IF AskedFirst(c) THEN end \o ask ELSE end]
<1>3. /\ pc = "turn" /\ Receive(n_socket) /\ version' = version + 1
      /\ pc' = "again_mover" /\ aux_play_again' = TRUE /\ LegalMove
      /\ UNCHANGED <<n_socket, nickname, images, client>>
      /\ n_socket \in Clients
  BY <1>1 DEF ServerTurnEnd, LegalMove, Turn, Values, history
<1>4. /\ Awaited = n_socket /\ Awaited' = n_socket /\ Stage = "playing" /\ Stage' = "again_mover"
      /\ UNCHANGED Keeps /\ Running /\ pc \notin {"conn0", "conn1", "nick0"}
  BY <1>3 DEF Awaited, Stage, Keeps, Died, Running
<1>5. winner \in Int
  BY DEF get_winner, Endings
<1>6. score' = Scores(winner) /\ SendBoth(pkgs)
  BY <1>2
<1> HIDE DEF winner
<1>7. \E S \in SUBSET Clients : score' = [c \in Clients |-> score[c] + IF c \in S THEN 1 ELSE 0]
  <2> DEFINE S == {c \in Clients : winner = 0 \/ winner = c + 1}
  <2>1. score' = [c \in Clients |-> score[c] + IF c \in S THEN 1 ELSE 0]
    BY <1>6 DEF Scores
  <2>2. S \in SUBSET Clients
    OBVIOUS
  <2> HIDE DEF S
  <2> QED
    BY <2>1, <2>2
<1>8. Poses(end, {}) /\ Poses(end \o ask, {Game!AskAgain})
  <2>1. Poses(<<Pkg("GameWinnerLoser", winner)>>, {}) /\ Poses(<<Pkg("End", Blank)>>, {})
    BY <1>5, PosesPlain, ValsKnown DEF Plain
  <2>2. end = <<Pkg("GameWinnerLoser", winner)>> \o <<Pkg("End", Blank)>>
    OBVIOUS
  <2>3. Poses(ask, {Game!AskAgain})
    BY <1>1, PosesQuestion DEF Values
  <2> HIDE DEF end, ask
  <2>4. Poses(end, {} \union {})
    BY <2>1, <2>2, PosesConcat
  <2>5. Poses(end, {})
    BY <2>4
  <2>6. Poses(end \o ask, {} \union {Game!AskAgain})
    BY <2>3, <2>5, PosesConcat
  <2> QED
    BY <2>5, <2>6
<1> HIDE DEF end, ask
<1>9. \A c \in Clients : Poses(pkgs[c], IF c \in {n_socket} THEN {Game!AskAgain} ELSE {})
  BY <1>8 DEF AskedFirst
<1>10. \A c \in Clients : pkgs[c] \in Seq(Packages)
  BY <1>9 DEF Poses
<1> HIDE DEF pkgs
<1>11. Sent(pkgs)
  BY <1>1, <1>6, <1>10, SendsBoth
<1>12. Game!Ask({n_socket}, Game!AskAgain)
  BY <1>3, <1>4, <1>9, <1>11, ServedAsks
<1>13. Game!Moves
  BY <1>3, MovesPlays
<1>14. Game!Finish
  BY <1>3, <1>4, <1>7, <1>12, <1>13, PlayersAre DEF Game!Finish
<1> QED
  BY <1>14 DEF Plays, Game!Next

\* The first wish is heard; then the other player is asked for its own.
LEMMA AgainMoverPlays ==
    ASSUME IInv, Values', Game!OneAtATime, ServerAgainMover
    PROVE  Plays
<1>1. Values /\ Streams
  BY DEF IInv
<1>2. /\ pc = "again_mover" /\ Receive(n_socket) /\ pc' = "again_other"
      /\ aux_play_again' = (aux_play_again /\ SaysYes(n_socket))
      /\ SendTo(Other(n_socket), <<Pkg("AskNewGame", Blank)>>)
      /\ UNCHANGED <<n_socket, nickname, score, version, images, client>>
      /\ n_socket \in Clients /\ Other(n_socket) \in Clients
  BY <1>1 DEF ServerAgainMover, Values, Other, Clients, history
<1>3. /\ Awaited = n_socket /\ Awaited' = Other(n_socket)
      /\ Stage = "again_mover" /\ Stage' = "again_other"
      /\ UNCHANGED Keeps /\ Running /\ pc \notin {"conn0", "conn1", "nick0"}
  BY <1>2 DEF Awaited, Stage, Keeps, Died, Running
<1>4. aux_play_again /\ aux_play_again' \in BOOLEAN
  BY <1>3 DEF Game!OneAtATime, Values
<1>5. Game!Given(Game!Item("AnswerNewGame", Game!Text(aux_play_again', 0)))
  <2> SUFFICES ASSUME Awaited \in Keeps
               PROVE  Said[Awaited] = <<Game!Item("AnswerNewGame", Game!Text(aux_play_again', 0))>>
    BY DEF Game!Given
  <2>1. PICK one \in BOOLEAN :
           /\ SaysYes(Awaited) <=> one
           /\ Said[Awaited] = <<Game!Item("AnswerNewGame", Game!Text(one, 0))>>
    BY <1>2, <1>3, GivenWish
  <2>2. aux_play_again' <=> one
    BY <1>2, <1>3, <1>4, <2>1, Zenon
  <2>3. one = aux_play_again'
    BY <2>2, <1>4, Zenon
  <2> QED
    BY <2>1, <2>3
<1> DEFINE p == <<Pkg("AskNewGame", Blank)>>
           pkgs == [c \in Clients |-> IF c = Other(n_socket) THEN p ELSE <<>>]
<1>6. Poses(p, {Game!AskAgain}) /\ Poses(<<>>, {}) /\ SendTo(Other(n_socket), p)
  BY <1>1, <1>2, PosesQuestion, PosesNone DEF Values
<1>7. p \in Seq(Packages)
  BY <1>6 DEF Poses
<1> HIDE DEF p
<1>8. Sent(pkgs)
  BY <1>1, <1>2, <1>6, <1>7, SendsOne
<1>9. \A c \in Clients : Poses(pkgs[c], IF c \in {Other(n_socket)} THEN {Game!AskAgain} ELSE {})
  BY <1>6
<1> HIDE DEF pkgs
<1>10. Game!Ask({Other(n_socket)}, Game!AskAgain)
  BY <1>2, <1>3, <1>8, <1>9, ServedAsks
<1>11. Game!FirstWish
  BY <1>2, <1>3, <1>4, <1>5, <1>10, PlayersAre DEF Game!FirstWish
<1> QED
  BY <1>11 DEF Plays, Game!Next

-----------------------------------------------------------------------------
(* Each step of a client is a step of Match, or none. *)

\* A step that changes nothing that a player who keeps to the dialogue is asked or has said.
LEMMA SamePlays ==
    ASSUME UNCHANGED <<Stage, Awaited, nickname, score, version, aux_play_again, Keeps>>,
           \A c \in Clients : Hears(c) =>
              QuestionsOf(s2c'[c]) = QuestionsOf(s2c[c]) /\ c2s'[c] = c2s[c]
    PROVE  Plays
<1>1. \A c \in Clients : Hears(c)' <=> Hears(c)
  BY DEF Hears
<1>2. \A c \in Clients : Asked'[c] = Asked[c] /\ Said'[c] = Said[c]
  BY <1>1, AskedIs
<1>3. /\ Asked = [c \in Clients |-> Asked[c]] /\ Said = [c \in Clients |-> Said[c]]
      /\ Asked' = [c \in Clients |-> Asked'[c]] /\ Said' = [c \in Clients |-> Said'[c]]
  BY AskedIs
<1>4. Asked' = Asked /\ Said' = Said
  BY <1>2, <1>3
<1> QED
  BY <1>4 DEF Plays, Game!vars

\* A step of the streams or the clients only, in which nobody leaves the dialogue.
LEMMA SilentPlays ==
    ASSUME UNCHANGED <<server, history>>, UNCHANGED Keeps,
           \A c \in Clients : Hears(c) =>
              QuestionsOf(s2c'[c]) = QuestionsOf(s2c[c]) /\ c2s'[c] = c2s[c]
    PROVE  Plays
<1>1. UNCHANGED <<Stage, Awaited, nickname, score, version, aux_play_again>>
  BY DEF server, Stage, Awaited, Other
<1> QED
  BY <1>1, SamePlays

\* The server is killed by a send to a player that died.
LEMMA KilledPlays ==
    ASSUME IInv, NEW c \in Clients, ServerKilled(c)
    PROVE  Plays
<1>1. Values
  BY DEF IInv
<1>2. /\ client[c] = "reset" /\ pc' = "crashed" /\ n_socket \in Clients
      /\ UNCHANGED <<n_socket, nickname, score, version, aux_play_again, images, c2s, client>>
  BY <1>1 DEF ServerKilled, Broken, history, Values
<1>3. c \notin Keeps /\ UNCHANGED Keeps /\ Stage' = "over" /\ Awaited' = n_socket
  BY <1>2 DEF Keeps, Died, Stage, Awaited
<1>4. CASE Running
  <2>1. Stage # "over" /\ Keeps # Clients
    BY <1>1, <1>3, <1>4, StageIs
  <2>2. Game!Ask({}, Game!AskAgain)
    BY <1>3, OverAsks
  <2>3. Game!Stop
    BY <1>2, <1>3, <2>1, <2>2, PlayersAre DEF Game!Stop
  <2> QED
    BY <2>3 DEF Plays, Game!Next
<1>5. CASE ~ Running
  <2>1. Stage = "over" /\ Awaited = n_socket /\ \A d \in Clients : ~ Hears(d)
    BY <1>1, <1>5, StageIs, AwaitedIs DEF Running, Hears
  <2> QED
    BY <1>2, <1>3, <2>1, SamePlays
<1> QED
  BY <1>4, <1>5

\* What the server makes of a dead player's socket is no answer of a player who
\* keeps to the dialogue.
LEMMA NothingPlays ==
    ASSUME IInv, ServerReadsNothing
    PROVE  Plays
<1>1. Values /\ Streams
  BY DEF IInv
<1>2. /\ Running /\ Died(Awaited) /\ Awaited \in Clients /\ n_socket \in Clients
      /\ UNCHANGED <<n_socket, nickname, score, version, aux_play_again, images, s2c, client>>
      /\ UNCHANGED Keeps /\ Awaited \notin Keeps
  BY <1>1, AwaitedIs DEF ServerReadsNothing, history, Values, Keeps, Died
<1>3. CASE pc' = "crashed"
  <2>1. Stage # "over" /\ Stage' = "over" /\ Awaited' = n_socket
    BY <1>1, <1>2, <1>3, StageIs DEF Stage, Awaited
  <2>2. Game!Ask({}, Game!AskAgain) /\ Keeps # Clients
    BY <1>2, <2>1, OverAsks
  <2>3. Game!Stop
    BY <1>2, <2>1, <2>2, PlayersAre DEF Game!Stop
  <2> QED
    BY <2>3 DEF Plays, Game!Next
<1>4. CASE UNCHANGED pc /\ \E m \in Uninitialised : c2s' = [c2s EXCEPT ![Awaited] = <<m>>]
  <2>1. UNCHANGED <<Stage, Awaited>>
    BY <1>2, <1>4 DEF Stage, Awaited, Other
  <2>2. \A d \in Clients : Hears(d) => c2s'[d] = c2s[d] /\ s2c'[d] = s2c[d]
    BY <1>1, <1>2, <1>4 DEF Hears, Streams
  <2> QED
    BY <1>2, <2>1, <2>2, SamePlays
<1> QED
  BY <1>3, <1>4 DEF ServerReadsNothing

\* A client connects: nothing has been asked of it.
LEMMA ConnectPlays ==
    ASSUME IInv, NEW c \in Clients, ClientConnect(c)
    PROVE  Plays
<1>1. Values /\ Streams
  BY DEF IInv
<1>2. /\ client[c] = "off" /\ client' = [client EXCEPT ![c] = "on"]
      /\ c2s' = [c2s EXCEPT ![c] = @ \o <<Pkg("StartConnection", Blank)>>]
      /\ UNCHANGED <<server, history, s2c>>
  BY DEF ClientConnect, Answer
<1>3. ~ Hears(c)
  BY <1>2, HearsIs
<1>4. UNCHANGED Keeps
  BY <1>1, <1>2 DEF Keeps, Died, Values, history
<1>5. \A d \in Clients : Hears(d) => c2s'[d] = c2s[d] /\ s2c'[d] = s2c[d]
  BY <1>1, <1>2, <1>3 DEF Streams
<1> QED
  BY <1>2, <1>4, <1>5, SilentPlays

\* A client takes a packet from its stream.
LEMMA TakesPacket ==
    ASSUME IInv, NEW c \in Clients, NEW types, ClientReceive(c, types)
    PROVE  /\ UNCHANGED <<server, history>> /\ client[c] = "on"
           /\ s2c[c] \in Seq(Packages) /\ s2c[c] # <<>> /\ Head(s2c[c]).type \in types
           /\ s2c'[c] = Tail(s2c[c])
           /\ \A d \in Clients \ {c} : s2c'[d] = s2c[d]
           /\ QuestionsOf(s2c[c]) = (IF Head(s2c[c]).type \in Asking THEN {Head(s2c[c])} ELSE {})
                                    \union QuestionsOf(s2c'[c])
<1>1. s2c \in [Clients -> Seq(Packages)]
  BY DEF IInv, Streams
<1>2. /\ UNCHANGED <<server, history>> /\ client[c] = "on"
      /\ s2c[c] \in Seq(Packages) /\ s2c[c] # <<>> /\ Head(s2c[c]).type \in types
      /\ s2c'[c] = Tail(s2c[c])
      /\ \A d \in Clients \ {c} : s2c'[d] = s2c[d]
  BY <1>1 DEF ClientReceive
<1> DEFINE s == s2c[c]
<1>3. s \in Seq(Packages) /\ s # <<>>
  BY <1>2
<1> HIDE DEF s
<1>4. QuestionsOf(s) = (IF Head(s).type \in Asking THEN {Head(s)} ELSE {}) \union QuestionsOf(Tail(s))
  BY <1>3, QuestionsOfTail
<1> QED
  BY <1>2, <1>4 DEF s

\* A client shows a packet: it is no question.
LEMMA ShowPlays ==
    ASSUME IInv, NEW c \in Clients, ClientShow(c)
    PROVE  Plays
<1>1. ClientReceive(c, Plain) /\ UNCHANGED <<c2s, client>>
  BY DEF ClientShow, Plain
<1>2. Head(s2c[c]).type \notin Asking
  BY <1>1, TakesPacket DEF Plain, Asking, Questions, Echoes
<1>3. UNCHANGED Keeps /\ UNCHANGED <<server, history>>
  BY <1>1, TakesPacket DEF Keeps, Died, history
<1>4. \A d \in Clients : QuestionsOf(s2c'[d]) = QuestionsOf(s2c[d]) /\ c2s'[d] = c2s[d]
  BY <1>1, <1>2, TakesPacket
<1> QED
  BY <1>3, <1>4, SilentPlays

\* A player who keeps to the dialogue answers what it is asked.
LEMMA AnswerPlays ==
    ASSUME IInv, NEW c \in Clients, NEW types \in SUBSET Asking, ClientReceive(c, types),
           client' = client, NEW m, Answer(c, <<m>>),
           Hears(c) => m \in Game!Replies(Head(s2c[c]))
    PROVE  Plays
<1>1. c2s \in [Clients -> Seq(Messages)] /\ c2s' = [c2s EXCEPT ![c] = @ \o <<m>>]
  BY DEF IInv, Streams, Answer
<1>2. UNCHANGED Keeps /\ UNCHANGED <<server, history>>
  BY TakesPacket DEF Keeps, Died, history
<1>3. UNCHANGED <<Stage, Awaited, nickname, score, version, aux_play_again>>
  BY <1>2 DEF server, Stage, Awaited, Other
<1>4. \A d \in Clients \ {c} : s2c'[d] = s2c[d] /\ c2s'[d] = c2s[d]
  BY <1>1, TakesPacket
<1>5. CASE ~ Hears(c)
  BY <1>2, <1>4, <1>5, SilentPlays
<1>6. CASE Hears(c)
  <2>1. Head(s2c[c]).type \in Asking
    BY TakesPacket
  <2> DEFINE s == s2c[c]
             t == c2s[c]
  <2>2. /\ s \in Seq(Packages) /\ s # <<>> /\ Due(s) \in Nat
        /\ t \in Seq(Messages) /\ Len(t) \in Nat /\ Due(s) + Len(t) \in {0, 1}
    BY <1>6, TakesPacket, HearsIs
  <2> HIDE DEF s, t
  <2>3. Tail(s) \in Seq(Packages) /\ Due(Tail(s)) \in Nat /\ Due(s) = Due(Tail(s)) + 1
    BY <2>1, <2>2, Taking, DueType DEF s
  <2>4. Due(Tail(s)) = 0 /\ Len(t) = 0
    BY <2>2, <2>3
  <2>5. QuestionsOf(Tail(s)) = {} /\ t = <<>>
    BY <2>2, <2>3, <2>4, QuestionsOfNone, EmptySeq
  <2>6. QuestionsOf(s2c[c]) = {Head(s2c[c])} /\ QuestionsOf(s2c'[c]) = {} /\ c2s[c] = <<>>
    BY <2>1, <2>5, TakesPacket DEF s, t
  <2>7. c2s'[c] = <<m>>
    BY <1>1, <2>6
  <2>8. Hears(c)' /\ \A d \in Clients : Hears(d)' <=> Hears(d)
    BY <1>2, <1>3, <1>6 DEF Hears
  <2>9. Asked[c] = {Head(s2c[c])} /\ Said[c] = <<>> /\ Asked'[c] = {} /\ Said'[c] = <<m>>
    BY <1>6, <2>6, <2>7, <2>8, AskedIs
  <2>10. \A d \in Clients \ {c} : Asked'[d] = Asked[d] /\ Said'[d] = Said[d]
    BY <1>4, <2>8, AskedIs
  <2>11. Asked' = [Asked EXCEPT ![c] = {}] /\ Said' = [Said EXCEPT ![c] = <<m>>]
    <3>1. /\ Asked = [d \in Clients |-> Asked[d]] /\ Said = [d \in Clients |-> Said[d]]
          /\ Asked' = [d \in Clients |-> Asked'[d]] /\ Said' = [d \in Clients |-> Said'[d]]
      BY AskedIs
    <3> QED
      BY <3>1, <2>9, <2>10
  <2>12. Game!Answer(c)
    BY <1>2, <1>3, <1>6, <2>9, <2>11 DEF Game!Answer
  <2> QED
    BY <2>12, PlayersAre DEF Plays, Game!Next
<1> QED
  BY <1>5, <1>6

\* A nickname, a command about the board and a wish are what their questions ask for.
LEMMA ReplyPlays ==
    ASSUME IInv, NEW c \in Clients, ClientNickname(c) \/ ClientBoard(c) \/ ClientAgain(c)
    PROVE  Plays
<1>1. {"AskNickname"} \in SUBSET Asking /\ {"BoardState"} \in SUBSET Asking
      /\ {"AskNewGame"} \in SUBSET Asking
  BY DEF Asking, Questions
<1>2. CASE ClientNickname(c)
  <2>1. PICK n \in Nicknames : Answer(c, <<Pkg("RetNickname", n)>>)
    BY <1>2 DEF ClientNickname
  <2>2. ClientReceive(c, {"AskNickname"}) /\ client' = client
    BY <1>2 DEF ClientNickname
  <2>3. Head(s2c[c]).type = "AskNickname"
    BY <2>2, TakesPacket
  <2>4. Pkg("RetNickname", n) \in Game!Replies(Head(s2c[c]))
    BY <2>3 DEF Game!Replies, Game!Item, Pkg
  <2> QED
    BY <1>1, <2>1, <2>2, <2>4, AnswerPlays
<1>3. CASE ClientBoard(c)
  <2>1. PICK type \in {"SendMove", "SendMsg", "Image", "Disconnect"}, one \in BOOLEAN :
           Answer(c, <<Pkg(type, Typed(one, Head(s2c[c]).val))>>)
    BY <1>3 DEF ClientBoard
  <2>2. ClientReceive(c, {"BoardState"}) /\ client' = client
    BY <1>3 DEF ClientBoard
  <2>3. Head(s2c[c]).type = "BoardState"
    BY <2>2, TakesPacket
  <2>4. Pkg(type, Typed(one, Head(s2c[c]).val)) \in Game!Replies(Head(s2c[c]))
    BY <2>3 DEF Game!Replies, Game!Item, Game!Text, Pkg, Typed
  <2> QED
    BY <1>1, <2>1, <2>2, <2>4, AnswerPlays
<1>4. CASE ClientAgain(c)
  <2>1. PICK one \in BOOLEAN : Answer(c, <<Pkg("AnswerNewGame", Typed(one, 0))>>)
    BY <1>4 DEF ClientAgain
  <2>2. ClientReceive(c, {"AskNewGame"}) /\ client' = client
    BY <1>4 DEF ClientAgain
  <2>3. Head(s2c[c]).type = "AskNewGame"
    BY <2>2, TakesPacket
  <2>4. Pkg("AnswerNewGame", Typed(one, 0)) \in Game!Replies(Head(s2c[c]))
    BY <2>3 DEF Game!Replies, Game!Item, Game!Text, Pkg, Typed
  <2> QED
    BY <1>1, <2>1, <2>2, <2>4, AnswerPlays
<1> QED
  BY <1>2, <1>3, <1>4

\* Only who has used images has something to echo.
LEMMA EchoPlays ==
    ASSUME IInv, Game!OneAtATime, NEW c \in Clients, ClientEcho(c)
    PROVE  Plays
<1>1. ClientReceive(c, Echoes) /\ client' = client /\ Answer(c, <<Pkg("StartConnection", Blank)>>)
  BY DEF ClientEcho
<1>2. Echoes \in SUBSET Asking
  BY DEF Asking
<1>3. Head(s2c[c]).type \in Echoes /\ Head(s2c[c]) \in QuestionsOf(s2c[c])
  BY <1>1, <1>2, TakesPacket
<1>4. ~ Hears(c)
  <2> SUFFICES ASSUME Hears(c) PROVE FALSE
    OBVIOUS
  <2>1. Head(s2c[c]) \in Asked[c]
    BY <1>3, AskedIs
  <2>2. Asked[c] = {Game!Question}
    BY <2>1, PlayersAre DEF Game!OneAtATime
  <2>3. Game!Question.type \in {"AskNickname", "BoardState", "AskNewGame"}
    <3>1. /\ Game!AskName.type = "AskNickname" /\ Game!AskAgain.type = "AskNewGame"
          /\ Game!AskBoard(version).type = "BoardState"
      BY DEF Game!AskName, Game!AskBoard, Game!AskAgain, Game!Item
    <3>2. Game!Question \in {Game!AskName, Game!AskBoard(version), Game!AskAgain}
      BY QuestionIs
    <3> QED
      BY <3>1, <3>2
  <2> QED
    BY <1>3, <2>1, <2>2, <2>3 DEF Echoes
<1> DEFINE m == Pkg("StartConnection", Blank)
<1>5. Answer(c, <<m>>) /\ (Hears(c) => m \in Game!Replies(Head(s2c[c])))
  BY <1>1, <1>4
<1> HIDE DEF m
<1> QED
  BY <1>1, <1>2, <1>5, AnswerPlays

\* A client ends once the match is over.
LEMMA EndsPlays ==
    ASSUME IInv, NEW c \in Clients, ClientDisconnect(c) \/ ClientLost(c) \/ ClientKilled(c)
    PROVE  Plays
<1>1. Values /\ client \in [Clients -> {"off", "on", "exited", "lost", "dead", "reset"}]
  BY DEF IInv, Values
<1>2. /\ UNCHANGED <<server, history, c2s>> /\ client[c] = "on"
      /\ \E end \in {"lost", "exited"} : client' = [client EXCEPT ![c] = end]
      /\ \A d \in Clients \ {c} : s2c'[d] = s2c[d]
  <2>1. CASE ClientLost(c)
    BY <2>1 DEF ClientLost
  <2>2. CASE ClientDisconnect(c)
    BY <2>2, TakesPacket DEF ClientDisconnect
  <2>3. CASE ClientKilled(c)
    BY <2>3, TakesPacket DEF ClientKilled
  <2> QED
    BY <2>1, <2>2, <2>3
<1>3. ~ Hears(c)
  <2>1. CASE ClientDisconnect(c)
    <3>1. s2c[c] \in Seq(Packages) /\ s2c[c] # <<>> /\ Head(s2c[c]).type = "Disconnect"
      BY <2>1, TakesPacket DEF ClientDisconnect
    <3>2. Ends(s2c[c])
      BY <3>1 DEF Ends
    <3> QED
      BY <3>2, HearsIs
  <2>2. CASE ClientLost(c) \/ ClientKilled(c)
    BY <2>2, HearsIs DEF ClientLost, ClientKilled
  <2> QED
    BY <2>1, <2>2
<1>4. UNCHANGED Keeps
  <2>1. PICK end \in {"lost", "exited"} : client' = [client EXCEPT ![c] = end]
    BY <1>2
  <2>2. \A d \in Clients : Died(d)' <=> Died(d)
    BY <1>1, <1>2, <2>1 DEF Died
  <2> QED
    BY <1>2, <2>2 DEF Keeps, history
<1>5. \A d \in Clients : Hears(d) => QuestionsOf(s2c'[d]) = QuestionsOf(s2c[d]) /\ c2s'[d] = c2s[d]
  BY <1>2, <1>3
<1> QED
  BY <1>2, <1>4, <1>5, SilentPlays

\* The server's end of the connection learns that the player died.
LEMMA ResetPlays ==
    ASSUME IInv, NEW c \in Clients, ConnectionReset(c)
    PROVE  Plays
<1>1. Values /\ Streams
  BY DEF IInv
<1>2. /\ client[c] = "dead" /\ client' = [client EXCEPT ![c] = "reset"]
      /\ s2c' = [s2c EXCEPT ![c] = <<>>] /\ UNCHANGED <<server, history, c2s>>
  BY DEF ConnectionReset
<1>3. \A d \in Clients : Died(d)' <=> Died(d)
  BY <1>1, <1>2 DEF Died, Values
<1>4. UNCHANGED Keeps /\ ~ Hears(c)
  BY <1>2, <1>3 DEF Keeps, Hears, Died, history
<1>5. \A d \in Clients : Hears(d) => s2c'[d] = s2c[d] /\ c2s'[d] = c2s[d]
  BY <1>1, <1>2, <1>4 DEF Streams
<1> QED
  BY <1>2, <1>4, <1>5, SilentPlays

\* A player is killed: it leaves the dialogue, if it had not.
LEMMA DiesPlays ==
    ASSUME IInv, NEW c \in Clients, ClientDies(c)
    PROVE  Plays
<1>1. Values
  BY DEF IInv
<1>2. /\ client[c] = "on" /\ client' = [client EXCEPT ![c] = "dead"]
      /\ UNCHANGED <<server, history, s2c, c2s>>
  BY DEF ClientDies
<1>3. Died(c)' /\ ~ Died(c) /\ \A d \in Clients \ {c} : Died(d)' <=> Died(d)
  BY <1>1, <1>2 DEF Died, Values
<1>4. Keeps' = Keeps \ {c}
  BY <1>2, <1>3 DEF Keeps, history
<1>5. CASE c \notin Keeps
  BY <1>2, <1>4, <1>5, SilentPlays
<1>6. CASE c \in Keeps
  <2>1. UNCHANGED <<Stage, Awaited, nickname, score, version, aux_play_again>>
    BY <1>2 DEF server, Stage, Awaited, Other
  <2>2. ~ Hears(c)' /\ \A d \in Clients \ {c} : Hears(d)' <=> Hears(d)
    BY <1>4, <2>1 DEF Hears
  <2>3. /\ Asked'[c] = {} /\ Said'[c] = <<>>
        /\ \A d \in Clients \ {c} : Asked'[d] = Asked[d] /\ Said'[d] = Said[d]
    BY <1>2, <2>2, AskedIs
  <2>4. Asked' = [Asked EXCEPT ![c] = {}] /\ Said' = [Said EXCEPT ![c] = <<>>]
    <3>1. /\ Asked = [d \in Clients |-> Asked[d]] /\ Said = [d \in Clients |-> Said[d]]
          /\ Asked' = [d \in Clients |-> Asked'[d]] /\ Said' = [d \in Clients |-> Said'[d]]
      BY AskedIs
    <3> QED
      BY <3>1, <2>3
  <2>5. Game!Leave(c)
    BY <1>4, <1>6, <2>1, <2>4 DEF Game!Leave
  <2> QED
    BY <2>5, PlayersAre DEF Plays, Game!Next
<1> QED
  BY <1>5, <1>6

\* Initially the match waits for the players, and nothing has been asked.
LEMMA InitPlays ==
    Init => Game!Init /\ Game!OneAtATime
<1> SUFFICES ASSUME Init PROVE Game!Init /\ Game!OneAtATime
  OBVIOUS
<1>1. /\ pc = "conn0" /\ Stage = "meeting" /\ Awaited = 0 /\ version = 0 /\ aux_play_again = TRUE
      /\ nickname = [c \in Clients |-> "none"] /\ score = [c \in Clients |-> 0]
  BY DEF Init, Stage, Awaited
<1>2. Keeps = Clients
  BY DEF Init, Keeps, Died
<1>3. Asked = [c \in Clients |-> {}] /\ Said = [c \in Clients |-> <<>>]
  BY <1>1, AskedIs DEF Hears
<1>4. Game!Init
  BY <1>1, <1>2, <1>3, PlayersAre DEF Game!Init
<1>5. Game!OneAtATime
  BY <1>1, <1>3, PlayersAre DEF Game!OneAtATime
<1> QED
  BY <1>4, <1>5

\* Every step of the server and its clients is a step of Match, or none.
LEMMA NextPlays ==
    IInv /\ Values' /\ Game!OneAtATime /\ [Next]_vars => Plays
<1> SUFFICES ASSUME IInv, Values', Game!OneAtATime, [Next]_vars PROVE Plays
  OBVIOUS
<1>1. CASE UNCHANGED vars
  <2>1. UNCHANGED <<server, history, s2c, c2s, client>> /\ UNCHANGED Keeps
    BY <1>1 DEF vars, Keeps, Died, history
  <2> QED
    BY <2>1, SilentPlays
<1>2. CASE \E c \in Clients : ServerKilled(c)
  BY <1>2, KilledPlays
<1>3. CASE ServerNext
  <2>1. CASE \E c \in Clients : ServerGreet(c)
    BY <2>1, GreetPlays
  <2>2. CASE ServerReadsNothing
    BY <2>2, NothingPlays
  <2>3. CASE \/ ServerTurnGreeting \/ ServerTurnImage \/ ServerTurnAnswer
             \/ ServerTurnBadPackage \/ ServerTurnBadMove
    BY <2>3, NoMovePlays
  <2>4. CASE ServerNickname0 \/ ServerNicknameUsed \/ ServerNickname1
    BY <2>4, Nickname0Plays, NicknameUsedPlays, Nickname1Plays
  <2>5. CASE ServerTurnMsg \/ ServerTurnDisconnect
    BY <2>5, MsgPlays, DisconnectPlays
  <2>6. CASE ServerTurnMove \/ ServerTurnEnd
    BY <2>6, MovePlays, EndPlays
  <2>7. CASE ServerAgainMover \/ ServerAgainOther \/ ServerClose
    BY <2>7, AgainMoverPlays, AgainOtherPlays, ClosePlays
  <2> QED
    BY <1>3, <2>1, <2>2, <2>3, <2>4, <2>5, <2>6, <2>7 DEF ServerNext
<1>4. ASSUME NEW c \in Clients, ClientNext(c) \/ ConnectionReset(c) \/ ClientDies(c) \/ ClientLost(c)
      PROVE  Plays
  <2>1. CASE ClientConnect(c)
    BY <2>1, ConnectPlays
  <2>2. CASE ClientShow(c)
    BY <2>2, ShowPlays
  <2>3. CASE ClientNickname(c) \/ ClientBoard(c) \/ ClientAgain(c)
    BY <2>3, ReplyPlays
  <2>4. CASE ClientEcho(c)
    BY <2>4, EchoPlays
  <2>5. CASE ClientDisconnect(c) \/ ClientLost(c) \/ ClientKilled(c)
    BY <2>5, EndsPlays
  <2>6. CASE ConnectionReset(c) \/ ClientDies(c)
    BY <2>6, ResetPlays, DiesPlays
  <2> QED
    BY <1>4, <2>1, <2>2, <2>3, <2>4, <2>5, <2>6 DEF ClientNext
<1> QED
  BY <1>1, <1>2, <1>3, <1>4 DEF Next, ServerStep, ClientStep

\* The dialogue of a player stays in order in a step that is no step of Match.
LEMMA StutterMatch ==
    ASSUME Game!OneAtATime, UNCHANGED Game!vars
    PROVE  (Game!OneAtATime)'
<1>1. UNCHANGED <<Stage, Awaited, version, aux_play_again, Keeps, Asked, Said>>
  BY DEF Game!vars
<1>2. (Game!Question)' = Game!Question
  BY <1>1, QuestionIs
<1> QED
  BY <1>1, <1>2 DEF Game!OneAtATime

-----------------------------------------------------------------------------
(* The theorems.                                                           *)

\* The server and its clients start in agreement, and every step keeps it.
LEMMA InitIInv ==
    Init => IInv
<1> SUFFICES ASSUME Init PROVE IInv
  OBVIOUS
<1>1. Values
  BY BoundsAssumption DEF Init, Values, Clients
<1>2. Streams
  <2>1. <<>> \in Seq(Packages) /\ <<>> \in Seq(Messages)
    OBVIOUS
  <2> HIDE DEF Packages, Messages
  <2>2. \A c \in Clients : Sends(c2s[c], Died(c))
    BY DEF Init, Sends
  <2> QED
    BY <2>1, <2>2 DEF Init, Streams
<1>3. Agreement
  BY DEF Init, Agreement, Agreed, Unconnected
<1>4. Fresh
  BY DEF Init, Fresh
<1> QED
  BY <1>1, <1>2, <1>3, <1>4 DEF IInv

\* Nothing happens.
LEMMA StutterIInv ==
    IInv /\ UNCHANGED vars => IInv'
<1> SUFFICES ASSUME IInv, UNCHANGED vars PROVE IInv'
  OBVIOUS
<1>1. Values /\ Streams /\ Agreement /\ Fresh
  BY DEF IInv
<1>2. Values'
  BY <1>1 DEF Values, vars, server, history
<1>3. Streams'
  BY <1>1 DEF Streams, vars, Died, Sends, Clients, Messages, Packages, Vals, Texts, Blank, Typed,
     Requests, Plain, Asking, Questions, Echoes
<1>4. Agreement'
  BY <1>1 DEF Agreement, Agreed, Connected, Unconnected, Due, Questionnaire, Ends, Asking, Questions,
     Echoes, Owed, Awaited, Other, Running, Clients, vars, server, history
<1>5. Fresh'
  BY <1>1 DEF Fresh, Shows, Moved, vars, server, history
<1> QED
  BY <1>2, <1>3, <1>4, <1>5 DEF IInv

\* The inductive invariant of the server, its clients and what travels between them.
THEOREM Inductive ==
    Spec => []IInv
<1>1. IInv /\ [Next]_vars => IInv'
  <2> SUFFICES ASSUME IInv, [Next]_vars PROVE IInv'
    OBVIOUS
  <2>1. CASE UNCHANGED vars
    BY <2>1, StutterIInv
  <2>2. ASSUME NEW c \in Clients, ServerKilled(c) PROVE IInv'
    BY <2>2, KilledIInv
  <2>3. CASE ServerNext
    <3>1. ASSUME NEW c \in Clients, ServerGreet(c) PROVE IInv'
      BY <3>1, GreetIInv
    <3>2. CASE ServerReadsNothing
      BY <3>2, NothingIInv
    <3>3. CASE ServerTurnBadPackage \/ ServerTurnGreeting \/ ServerTurnImage \/ ServerTurnAnswer
               \/ ServerTurnBadMove
      BY <3>3, NoMoveIInv
    <3>4. CASE ServerNickname0
      BY <3>4, Nickname0IInv
    <3>5. CASE ServerNicknameUsed
      BY <3>5, NicknameUsedIInv
    <3>6. CASE ServerNickname1
      BY <3>6, Nickname1IInv
    <3>7. CASE ServerTurnMsg
      BY <3>7, MsgIInv
    <3>8. CASE ServerTurnDisconnect \/ ServerClose
      BY <3>8, LastIInv
    <3>9. CASE ServerTurnMove
      BY <3>9, MoveIInv
    <3>10. CASE ServerTurnEnd
      BY <3>10, EndIInv
    <3>11. CASE ServerAgainMover
      BY <3>11, AgainMoverIInv
    <3>12. CASE ServerAgainOther
      BY <3>12, AgainOtherIInv
    <3> QED
      BY <2>3, <3>1, <3>2, <3>3, <3>4, <3>5, <3>6, <3>7, <3>8, <3>9, <3>10, <3>11, <3>12 DEF ServerNext
  <2>4. ASSUME NEW c \in Clients, ClientNext(c) \/ ClientLost(c) PROVE IInv'
    <3>1. CASE ClientConnect(c)
      BY <3>1, ConnectIInv
    <3>2. CASE ClientShow(c)
      BY <3>2, ShowIInv
    <3>3. CASE ClientNickname(c) \/ ClientBoard(c) \/ ClientAgain(c) \/ ClientEcho(c)
      BY <3>3, ReplyIInv
    <3>4. CASE ClientDisconnect(c) \/ ClientLost(c) \/ ClientKilled(c)
      BY <3>4, LeavesIInv
    <3> QED
      BY <2>4, <3>1, <3>2, <3>3, <3>4 DEF ClientNext
  <2>5. ASSUME NEW c \in Clients, ConnectionReset(c) \/ ClientDies(c) PROVE IInv'
    BY <2>5, DiesIInv
  <2> QED
    BY <2>1, <2>2, <2>3, <2>4, <2>5 DEF Next, ServerStep, ClientStep
<1> QED
  BY <1>1, InitIInv, PTL DEF Spec

\* The server's state has its types, and each stream the kinds of message it may
\* hold: those of no type come from a client that was killed.
THEOREM TypeCorrect ==
    Spec => []TypeOK
<1>1. IInv => TypeOK
  <2> SUFFICES ASSUME IInv PROVE TypeOK
    OBVIOUS
  <2>1. Values /\ Streams
    BY DEF IInv
  <2>2. ASSUME NEW c \in Clients, NEW i \in DOMAIN c2s[c]
        PROVE  c2s[c][i].type \in
                  {"StartConnection", "RetNickname", "SendMove", "SendMsg", "Image", "AnswerNewGame",
                   "Disconnect"} \union IF Died(c) THEN {"Garbage"} ELSE {}
    <3>1. Sends(c2s[c], Died(c)) /\ DOMAIN c2s[c] = 1..Len(c2s[c])
      BY <2>1 DEF Streams
    <3> QED
      BY <3>1, <2>2 DEF Sends, Requests
  <2> QED
    BY <2>1, <2>2 DEF TypeOK, Values
<1> QED
  BY <1>1, Inductive, PTL

\* Whatever the users do and whoever is killed, the answers that a client has yet
\* to give and those the server has yet to read are the one it waits for, and one
\* for each image.
THEOREM AnswersAgree ==
    Spec => []AnswersAhead
<1>1. IInv => AnswersAhead
  BY DEF IInv, Agreement, Agreed, Connected, Due, Questionnaire, Asking, AnswersAhead, Pending
<1> QED
  BY <1>1, Inductive, PTL

\* A move is applied to the board that its player was looking at.
THEOREM MovesAreFresh ==
    Spec => FreshMoves
<1> DEFINE Applied ==
       (moves' # moves /\ images[n_socket] = 0 /\ ~ Died(n_socket)) => Packet(n_socket).val.seen = version
<1>1. IInv /\ [Next]_vars => [Applied]_vars
  <2> SUFFICES ASSUME IInv, Next, moves' # moves, images[n_socket] = 0, ~ Died(n_socket)
               PROVE  Packet(n_socket).val.seen = version
    OBVIOUS
  <2>1. Values /\ Streams /\ Agreement /\ Fresh
    BY DEF IInv
  <2>2. LegalMove
    <3>1. moves \in Nat
      BY <2>1, BoundsAssumption DEF Values
    <3> QED
      BY <3>1 DEF Next, ServerStep, ServerNext, ClientStep, ClientNext, ServerKilled, ServerGreet,
         ServerReadsNothing, ServerTurnBadPackage, ServerNickname0, ServerNicknameUsed, ServerNickname1,
         ServerTurnGreeting, ServerTurnImage, ServerTurnAnswer, ServerTurnBadMove, Again, ServerTurnMsg,
         ServerTurnDisconnect, ServerTurnMove, ServerTurnEnd, ServerAgainMover, ServerAgainOther,
         ServerClose, ClientConnect, ClientShow, ClientNickname, ClientBoard, ClientAgain, ClientEcho,
         ClientDisconnect, ClientLost, ClientKilled, ClientReceive, ConnectionReset, ClientDies, server
  <2>3. /\ pc = "turn" /\ c2s[n_socket] # <<>> /\ Packet(n_socket).type = "SendMove"
        /\ n_socket \in Clients
    BY <2>1, <2>2 DEF LegalMove, Turn, Receive, Values
  <2>4. client[n_socket] = "on"
    <3>1. Agreed(n_socket)
      BY <2>1, <2>3 DEF Agreement, Running
    <3> QED
      BY <3>1, <2>1, <2>3 DEF Agreed, Unconnected, Died, Values
  <2>5. Moved(c2s[n_socket], version)
    BY <2>1, <2>3, <2>4 DEF Fresh
  <2>6. Packet(n_socket) = c2s[n_socket][1] /\ 1 \in 1..Len(c2s[n_socket])
    <3>1. c2s[n_socket] \in Seq(Messages)
      BY <2>1, <2>3 DEF Streams
    <3> QED
      BY <3>1, <2>3 DEF Packet
  <2> QED
    BY <2>3, <2>5, <2>6 DEF Moved
<1>2. Spec => [][Applied]_vars
  BY <1>1, Inductive, PTL DEF Spec
<1> QED
  BY <1>2 DEF FreshMoves, Applied

\* No player that keeps to the dialogue has two things before it, or one of an
\* earlier board, game or stage, whatever its streams hold.
THEOREM OneMatterHolds ==
    Spec => []OneMatter
<1>1. Init => OneMatter
  BY InitPlays DEF OneMatter
<1>2. IInv /\ IInv' /\ OneMatter /\ [Next]_vars => OneMatter'
  <2> SUFFICES ASSUME IInv, IInv', OneMatter, [Next]_vars PROVE OneMatter'
    OBVIOUS
  <2>1. Values' /\ Values /\ Streams /\ Game!OneAtATime
    BY DEF IInv, OneMatter
  <2>2. Game!Next \/ UNCHANGED Game!vars
    BY <2>1, NextPlays DEF Plays
  <2> QED
    BY <2>1, <2>2, MatchKeeps, StutterMatch DEF OneMatter
<1> QED
  BY <1>1, <1>2, Inductive, PTL DEF Spec

\* The server with its clients and streams implements the abstract match.
THEOREM Implementation ==
    Spec => ImplementsMatch
<1>1. Init => Game!Init
  BY InitPlays
<1>2. IInv /\ IInv' /\ OneMatter /\ [Next]_vars => [Game!Next]_(Game!vars)
  <2> SUFFICES ASSUME IInv, IInv', OneMatter, [Next]_vars PROVE [Game!Next]_(Game!vars)
    OBVIOUS
  <2>1. Values' /\ Game!OneAtATime
    BY DEF IInv, OneMatter
  <2> QED
    BY <2>1, NextPlays DEF Plays
<1> QED
  BY <1>1, <1>2, Inductive, OneMatterHolds, PTL DEF Spec, ImplementsMatch, Game!Spec
=============================================================================
