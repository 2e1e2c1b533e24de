----------------------------- MODULE MCMapReduce -----------------------------
(* Small instances of MapReduce for TLC: words are 1 to 4, of two lengths. *)
EXTENDS MapReduce

MCLength == <<3, 4, 3, 3>>

\* Every text of one chunk and a half, and some of up to four chunks: of all
\* words once, of few words often, and with a last chunk that is full or not.
ShortTexts == UNION {[1..n -> DOMAIN MCLength] : n \in 1..3}
LongTexts == {<<4, 3, 2, 1>>, <<2, 1, 2, 3, 1>>, <<1, 1, 2, 3, 2, 2>>, <<4, 4, 3, 1, 2, 4>>, <<3, 1, 2, 3, 2, 1, 4>>}
MCRetry == {<<>>, <<3>>, <<2, 1>>, <<3, 1, 2>>, <<4, 3, 1, 2, 4>>}
MCTexts == ShortTexts \union LongTexts \union MCRetry

Stopped == pc = "done" /\ UNCHANGED vars
MCSpec == Init /\ [][Next \/ Stopped]_vars /\ Fairness
=============================================================================
