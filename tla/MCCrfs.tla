------------------------------- MODULE MCCrfs -------------------------------
(* Small instances of Crfs for TLC. *)
EXTENDS Crfs

\* Paths of up to three names over two directories.
DeepPaths == {<<"a">>, <<"b">>, <<"c">>, <<"b", "a">>, <<"b", "c">>, <<"b", "c", "a">>}
\* More names than a directory of two or three entries has room for.
FlatPaths == {<<"a">>, <<"b">>, <<"c">>, <<"d">>}

\* "b" stands for a name of eight letters that begins with the three of "a".
MCLetters == [n \in Names |-> [k \in 0..6 |->
    IF (n = "a" /\ k = 0) \/ (n = "b" /\ k < 3) THEN NBlocks - 1 ELSE 0]]
MCCount == [n \in Names |-> IF n = "b" THEN 100 ELSE 0]
MCCut == [n \in Names |-> IF n = "b" THEN "a" ELSE n]
\* The data of the first file read as entries: a directory in block 0, a file in block 5.
MCData ==
    {[kind |-> [s \in Slots |-> IF s = 0 THEN Dir ELSE File], name |-> [s \in Slots |-> "a"],
      index |-> [s \in Slots |-> IF s = 0 THEN 0 ELSE 5]]}

Stopped == stack = <<>> /\ (segfault \/ calls = MaxCalls) /\ UNCHANGED vars
MCSpec == Init /\ [][Next \/ Stopped]_vars
=============================================================================
