---------------------------- MODULE MCGameServer ----------------------------
(* Small instances of GameServer for TLC. *)
EXTENDS GameServer, TLC

\* When the server has ended and no client is left nothing need happen; every
\* other state without a step is a deadlock of the protocol.
Stopped == ~ Running /\ (\A c \in Clients : client[c] # "on") /\ UNCHANGED vars
MCSpec == Init /\ [][Next \/ Stopped]_vars

\* Nicknames are only compared with each other.
Symmetry == Permutations(Nicknames)
=============================================================================
