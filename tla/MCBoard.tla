------------------------------- MODULE MCBoard -------------------------------
(* Small instances of Board for TLC. *)
EXTENDS Board

\* Nothing follows once the allocator has ended the server.
Stopped == heap = "aborted" /\ UNCHANGED vars
MCSpec == Init /\ [][Next \/ Stopped]_vars
=============================================================================
