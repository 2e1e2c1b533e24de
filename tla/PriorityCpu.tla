----------------------------- MODULE PriorityCpu -----------------------------
(***************************************************************************)
(* What a scheduler of one CPU promises, with no queue, no clock and no    *)
(* quantum: processes arrive, the best of the ready ones is granted a free *)
(* CPU, and it gives the CPU back by finishing, by blocking at the end of  *)
(* a stage that is not its last, or by being preempted.  Scheduler         *)
(* implements it.                                                          *)
(***************************************************************************)
EXTENDS Integers

CONSTANT Procs   \* integers, which break ties

VARIABLES
    rank, stages,   \* priority and number of stages of each process, fixed
    phase, stage

vars == <<rank, stages, phase, stage>>

Outranks(p, q) == rank[p] > rank[q] \/ (rank[p] = rank[q] /\ p > q)

Init ==
    /\ rank \in [Procs -> Int] /\ stages \in [Procs -> Int]
    /\ phase = [p \in Procs |-> "IDLE"]
    /\ stage = [p \in Procs |-> 0]

Move(p, from, to) ==
    /\ phase[p] = from
    /\ phase' = [phase EXCEPT ![p] = to]
    /\ UNCHANGED <<rank, stages>>

Arrive(p) == Move(p, "IDLE", "READY") /\ UNCHANGED stage

\* Only a free CPU, and only to the best READY process.
Grant(p) ==
    /\ \A q \in Procs : phase[q] # "RUNNING"
    /\ \A q \in Procs \ {p} : phase[q] = "READY" => Outranks(p, q)
    /\ Move(p, "READY", "RUNNING")
    /\ UNCHANGED stage

Preempt(p) == Move(p, "RUNNING", "READY") /\ UNCHANGED stage

Block(p) ==
    /\ stage[p] + 1 < stages[p]
    /\ Move(p, "RUNNING", "WAITING")
    /\ stage' = [stage EXCEPT ![p] = @ + 1]

Finish(p) ==
    /\ stage[p] + 1 = stages[p]
    /\ Move(p, "RUNNING", "FINISHED")
    /\ UNCHANGED stage

\* Any set of blocked processes may wake at once.
Wake(S) ==
    /\ \A p \in S : phase[p] = "WAITING"
    /\ phase' = [p \in Procs |-> IF p \in S THEN "READY" ELSE phase[p]]
    /\ stage' = [p \in Procs |-> stage[p] + IF p \in S THEN 1 ELSE 0]
    /\ UNCHANGED <<rank, stages>>

Next ==
    \/ \E p \in Procs : Arrive(p) \/ Grant(p) \/ Preempt(p) \/ Block(p) \/ Finish(p)
    \/ \E S \in SUBSET Procs : Wake(S)

Spec == Init /\ [][Next]_vars
=============================================================================
