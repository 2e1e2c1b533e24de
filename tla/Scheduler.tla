------------------------------ MODULE Scheduler ------------------------------
(***************************************************************************)
(* The CPU scheduler of tareas/t1: the main loop of main.c with the ready  *)
(* queue of structs.c.  One turn of the loop is one tick of simulated time *)
(* and has four phases, in the order of the code: every process is offered *)
(* to the ready queue (Admit), the CPU is given away (Dispatch), the       *)
(* process on the CPU runs one unit (Run...), and the statistics of every  *)
(* process are updated (Account).  quantum = 0 is the version "np".        *)
(***************************************************************************)
EXTENDS Integers, Sequences, SequencesExt

CONSTANTS
    N,        \* number of processes in the input file
    Jobs,     \* the lines the input file may hold
    Quanta    \* the values quantum may have

\* A line has an odd number of bursts, CPU bursts and waits taking turns.
ASSUME NAssumption == N \in Nat
ASSUME QuantaAssumption == Quanta \subseteq Int
ASSUME JobsAssumption ==
    \A j \in Jobs : /\ j \in [priority : Int, start_time : Int, bursts : Seq(Int)]
                    /\ Len(j.bursts) % 2 = 1

VARIABLES
    job, quantum,                      \* the input; never change
    pc, i,                             \* phase of the tick, index of the admit loop
    total_counter,                     \* the counters of the processes, always equal
    queue, running, head,              \* ready queue, CPU busy, last process popped
    state, subprocesses, actual_subprocess, in_queue, quantum_counter,
    turnaround_time, response_time, waiting_time, cpu_use, times_interrupted,
    ran                                \* history: units of CPU received

input == <<job, quantum>>
control == <<pc, i, total_counter>>
cpu == <<queue, running, head, in_queue>>
stats == <<turnaround_time, response_time, waiting_time, cpu_use, times_interrupted>>
work == <<subprocesses, actual_subprocess, quantum_counter, ran>>
vars == <<input, control, cpu, state, work, stats>>

Procs == 0..(N - 1)                    \* pids, in the order of the input file
States == {"RUNNING", "READY", "WAITING", "FINISHED", "IDLE"}

NoProcess == -1                        \* head before the first dispatch

BeforePid(p, q) == p > q                      \* fault: the priority is forgotten
Before(p, q) ==
    \/ job[p].priority > job[q].priority
    \/ job[p].priority = job[q].priority /\ p > q

has_finished_late(p) == actual_subprocess[p] >= Len(subprocesses[p])  \* fault: no + 1
has_finished(p) == actual_subprocess[p] + 1 >= Len(subprocesses[p])

-----------------------------------------------------------------------------
Init ==
    /\ job \in [Procs -> Jobs]
    /\ quantum \in Quanta
    /\ pc = "admit" /\ i = 0 /\ total_counter = 0
    /\ queue = <<>> /\ running = FALSE /\ head = NoProcess
    /\ state = [p \in Procs |-> "IDLE"]
    /\ subprocesses = [p \in Procs |-> job[p].bursts]
    /\ actual_subprocess = [p \in Procs |-> 0]
    /\ in_queue = [p \in Procs |-> FALSE]
    /\ quantum_counter = [p \in Procs |-> 0]
    /\ turnaround_time = [p \in Procs |-> 0]
    /\ response_time = [p \in Procs |-> -1]
    /\ waiting_time = [p \in Procs |-> 0]
    /\ cpu_use = [p \in Procs |-> 0]
    /\ times_interrupted = [p \in Procs |-> 0]
    /\ ran = [p \in Procs |-> 0]

\* The walk from the head stops at the first node the new one goes before.
ready_queue_up(p) ==
    LET stops(k) == state[queue[k]] # "READY" \/ Before(p, queue[k])
    IN  \E k \in 1..(Len(queue) + 1) :
            /\ \A j \in 1..(k - 1) : ~ stops(j)
            /\ k <= Len(queue) => stops(k)
            /\ queue' = InsertAt(queue, k, p)

Arrives(p) == state[p] = "IDLE" /\ job[p].start_time = total_counter

EnqueueableTwice(p) == state[p] = "READY" \/ Arrives(p)     \* fault: in_queue not tested
EnqueueableOnce(p) == ~ in_queue[p] /\ Arrives(p)           \* fault: only arrivals
EnqueueableEarly(p) == ~ in_queue[p] /\ state[p] \in {"READY", "IDLE"}  \* fault: no start_time
Enqueueable(p) == ~ in_queue[p] /\ (state[p] = "READY" \/ Arrives(p))

\* One call of try_queue_up; the last turn of the loop goes on to Dispatch.
AdmitStep ==
    /\ pc = "admit" /\ i < N
    /\ i' = i + 1
    /\ UNCHANGED <<input, pc, total_counter, running, head, work, stats>>

AdmitEnqueue ==
    /\ AdmitStep
    /\ Enqueueable(i)
    /\ state' = [state EXCEPT ![i] = "READY"]
    /\ in_queue' = [in_queue EXCEPT ![i] = TRUE]
    /\ ready_queue_up(i)

AdmitSkip ==
    /\ AdmitStep
    /\ ~ Enqueueable(i)
    /\ UNCHANGED <<state, in_queue, queue>>

AdmitEnd ==
    /\ pc = "admit" /\ i = N
    /\ pc' = "dispatch" /\ i' = 0
    /\ UNCHANGED <<input, total_counter, cpu, state, work, stats>>

AlwaysFirst(p) == TRUE                        \* fault: response_time set at each dispatch
FirstDispatch(p) == response_time[p] = -1

Dispatch ==
    /\ pc = "dispatch" /\ Len(queue) > 0 /\ ~ running
    /\ pc' = "run" /\ running' = TRUE
    /\ head' = Head(queue) /\ queue' = Tail(queue)
    /\ in_queue' = [in_queue EXCEPT ![Head(queue)] = FALSE]
    /\ state' = [state EXCEPT ![Head(queue)] = "RUNNING"]
    /\ cpu_use' = [cpu_use EXCEPT ![Head(queue)] = @ + 1]
    /\ response_time' = [response_time EXCEPT ![Head(queue)] =
                            IF FirstDispatch(Head(queue)) THEN total_counter - job[Head(queue)].start_time ELSE @]
    /\ UNCHANGED <<input, i, total_counter, work, turnaround_time, waiting_time, times_interrupted>>

NoDispatch ==
    /\ pc = "dispatch" /\ (Len(queue) = 0 \/ running)
    /\ pc' = "run"
    /\ UNCHANGED <<input, i, total_counter, cpu, state, work, stats>>

-----------------------------------------------------------------------------
\* What the unit of work does to the burst, and which limits it reaches.
Left == subprocesses[head][actual_subprocess[head] + 1] - 1
BurstEnds == Left = 0
QuantumExpiresLate == quantum # 0 /\ quantum_counter[head] = quantum     \* fault: off by one
QuantumExpires == quantum # 0 /\ quantum_counter[head] + 1 = quantum
KeepsRunning == BurstEnds                     \* fault: running not cleared at expiry
Releases == BurstEnds \/ QuantumExpires

\* The part of a unit that is common to every outcome.
RunUnit ==
    /\ pc = "run" /\ running
    /\ pc' = "account"
    /\ running' = ~ Releases
    /\ subprocesses' = [subprocesses EXCEPT ![head] = [@ EXCEPT ![actual_subprocess[head] + 1] = Left]]
    /\ quantum_counter' = [quantum_counter EXCEPT ![head] =
                              IF quantum = 0 THEN @ ELSE IF Releases THEN 0 ELSE @ + 1]
    /\ times_interrupted' = [times_interrupted EXCEPT ![head] = IF QuantumExpires THEN @ + 1 ELSE @]
    /\ ran' = [ran EXCEPT ![head] = @ + 1]
    /\ UNCHANGED <<input, i, total_counter, queue, head, in_queue, response_time, cpu_use>>

RunFinish ==
    /\ RunUnit /\ BurstEnds /\ has_finished(head)
    /\ state' = [state EXCEPT ![head] = "FINISHED"]
    /\ turnaround_time' = [turnaround_time EXCEPT ![head] = total_counter - job[head].start_time + 1]
    /\ UNCHANGED <<actual_subprocess, waiting_time>>

RunBlock ==
    /\ RunUnit /\ BurstEnds /\ ~ has_finished(head)
    /\ state' = [state EXCEPT ![head] = "WAITING"]
    /\ actual_subprocess' = [actual_subprocess EXCEPT ![head] = @ + 1]
    /\ waiting_time' = [waiting_time EXCEPT ![head] = @ - 1]
    /\ UNCHANGED turnaround_time

RunPreempt ==
    /\ RunUnit /\ ~ BurstEnds /\ QuantumExpires
    /\ state' = [state EXCEPT ![head] = "READY"]
    /\ waiting_time' = [waiting_time EXCEPT ![head] = @ - 1]
    /\ UNCHANGED <<actual_subprocess, turnaround_time>>

RunContinue ==
    /\ RunUnit /\ ~ Releases
    /\ UNCHANGED <<state, actual_subprocess, waiting_time, turnaround_time>>

RunIdle ==
    /\ pc = "run" /\ ~ running
    /\ pc' = "account"
    /\ UNCHANGED <<input, i, total_counter, cpu, state, work, stats>>

\* A WAITING process whose wait has reached zero goes on to its next burst.
WaitOver(p) == state[p] = "WAITING" /\ subprocesses[p][actual_subprocess[p] + 1] = 0
WaitGoesOn(p) == state[p] = "WAITING" /\ ~ WaitOver(p)
CountsWaitOnly(p) == state[p] = "WAITING"     \* fault: time in the queue not counted
CountsAsWaiting(p) == state[p] \in {"WAITING", "READY"}

SameTick == total_counter                     \* fault: the clock stands still
NextTick == total_counter + 1

Account ==
    /\ pc = "account"
    /\ total_counter' = NextTick
    /\ subprocesses' = [p \in Procs |->
           IF WaitGoesOn(p)
           THEN [subprocesses[p] EXCEPT ![actual_subprocess[p] + 1] = @ - 1]
           ELSE subprocesses[p]]
    /\ actual_subprocess' = [p \in Procs |-> actual_subprocess[p] + IF WaitOver(p) THEN 1 ELSE 0]
    /\ state' = [p \in Procs |-> IF WaitOver(p) THEN "READY" ELSE state[p]]
    /\ waiting_time' = [p \in Procs |->
           waiting_time[p] + IF CountsAsWaiting(p) THEN 1 ELSE 0]
    /\ pc' = IF \A p \in Procs : state'[p] = "FINISHED" THEN "done" ELSE "admit"
    /\ UNCHANGED <<input, i, cpu, quantum_counter, ran, turnaround_time,
                   response_time, cpu_use, times_interrupted>>

Next ==
    \/ AdmitEnqueue \/ AdmitSkip \/ AdmitEnd
    \/ Dispatch \/ NoDispatch
    \/ RunFinish \/ RunBlock \/ RunPreempt \/ RunContinue \/ RunIdle
    \/ Account

Spec == Init /\ [][Next]_vars
Fairness == WF_vars(Next)      \* the program is one thread that keeps running

-----------------------------------------------------------------------------
TypeOK ==
    /\ job \in [Procs -> Jobs]
    /\ quantum \in Quanta
    /\ pc \in {"admit", "dispatch", "run", "account", "done"}
    /\ i \in 0..N
    /\ total_counter \in Nat
    /\ queue \in Seq(Procs)
    /\ running \in BOOLEAN
    /\ head \in Procs \cup {NoProcess}
    /\ state \in [Procs -> States]
    /\ subprocesses \in [Procs -> Seq(Int)]
    /\ actual_subprocess \in [Procs -> Nat]
    /\ in_queue \in [Procs -> BOOLEAN]
    /\ quantum_counter \in [Procs -> Nat]
    /\ turnaround_time \in [Procs -> Int]
    /\ response_time \in [Procs -> Nat \cup {-1}]
    /\ waiting_time \in [Procs -> Int]
    /\ cpu_use \in [Procs -> Nat]
    /\ times_interrupted \in [Procs -> Nat]
    /\ ran \in [Procs -> Nat]

\* The queue holds each process marked in_queue once, all of them READY,
\* highest priority first and the larger pid first among equals; between
\* AdmitEnd and the end of Dispatch no READY process is left out of it
\* (structs.c: ready_queue_up, try_queue_up and queue_pop together).
QueueOrdered ==
    /\ \A k, l \in 1..Len(queue) : k < l => Before(queue[k], queue[l])
    /\ \A k \in 1..Len(queue) : in_queue[queue[k]]
    /\ \A p \in Procs : in_queue[p] => state[p] = "READY" /\ \E k \in 1..Len(queue) : queue[k] = p
    /\ pc = "dispatch" => \A p \in Procs : state[p] = "READY" => in_queue[p]

\* One process at a time is RUNNING, it is head, and the flag running says so;
\* a process off the CPU has no part of a quantum left over, and without a
\* quantum nothing is counted.
CpuExclusive ==
    /\ running => head \in Procs /\ state[head] = "RUNNING"
    /\ \A p \in Procs : state[p] = "RUNNING" => running /\ p = head
    /\ \A p \in Procs : state[p] # "RUNNING" \/ quantum = 0 => quantum_counter[p] = 0

\* actual_subprocess stays inside the array and at a CPU burst or a wait as
\* the state says, so that main.c never reads past subprocesses.
BurstInBounds ==
    \A p \in Procs :
        /\ Len(subprocesses[p]) = Len(job[p].bursts)
        /\ actual_subprocess[p] < Len(subprocesses[p])
        /\ actual_subprocess[p] % 2 = IF state[p] = "WAITING" THEN 1 ELSE 0
        /\ state[p] = "FINISHED" => actual_subprocess[p] + 1 = Len(subprocesses[p])

\* The ticks a process spent so far since its arrival; in "account" the unit of
\* the RUNNING process has been counted in ran and not yet in total_counter.
Elapsed(p) == total_counter - job[p].start_time
              + IF pc = "account" /\ state[p] = "RUNNING" THEN 1 ELSE 0

AddsUp(p) ==
    CASE state[p] = "IDLE" -> waiting_time[p] = 0 /\ ran[p] = 0
      [] state[p] = "FINISHED" -> turnaround_time[p] = waiting_time[p] + ran[p]
      [] OTHER -> waiting_time[p] + ran[p] = Elapsed(p)

\* Every tick since its arrival a process either ran or waited, and the
\* turnaround of a finished one is the two added up: the -1 that main.c
\* applies on release and the +1 of the account loop cancel out.
StatisticsAddUp == \A p \in Procs : AddsUp(p)

\* The CPU is never left idle in a tick in which some process is READY.
WorkConserving ==
    pc = "run" /\ ~ running => \A p \in Procs : state[p] # "READY"

Completed(p) == (actual_subprocess[p] + 1) \div 2 + IF state[p] = "FINISHED" THEN 1 ELSE 0

\* Every dispatch but the current one ended in an interruption, in the end of a
\* burst, or in both in the same tick; no stay on the CPU is longer than the
\* quantum, and without a quantum each burst takes exactly one dispatch.
DispatchesAccounted ==
    \A p \in Procs :
        LET now == IF state[p] = "RUNNING" THEN 1 ELSE 0
        IN  /\ times_interrupted[p] + now <= cpu_use[p]
            /\ Completed(p) + now <= cpu_use[p]
            /\ cpu_use[p] <= times_interrupted[p] + Completed(p) + now
            /\ quantum > 0 => ran[p] <= quantum * (cpu_use[p] - now) + quantum_counter[p]
            /\ quantum = 0 => times_interrupted[p] = 0

\* The first dispatch waits only in the queue: nothing that response_time
\* counts is missing from waiting_time at the end of a tick.
ResponseWithinWaiting ==
    pc \in {"admit", "done"} =>
        \A p \in Procs : IF cpu_use[p] = 0 THEN response_time[p] = -1
                         ELSE 0 <= response_time[p] /\ response_time[p] <= waiting_time[p]

\* The scheduler implements PriorityCpu: whoever gets the CPU finds it free and
\* is the best of all READY processes, whether or not they are in the queue.
Cpu == INSTANCE PriorityCpu WITH
    rank <- [p \in Procs |-> job[p].priority],
    stages <- [p \in Procs |-> Len(job[p].bursts)],
    phase <- state, stage <- actual_subprocess
ImplementsPriorityCpu == Cpu!Spec

\* A program given bursts of at least one unit ends, every process FINISHED:
\* priorities delay a process and never starve it for good.
Terminates == <>(pc = "done" /\ \A p \in Procs : state[p] = "FINISHED")
=============================================================================
