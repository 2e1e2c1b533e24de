----------------------------- MODULE MCScheduler -----------------------------
(* Small instances of Scheduler for TLC. *)
EXTENDS Scheduler

MCJobs == [priority : 1..2, start_time : {0, 2},
           bursts : {<<3>>, <<1, 1, 1>>, <<2, 0, 2>>}]
LongJobs == [priority : 1..2, start_time : {0, 2, 4},
             bursts : {<<1>>, <<4>>, <<3, 2, 1>>, <<2, 1, 2>>, <<1, 0, 1, 2, 2>>}]

\* tests/test1.txt and, with quantum 0, 5 and 3, tests/out1.txt to out3.txt.
ExampleInput == <<
    [priority |-> 10, start_time |-> 6, bursts |-> <<3, 2, 3, 2, 3, 2, 5>>],
    [priority |-> 1, start_time |-> 0, bursts |-> <<10, 3, 5, 2, 1>>],
    [priority |-> 5, start_time |-> 5, bursts |-> <<3, 1, 2, 1, 1>>]>>
Example == [p \in Procs |-> ExampleInput[p + 1]]

\* Every input of three short jobs with small quanta; two long jobs and a short
\* one, and the sample, with quanta that are longer than some bursts.
Short == [priority |-> 1, start_time |-> 1, bursts |-> <<2>>]
AllJobs == MCJobs \union LongJobs \union {Short} \union {ExampleInput[k] : k \in 1..3}
Inputs ==
    ([Procs -> MCJobs] \X {0, 1, 2})
    \union ({[p \in Procs |-> <<j, k, Short>>[p + 1]] : j, k \in LongJobs} \X {0, 3, 5})
    \union ({Example} \X {0, 3, 5})

\* A finished program stops; every other state without a step is an error.
Stopped == pc = "done" /\ UNCHANGED vars
MCInit == Init /\ <<job, quantum>> \in Inputs
MCSpec == MCInit /\ [][Next \/ Stopped]_vars /\ Fairness

\* cpu_use, times_interrupted, turnaround_time, response_time, waiting_time
ExampleOutput ==
    0 :> << <<4, 0, 28, 4, 15>>, <<3, 0, 35, 0, 20>>, <<3, 0, 19, 8, 14>> >>
    @@ 5 :> << <<4, 1, 28, 2, 15>>, <<4, 3, 35, 0, 20>>, <<3, 0, 11, 0, 6>> >>
    @@ 3 :> << <<5, 4, 22, 0, 9>>, <<7, 4, 40, 0, 25>>, <<3, 1, 15, 4, 10>> >>

\* At the end the program prints the counts, response times and waiting times of the
\* three sample outputs of the course.  t1/src/README.md:6 says otherwise of GERMY in
\* out3.txt, whose response and waiting time the program is said to miss by one: it
\* does not.  The turnaround times, which that line takes for right, it does miss by one.
MatchesSamples ==
    (pc = "done" /\ job = Example) => \A p \in Procs :
        LET row == ExampleOutput[quantum][p + 1]
        IN  /\ cpu_use[p] = row[1] /\ times_interrupted[p] = row[2]
            /\ turnaround_time[p] = row[3] + 1
            /\ response_time[p] = row[4] /\ waiting_time[p] = row[5]
=============================================================================
