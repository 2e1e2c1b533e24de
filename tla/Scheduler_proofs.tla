-------------------------- MODULE Scheduler_proofs ---------------------------
(***************************************************************************)
(* Proofs about Scheduler, for every number of processes, every input file *)
(* and every quantum.                                                      *)
(***************************************************************************)
EXTENDS Scheduler, TLAPS

-----------------------------------------------------------------------------
(* What the insertion and the removal of queue elements do to a sequence. *)

\* InsertAt (the insertion of ready_queue_up) keeps the elements and their order.
LEMMA InsertAtElements ==
    ASSUME NEW S, NEW q \in Seq(S), NEW e \in S, NEW k \in 1..(Len(q) + 1)
    PROVE  /\ InsertAt(q, k, e) \in Seq(S)
           /\ Len(InsertAt(q, k, e)) = Len(q) + 1
           /\ \A m \in 1..(Len(q) + 1) :
                 InsertAt(q, k, e)[m] = IF m < k THEN q[m]
                                        ELSE IF m = k THEN e ELSE q[m - 1]
  <1> DEFINE before == SubSeq(q, 1, k - 1)
             after == SubSeq(q, k, Len(q))
  <1>1. before \in Seq(S) /\ Len(before) = k - 1 /\ \A m \in 1..(k - 1) : before[m] = q[m]
    OBVIOUS
  <1>2. /\ after \in Seq(S) /\ Len(after) = Len(q) + 1 - k
        /\ \A m \in 1..(Len(q) + 1 - k) : after[m] = q[k + m - 1]
    OBVIOUS
  <1> HIDE DEF before, after
  <1>3. (before \o <<e>>) \in Seq(S) /\ Len(before \o <<e>>) = k
    BY <1>1
  <1>4. \A m \in 1..k : (before \o <<e>>)[m] = IF m < k THEN q[m] ELSE e
    BY <1>1
  <1>5. InsertAt(q, k, e) = (before \o <<e>>) \o after
    BY DEF InsertAt, before, after
  <1> DEFINE left == before \o <<e>>
  <1> HIDE DEF left
  <1>6. left \in Seq(S) /\ Len(left) = k /\ \A m \in 1..k : left[m] = IF m < k THEN q[m] ELSE e
    BY <1>3, <1>4 DEF left
  <1>7. left \o after \in Seq(S) /\ Len(left \o after) = Len(q) + 1
    BY <1>2, <1>6
  <1>8. ASSUME NEW m \in 1..(Len(q) + 1)
        PROVE  (left \o after)[m] = IF m < k THEN q[m] ELSE IF m = k THEN e ELSE q[m - 1]
    <2>1. CASE m <= k
      BY <2>1, <1>2, <1>6
    <2>2. CASE m > k
      <3>1. (left \o after)[m] = after[m - k]
        BY <2>2, <1>2, <1>6
      <3>2. m - k \in 1..(Len(q) + 1 - k)
        BY <2>2
      <3>3. after[m - k] = q[m - 1]
        BY <3>2, <1>2
      <3>4. QED
        BY <2>2, <3>1, <3>3
    <2>3. m <= k \/ m > k
      OBVIOUS
    <2>4. QED
      BY <2>1, <2>2, <2>3, Zenon
  <1>9. QED
    BY <1>5, <1>7, <1>8 DEF left

\* Tail (the removal of queue_pop) shifts the elements by one place.
LEMMA TailElements ==
    ASSUME NEW S, NEW q \in Seq(S), Len(q) > 0
    PROVE  /\ Head(q) \in S /\ Head(q) = q[1]
           /\ Tail(q) \in Seq(S) /\ Len(Tail(q)) = Len(q) - 1
           /\ \A m \in 1..(Len(q) - 1) : Tail(q)[m] = q[m + 1]
  OBVIOUS

\* Assigning one element of a sequence keeps its length and the others.
LEMMA ExceptElements ==
    ASSUME NEW S, NEW q \in Seq(S), NEW k \in 1..Len(q), NEW e \in S
    PROVE  [q EXCEPT ![k] = e] \in Seq(S) /\ Len([q EXCEPT ![k] = e]) = Len(q)
  OBVIOUS

\* Bursts alternate between CPU and wait: the next index has the other parity.
LEMMA Parity ==
    \A n \in Nat : n % 2 \in {0, 1} /\ (n + 1) % 2 = 1 - (n % 2)
  OBVIOUS

-----------------------------------------------------------------------------
(* The inductive invariant. *)

\* The admit loop has seen the processes below i; outside it i is zero.
AdmitLoop ==
    /\ pc = "admit" => \A p \in 0..(i - 1) : state[p] = "READY" => in_queue[p]
    /\ pc # "admit" => i = 0

\* No process is admitted before its time.
ArrivedInTime == \A p \in Procs : state[p] # "IDLE" => job[p].start_time <= total_counter

IInv == TypeOK /\ QueueOrdered /\ CpuExclusive /\ BurstInBounds /\ AdmitLoop /\ ArrivedInTime

\* What the assumption on Jobs says of each field of the job of a process.
LEMMA JobTypes ==
    ASSUME NEW j \in Jobs
    PROVE  /\ j.priority \in Int /\ j.start_time \in Int
           /\ j.bursts \in Seq(Int) /\ Len(j.bursts) \in Nat
           /\ Len(j.bursts) % 2 = 1 /\ Len(j.bursts) > 0
  <1>1. j \in [priority : Int, start_time : Int, bursts : Seq(Int)] /\ Len(j.bursts) % 2 = 1
    BY JobsAssumption
  <1>2. j.priority \in Int /\ j.start_time \in Int /\ j.bursts \in Seq(Int)
    BY <1>1
  <1>3. Len(j.bursts) \in Nat
    BY <1>2
  <1>4. Len(j.bursts) # 0
    <2>1. 0 % 2 # 1
      OBVIOUS
    <2>2. QED
      BY <2>1, <1>1, Zenon
  <1>5. QED
    BY <1>1, <1>2, <1>3, <1>4

\* The input variables keep the types that Init gave them.
LEMMA InputTypes ==
    ASSUME TypeOK, NEW p \in Procs
    PROVE  /\ p \in Int /\ p # NoProcess
           /\ job[p].priority \in Int /\ job[p].start_time \in Int
           /\ job[p].bursts \in Seq(Int) /\ Len(job[p].bursts) \in Nat
           /\ Len(job[p].bursts) % 2 = 1
  <1>1. job[p] \in Jobs
    BY DEF TypeOK
  <1>2. p \in Int /\ p # NoProcess
    BY NAssumption DEF Procs, NoProcess
  <1>3. QED
    BY <1>1, <1>2, JobTypes

\* process_init and the start of main establish the inductive invariant.
LEMMA InitIInv == Init => IInv
  <1> SUFFICES ASSUME Init PROVE IInv
    OBVIOUS
  <1>1. job \in [Procs -> Jobs]
    BY DEF Init
  <1>2. \A p \in Procs : /\ job[p].bursts \in Seq(Int) /\ Len(job[p].bursts) \in Nat
                         /\ Len(job[p].bursts) % 2 = 1
    BY <1>1, JobTypes
  <1>3. \A p \in Procs : 0 < Len(job[p].bursts)
    BY <1>1, JobTypes
  <1>4. subprocesses \in [Procs -> Seq(Int)]
    BY <1>2 DEF Init
  <1>5. TypeOK
    <2>1. state \in [Procs -> States]
      BY DEF Init, States
    <2>2. running \in BOOLEAN /\ head \in Procs \cup {NoProcess}
      BY Zenon DEF Init
    <2>6. i \in 0..N
      BY NAssumption DEF Init
    <2>4. queue \in Seq(Procs)
      BY DEF Init
    <2>3. /\ quantum_counter \in [Procs -> Nat] /\ turnaround_time \in [Procs -> Int]
          /\ response_time \in [Procs -> Nat \cup {-1}] /\ waiting_time \in [Procs -> Int]
          /\ cpu_use \in [Procs -> Nat] /\ times_interrupted \in [Procs -> Nat]
          /\ ran \in [Procs -> Nat] /\ actual_subprocess \in [Procs -> Nat]
          /\ in_queue \in [Procs -> BOOLEAN]
      BY DEF Init
    <2>5. QED
      BY <1>1, <1>4, <2>1, <2>2, <2>3, <2>4, <2>6 DEF Init, TypeOK
  <1>6. QueueOrdered /\ CpuExclusive /\ AdmitLoop /\ ArrivedInTime
    BY DEF Init, QueueOrdered, CpuExclusive, AdmitLoop, ArrivedInTime
  <1>7. BurstInBounds
    BY <1>2, <1>3, Parity DEF Init, BurstInBounds
  <1>8. QED
    BY <1>5, <1>6, <1>7 DEF IInv

-----------------------------------------------------------------------------
(* Before is a strict total order on the processes. *)

\* The order of the ready queue is transitive.
LEMMA BeforeTransitive ==
    ASSUME TypeOK, NEW p \in Procs, NEW q \in Procs, NEW r \in Procs,
           Before(p, q), Before(q, r)
    PROVE  Before(p, r)
  <1>1. \A x \in {p, q, r} : x \in Int /\ job[x].priority \in Int
    BY InputTypes
  <1>2. QED
    BY <1>1 DEF Before

\* Any two processes are ordered one way, and never both ways.
LEMMA BeforeTotal ==
    ASSUME TypeOK, NEW p \in Procs, NEW q \in Procs, p # q, ~ Before(p, q)
    PROVE  Before(q, p)
  <1>1. \A x \in {p, q} : x \in Int /\ job[x].priority \in Int
    BY InputTypes
  <1>2. QED
    BY <1>1 DEF Before

\* try_queue_up keeps the queue in order, whatever it inserts.
LEMMA AdmitEnqueueIInv ==
    ASSUME IInv, AdmitEnqueue
    PROVE  IInv'
  <1> DEFINE lenq == Len(queue)
  <1>1. /\ TypeOK /\ QueueOrdered /\ CpuExclusive /\ BurstInBounds /\ AdmitLoop /\ ArrivedInTime
    BY DEF IInv
  <1>2. i \in Procs /\ i' = i + 1 /\ i' \in 0..N /\ pc = "admit" /\ pc' = "admit"
    BY <1>1, NAssumption DEF AdmitEnqueue, AdmitStep, TypeOK, Procs
  <1>3. ~ in_queue[i] /\ state[i] \in {"READY", "IDLE"} /\ job[i].start_time <= total_counter
    <2>1. ~ in_queue[i] /\ (state[i] = "READY" \/ (state[i] = "IDLE" /\ job[i].start_time = total_counter))
      BY DEF AdmitEnqueue, Enqueueable, Arrives
    <2>2. job[i].start_time \in Int /\ total_counter \in Nat
      BY <1>1, <1>2, InputTypes DEF TypeOK
    <2>3. QED
      BY <2>1, <2>2, <1>1, <1>2 DEF ArrivedInTime
  <1>4. /\ UNCHANGED <<job, quantum, total_counter, running, head, subprocesses, actual_subprocess>>
        /\ UNCHANGED <<quantum_counter, ran, turnaround_time, response_time, waiting_time>>
        /\ UNCHANGED <<cpu_use, times_interrupted>>
    BY DEF AdmitEnqueue, AdmitStep, input, work, stats
  <1>5. state' = [state EXCEPT ![i] = "READY"] /\ in_queue' = [in_queue EXCEPT ![i] = TRUE]
    BY DEF AdmitEnqueue
  <1>6. PICK k \in 1..(Len(queue) + 1) :
            /\ \A j \in 1..(k - 1) : ~ (state[queue[j]] # "READY" \/ Before(i, queue[j]))
            /\ k <= Len(queue) => (state[queue[k]] # "READY" \/ Before(i, queue[k]))
            /\ queue' = InsertAt(queue, k, i)
    BY DEF AdmitEnqueue, ready_queue_up
  <1>7. queue \in Seq(Procs) /\ Len(queue) \in Nat /\ k \in Int
    BY <1>1 DEF TypeOK
  <1>8. /\ queue' \in Seq(Procs) /\ Len(queue') = Len(queue) + 1
        /\ \A m \in 1..(Len(queue) + 1) :
              queue'[m] = IF m < k THEN queue[m] ELSE IF m = k THEN i ELSE queue[m - 1]
    <2>1. queue' = InsertAt(queue, k, i)
      BY <1>6
    <2>2. i \in Procs /\ queue \in Seq(Procs) /\ k \in 1..(Len(queue) + 1)
      BY <1>2, <1>7
    <2>3. /\ InsertAt(queue, k, i) \in Seq(Procs)
          /\ Len(InsertAt(queue, k, i)) = Len(queue) + 1
          /\ \A m \in 1..(Len(queue) + 1) :
                 InsertAt(queue, k, i)[m] = IF m < k THEN queue[m]
                                            ELSE IF m = k THEN i ELSE queue[m - 1]
      BY <2>2, InsertAtElements, SMT
    <2>4. QED
      BY <2>1, <2>3, Zenon
  <1>9. \A m \in 1..Len(queue) : /\ queue[m] \in Procs /\ in_queue[queue[m]]
                                  /\ state[queue[m]] = "READY" /\ queue[m] # i
    BY <1>1, <1>3, <1>7 DEF QueueOrdered
  <1>10. TypeOK'
    BY <1>1, <1>2, <1>4, <1>5, <1>8 DEF TypeOK, States
  <1>11. QueueOrdered'
    <2>1. ASSUME NEW a \in 1..(Len(queue) + 1), NEW b \in 1..(Len(queue) + 1), a < b
          PROVE  Before(queue'[a], queue'[b])
      <3>1. CASE b < k
        <4>1. /\ a \in 1..Len(queue) /\ b \in 1..Len(queue)
              /\ queue'[a] = queue[a] /\ queue'[b] = queue[b]
          BY <3>1, <2>1, <1>7, <1>8
        <4>2. QED
          BY <4>1, <2>1, <1>1 DEF QueueOrdered
      <3>2. CASE b = k
        <4>1. a \in 1..(k - 1) /\ a \in 1..Len(queue) /\ queue'[a] = queue[a] /\ queue'[b] = i
          BY <3>2, <2>1, <1>7, <1>8
        <4>2. QED
          BY <4>1, <1>1, <1>2, <1>6, <1>9, BeforeTotal
      <3>3. CASE b > k
        <4>1. b - 1 \in 1..Len(queue) /\ queue'[b] = queue[b - 1] /\ k \in 1..Len(queue)
          BY <3>3, <1>7, <1>8
        <4>2. Before(i, queue[k])
          BY <4>1, <1>6, <1>9
        <4>3. CASE a < k
          <5>1. a \in 1..Len(queue) /\ a < b - 1 /\ queue'[a] = queue[a]
            BY <4>3, <3>3, <2>1, <1>7, <1>8
          <5>2. QED
            BY <5>1, <4>1, <1>1 DEF QueueOrdered
        <4>4. CASE a = k
          <5>1. queue'[a] = i
            BY <4>4, <1>8
          <5>2. b - 1 = k \/ Before(queue[k], queue[b - 1])
            BY <4>1, <3>3, <1>1, <1>7 DEF QueueOrdered
          <5>3. QED
            BY <5>1, <5>2, <4>1, <4>2, <1>1, <1>2, <1>9, BeforeTransitive
        <4>5. CASE a > k
          <5>1. a - 1 \in 1..Len(queue) /\ queue'[a] = queue[a - 1] /\ a - 1 < b - 1
            BY <4>5, <2>1, <1>7, <1>8
          <5>2. QED
            BY <5>1, <4>1, <1>1 DEF QueueOrdered
        <4>6. QED
          BY <4>3, <4>4, <4>5, <1>7
      <3>4. QED
        BY <3>1, <3>2, <3>3, <1>7
    <2>2. \A a, b \in 1..Len(queue') : a < b => Before(queue[a], queue[b])'
      BY <2>1, <1>4, <1>8 DEF Before
    <2>3. ASSUME NEW m \in 1..Len(queue')
          PROVE  in_queue'[queue'[m]]
      <3>1. queue'[m] = i \/ \E l \in 1..Len(queue) : queue'[m] = queue[l]
        BY <1>7, <1>8
      <3>2. QED
        BY <3>1, <1>1, <1>2, <1>5, <1>9, SMTT(60) DEF TypeOK
    <2>4. ASSUME NEW p \in Procs, in_queue'[p]
          PROVE  state'[p] = "READY" /\ \E m \in 1..Len(queue') : queue'[m] = p
      <3>1. CASE p = i
        BY <3>1, <1>1, <1>2, <1>5, <1>6, <1>8 DEF TypeOK
      <3>2. CASE p # i
        <4>1. in_queue[p] /\ state'[p] = state[p]
          BY <3>2, <2>4, <1>1, <1>5 DEF TypeOK
        <4>2. PICK l \in 1..Len(queue) : queue[l] = p
          BY <4>1, <1>1 DEF QueueOrdered
        <4>3. IF l < k THEN queue'[l] = p ELSE queue'[l + 1] = p
          BY <4>2, <1>7, <1>8
        <4>4. state'[p] = "READY"
          BY <4>1, <1>1 DEF QueueOrdered
        <4>5. l \in 1..Len(queue') /\ l + 1 \in 1..Len(queue')
          BY <1>7, <1>8
        <4>6. QED
          BY <4>3, <4>4, <4>5
      <3>3. QED
        BY <3>1, <3>2
    <2>5. QED
      BY <2>2, <2>3, <2>4, <1>2 DEF QueueOrdered
  <1>12. CpuExclusive'
    BY <1>1, <1>2, <1>3, <1>4, <1>5 DEF CpuExclusive, TypeOK
  <1>13. BurstInBounds'
    BY <1>1, <1>2, <1>3, <1>4, <1>5 DEF BurstInBounds, TypeOK
  <1>14. AdmitLoop'
    BY <1>1, <1>2, <1>5, NAssumption DEF AdmitLoop, TypeOK, Procs
  <1>15. ArrivedInTime'
    BY <1>1, <1>2, <1>3, <1>4, <1>5 DEF ArrivedInTime, TypeOK
  <1>16. QED
    BY <1>10, <1>11, <1>12, <1>13, <1>14, <1>15 DEF IInv

\* A process that try_queue_up refuses was queued already or is not READY.
LEMMA AdmitSkipIInv ==
    ASSUME IInv, AdmitSkip
    PROVE  IInv'
  <1>1. /\ TypeOK /\ QueueOrdered /\ CpuExclusive /\ BurstInBounds /\ AdmitLoop /\ ArrivedInTime
    BY DEF IInv
  <1>2. i \in Procs /\ i' = i + 1 /\ i' \in 0..N /\ pc = "admit" /\ pc' = "admit"
    BY <1>1, NAssumption DEF AdmitSkip, AdmitStep, TypeOK, Procs
  <1>3. UNCHANGED <<job, quantum, total_counter, cpu, state, subprocesses, actual_subprocess,
                    quantum_counter, ran, stats>>
    BY DEF AdmitSkip, AdmitStep, input, work, cpu
  <1>4. ~ (~ in_queue[i] /\ state[i] = "READY")
    BY DEF AdmitSkip, Enqueueable
  <1>5. TypeOK'
    BY <1>1, <1>2, <1>3 DEF TypeOK, cpu, stats
  <1>6. QueueOrdered' /\ CpuExclusive' /\ BurstInBounds' /\ ArrivedInTime'
    BY <1>1, <1>2, <1>3 DEF QueueOrdered, CpuExclusive, BurstInBounds, ArrivedInTime, Before, cpu
  <1>7. AdmitLoop'
    <2>1. ASSUME NEW p \in 0..(i' - 1), state[p] = "READY"
          PROVE  in_queue[p]
      <3>1. p = i \/ p \in 0..(i - 1)
        BY <1>2, NAssumption DEF Procs
      <3>2. QED
        BY <2>1, <3>1, <1>1, <1>2, <1>4 DEF AdmitLoop
    <2>2. QED
      BY <2>1, <1>2, <1>3 DEF AdmitLoop, cpu
  <1>8. QED
    BY <1>5, <1>6, <1>7 DEF IInv

\* The loop over, every READY process is in the queue.
LEMMA AdmitEndIInv ==
    ASSUME IInv, AdmitEnd
    PROVE  IInv'
  <1>1. /\ TypeOK /\ QueueOrdered /\ CpuExclusive /\ BurstInBounds /\ AdmitLoop /\ ArrivedInTime
    BY DEF IInv
  <1>2. i = N /\ i' = 0 /\ pc = "admit" /\ pc' = "dispatch"
    BY DEF AdmitEnd
  <1>3. UNCHANGED <<job, quantum, total_counter, cpu, state, subprocesses, actual_subprocess,
                    quantum_counter, ran, stats>>
    BY DEF AdmitEnd, input, work
  <1>4. TypeOK'
    BY <1>1, <1>2, <1>3, NAssumption DEF TypeOK, cpu, stats
  <1>5. CpuExclusive' /\ BurstInBounds' /\ ArrivedInTime' /\ AdmitLoop'
    BY <1>1, <1>2, <1>3 DEF CpuExclusive, BurstInBounds, ArrivedInTime, AdmitLoop, cpu
  <1>6. \A p \in Procs : state[p] = "READY" => in_queue[p]
    BY <1>1, <1>2 DEF AdmitLoop, Procs
  <1>7. QueueOrdered'
    BY <1>1, <1>2, <1>3, <1>6 DEF QueueOrdered, Before, cpu
  <1>8. QED
    BY <1>4, <1>5, <1>7 DEF IInv

\* queue_pop hands the CPU to the head of the queue.
LEMMA DispatchIInv ==
    ASSUME IInv, Dispatch
    PROVE  IInv'
  <1> DEFINE h == Head(queue)
  <1>1. /\ TypeOK /\ QueueOrdered /\ CpuExclusive /\ BurstInBounds /\ AdmitLoop /\ ArrivedInTime
    BY DEF IInv
  <1>2. /\ pc = "dispatch" /\ Len(queue) > 0 /\ ~ running
        /\ pc' = "run" /\ running' = TRUE /\ head' = h /\ queue' = Tail(queue)
        /\ in_queue' = [in_queue EXCEPT ![h] = FALSE]
        /\ state' = [state EXCEPT ![h] = "RUNNING"]
        /\ cpu_use' = [cpu_use EXCEPT ![h] = @ + 1]
        /\ response_time' = [response_time EXCEPT ![h] =
                                IF FirstDispatch(h) THEN total_counter - job[h].start_time ELSE @]
    BY DEF Dispatch
  <1>3. UNCHANGED <<job, quantum, i, total_counter, subprocesses, actual_subprocess, quantum_counter,
                    ran, turnaround_time, waiting_time, times_interrupted>>
    BY DEF Dispatch, input, work
  <1>4. /\ h \in Procs /\ h = queue[1] /\ queue' \in Seq(Procs) /\ Len(queue) \in Nat
        /\ Len(queue') = Len(queue) - 1
        /\ \A m \in 1..(Len(queue) - 1) : queue'[m] = queue[m + 1]
    BY <1>1, <1>2, TailElements DEF TypeOK
  <1>5. in_queue[h] /\ state[h] = "READY" /\ quantum_counter[h] = 0
    BY <1>1, <1>2, <1>4 DEF QueueOrdered, CpuExclusive
  <1>6. \A p \in Procs : state[p] # "RUNNING"
    BY <1>1, <1>2 DEF CpuExclusive
  <1>7. response_time' \in [Procs -> Nat \cup {-1}]
    <2>1. job[h].start_time \in Int /\ total_counter \in Nat /\ job[h].start_time <= total_counter
      BY <1>1, <1>4, <1>5, InputTypes DEF TypeOK, ArrivedInTime
    <2>2. total_counter - job[h].start_time \in Nat
      BY <2>1
    <2> HIDE DEF h
    <2>3. QED
      BY <2>2, <1>1, <1>2, <1>4 DEF TypeOK
  <1> HIDE DEF h
  <1>8. TypeOK'
    <2>1. pc' \in {"admit", "dispatch", "run", "account", "done"} /\ running' \in BOOLEAN
      BY <1>2
    <2>2. queue' \in Seq(Procs) /\ head' \in Procs \cup {NoProcess}
      BY <1>2, <1>4
    <2>3. state' \in [Procs -> States]
      BY <1>1, <1>2, <1>4 DEF TypeOK, States
    <2>4. in_queue' \in [Procs -> BOOLEAN]
      BY <1>1, <1>2, <1>4 DEF TypeOK
    <2>5. cpu_use' \in [Procs -> Nat]
      <3>1. cpu_use \in [Procs -> Nat] /\ h \in Procs
        BY <1>1, <1>4 DEF TypeOK
      <3>2. cpu_use[h] + 1 \in Nat
        BY <3>1
      <3>3. cpu_use' = [cpu_use EXCEPT ![h] = cpu_use[h] + 1]
        BY <1>2
      <3>4. QED
        BY <3>1, <3>2, <3>3
    <2>6. QED
      BY <2>1, <2>2, <2>3, <2>4, <2>5, <1>1, <1>3, <1>7 DEF TypeOK
  <1>9. QueueOrdered'
    <2>1. ASSUME NEW a \in 1..Len(queue'), NEW b \in 1..Len(queue'), a < b
          PROVE  Before(queue'[a], queue'[b])
      <3>1. /\ queue'[a] = queue[a + 1] /\ queue'[b] = queue[b + 1] /\ a + 1 < b + 1
            /\ a + 1 \in 1..Len(queue) /\ b + 1 \in 1..Len(queue)
        BY <2>1, <1>4
      <3>2. QED
        BY <3>1, <1>1 DEF QueueOrdered
    <2>2. ASSUME NEW m \in 1..Len(queue')
          PROVE  queue'[m] \in Procs /\ queue'[m] # h /\ in_queue[queue'[m]]
      <3>1. queue'[m] = queue[m + 1] /\ m + 1 \in 2..Len(queue) /\ 1 \in 1..Len(queue)
        BY <1>2, <1>4
      <3>2. queue[m + 1] \in Procs /\ Before(queue[1], queue[m + 1]) /\ in_queue[queue[m + 1]]
        <4> DEFINE l == m + 1
        <4>1. l \in 1..Len(queue) /\ 1 < l /\ 1 \in 1..Len(queue)
          BY <3>1, <1>4
        <4> HIDE DEF l
        <4>2. queue[l] \in Procs
          BY <4>1, <1>1 DEF TypeOK
        <4>3. Before(queue[1], queue[l]) /\ in_queue[queue[l]]
          BY <4>1, <1>1 DEF QueueOrdered
        <4>4. QED
          BY <4>2, <4>3 DEF l
      <3>3. job[h].priority \in Int /\ h \in Int
        BY <1>1, <1>4, InputTypes
      <3>4. ~ Before(h, h)
        BY <3>3 DEF Before
      <3>5. QED
        BY <3>1, <3>2, <3>4, <1>4
    <2>3. ASSUME NEW p \in Procs, in_queue'[p]
          PROVE  state'[p] = "READY" /\ \E m \in 1..Len(queue') : queue'[m] = p
      <3>1. p # h /\ in_queue[p] /\ state[p] = "READY" /\ state'[p] = "READY"
        BY <2>3, <1>1, <1>2, <1>4 DEF TypeOK, QueueOrdered
      <3>2. PICK l \in 1..Len(queue) : queue[l] = p
        BY <3>1, <1>1 DEF QueueOrdered
      <3>3. l # 1
        BY <3>1, <3>2, <1>4
      <3>4. l - 1 \in 1..Len(queue') /\ l - 1 \in 1..(Len(queue) - 1) /\ (l - 1) + 1 = l
        BY <3>3, <1>4
      <3>5. queue'[l - 1] = p
        BY <3>2, <3>4, <1>4
      <3>6. QED
        BY <3>1, <3>4, <3>5
    <2>4. \A a, b \in 1..Len(queue') : a < b => Before(queue[a], queue[b])'
      BY <2>1, <1>3 DEF Before
    <2>5. \A m \in 1..Len(queue') : in_queue'[queue'[m]]
      BY <2>2, <1>1, <1>2 DEF TypeOK
    <2>6. QED
      BY <2>3, <2>4, <2>5, <1>2 DEF QueueOrdered
  <1>10. CpuExclusive'
    BY <1>1, <1>2, <1>3, <1>4, <1>5, <1>6 DEF CpuExclusive, TypeOK
  <1>11. BurstInBounds'
    BY <1>1, <1>2, <1>3, <1>4, <1>5 DEF BurstInBounds, TypeOK
  <1>12. AdmitLoop' /\ ArrivedInTime'
    BY <1>1, <1>2, <1>3, <1>4, <1>5 DEF AdmitLoop, ArrivedInTime, TypeOK
  <1>13. QED
    BY <1>8, <1>9, <1>10, <1>11, <1>12 DEF IInv

\* Nothing changes when the CPU is taken or nobody is READY.
LEMMA NoDispatchIInv ==
    ASSUME IInv, NoDispatch
    PROVE  IInv'
  <1>1. /\ TypeOK /\ QueueOrdered /\ CpuExclusive /\ BurstInBounds /\ AdmitLoop /\ ArrivedInTime
    BY DEF IInv
  <1>2. pc' = "run" /\ pc = "dispatch"
    BY DEF NoDispatch
  <1>3. UNCHANGED <<job, quantum, i, total_counter, cpu, state, subprocesses, actual_subprocess,
                    quantum_counter, ran, stats>>
    BY DEF NoDispatch, input, work
  <1>4. TypeOK'
    BY <1>1, <1>2, <1>3 DEF TypeOK, cpu, stats
  <1>5. QED
    BY <1>1, <1>2, <1>3, <1>4
       DEF IInv, QueueOrdered, CpuExclusive, BurstInBounds, AdmitLoop, ArrivedInTime, Before, cpu

\* What a unit of work does to the invariant, whatever its outcome: state and
\* actual_subprocess apart, everything a Run action may change.
LEMMA RunUnitFacts ==
    ASSUME IInv, RunUnit
    PROVE  /\ head \in Procs /\ state[head] = "RUNNING" /\ pc = "run" /\ pc' = "account"
           /\ actual_subprocess[head] \in Nat /\ actual_subprocess[head] % 2 = 0
           /\ running' = ~ Releases /\ Left \in Int
           /\ subprocesses' \in [Procs -> Seq(Int)]
           /\ \A p \in Procs : Len(subprocesses'[p]) = Len(subprocesses[p])
           /\ quantum_counter' \in [Procs -> Nat] /\ times_interrupted' \in [Procs -> Nat]
           /\ ran' \in [Procs -> Nat] /\ ran' = [ran EXCEPT ![head] = @ + 1]
           /\ \A p \in Procs : p # head => quantum_counter'[p] = quantum_counter[p]
           /\ quantum # 0 /\ Releases => quantum_counter'[head] = 0
           /\ quantum = 0 => quantum_counter' = quantum_counter
           /\ UNCHANGED <<job, quantum, i, total_counter, queue, head, in_queue, response_time, cpu_use>>
  <1>1. TypeOK /\ CpuExclusive /\ BurstInBounds
    BY DEF IInv
  <1>2. head \in Procs /\ state[head] = "RUNNING" /\ pc = "run" /\ pc' = "account"
    BY <1>1 DEF RunUnit, CpuExclusive
  <1>3. actual_subprocess[head] \in Nat /\ actual_subprocess[head] % 2 = 0
    BY <1>1, <1>2 DEF TypeOK, BurstInBounds
  <1> DEFINE s == subprocesses[head]
             a == actual_subprocess[head] + 1
  <1>4. s \in Seq(Int) /\ a \in 1..Len(s) /\ Len(s) \in Nat
    BY <1>1, <1>2, <1>3, SMTT(60) DEF TypeOK, BurstInBounds
  <1>5. Left \in Int
    BY <1>4 DEF Left
  <1>6. [s EXCEPT ![a] = Left] \in Seq(Int) /\ Len([s EXCEPT ![a] = Left]) = Len(s)
    BY <1>4, <1>5, ExceptElements
  <1>7. subprocesses' = [subprocesses EXCEPT ![head] = [s EXCEPT ![a] = Left]]
    BY DEF RunUnit
  <1>8. /\ subprocesses' \in [Procs -> Seq(Int)]
        /\ \A p \in Procs : Len(subprocesses'[p]) = Len(subprocesses[p])
    <2> HIDE DEF s, a
    <2>1. subprocesses \in [Procs -> Seq(Int)]
      BY <1>1 DEF TypeOK
    <2> DEFINE t == [s EXCEPT ![a] = Left]
    <2>2. t \in Seq(Int) /\ Len(t) = Len(subprocesses[head]) /\ subprocesses' = [subprocesses EXCEPT ![head] = t]
      BY <1>6, <1>7 DEF s
    <2> HIDE DEF t
    <2>3. QED
      BY <2>1, <2>2, <1>2
  <1>9. /\ quantum_counter' \in [Procs -> Nat]
        /\ \A p \in Procs : p # head => quantum_counter'[p] = quantum_counter[p]
        /\ quantum # 0 /\ Releases => quantum_counter'[head] = 0
        /\ quantum = 0 => quantum_counter' = quantum_counter
    <2>1. quantum_counter \in [Procs -> Nat] /\ quantum_counter[head] + 1 \in Nat
      BY <1>1, <1>2 DEF TypeOK
    <2>2. quantum_counter' = [quantum_counter EXCEPT ![head] =
              IF quantum = 0 THEN quantum_counter[head]
              ELSE IF Releases THEN 0 ELSE quantum_counter[head] + 1]
      BY DEF RunUnit
    <2>3. QED
      BY <2>1, <2>2, <1>2
  <1>10. times_interrupted' \in [Procs -> Nat]
    <2>1. times_interrupted \in [Procs -> Nat] /\ times_interrupted[head] + 1 \in Nat
      BY <1>1, <1>2 DEF TypeOK
    <2>2. times_interrupted' = [times_interrupted EXCEPT ![head] =
              IF QuantumExpires THEN times_interrupted[head] + 1 ELSE times_interrupted[head]]
      BY DEF RunUnit
    <2>3. QED
      BY <2>1, <2>2, <1>2
  <1>11. ran' \in [Procs -> Nat] /\ ran' = [ran EXCEPT ![head] = @ + 1]
    <2>1. ran \in [Procs -> Nat] /\ ran[head] + 1 \in Nat
      BY <1>1, <1>2 DEF TypeOK
    <2>2. ran' = [ran EXCEPT ![head] = ran[head] + 1]
      BY DEF RunUnit
    <2>3. QED
      BY <2>1, <2>2
  <1>12. /\ UNCHANGED <<job, quantum, i, total_counter, queue, head, in_queue, response_time, cpu_use>>
         /\ running' = ~ Releases
    BY DEF RunUnit, input
  <1>13. QED
    BY <1>2, <1>3, <1>5, <1>8, <1>9, <1>10, <1>11, <1>12

\* The part of the invariant that depends on the outcome of a unit only
\* through the new state and burst index of the process on the CPU.
LEMMA RunIInv ==
    ASSUME IInv, RunUnit,
           NEW st \in {"FINISHED", "WAITING", "READY", "RUNNING"}, NEW a \in Nat,
           state' = [state EXCEPT ![head] = st],
           actual_subprocess' = [actual_subprocess EXCEPT ![head] = a],
           waiting_time' \in [Procs -> Int], turnaround_time' \in [Procs -> Int],
           st = "RUNNING" <=> ~ Releases,
           a < Len(subprocesses[head]), a % 2 = IF st = "WAITING" THEN 1 ELSE 0,
           st = "FINISHED" => a + 1 = Len(subprocesses[head])
    PROVE  IInv'
  <1>1. /\ TypeOK /\ QueueOrdered /\ CpuExclusive /\ BurstInBounds /\ AdmitLoop /\ ArrivedInTime
    BY DEF IInv
  <1>2. /\ head \in Procs /\ state[head] = "RUNNING" /\ pc = "run" /\ pc' = "account"
        /\ running' = ~ Releases
        /\ UNCHANGED <<job, quantum, i, total_counter, queue, head, in_queue, response_time, cpu_use>>
    BY RunUnitFacts
  <1>3. /\ subprocesses' \in [Procs -> Seq(Int)]
        /\ \A p \in Procs : Len(subprocesses'[p]) = Len(subprocesses[p])
    BY RunUnitFacts
  <1>4. TypeOK'
    <2>1. state' \in [Procs -> States] /\ actual_subprocess' \in [Procs -> Nat]
      BY <1>1, <1>2 DEF TypeOK, States
    <2>2. /\ quantum_counter' \in [Procs -> Nat] /\ times_interrupted' \in [Procs -> Nat]
          /\ ran' \in [Procs -> Nat]
      BY RunUnitFacts
    <2>3. running' \in BOOLEAN
      BY <1>2
    <2>4. QED
      BY <1>1, <1>2, <1>3, <2>1, <2>2, <2>3 DEF TypeOK
  <1>5. \A p \in Procs : in_queue[p] => p # head
    BY <1>1, <1>2 DEF QueueOrdered
  <1>6. QueueOrdered'
    <2>1. \A a1, b1 \in 1..Len(queue') : a1 < b1 => Before(queue[a1], queue[b1])'
      <3>1. queue' = queue /\ job' = job /\ QueueOrdered
        BY <1>1, <1>2
      <3>2. \A a1, b1 \in 1..Len(queue) : a1 < b1 => Before(queue[a1], queue[b1])
        BY <3>1 DEF QueueOrdered
      <3>3. QED
        BY ONLY <3>1, <3>2 DEF Before
    <2>2. \A p \in Procs : in_queue'[p] => state'[p] = "READY"
      BY <1>1, <1>2, <1>5 DEF QueueOrdered, TypeOK
    <2>3. QED
      BY <2>1, <2>2, <1>1, <1>2 DEF QueueOrdered
  <1>7. CpuExclusive'
    <2>1. running' => state'[head'] = "RUNNING"
      BY <1>1, <1>2 DEF TypeOK
    <2>2. \A p \in Procs : state'[p] = "RUNNING" => running' /\ p = head'
      BY <1>1, <1>2 DEF CpuExclusive, TypeOK
    <2>3. ASSUME NEW p \in Procs, state'[p] # "RUNNING" \/ quantum = 0
          PROVE  quantum_counter'[p] = 0
      <3>1. CASE p # head
        <4>1. state'[p] = state[p]
          BY <3>1, <1>1, <1>2 DEF TypeOK
        <4>2. quantum_counter'[p] = quantum_counter[p]
          BY <3>1, RunUnitFacts
        <4>3. QED
          BY <4>1, <4>2, <2>3, <1>1 DEF CpuExclusive
      <3>2. CASE p = head
        <4>1. quantum = 0 \/ Releases
          BY <3>2, <2>3, <1>1, <1>2 DEF TypeOK
        <4>2. quantum = 0 => quantum_counter[head] = 0
          BY <1>1, <1>2 DEF CpuExclusive
        <4>3. QED
          BY <3>2, <4>1, <4>2, RunUnitFacts
      <3>3. QED
        BY <3>1, <3>2
    <2>4. QED
      BY <2>1, <2>2, <2>3, <1>2 DEF CpuExclusive
  <1>8. BurstInBounds'
    <2>1. ASSUME NEW p \in Procs, p # head
          PROVE  state'[p] = state[p] /\ actual_subprocess'[p] = actual_subprocess[p]
      BY <2>1, <1>1, <1>2 DEF TypeOK
    <2>2. state'[head] = st /\ actual_subprocess'[head] = a
      BY <1>1, <1>2 DEF TypeOK
    <2>3. QED
      BY <2>1, <2>2, <1>1, <1>2, <1>3 DEF BurstInBounds
  <1>9. AdmitLoop' /\ ArrivedInTime'
    BY <1>1, <1>2 DEF AdmitLoop, ArrivedInTime, TypeOK
  <1>10. QED
    BY <1>4, <1>6, <1>7, <1>8, <1>9 DEF IInv

\* The last burst of a process ends, and the process with it.
LEMMA RunFinishIInv ==
    ASSUME IInv, RunFinish
    PROVE  IInv'
  <1> DEFINE a == actual_subprocess[head]
  <1>1. TypeOK /\ BurstInBounds /\ RunUnit
    BY DEF IInv, RunFinish
  <1>2. /\ head \in Procs /\ state[head] = "RUNNING"
        /\ actual_subprocess[head] \in Nat /\ actual_subprocess[head] % 2 = 0
    BY <1>1, RunUnitFacts
  <1>3. /\ state \in [Procs -> States] /\ actual_subprocess \in [Procs -> Nat]
        /\ waiting_time \in [Procs -> Int] /\ turnaround_time \in [Procs -> Int]
        /\ total_counter \in Nat /\ job[head].start_time \in Int
        /\ Len(subprocesses[head]) \in Nat /\ actual_subprocess[head] < Len(subprocesses[head])
    BY <1>1, <1>2, InputTypes DEF TypeOK, BurstInBounds
  <1>4. state' = [state EXCEPT ![head] = "FINISHED"]
    BY <1>2, <1>3 DEF RunFinish
  <1>5. actual_subprocess' = [actual_subprocess EXCEPT ![head] = a]
    BY <1>2, <1>3 DEF RunFinish
  <1>6. waiting_time' \in [Procs -> Int] /\ turnaround_time' \in [Procs -> Int]
    BY <1>2, <1>3 DEF RunFinish
  <1>7. "FINISHED" = "RUNNING" <=> ~ Releases
    BY DEF RunFinish, Releases
  <1>8. a \in Nat /\ a < Len(subprocesses[head]) /\ a % 2 = IF "FINISHED" = "WAITING" THEN 1 ELSE 0
    BY <1>2, <1>3, Parity DEF RunFinish, has_finished
  <1>9. "FINISHED" = "FINISHED" => a + 1 = Len(subprocesses[head])
    BY <1>2, <1>3 DEF RunFinish, has_finished
  <1>10. QED
    BY <1>1, <1>4, <1>5, <1>6, <1>7, <1>8, <1>9, RunIInv

\* A CPU burst ends and a wait begins.
LEMMA RunBlockIInv ==
    ASSUME IInv, RunBlock
    PROVE  IInv'
  <1> DEFINE a == actual_subprocess[head] + 1
  <1>1. TypeOK /\ BurstInBounds /\ RunUnit
    BY DEF IInv, RunBlock
  <1>2. /\ head \in Procs /\ state[head] = "RUNNING"
        /\ actual_subprocess[head] \in Nat /\ actual_subprocess[head] % 2 = 0
    BY <1>1, RunUnitFacts
  <1>3. /\ state \in [Procs -> States] /\ actual_subprocess \in [Procs -> Nat]
        /\ waiting_time \in [Procs -> Int] /\ turnaround_time \in [Procs -> Int]
        /\ total_counter \in Nat /\ job[head].start_time \in Int
        /\ Len(subprocesses[head]) \in Nat /\ actual_subprocess[head] < Len(subprocesses[head])
    BY <1>1, <1>2, InputTypes DEF TypeOK, BurstInBounds
  <1>4. state' = [state EXCEPT ![head] = "WAITING"]
    BY <1>2, <1>3 DEF RunBlock
  <1>5. actual_subprocess' = [actual_subprocess EXCEPT ![head] = a]
    BY <1>2, <1>3 DEF RunBlock
  <1>6. waiting_time' \in [Procs -> Int] /\ turnaround_time' \in [Procs -> Int]
    BY <1>2, <1>3 DEF RunBlock
  <1>7. "WAITING" = "RUNNING" <=> ~ Releases
    BY DEF RunBlock, Releases
  <1>8. a \in Nat /\ a < Len(subprocesses[head]) /\ a % 2 = IF "WAITING" = "WAITING" THEN 1 ELSE 0
    <2>1. (actual_subprocess[head] + 1) % 2 = 1
      BY <1>2, Parity
    <2>2. a \in Nat /\ a < Len(subprocesses[head])
      BY <1>2, <1>3 DEF RunBlock, has_finished
    <2>3. QED
      BY <2>1, <2>2
  <1>9. "WAITING" = "FINISHED" => a + 1 = Len(subprocesses[head])
    BY <1>2, <1>3 DEF RunBlock, has_finished
  <1>10. QED
    BY <1>1, <1>4, <1>5, <1>6, <1>7, <1>8, <1>9, RunIInv

\* The quantum expires within a burst.
LEMMA RunPreemptIInv ==
    ASSUME IInv, RunPreempt
    PROVE  IInv'
  <1> DEFINE a == actual_subprocess[head]
  <1>1. TypeOK /\ BurstInBounds /\ RunUnit
    BY DEF IInv, RunPreempt
  <1>2. /\ head \in Procs /\ state[head] = "RUNNING"
        /\ actual_subprocess[head] \in Nat /\ actual_subprocess[head] % 2 = 0
    BY <1>1, RunUnitFacts
  <1>3. /\ state \in [Procs -> States] /\ actual_subprocess \in [Procs -> Nat]
        /\ waiting_time \in [Procs -> Int] /\ turnaround_time \in [Procs -> Int]
        /\ total_counter \in Nat /\ job[head].start_time \in Int
        /\ Len(subprocesses[head]) \in Nat /\ actual_subprocess[head] < Len(subprocesses[head])
    BY <1>1, <1>2, InputTypes DEF TypeOK, BurstInBounds
  <1>4. state' = [state EXCEPT ![head] = "READY"]
    BY <1>2, <1>3 DEF RunPreempt
  <1>5. actual_subprocess' = [actual_subprocess EXCEPT ![head] = a]
    BY <1>2, <1>3 DEF RunPreempt
  <1>6. waiting_time' \in [Procs -> Int] /\ turnaround_time' \in [Procs -> Int]
    BY <1>2, <1>3 DEF RunPreempt
  <1>7. "READY" = "RUNNING" <=> ~ Releases
    BY DEF RunPreempt, Releases
  <1>8. a \in Nat /\ a < Len(subprocesses[head]) /\ a % 2 = IF "READY" = "WAITING" THEN 1 ELSE 0
    BY <1>2, <1>3, Parity DEF RunPreempt, has_finished
  <1>9. "READY" = "FINISHED" => a + 1 = Len(subprocesses[head])
    BY <1>2, <1>3 DEF RunPreempt, has_finished
  <1>10. QED
    BY <1>1, <1>4, <1>5, <1>6, <1>7, <1>8, <1>9, RunIInv

\* Neither the burst nor the quantum is over.
LEMMA RunContinueIInv ==
    ASSUME IInv, RunContinue
    PROVE  IInv'
  <1> DEFINE a == actual_subprocess[head]
  <1>1. TypeOK /\ BurstInBounds /\ RunUnit
    BY DEF IInv, RunContinue
  <1>2. /\ head \in Procs /\ state[head] = "RUNNING"
        /\ actual_subprocess[head] \in Nat /\ actual_subprocess[head] % 2 = 0
    BY <1>1, RunUnitFacts
  <1>3. /\ state \in [Procs -> States] /\ actual_subprocess \in [Procs -> Nat]
        /\ waiting_time \in [Procs -> Int] /\ turnaround_time \in [Procs -> Int]
        /\ total_counter \in Nat /\ job[head].start_time \in Int
        /\ Len(subprocesses[head]) \in Nat /\ actual_subprocess[head] < Len(subprocesses[head])
    BY <1>1, <1>2, InputTypes DEF TypeOK, BurstInBounds
  <1>4. state' = [state EXCEPT ![head] = "RUNNING"]
    BY <1>2, <1>3 DEF RunContinue
  <1>5. actual_subprocess' = [actual_subprocess EXCEPT ![head] = a]
    BY <1>2, <1>3 DEF RunContinue
  <1>6. waiting_time' \in [Procs -> Int] /\ turnaround_time' \in [Procs -> Int]
    BY <1>2, <1>3 DEF RunContinue
  <1>7. "RUNNING" = "RUNNING" <=> ~ Releases
    BY DEF RunContinue, Releases
  <1>8. a \in Nat /\ a < Len(subprocesses[head]) /\ a % 2 = IF "RUNNING" = "WAITING" THEN 1 ELSE 0
    BY <1>2, <1>3, Parity DEF RunContinue, has_finished
  <1>9. "RUNNING" = "FINISHED" => a + 1 = Len(subprocesses[head])
    BY <1>2, <1>3 DEF RunContinue, has_finished
  <1>10. QED
    BY <1>1, <1>4, <1>5, <1>6, <1>7, <1>8, <1>9, RunIInv

\* A tick without a process on the CPU.
LEMMA RunIdleIInv ==
    ASSUME IInv, RunIdle
    PROVE  IInv'
  <1>1. /\ TypeOK /\ QueueOrdered /\ CpuExclusive /\ BurstInBounds /\ AdmitLoop /\ ArrivedInTime
    BY DEF IInv
  <1>2. pc' = "account" /\ pc = "run"
    BY DEF RunIdle
  <1>3. UNCHANGED <<job, quantum, i, total_counter, cpu, state, subprocesses, actual_subprocess,
                    quantum_counter, ran, stats>>
    BY DEF RunIdle, input, work
  <1>4. TypeOK'
    BY <1>1, <1>2, <1>3 DEF TypeOK, cpu, stats
  <1>5. QED
    BY <1>1, <1>2, <1>3, <1>4
       DEF IInv, QueueOrdered, CpuExclusive, BurstInBounds, AdmitLoop, ArrivedInTime, Before, cpu

\* The account loop: the waits go down and never past the end of the bursts.
LEMMA AccountIInv ==
    ASSUME IInv, Account
    PROVE  IInv'
  <1>1. /\ TypeOK /\ QueueOrdered /\ CpuExclusive /\ BurstInBounds /\ AdmitLoop /\ ArrivedInTime
    BY DEF IInv
  <1>2. /\ pc = "account" /\ pc' \in {"admit", "done"} /\ total_counter' = total_counter + 1
        /\ state' = [p \in Procs |-> IF WaitOver(p) THEN "READY" ELSE state[p]]
        /\ actual_subprocess' = [p \in Procs |-> actual_subprocess[p] + IF WaitOver(p) THEN 1 ELSE 0]
    BY DEF Account, NextTick
  <1>3. UNCHANGED <<job, quantum, i, queue, running, head, in_queue, quantum_counter, ran,
                    turnaround_time, response_time, cpu_use, times_interrupted>>
    BY DEF Account, NextTick, input, cpu
  <1>4. \A p \in Procs : WaitOver(p) => state[p] = "WAITING"
    BY DEF WaitOver
  <1>5. ASSUME NEW p \in Procs
        PROVE  subprocesses'[p] \in Seq(Int) /\ Len(subprocesses'[p]) = Len(subprocesses[p])
    <2> DEFINE s == subprocesses[p]
               a == actual_subprocess[p] + 1
    <2>1. s \in Seq(Int) /\ a \in 1..Len(s)
      <3>1. s \in Seq(Int) /\ actual_subprocess[p] \in Nat /\ actual_subprocess[p] < Len(s)
        BY <1>1 DEF TypeOK, BurstInBounds
      <3>2. QED
        BY <3>1
    <2>2. s[a] - 1 \in Int
      BY <2>1
    <2>3. [s EXCEPT ![a] = s[a] - 1] \in Seq(Int) /\ Len([s EXCEPT ![a] = s[a] - 1]) = Len(s)
      BY <2>1, <2>2, ExceptElements
    <2>4. subprocesses'[p] = IF WaitGoesOn(p) THEN [s EXCEPT ![a] = s[a] - 1] ELSE s
      BY DEF Account, NextTick
    <2> HIDE DEF s, a
    <2>5. QED
      BY <2>1, <2>3, <2>4 DEF s
  <1>6. TypeOK'
    <2>1. subprocesses' \in [Procs -> Seq(Int)]
      <3>1. subprocesses' = [p \in Procs |-> subprocesses'[p]]
        BY DEF Account, NextTick
      <3>2. QED
        BY <3>1, <1>5
    <2>2. state' \in [Procs -> States] /\ actual_subprocess' \in [Procs -> Nat]
      BY <1>1, <1>2 DEF TypeOK, States
    <2>3. waiting_time' \in [Procs -> Int]
      <3>1. waiting_time \in [Procs -> Int]
        BY <1>1 DEF TypeOK
      <3>2. waiting_time' = [p \in Procs |-> waiting_time[p] + IF CountsAsWaiting(p) THEN 1 ELSE 0]
        BY DEF Account, NextTick
      <3>3. QED
        BY <3>1, <3>2
    <2>4. QED
      BY <2>1, <2>2, <2>3, <1>1, <1>2, <1>3 DEF TypeOK
  <1>7. QueueOrdered'
    BY <1>1, <1>2, <1>3, <1>4 DEF QueueOrdered, Before
  <1>8. CpuExclusive'
    BY <1>1, <1>2, <1>3, <1>4 DEF CpuExclusive
  <1>9. BurstInBounds'
    <2>1. ASSUME NEW p \in Procs
          PROVE  /\ actual_subprocess'[p] < Len(subprocesses[p])
                 /\ actual_subprocess'[p] % 2 = IF state'[p] = "WAITING" THEN 1 ELSE 0
                 /\ state'[p] = "FINISHED" => actual_subprocess'[p] + 1 = Len(subprocesses[p])
      <3>1. /\ actual_subprocess[p] \in Nat /\ actual_subprocess[p] < Len(subprocesses[p])
            /\ Len(subprocesses[p]) \in Nat /\ Len(subprocesses[p]) % 2 = 1
            /\ actual_subprocess[p] % 2 = IF state[p] = "WAITING" THEN 1 ELSE 0
            /\ state[p] = "FINISHED" => actual_subprocess[p] + 1 = Len(subprocesses[p])
        BY <1>1, InputTypes DEF TypeOK, BurstInBounds
      <3>2. CASE WaitOver(p)
        <4>1. state[p] = "WAITING" /\ state'[p] = "READY" /\ actual_subprocess'[p] = actual_subprocess[p] + 1
          BY <3>2, <1>2, <1>4
        <4>2. actual_subprocess[p] % 2 = 1 /\ (actual_subprocess[p] + 1) % 2 = 0
          BY <4>1, <3>1, Parity
        <4>3. actual_subprocess[p] + 1 # Len(subprocesses[p])
          <5>1. 1 # 0
            OBVIOUS
          <5>2. QED
            BY <3>1, <4>2, <5>1, Zenon
        <4>4. QED
          BY <4>1, <4>2, <4>3, <3>1
      <3>3. CASE ~ WaitOver(p)
        <4>1. state'[p] = state[p] /\ actual_subprocess'[p] = actual_subprocess[p] + 0
          BY <3>3, <1>2
        <4>2. QED
          BY <4>1, <3>1
      <3>4. QED
        BY <3>2, <3>3
    <2>2. QED
      BY <2>1, <1>1, <1>3, <1>5 DEF BurstInBounds
  <1>10. AdmitLoop'
    <2>1. i' = 0
      BY <1>1, <1>2, <1>3 DEF AdmitLoop
    <2>2. QED
      BY <2>1 DEF AdmitLoop
  <1>11. ArrivedInTime'
    <2>1. ASSUME NEW p \in Procs, state'[p] # "IDLE"
          PROVE  job[p].start_time <= total_counter + 1
      <3>1. state[p] # "IDLE"
        BY <2>1, <1>2, <1>4
      <3>2. job[p].start_time \in Int /\ total_counter \in Nat
        BY <1>1, InputTypes DEF TypeOK
      <3>3. QED
        BY <3>1, <3>2, <1>1 DEF ArrivedInTime
    <2>2. QED
      BY <2>1, <1>2, <1>3 DEF ArrivedInTime
  <1>12. QED
    BY <1>6, <1>7, <1>8, <1>9, <1>10, <1>11 DEF IInv

-----------------------------------------------------------------------------
(* The theorems. *)

\* Every step of the program preserves the inductive invariant.
LEMMA NextIInv == IInv /\ [Next]_vars => IInv'
  <1> SUFFICES ASSUME IInv, [Next]_vars PROVE IInv'
    OBVIOUS
  <1>1. CASE AdmitEnqueue
    BY <1>1, AdmitEnqueueIInv
  <1>2. CASE AdmitSkip
    BY <1>2, AdmitSkipIInv
  <1>3. CASE AdmitEnd
    BY <1>3, AdmitEndIInv
  <1>4. CASE Dispatch
    BY <1>4, DispatchIInv
  <1>5. CASE NoDispatch
    BY <1>5, NoDispatchIInv
  <1>6. CASE RunFinish
    BY <1>6, RunFinishIInv
  <1>7. CASE RunBlock
    BY <1>7, RunBlockIInv
  <1>8. CASE RunPreempt
    BY <1>8, RunPreemptIInv
  <1>9. CASE RunContinue
    BY <1>9, RunContinueIInv
  <1>10. CASE RunIdle
    BY <1>10, RunIdleIInv
  <1>11. CASE Account
    BY <1>11, AccountIInv
  <1>12. CASE UNCHANGED vars
    <2>1. UNCHANGED <<job, quantum, pc, i, total_counter, cpu, state, subprocesses,
                      actual_subprocess, quantum_counter, ran, stats>>
      BY <1>12 DEF vars, input, control, work
    <2>2. TypeOK /\ TypeOK'
      BY <2>1 DEF IInv, TypeOK, cpu, stats
    <2>3. QED
      BY <2>1, <2>2
         DEF IInv, QueueOrdered, CpuExclusive, BurstInBounds, AdmitLoop, ArrivedInTime, Before, cpu
  <1>13. QED
    BY <1>1, <1>2, <1>3, <1>4, <1>5, <1>6, <1>7, <1>8, <1>9, <1>10, <1>11, <1>12 DEF Next

\* The inductive invariant holds in every reachable state.
THEOREM Inductive == Spec => []IInv
  BY InitIInv, NextIInv, PTL DEF Spec

\* The variables keep their types, response_time included: no process is
\* dispatched before it arrives.
THEOREM TypeCorrect == Spec => []TypeOK
  <1>1. IInv => TypeOK
    BY DEF IInv
  <1>2. QED
    BY <1>1, Inductive, PTL

\* The ready queue is ordered, without repetitions, and complete at dispatch.
THEOREM QueueCorrect == Spec => []QueueOrdered
  <1>1. IInv => QueueOrdered
    BY DEF IInv
  <1>2. QED
    BY <1>1, Inductive, PTL

\* One process at a time holds the CPU.
THEOREM CpuIsExclusive == Spec => []CpuExclusive
  <1>1. IInv => CpuExclusive
    BY DEF IInv
  <1>2. QED
    BY <1>1, Inductive, PTL

\* main.c never indexes subprocesses out of its bounds.
THEOREM NoOverrun == Spec => []BurstInBounds
  <1>1. IInv => BurstInBounds
    BY DEF IInv
  <1>2. QED
    BY <1>1, Inductive, PTL

\* The CPU is never idle while a process is READY.
THEOREM CpuIsNeverIdle == Spec => []WorkConserving
  <1>1. Init => WorkConserving
    BY DEF Init, WorkConserving
  <1>2. IInv /\ WorkConserving /\ [Next]_vars => WorkConserving'
    <2> SUFFICES ASSUME IInv, WorkConserving, [Next]_vars, pc' = "run", ~ running',
                        NEW p \in Procs
                 PROVE  state'[p] # "READY"
      BY DEF WorkConserving
    <2>1. CASE NoDispatch
      <3>1. pc = "dispatch" /\ ~ running /\ Len(queue) = 0 /\ state' = state
        BY <2>1 DEF NoDispatch, cpu
      <3>2. ~ in_queue[p]
        BY <3>1 DEF IInv, QueueOrdered
      <3>3. QED
        BY <3>1, <3>2 DEF IInv, QueueOrdered
    <2>2. CASE UNCHANGED vars
      BY <2>2 DEF vars, control, cpu, WorkConserving
    <2>3. CASE AdmitEnqueue \/ AdmitSkip
      BY <2>3 DEF AdmitEnqueue, AdmitSkip, AdmitStep
    <2>4. CASE AdmitEnd \/ Dispatch
      BY <2>4 DEF AdmitEnd, Dispatch
    <2>5. CASE RunFinish \/ RunBlock \/ RunPreempt \/ RunContinue \/ RunIdle
      BY <2>5 DEF RunFinish, RunBlock, RunPreempt, RunContinue, RunIdle, RunUnit
    <2>6. CASE Account
      BY <2>6 DEF Account, NextTick
    <2>7. QED
      BY <2>1, <2>2, <2>3, <2>4, <2>5, <2>6 DEF Next
  <1>3. QED
    BY <1>1, <1>2, Inductive, PTL DEF Spec

\* What the Run actions do to the statistics: a unit on the CPU is paid for
\* with one tick, taken back from waiting_time by a release.
LEMMA RunAddsUp ==
    ASSUME IInv, StatisticsAddUp, RunFinish \/ RunBlock \/ RunPreempt \/ RunContinue,
           NEW p \in Procs
    PROVE  AddsUp(p)'
  <1>1. TypeOK /\ CpuExclusive /\ RunUnit
    BY DEF IInv, RunFinish, RunBlock, RunPreempt, RunContinue
  <1>2. /\ head \in Procs /\ state[head] = "RUNNING" /\ pc = "run" /\ pc' = "account"
        /\ ran' = [ran EXCEPT ![head] = @ + 1] /\ UNCHANGED <<job, total_counter>>
    BY <1>1, RunUnitFacts
  <1>3. /\ waiting_time \in [Procs -> Int] /\ ran \in [Procs -> Nat] /\ state \in [Procs -> States]
        /\ turnaround_time \in [Procs -> Int]
        /\ total_counter \in Nat /\ job[p].start_time \in Int
    BY <1>1, InputTypes DEF TypeOK
  <1>4. CASE p # head
    <2>1. /\ state'[p] = state[p] /\ waiting_time'[p] = waiting_time[p]
          /\ turnaround_time'[p] = turnaround_time[p]
      BY <1>2, <1>3, <1>4 DEF RunFinish, RunBlock, RunPreempt, RunContinue
    <2>2. ran'[p] = ran[p] /\ state[p] # "RUNNING"
      BY <1>1, <1>2, <1>3, <1>4 DEF CpuExclusive
    <2>3. AddsUp(p)
      BY DEF StatisticsAddUp
    <2>4. QED
      BY <2>1, <2>2, <2>3, <1>2, <1>3 DEF AddsUp, Elapsed
  <1>5. CASE p = head
    <2>1. waiting_time[p] + ran[p] = total_counter - job[p].start_time
      BY <1>2, <1>3, <1>5 DEF StatisticsAddUp, AddsUp, Elapsed
    <2>2. ran'[p] = ran[p] + 1
      BY <1>2, <1>3, <1>5
    <2>3. CASE RunFinish
      <3>1. /\ state'[p] = "FINISHED" /\ waiting_time' = waiting_time
            /\ turnaround_time'[p] = total_counter - job[p].start_time + 1
        BY <2>3, <1>3, <1>5 DEF RunFinish
      <3>2. QED
        BY <3>1, <2>1, <2>2, <1>3 DEF AddsUp
    <2>4. CASE RunBlock \/ RunPreempt
      <3>1. state'[p] \in {"WAITING", "READY"} /\ waiting_time'[p] = waiting_time[p] - 1
        BY <2>4, <1>3, <1>5 DEF RunBlock, RunPreempt
      <3>2. QED
        BY <3>1, <2>1, <2>2, <1>2, <1>3 DEF AddsUp, Elapsed
    <2>5. CASE RunContinue
      <3>1. state'[p] = "RUNNING" /\ waiting_time'[p] = waiting_time[p]
        BY <2>5, <1>2, <1>5 DEF RunContinue
      <3>2. QED
        BY <3>1, <2>1, <2>2, <1>2, <1>3 DEF AddsUp, Elapsed
    <2>6. QED
      BY <2>3, <2>4, <2>5
  <1>6. QED
    BY <1>4, <1>5

\* The account loop adds one tick to the clock and to what waits.
LEMMA AccountAddsUp ==
    ASSUME IInv, StatisticsAddUp, Account, NEW p \in Procs
    PROVE  AddsUp(p)'
  <1>1. TypeOK /\ AddsUp(p)
    BY DEF IInv, StatisticsAddUp
  <1>2. /\ pc = "account" /\ pc' # "account" /\ total_counter' = total_counter + 1
        /\ state'[p] = IF WaitOver(p) THEN "READY" ELSE state[p]
        /\ waiting_time'[p] = waiting_time[p] + IF CountsAsWaiting(p) THEN 1 ELSE 0
        /\ UNCHANGED <<job, ran, turnaround_time>>
    BY DEF Account, NextTick, input
  <1>3. /\ waiting_time[p] \in Int /\ ran[p] \in Nat /\ turnaround_time[p] \in Int
        /\ total_counter \in Nat /\ job[p].start_time \in Int
        /\ state[p] \in {"RUNNING", "READY", "WAITING", "FINISHED", "IDLE"}
    BY <1>1, InputTypes DEF TypeOK, States
  <1>4. CASE state[p] \in {"READY", "WAITING"}
    <2>1. state'[p] \in {"READY", "WAITING"} /\ waiting_time'[p] = waiting_time[p] + 1
      BY <1>2, <1>4 DEF CountsAsWaiting
    <2>2. waiting_time[p] + ran[p] = total_counter - job[p].start_time
      BY <1>1, <1>3, <1>4 DEF AddsUp, Elapsed
    <2>3. QED
      BY <2>1, <2>2, <1>2, <1>3 DEF AddsUp, Elapsed
  <1>5. CASE state[p] \notin {"READY", "WAITING"}
    <2>1. state'[p] = state[p] /\ waiting_time'[p] = waiting_time[p]
      BY <1>2, <1>3, <1>5 DEF CountsAsWaiting, WaitOver
    <2>2. QED
      BY <2>1, <1>1, <1>2, <1>3, <1>5 DEF AddsUp, Elapsed
  <1>6. QED
    BY <1>4, <1>5

\* Waiting and running account for all the time of a process, and the
\* turnaround of a finished one is their sum.
THEOREM StatisticsCorrect == Spec => []StatisticsAddUp
  <1>1. Init => StatisticsAddUp
    BY DEF Init, StatisticsAddUp, AddsUp
  <1>2. IInv /\ StatisticsAddUp /\ [Next]_vars => StatisticsAddUp'
    <2> SUFFICES ASSUME IInv, StatisticsAddUp, [Next]_vars, NEW p \in Procs
                 PROVE  AddsUp(p)'
      BY DEF StatisticsAddUp
    <2>1. TypeOK /\ CpuExclusive /\ AddsUp(p)
      BY DEF IInv, StatisticsAddUp
    <2>2. /\ state \in [Procs -> States] /\ total_counter \in Nat
          /\ job[p].start_time \in Int
      BY <2>1, InputTypes DEF TypeOK
    <2>3. CASE AdmitEnqueue
      <3>1. /\ pc = "admit" /\ pc' = "admit" /\ state' = [state EXCEPT ![i] = "READY"]
            /\ UNCHANGED <<job, total_counter, waiting_time, ran, turnaround_time>>
        BY <2>3 DEF AdmitEnqueue, AdmitStep, input, work, stats
      <3>2. state[i] = "READY" \/ (state[i] = "IDLE" /\ job[i].start_time = total_counter)
        BY <2>3 DEF AdmitEnqueue, Enqueueable, Arrives
      <3>3. CASE p # i
        <4>1. state'[p] = state[p]
          BY <3>1, <3>3, <2>2
        <4>2. QED
          BY <4>1, <3>1, <2>1 DEF AddsUp, Elapsed
      <3>4. CASE p = i
        <4>1. state'[p] = "READY"
          BY <3>1, <3>4, <2>2
        <4>2. waiting_time[p] + ran[p] = total_counter - job[p].start_time
          BY <3>1, <3>2, <3>4, <2>1, <2>2 DEF AddsUp, Elapsed
        <4>3. QED
          BY <4>1, <4>2, <3>1, <2>2 DEF AddsUp, Elapsed
      <3>5. QED
        BY <3>3, <3>4
    <2>4. CASE AdmitSkip \/ AdmitEnd \/ NoDispatch
      <3>1. /\ pc # "account" /\ pc' # "account" /\ UNCHANGED <<state, job, total_counter>>
            /\ UNCHANGED <<waiting_time, ran, turnaround_time>>
        BY <2>4 DEF AdmitSkip, AdmitStep, AdmitEnd, NoDispatch, input, work, stats, cpu
      <3>2. QED
        BY <3>1, <2>1 DEF AddsUp, Elapsed
    <2>5. CASE Dispatch
      <3> DEFINE h == Head(queue)
      <3>1. /\ pc # "account" /\ pc' # "account" /\ state' = [state EXCEPT ![h] = "RUNNING"]
            /\ UNCHANGED <<job, total_counter, waiting_time, ran, turnaround_time>>
        BY <2>5 DEF Dispatch, input, work
      <3>2. state[h] = "READY"
        <4>1. queue \in Seq(Procs) /\ Len(queue) > 0
          BY <2>1, <2>5 DEF TypeOK, Dispatch
        <4>2. h = queue[1] /\ 1 \in 1..Len(queue) /\ queue[1] \in Procs
          BY <4>1
        <4>3. QED
          BY <4>2 DEF IInv, QueueOrdered
      <3> HIDE DEF h
      <3>3. state[p] = state'[p] \/ (state[p] = "READY" /\ state'[p] = "RUNNING")
        BY <3>1, <3>2, <2>2
      <3>4. QED
        BY <3>1, <3>3, <2>1, <2>2 DEF AddsUp, Elapsed
    <2>6. CASE RunFinish \/ RunBlock \/ RunPreempt \/ RunContinue
      BY <2>6, RunAddsUp
    <2>7. CASE RunIdle
      <3>1. /\ pc = "run" /\ ~ running /\ UNCHANGED <<state, job, total_counter>>
            /\ UNCHANGED <<waiting_time, ran, turnaround_time>>
        BY <2>7 DEF RunIdle, input, work, stats
      <3>2. state[p] # "RUNNING"
        BY <3>1, <2>1 DEF CpuExclusive
      <3>3. QED
        BY <3>1, <3>2, <2>1 DEF AddsUp, Elapsed
    <2>8. CASE Account
      BY <2>8, AccountAddsUp
    <2>9. CASE UNCHANGED vars
      BY <2>1, <2>9 DEF vars, input, control, work, stats, AddsUp, Elapsed
    <2>10. QED
      BY <2>3, <2>4, <2>5, <2>6, <2>7, <2>8, <2>9 DEF Next
  <1>3. QED
    BY <1>1, <1>2, Inductive, PTL DEF Spec

-----------------------------------------------------------------------------
(* The scheduler implements the abstract CPU. *)

\* The process that Dispatch takes from the queue outranks every READY one.
LEMMA DispatchGrants ==
    ASSUME IInv, Dispatch
    PROVE  Head(queue) \in Procs /\ Cpu!Grant(Head(queue))
  <1> DEFINE h == Head(queue)
  <1>1. TypeOK /\ QueueOrdered /\ CpuExclusive
    BY DEF IInv
  <1>2. queue \in Seq(Procs) /\ Len(queue) > 0 /\ ~ running /\ pc = "dispatch"
    BY <1>1 DEF TypeOK, Dispatch
  <1>3. h \in Procs /\ h = queue[1] /\ 1 \in 1..Len(queue) /\ Len(queue) \in Nat
    BY <1>2
  <1>4. /\ UNCHANGED <<job, actual_subprocess>>
        /\ state' = [state EXCEPT ![h] = "RUNNING"]
    BY DEF Dispatch, input, work
  <1>5. state[h] = "READY"
    BY <1>1, <1>3 DEF QueueOrdered
  <1> HIDE DEF h
  <1>6. \A q \in Procs : state[q] # "RUNNING"
    BY <1>1, <1>2 DEF CpuExclusive
  <1>7. ASSUME NEW q \in Procs \ {h}, state[q] = "READY"
        PROVE  Before(h, q)
    <2>1. in_queue[q]
      BY <1>1, <1>2, <1>7 DEF QueueOrdered
    <2>2. PICK l \in 1..Len(queue) : queue[l] = q
      BY <2>1, <1>1, <1>7 DEF QueueOrdered
    <2>3. 1 < l
      BY <2>2, <1>3, <1>7
    <2>4. QED
      BY <2>2, <2>3, <1>1, <1>3 DEF QueueOrdered
  <1>8. \A q \in Procs \ {h} : state[q] = "READY" => Cpu!Outranks(h, q)
    BY <1>3, <1>7 DEF Before, Cpu!Outranks
  <1>9. Cpu!Grant(h)
    BY <1>4, <1>5, <1>6, <1>8 DEF Cpu!Grant, Cpu!Move
  <1>10. QED
    BY <1>3, <1>9 DEF h

\* A unit of work releases the CPU in one of the ways PriorityCpu allows.
LEMMA RunReleases ==
    ASSUME IInv, RunFinish \/ RunBlock \/ RunPreempt
    PROVE  \E p \in Procs : Cpu!Preempt(p) \/ Cpu!Block(p) \/ Cpu!Finish(p)
  <1>1. TypeOK /\ BurstInBounds /\ RunUnit
    BY DEF IInv, RunFinish, RunBlock, RunPreempt
  <1>2. head \in Procs /\ state[head] = "RUNNING" /\ job' = job
    BY <1>1, RunUnitFacts
  <1>3. /\ actual_subprocess[head] \in Nat /\ Len(subprocesses[head]) = Len(job[head].bursts)
        /\ Len(job[head].bursts) \in Nat /\ actual_subprocess[head] < Len(job[head].bursts)
    BY <1>1, <1>2, InputTypes DEF TypeOK, BurstInBounds
  <1>4. CASE RunFinish
    <2>1. actual_subprocess[head] + 1 = Len(job[head].bursts)
      BY <1>3, <1>4 DEF RunFinish, has_finished
    <2>2. state' = [state EXCEPT ![head] = "FINISHED"] /\ UNCHANGED actual_subprocess
      BY <1>4 DEF RunFinish
    <2>3. Cpu!Finish(head)
      BY <1>2, <2>1, <2>2 DEF Cpu!Finish, Cpu!Move
    <2>4. QED
      BY <1>2, <2>3
  <1>5. CASE RunBlock
    <2>1. actual_subprocess[head] + 1 < Len(job[head].bursts)
      BY <1>3, <1>5 DEF RunBlock, has_finished
    <2>2. /\ state' = [state EXCEPT ![head] = "WAITING"]
          /\ actual_subprocess' = [actual_subprocess EXCEPT ![head] = @ + 1]
      BY <1>5 DEF RunBlock
    <2>3. Cpu!Block(head)
      BY <1>2, <2>1, <2>2 DEF Cpu!Block, Cpu!Move
    <2>4. QED
      BY <1>2, <2>3
  <1>6. CASE RunPreempt
    <2>1. state' = [state EXCEPT ![head] = "READY"] /\ UNCHANGED actual_subprocess
      BY <1>6 DEF RunPreempt
    <2>2. Cpu!Preempt(head)
      BY <1>2, <2>1 DEF Cpu!Preempt, Cpu!Move
    <2>3. QED
      BY <1>2, <2>2
  <1>7. QED
    BY <1>4, <1>5, <1>6

\* Every step of the program is a step of PriorityCpu or a stutter.
LEMMA StepImplements == IInv /\ [Next]_vars => [Cpu!Next]_(Cpu!vars)
  <1> SUFFICES ASSUME IInv, [Next]_vars PROVE Cpu!Next \/ UNCHANGED Cpu!vars
    OBVIOUS
  <1>1. TypeOK
    BY DEF IInv
  <1>2. CASE AdmitEnqueue
    <2>1. /\ i \in Procs /\ UNCHANGED <<job, actual_subprocess>>
          /\ state' = [state EXCEPT ![i] = "READY"] /\ state[i] \in {"READY", "IDLE"}
      BY <1>1, <1>2, NAssumption DEF AdmitEnqueue, AdmitStep, Enqueueable, Arrives, input, work, TypeOK, Procs
    <2>2. CASE state[i] = "READY"
      <3>1. state' = state
        BY <2>1, <2>2, <1>1 DEF TypeOK
      <3>2. QED
        BY <3>1, <2>1 DEF Cpu!vars
    <2>3. CASE state[i] = "IDLE"
      <3>1. Cpu!Arrive(i)
        BY <2>1, <2>3 DEF Cpu!Arrive, Cpu!Move
      <3>2. QED
        BY <3>1, <2>1 DEF Cpu!Next
    <2>4. QED
      BY <2>1, <2>2, <2>3
  <1>3. CASE Dispatch
    BY <1>3, DispatchGrants DEF Cpu!Next
  <1>4. CASE RunFinish \/ RunBlock \/ RunPreempt
    BY <1>4, RunReleases DEF Cpu!Next
  <1>5. CASE Account
    <2> DEFINE S == {p \in Procs : WaitOver(p)}
    <2>1. \A p \in S : state[p] = "WAITING"
      BY DEF WaitOver
    <2>2. /\ job' = job
          /\ state' = [p \in Procs |-> IF p \in S THEN "READY" ELSE state[p]]
          /\ actual_subprocess' = [p \in Procs |-> actual_subprocess[p] + IF p \in S THEN 1 ELSE 0]
      BY <1>5 DEF Account, NextTick, input
    <2> HIDE DEF S
    <2>3. Cpu!Wake(S)
      BY <2>1, <2>2 DEF Cpu!Wake
    <2>4. S \in SUBSET Procs
      BY DEF S
    <2>5. QED
      BY <2>3, <2>4 DEF Cpu!Next
  <1>6. CASE AdmitSkip \/ AdmitEnd \/ NoDispatch \/ RunContinue \/ RunIdle \/ UNCHANGED vars
    <2>1. UNCHANGED <<job, state, actual_subprocess>>
      BY <1>6 DEF AdmitSkip, AdmitStep, AdmitEnd, NoDispatch, RunContinue, RunUnit, RunIdle, vars,
                  input, work
    <2>2. QED
      BY <2>1 DEF Cpu!vars
  <1>7. QED
    BY <1>2, <1>3, <1>4, <1>5, <1>6 DEF Next

\* Whatever the queue, the clock and the quantum do, the CPU is granted as
\* PriorityCpu says: free, and to the best READY process.
THEOREM Implementation == Spec => ImplementsPriorityCpu
  <1>1. Init => Cpu!Init
    <2> SUFFICES ASSUME Init PROVE Cpu!Init
      OBVIOUS
    <2>1. job \in [Procs -> Jobs]
      BY DEF Init
    <2>2. ASSUME NEW p \in Procs
          PROVE  job[p].priority \in Int /\ Len(job[p].bursts) \in Int
      <3>1. job[p] \in Jobs
        BY <2>1
      <3>2. job[p].priority \in Int /\ Len(job[p].bursts) \in Nat
        BY ONLY <3>1, JobTypes
      <3>3. QED
        BY <3>2
    <2>3. QED
      BY <2>2 DEF Init, Cpu!Init
  <1>2. QED
    BY <1>1, StepImplements, Inductive, PTL DEF Spec, ImplementsPriorityCpu, Cpu!Spec

-----------------------------------------------------------------------------
(* What DispatchesAccounted and ResponseWithinWaiting lack to be inductive. *)

\* A process on the CPU has some of its quantum left.
QuantumInBounds == quantum > 0 => \A p \in Procs : quantum_counter[p] < quantum

\* The tick that a release has taken from waiting_time and Account gives back.
Owed(p) == IF pc = "account" /\ state[p] \in {"READY", "WAITING"} THEN 1 ELSE 0

\* ResponseWithinWaiting in every phase of the tick; a process that was never
\* dispatched has not run, so that all its time is in waiting_time.
Paid(p) ==
    IF cpu_use[p] = 0 THEN ran[p] = 0 /\ response_time[p] = -1
    ELSE 0 <= response_time[p] /\ response_time[p] <= waiting_time[p] + Owed(p)
ResponsePaid == \A p \in Procs : Paid(p)

\* DispatchesAccounted, for one process.
Now(p) == IF state[p] = "RUNNING" THEN 1 ELSE 0
Dispatches(p) ==
    /\ times_interrupted[p] + Now(p) <= cpu_use[p]
    /\ Completed(p) + Now(p) <= cpu_use[p]
    /\ cpu_use[p] <= times_interrupted[p] + Completed(p) + Now(p)
    /\ quantum > 0 => ran[p] <= quantum * (cpu_use[p] - Now(p)) + quantum_counter[p]
    /\ quantum = 0 => times_interrupted[p] = 0

\* DispatchesAccounted says Dispatches of every process.
LEMMA DispatchesEach == DispatchesAccounted <=> \A p \in Procs : Dispatches(p)
  BY DEF DispatchesAccounted, Dispatches, Now

\* Half of the bursts are CPU bursts: the index of the next CPU burst counts
\* one more than the index of this one, and the index of a wait no more.
LEMMA HalfOfBursts ==
    ASSUME NEW n \in Nat
    PROVE  /\ (n + 1) \div 2 \in Nat
           /\ n % 2 = 0 => (n + 2) \div 2 = (n + 1) \div 2 + 1
           /\ n % 2 = 1 => (n + 2) \div 2 = (n + 1) \div 2
  OBVIOUS

\* One more dispatch pays for one more quantum.
LEMMA OneMoreQuantum ==
    ASSUME NEW q \in Int, NEW k \in Int
    PROVE  q * (k - 1) + q = q * k
  OBVIOUS

\* The values of the statistics of one process.
LEMMA StatisticTypes ==
    ASSUME IInv, NEW p \in Procs
    PROVE  /\ quantum \in Int /\ total_counter \in Nat /\ job[p].start_time \in Int
           /\ state[p] \in States /\ actual_subprocess[p] \in Nat
           /\ actual_subprocess[p] % 2 = IF state[p] = "WAITING" THEN 1 ELSE 0
           /\ quantum_counter[p] \in Nat /\ ran[p] \in Nat /\ cpu_use[p] \in Nat
           /\ times_interrupted[p] \in Nat /\ waiting_time[p] \in Int
           /\ response_time[p] \in Nat \cup {-1}
           /\ Completed(p) \in Nat /\ Now(p) \in {0, 1}
  <1>1. TypeOK /\ BurstInBounds
    BY DEF IInv
  <1>2. quantum \in Int /\ job[p].start_time \in Int
    BY <1>1, QuantaAssumption, InputTypes DEF TypeOK
  <1>3. actual_subprocess[p] \in Nat
    BY <1>1 DEF TypeOK
  <1>4. (actual_subprocess[p] + 1) \div 2 \in Nat
    BY <1>3, HalfOfBursts
  <1>5. Completed(p) \in Nat /\ Now(p) \in {0, 1}
    BY <1>4 DEF Completed, Now
  <1>6. actual_subprocess[p] % 2 = IF state[p] = "WAITING" THEN 1 ELSE 0
    BY <1>1 DEF BurstInBounds
  <1>7. QED
    BY <1>1, <1>2, <1>3, <1>5, <1>6 DEF TypeOK

\* A step that changes nothing of what a statistic depends on keeps it.
LEMMA DispatchesUnchanged ==
    ASSUME NEW p \in Procs, Dispatches(p), quantum' = quantum,
           (state[p] = "RUNNING") = (state'[p] = "RUNNING"),
           (state[p] = "FINISHED") = (state'[p] = "FINISHED"),
           actual_subprocess'[p] = actual_subprocess[p], cpu_use'[p] = cpu_use[p],
           times_interrupted'[p] = times_interrupted[p], ran'[p] = ran[p],
           quantum_counter'[p] = quantum_counter[p]
    PROVE  Dispatches(p)'
  <1>1. Now(p)' = Now(p) /\ Completed(p)' = Completed(p)
    BY DEF Now, Completed
  <1>2. QED
    BY <1>1 DEF Dispatches

-----------------------------------------------------------------------------
(* A unit of work. *)

\* What a unit does to the values of one process, whatever its outcome.
LEMMA UnitOf ==
    ASSUME IInv, RunUnit, NEW p \in Procs
    PROVE  /\ pc = "run" /\ pc' = "account" /\ quantum' = quantum
           /\ cpu_use'[p] = cpu_use[p] /\ response_time'[p] = response_time[p]
           /\ p # head => /\ ran'[p] = ran[p] /\ times_interrupted'[p] = times_interrupted[p]
                          /\ quantum_counter'[p] = quantum_counter[p]
           /\ p = head => /\ state[p] = "RUNNING" /\ ran'[p] = ran[p] + 1
                          /\ times_interrupted'[p] = times_interrupted[p] + IF QuantumExpires THEN 1 ELSE 0
                          /\ quantum_counter'[p] = IF quantum = 0 THEN quantum_counter[p]
                                                   ELSE IF Releases THEN 0 ELSE quantum_counter[p] + 1
  <1>1. /\ quantum_counter \in [Procs -> Nat] /\ ran \in [Procs -> Nat]
        /\ times_interrupted \in [Procs -> Nat]
    BY DEF IInv, TypeOK
  <1>2. head \in Procs /\ state[head] = "RUNNING"
    BY DEF IInv, CpuExclusive, RunUnit
  <1>3. pc = "run" /\ pc' = "account" /\ UNCHANGED <<quantum, cpu_use, response_time>>
    BY DEF RunUnit, input
  <1>4. times_interrupted' = [times_interrupted EXCEPT ![head] =
            IF QuantumExpires THEN times_interrupted[head] + 1 ELSE times_interrupted[head]]
    BY DEF RunUnit
  <1>5. quantum_counter' = [quantum_counter EXCEPT ![head] =
            IF quantum = 0 THEN quantum_counter[head]
            ELSE IF Releases THEN 0 ELSE quantum_counter[head] + 1]
    BY DEF RunUnit
  <1>6. ran' = [ran EXCEPT ![head] = ran[head] + 1]
    BY DEF RunUnit
  <1>7. QED
    BY <1>1, <1>2, <1>3, <1>4, <1>5, <1>6

\* The unit fits in the quantum.
LEMMA UnitInQuantum ==
    ASSUME IInv, QuantumInBounds, RunUnit, NEW p \in Procs, quantum > 0
    PROVE  /\ quantum_counter'[p] < quantum
           /\ p = head => quantum_counter[p] + 1 <= quantum
  <1>1. quantum \in Int /\ quantum_counter[p] \in Nat /\ quantum_counter[p] < quantum
    BY StatisticTypes DEF QuantumInBounds
  <1>2. CASE p # head
    BY <1>1, <1>2, UnitOf
  <1>3. CASE p = head
    <2>1. ~ Releases => quantum_counter[p] + 1 # quantum
      BY <1>3 DEF Releases, QuantumExpires
    <2>2. quantum_counter'[p] = IF Releases THEN 0 ELSE quantum_counter[p] + 1
      BY <1>3, UnitOf
    <2>3. QED
      BY <2>1, <2>2, <1>1
  <1>4. QED
    BY <1>2, <1>3

\* A process that leaves the CPU, having ended its burst or its quantum, has
\* used up one dispatch; one that stays has not.
LEMMA RunDispatches ==
    ASSUME IInv, QuantumInBounds, NEW p \in Procs, Dispatches(p),
           RunFinish \/ RunBlock \/ RunPreempt \/ RunContinue
    PROVE  Dispatches(p)'
  <1>1. RunUnit /\ state \in [Procs -> States] /\ actual_subprocess \in [Procs -> Nat] /\ head \in Procs
    BY DEF RunFinish, RunBlock, RunPreempt, RunContinue, RunUnit, IInv, TypeOK, CpuExclusive
  <1>2. CASE p # head
    <2>1. state'[p] = state[p] /\ actual_subprocess'[p] = actual_subprocess[p]
      BY <1>1, <1>2 DEF RunFinish, RunBlock, RunPreempt, RunContinue
    <2>2. QED
      BY <2>1, <1>1, <1>2, UnitOf, DispatchesUnchanged
  <1>3. CASE p = head
    <2> DEFINE done == IF BurstEnds THEN 1 ELSE 0
               expired == IF QuantumExpires THEN 1 ELSE 0
    <2>1. /\ quantum \in Int /\ actual_subprocess[p] \in Nat /\ actual_subprocess[p] % 2 = 0
          /\ quantum_counter[p] \in Nat /\ ran[p] \in Nat /\ cpu_use[p] \in Nat
          /\ times_interrupted[p] \in Nat /\ Completed(p) \in Nat /\ Now(p) = 1
      BY <1>1, <1>3, UnitOf, StatisticTypes DEF Now
    <2>2. /\ ran'[p] = ran[p] + 1 /\ cpu_use'[p] = cpu_use[p] /\ quantum' = quantum
          /\ times_interrupted'[p] = times_interrupted[p] + expired
          /\ state[p] = "RUNNING"
      BY <1>1, <1>3, UnitOf
    <2>3. Completed(p)' = Completed(p) + done /\ Now(p)' = IF Releases THEN 0 ELSE 1
      <3>0. (actual_subprocess[p] + 1) \div 2 \in Nat
        BY <2>1, HalfOfBursts
      <3>1. Completed(p) = (actual_subprocess[p] + 1) \div 2
        BY <3>0, <2>2 DEF Completed
      <3>2. CASE RunFinish
        <4>1. state'[p] = "FINISHED" /\ actual_subprocess'[p] = actual_subprocess[p] /\ BurstEnds
          BY <3>2, <1>1, <1>3 DEF RunFinish
        <4>2. QED
          BY <4>1, <3>0, <3>1 DEF Completed, Now, Releases
      <3>3. CASE RunBlock
        <4>1. state'[p] = "WAITING" /\ actual_subprocess'[p] = actual_subprocess[p] + 1 /\ BurstEnds
          BY <3>3, <1>1, <1>3 DEF RunBlock
        <4>2. (actual_subprocess[p] + 2) \div 2 = (actual_subprocess[p] + 1) \div 2 + 1
          BY <2>1, HalfOfBursts
        <4>3. Completed(p)' = (actual_subprocess[p] + 2) \div 2
          BY <4>1, <2>1 DEF Completed
        <4>4. QED
          BY <4>1, <4>2, <4>3, <3>0, <3>1 DEF Now, Releases
      <3>4. CASE RunPreempt
        <4>1. /\ state'[p] = "READY" /\ actual_subprocess'[p] = actual_subprocess[p]
              /\ ~ BurstEnds /\ QuantumExpires
          BY <3>4, <1>1, <1>3 DEF RunPreempt
        <4>2. QED
          BY <4>1, <3>0, <3>1 DEF Completed, Now, Releases
      <3>5. CASE RunContinue
        <4>1. state'[p] = "RUNNING" /\ actual_subprocess'[p] = actual_subprocess[p] /\ ~ Releases
          BY <3>5, <2>2 DEF RunContinue
        <4>2. QED
          BY <4>1, <3>0, <3>1 DEF Completed, Now, Releases
      <3>6. QED
        BY <3>2, <3>3, <3>4, <3>5
    <2>4. quantum > 0 => ran[p] + 1 <= quantum * (cpu_use[p] - Now(p)') + quantum_counter'[p]
      <3> SUFFICES ASSUME quantum > 0
                   PROVE  ran[p] + 1 <= quantum * (cpu_use[p] - Now(p)') + quantum_counter'[p]
        OBVIOUS
      <3>1. ran[p] <= quantum * (cpu_use[p] - 1) + quantum_counter[p]
        BY <2>1 DEF Dispatches
      <3> DEFINE paid == quantum * (cpu_use[p] - 1)
      <3>2. paid \in Int /\ quantum * cpu_use[p] = paid + quantum
        BY <2>1, OneMoreQuantum
      <3> HIDE DEF paid
      <3>3. ran[p] <= paid + quantum_counter[p]
        BY <3>1 DEF paid
      <3>4. CASE Releases
        <4>1. Now(p)' = 0 /\ quantum_counter'[p] = 0
          BY <3>4, <2>3, <1>1, <1>3, UnitOf
        <4>2. quantum_counter[p] + 1 <= quantum
          BY <1>1, <1>3, UnitInQuantum
        <4>3. ran[p] + 1 <= paid + quantum
          BY <3>2, <3>3, <4>2, <2>1
        <4>4. quantum * (cpu_use[p] - 0) + 0 = paid + quantum
          BY <3>2, <2>1
        <4>5. QED
          BY <4>1, <4>3, <4>4
      <3>5. CASE ~ Releases
        <4>1. Now(p)' = 1 /\ quantum_counter'[p] = quantum_counter[p] + 1
          BY <3>5, <2>3, <1>1, <1>3, UnitOf
        <4>2. ran[p] + 1 <= paid + (quantum_counter[p] + 1)
          BY <3>2, <3>3, <2>1
        <4>3. QED
          BY <4>1, <4>2 DEF paid
      <3>6. QED
        BY <3>4, <3>5
    <2>5. quantum = 0 => ~ QuantumExpires
      BY DEF QuantumExpires
    <2>6. done \in {0, 1} /\ expired \in {0, 1} /\ (Releases <=> done = 1 \/ expired = 1)
      BY DEF Releases
    <2>7. quantum = 0 => expired = 0
      BY <2>5
    <2> HIDE DEF done, expired
    <2>8. /\ times_interrupted[p] + expired + Now(p)' <= cpu_use[p]
          /\ Completed(p) + done + Now(p)' <= cpu_use[p]
          /\ cpu_use[p] <= times_interrupted[p] + expired + (Completed(p) + done) + Now(p)'
      <3>1. /\ times_interrupted[p] + 1 <= cpu_use[p] /\ Completed(p) + 1 <= cpu_use[p]
            /\ cpu_use[p] <= times_interrupted[p] + Completed(p) + 1
        BY <2>1 DEF Dispatches
      <3>2. CASE Releases
        BY <3>1, <3>2, <2>1, <2>3, <2>6
      <3>3. CASE ~ Releases
        BY <3>1, <3>3, <2>1, <2>3, <2>6
      <3>4. QED
        BY <3>2, <3>3
    <2>9. quantum = 0 => times_interrupted'[p] = 0
      BY <2>1, <2>2, <2>7 DEF Dispatches
    <2>10. QED
      BY <2>2, <2>3, <2>4, <2>8, <2>9 DEF Dispatches
  <1>4. QED
    BY <1>2, <1>3

-----------------------------------------------------------------------------
(* The other steps. *)

\* A dispatch is counted when it begins.
LEMMA DispatchDispatches ==
    ASSUME IInv, NEW p \in Procs, Dispatches(p), Dispatch
    PROVE  Dispatches(p)'
  <1> DEFINE h == Head(queue)
  <1>1. /\ h \in Procs /\ state[h] = "READY"
    <2>1. queue \in Seq(Procs) /\ Len(queue) > 0
      BY DEF IInv, TypeOK, Dispatch
    <2>2. h = queue[1] /\ 1 \in 1..Len(queue) /\ queue[1] \in Procs
      BY <2>1
    <2>3. QED
      BY <2>2 DEF IInv, QueueOrdered
  <1>2. /\ state' = [state EXCEPT ![h] = "RUNNING"] /\ cpu_use' = [cpu_use EXCEPT ![h] = cpu_use[h] + 1]
        /\ UNCHANGED <<quantum, actual_subprocess, times_interrupted, ran, quantum_counter>>
    BY DEF Dispatch, input, work
  <1>3. state \in [Procs -> States] /\ cpu_use \in [Procs -> Nat]
    BY DEF IInv, TypeOK
  <1> HIDE DEF h
  <1>4. CASE p # h
    <2>1. state'[p] = state[p] /\ cpu_use'[p] = cpu_use[p]
      BY <1>2, <1>3, <1>4
    <2>2. QED
      BY <2>1, <1>2, DispatchesUnchanged
  <1>5. CASE p = h
    <2>1. state[p] = "READY" /\ state'[p] = "RUNNING" /\ cpu_use'[p] = cpu_use[p] + 1
      BY <1>1, <1>2, <1>3, <1>5
    <2>2. Now(p) = 0 /\ Now(p)' = 1
      BY <2>1 DEF Now
    <2>3. Completed(p)' = Completed(p)
      BY <2>1, <1>2 DEF Completed
    <2>4. cpu_use'[p] - Now(p)' = cpu_use[p] - Now(p)
      BY <2>1, <2>2, StatisticTypes
    <2>5. Completed(p) \in Nat /\ cpu_use[p] \in Nat /\ times_interrupted[p] \in Nat
      BY StatisticTypes
    <2>6. quantum' > 0 => ran'[p] <= quantum' * (cpu_use'[p] - Now(p)') + quantum_counter'[p]
      BY <2>4, <1>2 DEF Dispatches
    <2>7. QED
      BY <2>1, <2>2, <2>3, <2>5, <2>6, <1>2 DEF Dispatches
  <1>6. QED
    BY <1>4, <1>5

\* The end of a wait completes nothing: the burst before it was counted when
\* the process was blocked.
LEMMA AccountDispatches ==
    ASSUME IInv, NEW p \in Procs, Dispatches(p), Account
    PROVE  Dispatches(p)'
  <1>1. /\ state'[p] = IF WaitOver(p) THEN "READY" ELSE state[p]
        /\ actual_subprocess'[p] = actual_subprocess[p] + IF WaitOver(p) THEN 1 ELSE 0
        /\ UNCHANGED <<quantum, cpu_use, times_interrupted, ran, quantum_counter>>
    BY DEF Account, input
  <1>2. CASE ~ WaitOver(p)
    <2>1. state'[p] = state[p] /\ actual_subprocess'[p] = actual_subprocess[p]
      BY <1>1, <1>2, StatisticTypes
    <2>2. QED
      BY <2>1, <1>1, DispatchesUnchanged
  <1>3. CASE WaitOver(p)
    <2>1. state[p] = "WAITING" /\ actual_subprocess[p] \in Nat /\ actual_subprocess[p] % 2 = 1
      BY <1>3, StatisticTypes DEF WaitOver
    <2>2. state'[p] = "READY" /\ actual_subprocess'[p] = actual_subprocess[p] + 1
      BY <1>1, <1>3
    <2>3. (actual_subprocess[p] + 2) \div 2 = (actual_subprocess[p] + 1) \div 2
      BY <2>1, HalfOfBursts
    <2>4. Completed(p)' = Completed(p) /\ Now(p)' = Now(p)
      BY <2>1, <2>2, <2>3 DEF Completed, Now
    <2>5. QED
      BY <2>4, <1>1 DEF Dispatches
  <1>4. QED
    BY <1>2, <1>3

\* No process keeps the CPU beyond its quantum.
LEMMA NextQuantumInBounds == IInv /\ QuantumInBounds /\ [Next]_vars => QuantumInBounds'
  <1> SUFFICES ASSUME IInv, QuantumInBounds, [Next]_vars, quantum' > 0, NEW p \in Procs
               PROVE  quantum_counter'[p] < quantum'
    BY DEF QuantumInBounds
  <1>1. CASE RunFinish \/ RunBlock \/ RunPreempt \/ RunContinue
    <2>1. RunUnit /\ quantum' = quantum
      BY <1>1 DEF RunFinish, RunBlock, RunPreempt, RunContinue, RunUnit, input
    <2>2. QED
      BY <2>1, UnitInQuantum
  <1>2. CASE AdmitEnqueue \/ AdmitSkip \/ AdmitEnd \/ Dispatch \/ NoDispatch \/ RunIdle \/ Account
    BY <1>2 DEF AdmitEnqueue, AdmitSkip, AdmitStep, AdmitEnd, Dispatch, NoDispatch, RunIdle, Account,
                input, work, QuantumInBounds
  <1>3. CASE UNCHANGED vars
    BY <1>3 DEF vars, input, work, QuantumInBounds
  <1>4. QED
    BY <1>1, <1>2, <1>3 DEF Next

\* Dispatches, interruptions and completed bursts agree, and no stay on the CPU
\* is longer than the quantum (main.c, the dispatch and the two releases).
THEOREM DispatchesCorrect == Spec => []DispatchesAccounted
  <1>1. Init => QuantumInBounds /\ DispatchesAccounted
    <2> SUFFICES ASSUME Init PROVE QuantumInBounds /\ DispatchesAccounted
      OBVIOUS
    <2>1. QuantumInBounds
      BY QuantaAssumption DEF Init, QuantumInBounds
    <2>2. ASSUME NEW p \in Procs
          PROVE  Dispatches(p)
      <3>1. /\ Now(p) = 0 /\ cpu_use[p] = 0 /\ ran[p] = 0 /\ times_interrupted[p] = 0
            /\ quantum_counter[p] = 0 /\ quantum \in Int
        BY QuantaAssumption DEF Init, Now
      <3>2. Completed(p) = 0
        BY DEF Init, Completed
      <3>3. QED
        BY <3>1, <3>2 DEF Dispatches
    <2>3. QED
      BY <2>1, <2>2, DispatchesEach
  <1>2. IInv /\ QuantumInBounds /\ DispatchesAccounted /\ [Next]_vars => DispatchesAccounted'
    <2> SUFFICES ASSUME IInv, QuantumInBounds, [Next]_vars, NEW p \in Procs, Dispatches(p)
                 PROVE  Dispatches(p)'
      BY DispatchesEach DEF DispatchesAccounted, Dispatches, Now
    <2>1. CASE AdmitEnqueue
      <3>1. /\ state' = [state EXCEPT ![i] = "READY"] /\ state[i] \in {"READY", "IDLE"}
            /\ UNCHANGED <<quantum, actual_subprocess, cpu_use, times_interrupted, ran, quantum_counter>>
        BY <2>1 DEF AdmitEnqueue, AdmitStep, Enqueueable, Arrives, input, work, stats
      <3>2. state \in [Procs -> States]
        BY DEF IInv, TypeOK
      <3>3. state'[p] = state[p] \/ (state'[p] = "READY" /\ state[p] = "IDLE")
        BY <3>1, <3>2
      <3>4. QED
        BY <3>1, <3>3, DispatchesUnchanged
    <2>2. CASE AdmitSkip \/ AdmitEnd \/ NoDispatch \/ RunIdle
      <3>1. UNCHANGED <<quantum, state, actual_subprocess, cpu_use, times_interrupted, ran, quantum_counter>>
        BY <2>2 DEF AdmitSkip, AdmitStep, AdmitEnd, NoDispatch, RunIdle, input, work, stats
      <3>2. QED
        BY <3>1, DispatchesUnchanged
    <2>3. CASE Dispatch
      BY <2>3, DispatchDispatches
    <2>4. CASE RunFinish \/ RunBlock \/ RunPreempt \/ RunContinue
      BY <2>4, RunDispatches
    <2>5. CASE Account
      BY <2>5, AccountDispatches
    <2>6. CASE UNCHANGED vars
      <3>1. UNCHANGED <<quantum, state, actual_subprocess, cpu_use, times_interrupted, ran, quantum_counter>>
        BY <2>6 DEF vars, input, work, stats
      <3>2. QED
        BY <3>1, DispatchesUnchanged
    <2>7. QED
      BY <2>1, <2>2, <2>3, <2>4, <2>5, <2>6 DEF Next
  <1>3. QED
    BY <1>1, <1>2, NextQuantumInBounds, Inductive, PTL DEF Spec

-----------------------------------------------------------------------------
(* The response time. *)

\* At its first dispatch a process has done nothing but wait.
LEMMA DispatchPaid ==
    ASSUME IInv, StatisticsAddUp, NEW p \in Procs, Paid(p), Dispatch
    PROVE  Paid(p)'
  <1> DEFINE h == Head(queue)
             arrival == job[h].start_time
  <1>1. h \in Procs /\ state[h] = "READY" /\ pc = "dispatch" /\ pc' = "run"
    <2>1. queue \in Seq(Procs) /\ Len(queue) > 0 /\ pc = "dispatch" /\ pc' = "run"
      BY DEF IInv, TypeOK, Dispatch
    <2>2. h = queue[1] /\ 1 \in 1..Len(queue) /\ queue[1] \in Procs
      BY <2>1
    <2>3. QED
      BY <2>1, <2>2 DEF IInv, QueueOrdered
  <1>2. /\ cpu_use' = [cpu_use EXCEPT ![h] = cpu_use[h] + 1]
        /\ response_time' = [response_time EXCEPT ![h] =
              IF response_time[h] = -1 THEN total_counter - arrival ELSE response_time[h]]
        /\ waiting_time' = waiting_time /\ ran' = ran
    BY DEF Dispatch, FirstDispatch, work
  <1>3. cpu_use \in [Procs -> Nat] /\ response_time \in [Procs -> Nat \cup {-1}]
    BY DEF IInv, TypeOK
  <1>4. Owed(p) = 0 /\ Owed(p)' = 0
    BY <1>1 DEF Owed
  <1>5. CASE p # h
    BY <1>2, <1>3, <1>4, <1>5 DEF Paid
  <1>6. CASE p = h
    <2>1. /\ waiting_time[p] \in Int /\ ran[p] \in Nat /\ cpu_use[p] \in Nat
          /\ total_counter \in Nat /\ arrival \in Int /\ response_time[p] \in Nat \cup {-1}
      BY <1>6, StatisticTypes
    <2>2. waiting_time[p] + ran[p] = total_counter - arrival
      BY <1>1, <1>6, <2>1 DEF StatisticsAddUp, AddsUp, Elapsed
    <2>3. arrival <= total_counter
      BY <1>1 DEF IInv, ArrivedInTime
    <2>4. /\ cpu_use'[p] = cpu_use[p] + 1
          /\ response_time'[p] = IF response_time[p] = -1 THEN total_counter - arrival ELSE response_time[p]
      BY <1>2, <1>3, <1>6
    <2> HIDE DEF h, arrival
    <2>5. CASE cpu_use[p] = 0
      BY <2>1, <2>2, <2>3, <2>4, <2>5, <1>2, <1>4 DEF Paid
    <2>6. CASE cpu_use[p] # 0
      BY <2>1, <2>4, <2>6, <1>2, <1>4 DEF Paid
    <2>7. QED
      BY <2>5, <2>6
  <1>7. QED
    BY <1>5, <1>6

\* A release takes one tick from waiting_time, and Account gives it back.
LEMMA RunPaid ==
    ASSUME IInv, DispatchesAccounted, NEW p \in Procs, Paid(p),
           RunFinish \/ RunBlock \/ RunPreempt \/ RunContinue
    PROVE  Paid(p)'
  <1>1. RunUnit /\ state \in [Procs -> States] /\ waiting_time \in [Procs -> Int] /\ head \in Procs
    BY DEF RunFinish, RunBlock, RunPreempt, RunContinue, RunUnit, IInv, TypeOK, CpuExclusive
  <1>2. /\ cpu_use'[p] = cpu_use[p] /\ response_time'[p] = response_time[p]
        /\ pc = "run" /\ pc' = "account" /\ (p # head => ran'[p] = ran[p])
        /\ (p = head => state[p] = "RUNNING")
    BY <1>1, UnitOf
  <1>3. /\ response_time[p] \in Int /\ waiting_time[p] \in Int /\ cpu_use[p] \in Nat
        /\ Completed(p) \in Nat /\ ran[p] \in Nat
    BY StatisticTypes
  <1>4. Owed(p) = 0 /\ Owed(p)' \in {0, 1}
    BY <1>2 DEF Owed
  <1>5. CASE p # head
    <2>1. waiting_time'[p] = waiting_time[p]
      BY <1>1, <1>5 DEF RunFinish, RunBlock, RunPreempt, RunContinue
    <2>2. QED
      BY <2>1, <1>2, <1>3, <1>4, <1>5 DEF Paid
  <1>6. CASE p = head
    <2>1. cpu_use[p] # 0
      <3>1. Completed(p) + 1 <= cpu_use[p]
        BY <1>2, <1>6 DEF DispatchesAccounted
      <3>2. QED
        BY <3>1, <1>3
    <2>2. CASE RunFinish \/ RunContinue
      <3>1. waiting_time'[p] = waiting_time[p]
        BY <2>2 DEF RunFinish, RunContinue
      <3>2. QED
        BY <3>1, <2>1, <1>2, <1>3, <1>4 DEF Paid
    <2>3. CASE RunBlock \/ RunPreempt
      <3>1. waiting_time'[p] = waiting_time[p] - 1 /\ state'[p] \in {"WAITING", "READY"}
        BY <2>3, <1>1, <1>6 DEF RunBlock, RunPreempt
      <3>2. Owed(p)' = 1
        BY <3>1, <1>2 DEF Owed
      <3>3. QED
        BY <3>1, <3>2, <2>1, <1>2, <1>3, <1>4 DEF Paid
    <2>4. QED
      BY <2>2, <2>3
  <1>7. QED
    BY <1>5, <1>6

\* The response time of a process is between 0 and its waiting time once it
\* has been dispatched, and -1 until then.
THEOREM ResponseCorrect == Spec => []ResponseWithinWaiting
  <1>1. Init => ResponsePaid
    BY DEF Init, ResponsePaid, Paid, Owed
  <1>2. IInv /\ StatisticsAddUp /\ DispatchesAccounted /\ ResponsePaid /\ [Next]_vars => ResponsePaid'
    <2> SUFFICES ASSUME IInv, StatisticsAddUp, DispatchesAccounted, [Next]_vars, NEW p \in Procs, Paid(p)
                 PROVE  Paid(p)'
      BY DEF ResponsePaid
    <2>1. response_time[p] \in Int /\ waiting_time[p] \in Int /\ cpu_use[p] \in Nat
      BY StatisticTypes
    <2>2. CASE AdmitEnqueue \/ AdmitSkip \/ AdmitEnd \/ NoDispatch \/ RunIdle
      <3>1. pc # "account" /\ UNCHANGED <<cpu_use, ran, response_time, waiting_time>>
        BY <2>2 DEF AdmitEnqueue, AdmitSkip, AdmitStep, AdmitEnd, NoDispatch, RunIdle, work, stats
      <3>2. Owed(p) = 0 /\ Owed(p)' \in {0, 1}
        BY <3>1 DEF Owed
      <3>3. QED
        BY <3>1, <3>2, <2>1 DEF Paid
    <2>3. CASE Dispatch
      BY <2>3, DispatchPaid
    <2>4. CASE RunFinish \/ RunBlock \/ RunPreempt \/ RunContinue
      BY <2>4, RunPaid
    <2>5. CASE Account
      <3>1. /\ pc = "account" /\ pc' # "account" /\ UNCHANGED <<cpu_use, ran, response_time>>
            /\ waiting_time'[p] = waiting_time[p] + IF CountsAsWaiting(p) THEN 1 ELSE 0
        BY <2>5 DEF Account
      <3>2. Owed(p) = (IF CountsAsWaiting(p) THEN 1 ELSE 0) /\ Owed(p)' = 0
        BY <3>1 DEF Owed, CountsAsWaiting
      <3>3. QED
        BY <3>1, <3>2, <2>1 DEF Paid
    <2>6. CASE UNCHANGED vars
      <3>1. UNCHANGED <<pc, state, cpu_use, ran, response_time, waiting_time>>
        BY <2>6 DEF vars, control, work, stats
      <3>2. QED
        BY <3>1 DEF Paid, Owed
    <2>7. QED
      BY <2>2, <2>3, <2>4, <2>5, <2>6 DEF Next
  <1>3. IInv /\ ResponsePaid => ResponseWithinWaiting
    <2> SUFFICES ASSUME IInv, ResponsePaid, pc \in {"admit", "done"}, NEW p \in Procs
                 PROVE  IF cpu_use[p] = 0 THEN response_time[p] = -1
                        ELSE 0 <= response_time[p] /\ response_time[p] <= waiting_time[p]
      BY DEF ResponseWithinWaiting
    <2>1. Owed(p) = 0 /\ waiting_time[p] \in Int
      BY StatisticTypes DEF Owed
    <2>2. QED
      BY <2>1 DEF ResponsePaid, Paid
  <1>4. QED
    BY <1>1, <1>2, <1>3, StatisticsCorrect, DispatchesCorrect, Inductive, PTL DEF Spec
=============================================================================
