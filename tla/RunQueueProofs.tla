--------------------------- MODULE RunQueueProofs ---------------------------
(***************************************************************************)
(* Proofs about the operators of RunQueue, for every queue size: the range *)
(* of quantum, service time and priority, and what an operation on a queue *)
(* leaves in which slot.                                                   *)
(***************************************************************************)
EXTENDS RunQueue, TLAPS

-----------------------------------------------------------------------------
(* Times and priorities.                                                     *)

(* A task that is not finished gets a positive quantum, never beyond what is *)
(* left of it.                                                               *)
LEMMA QuantumBounds ==
  ASSUME NEW t \in task_struct, t.remaining_exec_time > 0
  PROVE  get_quantum_size(t) \in 0 .. t.remaining_exec_time
BY DEF get_quantum_size, task_struct, min, Q_SIZE_MULTIPLIER

(* A run never exceeds the quantum.                                          *)
LEMMA ServiceBounds ==
  ASSUME NEW slice \in Nat, NEW s \in ServiceTimes(slice)
  PROVE  s \in 0 .. slice
<1>1. PICK k \in 0 .. SERVICE_GRAIN : s = (slice * k) \div SERVICE_GRAIN
  BY DEF ServiceTimes
<1>2. /\ SERVICE_GRAIN \in Nat \ {0} /\ k \in Nat
      /\ slice * k \in Nat /\ slice * k <= slice * SERVICE_GRAIN
  BY QueueAssumption
<1>3. s \in Nat /\ s * SERVICE_GRAIN <= slice * k
  BY <1>1, <1>2
<1>4. SUFFICES ASSUME s > slice PROVE FALSE
  BY <1>3
<1>5. s * SERVICE_GRAIN >= (slice + 1) * SERVICE_GRAIN
  BY <1>2, <1>3, <1>4
<1> QED BY <1>2, <1>3, <1>5

(* sleep_avg stays between 0 and MAX_SLEEP_AVG.                              *)
LEMMA SleepBounds ==
  ASSUME NEW ran \in Nat, NEW slept \in Nat
  PROVE  SleepAvg(ran, slept) \in 0 .. MAX_SLEEP_AVG
BY DEF SleepAvg, max, min, MAX_SLEEP_AVG

(* A dynamic priority never becomes one of a real-time task.                 *)
LEMMA PriorityBounds ==
  ASSUME NEW p \in 0..139, NEW a \in 0 .. MAX_SLEEP_AVG
  PROVE  NewPriority(p, a) \in 100..139
BY DEF NewPriority, max, min, MAX_SLEEP_AVG

-----------------------------------------------------------------------------
(* Queues.                                                                   *)

(* A queue without tasks is a queue.                                         *)
LEMMA EmptyQueueType == EmptyQueue \in cpu_run_queue
<1>1. ZeroTask \in task_struct
  BY DEF ZeroTask, task_struct
<1> QED BY <1>1, QueueAssumption DEF EmptyQueue, cpu_run_queue, circular_buffer

(* The slot of a buffer from which a deletion at index fills slot s.         *)
From(index, s) == IF s >= index THEN s + 1 ELSE s

(* A deletion leaves every other task, once, in the order they had.          *)
LEMMA DeleteKeeps ==
  ASSUME NEW buf \in circular_buffer, buf.count = buf.tail, NEW index \in Live(buf)
  PROVE  LET d == Delete(buf, index)
         IN  /\ d \in circular_buffer /\ d.tail = buf.tail - 1 /\ d.count = d.tail
             /\ \A s \in Live(d) :
                  /\ From(index, s) \in Live(buf) \ {index}
                  /\ d.tasks[s] = buf.tasks[From(index, s)]
             /\ \A s \in Live(buf) \ {index} :
                  \E s1 \in Live(d) : From(index, s1) = s /\ d.tasks[s1] = buf.tasks[s]
<1> DEFINE d == Delete(buf, index)
<1>1. /\ buf.tail \in 1 .. MAX_QUEUE_SIZE /\ index \in 0 .. buf.tail - 1
      /\ buf.tasks \in [Slots -> task_struct]
      /\ MAX_QUEUE_SIZE \in Nat
  BY QueueAssumption DEF circular_buffer, Live
<1>2. /\ d.tail = buf.tail - 1 /\ d.count = buf.tail - 1
      /\ d.tasks = [s \in Slots |-> IF s + 1 >= buf.tail THEN ZeroTask
                                    ELSE IF s >= index THEN buf.tasks[s + 1]
                                    ELSE buf.tasks[s]]
  BY DEF Delete
<1>3. d.tasks \in [Slots -> task_struct]
  <2>1. ZeroTask \in task_struct
    BY DEF ZeroTask, task_struct
  <2>2. ASSUME NEW s \in Slots, s + 1 < buf.tail
        PROVE  s + 1 \in Slots
    BY <1>1, <2>2 DEF Slots
  <2> QED BY <1>1, <1>2, <2>1, <2>2 DEF Slots
<1>4. d \in circular_buffer
  BY <1>1, <1>2, <1>3 DEF circular_buffer, Delete
<1>5. ASSUME NEW s \in 0 .. buf.tail - 2
      PROVE  /\ From(index, s) \in Live(buf) \ {index}
             /\ d.tasks[s] = buf.tasks[From(index, s)]
  <2>1. s \in Slots /\ ~(s + 1 >= buf.tail)
    BY <1>1 DEF Slots
  <2> QED BY <1>1, <1>2, <2>1 DEF From, Live
<1>6. ASSUME NEW s \in Live(buf) \ {index}
      PROVE  \E s1 \in 0 .. buf.tail - 2 : From(index, s1) = s
  <2>1. CASE s < index
    BY <1>1, <2>1 DEF From, Live
  <2>2. CASE s > index
    <3>1. s - 1 \in 0 .. buf.tail - 2 /\ From(index, s - 1) = s
      BY <1>1, <2>2 DEF From, Live
    <3> QED BY <3>1
  <2> QED BY <1>1, <2>1, <2>2 DEF Live
<1>7. Live(d) = 0 .. buf.tail - 2
  BY <1>1, <1>2 DEF Live
<1>8. ASSUME NEW s \in Live(buf) \ {index}
      PROVE  \E s1 \in Live(d) : From(index, s1) = s /\ d.tasks[s1] = buf.tasks[s]
  BY <1>5, <1>6, <1>7
<1>9. ASSUME NEW s \in Live(d)
      PROVE  /\ From(index, s) \in Live(buf) \ {index}
             /\ d.tasks[s] = buf.tasks[From(index, s)]
  BY <1>5, <1>7
<1> QED BY <1>2, <1>4, <1>8, <1>9

(* Two slots are never filled from one.                                      *)
LEMMA FromInjective ==
  ASSUME NEW index \in Int, NEW s \in Int, NEW s1 \in Int,
         From(index, s) = From(index, s1)
  PROVE  s = s1
BY DEF From

(* An addition puts the task behind the others.                              *)
LEMMA AddKeeps ==
  ASSUME NEW buf \in circular_buffer, buf.count = buf.tail, buf.tail < MAX_QUEUE_SIZE,
         NEW task \in task_struct
  PROVE  LET a == AddTask(buf, task)
         IN  /\ a \in circular_buffer /\ a.tail = buf.tail + 1 /\ a.count = a.tail
             /\ Live(a) = Live(buf) \union {buf.tail} /\ buf.tail \notin Live(buf)
             /\ a.tasks[buf.tail] = task
             /\ \A s \in Live(buf) : a.tasks[s] = buf.tasks[s]
<1> DEFINE a == AddTask(buf, task)
<1>1. /\ buf.tail \in 0 .. MAX_QUEUE_SIZE - 1
      /\ buf.tasks \in [Slots -> task_struct]
      /\ MAX_QUEUE_SIZE \in Nat
  BY QueueAssumption DEF circular_buffer
<1>2. /\ a.tail = buf.tail + 1 /\ a.count = buf.tail + 1
      /\ a.tasks = [buf.tasks EXCEPT ![buf.tail] = task]
  BY DEF AddTask
<1>3. a \in circular_buffer
  BY <1>1, <1>2 DEF circular_buffer, AddTask, Slots
<1>4. Live(a) = Live(buf) \union {buf.tail} /\ buf.tail \notin Live(buf)
  BY <1>1, <1>2 DEF Live
<1>5. /\ a.tasks[buf.tail] = task
      /\ \A s \in Live(buf) : a.tasks[s] = buf.tasks[s]
  BY <1>1, <1>2 DEF Live, Slots
<1> QED BY <1>2, <1>3, <1>4, <1>5

(* Changing the task in one slot changes nothing else.                       *)
LEMMA ReplaceKeeps ==
  ASSUME NEW q \in cpu_run_queue, NEW r \in RQs, NEW j \in Slots, NEW t \in task_struct
  PROVE  LET p == [q EXCEPT ![r].tasks[j] = t]
         IN  /\ p \in cpu_run_queue
             /\ \A r1 \in RQs : p[r1].tail = q[r1].tail /\ p[r1].count = q[r1].count
             /\ p[r].tasks[j] = t
             /\ \A r1 \in RQs : \A s \in Slots :
                  r1 # r \/ s # j => p[r1].tasks[s] = q[r1].tasks[s]
<1> DEFINE p == [q EXCEPT ![r].tasks[j] = t]
<1>1. \A r1 \in RQs : q[r1] \in circular_buffer
  BY DEF cpu_run_queue
<1>2. p = [q EXCEPT ![r] = [q[r] EXCEPT !.tasks = [q[r].tasks EXCEPT ![j] = t]]]
  BY <1>1
<1>3. /\ q[r].tasks \in [Slots -> task_struct]
      /\ [q[r].tasks EXCEPT ![j] = t] \in [Slots -> task_struct]
  BY <1>1 DEF circular_buffer
<1>4. [q[r] EXCEPT !.tasks = [q[r].tasks EXCEPT ![j] = t]] \in circular_buffer
  BY <1>1, <1>3 DEF circular_buffer
<1>5. p \in cpu_run_queue
  BY <1>2, <1>4 DEF cpu_run_queue
<1>6. /\ p[r].tail = q[r].tail /\ p[r].count = q[r].count
      /\ p[r].tasks = [q[r].tasks EXCEPT ![j] = t]
  BY <1>1, <1>2 DEF cpu_run_queue, circular_buffer
<1>7. \A r1 \in RQs \ {r} : p[r1] = q[r1]
  BY <1>2 DEF cpu_run_queue
<1> QED BY <1>3, <1>5, <1>6, <1>7

(* The turnaround time of each task that has started grows, and only that.   *)
LEMMA TurnaroundKeeps ==
  ASSUME NEW q \in cpu_run_queue, \A r \in RQs : q[r].count = q[r].tail, NEW ts \in Nat
  PROVE  LET u == update_turnaround_time(q, ts)
         IN  /\ u \in cpu_run_queue
             /\ \A r \in RQs : u[r].tail = q[r].tail /\ u[r].count = q[r].count
             /\ \A r \in RQs : \A s \in Live(q[r]) :
                  u[r].tasks[s] =
                    IF q[r].tasks[s].turnaround_started
                    THEN [q[r].tasks[s] EXCEPT !.turnaround_time = @ + ts]
                    ELSE q[r].tasks[s]
<1> DEFINE u == update_turnaround_time(q, ts)
           charge(r, s) == IF /\ q[r].count # 0 /\ s \in Live(q[r])
                              /\ q[r].tasks[s].turnaround_started
                           THEN [q[r].tasks[s] EXCEPT !.turnaround_time = @ + ts]
                           ELSE q[r].tasks[s]
<1>1. ASSUME NEW r \in RQs
      PROVE  /\ u[r] = [q[r] EXCEPT !.tasks = [s \in Slots |-> charge(r, s)]]
             /\ q[r] \in circular_buffer
  BY DEF update_turnaround_time, cpu_run_queue
<1>2. ASSUME NEW r \in RQs, NEW s \in Slots
      PROVE  charge(r, s) \in task_struct
  <2>1. q[r].tasks[s] \in task_struct
    BY <1>1 DEF circular_buffer
  <2> QED BY <2>1 DEF task_struct
<1>3. ASSUME NEW r \in RQs, NEW s \in Live(q[r])
      PROVE  s \in Slots /\ q[r].count # 0
  <2>1. q[r].tail \in 0 .. MAX_QUEUE_SIZE /\ q[r].count = q[r].tail
    BY <1>1 DEF circular_buffer
  <2> QED BY <2>1, QueueAssumption DEF Live, Slots
<1> HIDE DEF charge
<1>4. ASSUME NEW r \in RQs
      PROVE  /\ u[r] \in circular_buffer
             /\ u[r].tail = q[r].tail /\ u[r].count = q[r].count
             /\ u[r].tasks = [s \in Slots |-> charge(r, s)]
  <2> DEFINE w == [s \in Slots |-> charge(r, s)]
  <2>1. w \in [Slots -> task_struct]
    BY <1>2
  <2>2. u[r] = [q[r] EXCEPT !.tasks = w] /\ q[r] \in circular_buffer
    BY <1>1
  <2> HIDE DEF w, u
  <2>3. u[r] \in circular_buffer /\ u[r].tail = q[r].tail /\ u[r].count = q[r].count
        /\ u[r].tasks = w
    BY <2>1, <2>2 DEF circular_buffer
  <2> QED BY <2>3 DEF w
<1>5. u \in cpu_run_queue
  BY <1>4 DEF cpu_run_queue, update_turnaround_time
<1>6. ASSUME NEW r \in RQs, NEW s \in Live(q[r])
      PROVE  u[r].tasks[s] = charge(r, s)
  BY <1>3, <1>4
<1> QED BY <1>3, <1>4, <1>5, <1>6 DEF charge

(* A live position of a run queue holds a task, below the tail.              *)
LEMMA LiveSlot ==
  ASSUME NEW q \in cpu_run_queue, NEW r \in RQs, NEW s \in Live(q[r])
  PROVE  /\ s \in Slots /\ q[r].tasks[s] \in task_struct
         /\ q[r].tail \in 0 .. MAX_QUEUE_SIZE /\ s \in 0 .. q[r].tail - 1
<1>1. q[r] \in circular_buffer
  BY DEF cpu_run_queue
<1> QED BY <1>1, QueueAssumption DEF circular_buffer, Live, Slots

=============================================================================
