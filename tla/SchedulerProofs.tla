-------------------------- MODULE SchedulerProofs ---------------------------
(***************************************************************************)
(* Proofs about Scheduler, for any number of CPUs and tasks, when the      *)
(* sleeps of main outlast what they wait for (TIMELY) and the queues have  *)
(* room for the tasks assigned to them (QueuesSuffice).                    *)
(***************************************************************************)
EXTENDS Scheduler, RunQueueProofs, FiniteSetTheorems

USE DEF pcC, Goto, Lock, Unlock, Free, ProducerThread, BalancerThread, mainVars,
        prodVars, balVars, vars

-----------------------------------------------------------------------------
(* Threads and locks.                                                        *)

(* The CPU the producer chooses for a task is one of the CPUs.               *)
LEMMA CpuOfType ==
  ASSUME NEW i \in Nat
  PROVE  CpuOf(i) \in CPUs
BY SchedulerAssumption DEF CpuOf, CPUs

(* A consumer changes its own locals only.                                   *)
LEMMA ConsumerFrame ==
  ASSUME TypeOK, NEW k \in CPUs, Consumer(k)
  PROVE  /\ UNCHANGED <<mainVars, prodVars, balVars, all_tasks_finished>>
         /\ \A k1 \in CPUs \ {k} : cons'[k1] = cons[k1]
         /\ \/ cons[k].pc = "start" /\ cons'[k].pc \in {"check", "undefined"}
            \/ cons[k].pc = "check" /\ cons'[k].pc \in {"lock", "done"}
            \/ cons[k].pc = "lock" /\ cons'[k].pc = "pick"
            \/ cons[k].pc = "pick" /\ cons'[k].pc \in {"run", "check"}
            \/ cons[k].pc = "run" /\ cons'[k].pc = "relock"
            \/ cons[k].pc = "relock" /\ cons'[k].pc = "update"
            \/ cons[k].pc = "update" /\ cons'[k].pc = "check"
         /\ cons[k].pc # "start" => cons'[k].cpu_num = cons[k].cpu_num
<1> USE DEF TypeOK, Locals
<1>1. CASE C_Start(k)
  BY <1>1 DEF C_Start
<1>2. CASE C_Check(k)
  BY <1>2 DEF C_Check
<1>3. CASE C_Lock(k) \/ C_NothingToRun(k) \/ C_Relock(k) \/ C_RunRealTime(k)
  BY <1>3 DEF C_Lock, C_NothingToRun, C_Relock, C_RunRealTime
<1>4. CASE C_Pick(k)
  BY <1>4 DEF C_Pick
<1>5. CASE C_RunNormal(k)
  BY <1>5 DEF C_RunNormal, RunNormal
<1>6. CASE C_Update(k)
  BY <1>6 DEF C_Update, NoLocals
<1> QED BY <1>1, <1>2, <1>3, <1>4, <1>5, <1>6 DEF Consumer

(* main's sleeps make the threads start in the order it creates them.        *)
LEMMA PhaseStep ==
  ASSUME TIMELY, TypeOK, PhaseInv, OwnQueue, [Next]_vars
  PROVE  PhaseInv'
<1> USE SchedulerAssumption DEF TypeOK, PhaseInv, Started, CPUs
<1>1. CASE M_CreateProducer
  BY <1>1 DEF M_CreateProducer
<1>2. CASE M_NapProducer
  BY <1>2 DEF M_NapProducer
<1>3. CASE M_CreateConsumer
  BY <1>3 DEF M_CreateConsumer, Locals
<1>4. CASE M_NapConsumer
  BY <1>4 DEF M_NapConsumer
<1>5. CASE M_CreateBalancer
  BY <1>5 DEF M_CreateBalancer
<1>6. CASE M_JoinProducer \/ M_JoinConsumer \/ M_JoinBalancer
  BY <1>6 DEF M_JoinProducer, M_JoinConsumer, M_JoinBalancer
<1>7. CASE P_Lock
  BY <1>7 DEF P_Lock
<1>8. CASE P_CreateTask
  BY <1>8 DEF P_CreateTask
<1>9. CASE P_AllCreated \/ P_Unlock
  BY <1>9 DEF P_AllCreated, P_Unlock
<1>10. ASSUME NEW k \in CPUs, Consumer(k)
       PROVE  PhaseInv'
  <2>1. /\ UNCHANGED <<mainVars, prodVars, pcB>>
        /\ \A k1 \in CPUs : k1 # k => cons'[k1] = cons[k1]
        /\ cons[k].pc \notin {"new", "done"} /\ cons'[k].pc \notin {"new", "start"}
    BY <1>10, ConsumerFrame
  <2> QED BY <2>1
<1>11. CASE Balancer
  BY <1>11 DEF Balancer, B_Check, B_Lock, B_Count, B_Unlock, B_Decide
<1>12. CASE UNCHANGED vars
  BY <1>12
<1> QED
  BY <1>1, <1>2, <1>3, <1>4, <1>5, <1>6, <1>7, <1>8, <1>9, <1>10, <1>11, <1>12
  DEF Next, Main, Producer, Stopped

(* A consumer reads main's cpu_num while main still sleeps for it.           *)
LEMMA OwnStep ==
  ASSUME TIMELY, TypeOK, PhaseInv, OwnQueue, [Next]_vars
  PROVE  OwnQueue'
<1>1. ASSUME NEW k \in CPUs, Consumer(k)
      PROVE  OwnQueue'
  <2> USE DEF OwnQueue
  <2>1. CASE C_Start(k)
    <3>1. cpu_num = k
      BY <2>1 DEF C_Start, PhaseInv, Started, TypeOK
    <3> QED BY <2>1, <3>1 DEF C_Start, TypeOK, Locals
  <2>2. CASE pcC(k) # "start"
    BY <1>1, <2>2, ConsumerFrame
  <2>3. pcC(k) = "start" => C_Start(k)
    BY <1>1
    DEF Consumer, C_Start, C_Check, C_Lock, C_Pick, C_NothingToRun, C_RunRealTime,
        C_RunNormal, RunNormal, C_Relock, C_Update
  <2> QED BY <2>1, <2>2, <2>3
<1>2. CASE M_CreateConsumer
  <2>1. /\ cons'[cpu_num].pc = "start"
        /\ \A k \in CPUs \ {cpu_num} : cons'[k] = cons[k]
    BY <1>2, SchedulerAssumption DEF M_CreateConsumer, TypeOK, CPUs
  <2> QED BY <2>1 DEF OwnQueue
<1>3. CASE cons' = cons
  BY <1>3 DEF OwnQueue
<1> QED
  BY <1>1, <1>2, <1>3
  DEF Next, Main, Producer, Balancer, Stopped, M_CreateProducer, M_NapProducer,
      M_NapConsumer, M_CreateBalancer, M_JoinProducer, M_JoinConsumer, M_JoinBalancer,
      P_Lock, P_CreateTask, P_AllCreated, P_Unlock, B_Check, B_Lock, B_Count, B_Unlock,
      B_Decide

(* A consumer locks and unlocks the mutex of its own CPU.                    *)
ConsumerLocks(k) ==
  \/ /\ queue_mutex' = queue_mutex
     /\ cons[k].pc \in {"pick", "update"} <=> cons'[k].pc \in {"pick", "update"}
  \/ /\ queue_mutex[k] = Free /\ queue_mutex' = [queue_mutex EXCEPT ![k] = k]
     /\ cons'[k].pc \in {"pick", "update"}
  \/ /\ cons[k].pc \in {"pick", "update"} /\ queue_mutex' = [queue_mutex EXCEPT ![k] = Free]
     /\ cons'[k].pc \notin {"pick", "update"}

(* A consumer takes and gives up only the mutex of its own CPU.              *)
LEMMA ConsumerMutex ==
  ASSUME TypeOK, OwnQueue, NEW k \in CPUs, Consumer(k)
  PROVE  ConsumerLocks(k)
<1> USE DEF ConsumerLocks
<1>1. cons[k].pc \notin {"new", "start"} => cons[k].cpu_num = k
  BY DEF OwnQueue
<1>2. cons \in [CPUs -> Locals]
  BY DEF TypeOK
<1>3. CASE C_Start(k)
  BY <1>2, <1>3 DEF C_Start, Locals
<1>4. CASE C_Check(k) \/ C_RunRealTime(k)
  BY <1>2, <1>4 DEF C_Check, C_RunRealTime, Locals
<1>5. CASE C_Lock(k) \/ C_Relock(k)
  BY <1>1, <1>2, <1>5 DEF C_Lock, C_Relock, Locals
<1>6. CASE C_Pick(k)
  <2>1. cons[k].pc = "pick" /\ queue_mutex' = [queue_mutex EXCEPT ![k] = Free]
    BY <1>1, <1>6 DEF C_Pick
  <2>2. cons'[k].pc = "run"
    BY <1>2, <1>6 DEF C_Pick, Locals
  <2> QED BY <2>1, <2>2
<1>7. CASE C_NothingToRun(k)
  BY <1>1, <1>2, <1>7 DEF C_NothingToRun, Locals
<1>8. CASE C_RunNormal(k)
  BY <1>2, <1>8 DEF C_RunNormal, RunNormal, Locals
<1>9. CASE C_Update(k)
  <2>1. cons[k].pc = "update" /\ queue_mutex' = [queue_mutex EXCEPT ![k] = Free]
    BY <1>1, <1>9 DEF C_Update
  <2>2. cons'[k].pc = "check"
    BY <1>2, <1>9 DEF C_Update, NoLocals, Locals
  <2> QED BY <2>1, <2>2
<1> QED BY <1>3, <1>4, <1>5, <1>6, <1>7, <1>8, <1>9 DEF Consumer

(* Whoever is in a critical section holds the mutex of its CPU.              *)
LEMMA MutexStep ==
  ASSUME TIMELY, TypeOK, PhaseInv, OwnQueue, MutexInv, [Next]_vars
  PROVE  MutexInv'
<1>1. CASE Main
  <2>1. UNCHANGED <<queue_mutex, iP, iB>> /\ (pcP' = pcP \/ (pcP = "new" /\ pcP' = "lock"))
        /\ (pcB' = pcB \/ (pcB = "new" /\ pcB' = "check"))
    BY <1>1
    DEF PhaseInv, Main, M_CreateProducer, M_NapProducer, M_CreateConsumer, M_NapConsumer,
        M_CreateBalancer, M_JoinProducer, M_JoinConsumer, M_JoinBalancer
  <2>2. \A k \in CPUs : cons'[k].pc \in {"pick", "update"} <=> cons[k].pc \in {"pick", "update"}
    <3>1. CASE M_CreateConsumer
      <4>1. /\ cons[cpu_num].pc = "new" /\ cons'[cpu_num].pc = "start"
            /\ \A k \in CPUs \ {cpu_num} : cons'[k] = cons[k]
        BY <3>1, SchedulerAssumption DEF M_CreateConsumer, PhaseInv, TypeOK, CPUs
      <4> QED BY <4>1
    <3>2. CASE cons' = cons
      BY <3>2
    <3> QED BY <1>1, <3>1, <3>2
      DEF Main, M_CreateProducer, M_NapProducer, M_NapConsumer,
          M_CreateBalancer, M_JoinProducer, M_JoinConsumer, M_JoinBalancer
  <2>3. pcP = "new" => iP = 0
    BY DEF PhaseInv
  <2> QED BY <2>1, <2>2, <2>3 DEF MutexInv, CPUs, TypeOK
<1> USE SchedulerAssumption DEF TypeOK, PhaseInv, MutexInv, CPUs
<1>2. CASE P_Lock
  BY <1>2 DEF P_Lock
<1>3. CASE P_CreateTask \/ P_AllCreated
  BY <1>3 DEF P_CreateTask, P_AllCreated
<1>4. CASE P_Unlock
  BY <1>4 DEF P_Unlock
<1>5. ASSUME NEW k \in CPUs, Consumer(k)
      PROVE  MutexInv'
  <2>1. /\ UNCHANGED <<prodVars, pcB, iB>>
        /\ \A k1 \in CPUs \ {k} : cons'[k1] = cons[k1]
    BY <1>5, ConsumerFrame
  <2>2. ConsumerLocks(k)
    BY <1>5, ConsumerMutex
  <2> QED BY <2>1, <2>2 DEF ConsumerLocks
<1>6. CASE B_Check \/ B_Count \/ B_Decide
  BY <1>6 DEF B_Check, B_Count, B_Decide
<1>7. CASE B_Lock
  BY <1>7 DEF B_Lock
<1>8. CASE B_Unlock
  BY <1>8 DEF B_Unlock
<1>9. CASE UNCHANGED vars
  BY <1>9
<1> QED
  BY <1>1, <1>2, <1>3, <1>4, <1>5, <1>6, <1>7, <1>8, <1>9
  DEF Next, Producer, Balancer, Stopped

-----------------------------------------------------------------------------
(* The queue of one CPU.                                                     *)

(* What the producer assigns to a queue grows with the tasks it creates.     *)
LEMMA AssignedSize ==
  ASSUME NEW c, NEW r, NEW n \in Nat
  PROVE  /\ Cardinality(Assigned(c, r, n)) \in Nat
         /\ Cardinality(Assigned(c, r, n + 1)) =
              Cardinality(Assigned(c, r, n))
                + (IF CpuOf(n) = c /\ QueueOf(n) = r THEN 1 ELSE 0)
<1>1. IsFiniteSet(Assigned(c, r, n))
  <2>1. IsFiniteSet(0 .. n - 1)
    BY FS_Interval
  <2> QED BY <2>1, FS_Subset DEF Assigned
<1>2. n \notin Assigned(c, r, n)
  BY DEF Assigned
<1>3. CASE CpuOf(n) = c /\ QueueOf(n) = r
  <2>1. Assigned(c, r, n + 1) = Assigned(c, r, n) \union {n}
    BY <1>3 DEF Assigned
  <2> QED BY <1>1, <1>2, <1>3, <2>1, FS_AddElement, FS_CardinalityType
<1>4. CASE ~(CpuOf(n) = c /\ QueueOf(n) = r)
  <2>1. Assigned(c, r, n + 1) = Assigned(c, r, n)
    BY <1>4 DEF Assigned
  <2> QED BY <1>1, <1>4, <2>1, FS_CardinalityType
<1> QED BY <1>3, <1>4

(* No queue is given more tasks than it has room for.                        *)
LEMMA AssignedFits ==
  ASSUME QueuesSuffice, NEW c \in CPUs, NEW r \in 0..1, NEW n \in 0 .. num_processes
  PROVE  Cardinality(Assigned(c, r, n)) <= MAX_QUEUE_SIZE
<1>1. IsFiniteSet(Assigned(c, r, num_processes))
  <2>1. IsFiniteSet(0 .. num_processes - 1)
    BY FS_Interval, SchedulerAssumption
  <2> QED BY <2>1, FS_Subset DEF Assigned
<1>2. Assigned(c, r, n) \subseteq Assigned(c, r, num_processes)
  BY SchedulerAssumption DEF Assigned
<1>3. /\ IsFiniteSet(Assigned(c, r, n))
      /\ Cardinality(Assigned(c, r, n)) <= Cardinality(Assigned(c, r, num_processes))
  BY <1>1, <1>2, FS_Subset
<1>4. Cardinality(Assigned(c, r, num_processes)) <= MAX_QUEUE_SIZE
  BY DEF QueuesSuffice
<1> QED BY <1>1, <1>3, <1>4, FS_CardinalityType, QueueAssumption

(* A CPU with no task created keeps what it was given.                       *)
LEMMA KeptEmpty ==
  ASSUME NEW c, NEW finished
  PROVE  Kept(EmptyQueue, c, 0, {}, finished)
<1>1. EmptyQueue \in cpu_run_queue
  BY EmptyQueueType
<1>2. \A r \in RQs : /\ EmptyQueue[r].tail = 0 /\ EmptyQueue[r].count = 0
                     /\ Live(EmptyQueue[r]) = {}
  BY DEF EmptyQueue, Live
<1>3. Room(EmptyQueue, c, 0)
  BY <1>2, AssignedSize DEF Room, RQs
<1> QED BY <1>1, <1>2, <1>3 DEF Kept

(* What a run of another CPU changes is nothing to this queue.               *)
LEMMA KeptFrame ==
  ASSUME NEW q, NEW c, NEW n \in Nat, NEW running, NEW f, NEW f1,
         Kept(q, c, n, running, f),
         \A pid \in 0 .. n - 1 : CpuOf(pid) = c => f1[pid] = f[pid]
  PROVE  Kept(q, c, n, running, f1)
BY DEF Kept, RightTask

(* All but the task in slot (r0, j0) are in place, and wait.                 *)
InPlace(q, c, n, r0, j0, finished) ==
  /\ q \in cpu_run_queue
  /\ \A r \in RQs : q[r].count = q[r].tail
  /\ \A r \in RQs : \A j \in Live(q[r]) : r # r0 \/ j # j0 =>
       RightTask(q[r].tasks[j], r, c, n, finished) /\ q[r].tasks[j].state = "READY"
  /\ \A r1, r2 \in RQs : \A j1 \in Live(q[r1]), j2 \in Live(q[r2]) :
       /\ r1 # r0 \/ j1 # j0
       /\ r2 # r0 \/ j2 # j0
       /\ q[r1].tasks[j1].pid = q[r2].tasks[j2].pid
       => r1 = r2 /\ j1 = j2

(* And each task of the CPU that is not finished is among them.              *)
KeptBut(q, c, n, r0, j0, finished) ==
  /\ InPlace(q, c, n, r0, j0, finished)
  /\ \A pid \in 0 .. n - 1 :
       CpuOf(pid) = c /\ finished[pid] = 0 =>
         \E r \in RQs : \E j \in Live(q[r]) :
           (r # r0 \/ j # j0) /\ q[r].tasks[j].pid = pid

(* Task pid is the only one of the CPU's tasks that is not among them.       *)
OnlyMissing(pid, q, c, n, r0, j0, finished) ==
  /\ \A r \in RQs : \A j \in Live(q[r]) : r # r0 \/ j # j0 => q[r].tasks[j].pid # pid
  /\ \A pid1 \in 0 .. n - 1 :
       CpuOf(pid1) = c /\ finished[pid1] = 0 /\ pid1 # pid =>
         \E r \in RQs : \E j \in Live(q[r]) :
           (r # r0 \/ j # j0) /\ q[r].tasks[j].pid = pid1

(* There is no queue 3: all are in place.                                    *)
LEMMA KeptAll ==
  ASSUME NEW q, NEW c, NEW n, NEW finished
  PROVE  Kept(q, c, n, {}, finished) <=> KeptBut(q, c, n, 3, 0, finished) /\ Room(q, c, n)
<1>1. \A r \in RQs : r # 3
  BY DEF RQs
<1>2. ASSUME Kept(q, c, n, {}, finished)
      PROVE  KeptBut(q, c, n, 3, 0, finished) /\ Room(q, c, n)
  BY <1>1, <1>2 DEF Kept, KeptBut, InPlace
<1>3. ASSUME KeptBut(q, c, n, 3, 0, finished), Room(q, c, n)
      PROVE  Kept(q, c, n, {}, finished)
  BY <1>1, <1>3 DEF Kept, KeptBut, InPlace
<1> QED BY <1>2, <1>3

(* A task put behind the others of queue r.                                  *)
LEMMA KeptAdd ==
  ASSUME NEW q, NEW c, NEW n \in Nat, NEW m \in Nat, NEW r0, NEW j0, NEW finished,
         NEW r \in RQs, NEW task \in task_struct,
         InPlace(q, c, n, r0, j0, finished), n <= m,
         q[r].tail < MAX_QUEUE_SIZE,
         RightTask(task, r, c, m, finished), task.state = "READY",
         r # r0 \/ q[r].tail # j0,
         OnlyMissing(task.pid, q, c, m, r0, j0, finished)
  PROVE  KeptBut([q EXCEPT ![r] = AddTask(@, task)], c, m, r0, j0, finished)
<1> DEFINE a == [q EXCEPT ![r] = AddTask(@, task)]
<1>1. /\ q \in [RQs -> circular_buffer] /\ \A r1 \in RQs : q[r1].count = q[r1].tail
      /\ q[r] \in circular_buffer /\ q[r].tail \in Nat
  BY DEF KeptBut, InPlace, cpu_run_queue, circular_buffer
<1>2. /\ a[r] \in circular_buffer /\ a[r].count = a[r].tail
      /\ Live(a[r]) = Live(q[r]) \union {q[r].tail} /\ q[r].tail \notin Live(q[r])
      /\ a[r].tasks[q[r].tail] = task
      /\ \A s \in Live(q[r]) : a[r].tasks[s] = q[r].tasks[s]
  <2>1. a[r] = AddTask(q[r], task)
    BY <1>1
  <2> QED BY <1>1, <2>1, AddKeeps
<1>3. \A r1 \in RQs \ {r} : a[r1] = q[r1]
  BY <1>1
<1>4. a \in [RQs -> circular_buffer] /\ \A r1 \in RQs : a[r1].count = a[r1].tail
  BY <1>1, <1>2, <1>3
<1> HIDE DEF a
<1>5. \A r1 \in RQs : \A j1 \in Live(a[r1]) :
        \/ r1 = r /\ j1 = q[r].tail /\ a[r1].tasks[j1] = task
        \/ j1 \in Live(q[r1]) /\ a[r1].tasks[j1] = q[r1].tasks[j1]
  BY <1>2, <1>3
<1>6. \A r1 \in RQs : \A j1 \in Live(q[r1]) :
        j1 \in Live(a[r1]) /\ a[r1].tasks[j1] = q[r1].tasks[j1]
  BY <1>2, <1>3
<1>7. ASSUME NEW r1 \in RQs, NEW j1 \in Live(a[r1]), r1 # r0 \/ j1 # j0
      PROVE  RightTask(a[r1].tasks[j1], r1, c, m, finished) /\ a[r1].tasks[j1].state = "READY"
  <2>1. CASE j1 \in Live(q[r1]) /\ a[r1].tasks[j1] = q[r1].tasks[j1]
    BY <1>7, <2>1 DEF KeptBut, InPlace, RightTask
  <2> QED BY <1>5, <2>1
<1>8. ASSUME NEW r1 \in RQs, NEW r2 \in RQs, NEW j1 \in Live(a[r1]), NEW j2 \in Live(a[r2]),
             r1 # r0 \/ j1 # j0, r2 # r0 \/ j2 # j0,
             a[r1].tasks[j1].pid = a[r2].tasks[j2].pid
      PROVE  r1 = r2 /\ j1 = j2
  <2>1. CASE j1 \in Live(q[r1]) /\ a[r1].tasks[j1] = q[r1].tasks[j1]
    <3>1. CASE j2 \in Live(q[r2]) /\ a[r2].tasks[j2] = q[r2].tasks[j2]
      BY <1>8, <2>1, <3>1 DEF KeptBut, InPlace
    <3>2. CASE r2 = r /\ j2 = q[r].tail /\ a[r2].tasks[j2] = task
      BY <1>8, <2>1, <3>2 DEF OnlyMissing
    <3> QED BY <1>5, <3>1, <3>2
  <2>2. CASE r1 = r /\ j1 = q[r].tail /\ a[r1].tasks[j1] = task
    <3>1. CASE j2 \in Live(q[r2]) /\ a[r2].tasks[j2] = q[r2].tasks[j2]
      BY <1>8, <2>2, <3>1 DEF OnlyMissing
    <3>2. CASE r2 = r /\ j2 = q[r].tail
      BY <2>2, <3>2
    <3> QED BY <1>5, <3>1, <3>2
  <2> QED BY <1>5, <2>1, <2>2
<1>9. ASSUME NEW pid \in 0 .. m - 1, CpuOf(pid) = c, finished[pid] = 0
      PROVE  \E r1 \in RQs : \E j1 \in Live(a[r1]) :
               (r1 # r0 \/ j1 # j0) /\ a[r1].tasks[j1].pid = pid
  BY <1>2, <1>6, <1>9 DEF OnlyMissing
<1>10. KeptBut(a, c, m, r0, j0, finished)
  BY <1>4, <1>7, <1>8, <1>9 DEF KeptBut, InPlace, cpu_run_queue
<1> QED BY <1>10 DEF a

(* Deleting the one task that is not in place leaves all in place.           *)
LEMMA KeptDelete ==
  ASSUME NEW q, NEW c, NEW n \in Nat, NEW finished, NEW r \in RQs, NEW j \in Live(q[r]),
         KeptBut(q, c, n, r, j, finished)
  PROVE  KeptBut(delete_task_from_queue(q, r, j), c, n, 3, 0, finished)
<1> DEFINE d == delete_task_from_queue(q, r, j)
<1>1. /\ q \in [RQs -> circular_buffer] /\ \A r1 \in RQs : q[r1].count = q[r1].tail
      /\ q[r] \in circular_buffer
  BY DEF KeptBut, InPlace, cpu_run_queue
<1>2. /\ d[r] \in circular_buffer /\ d[r].count = d[r].tail
      /\ \A s \in Live(d[r]) : /\ From(j, s) \in Live(q[r]) \ {j}
                               /\ d[r].tasks[s] = q[r].tasks[From(j, s)]
      /\ \A s \in Live(q[r]) \ {j} :
           \E s1 \in Live(d[r]) : From(j, s1) = s /\ d[r].tasks[s1] = q[r].tasks[s]
  <2>1. d[r] = Delete(q[r], j)
    BY <1>1 DEF delete_task_from_queue
  <2> QED BY <1>1, <2>1, DeleteKeeps
<1>3. \A r1 \in RQs \ {r} : d[r1] = q[r1]
  BY <1>1 DEF delete_task_from_queue
<1>4. d \in [RQs -> circular_buffer] /\ \A r1 \in RQs : d[r1].count = d[r1].tail
  BY <1>1, <1>2, <1>3 DEF delete_task_from_queue
<1> HIDE DEF d
<1> DEFINE from(r1, s) == IF r1 = r THEN From(j, s) ELSE s
<1>5. \A r1 \in RQs : \A s \in Live(d[r1]) :
        /\ from(r1, s) \in Live(q[r1]) /\ (r1 # r \/ from(r1, s) # j)
        /\ d[r1].tasks[s] = q[r1].tasks[from(r1, s)]
  BY <1>2, <1>3
<1>6. \A r1 \in RQs : \A s \in Live(q[r1]) : r1 # r \/ s # j =>
        \E s1 \in Live(d[r1]) : d[r1].tasks[s1] = q[r1].tasks[s]
  BY <1>2, <1>3
<1>7. \A r1 \in RQs : \A s, s1 \in Live(d[r1]) : from(r1, s) = from(r1, s1) => s = s1
  BY <1>1, FromInjective DEF Live
<1> HIDE DEF from
<1>8. ASSUME NEW r1 \in RQs, NEW j1 \in Live(d[r1])
      PROVE  RightTask(d[r1].tasks[j1], r1, c, n, finished) /\ d[r1].tasks[j1].state = "READY"
  BY <1>5 DEF KeptBut, InPlace
<1>9. ASSUME NEW r1 \in RQs, NEW r2 \in RQs, NEW j1 \in Live(d[r1]), NEW j2 \in Live(d[r2]),
             d[r1].tasks[j1].pid = d[r2].tasks[j2].pid
      PROVE  r1 = r2 /\ j1 = j2
  <2>1. \A s1 \in Live(q[r1]), s2 \in Live(q[r2]) :
          /\ r1 # r \/ s1 # j
          /\ r2 # r \/ s2 # j
          /\ q[r1].tasks[s1].pid = q[r2].tasks[s2].pid
          => r1 = r2 /\ s1 = s2
    BY DEF KeptBut, InPlace
  <2>2. /\ from(r1, j1) \in Live(q[r1]) /\ (r1 # r \/ from(r1, j1) # j)
        /\ d[r1].tasks[j1] = q[r1].tasks[from(r1, j1)]
    BY <1>5
  <2>3. /\ from(r2, j2) \in Live(q[r2]) /\ (r2 # r \/ from(r2, j2) # j)
        /\ d[r2].tasks[j2] = q[r2].tasks[from(r2, j2)]
    BY <1>5
  <2>4. q[r1].tasks[from(r1, j1)].pid = q[r2].tasks[from(r2, j2)].pid
    BY <1>9, <2>2, <2>3
  <2>5. r1 = r2 /\ from(r1, j1) = from(r2, j2)
    BY <2>1, <2>2, <2>3, <2>4
  <2> QED BY <1>7, <2>5
<1>10. ASSUME NEW pid \in 0 .. n - 1, CpuOf(pid) = c, finished[pid] = 0
       PROVE  \E r1 \in RQs : \E j1 \in Live(d[r1]) : d[r1].tasks[j1].pid = pid
  BY <1>6, <1>10 DEF KeptBut, InPlace
<1>11. KeptBut(d, c, n, 3, 0, finished)
  <2>1. \A r1 \in RQs : r1 # 3
    BY DEF RQs
  <2> QED BY <1>4, <1>8, <1>9, <1>10, <2>1 DEF KeptBut, InPlace, cpu_run_queue
<1> QED BY <1>11 DEF d

(* The producer's next task, and the room that is there for it.              *)
LEMMA NewTaskFits ==
  ASSUME NEW n \in Nat, NEW finished, finished[n] = 0,
         NEW priority \in Priorities(n), NEW exec_time \in EXEC_TIMES
  PROVE  /\ NewTask(n, priority, exec_time) \in task_struct
         /\ NewTask(n, priority, exec_time).pid = n
         /\ NewTask(n, priority, exec_time).state = "READY"
         /\ RightTask(NewTask(n, priority, exec_time), QueueOf(n), CpuOf(n), n + 1, finished)
         /\ QueueOf(n) \in 0..1
<1> DEFINE t == NewTask(n, priority, exec_time)
<1>1. /\ exec_time \in Nat \ {0} /\ priority \in 0..139
      /\ n % 5 \in {0, 1} => priority \in 0..99
      /\ n % 5 \notin {0, 1} => priority = 120
  BY SchedulerAssumption DEF Priorities
<1>2. /\ t.pid = n /\ t.state = "READY" /\ t.sched_type = TypeOf(n) /\ t.priority = priority
      /\ t.expected_exec_time = exec_time /\ t.accu_time_slice = 0
      /\ t.remaining_exec_time = exec_time /\ t.turnaround_time = 0
  BY DEF NewTask, ZeroTask
<1>3. /\ TypeOf(n) \in {"FIFO", "RR", "NORMAL"}
      /\ TypeOf(n) \in {"FIFO", "RR"} <=> n % 5 \in {0, 1}
      /\ QueueOf(n) \in 0..1
      /\ QueueOf(n) = 0 <=> n % 5 \in {0, 1}
  BY DEF TypeOf, QueueOf
<1>4. t \in task_struct
  <2> DEFINE t1 == [ZeroTask EXCEPT !.pid = n, !.sched_type = TypeOf(n)]
             t2 == [t1 EXCEPT !.priority = priority, !.expected_exec_time = exec_time]
  <2>1. ZeroTask \in task_struct
    BY DEF ZeroTask, task_struct
  <2>2. t1 \in task_struct
    BY <1>3, <2>1 DEF task_struct
  <2>3. t2 \in task_struct
    <3> HIDE DEF t1
    <3> QED BY <1>1, <2>2 DEF task_struct
  <2>4. [t2 EXCEPT !.remaining_exec_time = exec_time] \in task_struct
    <3> HIDE DEF t2
    <3> QED BY <1>1, <2>3 DEF task_struct
  <2> QED BY <2>4 DEF NewTask
<1>5. Placed(t, QueueOf(n)) /\ Accounted(t)
  BY <1>1, <1>2, <1>3 DEF Placed, Accounted
<1> QED BY <1>2, <1>3, <1>4, <1>5 DEF RightTask

(* The queues of CPU CpuOf(n) after task n was added.                        *)
Created(q, n, priority, exec_time) ==
  [q EXCEPT ![QueueOf(n)] = AddTask(@, NewTask(n, priority, exec_time))]

(* The CPU that a task is created for keeps it, with what it had.            *)
LEMMA KeptCreate ==
  ASSUME QueuesSuffice, NEW q, NEW n \in Nat, n < num_processes,
         NEW finished, finished[n] = 0, Kept(q, CpuOf(n), n, {}, finished),
         NEW priority \in Priorities(n), NEW exec_time \in EXEC_TIMES
  PROVE  Kept(Created(q, n, priority, exec_time), CpuOf(n), n + 1, {}, finished)
<1> DEFINE r == QueueOf(n)
           c == CpuOf(n)
           t == NewTask(n, priority, exec_time)
           a == [q EXCEPT ![r] = AddTask(@, t)]
<1>1. /\ t \in task_struct /\ t.pid = n /\ t.state = "READY"
      /\ RightTask(t, r, c, n + 1, finished) /\ r \in 0..1
  BY NewTaskFits
<1>2. KeptBut(q, c, n, 3, 0, finished) /\ Room(q, c, n)
  BY KeptAll
<1>3. /\ q \in [RQs -> circular_buffer]
      /\ q[0].tail \in Nat /\ q[1].tail \in Nat /\ q[2].tail \in Nat
  BY <1>2 DEF KeptBut, InPlace, cpu_run_queue, circular_buffer, RQs
<1>4. /\ Cardinality(Assigned(c, 0, n)) \in Nat /\ Cardinality(Assigned(c, 1, n)) \in Nat
      /\ Cardinality(Assigned(c, 0, n + 1)) =
           Cardinality(Assigned(c, 0, n)) + (IF r = 0 THEN 1 ELSE 0)
      /\ Cardinality(Assigned(c, 1, n + 1)) =
           Cardinality(Assigned(c, 1, n)) + (IF r = 1 THEN 1 ELSE 0)
  BY AssignedSize
<1>5. /\ Cardinality(Assigned(c, 0, n + 1)) <= MAX_QUEUE_SIZE
      /\ Cardinality(Assigned(c, 1, n + 1)) <= MAX_QUEUE_SIZE
  BY AssignedFits, CpuOfType, SchedulerAssumption
<1> HIDE DEF r, c, t
<1>6. q[r].tail < MAX_QUEUE_SIZE
  BY <1>1, <1>2, <1>3, <1>4, <1>5, QueueAssumption DEF Room
<1>7. OnlyMissing(t.pid, q, c, n + 1, 3, 0, finished)
  <2>1. ASSUME NEW r1 \in RQs, NEW j1 \in Live(q[r1])
        PROVE  q[r1].tasks[j1].pid # n
    <3>1. q[r1].tasks[j1].pid \in 0 .. n - 1
      BY <1>2 DEF KeptBut, InPlace, RightTask, RQs
    <3> QED BY <3>1
  <2>2. \A pid \in 0 .. (n + 1) - 1 : CpuOf(pid) = c /\ finished[pid] = 0 /\ pid # n =>
          \E r1 \in RQs : \E j1 \in Live(q[r1]) :
            (r1 # 3 \/ j1 # 0) /\ q[r1].tasks[j1].pid = pid
    BY <1>2 DEF KeptBut
  <2> QED BY <1>1, <2>1, <2>2 DEF OnlyMissing
<1>8. r \in RQs /\ r # 3
  BY <1>1 DEF RQs
<1>9. InPlace(q, c, n, 3, 0, finished)
  BY <1>2 DEF KeptBut
<1>10. KeptBut(a, c, n + 1, 3, 0, finished)
  BY <1>1, <1>6, <1>7, <1>8, <1>9, KeptAdd
<1>11. Room(a, c, n + 1)
  <2>1. \A r1 \in RQs : a[r1].tail = q[r1].tail + (IF r1 = r THEN 1 ELSE 0)
    BY <1>3, <1>8 DEF AddTask, RQs
  <2> QED BY <1>1, <1>2, <1>3, <1>4, <2>1 DEF Room, RQs
<1> QED BY <1>10, <1>11, KeptAll DEF r, c, t, Created

(* A task created for another CPU changes nothing.                           *)
LEMMA KeptElsewhere ==
  ASSUME NEW q, NEW c, NEW n \in Nat, NEW finished, Kept(q, c, n, {}, finished), CpuOf(n) # c
  PROVE  Kept(q, c, n + 1, {}, finished)
<1>1. Room(q, c, n + 1)
  BY AssignedSize DEF Kept, Room
<1>2. ASSUME NEW r \in RQs, NEW j \in Live(q[r])
      PROVE  RightTask(q[r].tasks[j], r, c, n + 1, finished) /\ q[r].tasks[j].state = "READY"
  BY DEF Kept, RightTask
<1>3. ASSUME NEW pid \in 0 .. (n + 1) - 1, CpuOf(pid) = c, finished[pid] = 0
      PROVE  \E r \in RQs : \E j \in Live(q[r]) : q[r].tasks[j].pid = pid
  BY <1>3 DEF Kept
<1> QED BY <1>1, <1>2, <1>3 DEF Kept

(* The queue after the task in slot (r, j) was picked.                       *)
Picked(q, r, j) ==
  [q EXCEPT ![r].tasks[j] = [@ EXCEPT !.state = "RUNNING", !.turnaround_started = TRUE]]

(* Picking a task changes its state alone, and no tail.                      *)
LEMMA PickedTask ==
  ASSUME NEW q \in cpu_run_queue, NEW r \in RQs, NEW j \in Live(q[r])
  PROVE  /\ \A r1 \in RQs : Picked(q, r, j)[r1].tail = q[r1].tail
         /\ Picked(q, r, j)[r].tasks[j].sched_type = q[r].tasks[j].sched_type
         /\ Picked(q, r, j)[r].tasks[j].remaining_exec_time = q[r].tasks[j].remaining_exec_time
<1> DEFINE t == [q[r].tasks[j] EXCEPT !.state = "RUNNING", !.turnaround_started = TRUE]
           p == [q EXCEPT ![r].tasks[j] = t]
<1>1. q[r].tasks[j] \in task_struct /\ j \in Slots
  BY LiveSlot
<1>2. /\ t \in task_struct /\ t.sched_type = q[r].tasks[j].sched_type
      /\ t.remaining_exec_time = q[r].tasks[j].remaining_exec_time
  BY <1>1 DEF task_struct
<1>3. p = Picked(q, r, j)
  BY DEF Picked
<1> HIDE DEF t
<1>4. /\ p \in cpu_run_queue
      /\ \A r1 \in RQs : p[r1].tail = q[r1].tail /\ p[r1].count = q[r1].count
      /\ p[r].tasks[j] = t
  BY <1>1, <1>2, ReplaceKeeps
<1> QED BY <1>2, <1>3, <1>4

(* Once picked, the task is the one the consumer holds.                      *)
LEMMA KeptPick ==
  ASSUME NEW q, NEW c, NEW n \in Nat, NEW finished, Kept(q, c, n, {}, finished),
         NEW r \in RQs, NEW j \in Live(q[r])
  PROVE  Kept(Picked(q, r, j), c, n, {<<r, j>>}, finished)
<1> DEFINE t == [q[r].tasks[j] EXCEPT !.state = "RUNNING", !.turnaround_started = TRUE]
           p == [q EXCEPT ![r].tasks[j] = t]
<1>1. /\ q \in cpu_run_queue /\ j \in Slots /\ q[r].tasks[j] \in task_struct
      /\ t \in task_struct
  <2>1. q \in cpu_run_queue
    BY DEF Kept
  <2>2. j \in Slots /\ q[r].tasks[j] \in task_struct
    BY <2>1, LiveSlot
  <2> QED BY <2>1, <2>2 DEF task_struct
<1>2. /\ t.state = "RUNNING" /\ t.turnaround_started /\ t.pid = q[r].tasks[j].pid
      /\ t.sched_type = q[r].tasks[j].sched_type /\ t.priority = q[r].tasks[j].priority
      /\ t.expected_exec_time = q[r].tasks[j].expected_exec_time
      /\ t.accu_time_slice = q[r].tasks[j].accu_time_slice
      /\ t.remaining_exec_time = q[r].tasks[j].remaining_exec_time
      /\ t.turnaround_time = q[r].tasks[j].turnaround_time
  BY <1>1 DEF task_struct
<1> HIDE DEF t
<1>3. /\ p \in cpu_run_queue
      /\ \A r1 \in RQs : p[r1].tail = q[r1].tail /\ p[r1].count = q[r1].count
      /\ p[r].tasks[j] = t
      /\ \A r1 \in RQs : \A s \in Slots :
           r1 # r \/ s # j => p[r1].tasks[s] = q[r1].tasks[s]
  BY <1>1, ReplaceKeeps
<1> HIDE DEF p
<1>4. ASSUME NEW r1 \in RQs
      PROVE  Live(p[r1]) = Live(q[r1]) /\ Live(q[r1]) \subseteq Slots
  BY <1>1, <1>3, LiveSlot DEF Live
<1>5. ASSUME NEW r1 \in RQs, NEW s \in Live(p[r1])
      PROVE  /\ RightTask(p[r1].tasks[s], r1, c, n, finished)
             /\ p[r1].tasks[s].state = IF <<r1, s>> \in {<<r, j>>} THEN "RUNNING" ELSE "READY"
             /\ <<r1, s>> \in {<<r, j>>} => p[r1].tasks[s].turnaround_started
             /\ p[r1].tasks[s].pid = q[r1].tasks[s].pid
  <2>1. s \in Live(q[r1]) /\ s \in Slots
    BY <1>4
  <2>2. RightTask(q[r1].tasks[s], r1, c, n, finished) /\ q[r1].tasks[s].state = "READY"
    BY <2>1 DEF Kept
  <2>3. CASE r1 = r /\ s = j
    <3>1. p[r1].tasks[s] = t
      BY <1>3, <2>3
    <3>2. RightTask(t, r1, c, n, finished)
      BY <1>2, <2>2, <2>3 DEF RightTask, Placed, Accounted
    <3> QED BY <1>2, <2>3, <3>1, <3>2
  <2>4. CASE ~(r1 = r /\ s = j)
    <3>1. p[r1].tasks[s] = q[r1].tasks[s]
      BY <1>3, <2>1, <2>4
    <3> QED BY <2>2, <2>4, <3>1
  <2> QED BY <2>3, <2>4
<1>6. Room(p, c, n)
  BY <1>3 DEF Kept, Room, RQs
<1>7. Kept(p, c, n, {<<r, j>>}, finished)
  BY <1>3, <1>4, <1>5, <1>6 DEF Kept
<1> QED BY <1>7 DEF p, t, Picked

(* The queue after the service time of a run has been charged.               *)
AfterRun(q, l) ==
  [update_turnaround_time(q, l.time_slice) EXCEPT
     ![l.rq_num].tasks[l.buf_index] = Charged(@, l)]

(* The task that ran, as it is then.                                         *)
RunTask(q, l) == AfterRun(q, l)[l.rq_num].tasks[l.buf_index]

(* Charging a time slice keeps the account of the service, and places the    *)
(* task by its new priority.                                                 *)
LEMMA ChargedTask ==
  ASSUME NEW t \in task_struct, NEW l \in Locals, Accounted(t), t.turnaround_started,
         l.time_slice <= t.remaining_exec_time, l.sched_type = t.sched_type
  PROVE  LET u == Charged([t EXCEPT !.turnaround_time = @ + l.time_slice], l)
         IN  /\ u \in task_struct /\ u.pid = t.pid /\ u.sched_type = t.sched_type
             /\ IF t.sched_type = "NORMAL" THEN u.priority \in 100..139
                                           ELSE u.priority = t.priority
             /\ u.state = "FINISHED" \/ (u.state = "READY" /\ Accounted(u))
<1> DEFINE s == [t EXCEPT !.turnaround_time = @ + l.time_slice]
           accu == s.accu_time_slice + l.time_slice
           left == s.expected_exec_time - accu
           priority == IF l.sched_type = "NORMAL"
                       THEN NewPriority(s.priority, l.temp_sleep_avg) ELSE s.priority
           state == IF left <= 0 THEN "FINISHED" ELSE "READY"
           u == Charged(s, l)
<1>1. l.time_slice \in Nat /\ l.temp_sleep_avg \in 0 .. MAX_SLEEP_AVG
  BY DEF Locals
<1>2. /\ s \in task_struct /\ s.pid = t.pid /\ s.sched_type = t.sched_type
      /\ s.priority = t.priority /\ s.expected_exec_time = t.expected_exec_time
      /\ s.accu_time_slice = t.accu_time_slice
      /\ s.turnaround_time = t.turnaround_time + l.time_slice
  BY <1>1 DEF task_struct
<1>3. /\ t.expected_exec_time \in Nat /\ t.accu_time_slice \in Nat /\ t.turnaround_time \in Nat
      /\ t.remaining_exec_time \in Int /\ t.priority \in 0..139
  BY DEF task_struct
<1> HIDE DEF s
<1>4. accu \in Nat /\ left \in Int /\ state \in {"READY", "FINISHED"}
  BY <1>1, <1>2, <1>3
<1>5. /\ t.sched_type = "NORMAL" => priority \in 100..139
      /\ t.sched_type # "NORMAL" => priority = t.priority
      /\ priority \in 0..139
  <2>1. s.priority \in 0..139
    BY <1>2, <1>3
  <2>2. NewPriority(s.priority, l.temp_sleep_avg) \in 100..139
    BY <1>1, <2>1, PriorityBounds
  <2> QED BY <1>2, <1>3, <2>1, <2>2
<1>6. u = [s EXCEPT !.accu_time_slice = accu, !.remaining_exec_time = left,
                    !.priority = priority, !.state = state]
  BY DEF Charged
<1> HIDE DEF priority, u
<1>7. /\ u \in task_struct /\ u.pid = s.pid /\ u.sched_type = s.sched_type
      /\ u.accu_time_slice = accu /\ u.remaining_exec_time = left
      /\ u.expected_exec_time = s.expected_exec_time
      /\ u.turnaround_time = s.turnaround_time
      /\ u.priority = priority /\ u.state = state
  <2> HIDE DEF accu, left, state
  <2> QED BY <1>2, <1>4, <1>5, <1>6 DEF task_struct
<1>8. u.state = "READY" => Accounted(u)
  <2>1. u.accu_time_slice = accu /\ u.remaining_exec_time = left /\ left = s.expected_exec_time - accu
    BY <1>7
  <2>2. u.state = "READY" => left > 0
    BY <1>4, <1>7
  <2>3. accu <= s.turnaround_time
    BY <1>1, <1>2, <1>3 DEF Accounted
  <2> QED BY <1>7, <2>1, <2>2, <2>3 DEF Accounted
<1>9. /\ u \in task_struct /\ u.pid = t.pid /\ u.sched_type = t.sched_type
      /\ IF t.sched_type = "NORMAL" THEN u.priority \in 100..139
                                    ELSE u.priority = t.priority
      /\ u.state = "FINISHED" \/ (u.state = "READY" /\ Accounted(u))
  <2>1. u.state \in {"READY", "FINISHED"}
    BY <1>4, <1>7
  <2> QED BY <1>2, <1>5, <1>7, <1>8, <2>1
<1> QED BY <1>9 DEF u, s

(* After a run everything but the task that ran is in place.                 *)
LEMMA KeptAfterRun ==
  ASSUME NEW q, NEW c, NEW n \in Nat, NEW finished, NEW l \in Locals,
         l.buf_index \in Live(q[l.rq_num]),
         Kept(q, c, n, {<<l.rq_num, l.buf_index>>}, finished),
         l.time_slice <= q[l.rq_num].tasks[l.buf_index].remaining_exec_time,
         l.sched_type = q[l.rq_num].tasks[l.buf_index].sched_type
  PROVE  LET u == AfterRun(q, l)
             t == u[l.rq_num].tasks[l.buf_index]
         IN  /\ u \in cpu_run_queue /\ \A r \in RQs : u[r].count = u[r].tail
             /\ \A r \in RQs : u[r].tail = q[r].tail
             /\ \A r \in RQs : \A j \in Live(q[r]) :
                  /\ u[r].tasks[j].pid = q[r].tasks[j].pid
                  /\ r # l.rq_num \/ j # l.buf_index =>
                       RightTask(u[r].tasks[j], r, c, n, finished) /\ u[r].tasks[j].state = "READY"
             /\ t \in task_struct
             /\ l.rq_num = 0 <=> t.sched_type \in {"FIFO", "RR"}
             /\ IF l.rq_num = 0 THEN t.priority \in 0..99 ELSE t.priority \in 100..139
             /\ t.state = "FINISHED" \/ (t.state = "READY" /\ Accounted(t))
<1> DEFINE r0 == l.rq_num
           j0 == l.buf_index
           v == update_turnaround_time(q, l.time_slice)
           u == AfterRun(q, l)
           t == u[r0].tasks[j0]
<1>1. /\ q \in cpu_run_queue /\ \A r \in RQs : q[r].count = q[r].tail
      /\ r0 \in RQs /\ j0 \in Live(q[r0]) /\ l.time_slice \in Nat
  BY DEF Kept, Locals
<1>2. /\ j0 \in Slots /\ q[r0].tasks[j0] \in task_struct
      /\ \A r \in RQs : \A j \in Live(q[r]) : j \in Slots /\ q[r].tasks[j] \in task_struct
  BY <1>1, LiveSlot
<1>3. /\ v \in cpu_run_queue
      /\ \A r \in RQs : v[r].tail = q[r].tail /\ v[r].count = q[r].count
      /\ \A r \in RQs : \A j \in Live(q[r]) :
           v[r].tasks[j] =
             IF q[r].tasks[j].turnaround_started
             THEN [q[r].tasks[j] EXCEPT !.turnaround_time = @ + l.time_slice]
             ELSE q[r].tasks[j]
  BY <1>1, TurnaroundKeeps
<1>4. /\ RightTask(q[r0].tasks[j0], r0, c, n, finished)
      /\ q[r0].tasks[j0].turnaround_started
  BY <1>1 DEF Kept
<1> HIDE DEF r0, j0, v
<1>5. /\ Charged(v[r0].tasks[j0], l) \in task_struct
      /\ Charged(v[r0].tasks[j0], l).pid = q[r0].tasks[j0].pid
      /\ Charged(v[r0].tasks[j0], l).sched_type = q[r0].tasks[j0].sched_type
      /\ IF q[r0].tasks[j0].sched_type = "NORMAL"
         THEN Charged(v[r0].tasks[j0], l).priority \in 100..139
         ELSE Charged(v[r0].tasks[j0], l).priority = q[r0].tasks[j0].priority
      /\ \/ Charged(v[r0].tasks[j0], l).state = "FINISHED"
         \/ /\ Charged(v[r0].tasks[j0], l).state = "READY"
            /\ Accounted(Charged(v[r0].tasks[j0], l))
  <2>1. v[r0].tasks[j0] = [q[r0].tasks[j0] EXCEPT !.turnaround_time = @ + l.time_slice]
    BY <1>1, <1>3, <1>4
  <2>2. /\ Accounted(q[r0].tasks[j0])
        /\ l.time_slice <= q[r0].tasks[j0].remaining_exec_time
        /\ l.sched_type = q[r0].tasks[j0].sched_type
    BY <1>4 DEF RightTask, r0, j0
  <2> QED BY <1>2, <1>4, <2>1, <2>2, ChargedTask
<1>6. u = [v EXCEPT ![r0].tasks[j0] = Charged(v[r0].tasks[j0], l)]
  BY DEF AfterRun, v, r0, j0
<1> DEFINE t0 == Charged(v[r0].tasks[j0], l)
<1> HIDE DEF u, t0
<1>7. /\ u \in cpu_run_queue
      /\ \A r \in RQs : u[r].tail = v[r].tail /\ u[r].count = v[r].count
      /\ u[r0].tasks[j0] = t0
      /\ \A r \in RQs : \A j \in Slots : r # r0 \/ j # j0 => u[r].tasks[j] = v[r].tasks[j]
  <2>1. u = [v EXCEPT ![r0].tasks[j0] = t0]
    BY <1>6 DEF t0
  <2>2. v \in cpu_run_queue /\ r0 \in RQs /\ j0 \in Slots /\ t0 \in task_struct
    BY <1>1, <1>2, <1>3, <1>5 DEF t0
  <2> DEFINE p == [v EXCEPT ![r0].tasks[j0] = t0]
  <2>3. /\ p \in cpu_run_queue
        /\ \A r \in RQs : p[r].tail = v[r].tail /\ p[r].count = v[r].count
        /\ p[r0].tasks[j0] = t0
        /\ \A r \in RQs : \A j \in Slots : r # r0 \/ j # j0 => p[r].tasks[j] = v[r].tasks[j]
    BY <2>2, ReplaceKeeps
  <2> QED BY <2>1, <2>3
<1>8. ASSUME NEW r \in RQs, NEW j \in Live(q[r]), r # r0 \/ j # j0
      PROVE  /\ u[r].tasks[j].pid = q[r].tasks[j].pid
             /\ RightTask(u[r].tasks[j], r, c, n, finished) /\ u[r].tasks[j].state = "READY"
  <2> DEFINE w == q[r].tasks[j]
             x == u[r].tasks[j]
  <2>1. /\ w \in task_struct /\ RightTask(w, r, c, n, finished) /\ w.state = "READY"
    BY <1>2, <1>8 DEF Kept, r0, j0
  <2>2. x = IF w.turnaround_started
            THEN [w EXCEPT !.turnaround_time = @ + l.time_slice] ELSE w
    BY <1>2, <1>3, <1>7, <1>8
  <2> HIDE DEF w, x
  <2>3. /\ x.pid = w.pid /\ x.state = w.state /\ x.sched_type = w.sched_type
        /\ x.priority = w.priority /\ x.expected_exec_time = w.expected_exec_time
        /\ x.accu_time_slice = w.accu_time_slice
        /\ x.remaining_exec_time = w.remaining_exec_time
        /\ x.turnaround_time >= w.turnaround_time
        /\ x.turnaround_time \in Nat /\ w.turnaround_time \in Nat /\ w.accu_time_slice \in Nat
    BY <1>1, <2>1, <2>2 DEF task_struct
  <2>4. Placed(x, r) /\ Accounted(x)
    BY <2>1, <2>3 DEF RightTask, Placed, Accounted
  <2>5. x.pid = w.pid /\ RightTask(x, r, c, n, finished) /\ x.state = "READY"
    BY <2>1, <2>3, <2>4 DEF RightTask
  <2> QED BY <2>5 DEF w, x
<1>9. /\ r0 = 0 <=> t0.sched_type \in {"FIFO", "RR"}
      /\ IF r0 = 0 THEN t0.priority \in 0..99 ELSE t0.priority \in 100..139
  <2>1. /\ r0 = 0 <=> q[r0].tasks[j0].sched_type \in {"FIFO", "RR"}
        /\ r0 = 0 => q[r0].tasks[j0].priority \in 0..99
        /\ q[r0].tasks[j0].sched_type \in {"FIFO", "RR", "NORMAL"}
    BY <1>2, <1>4 DEF RightTask, Placed, task_struct
  <2>2. /\ t0.sched_type = q[r0].tasks[j0].sched_type
        /\ IF q[r0].tasks[j0].sched_type = "NORMAL" THEN t0.priority \in 100..139
           ELSE t0.priority = q[r0].tasks[j0].priority
    BY <1>5 DEF t0
  <2> QED BY <2>1, <2>2
<1>10. /\ t0 \in task_struct /\ t0.pid = q[r0].tasks[j0].pid
       /\ t0.state = "FINISHED" \/ (t0.state = "READY" /\ Accounted(t0))
  BY <1>5 DEF t0
<1>11. /\ u \in cpu_run_queue /\ \A r \in RQs : u[r].count = u[r].tail
       /\ \A r \in RQs : u[r].tail = q[r].tail
  BY <1>1, <1>3, <1>7
<1>12. \A r \in RQs : \A j \in Live(q[r]) :
         /\ u[r].tasks[j].pid = q[r].tasks[j].pid
         /\ r # r0 \/ j # j0 =>
              RightTask(u[r].tasks[j], r, c, n, finished) /\ u[r].tasks[j].state = "READY"
  BY <1>7, <1>8, <1>10
<1>13. /\ u[r0].tasks[j0] \in task_struct
       /\ r0 = 0 <=> u[r0].tasks[j0].sched_type \in {"FIFO", "RR"}
       /\ IF r0 = 0 THEN u[r0].tasks[j0].priority \in 0..99
                    ELSE u[r0].tasks[j0].priority \in 100..139
       /\ \/ u[r0].tasks[j0].state = "FINISHED"
          \/ u[r0].tasks[j0].state = "READY" /\ Accounted(u[r0].tasks[j0])
  BY <1>7, <1>9, <1>10
<1> QED BY <1>11, <1>12, <1>13 DEF u, r0, j0

(* The task is reported finished.                                            *)
Reported(f, pid) == [f EXCEPT ![pid] = @ + 1]

(* A task that has finished is deleted; one that has not stays or moves to   *)
(* the queue of its new priority, where there is room for it.                *)
LEMMA KeptUpdate ==
  ASSUME QueuesSuffice, NEW q, NEW c \in CPUs, NEW n \in 0 .. num_processes,
         NEW f \in [Pids -> Nat],
         NEW l \in Locals, l.buf_index \in Live(q[l.rq_num]),
         Kept(q, c, n, {<<l.rq_num, l.buf_index>>}, f),
         l.time_slice <= q[l.rq_num].tasks[l.buf_index].remaining_exec_time,
         l.sched_type = q[l.rq_num].tasks[l.buf_index].sched_type
  PROVE  /\ RunTask(q, l).pid \in 0 .. n - 1 /\ CpuOf(RunTask(q, l).pid) = c
         /\ f[RunTask(q, l).pid] = 0
         /\ RunTask(q, l).state = "FINISHED" =>
              Kept(delete_task_from_queue(AfterRun(q, l), l.rq_num, l.buf_index), c, n, {},
                   Reported(f, RunTask(q, l).pid))
         /\ RunTask(q, l).state # "FINISHED" =>
              Kept(PutBack(AfterRun(q, l), l.rq_num, l.buf_index), c, n, {}, f)
<1> DEFINE r == l.rq_num
           j == l.buf_index
           u == AfterRun(q, l)
           t == u[r].tasks[j]
           g == Reported(f, t.pid)
<1>1. r \in RQs /\ j \in Live(q[r]) /\ n \in Nat
  BY SchedulerAssumption DEF Locals
<1>2. /\ u \in cpu_run_queue /\ \A r1 \in RQs : u[r1].count = u[r1].tail
      /\ \A r1 \in RQs : u[r1].tail = q[r1].tail
      /\ \A r1 \in RQs : \A j1 \in Live(q[r1]) :
           /\ u[r1].tasks[j1].pid = q[r1].tasks[j1].pid
           /\ r1 # r \/ j1 # j =>
                RightTask(u[r1].tasks[j1], r1, c, n, f) /\ u[r1].tasks[j1].state = "READY"
      /\ t \in task_struct
      /\ r = 0 <=> t.sched_type \in {"FIFO", "RR"}
      /\ IF r = 0 THEN t.priority \in 0..99 ELSE t.priority \in 100..139
      /\ t.state = "FINISHED" \/ (t.state = "READY" /\ Accounted(t))
  BY <1>1, KeptAfterRun
<1>3. Kept(q, c, n, {<<r, j>>}, f)
  OBVIOUS
<1> HIDE DEF r, j, u
<1>4. \A r1 \in RQs : Live(u[r1]) = Live(q[r1])
  BY <1>2 DEF Live
<1>5. t.pid \in 0 .. n - 1 /\ CpuOf(t.pid) = c /\ f[t.pid] = 0
  <2>1. RightTask(q[r].tasks[j], r, c, n, f)
    BY <1>1, <1>3 DEF Kept
  <2>2. t.pid = q[r].tasks[j].pid
    BY <1>1, <1>2
  <2> QED BY <2>1, <2>2 DEF RightTask
<1>6. \A r1, r2 \in RQs : \A j1 \in Live(u[r1]), j2 \in Live(u[r2]) :
        u[r1].tasks[j1].pid = u[r2].tasks[j2].pid => r1 = r2 /\ j1 = j2
  BY <1>2, <1>3, <1>4 DEF Kept
<1>7. ASSUME NEW pid \in 0 .. n - 1, CpuOf(pid) = c, f[pid] = 0
      PROVE  \E r1 \in RQs : \E j1 \in Live(u[r1]) : u[r1].tasks[j1].pid = pid
  <2>1. PICK r1 \in RQs : \E j1 \in Live(q[r1]) : q[r1].tasks[j1].pid = pid
    BY <1>3, <1>7 DEF Kept
  <2> QED BY <1>2, <1>4, <2>1
<1>8. j \in Live(u[r]) /\ \A r1 \in RQs : u[r1].tail \in Nat /\ u[r1] \in circular_buffer
  BY <1>1, <1>2, <1>4 DEF cpu_run_queue, circular_buffer
<1>9. /\ u[0].tail <= Cardinality(Assigned(c, 0, n))
      /\ u[1].tail + u[2].tail <= Cardinality(Assigned(c, 1, n))
      /\ u[0].tail \in Nat /\ u[1].tail \in Nat /\ u[2].tail \in Nat
      /\ u[r].tail \in Nat \ {0}
  <2>1. Room(q, c, n)
    BY <1>3 DEF Kept
  <2>2. u[0].tail = q[0].tail /\ u[1].tail = q[1].tail /\ u[2].tail = q[2].tail
    BY <1>2 DEF RQs
  <2>3. u[0].tail \in Nat /\ u[1].tail \in Nat /\ u[2].tail \in Nat
    BY <1>8 DEF RQs
  <2>4. u[r].tail \in Nat \ {0}
    BY <1>1, <1>8 DEF Live
  <2> QED BY <2>1, <2>2, <2>3, <2>4 DEF Room
<1>10. Cardinality(Assigned(c, 0, n)) \in Nat /\ Cardinality(Assigned(c, 1, n)) \in Nat
  BY <1>1, AssignedSize
<1> HIDE DEF t
<1>11. ASSUME t.state = "FINISHED"
       PROVE  Kept(delete_task_from_queue(u, r, j), c, n, {}, g)
  <2>1. /\ \A pid \in 0 .. n - 1 : g[pid] = IF pid = t.pid THEN 1 ELSE f[pid]
    BY <1>1, <1>5, SchedulerAssumption DEF Pids, Reported
  <2> HIDE DEF g
  <2>2. ASSUME NEW r1 \in RQs, NEW j1 \in Live(u[r1]), r1 # r \/ j1 # j
        PROVE  RightTask(u[r1].tasks[j1], r1, c, n, g) /\ u[r1].tasks[j1].state = "READY"
    <3>1. RightTask(u[r1].tasks[j1], r1, c, n, f) /\ u[r1].tasks[j1].state = "READY"
      BY <1>2, <1>4, <2>2
    <3>2. u[r1].tasks[j1].pid # t.pid
      BY <1>1, <1>6, <1>8, <2>2 DEF t
    <3> QED BY <2>1, <3>1, <3>2 DEF RightTask
  <2>3. ASSUME NEW pid \in 0 .. n - 1, CpuOf(pid) = c, g[pid] = 0
        PROVE  \E r1 \in RQs : \E j1 \in Live(u[r1]) :
                 (r1 # r \/ j1 # j) /\ u[r1].tasks[j1].pid = pid
    <3>1. pid # t.pid /\ f[pid] = 0
      BY <2>1, <2>3
    <3>2. PICK r1 \in RQs : \E j1 \in Live(u[r1]) : u[r1].tasks[j1].pid = pid
      BY <1>7, <2>3, <3>1
    <3> QED BY <3>1, <3>2 DEF t
  <2>4. KeptBut(u, c, n, r, j, g)
    BY <1>2, <1>6, <2>2, <2>3 DEF KeptBut, InPlace
  <2>5. KeptBut(delete_task_from_queue(u, r, j), c, n, 3, 0, g)
    BY <1>1, <1>8, <2>4, KeptDelete
  <2>6. Room(delete_task_from_queue(u, r, j), c, n)
    BY <1>1, <1>2, <1>9, <1>10 DEF Room, delete_task_from_queue, Delete, RQs, cpu_run_queue
  <2> QED BY <2>5, <2>6, KeptAll
<1>12. ASSUME t.state # "FINISHED"
       PROVE  Kept(PutBack(u, r, j), c, n, {}, f)
  <2>1. t.state = "READY" /\ Accounted(t)
    BY <1>2, <1>12 DEF t
  <2>2. /\ r = 0 <=> t.sched_type \in {"FIFO", "RR"}
        /\ IF r = 0 THEN t.priority \in 0..99 ELSE t.priority \in 100..139
    BY <1>2 DEF t
  <2>3. CASE Placed(t, r)
    <3>1. PutBack(u, r, j) = u
      BY <1>1, <2>2, <2>3 DEF PutBack, Placed, t, RQs
    <3>2. \A r1 \in RQs : \A j1 \in Live(u[r1]) :
            RightTask(u[r1].tasks[j1], r1, c, n, f) /\ u[r1].tasks[j1].state = "READY"
      BY <1>2, <1>4, <1>5, <2>1, <2>3 DEF RightTask, t
    <3>3. Room(u, c, n)
      BY <1>9 DEF Room
    <3>4. Kept(u, c, n, {}, f)
      BY <1>2, <1>6, <1>7, <3>2, <3>3 DEF Kept
    <3> QED BY <3>1, <3>4
  <2>4. ASSUME NEW d \in {1, 2}, r = 3 - d, Placed(t, d)
        PROVE  Kept(move_task_from_rqSrc_to_rqDest(d, r, u, j), c, n, {}, f)
    <3> DEFINE a == [u EXCEPT ![d] = AddTask(@, t)]
    <3>1. d \in RQs /\ d # r /\ r \in {1, 2}
      BY <2>4 DEF RQs
    <3>2. u[d].tail < MAX_QUEUE_SIZE
      <4>1. Cardinality(Assigned(c, 1, n)) <= MAX_QUEUE_SIZE
        BY AssignedFits
      <4> QED BY <1>9, <1>10, <2>4, <4>1, QueueAssumption
    <3>3. ASSUME NEW r1 \in RQs, NEW j1 \in Live(u[r1]), r1 # r \/ j1 # j
          PROVE  /\ RightTask(u[r1].tasks[j1], r1, c, n, f) /\ u[r1].tasks[j1].state = "READY"
                 /\ u[r1].tasks[j1].pid # t.pid
      <4>1. RightTask(u[r1].tasks[j1], r1, c, n, f) /\ u[r1].tasks[j1].state = "READY"
        BY <1>2, <1>4, <3>3
      <4>2. u[r1].tasks[j1].pid # t.pid
        BY <1>1, <1>6, <1>8, <3>3 DEF t
      <4> QED BY <4>1, <4>2
    <3>4. InPlace(u, c, n, r, j, f)
      BY <1>2, <1>6, <3>3 DEF InPlace
    <3>5. RightTask(t, d, c, n, f) /\ t.state = "READY" /\ t \in task_struct
      BY <1>2, <1>5, <2>1, <2>4 DEF RightTask, t
    <3>6. OnlyMissing(t.pid, u, c, n, r, j, f)
      <4>1. ASSUME NEW pid \in 0 .. n - 1, CpuOf(pid) = c, f[pid] = 0, pid # t.pid
            PROVE  \E r1 \in RQs : \E j1 \in Live(u[r1]) :
                     (r1 # r \/ j1 # j) /\ u[r1].tasks[j1].pid = pid
        <5>1. PICK r1 \in RQs : \E j1 \in Live(u[r1]) : u[r1].tasks[j1].pid = pid
          BY <1>7, <4>1
        <5> QED BY <4>1, <5>1 DEF t
      <4> QED BY <3>3, <4>1 DEF OnlyMissing
    <3>7. KeptBut(a, c, n, r, j, f)
      BY <1>1, <3>1, <3>2, <3>4, <3>5, <3>6, KeptAdd
    <3>8. /\ a[r] = u[r] /\ a[d].tail = u[d].tail + 1
          /\ \A r1 \in RQs \ {d} : a[r1] = u[r1]
      BY <1>2, <3>1 DEF AddTask, cpu_run_queue
    <3>9. move_task_from_rqSrc_to_rqDest(d, r, u, j) = delete_task_from_queue(a, r, j)
      BY DEF move_task_from_rqSrc_to_rqDest, t
    <3>10. a \in [RQs -> circular_buffer]
      BY <3>7 DEF KeptBut, InPlace, cpu_run_queue
    <3> HIDE DEF a
    <3>11. KeptBut(delete_task_from_queue(a, r, j), c, n, 3, 0, f)
      <4>1. j \in Live(a[r])
        BY <1>8, <3>8
      <4> QED BY <1>1, <3>7, <4>1, KeptDelete
    <3>12. Room(delete_task_from_queue(a, r, j), c, n)
      <4> DEFINE b == delete_task_from_queue(a, r, j)
      <4>1. b[r].tail = u[r].tail - 1 /\ b[d].tail = u[d].tail + 1 /\ b[0].tail = u[0].tail
        BY <2>4, <3>1, <3>8, <3>10 DEF delete_task_from_queue, Delete, RQs
      <4> HIDE DEF b
      <4> QED BY <1>9, <2>4, <4>1 DEF Room, b
    <3> QED BY <3>9, <3>11, <3>12, KeptAll
  <2>5. CASE ~Placed(t, r)
    <3>1. t.priority \in 100..139 /\ r # 0
      BY <2>2, <2>5 DEF Placed
    <3>2. CASE r = 1
      <4>1. t.priority >= 130 /\ Placed(t, 2)
        BY <2>2, <2>5, <3>1, <3>2 DEF Placed
      <4>2. PutBack(u, r, j) = move_task_from_rqSrc_to_rqDest(2, r, u, j)
        BY <3>2, <4>1 DEF PutBack, t
      <4> QED BY <2>4, <3>2, <4>1, <4>2
    <3>3. CASE r = 2
      <4>1. t.priority < 130 /\ Placed(t, 1)
        BY <2>2, <2>5, <3>1, <3>3 DEF Placed
      <4>2. PutBack(u, r, j) = move_task_from_rqSrc_to_rqDest(1, r, u, j)
        BY <3>1, <3>3, <4>1 DEF PutBack, t
      <4> QED BY <2>4, <3>3, <4>1, <4>2
    <3> QED BY <1>1, <3>1, <3>2, <3>3 DEF RQs
  <2> QED BY <2>3, <2>5
<1> QED BY <1>5, <1>11, <1>12 DEF u, t, r, j, RunTask

-----------------------------------------------------------------------------
(* The consumers and their queues.                                           *)

(* The number of tasks created is one of 0 to num_processes.                 *)
LEMMA CreatedType ==
  ASSUME TypeOK, PhaseInv
  PROVE  NumCreated \in 0 .. num_processes
BY SchedulerAssumption DEF TypeOK, PhaseInv, NumCreated

(* What a step of consumer k does to the queues: it changes its own only,    *)
(* keeps each task in its place, reports one task at most and brings none    *)
(* into an empty queue.                                                      *)
QueueChange(k) ==
  /\ cpu_run_queues' = [cpu_run_queues EXCEPT ![k] = cpu_run_queues'[k]]
  /\ Kept(cpu_run_queues'[k], k, NumCreated, Running(k)', reported')
  /\ reported' \in [Pids -> Nat]
  /\ \A pid \in Pids :
       \/ reported'[pid] = reported[pid]
       \/ CpuOf(pid) = k /\ pid < NumCreated /\ reported[pid] = 0 /\ reported'[pid] = 1
  /\ Emptied(k) => Emptied(k)'

(* What picking a task does to the queue of the CPU.                         *)
LEMMA PickQueue ==
  ASSUME TypeOK, PhaseInv, OwnQueue, QueueInv, NEW k \in CPUs, C_Pick(k)
  PROVE  QueueChange(k)
<1> DEFINE q == cpu_run_queues[k]
<1>1. cons[k].cpu_num = k /\ cons[k].pc = "pick"
  BY DEF OwnQueue, C_Pick
<1>2. PICK r \in RQs : \E j \in Slots :
        /\ IsTaskToRun(Queue(k), r, j)
        /\ cons' = [cons EXCEPT ![k] =
                      [@ EXCEPT !.pc = "run", !.rq_num = r, !.buf_index = j,
                                !.sched_type = Queue(k)[r].tasks[j].sched_type,
                                !.time_slice = get_quantum_size(Queue(k)[r].tasks[j])]]
        /\ cpu_run_queues' =
             [cpu_run_queues EXCEPT ![cons[k].cpu_num][r].tasks[j] =
                [@ EXCEPT !.state = "RUNNING", !.turnaround_started = TRUE]]
  BY DEF C_Pick
<1>3. PICK j \in Slots :
        /\ IsTaskToRun(Queue(k), r, j)
        /\ cons' = [cons EXCEPT ![k] =
                      [@ EXCEPT !.pc = "run", !.rq_num = r, !.buf_index = j,
                                !.sched_type = Queue(k)[r].tasks[j].sched_type,
                                !.time_slice = get_quantum_size(Queue(k)[r].tasks[j])]]
        /\ cpu_run_queues' =
             [cpu_run_queues EXCEPT ![cons[k].cpu_num][r].tasks[j] =
                [@ EXCEPT !.state = "RUNNING", !.turnaround_started = TRUE]]
  BY <1>2
<1> DEFINE p == Picked(q, r, j)
<1>4. /\ cpu_run_queues' = [cpu_run_queues EXCEPT ![k] = p]
      /\ cpu_run_queues'[k] = p
  BY <1>1, <1>3 DEF TypeOK, Picked
<1>5. j \in Live(q[r])
  BY <1>1, <1>3 DEF IsTaskToRun, Candidates, Queue
<1>6. Running(k) = {}
  BY <1>1 DEF Running, Using
<1>7. Kept(q, k, NumCreated, {}, reported) /\ NumCreated \in Nat
  BY <1>6, CreatedType, SchedulerAssumption DEF QueueInv
<1>8. Running(k)' = {<<r, j>>}
  <2>1. cons \in [CPUs -> Locals]
    BY DEF TypeOK
  <2>2. cons'[k].pc = "run" /\ cons'[k].rq_num = r /\ cons'[k].buf_index = j
    BY <1>3, <2>1 DEF Locals
  <2> QED BY <2>2 DEF Running, Using
<1> HIDE DEF q
<1>9. Kept(p, k, NumCreated, {<<r, j>>}, reported) /\ \A r1 \in RQs : p[r1].tail = q[r1].tail
  <2>1. Kept(p, k, NumCreated, {<<r, j>>}, reported)
    BY <1>5, <1>7, KeptPick
  <2>2. q \in cpu_run_queue
    BY <1>7 DEF Kept
  <2> QED BY <1>5, <2>1, <2>2, PickedTask
<1> HIDE DEF p
<1>10. reported' = reported
  BY DEF C_Pick
<1>11. Emptied(k) => Emptied(k)'
  BY <1>4, <1>9 DEF Emptied, q
<1> QED BY <1>4, <1>8, <1>9, <1>10, <1>11 DEF QueueChange, TypeOK

(* What returning a task, or dropping a finished one, does to the queue of   *)
(* the CPU.                                                                  *)
LEMMA UpdateQueue ==
  ASSUME QueuesSuffice, TypeOK, PhaseInv, OwnQueue, QueueInv, LocalInv,
         NEW k \in CPUs, C_Update(k)
  PROVE  QueueChange(k)
<1> DEFINE q == cpu_run_queues[k]
           l == cons[k]
           u == AfterRun(q, l)
           t == RunTask(q, l)
           f == Reported(reported, t.pid)
<1>1. l.cpu_num = k /\ l.pc = "update" /\ l \in Locals
  BY DEF OwnQueue, C_Update, TypeOK
<1>2. Running(k) = {<<l.rq_num, l.buf_index>>}
  BY <1>1 DEF Running, Using
<1>3. /\ Kept(q, k, NumCreated, {<<l.rq_num, l.buf_index>>}, reported)
      /\ NumCreated \in 0 .. num_processes /\ reported \in [Pids -> Nat]
  BY <1>2, CreatedType DEF QueueInv, TypeOK
<1>4. /\ l.buf_index \in Live(q[l.rq_num])
      /\ l.sched_type = q[l.rq_num].tasks[l.buf_index].sched_type
      /\ l.time_slice <= q[l.rq_num].tasks[l.buf_index].remaining_exec_time
  BY <1>1 DEF LocalInv, Using, Queue
<1>4a. /\ cpu_run_queues' =
           [cpu_run_queues EXCEPT ![l.cpu_num] =
              LET v == AfterRun(Queue(k), l)
              IN  IF v[l.rq_num].tasks[l.buf_index].state = "FINISHED"
                  THEN delete_task_from_queue(v, l.rq_num, l.buf_index)
                  ELSE PutBack(v, l.rq_num, l.buf_index)]
       /\ reported' =
            LET s == AfterRun(Queue(k), l)[l.rq_num].tasks[l.buf_index]
            IN  IF s.state = "FINISHED" THEN Reported(reported, s.pid) ELSE reported
      /\ cons' = [cons EXCEPT ![k] = [NoLocals("check") EXCEPT !.cpu_num = l.cpu_num]]
  BY DEF C_Update, AfterRun, Reported
<1>5. /\ cpu_run_queues' =
           [cpu_run_queues EXCEPT ![k] =
              IF t.state = "FINISHED" THEN delete_task_from_queue(u, l.rq_num, l.buf_index)
                                      ELSE PutBack(u, l.rq_num, l.buf_index)]
      /\ reported' = IF t.state = "FINISHED" THEN f ELSE reported
      /\ cons' = [cons EXCEPT ![k] = [NoLocals("check") EXCEPT !.cpu_num = k]]
  BY <1>1, <1>4a DEF Queue, RunTask
<1> HIDE DEF q, l
<1>6. /\ t.pid \in 0 .. NumCreated - 1 /\ CpuOf(t.pid) = k /\ reported[t.pid] = 0
      /\ t.state = "FINISHED" =>
           Kept(delete_task_from_queue(u, l.rq_num, l.buf_index), k, NumCreated, {}, f)
      /\ t.state # "FINISHED" =>
           Kept(PutBack(u, l.rq_num, l.buf_index), k, NumCreated, {}, reported)
  BY <1>1, <1>3, <1>4, KeptUpdate
<1> HIDE DEF u
<1>7. Running(k)' = {}
  <2>1. cons'[k].pc = "check"
    BY <1>5 DEF TypeOK, NoLocals
  <2> QED BY <2>1 DEF Running, Using
<1>8. ~Emptied(k)
  BY <1>1, <1>4 DEF Emptied, q, Live, Locals
<1>9. /\ cpu_run_queues' = [cpu_run_queues EXCEPT ![k] = cpu_run_queues'[k]]
      /\ cpu_run_queues'[k] =
           IF t.state = "FINISHED" THEN delete_task_from_queue(u, l.rq_num, l.buf_index)
                                   ELSE PutBack(u, l.rq_num, l.buf_index)
  BY <1>5 DEF TypeOK
<1>10. t.pid \in Pids /\ t.pid < NumCreated
  BY <1>3, <1>6, SchedulerAssumption DEF Pids
<1> HIDE DEF t
<1>11. /\ reported' \in [Pids -> Nat]
       /\ \A pid \in Pids :
            \/ reported'[pid] = reported[pid]
            \/ /\ CpuOf(pid) = k /\ pid < NumCreated
               /\ reported[pid] = 0 /\ reported'[pid] = 1
  BY <1>3, <1>5, <1>6, <1>10 DEF Reported
<1>12. Kept(cpu_run_queues'[k], k, NumCreated, Running(k)', reported')
  BY <1>5, <1>6, <1>7, <1>9
<1> QED BY <1>8, <1>9, <1>11, <1>12 DEF QueueChange

(* What any step of a consumer does to the queue of its CPU.                 *)
LEMMA ConsumerQueue ==
  ASSUME QueuesSuffice, TypeOK, PhaseInv, OwnQueue, QueueInv, LocalInv,
         NEW k \in CPUs, Consumer(k)
  PROVE  QueueChange(k)
<1>1. CASE C_Pick(k)
  BY <1>1, PickQueue
<1>2. CASE C_Update(k)
  BY <1>2, UpdateQueue
<1>3. CASE \/ C_Start(k) \/ C_Check(k) \/ C_Lock(k) \/ C_NothingToRun(k)
           \/ C_RunRealTime(k) \/ C_RunNormal(k) \/ C_Relock(k)
  <2>1. UNCHANGED <<cpu_run_queues, reported>>
    BY <1>3 DEF C_Start, C_Check, C_Lock, C_NothingToRun, C_RunRealTime, C_RunNormal,
                RunNormal, C_Relock
  <2>2. cons[k] \in Locals /\ cons \in [CPUs -> Locals]
    BY DEF TypeOK
  <2>3. Running(k)' = Running(k)
    <3>1. CASE C_Start(k) \/ C_Check(k) \/ C_Lock(k)
      <4>1. cons[k].pc \in {"start", "check", "lock"}
        BY <3>1 DEF C_Start, C_Check, C_Lock
      <4>2. cons'[k].pc \notin Using
        BY <4>1, ConsumerFrame DEF Using
      <4> QED BY <4>1, <4>2 DEF Running, Using
    <3>2. CASE C_NothingToRun(k)
      <4>1. cons[k].pc = "pick" /\ cons'[k].pc = "check"
        BY <2>2, <3>2 DEF C_NothingToRun, Locals
      <4> QED BY <4>1 DEF Running, Using
    <3>3. CASE C_RunRealTime(k) \/ C_Relock(k)
      <4>1. /\ cons[k].pc \in {"run", "relock"} /\ cons'[k].pc \in {"relock", "update"}
            /\ cons'[k].rq_num = cons[k].rq_num /\ cons'[k].buf_index = cons[k].buf_index
        BY <2>2, <3>3 DEF C_RunRealTime, C_Relock, Locals
      <4> QED BY <4>1 DEF Running, Using
    <3>4. CASE C_RunNormal(k)
      <4>1. /\ cons[k].pc = "run" /\ cons'[k].pc = "relock"
            /\ cons'[k].rq_num = cons[k].rq_num /\ cons'[k].buf_index = cons[k].buf_index
        BY <2>2, <3>4 DEF C_RunNormal, RunNormal, Locals
      <4> QED BY <4>1 DEF Running, Using
    <3> QED BY <1>3, <3>1, <3>2, <3>3, <3>4
  <2>4. Kept(cpu_run_queues[k], k, NumCreated, Running(k), reported)
    BY DEF QueueInv
  <2> QED BY <2>1, <2>3, <2>4 DEF QueueChange, TypeOK, Emptied
<1> QED BY <1>1, <1>2, <1>3 DEF Consumer

(* Who changes the queues and what is reported.                              *)
LEMMA QueueFrame ==
  ASSUME TIMELY, TypeOK, PhaseInv, Next \/ UNCHANGED vars, ~P_CreateTask,
         \A k \in CPUs : ~Consumer(k)
  PROVE  /\ UNCHANGED <<cpu_run_queues, reported>> /\ NumCreated' = NumCreated
         /\ \A k \in CPUs : cons'[k] = cons[k] \/ (cons[k].pc = "new" /\ cons'[k].pc = "start")
<1>1. CASE Main
  <2>1. UNCHANGED <<cpu_run_queues, reported>> /\ (pcP' = pcP \/ (pcP = "new" /\ pcP' = "lock"))
        /\ iP' = iP
    BY <1>1
    DEF PhaseInv, Main, M_CreateProducer, M_NapProducer, M_CreateConsumer, M_NapConsumer,
        M_CreateBalancer, M_JoinProducer, M_JoinConsumer, M_JoinBalancer
  <2>2. CASE M_CreateConsumer
    <3>1. /\ cons[cpu_num].pc = "new" /\ cons'[cpu_num].pc = "start"
          /\ \A k \in CPUs \ {cpu_num} : cons'[k] = cons[k]
      BY <2>2, SchedulerAssumption DEF M_CreateConsumer, PhaseInv, TypeOK, CPUs
    <3> QED BY <2>1, <3>1 DEF NumCreated
  <2>3. CASE cons' = cons
    BY <2>1, <2>3 DEF NumCreated
  <2> QED BY <1>1, <2>2, <2>3
    DEF Main, M_CreateProducer, M_NapProducer, M_NapConsumer, M_CreateBalancer,
        M_JoinProducer, M_JoinConsumer, M_JoinBalancer
<1>2. CASE P_Lock \/ P_AllCreated \/ P_Unlock
  BY <1>2 DEF P_Lock, P_AllCreated, P_Unlock, NumCreated
<1>3. CASE Balancer
  BY <1>3 DEF Balancer, B_Check, B_Lock, B_Count, B_Unlock, B_Decide, NumCreated
<1>4. CASE UNCHANGED vars
  BY <1>4 DEF NumCreated
<1> QED BY <1>1, <1>2, <1>3, <1>4 DEF Next, Producer, Stopped

(* While the producer creates tasks no consumer exists.                      *)
LEMMA CreateQueue ==
  ASSUME QueuesSuffice, TypeOK, PhaseInv, QueueInv, ReportInv, P_CreateTask
  PROVE  QueueInv'
<1> DEFINE n == iP
           c == CpuOf(n)
<1>1. /\ pcP = "create" /\ pcP' = "create" /\ n \in Nat /\ n < num_processes /\ iP' = n + 1
      /\ cons' = cons /\ reported' = reported
  BY DEF P_CreateTask, TypeOK
<1>2. NumCreated = n /\ NumCreated' = n + 1
  BY <1>1 DEF NumCreated
<1>3. \A k \in CPUs : Running(k) = {} /\ Running(k)' = {}
  BY <1>1 DEF PhaseInv, Running, Using
<1>4. \A c1 \in CPUs : Kept(cpu_run_queues[c1], c1, n, {}, reported)
  BY <1>2, <1>3 DEF QueueInv
<1>5. PICK priority \in Priorities(n), exec_time \in EXEC_TIMES :
        cpu_run_queues' = [cpu_run_queues EXCEPT ![c][QueueOf(n)] =
                             AddTask(@, NewTask(n, priority, exec_time))]
  BY DEF P_CreateTask
<1>6. c \in CPUs
  BY <1>1, CpuOfType
<1>7. reported[n] = 0
  BY <1>1, <1>2, SchedulerAssumption DEF ReportInv, Pids
<1>8. /\ cpu_run_queues'[c] = Created(cpu_run_queues[c], n, priority, exec_time)
      /\ \A c1 \in CPUs \ {c} : cpu_run_queues'[c1] = cpu_run_queues[c1]
  BY <1>5, <1>6 DEF TypeOK, Created
<1>9. Kept(cpu_run_queues'[c], c, n + 1, {}, reported)
  BY <1>1, <1>4, <1>6, <1>7, <1>8, KeptCreate
<1>10. ASSUME NEW c1 \in CPUs, c1 # c
       PROVE  Kept(cpu_run_queues'[c1], c1, n + 1, {}, reported)
  <2>1. Kept(cpu_run_queues[c1], c1, n, {}, reported)
    BY <1>4
  <2>2. Kept(cpu_run_queues[c1], c1, n + 1, {}, reported)
    BY <1>1, <1>10, <2>1, KeptElsewhere
  <2> QED BY <1>8, <1>10, <2>2
<1> QED BY <1>1, <1>2, <1>3, <1>9, <1>10 DEF QueueInv

(* Every step keeps every task in exactly one place.                         *)
LEMMA QueueStep ==
  ASSUME TIMELY, QueuesSuffice, TypeOK, PhaseInv, OwnQueue, QueueInv, ReportInv, LocalInv,
         [Next]_vars
  PROVE  QueueInv'
<1>1. CASE P_CreateTask
  BY <1>1, CreateQueue
<1>2. ASSUME NEW k \in CPUs, Consumer(k)
      PROVE  QueueInv'
  <2>1. QueueChange(k)
    BY <1>2, ConsumerQueue
  <2>2. UNCHANGED <<pcP, iP>> /\ \A k1 \in CPUs \ {k} : cons'[k1] = cons[k1]
    BY <1>2, ConsumerFrame
  <2>3. NumCreated' = NumCreated /\ \A k1 \in CPUs \ {k} : Running(k1)' = Running(k1)
    BY <2>2 DEF NumCreated, Running
  <2>4. NumCreated \in Nat /\ 0 .. NumCreated - 1 \subseteq Pids
    BY CreatedType, SchedulerAssumption DEF Pids
  <2>5. ASSUME NEW c \in CPUs \ {k}
        PROVE  Kept(cpu_run_queues'[c], c, NumCreated, Running(c), reported')
    <3>1. Kept(cpu_run_queues[c], c, NumCreated, Running(c), reported)
      BY DEF QueueInv
    <3>2. \A pid \in 0 .. NumCreated - 1 : CpuOf(pid) = c => reported'[pid] = reported[pid]
      BY <2>1, <2>4 DEF QueueChange
    <3>3. Kept(cpu_run_queues[c], c, NumCreated, Running(c), reported')
      BY <2>4, <3>1, <3>2, KeptFrame
    <3>4. cpu_run_queues'[c] = cpu_run_queues[c]
      BY <2>1 DEF QueueChange, TypeOK
    <3> QED BY <3>3, <3>4
  <2> QED BY <2>1, <2>3, <2>5 DEF QueueChange, QueueInv
<1>3. CASE ~P_CreateTask /\ \A k \in CPUs : ~Consumer(k)
  <2>1. /\ UNCHANGED <<cpu_run_queues, reported>> /\ NumCreated' = NumCreated
        /\ \A k \in CPUs : cons'[k] = cons[k] \/ (cons[k].pc = "new" /\ cons'[k].pc = "start")
    BY <1>3, QueueFrame
  <2>2. \A k \in CPUs : Running(k)' = Running(k)
    BY <2>1 DEF Running, Using
  <2> QED BY <2>1, <2>2 DEF QueueInv
<1> QED BY <1>1, <1>2, <1>3

(* Every step keeps finished tasks reported at most once.                    *)
LEMMA ReportStep ==
  ASSUME TIMELY, QueuesSuffice, TypeOK, PhaseInv, OwnQueue, QueueInv, ReportInv, LocalInv,
         [Next]_vars
  PROVE  ReportInv'
<1>1. CASE P_CreateTask
  <2>1. pcP = "create" /\ pcP' = "create" /\ iP' = iP + 1 /\ reported' = reported /\ iP \in Nat
    BY <1>1 DEF P_CreateTask, TypeOK
  <2>2. NumCreated = iP /\ NumCreated' = iP + 1
    BY <2>1 DEF NumCreated
  <2> QED BY <2>1, <2>2, SchedulerAssumption DEF ReportInv, Pids
<1>2. ASSUME NEW k \in CPUs, Consumer(k)
      PROVE  ReportInv'
  <2>1. QueueChange(k)
    BY <1>2, ConsumerQueue
  <2>2. NumCreated' = NumCreated
    BY <1>2, ConsumerFrame DEF NumCreated
  <2> QED BY <2>1, <2>2 DEF QueueChange, ReportInv
<1>3. CASE ~P_CreateTask /\ \A k \in CPUs : ~Consumer(k)
  <2>1. UNCHANGED reported /\ NumCreated' = NumCreated
    BY <1>3, QueueFrame
  <2> QED BY <2>1 DEF ReportInv
<1> QED BY <1>1, <1>2, <1>3

(* What a consumer with locals c remembers of the task that it runs.         *)
Remembers(c, q) ==
  /\ c.buf_index \in Live(q[c.rq_num])
  /\ c.sched_type = q[c.rq_num].tasks[c.buf_index].sched_type
  /\ c.time_slice <= q[c.rq_num].tasks[c.buf_index].remaining_exec_time

(* A consumer that uses a task remembers a task of its own queue.            *)
LEMMA OwnLocals ==
  ASSUME TypeOK, PhaseInv, OwnQueue, QueueInv, LocalInv, NEW k \in CPUs, Consumer(k),
         cons'[k].pc \in Using
  PROVE  cons'[k] \in Locals /\ Remembers(cons'[k], cpu_run_queues'[k])
<1> USE DEF Remembers
<1>1. cons \in [CPUs -> Locals]
  BY DEF TypeOK
<1>2. cons[k].pc \in {"pick", "run", "relock"} /\ cons[k].cpu_num = k
  <2>1. cons[k].pc \in {"pick", "run", "relock"}
    BY ConsumerFrame DEF Using
  <2> QED BY <2>1 DEF OwnQueue
<1>3. cons[k].pc \in Using =>
        /\ cons[k].buf_index \in Live(cpu_run_queues[k][cons[k].rq_num])
        /\ cons[k].sched_type =
             cpu_run_queues[k][cons[k].rq_num].tasks[cons[k].buf_index].sched_type
        /\ cons[k].time_slice <=
             cpu_run_queues[k][cons[k].rq_num].tasks[cons[k].buf_index].remaining_exec_time
  BY <1>2 DEF LocalInv, Queue
<1>4. CASE C_RunRealTime(k) \/ C_Relock(k)
  <2>1. /\ cons[k].pc \in Using /\ cpu_run_queues' = cpu_run_queues /\ cons'[k] \in Locals
        /\ cons'[k].rq_num = cons[k].rq_num /\ cons'[k].buf_index = cons[k].buf_index
        /\ cons'[k].sched_type = cons[k].sched_type /\ cons'[k].time_slice = cons[k].time_slice
    BY <1>1, <1>4 DEF C_RunRealTime, C_Relock, Locals, Using
  <2> QED BY <1>3, <2>1
<1>5. CASE C_RunNormal(k)
  <2>1. PICK s_time \in ServiceTimes(cons[k].time_slice), late1 \in LATENESS, late2 \in LATENESS :
          cons' = [cons EXCEPT ![k] =
                    [@ EXCEPT !.pc = "relock", !.time_slice = s_time,
                       !.temp_sleep_avg =
                         SleepAvg(s_time + late1,
                                  (IF s_time < cons[k].time_slice THEN 900 ELSE 0) + late2)]]
    BY <1>5 DEF C_RunNormal, RunNormal
  <2>2. cons[k].time_slice \in Nat
    BY <1>1 DEF Locals
  <2>3. s_time \in 0 .. cons[k].time_slice
    BY <2>2, ServiceBounds
  <2> DEFINE ran == s_time + late1
             slept == (IF s_time < cons[k].time_slice THEN 900 ELSE 0) + late2
             avg == SleepAvg(ran, slept)
  <2>4. avg \in 0 .. MAX_SLEEP_AVG
    <3>1. ran \in Nat /\ slept \in Nat
      <4>1. s_time \in Nat /\ late1 \in Nat /\ late2 \in Nat
        BY <2>2, <2>3, SchedulerAssumption
      <4> QED BY <4>1
    <3> HIDE DEF ran, slept
    <3> QED BY <3>1, SleepBounds
  <2>8. cons' = [cons EXCEPT ![k] = [@ EXCEPT !.pc = "relock", !.time_slice = s_time,
                                              !.temp_sleep_avg = avg]]
    BY <2>1
  <2> HIDE DEF avg
  <2>5. /\ cons'[k] \in Locals /\ cons'[k].rq_num = cons[k].rq_num
        /\ cons'[k].buf_index = cons[k].buf_index
        /\ cons'[k].sched_type = cons[k].sched_type /\ cons'[k].time_slice = s_time
    <3>1. cons[k] \in Locals /\ s_time \in Nat
      BY <1>1, <2>2, <2>3
    <3>2. cons'[k] = [cons[k] EXCEPT !.pc = "relock", !.time_slice = s_time,
                                     !.temp_sleep_avg = avg]
      BY <1>1, <2>8
    <3> QED BY <2>4, <3>1, <3>2 DEF Locals
  <2>6. cons[k].pc \in Using /\ cpu_run_queues' = cpu_run_queues
    BY <1>5 DEF C_RunNormal, RunNormal, Using
  <2>7. cpu_run_queues[k][cons[k].rq_num].tasks[cons[k].buf_index].remaining_exec_time \in Int
    <3>1. /\ cpu_run_queues[k] \in cpu_run_queue /\ cons[k].rq_num \in RQs
      BY <1>1 DEF TypeOK, Locals
    <3>2. cpu_run_queues[k][cons[k].rq_num].tasks[cons[k].buf_index] \in task_struct
      BY <1>3, <2>6, <3>1, LiveSlot
    <3> QED BY <3>2 DEF task_struct
  <2> QED BY <1>3, <2>2, <2>3, <2>5, <2>6, <2>7
<1>6. CASE C_Pick(k)
  <2>1. PICK r \in RQs, j \in Slots :
          /\ IsTaskToRun(Queue(k), r, j)
          /\ cons' = [cons EXCEPT ![k] =
                        [@ EXCEPT !.pc = "run", !.rq_num = r, !.buf_index = j,
                                  !.sched_type = Queue(k)[r].tasks[j].sched_type,
                                  !.time_slice = get_quantum_size(Queue(k)[r].tasks[j])]]
          /\ cpu_run_queues' =
               [cpu_run_queues EXCEPT ![cons[k].cpu_num][r].tasks[j] =
                  [@ EXCEPT !.state = "RUNNING", !.turnaround_started = TRUE]]
    BY <1>6 DEF C_Pick
  <2> DEFINE q == cpu_run_queues[k]
             t == q[r].tasks[j]
  <2>2. cpu_run_queues'[k] = Picked(q, r, j)
    BY <1>2, <2>1 DEF TypeOK, Picked
  <2>3. j \in Live(q[r])
    BY <1>2, <2>1 DEF IsTaskToRun, Candidates, Queue
  <2>4. /\ Kept(q, k, NumCreated, {}, reported) /\ NumCreated \in Nat
    <3>1. cons[k].pc = "pick"
      BY <1>6 DEF C_Pick
    <3>2. Running(k) = {}
      BY <3>1 DEF Running, Using
    <3> QED BY <3>2, CreatedType, SchedulerAssumption DEF QueueInv
  <2>5. /\ t \in task_struct /\ t.remaining_exec_time > 0
    <3>1. q \in cpu_run_queue /\ RightTask(t, r, k, NumCreated, reported)
      BY <2>3, <2>4 DEF Kept
    <3> QED BY <2>3, <3>1, LiveSlot DEF RightTask, Accounted
  <2>6. get_quantum_size(t) \in 0 .. t.remaining_exec_time /\ t.remaining_exec_time \in Int
        /\ t.sched_type \in {"FIFO", "RR", "NORMAL"}
    BY <2>5, QuantumBounds DEF task_struct
  <2> HIDE DEF q
  <2>7. /\ \A r1 \in RQs : Picked(q, r, j)[r1].tail = q[r1].tail
        /\ Picked(q, r, j)[r].tasks[j].sched_type = q[r].tasks[j].sched_type
        /\ Picked(q, r, j)[r].tasks[j].remaining_exec_time = q[r].tasks[j].remaining_exec_time
    <3>1. q \in cpu_run_queue
      BY <2>4 DEF Kept
    <3> QED BY <2>3, <3>1, PickedTask
  <2> HIDE DEF t
  <2>8. cons' = [cons EXCEPT ![k] =
                  [@ EXCEPT !.pc = "run", !.rq_num = r, !.buf_index = j,
                            !.sched_type = t.sched_type, !.time_slice = get_quantum_size(t)]]
    BY <1>2, <2>1 DEF t, q, Queue
  <2>9. /\ cons'[k] \in Locals /\ cons'[k].rq_num = r /\ cons'[k].buf_index = j
        /\ cons'[k].sched_type = t.sched_type /\ cons'[k].time_slice = get_quantum_size(t)
    <3> DEFINE g == get_quantum_size(t)
               s == t.sched_type
    <3>1. g \in Nat /\ s \in {"FIFO", "RR", "NORMAL"}
      BY <2>6
    <3>2. cons'[k] = [cons[k] EXCEPT !.pc = "run", !.rq_num = r, !.buf_index = j,
                                     !.sched_type = s, !.time_slice = g]
      BY <1>1, <2>8
    <3> DEFINE x == [cons[k] EXCEPT !.pc = "run", !.rq_num = r, !.buf_index = j]
    <3> HIDE DEF g, s
    <3>4. x \in Locals /\ x.rq_num = r /\ x.buf_index = j
      <4>1. cons[k] \in Locals
        BY <1>1
      <4> QED BY <4>1 DEF Locals
    <3>5. cons'[k] = [x EXCEPT !.sched_type = s, !.time_slice = g]
      BY <1>1, <3>2 DEF Locals
    <3> HIDE DEF x
    <3>3. /\ cons'[k] \in Locals /\ cons'[k].rq_num = r /\ cons'[k].buf_index = j
          /\ cons'[k].sched_type = s /\ cons'[k].time_slice = g
      BY <3>1, <3>4, <3>5 DEF Locals
    <3> QED BY <3>3 DEF g, s
  <2>10. /\ j \in Live(Picked(q, r, j)[r])
         /\ t.sched_type = Picked(q, r, j)[r].tasks[j].sched_type
         /\ get_quantum_size(t) <= Picked(q, r, j)[r].tasks[j].remaining_exec_time
    BY <2>3, <2>6, <2>7 DEF Live, t
  <2> QED BY <2>2, <2>9, <2>10
<1>7. ~C_NothingToRun(k)
  BY <1>1 DEF C_NothingToRun, Locals, Using
<1>8. ~(C_Start(k) \/ C_Check(k) \/ C_Lock(k) \/ C_Update(k))
  BY <1>2 DEF C_Start, C_Check, C_Lock, C_Update
<1> QED BY <1>4, <1>5, <1>6, <1>7, <1>8 DEF Consumer

(* Every step keeps what the consumers remember true.                        *)
LEMMA LocalStep ==
  ASSUME TIMELY, QueuesSuffice, TypeOK, PhaseInv, OwnQueue, QueueInv, LocalInv, [Next]_vars
  PROVE  LocalInv'
<1>1. OwnQueue'
  BY OwnStep
<1>2. CASE P_CreateTask
  BY <1>2 DEF P_CreateTask, PhaseInv, LocalInv, Using
<1>3. ASSUME NEW k \in CPUs, Consumer(k), NEW k1 \in CPUs, cons'[k1].pc \in Using
      PROVE  cons'[k1].cpu_num = k1 /\ Remembers(cons'[k1], cpu_run_queues'[k1])
  <2>1. cons'[k1].cpu_num = k1
    BY <1>1, <1>3 DEF OwnQueue, Using
  <2>2. CASE k1 = k
    BY <1>3, <2>1, <2>2, OwnLocals
  <2>3. CASE k1 # k
    <3>1. cons'[k1] = cons[k1]
      BY <1>3, <2>3, ConsumerFrame
    <3>2. cpu_run_queues'[k1] = cpu_run_queues[k1]
      <4>1. QueueChange(k)
        BY <1>3, ConsumerQueue
      <4> QED BY <2>3, <4>1 DEF QueueChange, TypeOK
    <3> QED BY <1>3, <2>1, <3>1, <3>2 DEF LocalInv, Queue, Remembers
  <2> QED BY <2>2, <2>3
<1>4. CASE ~P_CreateTask /\ \A k \in CPUs : ~Consumer(k)
  <2>1. /\ cpu_run_queues' = cpu_run_queues
        /\ \A k \in CPUs : cons'[k] = cons[k] \/ (cons[k].pc = "new" /\ cons'[k].pc = "start")
    BY <1>4, QueueFrame
  <2> QED BY <2>1 DEF LocalInv, Queue, Using
<1>5. (\E k \in CPUs : Consumer(k)) => LocalInv'
  BY <1>3 DEF LocalInv, Queue, Remembers
<1> QED BY <1>2, <1>4, <1>5

(* No step brings a task into an empty queue once the producer is done.      *)
LEMMA EmptyStays ==
  ASSUME TIMELY, QueuesSuffice, TypeOK, PhaseInv, OwnQueue, QueueInv, LocalInv,
         [Next]_vars, ~P_CreateTask, NEW c \in CPUs, Emptied(c)
  PROVE  Emptied(c)'
<1>1. ASSUME NEW k \in CPUs, Consumer(k)
      PROVE  Emptied(c)'
  <2>1. QueueChange(k)
    BY <1>1, ConsumerQueue
  <2>2. CASE c = k
    BY <2>1, <2>2 DEF QueueChange
  <2>3. CASE c # k
    <3>1. cpu_run_queues'[c] = cpu_run_queues[c]
      BY <2>1, <2>3 DEF QueueChange, TypeOK
    <3> QED BY <3>1 DEF Emptied
  <2> QED BY <2>2, <2>3
<1>2. CASE \A k \in CPUs : ~Consumer(k)
  BY <1>2, QueueFrame DEF Emptied
<1> QED BY <1>1, <1>2

(* The number of tasks of a CPU, and an empty CPU.                           *)
LEMMA CountType ==
  ASSUME TypeOK, QueueInv, NEW c \in CPUs
  PROVE  TasksOf(c) \in Nat /\ (TasksOf(c) = 0 => Emptied(c))
<1> DEFINE q == cpu_run_queues[c]
<1>1. q \in cpu_run_queue /\ \A r \in RQs : q[r].count = q[r].tail
  BY DEF QueueInv, Kept
<1>2. \A r \in RQs : q[r].count = q[r].tail /\ q[r] \in circular_buffer
  BY <1>1 DEF cpu_run_queue
<1>3. \A r \in RQs : q[r].tail \in Nat
  BY <1>2, QueueAssumption DEF circular_buffer
<1>4. /\ TasksOf(c) = q[0].count + q[1].count + q[2].count
      /\ (\A r \in RQs : q[r].tail = 0) => Emptied(c)
  BY DEF TasksOf, Emptied
<1> HIDE DEF q
<1> QED BY <1>2, <1>3, <1>4 DEF RQs

(* Every step keeps what the balancer has seen: a CPU it found empty stays   *)
(* so once all tasks exist.                                                  *)
LEMMA BalanceStep ==
  ASSUME TIMELY, QueuesSuffice, TypeOK, PhaseInv, OwnQueue, QueueInv, LocalInv, BalanceInv,
         [Next]_vars
  PROVE  BalanceInv'
<1>1. CASE P_CreateTask
  BY <1>1 DEF P_CreateTask, PhaseInv, BalanceInv
<1>11. iP' = iP => ~P_CreateTask
  BY DEF P_CreateTask, TypeOK
<1>2. ASSUME ~P_CreateTask
      PROVE  \A c \in CPUs : Emptied(c) => Emptied(c)'
  BY <1>2, EmptyStays
<1>3. CASE UNCHANGED <<balVars, all_tasks_finished>> /\ pcP' = pcP /\ ~P_CreateTask
  BY <1>2, <1>3 DEF BalanceInv
<1>4. CASE Main
  <2>1. /\ UNCHANGED <<iB, total_tasks, all_tasks_finished>>
        /\ pcB' = pcB \/ pcB' = "check"
        /\ pcP' = pcP \/ pcP = "new"
        /\ ~P_CreateTask
    BY <1>4
    DEF Main, M_CreateProducer, M_NapProducer, M_CreateConsumer, M_NapConsumer,
        M_CreateBalancer, M_JoinProducer, M_JoinConsumer, M_JoinBalancer, P_CreateTask,
        PhaseInv
  <2> QED BY <1>2, <2>1 DEF BalanceInv
<1>5. CASE P_Lock \/ P_AllCreated \/ P_Unlock
  <2>1. UNCHANGED <<balVars, all_tasks_finished>> /\ pcP # "done" /\ ~P_CreateTask
    BY <1>5 DEF P_Lock, P_AllCreated, P_Unlock, P_CreateTask
  <2> QED BY <1>2, <2>1 DEF BalanceInv
<1>6. ASSUME NEW k \in CPUs, Consumer(k)
      PROVE  BalanceInv'
  <2>1. UNCHANGED <<balVars, all_tasks_finished, pcP, iP>>
    BY <1>6, ConsumerFrame
  <2>2. ~P_CreateTask
    BY <2>1 DEF P_CreateTask, TypeOK
  <2> QED BY <1>3, <2>1, <2>2
<1>7. CASE B_Check \/ B_Lock \/ B_Unlock
  <2>1. /\ UNCHANGED <<all_tasks_finished, pcP>> /\ ~P_CreateTask
        /\ \/ pcB = "check" /\ pcB' \in {"lock", "done"} /\ total_tasks' = 0
           \/ /\ pcB = "lock" /\ total_tasks' = total_tasks
              /\ pcB' = "lock" \/ (pcB' = "count" /\ iB' = 0)
           \/ pcB = "unlock" /\ pcB' \in {"unlock", "decide"} /\ total_tasks' = total_tasks
    BY <1>7, <1>11 DEF B_Check, B_Lock, B_Unlock
  <2> QED BY <1>2, <2>1 DEF BalanceInv, CPUs
<1>8. CASE B_Count
  <2>1. /\ UNCHANGED <<all_tasks_finished, pcP>> /\ ~P_CreateTask
        /\ pcB = "count" /\ total_tasks' = total_tasks + TasksOf(iB)
        /\ \/ pcB' = "count" /\ iB' = iB + 1
           \/ pcB' = "unlock" /\ iB + 1 >= NUM_CPU
    <3>1. iB \in Int /\ NUM_CPU \in Int
      BY SchedulerAssumption DEF TypeOK, CPUs
    <3> QED BY <1>8, <1>11, <3>1 DEF B_Count
  <2>2. iB \in CPUs /\ total_tasks \in Nat
    BY DEF TypeOK
  <2>4. TasksOf(iB) \in Nat /\ (TasksOf(iB) = 0 => Emptied(iB))
    BY <2>2, CountType
  <2>5. total_tasks' = 0 => total_tasks = 0 /\ TasksOf(iB) = 0
    BY <2>1, <2>2, <2>4
  <2>6. total_tasks' = 0 => \A c \in CPUs : c < iB + 1 => Emptied(c)'
    <3> SUFFICES ASSUME total_tasks' = 0, NEW c \in CPUs, c < iB + 1
                 PROVE  Emptied(c)'
      OBVIOUS
    <3>1. total_tasks = 0 /\ Emptied(iB)
      BY <2>4, <2>5
    <3>2. c = iB \/ c < iB
      BY <2>2 DEF CPUs
    <3>3. c < iB => Emptied(c)
      BY <2>1, <3>1 DEF BalanceInv
    <3> QED BY <1>2, <2>1, <3>1, <3>2, <3>3
  <2>7. iB + 1 >= NUM_CPU => \A c \in CPUs : c < iB + 1
    BY <2>2, SchedulerAssumption DEF CPUs
  <2>9. all_tasks_finished' => pcP' = "done" /\ \A c \in CPUs : Emptied(c)'
    BY <1>2, <2>1 DEF BalanceInv
  <2>10. CASE pcB' = "count" /\ iB' = iB + 1
    <3>1. pcB' # "lock" /\ pcB' \notin {"unlock", "decide"}
      BY <2>10
    <3>2. total_tasks' = 0 => \A c \in CPUs : c < iB' => Emptied(c)'
      BY <2>6, <2>10
    <3> QED BY <2>9, <3>1, <3>2 DEF BalanceInv
  <2>8. CASE pcB' = "unlock" /\ iB + 1 >= NUM_CPU
    <3>1. pcB' # "lock" /\ pcB' # "count"
      BY <2>8
    <3>2. total_tasks' = 0 => \A c \in CPUs : Emptied(c)'
      BY <2>6, <2>7, <2>8
    <3> QED BY <2>9, <3>1, <3>2 DEF BalanceInv
  <2> QED BY <2>1, <2>8, <2>10
<1>9. CASE B_Decide
  <2>1. /\ pcB = "decide" /\ pcB' = "check" /\ pcP' = pcP /\ total_tasks' = total_tasks
        /\ all_tasks_finished' = (all_tasks_finished \/ total_tasks = 0) /\ ~P_CreateTask
    BY <1>9 DEF B_Decide, P_CreateTask
  <2>2. pcP = "done"
    BY <2>1 DEF PhaseInv
  <2> QED BY <1>2, <2>1, <2>2 DEF BalanceInv
<1>10. CASE UNCHANGED vars
  <2>1. ~P_CreateTask
    BY <1>10 DEF P_CreateTask, TypeOK
  <2> QED BY <1>3, <1>10, <2>1
<1> QED BY <1>1, <1>4, <1>5, <1>6, <1>7, <1>8, <1>9, <1>10 DEF Next, Producer, Balancer, Stopped

(* Every step keeps the types.                                               *)
LEMMA TypeStep ==
  ASSUME TIMELY, QueuesSuffice, IInv, [Next]_vars
  PROVE  TypeOK'
<1> SUFFICES ASSUME TypeOK, PhaseInv, OwnQueue, QueueInv, ReportInv, LocalInv
             PROVE  TypeOK'
  BY DEF IInv
<1>1. QueueInv'
  BY QueueStep
<1>2. cpu_run_queues' \in [CPUs -> cpu_run_queue]
  <2>1. \A c \in CPUs : cpu_run_queues'[c] \in cpu_run_queue
    BY <1>1 DEF QueueInv, Kept
  <2>2. CASE P_CreateTask
    <3>1. cpu_run_queues' = [c \in CPUs |-> cpu_run_queues'[c]]
      BY <2>2 DEF P_CreateTask, TypeOK
    <3> QED BY <2>1, <3>1
  <2>3. ASSUME NEW k \in CPUs, Consumer(k)
        PROVE  cpu_run_queues' \in [CPUs -> cpu_run_queue]
    <3>1. QueueChange(k)
      BY <2>3, ConsumerQueue
    <3> QED BY <2>1, <3>1 DEF QueueChange, TypeOK
  <2>4. CASE ~P_CreateTask /\ \A k \in CPUs : ~Consumer(k)
    BY <2>4, QueueFrame DEF TypeOK
  <2> QED BY <2>2, <2>3, <2>4
<1>3. ASSUME NEW k \in CPUs, Consumer(k)
      PROVE  cons' \in [CPUs -> Locals]
  <2>1. cons \in [CPUs -> Locals]
    BY DEF TypeOK
  <2>2. cons' = [cons EXCEPT ![k] = cons'[k]]
    BY <1>3, <2>1
    DEF Consumer, C_Start, C_Check, C_Lock, C_Pick, C_NothingToRun, C_RunRealTime,
        C_RunNormal, RunNormal, C_Relock, C_Update
  <2>3. cons'[k] \in Locals
    <3>1. CASE cons'[k].pc \in Using
      BY <1>3, <3>1, OwnLocals
    <3>2. CASE C_Start(k)
      <4>1. \/ cpu_num \in CPUs /\ cons'[k] = [cons[k] EXCEPT !.pc = "check", !.cpu_num = cpu_num]
            \/ cons'[k] = [cons[k] EXCEPT !.pc = "undefined"]
        BY <2>1, <3>2 DEF C_Start
      <4>2. cons[k] \in Locals
        BY <2>1
      <4> QED BY <4>1, <4>2 DEF Locals
    <3>3. CASE C_Check(k) \/ C_Lock(k) \/ C_NothingToRun(k)
      BY <2>1, <3>3 DEF C_Check, C_Lock, C_NothingToRun, Locals
    <3>4. CASE C_Update(k)
      <4>1. cons'[k] = [NoLocals("check") EXCEPT !.cpu_num = cons[k].cpu_num]
        BY <2>1, <3>4 DEF C_Update
      <4>2. cons[k].cpu_num \in CPUs
        BY <2>1 DEF Locals
      <4>3. 0 \in CPUs /\ 0 \in RQs /\ 0 \in Slots
        BY SchedulerAssumption, QueueAssumption DEF CPUs, RQs, Slots
      <4> QED BY <4>1, <4>2, <4>3 DEF NoLocals, Locals, MAX_SLEEP_AVG
    <3>5. CASE C_Pick(k) \/ C_RunRealTime(k) \/ C_RunNormal(k) \/ C_Relock(k)
      <4>1. cons[k].pc \in {"pick", "run", "relock"} /\ ~(cons'[k].pc = "check")
        <5>1. CASE C_Pick(k)
          BY <2>1, <5>1 DEF C_Pick, Locals
        <5>2. CASE C_RunRealTime(k) \/ C_Relock(k)
          BY <2>1, <5>2 DEF C_RunRealTime, C_Relock, Locals
        <5>3. CASE C_RunNormal(k)
          BY <2>1, <5>3 DEF C_RunNormal, RunNormal, Locals
        <5> QED BY <3>5, <5>1, <5>2, <5>3
      <4>2. cons'[k].pc \in Using
        BY <1>3, <4>1, ConsumerFrame DEF Using
      <4> QED BY <3>1, <4>2
    <3> QED BY <1>3, <3>2, <3>3, <3>4, <3>5 DEF Consumer
  <2> QED BY <2>1, <2>2, <2>3
<1>4. cons' \in [CPUs -> Locals]
  <2>1. CASE M_CreateConsumer
    BY <2>1 DEF M_CreateConsumer, TypeOK, Locals
  <2>2. CASE cons' = cons
    BY <2>2 DEF TypeOK
  <2> QED BY <1>3, <2>1, <2>2
    DEF Next, Main, Producer, Balancer, Stopped, M_CreateProducer, M_NapProducer,
        M_NapConsumer, M_CreateBalancer, M_JoinProducer, M_JoinConsumer, M_JoinBalancer,
        P_Lock, P_CreateTask, P_AllCreated, P_Unlock, B_Check, B_Lock, B_Count, B_Unlock,
        B_Decide
<1>5. reported' \in [Pids -> Nat]
  <2>1. CASE P_CreateTask
    BY <2>1 DEF P_CreateTask, TypeOK
  <2>2. ASSUME NEW k \in CPUs, Consumer(k)
        PROVE  reported' \in [Pids -> Nat]
    BY <2>2, ConsumerQueue DEF QueueChange
  <2>3. CASE ~P_CreateTask /\ \A k \in CPUs : ~Consumer(k)
    BY <2>3, QueueFrame DEF TypeOK
  <2> QED BY <2>1, <2>2, <2>3
<1>6. /\ cpu_num' \in 0 .. NUM_CPU
      /\ pcM' \in {"init", "napProducer", "spawn", "napConsumer", "joinProducer",
                   "joinConsumers", "done"}
      /\ pcP' \in {"new", "lock", "create", "unlock", "done"} /\ iP' \in Nat
      /\ pcB' \in {"new", "check", "lock", "count", "unlock", "decide", "done"}
      /\ iB' \in CPUs /\ total_tasks' \in Nat /\ all_tasks_finished' \in BOOLEAN
  <2>1. /\ cpu_num \in 0 .. NUM_CPU
        /\ pcM \in {"init", "napProducer", "spawn", "napConsumer", "joinProducer",
                    "joinConsumers", "done"}
        /\ pcP \in {"new", "lock", "create", "unlock", "done"} /\ iP \in Nat
        /\ pcB \in {"new", "check", "lock", "count", "unlock", "decide", "done"}
        /\ iB \in CPUs /\ total_tasks \in Nat /\ all_tasks_finished \in BOOLEAN
    BY DEF TypeOK
  <2>2. CASE Main
    BY <2>1, <2>2, SchedulerAssumption
    DEF PhaseInv, Main, M_CreateProducer, M_NapProducer, M_CreateConsumer, M_NapConsumer,
        M_CreateBalancer, M_JoinProducer, M_JoinConsumer, M_JoinBalancer
  <2>3. CASE Producer
    BY <2>1, <2>3 DEF Producer, P_Lock, P_CreateTask, P_AllCreated, P_Unlock
  <2>4. ASSUME NEW k \in CPUs, Consumer(k)
        PROVE  UNCHANGED <<mainVars, prodVars, balVars, all_tasks_finished>>
    BY <2>4, ConsumerFrame
  <2>5. CASE Balancer
    <3>1. /\ UNCHANGED <<mainVars, prodVars>>
          /\ pcB' \in {"check", "lock", "count", "unlock", "decide", "done"}
          /\ all_tasks_finished' = all_tasks_finished \/ B_Decide
          /\ iB' = iB \/ iB' = 0 \/ (iB' = iB + 1 /\ iB + 1 < NUM_CPU)
          /\ total_tasks' \in {total_tasks, 0} \/ B_Count
      BY <2>1, <2>5 DEF Balancer, B_Check, B_Lock, B_Count, B_Unlock, B_Decide
    <3>2. iB' \in CPUs
      BY <2>1, <3>1, SchedulerAssumption DEF CPUs
    <3>3. total_tasks' \in Nat
      <4>1. iB \in CPUs /\ QueueInv
        BY <2>1
      <4>2. TasksOf(iB) \in Nat
        BY <4>1, CountType
      <4>3. CASE B_Count
        <5>1. total_tasks' = total_tasks + TasksOf(iB)
          BY <4>3 DEF B_Count
        <5> QED BY <2>1, <4>2, <5>1
      <4> QED BY <2>1, <3>1, <4>3
    <3>4. all_tasks_finished' \in BOOLEAN
      BY <2>1, <3>1 DEF B_Decide
    <3> QED BY <2>1, <3>1, <3>2, <3>3, <3>4
  <2>6. CASE UNCHANGED vars
    BY <2>1, <2>6
  <2> QED BY <2>1, <2>2, <2>3, <2>4, <2>5, <2>6 DEF Next, Stopped
<1>7. queue_mutex' \in [CPUs -> CPUs \union {Free, ProducerThread, BalancerThread}]
  <2>1. queue_mutex \in [CPUs -> CPUs \union {Free, ProducerThread, BalancerThread}]
    BY DEF TypeOK
  <2>2. CASE queue_mutex' = queue_mutex
    BY <2>1, <2>2
  <2>3. CASE Producer \/ Balancer
    BY <2>1, <2>3
    DEF Producer, P_Lock, P_CreateTask, P_AllCreated, P_Unlock,
        Balancer, B_Check, B_Lock, B_Count, B_Unlock, B_Decide
  <2>4. ASSUME NEW k \in CPUs, Consumer(k)
        PROVE  queue_mutex' \in [CPUs -> CPUs \union {Free, ProducerThread, BalancerThread}]
    BY <2>1, <2>4, ConsumerMutex DEF ConsumerLocks
  <2> QED BY <2>2, <2>3, <2>4
    DEF Next, Main, Stopped, M_CreateProducer, M_NapProducer, M_CreateConsumer, M_NapConsumer,
        M_CreateBalancer, M_JoinProducer, M_JoinConsumer, M_JoinBalancer
<1> QED BY <1>2, <1>4, <1>5, <1>6, <1>7 DEF TypeOK

-----------------------------------------------------------------------------
(* The invariant, and what follows from it.                                  *)

(* Nothing runs, nothing is locked and the queues are empty.                 *)
LEMMA IInvInit == Init => IInv
<1> SUFFICES ASSUME Init PROVE IInv
  OBVIOUS
<1>1. /\ cpu_run_queues = [c \in CPUs |-> EmptyQueue]
      /\ queue_mutex = [c \in CPUs |-> Free]
      /\ cons = [k \in CPUs |-> NoLocals("new")]
      /\ reported = [pid \in Pids |-> 0]
  BY DEF Init
<1>2. /\ all_tasks_finished = FALSE /\ pcM = "init" /\ cpu_num = 0 /\ pcP = "new" /\ iP = 0
      /\ pcB = "new" /\ iB = 0 /\ total_tasks = 0
  BY DEF Init
<1>3. 0 \in CPUs /\ 0 \in RQs /\ 0 \in Slots
  BY SchedulerAssumption, QueueAssumption DEF CPUs, RQs, Slots
<1>4. \A k \in CPUs : cons[k].pc = "new"
  BY <1>1 DEF NoLocals
<1>5. TypeOK
  <2>1. NoLocals("new") \in Locals
    BY <1>3 DEF NoLocals, Locals, MAX_SLEEP_AVG
  <2>2. cpu_run_queues \in [CPUs -> cpu_run_queue]
    BY <1>1, EmptyQueueType
  <2>3. cons \in [CPUs -> Locals] /\ reported \in [Pids -> Nat]
    BY <1>1, <2>1
  <2>4. queue_mutex \in [CPUs -> CPUs \union {Free, ProducerThread, BalancerThread}]
    BY <1>1
  <2>5. cpu_num \in 0 .. NUM_CPU /\ iP \in Nat /\ iB \in CPUs /\ total_tasks \in Nat
    BY <1>2, <1>3, SchedulerAssumption
  <2>6. all_tasks_finished \in BOOLEAN
    BY <1>2
  <2> QED BY <1>2, <2>2, <2>3, <2>4, <2>5, <2>6 DEF TypeOK
<1>6. PhaseInv
  BY <1>2, <1>4 DEF PhaseInv
<1>7. OwnQueue /\ LocalInv
  BY <1>4 DEF OwnQueue, LocalInv, Using
<1>8. MutexInv
  BY <1>1, <1>2, <1>4 DEF MutexInv, CPUs
<1>9. QueueInv
  <2>1. ASSUME NEW c \in CPUs
        PROVE  Kept(cpu_run_queues[c], c, NumCreated, Running(c), reported)
    <3>1. NumCreated = 0 /\ Running(c) = {} /\ cpu_run_queues[c] = EmptyQueue
      BY <1>1, <1>2, <1>4 DEF NumCreated, Running, Using
    <3> QED BY <3>1, KeptEmpty
  <2> QED BY <2>1 DEF QueueInv
<1>10. ReportInv
  BY <1>1 DEF ReportInv
<1>11. BalanceInv
  BY <1>2 DEF BalanceInv
<1> QED BY <1>5, <1>6, <1>7, <1>8, <1>9, <1>10, <1>11 DEF IInv

(* Every step of every thread keeps the invariant.                           *)
LEMMA IInvStep ==
  ASSUME TIMELY, QueuesSuffice, IInv, [Next]_vars
  PROVE  IInv'
<1>1. /\ TypeOK /\ PhaseInv /\ OwnQueue /\ MutexInv /\ QueueInv /\ ReportInv /\ LocalInv
      /\ BalanceInv
  BY DEF IInv
<1>2. TypeOK'
  BY TypeStep
<1>3. PhaseInv' /\ OwnQueue'
  BY <1>1, PhaseStep, OwnStep
<1>4. MutexInv'
  BY <1>1, MutexStep
<1>5. QueueInv'
  BY <1>1, QueueStep
<1>6. ReportInv'
  BY <1>1, ReportStep
<1>7. LocalInv'
  BY <1>1, LocalStep
<1>8. BalanceInv'
  BY <1>1, BalanceStep
<1> QED BY <1>2, <1>3, <1>4, <1>5, <1>6, <1>7, <1>8 DEF IInv

(* Where the sleeps of main outlast what they wait for and the queues have   *)
(* room for the tasks the producer assigns to them, the locks, the queues,   *)
(* the pointers the consumers keep and the balancer's count stay as IInv     *)
(* says.                                                                     *)
THEOREM IInvHolds ==
  ASSUME TIMELY, QueuesSuffice
  PROVE  SafeSpec => []IInv
<1>1. Init => IInv
  BY IInvInit
<1>2. IInv /\ [Next]_vars => IInv'
  BY IInvStep
<1> QED BY <1>1, <1>2, PTL DEF SafeSpec

(* The variables of master.c keep their types: no index leaves its array, no *)
(* priority its range.                                                       *)
THEOREM TypesHold ==
  ASSUME TIMELY, QueuesSuffice
  PROVE  SafeSpec => []TypeOK
<1>1. IInv => TypeOK
  BY DEF IInv
<1> QED BY <1>1, IInvHolds, PTL

(* Each CPU has its own consumer: the address of main's loop variable is read *)
(* while main sleeps (master.c:70).                                          *)
THEOREM ConsumersOwnQueues ==
  ASSUME TIMELY, QueuesSuffice
  PROVE  SafeSpec => []OwnQueue
<1>1. IInv => OwnQueue
  BY DEF IInv
<1> QED BY <1>1, IInvHolds, PTL

(* A queue never holds more than MAX_QUEUE_SIZE tasks, moves between RQ1 and *)
(* RQ2 included.                                                             *)
THEOREM QueuesFit ==
  ASSUME TIMELY, QueuesSuffice
  PROVE  SafeSpec => []QueueFits
<1>1. IInv => QueueFits
  <2> SUFFICES ASSUME IInv, NEW c \in CPUs, NEW r \in RQs
               PROVE  cpu_run_queues[c][r].tail <= MAX_QUEUE_SIZE
    BY DEF QueueFits
  <2>1. cpu_run_queues \in [CPUs -> cpu_run_queue]
    BY DEF IInv, TypeOK
  <2>2. cpu_run_queues[c][r] \in circular_buffer
    BY <2>1 DEF cpu_run_queue
  <2> QED BY <2>2, QueueAssumption DEF circular_buffer
<1> QED BY <1>1, IInvHolds, PTL

(* What the invariant says of a slot that holds a task.                      *)
LEMMA LiveTask ==
  ASSUME IInv, NEW c \in CPUs, NEW s \in LiveSlots(c)
  PROVE  /\ s[1] \in RQs /\ s[2] \in Live(cpu_run_queues[c][s[1]]) /\ s = <<s[1], s[2]>>
         /\ RightTask(TaskAt(c, s), s[1], c, NumCreated, reported)
         /\ TaskAt(c, s).state = IF s \in Running(c) THEN "RUNNING" ELSE "READY"
<1>1. s[1] \in RQs /\ s[2] \in Live(cpu_run_queues[c][s[1]]) /\ s = <<s[1], s[2]>>
  BY DEF LiveSlots
<1>2. Kept(cpu_run_queues[c], c, NumCreated, Running(c), reported)
  BY DEF IInv, QueueInv
<1>3. \A r \in RQs : \A j \in Live(cpu_run_queues[c][r]) :
        /\ RightTask(cpu_run_queues[c][r].tasks[j], r, c, NumCreated, reported)
        /\ cpu_run_queues[c][r].tasks[j].state =
             IF <<r, j>> \in Running(c) THEN "RUNNING" ELSE "READY"
  BY <1>2 DEF Kept
<1> QED BY <1>1, <1>3 DEF TaskAt

(* Real-time tasks are in RQ0, the others in RQ1 or RQ2 by their priority,   *)
(* through every change of priority and every move.                          *)
THEOREM TasksStayPlaced ==
  ASSUME TIMELY, QueuesSuffice
  PROVE  SafeSpec => []PlacedByPriority
<1>1. IInv => PlacedByPriority
  BY LiveTask DEF PlacedByPriority, RightTask
<1> QED BY <1>1, IInvHolds, PTL

(* No task runs longer than it asked, and its turnaround time covers what it *)
(* was served.                                                               *)
THEOREM ServiceIsAccounted ==
  ASSUME TIMELY, QueuesSuffice
  PROVE  SafeSpec => []ServiceAccounted
<1>1. IInv => ServiceAccounted
  <2> SUFFICES ASSUME IInv PROVE ServiceAccounted
    OBVIOUS
  <2>1. \A c \in CPUs : \A s \in LiveSlots(c) :
          TaskAt(c, s).accu_time_slice <= TaskAt(c, s).turnaround_time
    BY LiveTask DEF RightTask, Accounted
  <2>2. \A k \in CPUs : pcC(k) \in Using =>
          cons[k].time_slice
            <= Queue(k)[cons[k].rq_num].tasks[cons[k].buf_index].remaining_exec_time
    BY DEF IInv, LocalInv
  <2> QED BY <2>1, <2>2 DEF ServiceAccounted
<1> QED BY <1>1, IInvHolds, PTL

(* The pointer that a consumer keeps while it has released the mutex leads   *)
(* to the task it picked, and no other task of the CPU is RUNNING.           *)
THEOREM PointersStayGood ==
  ASSUME TIMELY, QueuesSuffice
  PROVE  SafeSpec => []PointerStaysGood
<1>1. IInv => PointerStaysGood
  <2> SUFFICES ASSUME IInv, NEW k \in CPUs, pcC(k) \in Using
               PROVE  LET slot == <<cons[k].rq_num, cons[k].buf_index>>
                      IN  /\ slot \in LiveSlots(cons[k].cpu_num)
                          /\ \A s \in LiveSlots(cons[k].cpu_num) :
                               TaskAt(cons[k].cpu_num, s).state = "RUNNING" <=> s = slot
    BY DEF PointerStaysGood
  <2> DEFINE slot == <<cons[k].rq_num, cons[k].buf_index>>
  <2>1. cons[k].cpu_num = k
    BY DEF IInv, OwnQueue, Using
  <2>2. Running(k) = {slot}
    BY DEF Running
  <2>3. slot \in LiveSlots(k)
    <3>1. cons[k].buf_index \in Live(cpu_run_queues[k][cons[k].rq_num])
      BY <2>1 DEF IInv, LocalInv, Queue
    <3>2. cons[k] \in Locals
      BY DEF IInv, TypeOK
    <3>3. cons[k].rq_num \in RQs /\ cons[k].buf_index \in Slots
      BY <3>2 DEF Locals
    <3> QED BY <3>1, <3>3 DEF LiveSlots
  <2>4. ASSUME NEW s \in LiveSlots(k)
        PROVE  TaskAt(k, s).state = "RUNNING" <=> s = slot
    <3>1. TaskAt(k, s).state = IF s \in Running(k) THEN "RUNNING" ELSE "READY"
      BY LiveTask
    <3> QED BY <2>2, <3>1
  <2> QED BY <2>1, <2>3, <2>4
<1> QED BY <1>1, IInvHolds, PTL

(* A task that is not finished is in exactly one slot, once the producer has *)
(* created it.                                                               *)
LEMMA OneOccurrence ==
  ASSUME IInv, NumCreated = num_processes, NEW pid \in Pids, reported[pid] = 0
  PROVE  \E s \in CPUs \X RQs \X Slots : Occurrences(pid) = {s}
<1> DEFINE c == CpuOf(pid)
           q == cpu_run_queues[c]
<1>1. c \in CPUs /\ pid \in 0 .. NumCreated - 1
  BY CpuOfType, SchedulerAssumption DEF Pids
<1>2. Kept(q, c, NumCreated, Running(c), reported)
  BY <1>1 DEF IInv, QueueInv
<1>3. PICK r \in RQs : \E j \in Live(q[r]) : q[r].tasks[j].pid = pid
  BY <1>1, <1>2 DEF Kept
<1>4. PICK j \in Live(q[r]) : q[r].tasks[j].pid = pid
  BY <1>3
<1>5. \A r1, r2 \in RQs : \A j1 \in Live(q[r1]), j2 \in Live(q[r2]) :
        q[r1].tasks[j1].pid = q[r2].tasks[j2].pid => r1 = r2 /\ j1 = j2
  BY <1>2 DEF Kept
<1>6. j \in Slots
  <2>1. q \in cpu_run_queue
    BY <1>2 DEF Kept
  <2>2. q[r].tail \in 0 .. MAX_QUEUE_SIZE
    BY <2>1 DEF cpu_run_queue, circular_buffer
  <2> QED BY <1>4, <2>2, QueueAssumption DEF Live, Slots
<1>7. <<c, r, j>> \in Occurrences(pid)
  BY <1>1, <1>4, <1>6 DEF Occurrences, LiveSlots, TaskAt
<1>8. ASSUME NEW o \in Occurrences(pid)
      PROVE  o = <<c, r, j>>
  <2>1. /\ o = <<o[1], o[2], o[3]>> /\ o[1] \in CPUs
        /\ <<o[2], o[3]>> \in LiveSlots(o[1])
        /\ TaskAt(o[1], <<o[2], o[3]>>).pid = pid
    BY DEF Occurrences
  <2>2. /\ o[2] \in RQs /\ o[3] \in Live(cpu_run_queues[o[1]][o[2]])
        /\ CpuOf(TaskAt(o[1], <<o[2], o[3]>>).pid) = o[1]
    BY <2>1, LiveTask DEF RightTask
  <2>3. o[1] = c
    BY <2>1, <2>2
  <2>4. q[o[2]].tasks[o[3]].pid = pid
    BY <2>1, <2>3 DEF TaskAt
  <2>5. o[2] = r /\ o[3] = j
    BY <1>4, <1>5, <2>2, <2>3, <2>4
  <2> QED BY <2>1, <2>3, <2>5
<1>9. Occurrences(pid) = {<<c, r, j>>}
  BY <1>7, <1>8
<1> QED BY <1>1, <1>6, <1>9

(* No task is lost, duplicated or reported twice: from the producer's unlock *)
(* on each is in exactly one slot of one queue, or has been reported once    *)
(* and is in none.                                                           *)
THEOREM TasksAreConserved ==
  ASSUME TIMELY, QueuesSuffice
  PROVE  SafeSpec => []TasksConserved
<1>1. IInv => TasksConserved
  <2> SUFFICES ASSUME IInv, pcP \in {"unlock", "done"}, NEW pid \in Pids
               PROVE  \/ reported[pid] = 0
                           /\ \E s \in CPUs \X RQs \X Slots : Occurrences(pid) = {s}
                      \/ reported[pid] = 1 /\ Occurrences(pid) = {}
    BY DEF TasksConserved
  <2>1. NumCreated = num_processes
    BY DEF NumCreated
  <2>2. reported[pid] = 0 \/ reported[pid] = 1
    BY DEF IInv, ReportInv
  <2>3. CASE reported[pid] = 0
    BY <2>1, <2>3, OneOccurrence
  <2>4. CASE reported[pid] = 1
    <3>1. ASSUME NEW o \in Occurrences(pid) PROVE FALSE
      <4>1. /\ o[1] \in CPUs /\ <<o[2], o[3]>> \in LiveSlots(o[1])
            /\ TaskAt(o[1], <<o[2], o[3]>>).pid = pid
        BY DEF Occurrences
      <4>2. reported[pid] = 0
        BY <4>1, LiveTask DEF RightTask
      <4> QED BY <2>4, <4>2
    <3> QED BY <2>4, <3>1
  <2> QED BY <2>2, <2>3, <2>4
<1> QED BY <1>1, IInvHolds, PTL

(* A flag set, empty queues and tasks that are each in a queue until they    *)
(* are reported.                                                             *)
LEMMA FlagMeansFinished == IInv => FinishedFlagSound
<1> SUFFICES ASSUME IInv, all_tasks_finished
             PROVE  pcP = "done" /\ \A pid \in Pids : reported[pid] = 1
  BY DEF FinishedFlagSound
<1>1. pcP = "done" /\ \A c \in CPUs : Emptied(c)
  BY DEF IInv, BalanceInv
<1>2. NumCreated = num_processes
  BY <1>1 DEF NumCreated
<1>3. ASSUME NEW pid \in Pids, reported[pid] = 0 PROVE FALSE
  <2> DEFINE c == CpuOf(pid)
             q == cpu_run_queues[c]
  <2>1. c \in CPUs /\ pid \in 0 .. NumCreated - 1
    BY <1>2, CpuOfType, SchedulerAssumption DEF Pids
  <2>2. Kept(q, c, NumCreated, Running(c), reported)
    BY <2>1 DEF IInv, QueueInv
  <2>3. PICK r \in RQs : \E j \in Live(q[r]) : q[r].tasks[j].pid = pid
    BY <1>3, <2>1, <2>2 DEF Kept
  <2>4. q[r].tail = 0
    BY <1>1, <2>1, <2>3 DEF Emptied
  <2> QED BY <2>3, <2>4 DEF Live
<1>4. \A pid \in Pids : reported[pid] = 0 \/ reported[pid] = 1
  BY DEF IInv, ReportInv
<1> QED BY <1>1, <1>3, <1>4

(* all_tasks_finished is set only when the producer is done and every task   *)
(* has been reported finished (master.c:24).                                 *)
THEOREM FinishedFlagIsSound ==
  ASSUME TIMELY, QueuesSuffice
  PROVE  SafeSpec => []FinishedFlagSound
BY FlagMeansFinished, IInvHolds, PTL

=============================================================================
