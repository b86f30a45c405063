--------------------------- MODULE TaskPoolProofs ---------------------------
(***************************************************************************)
(* Proof that the threads, queues and locks of Scheduler implement the     *)
(* pool of tasks of TaskPool: a consumer's pick starts a task, its update  *)
(* stops or finishes it, the balancer's decision announces the end, and    *)
(* every other step leaves the pool alone.                                 *)
(***************************************************************************)
EXTENDS SchedulerProofs

USE DEF pcC, Goto, Lock, Unlock, Free, ProducerThread, BalancerThread, mainVars,
        prodVars, balVars, vars

(* The consumer of the task's CPU runs it. *)
Runs(pid) == pcC(CpuOf(pid)) \in Using /\ RunBy(CpuOf(pid)) = pid

(* What a consumer runs is a task of its CPU that is not finished.           *)
RunInv ==
  \A k \in CPUs : pcC(k) \in Using =>
    RunBy(k) \in Pids /\ CpuOf(RunBy(k)) = k /\ reported[RunBy(k)] = 0

(* A task's status in the pool. *)
StatusInv ==
  \A pid \in Pids :
    Status(pid) = IF Runs(pid) THEN "running"
                  ELSE IF reported[pid] = 0 THEN "waiting" ELSE "finished"

(* A consumer runs a task of its own queue.                                  *)
LEMMA RunsOwnTask == IInv => RunInv
<1> SUFFICES ASSUME IInv, NEW k \in CPUs, pcC(k) \in Using
             PROVE  RunBy(k) \in Pids /\ CpuOf(RunBy(k)) = k /\ reported[RunBy(k)] = 0
  BY DEF RunInv
<1> DEFINE r == cons[k].rq_num
           j == cons[k].buf_index
<1>1. cons[k].cpu_num = k /\ r \in RQs
  BY DEF IInv, OwnQueue, Using, TypeOK, Locals
<1>2. j \in Live(cpu_run_queues[k][r])
  BY <1>1 DEF IInv, LocalInv, Queue
<1>3. Kept(cpu_run_queues[k], k, NumCreated, Running(k), reported)
  BY DEF IInv, QueueInv
<1>4. RightTask(cpu_run_queues[k][r].tasks[j], r, k, NumCreated, reported)
  BY <1>1, <1>2, <1>3 DEF Kept
<1>5. RunBy(k) = cpu_run_queues[k][r].tasks[j].pid
  BY <1>1 DEF RunBy, Queue
<1>6. NumCreated \in 0 .. num_processes
  BY CreatedType DEF IInv
<1>7. /\ RunBy(k) \in 0 .. NumCreated - 1 /\ CpuOf(RunBy(k)) = k
      /\ reported[RunBy(k)] = 0
  BY <1>4, <1>5 DEF RightTask
<1> HIDE DEF r, j
<1>8. RunBy(k) \in 0 .. num_processes - 1
  BY <1>6, <1>7, SchedulerAssumption
<1> QED BY <1>7, <1>8 DEF Pids

(* The status of a task of the pool, by where the task is.                   *)
LEMMA StatusOfTask == IInv => StatusInv
<1> SUFFICES ASSUME IInv, NEW pid \in Pids
             PROVE  Status(pid) = IF Runs(pid) THEN "running"
                                  ELSE IF reported[pid] = 0 THEN "waiting" ELSE "finished"
  BY DEF StatusInv
<1>1. RunInv
  BY RunsOwnTask
<1>2. CpuOf(pid) \in CPUs
  BY CpuOfType DEF Pids
<1>3. reported[pid] \in Nat
  BY DEF IInv, TypeOK
<1>4. Runs(pid) <=> \E k \in CPUs : pcC(k) \in Using /\ RunBy(k) = pid
  BY <1>1, <1>2 DEF Runs, RunInv
<1>5. Runs(pid) => reported[pid] = 0
  BY <1>1, <1>2 DEF Runs, RunInv
<1> QED BY <1>3, <1>4, <1>5 DEF Status

(* And the same of the next state. *)
LEMMA NextStatus == IInv' => RunInv' /\ StatusInv' /\ FinishedFlagSound'
BY RunsOwnTask, StatusOfTask, FlagMeansFinished, PTL

-----------------------------------------------------------------------------
(* The steps of one consumer.                                                *)

(* The other consumers run on. *)
LEMMA OthersRun ==
  ASSUME IInv, QueuesSuffice, NEW k \in CPUs, Consumer(k), NEW pid \in Pids, CpuOf(pid) # k
  PROVE  reported'[pid] = reported[pid] /\ (Runs(pid)' <=> Runs(pid))
<1> DEFINE k1 == CpuOf(pid)
<1>1. k1 \in CPUs \ {k}
  BY CpuOfType DEF Pids
<1>2. QueueChange(k)
  BY ConsumerQueue DEF IInv
<1>3. cpu_run_queues'[k1] = cpu_run_queues[k1]
  BY <1>1, <1>2 DEF QueueChange, IInv, TypeOK
<1>4. cons'[k1] = cons[k1]
  BY <1>1, ConsumerFrame DEF IInv
<1>5. pcC(k1) \in Using => cons[k1].cpu_num = k1
  BY <1>1 DEF IInv, OwnQueue, Using
<1>6. reported'[pid] = reported[pid]
  BY <1>2 DEF QueueChange
<1> HIDE DEF k1
<1>7. pcC(k1)' = pcC(k1) /\ (pcC(k1) \in Using => RunBy(k1)' = RunBy(k1))
  BY <1>3, <1>4, <1>5 DEF RunBy, Queue
<1>8. Runs(pid) <=> pcC(k1) \in Using /\ RunBy(k1) = pid
  BY DEF Runs, k1
<1>9. Runs(pid)' <=> pcC(k1)' \in Using /\ RunBy(k1)' = pid
  BY DEF Runs, k1
<1> QED BY <1>6, <1>7, <1>8, <1>9

(* A pick: one task of the CPU, unfinished, is run where none was.           *)
LEMMA PickStarts ==
  ASSUME IInv, QueuesSuffice, NEW k \in CPUs, C_Pick(k)
  PROVE  /\ reported' = reported /\ pcC(k) \notin Using /\ pcC(k)' \in Using
<1>1. cons[k].pc = "pick" /\ reported' = reported /\ Consumer(k)
  BY DEF C_Pick, Consumer
<1>2. cons \in [CPUs -> Locals]
  BY DEF IInv, TypeOK
<1>3. cons'[k].pc = "run"
  BY <1>2 DEF C_Pick, Locals
<1> QED BY <1>1, <1>3 DEF Using

(* The task that ran is charged, it stays the task it was.                   *)
LEMMA RunKeepsPid ==
  ASSUME NEW q, NEW c, NEW n \in Nat, NEW finished, NEW l \in Locals,
         l.buf_index \in Live(q[l.rq_num]),
         Kept(q, c, n, {<<l.rq_num, l.buf_index>>}, finished),
         l.time_slice <= q[l.rq_num].tasks[l.buf_index].remaining_exec_time,
         l.sched_type = q[l.rq_num].tasks[l.buf_index].sched_type
  PROVE  RunTask(q, l).pid = q[l.rq_num].tasks[l.buf_index].pid
<1> DEFINE u == AfterRun(q, l)
           t == u[l.rq_num].tasks[l.buf_index]
<1>1. /\ u \in cpu_run_queue /\ \A r \in RQs : u[r].count = u[r].tail
      /\ \A r \in RQs : u[r].tail = q[r].tail
      /\ \A r \in RQs : \A j \in Live(q[r]) :
           /\ u[r].tasks[j].pid = q[r].tasks[j].pid
           /\ r # l.rq_num \/ j # l.buf_index =>
                RightTask(u[r].tasks[j], r, c, n, finished) /\ u[r].tasks[j].state = "READY"
      /\ t \in task_struct
      /\ l.rq_num = 0 <=> t.sched_type \in {"FIFO", "RR"}
      /\ IF l.rq_num = 0 THEN t.priority \in 0..99 ELSE t.priority \in 100..139
      /\ t.state = "FINISHED" \/ (t.state = "READY" /\ Accounted(t))
  BY KeptAfterRun
<1>2. l.rq_num \in RQs
  BY DEF Locals
<1> HIDE DEF u
<1> QED BY <1>1, <1>2 DEF RunTask, u

(* An update: the run ends, and only the task that ran may be reported.      *)
LEMMA UpdateStops ==
  ASSUME IInv, QueuesSuffice, NEW k \in CPUs, C_Update(k)
  PROVE  /\ pcC(k) \in Using /\ pcC(k)' \notin Using
         /\ reported' = reported \/ reported' = [reported EXCEPT ![RunBy(k)] = @ + 1]
<1> DEFINE q == cpu_run_queues[k]
           l == cons[k]
<1>1. l.cpu_num = k /\ l.pc = "update" /\ l \in Locals
  BY DEF IInv, OwnQueue, C_Update, TypeOK
<1>2. cons'[k].pc = "check"
  BY DEF C_Update, NoLocals, IInv, TypeOK
<1>3. Kept(q, k, NumCreated, {<<l.rq_num, l.buf_index>>}, reported)
  BY <1>1 DEF IInv, QueueInv, Running, Using
<1>4. /\ l.buf_index \in Live(q[l.rq_num])
      /\ l.sched_type = q[l.rq_num].tasks[l.buf_index].sched_type
      /\ l.time_slice <= q[l.rq_num].tasks[l.buf_index].remaining_exec_time
  BY <1>1 DEF IInv, LocalInv, Using, Queue
<1>5. reported' =
        LET s == AfterRun(Queue(k), l)[l.rq_num].tasks[l.buf_index]
        IN  IF s.state = "FINISHED" THEN Reported(reported, s.pid) ELSE reported
  BY DEF C_Update, AfterRun, Reported
<1>6. reported' = reported \/ reported' = Reported(reported, RunTask(q, l).pid)
  BY <1>1, <1>5 DEF Queue, RunTask
<1>7. NumCreated \in Nat
  BY CreatedType, SchedulerAssumption DEF IInv
<1>8. RunBy(k) = q[l.rq_num].tasks[l.buf_index].pid
  BY <1>1 DEF RunBy, Queue
<1> HIDE DEF q, l
<1>9. RunTask(q, l).pid = q[l.rq_num].tasks[l.buf_index].pid
  BY <1>1, <1>3, <1>4, <1>7, RunKeepsPid
<1> QED BY <1>1, <1>2, <1>6, <1>8, <1>9 DEF Reported, Using, l

(* Any other step leaves what the consumer runs.                             *)
LEMMA OtherwiseRuns ==
  ASSUME IInv, NEW k \in CPUs, Consumer(k), ~C_Pick(k), ~C_Update(k)
  PROVE  /\ reported' = reported
         /\ pcC(k)' \in Using <=> pcC(k) \in Using
         /\ pcC(k) \in Using => RunBy(k)' = RunBy(k)
<1>1. cons[k] \in Locals /\ cons \in [CPUs -> Locals]
  BY DEF IInv, TypeOK
<1>2. UNCHANGED <<cpu_run_queues, reported>>
  BY DEF Consumer, C_Start, C_Check, C_Lock, C_NothingToRun, C_RunRealTime, C_RunNormal,
         RunNormal, C_Relock
<1>3. CASE C_Start(k) \/ C_Check(k) \/ C_Lock(k)
  <2>1. cons[k].pc \in {"start", "check", "lock"}
    BY <1>3 DEF C_Start, C_Check, C_Lock
  <2>2. cons'[k].pc \notin Using
    BY <2>1, ConsumerFrame DEF Using, IInv
  <2> QED BY <1>2, <2>1, <2>2 DEF Using
<1>4. CASE C_NothingToRun(k)
  <2>1. cons[k].pc = "pick" /\ cons'[k].pc = "check"
    BY <1>1, <1>4 DEF C_NothingToRun, Locals
  <2> QED BY <1>2, <2>1 DEF Using
<1>5. CASE C_RunRealTime(k) \/ C_Relock(k)
  <2>1. /\ cons[k].pc \in {"run", "relock"} /\ cons'[k].pc \in {"relock", "update"}
        /\ cons'[k].rq_num = cons[k].rq_num /\ cons'[k].buf_index = cons[k].buf_index
        /\ cons'[k].cpu_num = cons[k].cpu_num
    BY <1>1, <1>5 DEF C_RunRealTime, C_Relock, Locals
  <2> QED BY <1>2, <2>1 DEF Using, RunBy, Queue
<1>6. CASE C_RunNormal(k)
  <2>1. /\ cons[k].pc = "run" /\ cons'[k].pc = "relock"
        /\ cons'[k].rq_num = cons[k].rq_num /\ cons'[k].buf_index = cons[k].buf_index
        /\ cons'[k].cpu_num = cons[k].cpu_num
    BY <1>1, <1>6 DEF C_RunNormal, RunNormal, Locals
  <2> QED BY <1>2, <2>1 DEF Using, RunBy, Queue
<1> QED BY <1>3, <1>4, <1>5, <1>6 DEF Consumer

-----------------------------------------------------------------------------
(* What the steps are in the pool.                                           *)

(* A task that is reported and run as before has the same status.            *)
LEMMA SameStatus ==
  ASSUME StatusInv, StatusInv', NEW pid \in Pids,
         reported'[pid] = reported[pid], Runs(pid)' <=> Runs(pid)
  PROVE  Status(pid)' = Status(pid)
BY DEF StatusInv

(* If one task's status changes the pool's function changes there.           *)
LEMMA BecomeStep ==
  ASSUME NEW t \in Pids, NEW from, NEW to, Status(t) = from, Status(t)' = to,
         \A pid \in Pids \ {t} : Status(pid)' = Status(pid),
         all_tasks_finished' = all_tasks_finished
  PROVE  Pool!Become(t, from, to)
<1> DEFINE status == [pid \in Pids |-> Status(pid)]
<1>1. status[t] = from
  OBVIOUS
<1>2. status' = [pid \in Pids |-> Status(pid)']
  OBVIOUS
<1>3. [status EXCEPT ![t] = to] = [pid \in Pids |-> IF pid = t THEN to ELSE Status(pid)]
  OBVIOUS
<1>4. status' = [status EXCEPT ![t] = to]
  BY <1>2, <1>3
<1> QED BY <1>1, <1>4 DEF Pool!Become

(* A step that changes the status of no task is a stutter of the pool.       *)
LEMMA StutterStep ==
  ASSUME \A pid \in Pids : Status(pid)' = Status(pid),
         all_tasks_finished' = all_tasks_finished
  PROVE  UNCHANGED Pool!vars
BY DEF Pool!vars

(* A consumer's pick starts the task.                                        *)
LEMMA PickIsStart ==
  ASSUME QueuesSuffice, IInv, StatusInv, RunInv', StatusInv', NEW k \in CPUs, C_Pick(k)
  PROVE  Pool!Next
<1>1. Consumer(k) /\ all_tasks_finished' = all_tasks_finished
  BY DEF Consumer, C_Pick
<1>2. reported' = reported /\ pcC(k) \notin Using /\ pcC(k)' \in Using
  BY PickStarts
<1>3. RunBy(k)' \in Pids /\ CpuOf(RunBy(k)') = k /\ reported'[RunBy(k)'] = 0
  BY <1>2 DEF RunInv, CpuOf
<1>4. PICK t \in Pids : t = RunBy(k)'
  BY <1>3
<1>5. CpuOf(t) = k /\ reported[t] = 0
  BY <1>2, <1>3, <1>4
<1>6. \A pid \in Pids : CpuOf(pid) = k => ~Runs(pid)
  BY <1>2 DEF Runs
<1>7. Status(t) = "waiting"
  BY <1>5, <1>6 DEF StatusInv
<1>8. Runs(t)'
  BY <1>2, <1>4, <1>5 DEF Runs
<1>9. Status(t)' = "running"
  BY <1>8 DEF StatusInv
<1>10. ASSUME NEW pid \in Pids \ {t}
       PROVE  Status(pid)' = Status(pid)
  <2>1. CASE CpuOf(pid) = k
    <3>1. ~Runs(pid) /\ ~Runs(pid)'
      BY <1>4, <1>6, <2>1 DEF Runs
    <3> QED BY <1>2, <3>1, SameStatus
  <2>2. CASE CpuOf(pid) # k
    <3>1. reported'[pid] = reported[pid] /\ (Runs(pid)' <=> Runs(pid))
      BY <1>1, <2>2, OthersRun
    <3> QED BY <3>1, SameStatus
  <2> QED BY <2>1, <2>2
<1>11. Pool!Become(t, "waiting", "running")
  BY <1>1, <1>7, <1>9, <1>10, BecomeStep
<1>12. Pool!RunningOn(CpuOf(t)) = {}
  BY <1>5, <1>6 DEF Pool!RunningOn, StatusInv
<1> QED BY <1>11, <1>12 DEF Pool!Next, Pool!Start

(* Its update stops the task that it started, or finishes it.                *)
LEMMA UpdateIsStop ==
  ASSUME QueuesSuffice, IInv, RunInv, StatusInv, StatusInv', NEW k \in CPUs, C_Update(k)
  PROVE  Pool!Next
<1> DEFINE t == RunBy(k)
<1>1. Consumer(k) /\ all_tasks_finished' = all_tasks_finished
  BY DEF Consumer, C_Update
<1>2. /\ pcC(k) \in Using /\ pcC(k)' \notin Using
      /\ reported' = reported \/ reported' = [reported EXCEPT ![t] = @ + 1]
  BY UpdateStops
<1>3. t \in Pids /\ CpuOf(t) = k /\ reported[t] = 0
  BY <1>2 DEF RunInv
<1>4. Runs(t)
  BY <1>2, <1>3 DEF Runs
<1>5. Status(t) = "running"
  BY <1>3, <1>4 DEF StatusInv
<1>6. reported \in [Pids -> Nat]
  BY DEF IInv, TypeOK
<1> HIDE DEF t
<1>7. PICK u \in Pids : u = t
  BY <1>3
<1>8. ~Runs(u)'
  BY <1>2, <1>3, <1>7 DEF Runs
<1>9. Status(u)' = "waiting" \/ Status(u)' = "finished"
  BY <1>8 DEF StatusInv
<1>10. ASSUME NEW pid \in Pids \ {u}
       PROVE  Status(pid)' = Status(pid)
  <2>1. CASE CpuOf(pid) = k
    <3>1. ~Runs(pid) /\ ~Runs(pid)'
      BY <1>2, <1>7, <2>1 DEF Runs, t
    <3>2. reported'[pid] = reported[pid]
      BY <1>2, <1>3, <1>6, <1>7
    <3> QED BY <3>1, <3>2, SameStatus
  <2>2. CASE CpuOf(pid) # k
    <3>1. reported'[pid] = reported[pid] /\ (Runs(pid)' <=> Runs(pid))
      BY <1>1, <2>2, OthersRun
    <3> QED BY <3>1, SameStatus
  <2> QED BY <2>1, <2>2
<1>11. Status(u) = "running"
  BY <1>5, <1>7
<1>12. Pool!Become(u, "running", "waiting") \/ Pool!Become(u, "running", "finished")
  BY <1>1, <1>9, <1>10, <1>11, BecomeStep
<1> QED BY <1>12 DEF Pool!Next, Pool!Stop, Pool!Finish

(* Its other steps are not seen in the pool.                                 *)
LEMMA OtherConsumerSteps ==
  ASSUME QueuesSuffice, IInv, StatusInv, StatusInv', NEW k \in CPUs, Consumer(k),
         ~C_Pick(k), ~C_Update(k)
  PROVE  UNCHANGED Pool!vars
<1>1. all_tasks_finished' = all_tasks_finished
  BY ConsumerFrame DEF IInv
<1>2. /\ reported' = reported
      /\ pcC(k)' \in Using <=> pcC(k) \in Using
      /\ pcC(k) \in Using => RunBy(k)' = RunBy(k)
  BY OtherwiseRuns
<1>3. ASSUME NEW pid \in Pids
      PROVE  Status(pid)' = Status(pid)
  <2>1. CASE CpuOf(pid) = k
    <3>1. Runs(pid)' <=> Runs(pid)
      BY <1>2, <2>1 DEF Runs
    <3> QED BY <1>2, <3>1, SameStatus
  <2>2. CASE CpuOf(pid) # k
    <3>1. reported'[pid] = reported[pid] /\ (Runs(pid)' <=> Runs(pid))
      BY <2>2, OthersRun
    <3> QED BY <3>1, SameStatus
  <2> QED BY <2>1, <2>2
<1> QED BY <1>1, <1>3, StutterStep

(* What main, the producer and the balancer do changes no task's status.     *)
LEMMA OtherThreads ==
  ASSUME TIMELY, IInv, StatusInv, StatusInv', [Next]_vars, \A k \in CPUs : ~Consumer(k),
         NEW pid \in Pids
  PROVE  Status(pid)' = Status(pid)
<1> DEFINE k == CpuOf(pid)
<1>1. k \in CPUs
  BY CpuOfType DEF Pids
<1>2. CASE P_CreateTask
  <2>1. pcP = "create" /\ UNCHANGED <<cons, reported>>
    BY <1>2 DEF P_CreateTask
  <2>2. pcC(k) = "new"
    BY <1>1, <2>1 DEF IInv, PhaseInv
  <2>3. ~Runs(pid) /\ ~Runs(pid)'
    BY <2>1, <2>2 DEF Runs, Using
  <2> QED BY <2>1, <2>3, SameStatus
<1>3. CASE ~P_CreateTask
  <2>1. /\ UNCHANGED <<cpu_run_queues, reported>>
        /\ cons'[k] = cons[k] \/ (cons[k].pc = "new" /\ cons'[k].pc = "start")
    BY <1>1, <1>3, QueueFrame DEF IInv
  <2>2. Runs(pid)' <=> Runs(pid)
    BY <2>1 DEF Runs, RunBy, Queue, Using
  <2> QED BY <2>1, <2>2, SameStatus
<1> QED BY <1>2, <1>3

(* The balancer sets all_tasks_finished only when every task is finished.    *)
LEMMA DecideIsAnnounce ==
  ASSUME IInv, RunInv', StatusInv', FinishedFlagSound', B_Decide,
         \A pid \in Pids : Status(pid)' = Status(pid)
  PROVE  [Pool!Next]_(Pool!vars)
<1>1. /\ all_tasks_finished' = (all_tasks_finished \/ total_tasks = 0)
      /\ all_tasks_finished \in BOOLEAN
  BY DEF B_Decide, IInv, TypeOK
<1>2. CASE all_tasks_finished' = all_tasks_finished
  BY <1>2, StutterStep
<1>3. CASE all_tasks_finished' = TRUE
  <2>1. \A pid \in Pids : reported'[pid] = 1
    BY <1>3 DEF FinishedFlagSound
  <2>2. \A pid \in Pids : ~Runs(pid)'
    <3> SUFFICES ASSUME NEW pid \in Pids, Runs(pid)'
                 PROVE  FALSE
      OBVIOUS
    <3>1. CpuOf(pid) \in CPUs
      BY CpuOfType DEF Pids
    <3>2. reported'[pid] = 0
      BY <3>1 DEF Runs, RunInv
    <3> QED BY <2>1, <3>2
  <2>3. \A pid \in Pids : Status(pid) = "finished"
    BY <2>1, <2>2 DEF StatusInv
  <2>4. [pid \in Pids |-> Status(pid)]' = [pid \in Pids |-> Status(pid)]
    OBVIOUS
  <2> QED BY <1>3, <2>3, <2>4 DEF Pool!Next, Pool!Announce
<1> QED BY <1>1, <1>2, <1>3

(* Every step of Scheduler is one of the pool's, or leaves the pool alone.   *)
LEMMA PoolStep ==
  ASSUME TIMELY, QueuesSuffice, IInv, IInv', [Next]_vars
  PROVE  [Pool!Next]_(Pool!vars)
<1>1. RunInv /\ StatusInv
  BY RunsOwnTask, StatusOfTask
<1>2. RunInv' /\ StatusInv' /\ FinishedFlagSound'
  BY NextStatus
<1>3. ASSUME NEW k \in CPUs, Consumer(k)
      PROVE  [Pool!Next]_(Pool!vars)
  <2>1. CASE C_Pick(k)
    BY <1>1, <1>2, <2>1, PickIsStart
  <2>2. CASE C_Update(k)
    BY <1>1, <1>2, <2>2, UpdateIsStop
  <2>3. CASE ~C_Pick(k) /\ ~C_Update(k)
    BY <1>1, <1>2, <1>3, <2>3, OtherConsumerSteps
  <2> QED BY <2>1, <2>2, <2>3
<1>4. CASE \A k \in CPUs : ~Consumer(k)
  <2>1. \A pid \in Pids : Status(pid)' = Status(pid)
    BY <1>1, <1>2, <1>4, OtherThreads
  <2>2. CASE B_Decide
    BY <1>2, <2>1, <2>2, DecideIsAnnounce
  <2>3. CASE ~B_Decide
    <3>1. all_tasks_finished' = all_tasks_finished
      BY <1>4, <2>3
      DEF Next, Main, Producer, Balancer, Stopped, M_CreateProducer, M_NapProducer,
          M_CreateConsumer, M_NapConsumer, M_CreateBalancer, M_JoinProducer, M_JoinConsumer,
          M_JoinBalancer, P_Lock, P_CreateTask, P_AllCreated, P_Unlock, B_Check, B_Lock,
          B_Count, B_Unlock
    <3> QED BY <2>1, <3>1, StutterStep
  <2> QED BY <2>2, <2>3
<1> QED BY <1>3, <1>4

(* Both start without tasks.                                                 *)
LEMMA PoolInit == Init => Pool!Init
<1> SUFFICES ASSUME Init PROVE Pool!Init
  OBVIOUS
<1>1. \A k \in CPUs : pcC(k) \notin Using
  BY DEF Init, NoLocals, Using
<1>2. \A pid \in Pids : Status(pid) = "waiting"
  BY <1>1 DEF Init, Status
<1>3. all_tasks_finished = FALSE
  BY DEF Init
<1> QED BY <1>2, <1>3 DEF Pool!Init

(* master.c:24-27, for any number of CPUs and tasks: where the sleeps of     *)
(* main outlast what they wait for and the queues have room, the threads,    *)
(* queues and locks implement the pool of tasks.  A task runs on its own     *)
(* CPU, one at a time there; a run ends in the task it began with; no task   *)
(* runs after it has finished; the end is announced when all have finished.  *)
THEOREM ImplementsTaskPool ==
  ASSUME TIMELY, QueuesSuffice
  PROVE  SafeSpec => TaskPoolSpec
<1>1. Init => Pool!Init
  BY PoolInit
<1>2. IInv /\ IInv' /\ [Next]_vars => [Pool!Next]_(Pool!vars)
  BY PoolStep
<1> QED BY <1>1, <1>2, IInvHolds, PTL DEF SafeSpec, TaskPoolSpec, Pool!Spec

=============================================================================
