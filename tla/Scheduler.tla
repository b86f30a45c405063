----------------------------- MODULE Scheduler ------------------------------
(***************************************************************************)
(* Assign3, master.c: main, the producer thread, one consumer thread per   *)
(* CPU and the task balancer, which share one run queue per CPU, a mutex   *)
(* for each, and the flag all_tasks_finished.                              *)
(*                                                                         *)
(* A step is what a thread does between two points at which another can    *)
(* see or change what it uses: a lock, an unlock, a read of a shared       *)
(* variable outside the locks.                                             *)
(***************************************************************************)
EXTENDS RunQueue, FiniteSets

CONSTANTS
  NUM_CPU,         \* CPUs, each with a run queue and a consumer thread
  num_processes,   \* the program's argument
  RT_PRIORITIES,   \* priorities rand() may give to a FIFO or RR task
  EXEC_TIMES,      \* expected execution times rand() may give, in ms
  LATENESS,        \* bound: by how many ms a measured sleep may exceed the one asked
  TIMELY           \* TRUE: each usleep of main outlasts what it waits for

ASSUME SchedulerAssumption ==
  /\ NUM_CPU \in Nat \ {0}
  /\ num_processes \in Nat
  /\ RT_PRIORITIES \subseteq 0..99
  /\ EXEC_TIMES \subseteq Nat \ {0}
  /\ LATENESS \subseteq Nat
  /\ TIMELY \in BOOLEAN

CPUs == 0 .. NUM_CPU - 1
Pids == 0 .. num_processes - 1

VARIABLES
  cpu_run_queues,      \* the run queue of each CPU
  queue_mutex,         \* the holder of each CPU's mutex
  all_tasks_finished,
  cpu_num,             \* main's loop variable; its address goes to the consumers
  pcM, pcP, pcB,       \* where main, the producer and the balancer are
  iP,                  \* the producer's loop variable
  iB,                  \* the balancer's loop variable
  total_tasks,         \* what the balancer counted
  cons,                \* the local variables of each consumer thread
  reported             \* how often RUN->FINISH was printed for each task

mainVars == <<pcM, cpu_num>>
prodVars == <<pcP, iP>>
balVars  == <<pcB, iB, total_tasks>>
vars == <<cpu_run_queues, queue_mutex, all_tasks_finished, mainVars, prodVars,
          balVars, cons, reported>>

(* Holders of a mutex: consumer k is k. *)
Free == -1
ProducerThread == -2
BalancerThread == -3

Locals ==
  [pc : {"new", "start", "check", "lock", "pick", "run", "relock", "update",
         "done", "undefined"},
   cpu_num : CPUs, rq_num : RQs, buf_index : Slots,
   sched_type : {"FIFO", "RR", "NORMAL"}, time_slice : Nat,
   temp_sleep_avg : 0 .. MAX_SLEEP_AVG]

NoLocals(pc) ==
  [pc |-> pc, cpu_num |-> 0, rq_num |-> 0, buf_index |-> 0,
   sched_type |-> "FIFO", time_slice |-> 0, temp_sleep_avg |-> 0]

Init ==
  /\ cpu_run_queues = [c \in CPUs |-> EmptyQueue]
  /\ queue_mutex = [c \in CPUs |-> Free]
  /\ all_tasks_finished = FALSE
  /\ pcM = "init" /\ cpu_num = 0
  /\ pcP = "new" /\ iP = 0
  /\ pcB = "new" /\ iB = 0 /\ total_tasks = 0
  /\ cons = [k \in CPUs |-> NoLocals("new")]
  /\ reported = [pid \in Pids |-> 0]

Lock(c, thread) ==
  queue_mutex[c] = Free /\ queue_mutex' = [queue_mutex EXCEPT ![c] = thread]
Unlock(c) == queue_mutex' = [queue_mutex EXCEPT ![c] = Free]

-----------------------------------------------------------------------------
(* main *)

M_CreateProducer ==
  /\ pcM = "init" /\ pcM' = "napProducer"
  /\ pcP' = "lock"
  /\ UNCHANGED <<cpu_run_queues, queue_mutex, all_tasks_finished, cpu_num, iP,
                 balVars, cons, reported>>

(* usleep(10000) *)
M_NapProducer ==
  /\ pcM = "napProducer" /\ pcM' = "spawn"
  /\ TIMELY => pcP = "done"
  /\ cpu_num' = 0
  /\ UNCHANGED <<cpu_run_queues, queue_mutex, all_tasks_finished, prodVars,
                 balVars, cons, reported>>

M_CreateConsumer ==
  /\ pcM = "spawn" /\ cpu_num < NUM_CPU /\ pcM' = "napConsumer"
  /\ cons' = [cons EXCEPT ![cpu_num].pc = "start"]
  /\ UNCHANGED <<cpu_run_queues, queue_mutex, all_tasks_finished, cpu_num,
                 prodVars, balVars, reported>>

(* Mutant: no usleep. *)
M_NapConsumer_NoNap ==
  /\ pcM = "napConsumer" /\ pcM' = "spawn"
  /\ cpu_num' = cpu_num + 1
  /\ UNCHANGED <<cpu_run_queues, queue_mutex, all_tasks_finished, prodVars,
                 balVars, cons, reported>>

(* usleep(50000) *)
M_NapConsumer ==
  /\ pcM = "napConsumer" /\ pcM' = "spawn"
  /\ TIMELY => cons[cpu_num].pc # "start"
  /\ cpu_num' = cpu_num + 1
  /\ UNCHANGED <<cpu_run_queues, queue_mutex, all_tasks_finished, prodVars,
                 balVars, cons, reported>>

M_CreateBalancer ==
  /\ pcM = "spawn" /\ cpu_num = NUM_CPU /\ pcM' = "joinProducer"
  /\ pcB' = "check"
  /\ UNCHANGED <<cpu_run_queues, queue_mutex, all_tasks_finished, cpu_num,
                 prodVars, iB, total_tasks, cons, reported>>

M_JoinProducer ==
  /\ pcM = "joinProducer" /\ pcM' = "joinConsumers"
  /\ pcP = "done"
  /\ cpu_num' = 0
  /\ UNCHANGED <<cpu_run_queues, queue_mutex, all_tasks_finished, prodVars,
                 balVars, cons, reported>>

M_JoinConsumer ==
  /\ pcM = "joinConsumers" /\ cpu_num < NUM_CPU
  /\ cons[cpu_num].pc = "done"
  /\ cpu_num' = cpu_num + 1
  /\ UNCHANGED <<cpu_run_queues, queue_mutex, all_tasks_finished, pcM, prodVars,
                 balVars, cons, reported>>

M_JoinBalancer ==
  /\ pcM = "joinConsumers" /\ cpu_num = NUM_CPU /\ pcM' = "done"
  /\ pcB = "done"
  /\ UNCHANGED <<cpu_run_queues, queue_mutex, all_tasks_finished, cpu_num,
                 prodVars, balVars, cons, reported>>

Main ==
  \/ M_CreateProducer \/ M_NapProducer \/ M_CreateConsumer \/ M_NapConsumer
  \/ M_CreateBalancer \/ M_JoinProducer \/ M_JoinConsumer \/ M_JoinBalancer

-----------------------------------------------------------------------------
(* The producer *)

P_Lock ==
  /\ pcP = "lock"
  /\ Lock(iP, ProducerThread)
  /\ IF iP + 1 < NUM_CPU THEN iP' = iP + 1 /\ pcP' = pcP
                         ELSE iP' = 0 /\ pcP' = "create"
  /\ UNCHANGED <<cpu_run_queues, all_tasks_finished, mainVars, balVars, cons,
                 reported>>

(* The CPU, queue and type of the i-th task.  The source has i % 4 for the   *)
(* CPU, and 4 CPUs.                                                          *)
CpuOf(i)  == i % NUM_CPU
TypeOf(i) == IF i % 5 = 0 THEN "FIFO" ELSE IF i % 5 = 1 THEN "RR" ELSE "NORMAL"
QueueOf(i) == IF i % 5 \in {0, 1} THEN 0 ELSE 1
Priorities(i) == IF i % 5 \in {0, 1} THEN RT_PRIORITIES ELSE {120}

NewTask(i, priority, exec_time) ==
  [ZeroTask EXCEPT !.pid = i, !.sched_type = TypeOf(i), !.priority = priority,
                   !.expected_exec_time = exec_time,
                   !.remaining_exec_time = exec_time]

P_CreateTask ==
  /\ pcP = "create" /\ iP < num_processes
  /\ \E priority \in Priorities(iP), exec_time \in EXEC_TIMES :
       cpu_run_queues' =
         [cpu_run_queues EXCEPT ![CpuOf(iP)][QueueOf(iP)] =
            AddTask(@, NewTask(iP, priority, exec_time))]
  /\ iP' = iP + 1
  /\ UNCHANGED <<queue_mutex, all_tasks_finished, mainVars, pcP, balVars, cons,
                 reported>>

P_AllCreated ==
  /\ pcP = "create" /\ iP = num_processes
  /\ pcP' = "unlock" /\ iP' = 0
  /\ UNCHANGED <<cpu_run_queues, queue_mutex, all_tasks_finished, mainVars,
                 balVars, cons, reported>>

P_Unlock ==
  /\ pcP = "unlock"
  /\ Unlock(iP)
  /\ iP' = iP + 1
  /\ pcP' = IF iP + 1 < NUM_CPU THEN pcP ELSE "done"
  /\ UNCHANGED <<cpu_run_queues, all_tasks_finished, mainVars, balVars, cons,
                 reported>>

Producer == P_Lock \/ P_CreateTask \/ P_AllCreated \/ P_Unlock

-----------------------------------------------------------------------------
(* The consumers *)

pcC(k) == cons[k].pc
Goto(k, from, to) == pcC(k) = from /\ cons' = [cons EXCEPT ![k].pc = to]
Queue(k) == cpu_run_queues[cons[k].cpu_num]

(* The thread reads main's cpu_num through the pointer it was given.  Past   *)
(* the last CPU it indexes the arrays out of their bounds.                   *)
C_Start(k) ==
  /\ pcC(k) = "start"
  /\ cons' = [cons EXCEPT ![k] = IF cpu_num \in CPUs
                                 THEN [@ EXCEPT !.pc = "check", !.cpu_num = cpu_num]
                                 ELSE [@ EXCEPT !.pc = "undefined"]]
  /\ UNCHANGED <<cpu_run_queues, queue_mutex, all_tasks_finished, mainVars,
                 prodVars, balVars, reported>>

C_Check(k) ==
  /\ Goto(k, "check", IF all_tasks_finished THEN "done" ELSE "lock")
  /\ UNCHANGED <<cpu_run_queues, queue_mutex, all_tasks_finished, mainVars,
                 prodVars, balVars, reported>>

C_Lock(k) ==
  /\ Goto(k, "lock", "pick")
  /\ Lock(cons[k].cpu_num, k)
  /\ UNCHANGED <<cpu_run_queues, all_tasks_finished, mainVars, prodVars, balVars,
                 reported>>

(* A task is picked and the mutex released: the consumer keeps a pointer to  *)
(* the task's slot.                                                          *)
C_Pick(k) ==
  /\ pcC(k) = "pick"
  /\ \E r \in RQs : \E j \in Slots :
       /\ IsTaskToRun(Queue(k), r, j)
       /\ LET task == Queue(k)[r].tasks[j]
          IN  /\ cons' = [cons EXCEPT ![k] =
                            [@ EXCEPT !.pc = "run", !.rq_num = r, !.buf_index = j,
                                      !.sched_type = task.sched_type,
                                      !.time_slice = get_quantum_size(task)]]
              /\ cpu_run_queues' =
                   [cpu_run_queues EXCEPT ![cons[k].cpu_num][r].tasks[j] =
                      [@ EXCEPT !.state = "RUNNING", !.turnaround_started = TRUE]]
  /\ Unlock(cons[k].cpu_num)
  /\ UNCHANGED <<all_tasks_finished, mainVars, prodVars, balVars, reported>>

(* Mutant: the mutex is kept while there is nothing to run. *)
C_NothingToRun_NoUnlock(k) ==
  /\ Goto(k, "pick", "check")
  /\ NoTaskToRun(Queue(k))
  /\ UNCHANGED <<cpu_run_queues, queue_mutex, all_tasks_finished, mainVars,
                 prodVars, balVars, reported>>

(* Nothing to run: sleep(1) and look again. *)
C_NothingToRun(k) ==
  /\ Goto(k, "pick", "check")
  /\ NoTaskToRun(Queue(k))
  /\ Unlock(cons[k].cpu_num)
  /\ UNCHANGED <<cpu_run_queues, all_tasks_finished, mainVars, prodVars, balVars,
                 reported>>

C_RunRealTime(k) ==
  /\ cons[k].sched_type \in {"FIFO", "RR"}
  /\ Goto(k, "run", "relock")
  /\ UNCHANGED <<cpu_run_queues, queue_mutex, all_tasks_finished, mainVars,
                 prodVars, balVars, reported>>

(* A NORMAL task runs for s_time and, when that is less than its slice,      *)
(* sleeps 900 ms.  Both are measured.                                        *)
RunNormal(k, s_time) ==
  /\ cons[k].sched_type = "NORMAL" /\ pcC(k) = "run"
  /\ \E late1, late2 \in LATENESS :
       LET w_time == IF s_time < cons[k].time_slice THEN 900 ELSE 0
       IN cons' = [cons EXCEPT ![k] =
                     [@ EXCEPT !.pc = "relock", !.time_slice = s_time,
                        !.temp_sleep_avg = SleepAvg(s_time + late1, w_time + late2)]]
  /\ UNCHANGED <<cpu_run_queues, queue_mutex, all_tasks_finished, mainVars,
                 prodVars, balVars, reported>>

C_RunNormal(k) == \E s_time \in ServiceTimes(cons[k].time_slice) : RunNormal(k, s_time)

C_Relock(k) ==
  /\ Goto(k, "relock", "update")
  /\ Lock(cons[k].cpu_num, k)
  /\ UNCHANGED <<cpu_run_queues, all_tasks_finished, mainVars, prodVars, balVars,
                 reported>>

(* The task in slot (r, j) after a run of the consumer with locals c. *)
Charged(task, c) ==
  LET accu == task.accu_time_slice + c.time_slice
      left == task.expected_exec_time - accu
  IN [task EXCEPT
        !.accu_time_slice = accu,
        !.remaining_exec_time = left,
        !.priority = IF c.sched_type = "NORMAL"
                     THEN NewPriority(@, c.temp_sleep_avg) ELSE @,
        !.state = IF left <= 0 THEN "FINISHED" ELSE "READY"]

(* Mutant: no task returns from RQ2. *)
PutBack_NoReturn(q, r, j) ==
  IF q[r].tasks[j].priority >= 130 /\ r = 1
  THEN move_task_from_rqSrc_to_rqDest(2, 1, q, j) ELSE q

(* A task that goes back into the queue is moved when its priority is no     *)
(* longer one of its queue's.                                                *)
PutBack(q, r, j) ==
  LET priority == q[r].tasks[j].priority
  IN  CASE priority >= 130 /\ r = 1 -> move_task_from_rqSrc_to_rqDest(2, 1, q, j)
        [] priority < 130 /\ r = 2  -> move_task_from_rqSrc_to_rqDest(1, 2, q, j)
        [] OTHER                    -> q

C_Update(k) ==
  LET c == cons[k]
      q == [update_turnaround_time(Queue(k), c.time_slice) EXCEPT
              ![c.rq_num].tasks[c.buf_index] = Charged(@, c)]
      task == q[c.rq_num].tasks[c.buf_index]
      finished == task.state = "FINISHED"
  IN  /\ pcC(k) = "update"
      /\ cons' = [cons EXCEPT ![k] = [NoLocals("check") EXCEPT !.cpu_num = c.cpu_num]]
      /\ cpu_run_queues' =
           [cpu_run_queues EXCEPT ![c.cpu_num] =
              IF finished THEN delete_task_from_queue(q, c.rq_num, c.buf_index)
                          ELSE PutBack(q, c.rq_num, c.buf_index)]
      /\ reported' = IF finished THEN [reported EXCEPT ![task.pid] = @ + 1]
                                 ELSE reported
      /\ Unlock(c.cpu_num)
      /\ UNCHANGED <<all_tasks_finished, mainVars, prodVars, balVars>>

Consumer(k) ==
  \/ C_Start(k) \/ C_Check(k) \/ C_Lock(k) \/ C_Pick(k) \/ C_NothingToRun(k)
  \/ C_RunRealTime(k) \/ C_RunNormal(k) \/ C_Relock(k) \/ C_Update(k)

-----------------------------------------------------------------------------
(* The task balancer: it only counts. *)

B_Check ==
  /\ pcB = "check"
  /\ pcB' = IF all_tasks_finished THEN "done" ELSE "lock"
  /\ iB' = 0 /\ total_tasks' = 0
  /\ UNCHANGED <<cpu_run_queues, queue_mutex, all_tasks_finished, mainVars,
                 prodVars, cons, reported>>

B_Lock ==
  /\ pcB = "lock"
  /\ Lock(iB, BalancerThread)
  /\ IF iB + 1 < NUM_CPU THEN iB' = iB + 1 /\ pcB' = pcB
                         ELSE iB' = 0 /\ pcB' = "count"
  /\ UNCHANGED <<cpu_run_queues, all_tasks_finished, mainVars, prodVars,
                 total_tasks, cons, reported>>

(* Mutant: RQ2 is not counted. *)
TasksOf_NoRQ2(c) == cpu_run_queues[c][0].count + cpu_run_queues[c][1].count

TasksOf(c) == cpu_run_queues[c][0].count + cpu_run_queues[c][1].count
                + cpu_run_queues[c][2].count

(* Mutant: only the last CPU's tasks are left in the total. *)
B_Count_LastOnly ==
  /\ pcB = "count"
  /\ total_tasks' = TasksOf(iB)
  /\ IF iB + 1 < NUM_CPU THEN iB' = iB + 1 /\ pcB' = pcB
                         ELSE iB' = 0 /\ pcB' = "unlock"
  /\ UNCHANGED <<cpu_run_queues, queue_mutex, all_tasks_finished, mainVars,
                 prodVars, cons, reported>>

B_Count ==
  /\ pcB = "count"
  /\ total_tasks' = total_tasks + TasksOf(iB)
  /\ IF iB + 1 < NUM_CPU THEN iB' = iB + 1 /\ pcB' = pcB
                         ELSE iB' = 0 /\ pcB' = "unlock"
  /\ UNCHANGED <<cpu_run_queues, queue_mutex, all_tasks_finished, mainVars,
                 prodVars, cons, reported>>

B_Unlock ==
  /\ pcB = "unlock"
  /\ Unlock(iB)
  /\ IF iB + 1 < NUM_CPU THEN iB' = iB + 1 /\ pcB' = pcB
                         ELSE iB' = 0 /\ pcB' = "decide"
  /\ UNCHANGED <<cpu_run_queues, all_tasks_finished, mainVars, prodVars,
                 total_tasks, cons, reported>>

B_Decide ==
  /\ pcB = "decide" /\ pcB' = "check"
  /\ all_tasks_finished' = (all_tasks_finished \/ total_tasks = 0)
  /\ UNCHANGED <<cpu_run_queues, queue_mutex, mainVars, prodVars, iB, total_tasks,
                 cons, reported>>

Balancer == B_Check \/ B_Lock \/ B_Count \/ B_Unlock \/ B_Decide

(* main has returned, or a thread went out of the arrays' bounds. *)
Stopped ==
  /\ pcM = "done" \/ \E k \in CPUs : pcC(k) = "undefined"
  /\ UNCHANGED vars

Next == Main \/ Producer \/ (\E k \in CPUs : Consumer(k)) \/ Balancer \/ Stopped

SafeSpec == Init /\ [][Next]_vars

(* pthread_join, the unlocked reads and the unlocks go on; a mutex that is   *)
(* free again and again is granted to each thread that waits for it; and     *)
(* rand() lets a task use its whole slice again and again.                   *)
Fairness ==
  /\ WF_vars(Main) /\ WF_vars(Producer) /\ WF_vars(Balancer) /\ SF_vars(B_Lock)
  /\ \A k \in CPUs :
       /\ WF_vars(Consumer(k))
       /\ SF_vars(C_Lock(k) \/ C_Relock(k))
       /\ SF_vars(RunNormal(k, cons[k].time_slice))

Spec == SafeSpec /\ Fairness

-----------------------------------------------------------------------------
(* Properties *)

TypeOK ==
  /\ cpu_run_queues \in [CPUs -> cpu_run_queue]
  /\ queue_mutex \in [CPUs -> CPUs \union {Free, ProducerThread, BalancerThread}]
  /\ all_tasks_finished \in BOOLEAN
  /\ cpu_num \in 0 .. NUM_CPU
  /\ pcM \in {"init", "napProducer", "spawn", "napConsumer", "joinProducer",
              "joinConsumers", "done"}
  /\ pcP \in {"new", "lock", "create", "unlock", "done"}
  /\ pcB \in {"new", "check", "lock", "count", "unlock", "decide", "done"}
  /\ iP \in Nat /\ iB \in CPUs /\ total_tasks \in Nat
  /\ cons \in [CPUs -> Locals]
  /\ reported \in [Pids -> Nat]

(* The slots of CPU c that hold a task. *)
LiveSlots(c) == {s \in RQs \X Slots : s[2] \in Live(cpu_run_queues[c][s[1]])}
TaskAt(c, s) == cpu_run_queues[c][s[1]].tasks[s[2]]

(* Queue r is the one for a task of its type and priority. *)
Placed(t, r) ==
  /\ r = 0 <=> t.sched_type \in {"FIFO", "RR"}
  /\ r = 0 => t.priority \in 0..99
  /\ r = 1 => t.priority \in 100..129
  /\ r = 2 => t.priority \in 130..139

(* common_structs.h:11-15 and 63-65: real-time tasks are in RQ0, NORMAL ones *)
(* in RQ1 below priority 130 and in RQ2 from 130, whatever their dynamic     *)
(* priority has been through.                                                *)
PlacedByPriority == \A c \in CPUs : \A s \in LiveSlots(c) : Placed(TaskAt(c, s), s[1])

Using == {"run", "relock", "update"}

(* The pointer a consumer keeps from one critical section to the next still  *)
(* leads to the task it picked, the only one of the CPU that is RUNNING.     *)
PointerStaysGood ==
  \A k \in CPUs : pcC(k) \in Using =>
    LET slot == <<cons[k].rq_num, cons[k].buf_index>>
    IN  /\ slot \in LiveSlots(cons[k].cpu_num)
        /\ \A s \in LiveSlots(cons[k].cpu_num) :
             TaskAt(cons[k].cpu_num, s).state = "RUNNING" <=> s = slot

Occurrences(pid) ==
  {o \in CPUs \X RQs \X Slots :
     LET s == <<o[2], o[3]>>
     IN  s \in LiveSlots(o[1]) /\ TaskAt(o[1], s).pid = pid}

(* No task is lost, duplicated or finished twice by the shifts and moves:    *)
(* until it is reported finished it is in exactly one slot.                  *)
TasksConserved ==
  pcP \in {"unlock", "done"} =>
    \A pid \in Pids :
      \/ reported[pid] = 0 /\ \E s \in CPUs \X RQs \X Slots : Occurrences(pid) = {s}
      \/ reported[pid] = 1 /\ Occurrences(pid) = {}

(* all_tasks_finished means what its comment says (master.c:24).             *)
FinishedFlagSound ==
  all_tasks_finished => pcP = "done" /\ \A pid \in Pids : reported[pid] = 1

(* A task's turnaround time covers the service it got, and no run takes a    *)
(* task beyond the service it asked for.                                     *)
ServiceAccounted ==
  /\ \A c \in CPUs : \A s \in LiveSlots(c) :
       TaskAt(c, s).accu_time_slice <= TaskAt(c, s).turnaround_time
  /\ \A k \in CPUs : pcC(k) \in Using =>
       cons[k].time_slice
         <= Queue(k)[cons[k].rq_num].tasks[cons[k].buf_index].remaining_exec_time

(* common_structs.h:21: a queue holds at most MAX_QUEUE_SIZE tasks.          *)
QueueFits == \A c \in CPUs : \A r \in RQs : cpu_run_queues[c][r].tail <= MAX_QUEUE_SIZE

(* master.c:70: the sleep keeps cpu_num from being messed up, each CPU has   *)
(* its own consumer.                                                         *)
OwnQueue ==
  \A k \in CPUs : pcC(k) \notin {"new", "start"} =>
    pcC(k) # "undefined" /\ cons[k].cpu_num = k

(* The task that consumer k runs, where its pointer now leads. *)
RunBy(k) == Queue(k)[cons[k].rq_num].tasks[cons[k].buf_index].pid

Status(pid) ==
  IF reported[pid] > 0 THEN "finished"
  ELSE IF \E k \in CPUs : pcC(k) \in Using /\ RunBy(k) = pid THEN "running"
  ELSE "waiting"

Pool == INSTANCE TaskPool WITH
          Tasks     <- Pids,
          Home      <- CpuOf,
          status    <- [pid \in Pids |-> Status(pid)],
          announced <- all_tasks_finished

(* master.c:24-27: the threads, queues and locks implement a pool of tasks:  *)
(* what runs is never two tasks of one CPU or a task of another CPU's, a run *)
(* ends in the task it began with, no task runs after it has finished, and   *)
(* the end is announced only when all have.                                  *)
TaskPoolSpec == Pool!Spec

(* Every task is finished, once, and the program ends.                       *)
AllTasksFinish ==
  <>(pcM = "done" /\ \A pid \in Pids : reported[pid] = 1)

-----------------------------------------------------------------------------
(***************************************************************************)
(* The inductive invariant, for TIMELY sleeps and a queue size that        *)
(* QueuesSuffice for.  A consumer's queue is its own from the moment the   *)
(* producer is done, so the queue of CPU c changes only in the two         *)
(* critical sections of consumer c.                                        *)
(***************************************************************************)

(* The tasks of the first n that queue r of CPU c gets from the producer. *)
Assigned(c, r, n) == {i \in 0 .. n - 1 : CpuOf(i) = c /\ QueueOf(i) = r}

QueuesSuffice ==
  \A c \in CPUs : \A r \in 0..1 :
    Cardinality(Assigned(c, r, num_processes)) <= MAX_QUEUE_SIZE

NumCreated ==
  IF pcP \in {"new", "lock"} THEN 0 ELSE IF pcP = "create" THEN iP ELSE num_processes

Started(k) == pcC(k) \notin {"new", "start"}

(* The order in which main lets the threads start. *)
PhaseInv ==
  /\ pcP = "lock" => iP < NUM_CPU
  /\ pcP = "create" => iP <= num_processes
  /\ pcP = "unlock" => iP < NUM_CPU
  /\ pcP = "new" => iP = 0
  /\ pcM = "init" <=> pcP = "new"
  /\ pcP # "done" => pcM \in {"init", "napProducer"}
  /\ pcM \in {"init", "napProducer", "spawn", "napConsumer"} => pcB = "new"
  /\ pcM = "napConsumer" => cpu_num < NUM_CPU
  /\ \A k \in CPUs :
       /\ pcM \in {"init", "napProducer"} => pcC(k) = "new"
       /\ pcM = "spawn" => IF k < cpu_num THEN Started(k) ELSE pcC(k) = "new"
       /\ pcM = "napConsumer" =>
            IF k < cpu_num THEN Started(k)
            ELSE IF k = cpu_num THEN pcC(k) # "new" ELSE pcC(k) = "new"
       /\ pcM \in {"joinProducer", "joinConsumers", "done"} => Started(k)

MutexInv ==
  \A c \in CPUs :
    /\ queue_mutex[c] = ProducerThread <=>
         \/ pcP = "lock" /\ c < iP
         \/ pcP = "create"
         \/ pcP = "unlock" /\ c >= iP
    /\ queue_mutex[c] = BalancerThread <=>
         \/ pcB = "lock" /\ c < iB
         \/ pcB = "count"
         \/ pcB = "unlock" /\ c >= iB
    /\ \A k \in CPUs : queue_mutex[c] = k <=> k = c /\ pcC(k) \in {"pick", "update"}

Running(c) ==
  IF pcC(c) \in Using THEN {<<cons[c].rq_num, cons[c].buf_index>>} ELSE {}

(* A task's service time, and that it is not used up. *)
Accounted(t) ==
  /\ t.remaining_exec_time = t.expected_exec_time - t.accu_time_slice
  /\ t.remaining_exec_time > 0
  /\ t.accu_time_slice <= t.turnaround_time

(* A task in queue r of CPU c, after the producer created n tasks.           *)
RightTask(t, r, c, n, finished) ==
  /\ t.pid \in 0 .. n - 1 /\ CpuOf(t.pid) = c /\ finished[t.pid] = 0
  /\ Placed(t, r) /\ Accounted(t)

(* The queue is never fuller than with all the tasks assigned to it.         *)
Room(q, c, n) ==
  /\ q[0].tail <= Cardinality(Assigned(c, 0, n))
  /\ q[1].tail + q[2].tail <= Cardinality(Assigned(c, 1, n))

(* A queue q of CPU c, while the task in the slots `running' runs: each of   *)
(* the n tasks that is the CPU's and not finished is in it once.             *)
Kept(q, c, n, running, finished) ==
  /\ q \in cpu_run_queue
  /\ \A r \in RQs : q[r].count = q[r].tail
  /\ \A r \in RQs : \A j \in Live(q[r]) :
       /\ RightTask(q[r].tasks[j], r, c, n, finished)
       /\ q[r].tasks[j].state = IF <<r, j>> \in running THEN "RUNNING" ELSE "READY"
       /\ <<r, j>> \in running => q[r].tasks[j].turnaround_started
  /\ \A r1, r2 \in RQs : \A j1 \in Live(q[r1]), j2 \in Live(q[r2]) :
       q[r1].tasks[j1].pid = q[r2].tasks[j2].pid => r1 = r2 /\ j1 = j2
  /\ \A pid \in 0 .. n - 1 :
       CpuOf(pid) = c /\ finished[pid] = 0 =>
         \E r \in RQs : \E j \in Live(q[r]) : q[r].tasks[j].pid = pid
  /\ Room(q, c, n)

QueueInv ==
  \A c \in CPUs : Kept(cpu_run_queues[c], c, NumCreated, Running(c), reported)

ReportInv ==
  \A pid \in Pids : reported[pid] = 0 \/ (reported[pid] = 1 /\ pid < NumCreated)

(* What a consumer remembers of the task that it runs. *)
LocalInv ==
  \A k \in CPUs : pcC(k) \in Using =>
    LET c == cons[k]
        t == Queue(k)[c.rq_num].tasks[c.buf_index]
    IN  /\ c.buf_index \in Live(Queue(k)[c.rq_num])
        /\ c.sched_type = t.sched_type
        /\ c.time_slice <= t.remaining_exec_time

Emptied(c) == \A r \in RQs : cpu_run_queues[c][r].tail = 0

(* Once the balancer has found a CPU without tasks it stays without.         *)
BalanceInv ==
  /\ pcB = "lock" => total_tasks = 0
  /\ pcB = "count" /\ total_tasks = 0 => \A c \in CPUs : c < iB => Emptied(c)
  /\ pcB \in {"unlock", "decide"} /\ total_tasks = 0 => \A c \in CPUs : Emptied(c)
  /\ all_tasks_finished => pcP = "done" /\ \A c \in CPUs : Emptied(c)

IInv ==
  TypeOK /\ PhaseInv /\ OwnQueue /\ MutexInv /\ QueueInv /\ ReportInv /\ LocalInv
    /\ BalanceInv

=============================================================================
