------------------------------ MODULE RunQueue ------------------------------
(***************************************************************************)
(* Assign3: the multilevel run queue of one CPU (common_structs.h) and the *)
(* operations on it (utility.c), as operators on values.                   *)
(*                                                                         *)
(* A circular_buffer never wraps: no code changes head, so its tasks are   *)
(* at 0 .. tail - 1, and what lies beyond is what earlier tasks left.      *)
(* Of a task's fields, time_slice and last_cpu are left out (nothing reads *)
(* them) and so is sleep_avg (nothing writes it: it stays 0).              *)
(***************************************************************************)
EXTENDS Integers

CONSTANTS
  MAX_QUEUE_SIZE,   \* slots of a circular_buffer
  SERVICE_GRAIN     \* bound: the service times tried are multiples of 1/SERVICE_GRAIN
                    \* of the time slice

ASSUME QueueAssumption ==
  /\ MAX_QUEUE_SIZE \in Nat \ {0}
  /\ SERVICE_GRAIN \in Nat \ {0}

RQs == 0..2                         \* NUM_RQ = 3
Slots == 0 .. MAX_QUEUE_SIZE - 1
MAX_SLEEP_AVG == 10
Q_SIZE_MULTIPLIER == 3
min(a, b) == IF a < b THEN a ELSE b
max(a, b) == IF a > b THEN a ELSE b

task_struct ==
  [pid : Nat, state : {"READY", "RUNNING", "FINISHED"},
   turnaround_started : BOOLEAN,
   sched_type : {"FIFO", "RR", "NORMAL"}, priority : 0..139,
   expected_exec_time : Nat, accu_time_slice : Nat,
   remaining_exec_time : Int, turnaround_time : Nat]

circular_buffer ==
  [tail : 0 .. MAX_QUEUE_SIZE, count : 0 .. MAX_QUEUE_SIZE,
   tasks : [Slots -> task_struct]]

cpu_run_queue == [RQs -> circular_buffer]

(* What the zeroed global array holds. *)
ZeroTask ==
  [pid |-> 0, state |-> "READY", turnaround_started |-> FALSE,
   sched_type |-> "FIFO", priority |-> 0, expected_exec_time |-> 0,
   accu_time_slice |-> 0, remaining_exec_time |-> 0, turnaround_time |-> 0]

EmptyQueue ==
  [r \in RQs |-> [tail |-> 0, count |-> 0, tasks |-> [s \in Slots |-> ZeroTask]]]

(* The slots a loop from head to tail visits. *)
Live(buf) == 0 .. buf.tail - 1

-----------------------------------------------------------------------------
(* get_task_to_run: the slots of queue r it considers, and the slot it picks: *)
(* the first of the least priority number, in the first queue that has one.  *)
Candidates(q, r) ==
  IF q[r].count = 0 THEN {}
  ELSE {j \in Live(q[r]) : q[r].tasks[j].priority < 140}

IsTaskToRun(q, r, j) ==
  /\ j \in Candidates(q, r)
  /\ \A r2 \in RQs : r2 < r => Candidates(q, r2) = {}
  /\ \A j2 \in Candidates(q, r) :
       LET p == q[r].tasks[j].priority
           p2 == q[r].tasks[j2].priority
       IN  p < p2 \/ (p = p2 /\ j <= j2)

NoTaskToRun(q) == \A r \in RQs : Candidates(q, r) = {}

(* Mutant: the slice is not cut at the remaining time. *)
get_quantum_size_NoCut(task) ==
  IF task.sched_type = "FIFO" THEN task.remaining_exec_time
  ELSE (140 - task.priority) * (IF task.priority < 120 THEN 20 ELSE 5)
         * Q_SIZE_MULTIPLIER

(* get_quantum_size, in ms. *)
get_quantum_size(task) ==
  IF task.sched_type = "FIFO" THEN task.remaining_exec_time
  ELSE min((140 - task.priority) * (IF task.priority < 120 THEN 20 ELSE 5)
             * Q_SIZE_MULTIPLIER,
           task.remaining_exec_time)

(* rand() % (time_slice + 40), cut at time_slice. *)
ServiceTimes(time_slice) ==
  {(time_slice * k) \div SERVICE_GRAIN : k \in 0 .. SERVICE_GRAIN}

(* Mutant: not limited from below. *)
SleepAvg_NoFloor(ran, slept) ==
  min(slept \div 100 - ran \div 100, MAX_SLEEP_AVG)

(* temp_sleep_avg after `ran' ms of execution and `slept' ms of sleep, from 0. *)
SleepAvg(ran, slept) ==
  max(0, min(slept \div 100 - ran \div 100, MAX_SLEEP_AVG))

(* The dynamic priority of a NORMAL task. *)
NewPriority(priority, sleepAvg) == max(100, min(priority - sleepAvg + 5, 139))

-----------------------------------------------------------------------------
(* update_turnaround_time: every task of the queue that has started, the one *)
(* that ran included, is charged the service time.                           *)
update_turnaround_time(q, time_slice) ==
  [r \in RQs |->
    [q[r] EXCEPT !.tasks =
      [s \in Slots |->
        LET task == q[r].tasks[s]
        IN  IF q[r].count # 0 /\ s \in Live(q[r]) /\ task.turnaround_started
            THEN [task EXCEPT !.turnaround_time = @ + time_slice]
            ELSE task]]]

(* Mutant: the hole itself is not filled. *)
Delete_OffByOne(buf, index) ==
  [tail  |-> buf.tail - 1,
   count |-> buf.count - 1,
   tasks |-> [s \in Slots |-> IF s + 1 >= buf.tail THEN ZeroTask
                              ELSE IF s > index THEN buf.tasks[s + 1]
                              ELSE buf.tasks[s]]]

(* delete_task_from_queue on one buffer: the tasks behind the hole shift     *)
(* forward by one slot.  The slot given up keeps a copy that nothing reads;  *)
(* it is zeroed here so that states differing only in it are one.            *)
Delete(buf, index) ==
  [tail  |-> buf.tail - 1,
   count |-> buf.count - 1,
   tasks |-> [s \in Slots |-> IF s + 1 >= buf.tail THEN ZeroTask
                              ELSE IF s >= index THEN buf.tasks[s + 1]
                              ELSE buf.tasks[s]]]

delete_task_from_queue(q, r, index) == [q EXCEPT ![r] = Delete(@, index)]

(* A task at the tail of a buffer. *)
AddTask(buf, task) ==
  [tail  |-> buf.tail + 1,
   count |-> buf.count + 1,
   tasks |-> [buf.tasks EXCEPT ![buf.tail] = task]]

move_task_from_rqSrc_to_rqDest(dest, src, q, index) ==
  delete_task_from_queue(
    [q EXCEPT ![dest] = AddTask(@, q[src].tasks[index])], src, index)

=============================================================================
