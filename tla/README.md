# A verification project for SYSC4001

The repository holds three separate C programs (`src/Assign1` to `src/Assign3`): a sensor
controller over a message queue, a file copy through shared memory, and a simulated
multi-CPU scheduler. They share no code. This directory models each of them in TLA+,
checks the models with TLC on small instances, and proves their safety properties and
refinements with TLAPS for every value of the constants.

`PROJECT.json` lists the components, the runs, the mutants, the source lines of every
definition, the findings and the hazards. `tlc -config <run>.cfg <module>.tla` repeats a
run, `tlapm <module>Proofs.tla` the proofs of a module.

## 1. Inventory

### Assign2: producer and consumer over shared memory

| part | state | operations |
|---|---|---|
| `producer.c` | `nRead`, `nWrite_shm`, `nWrite_shmTot`, `buffer_index` | set the semaphores, stat, announce the size, read the file in chunks of BUFSIZ, put each chunk into blocks |
| `consumer.c` | `buffer_index`, bytes written, the output file | wait for the size, take blocks, write them to the file, remove segments and semaphores |
| `common_sem.c` | semaphores S, N, E | `semaphore_wait`, `semaphore_signal`, `set_semvalue`, `del_semvalue` |
| `common_shm.c` | the ring of blocks and the size segment | `init_shm_circularBuffer`, `init_shm_metadata` |

The two processes share nothing but the semaphores and the segments. Hard: blocks are filled
and read in several stores; N carries one token that is not a block; the consumer removes
the semaphores while the producer may still run; each failure ends one process and leaves
the other; what a killed or failed session leaves in the IPC objects is found by the next,
since every `semget` and `shmget` has IPC_CREAT. Correct means: the output is a prefix of
the input at every moment and all of it in the end; nobody is in a slot the other uses;
nobody needs a semaphore that is gone; both end; and a session started after a broken one is
as good as the first, as far as the code can make it so.

### Assign3: multi-CPU scheduler

| part | state | operations |
|---|---|---|
| run queues (`utility.c`, `common_structs.h`) | per CPU three buffers RQ0, RQ1, RQ2 | pick a task, quantum, delete with shift, move between queues, turnaround times |
| main (`master.c`) | `cpu_num`, the thread ids | create and join the threads, with sleeps between |
| producer thread | loop variable | lock all queues, create the tasks, unlock |
| consumer thread, one per CPU | `cpu_num`, a pointer to the running task, its queue and slot | pick under the lock, run without it, put back or delete under it |
| balancer thread | `total_tasks` | lock all queues, count, unlock, set `all_tasks_finished` |

Hard: the consumer keeps a pointer from one critical section to the next; the end is
decided by the balancer's count; the arguments of the consumer threads point to main's
loop variable; two threads hold all the locks at once while the others take one at a
time; nothing checks the size of a queue. Correct means: each task is in one slot of the
queue of its priority until it is reported finished once; the pointer stays good; the
end is announced only when all is done; all threads end.

### Assign1: sensor controller

| part | state | operations |
|---|---|---|
| child (`controller.c`) | `sensor_list`, `actuator_list`, `sequence_number` | register a device, tell the parent of a crossed threshold (message, then SIGUSR1), instruct an actuator and wait for the reply, on CTRL+C send stop messages and remove the queue |
| parent (`controller.c`) | `retrieve_msg_flag`, `kill_process` | poll the flags, receive, write to the FIFO, write "end" |
| sensor, actuator | where they are | register and wait for the acknowledgement, look for a stop message, send a reading, answer an instruction |
| cloud | | read the FIFO, print, end at "end" |
| message queue, FIFO, signals | messages by type, bytes, pending signals | kernel objects |

Hard: one queue with a limit carries all message types; signals do not queue and
interrupt system calls; flags are set by handlers and cleared by the loop; a stop message
may be taken by any device; CTRL+C goes to both processes; a killed controller leaves its
queue behind, and devices may be started before the next one deletes it; devices or
the cloud are killed. Correct means: no message to
the cloud is repeated or overtaken; the reply the child takes is the one to its
instruction; each device is served, and stopped at the end.

The hazards of the three programs, each at its line with the properties aimed at it, are
in `PROJECT.json`.

## 2. Modules

| module | models |
|---|---|
| `CopyChannel` | abstract: a bounded FIFO channel that carries a file in blocks |
| `SharedBuffer` | Assign2, both processes; refines `CopyChannel` |
| `CopySessions` | Assign2, sessions one after another over what the last left; EXTENDS `SharedBuffer` |
| `SharedBufferProofs` | proofs about `SharedBuffer`: its inductive invariant, types, slots |
| `CopyProofs`, `ChannelProofs` | proofs about what is copied and when it is removed; the refinement of `CopyChannel` |
| `CopySessionsProofs` | proofs about any number of sessions |
| `RunQueue` | Assign3, `utility.c`: operators on a run queue as a value |
| `TaskPool` | abstract: tasks that run on their own CPUs, one at a time, until all are finished |
| `Scheduler` | Assign3, `master.c`: all threads; EXTENDS `RunQueue`, refines `TaskPool` |
| `RunQueueProofs`, `SchedulerProofs`, `TaskPoolProofs` | lemmas on the run queues; proofs about the threads; the refinement of `TaskPool` |
| `Controller` | Assign1: all processes with the queue, the signals and the FIFO |
| `ControllerProofs` | proofs about `Controller` |
| `MC...` | the small instances |

Mutants, definitions named after what they change (`P_WaitE_NoWait`), stand before the
definition they are a plausible broken version of. They are part of no specification; a
run in which one replaces its definition must fail.

### SharedBuffer

A step is a system call or a store into a block. `pcP` and `pcC` say which comes next:

| producer | code | consumer | code |
|---|---|---|---|
| `P_InitSemaphores` | `set_semvalue` for S, E, N | `C_OpenOutput` | unlink and open the output |
| `P_Stat`, `P_Announce` | size into the segment, signal N | `C_WaitMeta` | first wait on N |
| `P_OpenInput`, `P_Read` | open, read | `C_WaitN`, `C_WaitS` | loop test and waits |
| `P_WaitE`, `P_WaitS` | waits before a block | `C_Write` | `copy_to_file` |
| `P_StoreCount`, `P_StoreData` | `write_to_shared_memory` | `C_Advance` | index |
| `P_SignalS`, `P_SignalN` | signals | `C_SignalS`, `C_SignalE` | signals |
| `P_ChunkDone`, `P_Finish` | loop ends | `C_LoopDone`, `C_RemoveSemaphore` | clean-up |

Abstractions. A block's text is the file offset it was copied from; `Delivered` says what
`strncpy` makes of it (after a NUL, padding). The offset of the input file is not kept: it
is `nWrite_shmTot` whenever a read happens. Semaphore operations on a removed semaphore
fail at once and change nothing, as the callers ignore them. Removing a segment is no
step of its own since the attached processes keep it. The three SETVALs are one step here: in
a session from fresh objects the consumer's first semaphore operation waits for N, which is
zero until the announcement. `P_StatFails` goes on
with any size: the code does not look at the result of `stat`.

### CopySessions

The processes of a session are those of `SharedBuffer`, failures included; only the three
SETVALs are steps of their own (`P_SetS`, `P_SetN`, `P_SetE`, and `P_SetFails` on a semaphore
that is gone). `Kill` ends a process at any point, `NewSession` starts both programs again
when those before have ended. It gives them what `semget` and `shmget` would find: semaphores
with their last values unless the consumer removed them (`LeftOver`), segments with their
last contents unless it removed those. A `shmget`, `shmat` or `semget` that fails ends its
process where it starts, which is a `Kill` there.

Two things take the ground from a session. Its consumer passes its first wait on an old token
of N before the producer has set N to 0 (`TakesOldToken`); or a waiting `semop` is
interrupted, and the caller does not look at the result and goes on without the token
(`P_Interrupted`, `C_Interrupted`). The session goes on in the model as in the code: the
consumer may take further old tokens, read a slot that no producer of its session has filled
(`C_WriteOld`), meet the producer in a slot, or remove semaphores that the producer then
fails to set or to wait on. `fresh`, the slots that hold a whole block of the session, and
`disturbed` are history variables, on which only the choice between `C_Write` and
`C_WriteOld` depends (which bytes an old block has is left open: NULs stand for them).

The properties say nothing of a session that is disturbed itself. They are about the
sessions that come after it, or after a killed one, over whatever it left.

Both processes of a session get their IPC objects when it starts. A program started after a
misled consumer has removed everything is, in the model, one of the next session, whose
other process is killed at its start; a `semget` or `shmget` between two of that consumer's
removals is left out.

### RunQueue and Scheduler

Heads never move in the code, so a buffer is its tail, count and slots. The slot a
deletion gives up keeps a copy nobody reads; it is zeroed. `sleep_avg`, `time_slice` and
`last_cpu` of the task are left out because nothing reads what the code stores there
(the sleep average is computed from 0 each time). `i % 4` of the source is
`i % NUM_CPU`, the same for the source's four CPUs.

A step is what a thread does between two points at which another can see or change what it
uses: `C_Check` reads the flag, `C_Lock`, `C_Pick` and `C_NothingToRun` are the first
critical section of `consumer_thread_function`, `C_RunRealTime` and `C_RunNormal` what is
outside, `C_Relock` and `C_Update` the second section. The balancer and the producer lock
one mutex a step, in order. `TIMELY` says whether each `usleep` of main outlasts what it
waits for. `rand()` is a choice from a set.

`TaskPool` knows only whether a task waits, runs or is finished. The refinement maps a task
to running when a consumer's pointer leads to its slot, so a shift or move that puts another
task under the pointer is a step the pool does not have. That all tasks finish is
`AllTasksFinish`.

### Controller

The controller begins before its fork, at `Main_Flush`: the queue that is there, new or left
by a controller that was killed (`OldQueue`), is deleted, and a device that was started too
early, waiting on that queue or about to use it, fails. Child and parent are "main" until
then, and CTRL+C at that time is known to both.

`mq` is the queue, one sequence per message type, of `QUEUE_LIMIT` messages in all
(`Queued`, the places taken). A queue left by a killed controller is within the limit too.
No pid is a message type of the server (`PidAssumption`): the types are 1 to 4, and
pids that low belong to the system.
`SignalParent` and `SignalChild` say what a signal does: it runs the handler, or it
interrupts the wait the process is in, or both orders are possible because the wait may
start just after it. A system call that a signal interrupts is not restarted. The
handler of the child's SIGINT writes a variable nobody reads, so only the interrupted
wait has an effect. Message texts and sensor values are left out: a reading is over its
threshold or not, a message to the parent is its number.

A signal is delivered when it is sent. A sensor whose time to send has not come, or an
actuator that does not look for an instruction this second, does `D_Idle`. At the end of
the FIFO, when the parent has gone and the FIFO is empty, the cloud prints its last message
forever (`repeats`). A device started after the end makes a queue of its own and waits there
(`orphan`), or fails if it had asked for the old one. `D_Kill` kills a device, also while it
registers or owes an answer; `Cloud_Kill` kills the cloud, after which the parent's next
write ends it (`P_BrokenPipe`). `P_StartFails` is a parent whose `msgget`, `mkfifo` or `open`
fails. `P_Start` merges `sigaction` and `msgget`: only the first
matters to others.

## 3. Runs

| run | result | shows |
|---|---|---|
| `buffer_copy` | passes | without failures, every interleaving copies files of 0 to 9 bytes exactly, over an old output or none; the semaphores go only when no longer needed; both processes end; the program implements `CopyChannel`, its progress included |
| `buffer_faults` | passes | two sessions, without S, with failing opens, reads, writes and stat, short writes, a file that shrinks, kills and one interrupted wait, disturbed sessions played to their end. Of a session that is not disturbed itself, over whatever the other left: never in one slot (`ExclusionRestored`), output in order and not repeated (`OrderRestored`), only own blocks written (`OwnBlocksOnly`), all slots counted once as soon as the semaphores are set (`CountsRestored`). A consumer is misled only after a session that did not remove its objects (`MisledOnlyByLeftovers`) |
| `buffer_waits` | violation | a consumer started first over what a killed session left does not wait for the producer, and writes a slot its session has not filled (finding 1) |
| `sched_one` | passes | tasks of every type and length on one CPU: each task in one slot of the right queue, times add up, end announced when done |
| `sched_two` | passes | two CPUs and the balancer: pointers stay good, no deadlock, all tasks finish; the program implements `TaskPool` |
| `sched_cpu_num` | violation | a late consumer thread reads the wrong CPU (finding 2) |
| `sched_overflow` | violation | 68 processes overfill a queue (finding 3) |
| `controller_serve` | passes | after an old queue or none, every device is acknowledged, every instruction answered by the right reply |
| `controller_stop` | passes | CTRL+C at any time, a killed device or cloud, a parent that fails to start, an old queue, a full queue: order of the messages to the cloud, the parent never waits on an empty queue, a stop message for each device, a cloud left reading without "end" only when the queue was removed with a crossing in it |
| `controller_ctrlc` | violation | CTRL+C is lost on a child that is not waiting (finding 4) |
| `controller_cloud` | violation | a SIGUSR1 is lost and a message never reaches the cloud (finding 5) |
| `controller_full` | violation | readings fill the queue and the child waits forever for room (finding 6) |

`buffer_faults` and `buffer_waits` are runs of `MCCopySessions`, the others are runs of their
component's `MC` module.

### Bounds, and why they are enough

* `buffer_copy`: 3 slots, blocks of 2 bytes, reads of 4. Nine bytes are 5 blocks in 3 reads
  (4, 4, 1): both indices wrap, a read ends at a partial block, the ring fills and empties.
  Every byte of a file is different, so a lost, doubled or torn one shows. `buffer_faults`
  has 2 slots and a file of 3 bytes in blocks of one, read 2 and 1: the indices wrap, the ring
  fills, a read spans two blocks, and a short write loses a block. (Partial blocks are
  `buffer_copy`'s.) `stat` may return any size and the file may shrink; a file that grows
  after `stat` is to producer and consumer like one whose size `stat` gave too low, and is
  left to the proofs. Two sessions are the fewest with leftovers. What the second finds
  depends only on the state the first ends in, and a first session ends with either process
  killed, failed, misled or done at each of its steps. One interrupted wait leaves the counts
  off by one in either direction. Without S the processes meet in every order; what
  `CountsRestored` says of S itself is then trivial, and is left to the proofs, which cover
  both settings and all sizes and numbers.
* `sched_one`: with execution times of 100 and 600 ms and services in halves of a slice, a
  NORMAL task is driven up into RQ2 and back. 4 tasks include each type and two NORMAL ones.
  A run is `SERVICE_GRAIN` + 1 service times, `LATENESS` an error of a sleep.
* `sched_two`: 2 CPUs and 4 tasks are the fewest with two tasks in one queue and threads
  that compete for two locks.
* `sched_overflow`: the source's constants. 67 processes still fit: task number 67, the
  68th, is the eleventh in RQ1 of CPU 3.
* `controller_*`: two sensors and one actuator (`controller_serve`) are the fewest in which a
  sensor has no actuator and two of a kind compete; a sensor and an actuator, which may be
  started at any time or never (`controller_stop`), are the fewest that compete for a stop
  message. A queue of 3 fills up, one of 8 has room for all. With two readings one message
  can overtake a flag; with two CTRL+C the second meets the shutdown; two failures kill both
  devices, or one and the cloud. `controller_serve` has at most one instruction per sensor and
  reading under way; that the reply is the right one with more devices and readings is
  `RepliesMatch`. `controller_full` has a queue of 2 and three readings, one
  in the child's hands and two that fill it; the kernel's queue of 16384 bytes holds some
  370 of them, which five sensors send in minutes.

`CHECK_DEADLOCK FALSE` stands where the program really may stop: after failures of
Assign2, and in Assign1 where everybody may wait for room in a full queue and where all
processes have ended.

### Fairness

* Assign2: weak fairness of each process. `semop` lets a process through once its semaphore
  stays positive, and no other process takes it away: there is one waiter for N and one for
  E, and S is given back.
* Assign3: weak fairness of the threads; strong fairness where a thread asks for a mutex,
  which others release and take again and again (they sleep between); and strong fairness of
  a NORMAL task's run of a full slice, since `rand() % (time_slice + 40)` is cut at
  `time_slice` and so gives the full slice with positive probability. Without it a task
  could be served 0 ms forever. The polling of main's joins needs none.
* Assign1: weak fairness of the processes, the cloud among them, and strong fairness of an
  actuator's taking an instruction: it looks on one pass of its loop out of several. The
  user may do nothing.

## 4. Proofs

Each proof module EXTENDS the module it is about. All theorems are about the specification
without fairness (`SafeSpec`, `SessionsSpec`), for every value of the constants that
satisfies the module's assumption. Each rests on an inductive invariant that is part of the
model, so that TLC can look at it too; the proof that a step keeps it has a lemma for
each conjunct (`SlotStep`, `QueueStep`, `WayStep` and so on), by cases on the actions.

| module | theorems | assumed beyond the module's assumption |
|---|---|---|
| `SharedBufferProofs` | `IInvHolds`, `TypeCorrect` (`TypeOK`), `SlotsExclusive` (`SlotExclusion`) | |
| `CopyProofs` | `BytesKeepOrder` (`OrderKept`) | |
| | `CopyIsFaithful` (`CopyFaithful`) | no short write |
| | `TeardownIsSafe` (`TeardownSafe`) | no growing file, no failing stat |
| | `DoneMeansComplete` (`DoneIsComplete`) | the same, and no shrinking file |
| `ChannelProofs` | `ImplementsChannel` (`Channel!SafeSpec`) | no short write, no growing file, no failing stat |
| `CopySessionsProofs` | `SessionInvHolds`, `SessionsExclusive` (`ExclusionRestored`), `SessionsKeepOrder` (`OrderRestored`), `OwnBlocksAreRead` (`OwnBlocksOnly`), `CountsAreRestored` (`CountsRestored`), `OnlyLeftoversMislead` (`MisledOnlyByLeftovers`) | |
| `SchedulerProofs` | `IInvHolds`, `TypesHold` (`TypeOK`), `ConsumersOwnQueues` (`OwnQueue`), `QueuesFit` (`QueueFits`), `TasksStayPlaced` (`PlacedByPriority`), `ServiceIsAccounted` (`ServiceAccounted`), `PointersStayGood` (`PointerStaysGood`), `TasksAreConserved` (`TasksConserved`), `FinishedFlagIsSound` (`FinishedFlagSound`) | `TIMELY`, `QueuesSuffice` |
| `TaskPoolProofs` | `ImplementsTaskPool` (`TaskPoolSpec`) | `TIMELY`, `QueuesSuffice` |
| `ControllerProofs` | `IInvHolds`, `TypesHold` (`TypeOK`), `SendersAreListed` (`SendersListed`), `ParentDoesNotWait` (`ParentNeverWaits`), `CrossingsKeepOrder` (`CrossingsInOrder`), `RepliesMatch` (`ReplyMatches`), `StopsAreForEach` (`StopForEach`), `CloudIsLeftOnlyByLoss` (`CloudLeftOnlyByLoss`) | |

`RunQueueProofs` has the lemmas on `utility.c`: what `Delete` and `AddTask` keep of a
queue, and the bounds of the sleep average, the priority, the quantum and the service.

### SharedBuffer

`BufferAssumption`: sizes are positive, files are sequences of bytes. The theorems cover
`USE_S` TRUE and FALSE and, but for the rows above, every failure.

`SlotExclusion` is not inductive. It follows from counting (`SlotInv`): as long as E
exists, E, the blocks between the indices (`Live`), the slot the producer holds between
its wait on E and its store, and the slot the consumer holds between its advance and its
signal make up NUM_BUFFERS; and the producer's index is `Live` places after the
consumer's. When both are in a slot, `Live` is at least 1 (the consumer's) and less than
NUM_BUFFERS (the producer's is not counted), and two distances below the ring's size lead
to two slots (`RingAtInjective`). `Live` is defined from N and the program counters, so
`StartInv` is needed for the token of N that is not a block, and for what holds before
the semaphores are set. `ReadInv` bounds the counters of the producer, `BlocksInv` says
that a block in flight lies within the file, which types the output, and `MutexInv` gives
S its range. After the semaphores have been removed the counting stops; then the consumer
is in no slot.

What is copied needs the contents of the ring. `RingInv`: the blocks that the consumer has
not taken follow each other in the file without a gap, and the last ends where the producer
stands. `Taken` is where the first of them begins. From it:

* `KeptInv`: the bytes of the output come from before `Taken`, in order. A short write
  drops the end of a block and goes on to the next, which begins at or after that.
* `ChainInv`: without short writes the output is all of the file up to `Taken`.
* `TakenInv` and `TeardownInv`: the consumer never counts more bytes than it took. It removes
  the semaphores when the bytes it counted reach the size announced, and then the producer
  is past its last block.
* `SizeInv`: the size announced is the length of the file. `DoneIsComplete` then follows from
  `OrderKept`: as many bytes as the file has, in its order, are all of them
  (`NoneLeftOut`, by the cardinality of intervals).

The hypotheses on `FAULTS` are necessary: TLC refutes each property under each fault
excluded. After a short write the output has a hole; the consumer's count falls behind and
it waits for blocks that never come, so it is never done. When the file has grown since
`stat`, or `stat` failed, the producer reads more than was announced, and the consumer can
remove the semaphores while it still puts blocks. When the file has shrunk before
`stat`, its rest is not copied.

`ImplementsChannel` maps `P_StoreData` to `Put` and `C_Write` to `Get`, the blocks that the
consumer has not written yet to the channel, and each other step to a stutter.

### CopySessions

`SessionsAssumption` adds only that the bounds are numbers: any number of sessions, kills and
interrupted waits is covered. `SessionInv` has two parts. `LeftInv`, the bounds of the
segments and the indices, is kept by every step, a disturbed session's included: it is what
makes the leftovers values that a next session can start from. The other part is about a
session that is not disturbed. Before its producer has set the semaphores nothing is known
of them, except those it has set already and that N is 0 as long as every session removed
its objects; and no store or write has happened (`FreshStart`). `P_SetE`, the last of the
three, then establishes `IInv` and the other invariants of `SharedBuffer` over any leftovers
(`SemaphoresSet`), and each further step that does not disturb the session is a step of
`SharedBuffer` (`UsualStep`), which keeps them by the lemmas of `SharedBufferProofs` and
`CopyProofs`. `FilledHere` adds that each block in flight was filled in this session.

The theorems say of disturbed sessions only what `LeftInv` says. They could not say more:
`buffer_waits` shows a misled consumer that writes old blocks, and in the same way the two
processes can meet in a slot.

### Scheduler

`QueuesSuffice` says that the tasks the producer gives to RQ0, and to RQ1, of a CPU are at
most MAX_QUEUE_SIZE; `TIMELY` that each sleep of main outlasts what it waits for. Both are
necessary: `sched_overflow` and `sched_cpu_num` show what happens otherwise. `QueuesSuffice`
does not speak of RQ2: that the moves between RQ1 and RQ2 never overfill one is a part of
the invariant (`Room`), because the two together hold no more than RQ1 was given.

The heart is `QueueInv`, that is `Kept` of each CPU's queue: each of the CPU's tasks that is
created and not finished is in exactly one live slot, of the queue its priority and type
call for, its times add up, and it is running exactly when the CPU's consumer has its slot.
It is inductive only with these:

* `PhaseInv`, the order in which main starts the threads, and `OwnQueue`, consumer k has CPU
  k: no queue is touched by two consumers.
* `MutexInv`, who holds which mutex: while the producer or the balancer holds all locks no
  consumer is in a critical section. The producer is done before any consumer starts.
* `LocalInv`, what a consumer remembers of its task while it has no lock is still so.
* `ReportInv`, no task is reported twice.
* `BalanceInv`, a CPU that the balancer has found empty stays empty. So the flag, which it
  sets after it gave up the locks, is right.

`ImplementsTaskPool` maps a task to running when its CPU's consumer points to its slot: a
pick, and a run's end, are steps of the pool on that one task, since a deletion's shift and
a move leave every other task's status alone.

### Controller

`ControllerAssumption`: sensors and actuators are disjoint finite sets that fit the child's
lists; `PidAssumption`: no pid is one of the server's message types. Nothing is assumed of
failures, CTRL+C, the limit of the queue or what an earlier controller left in it. `IInv` has,
beside `TypeOK`, `ReplyMatches` and `StopForEach`:

* `PhaseInv`: child and parent leave "main" together, the queue is removed when the child is
  done, nobody is stopped while the child serves.
* `RegisterInv`: a device is listed, or its one request is in the queue or in the child's
  hands. So nothing is listed twice and a reading always comes from a listed sensor.
* `AckInv`: the acknowledgement of a listed device that waits for it is the first of its
  messages, and no later message is one. So an actuator never takes an instruction for it.
* `SignalInv`: the signal about to be sent and the flag that is set have a message each in
  the queue. Two signals merge into one flag, so this is an inequality.
* `WayInv`: what number each message under way has. `Taken` counts those that left the
  queue, `Passed` those in or beyond the FIFO, and the parent holds the difference.
* `LossInv`: a signal the parent has not answered when the queue is removed stands for a
  crossing that was in it. So a parent can leave a reading cloud without "end" only when
  `Passed` has stayed behind `crossings`.
* `SizeInv`: `Listed` has as many devices as the two lists are long, for the count in
  `StopForEach`.

### Only model-checked

Liveness is out of the prover's reach: `CopyCompletes`, `AllTasksFinish`, `DevicesServed`,
and the fairness of `ChannelSpec`, whose safety `ImplementsChannel` proves. The findings'
properties are violated, hence runs only.

## 5. Findings

1. `Assign2/readme:10` says that a consumer started first waits for the producer. Semaphores
   outlive their processes and only the producer sets them, so after a killed session it may
   pass on old tokens of N (`Assign2/consumer.c:76` and 88), reads the old size, and writes
   slots that its session has not filled.
2. The consumer threads of the scheduler read main's loop variable
   (`Assign3/master.c:65`); only a sleep orders the two.
3. The scheduler's producer does not look at MAX_QUEUE_SIZE (`Assign3/master.c:161`).
4. CTRL+C is lost on a child that is not waiting for a message
   (`Assign1/controller.c:107`), while the readme says it ends the program.
5. The parent clears its flag after the work (`Assign1/controller.c:224`): a signal in
   between is lost, and the message stays in the queue until another comes.
6. The child takes readings from the queue into which it sends (`Assign1/controller.c:364`,
   also 268 and 323) and waits for room there: once readings fill it, child, sensors and
   parent wait forever, while the readme lets the parent hear of every crossing.

Two more departures from the readmes have no run of their own:

* `Assign2/readme:15` promises the contents of the file. `strncpy` stops at a NUL byte and
  pads the block with zeros (`Assign2/producer.c:162`), while all its bytes are counted.
  `Delivered` models this, and the properties of the copy are stated for files without a NUL
  byte (`NulFree`).
* `Assign1/readme:30` has CTRL+C tell the cloud to end. After an ordinary CTRL+C the child may
  remove the queue (`Assign1/controller.c:123`) while the parent is about to take a crossing
  from it: its `msgrcv` fails (210), it exits at 212 without "end", and the cloud prints its
  last message forever. `CloudLeftOnlyByLoss` says, and `CloudIsLeftOnlyByLoss` proves, that
  this is the only way.

## 6. Not modelled

* Assign2: a program that is started while one of an earlier session still runs, and with it
  a `semget` or `shmget` between two removals of a misled consumer.
* Assign3: printing; failures of the pthread calls, which end the program.
* Assign1: more devices than the lists hold (the readme allows five), failures of `msgget`
  and `fork` in main and the child, which end them before they do anything, and a controller
  killed while it runs (what it leaves is in `Init`).
* Makefiles and the PDF.

## 7. Plan

Done, in this order: `CopyChannel` and `SharedBuffer` with their refinement, `RunQueue` and
`Scheduler`, `Controller`; then `CopySessions`, `TaskPool`, and in `Controller` the flush,
the killed devices and the cloud at the end of the FIFO; then the proofs of every safety
property the passing runs check, and of the two refinements.

Next:

1. `RunQueueProofs`: that `Pick` chooses what the loop of `consumer_thread_function` is meant
   to choose (the first of the best priority), as a lemma on every queue.
2. Action properties from the invariants at hand: a task's remaining time never grows, a
   device once stopped stays so, the output only grows.
3. In `SchedulerProofs`, what remains true without `TIMELY`.
