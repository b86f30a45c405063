----------------------------- MODULE Controller -----------------------------
(***************************************************************************)
(* Assign1: the controller's child and parent processes (controller.c),    *)
(* the sensors (sensor.c), the actuators (actuator.c) and the cloud        *)
(* (cloud.c), over one System V message queue, the signals SIGUSR1 and     *)
(* SIGINT, and a FIFO from parent to cloud.                                *)
(*                                                                         *)
(* A step is a system call, or the use of a variable that a signal handler *)
(* writes.  Message texts and sensor values are left out: a reading is     *)
(* over its threshold or not, and a message to the parent is its number.   *)
(***************************************************************************)
EXTENDS Integers, Sequences, FiniteSets, Functions

CONSTANTS
  Sensors, Actuators,   \* the device processes a user may start
  QUEUE_LIMIT,          \* messages the queue holds before msgsnd blocks
  MAX_READINGS,         \* bound: readings a sensor sends
  MAX_INTERRUPTS,       \* bound: how often the user presses CTRL+C
  MAX_FAILURES,         \* bound: devices and clouds that are killed
  MAX_SENSOR_NUM, MAX_ACTUATOR_NUM

ASSUME ControllerAssumption ==
  /\ IsFiniteSet(Sensors) /\ Cardinality(Sensors) <= MAX_SENSOR_NUM
  /\ IsFiniteSet(Actuators) /\ Cardinality(Actuators) <= MAX_ACTUATOR_NUM
  /\ Sensors \intersect Actuators = {}
  /\ QUEUE_LIMIT \in Nat \ {0}
  /\ MAX_READINGS \in Nat /\ MAX_INTERRUPTS \in Nat /\ MAX_FAILURES \in Nat

Devices == Sensors \union Actuators

(* msg_type: the four of common.h, and every device's pid, which is none of  *)
(* them.                                                                     *)
ServerTypes == {"DEVICE_MSG", "ACTUATOR_REPLY", "CHILD_TO_PARENT", "REQUEST_STOP"}
MsgTypes == ServerTypes \union Devices

ASSUME PidAssumption == Devices \intersect ServerTypes = {}

VARIABLES
  mq,                \* the queue's messages of each type, oldest first
  removed,           \* the queue was deleted by the child
  pcChild,           \* where the child is
  data,              \* the device message the child works on
  sensor_list, actuator_list,
  sequence_number,   \* instructions completed
  stopsLeft,         \* stop messages the child has yet to send
  crossings,         \* messages the child sent the parent so far
  pcParent,          \* where the parent is
  retrieve_msg_flag,
  kill_process,      \* the parent's copy: the child never reads its own
  msg_received2,     \* the message the parent carries to the FIFO
  pcCloud,           \* where the cloud is
  fifo,              \* what the FIFO holds
  received,          \* what the cloud printed
  pcDev,             \* where each device is
  order,             \* the instruction an actuator is answering
  readings,          \* readings each sensor sent
  interrupts         \* CTRL+C pressed so far

childVars  == <<pcChild, data, sensor_list, actuator_list, sequence_number,
                stopsLeft, crossings>>
parentVars == <<pcParent, retrieve_msg_flag, kill_process, msg_received2>>
cloudVars  == <<pcCloud, received>>
devVars    == <<pcDev, order, readings>>
vars == <<mq, removed, childVars, parentVars, cloudVars, fifo, devVars, interrupts>>

(* A device of an earlier session. *)
OldDevice == "old"
DeviceMsg == [from : Devices \union {OldDevice}, first_setup : BOOLEAN, over : BOOLEAN]
NoMsg == [from |-> "none"]
Ack == [kind |-> "ack"]
Activate(seq) == [kind |-> "activate", sequence_num |-> seq]

EmptyQueue == [t \in MsgTypes |-> <<>>]

(* What a controller that was killed may have left in the queue. *)
OldQueue ==
  [EmptyQueue EXCEPT
     !["DEVICE_MSG"] = <<[from |-> OldDevice, first_setup |-> FALSE, over |-> TRUE]>>,
     !["ACTUATOR_REPLY"] = <<1>>,
     !["REQUEST_STOP"] = <<"stop">>]

(* The messages in the queue, each with its type. *)
Queued == UNION {{type} \X DOMAIN mq[type] : type \in MsgTypes}

(* Until the fork, child and parent are one process: "main" in both. *)
Init ==
  /\ mq \in {EmptyQueue, OldQueue} /\ Cardinality(Queued) <= QUEUE_LIMIT
  /\ removed = FALSE
  /\ pcChild = "main" /\ data = NoMsg
  /\ sensor_list = <<>> /\ actuator_list = <<>>
  /\ sequence_number = 0 /\ stopsLeft = 0 /\ crossings = 0
  /\ pcParent = "main" /\ retrieve_msg_flag = FALSE /\ kill_process = FALSE
  /\ msg_received2 = 0
  /\ pcCloud = "new" /\ fifo = <<>> /\ received = <<>>
  /\ pcDev = [d \in Devices |-> "new"]
  /\ order = [a \in Actuators |-> 0]
  /\ readings = [s \in Sensors |-> 0]
  /\ interrupts = 0

-----------------------------------------------------------------------------
(* The message queue. *)

Full == Cardinality(Queued) >= QUEUE_LIMIT

(* Mutant: a queue without a limit. *)
msgsnd_NoLimit(type, msg) ==
  ~removed /\ mq' = [mq EXCEPT ![type] = Append(@, msg)]

msgsnd(type, msg) ==
  ~removed /\ ~Full /\ mq' = [mq EXCEPT ![type] = Append(@, msg)]

Waiting(type) == ~removed /\ mq[type] # <<>>
msgrcv(type) == Waiting(type) /\ mq' = [mq EXCEPT ![type] = Tail(@)]

-----------------------------------------------------------------------------
(* The controller before the fork: a queue that is there is deleted, and a   *)
(* device that was started too early and waits on it, or is about to use it, *)
(* fails.  After the fork child and parent make a new one.                   *)
Main_Flush ==
  /\ pcChild = "main" /\ pcChild' = "recv" /\ pcParent' = "start"
  /\ mq' = EmptyQueue
  /\ \E early \in SUBSET {d \in Devices : pcDev[d] = "new"} :
       pcDev' = [d \in Devices |-> IF pcDev[d] = "waitAck" \/ d \in early
                                  THEN "failed" ELSE pcDev[d]]
  /\ UNCHANGED <<removed, data, sensor_list, actuator_list, sequence_number,
                 stopsLeft, crossings, retrieve_msg_flag, kill_process,
                 msg_received2, cloudVars, fifo, order, readings, interrupts>>

-----------------------------------------------------------------------------
(* The child. *)

child(from, to) == pcChild = from /\ pcChild' = to

C_Receive ==
  /\ pcChild = "recv"
  /\ msgrcv("DEVICE_MSG")
  /\ LET d == Head(mq["DEVICE_MSG"])
     IN  /\ data' = d
         /\ pcChild' = IF d.first_setup THEN "setup"
                       ELSE IF d.over THEN "tell" ELSE "recv"
  /\ UNCHANGED <<removed, sensor_list, actuator_list, sequence_number, stopsLeft,
                 crossings, parentVars, cloudVars, fifo, devVars, interrupts>>

(* Mutant: the sensor is not entered in the list. *)
C_Setup_Unlisted ==
  /\ child("setup", "recv")
  /\ msgsnd(data.from, Ack)
  /\ data' = NoMsg
  /\ UNCHANGED <<removed, sensor_list, actuator_list, sequence_number, stopsLeft,
                 crossings, parentVars, cloudVars, fifo, devVars, interrupts>>

(* Mutant: an actuator is not acknowledged. *)
C_Setup_NoAck ==
  /\ child("setup", "recv")
  /\ IF data.from \in Sensors
     THEN /\ sensor_list' = Append(sensor_list, data.from)
          /\ actuator_list' = actuator_list
          /\ msgsnd(data.from, Ack)
     ELSE /\ actuator_list' = Append(actuator_list, data.from)
          /\ UNCHANGED <<sensor_list, mq>>
  /\ data' = NoMsg
  /\ UNCHANGED <<removed, sequence_number, stopsLeft, crossings, parentVars,
                 cloudVars, fifo, devVars, interrupts>>

(* device_setup *)
C_Setup ==
  /\ child("setup", "recv")
  /\ IF data.from \in Sensors
     THEN /\ sensor_list' = Append(sensor_list, data.from)
          /\ actuator_list' = actuator_list
     ELSE /\ actuator_list' = Append(actuator_list, data.from)
          /\ sensor_list' = sensor_list
  /\ msgsnd(data.from, Ack)
  /\ data' = NoMsg
  /\ UNCHANGED <<removed, sequence_number, stopsLeft, crossings, parentVars,
                 cloudVars, fifo, devVars, interrupts>>

(* send_msg_to_parent: first the message, then the signal. *)
C_TellParent ==
  /\ child("tell", "signal")
  /\ msgsnd("CHILD_TO_PARENT", crossings + 1)
  /\ crossings' = crossings + 1
  /\ UNCHANGED <<removed, data, sensor_list, actuator_list, sequence_number,
                 stopsLeft, parentVars, cloudVars, fifo, devVars, interrupts>>

(* A signal in the parent.  A wait in open or msgrcv is not restarted: it    *)
(* fails and the parent exits, unless the signal came just before the wait.  *)
ParentWaits ==
  \/ pcParent = "open"
  \/ pcParent = "receive" /\ ~removed /\ ~Waiting("CHILD_TO_PARENT")

SignalParent(handler) ==
  \/ /\ pcParent \notin {"done", "failed"}
     /\ handler /\ UNCHANGED <<pcParent, msg_received2>>
  \/ /\ ParentWaits
     /\ pcParent' = "failed"
     /\ UNCHANGED <<retrieve_msg_flag, kill_process, msg_received2>>
  \/ pcParent \in {"done", "failed"} /\ UNCHANGED parentVars

retrieve_msg == retrieve_msg_flag' = TRUE /\ UNCHANGED kill_process
sigint_handler == kill_process' = TRUE /\ UNCHANGED retrieve_msg_flag

(* Actuator 1 is for sensor 1, and so on. *)
search_sensor_list_for_pid(pid) ==
  CHOOSE i \in 1 .. Len(sensor_list) : sensor_list[i] = pid
SensorNum == search_sensor_list_for_pid(data.from)

(* Until the parent has called sigaction, SIGUSR1 ends it. *)
C_SignalParent ==
  /\ child("signal", IF SensorNum <= Len(actuator_list) THEN "instruct" ELSE "recv")
  /\ IF pcParent = "start"
     THEN pcParent' = "failed" /\ UNCHANGED <<retrieve_msg_flag, kill_process, msg_received2>>
     ELSE SignalParent(retrieve_msg)
  /\ UNCHANGED <<mq, removed, data, sensor_list, actuator_list, sequence_number,
                 stopsLeft, crossings, cloudVars, fifo, devVars, interrupts>>

(* Mutant: the child does not wait for the reply. *)
C_Instruct_NoWait ==
  /\ child("instruct", "recv")
  /\ msgsnd(actuator_list[SensorNum], Activate(sequence_number))
  /\ UNCHANGED <<removed, data, sensor_list, actuator_list, sequence_number,
                 stopsLeft, crossings, parentVars, cloudVars, fifo, devVars,
                 interrupts>>

(* activate_actuator: an instruction, and a wait for the reply. *)
C_Instruct ==
  /\ child("instruct", "reply")
  /\ msgsnd(actuator_list[SensorNum], Activate(sequence_number))
  /\ UNCHANGED <<removed, data, sensor_list, actuator_list, sequence_number,
                 stopsLeft, crossings, parentVars, cloudVars, fifo, devVars,
                 interrupts>>

C_Reply ==
  /\ child("reply", "recv")
  /\ msgrcv("ACTUATOR_REPLY")
  /\ sequence_number' = sequence_number + 1
  /\ data' = NoMsg
  /\ UNCHANGED <<removed, sensor_list, actuator_list, stopsLeft, crossings,
                 parentVars, cloudVars, fifo, devVars, interrupts>>

C_SendStop ==
  /\ child("stopping", "stopping") /\ stopsLeft > 0
  /\ msgsnd("REQUEST_STOP", "stop")
  /\ stopsLeft' = stopsLeft - 1
  /\ UNCHANGED <<removed, data, sensor_list, actuator_list, sequence_number,
                 crossings, parentVars, cloudVars, fifo, devVars, interrupts>>

(* The queue goes with all its messages. *)
C_RemoveQueue ==
  /\ child("stopping", "done") /\ stopsLeft = 0
  /\ removed' = TRUE
  /\ mq' = EmptyQueue
  /\ UNCHANGED <<data, sensor_list, actuator_list, sequence_number, stopsLeft,
                 crossings, parentVars, cloudVars, fifo, devVars, interrupts>>

Child ==
  \/ Main_Flush \/ C_Receive \/ C_Setup \/ C_TellParent \/ C_SignalParent \/ C_Instruct
  \/ C_Reply \/ C_SendStop \/ C_RemoveQueue

(* SIGINT in the child.  Its handler only sets a flag the child never reads: *)
(* the signal counts only when it interrupts a wait.  A wait for a message   *)
(* starts the shutdown, a wait for room in the queue ends the child.         *)
ChildWaits ==
  \/ pcChild = "recv" /\ ~Waiting("DEVICE_MSG")
  \/ pcChild = "reply" /\ ~Waiting("ACTUATOR_REPLY")

ChildWaitsForRoom ==
  /\ pcChild \in {"setup", "tell", "instruct", "stopping"} /\ Full
  /\ pcChild = "stopping" => stopsLeft > 0

(* Mutant: only the sensors are counted. *)
SignalChild_SensorsOnly ==
  \/ UNCHANGED <<pcChild, stopsLeft>>
  \/ /\ ChildWaits
     /\ pcChild' = "stopping"
     /\ stopsLeft' = Len(sensor_list)
  \/ ChildWaitsForRoom /\ pcChild' = "failed" /\ UNCHANGED stopsLeft

SignalChild ==
  \/ UNCHANGED <<pcChild, stopsLeft>>
  \/ /\ ChildWaits
     /\ pcChild' = "stopping"
     /\ stopsLeft' = Len(sensor_list) + Len(actuator_list)
  \/ ChildWaitsForRoom /\ pcChild' = "failed" /\ UNCHANGED stopsLeft

(* The terminal sends SIGINT to both processes of the controller. *)
CtrlC ==
  /\ interrupts < MAX_INTERRUPTS /\ interrupts' = interrupts + 1
  /\ SignalParent(sigint_handler)
  /\ SignalChild
  /\ UNCHANGED <<mq, removed, data, sensor_list, actuator_list, sequence_number,
                 crossings, cloudVars, fifo, devVars>>

-----------------------------------------------------------------------------
(* The parent and the cloud. *)

parent(from, to) == pcParent = from /\ pcParent' = to

Killed == {d \in Devices : pcDev[d] = "killed"}
MayFail == Cardinality(Killed) + (IF pcCloud = "killed" THEN 1 ELSE 0) < MAX_FAILURES

P_Start ==
  /\ parent("start", "open")
  /\ UNCHANGED <<mq, removed, childVars, retrieve_msg_flag, kill_process,
                 msg_received2, cloudVars, fifo, devVars, interrupts>>

(* msgget, mkfifo or open fails: the child serves on without a parent. *)
P_StartFails ==
  /\ MayFail
  /\ parent("start", "failed")
  /\ UNCHANGED <<mq, removed, childVars, retrieve_msg_flag, kill_process,
                 msg_received2, cloudVars, fifo, devVars, interrupts>>

(* open of a FIFO returns when the other end opens it too. *)
P_Open ==
  /\ parent("open", "loop")
  /\ pcCloud = "open" /\ pcCloud' = "read"
  /\ UNCHANGED <<mq, removed, childVars, retrieve_msg_flag, kill_process,
                 msg_received2, received, fifo, devVars, interrupts>>

P_CheckKill ==
  /\ parent("loop", IF kill_process THEN "end" ELSE "flag")
  /\ UNCHANGED <<mq, removed, childVars, retrieve_msg_flag, kill_process,
                 msg_received2, cloudVars, fifo, devVars, interrupts>>

P_CheckFlag ==
  /\ parent("flag", IF retrieve_msg_flag THEN "receive" ELSE "loop")
  /\ UNCHANGED <<mq, removed, childVars, retrieve_msg_flag, kill_process,
                 msg_received2, cloudVars, fifo, devVars, interrupts>>

(* Mutant: the message stays in the queue. *)
P_Receive_Copy ==
  /\ parent("receive", "write")
  /\ Waiting("CHILD_TO_PARENT")
  /\ msg_received2' = Head(mq["CHILD_TO_PARENT"])
  /\ UNCHANGED <<mq, removed, childVars, retrieve_msg_flag, kill_process, cloudVars,
                 fifo, devVars, interrupts>>

P_Receive ==
  /\ parent("receive", "write")
  /\ msgrcv("CHILD_TO_PARENT")
  /\ msg_received2' = Head(mq["CHILD_TO_PARENT"])
  /\ UNCHANGED <<removed, childVars, retrieve_msg_flag, kill_process, cloudVars,
                 fifo, devVars, interrupts>>

(* The queue is gone: msgrcv fails. *)
P_QueueGone ==
  /\ parent("receive", "failed")
  /\ removed
  /\ UNCHANGED <<mq, removed, childVars, retrieve_msg_flag, kill_process,
                 msg_received2, cloudVars, fifo, devVars, interrupts>>

P_Write ==
  /\ parent("write", "clear") /\ pcCloud # "killed"
  /\ fifo' = Append(fifo, msg_received2)
  /\ UNCHANGED <<mq, removed, childVars, retrieve_msg_flag, kill_process,
                 msg_received2, cloudVars, devVars, interrupts>>

(* Mutant: the flag stays set. *)
P_Clear_KeepsFlag ==
  /\ parent("clear", "loop")
  /\ UNCHANGED <<mq, removed, childVars, retrieve_msg_flag, kill_process,
                 msg_received2, cloudVars, fifo, devVars, interrupts>>

P_Clear ==
  /\ parent("clear", "loop")
  /\ retrieve_msg_flag' = FALSE
  /\ UNCHANGED <<mq, removed, childVars, kill_process, msg_received2, cloudVars,
                 fifo, devVars, interrupts>>

(* The message "end". *)
End == 0

(* Mutant: the parent ends without a word. *)
P_End_Silent ==
  /\ parent("end", "done") /\ pcCloud # "killed"
  /\ UNCHANGED <<mq, removed, childVars, retrieve_msg_flag, kill_process,
                 msg_received2, cloudVars, fifo, devVars, interrupts>>

P_End ==
  /\ parent("end", "done") /\ pcCloud # "killed"
  /\ fifo' = Append(fifo, End)
  /\ UNCHANGED <<mq, removed, childVars, retrieve_msg_flag, kill_process,
                 msg_received2, cloudVars, devVars, interrupts>>

(* Nobody reads the FIFO any more: SIGPIPE ends the parent, and the message   *)
(* in its hands is lost.                                                     *)
P_BrokenPipe ==
  /\ \E pc \in {"write", "end"} : parent(pc, "failed")
  /\ pcCloud = "killed"
  /\ UNCHANGED <<mq, removed, childVars, retrieve_msg_flag, kill_process,
                 msg_received2, cloudVars, fifo, devVars, interrupts>>

Parent ==
  \/ P_Start \/ P_StartFails \/ P_BrokenPipe \/ P_Open \/ P_CheckKill \/ P_CheckFlag \/ P_Receive \/ P_QueueGone
  \/ P_Write \/ P_Clear \/ P_End

Cloud_Read ==
  /\ pcCloud = "read" /\ fifo # <<>>
  /\ fifo' = Tail(fifo)
  /\ received' = Append(received, Head(fifo))
  /\ pcCloud' = IF Head(fifo) = End THEN "ended" ELSE "read"
  /\ UNCHANGED <<mq, removed, childVars, parentVars, devVars, interrupts>>

(* At the end of the FIFO, which it does not notice, the cloud prints its    *)
(* last message over and over and never ends.                                *)
Cloud_EndOfFile ==
  /\ pcCloud = "read" /\ fifo = <<>> /\ pcParent \in {"done", "failed"}
  /\ pcCloud' = "repeats"
  /\ UNCHANGED <<mq, removed, childVars, parentVars, received, fifo, devVars,
                 interrupts>>

Cloud == Cloud_Read \/ Cloud_EndOfFile

Cloud_Start ==
  /\ pcCloud = "new" /\ pcCloud' = "open"
  /\ UNCHANGED <<mq, removed, childVars, parentVars, received, fifo, devVars,
                 interrupts>>

Cloud_Kill ==
  /\ MayFail
  /\ pcCloud \in {"open", "read"} /\ pcCloud' = "killed"
  /\ UNCHANGED <<mq, removed, childVars, parentVars, received, fifo, devVars,
                 interrupts>>

-----------------------------------------------------------------------------
(* The devices. *)

dev(d, from, to) == pcDev[d] = from /\ pcDev' = [pcDev EXCEPT ![d] = to]

D_Register(d) ==
  /\ dev(d, "new", "waitAck")
  /\ msgsnd("DEVICE_MSG", [from |-> d, first_setup |-> TRUE, over |-> FALSE])
  /\ UNCHANGED <<removed, childVars, parentVars, cloudVars, fifo, order, readings,
                 interrupts>>

(* A device started after the end makes a new queue and waits on it forever, *)
(* one that had asked for the old queue before fails.                        *)
D_RegisterLate(d) ==
  /\ \E pc \in {"orphan", "failed"} : dev(d, "new", pc)
  /\ removed
  /\ UNCHANGED <<mq, removed, childVars, parentVars, cloudVars, fifo, order,
                 readings, interrupts>>

D_Acknowledged(d) ==
  /\ dev(d, "waitAck", "loop")
  /\ msgrcv(d)
  /\ UNCHANGED <<removed, childVars, parentVars, cloudVars, fifo, order, readings,
                 interrupts>>

(* check_stop_signal: whoever looks first takes the stop message. *)
D_Stop(d) ==
  /\ dev(d, "loop", "stopped")
  /\ msgrcv("REQUEST_STOP")
  /\ UNCHANGED <<removed, childVars, parentVars, cloudVars, fifo, order, readings,
                 interrupts>>

D_NoStop(d) ==
  /\ dev(d, "loop", "act")
  /\ ~removed /\ ~Waiting("REQUEST_STOP")
  /\ UNCHANGED <<mq, removed, childVars, parentVars, cloudVars, fifo, order,
                 readings, interrupts>>

(* The time to send a reading, or to look for an instruction, has not come.  *)
D_Idle(d) ==
  /\ dev(d, "act", "loop")
  /\ UNCHANGED <<mq, removed, childVars, parentVars, cloudVars, fifo, order,
                 readings, interrupts>>

S_SendReading(s) ==
  /\ dev(s, "act", "loop")
  /\ readings[s] < MAX_READINGS
  /\ \E over \in BOOLEAN :
       msgsnd("DEVICE_MSG", [from |-> s, first_setup |-> FALSE, over |-> over])
  /\ readings' = [readings EXCEPT ![s] = @ + 1]
  /\ UNCHANGED <<removed, childVars, parentVars, cloudVars, fifo, order, interrupts>>

A_TakeInstruction(a) ==
  /\ dev(a, "act", "answer")
  /\ msgrcv(a)
  /\ order' = [order EXCEPT ![a] = Head(mq[a]).sequence_num]
  /\ UNCHANGED <<removed, childVars, parentVars, cloudVars, fifo, readings,
                 interrupts>>

A_Answer(a) ==
  /\ dev(a, "answer", "loop")
  /\ msgsnd("ACTUATOR_REPLY", order[a])
  /\ UNCHANGED <<removed, childVars, parentVars, cloudVars, fifo, order, readings,
                 interrupts>>

(* The queue is gone: the next call on it fails. *)
D_QueueGone(d) ==
  /\ removed
  /\ \E pc \in {"waitAck", "loop", "act", "answer"} : dev(d, pc, "failed")
  /\ UNCHANGED <<mq, removed, childVars, parentVars, cloudVars, fifo, order,
                 readings, interrupts>>

(* A device is killed, whatever it is doing. *)
D_Kill(d) ==
  /\ MayFail
  /\ \E pc \in {"waitAck", "loop", "act", "answer"} : dev(d, pc, "killed")
  /\ UNCHANGED <<mq, removed, childVars, parentVars, cloudVars, fifo, order,
                 readings, interrupts>>

Device(d) ==
  \/ D_Acknowledged(d) \/ D_Stop(d) \/ D_NoStop(d) \/ D_Idle(d) \/ D_QueueGone(d)
  \/ d \in Sensors /\ S_SendReading(d)
  \/ d \in Actuators /\ (A_TakeInstruction(d) \/ A_Answer(d))

User ==
  \/ Cloud_Start \/ Cloud_Kill \/ CtrlC
  \/ \E d \in Devices : D_Register(d) \/ D_RegisterLate(d) \/ D_Kill(d)

Next == Child \/ Parent \/ Cloud \/ (\E d \in Devices : Device(d)) \/ User

SafeSpec == Init /\ [][Next]_vars

(* Every process is scheduled, and an actuator looks for instructions again  *)
(* and again.  The user may do nothing.                                      *)
Fairness ==
  /\ WF_vars(Child) /\ WF_vars(Parent) /\ WF_vars(Cloud)
  /\ \A d \in Devices : WF_vars(Device(d))
  /\ \A a \in Actuators : SF_vars(A_TakeInstruction(a))

Spec == SafeSpec /\ Fairness

-----------------------------------------------------------------------------
(* Properties *)

TypeOK ==
  /\ mq["DEVICE_MSG"] \in Seq(DeviceMsg)
  /\ mq["ACTUATOR_REPLY"] \in Seq(Nat)
  /\ mq["CHILD_TO_PARENT"] \in Seq(Nat \ {End})
  /\ mq["REQUEST_STOP"] \in Seq({"stop"})
  /\ \A d \in Devices : mq[d] \in Seq({Ack} \union {Activate(n) : n \in 0 .. sequence_number})
  /\ Cardinality(Queued) <= QUEUE_LIMIT
  /\ removed \in BOOLEAN
  /\ pcChild \in {"main", "recv", "setup", "tell", "signal", "instruct", "reply", "stopping",
                  "done", "failed"}
  /\ data \in DeviceMsg \union {NoMsg}
  /\ sensor_list \in Seq(Sensors) /\ actuator_list \in Seq(Actuators)
  /\ sequence_number \in Nat /\ stopsLeft \in Nat /\ crossings \in Nat
  /\ pcParent \in {"main", "start", "open", "loop", "flag", "receive", "write", "clear", "end",
                   "done", "failed"}
  /\ retrieve_msg_flag \in BOOLEAN /\ kill_process \in BOOLEAN
  /\ msg_received2 \in Nat
  /\ pcCloud \in {"new", "open", "read", "ended", "repeats", "killed"}
  /\ fifo \in Seq(Nat) /\ received \in Seq(Nat)
  /\ pcDev \in [Devices -> {"new", "waitAck", "loop", "act", "answer", "stopped",
                            "failed", "orphan", "killed"}]
  /\ order \in [Actuators -> Nat] /\ readings \in [Sensors -> 0 .. MAX_READINGS]
  /\ interrupts \in 0 .. MAX_INTERRUPTS

Listed == Range(sensor_list) \union Range(actuator_list)

(* search_sensor_list_for_pid never returns -1: no reading is worked on      *)
(* before its sensor is listed.  No device is listed twice or before it      *)
(* registered, so the lists never outgrow their arrays.                      *)
SendersListed ==
  /\ pcChild \in {"tell", "signal", "instruct", "reply"} => data.from \in Range(sensor_list)
  /\ IsInjective(sensor_list) /\ IsInjective(actuator_list)
  /\ \A d \in Listed : pcDev[d] # "new"
  /\ \A d \in Devices : pcDev[d] \in {"loop", "act", "answer", "stopped"} => d \in Listed

(* When retrieve_msg_flag sends the parent to msgrcv a message is there: it  *)
(* never waits there, where CTRL+C would end it without a word to the cloud. *)
ParentNeverWaits ==
  pcParent = "receive" /\ ~removed => Waiting("CHILD_TO_PARENT")

(* Signals may be lost, but no message is repeated or overtaken on its way   *)
(* from the child through the queue, the parent and the FIFO to the cloud,   *)
(* none is lost while the queue and the parent exist, and "end" is the last. *)
CrossingsInOrder ==
  LET told  == received \o fifo
      n     == IF pcParent = "done" THEN Len(told) - 1 ELSE Len(told)
      chain == [i \in 1 .. n |-> told[i]]
                 \o (IF pcParent = "write" THEN <<msg_received2>> ELSE <<>>)
                 \o mq["CHILD_TO_PARENT"]
  IN  /\ \A i \in 1 .. Len(told) : told[i] = End <=> pcParent = "done" /\ i = Len(told)
      /\ \A i, j \in 1 .. Len(chain) : i < j => chain[i] < chain[j]
      /\ pcParent # "failed" => chain = [i \in 1 .. Len(chain) |-> i]
      /\ pcParent # "failed" /\ ~removed => Len(chain) = crossings

Serving == pcChild \notin {"main", "stopping", "done", "failed"}

(* Where in the queue an actuator's instructions are. *)
Activations(a) == {i \in DOMAIN mq[a] : mq[a][i] # Ack}

(* The child waits for one reply at a time, to the instruction it sent, from *)
(* the actuator that goes with the sensor: it does not look at the sequence  *)
(* number it gets back.                                                      *)
ReplyMatches ==
  Serving =>
    /\ mq["ACTUATOR_REPLY"] # <<>> =>
         pcChild = "reply" /\ mq["ACTUATOR_REPLY"] = <<sequence_number>>
    /\ \A a \in Actuators :
         Activations(a) # {} \/ pcDev[a] = "answer" =>
           /\ pcChild = "reply" /\ a = actuator_list[SensorNum]
           /\ mq["ACTUATOR_REPLY"] = <<>>
           /\ IF pcDev[a] = "answer"
              THEN Activations(a) = {} /\ order[a] = sequence_number
              ELSE \E i \in DOMAIN mq[a] :
                     Activations(a) = {i} /\ mq[a][i] = Activate(sequence_number)

StoppedDevices == {d \in Devices : pcDev[d] = "stopped"}

(* Each listed device gets a stop message of its own while the queue lasts:  *)
(* none takes two, and a device still registering takes none.                *)
StopForEach ==
  /\ pcChild = "stopping" =>
       Cardinality(StoppedDevices) + Len(mq["REQUEST_STOP"]) + stopsLeft
         = Cardinality(Listed)
  /\ Serving => mq["REQUEST_STOP"] = <<>>

(* Without CTRL+C every device that registers is acknowledged, and every     *)
(* activation is answered so that the child serves on.                       *)
DevicesServed ==
  /\ \A d \in Devices :
       pcDev[d] = "waitAck" /\ pcChild # "main" ~> pcDev[d] = "loop"
  /\ pcChild = "instruct" ~> pcChild = "recv"

(* readme:30 has CTRL+C tell the cloud to end.  What the code keeps is less:  *)
(* the parent leaves a reading cloud without "end" only when the child has   *)
(* removed the queue with a crossing still in it, which is then lost.        *)
CloudLeftOnlyByLoss == pcCloud = "repeats" => removed /\ Len(received) < crossings

(* readme:23 and 27, the parent hears of every sensor over its threshold: the *)
(* child does not wait forever for room in the queue.                        *)
ChildTellsParent == pcChild = "tell" ~> pcChild = "signal"

(* readme: the parent passes each message of a sensor over its threshold on  *)
(* to the cloud.                                                             *)
CrossingsReachCloud ==
  \A n \in 1 .. MAX_READINGS * Cardinality(Sensors) :
    crossings >= n /\ pcCloud = "read" ~> n \in Range(received)

(* readme: CTRL+C on the controller ends it.                                 *)
CtrlCEndsChild == interrupts > 0 ~> pcChild \in {"done", "failed"}

-----------------------------------------------------------------------------
(***************************************************************************)
(* The inductive invariant.                                                *)
(***************************************************************************)

(* The order in which the processes come and go. *)
PhaseInv ==
  /\ mq = [type \in MsgTypes |-> mq[type]]
  /\ pcChild = "main" <=> pcParent = "main"
  /\ removed <=> pcChild = "done"
  /\ removed => mq = EmptyQueue
  /\ pcChild = "main" =>
       /\ sensor_list = <<>> /\ actuator_list = <<>> /\ crossings = 0
       /\ mq["CHILD_TO_PARENT"] = <<>> /\ ~retrieve_msg_flag
       /\ \A d \in Devices : pcDev[d] \in {"new", "waitAck", "killed"}
  /\ pcChild = "main" \/ Serving => StoppedDevices = {}

(* A device that has asked to be listed, and is not yet; and what is in the   *)
(* queue of device messages.                                                 *)
Asking(d) == d \in Devices \ Listed /\ pcDev[d] \in {"waitAck", "failed", "killed"}

RequestsInv ==
  /\ \A i \in DOMAIN mq["DEVICE_MSG"] :
       IF mq["DEVICE_MSG"][i].first_setup
       THEN /\ Asking(mq["DEVICE_MSG"][i].from)
            /\ pcChild = "setup" => mq["DEVICE_MSG"][i].from # data.from
       ELSE mq["DEVICE_MSG"][i].from \in Range(sensor_list)
  /\ \A i, j \in DOMAIN mq["DEVICE_MSG"] :
       /\ mq["DEVICE_MSG"][i].first_setup /\ mq["DEVICE_MSG"][j].first_setup
       /\ mq["DEVICE_MSG"][i].from = mq["DEVICE_MSG"][j].from
       => i = j

(* A device is listed once, for the one message it registered with.          *)
RegisterInv ==
  /\ IsInjective(sensor_list) /\ IsInjective(actuator_list)
  /\ pcChild = "setup" => Asking(data.from)
  /\ pcChild \in {"tell", "signal", "instruct", "reply"} => data.from \in Range(sensor_list)
  /\ pcChild \in {"instruct", "reply"} => SensorNum <= Len(actuator_list)
  /\ pcChild # "main" => RequestsInv
  /\ \A d \in Listed : pcDev[d] # "new"
  /\ \A d \in Devices : pcDev[d] \in {"loop", "act", "answer", "stopped"} => d \in Listed

(* A device's first message is its acknowledgement, and no other is one.     *)
AckInv ==
  \A d \in Devices :
    /\ d \notin Listed => mq[d] = <<>>
    /\ \A i \in DOMAIN mq[d] : mq[d][i] = Ack => i = 1
    /\ pcDev[d] \in {"loop", "act", "answer", "stopped"} => \A i \in DOMAIN mq[d] : mq[d][i] # Ack
    /\ pcDev[d] = "waitAck" /\ d \in Listed /\ ~removed => mq[d] # <<>> /\ mq[d][1] = Ack

(* A signal follows its message, and the parent takes one message for one or *)
(* more signals: there are never more signals than messages to take.         *)
SignalInv ==
  /\ pcParent = "receive" => retrieve_msg_flag
  /\ ~removed =>
       (IF pcChild = "signal" THEN 1 ELSE 0)
         + (IF retrieve_msg_flag /\ pcParent \notin {"write", "clear", "failed"} THEN 1 ELSE 0)
       <= Len(mq["CHILD_TO_PARENT"])

(* Messages that the parent has passed on, and that the child has sent and   *)
(* are not in the queue any more.                                            *)
Passed == Len(received) + Len(fifo) - (IF pcParent = "done" THEN 1 ELSE 0)
Taken == crossings - Len(mq["CHILD_TO_PARENT"])

(* What is where on the way to the cloud. *)
WayInv ==
  /\ \A i \in DOMAIN received :
       received[i] = IF pcCloud = "ended" /\ i = Len(received) THEN End ELSE i
  /\ \A i \in DOMAIN fifo :
       fifo[i] = IF pcParent = "done" /\ i = Len(fifo) THEN End ELSE Len(received) + i
  /\ pcCloud = "ended" => pcParent = "done" /\ fifo = <<>> /\ received # <<>>
  /\ pcParent = "done" /\ pcCloud # "ended" => fifo # <<>>
  /\ pcCloud = "repeats" => pcParent = "failed"
  /\ pcParent = "write" => msg_received2 = Passed + 1
  /\ ~removed =>
       /\ \A i \in DOMAIN mq["CHILD_TO_PARENT"] : mq["CHILD_TO_PARENT"][i] = Taken + i
       /\ pcParent \notin {"write", "failed"} => Taken = Passed
       /\ pcParent = "write" => Taken = Passed + 1
       /\ pcParent = "failed" => Taken \in {Passed, Passed + 1}

(* A parent that still has to answer a signal when the queue is removed will *)
(* miss a crossing: the only way to fail that leaves a cloud reading.        *)
LossInv ==
  /\ pcCloud \in {"read", "repeats"} => pcParent \notin {"main", "start", "open"}
  /\ removed /\ retrieve_msg_flag /\ pcParent \notin {"write", "clear", "failed"} =>
       Passed < crossings
  /\ pcParent = "failed" /\ pcCloud \in {"read", "repeats"} => removed /\ Passed < crossings

(* The lists are as long as there are devices in them. *)
SizeInv ==
  /\ IsFiniteSet(Queued) /\ IsFiniteSet(Listed)
  /\ Cardinality(Listed) = Len(sensor_list) + Len(actuator_list)

IInv ==
  TypeOK /\ PhaseInv /\ RegisterInv /\ AckInv /\ ReplyMatches /\ SignalInv /\ WayInv
    /\ LossInv /\ SizeInv /\ StopForEach

=============================================================================
