-------------------------- MODULE ControllerProofs --------------------------
(***************************************************************************)
(* Proofs about Controller, for any sets of sensors and actuators, any     *)
(* queue limit, and any number of readings, interrupts and failures.       *)
(***************************************************************************)
EXTENDS Controller, FiniteSetTheorems, TLAPS

-----------------------------------------------------------------------------
(* The message queue.                                                        *)

(* What may be in the queue under a type. *)
MsgsOf(type) ==
  IF type = "DEVICE_MSG" THEN DeviceMsg
  ELSE IF type = "ACTUATOR_REPLY" THEN Nat
  ELSE IF type = "CHILD_TO_PARENT" THEN Nat \ {End}
  ELSE IF type = "REQUEST_STOP" THEN {"stop"}
  ELSE {Ack} \union {Activate(n) : n \in 0 .. sequence_number}

QueueTypes ==
  /\ mq = [type \in MsgTypes |-> mq[type]]
  /\ \A type \in MsgTypes : mq[type] \in Seq(MsgsOf(type))

(* A pid is no server type. *)
LEMMA PidIsNoType ==
  ASSUME NEW d \in Devices
  PROVE  /\ d \in MsgTypes
         /\ d # "DEVICE_MSG" /\ d # "ACTUATOR_REPLY" /\ d # "CHILD_TO_PARENT"
         /\ d # "REQUEST_STOP"
BY PidAssumption DEF MsgTypes, ServerTypes

(* What TypeOK says of the queue is what QueueTypes says of each type, the   *)
(* queue of the last run included.                                           *)
LEMMA QueueTypesHold ==
  ASSUME TypeOK, PhaseInv
  PROVE  QueueTypes
<1>1. mq = [type \in MsgTypes |-> mq[type]]
  BY DEF PhaseInv
<1>2. ASSUME NEW type \in MsgTypes
      PROVE  mq[type] \in Seq(MsgsOf(type))
  <2>1. CASE type \in ServerTypes
    BY <2>1 DEF TypeOK, ServerTypes, MsgsOf
  <2>2. CASE type \in Devices
    <3>1. MsgsOf(type) = {Ack} \union {Activate(n) : n \in 0 .. sequence_number}
      BY <2>2, PidIsNoType DEF MsgsOf
    <3> QED BY <2>2, <3>1 DEF TypeOK
  <2> QED BY <1>2, <2>1, <2>2 DEF MsgTypes
<1> QED BY <1>1, <1>2 DEF QueueTypes

(* A message put behind the others, and the queue of one type without its    *)
(* first message.                                                            *)
LEMMA AppendSeq ==
  ASSUME NEW S, NEW s \in Seq(S), NEW m \in S
  PROVE  /\ Append(s, m) \in Seq(S) /\ Len(s) \in Nat
         /\ Len(Append(s, m)) = Len(s) + 1
         /\ DOMAIN s = 1 .. Len(s) /\ DOMAIN Append(s, m) = 1 .. Len(s) + 1
         /\ \A i \in 1 .. Len(s) : Append(s, m)[i] = s[i]
         /\ Append(s, m)[Len(s) + 1] = m
OBVIOUS

(* What Tail leaves of a sequence that is not empty.                         *)
LEMMA TailSeq ==
  ASSUME NEW S, NEW s \in Seq(S), s # <<>>
  PROVE  /\ Tail(s) \in Seq(S) /\ Len(s) \in Nat \ {0}
         /\ Head(s) = s[1] /\ Head(s) \in S
         /\ Len(Tail(s)) = Len(s) - 1
         /\ DOMAIN s = 1 .. Len(s) /\ DOMAIN Tail(s) = 1 .. Len(s) - 1
         /\ \A i \in 1 .. Len(s) - 1 : Tail(s)[i] = s[i + 1]
OBVIOUS

(* What a send and a receive do to the queue. *)
Sent(type, msg) ==
  /\ ~removed /\ Cardinality(Queued) < QUEUE_LIMIT
  /\ mq' = [t \in MsgTypes |-> mq'[t]]
  /\ \A t \in MsgTypes \ {type} : mq'[t] = mq[t]
  /\ Len(mq'[type]) = Len(mq[type]) + 1 /\ Len(mq[type]) \in Nat
  /\ DOMAIN mq[type] = 1 .. Len(mq[type]) /\ DOMAIN mq'[type] = 1 .. Len(mq[type]) + 1
  /\ \A i \in 1 .. Len(mq[type]) : mq'[type][i] = mq[type][i]
  /\ mq'[type][Len(mq[type]) + 1] = msg
  /\ mq'[type] \in Seq(MsgsOf(type))

Received(type) ==
  /\ ~removed
  /\ mq' = [t \in MsgTypes |-> mq'[t]]
  /\ \A t \in MsgTypes \ {type} : mq'[t] = mq[t]
  /\ Len(mq[type]) \in Nat \ {0} /\ Len(mq'[type]) = Len(mq[type]) - 1
  /\ DOMAIN mq[type] = 1 .. Len(mq[type]) /\ DOMAIN mq'[type] = 1 .. Len(mq[type]) - 1
  /\ \A i \in 1 .. Len(mq[type]) - 1 : mq'[type][i] = mq[type][i + 1]
  /\ Head(mq[type]) = mq[type][1] /\ mq[type][1] \in MsgsOf(type)
  /\ mq'[type] \in Seq(MsgsOf(type))

(* A msgsnd appends one message of the right form and leaves the other       *)
(* types alone.                                                              *)
LEMMA SendEffect ==
  ASSUME QueueTypes, SizeInv, NEW type \in MsgTypes, NEW msg \in MsgsOf(type),
         msgsnd(type, msg)
  PROVE  Sent(type, msg)
<1>1. ~removed /\ ~Full /\ mq' = [mq EXCEPT ![type] = Append(mq[type], msg)]
  BY DEF msgsnd
<1>2. Cardinality(Queued) < QUEUE_LIMIT
  BY <1>1, ControllerAssumption, FS_CardinalityType DEF Full, SizeInv
<1>3. /\ mq' = [t \in MsgTypes |-> mq'[t]] /\ mq'[type] = Append(mq[type], msg)
      /\ \A t \in MsgTypes \ {type} : mq'[t] = mq[t]
  BY <1>1 DEF QueueTypes
<1>4. mq[type] \in Seq(MsgsOf(type))
  BY DEF QueueTypes
<1> QED BY <1>1, <1>2, <1>3, <1>4, AppendSeq DEF Sent

(* A msgrcv takes the first message of its type and leaves the other types   *)
(* alone.                                                                    *)
LEMMA ReceiveEffect ==
  ASSUME QueueTypes, NEW type \in MsgTypes, msgrcv(type)
  PROVE  Received(type)
<1>1. ~removed /\ mq[type] # <<>> /\ mq' = [mq EXCEPT ![type] = Tail(mq[type])]
  BY DEF msgrcv, Waiting
<1>3. /\ mq' = [t \in MsgTypes |-> mq'[t]] /\ mq'[type] = Tail(mq[type])
      /\ \A t \in MsgTypes \ {type} : mq'[t] = mq[t]
  BY <1>1 DEF QueueTypes
<1>4. mq[type] \in Seq(MsgsOf(type))
  BY DEF QueueTypes
<1>5. /\ mq'[type] \in Seq(MsgsOf(type)) /\ Len(mq[type]) \in Nat \ {0}
      /\ Head(mq[type]) = mq[type][1] /\ Head(mq[type]) \in MsgsOf(type)
      /\ Len(mq'[type]) = Len(mq[type]) - 1
      /\ DOMAIN mq[type] = 1 .. Len(mq[type]) /\ DOMAIN mq'[type] = 1 .. Len(mq[type]) - 1
      /\ \A i \in 1 .. Len(mq[type]) - 1 : mq'[type][i] = mq[type][i + 1]
  <2>1. mq'[type] = Tail(mq[type]) /\ mq[type] # <<>>
    BY <1>1, <1>3
  <2> DEFINE S == MsgsOf(type)
             q == mq[type]
  <2>2. q \in Seq(S) /\ q # <<>>
    BY <1>4, <2>1
  <2> HIDE DEF S, q
  <2>3. /\ Tail(q) \in Seq(S) /\ Len(q) \in Nat \ {0}
        /\ Head(q) = q[1] /\ Head(q) \in S
        /\ Len(Tail(q)) = Len(q) - 1
        /\ DOMAIN q = 1 .. Len(q) /\ DOMAIN Tail(q) = 1 .. Len(q) - 1
        /\ \A i \in 1 .. Len(q) - 1 : Tail(q)[i] = q[i + 1]
    BY <2>2, TailSeq
  <2> QED BY <2>1, <2>3 DEF S, q
<1> QED BY <1>1, <1>3, <1>5 DEF Received

(* The limit of the queue.                                                   *)
QueueFits == IsFiniteSet(Queued) /\ Cardinality(Queued) <= QUEUE_LIMIT

(* msgsnd waits while the queue is full, so that one more message still      *)
(* fits.                                                                     *)
LEMMA SendFits ==
  ASSUME SizeInv, NEW type \in MsgTypes, NEW msg, Sent(type, msg)
  PROVE  QueueFits'
<1> DEFINE n == Len(mq[type]) + 1
<1>1. Queued' = Queued \union {<<type, n>>}
  <2>1. \A t \in MsgTypes \ {type} : DOMAIN mq'[t] = DOMAIN mq[t]
    BY DEF Sent
  <2>2. DOMAIN mq'[type] = DOMAIN mq[type] \union {n} /\ type \in MsgTypes
    BY DEF Sent
  <2> HIDE DEF n
  <2>3. \A t \in MsgTypes : {t} \X DOMAIN mq'[t] =
          IF t = type THEN ({t} \X DOMAIN mq[t]) \union {<<type, n>>} ELSE {t} \X DOMAIN mq[t]
    BY <2>1, <2>2
  <2> QED BY <2>3 DEF Queued
<1>2. Cardinality(Queued) < QUEUE_LIMIT
  BY DEF Sent
<1>3. IsFiniteSet(Queued)
  BY DEF SizeInv
<1> HIDE DEF n
<1> DEFINE before == Queued
           after == Queued'
<1>4. after = before \union {<<type, n>>} /\ IsFiniteSet(before)
  BY <1>1, <1>3
<1> HIDE DEF before, after
<1>5. /\ IsFiniteSet(after)
      /\ Cardinality(after) = Cardinality(before) \/ Cardinality(after) = Cardinality(before) + 1
  BY <1>4, FS_AddElement
<1>6. Cardinality(before) \in Nat
  BY <1>4, FS_CardinalityType
<1>7. Cardinality(after) <= QUEUE_LIMIT
  BY <1>2, <1>5, <1>6, ControllerAssumption DEF before
<1> QED BY <1>5, <1>7 DEF QueueFits, after

(* A queue that a message is taken from still fits.                          *)
LEMMA ReceiveFits ==
  ASSUME SizeInv, TypeOK, NEW type \in MsgTypes, Received(type)
  PROVE  QueueFits'
<1>1. Queued' \subseteq Queued
  <2>1. \A t \in MsgTypes : DOMAIN mq'[t] \subseteq DOMAIN mq[t]
    BY DEF Received
  <2> QED BY <2>1 DEF Queued
<1>2. IsFiniteSet(Queued) /\ Cardinality(Queued) <= QUEUE_LIMIT
  BY DEF SizeInv, TypeOK
<1>3. IsFiniteSet(Queued') /\ Cardinality(Queued') <= Cardinality(Queued)
  BY <1>1, <1>2, FS_Subset
<1>4. Cardinality(Queued) \in Nat /\ Cardinality(Queued') \in Nat
  BY <1>2, <1>3, FS_CardinalityType
<1> QED BY <1>2, <1>3, <1>4, ControllerAssumption DEF QueueFits

(* A new queue fits.                                                         *)
LEMMA EmptyFits ==
  ASSUME mq' = EmptyQueue
  PROVE  QueueFits'
<1>1. \A t \in MsgTypes : mq'[t] = <<>>
  BY DEF EmptyQueue
<1>2. Queued' = {}
  BY <1>1 DEF Queued
<1> QED BY <1>2, FS_EmptySet, ControllerAssumption DEF QueueFits

-----------------------------------------------------------------------------
(* What each step does to the queue.                                         *)

(* The positions of the list of sensors.                                     *)
LEMMA SensorListSeq ==
  ASSUME TypeOK
  PROVE  DOMAIN sensor_list = 1 .. Len(sensor_list) /\ sensor_list \in Seq(Sensors)
BY DEF TypeOK

(* The child finds the sensor of the message it works on in its list.        *)
LEMMA SensorNumIs ==
  ASSUME TypeOK, data.from \in Range(sensor_list)
  PROVE  SensorNum \in 1 .. Len(sensor_list) /\ sensor_list[SensorNum] = data.from
<1>1. \E i \in 1 .. Len(sensor_list) : sensor_list[i] = data.from
  BY SensorListSeq DEF Range
<1> QED BY <1>1 DEF SensorNum, search_sensor_list_for_pid

(* The actuator the child instructs is one of its list. *)
LEMMA InstructedIs ==
  ASSUME TypeOK, RegisterInv, pcChild \in {"instruct", "reply"}
  PROVE  /\ SensorNum \in 1 .. Len(actuator_list)
         /\ actuator_list[SensorNum] \in Actuators
         /\ actuator_list[SensorNum] \in Range(actuator_list)
<1>1. SensorNum \in 1 .. Len(sensor_list) /\ SensorNum <= Len(actuator_list)
  BY SensorNumIs DEF RegisterInv
<1>2. actuator_list \in Seq(Actuators) /\ Len(actuator_list) \in Nat
  BY DEF TypeOK
<1>3. SensorNum \in 1 .. Len(actuator_list)
  BY <1>1, <1>2
<1> HIDE DEF SensorNum
<1> QED BY <1>2, <1>3 DEF Range

(* The device that asks is a device. *)
LEMMA SetupSends ==
  ASSUME TypeOK, PhaseInv, RegisterInv, SizeInv, C_Setup
  PROVE  data.from \in Devices /\ Sent(data.from, Ack)
<1>1. data.from \in Devices /\ msgsnd(data.from, Ack)
  BY DEF RegisterInv, Asking, C_Setup, child
<1>2. data.from \in MsgTypes /\ Ack \in MsgsOf(data.from)
  BY <1>1, PidIsNoType DEF MsgsOf
<1> QED BY <1>1, <1>2, QueueTypesHold, SendEffect

(* tell_parent (controller.c) sends the number of its message.               *)
LEMMA TellSends ==
  ASSUME TypeOK, PhaseInv, SizeInv, C_TellParent
  PROVE  Sent("CHILD_TO_PARENT", crossings + 1)
<1>1. msgsnd("CHILD_TO_PARENT", crossings + 1) /\ crossings + 1 \in Nat \ {End}
  BY DEF C_TellParent, TypeOK, End
<1>2. "CHILD_TO_PARENT" \in MsgTypes /\ crossings + 1 \in MsgsOf("CHILD_TO_PARENT")
  BY <1>1 DEF MsgsOf, MsgTypes, ServerTypes
<1> QED BY <1>1, <1>2, QueueTypesHold, SendEffect

(* The child sends the instruction to the actuator at the place of the       *)
(* sensor.                                                                   *)
LEMMA InstructSends ==
  ASSUME TypeOK, PhaseInv, RegisterInv, SizeInv, C_Instruct
  PROVE  Sent(actuator_list[SensorNum], Activate(sequence_number))
<1> DEFINE a == actuator_list[SensorNum]
<1>1. a \in Devices
  BY InstructedIs DEF C_Instruct, child, Devices
<1>2. msgsnd(a, Activate(sequence_number)) /\ sequence_number \in Nat
  BY DEF C_Instruct, TypeOK
<1> HIDE DEF a
<1>3. a \in MsgTypes /\ Activate(sequence_number) \in MsgsOf(a)
  BY <1>1, <1>2, PidIsNoType DEF MsgsOf
<1>4. Sent(a, Activate(sequence_number))
  BY <1>2, <1>3, QueueTypesHold, SendEffect
<1> QED BY <1>4 DEF a

(* A stop message is sent to whoever asks next.                              *)
LEMMA StopSends ==
  ASSUME TypeOK, PhaseInv, SizeInv, C_SendStop
  PROVE  Sent("REQUEST_STOP", "stop")
<1>1. msgsnd("REQUEST_STOP", "stop")
  BY DEF C_SendStop
<1>2. "REQUEST_STOP" \in MsgTypes /\ "stop" \in MsgsOf("REQUEST_STOP")
  BY DEF MsgsOf, MsgTypes, ServerTypes
<1> QED BY <1>1, <1>2, QueueTypesHold, SendEffect

(* What a device sends is a device message. *)
LEMMA DeviceSends ==
  ASSUME TypeOK, PhaseInv, SizeInv, NEW d \in Devices, NEW b1 \in BOOLEAN, NEW b2 \in BOOLEAN,
         msgsnd("DEVICE_MSG", [from |-> d, first_setup |-> b1, over |-> b2])
  PROVE  Sent("DEVICE_MSG", [from |-> d, first_setup |-> b1, over |-> b2])
<1> DEFINE m == [from |-> d, first_setup |-> b1, over |-> b2]
<1>1. m \in DeviceMsg /\ msgsnd("DEVICE_MSG", m)
  BY DEF DeviceMsg
<1> HIDE DEF m
<1>2. "DEVICE_MSG" \in MsgTypes /\ m \in MsgsOf("DEVICE_MSG")
  BY <1>1 DEF MsgsOf, MsgTypes, ServerTypes
<1>3. Sent("DEVICE_MSG", m)
  BY <1>1, <1>2, QueueTypesHold, SendEffect
<1> QED BY <1>3 DEF m

(* The actuator answers with the number of the instruction it took.          *)
LEMMA AnswerSends ==
  ASSUME TypeOK, PhaseInv, SizeInv, NEW a \in Actuators, A_Answer(a)
  PROVE  Sent("ACTUATOR_REPLY", order[a])
<1>1. msgsnd("ACTUATOR_REPLY", order[a]) /\ order[a] \in Nat
  BY DEF A_Answer, TypeOK
<1>2. "ACTUATOR_REPLY" \in MsgTypes /\ order[a] \in MsgsOf("ACTUATOR_REPLY")
  BY <1>1 DEF MsgsOf, MsgTypes, ServerTypes
<1> QED BY <1>1, <1>2, QueueTypesHold, SendEffect

-----------------------------------------------------------------------------
(* Types.                                                                    *)

(* An instruction may still be in a queue when its number is no longer the   *)
(* last.                                                                     *)
LEMMA MsgsGrow ==
  ASSUME sequence_number \in Nat, sequence_number' \in {sequence_number, sequence_number + 1}
  PROVE  \A type \in MsgTypes : MsgsOf(type) \subseteq MsgsOf(type)'
BY DEF MsgsOf

(* A sequence over a set is one over a larger set.                           *)
LEMMA SeqGrow ==
  ASSUME NEW S, NEW T, S \subseteq T
  PROVE  Seq(S) \subseteq Seq(T)
OBVIOUS

(* The queue as one step of any process leaves it. *)
QueueMove ==
  \/ mq' = mq /\ removed' = removed
  \/ \E type \in MsgTypes : (\E msg : Sent(type, msg)) /\ removed' = removed
  \/ \E type \in MsgTypes : Received(type) /\ removed' = removed
  \/ mq' = EmptyQueue

(* Each change of the queue keeps its messages of their form and within the  *)
(* limit.                                                                    *)
LEMMA QueueMoveKeeps ==
  ASSUME TypeOK, PhaseInv, SizeInv, QueueMove,
         sequence_number' \in {sequence_number, sequence_number + 1}
  PROVE  QueueTypes' /\ QueueFits'
<1>1. QueueTypes
  BY QueueTypesHold
<1>2. \A type \in MsgTypes : Seq(MsgsOf(type)) \subseteq Seq(MsgsOf(type)')
  BY MsgsGrow, SeqGrow DEF TypeOK
<1>3. CASE mq' = mq
  <2>1. QueueTypes'
    BY <1>1, <1>2, <1>3 DEF QueueTypes
  <2>2. QueueFits'
    BY <1>3 DEF QueueFits, SizeInv, TypeOK, Queued
  <2> QED BY <2>1, <2>2
<1>4. ASSUME NEW type \in MsgTypes, NEW msg, Sent(type, msg)
      PROVE  QueueTypes' /\ QueueFits'
  <2>1. QueueTypes'
    BY <1>1, <1>2, <1>4 DEF QueueTypes, Sent
  <2> QED BY <2>1, <1>4, SendFits
<1>5. ASSUME NEW type \in MsgTypes, Received(type)
      PROVE  QueueTypes' /\ QueueFits'
  <2>1. QueueTypes'
    BY <1>1, <1>2, <1>5 DEF QueueTypes, Received
  <2> QED BY <2>1, <1>5, ReceiveFits
<1>6. CASE mq' = EmptyQueue
  <2>1. mq' = [type \in MsgTypes |-> mq'[type]] /\ \A type \in MsgTypes : mq'[type] = <<>>
    BY <1>6 DEF EmptyQueue
  <2>2. \A S : <<>> \in Seq(S)
    OBVIOUS
  <2>3. QueueTypes'
    BY <2>1, <2>2 DEF QueueTypes
  <2> QED BY <2>3, <1>6, EmptyFits
<1> QED BY <1>3, <1>4, <1>5, <1>6 DEF QueueMove

(* The whole queue is well typed, so each of its parts is.                   *)
LEMMA QueuePartsOK ==
  ASSUME QueueTypes, sequence_number \in Nat
  PROVE  /\ mq["DEVICE_MSG"] \in Seq(DeviceMsg)
         /\ mq["ACTUATOR_REPLY"] \in Seq(Nat)
         /\ mq["CHILD_TO_PARENT"] \in Seq(Nat \ {End})
         /\ mq["REQUEST_STOP"] \in Seq({"stop"})
         /\ \A d \in Devices :
              mq[d] \in Seq({Ack} \union {Activate(n) : n \in 0 .. sequence_number})
<1>1. mq["DEVICE_MSG"] \in Seq(DeviceMsg)
  BY DEF QueueTypes, MsgTypes, ServerTypes, MsgsOf
<1>2. mq["ACTUATOR_REPLY"] \in Seq(Nat)
  BY DEF QueueTypes, MsgTypes, ServerTypes, MsgsOf
<1>3. mq["CHILD_TO_PARENT"] \in Seq(Nat \ {End})
  BY DEF QueueTypes, MsgTypes, ServerTypes, MsgsOf
<1>4. mq["REQUEST_STOP"] \in Seq({"stop"})
  BY DEF QueueTypes, MsgTypes, ServerTypes, MsgsOf
<1>5. ASSUME NEW d \in Devices
      PROVE  mq[d] \in Seq({Ack} \union {Activate(n) : n \in 0 .. sequence_number})
  <2>1. MsgsOf(d) = {Ack} \union {Activate(n) : n \in 0 .. sequence_number}
    BY PidIsNoType DEF MsgsOf
  <2> QED BY <2>1, PidIsNoType DEF QueueTypes
<1> QED BY <1>1, <1>2, <1>3, <1>4, <1>5

(* What each step takes from the queue. *)
LEMMA Receives ==
  ASSUME TypeOK, PhaseInv
  PROVE  /\ C_Receive => Received("DEVICE_MSG")
         /\ C_Reply => Received("ACTUATOR_REPLY")
         /\ P_Receive => Received("CHILD_TO_PARENT")
         /\ \A d \in Devices : D_Acknowledged(d) => Received(d)
         /\ \A d \in Devices : D_Stop(d) => Received("REQUEST_STOP")
         /\ \A a \in Actuators : A_TakeInstruction(a) => Received(a)
<1>1. {"DEVICE_MSG", "ACTUATOR_REPLY", "CHILD_TO_PARENT", "REQUEST_STOP"} \subseteq MsgTypes
      /\ Devices \subseteq MsgTypes /\ Actuators \subseteq MsgTypes
  BY DEF MsgTypes, ServerTypes, Devices
<1>2. \A type \in MsgTypes : msgrcv(type) => Received(type)
  BY QueueTypesHold, ReceiveEffect
<1>3. C_Receive => Received("DEVICE_MSG")
  BY <1>1, <1>2 DEF C_Receive
<1>4. C_Reply => Received("ACTUATOR_REPLY")
  BY <1>1, <1>2 DEF C_Reply
<1>5. P_Receive => Received("CHILD_TO_PARENT")
  BY <1>1, <1>2 DEF P_Receive
<1>6. \A d \in Devices : D_Acknowledged(d) => Received(d)
  BY <1>1, <1>2 DEF D_Acknowledged
<1>7. \A d \in Devices : D_Stop(d) => Received("REQUEST_STOP")
  BY <1>1, <1>2 DEF D_Stop
<1>8. \A a \in Actuators : A_TakeInstruction(a) => Received(a)
  BY <1>1, <1>2 DEF A_TakeInstruction
<1> QED BY <1>3, <1>4, <1>5, <1>6, <1>7, <1>8

(* What the parent, the cloud and CTRL+C leave alone, and what the child     *)
(* and the devices leave to them.                                            *)
CloudStep == Cloud \/ Cloud_Start \/ Cloud_Kill

DeviceStep(d) ==
  \/ D_Register(d) \/ D_RegisterLate(d) \/ D_Kill(d) \/ Device(d)

(* A step is one of the child, the parent, the cloud or a device, or         *)
(* CTRL+C.                                                                   *)
LEMMA NextIs ==
  ASSUME Next
  PROVE  Child \/ Parent \/ CloudStep \/ CtrlC \/ \E d \in Devices : DeviceStep(d)
BY DEF Next, User, CloudStep, DeviceStep

(* What the parent leaves alone: of the queue it takes only its own          *)
(* messages.                                                                 *)
LEMMA ParentFrame ==
  ASSUME Parent
  PROVE  /\ removed' = removed /\ childVars' = childVars /\ devVars' = devVars
         /\ interrupts' = interrupts
         /\ P_Receive \/ mq' = mq
         /\ pcParent \notin {"main", "done", "failed"} /\ pcParent' # "main"
BY DEF Parent, P_Start, P_StartFails, P_BrokenPipe, P_Open, P_CheckKill, P_CheckFlag,
       P_Receive, P_QueueGone, P_Write, P_Clear, P_End, parent

(* The cloud changes only what it has read and the FIFO.                     *)
LEMMA CloudFrame ==
  ASSUME CloudStep
  PROVE  /\ mq' = mq /\ removed' = removed /\ childVars' = childVars
         /\ parentVars' = parentVars /\ devVars' = devVars /\ interrupts' = interrupts
BY DEF CloudStep, Cloud, Cloud_Read, Cloud_EndOfFile, Cloud_Start, Cloud_Kill

(* A device changes only itself and the queue.                               *)
LEMMA DeviceFrame ==
  ASSUME NEW d \in Devices, DeviceStep(d)
  PROVE  /\ removed' = removed /\ childVars' = childVars /\ parentVars' = parentVars
         /\ cloudVars' = cloudVars /\ fifo' = fifo /\ interrupts' = interrupts
BY DEF DeviceStep, Device, D_Register, D_RegisterLate, D_Kill, D_Acknowledged, D_Stop, D_NoStop,
       D_Idle, D_QueueGone, S_SendReading, A_TakeInstruction, A_Answer

(* CTRL+C changes only what the handlers of the two processes set.           *)
LEMMA CtrlCFrame ==
  ASSUME CtrlC
  PROVE  /\ mq' = mq /\ removed' = removed /\ cloudVars' = cloudVars /\ fifo' = fifo
         /\ devVars' = devVars /\ data' = data /\ sensor_list' = sensor_list
         /\ actuator_list' = actuator_list /\ sequence_number' = sequence_number
         /\ crossings' = crossings /\ msg_received2' = msg_received2
BY DEF CtrlC, SignalParent, parentVars, sigint_handler, cloudVars, devVars

(* What the child leaves alone: only the flush at the start touches the      *)
(* devices, and only the signal the parent.                                  *)
LEMMA ChildFrame ==
  ASSUME Child
  PROVE  /\ cloudVars' = cloudVars /\ fifo' = fifo /\ order' = order
         /\ readings' = readings /\ interrupts' = interrupts
         /\ kill_process' = kill_process /\ msg_received2' = msg_received2
         /\ Main_Flush \/ pcDev' = pcDev
         /\ Main_Flush \/ C_SignalParent \/ parentVars' = parentVars
         /\ C_RemoveQueue \/ removed' = removed
BY DEF Child, Main_Flush, C_Receive, C_Setup, C_TellParent, C_SignalParent, C_Instruct, C_Reply,
       C_SendStop, C_RemoveQueue, devVars, parentVars, SignalParent, retrieve_msg

(* What the child does to the queue.                                         *)
LEMMA ChildMoves ==
  ASSUME TypeOK, PhaseInv, RegisterInv, SizeInv, Child
  PROVE  QueueMove
<1> USE DEF QueueMove
<1>1. CASE Main_Flush
  BY <1>1 DEF Main_Flush
<1>2. CASE C_Receive
  BY <1>2, Receives DEF C_Receive, MsgTypes, ServerTypes
<1>3. CASE C_Setup
  BY <1>3, SetupSends, PidIsNoType DEF C_Setup
<1>4. CASE C_TellParent
  BY <1>4, TellSends DEF C_TellParent, MsgTypes, ServerTypes
<1>5. CASE C_SignalParent
  BY <1>5 DEF C_SignalParent
<1>6. CASE C_Instruct
  <2>1. actuator_list[SensorNum] \in MsgTypes
    BY <1>6, InstructedIs DEF C_Instruct, child, MsgTypes, Devices
  <2> QED BY <1>6, <2>1, InstructSends DEF C_Instruct
<1>7. CASE C_Reply
  BY <1>7, Receives DEF C_Reply, MsgTypes, ServerTypes
<1>8. CASE C_SendStop
  BY <1>8, StopSends DEF C_SendStop, MsgTypes, ServerTypes
<1>9. CASE C_RemoveQueue
  BY <1>9 DEF C_RemoveQueue
<1> QED BY <1>1, <1>2, <1>3, <1>4, <1>5, <1>6, <1>7, <1>8, <1>9 DEF Child

(* What a device does to the queue.                                          *)
LEMMA DeviceMoves ==
  ASSUME TypeOK, PhaseInv, SizeInv, NEW d \in Devices, DeviceStep(d)
  PROVE  QueueMove
<1> USE DEF QueueMove
<1>1. CASE D_Register(d)
  <2>1. Sent("DEVICE_MSG", [from |-> d, first_setup |-> TRUE, over |-> FALSE])
    BY <1>1, DeviceSends DEF D_Register
  <2> QED BY <1>1, <2>1, DeviceFrame DEF MsgTypes, ServerTypes
<1>2. CASE d \in Sensors /\ S_SendReading(d)
  <2>1. PICK over \in BOOLEAN :
          msgsnd("DEVICE_MSG", [from |-> d, first_setup |-> FALSE, over |-> over])
    BY <1>2 DEF S_SendReading
  <2>2. Sent("DEVICE_MSG", [from |-> d, first_setup |-> FALSE, over |-> over])
    BY <2>1, DeviceSends
  <2> QED BY <1>2, <2>2, DeviceFrame DEF MsgTypes, ServerTypes
<1>3. CASE D_Acknowledged(d)
  BY <1>3, Receives, PidIsNoType, DeviceFrame
<1>4. CASE D_Stop(d)
  BY <1>4, Receives, DeviceFrame DEF MsgTypes, ServerTypes
<1>5. CASE d \in Actuators /\ A_TakeInstruction(d)
  BY <1>5, Receives, PidIsNoType, DeviceFrame
<1>6. CASE d \in Actuators /\ A_Answer(d)
  BY <1>6, AnswerSends, DeviceFrame DEF MsgTypes, ServerTypes
<1>7. CASE D_RegisterLate(d) \/ D_Kill(d) \/ D_NoStop(d) \/ D_Idle(d) \/ D_QueueGone(d)
  BY <1>7 DEF D_RegisterLate, D_Kill, D_NoStop, D_Idle, D_QueueGone
<1> QED BY <1>1, <1>2, <1>3, <1>4, <1>5, <1>6, <1>7 DEF DeviceStep, Device

(* What any step does to the queue, and to the number of the last            *)
(* instruction.                                                              *)
LEMMA QueueMoves ==
  ASSUME TypeOK, PhaseInv, RegisterInv, SizeInv, [Next]_vars
  PROVE  QueueMove /\ sequence_number' \in {sequence_number, sequence_number + 1}
<1>1. CASE Child
  <2>1. sequence_number' \in {sequence_number, sequence_number + 1}
    BY <1>1 DEF Child, Main_Flush, C_Receive, C_Setup, C_TellParent, C_SignalParent, C_Instruct,
              C_Reply, C_SendStop, C_RemoveQueue
  <2> QED BY <1>1, <2>1, ChildMoves
<1>2. CASE Parent
  <2>1. removed' = removed /\ sequence_number' = sequence_number /\ (P_Receive \/ mq' = mq)
    BY <1>2, ParentFrame DEF childVars
  <2>2. P_Receive => Received("CHILD_TO_PARENT")
    BY Receives
  <2> QED BY <2>1, <2>2 DEF QueueMove, MsgTypes, ServerTypes
<1>3. CASE CloudStep
  BY <1>3, CloudFrame DEF QueueMove, childVars
<1>4. CASE CtrlC
  BY <1>4, CtrlCFrame DEF QueueMove
<1>5. ASSUME NEW d \in Devices, DeviceStep(d)
      PROVE  QueueMove /\ sequence_number' = sequence_number
  BY <1>5, DeviceMoves, DeviceFrame DEF childVars
<1>6. CASE UNCHANGED vars
  BY <1>6 DEF vars, QueueMove, childVars
<1> QED BY <1>1, <1>2, <1>3, <1>4, <1>5, <1>6, NextIs

(* The types of what each process keeps. *)
ChildTypes ==
  /\ removed \in BOOLEAN
  /\ pcChild \in {"main", "recv", "setup", "tell", "signal", "instruct", "reply", "stopping",
                  "done", "failed"}
  /\ data \in DeviceMsg \union {NoMsg}
  /\ sensor_list \in Seq(Sensors) /\ actuator_list \in Seq(Actuators)
  /\ sequence_number \in Nat /\ stopsLeft \in Nat /\ crossings \in Nat

ParentTypes ==
  /\ pcParent \in {"main", "start", "open", "loop", "flag", "receive", "write", "clear", "end",
                   "done", "failed"}
  /\ retrieve_msg_flag \in BOOLEAN /\ kill_process \in BOOLEAN
  /\ msg_received2 \in Nat
  /\ interrupts \in 0 .. MAX_INTERRUPTS

CloudTypes ==
  /\ pcCloud \in {"new", "open", "read", "ended", "repeats", "killed"}
  /\ fifo \in Seq(Nat) /\ received \in Seq(Nat)

DeviceTypes ==
  /\ pcDev \in [Devices -> {"new", "waitAck", "loop", "act", "answer", "stopped",
                            "failed", "orphan", "killed"}]
  /\ order \in [Actuators -> Nat] /\ readings \in [Sensors -> 0 .. MAX_READINGS]

(* TypeOK by the processes it speaks of.                                     *)
LEMMA TypeParts ==
  ASSUME TypeOK
  PROVE  ChildTypes /\ ParentTypes /\ CloudTypes /\ DeviceTypes
BY DEF TypeOK, ChildTypes, ParentTypes, CloudTypes, DeviceTypes

(* TypeOK follows from the types of its parts.                               *)
LEMMA PartsType ==
  QueueTypes /\ QueueFits /\ ChildTypes /\ ParentTypes /\ CloudTypes /\ DeviceTypes => TypeOK
<1> SUFFICES ASSUME QueueTypes, QueueFits, ChildTypes, ParentTypes, CloudTypes, DeviceTypes
             PROVE  TypeOK
  OBVIOUS
<1>1. sequence_number \in Nat
  BY DEF ChildTypes
<1> QED BY <1>1, QueuePartsOK DEF TypeOK, QueueFits, ChildTypes, ParentTypes, CloudTypes,
                                  DeviceTypes

(* The same after a step. *)
LEMMA PartsTypeNext ==
  (QueueTypes /\ QueueFits /\ ChildTypes /\ ParentTypes /\ CloudTypes /\ DeviceTypes)' => TypeOK'
BY PartsType, PTL

(* What comes off the queue, and what may be listed. *)
LEMMA ChildTypesStep ==
  ASSUME TypeOK, PhaseInv, RegisterInv, [Next]_vars
  PROVE  ChildTypes'
<1>1. ChildTypes
  BY TypeParts
<1>2. ASSUME childVars' = childVars, removed' = removed
      PROVE  ChildTypes'
  BY <1>1, <1>2 DEF ChildTypes, childVars
<1>3. CASE Main_Flush
  BY <1>1, <1>3 DEF Main_Flush, ChildTypes
<1>4. CASE C_Receive
  <2>1. Head(mq["DEVICE_MSG"]) \in DeviceMsg
    BY <1>4, Receives DEF Received, MsgsOf
  <2> QED BY <1>1, <1>4, <2>1 DEF C_Receive, ChildTypes
<1>5. CASE C_Setup
  <2>1. data.from \in Devices
    BY <1>5 DEF RegisterInv, Asking, C_Setup, child
  <2>2. \A S : \A s \in Seq(S), m \in S : Append(s, m) \in Seq(S)
    OBVIOUS
  <2>3. sensor_list' \in Seq(Sensors) /\ actuator_list' \in Seq(Actuators)
    BY <1>1, <1>5, <2>1, <2>2 DEF C_Setup, ChildTypes, Devices
  <2> QED BY <1>1, <1>5, <2>3 DEF C_Setup, child, ChildTypes
<1>6. CASE C_TellParent
  BY <1>1, <1>6 DEF C_TellParent, child, ChildTypes
<1>7. CASE C_SignalParent
  <2> HIDE DEF SensorNum
  <2> QED BY <1>1, <1>7 DEF C_SignalParent, child, ChildTypes
<1>8. CASE C_Instruct
  BY <1>1, <1>8 DEF C_Instruct, child, ChildTypes
<1>9. CASE C_Reply
  BY <1>1, <1>9 DEF C_Reply, child, ChildTypes
<1>10. CASE C_SendStop
  BY <1>1, <1>10 DEF C_SendStop, child, ChildTypes
<1>11. CASE C_RemoveQueue
  BY <1>1, <1>11 DEF C_RemoveQueue, child, ChildTypes
<1>12. CASE CtrlC
  <2>1. pcChild' \in {pcChild, "stopping", "failed"} /\ stopsLeft' \in Nat
    BY <1>1, <1>12 DEF CtrlC, SignalChild, ChildTypes
  <2> QED BY <1>1, <1>12, <2>1, CtrlCFrame DEF ChildTypes
<1>13. CASE Parent
  BY <1>2, <1>13, ParentFrame
<1>14. CASE CloudStep
  BY <1>2, <1>14, CloudFrame
<1>15. ASSUME NEW d \in Devices, DeviceStep(d)
       PROVE  ChildTypes'
  BY <1>2, <1>15, DeviceFrame
<1>16. CASE UNCHANGED vars
  BY <1>2, <1>16 DEF vars
<1> QED BY <1>3, <1>4, <1>5, <1>6, <1>7, <1>8, <1>9, <1>10, <1>11, <1>12, <1>13, <1>14, <1>15,
           <1>16, NextIs DEF Child

(* Parent and cloud keep their variables of their types.                     *)
LEMMA ParentTypesStep ==
  ASSUME TypeOK, PhaseInv, [Next]_vars
  PROVE  ParentTypes' /\ CloudTypes'
<1>1. ParentTypes /\ CloudTypes
  BY TypeParts
<1>2. ASSUME parentVars' = parentVars, interrupts' = interrupts
      PROVE  ParentTypes'
  BY <1>1, <1>2 DEF ParentTypes, parentVars
<1>3. ASSUME cloudVars' = cloudVars, fifo' = fifo
      PROVE  CloudTypes'
  BY <1>1, <1>3 DEF CloudTypes, cloudVars
<1>4. CASE Child
  <2>1. CASE Main_Flush
    BY <1>1, <1>3, <2>1, ChildFrame, <1>4 DEF Main_Flush, ParentTypes
  <2>2. CASE C_SignalParent
    <3>1. pcParent' \in {pcParent, "failed"} /\ retrieve_msg_flag' \in {retrieve_msg_flag, TRUE}
      BY <2>2 DEF C_SignalParent, SignalParent, retrieve_msg, parentVars
    <3> QED BY <1>1, <1>3, <1>4, <3>1, ChildFrame DEF ParentTypes
  <2> QED BY <1>2, <1>3, <1>4, <2>1, <2>2, ChildFrame
<1>5. CASE CtrlC
  <2>1. pcParent' \in {pcParent, "failed"} /\ kill_process' \in {kill_process, TRUE}
        /\ retrieve_msg_flag' = retrieve_msg_flag
    BY <1>5 DEF CtrlC, SignalParent, sigint_handler, parentVars
  <2>2. interrupts' \in 0 .. MAX_INTERRUPTS
    BY <1>1, <1>5, ControllerAssumption DEF CtrlC, ParentTypes
  <2>3. ParentTypes'
    BY <1>1, <1>5, <2>1, <2>2, CtrlCFrame DEF ParentTypes
  <2> QED BY <1>3, <1>5, <2>3, CtrlCFrame
<1>6. CASE Parent
  <2>1. CASE P_Receive
    <3>1. Head(mq["CHILD_TO_PARENT"]) \in Nat
      BY <2>1, Receives DEF Received, MsgsOf
    <3> QED BY <1>1, <1>3, <2>1, <3>1 DEF P_Receive, parent, ParentTypes
  <2>2. CASE P_Write
    BY <1>1, <2>2 DEF P_Write, parent, ParentTypes, CloudTypes, cloudVars
  <2>3. CASE P_End
    BY <1>1, <2>3 DEF P_End, parent, ParentTypes, CloudTypes, cloudVars, End
  <2>4. CASE P_Open
    BY <1>1, <2>4 DEF P_Open, parent, ParentTypes, CloudTypes
  <2>5. CASE P_Start \/ P_StartFails \/ P_BrokenPipe \/ P_CheckKill \/ P_CheckFlag \/ P_QueueGone
             \/ P_Clear
    BY <1>1, <1>3, <2>5 DEF P_Start, P_StartFails, P_BrokenPipe, P_CheckKill, P_CheckFlag,
       P_QueueGone, P_Clear, parent, ParentTypes
  <2> QED BY <1>6, <2>1, <2>2, <2>3, <2>4, <2>5 DEF Parent
<1>7. CASE CloudStep
  <2>1. ParentTypes'
    BY <1>2, <1>7, CloudFrame
  <2>2. CASE Cloud_Read
    <3>1. fifo \in Seq(Nat) /\ fifo # <<>> /\ received \in Seq(Nat)
      BY <1>1, <2>2 DEF Cloud_Read, CloudTypes
    <3>2. Tail(fifo) \in Seq(Nat) /\ Append(received, Head(fifo)) \in Seq(Nat)
      BY <3>1
    <3> QED BY <2>1, <2>2, <3>2 DEF Cloud_Read, CloudTypes
  <2>3. CASE Cloud_EndOfFile \/ Cloud_Start \/ Cloud_Kill
    BY <1>1, <2>1, <2>3 DEF Cloud_EndOfFile, Cloud_Start, Cloud_Kill, CloudTypes
  <2> QED BY <1>7, <2>2, <2>3 DEF CloudStep, Cloud
<1>8. ASSUME NEW d \in Devices, DeviceStep(d)
      PROVE  ParentTypes' /\ CloudTypes'
  BY <1>2, <1>3, <1>8, DeviceFrame
<1>9. CASE UNCHANGED vars
  BY <1>2, <1>3, <1>9 DEF vars
<1> QED BY <1>4, <1>5, <1>6, <1>7, <1>8, <1>9, NextIs

(* Each device keeps its variables of their types: an acknowledgement is     *)
(* taken only by one that waits.                                             *)
LEMMA DeviceTypesStep ==
  ASSUME TypeOK, PhaseInv, AckInv, [Next]_vars
  PROVE  DeviceTypes'
<1>1. DeviceTypes
  BY TypeParts
<1>2. ASSUME devVars' = devVars
      PROVE  DeviceTypes'
  BY <1>1, <1>2 DEF DeviceTypes, devVars
<1>3. CASE Child
  <2>1. CASE Main_Flush
    BY <1>1, <2>1 DEF Main_Flush, DeviceTypes
  <2> QED BY <1>2, <1>3, <2>1, ChildFrame DEF devVars
<1>4. ASSUME NEW d \in Devices, DeviceStep(d)
      PROVE  DeviceTypes'
  <2>1. CASE S_SendReading(d) /\ d \in Sensors
    <3>1. readings' \in [Sensors -> 0 .. MAX_READINGS]
      BY <1>1, <2>1, ControllerAssumption DEF S_SendReading, DeviceTypes
    <3> QED BY <1>1, <2>1, <3>1 DEF S_SendReading, dev, DeviceTypes
  <2>2. CASE A_TakeInstruction(d) /\ d \in Actuators
    <3>1. mq[d] # <<>> /\ pcDev[d] = "act" /\ Received(d)
      BY <2>2, Receives DEF A_TakeInstruction, msgrcv, Waiting, dev
    <3>2. mq[d][1] # Ack /\ Head(mq[d]) = mq[d][1] /\ mq[d][1] \in MsgsOf(d)
      BY <3>1, <1>4 DEF AckInv, Received
    <3>3. Head(mq[d]) \in {Activate(n) : n \in 0 .. sequence_number}
      BY <3>2, PidIsNoType DEF MsgsOf
    <3>4. \A n \in 0 .. sequence_number : Activate(n).sequence_num \in Nat
      BY DEF Activate, TypeOK
    <3>5. order' \in [Actuators -> Nat]
      BY <1>1, <2>2, <3>3, <3>4 DEF A_TakeInstruction, DeviceTypes
    <3> QED BY <1>1, <2>2, <3>5 DEF A_TakeInstruction, dev, DeviceTypes
  <2>3. CASE D_Register(d) \/ D_RegisterLate(d) \/ D_Kill(d) \/ D_Acknowledged(d) \/ D_Stop(d)
              \/ D_NoStop(d) \/ D_Idle(d) \/ D_QueueGone(d) \/ A_Answer(d)
    BY <1>1, <2>3 DEF D_Register, D_RegisterLate, D_Kill, D_Acknowledged, D_Stop, D_NoStop,
       D_Idle, D_QueueGone, A_Answer, dev, DeviceTypes
  <2> QED BY <1>4, <2>1, <2>2, <2>3 DEF DeviceStep, Device
<1>5. CASE CtrlC
  BY <1>2, <1>5, CtrlCFrame
<1>6. CASE Parent
  BY <1>2, <1>6, ParentFrame
<1>7. CASE CloudStep
  BY <1>2, <1>7, CloudFrame
<1>8. CASE UNCHANGED vars
  BY <1>2, <1>8 DEF vars
<1> QED BY <1>3, <1>4, <1>5, <1>6, <1>7, <1>8, NextIs

(* Every step keeps the types and the limit of the queue.                    *)
LEMMA TypeStep ==
  ASSUME TypeOK, PhaseInv, RegisterInv, AckInv, SizeInv, [Next]_vars
  PROVE  TypeOK' /\ QueueFits'
<1>1. QueueTypes' /\ QueueFits'
  BY QueueMoves, QueueMoveKeeps
<1>2. ChildTypes' /\ ParentTypes' /\ CloudTypes' /\ DeviceTypes'
  BY ChildTypesStep, ParentTypesStep, DeviceTypesStep
<1> QED BY <1>1, <1>2, PartsTypeNext

-----------------------------------------------------------------------------
(* The order in which the processes come and go.                             *)

(* Every step keeps what each phase of the child promises of the other       *)
(* processes.                                                                *)
LEMMA PhaseStep ==
  ASSUME TypeOK, PhaseInv, RegisterInv, AckInv, SizeInv, StopForEach, [Next]_vars
  PROVE  PhaseInv'
<1>1. mq' = [type \in MsgTypes |-> mq'[type]]
  <2>1. QueueTypes'
    BY QueueMoves, QueueMoveKeeps
  <2> QED BY <2>1 DEF QueueTypes
<1>2. CASE Child
  <2>1. CASE Main_Flush
    <3>1. StoppedDevices' = {}
      <4>1. \A d \in Devices : pcDev[d] # "stopped"
        BY <2>1 DEF Main_Flush, PhaseInv
      <4> QED BY <2>1, <4>1 DEF Main_Flush, StoppedDevices
    <3> QED BY <1>1, <2>1, <3>1 DEF Main_Flush, PhaseInv
  <2>2. CASE C_RemoveQueue
    BY <1>1, <2>2 DEF C_RemoveQueue, child, PhaseInv, parentVars, devVars, Serving
  <2>3. CASE C_SignalParent
    <3>1. /\ pcChild = "signal" /\ pcChild' \in {"instruct", "recv"}
          /\ pcParent' \in {pcParent, "failed"} /\ mq' = mq /\ removed' = removed
          /\ pcDev' = pcDev
      BY <2>3 DEF C_SignalParent, child, SignalParent, parentVars, devVars
    <3> QED BY <1>1, <3>1 DEF PhaseInv, StoppedDevices, Serving
  <2>4. CASE C_Receive \/ C_Setup \/ C_TellParent \/ C_Instruct \/ C_Reply \/ C_SendStop
    <3>1. /\ pcChild \notin {"main", "done", "failed"} /\ pcChild' \notin {"main", "done", "failed"}
          /\ pcChild' = "stopping" => pcChild = "stopping"
          /\ pcChild = "stopping" => pcChild' = "stopping"
          /\ ~removed /\ ~removed' /\ parentVars' = parentVars /\ pcDev' = pcDev
      BY <2>4 DEF C_Receive, C_Setup, C_TellParent, C_Instruct, C_Reply, C_SendStop, child, msgsnd,
         msgrcv, Waiting, devVars
    <3> QED BY <1>1, <3>1 DEF PhaseInv, StoppedDevices, Serving, parentVars
  <2> QED BY <1>2, <2>1, <2>2, <2>3, <2>4 DEF Child
<1>3. CASE CtrlC
  <2>1. /\ pcChild' \in {pcChild, "stopping", "failed"} /\ pcParent' \in {pcParent, "failed"}
        /\ pcChild' # pcChild => pcChild \notin {"main", "done"}
        /\ pcParent' # pcParent => pcParent # "main"
        /\ retrieve_msg_flag' = retrieve_msg_flag
    BY <1>3 DEF CtrlC, SignalChild, ChildWaits, ChildWaitsForRoom, SignalParent, ParentWaits,
       sigint_handler, parentVars
  <2> QED BY <1>1, <1>3, <2>1, CtrlCFrame DEF PhaseInv, StoppedDevices, Serving, devVars
<1>4. CASE Parent
  <2>1. mq' = mq \/ Received("CHILD_TO_PARENT")
    BY <1>4, ParentFrame, Receives
  <2>2. removed => mq' = mq
    BY <2>1 DEF Received
  <2> QED BY <1>1, <1>4, <2>2, ParentFrame DEF PhaseInv, StoppedDevices, Serving, childVars, devVars
<1>5. CASE CloudStep
  BY <1>1, <1>5, CloudFrame DEF PhaseInv, StoppedDevices, Serving, childVars, parentVars, devVars
<1>6. ASSUME NEW d \in Devices, DeviceStep(d)
      PROVE  PhaseInv'
  <2>1. /\ removed' = removed /\ pcChild' = pcChild /\ pcParent' = pcParent
        /\ sensor_list' = sensor_list /\ actuator_list' = actuator_list /\ crossings' = crossings
        /\ retrieve_msg_flag' = retrieve_msg_flag
    BY <1>6, DeviceFrame DEF childVars, parentVars
  <2>2. removed => mq' = mq
    BY <1>6 DEF DeviceStep, Device, D_Register, D_RegisterLate, D_Kill, D_Acknowledged, D_Stop,
       D_NoStop, D_Idle, D_QueueGone, S_SendReading, A_TakeInstruction, A_Answer, msgsnd, msgrcv,
       Waiting
  <2>3. CASE pcChild = "main"
    <3>1. /\ pcDev[d] \in {"new", "waitAck", "killed"} /\ ~removed /\ mq["CHILD_TO_PARENT"] = <<>>
          /\ mq[d] = <<>>
      BY <1>6, <2>3 DEF PhaseInv, AckInv, Listed, Range
    <3>2. CASE D_Register(d)
      <4>1. Sent("DEVICE_MSG", [from |-> d, first_setup |-> TRUE, over |-> FALSE])
        BY <3>2, DeviceSends DEF D_Register
      <4>2. mq'["CHILD_TO_PARENT"] = <<>>
        BY <3>1, <4>1 DEF Sent, MsgTypes, ServerTypes
      <4>3. \A e \in Devices : pcDev'[e] \in {"new", "waitAck", "killed"}
        BY <2>3, <3>2 DEF D_Register, dev, PhaseInv, TypeOK
      <4> QED BY <1>1, <2>1, <2>2, <2>3, <4>2, <4>3 DEF PhaseInv, StoppedDevices
    <3>3. CASE D_Kill(d)
      <4>1. \A e \in Devices : pcDev'[e] \in {"new", "waitAck", "killed"}
        BY <2>3, <3>3 DEF D_Kill, dev, PhaseInv, TypeOK
      <4> QED BY <1>1, <2>1, <2>2, <2>3, <3>3, <4>1 DEF PhaseInv, StoppedDevices, D_Kill
    <3> QED BY <1>6, <3>1, <3>2, <3>3 DEF DeviceStep, Device, D_RegisterLate, D_Acknowledged,
          D_Stop, D_NoStop, D_Idle, D_QueueGone, S_SendReading, A_TakeInstruction, A_Answer, dev,
          msgrcv, Waiting
  <2>4. CASE pcChild # "main"
    <3>1. Serving => StoppedDevices' = {}
      <4>1. ASSUME Serving
            PROVE  \A e \in Devices : pcDev'[e] # "stopped"
        <5>1. mq["REQUEST_STOP"] = <<>> /\ \A e \in Devices : pcDev[e] # "stopped"
          BY <4>1 DEF StopForEach, PhaseInv, StoppedDevices
        <5> QED BY <1>6, <5>1 DEF DeviceStep, Device, D_Register, D_RegisterLate, D_Kill,
              D_Acknowledged, D_Stop, D_NoStop, D_Idle, D_QueueGone, S_SendReading,
              A_TakeInstruction, A_Answer, dev, msgrcv, Waiting, TypeOK
      <4> QED BY <4>1 DEF StoppedDevices
    <3> QED BY <1>1, <2>1, <2>2, <2>4, <3>1 DEF PhaseInv, Serving
  <2> QED BY <2>3, <2>4
<1>7. CASE UNCHANGED vars
  BY <1>7 DEF vars, PhaseInv, StoppedDevices, Serving, childVars, parentVars, devVars
<1> QED BY <1>2, <1>3, <1>4, <1>5, <1>6, <1>7, NextIs

-----------------------------------------------------------------------------
(* From the child to the cloud.                                              *)

(* Only telling the parent, the parent's receive and the queue's making and  *)
(* removal change what is on its way to the parent.                          *)
LEMMA WayKeptByChild ==
  ASSUME TypeOK, PhaseInv, RegisterInv, SizeInv,
         C_Receive \/ C_Setup \/ C_Instruct \/ C_Reply \/ C_SendStop
  PROVE  /\ mq'["CHILD_TO_PARENT"] = mq["CHILD_TO_PARENT"]
         /\ crossings' = crossings /\ removed' = removed /\ parentVars' = parentVars
         /\ cloudVars' = cloudVars /\ fifo' = fifo
         /\ pcChild # "signal" /\ pcChild' # "signal"
<1> DEFINE ctp == "CHILD_TO_PARENT"
<1>1. ctp \in MsgTypes /\ \A d \in Devices : ctp # d
  BY PidIsNoType DEF MsgTypes, ServerTypes
<1>2. CASE C_Receive
  BY <1>1, <1>2, Receives DEF C_Receive, Received
<1>3. CASE C_Setup
  BY <1>1, <1>3, SetupSends DEF C_Setup, child, Sent
<1>4. CASE C_Instruct
  <2>1. actuator_list[SensorNum] \in Devices
    BY <1>4, InstructedIs DEF C_Instruct, child, Devices
  <2> QED BY <1>1, <1>4, <2>1, InstructSends DEF C_Instruct, child, Sent
<1>5. CASE C_Reply
  BY <1>1, <1>5, Receives DEF C_Reply, child, Received
<1>6. CASE C_SendStop
  BY <1>1, <1>6, StopSends DEF C_SendStop, child, Sent
<1> QED BY <1>2, <1>3, <1>4, <1>5, <1>6

(* A device disturbs nothing that is on its way to the cloud.                *)
LEMMA WayKeptByDevice ==
  ASSUME TypeOK, PhaseInv, SizeInv, NEW d \in Devices, DeviceStep(d)
  PROVE  /\ mq'["CHILD_TO_PARENT"] = mq["CHILD_TO_PARENT"]
         /\ crossings' = crossings /\ removed' = removed /\ parentVars' = parentVars
         /\ cloudVars' = cloudVars /\ fifo' = fifo /\ pcChild' = pcChild
<1>1. "CHILD_TO_PARENT" \in MsgTypes /\ "CHILD_TO_PARENT" # d
  BY PidIsNoType DEF MsgTypes, ServerTypes
<1>2. mq'["CHILD_TO_PARENT"] = mq["CHILD_TO_PARENT"]
  <2>1. CASE D_Register(d)
    <3>1. Sent("DEVICE_MSG", [from |-> d, first_setup |-> TRUE, over |-> FALSE])
      BY <2>1, DeviceSends DEF D_Register
    <3> QED BY <1>1, <3>1 DEF Sent
  <2>2. CASE d \in Sensors /\ S_SendReading(d)
    <3>1. PICK over \in BOOLEAN :
            msgsnd("DEVICE_MSG", [from |-> d, first_setup |-> FALSE, over |-> over])
      BY <2>2 DEF S_SendReading
    <3>2. Sent("DEVICE_MSG", [from |-> d, first_setup |-> FALSE, over |-> over])
      BY <3>1, DeviceSends
    <3> QED BY <1>1, <3>2 DEF Sent
  <2>3. CASE D_Acknowledged(d) \/ D_Stop(d) \/ (d \in Actuators /\ A_TakeInstruction(d))
    BY <1>1, <2>3, Receives DEF Received
  <2>4. CASE d \in Actuators /\ A_Answer(d)
    BY <1>1, <2>4, AnswerSends DEF Sent
  <2>5. CASE D_RegisterLate(d) \/ D_Kill(d) \/ D_NoStop(d) \/ D_Idle(d) \/ D_QueueGone(d)
    BY <2>5 DEF D_RegisterLate, D_Kill, D_NoStop, D_Idle, D_QueueGone
  <2> QED BY <2>1, <2>2, <2>3, <2>4, <2>5 DEF DeviceStep, Device
<1> QED BY <1>2, DeviceFrame DEF childVars

(* Every step keeps the balance of signals and messages: there is a message  *)
(* in the queue for the flag that is set, and for the signal about to be     *)
(* sent.                                                                     *)
LEMMA SignalStep ==
  ASSUME TypeOK, PhaseInv, RegisterInv, SizeInv, SignalInv, [Next]_vars
  PROVE  SignalInv'
<1>1. Len(mq["CHILD_TO_PARENT"]) \in Nat /\ retrieve_msg_flag \in BOOLEAN
  BY DEF TypeOK
<1>2. ASSUME mq'["CHILD_TO_PARENT"] = mq["CHILD_TO_PARENT"], removed' = removed,
             pcParent' = pcParent, retrieve_msg_flag' = retrieve_msg_flag,
             pcChild' = "signal" => pcChild = "signal"
      PROVE  SignalInv'
  BY <1>1, <1>2 DEF SignalInv
<1>3. CASE Child
  <2>1. CASE Main_Flush
    <3>1. mq'["CHILD_TO_PARENT"] = <<>>
      BY <2>1 DEF Main_Flush, EmptyQueue, MsgTypes, ServerTypes
    <3>2. retrieve_msg_flag' = FALSE /\ pcChild' = "recv" /\ pcParent' = "start"
      BY <2>1 DEF Main_Flush, PhaseInv
    <3> QED BY <3>1, <3>2 DEF SignalInv
  <2>2. CASE C_TellParent
    <3>1. Len(mq'["CHILD_TO_PARENT"]) = Len(mq["CHILD_TO_PARENT"]) + 1
      BY <2>2, TellSends DEF Sent
    <3> QED BY <1>1, <2>2, <3>1 DEF C_TellParent, child, parentVars, SignalInv
  <2>3. CASE C_SignalParent
    <3>1. pcChild = "signal" /\ pcChild' # "signal" /\ mq' = mq /\ removed' = removed
      BY <2>3 DEF C_SignalParent, child
    <3>2. /\ pcParent' \in {pcParent, "failed"}
          /\ pcParent' = "receive" => retrieve_msg_flag'
      BY <2>3 DEF C_SignalParent, SignalParent, retrieve_msg, ParentWaits, parentVars, SignalInv
    <3>3. ASSUME ~removed'
          PROVE  (IF pcChild' = "signal" THEN 1 ELSE 0)
                   + (IF retrieve_msg_flag' /\ pcParent' \notin {"write", "clear", "failed"}
                      THEN 1 ELSE 0)
                   <= Len(mq'["CHILD_TO_PARENT"])
      <4>1. 1 <= Len(mq["CHILD_TO_PARENT"])
        BY <1>1, <3>1, <3>3 DEF SignalInv
      <4> QED BY <1>1, <3>1, <4>1
    <3> QED BY <3>2, <3>3 DEF SignalInv
  <2>4. CASE C_RemoveQueue
    BY <2>4 DEF C_RemoveQueue, parentVars, SignalInv
  <2>5. CASE C_Receive \/ C_Setup \/ C_Instruct \/ C_Reply \/ C_SendStop
    BY <1>2, <2>5, WayKeptByChild DEF parentVars
  <2> QED BY <1>3, <2>1, <2>2, <2>3, <2>4, <2>5 DEF Child
<1>4. CASE CtrlC
  <2>1. /\ pcChild' = "signal" => pcChild = "signal"
        /\ retrieve_msg_flag' = retrieve_msg_flag
        /\ pcParent' \in {pcParent, "failed"}
    BY <1>4 DEF CtrlC, SignalChild, SignalParent, sigint_handler, parentVars
  <2> QED BY <1>1, <1>4, <2>1, CtrlCFrame DEF SignalInv
<1>5. CASE Parent
  <2>1. CASE P_Receive
    <3>1. Len(mq'["CHILD_TO_PARENT"]) = Len(mq["CHILD_TO_PARENT"]) - 1
      BY <2>1, Receives DEF Received
    <3> QED BY <1>1, <2>1, <3>1 DEF P_Receive, parent, childVars, SignalInv
  <2>2. CASE P_Start \/ P_StartFails \/ P_BrokenPipe \/ P_Open \/ P_CheckKill \/ P_CheckFlag
             \/ P_QueueGone \/ P_Write \/ P_Clear \/ P_End
    <3>1. mq' = mq /\ removed' = removed /\ pcChild' = pcChild
      BY <1>5, <2>2, ParentFrame DEF childVars, P_Start, P_StartFails, P_BrokenPipe, P_Open,
         P_CheckKill, P_CheckFlag, P_QueueGone, P_Write, P_Clear, P_End
    <3>2. /\ pcParent' = "receive" => retrieve_msg_flag'
          /\ pcParent # "failed" /\ (retrieve_msg_flag' => retrieve_msg_flag)
          /\ pcParent \in {"write", "clear"} =>
               pcParent' \in {"write", "clear", "failed"} \/ ~retrieve_msg_flag'
          /\ pcParent' \in {"write", "clear"} => pcParent \in {"write", "clear"}
      BY <2>2 DEF P_Start, P_StartFails, P_BrokenPipe, P_Open, P_CheckKill, P_CheckFlag,
         P_QueueGone, P_Write, P_Clear, P_End, parent
    <3> QED BY <1>1, <3>1, <3>2 DEF SignalInv
  <2> QED BY <1>5, <2>1, <2>2 DEF Parent
<1>6. CASE CloudStep
  BY <1>2, <1>6, CloudFrame DEF childVars, parentVars
<1>7. ASSUME NEW d \in Devices, DeviceStep(d)
      PROVE  SignalInv'
  BY <1>2, <1>7, WayKeptByDevice DEF parentVars
<1>8. CASE UNCHANGED vars
  BY <1>2, <1>8 DEF vars, childVars, parentVars
<1> QED BY <1>3, <1>4, <1>5, <1>6, <1>7, <1>8, NextIs

(* The parent waits for no message. *)
LEMMA NoWait ==
  TypeOK /\ SignalInv => ParentNeverWaits
<1> SUFFICES ASSUME TypeOK, SignalInv, pcParent = "receive", ~removed
             PROVE  Waiting("CHILD_TO_PARENT")
  BY DEF ParentNeverWaits
<1>1. Len(mq["CHILD_TO_PARENT"]) >= 1
  BY DEF TypeOK, SignalInv
<1> QED BY <1>1 DEF Waiting

(* What is on its way stays as it was. *)
WayKept ==
  /\ mq'["CHILD_TO_PARENT"] = mq["CHILD_TO_PARENT"]
  /\ crossings' = crossings
  /\ fifo' = fifo /\ received' = received /\ msg_received2' = msg_received2

(* The steps that move no message. *)
LEMMA WayStays ==
  ASSUME TypeOK, WayInv, WayKept, removed' = removed,
         \/ pcParent' = pcParent
         \/ pcParent \notin {"write", "done"} /\ pcParent' \notin {"write", "done"}
         \/ pcParent = "write" /\ pcParent' = "failed",
         \/ pcCloud' = pcCloud
         \/ pcCloud # "ended" /\ pcCloud' # "ended"
              /\ (pcCloud' = "repeats" => pcParent' = "failed"),
         pcParent' = "failed" \/ pcParent # "failed"
  PROVE  WayInv'
<1>1. Len(received) \in Nat /\ Len(fifo) \in Nat /\ Len(mq["CHILD_TO_PARENT"]) \in Nat
      /\ crossings \in Nat
  BY DEF TypeOK
<1>2. Taken' = Taken /\ Taken \in Int
  BY <1>1 DEF Taken, WayKept
<1>3. Passed' = Passed /\ Passed \in Int
  BY <1>1 DEF Passed, WayKept
<1>4. /\ \A i \in DOMAIN received' :
           received'[i] = IF pcCloud' = "ended" /\ i = Len(received') THEN End ELSE i
      /\ \A i \in DOMAIN fifo' :
           fifo'[i] = IF pcParent' = "done" /\ i = Len(fifo') THEN End ELSE Len(received') + i
  BY DEF WayInv, WayKept
<1>5. /\ pcCloud' = "ended" => pcParent' = "done" /\ fifo' = <<>> /\ received' # <<>>
      /\ pcParent' = "done" /\ pcCloud' # "ended" => fifo' # <<>>
      /\ pcCloud' = "repeats" => pcParent' = "failed"
      /\ pcParent' = "write" => msg_received2' = Passed' + 1
  BY <1>3 DEF WayInv, WayKept
<1>6. ~removed' =>
       /\ \A i \in DOMAIN mq'["CHILD_TO_PARENT"] : mq'["CHILD_TO_PARENT"][i] = Taken' + i
       /\ pcParent' \notin {"write", "failed"} => Taken' = Passed'
       /\ pcParent' = "write" => Taken' = Passed' + 1
       /\ pcParent' = "failed" => Taken' \in {Passed', Passed' + 1}
  <2> HIDE DEF Taken, Passed
  <2> QED BY <1>2, <1>3 DEF WayInv, WayKept
<1> QED BY <1>4, <1>5, <1>6 DEF WayInv

(* The lengths of what is on its way. *)
LEMMA WayTypes ==
  ASSUME TypeOK
  PROVE  /\ received \in Seq(Nat) /\ Len(received) \in Nat /\ DOMAIN received = 1 .. Len(received)
         /\ fifo \in Seq(Nat) /\ Len(fifo) \in Nat /\ DOMAIN fifo = 1 .. Len(fifo)
         /\ Len(mq["CHILD_TO_PARENT"]) \in Nat
         /\ DOMAIN mq["CHILD_TO_PARENT"] = 1 .. Len(mq["CHILD_TO_PARENT"])
         /\ crossings \in Nat /\ Taken \in Int /\ Passed \in Int
<1>1. received \in Seq(Nat) /\ fifo \in Seq(Nat) /\ crossings \in Nat
      /\ mq["CHILD_TO_PARENT"] \in Seq(Nat \ {End})
  BY DEF TypeOK
<1> QED BY <1>1 DEF Taken, Passed

(* A message of the child joins the end of what is on its way.               *)
LEMMA TellWay ==
  ASSUME TypeOK, PhaseInv, SizeInv, WayInv, C_TellParent
  PROVE  WayInv'
<1> DEFINE n == Len(mq["CHILD_TO_PARENT"])
<1>1. /\ Len(mq'["CHILD_TO_PARENT"]) = n + 1 /\ n \in Nat
      /\ DOMAIN mq["CHILD_TO_PARENT"] = 1 .. n /\ DOMAIN mq'["CHILD_TO_PARENT"] = 1 .. n + 1
      /\ \A i \in 1 .. n : mq'["CHILD_TO_PARENT"][i] = mq["CHILD_TO_PARENT"][i]
      /\ mq'["CHILD_TO_PARENT"][n + 1] = crossings + 1 /\ ~removed
  BY TellSends DEF Sent
<1>2. /\ received' = received /\ fifo' = fifo /\ pcCloud' = pcCloud /\ pcParent' = pcParent
      /\ msg_received2' = msg_received2 /\ crossings' = crossings + 1 /\ removed' = removed
  BY DEF C_TellParent, parentVars, cloudVars
<1>3. Taken' = Taken /\ Passed' = Passed
  BY <1>1, <1>2, WayTypes DEF Taken, Passed
<1>4. \A i \in DOMAIN mq'["CHILD_TO_PARENT"] : mq'["CHILD_TO_PARENT"][i] = Taken + i
  <2>1. \A i \in 1 .. n : mq["CHILD_TO_PARENT"][i] = Taken + i
    BY <1>1 DEF WayInv
  <2>2. Taken + (n + 1) = crossings + 1
    BY <1>1, WayTypes DEF Taken
  <2> QED BY <1>1, <2>1, <2>2
<1> HIDE DEF Taken, Passed
<1> QED BY <1>1, <1>2, <1>3, <1>4 DEF WayInv

(* The parent takes the next message on its way.                             *)
LEMMA ReceiveWay ==
  ASSUME TypeOK, PhaseInv, WayInv, P_Receive
  PROVE  WayInv'
<1> DEFINE n == Len(mq["CHILD_TO_PARENT"])
<1>1. /\ Len(mq'["CHILD_TO_PARENT"]) = n - 1 /\ n \in Nat \ {0}
      /\ DOMAIN mq["CHILD_TO_PARENT"] = 1 .. n /\ DOMAIN mq'["CHILD_TO_PARENT"] = 1 .. n - 1
      /\ \A i \in 1 .. n - 1 : mq'["CHILD_TO_PARENT"][i] = mq["CHILD_TO_PARENT"][i + 1]
      /\ Head(mq["CHILD_TO_PARENT"]) = mq["CHILD_TO_PARENT"][1] /\ ~removed
  BY Receives DEF Received
<1>2. /\ received' = received /\ fifo' = fifo /\ pcCloud' = pcCloud
      /\ pcParent = "receive" /\ pcParent' = "write"
      /\ msg_received2' = Head(mq["CHILD_TO_PARENT"])
      /\ crossings' = crossings /\ removed' = removed
  BY DEF P_Receive, parent, cloudVars, childVars
<1>3. Taken' = Taken + 1 /\ Passed' = Passed /\ Taken = Passed
  BY <1>1, <1>2, WayTypes DEF Taken, Passed, WayInv
<1>4. /\ \A i \in DOMAIN mq'["CHILD_TO_PARENT"] : mq'["CHILD_TO_PARENT"][i] = Taken' + i
      /\ msg_received2' = Taken + 1
  <2>1. \A i \in 1 .. n : mq["CHILD_TO_PARENT"][i] = Taken + i
    BY <1>1 DEF WayInv
  <2>2. Taken \in Int
    BY WayTypes
  <2> HIDE DEF Taken, Passed, n
  <2>n. n \in Nat \ {0}
    BY <1>1
  <2>3. ASSUME NEW i \in 1 .. n - 1
        PROVE  mq["CHILD_TO_PARENT"][i + 1] = Taken + 1 + i
    <3>1. i + 1 \in 1 .. n /\ Taken + (i + 1) = Taken + 1 + i
      BY <2>n, <2>2
    <3>2. mq["CHILD_TO_PARENT"][i + 1] = Taken + (i + 1)
      BY <2>1, <3>1, Zenon
    <3> QED BY <3>1, <3>2, Zenon
  <2>4. msg_received2' = Taken + 1
    <3>1. 1 \in 1 .. n
      BY <2>n
    <3>2. mq["CHILD_TO_PARENT"][1] = Taken + 1
      BY <2>1, <3>1, Zenon
    <3> QED BY <1>1, <1>2, <3>2, Zenon
  <2> QED BY <1>1, <1>3, <2>3, <2>4
<1> HIDE DEF Taken, Passed
<1> QED BY <1>1, <1>2, <1>3, <1>4, WayTypes DEF WayInv

(* What the parent puts into the FIFO. *)
LEMMA WriteWay ==
  ASSUME TypeOK, PhaseInv, WayInv, P_Write \/ P_End
  PROVE  WayInv'
<1> DEFINE n == Len(fifo)
           m == IF pcParent' = "done" THEN End ELSE msg_received2
<1>1. /\ received' = received /\ pcCloud' = pcCloud
      /\ (pcParent = "write" /\ pcParent' = "clear") \/ (pcParent = "end" /\ pcParent' = "done")
      /\ fifo' = Append(fifo, m) /\ crossings' = crossings /\ removed' = removed /\ mq' = mq
  <2>1. CASE P_Write
    BY <2>1 DEF P_Write, parent, cloudVars, childVars
  <2>2. CASE P_End
    BY <2>2 DEF P_End, parent, cloudVars, childVars
  <2> QED BY <2>1, <2>2
<1>2. /\ n \in Nat /\ Len(fifo') = n + 1 /\ DOMAIN fifo' = 1 .. n + 1 /\ fifo'[n + 1] = m
      /\ \A i \in 1 .. n : fifo'[i] = fifo[i]
      /\ fifo' # <<>>
  BY <1>1, WayTypes
<1>3. pcCloud # "ended" /\ pcCloud # "repeats"
  BY <1>1 DEF WayInv
<1>4. /\ Taken' = Taken
      /\ Passed' = IF pcParent = "write" THEN Passed + 1 ELSE Passed
      /\ Passed = Len(received) + n
  <2>1. Taken' = Taken
    BY <1>1 DEF Taken
  <2>2. Len(received) \in Nat /\ Len(received') = Len(received)
    BY <1>1, WayTypes
  <2>3. Passed = Len(received) + n
    BY <1>1, <1>2, <2>2 DEF Passed
  <2>4. Passed' = Len(received) + (n + 1) - (IF pcParent' = "done" THEN 1 ELSE 0)
    BY <1>2, <2>2 DEF Passed
  <2> HIDE DEF Passed, n, m
  <2>5. n \in Nat
    BY <1>2
  <2>6. CASE pcParent = "write" /\ pcParent' = "clear"
    BY <2>1, <2>2, <2>3, <2>4, <2>5, <2>6
  <2>7. CASE pcParent = "end" /\ pcParent' = "done"
    BY <2>1, <2>2, <2>3, <2>4, <2>5, <2>7
  <2> QED BY <1>1, <2>6, <2>7
<1>5. \A i \in DOMAIN fifo' :
        fifo'[i] = IF pcParent' = "done" /\ i = Len(fifo') THEN End ELSE Len(received') + i
  <2>1. \A i \in 1 .. n : fifo[i] = Len(received) + i
    BY <1>1, WayTypes DEF WayInv
  <2>2. pcParent = "write" => m = Len(received) + n + 1
    BY <1>1, <1>4 DEF WayInv
  <2>3. Len(received) \in Nat /\ Len(received') = Len(received)
    BY <1>1, WayTypes
  <2> HIDE DEF n, m
  <2>4. m = IF pcParent' = "done" THEN End ELSE Len(received) + (n + 1)
    BY <1>1, <1>2, <2>2, <2>3 DEF m
  <2>5. \A i \in 1 .. n + 1 : i \in 1 .. n \/ i = n + 1
    BY <1>2
  <2>6. \A i \in 1 .. n : i # n + 1
    BY <1>2
  <2> QED BY <1>2, <2>1, <2>3, <2>4, <2>5, <2>6
<1>6. ~removed' =>
       /\ \A i \in DOMAIN mq'["CHILD_TO_PARENT"] : mq'["CHILD_TO_PARENT"][i] = Taken' + i
       /\ pcParent' \notin {"write", "failed"} /\ Taken' = Passed'
  <2> HIDE DEF Taken, Passed
  <2> QED BY <1>1, <1>4, WayTypes DEF WayInv
<1> HIDE DEF Taken, Passed
<1> QED BY <1>1, <1>2, <1>3, <1>5, <1>6 DEF WayInv

(* What the cloud takes out of the FIFO. *)
LEMMA ReadWay ==
  ASSUME TypeOK, PhaseInv, WayInv, Cloud_Read
  PROVE  WayInv'
<1> DEFINE n == Len(fifo)
           r == Len(received)
           m == Head(fifo)
<1>1. /\ pcCloud = "read" /\ pcCloud' = IF m = End THEN "ended" ELSE "read"
      /\ fifo # <<>> /\ fifo' = Tail(fifo) /\ received' = Append(received, m)
      /\ pcParent' = pcParent /\ crossings' = crossings /\ removed' = removed /\ mq' = mq
      /\ msg_received2' = msg_received2
  BY DEF Cloud_Read, parentVars, childVars
<1>2. /\ n \in Nat \ {0} /\ Len(fifo') = n - 1 /\ DOMAIN fifo' = 1 .. n - 1 /\ m = fifo[1]
      /\ \A i \in 1 .. n - 1 : fifo'[i] = fifo[i + 1]
      /\ 1 \in DOMAIN fifo
  BY <1>1, WayTypes
<1>3. /\ r \in Nat /\ Len(received') = r + 1 /\ DOMAIN received' = 1 .. r + 1
      /\ received'[r + 1] = m /\ \A i \in 1 .. r : received'[i] = received[i]
      /\ received' # <<>>
  BY <1>1, WayTypes
<1> HIDE DEF m
<1>4. m = IF pcParent = "done" /\ n = 1 THEN End ELSE r + 1
  BY <1>2 DEF WayInv
<1>5. pcCloud' = "ended" <=> pcParent = "done" /\ n = 1
  BY <1>1, <1>3, <1>4 DEF End
<1>6. \A i \in DOMAIN received' :
        received'[i] = IF pcCloud' = "ended" /\ i = Len(received') THEN End ELSE i
  <2>1. \A i \in 1 .. r : received[i] = i
    BY <1>1, WayTypes DEF WayInv
  <2> QED BY <1>3, <1>4, <1>5, <2>1
<1>7. \A i \in DOMAIN fifo' :
        fifo'[i] = IF pcParent' = "done" /\ i = Len(fifo') THEN End ELSE Len(received') + i
  <2>1. \A i \in 1 .. n : fifo[i] = IF pcParent = "done" /\ i = n THEN End ELSE r + i
    BY WayTypes DEF WayInv
  <2> HIDE DEF n, r
  <2>2. ASSUME NEW i \in 1 .. n - 1
        PROVE  fifo'[i] = IF pcParent = "done" /\ i = n - 1 THEN End ELSE r + 1 + i
    <3>1. fifo'[i] = fifo[i + 1] /\ i + 1 \in 1 .. n /\ (i = n - 1 <=> i + 1 = n)
      BY <1>2
    <3> QED BY <1>3, <2>1, <3>1
  <2> QED BY <1>1, <1>2, <1>3, <2>2
<1>8. /\ pcCloud' = "ended" => fifo' = <<>>
      /\ pcParent' = "done" /\ pcCloud' # "ended" => fifo' # <<>>
  <2>1. fifo' \in Seq(Nat)
    BY <1>1, WayTypes
  <2> QED BY <1>1, <1>2, <1>5, <2>1
<1>9. Taken' = Taken /\ Passed' = Passed
  BY <1>1, <1>2, <1>3 DEF Taken, Passed
<1> HIDE DEF Taken, Passed
<1> QED BY <1>1, <1>3, <1>5, <1>6, <1>7, <1>8, <1>9 DEF WayInv

(* Every step keeps the order on the way to the cloud.                       *)
LEMMA WayStep ==
  ASSUME TypeOK, PhaseInv, RegisterInv, SizeInv, WayInv, [Next]_vars
  PROVE  WayInv'
<1>1. ASSUME mq'["CHILD_TO_PARENT"] = mq["CHILD_TO_PARENT"], crossings' = crossings,
             removed' = removed, parentVars' = parentVars, cloudVars' = cloudVars, fifo' = fifo
      PROVE  WayInv'
  BY <1>1, WayStays DEF WayKept, parentVars, cloudVars
<1>2. CASE Child
  <2>1. CASE Main_Flush
    <3>1. /\ mq["CHILD_TO_PARENT"] = <<>> /\ mq'["CHILD_TO_PARENT"] = <<>>
          /\ pcParent = "main" /\ pcParent' = "start" /\ WayKept
          /\ pcCloud' = pcCloud /\ removed' = removed
      BY <2>1 DEF Main_Flush, PhaseInv, EmptyQueue, MsgTypes, ServerTypes, WayKept, cloudVars
    <3> QED BY <3>1, WayStays
  <2>2. CASE C_TellParent
    BY <2>2, TellWay
  <2>3. CASE C_SignalParent
    <3>1. /\ WayKept /\ pcCloud' = pcCloud /\ removed' = removed
          /\ \/ pcParent' = pcParent
             \/ pcParent \in {"start", "open", "receive"} /\ pcParent' = "failed"
      BY <2>3 DEF C_SignalParent, SignalParent, ParentWaits, retrieve_msg, WayKept, cloudVars,
         parentVars
    <3> QED BY <3>1, WayStays
  <2>4. CASE C_RemoveQueue
    <3>1. /\ removed' /\ received' = received /\ fifo' = fifo /\ pcCloud' = pcCloud
          /\ pcParent' = pcParent /\ msg_received2' = msg_received2
      BY <2>4 DEF C_RemoveQueue, parentVars, cloudVars
    <3>2. Passed' = Passed
      BY <3>1 DEF Passed
    <3> HIDE DEF Taken, Passed
    <3> QED BY <3>1, <3>2 DEF WayInv
  <2>5. CASE C_Receive \/ C_Setup \/ C_Instruct \/ C_Reply \/ C_SendStop
    BY <1>1, <2>5, WayKeptByChild
  <2> QED BY <1>2, <2>1, <2>2, <2>3, <2>4, <2>5 DEF Child
<1>3. CASE CtrlC
  <2>1. \/ pcParent' = pcParent
        \/ pcParent \in {"open", "receive"} /\ pcParent' = "failed"
    BY <1>3 DEF CtrlC, SignalParent, ParentWaits, sigint_handler, parentVars
  <2>2. WayKept /\ pcCloud' = pcCloud /\ removed' = removed
    BY <1>3, CtrlCFrame DEF WayKept, cloudVars
  <2> QED BY <2>1, <2>2, WayStays
<1>4. CASE Parent
  <2>1. CASE P_Receive
    BY <2>1, ReceiveWay
  <2>2. CASE P_Write \/ P_End
    BY <2>2, WriteWay
  <2>3. CASE P_Open
    <3>1. /\ WayKept /\ removed' = removed /\ pcParent = "open" /\ pcParent' = "loop"
          /\ pcCloud = "open" /\ pcCloud' = "read"
      BY <2>3 DEF P_Open, parent, WayKept, childVars
    <3> QED BY <3>1, WayStays
  <2>4. CASE P_Start \/ P_StartFails \/ P_BrokenPipe \/ P_CheckKill \/ P_CheckFlag \/ P_QueueGone
             \/ P_Clear
    <3>1. WayKept /\ removed' = removed /\ pcCloud' = pcCloud
      BY <2>4 DEF P_Start, P_StartFails, P_BrokenPipe, P_CheckKill, P_CheckFlag, P_QueueGone,
         P_Clear, WayKept, childVars, cloudVars
    <3>2. /\ pcParent \in {"start", "loop", "flag", "receive", "clear", "end", "write"}
          /\ pcParent' \notin {"write", "done"}
          /\ pcParent = "write" => pcParent' = "failed"
      BY <2>4 DEF P_Start, P_StartFails, P_BrokenPipe, P_CheckKill, P_CheckFlag, P_QueueGone,
         P_Clear, parent
    <3> QED BY <3>1, <3>2, WayStays
  <2> QED BY <1>4, <2>1, <2>2, <2>3, <2>4 DEF Parent
<1>5. CASE CloudStep
  <2>1. CASE Cloud_Read
    BY <2>1, ReadWay
  <2>2. CASE Cloud_EndOfFile
    <3>1. /\ WayKept /\ removed' = removed /\ pcParent' = pcParent
          /\ pcCloud = "read" /\ pcCloud' = "repeats" /\ fifo = <<>>
          /\ pcParent \in {"done", "failed"}
      BY <2>2 DEF Cloud_EndOfFile, WayKept, childVars, parentVars
    <3>2. pcParent = "failed"
      BY <3>1 DEF WayInv
    <3> QED BY <3>1, <3>2, WayStays
  <2>3. CASE Cloud_Start \/ Cloud_Kill
    <3>1. /\ WayKept /\ removed' = removed /\ pcParent' = pcParent
          /\ pcCloud \in {"new", "open", "read"} /\ pcCloud' \in {"open", "killed"}
      BY <2>3 DEF Cloud_Start, Cloud_Kill, WayKept, childVars, parentVars
    <3> QED BY <3>1, WayStays
  <2> QED BY <1>5, <2>1, <2>2, <2>3 DEF CloudStep, Cloud
<1>6. ASSUME NEW d \in Devices, DeviceStep(d)
      PROVE  WayInv'
  BY <1>1, <1>6, WayKeptByDevice
<1>7. CASE UNCHANGED vars
  BY <1>1, <1>7 DEF vars, childVars
<1> QED BY <1>2, <1>3, <1>4, <1>5, <1>6, <1>7, NextIs

(* Messages on their way: what the invariant says of them all together. *)
LEMMA ToldIs ==
  ASSUME TypeOK, WayInv
  PROVE  /\ received \o fifo \in Seq(Nat)
         /\ Len(received \o fifo) = Len(received) + Len(fifo)
         /\ \A i \in 1 .. Len(received) + Len(fifo) :
              (received \o fifo)[i] =
                IF pcParent = "done" /\ i = Len(received) + Len(fifo) THEN End ELSE i
<1> DEFINE r == Len(received)
           f == Len(fifo)
<1>1. /\ received \in Seq(Nat) /\ fifo \in Seq(Nat) /\ r \in Nat /\ f \in Nat
      /\ DOMAIN received = 1 .. r /\ DOMAIN fifo = 1 .. f
  BY WayTypes
<1>2. /\ received \o fifo \in Seq(Nat) /\ Len(received \o fifo) = r + f
      /\ \A i \in 1 .. r + f :
           (received \o fifo)[i] = IF i <= r THEN received[i] ELSE fifo[i - r]
  BY <1>1
<1>3. ASSUME NEW i \in 1 .. r
      PROVE  received[i] = IF pcParent = "done" /\ i = r + f THEN End ELSE i
  <2>1. received[i] = IF pcCloud = "ended" /\ i = r THEN End ELSE i
    BY <1>1 DEF WayInv
  <2>2. pcCloud = "ended" => pcParent = "done" /\ f = 0
    BY <1>1 DEF WayInv
  <2>3. pcParent = "done" /\ f = 0 => pcCloud = "ended"
    BY <1>1 DEF WayInv
  <2> HIDE DEF r, f
  <2>4. i = r + f => f = 0 /\ i = r
    BY <1>1
  <2> QED BY <1>1, <2>1, <2>2, <2>3, <2>4
<1>4. ASSUME NEW i \in 1 .. f
      PROVE  fifo[i] = IF pcParent = "done" /\ r + i = r + f THEN End ELSE r + i
  <2>1. fifo[i] = IF pcParent = "done" /\ i = f THEN End ELSE r + i
    BY <1>1 DEF WayInv
  <2> HIDE DEF r, f
  <2>2. i = f <=> r + i = r + f
    BY <1>1
  <2> QED BY <2>1, <2>2
<1> HIDE DEF r, f
<1>5. ASSUME NEW i \in 1 .. r + f
      PROVE  (received \o fifo)[i] = IF pcParent = "done" /\ i = r + f THEN End ELSE i
  <2>1. CASE i <= r
    BY <1>1, <1>2, <1>3, <2>1
  <2>2. CASE i > r
    <3>1. i - r \in 1 .. f /\ r + (i - r) = i
      BY <1>1, <2>2
    <3> QED BY <1>1, <1>2, <1>4, <2>2, <3>1
  <2> QED BY <1>1, <2>1, <2>2
<1> QED BY <1>2, <1>5 DEF r, f

(* The elements of two sequences put together.                               *)
LEMMA ConcatSeq ==
  ASSUME NEW S, NEW s \in Seq(S), NEW t \in Seq(S)
  PROVE  /\ s \o t \in Seq(S) /\ Len(s \o t) = Len(s) + Len(t)
         /\ \A i \in 1 .. Len(s) : (s \o t)[i] = s[i]
         /\ \A i \in 1 .. Len(t) : (s \o t)[Len(s) + i] = t[i]
OBVIOUS

(* What is on its way in order leaves the way in order.                      *)
LEMMA WayIsInOrder ==
  TypeOK /\ PhaseInv /\ WayInv => CrossingsInOrder
<1> SUFFICES ASSUME TypeOK, PhaseInv, WayInv
             PROVE  CrossingsInOrder
  OBVIOUS
<1> DEFINE told == received \o fifo
           n == IF pcParent = "done" THEN Len(told) - 1 ELSE Len(told)
           first == [i \in 1 .. n |-> told[i]]
           hand == IF pcParent = "write" THEN <<msg_received2>> ELSE <<>>
           ctp == mq["CHILD_TO_PARENT"]
           chain == first \o hand \o ctp
<1>1. told \in Seq(Nat) /\ Len(told) \in Nat
      /\ \A i \in 1 .. Len(told) : told[i] = IF pcParent = "done" /\ i = Len(told) THEN End ELSE i
  BY ToldIs
<1>2. Passed = n /\ Passed \in Nat
  <2>1. pcParent = "done" => Len(told) > 0
    BY ToldIs, WayTypes DEF WayInv
  <2> QED BY <2>1, ToldIs, WayTypes DEF Passed
<1>3. \A i \in 1 .. Len(told) : told[i] = End <=> pcParent = "done" /\ i = Len(told)
  BY <1>1 DEF End
<1> HIDE DEF told
<1>4. first \in Seq(Nat) /\ Len(first) = Passed /\ \A i \in 1 .. Passed : first[i] = i
  BY <1>1, <1>2
<1>5. /\ ctp \in Seq(Nat) /\ Len(ctp) \in Nat
      /\ removed => ctp = <<>>
      /\ ~removed => \A i \in 1 .. Len(ctp) : ctp[i] = Taken + i
  <2>1. mq["CHILD_TO_PARENT"] \in Seq(Nat \ {End})
    BY DEF TypeOK
  <2>2. removed => mq["CHILD_TO_PARENT"] = <<>>
    BY DEF PhaseInv, EmptyQueue, MsgTypes, ServerTypes
  <2>3. ~removed => \A i \in DOMAIN mq["CHILD_TO_PARENT"] : mq["CHILD_TO_PARENT"][i] = Taken + i
    BY DEF WayInv
  <2> HIDE DEF Taken
  <2> QED BY <2>1, <2>2, <2>3
<1>6. /\ hand \in Seq(Nat) /\ Len(hand) = IF pcParent = "write" THEN 1 ELSE 0
      /\ \A i \in 1 .. Len(hand) : hand[i] = Passed + 1
  BY DEF TypeOK, WayInv
<1> HIDE DEF n, first, hand, ctp
<1>7. /\ first \o hand \in Seq(Nat) /\ Len(first \o hand) = Passed + Len(hand)
      /\ \A i \in 1 .. Passed + Len(hand) : (first \o hand)[i] = i
  <2> DEFINE both == first \o hand
  <2> first \in Seq(Nat) /\ hand \in Seq(Nat)
    BY <1>4, <1>6
  <2>1. /\ both \in Seq(Nat) /\ Len(both) = Len(first) + Len(hand)
        /\ \A i \in 1 .. Len(first) : both[i] = first[i]
        /\ \A i \in 1 .. Len(hand) : both[Len(first) + i] = hand[i]
    BY ConcatSeq
  <2>2. Len(hand) = 0 \/ Len(hand) = 1
    BY <1>6
  <2>3. Len(first) = Passed /\ Passed \in Nat
    BY <1>2, <1>4
  <2> HIDE DEF Passed, both
  <2>4. \A i \in 1 .. Passed : both[i] = i
    BY <1>4, <2>1, <2>3
  <2>5. CASE Len(hand) = 0
    BY <2>1, <2>3, <2>4, <2>5 DEF both
  <2>6. CASE Len(hand) = 1
    <3>1. both[Passed + 1] = Passed + 1
      <4> DEFINE h == Len(hand)
      <4>3. \A i \in 1 .. h : hand[i] = Passed + 1
        BY <1>6
      <4>4. h = 1
        BY <2>6
      <4> HIDE DEF h
      <4>5. 1 \in 1 .. h
        BY <4>4
      <4>1. 1 \in 1 .. Len(hand) /\ hand[1] = Passed + 1
        BY <4>3, <4>5 DEF h
      <4>2. both[Len(first) + 1] = hand[1]
        BY <2>1, <4>1
      <4> QED BY <2>3, <4>1, <4>2
    <3>2. \A i \in 1 .. Passed + 1 : i \in 1 .. Passed \/ i = Passed + 1
      BY <2>3
    <3> QED BY <2>1, <2>3, <2>4, <2>6, <3>1, <3>2 DEF both
  <2> QED BY <2>2, <2>5, <2>6
<1> DEFINE m == Passed + Len(hand)
<1>8. m \in Nat
  BY <1>2, <1>6
<1>9. /\ chain \in Seq(Nat) /\ Len(chain) = m + Len(ctp)
      /\ \A i \in 1 .. m : chain[i] = i
      /\ \A i \in 1 .. Len(ctp) : chain[m + i] = ctp[i]
  BY <1>5, <1>7, ConcatSeq
<1>10. ~removed => /\ Taken \in Int /\ Taken >= m
                   /\ pcParent # "failed" => Taken = m
  <2> HIDE DEF Taken, Passed
  <2> QED BY <1>2, <1>6, WayTypes DEF WayInv
<1> HIDE DEF chain, m
<1>11. ASSUME NEW i \in 1 .. Len(chain)
       PROVE  \/ i <= m /\ chain[i] = i
              \/ ~removed /\ i > m /\ chain[i] = Taken + (i - m)
  <2>1. CASE i <= m
    BY <1>8, <1>9, <2>1
  <2>2. CASE i > m
    <3>1. i - m \in 1 .. Len(ctp) /\ m + (i - m) = i
      BY <1>5, <1>8, <1>9, <2>2
    <3>2. chain[i] = ctp[i - m]
      BY <1>9, <3>1
    <3>3. ~removed
      BY <1>5, <3>1
    <3> QED BY <1>5, <2>2, <3>1, <3>2, <3>3
  <2> QED BY <1>8, <2>1, <2>2
<1>12. \A i, j \in 1 .. Len(chain) : i < j => chain[i] < chain[j]
  <2> HIDE DEF Taken
  <2> QED BY <1>8, <1>10, <1>11
<1>13. pcParent # "failed" => chain = [i \in 1 .. Len(chain) |-> i]
  <2>1. ASSUME pcParent # "failed"
        PROVE  \A i \in 1 .. Len(chain) : chain[i] = i
    <3> HIDE DEF Taken
    <3> QED BY <1>8, <1>10, <1>11, <2>1
  <2> QED BY <1>9, <2>1
<1>14. pcParent # "failed" /\ ~removed => Len(chain) = crossings
  <2>1. ~removed /\ pcParent # "failed" => crossings = Len(ctp) + m
    <3>1. Taken = crossings - Len(ctp) /\ crossings \in Nat
      BY WayTypes DEF Taken, ctp
    <3> HIDE DEF Taken
    <3> QED BY <1>5, <1>8, <1>10, <3>1
  <2> QED BY <1>5, <1>8, <1>9, <2>1
<1> QED BY <1>3, <1>12, <1>13, <1>14 DEF CrossingsInOrder, told, n, first, hand, ctp, chain

(* A cloud that repeats itself has lost a crossing to the child's removal of *)
(* the queue.                                                                *)
LEMMA LossLeaves ==
  TypeOK /\ WayInv /\ LossInv => CloudLeftOnlyByLoss
<1> SUFFICES ASSUME TypeOK, WayInv, LossInv, pcCloud = "repeats"
             PROVE  removed /\ Len(received) < crossings
  BY DEF CloudLeftOnlyByLoss
<1>1. pcParent = "failed" /\ removed /\ Passed < crossings
  BY DEF WayInv, LossInv
<1> QED BY <1>1, WayTypes DEF Passed

(* Every step keeps the account of what is lost.                             *)
LEMMA LossStep ==
  ASSUME TypeOK, PhaseInv, RegisterInv, SizeInv, SignalInv, WayInv, LossInv, [Next]_vars
  PROVE  LossInv'
<1> USE DEF LossInv
<1>0. pcParent = "receive" /\ ~removed => Waiting("CHILD_TO_PARENT")
  BY NoWait DEF ParentNeverWaits
<1>1. ASSUME crossings' = crossings, removed' = removed, parentVars' = parentVars,
             cloudVars' = cloudVars, fifo' = fifo
      PROVE  LossInv'
  BY <1>1 DEF parentVars, cloudVars, Passed
<1>2. CASE Child
  <2>1. CASE Main_Flush
    <3>1. ~removed' /\ pcParent = "main" /\ pcParent' = "start" /\ pcCloud' = pcCloud
      BY <2>1 DEF Main_Flush, PhaseInv, cloudVars
    <3> QED BY <3>1
  <2>2. CASE C_TellParent
    <3>1. ~removed /\ ~removed' /\ pcParent' = pcParent /\ pcCloud' = pcCloud
      BY <2>2 DEF C_TellParent, msgsnd, parentVars, cloudVars
    <3> QED BY <3>1
  <2>3. CASE C_SignalParent
    <3>1. ~removed /\ ~removed' /\ pcCloud' = pcCloud
      BY <2>3 DEF C_SignalParent, child, PhaseInv, cloudVars
    <3>2. \/ pcParent' = pcParent
          \/ pcParent \in {"start", "open"} /\ pcParent' = "failed"
      BY <1>0, <2>3, <3>1 DEF C_SignalParent, SignalParent, ParentWaits, retrieve_msg, parentVars
    <3> QED BY <3>1, <3>2
  <2>4. CASE C_RemoveQueue
    <3>1. /\ removed' /\ ~removed /\ crossings' = crossings /\ pcCloud' = pcCloud
          /\ pcParent' = pcParent /\ retrieve_msg_flag' = retrieve_msg_flag /\ Passed' = Passed
      BY <2>4 DEF C_RemoveQueue, child, PhaseInv, parentVars, cloudVars, Passed
    <3>2. retrieve_msg_flag /\ pcParent \notin {"write", "clear", "failed"} => Passed < crossings
      <4> SUFFICES ASSUME retrieve_msg_flag, pcParent \notin {"write", "clear", "failed"}
                   PROVE  Passed < crossings
        OBVIOUS
      <4>1. Len(mq["CHILD_TO_PARENT"]) >= 1
        BY <3>1, WayTypes DEF SignalInv
      <4>2. Taken = Passed /\ Taken = crossings - Len(mq["CHILD_TO_PARENT"])
        BY <3>1 DEF WayInv, Taken
      <4> HIDE DEF Taken, Passed
      <4> QED BY <4>1, <4>2, WayTypes
    <3> HIDE DEF Passed
    <3> QED BY <3>1, <3>2
  <2>5. CASE C_Receive \/ C_Setup \/ C_Instruct \/ C_Reply \/ C_SendStop
    BY <1>1, <2>5, WayKeptByChild
  <2> QED BY <1>2, <2>1, <2>2, <2>3, <2>4, <2>5 DEF Child
<1>3. CASE CtrlC
  <2>1. \/ pcParent' = pcParent
        \/ pcParent = "open" /\ pcParent' = "failed"
    BY <1>0, <1>3 DEF CtrlC, SignalParent, ParentWaits, sigint_handler, parentVars
  <2>2. retrieve_msg_flag' = retrieve_msg_flag
    BY <1>3 DEF CtrlC, SignalParent, sigint_handler, parentVars
  <2>3. removed' = removed /\ crossings' = crossings /\ pcCloud' = pcCloud /\ Passed' = Passed
    <3>1. /\ removed' = removed /\ crossings' = crossings /\ fifo' = fifo
          /\ received' = received /\ pcCloud' = pcCloud
      BY <1>3 DEF CtrlC, cloudVars
    <3>2. pcParent' = "done" <=> pcParent = "done"
      BY <2>1
    <3> QED BY <3>1, <3>2 DEF Passed
  <2> HIDE DEF Passed
  <2> QED BY <2>1, <2>2, <2>3
<1>4. CASE Parent
  <2>1. crossings' = crossings /\ removed' = removed /\ received' = received
    BY <1>4, ParentFrame DEF childVars, Parent, P_Start, P_StartFails, P_BrokenPipe, P_Open,
       P_CheckKill, P_CheckFlag, P_Receive, P_QueueGone, P_Write, P_Clear, P_End, cloudVars
  <2>2. CASE P_Receive
    <3>1. ~removed /\ ~removed' /\ pcParent = "receive" /\ pcParent' = "write" /\ pcCloud' = pcCloud
      BY <2>1, <2>2 DEF P_Receive, parent, msgrcv, Waiting, cloudVars
    <3> QED BY <3>1
  <2>3. CASE P_Write
    <3>1. pcParent' = "clear" /\ pcCloud' = pcCloud
      BY <2>3 DEF P_Write, parent, cloudVars
    <3> QED BY <3>1
  <2>4. CASE P_Clear
    <3>1. pcParent' = "loop" /\ pcCloud' = pcCloud /\ ~retrieve_msg_flag'
      BY <2>4 DEF P_Clear, parent, cloudVars
    <3> QED BY <3>1
  <2>5. CASE P_End
    <3>1. /\ pcParent = "end" /\ pcParent' = "done" /\ pcCloud' = pcCloud
          /\ retrieve_msg_flag' = retrieve_msg_flag /\ fifo' = Append(fifo, End)
      BY <2>5 DEF P_End, parent, cloudVars
    <3>2. Len(fifo') = Len(fifo) + 1
      BY <3>1, WayTypes
    <3>3. Passed' = Passed
      BY <2>1, <3>1, <3>2, WayTypes DEF Passed
    <3> HIDE DEF Passed
    <3> QED BY <2>1, <3>1, <3>3
  <2>6. CASE P_Start \/ P_StartFails \/ P_Open \/ P_CheckKill \/ P_CheckFlag \/ P_BrokenPipe
    <3>1. /\ fifo' = fifo /\ retrieve_msg_flag' = retrieve_msg_flag
          /\ pcParent \in {"start", "open", "loop", "flag", "write", "end"} /\ pcParent' # "done"
          /\ pcParent = "write" => pcParent' = "failed"
          /\ \/ pcCloud' = pcCloud /\ pcParent' \in {"open", "flag", "end", "loop", "receive"}
                  /\ (pcParent' = "open" => pcParent = "start")
             \/ pcCloud' = pcCloud /\ pcParent' = "failed" /\ (pcParent = "start" \/ pcCloud = "killed")
             \/ pcParent = "open" /\ pcParent' = "loop"
      BY <2>6 DEF P_Start, P_StartFails, P_Open, P_CheckKill, P_CheckFlag, P_BrokenPipe, parent,
         cloudVars
    <3>2. Passed' = Passed
      BY <2>1, <3>1 DEF Passed
    <3> HIDE DEF Passed
    <3> QED BY <2>1, <3>1, <3>2
  <2>7. CASE P_QueueGone
    <3>1. /\ fifo' = fifo /\ pcParent = "receive" /\ pcParent' = "failed" /\ removed
          /\ pcCloud' = pcCloud /\ retrieve_msg_flag
      BY <2>7 DEF P_QueueGone, parent, cloudVars, SignalInv
    <3>2. Passed' = Passed
      BY <2>1, <3>1 DEF Passed
    <3> HIDE DEF Passed
    <3> QED BY <2>1, <3>1, <3>2
  <2> QED BY <1>4, <2>2, <2>3, <2>4, <2>5, <2>6, <2>7 DEF Parent
<1>5. CASE CloudStep
  <2>1. /\ removed' = removed /\ crossings' = crossings /\ pcParent' = pcParent
        /\ retrieve_msg_flag' = retrieve_msg_flag
    BY <1>5, CloudFrame DEF childVars, parentVars
  <2>2. Passed' = Passed
    <3>1. CASE Cloud_Read
      <4>1. Len(received') = Len(received) + 1 /\ Len(fifo') = Len(fifo) - 1
        BY <3>1, WayTypes DEF Cloud_Read
      <4> QED BY <2>1, <4>1, WayTypes DEF Passed
    <3>2. CASE Cloud_EndOfFile \/ Cloud_Start \/ Cloud_Kill
      BY <2>1, <3>2 DEF Passed, Cloud_EndOfFile, Cloud_Start, Cloud_Kill
    <3> QED BY <1>5, <3>1, <3>2 DEF CloudStep, Cloud
  <2>3. pcCloud' \in {"read", "repeats"} => pcCloud = "read"
    BY <1>5 DEF CloudStep, Cloud, Cloud_Read, Cloud_EndOfFile, Cloud_Start, Cloud_Kill
  <2> HIDE DEF Passed
  <2> QED BY <2>1, <2>2, <2>3
<1>6. ASSUME NEW d \in Devices, DeviceStep(d)
      PROVE  LossInv'
  BY <1>1, <1>6, WayKeptByDevice
<1>7. CASE UNCHANGED vars
  BY <1>1, <1>7 DEF vars, childVars
<1> QED BY <1>2, <1>3, <1>4, <1>5, <1>6, <1>7, NextIs

-----------------------------------------------------------------------------
(* The child and the devices.                                                *)

(* The steps of the parent and the cloud change nothing for them. *)
ServeKept ==
  /\ pcChild' = pcChild /\ data' = data /\ removed' = removed
  /\ sensor_list' = sensor_list /\ actuator_list' = actuator_list
  /\ sequence_number' = sequence_number /\ stopsLeft' = stopsLeft
  /\ pcDev' = pcDev /\ order' = order
  /\ \A type \in MsgTypes \ {"CHILD_TO_PARENT"} : mq'[type] = mq[type]

(* Parent and cloud change nothing the child serves.                         *)
LEMMA OthersServe ==
  ASSUME TypeOK, PhaseInv, Parent \/ CloudStep \/ UNCHANGED vars
  PROVE  ServeKept
<1>1. CASE Parent
  <2>1. P_Receive \/ mq' = mq
    BY <1>1, ParentFrame
  <2>2. \A type \in MsgTypes \ {"CHILD_TO_PARENT"} : mq'[type] = mq[type]
    BY <2>1, Receives DEF Received
  <2> QED BY <1>1, <2>2, ParentFrame DEF ServeKept, childVars, devVars
<1>2. CASE CloudStep
  BY <1>2, CloudFrame DEF ServeKept, childVars, devVars
<1>3. CASE UNCHANGED vars
  BY <1>3 DEF vars, ServeKept, childVars, devVars
<1> QED BY <1>1, <1>2, <1>3

(* A device that starts, registers, serves, or ends. *)
DevKept ==
  /\ \A e \in Devices : pcDev'[e] = "new" => pcDev[e] = "new"
  /\ \A e \in Devices \ Listed :
       pcDev[e] \in {"waitAck", "failed", "killed"} => pcDev'[e] \in {"waitAck", "failed", "killed"}
  /\ \A e \in Devices : pcDev'[e] \in {"loop", "act", "answer", "stopped"} => e \in Listed

(* The sensor's place in the list does not move while the child works on it. *)
LEMMA SensorNumStays ==
  ASSUME data' = data, sensor_list' = sensor_list
  PROVE  SensorNum' = SensorNum
BY DEF SensorNum, search_sensor_list_for_pid

(* The child lists sensors as sensors and actuators as actuators.            *)
LEMMA ListedAre ==
  ASSUME TypeOK
  PROVE  /\ Range(sensor_list) \subseteq Sensors /\ Range(actuator_list) \subseteq Actuators
         /\ Listed \subseteq Devices /\ Listed \intersect Sensors = Range(sensor_list)
         /\ Listed \intersect Actuators = Range(actuator_list)
<1>1. sensor_list \in Seq(Sensors) /\ actuator_list \in Seq(Actuators)
  BY DEF TypeOK
<1>2. Range(sensor_list) \subseteq Sensors /\ Range(actuator_list) \subseteq Actuators
  BY <1>1 DEF Range
<1> QED BY <1>2, ControllerAssumption DEF Listed, Devices

(* A step that lists nobody keeps RegisterInv when it leaves the message at  *)
(* hand and the requests alone.                                              *)
LEMMA RegisterKept ==
  ASSUME TypeOK, RegisterInv, DevKept,
         sensor_list' = sensor_list, actuator_list' = actuator_list, data' = data,
         mq'["DEVICE_MSG"] = mq["DEVICE_MSG"],
         \/ pcChild' = pcChild
         \/ pcChild \in {"tell", "signal", "instruct"} /\ pcChild' \in {"signal", "instruct", "reply"}
              /\ SensorNum <= Len(actuator_list)
         \/ pcChild # "main" /\ pcChild' \in {"recv", "signal", "stopping", "failed"}
              /\ (pcChild' = "signal" => pcChild = "tell")
  PROVE  RegisterInv'
<1>1. SensorNum' = SensorNum /\ Listed' = Listed
  BY SensorNumStays DEF Listed
<1> HIDE DEF SensorNum, Listed
<1>2. \A e \in Devices : Asking(e) => Asking(e)'
  BY <1>1 DEF Asking, DevKept
<1>3. pcChild' # "main" => RequestsInv'
  BY <1>2 DEF RegisterInv, RequestsInv, Asking
<1>4. pcChild' = "setup" => Asking(data.from)'
  BY <1>2 DEF RegisterInv, Asking
<1>5. /\ IsInjective(sensor_list') /\ IsInjective(actuator_list')
      /\ pcChild' \in {"tell", "signal", "instruct", "reply"} => data'.from \in Range(sensor_list')
      /\ pcChild' \in {"instruct", "reply"} => SensorNum' <= Len(actuator_list')
      /\ \A d \in Listed' : pcDev'[d] # "new"
      /\ \A d \in Devices : pcDev'[d] \in {"loop", "act", "answer", "stopped"} => d \in Listed'
  <2>1. \A d \in Listed' : pcDev'[d] # "new"
    BY <1>1, ListedAre DEF RegisterInv, DevKept
  <2> QED BY <1>1, <2>1 DEF RegisterInv, DevKept
<1> QED BY <1>3, <1>4, <1>5 DEF RegisterInv

(* One device more in a list. *)
LEMMA AppendRange ==
  ASSUME NEW S, NEW s \in Seq(S), NEW m \in S
  PROVE  /\ Range(Append(s, m)) = Range(s) \union {m}
         /\ IsInjective(s) /\ m \notin Range(s) => IsInjective(Append(s, m))
<1>1. /\ DOMAIN s = 1 .. Len(s) /\ Len(s) \in Nat /\ DOMAIN Append(s, m) = 1 .. Len(s) + 1
      /\ \A i \in 1 .. Len(s) : Append(s, m)[i] = s[i]
      /\ Append(s, m)[Len(s) + 1] = m
  BY AppendSeq
<1> DEFINE t == Append(s, m)
           n == Len(s)
<1> HIDE DEF t, n
<1>2. /\ DOMAIN s = 1 .. n /\ n \in Nat /\ DOMAIN t = 1 .. n + 1
      /\ \A i \in 1 .. n : t[i] = s[i]
      /\ t[n + 1] = m
  BY <1>1 DEF t, n
<1>3. \A i \in 1 .. n + 1 : i \in 1 .. n \/ i = n + 1
  BY <1>2
<1>4. 1 .. n \subseteq 1 .. n + 1 /\ n + 1 \in 1 .. n + 1
  BY <1>2
<1>5. Range(t) = Range(s) \union {m}
  BY <1>2, <1>3, <1>4 DEF Range
<1>6. ASSUME IsInjective(s), m \notin Range(s)
      PROVE  IsInjective(t)
  BY <1>2, <1>3, <1>6 DEF IsInjective, Range
<1> QED BY <1>5, <1>6 DEF t

(* device_setup, and what it does to the lists. *)
LEMMA SetupLists ==
  ASSUME TypeOK, RegisterInv, SizeInv, C_Setup
  PROVE  /\ Listed' = Listed \union {data.from} /\ data.from \in Devices \ Listed
         /\ Range(sensor_list) \subseteq Range(sensor_list')
         /\ IsInjective(sensor_list') /\ IsInjective(actuator_list')
         /\ Len(sensor_list') + Len(actuator_list') = Len(sensor_list) + Len(actuator_list) + 1
<1>1. /\ data.from \in Devices \ Listed
      /\ IsInjective(sensor_list) /\ IsInjective(actuator_list)
      /\ sensor_list \in Seq(Sensors) /\ actuator_list \in Seq(Actuators)
  BY DEF TypeOK, RegisterInv, Asking, C_Setup, child
<1>2. Len(sensor_list) \in Nat /\ Len(actuator_list) \in Nat
  BY <1>1
<1>3. CASE data.from \in Sensors
  <2>1. sensor_list' = Append(sensor_list, data.from) /\ actuator_list' = actuator_list
    BY <1>3 DEF C_Setup
  <2>2. /\ Range(sensor_list') = Range(sensor_list) \union {data.from} /\ IsInjective(sensor_list')
        /\ Len(sensor_list') = Len(sensor_list) + 1
    BY <1>1, <1>3, <2>1, AppendRange, AppendSeq DEF Listed
  <2> QED BY <1>1, <1>2, <2>1, <2>2 DEF Listed
<1>4. CASE data.from \notin Sensors
  <2>1. actuator_list' = Append(actuator_list, data.from) /\ sensor_list' = sensor_list
        /\ data.from \in Actuators
    BY <1>1, <1>4 DEF C_Setup, Devices
  <2>2. /\ Range(actuator_list') = Range(actuator_list) \union {data.from}
        /\ IsInjective(actuator_list') /\ Len(actuator_list') = Len(actuator_list) + 1
    BY <1>1, <2>1, AppendRange, AppendSeq DEF Listed
  <2> QED BY <1>1, <1>2, <2>1, <2>2 DEF Listed
<1> QED BY <1>3, <1>4

(* A device registers once, and only its own program counter moves.          *)
LEMMA DeviceDevKept ==
  ASSUME TypeOK, RegisterInv, AckInv, NEW d \in Devices, DeviceStep(d)
  PROVE  /\ DevKept
         /\ \A e \in Devices \ {d} : pcDev'[e] = pcDev[e]
         /\ D_Register(d) => pcDev[d] = "new" /\ pcDev'[d] = "waitAck"
<1>1. pcDev' = [pcDev EXCEPT ![d] = pcDev'[d]]
  BY DEF DeviceStep, Device, D_Register, D_RegisterLate, D_Kill, D_Acknowledged, D_Stop, D_NoStop,
     D_Idle, D_QueueGone, S_SendReading, A_TakeInstruction, A_Answer, dev, TypeOK
<1>2. pcDev \in [Devices -> {"new", "waitAck", "loop", "act", "answer", "stopped",
                             "failed", "orphan", "killed"}]
  BY DEF TypeOK
<1>3. pcDev[d] \in {"loop", "act", "answer", "stopped"} => d \in Listed
  BY DEF RegisterInv
<1>4. D_Acknowledged(d) => d \in Listed
  BY DEF D_Acknowledged, msgrcv, Waiting, AckInv
<1>5. /\ pcDev'[d] # "new"
      /\ pcDev[d] \in {"waitAck", "failed", "killed"} /\ d \notin Listed =>
           pcDev'[d] \in {"waitAck", "failed", "killed"}
      /\ pcDev'[d] \in {"loop", "act", "answer", "stopped"} => d \in Listed
      /\ D_Register(d) => pcDev[d] = "new" /\ pcDev'[d] = "waitAck"
  BY <1>2, <1>3, <1>4 DEF DeviceStep, Device, D_Register, D_RegisterLate, D_Kill, D_Acknowledged,
     D_Stop, D_NoStop, D_Idle, D_QueueGone, S_SendReading, A_TakeInstruction, A_Answer, dev
<1>6. \A e \in Devices \ {d} : pcDev'[e] = pcDev[e]
  BY <1>1, <1>2
<1>7. \A e \in Devices : pcDev[e] \in {"loop", "act", "answer", "stopped"} => e \in Listed
  BY DEF RegisterInv
<1>8. DevKept
  BY <1>5, <1>6, <1>7 DEF DevKept
<1> QED BY <1>5, <1>6, <1>8

(* What a device sends to the child, if it sends anything. *)
LEMMA DeviceQueue ==
  ASSUME TypeOK, PhaseInv, RegisterInv, AckInv, SizeInv, NEW d \in Devices, DeviceStep(d)
  PROVE  \/ mq'["DEVICE_MSG"] = mq["DEVICE_MSG"]
         \/ /\ D_Register(d)
            /\ Sent("DEVICE_MSG", [from |-> d, first_setup |-> TRUE, over |-> FALSE])
         \/ /\ d \in Range(sensor_list)
            /\ \E over \in BOOLEAN :
                 Sent("DEVICE_MSG", [from |-> d, first_setup |-> FALSE, over |-> over])
<1>1. "DEVICE_MSG" \in MsgTypes /\ "DEVICE_MSG" # d
  BY PidIsNoType DEF MsgTypes, ServerTypes
<1>2. CASE D_Register(d)
  BY <1>2, DeviceSends DEF D_Register
<1>3. CASE d \in Sensors /\ S_SendReading(d)
  <2>1. PICK over \in BOOLEAN :
          msgsnd("DEVICE_MSG", [from |-> d, first_setup |-> FALSE, over |-> over])
    BY <1>3 DEF S_SendReading
  <2>2. Sent("DEVICE_MSG", [from |-> d, first_setup |-> FALSE, over |-> over])
    BY <2>1, DeviceSends
  <2>3. d \in Listed
    BY <1>3 DEF S_SendReading, dev, RegisterInv
  <2>4. d \in Range(sensor_list)
    BY <1>3, <2>3, ListedAre
  <2> QED BY <2>2, <2>4
<1>4. CASE D_Acknowledged(d) \/ D_Stop(d) \/ (d \in Actuators /\ A_TakeInstruction(d))
  BY <1>1, <1>4, Receives DEF Received
<1>5. CASE d \in Actuators /\ A_Answer(d)
  BY <1>1, <1>5, AnswerSends DEF Sent
<1>6. CASE D_RegisterLate(d) \/ D_Kill(d) \/ D_NoStop(d) \/ D_Idle(d) \/ D_QueueGone(d)
  BY <1>6 DEF D_RegisterLate, D_Kill, D_NoStop, D_Idle, D_QueueGone
<1> QED BY <1>2, <1>3, <1>4, <1>5, <1>6 DEF DeviceStep, Device

(* A device that registers, and a sensor that sends a reading. *)
LEMMA RegisterByDevice ==
  ASSUME TypeOK, PhaseInv, RegisterInv, AckInv, SizeInv, NEW d \in Devices, DeviceStep(d)
  PROVE  RegisterInv'
<1>1. /\ pcChild' = pcChild /\ data' = data /\ sensor_list' = sensor_list
      /\ actuator_list' = actuator_list
  BY DeviceFrame DEF childVars
<1>2. DevKept
  BY DeviceDevKept
<1>3. CASE mq'["DEVICE_MSG"] = mq["DEVICE_MSG"]
  BY <1>1, <1>2, <1>3, RegisterKept
<1>4. ASSUME NEW m, m.from = d, Sent("DEVICE_MSG", m),
             \/ m.first_setup = TRUE /\ D_Register(d)
             \/ m.first_setup = FALSE /\ d \in Range(sensor_list)
      PROVE  RegisterInv'
  <2> DEFINE n == Len(mq["DEVICE_MSG"])
             q(i) == mq["DEVICE_MSG"][i]
             q1(i) == mq'["DEVICE_MSG"][i]
             asks(e) == e \in Devices \ Listed' /\ pcDev'[e] \in {"waitAck", "failed", "killed"}
  <2>1. /\ n \in Nat /\ DOMAIN mq["DEVICE_MSG"] = 1 .. n /\ DOMAIN mq'["DEVICE_MSG"] = 1 .. n + 1
        /\ \A i \in 1 .. n : q1(i) = q(i)
        /\ q1(n + 1) = m
    BY <1>4 DEF Sent
  <2>2. SensorNum' = SensorNum /\ Listed' = Listed
    BY <1>1, SensorNumStays DEF Listed
  <2> HIDE DEF SensorNum, Listed
  <2>3. \A e : Asking(e) => asks(e)
    BY <1>2, <2>2 DEF Asking, DevKept
  <2>4. D_Register(d) => ~Asking(d) /\ asks(d)
    BY <2>2, DeviceDevKept DEF Asking, RegisterInv
  <2>5. ASSUME pcChild # "main"
        PROVE  RequestsInv'
    <3>1. /\ \A i \in 1 .. n :
               IF q(i).first_setup
               THEN Asking(q(i).from) /\ (pcChild = "setup" => q(i).from # data.from)
               ELSE q(i).from \in Range(sensor_list)
          /\ \A i, j \in 1 .. n :
               q(i).first_setup /\ q(j).first_setup /\ q(i).from = q(j).from => i = j
      BY <2>1, <2>5 DEF RegisterInv, RequestsInv
    <3>2. pcChild = "setup" => Asking(data.from)
      BY DEF RegisterInv
    <3> HIDE DEF n, q, q1, asks
    <3>3. \A i \in 1 .. n + 1 : i \in 1 .. n \/ i = n + 1
      BY <2>1
    <3>4. ASSUME NEW i \in 1 .. n + 1
          PROVE  IF q1(i).first_setup
                 THEN asks(q1(i).from) /\ (pcChild' = "setup" => q1(i).from # data'.from)
                 ELSE q1(i).from \in Range(sensor_list')
      <4>1. CASE i \in 1 .. n
        BY <1>1, <2>1, <2>3, <3>1, <4>1
      <4>2. CASE i = n + 1
        BY <1>1, <1>4, <2>1, <2>4, <3>2, <4>2
      <4> QED BY <3>3, <4>1, <4>2
    <3>5. ASSUME NEW i \in 1 .. n + 1, NEW j \in 1 .. n + 1,
                 q1(i).first_setup, q1(j).first_setup, q1(i).from = q1(j).from
          PROVE  i = j
      <4>1. ASSUME NEW k \in 1 .. n, q(k).first_setup, m.first_setup
            PROVE  q(k).from # d
        BY <1>4, <2>4, <3>1, <4>1
      <4>2. CASE i \in 1 .. n /\ j \in 1 .. n
        BY <2>1, <3>1, <3>5, <4>2
      <4>3. CASE i = n + 1 /\ j \in 1 .. n
        BY <1>4, <2>1, <3>5, <4>1, <4>3
      <4>4. CASE i \in 1 .. n /\ j = n + 1
        BY <1>4, <2>1, <3>5, <4>1, <4>4
      <4> QED BY <3>3, <4>2, <4>3, <4>4
    <3> QED BY <2>1, <3>4, <3>5 DEF RequestsInv, Asking, q1, asks
  <2>6. pcChild' = "setup" => Asking(data.from)'
    BY <1>1, <2>3 DEF RegisterInv, Asking
  <2>7. /\ IsInjective(sensor_list') /\ IsInjective(actuator_list')
        /\ pcChild' \in {"tell", "signal", "instruct", "reply"} => data'.from \in Range(sensor_list')
        /\ pcChild' \in {"instruct", "reply"} => SensorNum' <= Len(actuator_list')
        /\ \A e \in Devices : pcDev'[e] \in {"loop", "act", "answer", "stopped"} => e \in Listed'
    BY <1>1, <1>2, <2>2 DEF RegisterInv, DevKept
  <2>8. \A e \in Listed' : pcDev'[e] # "new"
    BY <1>2, <2>2, ListedAre DEF RegisterInv, DevKept
  <2> QED BY <1>1, <2>5, <2>6, <2>7, <2>8 DEF RegisterInv
<1>5. CASE D_Register(d) /\ Sent("DEVICE_MSG", [from |-> d, first_setup |-> TRUE, over |-> FALSE])
  BY <1>4, <1>5
<1>6. ASSUME d \in Range(sensor_list), NEW over \in BOOLEAN,
             Sent("DEVICE_MSG", [from |-> d, first_setup |-> FALSE, over |-> over])
      PROVE  RegisterInv'
  BY <1>4, <1>6
<1> QED BY <1>3, <1>5, <1>6, DeviceQueue

(* The child takes a message: whoever registers with it is not listed yet,   *)
(* and has sent no other such message.                                       *)
LEMMA RegisterByReceive ==
  ASSUME TypeOK, PhaseInv, RegisterInv, C_Receive
  PROVE  RegisterInv'
<1> DEFINE n == Len(mq["DEVICE_MSG"])
           q(i) == mq["DEVICE_MSG"][i]
           q1(i) == mq'["DEVICE_MSG"][i]
<1>1. /\ n \in Nat \ {0} /\ DOMAIN mq["DEVICE_MSG"] = 1 .. n
      /\ DOMAIN mq'["DEVICE_MSG"] = 1 .. n - 1
      /\ \A i \in 1 .. n - 1 : q1(i) = q(i + 1)
      /\ Head(mq["DEVICE_MSG"]) = q(1)
  BY Receives DEF Received
<1>2. /\ pcChild = "recv" /\ data' = q(1)
      /\ pcChild' = IF q(1).first_setup THEN "setup" ELSE IF q(1).over THEN "tell" ELSE "recv"
      /\ sensor_list' = sensor_list /\ actuator_list' = actuator_list /\ pcDev' = pcDev
  BY <1>1 DEF C_Receive, devVars
<1>3. Listed' = Listed
  BY <1>2 DEF Listed
<1> HIDE DEF Listed
<1>4. \A e : Asking(e) <=> e \in Devices \ Listed' /\ pcDev'[e] \in {"waitAck", "failed", "killed"}
  BY <1>2, <1>3 DEF Asking
<1>5. /\ \A i \in 1 .. n : IF q(i).first_setup THEN Asking(q(i).from)
                           ELSE q(i).from \in Range(sensor_list)
      /\ \A i, j \in 1 .. n :
           q(i).first_setup /\ q(j).first_setup /\ q(i).from = q(j).from => i = j
  BY <1>1, <1>2 DEF RegisterInv, RequestsInv
<1> HIDE DEF n, q, q1
<1>6. \A i \in 1 .. n - 1 : i + 1 \in 1 .. n /\ i + 1 # 1
  BY <1>1
<1>7. ASSUME NEW i \in 1 .. n - 1
      PROVE  IF q1(i).first_setup
             THEN Asking(q1(i).from) /\ (pcChild' = "setup" => q1(i).from # data'.from)
             ELSE q1(i).from \in Range(sensor_list)
  <2>1. pcChild' = "setup" => q(1).first_setup /\ 1 \in 1 .. n
    BY <1>1, <1>2
  <2> QED BY <1>1, <1>2, <1>5, <1>6, <2>1
<1>8. ASSUME NEW i \in 1 .. n - 1, NEW j \in 1 .. n - 1,
             q1(i).first_setup, q1(j).first_setup, q1(i).from = q1(j).from
      PROVE  i = j
  <2>1. i + 1 = j + 1
    BY <1>1, <1>5, <1>6, <1>8
  <2> QED BY <1>1, <2>1
<1>9. RequestsInv'
  BY <1>1, <1>2, <1>4, <1>7, <1>8 DEF RequestsInv, Asking, q1
<1>10. 1 \in 1 .. n
  BY <1>1
<1>11. pcChild' = "setup" => Asking(data.from)'
  BY <1>2, <1>4, <1>5, <1>10 DEF Asking
<1>12. pcChild' \in {"tell", "signal", "instruct", "reply"} => data'.from \in Range(sensor_list')
  BY <1>2, <1>5, <1>10
<1>13. pcChild' \notin {"instruct", "reply"}
  BY <1>2
<1>14. /\ IsInjective(sensor_list') /\ IsInjective(actuator_list')
       /\ \A e \in Listed' : pcDev'[e] # "new"
       /\ \A e \in Devices : pcDev'[e] \in {"loop", "act", "answer", "stopped"} => e \in Listed'
  BY <1>2, <1>3 DEF RegisterInv
<1> QED BY <1>9, <1>11, <1>12, <1>13, <1>14 DEF RegisterInv

(* The child lists a device: the others that ask are others. *)
LEMMA RegisterBySetup ==
  ASSUME TypeOK, PhaseInv, RegisterInv, SizeInv, C_Setup
  PROVE  RegisterInv'
<1>1. /\ pcChild = "setup" /\ pcChild' = "recv" /\ pcDev' = pcDev
  BY DEF C_Setup, child, devVars
<1>2. mq'["DEVICE_MSG"] = mq["DEVICE_MSG"]
  BY SetupSends, PidIsNoType DEF Sent, MsgTypes, ServerTypes
<1>3. /\ Listed' = Listed \union {data.from} /\ data.from \in Devices \ Listed
      /\ Range(sensor_list) \subseteq Range(sensor_list')
      /\ IsInjective(sensor_list') /\ IsInjective(actuator_list')
  BY SetupLists
<1> HIDE DEF Listed
<1>4. Asking(data.from)
  BY <1>1 DEF RegisterInv
<1>5. \A e : Asking(e) /\ e # data.from =>
        e \in Devices \ Listed' /\ pcDev'[e] \in {"waitAck", "failed", "killed"}
  BY <1>1, <1>3 DEF Asking
<1>6. RequestsInv
  BY <1>1 DEF RegisterInv
<1>7. RequestsInv'
  BY <1>1, <1>2, <1>3, <1>5, <1>6 DEF RequestsInv, Asking
<1>8. /\ \A e \in Listed' : pcDev'[e] # "new"
      /\ \A e \in Devices : pcDev'[e] \in {"loop", "act", "answer", "stopped"} => e \in Listed'
  BY <1>1, <1>3, <1>4 DEF RegisterInv, Asking
<1> QED BY <1>1, <1>3, <1>7, <1>8 DEF RegisterInv

(* Every step keeps the registration: a device is listed, or its request is  *)
(* under way, never both, and never twice.                                   *)
LEMMA RegisterStep ==
  ASSUME TypeOK, PhaseInv, RegisterInv, AckInv, SizeInv, [Next]_vars
  PROVE  RegisterInv'
<1>0. "DEVICE_MSG" \in MsgTypes \ {"CHILD_TO_PARENT"} /\ \A d \in Devices : d # "DEVICE_MSG"
  BY PidIsNoType DEF MsgTypes, ServerTypes
<1>1. pcDev' = pcDev => DevKept
  BY DEF DevKept, RegisterInv
<1>2. CASE Child
  <2>1. CASE Main_Flush
    <3>1. /\ pcChild' = "recv" /\ sensor_list' = <<>> /\ actuator_list' = <<>>
          /\ mq'["DEVICE_MSG"] = <<>>
      BY <1>0, <2>1 DEF Main_Flush, PhaseInv, EmptyQueue
    <3>2. \A d \in Devices : pcDev'[d] \notin {"loop", "act", "answer", "stopped"}
      BY <2>1 DEF Main_Flush, PhaseInv
    <3>3. Listed' = {} /\ IsInjective(sensor_list') /\ IsInjective(actuator_list')
      BY <3>1 DEF Listed, Range, IsInjective
    <3>4. RequestsInv'
      BY <3>1 DEF RequestsInv
    <3> QED BY <3>1, <3>2, <3>3, <3>4 DEF RegisterInv
  <2>2. CASE C_Receive
    BY <2>2, RegisterByReceive
  <2>3. CASE C_Setup
    BY <2>3, RegisterBySetup
  <2>4. CASE C_TellParent
    <3>1. mq'["DEVICE_MSG"] = mq["DEVICE_MSG"]
      BY <1>0, <2>4, TellSends DEF Sent
    <3> QED BY <1>1, <2>4, <3>1, RegisterKept DEF C_TellParent, child, devVars
  <2>5. CASE C_SignalParent
    <3>1. /\ pcChild = "signal" /\ mq' = mq /\ data' = data /\ sensor_list' = sensor_list
          /\ actuator_list' = actuator_list /\ pcDev' = pcDev
          /\ pcChild' = IF SensorNum <= Len(actuator_list) THEN "instruct" ELSE "recv"
      BY <2>5 DEF C_SignalParent, child, devVars
    <3> HIDE DEF SensorNum
    <3> QED BY <1>1, <3>1, RegisterKept
  <2>6. CASE C_Instruct
    <3>1. mq'["DEVICE_MSG"] = mq["DEVICE_MSG"]
      <4>1. actuator_list[SensorNum] \in Devices
        BY <2>6, InstructedIs DEF C_Instruct, child, Devices
      <4> QED BY <1>0, <2>6, <4>1, InstructSends DEF Sent
    <3>2. SensorNum <= Len(actuator_list)
      BY <2>6 DEF RegisterInv, C_Instruct, child
    <3>3. /\ pcChild = "instruct" /\ data' = data /\ sensor_list' = sensor_list
          /\ actuator_list' = actuator_list /\ pcDev' = pcDev /\ pcChild' = "reply"
      BY <2>6 DEF C_Instruct, child, devVars
    <3> HIDE DEF SensorNum
    <3> QED BY <1>1, <3>1, <3>2, <3>3, RegisterKept
  <2>7. CASE C_Reply
    <3>1. mq'["DEVICE_MSG"] = mq["DEVICE_MSG"]
      BY <1>0, <2>7, Receives DEF Received
    <3>2. /\ pcChild = "reply" /\ sensor_list' = sensor_list
          /\ actuator_list' = actuator_list /\ pcDev' = pcDev /\ pcChild' = "recv"
      BY <2>7 DEF C_Reply, child, devVars
    <3>3. Listed' = Listed
      BY <3>2 DEF Listed
    <3>4. RequestsInv'
      BY <3>1, <3>2, <3>3 DEF RegisterInv, RequestsInv, Asking
    <3> QED BY <3>2, <3>3, <3>4 DEF RegisterInv
  <2>8. CASE C_SendStop
    <3>1. mq'["DEVICE_MSG"] = mq["DEVICE_MSG"]
      BY <1>0, <2>8, StopSends DEF Sent
    <3> QED BY <1>1, <2>8, <3>1, RegisterKept DEF C_SendStop, child, devVars
  <2>9. CASE C_RemoveQueue
    <3>1. /\ pcChild' = "done" /\ sensor_list' = sensor_list
          /\ actuator_list' = actuator_list /\ pcDev' = pcDev /\ mq'["DEVICE_MSG"] = <<>>
      BY <1>0, <2>9 DEF C_RemoveQueue, child, devVars, EmptyQueue
    <3>2. Listed' = Listed
      BY <3>1 DEF Listed
    <3>3. RequestsInv'
      BY <3>1 DEF RequestsInv
    <3> QED BY <3>1, <3>2, <3>3 DEF RegisterInv
  <2> QED BY <1>2, <2>1, <2>2, <2>3, <2>4, <2>5, <2>6, <2>7, <2>8, <2>9 DEF Child
<1>3. CASE CtrlC
  <2>1. \/ pcChild' = pcChild
        \/ pcChild # "main" /\ pcChild' \in {"stopping", "failed"}
    BY <1>3 DEF CtrlC, SignalChild, ChildWaits, ChildWaitsForRoom
  <2> QED BY <1>1, <1>3, <2>1, CtrlCFrame, RegisterKept DEF devVars
<1>4. ASSUME NEW d \in Devices, DeviceStep(d)
      PROVE  RegisterInv'
  BY <1>4, RegisterByDevice
<1>5. CASE Parent \/ CloudStep \/ UNCHANGED vars
  BY <1>0, <1>1, <1>5, OthersServe, RegisterKept DEF ServeKept
<1> QED BY <1>2, <1>3, <1>4, <1>5, NextIs

-----------------------------------------------------------------------------
(* Acknowledgements.                                                         *)

AckOf(d) ==
  /\ d \notin Listed => mq[d] = <<>>
  /\ \A i \in DOMAIN mq[d] : mq[d][i] = Ack => i = 1
  /\ pcDev[d] \in {"loop", "act", "answer", "stopped"} => \A i \in DOMAIN mq[d] : mq[d][i] # Ack
  /\ pcDev[d] = "waitAck" /\ d \in Listed /\ ~removed => mq[d] # <<>> /\ mq[d][1] = Ack

(* A step that leaves a device, its listing and its messages alone keeps     *)
(* what is known of its acknowledgement.                                     *)
LEMMA AckKept ==
  ASSUME AckInv, NEW d \in Devices, mq'[d] = mq[d], Listed' = Listed, removed' = removed,
         pcDev'[d] \in {"loop", "act", "answer", "stopped"} =>
           pcDev[d] \in {"loop", "act", "answer", "stopped"},
         pcDev'[d] = "waitAck" => pcDev[d] = "waitAck" \/ d \notin Listed
  PROVE  AckOf(d)'
BY DEF AckInv, AckOf

(* An instruction is no acknowledgement. *)
LEMMA ActivateIsNoAck ==
  \A n : Activate(n) # Ack
BY DEF Activate, Ack

(* What the child sends to a device: an acknowledgement or an instruction.   *)
LEMMA AckByChild ==
  ASSUME TypeOK, PhaseInv, RegisterInv, AckInv, SizeInv, Child, NEW d \in Devices
  PROVE  AckOf(d)'
<1>0. d \in MsgTypes /\ d \notin {"DEVICE_MSG", "ACTUATOR_REPLY", "CHILD_TO_PARENT", "REQUEST_STOP"}
  BY PidIsNoType
<1>1. CASE Main_Flush \/ C_RemoveQueue
  <2>1. mq'[d] = <<>>
    BY <1>0, <1>1 DEF Main_Flush, C_RemoveQueue, EmptyQueue
  <2>2. pcDev'[d] = "waitAck" /\ d \in Listed' => removed'
    BY <1>1 DEF Main_Flush, C_RemoveQueue, PhaseInv, Listed, Range
  <2> QED BY <2>1, <2>2 DEF AckOf
<1>2. CASE C_Setup
  <2>1. /\ Listed' = Listed \union {data.from} /\ data.from \in Devices \ Listed
        /\ pcDev' = pcDev /\ removed' = removed
    BY <1>2, SetupLists DEF C_Setup, devVars
  <2>2. Sent(data.from, Ack)
    BY <1>2, SetupSends
  <2>3. CASE d # data.from
    <3>1. mq'[d] = mq[d]
      BY <1>0, <2>2, <2>3 DEF Sent
    <3>2. d \in Listed' <=> d \in Listed
      BY <2>1, <2>3
    <3> QED BY <2>1, <3>1, <3>2 DEF AckInv, AckOf
  <2>4. CASE d = data.from
    <3>1. mq[d] = <<>> /\ d \in Listed'
      BY <2>1, <2>4 DEF AckInv
    <3>2. DOMAIN mq'[d] = 1 .. 1 /\ mq'[d][1] = Ack
      <4>1. Len(mq[d]) = 0
        BY <3>1
      <4> QED BY <2>2, <2>4, <4>1 DEF Sent
    <3>3. pcDev'[d] \notin {"loop", "act", "answer", "stopped"}
      BY <1>2, <2>1, <2>4 DEF RegisterInv, Asking, C_Setup, child
    <3> QED BY <3>1, <3>2, <3>3 DEF AckOf
  <2> QED BY <2>3, <2>4
<1>3. CASE C_Instruct
  <2>1. /\ Listed' = Listed /\ pcDev' = pcDev /\ removed' = removed
    BY <1>3 DEF C_Instruct, devVars, Listed
  <2> DEFINE a == actuator_list[SensorNum]
  <2>2. Sent(a, Activate(sequence_number)) /\ a \in Listed
    BY <1>3, InstructSends, InstructedIs DEF C_Instruct, child, Listed
  <2> HIDE DEF a
  <2>3. CASE d # a
    <3>1. mq'[d] = mq[d]
      BY <1>0, <2>2, <2>3 DEF Sent
    <3> QED BY <2>1, <3>1, AckKept
  <2>4. CASE d = a
    <3> DEFINE n == Len(mq[d])
    <3>1. /\ n \in Nat /\ DOMAIN mq[d] = 1 .. n /\ DOMAIN mq'[d] = 1 .. n + 1
          /\ \A i \in 1 .. n : mq'[d][i] = mq[d][i]
          /\ mq'[d][n + 1] = Activate(sequence_number)
      BY <2>2, <2>4 DEF Sent
    <3>2. /\ \A i \in 1 .. n : mq[d][i] = Ack => i = 1
          /\ pcDev[d] \in {"loop", "act", "answer", "stopped"} => \A i \in 1 .. n : mq[d][i] # Ack
          /\ pcDev[d] = "waitAck" /\ ~removed => n # 0 /\ mq[d][1] = Ack
      BY <2>2, <2>4, <3>1 DEF AckInv
    <3> HIDE DEF n
    <3>3. \A i \in 1 .. n + 1 : i \in 1 .. n \/ i = n + 1
      BY <3>1
    <3>4. mq'[d] # <<>>
      BY <3>1
    <3>5. d \in Listed'
      BY <2>1, <2>2, <2>4
    <3>6. \A i \in 1 .. n + 1 : mq'[d][i] = Ack => i \in 1 .. n /\ mq[d][i] = Ack
      BY <3>1, <3>3, ActivateIsNoAck
    <3> QED BY <2>1, <3>1, <3>2, <3>4, <3>5, <3>6 DEF AckOf
  <2> QED BY <2>3, <2>4
<1>4. CASE C_Receive \/ C_TellParent \/ C_SignalParent \/ C_Reply \/ C_SendStop
  <2>1. mq'[d] = mq[d]
    <3>1. CASE C_Receive \/ C_Reply
      BY <1>0, <3>1, Receives DEF Received
    <3>2. CASE C_TellParent
      BY <1>0, <3>2, TellSends DEF Sent
    <3>3. CASE C_SignalParent
      BY <3>3 DEF C_SignalParent
    <3>4. CASE C_SendStop
      BY <1>0, <3>4, StopSends DEF Sent
    <3> QED BY <1>4, <3>1, <3>2, <3>3, <3>4
  <2>2. pcDev' = pcDev /\ removed' = removed /\ Listed' = Listed
    BY <1>4 DEF C_Receive, C_TellParent, C_SignalParent, C_Reply, C_SendStop, devVars, Listed
  <2> QED BY <2>1, <2>2, AckKept
<1> QED BY <1>1, <1>2, <1>3, <1>4 DEF Child

(* What a device takes from its own queue, and what it leaves there. *)
LEMMA PidQueue ==
  ASSUME TypeOK, PhaseInv, SizeInv, NEW d \in Devices, DeviceStep(d)
  PROVE  /\ \A e \in Devices \ {d} : mq'[e] = mq[e]
         /\ \/ mq'[d] = mq[d] /\ ~D_Acknowledged(d)
              /\ ~(d \in Actuators /\ A_TakeInstruction(d))
            \/ Received(d) /\ (D_Acknowledged(d) \/ (d \in Actuators /\ A_TakeInstruction(d)))
<1>1. /\ \A e \in Devices : e \in MsgTypes
      /\ \A e \in Devices : e \notin {"DEVICE_MSG", "ACTUATOR_REPLY", "CHILD_TO_PARENT",
                                      "REQUEST_STOP"}
  BY PidIsNoType
<1>2. CASE D_Acknowledged(d) \/ (d \in Actuators /\ A_TakeInstruction(d))
  BY <1>1, <1>2, Receives DEF Received
<1>3. CASE ~(D_Acknowledged(d) \/ (d \in Actuators /\ A_TakeInstruction(d)))
  <2>1. CASE D_Register(d)
    <3>1. Sent("DEVICE_MSG", [from |-> d, first_setup |-> TRUE, over |-> FALSE])
      BY <2>1, DeviceSends DEF D_Register
    <3> QED BY <1>1, <1>3, <3>1 DEF Sent
  <2>2. CASE d \in Sensors /\ S_SendReading(d)
    <3>1. PICK over \in BOOLEAN :
            msgsnd("DEVICE_MSG", [from |-> d, first_setup |-> FALSE, over |-> over])
      BY <2>2 DEF S_SendReading
    <3>2. Sent("DEVICE_MSG", [from |-> d, first_setup |-> FALSE, over |-> over])
      BY <3>1, DeviceSends
    <3> QED BY <1>1, <1>3, <3>2 DEF Sent
  <2>3. CASE D_Stop(d)
    BY <1>1, <1>3, <2>3, Receives DEF Received
  <2>4. CASE d \in Actuators /\ A_Answer(d)
    BY <1>1, <1>3, <2>4, AnswerSends DEF Sent
  <2>5. CASE D_RegisterLate(d) \/ D_Kill(d) \/ D_NoStop(d) \/ D_Idle(d) \/ D_QueueGone(d)
    BY <1>3, <2>5 DEF D_RegisterLate, D_Kill, D_NoStop, D_Idle, D_QueueGone
  <2> QED BY <1>3, <2>1, <2>2, <2>3, <2>4, <2>5 DEF DeviceStep, Device
<1> QED BY <1>2, <1>3

(* A step of one device keeps the acknowledgements of all.                   *)
LEMMA AckByDevice ==
  ASSUME TypeOK, PhaseInv, RegisterInv, AckInv, SizeInv, NEW d \in Devices, DeviceStep(d),
         NEW e \in Devices
  PROVE  AckOf(e)'
<1>1. Listed' = Listed /\ removed' = removed
  BY DeviceFrame DEF childVars, Listed
<1>2. CASE e # d
  BY <1>1, <1>2, PidQueue, DeviceDevKept, AckKept
<1>3. CASE e = d /\ D_Acknowledged(d)
  <2>1. Received(d) /\ pcDev[d] = "waitAck" /\ pcDev'[d] = "loop" /\ mq[d] # <<>>
    BY <1>3, Receives DEF D_Acknowledged, dev, TypeOK, msgrcv, Waiting
  <2> DEFINE n == Len(mq[d])
  <2>2. /\ n \in Nat \ {0} /\ DOMAIN mq[d] = 1 .. n /\ DOMAIN mq'[d] = 1 .. n - 1
        /\ \A i \in 1 .. n - 1 : mq'[d][i] = mq[d][i + 1]
    BY <2>1 DEF Received
  <2>3. d \in Listed /\ \A i \in 1 .. n : mq[d][i] = Ack => i = 1
    BY <2>1, <2>2 DEF AckInv
  <2> HIDE DEF n
  <2>4. \A i \in 1 .. n - 1 : i + 1 \in 1 .. n /\ i + 1 # 1
    BY <2>2
  <2>5. \A i \in 1 .. n - 1 : mq'[d][i] # Ack
    BY <2>2, <2>3, <2>4
  <2> QED BY <1>1, <1>3, <2>1, <2>2, <2>3, <2>5 DEF AckOf
<1>4. CASE e = d /\ d \in Actuators /\ A_TakeInstruction(d)
  <2>1. Received(d) /\ pcDev[d] = "act" /\ pcDev'[d] = "answer"
    BY <1>4, Receives DEF A_TakeInstruction, dev, TypeOK
  <2> DEFINE n == Len(mq[d])
  <2>2. /\ n \in Nat \ {0} /\ DOMAIN mq[d] = 1 .. n /\ DOMAIN mq'[d] = 1 .. n - 1
        /\ \A i \in 1 .. n - 1 : mq'[d][i] = mq[d][i + 1]
    BY <2>1 DEF Received
  <2>3. d \in Listed /\ \A i \in 1 .. n : mq[d][i] # Ack
    BY <2>1, <2>2 DEF AckInv, RegisterInv
  <2> HIDE DEF n
  <2>4. \A i \in 1 .. n - 1 : i + 1 \in 1 .. n
    BY <2>2
  <2>5. \A i \in 1 .. n - 1 : mq'[d][i] # Ack
    BY <2>2, <2>3, <2>4
  <2> QED BY <1>1, <1>4, <2>1, <2>2, <2>3, <2>5 DEF AckOf
<1>5. CASE e = d /\ ~D_Acknowledged(d) /\ ~(d \in Actuators /\ A_TakeInstruction(d))
  <2>1. mq'[d] = mq[d]
    BY <1>5, PidQueue
  <2>2. /\ pcDev'[d] \in {"loop", "act", "answer", "stopped"} =>
             pcDev[d] \in {"loop", "act", "answer", "stopped"}
        /\ pcDev'[d] = "waitAck" => pcDev[d] = "waitAck" \/ d \notin Listed
    BY <1>5 DEF DeviceStep, Device, D_Register, D_RegisterLate, D_Kill, D_Stop, D_NoStop, D_Idle,
       D_QueueGone, S_SendReading, A_Answer, dev, TypeOK, RegisterInv
  <2> QED BY <1>1, <1>5, <2>1, <2>2, AckKept
<1> QED BY <1>2, <1>3, <1>4, <1>5

(* Every step keeps the acknowledgements: exactly the listed device that     *)
(* still waits has one under way.                                            *)
LEMMA AckStep ==
  ASSUME TypeOK, PhaseInv, RegisterInv, AckInv, SizeInv, [Next]_vars
  PROVE  AckInv'
<1> SUFFICES ASSUME NEW e \in Devices
             PROVE  AckOf(e)'
  BY DEF AckInv, AckOf
<1>1. CASE Child
  BY <1>1, AckByChild
<1>2. CASE CtrlC
  BY <1>2, CtrlCFrame, AckKept DEF devVars, Listed
<1>3. ASSUME NEW d \in Devices, DeviceStep(d)
      PROVE  AckOf(e)'
  BY <1>3, AckByDevice
<1>4. CASE Parent \/ CloudStep \/ UNCHANGED vars
  <2>1. e \in MsgTypes \ {"CHILD_TO_PARENT"}
    BY PidIsNoType
  <2>2. ServeKept
    BY <1>4, OthersServe
  <2> QED BY <2>1, <2>2, AckKept DEF ServeKept, Listed
<1> QED BY <1>1, <1>2, <1>3, <1>4, NextIs

-----------------------------------------------------------------------------
(* Instructions and replies.                                                 *)

(* No instruction and no reply is under way. *)
Quiet ==
  /\ mq["ACTUATOR_REPLY"] = <<>>
  /\ \A a \in Actuators : Activations(a) = {} /\ pcDev[a] # "answer"

InstructionOf(a) ==
  Activations(a) # {} \/ pcDev[a] = "answer" =>
    /\ pcChild = "reply" /\ a = actuator_list[SensorNum]
    /\ mq["ACTUATOR_REPLY"] = <<>>
    /\ IF pcDev[a] = "answer"
       THEN Activations(a) = {} /\ order[a] = sequence_number
       ELSE \E i \in DOMAIN mq[a] : Activations(a) = {i} /\ mq[a][i] = Activate(sequence_number)

(* ReplyMatches in the form the proofs of its steps use.                     *)
LEMMA ReplyIs ==
  ReplyMatches <=>
    (Serving =>
       /\ mq["ACTUATOR_REPLY"] # <<>> =>
            pcChild = "reply" /\ mq["ACTUATOR_REPLY"] = <<sequence_number>>
       /\ \A a \in Actuators : InstructionOf(a))
BY DEF ReplyMatches, InstructionOf

(* The same of the next state.                                               *)
LEMMA ReplyIsNext ==
  ReplyMatches' <=>
    (Serving' =>
       /\ mq'["ACTUATOR_REPLY"] # <<>> =>
            pcChild' = "reply" /\ mq'["ACTUATOR_REPLY"] = <<sequence_number'>>
       /\ \A a \in Actuators : InstructionOf(a)')
BY DEF ReplyMatches, InstructionOf

(* While the child waits for no reply there is no instruction or reply       *)
(* under way.                                                                *)
LEMMA QuietBefore ==
  ASSUME ReplyMatches, Serving, pcChild # "reply"
  PROVE  Quiet
BY ReplyIs DEF Quiet, InstructionOf

(* With nothing under way the replies match.                                 *)
LEMMA QuietAfter ==
  ASSUME Quiet'
  PROVE  ReplyMatches'
BY ReplyIsNext DEF Quiet, InstructionOf

(* A step that sends no instruction and no reply keeps it so.                *)
LEMMA QuietKept ==
  ASSUME Quiet, mq'["ACTUATOR_REPLY"] = mq["ACTUATOR_REPLY"],
         \A a \in Actuators : mq'[a] = mq[a],
         \A a \in Actuators : pcDev'[a] = "answer" => pcDev[a] = "answer"
  PROVE  Quiet'
BY DEF Quiet, Activations

(* An actuator that is killed leaves nothing behind. *)
LEMMA ReplyKept ==
  ASSUME ReplyMatches, Serving' => Serving /\ pcChild' = pcChild,
         mq'["ACTUATOR_REPLY"] = mq["ACTUATOR_REPLY"], \A a \in Actuators : mq'[a] = mq[a],
         \A a \in Actuators : pcDev'[a] = "answer" => pcDev[a] = "answer",
         order' = order, sequence_number' = sequence_number,
         data' = data, sensor_list' = sensor_list, actuator_list' = actuator_list
  PROVE  ReplyMatches'
<1>1. SensorNum' = SensorNum
  BY SensorNumStays
<1> HIDE DEF SensorNum
<1>2. SUFFICES ASSUME Serving'
               PROVE  /\ mq'["ACTUATOR_REPLY"] # <<>> =>
                           pcChild' = "reply" /\ mq'["ACTUATOR_REPLY"] = <<sequence_number'>>
                      /\ \A a \in Actuators : InstructionOf(a)'
  BY ReplyIsNext
<1>3. /\ Serving /\ pcChild' = pcChild
      /\ mq["ACTUATOR_REPLY"] # <<>> =>
           pcChild = "reply" /\ mq["ACTUATOR_REPLY"] = <<sequence_number>>
      /\ \A a \in Actuators : InstructionOf(a)
  BY <1>2, ReplyIs
<1>4. ASSUME NEW a \in Actuators
      PROVE  InstructionOf(a)'
  <2>1. Activations(a)' = Activations(a)
    BY DEF Activations
  <2> HIDE DEF Activations
  <2> QED BY <1>1, <1>3, <2>1 DEF InstructionOf
<1> QED BY <1>3, <1>4

(* The child sends an instruction only when none is under way. *)
LEMMA ReplyByInstruct ==
  ASSUME TypeOK, PhaseInv, RegisterInv, SizeInv, ReplyMatches, C_Instruct
  PROVE  ReplyMatches'
<1> DEFINE a0 == actuator_list[SensorNum]
           n == Len(mq[a0])
<1>0. /\ pcChild = "instruct" /\ pcChild' = "reply" /\ data' = data /\ sensor_list' = sensor_list
      /\ actuator_list' = actuator_list /\ sequence_number' = sequence_number /\ pcDev' = pcDev
  BY DEF C_Instruct, child, devVars
<1>1. Quiet
  BY <1>0, QuietBefore DEF Serving
<1>2. a0 \in Actuators /\ Sent(a0, Activate(sequence_number))
  BY <1>0, InstructedIs, InstructSends
<1>3. actuator_list'[SensorNum'] = a0
  <2>1. SensorNum' = SensorNum
    BY <1>0, SensorNumStays
  <2> HIDE DEF SensorNum
  <2> QED BY <1>0, <2>1
<1> HIDE DEF a0, SensorNum
<1>4. /\ mq'["ACTUATOR_REPLY"] = <<>>
      /\ \A a \in Actuators \ {a0} : mq'[a] = mq[a]
      /\ n \in Nat /\ DOMAIN mq[a0] = 1 .. n /\ DOMAIN mq'[a0] = 1 .. n + 1
      /\ \A i \in 1 .. n : mq'[a0][i] = mq[a0][i]
      /\ mq'[a0][n + 1] = Activate(sequence_number)
  BY <1>1, <1>2, PidIsNoType DEF Sent, Quiet, Devices, MsgTypes, ServerTypes
<1>5. ASSUME NEW a \in Actuators, a # a0
      PROVE  InstructionOf(a)'
  BY <1>0, <1>1, <1>4, <1>5 DEF Quiet, Activations, InstructionOf
<1>6. ASSUME NEW a \in Actuators, a = a0
      PROVE  InstructionOf(a)'
  <2>1. \A i \in 1 .. n : mq[a][i] = Ack
    BY <1>1, <1>4, <1>6 DEF Quiet, Activations
  <2>0. /\ n \in Nat /\ DOMAIN mq'[a] = 1 .. n + 1
        /\ \A i \in 1 .. n : mq'[a][i] = mq[a][i]
        /\ mq'[a][n + 1] = Activate(sequence_number)
    BY <1>4, <1>6
  <2> HIDE DEF n
  <2>2. \A i \in 1 .. n + 1 : i \in 1 .. n \/ i = n + 1
    BY <2>0
  <2>3. n + 1 \in 1 .. n + 1 /\ \A i \in 1 .. n : i \in 1 .. n + 1
    BY <2>0
  <2>4. \A i \in 1 .. n + 1 : mq'[a][i] # Ack <=> i = n + 1
    <3>1. n + 1 \notin 1 .. n
      BY <2>0
    <3> QED BY <2>0, <2>1, <2>2, <3>1, ActivateIsNoAck
  <2>5. {i \in DOMAIN mq'[a] : mq'[a][i] # Ack} = {n + 1}
    BY <2>0, <2>3, <2>4
  <2>6. pcDev'[a] # "answer"
    BY <1>0, <1>1 DEF Quiet
  <2> QED BY <1>0, <1>3, <1>4, <1>6, <2>0, <2>3, <2>5, <2>6 DEF InstructionOf, Activations
<1>7. \A a \in Actuators : InstructionOf(a)'
  BY <1>5, <1>6
<1> QED BY <1>4, <1>7, ReplyIsNext

(* Each step of the child keeps the replies matched: it sends an             *)
(* instruction only when the last was answered.                              *)
LEMMA ReplyByChild ==
  ASSUME TypeOK, PhaseInv, RegisterInv, SizeInv, ReplyMatches, Child
  PROVE  ReplyMatches'
<1>0. /\ "ACTUATOR_REPLY" \in MsgTypes
      /\ \A a \in Actuators : a \in MsgTypes /\ a \in Devices
      /\ \A d \in Devices : d \notin {"DEVICE_MSG", "ACTUATOR_REPLY", "CHILD_TO_PARENT",
                                      "REQUEST_STOP"}
  BY PidIsNoType DEF MsgTypes, ServerTypes, Devices
<1>1. CASE Main_Flush
  <2>1. mq'["ACTUATOR_REPLY"] = <<>> /\ \A a \in Actuators : mq'[a] = <<>>
    BY <1>0, <1>1 DEF Main_Flush, EmptyQueue
  <2>2. \A a \in Actuators : pcDev'[a] # "answer"
    BY <1>0, <1>1 DEF Main_Flush, PhaseInv
  <2>3. Quiet'
    BY <2>1, <2>2 DEF Quiet, Activations
  <2> QED BY <2>3, QuietAfter
<1>2. CASE C_Receive \/ C_TellParent \/ C_SignalParent
  <2>1. pcDev' = pcDev /\ Serving /\ pcChild # "reply"
    BY <1>2 DEF C_Receive, C_TellParent, C_SignalParent, child, devVars, Serving
  <2>2. mq'["ACTUATOR_REPLY"] = mq["ACTUATOR_REPLY"] /\ \A a \in Actuators : mq'[a] = mq[a]
    <3>1. CASE C_Receive
      BY <1>0, <3>1, Receives DEF Received
    <3>2. CASE C_TellParent
      BY <1>0, <3>2, TellSends DEF Sent
    <3>3. CASE C_SignalParent
      BY <3>3 DEF C_SignalParent
    <3> QED BY <1>2, <3>1, <3>2, <3>3
  <2> QED BY <2>1, <2>2, QuietBefore, QuietKept, QuietAfter
<1>3. CASE C_Setup
  <2>1. pcDev' = pcDev /\ Serving /\ pcChild # "reply"
    BY <1>3 DEF C_Setup, child, devVars, Serving
  <2>2. Sent(data.from, Ack) /\ data.from \in Devices
    BY <1>3, SetupSends
  <2>3. Quiet
    BY <2>1, QuietBefore
  <2>4. mq'["ACTUATOR_REPLY"] = <<>>
    BY <1>0, <2>2, <2>3 DEF Sent, Quiet
  <2>5. ASSUME NEW a \in Actuators
        PROVE  Activations(a)' = {}
    <3>1. CASE a # data.from
      BY <1>0, <2>2, <2>3, <3>1 DEF Sent, Quiet, Activations
    <3>2. CASE a = data.from
      <4>1. \A i \in DOMAIN mq[a] : mq[a][i] = Ack
        BY <2>3 DEF Quiet, Activations
      <4>2. \A i \in DOMAIN mq'[a] : mq'[a][i] = Ack
        <5> DEFINE n == Len(mq[a])
        <5>1. /\ n \in Nat /\ DOMAIN mq[a] = 1 .. n /\ DOMAIN mq'[a] = 1 .. n + 1
              /\ \A i \in 1 .. n : mq'[a][i] = mq[a][i]
              /\ mq'[a][n + 1] = Ack
          BY <2>2, <3>2 DEF Sent
        <5> HIDE DEF n
        <5>2. \A i \in 1 .. n + 1 : i \in 1 .. n \/ i = n + 1
          BY <5>1
        <5> QED BY <4>1, <5>1, <5>2
      <4> QED BY <4>2 DEF Activations
    <3> QED BY <3>1, <3>2
  <2>6. Quiet'
    BY <2>1, <2>3, <2>4, <2>5 DEF Quiet
  <2> QED BY <2>6, QuietAfter
<1>4. CASE C_Instruct
  BY <1>4, ReplyByInstruct
<1>5. CASE C_Reply
  <2>1. /\ Received("ACTUATOR_REPLY") /\ pcDev' = pcDev /\ mq["ACTUATOR_REPLY"] # <<>>
        /\ pcChild = "reply"
    BY <1>5, Receives DEF C_Reply, devVars, msgrcv, Waiting, child
  <2>2. /\ mq["ACTUATOR_REPLY"] = <<sequence_number>>
        /\ \A a \in Actuators : Activations(a) = {} /\ pcDev[a] # "answer"
    BY <2>1, ReplyIs DEF Serving, InstructionOf
  <2>3. mq'["ACTUATOR_REPLY"] = <<>>
    <3>1. mq' = [mq EXCEPT !["ACTUATOR_REPLY"] = Tail(mq["ACTUATOR_REPLY"])]
      BY <1>5 DEF C_Reply, msgrcv
    <3>2. mq'["ACTUATOR_REPLY"] = Tail(<<sequence_number>>)
      BY <1>0, <2>2, <3>1 DEF PhaseInv
    <3> QED BY <3>2
  <2>4. \A a \in Actuators : mq'[a] = mq[a]
    BY <1>0, <2>1 DEF Received
  <2>5. Quiet'
    BY <2>1, <2>2, <2>3, <2>4 DEF Quiet, Activations
  <2> QED BY <2>5, QuietAfter
<1>6. CASE C_SendStop \/ C_RemoveQueue
  <2>1. ~Serving'
    BY <1>6 DEF C_SendStop, C_RemoveQueue, child, Serving
  <2> QED BY <2>1, ReplyIsNext
<1> QED BY <1>1, <1>2, <1>3, <1>4, <1>5, <1>6 DEF Child

(* What a device step leaves to the others. *)
LEMMA ReplyQueue ==
  ASSUME TypeOK, PhaseInv, SizeInv, NEW d \in Devices, DeviceStep(d)
  PROVE  \/ mq'["ACTUATOR_REPLY"] = mq["ACTUATOR_REPLY"]
              /\ ~(d \in Actuators /\ A_Answer(d))
         \/ d \in Actuators /\ A_Answer(d) /\ Sent("ACTUATOR_REPLY", order[d])
<1>1. "ACTUATOR_REPLY" \in MsgTypes /\ "ACTUATOR_REPLY" # d
  BY PidIsNoType DEF MsgTypes, ServerTypes
<1>2. CASE d \in Actuators /\ A_Answer(d)
  BY <1>2, AnswerSends
<1>3. CASE ~(d \in Actuators /\ A_Answer(d))
  <2>1. CASE D_Register(d)
    <3>1. Sent("DEVICE_MSG", [from |-> d, first_setup |-> TRUE, over |-> FALSE])
      BY <2>1, DeviceSends DEF D_Register
    <3> QED BY <1>1, <1>3, <3>1 DEF Sent
  <2>2. CASE d \in Sensors /\ S_SendReading(d)
    <3>1. PICK over \in BOOLEAN :
            msgsnd("DEVICE_MSG", [from |-> d, first_setup |-> FALSE, over |-> over])
      BY <2>2 DEF S_SendReading
    <3>2. Sent("DEVICE_MSG", [from |-> d, first_setup |-> FALSE, over |-> over])
      BY <3>1, DeviceSends
    <3> QED BY <1>1, <1>3, <3>2 DEF Sent
  <2>3. CASE D_Acknowledged(d) \/ D_Stop(d) \/ (d \in Actuators /\ A_TakeInstruction(d))
    BY <1>1, <1>3, <2>3, Receives DEF Received
  <2>4. CASE D_RegisterLate(d) \/ D_Kill(d) \/ D_NoStop(d) \/ D_Idle(d) \/ D_QueueGone(d)
    BY <1>3, <2>4 DEF D_RegisterLate, D_Kill, D_NoStop, D_Idle, D_QueueGone
  <2> QED BY <1>3, <2>1, <2>2, <2>3, <2>4 DEF DeviceStep, Device
<1> QED BY <1>2, <1>3

(* An actuator takes its acknowledgement: an instruction behind it stays.    *)
LEMMA ReplyByAcknowledged ==
  ASSUME TypeOK, PhaseInv, RegisterInv, AckInv, SizeInv, ReplyMatches,
         NEW d \in Devices, D_Acknowledged(d)
  PROVE  ReplyMatches'
<1>0. /\ pcChild' = pcChild /\ data' = data /\ sensor_list' = sensor_list
      /\ actuator_list' = actuator_list /\ sequence_number' = sequence_number /\ order' = order
  BY DEF D_Acknowledged, childVars
<1>1. /\ Received(d) /\ pcDev[d] = "waitAck" /\ pcDev'[d] = "loop"
      /\ \A e \in Devices \ {d} : pcDev'[e] = pcDev[e] /\ mq'[e] = mq[e]
      /\ mq'["ACTUATOR_REPLY"] = mq["ACTUATOR_REPLY"]
  <2>1. Received(d) /\ pcDev[d] = "waitAck" /\ pcDev' = [pcDev EXCEPT ![d] = "loop"]
    BY Receives DEF D_Acknowledged, dev
  <2>2. \A e \in Devices \ {d} : mq'[e] = mq[e]
    BY <2>1, PidIsNoType DEF Received
  <2>3. mq'["ACTUATOR_REPLY"] = mq["ACTUATOR_REPLY"]
    BY <2>1, PidIsNoType DEF Received, MsgTypes, ServerTypes
  <2> QED BY <2>1, <2>2, <2>3 DEF TypeOK
<1>2. actuator_list'[SensorNum'] = actuator_list[SensorNum]
  <2>1. SensorNum' = SensorNum
    BY <1>0, SensorNumStays
  <2> HIDE DEF SensorNum
  <2> QED BY <1>0, <2>1
<1> HIDE DEF SensorNum
<1>3. SUFFICES ASSUME Serving'
               PROVE  /\ mq'["ACTUATOR_REPLY"] # <<>> =>
                           pcChild' = "reply" /\ mq'["ACTUATOR_REPLY"] = <<sequence_number'>>
                      /\ \A a \in Actuators : InstructionOf(a)'
  BY ReplyIsNext
<1>4. /\ mq["ACTUATOR_REPLY"] # <<>> =>
           pcChild = "reply" /\ mq["ACTUATOR_REPLY"] = <<sequence_number>>
      /\ \A a \in Actuators : InstructionOf(a)
  <2>1. Serving
    BY <1>0, <1>3 DEF Serving
  <2> QED BY <2>1, ReplyIs
<1>5. ASSUME NEW a \in Actuators, a # d
      PROVE  InstructionOf(a)'
  <2>1. a \in Devices /\ mq'[a] = mq[a] /\ pcDev'[a] = pcDev[a]
    BY <1>1, <1>5 DEF Devices
  <2>2. Activations(a)' = Activations(a)
    BY <2>1 DEF Activations
  <2>3. InstructionOf(a)
    BY <1>4
  <2> HIDE DEF Activations
  <2> QED BY <1>0, <1>1, <1>2, <2>1, <2>2, <2>3 DEF InstructionOf
<1>6. ASSUME NEW a \in Actuators, a = d
      PROVE  InstructionOf(a)'
  <2> DEFINE n == Len(mq[a])
  <2>1. /\ n \in Nat \ {0} /\ DOMAIN mq[a] = 1 .. n /\ DOMAIN mq'[a] = 1 .. n - 1
        /\ \A i \in 1 .. n - 1 : mq'[a][i] = mq[a][i + 1]
    BY <1>1, <1>6 DEF Received
  <2>2. d \in Listed /\ ~removed
    <3>1. mq[d] # <<>> /\ ~removed
      BY DEF D_Acknowledged, msgrcv, Waiting
    <3> QED BY <3>1 DEF AckInv
  <2>3. mq[a][1] = Ack
    BY <1>1, <1>6, <2>2 DEF AckInv
  <2> HIDE DEF n
  <2>4. \A i \in 1 .. n - 1 : i + 1 \in 1 .. n
    BY <2>1
  <2>5. \A i \in 1 .. n : i # 1 => i - 1 \in 1 .. n - 1 /\ (i - 1) + 1 = i
    BY <2>1
  <2>6. ASSUME Activations(a) = {}
        PROVE  Activations(a)' = {}
    <3>1. \A i \in 1 .. n : mq[a][i] = Ack
      BY <2>1, <2>6 DEF Activations
    <3>2. \A i \in 1 .. n - 1 : mq'[a][i] = Ack
      BY <2>1, <2>4, <3>1
    <3> QED BY <2>1, <3>2 DEF Activations
  <2>7. ASSUME NEW i \in 1 .. n, Activations(a) = {i}, mq[a][i] = Activate(sequence_number)
        PROVE  /\ i - 1 \in DOMAIN mq'[a] /\ Activations(a)' = {i - 1}
               /\ mq'[a][i - 1] = Activate(sequence_number)
    <3>1. i # 1
      BY <2>3, <2>7, ActivateIsNoAck
    <3>2. i - 1 \in 1 .. n - 1 /\ mq'[a][i - 1] = mq[a][i]
      BY <2>1, <2>5, <3>1
    <3>3. \A j \in 1 .. n : mq[a][j] # Ack <=> j = i
      BY <2>1, <2>7 DEF Activations
    <3>4. \A j \in 1 .. n - 1 : mq'[a][j] # Ack <=> j + 1 = i
      BY <2>1, <2>4, <3>3
    <3>5. \A j \in 1 .. n - 1 : j + 1 = i <=> j = i - 1
      BY <2>1
    <3>6. \A j \in 1 .. n - 1 : mq'[a][j] # Ack <=> j = i - 1
      BY <3>4, <3>5
    <3>7. Activations(a)' = {i - 1}
      BY <2>1, <3>2, <3>6 DEF Activations
    <3> QED BY <2>1, <2>7, <3>2, <3>7
  <2>8. InstructionOf(a)
    BY <1>4
  <2>9. CASE Activations(a) = {}
    BY <1>1, <1>6, <2>6, <2>9 DEF InstructionOf
  <2>10. CASE Activations(a) # {}
    <3>1. /\ pcChild = "reply" /\ a = actuator_list[SensorNum] /\ mq["ACTUATOR_REPLY"] = <<>>
          /\ \E i \in DOMAIN mq[a] :
               Activations(a) = {i} /\ mq[a][i] = Activate(sequence_number)
      BY <1>1, <1>6, <2>8, <2>10 DEF InstructionOf
    <3>2. PICK i \in 1 .. n : Activations(a) = {i} /\ mq[a][i] = Activate(sequence_number)
      BY <2>1, <3>1
    <3>3. /\ i - 1 \in DOMAIN mq'[a] /\ Activations(a)' = {i - 1}
          /\ mq'[a][i - 1] = Activate(sequence_number)
      BY <2>7, <3>2
    <3> HIDE DEF Activations
    <3> QED BY <1>0, <1>1, <1>2, <1>6, <3>1, <3>3 DEF InstructionOf
  <2> QED BY <2>9, <2>10
<1> QED BY <1>0, <1>1, <1>4, <1>5, <1>6

(* An actuator takes the one instruction under way. *)
LEMMA ReplyByTake ==
  ASSUME TypeOK, PhaseInv, RegisterInv, AckInv, SizeInv, ReplyMatches,
         NEW d \in Actuators, A_TakeInstruction(d)
  PROVE  ReplyMatches'
<1>d. d \in Devices
  BY DEF Devices
<1>0. /\ pcChild' = pcChild /\ data' = data /\ sensor_list' = sensor_list
      /\ actuator_list' = actuator_list /\ sequence_number' = sequence_number
  BY DEF A_TakeInstruction, childVars
<1>1. /\ Received(d) /\ pcDev[d] = "act" /\ pcDev'[d] = "answer"
      /\ order'[d] = mq[d][1].sequence_num
      /\ \A e \in Actuators \ {d} : pcDev'[e] = pcDev[e] /\ mq'[e] = mq[e] /\ order'[e] = order[e]
      /\ mq'["ACTUATOR_REPLY"] = mq["ACTUATOR_REPLY"]
  <2>1. /\ Received(d) /\ pcDev[d] = "act" /\ pcDev' = [pcDev EXCEPT ![d] = "answer"]
        /\ order' = [order EXCEPT ![d] = Head(mq[d]).sequence_num]
    BY Receives DEF A_TakeInstruction, dev
  <2>2. \A e \in Devices \ {d} : mq'[e] = mq[e]
    BY <1>d, <2>1, PidIsNoType DEF Received
  <2>3. mq'["ACTUATOR_REPLY"] = mq["ACTUATOR_REPLY"]
    BY <1>d, <2>1, PidIsNoType DEF Received, MsgTypes, ServerTypes
  <2>4. Head(mq[d]) = mq[d][1]
    BY <2>1 DEF Received
  <2> QED BY <1>d, <2>1, <2>2, <2>3, <2>4 DEF TypeOK, Devices
<1>2. actuator_list'[SensorNum'] = actuator_list[SensorNum]
  <2>1. SensorNum' = SensorNum
    BY <1>0, SensorNumStays
  <2> HIDE DEF SensorNum
  <2> QED BY <1>0, <2>1
<1> HIDE DEF SensorNum
<1>3. SUFFICES ASSUME Serving'
               PROVE  /\ mq'["ACTUATOR_REPLY"] # <<>> =>
                           pcChild' = "reply" /\ mq'["ACTUATOR_REPLY"] = <<sequence_number'>>
                      /\ \A a \in Actuators : InstructionOf(a)'
  BY ReplyIsNext
<1>4. /\ mq["ACTUATOR_REPLY"] # <<>> =>
           pcChild = "reply" /\ mq["ACTUATOR_REPLY"] = <<sequence_number>>
      /\ \A a \in Actuators : InstructionOf(a)
  <2>1. Serving
    BY <1>0, <1>3 DEF Serving
  <2> QED BY <2>1, ReplyIs
<1>5. ASSUME NEW a \in Actuators, a # d
      PROVE  InstructionOf(a)'
  <2>1. mq'[a] = mq[a] /\ pcDev'[a] = pcDev[a] /\ order'[a] = order[a]
    BY <1>1, <1>5
  <2>2. Activations(a)' = Activations(a)
    BY <2>1 DEF Activations
  <2>3. InstructionOf(a)
    BY <1>4
  <2> HIDE DEF Activations
  <2> QED BY <1>0, <1>1, <1>2, <2>1, <2>2, <2>3 DEF InstructionOf
<1>6. ASSUME NEW a \in Actuators, a = d
      PROVE  InstructionOf(a)'
  <2> DEFINE n == Len(mq[a])
  <2>1. n \in Nat \ {0} /\ DOMAIN mq[a] = 1 .. n /\ DOMAIN mq'[a] = 1 .. n - 1
    BY <1>1, <1>6 DEF Received
  <2>2. \A i \in 1 .. n : mq[a][i] # Ack
    BY <1>d, <1>1, <1>6, <2>1 DEF AckInv
  <2> HIDE DEF n
  <2>3. 1 \in Activations(a) /\ n \in Activations(a)
    BY <2>1, <2>2 DEF Activations
  <2>4. InstructionOf(a) /\ Activations(a) # {} /\ pcDev[a] # "answer"
    BY <1>1, <1>4, <1>6, <2>3
  <2>5. /\ pcChild = "reply" /\ a = actuator_list[SensorNum] /\ mq["ACTUATOR_REPLY"] = <<>>
        /\ \E i \in DOMAIN mq[a] : Activations(a) = {i} /\ mq[a][i] = Activate(sequence_number)
    BY <2>4 DEF InstructionOf
  <2>6. n = 1 /\ mq[a][1] = Activate(sequence_number)
    BY <2>3, <2>5
  <2>7. Activations(a)' = {}
    BY <2>1, <2>6 DEF Activations
  <2>8. order'[a] = sequence_number
    BY <1>1, <1>6, <2>6 DEF Activate
  <2> QED BY <1>0, <1>1, <1>2, <1>6, <2>5, <2>7, <2>8 DEF InstructionOf
<1> QED BY <1>0, <1>1, <1>4, <1>5, <1>6

(* The actuator that answers is the one the child waits for. *)
LEMMA ReplyByAnswer ==
  ASSUME TypeOK, PhaseInv, RegisterInv, AckInv, SizeInv, ReplyMatches,
         NEW d \in Actuators, A_Answer(d)
  PROVE  ReplyMatches'
<1>d. d \in Devices
  BY DEF Devices
<1>0. /\ pcChild' = pcChild /\ sequence_number' = sequence_number
  BY DEF A_Answer, childVars
<1>1. /\ Sent("ACTUATOR_REPLY", order[d]) /\ pcDev[d] = "answer" /\ pcDev'[d] = "loop"
      /\ \A e \in Actuators \ {d} : pcDev'[e] = pcDev[e]
      /\ \A e \in Actuators : mq'[e] = mq[e]
  <2>1. /\ Sent("ACTUATOR_REPLY", order[d]) /\ pcDev[d] = "answer"
        /\ pcDev' = [pcDev EXCEPT ![d] = "loop"]
    BY AnswerSends DEF A_Answer, dev
  <2>2. \A e \in Actuators : mq'[e] = mq[e]
    BY <2>1, PidIsNoType DEF Sent, Devices
  <2> QED BY <1>d, <2>1, <2>2 DEF TypeOK, Devices
<1>2. SUFFICES ASSUME Serving'
               PROVE  /\ mq'["ACTUATOR_REPLY"] # <<>> =>
                           pcChild' = "reply" /\ mq'["ACTUATOR_REPLY"] = <<sequence_number'>>
                      /\ \A a \in Actuators : InstructionOf(a)'
  BY ReplyIsNext
<1>3. \A a \in Actuators : InstructionOf(a)
  <2>1. Serving
    BY <1>0, <1>2 DEF Serving
  <2> QED BY <2>1, ReplyIs
<1>4. /\ pcChild = "reply" /\ d = actuator_list[SensorNum] /\ mq["ACTUATOR_REPLY"] = <<>>
      /\ Activations(d) = {} /\ order[d] = sequence_number
  BY <1>1, <1>3 DEF InstructionOf
<1>5. mq'["ACTUATOR_REPLY"] = <<sequence_number>>
  <2>1. mq' = [mq EXCEPT !["ACTUATOR_REPLY"] = Append(mq["ACTUATOR_REPLY"], order[d])]
    BY DEF A_Answer, msgsnd
  <2>2. mq'["ACTUATOR_REPLY"] = Append(<<>>, sequence_number)
    BY <1>4, <2>1 DEF PhaseInv, MsgTypes, ServerTypes
  <2> QED BY <2>2
<1>6. ASSUME NEW a \in Actuators
      PROVE  Activations(a)' = {} /\ pcDev'[a] # "answer"
  <2>1. Activations(a)' = Activations(a)
    BY <1>1 DEF Activations
  <2>2. CASE a = d
    BY <1>1, <1>4, <2>1, <2>2
  <2>3. CASE a # d
    <3>1. InstructionOf(a) /\ a # actuator_list[SensorNum]
      BY <1>3, <1>4, <2>3
    <3>2. Activations(a) = {} /\ pcDev[a] # "answer"
      BY <3>1 DEF InstructionOf
    <3> QED BY <1>1, <2>1, <2>3, <3>2
  <2> QED BY <2>2, <2>3
<1>7. \A a \in Actuators : InstructionOf(a)'
  BY <1>6 DEF InstructionOf
<1> QED BY <1>0, <1>4, <1>5, <1>7

(* Every step keeps the replies matched.                                     *)
LEMMA ReplyStep ==
  ASSUME TypeOK, PhaseInv, RegisterInv, AckInv, SizeInv, ReplyMatches, [Next]_vars
  PROVE  ReplyMatches'
<1>0. \A a \in Actuators : a \in Devices /\ a \in MsgTypes \ {"CHILD_TO_PARENT"}
  BY PidIsNoType DEF Devices
<1>1. CASE Child
  BY <1>1, ReplyByChild
<1>2. CASE CtrlC
  <2>1. Serving' => Serving /\ pcChild' = pcChild
    BY <1>2 DEF CtrlC, SignalChild, Serving
  <2> QED BY <1>2, <2>1, CtrlCFrame, ReplyKept DEF devVars
<1>3. ASSUME NEW d \in Devices, DeviceStep(d)
      PROVE  ReplyMatches'
  <2>1. CASE D_Acknowledged(d)
    BY <2>1, ReplyByAcknowledged
  <2>2. CASE d \in Actuators /\ A_TakeInstruction(d)
    BY <2>2, ReplyByTake
  <2>3. CASE d \in Actuators /\ A_Answer(d)
    BY <2>3, ReplyByAnswer
  <2>4. CASE /\ ~D_Acknowledged(d) /\ ~(d \in Actuators /\ A_TakeInstruction(d))
             /\ ~(d \in Actuators /\ A_Answer(d))
    <3>1. \A a \in Actuators : mq'[a] = mq[a]
      BY <1>0, <1>3, <2>4, PidQueue
    <3>2. mq'["ACTUATOR_REPLY"] = mq["ACTUATOR_REPLY"]
      BY <1>3, <2>4, ReplyQueue
    <3>3. order' = order /\ pcDev'[d] # "answer"
      BY <1>3, <2>4 DEF DeviceStep, Device, D_Register, D_RegisterLate, D_Kill, D_Stop, D_NoStop,
         D_Idle, D_QueueGone, S_SendReading, dev, TypeOK
    <3>4. \A a \in Actuators : pcDev'[a] = "answer" => pcDev[a] = "answer"
      BY <1>0, <1>3, <3>3, DeviceDevKept
    <3>5. /\ pcChild' = pcChild /\ data' = data /\ sensor_list' = sensor_list
          /\ actuator_list' = actuator_list /\ sequence_number' = sequence_number
      BY <1>3, DeviceFrame DEF childVars
    <3>6. Serving' => Serving
      BY <3>5 DEF Serving
    <3> QED BY <3>1, <3>2, <3>3, <3>4, <3>5, <3>6, ReplyKept
  <2> QED BY <2>1, <2>2, <2>3, <2>4
<1>4. CASE Parent \/ CloudStep \/ UNCHANGED vars
  <2>1. "ACTUATOR_REPLY" \in MsgTypes \ {"CHILD_TO_PARENT"}
    BY DEF MsgTypes, ServerTypes
  <2>2. ServeKept
    BY <1>4, OthersServe
  <2>3. Serving' => Serving
    BY <2>2 DEF ServeKept, Serving
  <2> QED BY <1>0, <2>1, <2>2, <2>3, ReplyKept DEF ServeKept
<1> QED BY <1>1, <1>2, <1>3, <1>4, NextIs

-----------------------------------------------------------------------------
(* As many stop messages as listed devices.                                  *)

(* A list grows only by a device that is not listed. *)
LEMMA SizeStep ==
  ASSUME TypeOK, PhaseInv, RegisterInv, AckInv, SizeInv, [Next]_vars
  PROVE  SizeInv'
<1>1. IsFiniteSet(Queued')
  BY TypeStep DEF QueueFits
<1>2. ASSUME sensor_list' = sensor_list, actuator_list' = actuator_list
      PROVE  SizeInv'
  BY <1>1, <1>2 DEF SizeInv, Listed
<1>3. CASE C_Setup
  <2>1. /\ Listed' = Listed \union {data.from} /\ data.from \notin Listed
        /\ Len(sensor_list') + Len(actuator_list') = Len(sensor_list) + Len(actuator_list) + 1
    BY <1>3, SetupLists
  <2> DEFINE before == Listed
             after == Listed'
  <2>2. /\ IsFiniteSet(before) /\ Cardinality(before) = Len(sensor_list) + Len(actuator_list)
        /\ after = before \union {data.from} /\ data.from \notin before
    BY <2>1 DEF SizeInv
  <2> HIDE DEF before, after
  <2>3. IsFiniteSet(after) /\ Cardinality(after) = Cardinality(before) + 1
    BY <2>2, FS_AddElement
  <2>4. Cardinality(after) = Len(sensor_list') + Len(actuator_list')
    BY <2>1, <2>2, <2>3
  <2> QED BY <1>1, <2>3, <2>4 DEF SizeInv, after
<1>4. CASE Child /\ ~C_Setup
  <2>1. sensor_list' = sensor_list /\ actuator_list' = actuator_list
    BY <1>4 DEF Child, Main_Flush, C_Receive, C_TellParent, C_SignalParent, C_Instruct, C_Reply,
       C_SendStop, C_RemoveQueue
  <2> QED BY <1>2, <2>1
<1>5. CASE CtrlC
  BY <1>2, <1>5, CtrlCFrame
<1>6. ASSUME NEW d \in Devices, DeviceStep(d)
      PROVE  SizeInv'
  BY <1>2, <1>6, DeviceFrame DEF childVars
<1>7. CASE Parent \/ CloudStep \/ UNCHANGED vars
  BY <1>2, <1>7, OthersServe DEF ServeKept
<1> QED BY <1>3, <1>4, <1>5, <1>6, <1>7, NextIs

(* The number of devices that stopped. *)
LEMMA StoppedFinite ==
  IsFiniteSet(StoppedDevices) /\ Cardinality(StoppedDevices) \in Nat
<1>1. IsFiniteSet(Devices)
  BY ControllerAssumption, FS_Union DEF Devices
<1>2. StoppedDevices \subseteq Devices
  BY DEF StoppedDevices
<1>3. IsFiniteSet(StoppedDevices)
  BY <1>1, <1>2, FS_Subset
<1> QED BY <1>3, FS_CardinalityType

(* Nothing is taken from the stop messages but by a device that stops.       *)
LEMMA StopQueue ==
  ASSUME TypeOK, PhaseInv, RegisterInv, AckInv, SizeInv, NEW d \in Devices, DeviceStep(d)
  PROVE  \/ mq'["REQUEST_STOP"] = mq["REQUEST_STOP"] /\ StoppedDevices' = StoppedDevices
         \/ /\ Received("REQUEST_STOP") /\ D_Stop(d)
            /\ d \notin StoppedDevices /\ StoppedDevices' = StoppedDevices \union {d}
<1>1. "REQUEST_STOP" \in MsgTypes /\ "REQUEST_STOP" # d
  BY PidIsNoType DEF MsgTypes, ServerTypes
<1>2. \A e \in Devices \ {d} : pcDev'[e] = pcDev[e]
  BY DeviceDevKept
<1>3. CASE D_Stop(d)
  <2>1. pcDev[d] = "loop" /\ pcDev'[d] = "stopped"
    BY <1>3 DEF D_Stop, dev, TypeOK
  <2>2. d \notin StoppedDevices /\ StoppedDevices' = StoppedDevices \union {d}
    BY <1>2, <2>1 DEF StoppedDevices
  <2> QED BY <1>3, <2>2, Receives
<1>4. CASE ~D_Stop(d)
  <2>1. pcDev[d] # "stopped" /\ pcDev'[d] # "stopped"
    BY <1>4 DEF DeviceStep, Device, D_Register, D_RegisterLate, D_Kill, D_Acknowledged, D_NoStop,
       D_Idle, D_QueueGone, S_SendReading, A_TakeInstruction, A_Answer, dev, TypeOK
  <2>2. StoppedDevices' = StoppedDevices
    BY <1>2, <2>1 DEF StoppedDevices
  <2>3. mq'["REQUEST_STOP"] = mq["REQUEST_STOP"]
    <3>1. CASE D_Register(d)
      <4>1. Sent("DEVICE_MSG", [from |-> d, first_setup |-> TRUE, over |-> FALSE])
        BY <3>1, DeviceSends DEF D_Register
      <4> QED BY <1>1, <4>1 DEF Sent
    <3>2. CASE d \in Sensors /\ S_SendReading(d)
      <4>1. PICK over \in BOOLEAN :
              msgsnd("DEVICE_MSG", [from |-> d, first_setup |-> FALSE, over |-> over])
        BY <3>2 DEF S_SendReading
      <4>2. Sent("DEVICE_MSG", [from |-> d, first_setup |-> FALSE, over |-> over])
        BY <4>1, DeviceSends
      <4> QED BY <1>1, <4>2 DEF Sent
    <3>3. CASE D_Acknowledged(d) \/ (d \in Actuators /\ A_TakeInstruction(d))
      BY <1>1, <3>3, Receives DEF Received
    <3>4. CASE d \in Actuators /\ A_Answer(d)
      BY <1>1, <3>4, AnswerSends DEF Sent
    <3>5. CASE D_RegisterLate(d) \/ D_Kill(d) \/ D_NoStop(d) \/ D_Idle(d) \/ D_QueueGone(d)
      BY <3>5 DEF D_RegisterLate, D_Kill, D_NoStop, D_Idle, D_QueueGone
    <3> QED BY <1>4, <3>1, <3>2, <3>3, <3>4, <3>5 DEF DeviceStep, Device
  <2> QED BY <2>2, <2>3
<1> QED BY <1>3, <1>4

(* Every step keeps the count: the devices stopped, the stop messages under  *)
(* way and those still to send are one for each listed device.               *)
LEMMA StopStep ==
  ASSUME TypeOK, PhaseInv, RegisterInv, AckInv, SizeInv, StopForEach, [Next]_vars
  PROVE  StopForEach'
<1>0. "REQUEST_STOP" \in MsgTypes \ {"CHILD_TO_PARENT"}
      /\ \A d \in Devices : d # "REQUEST_STOP"
  BY PidIsNoType DEF MsgTypes, ServerTypes
<1>1. /\ Len(mq["REQUEST_STOP"]) \in Nat /\ stopsLeft \in Nat /\ Cardinality(StoppedDevices) \in Nat
  BY StoppedFinite DEF TypeOK
<1>2. ASSUME mq'["REQUEST_STOP"] = mq["REQUEST_STOP"], pcDev' = pcDev, stopsLeft' = stopsLeft,
             pcChild' = "stopping" => pcChild = "stopping" /\ Listed' = Listed,
             Serving' => Serving
      PROVE  StopForEach'
  <2>1. StoppedDevices' = StoppedDevices
    BY <1>2 DEF StoppedDevices
  <2> HIDE DEF Listed
  <2> QED BY <1>2, <2>1 DEF StopForEach
<1>3. CASE Child
  <2>1. CASE Main_Flush
    <3>1. mq'["REQUEST_STOP"] = <<>> /\ pcChild' = "recv"
      BY <1>0, <2>1 DEF Main_Flush, EmptyQueue
    <3> QED BY <3>1 DEF StopForEach
  <2>2. CASE C_SendStop
    <3>1. /\ Len(mq'["REQUEST_STOP"]) = Len(mq["REQUEST_STOP"]) + 1
      BY <2>2, StopSends DEF Sent
    <3>2. /\ pcChild = "stopping" /\ pcChild' = "stopping" /\ stopsLeft > 0
          /\ stopsLeft' = stopsLeft - 1 /\ pcDev' = pcDev /\ Listed' = Listed
      BY <2>2 DEF C_SendStop, child, devVars, Listed
    <3>3. StoppedDevices' = StoppedDevices /\ ~Serving'
      BY <3>2 DEF StoppedDevices, Serving
    <3> HIDE DEF Listed, StoppedDevices
    <3>4. Cardinality(StoppedDevices') + Len(mq'["REQUEST_STOP"]) + stopsLeft'
            = Cardinality(StoppedDevices) + Len(mq["REQUEST_STOP"]) + stopsLeft
      BY <1>1, <3>1, <3>2, <3>3
    <3> QED BY <3>2, <3>3, <3>4 DEF StopForEach
  <2>3. CASE C_RemoveQueue
    BY <2>3 DEF C_RemoveQueue, child, StopForEach, Serving
  <2>4. CASE C_Receive \/ C_Setup \/ C_TellParent \/ C_SignalParent \/ C_Instruct \/ C_Reply
    <3>1. mq'["REQUEST_STOP"] = mq["REQUEST_STOP"]
      <4>1. CASE C_Receive \/ C_Reply
        BY <1>0, <4>1, Receives DEF Received
      <4>2. CASE C_Setup
        BY <1>0, <4>2, SetupSends DEF Sent
      <4>3. CASE C_TellParent
        BY <1>0, <4>3, TellSends DEF Sent
      <4>4. CASE C_SignalParent
        BY <4>4 DEF C_SignalParent
      <4>5. CASE C_Instruct
        <5>1. actuator_list[SensorNum] \in Devices
          BY <4>5, InstructedIs DEF C_Instruct, child, Devices
        <5> QED BY <1>0, <4>5, <5>1, InstructSends DEF Sent
      <4> QED BY <2>4, <4>1, <4>2, <4>3, <4>4, <4>5
    <3>2. /\ Serving /\ pcChild' # "stopping" /\ pcDev' = pcDev /\ stopsLeft' = stopsLeft
      BY <2>4 DEF C_Receive, C_Setup, C_TellParent, C_SignalParent, C_Instruct, C_Reply, child,
         devVars, Serving
    <3> QED BY <1>2, <3>1, <3>2
  <2> QED BY <1>3, <2>1, <2>2, <2>3, <2>4 DEF Child
<1>4. CASE CtrlC
  <2>1. mq' = mq /\ pcDev' = pcDev /\ Listed' = Listed
    BY <1>4, CtrlCFrame DEF devVars, Listed
  <2>2. CASE pcChild' = pcChild /\ stopsLeft' = stopsLeft
    BY <1>2, <2>1, <2>2 DEF Serving
  <2>3. CASE pcChild' = "failed"
    BY <2>3 DEF StopForEach, Serving
  <2>4. CASE /\ ChildWaits /\ pcChild' = "stopping"
             /\ stopsLeft' = Len(sensor_list) + Len(actuator_list)
    <3>1. Serving /\ ~Serving'
      BY <2>4 DEF ChildWaits, Serving
    <3>2. StoppedDevices' = {}
      BY <2>1, <3>1 DEF PhaseInv, StoppedDevices
    <3>3. Len(mq'["REQUEST_STOP"]) = 0
      BY <2>1, <3>1 DEF StopForEach
    <3>4. Cardinality(StoppedDevices') = 0
      BY <3>2, FS_EmptySet
    <3>5. stopsLeft' = Cardinality(Listed') /\ stopsLeft' \in Nat
      BY <2>1, <2>4 DEF SizeInv, TypeOK
    <3> HIDE DEF Listed, StoppedDevices
    <3> QED BY <3>1, <3>3, <3>4, <3>5 DEF StopForEach
  <2> QED BY <1>4, <2>2, <2>3, <2>4 DEF CtrlC, SignalChild
<1>5. ASSUME NEW d \in Devices, DeviceStep(d)
      PROVE  StopForEach'
  <2>1. pcChild' = pcChild /\ stopsLeft' = stopsLeft /\ Listed' = Listed
    BY <1>5, DeviceFrame DEF childVars, Listed
  <2>2. Serving' => Serving
    BY <2>1 DEF Serving
  <2> HIDE DEF Listed
  <2>3. CASE mq'["REQUEST_STOP"] = mq["REQUEST_STOP"] /\ StoppedDevices' = StoppedDevices
    BY <2>1, <2>2, <2>3 DEF StopForEach
  <2>4. CASE /\ Received("REQUEST_STOP") /\ d \notin StoppedDevices
             /\ StoppedDevices' = StoppedDevices \union {d}
    <3> DEFINE before == StoppedDevices
               after == StoppedDevices'
    <3>1. IsFiniteSet(before) /\ after = before \union {d} /\ d \notin before
      BY <2>4, StoppedFinite
    <3> HIDE DEF before, after
    <3>2. Cardinality(after) = Cardinality(before) + 1
      BY <3>1, FS_AddElement
    <3>3. Len(mq'["REQUEST_STOP"]) = Len(mq["REQUEST_STOP"]) - 1 /\ mq["REQUEST_STOP"] # <<>>
      BY <2>4 DEF Received
    <3>4. ~Serving'
      BY <2>2, <3>3 DEF StopForEach
    <3>5. Cardinality(StoppedDevices') + Len(mq'["REQUEST_STOP"]) + stopsLeft'
            = Cardinality(StoppedDevices) + Len(mq["REQUEST_STOP"]) + stopsLeft
      BY <1>1, <2>1, <3>2, <3>3 DEF before, after
    <3> QED BY <2>1, <3>4, <3>5 DEF StopForEach
  <2> QED BY <1>5, <2>3, <2>4, StopQueue
<1>6. CASE Parent \/ CloudStep \/ UNCHANGED vars
  <2>1. ServeKept
    BY <1>6, OthersServe
  <2>2. Serving' => Serving
    BY <2>1 DEF ServeKept, Serving
  <2> QED BY <1>0, <1>2, <2>1, <2>2 DEF ServeKept, Listed
<1> QED BY <1>3, <1>4, <1>5, <1>6, NextIs

-----------------------------------------------------------------------------
(* The theorems.                                                             *)

(* What the queue may hold at the start. *)
LEMMA InitQueue ==
  ASSUME Init
  PROVE  QueueTypes /\ IsFiniteSet(Queued) /\ mq["CHILD_TO_PARENT"] = <<>>
         /\ \A d \in Devices : mq[d] = <<>>
<1>0. \A S : <<>> \in Seq(S) /\ \A m \in S : <<m>> \in Seq(S)
  OBVIOUS
<1>e. DOMAIN <<>> = {}
  OBVIOUS
<1>s. ASSUME NEW x PROVE DOMAIN <<x>> = {1}
  <2>1. DOMAIN <<x>> = 1 .. 1
    OBVIOUS
  <2> QED BY <2>1
<1>1. CASE mq = EmptyQueue
  <2>1. mq = [t \in MsgTypes |-> mq[t]] /\ \A t \in MsgTypes : mq[t] = <<>>
    BY <1>1 DEF EmptyQueue
  <2>2. Queued = {}
    BY <2>1 DEF Queued
  <2>3. IsFiniteSet(Queued)
    BY <2>2, FS_EmptySet
  <2> QED BY <1>0, <2>1, <2>3, PidIsNoType DEF QueueTypes, MsgTypes, ServerTypes
<1>2. CASE mq = OldQueue
  <2> DEFINE m == [from |-> OldDevice, first_setup |-> FALSE, over |-> TRUE]
  <2>1. m \in DeviceMsg
    BY DEF DeviceMsg
  <2> HIDE DEF m
  <2>2. /\ mq = [t \in MsgTypes |-> mq[t]]
        /\ mq["DEVICE_MSG"] = <<m>> /\ mq["ACTUATOR_REPLY"] = <<1>>
        /\ mq["REQUEST_STOP"] = <<"stop">> /\ mq["CHILD_TO_PARENT"] = <<>>
        /\ \A d \in Devices : mq[d] = <<>>
    BY <1>2, PidIsNoType DEF OldQueue, EmptyQueue, m, MsgTypes, ServerTypes
  <2>3. ASSUME NEW type \in MsgTypes
        PROVE  mq[type] \in Seq(MsgsOf(type))
    <3>1. CASE type \in Devices
      BY <1>0, <2>2, <3>1
    <3>2. CASE type = "DEVICE_MSG"
      BY <1>0, <2>1, <2>2, <3>2 DEF MsgsOf
    <3>3. CASE type = "ACTUATOR_REPLY"
      BY <1>0, <2>2, <3>3 DEF MsgsOf
    <3>4. CASE type = "CHILD_TO_PARENT"
      BY <1>0, <2>2, <3>4 DEF MsgsOf
    <3>5. CASE type = "REQUEST_STOP"
      BY <1>0, <2>2, <3>5 DEF MsgsOf
    <3> QED BY <2>3, <3>1, <3>2, <3>3, <3>4, <3>5 DEF MsgTypes, ServerTypes
  <2>4. IsFiniteSet(Queued)
    <3> DEFINE all == {<<"DEVICE_MSG", 1>>, <<"ACTUATOR_REPLY", 1>>, <<"REQUEST_STOP", 1>>}
    <3>1. IsFiniteSet(all)
      <4>1. IsFiniteSet({<<"DEVICE_MSG", 1>>})
        BY FS_Singleton
      <4>2. IsFiniteSet({<<"DEVICE_MSG", 1>>} \union {<<"ACTUATOR_REPLY", 1>>})
        BY <4>1, FS_AddElement
      <4>3. IsFiniteSet(({<<"DEVICE_MSG", 1>>} \union {<<"ACTUATOR_REPLY", 1>>})
                          \union {<<"REQUEST_STOP", 1>>})
        BY <4>2, FS_AddElement
      <4>4. all = ({<<"DEVICE_MSG", 1>>} \union {<<"ACTUATOR_REPLY", 1>>})
                    \union {<<"REQUEST_STOP", 1>>}
        OBVIOUS
      <4> QED BY <4>3, <4>4
    <3>2. \A t \in MsgTypes : {t} \X DOMAIN mq[t] \subseteq all
      <4>1. \A d \in Devices : DOMAIN mq[d] = {}
        BY <1>e, <2>2
      <4>2. /\ DOMAIN mq["DEVICE_MSG"] = {1} /\ DOMAIN mq["ACTUATOR_REPLY"] = {1}
            /\ DOMAIN mq["REQUEST_STOP"] = {1} /\ DOMAIN mq["CHILD_TO_PARENT"] = {}
        BY <1>e, <1>s, <2>2, Zenon
      <4> QED BY <4>1, <4>2 DEF MsgTypes, ServerTypes
    <3> HIDE DEF all
    <3>3. Queued \subseteq all
      BY <3>2 DEF Queued
    <3> QED BY <3>1, <3>3, FS_Subset
  <2> QED BY <2>2, <2>3, <2>4 DEF QueueTypes
<1> QED BY <1>1, <1>2 DEF Init

(* The inductive invariant holds at the start, with a queue left by an       *)
(* earlier run or none.                                                      *)
LEMMA IInvInit ==
  Init => IInv
<1> SUFFICES ASSUME Init PROVE IInv
  OBVIOUS
<1>0. QueueTypes /\ IsFiniteSet(Queued) /\ mq["CHILD_TO_PARENT"] = <<>>
      /\ \A d \in Devices : mq[d] = <<>>
  BY InitQueue
<1>1. TypeOK
  <2>1. QueueFits
    <3>1. Cardinality(Queued) <= QUEUE_LIMIT
      BY Zenon DEF Init
    <3> QED BY <1>0, <3>1, Zenon DEF QueueFits
  <2>2. ChildTypes
    <3>1. removed \in BOOLEAN /\ data \in DeviceMsg \union {NoMsg} /\ pcChild = "main"
      BY Zenon DEF Init
    <3>2. sensor_list \in Seq(Sensors) /\ actuator_list \in Seq(Actuators)
      <4>1. sensor_list = <<>> /\ actuator_list = <<>>
        BY Zenon DEF Init
      <4> QED BY <4>1
    <3>3. sequence_number = 0 /\ stopsLeft = 0 /\ crossings = 0
      BY Zenon DEF Init
    <3>4. sequence_number \in Nat /\ stopsLeft \in Nat /\ crossings \in Nat
      BY <3>3
    <3>5. pcChild \in {"main", "recv", "setup", "tell", "signal", "instruct", "reply", "stopping",
                      "done", "failed"}
      BY <3>1
    <3> QED BY <3>1, <3>2, <3>4, <3>5 DEF ChildTypes
  <2>3. ParentTypes
    <3>1. /\ pcParent = "main" /\ retrieve_msg_flag = FALSE /\ kill_process = FALSE
          /\ msg_received2 = 0 /\ interrupts = 0
      BY Zenon DEF Init
    <3>2. msg_received2 \in Nat
      BY <3>1
    <3>3. interrupts \in 0 .. MAX_INTERRUPTS
      <4>1. MAX_INTERRUPTS \in Nat
        BY ControllerAssumption
      <4>2. 0 \in 0 .. MAX_INTERRUPTS
        BY <4>1
      <4> QED BY <3>1, <4>2
    <3>4. retrieve_msg_flag \in BOOLEAN /\ kill_process \in BOOLEAN
      BY <3>1
    <3> QED BY <3>1, <3>2, <3>3, <3>4 DEF ParentTypes
  <2>4. CloudTypes /\ DeviceTypes
    BY ControllerAssumption DEF Init, CloudTypes, DeviceTypes
  <2> QED BY <1>0, <2>1, <2>2, <2>3, <2>4, PartsType
<1>2. Listed = {} /\ IsInjective(sensor_list) /\ IsInjective(actuator_list) /\ StoppedDevices = {}
  BY DEF Init, Listed, Range, IsInjective, StoppedDevices
<1>3. PhaseInv
  BY <1>0, <1>2 DEF Init, PhaseInv, QueueTypes
<1>4. RegisterInv
  BY <1>2 DEF Init, RegisterInv
<1>5. AckInv
  BY <1>0, <1>2 DEF Init, AckInv
<1>6. ReplyMatches /\ StopForEach
  BY DEF Init, ReplyMatches, StopForEach, Serving
<1>7. SignalInv
  <2>1. Len(mq["CHILD_TO_PARENT"]) = 0
    BY <1>0
  <2> QED BY <2>1 DEF Init, SignalInv
<1>8. WayInv
  <2>1. /\ received = <<>> /\ fifo = <<>> /\ crossings = 0 /\ pcParent = "main" /\ pcCloud = "new"
    BY DEF Init
  <2>e. Len(<<>>) = 0
    OBVIOUS
  <2>2. Taken = 0 /\ Passed = 0
    <3>1. Len(mq["CHILD_TO_PARENT"]) = 0
      BY <1>0, <2>e, Zenon
    <3>2. Len(received) = 0 /\ Len(fifo) = 0
      BY <2>1, <2>e, Zenon
    <3> QED BY <2>1, <3>1, <3>2 DEF Taken, Passed
  <2> HIDE DEF Taken, Passed
  <2> QED BY <1>0, <2>1, <2>2 DEF WayInv
<1>9. SizeInv
  BY <1>0, <1>2, FS_EmptySet DEF Init, SizeInv
<1>10. LossInv
  BY DEF Init, LossInv
<1> QED BY <1>1, <1>3, <1>4, <1>5, <1>6, <1>7, <1>8, <1>9, <1>10 DEF IInv

(* The inductive invariant is kept by every step.                            *)
LEMMA IInvStep ==
  IInv /\ [Next]_vars => IInv'
<1> SUFFICES ASSUME IInv, [Next]_vars PROVE IInv'
  OBVIOUS
<1>1. /\ TypeOK /\ PhaseInv /\ RegisterInv /\ AckInv /\ ReplyMatches /\ SignalInv /\ WayInv
      /\ LossInv /\ SizeInv /\ StopForEach
  BY DEF IInv
<1>2. TypeOK' /\ PhaseInv' /\ RegisterInv' /\ AckInv'
  BY <1>1, TypeStep, PhaseStep, RegisterStep, AckStep
<1>3. ReplyMatches' /\ SignalInv' /\ WayInv'
  BY <1>1, ReplyStep, SignalStep, WayStep
<1>4. LossInv' /\ SizeInv' /\ StopForEach'
  BY <1>1, LossStep, SizeStep, StopStep
<1> QED BY <1>2, <1>3, <1>4 DEF IInv

(* The inductive invariant of the controller and its devices: where the      *)
(* processes are, whom the child has listed, what is under way to whom.      *)
THEOREM IInvHolds == SafeSpec => []IInv
<1>1. IInv /\ UNCHANGED vars => IInv'
  BY IInvStep
<1> QED BY IInvInit, IInvStep, PTL DEF SafeSpec

(* Every message has the form its type promises, and the queue never holds   *)
(* more than its limit.                                                      *)
THEOREM TypesHold == SafeSpec => []TypeOK
<1>1. IInv => TypeOK
  BY DEF IInv
<1> QED BY <1>1, IInvHolds, PTL

(* search_sensor_list_for_pid always finds the sensor, and no device is      *)
(* listed twice, or before it registers.                                     *)
THEOREM SendersAreListed == SafeSpec => []SendersListed
<1>1. IInv => SendersListed
  BY DEF IInv, RegisterInv, SendersListed
<1> QED BY <1>1, IInvHolds, PTL

(* The parent never waits in the msgrcv that retrieve_msg_flag sends it to.  *)
THEOREM ParentDoesNotWait == SafeSpec => []ParentNeverWaits
<1>1. IInv => ParentNeverWaits
  BY NoWait DEF IInv
<1> QED BY <1>1, IInvHolds, PTL

(* Signals merge, but the messages they announce reach the cloud each once   *)
(* and in order, and "end" after all others.                                 *)
THEOREM CrossingsKeepOrder == SafeSpec => []CrossingsInOrder
<1>1. IInv => CrossingsInOrder
  BY WayIsInOrder DEF IInv
<1> QED BY <1>1, IInvHolds, PTL

(* A reply the child takes answers the instruction it sent.                  *)
THEOREM RepliesMatch == SafeSpec => []ReplyMatches
<1>1. IInv => ReplyMatches
  BY DEF IInv
<1> QED BY <1>1, IInvHolds, PTL

(* Each listed device gets one stop message, and no other takes it.          *)
THEOREM StopsAreForEach == SafeSpec => []StopForEach
<1>1. IInv => StopForEach
  BY DEF IInv
<1> QED BY <1>1, IInvHolds, PTL

(* However many CTRL+C, signals and failures there are, a cloud is left     *)
(* without "end" only when the queue was removed with a crossing in it.      *)
THEOREM CloudIsLeftOnlyByLoss == SafeSpec => []CloudLeftOnlyByLoss
<1>1. IInv => CloudLeftOnlyByLoss
  BY LossLeaves DEF IInv
<1> QED BY <1>1, IInvHolds, PTL

=============================================================================
