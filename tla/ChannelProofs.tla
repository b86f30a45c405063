---------------------------- MODULE ChannelProofs ----------------------------
(***************************************************************************)
(* Proof that SharedBuffer implements the safety part of CopyChannel: the  *)
(* blocks between the two indices are a FIFO channel of NUM_BUFFERS blocks *)
(* between the bytes the producer has cut and those the consumer has       *)
(* delivered.                                                              *)
(***************************************************************************)
EXTENDS CopyProofs

USE DEF GoP, GoC, sems, fileVars, prodVars, consVars, vars

Block == [bytes_to_count : Nat, string_data : Nat]

-----------------------------------------------------------------------------
(* The blocks in flight as a sequence.                                       *)
LEMMA InFlightSeq ==
  ASSUME IInv, ~Removing
  PROVE  /\ InFlight \in Seq(Block) /\ Len(InFlight) = Live - Passed
         /\ \A k \in 1 .. Live - Passed : InFlight[k] = buffer[SlotAt(Passed + k - 1)]
<1>1. Live - Passed \in Nat /\ Passed \in Nat /\ Live \in Nat
  BY ChainBounds
<1>2. ASSUME NEW k \in 1 .. Live - Passed
      PROVE  buffer[SlotAt(Passed + k - 1)] \in Block
  <2>1. Passed + k - 1 \in 0 .. Live - 1
    BY <1>1
  <2>2. SlotAt(Passed + k - 1) \in Slots
    BY <2>1, ChainSlot
  <2> QED BY <2>2, ChainBounds, BufferAssumption DEF Block
<1>3. InFlight \in [1 .. Live - Passed -> Block]
  BY <1>2 DEF InFlight
<1>4. InFlight \in Seq(Block)
  BY <1>1, <1>3, SeqDef
<1>5. Len(InFlight) = Live - Passed
  <2>1. /\ DOMAIN InFlight = 1 .. Len(InFlight) /\ Len(InFlight) \in Nat
        /\ DOMAIN InFlight = 1 .. Live - Passed
    BY <1>3, <1>4, LenProperties
  <2> QED BY <1>1, <2>1
<1> QED BY <1>4, <1>5 DEF InFlight

(* Both start with nothing copied.                                           *)
LEMMA ChannelInit == Init => Channel!Init
<1> SUFFICES ASSUME Init PROVE Channel!Init
  OBVIOUS
<1>1. Live = 0 /\ Passed = 0 /\ Sent = 0 /\ Received = 0
  BY DEF Init, Live, Passed, Announced, Ind, Sent, Received
<1>2. InFlight = <<>>
  BY <1>1 DEF InFlight
<1>3. Len(content) \in Nat
  BY BufferAssumption DEF Init
<1> QED BY <1>1, <1>2, <1>3 DEF Channel!Init

(* A block stored at the producer's index enters the channel.                *)
LEMMA AddsBlockIsPut ==
  ASSUME IInv, RingInv, [Next]_vars, ~Removing', AddsBlock
  PROVE  Channel!Put
<1>0. /\ ~Removing /\ content' = content /\ Received' = Received
      /\ Passed' = Passed /\ Live' = Live + 1 /\ c_index' = c_index
      /\ Sent' = Sent + BytesToWrite /\ Live < NUM_BUFFERS
      /\ buffer' = [buffer EXCEPT ![p_index].string_data = Sent]
  BY Frame, OutStep DEF AddsBlock, P_StoreData, C_Writes, C_Write, C_ShortWrite, Sent
<1>1. /\ Live \in Nat /\ Passed \in Nat /\ Passed <= Live /\ Sent \in Nat
      /\ Len(content) \in Nat
  BY <1>0, ChainBounds
<1>2. BytesToWrite \in 1 .. STRING_SIZE /\ Sent + BytesToWrite <= Len(content)
  <2>1. /\ pcP = "data" /\ nWrite_shm < nRead /\ nRead \in Nat /\ nWrite_shm \in Nat
        /\ nWrite_shmTot \in Nat /\ nWrite_shmTot + nRead <= Len(content)
    BY DEF AddsBlock, P_StoreData, IInv, TypeOK, ReadInv, P_HoldsSlot
  <2>2. /\ BytesToWrite \in 1 .. STRING_SIZE /\ BytesToWrite <= nRead - nWrite_shm
    BY <2>1, BufferAssumption DEF BytesToWrite, MinOf
  <2> QED BY <1>1, <2>1, <2>2 DEF Sent
<1> DEFINE b == [string_data |-> Sent, bytes_to_count |-> BytesToWrite]
<1>3. b \in Block
  BY <1>1, <1>2, BufferAssumption DEF Block
<1>4. buffer'[p_index] = b
  <2>1. /\ p_index \in Slots /\ buffer[p_index].bytes_to_count = BytesToWrite
        /\ buffer[p_index] \in [bytes_to_count : 0 .. STRING_SIZE, string_data : Nat]
    BY DEF AddsBlock, P_StoreData, IInv, TypeOK, ReadInv
  <2> QED BY <1>0, <2>1, ChainBounds
<1>5. InFlight' = Append(InFlight, b)
  <2> DEFINE t == [k \in 1 .. Live + 1 - Passed |->
                     IF k = Live + 1 - Passed THEN b ELSE buffer[SlotAt(Passed + k - 1)]]
  <2>1. /\ InFlight \in Seq(Block) /\ Len(InFlight) = Live - Passed
        /\ \A k \in 1 .. Live - Passed : InFlight[k] = buffer[SlotAt(Passed + k - 1)]
    BY <1>0, InFlightSeq
  <2>2. ASSUME NEW k \in 1 .. Live + 1 - Passed
        PROVE  (buffer[SlotAt(Passed + k - 1)])' = t[k]
    <3>1. CASE k = Live + 1 - Passed
      <4>1. Passed + k - 1 = Live
        BY <1>1, <3>1
      <4>2. RingAt(c_index, Live) = p_index
        BY <1>0, ChainBounds
      <4>3. SlotAt(Passed + k - 1)' = p_index
        BY <1>0, <4>1, <4>2 DEF SlotAt, RingAt
      <4> QED BY <1>4, <3>1, <4>3
    <3>2. CASE k # Live + 1 - Passed
      <4>1. Passed + k - 1 \in 0 .. Live - 1
        BY <1>1, <3>2
      <4>2. SlotAt(Passed + k - 1) \in Slots /\ SlotAt(Passed + k - 1) # p_index
        BY <1>0, <4>1, ChainSlot
      <4>3. SlotAt(Passed + k - 1)' = SlotAt(Passed + k - 1)
        BY <1>0 DEF SlotAt, RingAt
      <4>4. buffer'[SlotAt(Passed + k - 1)] = buffer[SlotAt(Passed + k - 1)]
        BY <1>0, <4>2, ChainBounds
      <4> QED BY <3>2, <4>3, <4>4
    <3> QED BY <3>1, <3>2
  <2>3. InFlight' = t
    <3>1. InFlight' = [k \in 1 .. Live + 1 - Passed |-> (buffer[SlotAt(Passed + k - 1)])']
      <4>1. Live' - Passed' = Live + 1 - Passed
        BY <1>0, <1>1
      <4> QED BY <4>1 DEF InFlight
    <3> QED BY <2>2, <3>1
  <2>4. /\ Append(InFlight, b) \in Seq(Block)
        /\ Len(Append(InFlight, b)) = Live + 1 - Passed
        /\ \A k \in 1 .. Live - Passed : Append(InFlight, b)[k] = InFlight[k]
        /\ Append(InFlight, b)[Live + 1 - Passed] = b
    BY <1>1, <1>3, <2>1, AppendProperties
  <2>5. Append(InFlight, b) \in [1 .. Live + 1 - Passed -> Block]
    BY <2>4, LenProperties
  <2>6. ASSUME NEW k \in 1 .. Live + 1 - Passed
        PROVE  Append(InFlight, b)[k] = t[k]
    <3>1. CASE k = Live + 1 - Passed
      BY <2>4, <3>1
    <3>2. CASE k # Live + 1 - Passed
      <4>1. k \in 1 .. Live - Passed
        BY <1>1, <3>2
      <4> QED BY <2>1, <2>4, <3>2, <4>1
    <3> QED BY <3>1, <3>2
  <2> QED BY <2>3, <2>5, <2>6
<1>6. Len(InFlight) < NUM_BUFFERS
  BY <1>0, <1>1, InFlightSeq, BufferAssumption
<1> HIDE DEF b
<1>7. \E n \in 1 .. STRING_SIZE :
        /\ Sent + n <= Len(content)
        /\ Sent' = Sent + n
        /\ InFlight' = Append(InFlight, [string_data |-> Sent, bytes_to_count |-> n])
  BY <1>0, <1>2, <1>5 DEF b
<1> QED BY <1>0, <1>6, <1>7 DEF Channel!Put

(* The block the consumer writes leaves it.                                  *)
LEMMA TakesBlockIsGet ==
  ASSUME IInv, RingInv, ChainInv, ChainInv', [Next]_vars, ~Removing', TakesBlock
  PROVE  Channel!Get
<1>0. /\ pcC = "write" /\ ~Removing /\ content' = content
      /\ Passed = 0 /\ Passed' = 1 /\ Live' = Live /\ Live > 0 /\ Live \in Nat
      /\ Sent' = Sent /\ buffer' = buffer /\ c_index' = c_index
  BY Frame, OutStep, ChainBounds DEF TakesBlock
<1>1. /\ InFlight \in Seq(Block) /\ Len(InFlight) = Live
      /\ \A k \in 1 .. Live : InFlight[k] = buffer[SlotAt(k - 1)]
  <2>1. \A k \in 1 .. Live : Passed + k - 1 = k - 1 /\ Live - Passed = Live
    BY <1>0
  <2> QED BY <1>0, <2>1, InFlightSeq
<1>2. InFlight # <<>> /\ Head(InFlight) = buffer[c_index]
  <2>1. InFlight # <<>>
    BY <1>0, <1>1
  <2>2. InFlight[1] = buffer[SlotAt(0)]
    BY <1>0, <1>1
  <2> QED BY <1>0, <2>1, <2>2, TakenAtWrite
<1>3. /\ Head(InFlight).string_data = Received
      /\ Received' = Received + Head(InFlight).bytes_to_count
  <2>1. /\ Taken = buffer[c_index].string_data
        /\ Taken' = buffer[c_index].string_data + buffer[c_index].bytes_to_count
    BY <1>0, TakenAtWrite, TakenStep DEF TakesBlock
  <2> QED BY <1>0, <1>2, <2>1 DEF ChainInv
<1>4. InFlight' = Tail(InFlight)
  <2>1. /\ Tail(InFlight) \in Seq(Block) /\ Len(Tail(InFlight)) = Live - 1
        /\ \A k \in 1 .. Live - 1 : Tail(InFlight)[k] = InFlight[k + 1]
    BY <1>0, <1>1, <1>2, HeadTailProperties
  <2>2. Tail(InFlight) = [k \in 1 .. Live - 1 |-> Tail(InFlight)[k]]
    BY <2>1, LenProperties
  <2>3. InFlight' = [k \in 1 .. Live - 1 |-> buffer[SlotAt(1 + k - 1)]]
    BY <1>0 DEF InFlight, SlotAt, RingAt
  <2>4. ASSUME NEW k \in 1 .. Live - 1
        PROVE  Tail(InFlight)[k] = buffer[SlotAt(1 + k - 1)]
    <3>1. k + 1 \in 1 .. Live /\ (k + 1) - 1 = 1 + k - 1
      BY <1>0
    <3> QED BY <1>1, <2>1, <3>1
  <2> QED BY <2>2, <2>3, <2>4
<1> QED BY <1>0, <1>2, <1>3, <1>4 DEF Channel!Get

(* The other steps leave the channel as it is: storing a count, because the  *)
(* slot is not of the chain yet, and advancing the index, because the block  *)
(* there has been delivered.                                                 *)
LEMMA ChainKeepsChannel ==
  ASSUME IInv, RingInv, [Next]_vars, ~Removing',
         StoresCount \/ GivesSlotUp \/ LeavesChain
  PROVE  UNCHANGED <<Sent, InFlight, Received>>
<1>0. /\ ~Removing /\ Live \in Nat /\ Passed \in 0..1 /\ Passed <= Live
      /\ c_index \in Slots
  BY Frame, ChainBounds
<1>1. CASE StoresCount
  <2>1. /\ Passed' = Passed /\ Live' = Live /\ Sent' = Sent /\ c_index' = c_index
        /\ Received' = Received /\ Live < NUM_BUFFERS
    BY <1>1, OutStep DEF StoresCount, P_StoreCount, C_Writes, C_Write, C_ShortWrite
  <2>2. ASSUME NEW k \in 1 .. Live - Passed
        PROVE  (buffer[SlotAt(Passed + k - 1)])' = buffer[SlotAt(Passed + k - 1)]
    <3>1. Passed + k - 1 \in 0 .. Live - 1
      BY <1>0
    <3>2. SlotAt(Passed + k - 1) \in Slots /\ SlotAt(Passed + k - 1) # p_index
      BY <1>0, <2>1, <3>1, ChainSlot
    <3>3. SlotAt(Passed + k - 1)' = SlotAt(Passed + k - 1)
      BY <2>1 DEF SlotAt, RingAt
    <3> QED BY <1>0, <1>1, <3>2, <3>3, ChainBounds DEF StoresCount, P_StoreCount
  <2>3. InFlight' = InFlight
    <3>1. InFlight' = [k \in 1 .. Live - Passed |-> (buffer[SlotAt(Passed + k - 1)])']
      BY <2>1 DEF InFlight
    <3> QED BY <2>2, <3>1 DEF InFlight
  <2> QED BY <2>1, <2>3
<1>2. CASE GivesSlotUp
  <2>1. /\ Passed = 1 /\ Passed' = 0 /\ Live' = Live - 1 /\ Live > 0
        /\ Sent' = Sent /\ buffer' = buffer /\ c_index' = NextIndex(c_index)
        /\ Received' = Received
    BY <1>2 DEF GivesSlotUp
  <2>2. ASSUME NEW k \in 1 .. Live - 1
        PROVE  (buffer[SlotAt(Passed + k - 1)])' = buffer[SlotAt(Passed + k - 1)]
    <3>1. k - 1 \in 0 .. NUM_BUFFERS - 1
      BY <1>0, ChainBounds, BufferAssumption
    <3>2. RingAt(NextIndex(c_index), k - 1) = RingAt(c_index, (k - 1) + 1)
      BY <1>0, <3>1, RingAtNext
    <3>3. (k - 1) + 1 = 1 + k - 1 /\ 0 + k - 1 = k - 1
      BY <1>0
    <3> QED BY <2>1, <3>2, <3>3 DEF SlotAt, RingAt
  <2>3. InFlight' = InFlight
    <3>1. Live' - Passed' = Live - 1 /\ Live - Passed = Live - 1
      BY <1>0, <2>1
    <3>2. InFlight' = [k \in 1 .. Live - 1 |-> (buffer[SlotAt(Passed + k - 1)])']
      BY <3>1 DEF InFlight
    <3>3. InFlight = [k \in 1 .. Live - 1 |-> buffer[SlotAt(Passed + k - 1)]]
      BY <3>1 DEF InFlight
    <3> QED BY <2>2, <3>2, <3>3
  <2> QED BY <2>1, <2>3
<1>3. CASE LeavesChain
  BY <1>3 DEF LeavesChain, InFlight, SlotAt, RingAt
<1> QED BY <1>1, <1>2, <1>3

(* Nothing moves in the channel while the consumer cleans up.                *)
LEMMA RemovingKeepsChannel ==
  ASSUME IInv, RingInv, ChainInv, TeardownInv, TeardownInv', [Next]_vars, Removing'
  PROVE  UNCHANGED <<Sent, InFlight, Received>>
<1>1. Removing \/ C_LoopDone
  BY DEF Next, Producer, Consumer, Environment, Terminated, Removing,
         P_InitSemaphores, P_Stat, P_Announce, P_OpenInput, P_Read, P_Finish,
         P_ChunkDone, P_WaitE, P_WaitS, P_StoreCount, P_StoreData, P_SignalS,
         P_SignalN, C_OpenOutput, C_WaitMeta, C_WaitN, C_WaitS, C_Write, C_Advance,
         C_SignalS, C_SignalE, C_LoopDone, C_RemoveSemaphore, ResizeInput, P_Fail, P_StatFails,
         C_Fail, C_ShortWrite
<1>2. pcC \in {"loop", "rmS", "rmN", "rmE", "done"}
  BY <1>1 DEF Removing, C_LoopDone
<1>3. /\ pcP \in {"openFile", "read", "fill", "done", "failed"}
      /\ pcP = "fill" => nWrite_shm >= nRead
  <2>1. CASE Removing
    BY <2>1 DEF TeardownInv, IInv, TypeOK
  <2>2. CASE C_LoopDone
    <3>1. pcP' = pcP /\ nWrite_shm' = nWrite_shm /\ nRead' = nRead
      BY <2>2 DEF C_LoopDone
    <3> QED BY <3>1 DEF TeardownInv, IInv, TypeOK
  <2> QED BY <1>1, <2>1, <2>2
<1>4. /\ N' = N /\ buffer' = buffer /\ c_index' = c_index /\ ~P_StoreData /\ ~C_Writes
      /\ pcP' \in {"openFile", "read", "fill", "done", "failed"}
      /\ pcC' \in {"rmS", "rmN", "rmE", "done"}
  <2>1. CASE Producer \/ P_Fail \/ P_StatFails
    <3>1. P_OpenInput \/ P_Read \/ P_Finish \/ P_ChunkDone \/ P_Fail
      BY <1>3, <2>1
      DEF Producer, IInv, TypeOK, P_InitSemaphores, P_Stat, P_Announce, P_WaitE,
          P_WaitS, P_StoreCount, P_StoreData, P_SignalS, P_SignalN, P_StatFails
    <3> QED BY <1>2, <3>1
      DEF P_OpenInput, P_Read, P_Finish, P_ChunkDone, P_Fail, P_StoreData, C_Writes, C_Write,
          C_ShortWrite, Removing
  <2>2. CASE Consumer \/ C_Fail \/ C_ShortWrite
    <3>1. C_LoopDone \/ C_RemoveSemaphore
      BY <1>2, <2>2
      DEF Consumer, C_OpenOutput, C_WaitMeta, C_WaitN, C_WaitS, C_Write, C_Advance,
          C_SignalS, C_SignalE, C_Fail, C_ShortWrite, Removing
    <3> QED BY <1>2, <1>3, <3>1
      DEF C_LoopDone, C_RemoveSemaphore, P_StoreData, C_Writes, C_Write, C_ShortWrite
  <2>3. CASE ResizeInput \/ UNCHANGED vars
    BY <1>2, <1>3, <2>3
    DEF ResizeInput, P_StoreData, C_Writes, C_Write, C_ShortWrite, Removing
  <2> QED BY <2>1, <2>2, <2>3 DEF Next, Environment, Terminated
<1>5. Sent' = Sent /\ Received' = Received
  BY <1>4, SentStep, OutStep DEF IInv
<1>6. Live' = Live /\ Passed' = Passed
  BY <1>2, <1>3, <1>4 DEF Live, Passed, Ind, Announced
<1> QED BY <1>4, <1>5, <1>6 DEF InFlight, SlotAt, RingAt

(* Every step puts a block, gets one, or leaves the channel alone.           *)
LEMMA ChannelStep ==
  ASSUME IInv, RingInv, ChainInv, ChainInv', TeardownInv, TeardownInv', [Next]_vars
  PROVE  [Channel!Next]_(Channel!vars)
<1>1. content' = content
  BY Frame
<1>2. CASE Removing'
  BY <1>1, <1>2, RemovingKeepsChannel DEF Channel!vars
<1>3. CASE ~Removing'
  <2>1. CASE AddsBlock
    BY <1>3, <2>1, AddsBlockIsPut DEF Channel!Next
  <2>2. CASE TakesBlock
    BY <1>3, <2>2, TakesBlockIsGet DEF Channel!Next
  <2>3. CASE StoresCount \/ GivesSlotUp \/ LeavesChain
    BY <1>1, <1>3, <2>3, ChainKeepsChannel DEF Channel!vars
  <2> QED BY <1>3, <2>1, <2>2, <2>3, ChainStep
<1> QED BY <1>2, <1>3

(* The pipeline implements the safety part of the bounded FIFO channel, for  *)
(* every ring size, block size and file, with or without semaphore S, and    *)
(* while opens, reads and writes fail and the file shrinks: blocks are cut in*)
(* order, at most NUM_BUFFERS are in flight, and each is delivered once, in  *)
(* the order it was cut.                                                     *)
THEOREM ImplementsChannel ==
  ASSUME FAULTS \intersect {"stat", "grow", "short"} = {}
  PROVE  SafeSpec => Channel!SafeSpec
<1>1. Init => Channel!Init
  BY ChannelInit
<1>2. IInv /\ RingInv /\ ChainInv /\ ChainInv' /\ TeardownInv /\ TeardownInv'
        /\ [Next]_vars => [Channel!Next]_(Channel!vars)
  BY ChannelStep
<1>3. "short" \notin FAULTS /\ FAULTS \intersect {"stat", "grow"} = {}
  OBVIOUS
<1> QED
  BY <1>1, <1>2, <1>3, IInvHolds, RingInvHolds, ChainInvHolds, TeardownInvHolds, PTL
  DEF SafeSpec, Channel!SafeSpec

=============================================================================
