----------------------------- MODULE CopyProofs ------------------------------
(***************************************************************************)
(* Proofs about what the copy of SharedBuffer delivers: the blocks in      *)
(* flight are a chain without a gap, so the output keeps the order of the  *)
(* input whatever fails, is a prefix of it when no write is short, and is  *)
(* the input when the consumer is done; the consumer removes nothing that  *)
(* the producer still needs; and every step is one of CopyChannel.         *)
(***************************************************************************)
EXTENDS SharedBufferProofs, SequenceTheorems, FiniteSetTheorems

USE DEF GoP, GoC, sems, fileVars, prodVars, consVars, vars

-----------------------------------------------------------------------------
(* How the steps move the chain of blocks. *)

C_Writes == C_Write \/ C_ShortWrite

(* Only a store of data moves the producer's place in the file, a read and   *)
(* the end of a chunk do not.                                                *)
LEMMA SentStep ==
  ASSUME TypeOK, StartInv, [Next]_vars
  PROVE  /\ P_StoreData => Sent' = Sent + BytesToWrite
         /\ ~P_StoreData => Sent' = Sent
<1> USE DEF TypeOK, Sent
<1>1. CASE P_StoreData
  <2>1. nWrite_shm' = nWrite_shm + BytesToWrite /\ nWrite_shmTot' = nWrite_shmTot
    BY <1>1 DEF P_StoreData
  <2>2. BytesToWrite \in Int
    BY BufferAssumption DEF BytesToWrite, MinOf
  <2> QED BY <1>1, <2>1, <2>2
<1>2. CASE P_ChunkDone
  BY <1>2 DEF P_ChunkDone, P_StoreData
<1>3. CASE ~P_StoreData /\ ~P_ChunkDone
  <2>1. nWrite_shm' = nWrite_shm /\ nWrite_shmTot' = nWrite_shmTot
    BY <1>3
    DEF Next, Producer, Consumer, Environment, Terminated,
        P_InitSemaphores, P_Stat, P_Announce, P_OpenInput, P_Read, P_Finish,
        P_WaitE, P_WaitS, P_StoreCount, P_SignalS,
        P_SignalN, C_OpenOutput, C_WaitMeta, C_WaitN, C_WaitS, C_Write, C_Advance,
        C_SignalS, C_SignalE, C_LoopDone, C_RemoveSemaphore, ResizeInput, P_Fail, P_StatFails,
        C_Fail, C_ShortWrite
  <2> QED BY <1>3, <2>1
<1> QED BY <1>1, <1>2, <1>3

(* The output file changes when a block is written to it, and when it is     *)
(* created.                                                                  *)
LEMMA OutStep ==
  ASSUME [Next]_vars
  PROVE  /\ C_Writes \/ C_OpenOutput \/ out' = out
         /\ C_OpenOutput => pcC = "open" /\ pcC' = "waitMeta" /\ out' = <<>>
         /\ C_Writes => pcC = "write" /\ pcC' = "advance"
         /\ ~C_Writes => Received' = Received
         /\ ~C_Writes /\ ~C_Advance => Passed' = Passed
         /\ ~C_OpenOutput =>
              (pcC' \in {"open", "openFailed"} <=> pcC \in {"open", "openFailed"})
<1>1. CASE C_OpenOutput
  BY <1>1 DEF C_OpenOutput, C_Writes, C_Write, C_ShortWrite, Received, Passed, Ind
<1>2. CASE ~C_OpenOutput
  <2>1. /\ C_Writes \/ out' = out
        /\ C_Writes => pcC = "write" /\ pcC' = "advance"
        /\ pcC' \in {"open", "openFailed"} <=> pcC \in {"open", "openFailed"}
        /\ ~C_Writes /\ ~C_Advance => (pcC' = "advance" <=> pcC = "advance")
    BY <1>2
    DEF Next, Producer, Consumer, Environment, Terminated, C_Writes,
        P_InitSemaphores, P_Stat, P_Announce, P_OpenInput, P_Read, P_Finish,
        P_ChunkDone, P_WaitE, P_WaitS, P_StoreCount, P_StoreData, P_SignalS,
        P_SignalN, C_WaitMeta, C_WaitN, C_WaitS, C_Write, C_Advance,
        C_SignalS, C_SignalE, C_LoopDone, C_RemoveSemaphore, ResizeInput, P_Fail, P_StatFails,
        C_Fail, C_ShortWrite
  <2> QED BY <1>2, <2>1 DEF Received, Passed, Ind
<1> QED BY <1>1, <1>2

(* A step stores a count in the slot about to be filled, adds a block at the *)
(* end of the chain, takes the oldest, gives its slot up, or leaves the      *)
(* chain alone.                                                              *)
StoresCount ==
  /\ P_StoreCount
  /\ UNCHANGED <<Live, Passed, Sent, c_index>> /\ Live < NUM_BUFFERS

AddsBlock ==
  /\ P_StoreData
  /\ Live' = Live + 1 /\ Sent' = Sent + BytesToWrite
  /\ UNCHANGED <<Passed, c_index>> /\ Live < NUM_BUFFERS

TakesBlock ==
  /\ C_Writes
  /\ Passed = 0 /\ Passed' = 1 /\ Live > 0
  /\ UNCHANGED <<Live, Sent, buffer, c_index>>

GivesSlotUp ==
  /\ Passed = 1 /\ Passed' = 0 /\ Live > 0
  /\ Live' = Live - 1 /\ c_index' = NextIndex(c_index)
  /\ UNCHANGED <<Sent, buffer, Received, out>>

LeavesChain == UNCHANGED <<Live, Passed, Sent, buffer, c_index, Received>>

(* What the invariants say of the chain's ends.                              *)
LEMMA ChainBounds ==
  ASSUME IInv, ~Removing
  PROVE  /\ Live \in 0 .. NUM_BUFFERS /\ Passed \in 0..1 /\ Passed <= Live
         /\ c_index \in Slots /\ p_index = RingAt(c_index, Live)
         /\ Sent \in Nat /\ Len(content) \in Nat /\ Sent <= Len(content)
         /\ content \in Seq(Byte)
         /\ buffer \in [Slots -> [bytes_to_count : 0 .. STRING_SIZE, string_data : Nat]]
<1>1. pcC \notin {"rmE", "done"}
  BY DEF Removing
<1>2. /\ Live \in 0 .. NUM_BUFFERS
      /\ pcC = "advance" => Live > 0
  BY <1>1, LiveBounds DEF IInv
<1>3. content \in Seq(Byte) /\ Len(content) \in Nat
  BY BufferAssumption DEF IInv, TypeOK
<1> QED BY <1>1, <1>2, <1>3, BufferAssumption
        DEF IInv, TypeOK, SlotInv, SlotAt, Passed, Ind, Sent, ReadInv

(* While nothing is being removed, a step moves one block along the chain    *)
(* from file to ring to copy, or leaves the chain alone.                     *)
LEMMA ChainStep ==
  ASSUME IInv, [Next]_vars, ~Removing'
  PROVE  StoresCount \/ AddsBlock \/ TakesBlock \/ GivesSlotUp \/ LeavesChain
<1>0. /\ ~Removing /\ TypeOK /\ StartInv /\ SlotInv
      /\ Live' = IF pcP = "data" /\ pcP' = "unlockS" THEN Live + 1
                 ELSE IF pcC = "advance" /\ pcC' = "unlockS" THEN Live - 1
                 ELSE Live
      /\ Live \in 0 .. NUM_BUFFERS
      /\ P_HoldsSlot => Live < NUM_BUFFERS
      /\ pcC \in {"write", "advance"} => Live > 0
  <2>1. ~Removing
    BY Frame
  <2>2. pcC \notin {"rmE", "done"} /\ pcC' \notin {"rmE", "done"}
    BY <2>1 DEF Removing
  <2> QED BY <2>1, <2>2, LiveStep, LiveBounds DEF IInv
<1>1. CASE P_StoreCount
  <2>1. pcP = "count" /\ pcP' = "data" /\ c_index' = c_index /\ pcC' = pcC /\ ~P_StoreData
    BY <1>1 DEF P_StoreCount, P_StoreData
  <2>2. Live' = Live /\ Live < NUM_BUFFERS /\ Passed' = Passed /\ Sent' = Sent
    BY <1>0, <2>1, SentStep DEF P_HoldsSlot, Passed, Ind
  <2> QED BY <1>1, <2>1, <2>2 DEF StoresCount
<1>2. CASE P_StoreData
  <2>1. pcP = "data" /\ pcP' = "unlockS" /\ c_index' = c_index /\ pcC' = pcC
    BY <1>2 DEF P_StoreData
  <2>2. Live' = Live + 1 /\ Live < NUM_BUFFERS /\ Passed' = Passed
        /\ Sent' = Sent + BytesToWrite
    BY <1>0, <1>2, <2>1, SentStep DEF P_HoldsSlot, Passed, Ind
  <2> QED BY <1>2, <2>1, <2>2 DEF AddsBlock
<1>3. CASE C_Writes
  <2>1. pcC = "write" /\ pcC' = "advance" /\ pcP' = pcP
        /\ buffer' = buffer /\ c_index' = c_index
    BY <1>3 DEF C_Writes, C_Write, C_ShortWrite
  <2>2. ~P_StoreData
    BY <1>3 DEF C_Writes, C_Write, C_ShortWrite, P_StoreData
  <2> QED BY <1>0, <1>3, <2>1, <2>2, SentStep DEF TakesBlock, Passed, Ind
<1>4. CASE C_Advance
  <2>1. pcC = "advance" /\ pcC' = "unlockS" /\ pcP' = pcP /\ out' = out
        /\ buffer' = buffer /\ c_index' = NextIndex(c_index)
    BY <1>4 DEF C_Advance
  <2>2. ~P_StoreData
    BY <1>4 DEF C_Advance, P_StoreData
  <2> QED BY <1>0, <1>4, <2>1, <2>2, SentStep DEF GivesSlotUp, Passed, Ind, Received
<1>5. CASE ~P_StoreCount /\ ~P_StoreData /\ ~C_Writes /\ ~C_Advance
  BY <1>0, <1>5, Frame, SentStep, OutStep DEF LeavesChain
<1> QED BY <1>1, <1>2, <1>3, <1>4, <1>5

-----------------------------------------------------------------------------
(* The chain has no gap. *)

(* A slot of the chain is not the one the producer fills.                    *)
LEMMA ChainSlot ==
  ASSUME IInv, ~Removing, NEW d \in 0 .. Live - 1
  PROVE  /\ SlotAt(d) = RingAt(c_index, d) /\ SlotAt(d) \in Slots
         /\ Live < NUM_BUFFERS => SlotAt(d) # p_index
<1>1. /\ d \in 0 .. NUM_BUFFERS - 1
      /\ Live \in 0 .. NUM_BUFFERS /\ d # Live
  BY ChainBounds, BufferAssumption
<1>2. RingAt(c_index, d) \in Slots
  BY <1>1, ChainBounds, RingAtType, BufferAssumption
<1>3. ASSUME Live < NUM_BUFFERS
      PROVE  RingAt(c_index, d) # p_index
  BY <1>1, <1>3, ChainBounds, RingAtInjective, BufferAssumption
<1> QED BY <1>2, <1>3 DEF SlotAt

(* Every step keeps the ring in the order of the blocks.                     *)
LEMMA RingStep == IInv /\ RingInv /\ [Next]_vars => RingInv'
<1> SUFFICES ASSUME IInv, RingInv, [Next]_vars, ~Removing' PROVE RingInv'
  BY DEF RingInv
<1> DEFINE Follows(i, b) ==
      /\ b.bytes_to_count > 0
      /\ b.string_data + b.bytes_to_count <= Sent
      /\ b.string_data + b.bytes_to_count =
           IF i + 1 < Live THEN buffer[SlotAt(i + 1)].string_data ELSE Sent
<1>0. /\ ~Removing
      /\ \A i \in Passed .. Live - 1 : Follows(i, buffer[SlotAt(i)])
  BY Frame DEF RingInv
<1>1. SUFFICES ASSUME NEW d \in Passed' .. Live' - 1
               PROVE  Follows(d, buffer[SlotAt(d)])'
  BY DEF RingInv
<1> HIDE DEF Follows
<1>2. CASE StoresCount
  <2>1. /\ Passed' = Passed /\ Live' = Live /\ Sent' = Sent /\ c_index' = c_index
        /\ Live < NUM_BUFFERS
    BY <1>2 DEF StoresCount
  <2>2. ASSUME NEW e \in 0 .. Live - 1
        PROVE  SlotAt(e)' = SlotAt(e) /\ buffer'[SlotAt(e)] = buffer[SlotAt(e)]
    <3>1. SlotAt(e) \in Slots /\ SlotAt(e) # p_index
      BY <1>0, <2>1, ChainSlot
    <3> QED BY <1>0, <1>2, <2>1, <3>1, ChainBounds
            DEF StoresCount, P_StoreCount, SlotAt, RingAt
  <2>3. d \in Passed .. Live - 1 /\ d \in 0 .. Live - 1
        /\ (d + 1 < Live => d + 1 \in 0 .. Live - 1)
    BY <1>0, <1>1, <2>1, ChainBounds
  <2> QED BY <1>0, <2>1, <2>2, <2>3 DEF Follows
<1>3. CASE AddsBlock
  <2>1. /\ Passed' = Passed /\ Live' = Live + 1 /\ c_index' = c_index
        /\ Sent' = Sent + BytesToWrite /\ Live < NUM_BUFFERS
    BY <1>3 DEF AddsBlock
  <2>2. ASSUME NEW e \in 0 .. Live - 1
        PROVE  SlotAt(e)' = SlotAt(e) /\ buffer'[SlotAt(e)] = buffer[SlotAt(e)]
    <3>1. SlotAt(e) \in Slots /\ SlotAt(e) # p_index
      BY <1>0, <2>1, ChainSlot
    <3> QED BY <1>0, <1>3, <2>1, <3>1, ChainBounds
            DEF AddsBlock, P_StoreData, SlotAt, RingAt
  <2>3. /\ RingAt(c_index, Live) = p_index
        /\ buffer'[p_index].string_data = Sent
        /\ buffer'[p_index].bytes_to_count = BytesToWrite
        /\ BytesToWrite \in Nat \ {0}
    <3>1. pcP = "data" /\ buffer' = [buffer EXCEPT ![p_index].string_data = Sent]
      BY <1>3 DEF AddsBlock, P_StoreData, Sent
    <3>2. p_index \in Slots /\ buffer[p_index].bytes_to_count = BytesToWrite
      BY <3>1 DEF IInv, TypeOK, ReadInv
    <3>3. /\ buffer'[p_index].string_data = Sent
          /\ buffer'[p_index].bytes_to_count = BytesToWrite
      BY <1>0, <3>1, <3>2, ChainBounds
    <3>4. nWrite_shm < nRead /\ nRead \in Nat /\ nWrite_shm \in Nat
      BY <3>1 DEF IInv, TypeOK, ReadInv, P_HoldsSlot
    <3>5. BytesToWrite \in Nat \ {0}
      BY <3>4, BufferAssumption DEF BytesToWrite, MinOf
    <3> QED BY <1>0, <3>3, <3>5, ChainBounds
  <2>4. /\ Live \in Nat /\ Passed \in Nat /\ Sent \in Nat
        /\ d \in Passed .. Live
        /\ d < Live => /\ buffer[SlotAt(d)].string_data \in Nat
                       /\ buffer[SlotAt(d)].bytes_to_count \in Nat
    <3>1. /\ Live \in Nat /\ Passed \in Nat /\ Sent \in Nat
          /\ d \in Passed .. Live
      BY <1>0, <1>1, <2>1, ChainBounds
    <3>2. ASSUME d < Live
          PROVE  /\ buffer[SlotAt(d)].string_data \in Nat
                 /\ buffer[SlotAt(d)].bytes_to_count \in Nat
      <4>1. SlotAt(d) \in Slots
        BY <1>0, <3>1, <3>2, ChainSlot
      <4> QED BY <1>0, <4>1, ChainBounds, BufferAssumption
    <3> QED BY <3>1, <3>2
  <2>5. CASE d = Live
    <3>1. SlotAt(d)' = p_index
      BY <2>1, <2>3, <2>5 DEF SlotAt, RingAt
    <3>2. /\ buffer'[SlotAt(d)'].string_data = Sent
          /\ buffer'[SlotAt(d)'].bytes_to_count = BytesToWrite
      BY <3>1, <2>3
    <3>3. ~(d + 1 < Live')
      BY <2>1, <2>4, <2>5
    <3> QED BY <2>1, <2>3, <2>4, <3>2, <3>3 DEF Follows
  <2>6. CASE d = Live - 1
    <3>1. /\ d \in 0 .. Live - 1 /\ d + 1 = Live /\ d + 1 < Live' /\ ~(d + 1 < Live)
          /\ d \in Passed .. Live - 1
      BY <2>1, <2>4, <2>6
    <3>2. SlotAt(d + 1)' = p_index
      BY <2>1, <2>3, <3>1 DEF SlotAt, RingAt
    <3>3. Follows(d, buffer[SlotAt(d)])
      BY <1>0, <3>1
    <3> QED BY <2>1, <2>2, <2>3, <2>4, <3>1, <3>2, <3>3 DEF Follows
  <2>7. CASE d # Live /\ d # Live - 1
    <3>1. /\ d \in 0 .. Live - 1 /\ d + 1 \in 0 .. Live - 1
          /\ d + 1 < Live' /\ d + 1 < Live /\ d \in Passed .. Live - 1
      BY <2>1, <2>4, <2>7
    <3>2. Follows(d, buffer[SlotAt(d)])
      BY <1>0, <3>1
    <3> QED BY <2>1, <2>2, <2>3, <2>4, <3>1, <3>2 DEF Follows
  <2> QED BY <2>5, <2>6, <2>7
<1>4. CASE TakesBlock
  <2>1. /\ d \in Passed .. Live - 1 /\ Live' = Live /\ Sent' = Sent
        /\ buffer' = buffer /\ c_index' = c_index
    BY <1>0, <1>1, <1>4, ChainBounds DEF TakesBlock
  <2> QED BY <1>0, <2>1 DEF Follows, SlotAt, RingAt
<1>5. CASE GivesSlotUp
  <2>1. /\ d \in 0 .. Live - 2 /\ d + 1 \in Passed .. Live - 1 /\ Live \in Nat
        /\ Live' = Live - 1 /\ Sent' = Sent /\ buffer' = buffer
        /\ c_index' = NextIndex(c_index)
    BY <1>0, <1>1, <1>5, ChainBounds DEF GivesSlotUp
  <2>2. ASSUME NEW e \in 0 .. Live - 2
        PROVE  SlotAt(e)' = SlotAt(e + 1)
    <3>1. e \in 0 .. NUM_BUFFERS - 1
      BY <1>0, <2>1, ChainBounds, BufferAssumption
    <3>2. RingAt(NextIndex(c_index), e) = RingAt(c_index, e + 1)
      BY <1>0, <3>1, ChainBounds, RingAtNext
    <3> QED BY <2>1, <3>2 DEF SlotAt, RingAt
  <2>3. Follows(d + 1, buffer[SlotAt(d + 1)])
    BY <1>0, <2>1
  <2>4. d + 1 < Live' <=> (d + 1) + 1 < Live
    BY <2>1
  <2>5. d + 1 < Live' => SlotAt(d + 1)' = SlotAt((d + 1) + 1)
    BY <2>1, <2>2
  <2> QED BY <2>1, <2>2, <2>3, <2>4, <2>5 DEF Follows
<1>6. CASE LeavesChain
  BY <1>0, <1>1, <1>6 DEF LeavesChain, Follows, SlotAt, RingAt
<1> QED BY <1>2, <1>3, <1>4, <1>5, <1>6, ChainStep

-----------------------------------------------------------------------------
(* What the consumer has taken. *)

(* The oldest block that the consumer has not taken begins where the bytes   *)
(* it has taken end.                                                         *)
LEMMA TakenAtWrite ==
  ASSUME IInv, pcC = "write"
  PROVE  /\ Taken = buffer[c_index].string_data
         /\ c_index = SlotAt(0) /\ Passed = 0 /\ 0 \in 0 .. Live - 1
         /\ ~Removing
<1>1. ~Removing /\ Passed = 0
  BY DEF Removing, Passed, Ind
<1>2. Live > 0
  BY LiveBounds DEF IInv
<1>3. c_index = SlotAt(0)
  BY <1>1, ChainBounds, BufferAssumption DEF SlotAt, RingAt, Slots
<1> QED BY <1>1, <1>2, <1>3, ChainBounds DEF Taken

(* The consumer has taken no more bytes than the file has.                   *)
LEMMA TakenBounds ==
  ASSUME IInv, RingInv, ~Removing
  PROVE  Taken \in 0 .. Len(content)
<1>1. CASE Passed < Live
  <2>1. Passed \in 0 .. Live - 1 /\ Passed \in Nat
    BY <1>1, ChainBounds
  <2>2. buffer[SlotAt(Passed)].string_data + buffer[SlotAt(Passed)].bytes_to_count
           <= Len(content)
    BY <2>1 DEF IInv, BlocksInv
  <2>3. SlotAt(Passed) \in Slots
    BY <2>1, ChainSlot
  <2> QED BY <1>1, <2>2, <2>3, ChainBounds DEF Taken
<1>2. CASE ~(Passed < Live)
  BY <1>2, ChainBounds DEF Taken
<1> QED BY <1>1, <1>2

(* The consumer takes the oldest block when it writes it; nothing else moves *)
(* the place up to which it has taken bytes.                                 *)
LEMMA TakenStep ==
  ASSUME IInv, RingInv, [Next]_vars, ~Removing'
  PROVE  /\ C_Writes =>
              Taken' = buffer[c_index].string_data + buffer[c_index].bytes_to_count
         /\ ~C_Writes => Taken' = Taken
<1>0. ~Removing
  BY Frame
<1>1. CASE StoresCount
  <2>1. /\ ~C_Writes /\ Passed' = Passed /\ Live' = Live /\ Sent' = Sent
        /\ c_index' = c_index /\ Live < NUM_BUFFERS
    BY <1>1 DEF StoresCount, P_StoreCount, C_Writes, C_Write, C_ShortWrite
  <2>2. ASSUME Passed < Live
        PROVE  buffer'[SlotAt(Passed)].string_data = buffer[SlotAt(Passed)].string_data
    <3>1. SlotAt(Passed) \in Slots /\ SlotAt(Passed) # p_index
      BY <1>0, <2>1, <2>2, ChainSlot, ChainBounds
    <3> QED BY <1>0, <1>1, <3>1, ChainBounds DEF StoresCount, P_StoreCount
  <2> QED BY <2>1, <2>2 DEF Taken, SlotAt, RingAt
<1>2. CASE AddsBlock
  <2>1. /\ ~C_Writes /\ Passed' = Passed /\ Live' = Live + 1 /\ c_index' = c_index
        /\ Live < NUM_BUFFERS /\ Live \in Nat /\ Passed \in Nat /\ Passed <= Live
    BY <1>0, <1>2, ChainBounds
    DEF AddsBlock, P_StoreData, C_Writes, C_Write, C_ShortWrite
  <2>2. CASE Passed < Live
    <3>1. SlotAt(Passed) \in Slots /\ SlotAt(Passed) # p_index
      BY <1>0, <2>1, <2>2, ChainSlot
    <3>2. buffer'[SlotAt(Passed)].string_data = buffer[SlotAt(Passed)].string_data
      BY <1>0, <1>2, <3>1, ChainBounds DEF AddsBlock, P_StoreData
    <3> QED BY <2>1, <2>2, <3>2 DEF Taken, SlotAt, RingAt
  <2>3. CASE Passed = Live
    <3>1. RingAt(c_index, Passed) = p_index /\ p_index \in Slots
      BY <1>0, <2>3, ChainBounds DEF IInv, TypeOK
    <3>2. buffer'[p_index].string_data = Sent
      BY <1>0, <1>2, <3>1, ChainBounds DEF AddsBlock, P_StoreData, Sent
    <3> QED BY <2>1, <2>3, <3>1, <3>2 DEF Taken, SlotAt, RingAt
  <2> QED BY <2>1, <2>2, <2>3
<1>3. CASE TakesBlock
  <2>1. /\ pcC = "write" /\ C_Writes /\ Passed = 0 /\ Passed' = 1 /\ Live' = Live
        /\ Sent' = Sent /\ buffer' = buffer /\ c_index' = c_index
    BY <1>3, OutStep DEF TakesBlock
  <2>2. c_index = SlotAt(0) /\ 0 \in Passed .. Live - 1 /\ Live \in Nat
    BY <1>0, <2>1, TakenAtWrite, ChainBounds
  <2>3. buffer[c_index].string_data + buffer[c_index].bytes_to_count
          = IF 1 < Live THEN buffer[SlotAt(1)].string_data ELSE Sent
    BY <1>0, <2>2 DEF RingInv
  <2> QED BY <2>1, <2>3 DEF Taken, SlotAt, RingAt
<1>4. CASE GivesSlotUp
  <2>1. /\ ~C_Writes /\ Passed = 1 /\ Passed' = 0 /\ Live' = Live - 1 /\ Live > 0
        /\ Sent' = Sent /\ buffer' = buffer /\ c_index' = NextIndex(c_index)
        /\ Live \in Nat
    BY <1>0, <1>4, OutStep, ChainBounds DEF GivesSlotUp, Passed, Ind
  <2>2. RingAt(NextIndex(c_index), 0) = RingAt(c_index, 0 + 1)
    BY <1>0, ChainBounds, RingAtNext, BufferAssumption
  <2> QED BY <2>1, <2>2 DEF Taken, SlotAt, RingAt
<1>5. CASE LeavesChain
  <2>1. ~C_Writes
    BY <1>5, OutStep DEF LeavesChain, Passed, Ind
  <2> QED BY <1>5, <2>1 DEF LeavesChain, Taken, SlotAt, RingAt
<1> QED BY <1>1, <1>2, <1>3, <1>4, <1>5, ChainStep

-----------------------------------------------------------------------------
(* What reaches the output. *)

(* strncpy delivers as many bytes as it is asked for, in a file without NUL  *)
(* as they are.                                                              *)
LEMMA DeliveredBytes ==
  ASSUME content \in Seq(Byte), NEW off \in Nat, NEW n \in Nat,
         off + n <= Len(content)
  PROVE  /\ Delivered(off, n) \in Seq(Byte) /\ Len(Delivered(off, n)) = n
         /\ NulFree => \A k \in 1..n : Delivered(off, n)[k] = content[off + k]
<1>1. Delivered(off, n) \in Seq(Byte)
  BY DeliveredType
<1>2. Len(Delivered(off, n)) = n
  <2>1. DOMAIN Delivered(off, n) = 1..n
    BY DEF Delivered
  <2>2. /\ Len(Delivered(off, n)) \in Nat
        /\ DOMAIN Delivered(off, n) = 1 .. Len(Delivered(off, n))
    BY <1>1, LenProperties
  <2> QED BY <2>1, <2>2
<1>3. ASSUME NulFree, NEW k \in 1..n
      PROVE  Delivered(off, n)[k] = content[off + k]
  <2>1. ASSUME NEW j \in 1..k
        PROVE  content[off + j] # NUL
    <3>1. off + j \in 1 .. Len(content)
      BY <1>3, Len(content) \in Nat
    <3> QED BY <1>3, <3>1 DEF NulFree
  <2> QED BY <1>3, <2>1 DEF Delivered
<1> QED BY <1>1, <1>2, <1>3

(* A write appends the first n bytes of the oldest block, all of them unless *)
(* the write is short.                                                       *)
LEMMA WriteStep ==
  ASSUME IInv, C_Writes
  PROVE  \E n \in 0 .. buffer[c_index].bytes_to_count :
           /\ C_ShortWrite \/ n = buffer[c_index].bytes_to_count
           /\ out' \in Seq(Byte) /\ Len(out') = Len(out) + n
           /\ \A k \in 1 .. Len(out) : out'[k] = out[k]
           /\ NulFree =>
                \A k \in 1..n : out'[Len(out) + k] = content[buffer[c_index].string_data + k]
<1> DEFINE off == buffer[c_index].string_data
<1>1. /\ pcC = "write" /\ out \in Seq(Byte) /\ content \in Seq(Byte)
      /\ buffer[c_index].bytes_to_count \in Nat /\ off \in Nat
      /\ off + buffer[c_index].bytes_to_count <= Len(content)
      /\ Len(content) \in Nat
  <2>1. pcC = "write"
    BY DEF C_Writes, C_Write, C_ShortWrite
  <2> QED BY <2>1, OldestBlockBounds, BufferAssumption DEF IInv, TypeOK
<1>2. PICK n \in 0 .. buffer[c_index].bytes_to_count :
        CopyOut(n) /\ (C_ShortWrite \/ n = buffer[c_index].bytes_to_count)
  BY <1>1 DEF C_Writes, C_Write, C_ShortWrite
<1>3. n \in Nat /\ off + n <= Len(content)
  BY <1>1
<1>4. out' = out \o Delivered(off, n)
  BY <1>2 DEF CopyOut
<1> HIDE DEF off
<1>5. /\ Delivered(off, n) \in Seq(Byte) /\ Len(Delivered(off, n)) = n
      /\ NulFree => \A k \in 1..n : Delivered(off, n)[k] = content[off + k]
  BY <1>1, <1>3, DeliveredBytes
<1>6. /\ out' \in Seq(Byte) /\ Len(out') = Len(out) + n
      /\ \A i \in 1 .. Len(out) + n :
           out'[i] = IF i <= Len(out) THEN out[i] ELSE Delivered(off, n)[i - Len(out)]
  BY <1>1, <1>4, <1>5, ConcatProperties
<1>7. Len(out) \in Nat
  BY <1>1
<1>8. \A k \in 1 .. Len(out) : out'[k] = out[k]
  BY <1>3, <1>6, <1>7
<1>9. \A k \in 1..n : out'[Len(out) + k] = Delivered(off, n)[k]
  <2> TAKE k \in 1..n
  <2>1. /\ Len(out) + k \in 1 .. Len(out) + n /\ ~(Len(out) + k <= Len(out))
        /\ (Len(out) + k) - Len(out) = k
    BY <1>3, <1>7
  <2> QED BY <1>6, <2>1
<1> QED BY <1>2, <1>5, <1>6, <1>8, <1>9 DEF off

(* Without short writes the output stays a prefix of the input, and all that *)
(* the consumer has taken is in it.                                          *)
LEMMA PrefixStep ==
  ASSUME "short" \notin FAULTS
  PROVE  IInv /\ RingInv /\ ChainInv /\ [Next]_vars => ChainInv'
<1> SUFFICES ASSUME IInv, RingInv, ChainInv, [Next]_vars
             PROVE  ChainInv'
  OBVIOUS
<1>0. /\ content' = content /\ content \in Seq(Byte) /\ Len(content) \in Nat
      /\ out \in Seq(Byte) /\ (NulFree' <=> NulFree)
  BY Frame, BufferAssumption DEF IInv, TypeOK, NulFree
<1>1. CASE C_Writes
  <2>1. /\ pcC = "write" /\ pcC' = "advance" /\ ~Removing /\ ~Removing'
    BY <1>1, OutStep DEF Removing
  <2>2. Taken' = buffer[c_index].string_data + buffer[c_index].bytes_to_count
    BY <1>1, <2>1, TakenStep
  <2>3. /\ buffer[c_index].string_data = Len(out)
        /\ Len(out) + buffer[c_index].bytes_to_count <= Len(content)
    BY <2>1, TakenAtWrite, OldestBlockBounds DEF ChainInv, Received
  <2>4. /\ Len(out') = Len(out) + buffer[c_index].bytes_to_count
        /\ \A k \in 1 .. Len(out) : out'[k] = out[k]
        /\ NulFree => \A k \in 1 .. buffer[c_index].bytes_to_count :
                        out'[Len(out) + k] = content[Len(out) + k]
    <3>1. ~C_ShortWrite
      BY DEF C_ShortWrite
    <3> QED BY <1>1, <2>3, <3>1, WriteStep
  <2>5. Received' = Taken'
    BY <2>1, <2>2, <2>3, <2>4 DEF Received
  <2>6. ASSUME NulFree
        PROVE  IsPrefixOfInput'
    <3>1. \A k \in 1 .. Len(out) : out[k] = content[k]
      BY <2>1, <2>6 DEF ChainInv, CopyFaithful, IsPrefixOfInput
    <3>2. ASSUME NEW k \in 1 .. Len(out')
          PROVE  out'[k] = content[k]
      <4>1. CASE k \in 1 .. Len(out)
        BY <2>4, <3>1, <4>1
      <4>2. CASE k \notin 1 .. Len(out)
        <5>1. /\ k - Len(out) \in 1 .. buffer[c_index].bytes_to_count
              /\ Len(out) + (k - Len(out)) = k
          BY <1>0, <2>1, <2>4, <4>2, OldestBlockBounds
        <5> QED BY <2>4, <2>6, <5>1
      <4> QED BY <4>1, <4>2
    <3> QED BY <1>0, <2>3, <2>4, <3>2 DEF IsPrefixOfInput
  <2> QED BY <1>0, <2>5, <2>6 DEF ChainInv, CopyFaithful
<1>2. CASE C_OpenOutput
  <2>1. /\ out' = <<>> /\ pcC = "open" /\ pcC' = "waitMeta" /\ ~Removing /\ ~Removing'
        /\ ~C_Writes
    BY <1>2, OutStep DEF Removing
  <2>2. IsPrefixOfInput'
    BY <1>0, <2>1 DEF IsPrefixOfInput
  <2>3. Received' = Received /\ Taken' = Taken
    BY <2>1, OutStep, TakenStep
  <2> QED BY <2>1, <2>2, <2>3 DEF ChainInv, CopyFaithful
<1>3. CASE ~C_Writes /\ ~C_OpenOutput
  <2>1. /\ out' = out /\ Received' = Received
        /\ pcC' \in {"open", "openFailed"} <=> pcC \in {"open", "openFailed"}
    BY <1>3, OutStep
  <2>2. ~Removing' => ~Removing /\ Taken' = Taken
    BY <1>3, Frame, TakenStep
  <2>3. CopyFaithful'
    BY <1>0, <2>1 DEF ChainInv, CopyFaithful, IsPrefixOfInput
  <2> QED BY <2>1, <2>2, <2>3 DEF ChainInv
<1> QED BY <1>1, <1>2, <1>3

(* The bytes of the oldest block come after all that was taken before, and   *)
(* end where the next block begins: a write keeps the order.                 *)
LEMMA KeptStep == IInv /\ RingInv /\ KeptInv /\ [Next]_vars => KeptInv'
<1> SUFFICES ASSUME IInv, RingInv, KeptInv, [Next]_vars, NulFree',
                    pcC' \notin {"open", "openFailed"}
             PROVE  /\ KeptWithin(Len(content))'
                    /\ ~Removing' => KeptWithin(Taken)'
  BY DEF KeptInv, OrderKept
<1>0. /\ content' = content /\ content \in Seq(Byte) /\ Len(content) \in Nat
      /\ out \in Seq(Byte) /\ Len(out) \in Nat /\ NulFree
  BY Frame, BufferAssumption DEF IInv, TypeOK, NulFree
<1>1. CASE C_Writes
  <2> DEFINE off == buffer[c_index].string_data
             cnt == buffer[c_index].bytes_to_count
  <2>1. /\ pcC = "write" /\ ~Removing /\ ~Removing' /\ Taken = off
        /\ Taken' = off + cnt
    BY <1>1, OutStep, TakenStep, TakenAtWrite DEF Removing
  <2>2. off \in Nat /\ cnt \in Nat /\ off + cnt <= Len(content)
    BY <2>1, OldestBlockBounds
  <2>3. PICK n \in 0 .. cnt :
          /\ Len(out') = Len(out) + n
          /\ \A k \in 1 .. Len(out) : out'[k] = out[k]
          /\ \A k \in 1..n : out'[Len(out) + k] = content[off + k]
    BY <1>0, <1>1, WriteStep
  <2>4. KeptWithin(off)
    BY <1>0, <2>1 DEF KeptInv
  <2> HIDE DEF off, cnt
  <2>5. PICK f \in [1 .. Len(out) -> 1 .. off] :
          /\ \A i, j \in 1 .. Len(out) : i < j => f[i] < f[j]
          /\ \A k \in 1 .. Len(out) : out[k] = content[f[k]]
    BY <2>4 DEF KeptWithin
  <2> DEFINE g == [k \in 1 .. Len(out) + n |->
                     IF k <= Len(out) THEN f[k] ELSE off + (k - Len(out))]
  <2>6. g \in [1 .. Len(out) + n -> 1 .. off + cnt]
    <3>1. ASSUME NEW k \in 1 .. Len(out) + n
          PROVE  g[k] \in 1 .. off + cnt
      <4>1. CASE k <= Len(out)
        <5>1. f[k] \in 1 .. off
          BY <1>0, <4>1
        <5> QED BY <2>2, <4>1, <5>1
      <4>2. CASE ~(k <= Len(out))
        BY <1>0, <2>2, <4>2
      <4> QED BY <4>1, <4>2
    <3> QED BY <3>1
  <2>7. ASSUME NEW i \in 1 .. Len(out) + n, NEW j \in 1 .. Len(out) + n, i < j
        PROVE  g[i] < g[j]
    <3>1. CASE j <= Len(out)
      BY <1>0, <2>5, <2>7, <3>1
    <3>2. CASE ~(j <= Len(out)) /\ i <= Len(out)
      <4>1. f[i] \in 1 .. off
        BY <1>0, <3>2
      <4>2. g[j] = off + (j - Len(out)) /\ g[i] = f[i]
        BY <3>2
      <4> QED BY <1>0, <2>2, <3>2, <4>1, <4>2
    <3>3. CASE ~(i <= Len(out))
      <4>1. g[j] = off + (j - Len(out)) /\ g[i] = off + (i - Len(out))
        BY <1>0, <2>7, <3>3
      <4> QED BY <1>0, <2>2, <2>7, <4>1
    <3> QED BY <1>0, <2>7, <3>1, <3>2, <3>3
  <2>8. ASSUME NEW k \in 1 .. Len(out) + n
        PROVE  out'[k] = content[g[k]]
    <3>1. CASE k <= Len(out)
      BY <1>0, <2>3, <2>5, <3>1
    <3>2. CASE ~(k <= Len(out))
      <4>1. k - Len(out) \in 1..n /\ Len(out) + (k - Len(out)) = k
        BY <1>0, <3>2
      <4>2. out'[k] = content[off + (k - Len(out))]
        BY <2>3, <4>1
      <4> QED BY <3>2, <4>2
    <3> QED BY <3>1, <3>2
  <2> HIDE DEF g
  <2>9. \E h \in [1 .. Len(out') -> 1 .. off + cnt] :
          /\ \A i, j \in 1 .. Len(out') : i < j => h[i] < h[j]
          /\ \A k \in 1 .. Len(out') : out'[k] = content'[h[k]]
    BY <1>0, <2>3, <2>6, <2>7, <2>8
  <2>10. \A m \in Nat : off + cnt <= m =>
          \E h \in [1 .. Len(out') -> 1 .. m] :
            /\ \A i, j \in 1 .. Len(out') : i < j => h[i] < h[j]
            /\ \A k \in 1 .. Len(out') : out'[k] = content'[h[k]]
    <3> TAKE m \in Nat
    <3> HAVE off + cnt <= m
    <3>1. PICK h \in [1 .. Len(out') -> 1 .. off + cnt] :
            /\ \A i, j \in 1 .. Len(out') : i < j => h[i] < h[j]
            /\ \A k \in 1 .. Len(out') : out'[k] = content'[h[k]]
      BY <2>9
    <3>2. h \in [1 .. Len(out') -> 1 .. m]
      BY <2>2
    <3> QED BY <3>1, <3>2
  <2>11. KeptWithin(Len(content))'
    BY <1>0, <2>2, <2>10 DEF KeptWithin
  <2>12. KeptWithin(Taken)'
    BY <2>1, <2>9 DEF KeptWithin
  <2> QED BY <2>11, <2>12
<1>2. CASE C_OpenOutput
  <2>1. out' = <<>>
    BY <1>2, OutStep
  <2>2. ASSUME NEW T
        PROVE  \E f \in [1 .. Len(out') -> T] :
                 /\ \A i, j \in 1 .. Len(out') : i < j => f[i] < f[j]
                 /\ \A k \in 1 .. Len(out') : out'[k] = content'[f[k]]
    <3>1. 1 .. Len(out') = {}
      BY <2>1
    <3> DEFINE f == [k \in 1 .. Len(out') |-> k]
    <3>2. f \in [1 .. Len(out') -> T]
      BY <3>1
    <3> QED BY <3>1, <3>2
  <2> QED BY <2>2 DEF KeptWithin
<1>3. CASE ~C_Writes /\ ~C_OpenOutput
  <2>1. /\ out' = out
        /\ pcC \notin {"open", "openFailed"}
        /\ ~Removing' => ~Removing /\ Taken' = Taken
    BY <1>3, OutStep, Frame, TakenStep
  <2>2. KeptWithin(Len(content)) /\ (~Removing => KeptWithin(Taken))
    BY <1>0, <2>1 DEF KeptInv, OrderKept
  <2>3. KeptWithin(Len(content))'
    BY <1>0, <2>1, <2>2 DEF KeptWithin
  <2>4. ~Removing' => KeptWithin(Taken)'
    BY <1>0, <2>1, <2>2 DEF KeptWithin
  <2> QED BY <2>3, <2>4
<1> QED BY <1>1, <1>2, <1>3

-----------------------------------------------------------------------------
(* The end of a session. *)

(* The consumer never has written more than it took.                         *)
LEMMA ReceivedStep == IInv /\ RingInv /\ TakenInv /\ [Next]_vars => TakenInv'
<1> SUFFICES ASSUME IInv, RingInv, TakenInv, [Next]_vars, ~Removing'
             PROVE  Received' <= Taken'
  BY DEF TakenInv
<1>1. CASE C_Writes
  <2>1. /\ pcC = "write" /\ pcC' = "advance" /\ ~Removing
        /\ Taken' = buffer[c_index].string_data + buffer[c_index].bytes_to_count
        /\ Taken = buffer[c_index].string_data
    BY <1>1, OutStep, TakenStep, TakenAtWrite DEF Removing
  <2>2. /\ Len(out) <= buffer[c_index].string_data
        /\ Received' = Len(out')
    BY <2>1 DEF TakenInv, Received
  <2>3. PICK n \in 0 .. buffer[c_index].bytes_to_count : Len(out') = Len(out) + n
    BY <1>1, WriteStep
  <2>4. /\ buffer[c_index].string_data \in Nat /\ buffer[c_index].bytes_to_count \in Nat
        /\ Len(out) \in Nat
    BY <2>1, OldestBlockBounds DEF IInv, TypeOK
  <2> QED BY <2>1, <2>2, <2>3, <2>4
<1>2. CASE C_OpenOutput
  <2>1. /\ pcC = "open" /\ pcC' = "waitMeta" /\ ~Removing /\ ~C_Writes
    BY <1>2, OutStep DEF Removing
  <2>2. Received' = Received /\ Taken' = Taken
    BY <2>1, OutStep, TakenStep
  <2> QED BY <2>1, <2>2 DEF TakenInv
<1>3. CASE ~C_Writes /\ ~C_OpenOutput
  <2>1. Received' = Received /\ ~Removing /\ Taken' = Taken
    BY <1>3, OutStep, Frame, TakenStep
  <2> QED BY <2>1 DEF TakenInv
<1> QED BY <1>1, <1>2, <1>3

(* As many numbers in increasing order as there are leave none out.          *)
LEMMA NoneLeftOut ==
  ASSUME NEW m \in Nat, NEW n \in Nat, m >= n, NEW f \in [1 .. m -> 1 .. n],
         \A i, j \in 1 .. m : i < j => f[i] < f[j]
  PROVE  m = n /\ \A k \in 1 .. m : f[k] = k
<1>1. ASSUME NEW i \in 1 .. m, NEW j \in 1 .. m, f[i] = f[j]
      PROVE  i = j
  <2>1. f[i] \in 1 .. n /\ f[j] \in 1 .. n
    OBVIOUS
  <2>2. ~(i < j) /\ ~(j < i)
    BY <1>1, <2>1
  <2> QED BY <2>2
<1>2. ASSUME NEW a \in 1 .. m, NEW b \in 1 .. m, NEW c \in 1 .. n, NEW d \in 1 .. n,
             a <= b, \A i \in a .. b : f[i] \in c .. d
      PROVE  b - a <= d - c
  <2> DEFINE g == [i \in a .. b |-> f[i]]
  <2>1. \A i \in a .. b : i \in 1 .. m /\ g[i] = f[i]
    OBVIOUS
  <2>2. g \in [a .. b -> c .. d]
    BY <1>2
  <2> HIDE DEF g
  <2>3. \A i, j \in a .. b : g[i] = g[j] => i = j
    BY <1>1, <2>1
  <2>4. g \in Injection(a .. b, c .. d)
    BY <2>2, <2>3 DEF Injection, IsInjective
  <2>5. IsFiniteSet(c .. d) /\ Cardinality(c .. d) = (IF c > d THEN 0 ELSE d - c + 1)
    BY FS_Interval
  <2>6. Cardinality(a .. b) = b - a + 1
    BY <1>2, FS_Interval
  <2>7. Cardinality(a .. b) <= Cardinality(c .. d)
    BY <2>4, <2>5, FS_Injection
  <2> QED BY <1>2, <2>5, <2>6, <2>7
<1>3. CASE m = 0
  BY <1>3
<1>4. CASE m > 0
  <2>1. 1 \in 1 .. m /\ m \in 1 .. m /\ f[1] \in 1 .. n
    BY <1>4
  <2>2. 1 \in 1 .. n /\ n \in 1 .. n
    BY <2>1
  <2>3. m = n
    <3>1. \A i \in 1 .. m : f[i] \in 1 .. n
      OBVIOUS
    <3>2. 1 <= m /\ \A i \in 1 .. m : f[i] \in 1 .. n
      BY <2>1, <3>1
    <3>3. m - 1 <= n - 1
      BY <1>2, <2>1, <2>2, <3>2, Zenon
    <3> QED BY <3>3
  <2>4. ASSUME NEW k \in 1 .. m
        PROVE  f[k] = k
    <3>1. f[k] \in 1 .. n
      OBVIOUS
    <3>2. /\ \A i \in 1 .. k : f[i] \in 1 .. f[k]
          /\ \A i \in k .. m : f[i] \in f[k] .. n
      <4>1. ASSUME NEW i \in 1 .. m
            PROVE  /\ f[i] \in 1 .. n
                   /\ i <= k => f[i] <= f[k]
                   /\ k <= i => f[k] <= f[i]
        <5>1. f[i] \in 1 .. n
          OBVIOUS
        <5>2. (i < k => f[i] < f[k]) /\ (k < i => f[k] < f[i])
          OBVIOUS
        <5> QED BY <3>1, <5>1, <5>2
      <4>2. \A i \in 1 .. k : i \in 1 .. m /\ i <= k
        OBVIOUS
      <4>3. \A i \in k .. m : i \in 1 .. m /\ k <= i
        OBVIOUS
      <4> QED BY <3>1, <4>1, <4>2, <4>3
    <3>3. 1 <= k /\ k <= m /\ k \in Int /\ m \in Int /\ n \in Int /\ f[k] \in Int
      BY <3>1
    <3>4. k - 1 <= f[k] - 1
      BY <1>2, <2>1, <2>2, <3>1, <3>2, <3>3
    <3>5. m - k <= n - f[k]
      BY <1>2, <2>1, <2>2, <3>1, <3>2, <3>3
    <3> QED BY <2>3, <3>3, <3>4, <3>5
  <2> QED BY <2>3, <2>4
<1> QED BY <1>3, <1>4


(* What each step does to the producer's counters and to the announced size, *)
(* as far as the end of the session depends on it.                           *)
LEMMA CounterStep ==
  ASSUME [Next]_vars
  PROVE  /\ P_Stat \/ P_StatFails \/ file_byte_count' = file_byte_count
         /\ ResizeInput \/ avail' = avail
         /\ P_Read \/ nRead' = nRead
         /\ P_ChunkDone \/ nWrite_shmTot' = nWrite_shmTot
         /\ P_ChunkDone \/ P_StoreData \/ nWrite_shm' = nWrite_shm
         /\ pcP' \in {"sems", "stat"} => pcP \in {"sems", "stat"} /\ ~P_Stat
         /\ P_Stat => pcP = "stat" /\ pcP' = "announce"
         /\ P_StatFails => "stat" \in FAULTS
BY DEF Next, Producer, Consumer, Environment, Terminated,
       P_InitSemaphores, P_Stat, P_Announce, P_OpenInput, P_Read, P_Finish,
       P_ChunkDone, P_WaitE, P_WaitS, P_StoreCount, P_StoreData, P_SignalS,
       P_SignalN, C_OpenOutput, C_WaitMeta, C_WaitN, C_WaitS, C_Write, C_Advance,
       C_SignalS, C_SignalE, C_LoopDone, C_RemoveSemaphore, ResizeInput,
       P_Fail, P_StatFails, C_Fail, C_ShortWrite

(* The consumer's loop ends only when the producer has nothing left to store:*)
(* what it has delivered is then all that was announced, and the producer    *)
(* never goes beyond that.                                                   *)
LEMMA LoopDoneStep ==
  ASSUME IInv, RingInv, TakenInv, TeardownInv, C_LoopDone
  PROVE  /\ pcP \in {"openFile", "read", "fill", "done", "failed"}
         /\ pcP = "fill" => nWrite_shm = nRead /\ nWrite_shmTot + nRead >= file_byte_count
         /\ pcP \in {"openFile", "read"} => nWrite_shmTot >= file_byte_count
<1>1. /\ pcC = "loop" /\ Len(out) >= file_byte_count /\ ~Removing
      /\ Received = Len(out) /\ Passed = 0
  BY DEF C_LoopDone, nWrite_file, Removing, Received, Passed, Ind
<1>2. pcP \notin {"sems", "stat", "announce"}
  BY <1>1 DEF IInv, StartInv
<1>3. /\ Len(out) \in Nat /\ file_byte_count \in Nat /\ nRead \in Nat
      /\ nWrite_shm \in 0 .. nRead /\ nWrite_shmTot \in Nat /\ Len(content) \in Nat
  BY BufferAssumption DEF IInv, TypeOK
<1>4. Taken >= file_byte_count /\ Taken \in Nat
  BY <1>1, <1>3, TakenBounds DEF TakenInv
<1>5. /\ Live \in 0 .. NUM_BUFFERS /\ Sent \in Nat
      /\ buffer \in [Slots -> [bytes_to_count : 0 .. STRING_SIZE, string_data : Nat]]
  BY <1>1, ChainBounds
<1>6. ASSUME Live # 0
      PROVE  Taken < Sent
  <2>1. 0 \in 0 .. Live - 1 /\ SlotAt(0) \in Slots
    BY <1>1, <1>5, <1>6, ChainSlot
  <2>2. /\ buffer[SlotAt(0)].bytes_to_count > 0
        /\ buffer[SlotAt(0)].string_data + buffer[SlotAt(0)].bytes_to_count <= Sent
    BY <1>1, <2>1 DEF RingInv
  <2> QED BY <1>1, <1>5, <2>1, <2>2 DEF Taken
<1>7. Live = 0 => Taken = Sent
  BY <1>1 DEF Taken
<1>8. pcP \in {"fill", "lockS", "count", "data", "unlockS", "signalN"} =>
        /\ Sent <= file_byte_count
        /\ nWrite_shm < nRead => Sent < file_byte_count
  BY <1>3 DEF TeardownInv, Sent
<1>9. CASE pcP \in {"fill", "lockS", "count", "data", "unlockS", "signalN"}
  <2>1. Live = 0 /\ nWrite_shm = nRead /\ Sent = file_byte_count
    BY <1>3, <1>4, <1>5, <1>6, <1>7, <1>8, <1>9
  <2>2. pcP \notin {"unlockS", "signalN"}
    BY <1>1, <2>1 DEF Live, Announced, Ind, IInv, TypeOK
  <2>3. ~P_HoldsSlot
    BY <2>1, <1>3 DEF IInv, ReadInv
  <2>4. pcP = "fill"
    BY <1>9, <2>2, <2>3 DEF P_HoldsSlot
  <2> QED BY <2>1, <2>4, <1>3 DEF Sent
<1>10. CASE pcP \in {"openFile", "read"}
  <2>1. Sent = nWrite_shmTot
    BY <1>3, <1>10 DEF Sent, IInv, StartInv, ReadInv
  <2> QED BY <1>3, <1>4, <1>5, <1>6, <1>7, <1>10, <2>1
<1>11. CASE pcP \in {"done", "failed"}
  BY <1>11
<1>12. pcP \in {"openFile", "read", "fill", "lockS", "count", "data", "unlockS",
                "signalN", "done", "failed"}
  BY <1>2 DEF IInv, TypeOK
<1> QED BY <1>9, <1>10, <1>11, <1>12

(* The file does not grow after it was measured, so no read goes beyond the  *)
(* announced size; and once the consumer cleans up, the producer only ends.  *)
LEMMA TeardownStep ==
  ASSUME FAULTS \intersect {"stat", "grow"} = {}
  PROVE  IInv /\ RingInv /\ TakenInv /\ TeardownInv /\ [Next]_vars => TeardownInv'
<1> SUFFICES ASSUME IInv, RingInv, TakenInv, TeardownInv, [Next]_vars
             PROVE  TeardownInv'
  OBVIOUS
<1>s. "grow" \notin FAULTS /\ ~P_StatFails
  BY CounterStep
<1>0. /\ avail \in Nat /\ file_byte_count \in Nat /\ nRead \in Nat
      /\ nWrite_shm \in 0 .. nRead /\ nWrite_shmTot \in Nat /\ Len(out) \in Nat
      /\ Len(content) \in Nat
  BY BufferAssumption DEF IInv, TypeOK
<1>1. pcP' \notin {"sems", "stat"} => avail' <= file_byte_count'
  <2>1. CASE P_Stat
    <3>1. avail' = avail /\ file_byte_count' = avail
      BY <2>1 DEF P_Stat
    <3> QED BY <1>0, <3>1
  <2>2. CASE ResizeInput
    <3>1. avail' <= avail /\ file_byte_count' = file_byte_count /\ pcP' = pcP
      BY <1>0, <1>s, <2>2 DEF ResizeInput
    <3>2. avail' \in Int
      BY <1>0, <2>2 DEF ResizeInput
    <3> QED BY <1>0, <3>1, <3>2 DEF TeardownInv
  <2>3. CASE ~P_Stat /\ ~ResizeInput
    <3>1. file_byte_count' = file_byte_count /\ avail' = avail
      BY <1>s, <2>3, CounterStep
    <3>2. pcP \in {"sems", "stat"} => pcP' \in {"sems", "stat"}
      BY <1>s, <2>3
      DEF Next, Producer, Consumer, Environment, Terminated,
          P_InitSemaphores, P_Stat, P_Announce, P_OpenInput, P_Read, P_Finish,
          P_ChunkDone, P_WaitE, P_WaitS, P_StoreCount, P_StoreData, P_SignalS,
          P_SignalN, C_OpenOutput, C_WaitMeta, C_WaitN, C_WaitS, C_Write, C_Advance,
          C_SignalS, C_SignalE, C_LoopDone, C_RemoveSemaphore, P_Fail, C_Fail,
          C_ShortWrite
    <3> QED BY <3>1, <3>2 DEF TeardownInv
  <2> QED BY <2>1, <2>2, <2>3
<1> DEFINE Filling == pcP \in {"fill", "lockS", "count", "data", "unlockS", "signalN"}
<1>2. Filling' => (nWrite_shmTot + nRead <= file_byte_count)'
  <2>1. CASE P_Read
    <3>1. /\ pcP = "read" /\ nRead' = BytesToRead /\ nWrite_shmTot' = nWrite_shmTot
          /\ file_byte_count' = file_byte_count /\ BytesToRead > 0
      BY <2>1 DEF P_Read
    <3>2. avail <= file_byte_count
      BY <3>1 DEF TeardownInv
    <3>3. BytesToRead \in Nat /\ BytesToRead <= avail - nWrite_shmTot
      BY <1>0, <3>1, BufferAssumption DEF BytesToRead, MinOf
    <3> QED BY <1>0, <3>1, <3>2, <3>3
  <2>2. CASE P_ChunkDone
    BY <2>2 DEF P_ChunkDone
  <2>3. CASE P_Stat
    BY <2>3 DEF P_Stat
  <2>4. CASE ~P_Read /\ ~P_ChunkDone /\ ~P_Stat
    <3>1. /\ nRead' = nRead /\ nWrite_shmTot' = nWrite_shmTot
          /\ file_byte_count' = file_byte_count
      BY <1>s, <2>4, CounterStep
    <3>2. Filling' => Filling
      BY <2>4
      DEF Next, Producer, Consumer, Environment, Terminated,
          P_InitSemaphores, P_Stat, P_Announce, P_OpenInput, P_Read, P_Finish,
          P_ChunkDone, P_WaitE, P_WaitS, P_StoreCount, P_StoreData, P_SignalS,
          P_SignalN, C_OpenOutput, C_WaitMeta, C_WaitN, C_WaitS, C_Write, C_Advance,
          C_SignalS, C_SignalE, C_LoopDone, C_RemoveSemaphore, ResizeInput,
          P_Fail, P_StatFails, C_Fail, C_ShortWrite
    <3> QED BY <3>1, <3>2 DEF TeardownInv
  <2> QED BY <2>1, <2>2, <2>3, <2>4
<1> DEFINE Stays ==
      /\ Received >= file_byte_count
      /\ pcP \in {"openFile", "read", "fill", "done", "failed"}
      /\ pcP = "fill" => nWrite_shm = nRead /\ nWrite_shmTot + nRead >= file_byte_count
      /\ pcP \in {"openFile", "read"} => nWrite_shmTot >= file_byte_count
<1>3. ASSUME ~Removing, Removing'
      PROVE  Stays'
  <2>1. C_LoopDone
    BY <1>3
    DEF Next, Producer, Consumer, Environment, Terminated, Removing,
        P_InitSemaphores, P_Stat, P_Announce, P_OpenInput, P_Read, P_Finish,
        P_ChunkDone, P_WaitE, P_WaitS, P_StoreCount, P_StoreData, P_SignalS,
        P_SignalN, C_OpenOutput, C_WaitMeta, C_WaitN, C_WaitS, C_Write, C_Advance,
        C_SignalS, C_SignalE, C_LoopDone, C_RemoveSemaphore, ResizeInput, P_Fail, P_StatFails,
        C_Fail, C_ShortWrite
  <2> QED BY <2>1, LoopDoneStep DEF C_LoopDone, nWrite_file, Received
<1>4. ASSUME Removing, Removing'
      PROVE  Stays'
  <2>0. Stays
    BY <1>4 DEF TeardownInv
  <2>1. Received' = Received /\ file_byte_count' = file_byte_count
    <3>1. ~P_Stat /\ ~C_Writes
      BY <1>4, <2>0 DEF P_Stat, C_Writes, C_Write, C_ShortWrite, Removing
    <3> QED BY <3>1, CounterStep, OutStep
  <2>2. ~P_Read /\ ~P_StoreData
    BY <1>0, <2>0 DEF P_Read, P_StoreData
  <2>3. CASE P_ChunkDone
    <3>1. /\ pcP = "fill" /\ pcP' = "read" /\ nWrite_shmTot' = nWrite_shmTot + nWrite_shm
      BY <2>3 DEF P_ChunkDone
    <3>2. nWrite_shmTot' >= file_byte_count
      BY <1>0, <2>0, <3>1
    <3> QED BY <2>0, <2>1, <3>1, <3>2
  <2>4. CASE ~P_ChunkDone
    <3>1. /\ nRead' = nRead /\ nWrite_shmTot' = nWrite_shmTot /\ nWrite_shm' = nWrite_shm
      BY <2>2, <2>4, CounterStep
    <3>2. /\ pcP' \in {"openFile", "read", "fill", "done", "failed"}
          /\ pcP' = "fill" => pcP = "fill"
          /\ pcP' \in {"openFile", "read"} => pcP \in {"openFile", "read"}
      <4>1. ~P_WaitE
        BY <1>0, <2>0 DEF P_WaitE
      <4> QED
        BY <2>0, <2>2, <2>4, <4>1
        DEF Next, Producer, Consumer, Environment, Terminated,
            P_InitSemaphores, P_Stat, P_Announce, P_OpenInput, P_Finish,
            P_WaitS, P_StoreCount, P_SignalS,
            P_SignalN, C_OpenOutput, C_WaitMeta, C_WaitN, C_WaitS, C_Write, C_Advance,
            C_SignalS, C_SignalE, C_LoopDone, C_RemoveSemaphore, ResizeInput,
            P_Fail, P_StatFails, C_Fail, C_ShortWrite
    <3> QED BY <2>0, <2>1, <3>1, <3>2
  <2> QED BY <2>3, <2>4
<1> QED BY <1>1, <1>2, <1>3, <1>4 DEF TeardownInv

(* The announced size is the file's.                                         *)
LEMMA SizeStep ==
  ASSUME FAULTS \intersect {"stat", "grow", "shrink"} = {}
  PROVE  SizeInv /\ [Next]_vars => SizeInv'
<1> SUFFICES ASSUME SizeInv, [Next]_vars PROVE SizeInv'
  OBVIOUS
<1>s. ~P_StatFails
  BY CounterStep
<1>1. content' = content /\ avail' = avail
  <2>1. ~ResizeInput
    BY DEF ResizeInput
  <2> QED BY <2>1, Frame, CounterStep
<1>2. CASE P_Stat
  BY <1>1, <1>2 DEF P_Stat, SizeInv
<1>3. CASE ~P_Stat
  <2>1. file_byte_count' = file_byte_count
    BY <1>s, <1>3, CounterStep
  <2>2. pcP \in {"sems", "stat"} => pcP' \in {"sems", "stat"}
    BY <1>s, <1>3
    DEF Next, Producer, Consumer, Environment, Terminated,
        P_InitSemaphores, P_Stat, P_Announce, P_OpenInput, P_Read, P_Finish,
        P_ChunkDone, P_WaitE, P_WaitS, P_StoreCount, P_StoreData, P_SignalS,
        P_SignalN, C_OpenOutput, C_WaitMeta, C_WaitN, C_WaitS, C_Write, C_Advance,
        C_SignalS, C_SignalE, C_LoopDone, C_RemoveSemaphore, ResizeInput, P_Fail, P_StatFails,
        C_Fail, C_ShortWrite
  <2> QED BY <1>1, <2>1, <2>2 DEF SizeInv
<1> QED BY <1>2, <1>3

-----------------------------------------------------------------------------
(* The theorems.                                                             *)

(* At the start the ring is empty and no block was copied.                   *)
LEMMA CopyInit ==
  ASSUME Init
  PROVE  /\ RingInv /\ KeptInv /\ ChainInv /\ TakenInv /\ TeardownInv
         /\ "grow" \notin FAULTS => SizeInv
<1> USE DEF Init
<1>1. Live = 0 /\ Passed = 0 /\ Sent = 0 /\ Received = 0 /\ ~Removing
  BY DEF Live, Passed, Announced, Ind, Sent, Received, Removing
<1>2. RingInv
  BY <1>1 DEF RingInv
<1>3. KeptInv
  BY <1>1 DEF KeptInv, OrderKept
<1>4. ChainInv
  BY <1>1 DEF ChainInv, CopyFaithful, Taken
<1>5. TakenInv /\ TeardownInv
  BY <1>1 DEF TakenInv, Taken, TeardownInv
<1>6. "grow" \notin FAULTS => SizeInv
  BY DEF SizeInv
<1> QED BY <1>2, <1>3, <1>4, <1>5, <1>6

(* The blocks in flight never have a gap, whatever fails.                    *)
LEMMA RingInvHolds == SafeSpec => []RingInv
<1>1. Init => RingInv
  BY CopyInit
<1>2. IInv /\ RingInv /\ [Next]_vars => RingInv'
  BY RingStep
<1> QED BY <1>1, <1>2, IInvHolds, PTL DEF SafeSpec

(* Whatever fails, short writes and a file that changes its size included,   *)
(* the bytes in the output are in the order of the input, none twice.        *)
THEOREM BytesKeepOrder == SafeSpec => []OrderKept
<1>1. Init => KeptInv
  BY CopyInit
<1>2. IInv /\ RingInv /\ KeptInv /\ [Next]_vars => KeptInv'
  BY KeptStep
<1>3. KeptInv => OrderKept
  BY DEF KeptInv
<1> QED BY <1>1, <1>2, <1>3, IInvHolds, RingInvHolds, PTL DEF SafeSpec

(* Without a short write, the blocks read, in the ring and written are the   *)
(* file up to where it was read.                                             *)
LEMMA ChainInvHolds ==
  ASSUME "short" \notin FAULTS
  PROVE  SafeSpec => []ChainInv
<1>1. Init => ChainInv
  BY CopyInit
<1>2. IInv /\ RingInv /\ ChainInv /\ [Next]_vars => ChainInv'
  BY PrefixStep
<1> QED BY <1>1, <1>2, IInvHolds, RingInvHolds, PTL DEF SafeSpec

(* As long as no write is short the output is a prefix of the input at every *)
(* moment, whatever else fails and with or without semaphore S.              *)
THEOREM CopyIsFaithful ==
  ASSUME "short" \notin FAULTS
  PROVE  SafeSpec => []CopyFaithful
<1>1. ChainInv => CopyFaithful
  BY DEF ChainInv
<1> QED BY <1>1, ChainInvHolds, PTL

(* With a file whose size is right, the producer stops once, and removes     *)
(* only what nobody uses any more.                                           *)
LEMMA TeardownInvHolds ==
  ASSUME FAULTS \intersect {"stat", "grow"} = {}
  PROVE  SafeSpec => []TeardownInv
<1>1. Init => TakenInv /\ TeardownInv
  BY CopyInit
<1>2. IInv /\ RingInv /\ TakenInv /\ [Next]_vars => TakenInv'
  BY ReceivedStep
<1>3. IInv /\ RingInv /\ TakenInv /\ TeardownInv /\ [Next]_vars => TeardownInv'
  BY TeardownStep
<1> QED BY <1>1, <1>2, <1>3, IInvHolds, RingInvHolds, PTL DEF SafeSpec

(* The consumer removes the semaphores only when the producer uses none of   *)
(* them again, if stat succeeds and the file does not grow, though writes    *)
(* may be short, and whatever else fails.                                    *)
THEOREM TeardownIsSafe ==
  ASSUME FAULTS \intersect {"stat", "grow"} = {}
  PROVE  SafeSpec => []TeardownSafe
<1>1. TeardownInv => TeardownSafe
  BY DEF TeardownInv, TeardownSafe, Removing
<1> QED BY <1>1, TeardownInvHolds, PTL

(* A consumer that finishes has copied the whole file, if stat succeeds and  *)
(* the size does not change: whatever else fails, a short write included,    *)
(* leaves it waiting.                                                        *)
THEOREM DoneMeansComplete ==
  ASSUME FAULTS \intersect {"stat", "grow", "shrink"} = {}
  PROVE  SafeSpec => []DoneIsComplete
<1>0. /\ FAULTS \intersect {"stat", "grow"} = {}
      /\ "grow" \notin FAULTS
  OBVIOUS
<1>1. Init => SizeInv
  BY <1>0, CopyInit
<1>2. SizeInv /\ [Next]_vars => SizeInv'
  BY <1>0, SizeStep
<1>3. IInv /\ OrderKept /\ TeardownInv /\ SizeInv => DoneIsComplete
  <2> SUFFICES ASSUME IInv, OrderKept, TeardownInv, SizeInv, NulFree, pcC = "done"
               PROVE  out = content
    BY DEF DoneIsComplete
  <2>1. Removing /\ Received = Len(out)
    BY DEF Removing, Received
  <2>2. Len(out) >= Len(content)
    BY <2>1 DEF TeardownInv, SizeInv
  <2>3. /\ out \in Seq(Byte) /\ content \in Seq(Byte)
        /\ Len(out) \in Nat /\ Len(content) \in Nat
    BY BufferAssumption DEF IInv, TypeOK
  <2>4. PICK f \in [1 .. Len(out) -> 1 .. Len(content)] :
          /\ \A i, j \in 1 .. Len(out) : i < j => f[i] < f[j]
          /\ \A k \in 1 .. Len(out) : out[k] = content[f[k]]
    BY DEF OrderKept, KeptWithin
  <2>5. Len(out) = Len(content) /\ \A k \in 1 .. Len(out) : f[k] = k
    BY <2>2, <2>3, <2>4, NoneLeftOut
  <2>6. \A k \in 1 .. Len(out) : out[k] = content[k]
    BY <2>4, <2>5
  <2> QED BY <2>3, <2>5, <2>6, SeqEqual
<1> QED BY <1>0, <1>1, <1>2, <1>3, IInvHolds, BytesKeepOrder, TeardownInvHolds, PTL
        DEF SafeSpec

=============================================================================
