------------------------- MODULE SharedBufferProofs -------------------------
(***************************************************************************)
(* Proofs about SharedBuffer, for every ring size, block size, read size   *)
(* and file: the inductive invariant IInv, and from it that producer and   *)
(* consumer are never in the same slot.                                    *)
(***************************************************************************)
EXTENDS SharedBuffer, TLAPS

-----------------------------------------------------------------------------
(* Arithmetic of the ring. *)

(* Advancing an index wraps at the end of the ring. *)
LEMMA NextIndexWraps ==
  ASSUME NEW i \in Slots
  PROVE  NextIndex(i) = IF i + 1 = NUM_BUFFERS THEN 0 ELSE i + 1
<1>1. CASE i + 1 = NUM_BUFFERS
  BY <1>1, BufferAssumption DEF Slots, NextIndex
<1>2. CASE i + 1 # NUM_BUFFERS
  BY <1>2, BufferAssumption DEF Slots, NextIndex
<1> QED BY <1>1, <1>2

(* The slot after a slot is one of the ring.                                 *)
LEMMA NextIndexType ==
  ASSUME NEW i \in Slots
  PROVE  NextIndex(i) \in Slots
BY NextIndexWraps, BufferAssumption DEF Slots

(* A slot some way around the ring is one of the ring.                       *)
LEMMA RingAtType ==
  ASSUME NEW i \in Slots, NEW d \in 0 .. NUM_BUFFERS
  PROVE  RingAt(i, d) \in Slots
BY BufferAssumption DEF Slots, RingAt

(* The slot after the d-th slot from i is the (d+1)-th from i, and the d-th  *)
(* from the slot after i.                                                    *)
LEMMA RingAtNext ==
  ASSUME NEW i \in Slots, NEW d \in 0 .. NUM_BUFFERS - 1
  PROVE  /\ NextIndex(RingAt(i, d)) = RingAt(i, d + 1)
         /\ RingAt(NextIndex(i), d) = RingAt(i, d + 1)
BY NextIndexWraps, RingAtType, BufferAssumption DEF Slots, RingAt

(* Two distances below the ring's size lead to two slots. *)
LEMMA RingAtInjective ==
  ASSUME NEW i \in Slots, NEW d \in 0 .. NUM_BUFFERS - 1,
         NEW e \in 0 .. NUM_BUFFERS - 1, d # e
  PROVE  RingAt(i, d) # RingAt(i, e)
BY BufferAssumption DEF Slots, RingAt

-----------------------------------------------------------------------------
(* How the steps move the ring. *)

USE DEF GoP, GoC, sems, fileVars, prodVars, consVars, vars

(* What each step leaves alone. *)
LEMMA Frame ==
  [Next]_vars =>
    /\ content' = content
    /\ P_StoreCount \/ P_StoreData \/ buffer' = buffer
    /\ P_StoreData \/ p_index' = p_index
    /\ C_Advance \/ c_index' = c_index
    /\ Removing => Removing'
    /\ pcP = "data" /\ pcP' = "unlockS" => P_StoreData
    /\ pcC = "advance" /\ pcC' = "unlockS" => C_Advance
BY DEF Next, Producer, Consumer, Environment, Terminated, Removing,
       P_InitSemaphores, P_Stat, P_Announce, P_OpenInput, P_Read, P_Finish,
       P_ChunkDone, P_WaitE, P_WaitS, P_StoreCount, P_StoreData, P_SignalS,
       P_SignalN, C_OpenOutput, C_WaitMeta, C_WaitN, C_WaitS, C_Write, C_Advance,
       C_SignalS, C_SignalE, C_LoopDone, C_RemoveSemaphore, ResizeInput, P_Fail, P_StatFails,
       C_Fail, C_ShortWrite

(* While N exists, only a store adds a block in flight and only an advance   *)
(* takes one away.                                                           *)
LEMMA LiveStep ==
  ASSUME TypeOK, StartInv, [Next]_vars, pcC' \notin {"rmE", "done"}
  PROVE  Live' = IF pcP = "data" /\ pcP' = "unlockS" THEN Live + 1
                 ELSE IF pcC = "advance" /\ pcC' = "unlockS" THEN Live - 1
                 ELSE Live
<1> USE DEF TypeOK, StartInv, Live, Announced, Ind, NRemoved, semaphore_signal,
            semaphore_wait
<1>1. CASE P_InitSemaphores
  BY <1>1 DEF P_InitSemaphores
<1>16. CASE P_Announce
  BY <1>16 DEF P_Announce
<1>17. CASE P_Stat \/ P_OpenInput
  BY <1>17 DEF P_Stat, P_OpenInput
<1>2. CASE P_Read \/ P_Finish \/ P_ChunkDone \/ P_Fail \/ P_StatFails
  BY <1>2 DEF P_Read, P_Finish, P_ChunkDone, P_Fail, P_StatFails
<1>3. CASE P_WaitE \/ P_WaitS \/ P_StoreCount
  BY <1>3 DEF P_WaitE, P_WaitS, P_StoreCount
<1>4. CASE P_StoreData
  BY <1>4 DEF P_StoreData
<1>5. CASE P_SignalS
  BY <1>5 DEF P_SignalS
<1>6. CASE P_SignalN
  BY <1>6 DEF P_SignalN
<1>7. CASE C_OpenOutput
  BY <1>7 DEF C_OpenOutput
<1>8. CASE C_WaitMeta
  BY <1>8 DEF C_WaitMeta
<1>9. CASE C_WaitN
  BY <1>9 DEF C_WaitN
<1>10. CASE C_WaitS
  BY <1>10 DEF C_WaitS
<1>11. CASE C_Write \/ C_ShortWrite
  BY <1>11 DEF C_Write, C_ShortWrite
<1>12. CASE C_Advance
  BY <1>12 DEF C_Advance
<1>13. CASE C_SignalS \/ C_SignalE
  BY <1>13 DEF C_SignalS, C_SignalE
<1>14. CASE C_LoopDone \/ C_RemoveSemaphore \/ C_Fail \/ ResizeInput
  BY <1>14 DEF C_LoopDone, C_RemoveSemaphore, C_Fail, ResizeInput
<1>15. CASE UNCHANGED vars
  BY <1>15
<1> QED
  BY <1>1, <1>2, <1>3, <1>4, <1>5, <1>6, <1>7, <1>8, <1>9, <1>10,
     <1>11, <1>12, <1>13, <1>14, <1>15, <1>16, <1>17
  DEF Next, Producer, Consumer, Environment, Terminated

(* At most NUM_BUFFERS blocks are in flight, and one fewer while the         *)
(* producer is about to fill a slot.                                         *)
LEMMA LiveBounds ==
  ASSUME TypeOK, StartInv, SlotInv, pcC \notin {"rmE", "done"}
  PROVE  /\ Live \in 0 .. NUM_BUFFERS
         /\ P_HoldsSlot => Live < NUM_BUFFERS
         /\ pcC \in {"lockS", "write", "advance"} => Live > 0
BY BufferAssumption
DEF TypeOK, StartInv, SlotInv, Live, Announced, Ind, P_HoldsSlot, C_HoldsSlot

(* The invariants that hold of the state suffice for slot exclusion.         *)
LEMMA IInvExclusion == IInv => SlotExclusion
<1> SUFFICES ASSUME IInv, pcP \in {"count", "data"}, pcC \in {"write", "advance"}
             PROVE  p_index # c_index
  BY DEF SlotExclusion
<1>1. /\ Live \in 1 .. NUM_BUFFERS - 1
      /\ p_index = RingAt(c_index, Live)
  <2>1. Live \in 0 .. NUM_BUFFERS /\ Live < NUM_BUFFERS /\ Live > 0
    BY LiveBounds DEF IInv, P_HoldsSlot
  <2> QED BY <2>1, BufferAssumption DEF IInv, SlotInv, SlotAt
<1>2. c_index \in Slots /\ c_index = RingAt(c_index, 0)
  BY BufferAssumption DEF IInv, TypeOK, RingAt, Slots
<1> QED BY <1>1, <1>2, RingAtInjective, BufferAssumption

-----------------------------------------------------------------------------
(* Each part of the inductive invariant is preserved. *)

(* Every step keeps the consumer out until the producer has set the memory   *)
(* up.                                                                       *)
LEMMA StartStep == IInv /\ [Next]_vars => StartInv'
<1> SUFFICES ASSUME IInv, [Next]_vars PROVE StartInv'
  OBVIOUS
<1> USE DEF IInv, TypeOK, StartInv, Announced, Ind, NRemoved, semaphore_signal,
            semaphore_wait
<1>1. CASE P_InitSemaphores \/ P_Stat \/ P_OpenInput
  BY <1>1 DEF P_InitSemaphores, P_Stat, P_OpenInput
<1>9. CASE P_Announce
  BY <1>9 DEF P_Announce
<1>2. CASE P_Read \/ P_Finish \/ P_ChunkDone \/ P_Fail \/ P_StatFails
  BY <1>2 DEF P_Read, P_Finish, P_ChunkDone, P_Fail, P_StatFails
<1>3. CASE P_WaitE \/ P_WaitS \/ P_StoreCount
  BY <1>3 DEF P_WaitE, P_WaitS, P_StoreCount
<1>13. CASE P_StoreData \/ P_SignalS
  BY <1>13 DEF P_StoreData, P_SignalS
<1>4. CASE P_SignalN
  BY <1>4 DEF P_SignalN
<1>5. CASE C_OpenOutput
  BY <1>5 DEF C_OpenOutput
<1>10. CASE C_WaitMeta
  BY <1>10 DEF C_WaitMeta
<1>11. CASE C_WaitN
  BY <1>11 DEF C_WaitN
<1>12. CASE C_WaitS
  BY <1>12 DEF C_WaitS
<1>6. CASE C_Write \/ C_ShortWrite \/ C_Advance \/ C_SignalS \/ C_SignalE
  BY <1>6 DEF C_Write, C_ShortWrite, C_Advance, C_SignalS, C_SignalE
<1>7. CASE C_LoopDone \/ C_RemoveSemaphore \/ C_Fail \/ ResizeInput
  BY <1>7 DEF C_LoopDone, C_RemoveSemaphore, C_Fail, ResizeInput
<1>8. CASE UNCHANGED vars
  BY <1>8
<1> QED
  BY <1>1, <1>2, <1>3, <1>4, <1>5, <1>6, <1>7, <1>8, <1>9, <1>10, <1>11,
     <1>12, <1>13
  DEF Next, Producer, Consumer, Environment, Terminated

(* The count of slots is conserved, and the indices stay Live slots apart.   *)
LEMMA SlotStep == IInv /\ [Next]_vars => SlotInv'
<1> SUFFICES ASSUME IInv, [Next]_vars, pcC' \notin {"rmE", "done"} PROVE SlotInv'
  BY DEF SlotInv
<1>0. /\ TypeOK /\ StartInv /\ SlotInv /\ pcC \notin {"rmE", "done"}
      /\ Live \in 0 .. NUM_BUFFERS
  <2>1. pcC \notin {"rmE", "done"}
    BY DEF Next, Producer, Consumer, Environment, Terminated,
       P_InitSemaphores, P_Stat, P_Announce, P_OpenInput, P_Read, P_Finish,
       P_ChunkDone, P_WaitE, P_WaitS, P_StoreCount, P_StoreData, P_SignalS,
       P_SignalN, C_OpenOutput, C_WaitMeta, C_WaitN, C_WaitS, C_Write, C_Advance,
       C_SignalS, C_SignalE, C_LoopDone, C_RemoveSemaphore, ResizeInput, P_Fail, P_StatFails,
       C_Fail, C_ShortWrite
  <2> QED BY <2>1, LiveBounds DEF IInv
<1>1. ASSUME pcP' # "sems"
      PROVE  (E + Live + Ind(P_HoldsSlot) + Ind(C_HoldsSlot))' = NUM_BUFFERS
  <2> USE <1>0, <1>1, LiveStep, BufferAssumption
      DEF TypeOK, SlotInv, Ind, P_HoldsSlot, C_HoldsSlot, ERemoved,
          semaphore_signal, semaphore_wait
  <2>1. CASE P_InitSemaphores
    BY <2>1 DEF P_InitSemaphores, StartInv, Live, Announced
  <2>2. CASE P_Stat \/ P_Announce \/ P_OpenInput
    BY <2>2 DEF P_Stat, P_Announce, P_OpenInput
  <2>3. CASE P_Read \/ P_Finish \/ P_ChunkDone \/ P_Fail \/ P_StatFails
    BY <2>3 DEF P_Read, P_Finish, P_ChunkDone, P_Fail, P_StatFails
  <2>4. CASE P_WaitE
    BY <2>4 DEF P_WaitE
  <2>5. CASE P_WaitS \/ P_StoreCount
    BY <2>5 DEF P_WaitS, P_StoreCount
  <2>6. CASE P_StoreData
    <3>1. Live' = Live + 1 /\ E' = E /\ E \in Int /\ Live \in Int
      BY <2>6 DEF P_StoreData
    <3>2. P_HoldsSlot /\ ~P_HoldsSlot' /\ C_HoldsSlot' = C_HoldsSlot
      BY <2>6 DEF P_StoreData
    <3>3. E + Live + 1 + Ind(C_HoldsSlot) = NUM_BUFFERS /\ Ind(C_HoldsSlot) \in Int
      BY <2>6, <3>1, <3>2 DEF P_StoreData
    <3> QED BY <3>1, <3>2, <3>3
  <2>7. CASE P_SignalS \/ P_SignalN
    BY <2>7 DEF P_SignalS, P_SignalN
  <2>8. CASE C_OpenOutput \/ C_WaitMeta \/ C_WaitN \/ C_WaitS
    BY <2>8 DEF C_OpenOutput, C_WaitMeta, C_WaitN, C_WaitS
  <2>9. CASE C_Advance
    <3>1. Live' = Live - 1 /\ E' = E /\ E \in Int /\ Live \in Int
      BY <2>9 DEF C_Advance
    <3>2. ~C_HoldsSlot /\ C_HoldsSlot' /\ P_HoldsSlot' = P_HoldsSlot /\ pcP # "sems"
      BY <2>9 DEF C_Advance
    <3>3. E + Live + Ind(P_HoldsSlot) = NUM_BUFFERS /\ Ind(P_HoldsSlot) \in Int
      BY <2>9, <3>1, <3>2 DEF C_Advance
    <3> QED BY <3>1, <3>2, <3>3
  <2>10. CASE C_Write \/ C_ShortWrite
    BY <2>10 DEF C_Write, C_ShortWrite
  <2>13. CASE C_SignalS
    BY <2>13 DEF C_SignalS
  <2>14. CASE C_SignalE
    <3>1. Live' = Live /\ E' = E + 1 /\ E \in Int /\ Live \in Int
      BY <2>14 DEF C_SignalE
    <3>2. C_HoldsSlot /\ ~C_HoldsSlot' /\ P_HoldsSlot' = P_HoldsSlot /\ pcP # "sems"
      BY <2>14 DEF C_SignalE, StartInv
    <3>3. E + Live + Ind(P_HoldsSlot) + 1 = NUM_BUFFERS /\ Ind(P_HoldsSlot) \in Int
      BY <2>14, <3>1, <3>2 DEF C_SignalE
    <3> QED BY <3>1, <3>2, <3>3
  <2>11. CASE C_LoopDone \/ C_RemoveSemaphore \/ C_Fail \/ ResizeInput
    BY <2>11 DEF C_LoopDone, C_RemoveSemaphore, C_Fail, ResizeInput
  <2>12. CASE UNCHANGED vars
    BY <2>12
  <2> QED
    BY <2>1, <2>2, <2>3, <2>4, <2>5, <2>6, <2>7, <2>8, <2>9, <2>10, <2>11, <2>12,
       <2>13, <2>14
    DEF Next, Producer, Consumer, Environment, Terminated
<1>2. p_index' = SlotAt(Live)'
  <2> USE BufferAssumption
  <2>0. c_index \in Slots /\ p_index = RingAt(c_index, Live)
    BY <1>0 DEF TypeOK, SlotInv, SlotAt
  <2>1. CASE P_StoreData
    <3>1. Live \in 0 .. NUM_BUFFERS - 1 /\ Live' = Live + 1
      BY <2>1, <1>0, LiveStep, LiveBounds DEF P_StoreData, P_HoldsSlot
    <3> QED BY <2>0, <2>1, <3>1, RingAtNext DEF P_StoreData, SlotAt, RingAt
  <2>2. CASE C_Advance
    <3>1. Live - 1 \in 0 .. NUM_BUFFERS - 1 /\ Live' = Live - 1
      BY <2>2, <1>0, LiveStep, LiveBounds DEF C_Advance
    <3>2. RingAt(NextIndex(c_index), Live - 1) = RingAt(c_index, (Live - 1) + 1)
      BY <2>0, <3>1, RingAtNext
    <3>3. (Live - 1) + 1 = Live
      BY <1>0
    <3>4. SlotAt(Live)' = RingAt(c_index', Live')
      BY DEF SlotAt, RingAt
    <3> QED BY <2>0, <2>2, <3>1, <3>2, <3>3, <3>4 DEF C_Advance
  <2>3. CASE ~P_StoreData /\ ~C_Advance
    <3>1. Live' = Live /\ p_index' = p_index /\ c_index' = c_index
      BY <2>3, <1>0, LiveStep, Frame
    <3> QED BY <2>0, <3>1 DEF SlotAt, RingAt
  <2> QED BY <2>1, <2>2, <2>3
<1> QED BY <1>1, <1>2 DEF SlotInv

(* S is held by at most one process, and by none when the program is built   *)
(* without it.                                                               *)
LEMMA MutexStep == IInv /\ [Next]_vars => MutexInv'
<1> SUFFICES ASSUME IInv, [Next]_vars PROVE MutexInv'
  OBVIOUS
<1> USE BufferAssumption
    DEF IInv, TypeOK, MutexInv, StartInv, Ind, P_HoldsS, C_HoldsS, SRemoved,
        semaphore_wait, semaphore_signal
<1>1. CASE P_InitSemaphores \/ P_Stat \/ P_Announce \/ P_OpenInput
  BY <1>1 DEF P_InitSemaphores, P_Stat, P_Announce, P_OpenInput
<1>2. CASE P_Read \/ P_Finish \/ P_ChunkDone \/ P_Fail \/ P_StatFails
  BY <1>2 DEF P_Read, P_Finish, P_ChunkDone, P_Fail, P_StatFails
<1>3. CASE P_WaitE \/ P_StoreCount \/ P_StoreData \/ P_SignalN
  BY <1>3 DEF P_WaitE, P_StoreCount, P_StoreData, P_SignalN
<1>4. CASE P_WaitS
  BY <1>4 DEF P_WaitS, wait_S
<1>5. CASE P_SignalS
  BY <1>5 DEF P_SignalS, signal_S
<1>6. CASE C_OpenOutput \/ C_WaitMeta \/ C_WaitN \/ C_SignalE
  BY <1>6 DEF C_OpenOutput, C_WaitMeta, C_WaitN, C_SignalE
<1>7. CASE C_WaitS
  BY <1>7 DEF C_WaitS, wait_S
<1>8. CASE C_SignalS
  BY <1>8 DEF C_SignalS, signal_S
<1>9. CASE C_Write \/ C_ShortWrite \/ C_Advance
  BY <1>9 DEF C_Write, C_ShortWrite, C_Advance
<1>10. CASE C_LoopDone \/ C_RemoveSemaphore \/ C_Fail \/ ResizeInput
  BY <1>10 DEF C_LoopDone, C_RemoveSemaphore, C_Fail, ResizeInput
<1>11. CASE UNCHANGED vars
  BY <1>11
<1> QED
  BY <1>1, <1>2, <1>3, <1>4, <1>5, <1>6, <1>7, <1>8, <1>9, <1>10, <1>11
  DEF Next, Producer, Consumer, Environment, Terminated

(* The bytes a read returned are all cut into blocks, and the count the      *)
(* producer stores is the one it cuts.                                       *)
LEMMA ReadStep == IInv /\ [Next]_vars => ReadInv'
<1> SUFFICES ASSUME IInv, [Next]_vars PROVE ReadInv'
  OBVIOUS
<1> USE BufferAssumption
    DEF IInv, TypeOK, ReadInv, StartInv, P_HoldsSlot, BytesToWrite, MinOf
<1>0. content' = content /\ Len(content) \in Nat
  BY Frame
<1>1. CASE P_InitSemaphores \/ P_Stat \/ P_Announce \/ P_OpenInput
  BY <1>0, <1>1 DEF P_InitSemaphores, P_Stat, P_Announce, P_OpenInput
<1>2. CASE P_Read
  BY <1>0, <1>2 DEF P_Read, BytesToRead
<1>3. CASE P_Finish \/ P_Fail
  BY <1>0, <1>3 DEF P_Finish, P_Fail
<1>13. CASE P_StatFails
  BY <1>0, <1>13 DEF P_StatFails
<1>4. CASE P_ChunkDone
  BY <1>0, <1>4 DEF P_ChunkDone
<1>5. CASE P_WaitE \/ P_WaitS \/ P_SignalS \/ P_SignalN
  BY <1>0, <1>5 DEF P_WaitE, P_WaitS, P_SignalS, P_SignalN
<1>6. CASE P_StoreCount
  BY <1>0, <1>6 DEF P_StoreCount
<1>7. CASE P_StoreData
  <2>1. pcP = "data" /\ pcP' = "unlockS" /\ nRead' = nRead
        /\ nWrite_shmTot' = nWrite_shmTot /\ nWrite_shm' = nWrite_shm + BytesToWrite
    BY <1>7 DEF P_StoreData
  <2>2. /\ nWrite_shm \in Int /\ nRead \in Int /\ nWrite_shmTot \in Int
        /\ nWrite_shmTot + nRead <= Len(content)
        /\ BytesToWrite \in Int /\ BytesToWrite <= nRead - nWrite_shm
    BY <1>0, <2>1
  <2>3. nWrite_shm + BytesToWrite <= nRead
    BY <2>2 DEF BytesToWrite
  <2>4. nWrite_shmTot + (nWrite_shm + BytesToWrite) <= Len(content)
    <3> HIDE DEF BytesToWrite
    <3> QED BY <1>0, <2>2, <2>3
  <2>5. file_byte_count' <= Len(content') + 1
    <3>1. file_byte_count' = file_byte_count
      BY <1>7 DEF P_StoreData
    <3> QED BY <1>0, <2>1, <3>1
  <2> QED BY <1>0, <2>1, <2>2, <2>4, <2>5
<1>8. CASE C_OpenOutput \/ C_WaitMeta \/ C_WaitN \/ C_WaitS
  BY <1>0, <1>8 DEF C_OpenOutput, C_WaitMeta, C_WaitN, C_WaitS
<1>9. CASE C_Write \/ C_ShortWrite \/ C_Advance
  BY <1>0, <1>9 DEF C_Write, C_ShortWrite, C_Advance
<1>10. CASE C_SignalS \/ C_SignalE \/ C_LoopDone \/ C_RemoveSemaphore
  BY <1>0, <1>10 DEF C_SignalS, C_SignalE, C_LoopDone, C_RemoveSemaphore
<1>11. CASE C_Fail \/ ResizeInput
  BY <1>0, <1>11 DEF C_Fail, ResizeInput
<1>12. CASE UNCHANGED vars
  BY <1>12
<1> QED
  BY <1>1, <1>2, <1>3, <1>4, <1>5, <1>6, <1>7, <1>8, <1>9, <1>10, <1>11, <1>12,
     <1>13
  DEF Next, Producer, Consumer, Environment, Terminated

(* A block is cut within the file, so what is written of it is a sequence of *)
(* bytes.                                                                    *)
LEMMA DeliveredType ==
  ASSUME content \in Seq(Byte), NEW off \in Nat, NEW n \in Nat,
         off + n <= Len(content)
  PROVE  Delivered(off, n) \in Seq(Byte)
<1>1. ASSUME NEW k \in 1..n
      PROVE  content[off + k] \in Byte
  <2>1. off + k \in 1 .. Len(content)
    BY Len(content) \in Nat
  <2> QED BY <2>1
<1> QED BY <1>1, BufferAssumption DEF Delivered

(* The block at the consumer's index lies within the file while the consumer *)
(* holds it.                                                                 *)
LEMMA OldestBlockBounds ==
  ASSUME IInv, pcC = "write"
  PROVE  LET b == buffer[c_index]
         IN  /\ b.bytes_to_count \in 0 .. STRING_SIZE
             /\ b.string_data \in Nat
             /\ b.string_data + b.bytes_to_count <= Len(content)
<1>1. Live \in 1 .. NUM_BUFFERS
  BY LiveBounds, BufferAssumption DEF IInv
<1>2. c_index = SlotAt(0) /\ c_index \in Slots
  BY BufferAssumption DEF IInv, TypeOK, SlotAt, RingAt, Slots
<1>3. ~Removing
  BY DEF Removing
<1>4. 0 \in 0 .. Live - 1
  BY <1>1, BufferAssumption
<1>5. buffer[SlotAt(0)].string_data + buffer[SlotAt(0)].bytes_to_count <= Len(content)
  BY <1>3, <1>4 DEF IInv, BlocksInv
<1> QED BY <1>2, <1>5 DEF IInv, TypeOK

(* Every variable keeps its type.                                            *)
LEMMA TypeStep == IInv /\ [Next]_vars => TypeOK'
<1> SUFFICES ASSUME IInv, [Next]_vars PROVE TypeOK'
  OBVIOUS
<1>0. /\ content' = content /\ Len(content) \in Nat /\ TypeOK /\ StartInv
      /\ content \in Seq(Byte)
  BY Frame, BufferAssumption DEF IInv, TypeOK
<1> USE <1>0, BufferAssumption DEF TypeOK
<1>1. CASE P_InitSemaphores
  BY <1>1 DEF P_InitSemaphores
<1>18. CASE P_Stat
  BY <1>18 DEF P_Stat
<1>19. CASE P_OpenInput \/ P_Fail
  BY <1>19 DEF P_OpenInput, P_Fail
<1>23. CASE P_StatFails
  BY <1>23 DEF P_StatFails
<1>2. CASE P_Announce
  BY <1>2 DEF P_Announce, StartInv, semaphore_signal, NRemoved
<1>3. CASE P_Read
  BY <1>3 DEF P_Read, BytesToRead, MinOf, IInv, ReadInv
<1>4. CASE P_Finish
  BY <1>4 DEF P_Finish
<1>20. CASE P_ChunkDone
  BY <1>20 DEF P_ChunkDone
<1>5. CASE P_WaitE
  BY <1>5 DEF P_WaitE, semaphore_wait
<1>6. CASE P_WaitS
  BY <1>6 DEF P_WaitS, wait_S, semaphore_wait
<1>7. CASE P_StoreCount
  <2>1. nRead - nWrite_shm \in Nat
    OBVIOUS
  <2>2. BytesToWrite \in 0 .. STRING_SIZE
    BY <2>1 DEF BytesToWrite, MinOf
  <2>3. buffer' \in [Slots -> [bytes_to_count : 0 .. STRING_SIZE, string_data : Nat]]
    BY <1>7, <2>2 DEF P_StoreCount
  <2> QED BY <1>7, <2>3 DEF P_StoreCount
<1>8. CASE P_StoreData
  <2>1. nRead - nWrite_shm \in Nat /\ nWrite_shmTot + nWrite_shm \in Nat
    OBVIOUS
  <2>2. BytesToWrite \in Nat /\ BytesToWrite <= nRead - nWrite_shm
    BY <2>1 DEF BytesToWrite, MinOf
  <2>3. buffer' \in [Slots -> [bytes_to_count : 0 .. STRING_SIZE, string_data : Nat]]
    BY <1>8, <2>1 DEF P_StoreData
  <2>4. p_index' \in Slots
    BY <1>8, NextIndexType DEF P_StoreData
  <2>5. nWrite_shm' \in 0 .. nRead'
    <3>1. nWrite_shm' = nWrite_shm + BytesToWrite /\ nRead' = nRead
      BY <1>8 DEF P_StoreData
    <3> QED BY <2>2, <3>1
  <2> QED BY <1>8, <2>3, <2>4, <2>5 DEF P_StoreData
<1>9. CASE P_SignalS \/ C_SignalS
  <2>1. S' \in 0..1
    BY <1>9 DEF P_SignalS, C_SignalS, signal_S, semaphore_signal, IInv, MutexInv,
       Ind, P_HoldsS, C_HoldsS, SRemoved, StartInv
  <2> QED BY <1>9, <2>1 DEF P_SignalS, C_SignalS
<1>10. CASE P_SignalN
  <2>1. NRemoved \/ N <= NUM_BUFFERS
    BY <1>10, LiveBounds DEF P_SignalN, NRemoved, IInv, SlotInv, Live, Announced, Ind
  <2> QED BY <1>10, <2>1 DEF P_SignalN, semaphore_signal
<1>11. CASE C_OpenOutput
  BY <1>11 DEF C_OpenOutput
<1>21. CASE C_WaitMeta
  BY <1>21 DEF C_WaitMeta, semaphore_wait
<1>22. CASE C_WaitN
  BY <1>22 DEF C_WaitN, semaphore_wait
<1>12. CASE C_WaitS
  BY <1>12 DEF C_WaitS, wait_S, semaphore_wait
<1>13. CASE C_Write \/ C_ShortWrite
  <2>1. PICK n \in 0 .. buffer[c_index].bytes_to_count : CopyOut(n)
    <3>1. pcC = "write"
      BY <1>13 DEF C_Write, C_ShortWrite
    <3> QED BY <1>13, <3>1, OldestBlockBounds DEF C_Write, C_ShortWrite
  <2>2. out' \in Seq(Byte)
    <3>1. pcC = "write"
      BY <1>13 DEF C_Write, C_ShortWrite
    <3>2. Delivered(buffer[c_index].string_data, n) \in Seq(Byte)
      BY <3>1, OldestBlockBounds, DeliveredType
    <3> QED BY <2>1, <3>2 DEF CopyOut
  <2> QED BY <1>13, <2>2 DEF C_Write, C_ShortWrite
<1>14. CASE C_Advance
  BY <1>14, NextIndexType DEF C_Advance
<1>15. CASE C_SignalE
  <2>1. E < NUM_BUFFERS
    BY <1>15, LiveBounds
    DEF C_SignalE, IInv, SlotInv, C_HoldsSlot, Ind, StartInv
  <2> QED BY <1>15, <2>1 DEF C_SignalE, semaphore_signal
<1>16. CASE C_LoopDone \/ C_RemoveSemaphore \/ C_Fail \/ ResizeInput
  BY <1>16 DEF C_LoopDone, C_RemoveSemaphore, C_Fail, ResizeInput
<1>17. CASE UNCHANGED vars
  BY <1>17
<1> QED
  BY <1>1, <1>2, <1>3, <1>4, <1>5, <1>6, <1>7, <1>8, <1>9, <1>10, <1>11, <1>12,
     <1>13, <1>14, <1>15, <1>16, <1>17, <1>18, <1>19,
     <1>20, <1>21, <1>22, <1>23
  DEF Next, Producer, Consumer, Environment, Terminated

(* Every block in flight lies within the file.                               *)
LEMMA BlocksStep == IInv /\ [Next]_vars => BlocksInv'
<1> SUFFICES ASSUME IInv, [Next]_vars, ~Removing',
                    NEW d \in 0 .. Live' - 1
             PROVE  (buffer[SlotAt(d)].string_data
                       + buffer[SlotAt(d)].bytes_to_count <= Len(content))'
  BY DEF BlocksInv, SlotAt, RingAt
<1>0. /\ TypeOK /\ StartInv /\ SlotInv /\ BlocksInv /\ ReadInv
      /\ ~Removing /\ content' = content /\ Len(content) \in Nat
      /\ Live \in 0 .. NUM_BUFFERS
      /\ c_index \in Slots
      /\ p_index = RingAt(c_index, Live)
  <2>1. ~Removing
    BY Frame
  <2>2. pcC \notin {"rmE", "done"}
    BY <2>1 DEF Removing
  <2> QED BY <2>1, <2>2, Frame, LiveBounds, BufferAssumption
          DEF IInv, TypeOK, SlotInv, SlotAt
<1>1. Live' = IF pcP = "data" /\ pcP' = "unlockS" THEN Live + 1
              ELSE IF pcC = "advance" /\ pcC' = "unlockS" THEN Live - 1
              ELSE Live
  BY <1>0, LiveStep DEF Removing
<1>2. ASSUME NEW e \in 0 .. Live - 1
      PROVE  /\ RingAt(c_index, e) \in Slots
             /\ buffer[RingAt(c_index, e)].string_data
                  + buffer[RingAt(c_index, e)].bytes_to_count <= Len(content)
  BY <1>0, RingAtType, BufferAssumption DEF BlocksInv, SlotAt
<1>3. CASE P_StoreCount
  <2>1. Live' = Live /\ c_index' = c_index /\ Live < NUM_BUFFERS
    BY <1>0, <1>1, <1>3, LiveBounds DEF P_StoreCount, P_HoldsSlot, Removing
  <2>2. RingAt(c_index, d) # p_index
    BY <1>0, <2>1, RingAtInjective, BufferAssumption
  <2>3. buffer'[RingAt(c_index, d)] = buffer[RingAt(c_index, d)]
    BY <1>0, <1>2, <1>3, <2>1, <2>2 DEF P_StoreCount, TypeOK
  <2> QED BY <1>0, <1>2, <2>1, <2>3 DEF SlotAt, RingAt
<1>4. CASE P_StoreData
  <2>1. Live' = Live + 1 /\ c_index' = c_index /\ Live < NUM_BUFFERS
    BY <1>0, <1>1, <1>4, LiveBounds DEF P_StoreData, P_HoldsSlot, Removing
  <2>2. SlotAt(d)' = RingAt(c_index, d)
    BY <2>1 DEF SlotAt, RingAt
  <2>3. CASE d = Live
    <3>1. /\ buffer'[p_index].string_data = nWrite_shmTot + nWrite_shm
          /\ buffer'[p_index].bytes_to_count = BytesToWrite
      BY <1>0, <1>4 DEF P_StoreData, TypeOK, ReadInv
    <3>2. /\ BytesToWrite <= nRead - nWrite_shm
          /\ nWrite_shmTot + nRead <= Len(content)
          /\ BytesToWrite \in Int
      <4>1. nRead \in Int /\ nWrite_shm \in Int
        BY <1>0 DEF TypeOK
      <4>2. nWrite_shmTot + nRead <= Len(content)
        BY <1>0, <1>4 DEF P_StoreData, ReadInv
      <4> QED BY <4>1, <4>2, BufferAssumption DEF BytesToWrite, MinOf
    <3>3. nWrite_shmTot + nWrite_shm + BytesToWrite <= Len(content)
      BY <1>0, <3>2 DEF TypeOK
    <3> QED BY <1>0, <2>2, <2>3, <3>1, <3>3
  <2>4. CASE d # Live
    <3>1. d \in 0 .. Live - 1
      BY <1>0, <2>1, <2>4
    <3>2. RingAt(c_index, d) # p_index
      BY <1>0, <2>1, <3>1, RingAtInjective, BufferAssumption
    <3>3. buffer'[RingAt(c_index, d)] = buffer[RingAt(c_index, d)]
      BY <1>0, <1>2, <1>4, <3>1, <3>2 DEF P_StoreData, TypeOK
    <3> QED BY <1>0, <1>2, <2>2, <3>1, <3>3
  <2> QED BY <2>3, <2>4
<1>5. CASE C_Advance
  <2>1. /\ Live' = Live - 1 /\ c_index' = NextIndex(c_index) /\ buffer' = buffer
        /\ d + 1 \in 0 .. Live - 1 /\ d \in 0 .. NUM_BUFFERS - 1
    <3>1. Live' = Live - 1
      BY <1>0, <1>1, <1>5 DEF C_Advance
    <3> QED BY <1>0, <1>5, <3>1, BufferAssumption DEF C_Advance
  <2>2. SlotAt(d)' = RingAt(NextIndex(c_index), d)
    BY <2>1 DEF SlotAt, RingAt
  <2>3. RingAt(NextIndex(c_index), d) = RingAt(c_index, d + 1)
    BY <1>0, <2>1, RingAtNext
  <2> QED BY <1>0, <1>2, <2>1, <2>2, <2>3
<1>6. CASE ~P_StoreCount /\ ~P_StoreData /\ ~C_Advance
  <2>1. Live' = Live /\ c_index' = c_index /\ buffer' = buffer
    BY <1>1, <1>6, Frame
  <2> QED BY <1>0, <1>2, <2>1 DEF SlotAt, RingAt
<1> QED BY <1>3, <1>4, <1>5, <1>6

-----------------------------------------------------------------------------
(* The inductive invariant and the theorems.                                 *)

(* The inductive invariant holds at the start.                               *)
LEMMA IInvInit == Init => IInv
<1> SUFFICES ASSUME Init PROVE IInv
  OBVIOUS
<1> USE BufferAssumption DEF Init
<1>0. Len(content) \in Nat /\ content \in Seq(Byte)
  OBVIOUS
<1>1. TypeOK
  <2>1. avail \in 0 .. Len(content)
    BY <1>0
  <2>2. buffer \in [Slots -> [bytes_to_count : 0 .. STRING_SIZE, string_data : Nat]]
    OBVIOUS
  <2> QED BY <1>0, <2>1, <2>2 DEF TypeOK, Slots
<1>2. Live = 0
  BY DEF Live, Announced, Ind
<1>3. StartInv /\ MutexInv
  BY DEF StartInv, MutexInv, Announced, Ind
<1>4. SlotInv
  BY <1>2 DEF SlotInv, SlotAt, RingAt
<1>5. ReadInv
  BY <1>0 DEF ReadInv, P_HoldsSlot
<1>6. BlocksInv
  BY <1>2 DEF BlocksInv
<1> QED BY <1>1, <1>3, <1>4, <1>5, <1>6 DEF IInv

(* The inductive invariant is kept by every step.                            *)
LEMMA IInvInductive == IInv /\ [Next]_vars => IInv'
BY TypeStep, StartStep, SlotStep, MutexStep, ReadStep, BlocksStep DEF IInv

(* The inductive invariant holds of every reachable state, whatever fails.   *)
THEOREM IInvHolds == SafeSpec => []IInv
<1>1. Init => IInv
  BY IInvInit
<1>2. IInv /\ [Next]_vars => IInv'
  BY IInvInductive
<1> QED BY <1>1, <1>2, PTL DEF SafeSpec

(* A session without failures is one of those the theorems are about.        *)
LEMMA SpecIsSafe == Spec => SafeSpec
<1>1. [UndisturbedNext]_vars => [Next]_vars
  BY DEF UndisturbedNext, Next
<1> QED BY <1>1, PTL DEF Spec, SafeSpec

(* Types are kept, S never exceeds 1, N stays within NUM_BUFFERS + 1 and E   *)
(* within NUM_BUFFERS, whatever the environment does.                        *)
THEOREM TypeCorrect == SafeSpec => []TypeOK
<1>1. IInv => TypeOK
  BY DEF IInv
<1> QED BY <1>1, IInvHolds, PTL

(* Producer and consumer are never in the same slot, with or without         *)
(* semaphore S: N and E suffice, for every ring size and every failure.      *)
THEOREM SlotsExclusive == SafeSpec => []SlotExclusion
<1> QED BY IInvExclusion, IInvHolds, PTL

====
