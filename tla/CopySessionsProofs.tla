------------------------- MODULE CopySessionsProofs -------------------------
(***************************************************************************)
(* Proofs about CopySessions, for any number of sessions.  Whatever the    *)
(* sessions before it left in the semaphores and the segments, disturbed   *)
(* and killed ones among them, what is proved of the first session from    *)
(* fresh objects holds of every session until it is disturbed itself.      *)
(***************************************************************************)
EXTENDS CopySessions, CopyProofs

USE DEF GoP, GoC, sems, fileVars, prodVars, consVars, vars

-----------------------------------------------------------------------------
(* What every session keeps, a disturbed one too.                            *)

(* The producer moves within the ring and stores no more than a block holds. *)
LEMMA LeftByProducer ==
  ASSUME LeftInv, ProducerStep \/ P_Interrupted
  PROVE  LeftInv'
<1> USE BufferAssumption DEF LeftInv
<1>1. CASE P_SetS \/ P_SetN \/ P_SetE \/ P_SetFails
  BY <1>1 DEF P_SetS, P_SetN, P_SetE, P_SetFails, P_HoldsSlot
<1>2. CASE P_StoreCount
  <2>1. BytesToWrite \in 0 .. STRING_SIZE
    BY <1>2 DEF P_StoreCount, P_HoldsSlot, BytesToWrite, MinOf
  <2> QED BY <1>2, <2>1 DEF P_StoreCount, P_HoldsSlot
<1>3. CASE P_StoreData
  <2>1. BytesToWrite \in Nat
    BY <1>3 DEF P_StoreData, P_HoldsSlot, BytesToWrite, MinOf
  <2>2. NextIndex(p_index) \in Slots
    BY NextIndexType
  <2>3. nWrite_shmTot + nWrite_shm \in Nat /\ nWrite_shm + BytesToWrite \in Nat
    BY <2>1
  <2>4. buffer' \in [Slots -> [bytes_to_count : 0 .. STRING_SIZE, string_data : Nat]]
    BY <1>3, <2>3 DEF P_StoreData
  <2>5. pcP' = "unlockS" /\ p_index' = NextIndex(p_index) /\ nWrite_shm' = nWrite_shm + BytesToWrite
        /\ UNCHANGED <<fileVars, file_byte_count, nRead, nWrite_shmTot, c_index>>
    BY <1>3 DEF P_StoreData
  <2> HIDE DEF NextIndex, BytesToWrite
  <2> QED BY <2>2, <2>3, <2>4, <2>5 DEF P_HoldsSlot
<1>4. CASE P_Read
  <2>1. Len(content) \in Nat
    OBVIOUS
  <2>2. BytesToRead \in Nat
    BY <2>1 DEF BytesToRead, MinOf
  <2> QED BY <1>4, <2>2 DEF P_Read, P_HoldsSlot
<1>5. CASE P_Stat \/ P_StatFails
  <2>1. Len(content) \in Nat
    OBVIOUS
  <2>2. /\ file_byte_count' = avail \/ file_byte_count' \in 0 .. Len(content) + 1
        /\ pcP' = "announce" /\ UNCHANGED <<fileVars, buffer, nRead, nWrite_shm, nWrite_shmTot,
                                            p_index, consVars>>
    BY <1>5 DEF P_Stat, P_StatFails
  <2>3. file_byte_count' \in Nat
    BY <2>1, <2>2
  <2> QED BY <2>2, <2>3 DEF P_HoldsSlot
<1>6. CASE P_Interrupted
  BY <1>6 DEF P_Interrupted, P_HoldsSlot
<1>7. CASE P_InitSemaphores \/ P_Announce \/ P_OpenInput \/ P_Finish \/ P_Fail
           \/ P_WaitE \/ P_WaitS \/ P_SignalS \/ P_SignalN
  <2>1. /\ UNCHANGED <<fileVars, file_byte_count, buffer, nRead, nWrite_shm, nWrite_shmTot,
                       p_index, c_index>>
        /\ pcP' \in {"lockS", "count", "data"} =>
             nWrite_shm < nRead \/ pcP \in {"lockS", "count", "data"}
    BY <1>7 DEF P_InitSemaphores, P_Announce, P_OpenInput, P_Finish, P_WaitE, P_WaitS,
       P_SignalS, P_SignalN, P_Fail
  <2> QED BY <2>1 DEF P_HoldsSlot
<1>8. CASE P_ChunkDone
  BY <1>8 DEF P_ChunkDone, P_HoldsSlot
<1> QED BY <1>1, <1>2, <1>3, <1>4, <1>5, <1>6, <1>7, <1>8 DEF ProducerStep, Producer

(* The consumer changes only its index, within the ring.                     *)
LEMMA LeftByConsumer ==
  ASSUME LeftInv, ConsumerStep \/ C_Interrupted
  PROVE  LeftInv'
<1>1. /\ UNCHANGED <<fileVars, buffer, file_byte_count, prodVars>>
      /\ c_index' = c_index \/ c_index' = NextIndex(c_index)
  BY DEF ConsumerStep, C_Interrupted, Consumer, C_OpenOutput, C_WaitMeta, C_WaitN, C_WaitS,
     C_Write, C_Advance, C_SignalS, C_SignalE, C_LoopDone, C_RemoveSemaphore, C_Fail, C_ShortWrite,
     C_WriteOld
<1>2. c_index' \in Slots
  BY <1>1, NextIndexType DEF LeftInv
<1> QED BY <1>1, <1>2 DEF LeftInv, P_HoldsSlot

(* A new session finds the old segments or new ones.                         *)
LEMMA LeftToSession ==
  ASSUME LeftInv, NewSession
  PROVE  LeftInv'
<1> USE BufferAssumption
<1>1. /\ pcP' = "sems" /\ nRead' = 0 /\ nWrite_shm' = 0 /\ nWrite_shmTot' = 0 /\ p_index' = 0
      /\ c_index' = 0 /\ content' \in Files
      /\ avail' \in (IF "grow" \in FAULTS THEN 0 .. Len(content') ELSE {Len(content')})
  BY DEF NewSession
<1>2. avail' \in 0 .. Len(content')
  <2>1. Len(content') \in Nat
    BY <1>1
  <2> QED BY <1>1, <2>1
<1>3. buffer' = buffer
        \/ buffer' = [i \in Slots |-> [bytes_to_count |-> 0, string_data |-> 0]]
  BY DEF NewSession
<1>4. file_byte_count' = file_byte_count \/ file_byte_count' = 0
  BY DEF NewSession
<1>5. buffer' \in [Slots -> [bytes_to_count : 0 .. STRING_SIZE, string_data : Nat]]
  BY <1>3 DEF LeftInv
<1>6. file_byte_count' \in Nat
  BY <1>4 DEF LeftInv
<1>7. 0 \in Slots
  BY DEF Slots
<1> QED BY <1>1, <1>2, <1>5, <1>6, <1>7 DEF LeftInv, P_HoldsSlot

(* No step leaves the bounds of the segments and the indices.                *)
LEMMA LeftStep ==
  ASSUME LeftInv, [SessionsNext]_allVars
  PROVE  LeftInv'
<1>1. CASE FileStep
  <2>1. /\ content' = content /\ avail' \in 0 .. Len(content)
        /\ UNCHANGED <<buffer, file_byte_count, prodVars, consVars>>
    BY <1>1 DEF FileStep, ResizeInput
  <2> QED BY <2>1 DEF LeftInv, P_HoldsSlot
<1>2. CASE UNCHANGED vars
  BY <1>2 DEF LeftInv, P_HoldsSlot
<1>3. CASE InterruptWait
  BY <1>3, LeftByProducer, LeftByConsumer DEF InterruptWait
<1> QED BY <1>1, <1>2, <1>3, LeftByProducer, LeftByConsumer, LeftToSession
        DEF SessionsNext, Kill, allVars

-----------------------------------------------------------------------------
(* A session that is not disturbed.                                          *)

(* An output without bytes keeps the order of any input.                     *)
LEMMA NothingKept ==
  ASSUME NEW n
  PROVE  [i \in 1 .. Len(<<>>) |-> 1] \in [1 .. Len(<<>>) -> 1 .. n]
<1>1. 1 .. Len(<<>>) = {}
  OBVIOUS
<1> QED BY <1>1

(* An empty copy agrees with any part of the file.                           *)
LEMMA EmptyKept ==
  /\ out = <<>> => KeptWithin(Len(content))
  /\ out' = <<>> => KeptWithin(Len(content))' /\ KeptWithin(Taken)'
<1>1. 1 .. Len(<<>>) = {}
  OBVIOUS
<1> QED BY <1>1, NothingKept DEF KeptWithin

(* The last SETVAL makes the state one of a session from fresh objects.      *)
LEMMA SemaphoresSet ==
  ASSUME LeftInv, FreshStart, P_SetE
  PROVE  (IInv /\ RingInv /\ KeptInv /\ FilledHere)'
<1> USE BufferAssumption DEF FreshStart
<1>0. /\ pcP' = "stat" /\ pcC' = pcC /\ S' = 1 /\ N' = 0 /\ E' = NUM_BUFFERS
      /\ content' = content /\ avail' = avail /\ out' = out /\ buffer' = buffer
      /\ file_byte_count' = file_byte_count /\ nRead' = 0 /\ nWrite_shm' = 0
      /\ nWrite_shmTot' = 0 /\ p_index' = 0 /\ c_index' = 0
      /\ Len(content) \in Nat
  BY DEF P_SetE, LeftInv
<1>1. TypeOK'
  BY <1>0 DEF TypeOK, LeftInv, Slots
<1>2. Live' = 0 /\ Announced' = 0 /\ Passed' = 0 /\ Sent' = 0 /\ ~Removing'
  BY <1>0 DEF Live, Announced, Ind, Passed, Sent, Removing
<1>3. StartInv' /\ MutexInv'
  BY <1>0, <1>2 DEF StartInv, MutexInv, Ind, P_HoldsS, C_HoldsS, SRemoved
<1>4. SlotInv'
  BY <1>0, <1>2 DEF SlotInv, SlotAt, RingAt, Ind, P_HoldsSlot, C_HoldsSlot
<1>5. ReadInv'
  BY <1>0 DEF ReadInv, P_HoldsSlot
<1>6. BlocksInv' /\ RingInv' /\ FilledHere'
  BY <1>2 DEF BlocksInv, RingInv, FilledHere
<1>7. KeptInv'
  <2>1. CASE pcC = "waitMeta"
    <3>1. out' = <<>>
      BY <1>0, <2>1
    <3>2. KeptWithin(Len(content))' /\ KeptWithin(Taken)'
      BY <3>1, EmptyKept
    <3> QED BY <3>2 DEF KeptInv, OrderKept
  <2>2. CASE pcC # "waitMeta"
    BY <1>0, <2>2 DEF KeptInv, OrderKept
  <2> QED BY <2>1, <2>2
<1> QED BY <1>1, <1>3, <1>4, <1>5, <1>6, <1>7 DEF IInv

(* A slot is one of the session's own from the store of its text on.         *)
FilledBy ==
  IF P_StoreCount THEN fresh \ {p_index}
  ELSE IF P_StoreData THEN fresh \union {p_index} ELSE fresh

(* A block enters the chain when it is filled, and the slot that the         *)
(* producer is about to fill is not in the chain.                            *)
LEMMA FilledStep ==
  ASSUME IInv, FilledHere, [Next]_vars, fresh' = FilledBy
  PROVE  FilledHere'
<1> SUFFICES ASSUME ~Removing', NEW d \in 0 .. Live' - 1
             PROVE  SlotAt(d)' \in fresh'
  BY DEF FilledHere, SlotAt, RingAt
<1>0. /\ ~Removing
      /\ Live \in 0 .. NUM_BUFFERS /\ c_index \in Slots /\ p_index = RingAt(c_index, Live)
      /\ \A e \in 0 .. Live - 1 : RingAt(c_index, e) \in fresh
  BY Frame, ChainBounds DEF FilledHere, SlotAt
<1>1. SlotAt(d)' = RingAt(c_index', d)
  BY DEF SlotAt, RingAt
<1>2. CASE AddsBlock
  <2>1. Live' = Live + 1 /\ c_index' = c_index
    BY <1>2 DEF AddsBlock
  <2>2. fresh' = fresh \union {p_index}
    BY <1>2 DEF AddsBlock, FilledBy, P_StoreData, P_StoreCount
  <2>3. d = Live \/ d \in 0 .. Live - 1
    BY <1>0, <2>1
  <2> QED BY <1>0, <1>1, <2>1, <2>2, <2>3
<1>3. CASE GivesSlotUp
  <2>1. Live' = Live - 1 /\ c_index' = NextIndex(c_index) /\ fresh' = fresh
    BY <1>3 DEF GivesSlotUp, FilledBy, P_StoreData, P_StoreCount, Passed, Ind
  <2>2. d \in 0 .. NUM_BUFFERS - 1 /\ d + 1 \in 0 .. Live - 1
    BY <1>0, <2>1, BufferAssumption
  <2>3. RingAt(NextIndex(c_index), d) = RingAt(c_index, d + 1)
    BY <1>0, <2>2, RingAtNext
  <2> QED BY <1>0, <1>1, <2>1, <2>2, <2>3
<1>4. CASE StoresCount
  <2>1. Live' = Live /\ c_index' = c_index /\ Live < NUM_BUFFERS /\ fresh' = fresh \ {p_index}
    BY <1>4 DEF StoresCount, FilledBy
  <2>2. d \in 0 .. NUM_BUFFERS - 1 /\ Live \in 0 .. NUM_BUFFERS - 1 /\ d # Live
    BY <1>0, <2>1, BufferAssumption
  <2>3. RingAt(c_index, d) # p_index
    BY <1>0, <2>2, RingAtInjective
  <2> QED BY <1>0, <1>1, <2>1, <2>3
<1>5. CASE (TakesBlock \/ LeavesChain) /\ ~StoresCount /\ ~AddsBlock
  <2>1. Live' = Live /\ c_index' = c_index
    BY <1>5 DEF TakesBlock, LeavesChain
  <2>2. CASE P_StoreCount
    <3>1. ~TakesBlock
      BY <2>2 DEF TakesBlock, C_Writes, C_Write, C_ShortWrite, P_StoreCount
    <3>2. Live < NUM_BUFFERS
      BY <2>2, <1>0, LiveBounds DEF P_StoreCount, P_HoldsSlot, IInv, Removing
    <3> QED BY <1>5, <2>2, <3>1, <3>2 DEF LeavesChain, StoresCount
  <2>3. CASE P_StoreData
    <3>1. pcP = "data" /\ pcP' = "unlockS" /\ pcC' = pcC /\ N' = N
      BY <2>3 DEF P_StoreData
    <3>2. Live' = Live + 1
      BY <1>0, <3>1 DEF Live, Ind, Announced, IInv, TypeOK
    <3> QED BY <1>0, <2>1, <3>2
  <2>4. CASE ~P_StoreCount /\ ~P_StoreData
    BY <1>0, <1>1, <2>1, <2>4 DEF FilledBy
  <2> QED BY <2>2, <2>3, <2>4
<1> QED BY <1>2, <1>3, <1>4, <1>5, ChainStep

(* Once the semaphores are set, a step that does not interrupt a wait is one *)
(* of the copy: no old block is read, no old token taken.                    *)
LEMMA UsualStep ==
  ASSUME SessionInv, Undisturbed, pcP # "sems",
         ProducerStep \/ ConsumerStep \/ FileStep \/ (\E process \in {"producer", "consumer"} : Kill(process))
  PROVE  /\ [Next]_vars /\ pcP' # "sems" /\ fresh' = FilledBy
         /\ disturbed' = "no" /\ orderly' = orderly
<1>0. IInv /\ FilledHere /\ disturbed = "no"
  BY DEF SessionInv, Undisturbed
<1>1. CASE ProducerStep
  BY <1>0, <1>1
  DEF ProducerStep, P_SetS, P_SetN, P_SetE, P_SetFails, Filled, FilledBy,
      Next, Environment, Producer,
      P_InitSemaphores, P_Stat, P_Announce, P_OpenInput, P_Read, P_Finish,
      P_ChunkDone, P_WaitE, P_WaitS, P_StoreCount, P_StoreData, P_SignalS,
      P_SignalN, P_StatFails, P_Fail
<1>2. CASE ConsumerStep
  <2>1. ~ReadsOld
    <3>1. pcC = "write" => c_index = SlotAt(0) /\ 0 \in 0 .. Live - 1 /\ ~Removing
      BY <1>0, TakenAtWrite
    <3> QED BY <1>0, <3>1 DEF FilledHere, ReadsOld
  <2>2. Consumer \/ C_ShortWrite \/ C_Fail
    BY <1>2, <2>1 DEF ConsumerStep, C_WriteOld
  <2>3. pcP' = pcP /\ orderly' = orderly /\ fresh' = fresh
    BY <1>2
    DEF ConsumerStep, Consumer, C_OpenOutput, C_WaitMeta, C_WaitN, C_WaitS, C_Write, C_Advance,
        C_SignalS, C_SignalE, C_LoopDone, C_RemoveSemaphore, C_Fail, C_ShortWrite, C_WriteOld
  <2>4. ~TakesOldToken
    <3> SUFFICES ASSUME pcC = "waitMeta", pcC' = "loop", pcP \in {"sems", "stat", "announce"}
                 PROVE  FALSE
      BY DEF TakesOldToken
    <3>1. N > 0
      BY <2>2
      DEF Consumer, C_OpenOutput, C_WaitMeta, C_WaitN, C_WaitS, C_Write, C_Advance,
          C_SignalS, C_SignalE, C_LoopDone, C_RemoveSemaphore, C_Fail, C_ShortWrite,
          semaphore_wait, NRemoved
    <3> QED BY <1>0, <3>1 DEF IInv, StartInv
  <2>5. disturbed' = "no"
    BY <1>0, <1>2, <2>4 DEF ConsumerStep
  <2> QED BY <2>2, <2>3, <2>5 DEF Next, Environment, FilledBy, P_StoreCount, P_StoreData
<1>3. CASE FileStep
  BY <1>0, <1>3
  DEF FileStep, sessionVars, historyVars, Next, Environment, ResizeInput, FilledBy,
      P_StoreCount, P_StoreData
<1>4. ASSUME NEW process \in {"producer", "consumer"}, Kill(process)
      PROVE  /\ [Next]_vars /\ pcP' # "sems" /\ fresh' = FilledBy
             /\ disturbed' = "no" /\ orderly' = orderly
  BY <1>0, <1>4 DEF Kill, historyVars, FilledBy, P_StoreCount, P_StoreData
<1> QED BY <1>1, <1>2, <1>3, <1>4

(* An undisturbed session whose semaphores are set keeps what a first        *)
(* session keeps.                                                            *)
LEMMA SetSessionKeeps ==
  ASSUME SessionInv, Undisturbed, pcP # "sems", LeftInv',
         ProducerStep \/ ConsumerStep \/ FileStep \/ (\E process \in {"producer", "consumer"} : Kill(process))
  PROVE  SessionInv'
<1>1. IInv /\ RingInv /\ KeptInv /\ FilledHere
  BY DEF SessionInv
<1>2. [Next]_vars /\ pcP' # "sems" /\ fresh' = FilledBy /\ disturbed' = "no"
  BY UsualStep
<1>3. (IInv /\ RingInv /\ KeptInv /\ FilledHere)'
  BY <1>1, <1>2, IInvInductive, RingStep, KeptStep, FilledStep
<1> QED BY <1>2, <1>3 DEF SessionInv, MisledOnlyByLeftovers

(* While the producer is still setting the semaphores the consumer waits, or *)
(* takes a token that was left over: not if all sessions removed theirs.     *)
LEMMA StartingConsumer ==
  ASSUME SessionInv, Undisturbed, pcP = "sems", LeftInv', ConsumerStep
  PROVE  SessionInv'
<1>0. FreshStart /\ disturbed = "no"
  BY DEF SessionInv, Undisturbed
<1>1. C_OpenOutput \/ C_WaitMeta \/ C_Fail
  BY <1>0
  DEF FreshStart, ConsumerStep, Consumer, C_WaitN, C_WaitS, C_Write, C_Advance, C_SignalS,
      C_SignalE, C_LoopDone, C_RemoveSemaphore, C_ShortWrite, C_WriteOld, ReadsOld
<1>2. /\ pcP' = "sems" /\ semsSet' = semsSet /\ orderly' = orderly
      /\ S' = S /\ c_index' = c_index
      /\ UNCHANGED <<nRead, nWrite_shm, nWrite_shmTot, p_index>>
  BY <1>1 DEF ConsumerStep, C_OpenOutput, C_WaitMeta, C_Fail
<1>3. CASE C_WaitMeta
  <2>1. TakesOldToken /\ N > 0
    BY <1>0, <1>3 DEF FreshStart, C_WaitMeta, TakesOldToken, semaphore_wait, NRemoved
  <2>2. disturbed' = "misled" /\ ~orderly'
    BY <1>0, <1>2, <2>1 DEF ConsumerStep, FreshStart
  <2> QED BY <2>2 DEF SessionInv, Undisturbed, MisledOnlyByLeftovers
<1>4. CASE C_OpenOutput \/ C_Fail
  <2>1. ~TakesOldToken /\ N' = N
    BY <1>4 DEF TakesOldToken, C_OpenOutput, C_Fail
  <2>2. disturbed' = "no"
    BY <1>0, <2>1 DEF ConsumerStep
  <2>3. /\ pcC' \in {"open", "waitMeta", "openFailed"}
        /\ out' = <<>> \/ (out' = out /\ pcC' = "openFailed")
    BY <1>0, <1>4 DEF FreshStart, C_OpenOutput, C_Fail
  <2>4. out' \in Seq(Byte) /\ (pcC' = "waitMeta" => out' = <<>>)
    <3>1. <<>> \in Seq(Byte)
      OBVIOUS
    <3> QED BY <1>0, <2>3, <3>1 DEF FreshStart
  <2>5. FreshStart'
    BY <1>0, <1>2, <2>1, <2>3, <2>4 DEF FreshStart
  <2> QED BY <1>2, <2>2, <2>5 DEF SessionInv, MisledOnlyByLeftovers
<1> QED BY <1>1, <1>3, <1>4

(* The producer sets the semaphores one by one.                              *)
LEMMA StartingProducer ==
  ASSUME SessionInv, Undisturbed, pcP = "sems", LeftInv', ProducerStep
  PROVE  SessionInv'
<1>0. FreshStart /\ LeftInv /\ disturbed = "no" /\ disturbed' = "no" /\ orderly' = orderly
  BY DEF SessionInv, Undisturbed, ProducerStep
<1>1. ~SRemoved /\ ~NRemoved /\ ~ERemoved
  BY <1>0 DEF FreshStart, SRemoved, NRemoved, ERemoved
<1>2. CASE P_SetE
  <2>1. (IInv /\ RingInv /\ KeptInv /\ FilledHere)' /\ pcP' # "sems"
    BY <1>0, <1>2, SemaphoresSet DEF P_SetE
  <2> QED BY <1>0, <2>1 DEF SessionInv, MisledOnlyByLeftovers
<1>3. CASE P_SetS \/ P_SetN
  <2>1. FreshStart' /\ pcP' = "sems"
    BY <1>0, <1>3 DEF FreshStart, P_SetS, P_SetN
  <2> QED BY <1>0, <2>1 DEF SessionInv, MisledOnlyByLeftovers
<1> QED BY <1>1, <1>2, <1>3 DEF ProducerStep, P_SetFails

(* Neither the file nor a kill changes what a session starts from.           *)
LEMMA StartingOthers ==
  ASSUME SessionInv, Undisturbed, pcP = "sems", LeftInv',
         FileStep \/ (\E process \in {"producer", "consumer"} : Kill(process))
  PROVE  SessionInv'
<1>1. /\ disturbed' = disturbed /\ orderly' = orderly /\ semsSet' = semsSet
      /\ UNCHANGED <<sems, prodVars, consVars>>
  BY DEF FileStep, ResizeInput, Kill, sessionVars, historyVars
<1>2. FreshStart'
  BY <1>1 DEF SessionInv, FreshStart
<1> QED BY <1>1, <1>2 DEF SessionInv, Undisturbed, MisledOnlyByLeftovers

-----------------------------------------------------------------------------
(* Disturbed sessions, and the step from one session to the next.            *)

(* Of a disturbed session only LeftInv is kept.                              *)
LEMMA DisturbedKeeps ==
  ASSUME SessionInv, LeftInv',
         \/ InterruptWait
         \/ disturbed # "no" /\ (ProducerStep \/ ConsumerStep \/ FileStep
                                 \/ (\E process \in {"producer", "consumer"} : Kill(process)))
  PROVE  SessionInv'
<1>1. disturbed' # "no" /\ (disturbed' = "misled" => disturbed = "misled") /\ orderly' = orderly
  BY DEF InterruptWait, ProducerStep, ConsumerStep, FileStep, Kill, sessionVars, historyVars
<1> QED BY <1>1 DEF SessionInv, Undisturbed, MisledOnlyByLeftovers

(* The next session starts with whatever was left, and without old tokens    *)
(* when every session before it has removed its objects.                     *)
LEMMA NewSessionKeeps ==
  ASSUME SessionInv, LeftInv', NewSession
  PROVE  SessionInv'
<1>1. /\ pcP' = "sems" /\ pcC' = "open" /\ disturbed' = "no" /\ semsSet' = 0
      /\ nRead' = 0 /\ nWrite_shm' = 0 /\ nWrite_shmTot' = 0 /\ p_index' = 0 /\ c_index' = 0
      /\ out' \in OldOutputs
  BY DEF NewSession
<1>2. out' \in Seq(Byte)
  BY <1>1, BufferAssumption
<1>3. orderly' => N' = 0
  BY DEF NewSession, LeftOver, NRemoved
<1> QED BY <1>1, <1>2, <1>3 DEF SessionInv, FreshStart, MisledOnlyByLeftovers

(* A stutter keeps the invariant.                                            *)
LEMMA StutterKeeps ==
  ASSUME SessionInv, LeftInv', UNCHANGED allVars
  PROVE  SessionInv'
<1>0. UNCHANGED vars /\ UNCHANGED <<semsSet, fresh, disturbed, orderly>>
  BY DEF allVars, sessionVars, historyVars
<1>1. CASE disturbed = "no" /\ pcP # "sems"
  <2>1. IInv /\ RingInv /\ KeptInv /\ FilledHere
    BY <1>1 DEF SessionInv, Undisturbed
  <2>2. [Next]_vars /\ fresh' = FilledBy
    BY <1>0 DEF FilledBy, P_StoreCount, P_StoreData
  <2>3. (IInv /\ RingInv /\ KeptInv /\ FilledHere)'
    BY <2>1, <2>2, IInvInductive, RingStep, KeptStep, FilledStep
  <2> QED BY <1>0, <1>1, <2>3 DEF SessionInv, MisledOnlyByLeftovers
<1>2. CASE disturbed # "no" \/ pcP = "sems"
  BY <1>0, <1>2 DEF SessionInv, Undisturbed, FreshStart, MisledOnlyByLeftovers
<1> QED BY <1>1, <1>2

(* Every step of every session keeps the invariant.                          *)
LEMMA SessionStep ==
  ASSUME SessionInv, [SessionsNext]_allVars
  PROVE  SessionInv'
<1>1. LeftInv'
  BY LeftStep DEF SessionInv
<1>2. CASE disturbed = "no" /\ pcP # "sems"
  BY <1>1, <1>2, SetSessionKeeps, DisturbedKeeps, NewSessionKeeps, StutterKeeps
  DEF SessionsNext, Undisturbed
<1>3. CASE disturbed = "no" /\ pcP = "sems"
  BY <1>1, <1>3, StartingConsumer, StartingProducer, StartingOthers, DisturbedKeeps,
     NewSessionKeeps, StutterKeeps
  DEF SessionsNext, Undisturbed
<1>4. CASE disturbed # "no"
  BY <1>1, <1>4, DisturbedKeeps, NewSessionKeeps, StutterKeeps DEF SessionsNext
<1> QED BY <1>2, <1>3, <1>4

(* What the invariant says of a session that is not disturbed.               *)
LEMMA SessionInvGives ==
  SessionInv => ExclusionRestored /\ OrderRestored /\ OwnBlocksOnly /\ CountsRestored
<1> SUFFICES ASSUME SessionInv, Undisturbed
             PROVE  SlotExclusion /\ OrderKept /\ NoStaleBlock /\ CountsRestored
  BY DEF ExclusionRestored, OrderRestored, OwnBlocksOnly, CountsRestored
<1>1. CASE pcP = "sems"
  <2>1. FreshStart
    BY <1>1 DEF SessionInv
  <2>2. pcC = "waitMeta" => KeptWithin(Len(content))
    BY <2>1, EmptyKept DEF FreshStart
  <2> QED BY <1>1, <2>1, <2>2
          DEF FreshStart, SlotExclusion, OrderKept, NoStaleBlock, CountsRestored
<1>2. CASE pcP # "sems"
  <2>1. IInv /\ KeptInv /\ FilledHere
    BY <1>2 DEF SessionInv
  <2>2. NoStaleBlock
    <3> SUFFICES ASSUME pcC = "write" PROVE c_index \in fresh
      BY DEF NoStaleBlock
    <3>1. c_index = SlotAt(0) /\ 0 \in 0 .. Live - 1 /\ ~Removing
      BY <2>1, TakenAtWrite
    <3> QED BY <2>1, <3>1 DEF FilledHere
  <2> QED BY <2>1, <2>2, IInvExclusion DEF KeptInv, CountsRestored, IInv
<1> QED BY <1>1, <1>2

-----------------------------------------------------------------------------
(* The theorems.                                                             *)

(* The first session starts with the invariant.                              *)
LEMMA SessionInvInit == SessionsInit => SessionInv
<1> SUFFICES ASSUME SessionsInit PROVE SessionInv
  OBVIOUS
<1>1. Init /\ disturbed = "no" /\ semsSet = 0
  BY DEF SessionsInit
<1>2. TypeOK
  BY <1>1, IInvInit DEF IInv
<1>3. LeftInv
  BY <1>1, <1>2 DEF Init, TypeOK, LeftInv, P_HoldsSlot
<1> QED BY <1>1, <1>2, <1>3 DEF Init, TypeOK, SessionInv, FreshStart, MisledOnlyByLeftovers

(* The invariant of every session, however many come before it and however   *)
(* they ended.                                                               *)
THEOREM SessionInvHolds == SessionsSpec => []SessionInv
BY SessionInvInit, SessionStep, PTL DEF SessionsSpec

(* Whatever disturbed and killed sessions left behind, producer and consumer *)
(* of a session that is not disturbed are never in the same slot.            *)
THEOREM SessionsExclusive == SessionsSpec => []ExclusionRestored
BY SessionInvHolds, SessionInvGives, PTL

(* Over any leftovers, the output of a session that is not disturbed has its *)
(* bytes in the order of its input, none twice.                              *)
THEOREM SessionsKeepOrder == SessionsSpec => []OrderRestored
BY SessionInvHolds, SessionInvGives, PTL

(* Over a ring full of old blocks, a consumer that was not misled and lost   *)
(* no wait writes only blocks of its own session.                            *)
THEOREM OwnBlocksAreRead == SessionsSpec => []OwnBlocksOnly
BY SessionInvHolds, SessionInvGives, PTL

(* Once the producer has set the semaphores every slot is counted once, and  *)
(* S is free or held by one process, whatever a killed process held.         *)
THEOREM CountsAreRestored == SessionsSpec => []CountsRestored
BY SessionInvHolds, SessionInvGives, PTL

(* A consumer takes a token of another session only if some session has      *)
(* ended without removing its objects.                                       *)
THEOREM OnlyLeftoversMislead == SessionsSpec => []MisledOnlyByLeftovers
<1>1. SessionInv => MisledOnlyByLeftovers
  BY DEF SessionInv
<1> QED BY <1>1, SessionInvHolds, PTL

=============================================================================
