---------------------------- MODULE SharedBuffer ----------------------------
(***************************************************************************)
(* Assign2: one producer (producer.c) and one consumer (consumer.c) copy a *)
(* file through a circular buffer in System V shared memory.  Semaphore N  *)
(* counts filled blocks (and carries one extra token that announces the    *)
(* file size), E counts free blocks, S is the mutual exclusion around the  *)
(* buffer.                                                                 *)
(*                                                                         *)
(* The module covers one session that starts from fresh IPC objects        *)
(* (semget and shmget with IPC_CREAT give zeroed ones) and has both        *)
(* processes' steps, from the initialisation of the semaphores to their    *)
(* removal, at the granularity of system calls and of stores into the      *)
(* shared blocks.                                                          *)
(*                                                                         *)
(* A block's string_data is represented by the file offset its bytes were  *)
(* copied from.  Delivered says what strncpy made of them.                 *)
(***************************************************************************)
EXTENDS Integers, Sequences

CONSTANTS
  NUM_BUFFERS,   \* blocks in the circular buffer
  STRING_SIZE,   \* bytes in a block
  BUFSIZ,        \* bytes the producer asks of one read
  Byte,          \* the bytes a file is made of
  NUL,           \* the zero byte, at which strncpy stops copying
  Files,         \* the contents the input file may have
  OldOutputs,    \* what an earlier run may have left in the output file
  USE_S,         \* FALSE: the program without semaphore S, as in Part B
  FAULTS         \* the failures the environment may produce

ASSUME BufferAssumption ==
  /\ NUM_BUFFERS \in Nat \ {0}
  /\ STRING_SIZE \in Nat \ {0}
  /\ BUFSIZ \in Nat \ {0}
  /\ NUL \in Byte
  /\ \A f \in Files : f \in Seq(Byte)
  /\ \A f \in OldOutputs : f \in Seq(Byte)
  /\ USE_S \in BOOLEAN
  /\ FAULTS \subseteq {"stat", "open", "read", "write", "short", "shrink", "grow"}

VARIABLES
  content,          \* every byte the input file will ever hold
  avail,            \* how many of them it holds now
  S, N, E,          \* the three semaphores
  file_byte_count,  \* the metadata segment
  buffer,           \* the circular buffer segment
  pcP,              \* where the producer is
  nRead,            \* bytes the last read put in input_buffer
  nWrite_shm,       \* bytes of input_buffer already in shared memory
  nWrite_shmTot,    \* bytes of earlier reads already in shared memory
  p_index,          \* the producer's buffer_index
  pcC,              \* where the consumer is
  c_index,          \* the consumer's buffer_index
  out               \* the output file

sems == <<S, N, E>>
fileVars == <<content, avail>>
prodVars == <<pcP, nRead, nWrite_shm, nWrite_shmTot, p_index>>
consVars == <<pcC, c_index, out>>
vars == <<fileVars, sems, file_byte_count, buffer, prodVars, consVars>>

Slots == 0 .. NUM_BUFFERS - 1
MinOf(a, b) == IF a < b THEN a ELSE b
NextIndex(i) == (i + 1) % NUM_BUFFERS

-----------------------------------------------------------------------------
(* Semaphores.  semop on a removed semaphore fails at once, and the callers *)
(* of semaphore_wait and semaphore_signal ignore the failure.               *)

SRemoved == pcC \in {"rmN", "rmE", "done"}

(* Mutant: N is never removed. *)
NRemoved_Never == FALSE

NRemoved == pcC \in {"rmE", "done"}
ERemoved == pcC = "done"

semaphore_wait(sem, semNext, removed) ==
  IF removed THEN semNext = sem ELSE sem > 0 /\ semNext = sem - 1

semaphore_signal(sem, semNext, removed) ==
  IF removed THEN semNext = sem ELSE semNext = sem + 1

wait_S   == IF USE_S THEN semaphore_wait(S, S', SRemoved) ELSE S' = S
signal_S == IF USE_S THEN semaphore_signal(S, S', SRemoved) ELSE S' = S

-----------------------------------------------------------------------------
Init ==
  /\ content \in Files
  /\ avail \in IF "grow" \in FAULTS THEN 0 .. Len(content) ELSE {Len(content)}
  /\ S = 0 /\ N = 0 /\ E = 0
  /\ file_byte_count = 0
  /\ buffer = [i \in Slots |-> [bytes_to_count |-> 0, string_data |-> 0]]
  /\ pcP = "sems" /\ pcC = "open"
  /\ nRead = 0 /\ nWrite_shm = 0 /\ nWrite_shmTot = 0
  /\ p_index = 0 /\ c_index = 0
  /\ out \in OldOutputs

-----------------------------------------------------------------------------
(* The producer. *)

GoP(from, to) == pcP = from /\ pcP' = to

(* The three SETVALs are one step: the consumer's first semaphore operation *)
(* waits for N, which stays 0 until P_Announce.                             *)
P_InitSemaphores ==
  /\ GoP("sems", "stat")
  /\ S' = 1 /\ N' = 0 /\ E' = NUM_BUFFERS
  /\ UNCHANGED <<fileVars, file_byte_count, buffer, nRead, nWrite_shm,
                 nWrite_shmTot, p_index, consVars>>

P_Stat ==
  /\ GoP("stat", "announce")
  /\ file_byte_count' = avail
  /\ UNCHANGED <<fileVars, sems, buffer, nRead, nWrite_shm, nWrite_shmTot,
                 p_index, consVars>>

P_Announce ==
  /\ GoP("announce", "openFile")
  /\ semaphore_signal(N, N', NRemoved)
  /\ UNCHANGED <<fileVars, S, E, file_byte_count, buffer, nRead, nWrite_shm,
                 nWrite_shmTot, p_index, consVars>>

P_OpenInput ==
  /\ GoP("openFile", "read")
  /\ UNCHANGED <<fileVars, sems, file_byte_count, buffer, nRead, nWrite_shm,
                 nWrite_shmTot, p_index, consVars>>

(* The kernel's file offset is nWrite_shmTot here: all that was read has     *)
(* been written to shared memory.                                            *)
BytesToRead ==
  IF avail > nWrite_shmTot THEN MinOf(BUFSIZ, avail - nWrite_shmTot) ELSE 0

P_Read ==
  /\ GoP("read", "fill")
  /\ nWrite_shmTot < file_byte_count
  /\ BytesToRead > 0
  /\ nRead' = BytesToRead
  /\ UNCHANGED <<fileVars, sems, file_byte_count, buffer, nWrite_shm,
                 nWrite_shmTot, p_index, consVars>>

(* The loop ends at the announced size or at end of file. *)
P_Finish ==
  /\ GoP("read", "done")
  /\ nWrite_shmTot >= file_byte_count \/ BytesToRead = 0
  /\ UNCHANGED <<fileVars, sems, file_byte_count, buffer, nRead, nWrite_shm,
                 nWrite_shmTot, p_index, consVars>>

P_ChunkDone ==
  /\ GoP("fill", "read")
  /\ nWrite_shm >= nRead
  /\ nWrite_shmTot' = nWrite_shmTot + nWrite_shm
  /\ nWrite_shm' = 0
  /\ UNCHANGED <<fileVars, sems, file_byte_count, buffer, nRead, p_index,
                 consVars>>

(* Mutant: the wait for a free block is left out. *)
P_WaitE_NoWait ==
  /\ GoP("fill", "lockS")
  /\ nWrite_shm < nRead
  /\ UNCHANGED <<fileVars, sems, file_byte_count, buffer, nRead, nWrite_shm,
                 nWrite_shmTot, p_index, consVars>>

P_WaitE ==
  /\ GoP("fill", "lockS")
  /\ nWrite_shm < nRead
  /\ semaphore_wait(E, E', ERemoved)
  /\ UNCHANGED <<fileVars, S, N, file_byte_count, buffer, nRead, nWrite_shm,
                 nWrite_shmTot, p_index, consVars>>

P_WaitS ==
  /\ GoP("lockS", "count")
  /\ wait_S
  /\ UNCHANGED <<fileVars, N, E, file_byte_count, buffer, nRead, nWrite_shm,
                 nWrite_shmTot, p_index, consVars>>

(* Mutant: every block claims to be full. *)
BytesToWrite_Full == STRING_SIZE

BytesToWrite == MinOf(STRING_SIZE, nRead - nWrite_shm)

P_StoreCount ==
  /\ GoP("count", "data")
  /\ buffer' = [buffer EXCEPT ![p_index].bytes_to_count = BytesToWrite]
  /\ UNCHANGED <<fileVars, sems, file_byte_count, nRead, nWrite_shm,
                 nWrite_shmTot, p_index, consVars>>

(* Mutant: every block of a read is copied from its start. *)
P_StoreData_NoOffset ==
  /\ GoP("data", "unlockS")
  /\ buffer' = [buffer EXCEPT ![p_index].string_data = nWrite_shmTot]
  /\ p_index' = NextIndex(p_index)
  /\ nWrite_shm' = nWrite_shm + BytesToWrite
  /\ UNCHANGED <<fileVars, sems, file_byte_count, nRead, nWrite_shmTot, consVars>>

P_StoreData ==
  /\ GoP("data", "unlockS")
  /\ buffer' = [buffer EXCEPT ![p_index].string_data = nWrite_shmTot + nWrite_shm]
  /\ p_index' = NextIndex(p_index)
  /\ nWrite_shm' = nWrite_shm + BytesToWrite
  /\ UNCHANGED <<fileVars, sems, file_byte_count, nRead, nWrite_shmTot, consVars>>

P_SignalS ==
  /\ GoP("unlockS", "signalN")
  /\ signal_S
  /\ UNCHANGED <<fileVars, N, E, file_byte_count, buffer, nRead, nWrite_shm,
                 nWrite_shmTot, p_index, consVars>>

P_SignalN ==
  /\ GoP("signalN", "fill")
  /\ semaphore_signal(N, N', NRemoved)
  /\ UNCHANGED <<fileVars, S, E, file_byte_count, buffer, nRead, nWrite_shm,
                 nWrite_shmTot, p_index, consVars>>

Producer ==
  \/ P_InitSemaphores \/ P_Stat \/ P_Announce \/ P_OpenInput
  \/ P_Read \/ P_Finish \/ P_ChunkDone
  \/ P_WaitE \/ P_WaitS \/ P_StoreCount \/ P_StoreData \/ P_SignalS \/ P_SignalN

-----------------------------------------------------------------------------
(* The consumer. *)

GoC(from, to) == pcC = from /\ pcC' = to

(* Any old output file is unlinked before the new one is created. *)
C_OpenOutput ==
  /\ GoC("open", "waitMeta")
  /\ out' = <<>>
  /\ UNCHANGED <<fileVars, sems, file_byte_count, buffer, prodVars, c_index>>

(* Mutant: the consumer does not wait for the file size. *)
C_WaitMeta_NoWait ==
  /\ GoC("waitMeta", "loop")
  /\ UNCHANGED <<fileVars, sems, file_byte_count, buffer, prodVars, c_index, out>>

C_WaitMeta ==
  /\ GoC("waitMeta", "loop")
  /\ semaphore_wait(N, N', NRemoved)
  /\ UNCHANGED <<fileVars, S, E, file_byte_count, buffer, prodVars, c_index, out>>

(* write() has returned exactly the bytes it appended to the output file. *)
nWrite_file == Len(out)

C_WaitN ==
  /\ GoC("loop", "lockS")
  /\ nWrite_file < file_byte_count
  /\ semaphore_wait(N, N', NRemoved)
  /\ UNCHANGED <<fileVars, S, E, file_byte_count, buffer, prodVars, c_index, out>>

C_WaitS ==
  /\ GoC("lockS", "write")
  /\ wait_S
  /\ UNCHANGED <<fileVars, N, E, file_byte_count, buffer, prodVars, c_index, out>>

(* The first n bytes of a block that strncpy filled from file offset off:    *)
(* what follows a NUL is padding.                                            *)
Delivered(off, n) ==
  [k \in 1..n |-> IF \E j \in 1..k : content[off + j] = NUL
                  THEN NUL ELSE content[off + k]]

CopyOut(n) == out' = out \o Delivered(buffer[c_index].string_data, n)

C_Write ==
  /\ GoC("write", "advance")
  /\ CopyOut(buffer[c_index].bytes_to_count)
  /\ UNCHANGED <<fileVars, sems, file_byte_count, buffer, prodVars, c_index>>

C_Advance ==
  /\ GoC("advance", "unlockS")
  /\ c_index' = NextIndex(c_index)
  /\ UNCHANGED <<fileVars, sems, file_byte_count, buffer, prodVars, out>>

C_SignalS ==
  /\ GoC("unlockS", "signalE")
  /\ signal_S
  /\ UNCHANGED <<fileVars, N, E, file_byte_count, buffer, prodVars, c_index, out>>

(* Mutant: the emptied block is not given back. *)
C_SignalE_NoSignal ==
  /\ GoC("signalE", "loop")
  /\ UNCHANGED <<fileVars, sems, file_byte_count, buffer, prodVars, c_index, out>>

C_SignalE ==
  /\ GoC("signalE", "loop")
  /\ semaphore_signal(E, E', ERemoved)
  /\ UNCHANGED <<fileVars, S, N, file_byte_count, buffer, prodVars, c_index, out>>

(* Mutant: the loop ends one byte early. *)
C_LoopDone_Early ==
  /\ GoC("loop", "rmS")
  /\ nWrite_file + 1 >= file_byte_count
  /\ UNCHANGED <<fileVars, sems, file_byte_count, buffer, prodVars, c_index, out>>

(* Cleanup: both segments and then the semaphores are removed, S first.      *)
(* A segment stays usable by whoever is attached to it.                      *)
C_LoopDone ==
  /\ GoC("loop", "rmS")
  /\ nWrite_file >= file_byte_count
  /\ UNCHANGED <<fileVars, sems, file_byte_count, buffer, prodVars, c_index, out>>

C_RemoveSemaphore ==
  /\ GoC("rmS", "rmN") \/ GoC("rmN", "rmE") \/ GoC("rmE", "done")
  /\ UNCHANGED <<fileVars, sems, file_byte_count, buffer, prodVars, c_index, out>>

Consumer ==
  \/ C_OpenOutput \/ C_WaitMeta
  \/ C_WaitN \/ C_WaitS \/ C_Write \/ C_Advance \/ C_SignalS \/ C_SignalE
  \/ C_LoopDone \/ C_RemoveSemaphore

-----------------------------------------------------------------------------
(* Failures of the environment, each only when FAULTS allows it. *)

(* The input file changes size while the program runs. *)
ResizeInput ==
  /\ \E n \in 0 .. Len(content) :
       /\ (n < avail /\ "shrink" \in FAULTS) \/ (n > avail /\ "grow" \in FAULTS)
       /\ avail' = n
  /\ UNCHANGED <<content, sems, file_byte_count, buffer, prodVars, consVars>>

(* stat fails, which the producer does not look at: st keeps what was on the *)
(* stack, and any size above the file's length acts as the next one does.    *)
P_StatFails ==
  /\ "stat" \in FAULTS
  /\ GoP("stat", "announce")
  /\ file_byte_count' \in 0 .. Len(content) + 1
  /\ UNCHANGED <<fileVars, sems, buffer, nRead, nWrite_shm, nWrite_shmTot,
                 p_index, consVars>>

(* open or read of the input file fails: the producer exits. *)
P_Fail ==
  /\ \/ "open" \in FAULTS /\ GoP("openFile", "failed")
     \/ "read" \in FAULTS /\ GoP("read", "failed") /\ nWrite_shmTot < file_byte_count
  /\ UNCHANGED <<fileVars, sems, file_byte_count, buffer, nRead, nWrite_shm,
                 nWrite_shmTot, p_index, consVars>>

(* unlink or open of the output file, or write to it, fails: the consumer    *)
(* exits, in the second case while it holds S.                               *)
C_Fail ==
  /\ \/ "open" \in FAULTS /\ GoC("open", "openFailed")
     \/ "write" \in FAULTS /\ GoC("write", "writeFailed")
  /\ UNCHANGED <<fileVars, sems, file_byte_count, buffer, prodVars, c_index, out>>

(* write() takes fewer bytes than the block holds: a message is printed and  *)
(* the consumer goes on to the next block.                                   *)
C_ShortWrite ==
  /\ "short" \in FAULTS
  /\ GoC("write", "advance")
  /\ \E n \in 0 .. buffer[c_index].bytes_to_count - 1 : CopyOut(n)
  /\ UNCHANGED <<fileVars, sems, file_byte_count, buffer, prodVars, c_index>>

Environment == ResizeInput \/ P_StatFails \/ P_Fail \/ C_Fail \/ C_ShortWrite

(* Both processes have exited. *)
Terminated ==
  /\ pcP \in {"done", "failed"}
  /\ pcC \in {"done", "openFailed", "writeFailed"}
  /\ UNCHANGED vars

Next == Producer \/ Consumer \/ Environment \/ Terminated

SafeSpec == Init /\ [][Next]_vars

UndisturbedNext == Producer \/ Consumer \/ Terminated

(* A session without failures.  Both processes are scheduled, and semop lets *)
(* a blocked process through once its semaphore stays positive.              *)
Spec ==
  Init /\ [][UndisturbedNext]_vars /\ WF_vars(Producer) /\ WF_vars(Consumer)

-----------------------------------------------------------------------------
(* Properties. *)

TypeOK ==
  /\ content \in Files
  /\ avail \in 0 .. Len(content)
  /\ S \in 0..1 /\ N \in 0 .. NUM_BUFFERS + 1 /\ E \in 0 .. NUM_BUFFERS
  /\ file_byte_count \in Nat
  /\ buffer \in [Slots -> [bytes_to_count : 0 .. STRING_SIZE, string_data : Nat]]
  /\ pcP \in {"sems", "stat", "announce", "openFile", "read", "fill", "lockS",
              "count", "data", "unlockS", "signalN", "done", "failed"}
  /\ pcC \in {"open", "waitMeta", "loop", "lockS", "write", "advance", "unlockS",
              "signalE", "rmS", "rmN", "rmE", "done", "openFailed", "writeFailed"}
  /\ nRead \in 0 .. BUFSIZ /\ nWrite_shm \in 0 .. nRead /\ nWrite_shmTot \in Nat
  /\ p_index \in Slots /\ c_index \in Slots
  /\ out \in Seq(Byte)

(* Producer and consumer are never in the same block at the same time        *)
(* (write_to_shared_memory against copy_to_file).  N and E alone guarantee   *)
(* it: Part B's claim is that this holds without S too.                      *)
SlotExclusion ==
  pcP \in {"count", "data"} /\ pcC \in {"write", "advance"} => p_index # c_index

NulFree == \A i \in 1 .. Len(content) : content[i] # NUL

IsPrefixOfInput ==
  /\ Len(out) <= Len(content)
  /\ \A k \in 1 .. Len(out) : out[k] = content[k]

(* Whatever the interleaving, the output file is at every moment a prefix of *)
(* the input file: no block is lost, repeated, reordered or torn, and        *)
(* nothing of an earlier output survives.                                    *)
CopyFaithful == NulFree /\ pcC \notin {"open", "openFailed"} => IsPrefixOfInput

(* The consumer removes the semaphores only when the producer will use none  *)
(* of them again: it has stored and announced every byte.                    *)
TeardownSafe ==
  pcC \in {"rmS", "rmN", "rmE", "done"} =>
    /\ pcP \in {"openFile", "read", "fill", "done", "failed"}
    /\ pcP = "fill" => nWrite_shm = nRead
    /\ pcP \in {"openFile", "read"} => nWrite_shmTot >= file_byte_count

(* The consumer finishes only with the whole file copied. *)
DoneIsComplete == NulFree /\ pcC = "done" => out = content

(* The copy ends: both processes finish and the output is the input. *)
CopyCompletes ==
  NulFree => <>(pcP = "done" /\ pcC = "done" /\ out = content)

(* The bytes of the output are among the first n of the input, in their      *)
(* order and none of them twice.                                             *)
KeptWithin(n) ==
  \E f \in [1 .. Len(out) -> 1 .. n] :
    /\ \A i, j \in 1 .. Len(out) : i < j => f[i] < f[j]
    /\ \A k \in 1 .. Len(out) : out[k] = content[f[k]]

(* Whatever fails, a run of short writes and a resized input included, the   *)
(* bytes that reach the output are in the order of the input and none is     *)
(* there twice.                                                              *)
OrderKept ==
  NulFree /\ pcC \notin {"open", "openFailed"} => KeptWithin(Len(content))

-----------------------------------------------------------------------------
(* The blocks in flight, oldest first, and the refinement of CopyChannel.    *)

Ind(b) == IF b THEN 1 ELSE 0

(* N also carries the token that announces the file size. *)
Announced == Ind(/\ pcC \in {"open", "waitMeta", "openFailed"}
                 /\ pcP \notin {"sems", "stat", "announce"})

(* Blocks filled by the producer and not yet passed by the consumer's index. *)
Live ==
  N - Announced + Ind(pcP \in {"unlockS", "signalN"})
    + Ind(pcC \in {"lockS", "write", "advance", "writeFailed"})

(* The slot d places after slot i, and after the consumer's. *)
RingAt(i, d) == IF i + d < NUM_BUFFERS THEN i + d ELSE i + d - NUM_BUFFERS
SlotAt(d) == RingAt(c_index, d)

(* The block at the consumer's index is already delivered. *)
Passed == Ind(pcC = "advance")

InFlight == [k \in 1 .. Live - Passed |-> buffer[SlotAt(Passed + k - 1)]]

Sent == nWrite_shmTot + nWrite_shm
Received == IF pcC \in {"open", "openFailed"} THEN 0 ELSE Len(out)

Channel ==
  INSTANCE CopyChannel WITH
    Capacity <- NUM_BUFFERS, MaxBlock <- STRING_SIZE,
    size <- Len(content), sent <- Sent, chan <- InFlight, received <- Received

(***************************************************************************)
(* The inductive invariant behind the safety properties.  Every slot is    *)
(* counted exactly once: free (E), in flight, held by the producer between *)
(* its wait on E and its store, or held by the consumer between its        *)
(* advance and its signal of E.  The bytes in flight continue the bytes    *)
(* delivered and end where the producer stands.                            *)
(***************************************************************************)
P_HoldsSlot == pcP \in {"lockS", "count", "data"}
C_HoldsSlot == pcC \in {"unlockS", "signalE"}
P_HoldsS == pcP \in {"count", "data", "unlockS"}
C_HoldsS == pcC \in {"write", "advance", "unlockS", "writeFailed"}
Removing == pcC \in {"rmS", "rmN", "rmE", "done"}

StartInv ==
  /\ pcP = "sems" => S = 0 /\ E = 0
  /\ pcP \in {"sems", "stat", "announce"} =>
       N = 0 /\ pcC \in {"open", "waitMeta", "openFailed"}
  /\ pcP \in {"sems", "stat", "announce", "openFile"} =>
       nRead = 0 /\ nWrite_shm = 0 /\ nWrite_shmTot = 0
  /\ pcC \in {"open", "waitMeta", "openFailed"} => N >= Announced

SlotInv ==
  pcC \notin {"rmE", "done"} =>
    /\ pcP # "sems" =>
         E + Live + Ind(P_HoldsSlot) + Ind(C_HoldsSlot) = NUM_BUFFERS
    /\ p_index = SlotAt(Live)

MutexInv ==
  /\ ~USE_S => S = IF pcP = "sems" THEN 0 ELSE 1
  /\ USE_S /\ pcP # "sems" /\ ~SRemoved => S + Ind(P_HoldsS) + Ind(C_HoldsS) = 1

ReadInv ==
  /\ pcP \in {"read", "done", "failed"} => nWrite_shm = 0
  /\ P_HoldsSlot => nWrite_shm < nRead
  /\ pcP \in {"fill", "lockS", "count", "data", "unlockS", "signalN"} =>
       nWrite_shmTot + nRead <= Len(content)
  /\ nWrite_shmTot + nWrite_shm <= Len(content)
  /\ pcP = "data" => buffer[p_index].bytes_to_count = BytesToWrite
  /\ pcP \notin {"sems", "stat"} => file_byte_count <= Len(content) + 1

BlocksInv ==
  ~Removing =>
    \A d \in 0 .. Live - 1 :
      buffer[SlotAt(d)].string_data + buffer[SlotAt(d)].bytes_to_count <= Len(content)

(* Where in the file the bytes begin that the consumer has not taken yet.    *)
Taken == IF Passed < Live THEN buffer[SlotAt(Passed)].string_data ELSE Sent

(* The blocks in flight follow each other in the file without a gap, and the *)
(* last of them ends where the producer stands.                              *)
RingInv ==
  ~Removing =>
    \A d \in Passed .. Live - 1 :
      LET b == buffer[SlotAt(d)]
      IN  /\ b.bytes_to_count > 0
          /\ b.string_data + b.bytes_to_count <= Sent
          /\ b.string_data + b.bytes_to_count =
               IF d + 1 < Live THEN buffer[SlotAt(d + 1)].string_data ELSE Sent

(* A block that a short write cut is not taken a second time.                *)
KeptInv ==
  OrderKept /\ (NulFree /\ ~Removing /\ pcC \notin {"open", "openFailed"} => KeptWithin(Taken))

(* Without "short" in FAULTS the consumer has delivered all that it has taken. *)
ChainInv == CopyFaithful /\ (~Removing => Received = Taken)

(* With short writes it may have delivered less. *)
TakenInv == ~Removing => Received <= Taken

(* Without "stat" and "grow" in FAULTS. *)
TeardownInv ==
  /\ pcP \notin {"sems", "stat"} => avail <= file_byte_count
  /\ pcP \in {"fill", "lockS", "count", "data", "unlockS", "signalN"} =>
       nWrite_shmTot + nRead <= file_byte_count
  /\ Removing =>
       /\ Received >= file_byte_count
       /\ pcP \in {"openFile", "read", "fill", "done", "failed"}
       /\ pcP = "fill" => nWrite_shm = nRead /\ nWrite_shmTot + nRead >= file_byte_count
       /\ pcP \in {"openFile", "read"} => nWrite_shmTot >= file_byte_count

(* Without "stat", "grow" and "shrink" in FAULTS. *)
SizeInv ==
  avail = Len(content) /\ (pcP \notin {"sems", "stat"} => file_byte_count = avail)

IInv ==
  TypeOK /\ StartInv /\ SlotInv /\ MutexInv /\ ReadInv /\ BlocksInv

(* The pipeline implements the bounded FIFO channel, its progress included.  *)
ChannelSpec == Channel!Spec

=============================================================================
