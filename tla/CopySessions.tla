---------------------------- MODULE CopySessions ----------------------------
(***************************************************************************)
(* Assign2, one session after another.  System V IPC objects live until    *)
(* they are removed, so what a session leaves behind when a process of it  *)
(* is killed or fails is found by the next: semget and shmget with         *)
(* IPC_CREAT return the old objects, with their old values.  Only the      *)
(* producer's SETVALs (set_semvalue) set them right.                       *)
(*                                                                         *)
(* The processes of a session are those of SharedBuffer.  The user starts  *)
(* both, in either order, when those of the session before have ended.     *)
(*                                                                         *)
(* Two things take the ground from a session, which goes on all the same:  *)
(* its consumer takes a token that an earlier session left in N, or a      *)
(* semop is interrupted and its caller does not look.  The history         *)
(* variable disturbed remembers it; no action depends on it.               *)
(***************************************************************************)
EXTENDS SharedBuffer

CONSTANTS
  MAX_SESSIONS,   \* bound: sessions the user starts
  MAX_INTERRUPTS  \* bound: waits that a signal interrupts

ASSUME SessionsAssumption ==
  MAX_SESSIONS \in Nat \ {0} /\ MAX_INTERRUPTS \in Nat

VARIABLES
  session,      \* the number of the session
  killed,       \* its processes that were killed
  semsSet,      \* how many of S, N and E its producer has set
  ringRemoved,  \* its consumer was killed with only the ring's segment removed
  interrupts,   \* waits interrupted so far
  fresh,        \* history: the slots that hold a whole block of this session
  disturbed,    \* history: "no", or how the session was disturbed
  orderly       \* history: each earlier session ended with the removal of its objects

killVars == <<killed, ringRemoved>>
historyVars == <<fresh, disturbed, orderly>>
sessionVars == <<session, killVars, semsSet, interrupts, historyVars>>
allVars == <<vars, sessionVars>>

SessionsInit ==
  /\ Init
  /\ session = 1 /\ killed = {} /\ semsSet = 0 /\ ringRemoved = FALSE
  /\ interrupts = 0 /\ fresh = {} /\ disturbed = "no" /\ orderly = TRUE

Runs(process) == process \notin killed

-----------------------------------------------------------------------------
(* The producer. *)

(* The SETVALs of S, N and E are steps of their own here: a consumer that    *)
(* was let through by an old token may run between them.  One on a semaphore *)
(* that such a consumer has removed fails, and the producer exits.           *)
P_SetS ==
  /\ pcP = "sems" /\ semsSet = 0 /\ ~SRemoved
  /\ S' = 1 /\ semsSet' = 1
  /\ UNCHANGED <<fileVars, N, E, file_byte_count, buffer, prodVars, consVars>>

(* Mutant: N keeps the value it has. *)
P_SetN_Keeps ==
  /\ pcP = "sems" /\ semsSet = 1 /\ ~NRemoved
  /\ semsSet' = 2
  /\ UNCHANGED vars

P_SetN ==
  /\ pcP = "sems" /\ semsSet = 1 /\ ~NRemoved
  /\ N' = 0 /\ semsSet' = 2
  /\ UNCHANGED <<fileVars, S, E, file_byte_count, buffer, prodVars, consVars>>

(* Mutant: E starts one too high. *)
P_SetE_OneTooMany ==
  /\ semsSet = 2 /\ ~ERemoved
  /\ GoP("sems", "stat")
  /\ E' = NUM_BUFFERS + 1 /\ semsSet' = 3
  /\ UNCHANGED <<fileVars, S, N, file_byte_count, buffer, nRead, nWrite_shm,
                 nWrite_shmTot, p_index, consVars>>

(* Mutant: E is set only when it is zero. *)
P_SetE_KeepsE ==
  /\ semsSet = 2 /\ ~ERemoved
  /\ GoP("sems", "stat")
  /\ E' = IF E = 0 THEN NUM_BUFFERS ELSE E
  /\ semsSet' = 3
  /\ UNCHANGED <<fileVars, S, N, file_byte_count, buffer, nRead, nWrite_shm,
                 nWrite_shmTot, p_index, consVars>>

P_SetE ==
  /\ semsSet = 2 /\ ~ERemoved
  /\ GoP("sems", "stat")
  /\ E' = NUM_BUFFERS /\ semsSet' = 3
  /\ UNCHANGED <<fileVars, S, N, file_byte_count, buffer, nRead, nWrite_shm,
                 nWrite_shmTot, p_index, consVars>>

P_SetFails ==
  /\ \/ semsSet = 0 /\ SRemoved
     \/ semsSet = 1 /\ NRemoved
     \/ semsSet = 2 /\ ERemoved
  /\ GoP("sems", "failed")
  /\ UNCHANGED <<fileVars, sems, file_byte_count, buffer, nRead, nWrite_shm,
                 nWrite_shmTot, p_index, consVars, semsSet>>

(* A slot holds a whole block of the session from the store of its text to   *)
(* the next store of a count.                                                *)
Filled ==
  IF pcP = "count" THEN fresh \ {p_index}
  ELSE IF pcP = "data" THEN fresh \union {p_index} ELSE fresh

ProducerStep ==
  /\ Runs("producer")
  /\ \/ P_SetS \/ P_SetN \/ P_SetE \/ P_SetFails
     \/ pcP # "sems" /\ (Producer \/ P_StatFails \/ P_Fail) /\ UNCHANGED semsSet
  /\ fresh' = Filled
  /\ UNCHANGED <<session, killVars, interrupts, disturbed, orderly>>

-----------------------------------------------------------------------------
(* The consumer. *)

(* The consumer passes on a token that is not this session's announcement. *)
TakesOldToken ==
  pcC = "waitMeta" /\ pcC' = "loop" /\ pcP \in {"sems", "stat", "announce"}

(* The slot does not hold a whole block of this session: what is there was   *)
(* left by an earlier one, or the producer is about to replace it.           *)
ReadsOld == pcC = "write" /\ c_index \notin fresh

(* As many bytes as the slot's count says are written.  Which ones they are, *)
(* bytes of an earlier session, is left open: a NUL stands for each.         *)
C_WriteOld ==
  /\ ReadsOld
  /\ GoC("write", "advance")
  /\ LET count == buffer[c_index].bytes_to_count
     IN  \E n \in {count} \union (IF "short" \in FAULTS THEN 0 .. count - 1 ELSE {}) :
           out' = out \o [k \in 1 .. n |-> NUL]
  /\ UNCHANGED <<fileVars, sems, file_byte_count, buffer, prodVars, c_index>>

ConsumerStep ==
  /\ Runs("consumer")
  /\ \/ ~ReadsOld /\ (Consumer \/ C_ShortWrite)
     \/ C_WriteOld \/ C_Fail
  /\ disturbed' = IF TakesOldToken /\ disturbed = "no" THEN "misled" ELSE disturbed
  /\ UNCHANGED <<session, killVars, semsSet, interrupts, fresh, orderly>>

FileStep == ResizeInput /\ UNCHANGED sessionVars

-----------------------------------------------------------------------------
(* Signals and restarts. *)

Exited(process) ==
  IF process = "producer" THEN pcP \in {"done", "failed"}
                          ELSE pcC \in {"done", "openFailed", "writeFailed"}

(* The consumer removes the two segments one after the other when it leaves  *)
(* its loop: it may be killed between the two.                               *)
Kill(process) ==
  /\ Runs(process) /\ ~Exited(process)
  /\ killed' = killed \union {process}
  /\ ringRemoved' \in
       IF process = "consumer" /\ pcC = "loop" /\ nWrite_file >= file_byte_count
       THEN BOOLEAN ELSE {ringRemoved}
  /\ UNCHANGED <<vars, session, semsSet, interrupts, historyVars>>

(* A process that waits is stopped and continued: its semop fails (EINTR),   *)
(* which semaphore_wait reports to a caller that does not look.  It goes on  *)
(* without the token.                                                        *)
P_Interrupted ==
  /\ \/ nWrite_shm < nRead /\ E = 0 /\ ~ERemoved /\ GoP("fill", "lockS")
     \/ USE_S /\ S = 0 /\ ~SRemoved /\ GoP("lockS", "count")
  /\ UNCHANGED <<fileVars, sems, file_byte_count, buffer, nRead, nWrite_shm,
                 nWrite_shmTot, p_index, consVars>>

C_Interrupted ==
  /\ \/ N = 0 /\ GoC("waitMeta", "loop")
     \/ nWrite_file < file_byte_count /\ N = 0 /\ GoC("loop", "lockS")
     \/ USE_S /\ S = 0 /\ GoC("lockS", "write")
  /\ UNCHANGED <<fileVars, sems, file_byte_count, buffer, prodVars, c_index, out>>

InterruptWait ==
  /\ interrupts < MAX_INTERRUPTS /\ interrupts' = interrupts + 1
  /\ \/ Runs("producer") /\ P_Interrupted
     \/ Runs("consumer") /\ C_Interrupted
  /\ disturbed' = IF disturbed = "no" THEN "interrupted" ELSE disturbed
  /\ UNCHANGED <<session, killVars, semsSet, fresh, orderly>>

(* What semget finds of a semaphore. *)
LeftOver(sem, removed) == IF removed THEN 0 ELSE sem

SessionOver ==
  \A process \in {"producer", "consumer"} : Exited(process) \/ process \in killed

(* Both programs are started again, over a file that may have changed, and   *)
(* get the objects they find.  The output file is unlinked before it is      *)
(* used: OldOutputs stands for it.                                           *)
NewSession ==
  /\ SessionOver /\ session < MAX_SESSIONS
  /\ session' = session + 1
  /\ killed' = {} /\ semsSet' = 0 /\ ringRemoved' = FALSE
  /\ fresh' = {} /\ disturbed' = "no"
  /\ orderly' = (orderly /\ pcC = "done")
  /\ content' \in Files
  /\ avail' \in IF "grow" \in FAULTS THEN 0 .. Len(content') ELSE {Len(content')}
  /\ S' = LeftOver(S, SRemoved)
  /\ N' = LeftOver(N, NRemoved)
  /\ E' = LeftOver(E, ERemoved)
  /\ buffer' = IF Removing \/ ringRemoved
               THEN [i \in Slots |-> [bytes_to_count |-> 0, string_data |-> 0]]
               ELSE buffer
  /\ file_byte_count' = IF Removing THEN 0 ELSE file_byte_count
  /\ pcP' = "sems" /\ nRead' = 0 /\ nWrite_shm' = 0 /\ nWrite_shmTot' = 0 /\ p_index' = 0
  /\ pcC' = "open" /\ c_index' = 0
  /\ out' \in OldOutputs
  /\ UNCHANGED interrupts

SessionsNext ==
  \/ ProducerStep \/ ConsumerStep \/ FileStep
  \/ \E process \in {"producer", "consumer"} : Kill(process)
  \/ InterruptWait \/ NewSession

SessionsSpec == SessionsInit /\ [][SessionsNext]_allVars

-----------------------------------------------------------------------------
(* Properties.  Nothing is promised of a disturbed session.  The others keep *)
(* what a first session keeps, whatever the sessions before them, disturbed  *)
(* ones and killed ones, left in the semaphores and segments.                *)

Undisturbed == disturbed = "no"

(* Producer and consumer are never in the same slot, though a process killed *)
(* while it held one took it with it.                                        *)
ExclusionRestored == Undisturbed => SlotExclusion

(* The output has bytes of this session's input, in its order and none twice *)
(* (nWrite_file counts them), though old blocks are left in the ring.        *)
OrderRestored == Undisturbed => OrderKept

(* readme:10, a consumer started first waits for the producer: what it       *)
(* writes are whole blocks of its own session.                               *)
NoStaleBlock == pcC = "write" => c_index \in fresh

(* A consumer writes only whole blocks of its own session, though it reads   *)
(* the ring of the sessions before.                                          *)
OwnBlocksOnly == Undisturbed => NoStaleBlock

(* Once the producer has set the semaphores, every slot is counted once and  *)
(* S is free or held by one process, whatever was left behind by processes   *)
(* that were killed while they held a slot or S.                             *)
CountsRestored == Undisturbed /\ pcP # "sems" => SlotInv /\ MutexInv

(* As long as every session ends with the removal of its objects, however it *)
(* came there, no consumer takes a token of another session.                 *)
MisledOnlyByLeftovers == disturbed = "misled" => ~orderly

-----------------------------------------------------------------------------
(***************************************************************************)
(* The inductive invariant.  Until its producer has set the semaphores     *)
(* nothing of them is known to a session, except that they are fresh as    *)
(* long as every session has removed its objects; from then on what holds  *)
(* of the first session holds of it, whatever was left over.               *)
(***************************************************************************)

FreshStart ==
  /\ pcC \in {"open", "waitMeta", "openFailed"}
  /\ nRead = 0 /\ nWrite_shm = 0 /\ nWrite_shmTot = 0
  /\ p_index = 0 /\ c_index = 0
  /\ out \in Seq(Byte) /\ (pcC = "waitMeta" => out = <<>>)
  /\ semsSet \in 0 .. 2
  /\ semsSet >= 1 => S = 1
  /\ semsSet >= 2 \/ orderly => N = 0

(* Every block in flight was filled in this session. *)
FilledHere == ~Removing => \A d \in 0 .. Live - 1 : SlotAt(d) \in fresh

(* What a session keeps even when it is disturbed. *)
LeftInv ==
  /\ content \in Files /\ avail \in 0 .. Len(content)
  /\ buffer \in [Slots -> [bytes_to_count : 0 .. STRING_SIZE, string_data : Nat]]
  /\ file_byte_count \in Nat
  /\ nRead \in Nat /\ nWrite_shm \in Nat /\ nWrite_shmTot \in Nat
  /\ P_HoldsSlot => nWrite_shm < nRead
  /\ p_index \in Slots /\ c_index \in Slots

SessionInv ==
  /\ LeftInv
  /\ Undisturbed =>
       IF pcP = "sems" THEN FreshStart
       ELSE IInv /\ RingInv /\ KeptInv /\ FilledHere
  /\ MisledOnlyByLeftovers

=============================================================================
