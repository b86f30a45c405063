---------------------------- MODULE CopyChannel ----------------------------
(***************************************************************************)
(* What the file-copy pipeline of Assign2 promises, without semaphores,    *)
(* slots or processes: a bounded FIFO channel carries a file of `size'     *)
(* bytes in blocks.  Blocks are cut from the file in order, each is at     *)
(* most MaxBlock bytes, at most Capacity of them are in flight, and they   *)
(* are delivered in the order they were cut.                               *)
(***************************************************************************)
EXTENDS Naturals, Sequences

CONSTANTS
  Capacity,   \* blocks that may be in flight (NUM_BUFFERS, common_shm.h)
  MaxBlock    \* bytes a block may carry (STRING_SIZE, common_shm.h)

VARIABLES
  size,       \* bytes in the file
  sent,       \* bytes cut from the file so far
  chan,       \* blocks in flight, oldest first
  received    \* bytes delivered so far

vars == <<size, sent, chan, received>>

(* A block: the file offset of its first byte, and its number of bytes. *)
Block == [string_data : Nat, bytes_to_count : Nat]

Init ==
  /\ size \in Nat
  /\ sent = 0
  /\ chan = <<>>
  /\ received = 0

(* The next bytes of the file enter the channel as one block. *)
Put ==
  /\ Len(chan) < Capacity
  /\ \E n \in 1..MaxBlock :
       /\ sent + n <= size
       /\ sent' = sent + n
       /\ chan' = Append(chan, [string_data |-> sent, bytes_to_count |-> n])
  /\ UNCHANGED <<size, received>>

(* The oldest block in flight is delivered. *)
Get ==
  /\ chan # <<>>
  /\ Head(chan).string_data = received
  /\ received' = received + Head(chan).bytes_to_count
  /\ chan' = Tail(chan)
  /\ UNCHANGED <<size, sent>>

Next == Put \/ Get

SafeSpec == Init /\ [][Next]_vars

(* Neither end of the pipeline stops while it can move. *)
Spec == SafeSpec /\ WF_vars(Put) /\ WF_vars(Get)

=============================================================================
