-------------------------- MODULE MCSharedBuffer ---------------------------
(* Small instances of SharedBuffer: every byte of a file is told from the    *)
(* others, so that a lost, repeated or reordered byte shows.                 *)
EXTENDS SharedBuffer

MCByte == 0..9
MCFile(n) == [i \in 1..n |-> i]

(* Empty, a partial block, a full read, and more blocks than the ring holds. *)
MCFiles == {MCFile(n) : n \in 0..9}
MCOldOutputs == {<<>>, <<9, 9>>}
=============================================================================
