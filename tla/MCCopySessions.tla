-------------------------- MODULE MCCopySessions ---------------------------
(* Small instances of CopySessions: the bytes of a file are distinct.        *)
EXTENDS CopySessions

MCByte == 0..9
MCFile(n) == [i \in 1..n |-> i]

(* Three blocks of one byte, more than the ring of two slots holds, in two   *)
(* reads.                                                                    *)
MCFiles == {MCFile(3)}
MCOldOutputs == {<<9, 9>>}
=============================================================================
