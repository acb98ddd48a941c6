------------------------------ MODULE MCIoApic ------------------------------
(***************************************************************************)
(* Two pins that may share a vector, one vector apart from the reset value *)
(* and a choice of registers with both halves of both entries, one         *)
(* identification register, one index past the table and a word wider than *)
(* the selector.                                                           *)
(***************************************************************************)
EXTENDS IoApicAccess

MCVectors == {0, 48}
MCDests == {0, 1}
MCRegWords == {0, 272, 17, 18, 19, 20}
=============================================================================
