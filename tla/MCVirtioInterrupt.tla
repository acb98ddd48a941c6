------------------------- MODULE MCVirtioInterrupt --------------------------
(***************************************************************************)
(* Two devices on two pins with a vector each.                             *)
(***************************************************************************)
EXTENDS VirtioInterrupt

MCVectors == {0, 48, 49}
MCVectorOf == [p \in 0 .. 1 |-> 48 + p]
=============================================================================
