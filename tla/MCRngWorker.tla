---------------------------- MODULE MCRngWorker -----------------------------
(***************************************************************************)
(* The entropy device with one buffer, posted again and again, on pin 0    *)
(* and another device on pin 1, with a vector each.                        *)
(***************************************************************************)
EXTENDS RngWorker

MCVectors == {0, 48, 49}
MCVectorOf == [p \in 0 .. 1 |-> 48 + p]
=============================================================================
