---------------------------- MODULE MCVirtqueue -----------------------------
(***************************************************************************)
(* Two chains in a queue of two, with indices that wrap after four: the    *)
(* largest queue the index width allows, so that every wrapped comparison  *)
(* is met at its boundary.  EVENT_IDX on and off are both initial states.  *)
(***************************************************************************)
EXTENDS Virtqueue
=============================================================================
