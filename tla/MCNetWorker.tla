---------------------------- MODULE MCNetWorker -----------------------------
(***************************************************************************)
(* A few frames against fewer buffers than frames, batches of two, and     *)
(* pipes that hold one frame, so that lists are put back, both pipes fill  *)
(* up and a batch ends for either reason.                                  *)
(***************************************************************************)
EXTENDS NetWorker
=============================================================================
