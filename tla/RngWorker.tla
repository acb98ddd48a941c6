----------------------------- MODULE RngWorker ------------------------------
(***************************************************************************)
(* The entropy device (src/devices/virtio/rng/worker.rs) on pin 0 of the   *)
(* interrupt path, from the driver's request to the driver's handler: the  *)
(* request is made available, the queue's event is signalled, the worker   *)
(* drains the queue, and what it returned comes back through try_signal,   *)
(* the I/O APIC and the handler of VirtioInterrupt.  The device offers no  *)
(* EVENT_IDX, so the used ring's NO_NOTIFY flag is what suppresses kicks   *)
(* and needs_notification is always true.  The other pins keep their       *)
(* workers as VirtioInterrupt has them.                                    *)
(*                                                                         *)
(* There is one vCPU, so the driver posts and kicks only while it is not   *)
(* in the interrupt handler, but the handler may run in between.           *)
(*                                                                         *)
(* An operator named X_<fault> is a deliberately faulty variant of X that  *)
(* no specification uses: some property must tell it apart from X.         *)
(***************************************************************************)
EXTENDS VirtioInterrupt, Sequences

CONSTANTS Requests,  \* the buffers of the driver
          Bad        \* those whose chain Writer::new may reject

VARIABLES place,      \* where each request is
          buffer,     \* what its buffer holds
          avail,      \* the available ring, in order
          no_notify,  \* VRING_USED_F_NO_NOTIFY in the used ring's flags
          queue_evt,  \* the queue's auto-reset event
          posted,     \* whether the driver has yet to decide about a kick
          rpc, used_any

rng == <<place, buffer, avail, no_notify, queue_evt, posted, rpc, used_any>>
rngVars == <<vars, rng>>

PIN == 0

-----------------------------------------------------------------------------
(* The driver. *)

\* A buffer is made available ...
Post(r) ==
  /\ gpc = "run" /\ ~posted
  /\ place[r] = "free"
  /\ place' = [place EXCEPT ![r] = "avail"]
  /\ avail' = Append(avail, r)
  /\ posted' = TRUE
  /\ UNCHANGED <<vars, buffer, no_notify, queue_evt, rpc, used_any>>

\* ... and announced through register 0x50, unless the device asked not to.
Kick ==
  /\ gpc = "run" /\ posted
  /\ posted' = FALSE
  /\ queue_evt' = (queue_evt \/ ~no_notify)
  /\ UNCHANGED <<vars, place, buffer, avail, no_notify, rpc, used_any>>

\* The handler takes back what is in the used ring and consumes the bytes.
TakeUsed ==
  /\ HandleUsed
  /\ LET taken == {r \in Requests : cur = PIN /\ place[r] \in {"empty", "filled"}}
     IN /\ place' = [r \in Requests |-> IF r \in taken THEN "free" ELSE place[r]]
        /\ buffer' = [r \in Requests |-> IF r \in taken THEN "old" ELSE buffer[r]]
  /\ UNCHANGED <<avail, no_notify, queue_evt, posted, rpc, used_any>>

-----------------------------------------------------------------------------
(* The worker. *)

\* work: the event is consumed and process_virtio_queues begins its loop.
Wake ==
  /\ rpc = "wait" /\ queue_evt
  /\ queue_evt' = FALSE
  /\ no_notify' = TRUE /\ used_any' = FALSE
  /\ rpc' = "drain"
  /\ UNCHANGED <<vars, place, buffer, avail, posted>>

add_used(r, answer) ==
  /\ place' = [place EXCEPT ![r] = answer]
  /\ used' = [used EXCEPT ![PIN] = TRUE]
  /\ used_any' = TRUE

\* The body of process_queue's loop.  A chain that Writer::new rejects is passed
\* over and not returned.  No room, no random bytes or a failed write: 0 bytes are
\* reported used.  Otherwise the whole buffer is filled and reported.
Serve(r) ==
  \/ /\ r \in Bad
     /\ place' = [place EXCEPT ![r] = "leaked"]
     /\ UNCHANGED <<buffer, used, used_any>>
  \/ /\ add_used(r, "empty")
     /\ UNCHANGED buffer
  \/ /\ buffer' = [buffer EXCEPT ![r] = "random"]
     /\ add_used(r, "filled")

PopAndServe ==
  /\ rpc = "drain" /\ avail # <<>>
  /\ avail' = Tail(avail)
  /\ Serve(Head(avail))
  /\ UNCHANGED <<chip, status, wpc, gpc, cur, level, lapic, no_notify, queue_evt, posted, rpc>>

EndBatch_NoSignal ==
  /\ rpc = "drain" /\ avail = <<>>
  /\ rpc' = "enable"
  /\ UNCHANGED <<vars, place, buffer, avail, no_notify, queue_evt, posted, used_any>>

\* The queue is empty: one interrupt for the batch, if anything was returned.
EndBatch ==
  /\ rpc = "drain" /\ avail = <<>>
  /\ wpc' = [wpc EXCEPT ![PIN] = IF used_any THEN "first" ELSE "idle"]
  /\ rpc' = "enable"
  /\ UNCHANGED <<chip, status, used, gpc, cur, level, lapic, place, buffer, avail, no_notify,
                 queue_evt, posted, used_any>>

\* enable_notification after try_signal has returned: the flag is cleared ...
Enable ==
  /\ rpc = "enable" /\ wpc[PIN] = "idle"
  /\ no_notify' = FALSE
  /\ rpc' = "recheck"
  /\ UNCHANGED <<vars, place, buffer, avail, queue_evt, posted, used_any>>

Recheck_Skipped ==
  /\ rpc = "recheck"
  /\ rpc' = "wait"
  /\ UNCHANGED <<vars, place, buffer, avail, no_notify, queue_evt, posted, used_any>>

\* ... and what came in meanwhile starts the loop again.
Recheck ==
  /\ rpc = "recheck"
  /\ IF avail = <<>>
     THEN rpc' = "wait" /\ UNCHANGED <<no_notify, used_any>>
     ELSE rpc' = "drain" /\ no_notify' = TRUE /\ used_any' = FALSE
  /\ UNCHANGED <<vars, place, buffer, avail, queue_evt, posted>>

Worker == Wake \/ PopAndServe \/ EndBatch \/ Enable \/ Recheck

-----------------------------------------------------------------------------

RngInit ==
  /\ Init
  /\ place = [r \in Requests |-> "free"] /\ buffer = [r \in Requests |-> "old"]
  /\ avail = <<>> /\ no_notify = FALSE /\ queue_evt = FALSE /\ posted = FALSE
  /\ rpc = "wait" /\ used_any = FALSE

Signal(p) == try_signal(p) /\ UNCHANGED rng

\* The vCPU thread, with the handler that takes back the requests.
RngVcpu ==
  \/ /\ \/ \E p \in Pins : TakeVector(p)
        \/ ReadStatus \/ InterruptAck \/ try_clear_irq \/ ApicEoi \/ EoiScan
     /\ UNCHANGED rng
  \/ TakeUsed

RngNext ==
  \/ RngVcpu \/ Kick \/ Worker
  \/ \E r \in Requests : Post(r)
  \/ \E p \in Pins \ {PIN} : Complete(p) /\ UNCHANGED rng
  \/ \E p \in Pins : Signal(p)

\* As in VirtioInterrupt; the worker thread runs when it can, and a driver that
\* has posted a request goes on to the kick however often it is interrupted.
RngFairness ==
  /\ WF_rngVars(RngVcpu) /\ WF_rngVars(Worker) /\ SF_rngVars(Kick)
  /\ \A p \in Pins : /\ SF_rngVars(Signal(p))
                     /\ SF_rngVars(TakeVector(p) /\ UNCHANGED rng)

RngSpec == RngInit /\ [][RngNext]_rngVars /\ RngFairness

-----------------------------------------------------------------------------
(* Properties. *)

\* Bytes are reported to the guest as entropy only if the host's generator
\* produced them and they reached the buffer.
ReportedIsRandom == \A r \in Requests : place[r] = "filled" => buffer[r] = "random"

\* A request nobody is going to serve does not exist: while the worker waits, or
\* is about to, an available request has its event signalled or its kick to come,
\* and that kick will not be suppressed.
RequestIsNoticed ==
  rpc = "wait" /\ avail # <<>> => queue_evt \/ (posted /\ ~no_notify)

\* The worker neither overlooks a request nor answers one with bytes that are not
\* random, whatever fails (rng/worker.rs, process_queue).
RequestsAreKept == ReportedIsRandom /\ RequestIsNoticed

\* A request comes back to the driver, through the queue, the worker, the
\* interrupt and the handler, however those interleave with each other and with
\* the other device; only a chain that Writer::new rejected does not.
EntropyArrives ==
  \A r \in Requests : place[r] = "avail" ~> place[r] \in {"free", "leaked"}
=============================================================================
