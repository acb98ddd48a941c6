--------------------------- MODULE MmioTransport ----------------------------
(***************************************************************************)
(* The virtio-mmio transport of one device (src/devices/virtio/mmio.rs)    *)
(* with the device's activation and reset and the life of its worker       *)
(* thread (src/devices/virtio/{device,block/device,block/worker}.rs; rng,  *)
(* console and net follow the same pattern).                               *)
(*                                                                         *)
(* The vCPU thread runs the register handlers, one at a time.  A handler   *)
(* is one step, but for a reset of an active device: that signals the      *)
(* worker's stop event and then blocks in join, holding the transport's    *)
(* and the device's locks, while the worker goes on (vpc = "join").        *)
(*                                                                         *)
(* device_status is the set of its bits.  The address registers of a queue *)
(* are written under the same guard as its size, which stands for them.    *)
(* Signalling is a single step here; VirtioInterrupt has its interleavings.*)
(*                                                                         *)
(* An operator named X_<fault> is a deliberately faulty variant of X that  *)
(* no specification uses: some property must tell it apart from X.         *)
(***************************************************************************)
EXTENDS Integers, FiniteSets

CONSTANTS NumQueues,     \* length of queue_config
          Sizes,         \* the sizes drivers write; 0 is that of a fresh queue
          Offered,       \* avail_features, each feature a <<page, bit>> pair
          AckWords,      \* the sets of bits drivers write to DriverFeatures
          EventIdx       \* the pair that stands for VIRTIO_RING_F_EVENT_IDX

ASSUME MmioAssumption ==
  /\ NumQueues \in Nat \ {0}
  /\ 0 \in Sizes

VARIABLES device_status, features_select, acked_features_select, queue_select,
          queues,      \* the transport's queues, or NoQueues after activation
          acked,       \* acked_features of the device
          ackedSince,  \* those of them acknowledged since the last reset (not in the code)
          activated,   \* DeviceState
          worker,      \* the worker thread
          devQueues,   \* the queues the worker owns
          event_idx_enabled,
          queue_evt, stop_evt, \* auto-reset events
          status, line,        \* interrupt status (VRING bit) and the device's pin
          vpc,                 \* the vCPU thread
          wait_failed          \* whether some wait of a worker ever failed (not in the code)

transport == <<device_status, features_select, acked_features_select, queue_select, queues>>
features == <<acked, ackedSince>>
thread == <<activated, worker, devQueues, event_idx_enabled>>
events == <<queue_evt, stop_evt>>
interrupt == <<status, line>>
vars == <<transport, features, thread, events, interrupt, vpc, wait_failed>>

QueueIds == 0 .. NumQueues - 1
Pages == 0 .. 2        \* page 2 stands for every page the device does not know
Bits == {"ACKNOWLEDGE", "DRIVER", "FEATURES_OK", "DRIVER_OK", "FAILED"}
NoQueues == [q \in {} |-> 0]
create_queues == [q \in QueueIds |-> [size |-> 0, ready |-> FALSE]]

check_device_status(set, clr) == set \subseteq device_status /\ clr \cap device_status = {}

-----------------------------------------------------------------------------
(* Register writes. *)

\* Registers 0x14, 0x24 and 0x30 only store the selector.
WriteSelect ==
  /\ vpc = "run"
  /\ \/ /\ features_select' \in Pages
        /\ UNCHANGED <<acked_features_select, queue_select>>
     \/ /\ acked_features_select' \in Pages
        /\ UNCHANGED <<features_select, queue_select>>
     \/ /\ queue_select' \in 0 .. NumQueues
        /\ UNCHANGED <<features_select, acked_features_select>>
  /\ UNCHANGED <<device_status, queues, features, thread, events, interrupt, vpc>>

\* Bits of an unknown page, and bits that were not offered, do not count.
Acknowledged(bits) == {<<acked_features_select, b>> : b \in bits} \cap Offered

\* Register 0x20.
ack_features_by_page(bits) ==
  /\ vpc = "run"
  /\ check_device_status({"DRIVER"}, {"FEATURES_OK", "FAILED"})
  /\ acked' = acked \union Acknowledged(bits)
  /\ ackedSince' = ackedSince \union Acknowledged(bits)
  /\ UNCHANGED <<transport, thread, events, interrupt, vpc>>

\* Registers 0x38, 0x44 and 0x80 to 0xa4.  The queues are gone once the device
\* is active, and a selector past the last queue selects nothing.
update_queue_field ==
  /\ vpc = "run"
  /\ check_device_status({"FEATURES_OK"}, {"FAILED"})
  /\ queue_select \in DOMAIN queues
  /\ \/ \E n \in Sizes : queues' = [queues EXCEPT ![queue_select].size = n]
     \/ \E r \in BOOLEAN : queues' = [queues EXCEPT ![queue_select].ready = r]
  /\ UNCHANGED <<device_status, features_select, acked_features_select, queue_select,
                 features, thread, events, interrupt, vpc>>

\* Registers 0x34 and 0x44 as the driver reads them, for the queue it selected:
\* its largest size (here 1) while the transport has the queues, and 0, the default
\* of with_queue, once they have gone to the device.
QueueNumMax == IF queue_select \in DOMAIN queues THEN 1 ELSE 0
QueueReady == queue_select \in DOMAIN queues /\ queues[queue_select].ready

\* Register 0x50.
QueueNotify(q) ==
  /\ vpc = "run"
  /\ queue_evt' = [queue_evt EXCEPT ![q] = TRUE]
  /\ UNCHANGED <<transport, features, thread, stop_evt, interrupt, vpc>>

\* Register 0x64 with the VRING bit.
InterruptAck ==
  /\ vpc = "run"
  /\ check_device_status({"DRIVER_OK"}, {})
  /\ status' = FALSE
  /\ line' = FALSE
  /\ UNCHANGED <<transport, features, thread, events, vpc>>

-----------------------------------------------------------------------------
(* Register 0x70, set_device_status(new). *)

\* The negotiation steps: exactly one new bit, from exactly the right state.
\* The written word replaces the status, the bits it clears included.
NegotiationStep(bit, from, new) ==
  /\ vpc = "run"
  /\ new \ device_status = {bit}
  /\ device_status = from
  /\ device_status' = new

Negotiate(new) ==
  /\ \/ NegotiationStep("ACKNOWLEDGE", {}, new)
     \/ NegotiationStep("DRIVER", {"ACKNOWLEDGE"}, new)
     \/ NegotiationStep("FEATURES_OK", {"ACKNOWLEDGE", "DRIVER"}, new)
  /\ UNCHANGED <<features_select, acked_features_select, queue_select, queues, features,
                 thread, events, interrupt, vpc>>

\* The queues move to the device, which starts its worker.  Without queues the
\* call returns and nothing happens.
activate ==
  IF queues = NoQueues
  THEN UNCHANGED <<queues, thread>>
  ELSE /\ devQueues' = queues
       /\ queues' = NoQueues
       /\ event_idx_enabled' = (EventIdx \in acked)
       /\ worker' = "wait"
       /\ activated' = TRUE

DriverOk(new) ==
  /\ NegotiationStep("DRIVER_OK", {"ACKNOWLEDGE", "DRIVER", "FEATURES_OK"}, new)
  /\ IF activated THEN UNCHANGED <<queues, thread>> ELSE activate
  /\ UNCHANGED <<features_select, acked_features_select, queue_select, features, events,
                 interrupt, vpc>>

\* The words set_device_status takes for a negotiation step.
IsNegotiation(new) ==
  \/ new \ device_status = {"ACKNOWLEDGE"} /\ device_status = {}
  \/ new \ device_status = {"DRIVER"} /\ device_status = {"ACKNOWLEDGE"}
  \/ new \ device_status = {"FEATURES_OK"} /\ device_status = {"ACKNOWLEDGE", "DRIVER"}
  \/ /\ new \ device_status = {"DRIVER_OK"}
     /\ device_status = {"ACKNOWLEDGE", "DRIVER", "FEATURES_OK"}

SetFailed(new) ==
  /\ vpc = "run"
  /\ ~IsNegotiation(new)
  /\ "FAILED" \in new
  /\ device_status' = device_status \union {"FAILED"}
  /\ UNCHANGED <<features_select, acked_features_select, queue_select, queues, features,
                 thread, events, interrupt, vpc>>

reset_NoQueues ==
  /\ device_status' = {}
  /\ features_select' = 0 /\ acked_features_select' = 0 /\ queue_select' = 0
  /\ ackedSince' = {}
  /\ status' = FALSE
  /\ UNCHANGED queues

\* MmioTransport::reset.  The features the driver acknowledged stay with the
\* device, the queue events keep their state, and the pin is left alone.
reset ==
  /\ device_status' = {}
  /\ features_select' = 0 /\ acked_features_select' = 0 /\ queue_select' = 0
  /\ queues' = create_queues
  /\ ackedSince' = {}
  /\ status' = FALSE

\* A status marked FAILED is left as it is.
ResetUnlessFailed ==
  IF "FAILED" \in device_status
  THEN UNCHANGED <<transport, ackedSince, status>>
  ELSE reset

\* Writing 0 to an inactive device.
WriteZero ==
  /\ vpc = "run"
  /\ ~activated
  /\ ResetUnlessFailed
  /\ UNCHANGED <<acked, thread, events, line, vpc>>

StopWorker_NoSignal ==
  /\ vpc = "run"
  /\ activated
  /\ vpc' = "join"
  /\ UNCHANGED <<transport, features, thread, events, interrupt>>

\* Writing 0 to an active device: VirtioDevice::reset tells the worker to stop ...
StopWorker ==
  /\ vpc = "run"
  /\ activated
  /\ stop_evt' = TRUE
  /\ vpc' = "join"
  /\ UNCHANGED <<transport, features, thread, queue_evt, interrupt>>

\* ... waits until it has, and then the transport resets itself.
JoinWorker ==
  /\ vpc = "join"
  /\ worker \in {"stopped", "failed"}
  /\ activated' = FALSE
  /\ worker' = "none"
  /\ devQueues' = NoQueues
  /\ ResetUnlessFailed
  /\ vpc' = "run"
  /\ UNCHANGED <<acked, event_idx_enabled, events, line, wait_failed>>

-----------------------------------------------------------------------------
(* The worker thread. *)

\* WaitForMultipleObjects prefers the handle that comes first: a queue event.
WakeForQueue(q) ==
  /\ worker = "wait"
  /\ queue_evt[q]
  /\ queue_evt' = [queue_evt EXCEPT ![q] = FALSE]
  /\ worker' = "busy"
  /\ UNCHANGED <<transport, features, activated, devQueues, event_idx_enabled, stop_evt,
                 interrupt, vpc>>

WakeForStop_KeepsEvent ==
  /\ worker = "wait"
  /\ \A q \in QueueIds : ~queue_evt[q]
  /\ stop_evt
  /\ worker' = "stopped"
  /\ UNCHANGED <<transport, features, activated, devQueues, event_idx_enabled, events,
                 interrupt, vpc>>

WakeForStop ==
  /\ worker = "wait"
  /\ \A q \in QueueIds : ~queue_evt[q]
  /\ stop_evt
  /\ stop_evt' = FALSE
  /\ worker' = "stopped"
  /\ UNCHANGED <<transport, features, activated, devQueues, event_idx_enabled, queue_evt,
                 interrupt, vpc>>

\* WAIT_FAILED leaves the loop; nobody is told and no event is consumed.
WaitFailed ==
  /\ worker = "wait"
  /\ worker' = "failed" /\ wait_failed' = TRUE
  /\ UNCHANGED <<transport, features, activated, devQueues, event_idx_enabled, events,
                 interrupt, vpc>>

\* The queue is drained, with an interrupt or without.
Drain ==
  /\ worker = "busy"
  /\ worker' = "wait"
  /\ \/ status' = TRUE /\ line' = TRUE
     \/ UNCHANGED interrupt
  /\ UNCHANGED <<transport, features, activated, devQueues, event_idx_enabled, events, vpc>>

Worker ==
  /\ (\E q \in QueueIds : WakeForQueue(q)) \/ WakeForStop \/ Drain
  /\ UNCHANGED wait_failed

-----------------------------------------------------------------------------

Init ==
  /\ device_status = {}
  /\ features_select = 0 /\ acked_features_select = 0 /\ queue_select = 0
  /\ queues = create_queues
  /\ acked = {} /\ ackedSince = {}
  /\ activated = FALSE /\ worker = "none" /\ devQueues = NoQueues
  /\ event_idx_enabled = FALSE
  /\ queue_evt = [q \in QueueIds |-> FALSE] /\ stop_evt = FALSE
  /\ status = FALSE /\ line = FALSE
  /\ vpc = "run" /\ wait_failed = FALSE

WriteStatus(new) == Negotiate(new) \/ DriverOk(new) \/ SetFailed(new)

\* What the vCPU thread does for the driver.
Driver ==
  /\ \/ WriteSelect \/ update_queue_field \/ InterruptAck
     \/ \E bits \in AckWords : ack_features_by_page(bits)
     \/ \E q \in QueueIds : QueueNotify(q)
     \/ \E new \in SUBSET Bits : WriteStatus(new)
     \/ WriteZero \/ StopWorker
  /\ UNCHANGED wait_failed

Next == Driver \/ JoinWorker \/ Worker \/ WaitFailed

\* The worker thread runs when it can, and join returns once it has ended.
\* Nothing makes a wait fail, so WaitFailed is not fair.
Fairness == WF_vars(Worker) /\ WF_vars(JoinWorker)

Spec == Init /\ [][Next]_vars
FairSpec == Spec /\ Fairness

-----------------------------------------------------------------------------
(* Properties. *)

QueueConfigs == [QueueIds -> [size : Sizes, ready : BOOLEAN]] \union {NoQueues}

\* Registers, events and thread positions have values the program can hold, and
\* only offered features are recorded as acknowledged (device.rs, lines 93-94).
TypeOK ==
  /\ device_status \subseteq Bits
  /\ features_select \in Pages /\ acked_features_select \in Pages
  /\ queue_select \in 0 .. NumQueues
  /\ queues \in QueueConfigs /\ devQueues \in QueueConfigs
  /\ ackedSince \subseteq acked /\ acked \subseteq Offered
  /\ {activated, event_idx_enabled, stop_evt, status, line, wait_failed} \subseteq BOOLEAN
  /\ worker \in {"none", "wait", "busy", "stopped", "failed"}
  /\ queue_evt \in [QueueIds -> BOOLEAN]
  /\ vpc \in {"run", "join"}

\* Ownership of the queues: a worker exists exactly while the device is active,
\* and transport and worker never hold the queues at the same time, so no
\* register write reaches a queue in use.
QueuesHaveOneOwner ==
  /\ activated <=> worker # "none"
  /\ activated <=> devQueues # NoQueues
  /\ activated => queues = NoQueues

\* A driver that brought the status to DRIVER_OK has an active device: the early
\* return of activate is never taken on that path.
DriverOkIsActive ==
  "DRIVER_OK" \in device_status /\ "FAILED" \notin device_status => activated

\* A driver that sets up its queues finds every one of them, and none already in
\* use by a driver before it: QueueNumMax reads nonzero from FEATURES_OK until
\* DRIVER_OK, and right after a reset QueueReady reads 0 for the queue selected,
\* whatever the device went through before.
SetupFindsQueues ==
  /\ /\ "FEATURES_OK" \in device_status
     /\ device_status \cap {"DRIVER_OK", "FAILED"} = {}
     /\ queue_select \in QueueIds
     => QueueNumMax # 0
  /\ device_status = {} => ~QueueReady

\* The queues are where the device status says, through activation, reset and failure:
\* the worker's from DRIVER_OK on, the driver's to configure before.
QueuesFollowStatus == QueuesHaveOneOwner /\ DriverOkIsActive /\ SetupFindsQueues

\* Between a reset and the next activation no interrupt status shows up: the
\* worker of the old cycle has ended before the status word is cleared.
NoStatusFromOldCycle == device_status = {} => ~status

\* Nothing but a reset in progress makes a worker leave its loop: the stop event
\* of one cycle does not reach the worker of the next.  A worker whose wait failed
\* is the exception: it leaves its stop event to the next one.
WorkerStopsOnlyForReset == worker = "stopped" => vpc = "join" \/ wait_failed

\* Nothing of one cycle, from activation to reset, acts in the next: neither its
\* interrupt status nor its stop event.
CyclesApart == NoStatusFromOldCycle /\ WorkerStopsOnlyForReset

\* A reset ends: join, which holds the device's lock, is not waited for forever.
ResetEnds == vpc = "join" ~> vpc = "run"

\* queue.rs, line 325: event_idx_enabled means the driver of this negotiation
\* acknowledged EVENT_IDX.
EventIdxIsNegotiated == activated /\ event_idx_enabled => EventIdx \in ackedSince

\* mmio.rs, lines 354-355 and 386-387: a driver that set FAILED resets the device
\* before it starts again, and only a device without reset support stays FAILED.
ResetClearsFailed == [][vpc = "join" /\ vpc' = "run" => device_status' = {}]_vars
=============================================================================
