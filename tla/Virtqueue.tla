----------------------------- MODULE Virtqueue ------------------------------
(***************************************************************************)
(* A split virtqueue (src/devices/virtio/queue.rs) between a guest driver  *)
(* and the worker thread that drains it: disable notifications, process    *)
(* the queue, enable notifications, look again.  The block and rng workers *)
(* ask needs_notification before they interrupt; the transmit queues of    *)
(* the console and net workers run the same loop and always interrupt.     *)
(*                                                                         *)
(* The rings live in guest memory and every access to them is a step of    *)
(* its own, so driver and device interleave between any two accesses.  The *)
(* code separates its stores from the loads that follow them by SeqCst     *)
(* fences, so the accesses are sequentially consistent.  Indices are       *)
(* Wrapping<u16> in the code and count modulo Wrap here.  A chain is named *)
(* by its head descriptor.                                                 *)
(*                                                                         *)
(* The driver is external code: it is modelled by what the rings' fields   *)
(* are for, as a submitter and an interrupt handler that run concurrently. *)
(*                                                                         *)
(* An operator named X_<fault> is a deliberately faulty variant of X that  *)
(* no specification uses: some property must tell it apart from X.         *)
(***************************************************************************)
EXTENDS Integers, Sequences, FiniteSets

CONSTANTS Wrap,     \* number of index values, 2^16 in the code
          Size,     \* queue size the driver selected
          BadHeads, \* heads of chains that Reader::new or Writer::new may reject
          MaxBatch  \* bound: chains the driver lets one drain of the queue meet

ASSUME VirtqueueAssumption ==
  /\ Size \in Nat \ {0}
  /\ Wrap \in Nat \ {0}
  /\ Wrap % Size = 0
  /\ 2 * Size <= Wrap
  /\ BadHeads \subseteq 0 .. Size - 1
  /\ MaxBatch \in Nat

VARIABLES
  \* guest memory
  avail_idx, avail_ring, used_event,          \* written by the driver
  used_idx, used_ring, used_flags, avail_event, \* written by the device
  \* struct Queue
  next_avail, next_used, num_added, event_idx_enabled,
  \* the worker thread
  pc, head, used_any,
  suppresses, \* whether this worker asks needs_notification (block, rng)
  batch,      \* chains returned since the last decision to interrupt (not in the code)
  \* notifications
  queue_evt,  \* the queue's auto-reset event, signalled by QueueNotify
  irq,        \* an interrupt the driver has not taken yet
  \* the driver
  drv, kick_from, isr, last_used, free,
  \* chains the worker skipped without returning them
  leaked

guest == <<avail_idx, avail_ring, used_event>>
device == <<used_idx, used_ring, used_flags, avail_event>>
queue == <<next_avail, next_used, num_added, event_idx_enabled>>
worker == <<pc, head, used_any, suppresses, batch>>
driver == <<drv, kick_from, isr, last_used, free>>
vars == <<guest, device, queue, worker, queue_evt, irq, driver, leaked>>

Idx == 0 .. Wrap - 1
Slots == 0 .. Size - 1
Heads == Slots

Add(a, b) == (a + b) % Wrap

Sub(a, b) == (a - b) % Wrap

\* "event" lies in the window of indices from old up to, and without, new.
NeedEvent(event, new, old) == Sub(Sub(new, event), 1) < Sub(new, old)

-----------------------------------------------------------------------------
(* The worker. *)

\* WaitForMultipleObjects returns for the queue event and resets it.
Wait ==
  /\ pc = "wait"
  /\ queue_evt
  /\ queue_evt' = FALSE
  /\ pc' = "disable"
  /\ UNCHANGED <<guest, device, queue, head, used_any, irq, driver, leaked, suppresses, batch>>

\* process_queue starts with used_any = false.
disable_notification ==
  /\ pc = "disable"
  /\ used_flags' = IF event_idx_enabled THEN used_flags ELSE 1
  /\ used_any' = FALSE
  /\ pc' = "pop"
  /\ UNCHANGED <<guest, used_idx, used_ring, avail_event, queue, head, queue_evt, irq,
                 driver, leaked, suppresses, batch>>

len == Sub(avail_idx, next_avail)

pop_StaleSlot ==
  /\ pc = "pop"
  /\ len # 0
  /\ head' = avail_ring[Add(next_avail, 1) % Size]
  /\ next_avail' = Add(next_avail, 1)
  /\ pc' = "process"
  /\ UNCHANGED <<guest, device, next_used, num_added, event_idx_enabled, used_any,
                 queue_evt, irq, driver, leaked, suppresses, batch>>

pop ==
  /\ pc = "pop"
  /\ len # 0
  /\ head' = avail_ring[next_avail % Size]
  /\ next_avail' = Add(next_avail, 1)
  /\ pc' = "process"
  /\ UNCHANGED <<guest, device, next_used, num_added, event_idx_enabled, used_any,
                 queue_evt, irq, driver, leaked, suppresses, batch>>

\* The queue is drained: go on to the interrupt if anything was returned.
pop_none ==
  /\ pc = "pop"
  /\ len = 0
  /\ pc' = IF used_any THEN "notify" ELSE "enable"
  /\ UNCHANGED <<guest, device, queue, head, used_any, queue_evt, irq, driver, leaked, suppresses, batch>>

SkipChain_UndoPop ==
  /\ pc = "process"
  /\ head \in BadHeads
  /\ next_avail' = Sub(next_avail, 1)
  /\ pc' = "pop"
  /\ UNCHANGED <<guest, device, next_used, num_added, event_idx_enabled, head, used_any,
                 queue_evt, irq, driver, leaked, suppresses, batch>>

\* A chain the descriptor utilities reject is skipped with "continue": it is
\* logged, and never added to the used ring.
SkipChain ==
  /\ pc = "process"
  /\ head \in BadHeads
  /\ leaked' = leaked \union {head}
  /\ pc' = "pop"
  /\ UNCHANGED <<guest, device, queue, head, used_any, queue_evt, irq, driver, suppresses, batch>>

\* add_used writes the element, then publishes it through the index.
add_used_element ==
  /\ pc = "process"
  /\ used_ring' = [used_ring EXCEPT ![next_used % Size] = head]
  /\ next_used' = Add(next_used, 1)
  /\ num_added' = Add(num_added, 1)
  /\ batch' = batch + 1
  /\ pc' = "index"
  /\ UNCHANGED <<guest, used_idx, used_flags, avail_event, next_avail, event_idx_enabled,
                 head, used_any, queue_evt, irq, driver, leaked, suppresses>>

add_used_index ==
  /\ pc = "index"
  /\ used_idx' = next_used
  /\ used_any' = TRUE
  /\ pc' = "pop"
  /\ UNCHANGED <<guest, used_ring, used_flags, avail_event, queue, head, queue_evt, irq,
                 driver, leaked, suppresses, batch>>

\* With EVENT_IDX the driver's used_event decides; without it every batch
\* interrupts (the NO_INTERRUPT flag is not supported, and num_added keeps
\* counting because only this branch resets it).
needs_notification_Exact ==
  event_idx_enabled => Sub(next_used, used_event) = 1

needs_notification ==
  event_idx_enabled => NeedEvent(used_event, next_used, Sub(next_used, num_added))

Notify ==
  /\ pc = "notify"
  /\ num_added' = IF suppresses /\ event_idx_enabled THEN 0 ELSE num_added
  /\ irq' = (irq \/ (suppresses => needs_notification))
  /\ batch' = 0
  /\ pc' = "enable"
  /\ UNCHANGED <<guest, device, next_avail, next_used, event_idx_enabled, head, used_any,
                 queue_evt, driver, leaked, suppresses>>

\* set_notification(true): publish next_avail, or clear the flag ...
enable_notification ==
  /\ pc = "enable"
  /\ IF event_idx_enabled
     THEN avail_event' = next_avail /\ UNCHANGED used_flags
     ELSE used_flags' = 0 /\ UNCHANGED avail_event
  /\ pc' = "recheck"
  /\ UNCHANGED <<guest, used_idx, used_ring, queue, head, used_any, queue_evt, irq, driver,
                 leaked, suppresses, batch>>

\* ... and look at the available index once more.
recheck_Skipped ==
  /\ pc = "recheck"
  /\ pc' = "wait"
  /\ UNCHANGED <<guest, device, queue, head, used_any, queue_evt, irq, driver, leaked, suppresses, batch>>

recheck ==
  /\ pc = "recheck"
  /\ pc' = IF avail_idx # next_avail THEN "disable" ELSE "wait"
  /\ UNCHANGED <<guest, device, queue, head, used_any, queue_evt, irq, driver, leaked, suppresses, batch>>

Worker ==
  \/ Wait \/ disable_notification \/ pop \/ pop_none \/ SkipChain
  \/ add_used_element \/ add_used_index \/ Notify \/ enable_notification \/ recheck

-----------------------------------------------------------------------------
(* The driver's submitter: make a chain available, decide whether the      *)
(* device asked to be notified, notify.  Several chains may share one      *)
(* notification: kick_from is the index of the last decision, and the      *)
(* driver decides before that count would wrap.                            *)

Submit(h) ==
  /\ drv \in {"idle", "added"}
  /\ h \in free
  /\ Sub(avail_idx, kick_from) < Wrap - 1
  /\ batch + len + (IF pc = "process" THEN 1 ELSE 0) < MaxBatch
  /\ avail_ring' = [avail_ring EXCEPT ![avail_idx % Size] = h]
  /\ avail_idx' = Add(avail_idx, 1)
  /\ free' = free \ {h}
  /\ drv' = "added"
  /\ UNCHANGED <<used_event, device, queue, worker, queue_evt, irq, kick_from, isr,
                 last_used, leaked>>

DecideKick ==
  /\ drv = "added"
  /\ LET wanted == IF event_idx_enabled
                   THEN NeedEvent(avail_event, avail_idx, kick_from)
                   ELSE used_flags = 0
     IN  drv' = IF wanted THEN "kick" ELSE "idle"
  /\ kick_from' = avail_idx
  /\ UNCHANGED <<guest, device, queue, worker, queue_evt, irq, isr, last_used, free, leaked>>

\* The QueueNotify register signals the queue's event.
QueueNotify ==
  /\ drv = "kick"
  /\ queue_evt' = TRUE
  /\ drv' = "idle"
  /\ UNCHANGED <<guest, device, queue, worker, irq, kick_from, isr, last_used, free, leaked>>

(* The driver's interrupt handler: take back what the used ring holds, ask *)
(* for the next interrupt, look again.                                     *)

TakeInterrupt ==
  /\ isr = "idle"
  /\ irq
  /\ irq' = FALSE
  /\ isr' = "reap"
  /\ UNCHANGED <<guest, device, queue, worker, queue_evt, drv, kick_from, last_used, free,
                 leaked>>

Reap ==
  /\ isr = "reap"
  /\ last_used # used_idx
  /\ free' = free \union {used_ring[last_used % Size]}
  /\ last_used' = Add(last_used, 1)
  /\ UNCHANGED <<guest, device, queue, worker, queue_evt, irq, drv, kick_from, isr, leaked>>

Rearm ==
  /\ isr = "reap"
  /\ last_used = used_idx
  /\ used_event' = last_used
  /\ isr' = "rearmed"
  /\ UNCHANGED <<avail_idx, avail_ring, device, queue, worker, queue_evt, irq, drv,
                 kick_from, last_used, free, leaked>>

LookAgain ==
  /\ isr = "rearmed"
  /\ isr' = IF last_used # used_idx THEN "reap" ELSE "idle"
  /\ UNCHANGED <<guest, device, queue, worker, queue_evt, irq, drv, kick_from, last_used,
                 free, leaked>>

Handler == TakeInterrupt \/ Reap \/ Rearm \/ LookAgain

-----------------------------------------------------------------------------

Init ==
  /\ avail_idx = 0 /\ avail_ring = [s \in Slots |-> 0] /\ used_event = 0
  /\ used_idx = 0 /\ used_ring = [s \in Slots |-> 0] /\ used_flags = 0 /\ avail_event = 0
  /\ next_avail = 0 /\ next_used = 0 /\ num_added = 0
  /\ event_idx_enabled \in BOOLEAN
  /\ pc = "wait" /\ head = 0 /\ used_any = FALSE
  /\ suppresses \in BOOLEAN /\ batch = 0
  /\ event_idx_enabled => suppresses  \* only the block device offers EVENT_IDX
  /\ queue_evt = FALSE /\ irq = FALSE
  /\ drv = "idle" /\ kick_from = 0 /\ isr = "idle" /\ last_used = 0 /\ free = Heads
  /\ leaked = {}

Next == Worker \/ (\E h \in Heads : Submit(h)) \/ DecideKick \/ QueueNotify \/ Handler

\* The worker thread and the driver's handler run when they can; a driver that
\* has made chains available gets to its decision and its notification.
\* Nothing obliges the driver to submit.
Fairness ==
  /\ WF_vars(Worker)
  /\ WF_vars(Handler)
  /\ WF_vars(DecideKick)
  /\ WF_vars(QueueNotify)

Spec == Init /\ [][Next]_vars
FairSpec == Spec /\ Fairness

-----------------------------------------------------------------------------
(* Properties. *)

\* Every field of the rings, of struct Queue and of both threads has a value
\* the program can hold; in particular all indices stay below Wrap.
TypeOK ==
  /\ {avail_idx, used_event, used_idx, avail_event, next_avail, next_used, num_added,
      kick_from, last_used} \subseteq Idx
  /\ avail_ring \in [Slots -> Heads] /\ used_ring \in [Slots -> Heads]
  /\ used_flags \in {0, 1}
  /\ {event_idx_enabled, used_any, suppresses, queue_evt, irq} \subseteq BOOLEAN
  /\ pc \in {"wait", "disable", "pop", "process", "index", "notify", "enable", "recheck"}
  /\ head \in Heads
  /\ batch \in 0 .. MaxBatch
  /\ drv \in {"idle", "added", "kick"}
  /\ isr \in {"idle", "reap", "rearmed"}
  /\ free \subseteq Heads /\ leaked \subseteq Heads

\* The chains on their way to the device: the one in the worker's hands, then
\* those of the available ring it has not popped.
InFlight == IF pc = "process" THEN <<head>> ELSE <<>>

Waiting == [i \in 1 .. len |-> avail_ring[Add(next_avail, i - 1) % Size]]

\* The chains on their way back, including the element whose index is about to
\* be published.
Returned == [i \in 1 .. Sub(next_used, last_used) |-> used_ring[Add(last_used, i - 1) % Size]]

\* The device hands out each chain once: at any time a chain is in exactly one
\* place (free, waiting, being processed, returned, or skipped by the worker).
EachChainInOnePlace ==
  /\ \A h \in Heads :
       (IF h \in free THEN 1 ELSE 0) + (IF h \in leaked THEN 1 ELSE 0)
       + Cardinality({i \in DOMAIN Waiting : Waiting[i] = h})
       + Cardinality({i \in DOMAIN InFlight : InFlight[i] = h})
       + Cardinality({i \in DOMAIN Returned : Returned[i] = h}) = 1

\* When the worker sleeps and no notification is on its way, it has seen every
\* available chain: the re-check after enabling notifications closes the window
\* in which the driver was told not to notify.
NoLostKick ==
  pc = "wait" /\ ~queue_evt /\ drv = "idle" => avail_idx = next_avail

\* When the worker sleeps and no interrupt is on its way, the driver has taken
\* back everything the worker returned: a suppressed interrupt was not needed.
NoLostInterrupt ==
  pc = "wait" /\ ~irq /\ isr = "idle" => used_idx = last_used

\* The rings with notification suppression implement the simple channel.
Channel == INSTANCE RequestChannel
             WITH submitted <- InFlight \o Waiting, completed <- Returned, refused <- leaked

ChannelSpec == Channel!Spec
=============================================================================
