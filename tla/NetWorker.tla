----------------------------- MODULE NetWorker ------------------------------
(***************************************************************************)
(* The net device's back end (src/devices/virtio/net/): the gvproxy child  *)
(* process, the reader thread that takes its frames off a pipe, and the    *)
(* worker thread that moves frames between that thread's list, the child   *)
(* and the guest's two queues.                                             *)
(*                                                                         *)
(* A frame is a number.  Reading it finds its length prefix "ok", "zero",  *)
(* or "big", above MAX_FRAME_SIZE.  A receive buffer turns out "ok",       *)
(* "small" (shorter than header and frame) or "bad" (Writer::new rejects   *)
(* it) when it is popped; a transmit chain "frame", "short" (no more than  *)
(* the header) or "bad".                                                   *)
(* The rings are in Virtqueue; here it is counted what they hold.  The     *)
(* device does not offer EVENT_IDX, so needs_notification always agrees.   *)
(*                                                                         *)
(* An operator named X_<fault> is a deliberately faulty variant of X that  *)
(* no specification uses: some property must tell it apart from X.         *)
(***************************************************************************)
EXTENDS Integers, Sequences, SequencesExt, FiniteSets

CONSTANTS FrameKinds,  \* kinds of frame gvproxy sends
          BufferKinds, \* kinds of receive buffer the driver posts
          ChainKinds,  \* kinds of transmit chain the driver posts
          MaxFrames,   \* bound: frames gvproxy sends
          MaxPosts,    \* bound: receive buffers on the ring
          MaxChains,   \* bound: transmit chains on the ring
          MaxCycles,   \* bound: activations
          PipeSize,    \* frames a pipe of the child holds
          BATCH_SIZE,  \* frames the reader takes before it signals, 32 in the code
          MayFail      \* whether gvproxy may die and a wait may fail

ASSUME NetAssumption ==
  /\ FrameKinds \subseteq {"ok", "zero", "big"}
  /\ BufferKinds \subseteq {"ok", "small", "bad"}
  /\ ChainKinds \subseteq {"frame", "short", "bad"}
  /\ {PipeSize, BATCH_SIZE} \subseteq Nat \ {0}
  /\ {MaxFrames, MaxPosts, MaxChains, MaxCycles} \subseteq Nat
  /\ MayFail \in BOOLEAN

VARIABLES
  dev,       \* the device, as the vCPU thread sees it
  cycle,     \* activations so far
  \* gvproxy
  gv, pid_file, stdout, stdin, sent,
  \* the reader thread
  reader, n_frame, synced,
  \* shared by the two threads
  rx_pending, rx_ready,
  \* the worker thread
  pc, packets, used_any,
  stop_event, tx_event,
  \* the guest's queues: buffers and chains made available, and frames (0: none)
  \* in the receive buffers returned
  rx_avail, rx_used, tx_avail, irq,
  \* observed: frames that reached the guest, frames that never will, frames
  \* that were put back at least once
  delivered, gone, requeued

child == <<gv, pid_file, stdout, stdin, sent>>
thread == <<reader, n_frame, synced>>
shared == <<rx_pending, rx_ready>>
work == <<pc, packets, used_any>>
rx == <<rx_avail, rx_used>>
observed == <<delivered, gone, requeued>>
vars == <<dev, cycle, child, thread, shared, work, stop_event, tx_event, rx, tx_avail, irq, observed>>

\* What is left of a frame, or taken for one, when the reader is out of step.
Garbage == 0

-----------------------------------------------------------------------------
(* Net::activate, GvProxy::spawn, Net::reset and the drop of GvProxy. *)

\* activate starts the child before it takes the queues; spawn polls for the
\* PID file.
SpawnChild ==
  /\ dev = "idle" /\ cycle < MaxCycles
  /\ dev' = "spawning" /\ gv' = "starting" /\ cycle' = cycle + 1
  /\ stdout' = <<>> /\ stdin' = 0
  /\ UNCHANGED <<pid_file, sent, thread, shared, work, stop_event, tx_event, rx, tx_avail, irq, observed>>

\* The child writes its PID file once it is initialised.
ChildReady ==
  /\ gv = "starting"
  /\ gv' = "ready" /\ pid_file' = TRUE
  /\ UNCHANGED <<dev, cycle, stdout, stdin, sent, thread, shared, work, stop_event, tx_event,
                 rx, tx_avail, irq, observed>>

\* The file exists: activate builds the worker, and run starts both threads.
StartThreads ==
  /\ dev = "spawning" /\ pid_file
  /\ dev' = "active" /\ reader' = "read" /\ pc' = "wait"
  /\ UNCHANGED <<cycle, child, n_frame, synced, shared, packets, used_any, stop_event,
                 tx_event, rx, tx_avail, irq, observed>>

\* Five seconds without the file: BadActivate, on which the transport panics.
\* The child is left running.
SpawnTimeout ==
  /\ dev = "spawning" /\ ~pid_file /\ MayFail
  /\ dev' = "panicked"
  /\ UNCHANGED <<cycle, child, thread, shared, work, stop_event, tx_event, rx, tx_avail, irq, observed>>

\* reset signals the stop event and joins the worker.
reset ==
  /\ dev = "active"
  /\ dev' = "join" /\ stop_event' = TRUE
  /\ UNCHANGED <<cycle, child, thread, shared, work, tx_event, rx, tx_avail, irq, observed>>

\* What the two threads held is gone; the driver sets its queues up afresh.
Joined ==
  /\ dev = "join" /\ pc = "done"
  /\ dev' = "idle" /\ pc' = "none" /\ reader' = "none"
  /\ n_frame' = 0 /\ synced' = TRUE /\ rx_ready' = FALSE
  /\ rx_avail' = 0 /\ rx_used' = <<>> /\ tx_avail' = 0 /\ irq' = FALSE
  /\ UNCHANGED <<cycle, child, rx_pending, packets, used_any, stop_event, tx_event,
                 observed>>

-----------------------------------------------------------------------------
(* gvproxy. *)

GvSend ==
  /\ gv = "ready" /\ sent < MaxFrames /\ Len(stdout) < PipeSize
  /\ sent' = sent + 1
  /\ stdout' = Append(stdout, sent + 1)
  /\ UNCHANGED <<dev, cycle, gv, pid_file, stdin, thread, shared, work, stop_event, tx_event,
                 rx, tx_avail, irq, observed>>

\* It takes no frame from the guest while the pipe it answers on is full.
GvReceive ==
  /\ gv = "ready" /\ stdin > 0 /\ Len(stdout) < PipeSize
  /\ stdin' = stdin - 1
  /\ UNCHANGED <<dev, cycle, gv, pid_file, stdout, sent, thread, shared, work, stop_event,
                 tx_event, rx, tx_avail, irq, observed>>

\* A child that dies may leave its last frame half written.
Die ==
  /\ gv' = "dead" /\ stdin' = 0
  /\ \/ UNCHANGED <<stdout, gone>>
     \/ /\ stdout # <<>>
        /\ stdout' = Front(stdout)
        /\ gone' = gone \union {Last(stdout)}

GvCrash ==
  /\ MayFail /\ gv = "ready" /\ Die
  /\ UNCHANGED <<dev, cycle, pid_file, sent, thread, shared, work, stop_event, tx_event, rx, tx_avail,
                 irq, delivered, requeued>>

-----------------------------------------------------------------------------
(* The reader thread, rx_reader_loop. *)

\* What read_frame can make of the first item of the pipe: whether it returns a
\* frame, which, and what it leaves there.  A length above the maximum is refused
\* with the frame's body still in the pipe; from then on a read may take any bytes
\* for a length.
Frame(f) == [ok |-> TRUE, frame |-> f, rest |-> <<>>]
Refused(rest) == [ok |-> FALSE, frame |-> Garbage, rest |-> rest]

read_frame ==
  IF synced
  THEN {CASE k = "ok" -> Frame(Head(stdout))
          [] k = "zero" -> Refused(<<>>)
          [] k = "big" -> Refused(<<Garbage>>) : k \in FrameKinds}
  ELSE {Refused(<<>>), Frame(Garbage), Frame(Head(stdout))}

AfterRead(r) ==
  /\ stdout' = r.rest \o Tail(stdout)
  /\ synced' = (synced /\ r.rest = <<>>)
  /\ gone' = IF r.ok /\ r.frame = Head(stdout) THEN gone ELSE gone \union {Head(stdout)}

PushFrame_Front(r) ==
  /\ rx_pending' = IF r.ok THEN <<r.frame>> \o rx_pending ELSE rx_pending
  /\ n_frame' = IF r.ok THEN n_frame + 1 ELSE n_frame

\* A frame joins the list the two threads share, under its lock.
PushFrame(r) ==
  /\ rx_pending' = IF r.ok THEN Append(rx_pending, r.frame) ELSE rx_pending
  /\ n_frame' = IF r.ok THEN n_frame + 1 ELSE n_frame

\* The blocking read of a batch's first frame; every error but the end of the
\* stream starts over.
ReadFirst ==
  /\ reader = "read" /\ stdout # <<>>
  /\ \E r \in read_frame :
       /\ AfterRead(r) /\ PushFrame(r)
       /\ reader' = IF r.ok THEN "peek" ELSE "read"
  /\ UNCHANGED <<dev, cycle, gv, pid_file, stdin, sent, rx_ready, work, stop_event, tx_event,
                 rx, tx_avail, irq, delivered, requeued>>

ReadEof ==
  /\ reader = "read" /\ stdout = <<>> /\ gv = "dead"
  /\ reader' = "done"
  /\ UNCHANGED <<dev, cycle, child, n_frame, synced, shared, work, stop_event, tx_event, rx, tx_avail,
                 irq, observed>>

\* PeekNamedPipe reports more, and the batch is not full.
ReadMore ==
  /\ reader = "peek" /\ stdout # <<>> /\ n_frame < BATCH_SIZE
  /\ \E r \in read_frame : AfterRead(r) /\ PushFrame(r)
  /\ UNCHANGED <<dev, cycle, gv, pid_file, stdin, sent, reader, rx_ready, work, stop_event,
                 tx_event, rx, tx_avail, irq, delivered, requeued>>

SignalReady_OnlyFullBatch ==
  /\ reader = "peek" /\ (stdout = <<>> \/ n_frame >= BATCH_SIZE)
  /\ rx_ready' = (rx_ready \/ n_frame >= BATCH_SIZE)
  /\ reader' = "read" /\ n_frame' = 0
  /\ UNCHANGED <<dev, cycle, child, synced, rx_pending, work, stop_event, tx_event, rx, tx_avail, irq,
                 observed>>

\* The batch ends, and the worker is told.
SignalReady ==
  /\ reader = "peek" /\ (stdout = <<>> \/ n_frame >= BATCH_SIZE)
  /\ rx_ready' = TRUE
  /\ reader' = "read" /\ n_frame' = 0
  /\ UNCHANGED <<dev, cycle, child, synced, rx_pending, work, stop_event, tx_event, rx, tx_avail, irq,
                 observed>>

Reader == ReadFirst \/ ReadEof \/ ReadMore \/ SignalReady

-----------------------------------------------------------------------------
(* The worker thread: NetWorker::work. *)

\* The handles are tried in order: transmit queue, reader, stop.  The receive
\* queue's event is not among them.
WakeTx ==
  /\ pc = "wait" /\ tx_event
  /\ tx_event' = FALSE /\ pc' = "tx" /\ used_any' = FALSE
  /\ UNCHANGED <<dev, cycle, child, thread, shared, packets, stop_event, rx, tx_avail, irq,
                 observed>>

WakeRx ==
  /\ pc = "wait" /\ ~tx_event /\ rx_ready
  /\ rx_ready' = FALSE /\ pc' = "take"
  /\ UNCHANGED <<dev, cycle, child, thread, rx_pending, packets, used_any, stop_event,
                 tx_event, rx, tx_avail, irq, observed>>

\* process_rx_virtio_queue takes the whole list at once, under its lock.
TakePending ==
  /\ pc = "take"
  /\ packets' = rx_pending /\ rx_pending' = <<>>
  /\ pc' = IF rx_pending = <<>> THEN "wait" ELSE "rx"
  /\ used_any' = FALSE
  /\ UNCHANGED <<dev, cycle, child, thread, rx_ready, stop_event, tx_event, rx, tx_avail, irq,
                 observed>>

WakeStop ==
  /\ pc = "wait" /\ ~tx_event /\ ~rx_ready /\ stop_event
  /\ stop_event' = FALSE /\ pc' = "drop"
  /\ UNCHANGED <<dev, cycle, child, thread, shared, packets, used_any, tx_event, rx, tx_avail,
                 irq, observed>>

WaitFailed ==
  /\ pc = "wait" /\ MayFail
  /\ pc' = "drop"
  /\ UNCHANGED <<dev, cycle, child, thread, shared, packets, used_any, stop_event,
                 tx_event, rx, tx_avail, irq, observed>>

DropGvProxy_KeepsPidFile ==
  /\ pc = "drop"
  /\ IF gv = "dead" THEN UNCHANGED <<gv, stdin, stdout, gone>> ELSE Die
  /\ pc' = "reader"
  /\ UNCHANGED <<dev, cycle, pid_file, sent, thread, shared, packets, used_any,
                 stop_event, tx_event, rx, tx_avail, irq, delivered, requeued>>

\* Dropping gvproxy kills the child and removes its PID file ...
DropGvProxy ==
  /\ pc = "drop"
  /\ IF gv = "dead" THEN UNCHANGED <<gv, stdin, stdout, gone>> ELSE Die
  /\ pid_file' = FALSE
  /\ pc' = "reader"
  /\ UNCHANGED <<dev, cycle, sent, thread, shared, packets, used_any, stop_event,
                 tx_event, rx, tx_avail, irq, delivered, requeued>>

\* ... so that the reader sees the end of the stream and can be joined.  What
\* it had read and nobody took goes with the worker.
JoinReader ==
  /\ pc = "reader" /\ reader = "done"
  /\ pc' = "done"
  /\ gone' = gone \union ToSet(rx_pending)
  /\ rx_pending' = <<>>
  /\ UNCHANGED <<dev, cycle, child, thread, rx_ready, packets, used_any, stop_event,
                 tx_event, rx, tx_avail, irq, delivered, requeued>>

-----------------------------------------------------------------------------
(* Receiving: process_rx_virtio_queue. *)

Requeue_WithoutCurrent ==
  /\ rx_pending' = rx_pending \o Tail(packets)
  /\ requeued' = requeued \union ToSet(packets)

\* No buffer: what is left goes behind whatever the reader has added meanwhile.
Requeue ==
  /\ rx_pending' = rx_pending \o packets
  /\ requeued' = requeued \union ToSet(packets)

NoBuffer ==
  /\ pc = "rx" /\ packets # <<>> /\ rx_avail = 0
  /\ Requeue
  /\ packets' = <<>>
  /\ UNCHANGED <<dev, cycle, child, thread, rx_ready, pc, used_any, stop_event, tx_event, rx,
                 tx_avail, irq, delivered, gone>>

TakeBuffer(k) ==
  /\ pc = "rx" /\ packets # <<>> /\ rx_avail > 0 /\ k \in BufferKinds
  /\ rx_avail' = rx_avail - 1 /\ packets' = Tail(packets)

\* Writer::new fails: neither buffer nor frame is seen again.
SkipBuffer ==
  /\ TakeBuffer("bad")
  /\ gone' = gone \union {Head(packets)}
  /\ UNCHANGED <<dev, cycle, child, thread, shared, pc, used_any, stop_event, tx_event,
                 rx_used, tx_avail, irq, delivered, requeued>>

\* The buffer goes back empty and the frame is dropped; used_any stays as it is.
BufferTooSmall ==
  /\ TakeBuffer("small")
  /\ rx_used' = Append(rx_used, 0)
  /\ gone' = gone \union {Head(packets)}
  /\ UNCHANGED <<dev, cycle, child, thread, shared, pc, used_any, stop_event, tx_event,
                 tx_avail, irq, delivered, requeued>>

\* Header and frame are written and the buffer is returned.
Deliver ==
  /\ TakeBuffer("ok")
  /\ rx_used' = Append(rx_used, Head(packets))
  /\ delivered' = Append(delivered, Head(packets))
  /\ used_any' = TRUE
  /\ UNCHANGED <<dev, cycle, child, thread, shared, pc, stop_event, tx_event,
                 tx_avail, irq, gone, requeued>>

\* One interrupt for the batch.
RxDone ==
  /\ pc = "rx" /\ packets = <<>>
  /\ irq' = (irq \/ used_any) /\ used_any' = FALSE /\ pc' = "wait"
  /\ UNCHANGED <<dev, cycle, child, thread, shared, packets, stop_event, tx_event, rx, tx_avail,
                 observed>>

-----------------------------------------------------------------------------
(* Transmitting: process_tx_queue. *)

TxPop(k) ==
  /\ pc = "tx" /\ tx_avail > 0
  /\ tx_avail' = tx_avail - 1
  /\ pc' = CASE k = "frame" -> "write" [] k = "short" -> "return" [] k = "bad" -> "tx"
  /\ UNCHANGED <<dev, cycle, child, thread, shared, packets, used_any, stop_event, tx_event, rx,
                 irq, observed>>

TxDone ==
  /\ pc = "tx" /\ tx_avail = 0
  /\ pc' = "txnotify"
  /\ UNCHANGED <<dev, cycle, child, thread, shared, packets, used_any, stop_event,
                 tx_event, rx, tx_avail, irq, observed>>

\* One interrupt for the batch, and one more look at the queue
\* (enable_notification).
TxNotify ==
  /\ pc = "txnotify"
  /\ irq' = (irq \/ used_any) /\ used_any' = FALSE
  /\ pc' = IF tx_avail > 0 THEN "tx" ELSE "wait"
  /\ UNCHANGED <<dev, cycle, child, thread, shared, packets, stop_event, tx_event, rx, tx_avail,
                 observed>>

TxWrite_WaitsForReader ==
  /\ pc = "write" /\ rx_pending = <<>>
  /\ \/ gv # "dead" /\ stdin < PipeSize /\ stdin' = stdin + 1
     \/ gv = "dead" /\ UNCHANGED stdin
  /\ pc' = "return"
  /\ UNCHANGED <<dev, cycle, gv, pid_file, stdout, sent, thread, shared, packets, used_any,
                 stop_event, tx_event, rx, tx_avail, irq, observed>>

\* write_all blocks while the pipe is full, and fails once the child is gone.
TxWrite ==
  /\ pc = "write"
  /\ \/ gv # "dead" /\ stdin < PipeSize /\ stdin' = stdin + 1
     \/ gv = "dead" /\ UNCHANGED stdin
  /\ pc' = "return"
  /\ UNCHANGED <<dev, cycle, gv, pid_file, stdout, sent, thread, shared, packets, used_any,
                 stop_event, tx_event, rx, tx_avail, irq, observed>>

\* The chain goes back whether or not its frame was sent.
TxReturn ==
  /\ pc = "return"
  /\ used_any' = TRUE /\ pc' = "tx"
  /\ UNCHANGED <<dev, cycle, child, thread, shared, packets, stop_event, tx_event, rx,
                 tx_avail, irq, observed>>

Worker ==
  \/ WakeTx \/ WakeRx \/ TakePending \/ WakeStop \/ DropGvProxy \/ JoinReader
  \/ NoBuffer \/ SkipBuffer \/ BufferTooSmall \/ Deliver \/ RxDone
  \/ (\E k \in ChainKinds : TxPop(k)) \/ TxDone \/ TxNotify \/ TxWrite \/ TxReturn

-----------------------------------------------------------------------------
(* The guest driver. *)

PostBuffer ==
  /\ dev = "active" /\ rx_avail + Len(rx_used) < MaxPosts
  /\ rx_avail' = rx_avail + 1
  /\ UNCHANGED <<dev, cycle, child, thread, shared, work, stop_event, tx_event, rx_used, tx_avail, irq,
                 observed>>

Transmit ==
  /\ dev = "active" /\ tx_avail < MaxChains
  /\ tx_avail' = tx_avail + 1 /\ tx_event' = TRUE
  /\ UNCHANGED <<dev, cycle, child, thread, shared, work, stop_event, rx, irq, observed>>

TakeInterrupt ==
  /\ irq
  /\ irq' = FALSE /\ rx_used' = <<>>
  /\ UNCHANGED <<dev, cycle, child, thread, shared, work, stop_event, tx_event, rx_avail,
                 tx_avail, observed>>

-----------------------------------------------------------------------------

Init ==
  /\ dev = "idle" /\ cycle = 0
  /\ gv = "none" /\ pid_file = FALSE /\ stdout = <<>> /\ stdin = 0 /\ sent = 0
  /\ reader = "none" /\ n_frame = 0 /\ synced = TRUE
  /\ rx_pending = <<>> /\ rx_ready = FALSE
  /\ pc = "none" /\ packets = <<>> /\ used_any = FALSE
  /\ stop_event = FALSE /\ tx_event = FALSE
  /\ rx_avail = 0 /\ rx_used = <<>>
  /\ tx_avail = 0
  /\ irq = FALSE
  /\ delivered = <<>> /\ gone = {} /\ requeued = {}

Next ==
  \/ SpawnChild \/ ChildReady \/ StartThreads \/ SpawnTimeout \/ reset \/ Joined
  \/ GvSend \/ GvReceive \/ GvCrash
  \/ Reader
  \/ Worker \/ WaitFailed
  \/ PostBuffer \/ Transmit \/ TakeInterrupt

\* Both threads run when they can, and the child goes on reading its input.
\* Nobody has to send, post, crash or fail.
Fairness == WF_vars(Reader) /\ WF_vars(Worker) /\ WF_vars(GvReceive)

Spec == Init /\ [][Next]_vars
FairSpec == Spec /\ Fairness

-----------------------------------------------------------------------------
(* Properties. *)

\* Lists hold frames, pipes and batches keep their limits, and positions are the
\* code's.
TypeOK ==
  /\ dev \in {"idle", "spawning", "active", "join", "panicked"}
  /\ gv \in {"none", "starting", "ready", "dead"}
  /\ reader \in {"none", "read", "peek", "done"}
  /\ pc \in {"none", "wait", "take", "drop", "reader", "done", "rx", "tx",
             "txnotify", "write", "return"}
  /\ {pid_file, synced, rx_ready, used_any, stop_event, tx_event, irq} \subseteq BOOLEAN
  /\ \A s \in {stdout, rx_pending, packets} : s \in Seq(0 .. MaxFrames)
  /\ Len(stdout) <= PipeSize /\ stdin <= PipeSize
  /\ n_frame \in (IF reader = "peek" THEN 1 .. BATCH_SIZE ELSE {0})

\* A frame of gvproxy is in the pipe, in the shared list, in the worker's hands,
\* with the guest or given up, and in one of these places only: handing the list
\* over and putting it back (process_rx_virtio_queue) neither loses a frame nor
\* delivers one twice.  What a reader out of step takes for a frame is not one.
EachFrameInOnePlace ==
  LET places == <<stdout, rx_pending, packets, delivered>>
      Held(p) == ToSet(places[p])
  IN  /\ \A p, q \in 1 .. 4 : \A i \in DOMAIN places[p], j \in DOMAIN places[q] :
           places[p][i] = places[q][j] /\ places[p][i] # Garbage => p = q /\ i = j
      /\ \A p \in 1 .. 4 : Held(p) \intersect gone \subseteq {Garbage}
      /\ ((UNION {Held(p) : p \in 1 .. 4}) \union gone) \ {Garbage} = 1 .. sent

\* A frame in the shared list has a signal on its way to the worker, unless the
\* worker itself put it back for want of a buffer (lines 170 and 358).
PendingIsAnnounced ==
  pc = "wait" => \/ rx_ready \/ reader = "peek"
                 \/ ToSet(rx_pending) \subseteq requeued

\* Frames reach the guest in the order gvproxy sent them; only one that was put
\* back can be overtaken (line 358 appends behind newer frames).
OnlyRequeuedAreOvertaken ==
  \A i, j \in DOMAIN delivered :
    i < j /\ delivered[j] < delivered[i] => delivered[j] \in requeued \union {Garbage}

\* When the worker goes back to waiting, a frame it has put on the used ring and
\* the driver has not seen has its interrupt (lines 407-414).
DeliveredIsSignalled ==
  pc = "wait" /\ (\E i \in DOMAIN rx_used : rx_used[i] # 0) => irq

\* A frame on its way to the guest never waits without a signal: to the worker while
\* it is in the shared list, to the driver once it is in the used ring.
FramesAreAnnounced == PendingIsAnnounced /\ DeliveredIsSignalled

\* gvproxy.rs, line 63: while spawn looks for it, the PID file belongs to a child
\* that is initialised, not to an earlier one.
PidFileMeansReady == dev = "spawning" /\ pid_file => gv # "starting"

\* A reset comes to its end: the worker leaves its loop, the killed child ends
\* the reader's blocking read, and both threads are joined.
StopEnds == dev = "join" ~> pc = "done"

\* A transmit chain is answered, whether gvproxy reads, is dead or has nothing to
\* say: the worker, the reader and the child never wait for each other in a circle.
TxAnswered == pc = "write" ~> pc # "write"

\* The vCPU thread, the worker, the reader and gvproxy block on each other's pipes and
\* ends, and never in a circle: resets end and transmissions return.
NobodyWaitsInACircle == StopEnds /\ TxAnswered
=============================================================================
