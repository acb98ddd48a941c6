------------------------------ MODULE Console -------------------------------
(***************************************************************************)
(* The console: the thread that reads the host's stdin (src/terminal.rs)   *)
(* and the virtio console's worker (src/devices/virtio/console/worker.rs), *)
(* which share the input buffer and its event.  ConsoleFilters has the two *)
(* filters on their way.                                                   *)
(*                                                                         *)
(* A byte is a one-letter string, "Q" the quit key Ctrl+].  The rings      *)
(* are in Virtqueue; here receive buffers are counted, and when one is     *)
(* popped it holds some number of bytes (-1: Writer::new rejects it).  A   *)
(* transmit chain is the sequence of its bytes.  The device does not offer *)
(* EVENT_IDX, so needs_notification always agrees.                         *)
(*                                                                         *)
(* An operator named X_<fault> is a deliberately faulty variant of X that  *)
(* no specification uses: some property must tell it apart from X.         *)
(***************************************************************************)
EXTENDS ConsoleFilters, SequencesExt, FiniteSets

CONSTANTS Keys,      \* sequences of bytes a user types
          Outputs,   \* sequences of bytes the guest transmits in one chain
          Buffers,   \* sizes of receive buffers
          MaxKeys,   \* bound: sequences typed
          MaxChains, \* bound: transmit chains on the ring
          MaxPosts,  \* bound: receive buffers on the ring
          MaxQueries \* bound: chains with a query

Bytes == {"E", "[", "6", ";", "n", "R", "x", "Q"}

\* A chain that Reader::new rejects.
BadChain == <<"bad">>

ASSUME ConsoleAssumption ==
  /\ {MaxKeys, MaxChains, MaxPosts, MaxQueries} \subseteq Nat
  /\ Buffers \subseteq Nat \union {-1}
  /\ Keys \subseteq Seq(Bytes) /\ Outputs \subseteq Seq(Bytes) \union {BadChain}

VARIABLES
  \* the host terminal: what it will send
  tty, keys,
  \* the stdin reader thread
  reader, quitting, shutdown,
  \* shared
  input_buffer, input_event,
  \* the worker thread
  pc, chain, data, used_any, stop_event, tx_event,
  \* the guest
  tx_avail, rx_avail, rx_used, irq, queries,
  \* observed: all input accepted, all of it taken out again, what the guest got
  entered, taken, received

terminal == <<tty, keys>>
thread == <<reader, quitting, shutdown>>
shared == <<input_buffer, input_event>>
work == <<pc, chain, data, used_any, stop_event, tx_event>>
guest == <<tx_avail, rx_avail, rx_used, irq, queries>>
observed == <<entered, taken, received>>
vars == <<terminal, thread, shared, work, guest, observed>>

-----------------------------------------------------------------------------
(* The stdin reader: spawn_stdin_reader. *)

\* Bytes enter the shared buffer, under its lock; the event is signalled after
\* the lock is released.
Enter(bytes) ==
  /\ input_buffer' = input_buffer \o bytes
  /\ entered' = entered \o bytes

QuitKey_FirstOnly(bytes) == IF bytes[1] = "Q" THEN 1 ELSE 0

\* The position of the first quit key, 0 if there is none.
QuitKey(bytes) == SelectInSeq(bytes, LAMBDA b : b = "Q")

\* read returns some of what the terminal has sent.  Bytes before the quit key
\* are forwarded, those after it are dropped with the thread.
Read ==
  /\ reader = "read" /\ tty # <<>>
  /\ \E n \in 1 .. Len(tty) :
       LET bytes == SubSeq(tty, 1, n)
           pos == QuitKey(bytes)
           kept == strip_cpr_responses(IF pos = 0 THEN bytes ELSE SubSeq(bytes, 1, pos - 1))
       IN  /\ tty' = SubSeq(tty, n + 1, Len(tty))
           /\ quitting' = (pos # 0)
           /\ Enter(kept)
           /\ reader' = IF kept # <<>> THEN "signal" ELSE IF pos # 0 THEN "quit" ELSE "read"
  /\ UNCHANGED <<keys, shutdown, input_event, work, guest, taken, received>>

Signal_Skipped ==
  /\ reader = "signal"
  /\ reader' = IF quitting THEN "quit" ELSE "read"
  /\ UNCHANGED <<terminal, quitting, shutdown, shared, work, guest, observed>>

Signal ==
  /\ reader = "signal"
  /\ input_event' = TRUE
  /\ reader' = IF quitting THEN "quit" ELSE "read"
  /\ UNCHANGED <<terminal, quitting, shutdown, input_buffer, work, guest, observed>>

\* signal_shutdown, and the thread ends.
Quit ==
  /\ reader = "quit"
  /\ shutdown' = TRUE /\ reader' = "done"
  /\ UNCHANGED <<terminal, quitting, shared, work, guest, observed>>

\* End of stdin, or an error: the thread ends and the machine goes on.
StdinEnds ==
  /\ reader = "read" /\ tty = <<>> /\ keys = MaxKeys
  /\ reader' = "done"
  /\ UNCHANGED <<terminal, quitting, shutdown, shared, work, guest, observed>>

Reader == Read \/ Signal \/ Quit

-----------------------------------------------------------------------------
(* The worker: ConsoleWorker::work. *)

activate ==
  /\ pc = "none"
  /\ pc' = "wait"
  /\ tx_avail' = <<>> /\ rx_avail' = 0 /\ rx_used' = 0 /\ irq' = FALSE
  /\ UNCHANGED <<terminal, thread, shared, chain, data, used_any, stop_event, tx_event, queries,
                 observed>>

\* reset: the stop event; join is the worker's end.
reset ==
  /\ pc # "none" /\ ~stop_event
  /\ stop_event' = TRUE
  /\ UNCHANGED <<terminal, thread, shared, pc, chain, data, used_any, tx_event, guest, observed>>

WakeTx ==
  /\ pc = "wait" /\ tx_event
  /\ tx_event' = FALSE /\ pc' = "tx" /\ used_any' = FALSE
  /\ UNCHANGED <<terminal, thread, shared, chain, data, stop_event, guest, observed>>

WakeInput ==
  /\ pc = "wait" /\ ~tx_event /\ input_event
  /\ input_event' = FALSE /\ pc' = "take"
  /\ UNCHANGED <<terminal, thread, input_buffer, chain, data, used_any, stop_event, tx_event,
                 guest, observed>>

\* process_rx_input drains the buffer under its lock.
TakeInput ==
  /\ pc = "take"
  /\ data' = input_buffer /\ input_buffer' = <<>>
  /\ pc' = IF input_buffer = <<>> THEN "wait" ELSE "rx"
  /\ used_any' = FALSE
  /\ UNCHANGED <<terminal, thread, input_event, chain, stop_event, tx_event, guest, observed>>

WakeStop ==
  /\ pc = "wait" /\ ~tx_event /\ ~input_event /\ stop_event
  /\ stop_event' = FALSE /\ pc' = "none"
  /\ UNCHANGED <<terminal, thread, shared, chain, data, used_any, tx_event, guest, observed>>

\* One transmit chain: the filter, which puts an answer into the guest's own
\* input if it found a query ...
Filter ==
  /\ pc = "tx" /\ tx_avail # <<>> /\ Head(tx_avail) # BadChain
  /\ chain' = filter_dsr(Head(tx_avail)) /\ tx_avail' = Tail(tx_avail)
  /\ IF HasDsr(Head(tx_avail))
     THEN pc' = "answer" /\ Enter(CPR)
     ELSE pc' = "print" /\ UNCHANGED <<input_buffer, entered>>
  /\ UNCHANGED <<terminal, thread, input_event, data, used_any, stop_event, tx_event, rx_avail,
                 rx_used, irq, queries, taken, received>>

\* A chain that is rejected is skipped and never returned.
SkipChain ==
  /\ pc = "tx" /\ tx_avail # <<>> /\ Head(tx_avail) = BadChain
  /\ tx_avail' = Tail(tx_avail)
  /\ UNCHANGED <<terminal, thread, shared, work, rx_avail, rx_used, irq, queries, observed>>

Answer_NoSignal ==
  /\ pc = "answer"
  /\ pc' = "print"
  /\ UNCHANGED <<terminal, thread, shared, chain, data, used_any, stop_event, tx_event, guest,
                 observed>>

\* ... and signals the event it waits on itself ...
Answer ==
  /\ pc = "answer"
  /\ input_event' = TRUE /\ pc' = "print"
  /\ UNCHANGED <<terminal, thread, input_buffer, chain, data, used_any, stop_event, tx_event,
                 guest, observed>>

\* ... then the host's stdout, where the rest goes, and the used ring.
WriteStdout ==
  /\ pc = "print"
  /\ used_any' = TRUE /\ pc' = "tx" /\ chain' = <<>>
  /\ UNCHANGED <<terminal, thread, shared, data, stop_event, tx_event, guest, observed>>

\* The ring is drained: an interrupt, and one more look at the ring.
TxDone ==
  /\ pc = "tx" /\ tx_avail = <<>>
  /\ irq' = (irq \/ used_any) /\ used_any' = FALSE
  /\ pc' = "wait"
  /\ UNCHANGED <<terminal, thread, shared, chain, data, stop_event, tx_event, tx_avail, rx_avail,
                 rx_used, queries, observed>>

\* A receive buffer is popped while there is data for it.
TakeBuffer ==
  /\ pc = "rx" /\ data # <<>> /\ rx_avail > 0
  /\ rx_avail' = rx_avail - 1
  /\ UNCHANGED <<terminal, thread, shared, pc, chain, stop_event, tx_event, tx_avail, irq,
                 queries, entered>>

FillBuffer_Whole(n) ==
  /\ TakeBuffer /\ n >= 0
  /\ received' = received \o SubSeq(data, 1, Min({n, Len(data)}))
  /\ taken' = taken \o data /\ data' = <<>>
  /\ rx_used' = rx_used + 1 /\ used_any' = TRUE

\* As much of the data as the buffer holds; the rest waits for the next one.
FillBuffer(n) ==
  /\ TakeBuffer /\ n >= 0
  /\ LET m == Min({n, Len(data)})
     IN  /\ received' = received \o SubSeq(data, 1, m)
         /\ taken' = taken \o SubSeq(data, 1, m)
         /\ data' = SubSeq(data, m + 1, Len(data))
  /\ rx_used' = rx_used + 1 /\ used_any' = TRUE

\* Writer::new fails: the buffer is lost, the data is kept for the next.
SkipBuffer ==
  /\ TakeBuffer /\ -1 \in Buffers
  /\ UNCHANGED <<data, used_any, rx_used, taken, received>>

\* All written, or no buffer left: what remains is dropped.
RxDone ==
  /\ pc = "rx" /\ (data = <<>> \/ rx_avail = 0)
  /\ taken' = taken \o data /\ data' = <<>>
  /\ irq' = (irq \/ used_any)
  /\ used_any' = FALSE /\ pc' = "wait"
  /\ UNCHANGED <<terminal, thread, shared, chain, stop_event, tx_event, tx_avail, rx_avail, rx_used,
                 queries, entered, received>>

Worker ==
  \/ WakeTx \/ WakeInput \/ TakeInput \/ WakeStop
  \/ Filter \/ SkipChain \/ Answer \/ WriteStdout \/ TxDone
  \/ (\E n \in Buffers : FillBuffer(n)) \/ SkipBuffer \/ RxDone

-----------------------------------------------------------------------------
(* The user and the guest driver. *)

TypeKeys(s) ==
  /\ keys < MaxKeys
  /\ keys' = keys + 1 /\ tty' = tty \o s
  /\ UNCHANGED <<thread, shared, work, guest, observed>>

Transmit(s) ==
  /\ pc # "none" /\ Len(tx_avail) < MaxChains
  /\ queries' = IF HasDsr(s) THEN queries + 1 ELSE queries
  /\ queries' <= MaxQueries
  /\ tx_avail' = Append(tx_avail, s) /\ tx_event' = TRUE
  /\ UNCHANGED <<terminal, thread, shared, pc, chain, data, used_any, stop_event, rx_avail, rx_used,
                 irq, observed>>

PostBuffer ==
  /\ pc # "none" /\ rx_avail + rx_used < MaxPosts
  /\ rx_avail' = rx_avail + 1
  /\ UNCHANGED <<terminal, thread, shared, work, tx_avail, rx_used, irq, queries, observed>>

TakeInterrupt ==
  /\ irq
  /\ irq' = FALSE /\ rx_used' = 0
  /\ UNCHANGED <<terminal, thread, shared, work, tx_avail, rx_avail, queries, observed>>

-----------------------------------------------------------------------------

Init ==
  /\ tty = <<>> /\ keys = 0
  /\ reader = "read" /\ quitting = FALSE /\ shutdown = FALSE
  /\ input_buffer = <<>> /\ input_event = FALSE
  /\ pc = "none" /\ chain = <<>> /\ data = <<>> /\ used_any = FALSE
  /\ stop_event = FALSE /\ tx_event = FALSE
  /\ tx_avail = <<>> /\ rx_avail = 0 /\ rx_used = 0 /\ irq = FALSE /\ queries = 0
  /\ entered = <<>> /\ taken = <<>> /\ received = <<>>

Next ==
  \/ Reader \/ StdinEnds
  \/ activate \/ reset
  \/ Worker
  \/ \E s \in Keys : TypeKeys(s)
  \/ \E s \in Outputs : Transmit(s)
  \/ PostBuffer \/ TakeInterrupt

\* Both threads run when they can.
Fairness == WF_vars(Reader) /\ WF_vars(Worker)

Spec == Init /\ [][Next]_vars
FairSpec == Spec /\ Fairness

-----------------------------------------------------------------------------
(* Properties. *)

\* Positions are the code's, and no quit key gets past the reader.
TypeOK ==
  /\ reader \in {"read", "signal", "quit", "done"}
  /\ pc \in {"none", "wait", "take", "tx", "answer", "print", "rx"}
  /\ {quitting, shutdown, input_event, used_any, stop_event, tx_event, irq} \subseteq BOOLEAN
  /\ tty \in Seq(Bytes) /\ chain \in Seq(Bytes)
  /\ input_buffer \in Seq(Bytes \ {"Q"}) /\ data \in Seq(Bytes \ {"Q"})

\* Input moves from the two threads through the shared buffer to the guest in
\* one order, and no byte is taken twice or passed over.
EachInputByteOnce == entered = taken \o data \o input_buffer

\* Input in the buffer has its signal: set, about to be set by whoever put it
\* there, or consumed by a worker that is about to look.
InputIsAnnounced ==
  input_buffer # <<>> => input_event \/ reader = "signal" \/ pc \in {"take", "answer"}

\* console/worker.rs, line 227: input is dropped only when the receive queue is
\* empty, never because a buffer is short or rejected.
DroppedOnlyWithoutBuffer ==
  [][Len(taken') - Len(taken) # Len(received') - Len(received) => rx_avail = 0]_vars

\* A worker that waits has interrupted for every buffer it has returned.
ReturnedIsSignalled == pc = "wait" /\ rx_used > 0 => irq

\* Input is neither lost, repeated nor reordered on its way from the terminal and the
\* worker's answers to the guest, and nobody waits for something that is there already:
\* neither the worker for input nor the guest for a buffer that was returned.
InputIsKept == TypeOK /\ EachInputByteOnce /\ InputIsAnnounced /\ ReturnedIsSignalled

\* Input waits for the worker only while the guest keeps transmitting, for the
\* transmit queue comes first in the list of handles, or keeps posting buffers
\* that take no byte, for the worker goes on to the next one.
InputIsTaken ==
  \/ []<><<\E s \in Outputs : Transmit(s)>>_vars
  \/ []<><<rx_avail' < rx_avail /\ data' = data>>_vars
  \/ []<>(pc = "none")
  \/ (input_buffer # <<>> ~> input_buffer = <<>>)

\* terminal.rs, lines 92-101: however reads cut up what is typed, Ctrl+] shuts the
\* machine down.
QuitKeyIsHeard == reader = "read" /\ (\E i \in DOMAIN tty : tty[i] = "Q") ~> shutdown

\* What is typed is heard: as input by the worker, as the quit key by main.
TypingIsHeard == InputIsTaken /\ QuitKeyIsHeard
=============================================================================
