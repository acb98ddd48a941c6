----------------------------- MODULE BlockDevice ----------------------------
(***************************************************************************)
(* The requests of the virtio block device (src/devices/virtio/block/      *)
(* worker.rs, process_queue and process_request) on a disk image with a    *)
(* host cache in front of the media, as DiskProperties of                  *)
(* src/devices/virtio/block/device.rs uses it.  The ring is the one of      *)
(* Virtqueue: here requests are answered in the order they were made.      *)
(*                                                                         *)
(* A byte of the disk holds the number of the request that wrote it last,  *)
(* 0 at first.  The arithmetic is that of a release build: in a debug      *)
(* build, a read request without any writable byte panics the worker.      *)
(*                                                                         *)
(* An operator named X_<fault> is a deliberately faulty variant of X that  *)
(* no specification uses: some property must tell it apart from X.         *)
(***************************************************************************)
EXTENDS DescriptorChain

CONSTANTS MaxRequests, \* how many requests a driver makes
          Offered(_),  \* the ones that it may add to a sequence of them
          SECTOR_SIZE, NSectors,
          HEADER_BYTES, SEGMENT_BYTES, \* RequestHeader and DiscardWriteData
          ID_BYTES,    \* VIRTIO_BLK_ID_BYTES
          USIZE        \* 2^64

ASSUME SizeAssumption ==
  /\ {MaxRequests, SECTOR_SIZE, NSectors, HEADER_BYTES, SEGMENT_BYTES, ID_BYTES, USIZE} \subseteq Nat \ {0}
  /\ USIZE % SECTOR_SIZE = 0

\* A request: its type, the first sector, the number of sectors that its driver
\* means, and its descriptor table.
DiskBytes == 0 .. NSectors * SECTOR_SIZE - 1
Ids == 1 .. MaxRequests

\* What a writable byte holds besides data, which is a request number.
Stale == -1 \* not written by the device
OK == -2
IOERR == -3
IdByte == -4

VARIABLES made,    \* the requests made, by number
          next_avail, \* the request the worker is at
          result,  \* what process_request returned for it: status, len, what is left of the writer
          answer,  \* for the requests in the used ring: status and len
          buffer,  \* what the device wrote into the buffers of each request: address -> value
          disk,    \* the image as the host's cache has it
          media,   \* external: what is on the media
          state    \* "runs"; "synced" or "unsynced" once the worker has ended; "crashed" 

driver == <<made>>
worker == <<next_avail, result, answer, buffer>>
vars == <<driver, worker, disk, media, state>>

NoResult == [status |-> Stale, len |-> 0, left |-> <<>>]

Size(r) == available_bytes(Writer[r.table])

\* The reader once the header is read.
AfterHeader(r) == Consumed(Reader[r.table], HEADER_BYTES)

\* The bytes of the image from a sector on.
Extent(sector, n) == {b \in DiskBytes : sector * SECTOR_SIZE <= b /\ b < sector * SECTOR_SIZE + n}

\* The result of a request that the worker has not changed the disk for.
Result(status, len, left) == [status |-> status, len |-> len, left |-> left]
Failed(r) == Result(IOERR, 0, Writer[r.table])

current == made[next_avail]

-----------------------------------------------------------------------------
(* process_request. *)

\* Values for the n bytes that the writer w starts with.
Fill(w, n, values) ==
  LET a == Bytes(w)
  IN  buffer' = [buffer EXCEPT ![next_avail] =
                   [b \in DOMAIN @ |-> IF \E k \in 1 .. n : a[k] = b
                                         THEN values[CHOOSE k \in 1 .. n : a[k] = b] ELSE @[b]]]

T_IN_Sector(r) ==
  LET w == Writer[r.table]
      data_len == (Size(r) - 1) % USIZE
      n == Reports("file", w, data_len)
  IN  /\ \/ result' = Failed(r) /\ UNCHANGED buffer
         \/ /\ data_len % SECTOR_SIZE = 0 /\ r.sector * SECTOR_SIZE + n <= NSectors * SECTOR_SIZE
            /\ result' = Result(OK, n, Consumed(w, n))
            /\ Fill(w, n, [k \in 1 .. n |-> disk[r.sector + k - 1]])
      /\ UNCHANGED <<disk, media>>

\* Reading takes whole slices until they hold the data: the last byte is kept
\* for the status.  A failing read has written nothing.
T_IN(r) ==
  LET w == Writer[r.table]
      data_len == (Size(r) - 1) % USIZE
      n == Reports("file", w, data_len)
  IN  /\ \/ result' = Failed(r) /\ UNCHANGED buffer
         \/ /\ data_len % SECTOR_SIZE = 0 /\ r.sector * SECTOR_SIZE + n <= NSectors * SECTOR_SIZE
            /\ result' = Result(OK, n, Consumed(w, n))
            /\ Fill(w, n, [k \in 1 .. n |-> disk[r.sector * SECTOR_SIZE + k - 1]])
      /\ UNCHANGED <<disk, media>>

\* Part of a range now comes from the current request.
Overwritten(some) == [b \in DiskBytes |-> IF b \in some THEN next_avail ELSE disk[b]]

\* A failing write may have written some of its bytes.
T_OUT(r) ==
  LET data_len == available_bytes(AfterHeader(r))
  IN  /\ \/ result' = Failed(r) /\ UNCHANGED disk
         \/ /\ data_len % SECTOR_SIZE = 0 /\ result' = Failed(r)
            /\ \E some \in SUBSET Extent(r.sector, data_len) : disk' = Overwritten(some)
         \/ /\ data_len % SECTOR_SIZE = 0 /\ result' = Result(OK, data_len, Writer[r.table])
            /\ disk' = Overwritten(Extent(r.sector, data_len))
      /\ UNCHANGED <<buffer, media>>

T_FLUSH_Unsafe(r) ==
  /\ result' = Result(OK, 0, Writer[r.table])
  /\ UNCHANGED <<buffer, disk, media>>

\* CacheType::Writeback: flush and sync.
T_FLUSH(r) ==
  /\ \/ result' = Failed(r) /\ UNCHANGED media
     \/ result' = Result(OK, 0, Writer[r.table]) /\ media' = disk
  /\ UNCHANGED <<buffer, disk>>

\* The identifier needs ID_BYTES of all that is writable, the status included.
T_GET_ID(r) ==
  LET w == Writer[r.table]
  IN  /\ IF Size(r) < ID_BYTES
           THEN result' = Failed(r) /\ UNCHANGED buffer
           ELSE result' = Result(OK, ID_BYTES, Consumed(w, ID_BYTES)) /\ Fill(w, ID_BYTES, [k \in 1 .. ID_BYTES |-> IdByte])
      /\ UNCHANGED <<disk, media>>

\* The bytes that the segment behind the header names; none without a whole one,
\* and the request fails.
HasSegment(r) == available_bytes(AfterHeader(r)) >= SEGMENT_BYTES
Segment(r) == IF HasSegment(r) THEN Extent(r.sector, r.num * SECTOR_SIZE) ELSE {}

\* What a discard leaves of its range is up to the image, and either of the two may
\* fail when it is done in part.
T_DISCARD(r) ==
  /\ result' = Failed(r) \/ (HasSegment(r) /\ result' = Result(OK, 0, Writer[r.table]))
  /\ \E some \in SUBSET Segment(r) : disk' = Overwritten(some)
  /\ UNCHANGED <<buffer, media>>

T_WRITE_ZEROES(r) ==
  /\ \/ result' = Failed(r) /\ (\E some \in SUBSET Segment(r) : disk' = Overwritten(some))
     \/ HasSegment(r) /\ result' = Result(OK, 0, Writer[r.table]) /\ disk' = Overwritten(Segment(r))
  /\ UNCHANGED <<buffer, media>>

T_Unknown(r) == result' = Failed(r) /\ UNCHANGED <<buffer, disk, media>>

\* Reader, Writer and header can be had.
HasHeader(r) == InMemory[r.table] /\ available_bytes(Reader[r.table]) >= HEADER_BYTES

process_request ==
  /\ state = "runs" /\ result = NoResult /\ next_avail <= Len(made) /\ HasHeader(current)
  /\ CASE current.type = "IN" -> T_IN(current)
       [] current.type = "OUT" -> T_OUT(current)
       [] current.type = "FLUSH" -> T_FLUSH(current)
       [] current.type = "GET_ID" -> T_GET_ID(current)
       [] current.type = "DISCARD" -> T_DISCARD(current)
       [] current.type = "WRITE_ZEROES" -> T_WRITE_ZEROES(current)
       [] current.type = "unknown" -> T_Unknown(current)
  /\ UNCHANGED <<driver, next_avail, answer, state>>

\* Any other chain is given up.
SkipRequest ==
  /\ state = "runs" /\ result = NoResult /\ next_avail <= Len(made) /\ ~HasHeader(current)
  /\ next_avail' = next_avail + 1
  /\ UNCHANGED <<driver, result, answer, buffer, disk, media, state>>

AnswerRequest_SkipsFailed ==
  /\ state = "runs" /\ result # NoResult
  /\ answer' = IF result.status = OK
                 THEN [answer EXCEPT ![next_avail] = [status |-> OK, len |-> result.len + 1]] ELSE answer
  /\ result' = NoResult /\ next_avail' = next_avail + 1
  /\ UNCHANGED <<driver, buffer, disk, media, state>>

\* The status goes where the writer stands, if there is room, and the chain into
\* the used ring.
AnswerRequest ==
  /\ state = "runs" /\ result # NoResult
  /\ buffer' = IF Bytes(result.left) = <<>> THEN buffer
               ELSE [buffer EXCEPT ![next_avail][Bytes(result.left)[1]] = result.status]
  /\ answer' = [answer EXCEPT ![next_avail] = [status |-> result.status, len |-> result.len + 1]]
  /\ result' = NoResult /\ next_avail' = next_avail + 1
  /\ UNCHANGED <<driver, disk, media, state>>

-----------------------------------------------------------------------------
(* Driver and host. *)

Submit ==
  /\ state = "runs" /\ Len(made) < MaxRequests
  /\ \E r \in Offered(made) :
       /\ made' = Append(made, r)
       /\ buffer' = [buffer EXCEPT ![Len(made) + 1] =
                       [b \in ToSet(Bytes(Reader[r.table] \o Writer[r.table])) |-> Stale]]
  /\ UNCHANGED <<next_avail, result, answer, disk, media, state>>

\* External: the host writes a byte of its cache back.
WriteBack(b) ==
  /\ media[b] # disk[b]
  /\ media' = [media EXCEPT ![b] = disk[b]]
  /\ UNCHANGED <<driver, worker, disk, state>>

\* DiskProperties::drop with CacheType::Writeback; a failure is only logged.
DropDisk ==
  \/ state' = "synced" /\ media' = disk
  \/ state' = "unsynced" /\ UNCHANGED media

\* The worker ends between two requests and drops its DiskProperties.
Stop ==
  /\ state = "runs" /\ result = NoResult
  /\ DropDisk
  /\ UNCHANGED <<driver, worker, disk>>

\* The host crashes at any point: the cache is lost.
Crash ==
  /\ state = "runs" /\ state' = "crashed"
  /\ disk' = media
  /\ UNCHANGED <<driver, worker, media>>

NoAnswer == [status |-> Stale, len |-> 0]

Init ==
  /\ made = <<>> /\ next_avail = 1 /\ result = NoResult
  /\ answer = [i \in Ids |-> NoAnswer]
  /\ buffer = [i \in Ids |-> <<>>]
  /\ disk = [b \in DiskBytes |-> 0] /\ media = disk /\ state = "runs"

Worker == process_request \/ SkipRequest \/ AnswerRequest

Next ==
  \/ Submit \/ process_request \/ SkipRequest \/ AnswerRequest
  \/ (\E b \in DiskBytes : WriteBack(b)) \/ Stop \/ Crash

Spec == Init /\ [][Next]_vars
FairSpec == Spec /\ WF_vars(Worker)

-----------------------------------------------------------------------------
(* Properties. *)

\* The type of the state.
TypeOK ==
  /\ Len(made) <= MaxRequests /\ next_avail \in 1 .. Len(made) + 1
  /\ disk \in [DiskBytes -> 0 .. MaxRequests] /\ media \in [DiskBytes -> 0 .. MaxRequests]
  /\ result.status \in {Stale, OK, IOERR} 
  /\ state \in {"runs", "synced", "unsynced", "crashed"}

Answered(i) == answer[i] # NoAnswer

\* The requests that set a byte, of those answered with OK.
Sets(i, b) ==
  /\ made[i].type \in {"OUT", "WRITE_ZEROES"}
  /\ answer[i].status = OK
  /\ b \div SECTOR_SIZE \in
       made[i].sector .. made[i].sector + made[i].num - 1

LastSet(b, before) == Max({0} \union {i \in 1 .. Len(made) : i < before /\ Sets(i, b)})

\* A read that succeeds returns, for every byte, what the last write before it
\* wrote, or what a failed write or a discard since then left: the data of the
\* right sectors, in the right order, through any cutting into descriptors.
ReadReturnsLastWrite ==
  \A i \in 1 .. Len(made) :
    made[i].type = "IN" /\ answer[i].status = OK =>
      LET w == Bytes(Writer[made[i].table])
      IN  \A k \in 1 .. made[i].num * SECTOR_SIZE :
            buffer[i][w[k]] \in LastSet(made[i].sector * SECTOR_SIZE + k - 1, i) .. i - 1

\* CacheType::Writeback: "flush requests coming from the guest will be performed
\* using `fsync`".  What was written before a flush that succeeded is on the
\* media from then on, through every crash.
FlushedIsOnMedia ==
  \A i \in 1 .. Len(made) :
    made[i].type = "FLUSH" /\ answer[i].status = OK =>
      \A b \in DiskBytes : media[b] >= LastSet(b, i)

\* A worker that ends, at a device reset or at shutdown, and could sync its disk
\* loses no write: all that were answered with OK are on the media, flushed by the
\* driver or not.
StopLosesNothing ==
  state = "synced" => \A b \in DiskBytes : media[b] >= LastSet(b, Len(made) + 1)

\* The driver reads the answer to a request in its last writable byte.  It finds
\* there what the worker decided; except that the status of a failing request
\* with a data area goes into the first byte of that.
StatusInLastByte ==
  \A i \in 1 .. Len(made) :
    LET w == Bytes(Writer[made[i].table])
    IN  Answered(i) /\ w # <<>> /\ (answer[i].status = OK \/ Len(w) = 1) =>
          buffer[i][Last(w)] = answer[i].status

\* The device writes into no readable descriptor of a driver that puts the
\* writable ones last, whatever the request and wherever the data ends.
WritesOnlyWritable ==
  \A i \in 1 .. Len(made) :
    made[i].table \in WellOrdered =>
      \A a \in DOMAIN buffer[i] : buffer[i][a] # Stale => made[i].table[a \div BufferSize].write

\* What the driver finds in its buffers is what happened: the data of a read, the
\* status of the request, and nothing in what it did not offer for writing.
AnswersAreTrue == TypeOK /\ ReadReturnsLastWrite /\ StatusInLastByte /\ WritesOnlyWritable

\* What was acknowledged as durable survives a crash, and what was acknowledged at all
\* survives an orderly end.
WritesAreDurable == FlushedIsOnMedia /\ StopLosesNothing

\* While the VM runs every request with a whole header is answered, failing and
\* malformed ones too.
EveryRequestAnswered ==
  \A i \in Ids :
    (Len(made) >= i /\ HasHeader(made[i])) ~> (answer[i] # NoAnswer \/ state # "runs")
=============================================================================
