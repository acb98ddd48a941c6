--------------------------- MODULE VirtioDevices ----------------------------
(***************************************************************************)
(* What the four virtio devices tell a driver that probes them: their      *)
(* features, queues and configuration spaces                               *)
(* (src/devices/virtio/{block,rng,console,net}/{mod,device}.rs), as the    *)
(* registers of the transport show them (device.rs, mmio.rs).  Everything  *)
(* here is fixed when the device is built, so there is no state: a set of  *)
(* features is the set of its bit numbers, a configuration space the       *)
(* sequence of its bytes, each named by its field and place in the field.  *)
(***************************************************************************)
EXTENDS Integers, Sequences, SequencesExt

CONSTANTS SectorBytes,   \* SECTOR_SIZE; a few bytes are enough here
          ImageSizes     \* the sizes of disk images considered

ASSUME DevicesAssumption == SectorBytes \in Nat \ {0} /\ ImageSizes \subseteq Nat

VIRTIO_F_VERSION_1 == 32
VIRTIO_RING_F_EVENT_IDX == 29
VIRTIO_BLK_F_SEG_MAX == 2
VIRTIO_BLK_F_RO == 5
VIRTIO_BLK_F_FLUSH == 9
VIRTIO_BLK_F_DISCARD == 13
VIRTIO_BLK_F_WRITE_ZEROES == 14
VIRTIO_NET_F_MAC == 5
VIRTIO_CONSOLE_F_SIZE == 0

\* The arguments of Block::new that its features depend on.
BlockOptions == [sync_mode : {"None", "Relaxed", "Full"}, read_only : BOOLEAN]

BlockFeatures(opt) ==
  {VIRTIO_F_VERSION_1, VIRTIO_BLK_F_SEG_MAX, VIRTIO_BLK_F_DISCARD,
   VIRTIO_BLK_F_WRITE_ZEROES, VIRTIO_RING_F_EVENT_IDX}
  \union {f \in {VIRTIO_BLK_F_FLUSH} : opt.sync_mode # "None"}
  \union {f \in {VIRTIO_BLK_F_RO} : opt.read_only}

Block(opt) ==
  [type |-> 2, avail_features |-> BlockFeatures(opt), queue_config |-> <<256>>,
   takes |-> 1,
   layout |-> <<<<"capacity", 8>>, <<"size_max", 4>>, <<"seg_max", 4>>, <<"geometry", 4>>,
                <<"blk_size", 4>>, <<"topology", 8>>, <<"writeback", 1>>, <<"unused0", 1>>,
                <<"num_queues", 2>>, <<"max_discard_sectors", 4>>, <<"max_discard_seg", 4>>,
                <<"discard_sector_alignment", 4>>, <<"max_write_zeroes_sectors", 4>>,
                <<"max_write_zeroes_seg", 4>>, <<"write_zeroes_may_unmap", 1>>>>]

Rng == [type |-> 4, avail_features |-> {VIRTIO_F_VERSION_1}, queue_config |-> <<256>>,
        takes |-> 1, layout |-> <<>>]

Console ==
  [type |-> 3, avail_features |-> {VIRTIO_F_VERSION_1, VIRTIO_CONSOLE_F_SIZE},
   queue_config |-> <<256, 256>>, takes |-> 2,
   layout |-> <<<<"cols", 2>>, <<"rows", 2>>, <<"max_nr_ports", 4>>, <<"emerg_wr", 4>>>>]

Net == [type |-> 1, avail_features |-> {VIRTIO_F_VERSION_1, VIRTIO_NET_F_MAC},
        queue_config |-> <<1024, 1024>>, takes |-> 2,
        layout |-> <<<<"mac", 6>>, <<"status", 2>>, <<"max_virtqueue_pairs", 2>>>>]

Devices == {Block(opt) : opt \in BlockOptions} \union {Rng, Console, Net}

\* The limits in the block device's configuration space.
seg_max == 254
max_discard_seg == 1
max_write_zeroes_seg == 1

\* DiskProperties::new: the tail of an image that is no whole sector is not shown.
nsectors(disk_size) == disk_size \div SectorBytes

-----------------------------------------------------------------------------
(* Features, 32 at a time. *)

avail_features_by_page(dev, page) ==
  IF page \in {0, 1}
  THEN {b - 32 * page : b \in dev.avail_features \cap (32 * page .. 32 * page + 31)}
  ELSE {}

\* Register 0x10; the transport adds VERSION_1 whatever the device says.
DeviceFeatures(dev, page) ==
  avail_features_by_page(dev, page) \union {b \in {0} : page = 1}

\* ack_features_by_page: acked_features after the driver wrote value.
ack_by_page(dev, acked_before, page, value) ==
  acked_before
    \union (IF page \in {0, 1} THEN {b + 32 * page : b \in value} \cap dev.avail_features ELSE {})

\* What a driver that wants the features in wanted ends with: it reads a page
\* and writes back the bits it wants, for the two pages in turn.
Negotiated(dev, wanted) ==
  LET Pick(page) == {b \in DeviceFeatures(dev, page) : b + 32 * page \in wanted}
  IN ack_by_page(dev, ack_by_page(dev, {}, 0, Pick(0)), 1, Pick(1))

-----------------------------------------------------------------------------
(* The configuration space. *)

\* The packed structure as bytes.
config(dev) ==
  FlattenSeq([i \in DOMAIN dev.layout |->
                [k \in 1 .. dev.layout[i][2] |-> <<dev.layout[i][1], k>>]])

read_config_FromEnd(dev, offset, data) ==
  LET cfg == config(dev)
      part == SubSeq(cfg, offset + 1, offset + Len(data))
  IN IF offset + Len(data) > Len(cfg) THEN data ELSE part

\* The bytes asked for that exist go to the front of the buffer, and the rest of
\* the buffer keeps what was in it.
read_config(dev, offset, data) ==
  LET cfg == config(dev)
      end == IF offset + Len(data) < Len(cfg) THEN offset + Len(data) ELSE Len(cfg)
      part == SubSeq(cfg, offset + 1, end)
  IN IF offset >= Len(cfg) THEN data
     ELSE part \o SubSeq(data, Len(part) + 1, Len(data))

-----------------------------------------------------------------------------
(* Properties of every device, that the transport's model states as        *)
(* invariants.                                                             *)

\* A driver gets exactly the features it wants out of those it is shown:
\* nothing it read is refused when it acknowledges it, VERSION_1, which the
\* transport shows on its own account, included.
AllShownAccepted ==
  \A dev \in Devices :
    LET shown == {b + 32 * p : <<b, p>> \in
                    UNION {DeviceFeatures(dev, p) \X {p} : p \in {0, 1}}}
    IN /\ VIRTIO_F_VERSION_1 \in shown
       /\ \A wanted \in SUBSET shown : Negotiated(dev, wanted) = wanted

\* The buffer of a read before the device fills it.
Blank(n) == [k \in 1 .. n |-> <<"blank", 0>>]

\* A field reads the same whatever the width of the accesses it is read with, and
\* the bytes past the end of the space are not invented.
AllConfigReadsAgree ==
  \A dev \in Devices : \A offset \in 0 .. Len(config(dev)) + 1 :
    \A m \in {1, 2, 4}, n \in {1, 2, 4} :
      LET got == read_config(dev, offset, Blank(m)) \o read_config(dev, offset + m, Blank(n))
      IN \A k \in 1 .. m + n :
           got[k] = IF offset + k <= Len(config(dev)) THEN config(dev)[offset + k] ELSE <<"blank", 0>>

\* Where the virtio specification puts the field that comes with a feature.
FieldAt(dev, feature, field, offset, size) ==
  feature \in dev.avail_features =>
    \A k \in 1 .. size : read_config(dev, offset, Blank(size))[k] = <<field, k>>

\* What is offered can be used: the field of an offered feature is where a
\* driver looks for it, a request of seg_max segments with its header and status
\* fits the queue, one discard segment is what the worker reads from a request,
\* the device takes as many queues as the transport makes for it, and every sector
\* of the capacity is one the image has.
AllOfferedUsable ==
  /\ \A opt \in BlockOptions : LET dev == Block(opt) IN
       /\ FieldAt(dev, VIRTIO_F_VERSION_1, "capacity", 0, 8)
       /\ FieldAt(dev, VIRTIO_BLK_F_SEG_MAX, "seg_max", 12, 4)
       /\ FieldAt(dev, VIRTIO_BLK_F_DISCARD, "max_discard_sectors", 36, 4)
       /\ FieldAt(dev, VIRTIO_BLK_F_DISCARD, "max_discard_seg", 40, 4)
       /\ FieldAt(dev, VIRTIO_BLK_F_WRITE_ZEROES, "max_write_zeroes_seg", 52, 4)
       /\ FieldAt(dev, VIRTIO_BLK_F_WRITE_ZEROES, "write_zeroes_may_unmap", 56, 1)
       /\ seg_max + 2 <= dev.queue_config[1]
       /\ {max_discard_seg, max_write_zeroes_seg} = {1}
  /\ FieldAt(Net, VIRTIO_NET_F_MAC, "mac", 0, 6)
  /\ FieldAt(Console, VIRTIO_CONSOLE_F_SIZE, "rows", 2, 2)
  /\ \A dev \in Devices : Len(dev.queue_config) = dev.takes
  /\ \A size \in ImageSizes : \A s \in 0 .. nsectors(size) - 1 : (s + 1) * SectorBytes <= size
=============================================================================
