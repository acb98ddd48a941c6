-------------------------- MODULE RegionCollection --------------------------
(***************************************************************************)
(* The guest memory of the vendored crate vm-memory as a collection of     *)
(* regions: region.rs (GuestMemoryRegion, GuestRegionCollection) and        *)
(* mmap/mod.rs (GuestRegionMmap).  A region is its guest address, its       *)
(* length and the host address of its mapping; a collection is a sequence   *)
(* of them.  A result is Ok(value) or Err(name).                            *)
(***************************************************************************)
EXTENDS Integers, Sequences

CONSTANTS GUEST_MAX \* u64::MAX, the last guest address

ASSUME GuestMaxAssumption == GUEST_MAX \in Nat

Ok(v) == [ok |-> v]
Err(e) == [err |-> e]
IsOk(r) == "ok" \in DOMAIN r

\* GuestRegionMmap::from_range: MmapRegion::new and with_arc.
from_range(addr, size, host) ==
  IF size = 0 THEN Err("MmapRegion")
  ELSE IF addr + size > GUEST_MAX THEN Err("InvalidGuestRegion")
  ELSE Ok([start |-> addr, len |-> size, host |-> host])

last_addr(r) == r.start + r.len - 1

\* The offset in the region, if the address is in it.
to_region_addr(r, addr) ==
  IF addr < r.start \/ addr - r.start >= r.len THEN Err("None") ELSE Ok(addr - r.start)

\* The first window that is wrong gives the error.
from_arc_regions(regions) ==
  LET Unsorted(i) == regions[i].start > regions[i + 1].start
      Overlap(i) == last_addr(regions[i]) >= regions[i + 1].start
      Wrong == {i \in 1 .. Len(regions) - 1 : Unsorted(i) \/ Overlap(i)}
  IN  IF regions = <<>> THEN Err("NoMemoryRegion")
      ELSE IF Wrong = {} THEN Ok(regions)
      ELSE IF Unsorted(CHOOSE i \in Wrong : \A j \in Wrong : i <= j) THEN Err("UnsortedMemoryRegions")
      ELSE Err("MemoryRegionOverlap")

\* binary_search_by_key (the standard library): how many regions start below the key.
Below(regions, key) ==
  CHOOSE x \in 0 .. Len(regions) :
    /\ \A i \in 1 .. x : regions[i].start < key
    /\ \A i \in x + 1 .. Len(regions) : regions[i].start >= key

\* A binary search ends at a region that starts at the key, if there is one.
StartsAt(regions, key) ==
  LET x == Below(regions, key) IN x < Len(regions) /\ regions[x + 1].start = key

\* sort_by_key is stable: the region that was pushed goes after those with its start.
Pushed(regions, region) ==
  LET x == Below(regions, region.start + 1)
  IN  [i \in 1 .. Len(regions) + 1 |->
         IF i <= x THEN regions[i] ELSE IF i = x + 1 THEN region ELSE regions[i - 1]]

insert_region(regions, region) == from_arc_regions(Pushed(regions, region))

\* The new collection; only a region of exactly this address and size is removed.
remove_region(regions, base, size) ==
  LET k == Below(regions, base) + 1
  IN  IF StartsAt(regions, base) /\ regions[k].len = size
      THEN Ok([i \in 1 .. Len(regions) - 1 |-> IF i < k THEN regions[i] ELSE regions[i + 1]])
      ELSE Err("NoMemoryRegion")

\* The region at the address, or the closest below it if the address is in it.
find_region(regions, addr) ==
  LET x == Below(regions, addr)
  IN  IF StartsAt(regions, addr) THEN Ok(regions[x + 1])
      ELSE IF x > 0 /\ addr <= last_addr(regions[x]) THEN Ok(regions[x])
      ELSE Err("None")

-----------------------------------------------------------------------------
(* What a collection promises. *)

Regions == [start : Nat, len : Nat \ {0}, host : Nat]

Holds(r, addr) == r.start <= addr /\ addr <= last_addr(r)

Apart(r, q) == last_addr(r) < q.start \/ last_addr(q) < r.start

\* "a sorted set of non-overlapping physical guest memory regions" (the doc of
\* GuestRegionCollection).
SortedApart(regions) == \A i, j \in 1 .. Len(regions) : i < j => last_addr(regions[i]) < regions[j].start

Members(regions) == {regions[i] : i \in 1 .. Len(regions)}

\* A region is taken exactly when it overlaps none that is there, and then it
\* is added, and the collection is still sorted.
InsertIsExact(regions, region) ==
  LET got == insert_region(regions, region)
  IN  /\ IsOk(got) <=> \A r \in Members(regions) : Apart(r, region)
      /\ IsOk(got) => SortedApart(got.ok) /\ Members(got.ok) = Members(regions) \union {region}

\* A region is removed exactly when it is there, and nothing else is.
RemoveIsExact(regions, base, size) ==
  LET got == remove_region(regions, base, size)
      named == {r \in Members(regions) : r.start = base /\ r.len = size}
  IN  /\ IsOk(got) <=> named # {}
      /\ IsOk(got) => SortedApart(got.ok) /\ Members(got.ok) = Members(regions) \ named

\* The search finds the region that holds the address, and fails only where none does.
FindIsExact(regions, addr) ==
  LET found == find_region(regions, addr)
  IN  /\ IsOk(found) => found.ok \in Members(regions) /\ Holds(found.ok, addr)
      /\ IsOk(found) <=> \E r \in Members(regions) : Holds(r, addr)
=============================================================================
