-------------------------------- MODULE Bus ---------------------------------
(***************************************************************************)
(* The bus of src/devices/bus.rs: devices at ranges of an address space.   *)
(*                                                                         *)
(* The BTreeMap compares BusRanges by their base alone, so it is a function *)
(* from bases to lengths here; a device is named by the base it was first  *)
(* offered at.  u64 is unbounded: base + len - 1 does not overflow for any  *)
(* range of the port space.  The properties are proved in MachineProofs.   *)
(***************************************************************************)
EXTENDS Naturals

VARIABLES devices, \* the base of each device |-> the length of its range
          request, \* the range of the last insert ...
          result   \* ... and what insert returned

bus_vars == <<devices, request, result>>

\* The device with the greatest base up to addr: the set of its base.
first_before(addr) ==
  {b \in DOMAIN devices : b <= addr /\ \A c \in DOMAIN devices : c <= addr => c <= b}

\* The device whose range contains addr; none if it is past the range's end.
get_device(addr) ==
  {b \in first_before(addr) : addr - b < devices[b]}

\* What makes insert refuse: an empty range, a base in another's range, or
\* another device that starts inside the new range.
Overlaps(base, len) ==
  \/ len = 0
  \/ get_device(base) # {}
  \/ \E b \in first_before(base + len - 1) : b >= base

insert(base, len) ==
  /\ request' = <<base, len>>
  /\ IF Overlaps(base, len)
       THEN result' = "Overlap" /\ devices' = devices
       ELSE /\ devices' = [b \in DOMAIN devices \union {base} |->
                             IF b = base THEN len ELSE devices[b]]
            /\ result' = "Ok"

BusInit ==
  /\ devices = [b \in {} |-> 0]
  /\ request = <<0, 0>>
  /\ result = "none"

BusNext == \E base \in Nat, len \in Nat : insert(base, len)

BusSpec == BusInit /\ [][BusNext]_bus_vars

-----------------------------------------------------------------------------
(* Properties. *)

\* The type of the state: no device has an empty range.
BusTypeOK ==
  /\ DOMAIN devices \subseteq Nat
  /\ devices \in [DOMAIN devices -> Nat \ {0}]
  /\ request \in Nat \X Nat
  /\ result \in {"none", "Ok", "Overlap"}

\* The doc of Bus: "no two devices can overlap in this address space".
NoOverlap ==
  \A b, c \in DOMAIN devices : b < c => b + devices[b] <= c

\* read and write reach a device exactly at the addresses of its range,
\* although get_device looks at one candidate only.
RoutedToOwner ==
  \A addr \in Nat : \A b \in DOMAIN devices :
    b \in get_device(addr) <=> b <= addr /\ addr < b + devices[b]

\* insert refuses a range only because it is empty or shares an address with
\* the range of a device on the bus: nothing free is ever turned away.
RefusedOnlyOverlap ==
  result = "Overlap" =>
    LET base == request[1]
        len == request[2]
    IN  len = 0 \/ \E b \in DOMAIN devices : b < base + len /\ base < b + devices[b]
=============================================================================
