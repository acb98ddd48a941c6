---------------------------- MODULE MCGuestClocks ---------------------------
(***************************************************************************)
(* Clocks with a second of 12 ns: the PM timer ticks 5 times and wraps at  *)
(* 8, reference time has 4 and the time-stamp counter 9 ticks in a second, *)
(* none of which divides another evenly, and the host had been up for two  *)
(* different times.  Its processor reports the crystal's frequency, only   *)
(* the base frequency, or nothing.  A guest uses one or two clocks, or     *)
(* executes instructions that exit, on halves of 32 bits that are 0, 5 (an *)
(* enabled page) or 6.                                                     *)
(***************************************************************************)
EXTENDS VmExits

SomeSources == {{"pm", "tsc"}, {"ref", "window"}, {"tsc", "pit"}, {"port61"}, {"msr"}, {"port"}}
SomeCpus ==
  {[eax |-> 2, ebx |-> 3, ecx |-> 6, mhz |-> 1], [eax |-> 2, ebx |-> 3, ecx |-> 0, mhz |-> 3],
   [eax |-> 0, ebx |-> 0, ecx |-> 0, mhz |-> 0]}
SomeMsrs == {"GUEST_OS_ID", "HYPERCALL", "TIME_REF_COUNT", "REFERENCE_TSC", "TSC_INVARIANT_CONTROL", "other"}
SomePages == {<<0, 4>>}
=============================================================================
