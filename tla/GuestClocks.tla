----------------------------- MODULE GuestClocks ----------------------------
(***************************************************************************)
(* Everything the guest can tell time by: the ACPI PM timer (src/acpi.rs), *)
(* the Hyper-V reference counter and reference TSC page and the timer      *)
(* interrupt of an interrupt window (src/vm.rs), and the dummy counters    *)
(* behind ports 0x40, 0x43 and 0x61 (src/emulator.rs).                     *)
(*                                                                         *)
(* now is the host's monotonic clock (Instant) in nanoseconds and wall its *)
(* settable clock (SystemTime) in milliseconds.  The frequencies are       *)
(* constants, so that an instance can have a short second; WORD stands for *)
(* 2^64 in the fixed-point arithmetic of the TSC page and PM_WRAP for the  *)
(* 2^32 the PM timer wraps at.  The counters behind the ports are exact:   *)
(* port 0x61 shows bits 6 and 7 only, so its counter is kept modulo 256,   *)
(* and the other one is only tested for multiples of 100.                  *)
(*                                                                         *)
(* An operator named X_<fault> is a deliberately faulty variant of X that  *)
(* no specification uses: some property must tell it apart from X.         *)
(***************************************************************************)
EXTENDS Integers

CONSTANTS SourceSets, \* the clocks that a guest uses, for several guests
          NANOS,    \* nanoseconds in a second
          PM_HZ,    \* frequency of the PM timer
          PM_WRAP,  \* values of the PM timer
          REF_NS,   \* nanoseconds in a tick of the reference time
          TSC_HZ,   \* frequency of the host's time-stamp counter
          HostCpus, \* what CPUID 0x15 (eax, ebx, ecx) and 0x16 (mhz) say of it
          MHZ, FALLBACK_HZ,
          TSC_BOOT, \* values of the time-stamp counter when the VMM starts
          WORD,     \* the TSC page's fixed-point unit
          MaxNow,   \* bound: nanoseconds
          MaxWall,  \* bound: milliseconds of the wall clock
          MaxPit    \* bound: values of the dummy clock

ASSUME ClockAssumption ==
  /\ {NANOS, PM_HZ, PM_WRAP, REF_NS, TSC_HZ, MHZ, FALLBACK_HZ, WORD} \subseteq Nat \ {0}
  /\ HostCpus \subseteq [eax : Nat, ebx : Nat, ecx : Nat, mhz : Nat] /\ HostCpus # {}
  \* a frequency that the processor reports is one
  /\ \A c \in HostCpus : 0 \notin {c.eax, c.ebx, c.ecx} => c.ecx * c.ebx >= c.eax
  /\ NANOS % REF_NS = 0 /\ NANOS \div REF_NS < TSC_HZ
  /\ TSC_BOOT \subseteq Nat /\ {MaxNow, MaxWall} \subseteq Nat \ {0} /\ MaxPit \in Nat

VARIABLES
  \* the host
  now, wall, tsc_boot, cpuid,
  sources, \* the clocks that this guest uses
  \* Partition and its devices
  vm_start_tsc, vm_start, VM_START_TIME, tsc_page, LAST_INTERRUPT_TIME,
  DUMMY_RTC_COUNTER, DUMMY_RTC_TIME, INTERNAL_COUNTER,
  \* what the guest saw: the first and the latest reading of the PM timer and of
  \* the reference counter, the last value of bit 4 and for how many reads (counted
  \* to 129), and the wall times of its last two timer interrupts
  pm_reads, ref_reads, bit4, held, fired

host == <<now, wall, tsc_boot, cpuid, sources>>
start == <<vm_start_tsc, vm_start>>
ports == <<DUMMY_RTC_COUNTER, DUMMY_RTC_TIME, INTERNAL_COUNTER, bit4, held>>
clock_vars == <<host, start, VM_START_TIME, tsc_page, LAST_INTERRUPT_TIME, ports, pm_reads,
                ref_reads, fired>>

Never == -1
Off == [scale |-> 0, offset |-> 0]
rdtsc == tsc_boot + (now * TSC_HZ) \div NANOS

\* A further reading: the first one is kept.
Reading(reads, value) ==
  LET r == [at |-> now, value |-> value]
  IN  IF reads = <<>> THEN <<r, r>> ELSE <<reads[1], r>>

-----------------------------------------------------------------------------
(* The ACPI PM timer, which starts with the DeviceManager at time 0. *)

PmCounter == ((now * PM_HZ) \div NANOS) % PM_WRAP

\* A 32-bit read; reads of other sizes return without an answer.
ReadPmTimer ==
  /\ "pm" \in sources
  /\ pm_reads' = Reading(pm_reads, PmCounter)
  /\ UNCHANGED <<host, start, VM_START_TIME, tsc_page, LAST_INTERRUPT_TIME, ports, ref_reads, fired>>

-----------------------------------------------------------------------------
(* Hyper-V reference time: the MSRs TIME_REF_COUNT and REFERENCE_TSC. *)

\* The first read starts the counter.
ReadTimeRefCount ==
  /\ "ref" \in sources
  /\ VM_START_TIME' = IF VM_START_TIME = Never THEN now ELSE VM_START_TIME
  /\ ref_reads' = Reading(ref_reads, (now - VM_START_TIME') \div REF_NS)
  /\ UNCHANGED <<host, start, tsc_page, LAST_INTERRUPT_TIME, ports, pm_reads, fired>>

\* The ratio to the crystal clock, or else the base frequency, or else a guess.
get_tsc_frequency_hz ==
  CASE cpuid.eax # 0 /\ cpuid.ebx # 0 /\ cpuid.ecx # 0 -> (cpuid.ecx * cpuid.ebx) \div cpuid.eax
    [] cpuid.mhz # 0 /\ 0 \in {cpuid.eax, cpuid.ebx, cpuid.ecx} -> cpuid.mhz * MHZ
    [] OTHER -> FALLBACK_HZ

TscScale == (((NANOS \div REF_NS) * WORD) \div get_tsc_frequency_hz) % WORD

write_tsc_reference_page_Unscaled ==
  [scale |-> TscScale, offset |-> -((vm_start_tsc * (NANOS \div REF_NS)) \div WORD)]

\* The page: its scale and the offset that makes the time 0 at the VM's start.
write_tsc_reference_page ==
  [scale |-> TscScale, offset |-> -((vm_start_tsc * TscScale) \div WORD)]

\* The guest enables the page, or disables it.
WriteReferenceTsc ==
  /\ "tsc" \in sources
  /\ tsc_page' \in {Off, write_tsc_reference_page}
  /\ UNCHANGED <<host, start, VM_START_TIME, LAST_INTERRUPT_TIME, ports, pm_reads, ref_reads, fired>>

\* The time a guest computes from the page.
PageTime == (rdtsc * tsc_page.scale) \div WORD + tsc_page.offset

-----------------------------------------------------------------------------
(* handle_interrupt_window: a timer interrupt at most every millisecond. *)

\* saturating_sub: a wall clock set back is never a millisecond ahead.
Due == LAST_INTERRUPT_TIME = 0 \/ wall - LAST_INTERRUPT_TIME >= 1

handle_interrupt_window ==
  /\ "window" \in sources
  /\ LAST_INTERRUPT_TIME' = IF Due THEN wall ELSE LAST_INTERRUPT_TIME
  /\ fired' = IF Due THEN <<wall, fired[1]>> ELSE fired
  /\ UNCHANGED <<host, start, VM_START_TIME, tsc_page, ports, pm_reads, ref_reads>>

-----------------------------------------------------------------------------
(* Reads of ports 0x40, 0x43 and 0x61. *)

\* The dummy clock moves once in a hundred reads.
ReadPit ==
  /\ "pit" \in sources
  /\ DUMMY_RTC_COUNTER' = (DUMMY_RTC_COUNTER + 1) % 100
  /\ DUMMY_RTC_TIME' = IF DUMMY_RTC_COUNTER' = 0 THEN DUMMY_RTC_TIME + 1 ELSE DUMMY_RTC_TIME
  /\ DUMMY_RTC_TIME' <= MaxPit
  /\ UNCHANGED <<host, start, VM_START_TIME, tsc_page, LAST_INTERRUPT_TIME, INTERNAL_COUNTER, bit4,
                 held, pm_reads, ref_reads, fired>>

\* Bit 4 of port 0x61.
Bit4(counter) == (counter \div 128) % 2

ReadPort61 ==
  /\ "port61" \in sources
  /\ INTERNAL_COUNTER' = (INTERNAL_COUNTER + 1) % 256
  /\ bit4' = Bit4(INTERNAL_COUNTER')
  /\ held' = IF bit4' # bit4 THEN 1 ELSE IF held > 128 THEN held ELSE held + 1
  /\ UNCHANGED <<host, start, VM_START_TIME, tsc_page, LAST_INTERRUPT_TIME, DUMMY_RTC_COUNTER,
                 DUMMY_RTC_TIME, pm_reads, ref_reads, fired>>

-----------------------------------------------------------------------------
(* The host's clocks, and the start of the VM. *)

\* Time passes; the wall clock, where it matters, may move with it.
Tick ==
  /\ now < MaxNow
  /\ now' = now + 1
  /\ wall' \in {wall} \union {wall + 1 : s \in sources \intersect {"window"}} /\ wall' <= MaxWall
  /\ UNCHANGED <<tsc_boot, cpuid, sources, start, VM_START_TIME, tsc_page, LAST_INTERRUPT_TIME, ports, pm_reads,
                 ref_reads, fired>>

\* Someone sets the wall clock back.
SetWallClock ==
  /\ "window" \in sources
  /\ wall' \in 1 .. wall - 1
  /\ UNCHANGED <<now, tsc_boot, cpuid, sources, start, VM_START_TIME, tsc_page, LAST_INTERRUPT_TIME, ports, pm_reads,
                 ref_reads, fired>>

\* Partition::new reads the time-stamp counter after it made the DeviceManager.
ClockInit ==
  /\ sources \in SourceSets
  /\ now \in {0, 1} /\ vm_start = now /\ wall = 1
  /\ tsc_boot \in TSC_BOOT /\ vm_start_tsc = rdtsc
  /\ \/ "tsc" \in sources /\ cpuid \in HostCpus
     \/ "tsc" \notin sources /\ cpuid = CHOOSE c \in HostCpus : TRUE
  /\ VM_START_TIME = Never /\ tsc_page = Off /\ LAST_INTERRUPT_TIME = 0
  /\ DUMMY_RTC_COUNTER = 0 /\ DUMMY_RTC_TIME = 0 /\ INTERNAL_COUNTER = 0
  /\ pm_reads = <<>> /\ ref_reads = <<>> /\ bit4 = 0 /\ held = 0 /\ fired = <<0, 0>>

ClockNext ==
  \/ ReadPmTimer \/ ReadTimeRefCount \/ WriteReferenceTsc \/ handle_interrupt_window
  \/ ReadPit \/ ReadPort61
  \/ Tick \/ SetWallClock

ClockSpec == ClockInit /\ [][ClockNext]_clock_vars

-----------------------------------------------------------------------------
(* Properties. *)

\* The type of the state; the reference page is the one the guest enabled or off.
ClockTypeOK ==
  /\ sources \in SourceSets
  /\ now \in 0 .. MaxNow /\ wall \in 1 .. MaxWall /\ tsc_boot \in TSC_BOOT /\ cpuid \in HostCpus
  /\ vm_start \in 0 .. 1 /\ vm_start_tsc \in Nat
  /\ VM_START_TIME \in 0 .. MaxNow \union {Never}
  /\ tsc_page.scale \in 0 .. WORD - 1 /\ tsc_page.offset \in Int
  /\ LAST_INTERRUPT_TIME \in 0 .. MaxWall
  /\ DUMMY_RTC_COUNTER \in 0 .. 99 /\ DUMMY_RTC_TIME \in 0 .. MaxPit /\ INTERNAL_COUNTER \in 0 .. 255
  /\ bit4 \in 0 .. 1 /\ held \in Nat

\* Two readings are as far apart, to within a tick, as the time between them,
\* at a rate of one tick in period / scale nanoseconds.
KeepsTime(reads, scale, period, difference) ==
  LET elapsed == (reads[2].at - reads[1].at) * scale
  IN  difference * period - elapsed \in -period .. period

\* The PM timer measures time to a tick for as long as it does not wrap twice,
\* however its 32-bit counter wraps and rounds in between.
PmTimerKeepsTime ==
  pm_reads # <<>> /\ (pm_reads[2].at - pm_reads[1].at) * PM_HZ < (PM_WRAP - 1) * NANOS =>
    KeepsTime(pm_reads, PM_HZ, NANOS, (pm_reads[2].value - pm_reads[1].value) % PM_WRAP)

\* The reference counter measures time to a tick from its first reading on.
RefCountKeepsTime ==
  ref_reads # <<>> => KeepsTime(ref_reads, 1, REF_NS, ref_reads[2].value - ref_reads[1].value)

\* vm.rs:434, "calibrate so ReferenceTime ~ 0 at VM start": what a guest computes
\* from an enabled page is, to two ticks, the time since the VM's start, and it
\* is never negative, whatever the counter was at the start.  It holds for as long
\* as the rounded scale is exact enough, some two years with a WORD of 2^64.  The
\* guess that get_tsc_frequency_hz ends with is exempt.
PageTimeIsTimeSinceStart ==
  tsc_page # Off /\ get_tsc_frequency_hz = TSC_HZ =>
    /\ PageTime >= 0
    /\ (rdtsc - vm_start_tsc) * REF_NS <= WORD =>
         PageTime * REF_NS - (now - vm_start) \in -(2 * REF_NS) .. 2 * REF_NS

\* Timer interrupts come at strictly later wall times, even after somebody set
\* the wall clock back: handle_interrupt_window never fires twice in one
\* millisecond.
InterruptsApart ==
  fired # <<0, 0>> => fired[1] > fired[2]

\* emulator.rs:101, bit 4 of port 0x61 toggles every 128 reads: a guest that polls it
\* never sees one value more often than that.
RefreshBitToggles == held <= 128

\* The guest's clocks keep time, whatever wraps, is truncated or is set back, and its
\* timer interrupts and its refresh bit keep coming.
ClocksKeepTime ==
  /\ ClockTypeOK
  /\ PmTimerKeepsTime /\ RefCountKeepsTime /\ PageTimeIsTimeSinceStart
  /\ InterruptsApart /\ RefreshBitToggles
=============================================================================
