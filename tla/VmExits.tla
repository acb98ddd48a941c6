------------------------------- MODULE VmExits ------------------------------
(***************************************************************************)
(* The exits that one instruction of the guest causes, and how run and     *)
(* handle_exit of src/vm.rs answer them: CPUID, RDMSR and WRMSR directly,  *)
(* IN and OUT through the instruction emulator and io_port_callback of     *)
(* src/emulator.rs.  The hypervisor may refuse to set registers at every   *)
(* such call, and the emulator may give up; both end the run loop.         *)
(* Memory accesses are those of GuestMemory, the EOI is in VirtioInterrupt *)
(* and the interrupt window in GuestClocks.                                *)
(*                                                                         *)
(* A 64-bit value is a pair of halves <<high, low>>, also that of RAX or   *)
(* RDX.  What an instruction reads into registers is in got.  In a low     *)
(* half, bit 0 is what REFERENCE_TSC enables the page by, bit 1 stands for *)
(* the bits of an address below a page and the rest for the page number.   *)
(*                                                                         *)
(* An instruction whose exit left RIP alone is executed again.             *)
(*                                                                         *)
(* An operator named X_<fault> is a deliberately faulty variant of X that  *)
(* no specification uses: some property must tell it apart from X.         *)
(***************************************************************************)
EXTENDS GuestClocks, Sequences

CONSTANTS HALF,     \* 2^32
          Halves, Uppers, \* the lower and upper halves that guests put into registers
          PagesInRam, \* page addresses where guest memory is
          Msrs, Leaves, Ports, PortSizes \* what guests access

ASSUME ExitAssumption ==
  /\ HALF \in Nat \ {0} /\ Halves \union Uppers \subseteq 0 .. HALF - 1
  /\ "pci" \notin Msrs

VARIABLES at,       \* "guest"; in the program: "exit", "advance", "emulate"; "stopped"
          instr,    \* the instruction RIP is at, NoInstr when it has not been fetched
          guest_os_id, tsc_reference_gpa, TSC_INVARIANT_CONTROL, pci_address_config,
          page_at,  \* where in guest memory a reference page was written
          effects,  \* how often the instruction took effect
          wrote,    \* register -> what the guest last wrote to it
          got       \* what the instruction just executed read: register and value

registers == <<guest_os_id, tsc_reference_gpa, TSC_INVARIANT_CONTROL, pci_address_config, page_at>>
exit_vars == <<at, instr, registers, effects, wrote, got>>

NoInstr == [op |-> "none"]
NoPage == <<>>
Zero == <<0, 0>>
Nothing == [reg |-> "none", value |-> Zero]

\* The registers that can be written and read back.
ReadBack == {"GUEST_OS_ID", "TSC_INVARIANT_CONTROL", "REFERENCE_TSC", "pci"}

Ones == HALF - 1

Instrs ==
  IF "msr" \in sources
  THEN [op : {"wrmsr"}, msr : Msrs, rax : Uppers \X Halves, rdx : Uppers \X Uppers]
       \union [op : {"rdmsr"}, msr : Msrs] \union [op : {"cpuid"}, leaf : Leaves]
  ELSE [op : {"out"}, port : Ports, size : PortSizes, data : Halves] \union [op : {"in"}, port : Ports, size : PortSizes]
       \union [op : {"hlt", "fault"}]

-----------------------------------------------------------------------------

\* External: the guest runs until an instruction exits.
run_vp ==
  /\ at = "guest"
  /\ IF instr = NoInstr
       THEN \E i \in Instrs : instr' = i /\ effects' = 0
       ELSE UNCHANGED <<instr, effects>>
  /\ at' = "exit" /\ got' = Nothing
  /\ UNCHANGED <<registers, wrote>>

\* The instruction is done and RIP behind it.
Retire == at' = "guest" /\ instr' = NoInstr

\* handle_exit returned an error or false, or the emulator did not emulate.
Break == at' = "stopped" /\ UNCHANGED <<instr, effects, got>>

\* EAX of the hypervisor's leaves: the last leaf, and the MSRs a guest may use (bits
\* 1, 9 and 15, numbered 0 to 2 here).  Other leaves keep what the processor says.
CpuidResult(leaf) ==
  CASE leaf = "0x40000000" -> 5
    [] leaf = "0x40000003" -> 1 + 2 + 4
    [] OTHER -> 0

\* The results and RIP are set in one call.
handle_cpuid ==
  /\ at = "exit" /\ instr.op = "cpuid"
  /\ \/ Break
     \/ /\ got' = [reg |-> "none", value |-> <<0, CpuidResult(instr.leaf)>>]
        /\ effects' = effects + 1 /\ Retire
  /\ UNCHANGED <<registers, wrote>>

\* (Rdx << 32) | (Rax & 0xFFFFFFFF): the upper halves of the registers do not matter.
MsrValue(a, d) == <<d[2], a[2]>>

PageOf(value) == <<value[1], value[2] - (value[2] % 4)>>

\* Enabling writes the page first; where there is no memory, that fails.
WriteReferenceTscMsr(value) ==
  \/ /\ value[2] % 2 = 1 /\ PageOf(value) \notin PagesInRam
     /\ Break /\ UNCHANGED <<tsc_reference_gpa, page_at>>
  \/ /\ value[2] % 2 = 1 /\ PageOf(value) \in PagesInRam
     /\ page_at' = page_at \union {PageOf(value)} /\ tsc_reference_gpa' = PageOf(value)
     /\ at' = "advance" /\ effects' = effects + 1 /\ UNCHANGED <<instr, got>>
  \/ /\ value[2] % 2 = 0
     /\ tsc_reference_gpa' = NoPage /\ UNCHANGED page_at
     /\ at' = "advance" /\ effects' = effects + 1 /\ UNCHANGED <<instr, got>>

\* WRMSR.  HYPERCALL and unknown registers ignore what is written.
WriteMsr ==
  /\ at = "exit" /\ instr.op = "wrmsr"
  /\ LET value == MsrValue(instr.rax, instr.rdx)
     IN  /\ guest_os_id' = IF instr.msr = "GUEST_OS_ID" THEN value ELSE guest_os_id
         /\ TSC_INVARIANT_CONTROL' =
              IF instr.msr = "TSC_INVARIANT_CONTROL" THEN value ELSE TSC_INVARIANT_CONTROL
         /\ IF instr.msr = "REFERENCE_TSC" THEN WriteReferenceTscMsr(value)
            ELSE /\ at' = "advance" /\ effects' = effects + 1
                 /\ UNCHANGED <<tsc_reference_gpa, page_at, instr, got>>
  /\ wrote' = [r \in DOMAIN wrote |-> IF r = instr.msr THEN <<instr.rdx[2], instr.rax[2]>> ELSE wrote[r]]
  /\ UNCHANGED pci_address_config

\* What RDMSR returns; ticks of the reference counter are split into halves.
MsrContents(msr) ==
  CASE msr = "GUEST_OS_ID" -> guest_os_id
    [] msr = "HYPERCALL" -> <<0, 1>>
    [] msr = "TIME_REF_COUNT" -> LET ticks == now \div REF_NS IN <<ticks \div HALF, ticks % HALF>>
    [] msr = "REFERENCE_TSC" ->
         IF tsc_reference_gpa = NoPage THEN Zero ELSE <<tsc_reference_gpa[1], tsc_reference_gpa[2] + 1>>
    [] msr = "TSC_INVARIANT_CONTROL" -> TSC_INVARIANT_CONTROL
    [] OTHER -> Zero

\* RDMSR: RAX and RDX are set in one call, RIP in the next.
ReadMsr ==
  /\ at = "exit" /\ instr.op = "rdmsr"
  /\ \/ Break
     \/ LET value == MsrContents(instr.msr)
        IN  /\ got' = [reg |-> instr.msr, value |-> value]
            /\ effects' = effects + 1 /\ at' = "advance"
            /\ UNCHANGED instr
  /\ UNCHANGED <<registers, wrote>>

advance_rip_Ignored ==
  /\ at = "advance" /\ at' = "guest" /\ instr' \in {instr, NoInstr}
  /\ UNCHANGED <<registers, effects, wrote, got>>

\* RIP moves on, or handle_msr_access fails.
advance_rip ==
  /\ at = "advance"
  /\ Break \/ (Retire /\ UNCHANGED <<effects, got>>)
  /\ UNCHANGED <<registers, wrote>>

-----------------------------------------------------------------------------
(* IN and OUT. *)

\* The emulator may fail before it calls back.
handle_io_port ==
  /\ at = "exit" /\ instr.op \in {"in", "out"}
  /\ Break /\ UNCHANGED <<registers, wrote>>

\* OUT: the PCI address register, or a device of the I/O bus.  The only one there
\* is the PM timer, which ignores writes.
PortOut ==
  /\ at = "exit" /\ instr.op = "out"
  /\ pci_address_config' = IF instr.port = "0xCF8" THEN instr.data ELSE pci_address_config
  /\ wrote' = IF instr.port = "0xCF8" THEN [wrote EXCEPT !["pci"] = <<0, instr.data>>] ELSE wrote
  /\ effects' = effects + 1 /\ at' = "emulate"
  /\ UNCHANGED <<instr, guest_os_id, tsc_reference_gpa, TSC_INVARIANT_CONTROL, page_at, got>>

\* The answer to IN; a port nobody owns and a PM timer read of another size than
\* 32 bits read as 0.
PortData(port, size) ==
  CASE port = "43" -> 99 % HALF
    [] port = "0xCF8" -> pci_address_config
    [] port = "0xCFC" -> Ones
    [] port = "0x608" -> IF size = 4 THEN PmCounter % HALF ELSE 0
    [] OTHER -> 0

PortIn ==
  /\ at = "exit" /\ instr.op = "in"
  /\ got' = [reg |-> IF instr.port = "0xCF8" THEN "pci" ELSE "none",
             value |-> <<0, PortData(instr.port, instr.size)>>]
  /\ effects' = effects + 1 /\ at' = "emulate"
  /\ UNCHANGED <<instr, registers, wrote>>

\* External: the emulator finishes the instruction through the register callbacks,
\* whose failure makes it report no success.
FinishEmulation ==
  /\ at = "emulate"
  /\ \/ Break
     \/ Retire /\ UNCHANGED <<effects, got>>
  /\ UNCHANGED <<registers, wrote>>

\* HLT: the hypervisor is asked to go on.
HandleHalt ==
  /\ at = "exit" /\ instr.op = "hlt"
  /\ effects' = effects + 1 /\ Retire
  /\ UNCHANGED <<registers, wrote, got>>

\* Exceptions, cancellation and every other reason stop the VM.
HandleOther ==
  /\ at = "exit" /\ instr.op = "fault"
  /\ Break /\ UNCHANGED <<registers, wrote>>

handle_exit ==
  \/ handle_cpuid \/ WriteMsr \/ ReadMsr \/ handle_io_port \/ PortOut \/ PortIn
  \/ HandleHalt \/ HandleOther

-----------------------------------------------------------------------------

ExitInit ==
  /\ ClockInit
  /\ at = "guest" /\ instr = NoInstr
  /\ guest_os_id = Zero /\ tsc_reference_gpa = NoPage /\ TSC_INVARIANT_CONTROL = Zero
  /\ pci_address_config = 0 /\ page_at = {} /\ effects = 1
  /\ wrote = [r \in ReadBack |-> Zero] /\ got = Nothing

\* A guest of GuestClocks uses its clocks, another one executes instructions that exit.
Executes == sources \in {{"msr"}, {"port"}}

ExitNext ==
  \/ ~Executes /\ ClockNext /\ UNCHANGED exit_vars
  \/ /\ Executes /\ (run_vp \/ handle_exit \/ advance_rip \/ FinishEmulation)
     /\ UNCHANGED clock_vars

ExitSpec == ExitInit /\ [][ExitNext]_<<clock_vars, exit_vars>>

-----------------------------------------------------------------------------
(* Properties. *)

\* An instruction that exits takes effect exactly once before the guest goes on
\* behind it, whichever register call fails: RIP never stays where it is after a
\* handled exit, and is not moved past an instruction that did nothing.
InstructionOnce ==
  /\ effects <= 1
  /\ instr = NoInstr => effects = 1

\* A register of the program reads back as the guest last wrote it: the halves of
\* a 64-bit MSR are put together and taken apart the same way whatever the upper
\* halves of RAX and RDX hold, and REFERENCE_TSC shows an enabled page.
RegistersReadBack ==
  LET last == wrote[got.reg]
  IN  got.reg \in ReadBack =>
        got.value = IF got.reg # "REFERENCE_TSC" THEN last
                    ELSE IF last[2] % 2 = 1 THEN <<PageOf(last)[1], PageOf(last)[2] + 1>> ELSE Zero

\* While the MSR says that the reference page is enabled, the page was written
\* where it says: an address outside memory enables nothing.
EnabledPageIsWritten == tsc_reference_gpa # NoPage => tsc_reference_gpa \in page_at

\* An exit completes: its instruction once, its registers as written, its page where
\* the MSR says (handle_io_port, handle_cpuid, handle_msr_access).
ExitsComplete == InstructionOnce /\ RegistersReadBack /\ EnabledPageIsWritten
=============================================================================
