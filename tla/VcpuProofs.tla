----------------------------- MODULE VcpuProofs -----------------------------
(***************************************************************************)
(* Proofs about what the exits of a vCPU reach: the registers of the       *)
(* virtio-mmio transport (MmioTransport), for every number of queues and   *)
(* every set of offered features, and the instructions that handle_exit    *)
(* completes (VmExits), for all registers, ports and values.               *)
(*                                                                         *)
(* The invariants of the transport are not inductive by themselves.  IInv  *)
(* adds how an active device, its status word, the queues and the stop     *)
(* event belong together: a worker exists only under DRIVER_OK, so no      *)
(* status bit can appear in a device whose status is zero; the queues of   *)
(* an inactive device are at home unless it is FAILED for good; and a stop *)
(* event that no failed wait left behind has a worker that will consume it *)
(* and a reset waiting.                                                    *)
(*                                                                         *)
(* ExitInv says how often an instruction has taken effect at each place of *)
(* its exit, and that the registers of the program agree with the guest's  *)
(* writes unless a failed write has stopped the VM.                        *)
(***************************************************************************)
EXTENDS MmioTransport, VmExits, TLAPS

-----------------------------------------------------------------------------
(* The transport. *)

Alive == {"wait", "busy"}

IInv ==
  /\ TypeOK /\ QueuesHaveOneOwner
  /\ activated => "DRIVER_OK" \in device_status
  /\ "DRIVER_OK" \in device_status /\ "FAILED" \notin device_status => activated
  /\ ~activated => queues # NoQueues \/ "FAILED" \in device_status
  /\ device_status = {} => ~status
  /\ vpc = "join" => activated
  /\ worker = "failed" => wait_failed
  /\ worker = "stopped" => vpc = "join" \/ wait_failed
  /\ stop_evt => (vpc = "join" /\ worker \in Alive) \/ wait_failed

\* Fresh queues are there, and NoQueues is none of them.
LEMMA FreshQueues ==
  /\ create_queues \in QueueConfigs /\ create_queues # NoQueues /\ NoQueues \in QueueConfigs
<1>1. 0 \in QueueIds
  BY MmioAssumption DEF QueueIds
<1>2. DOMAIN create_queues = QueueIds /\ DOMAIN NoQueues = {}
  BY DEF create_queues, NoQueues
<1>3. create_queues \in QueueConfigs
  BY MmioAssumption DEF create_queues, QueueConfigs
<1> QED
  BY <1>1, <1>2, <1>3 DEF QueueConfigs

\* A selector may be zero.
LEMMA ZeroSelects == 0 \in Pages /\ 0 \in 0 .. NumQueues
BY MmioAssumption DEF Pages

\* A new transport.
LEMMA InitLemma == Init => IInv
<1> SUFFICES ASSUME Init PROVE IInv
  OBVIOUS
<1>1. queue_evt \in [QueueIds -> BOOLEAN]
  BY DEF Init
<1>2. {activated, event_idx_enabled, stop_evt, status, line, wait_failed} \subseteq BOOLEAN
  BY SMTT(40), ZenonT(40) DEF Init
<1>3. TypeOK
  BY <1>1, <1>2, FreshQueues, ZeroSelects DEF Init, TypeOK
<1>4. QueuesHaveOneOwner
  BY DEF Init, QueuesHaveOneOwner
<1> QED
  BY <1>3, <1>4, FreshQueues DEF Init, IInv

\* The handlers that touch neither status nor worker.
LEMMA QuietHandlers ==
  ASSUME IInv,
         \/ WriteSelect \/ InterruptAck
         \/ \E bits \in AckWords : ack_features_by_page(bits)
         \/ \E q \in QueueIds : QueueNotify(q),
         UNCHANGED wait_failed
  PROVE  IInv'
<1> USE DEF IInv, TypeOK, QueuesHaveOneOwner, transport, features, thread, events, interrupt
<1>1. CASE WriteSelect
  BY <1>1 DEF WriteSelect
<1>2. CASE InterruptAck
  BY ZenonT(40), SMTT(40), <1>2 DEF InterruptAck
<1>3. ASSUME NEW bits \in AckWords, ack_features_by_page(bits) PROVE IInv'
  BY <1>3 DEF ack_features_by_page, Acknowledged
<1>4. ASSUME NEW q \in QueueIds, QueueNotify(q) PROVE IInv'
  BY <1>4 DEF QueueNotify
<1> QED
  BY ZenonT(40), SMTT(40), <1>1, <1>2, <1>3, <1>4

\* Queue registers reach queues that the transport still has.
LEMMA QueueRegisters ==
  ASSUME IInv, update_queue_field, UNCHANGED wait_failed
  PROVE  IInv'
<1> USE DEF IInv, TypeOK, QueuesHaveOneOwner, transport, features, thread, events, interrupt
<1>1. DOMAIN queues # {} /\ queues # NoQueues
  BY DEF update_queue_field, NoQueues
<1>2. queues \in [QueueIds -> [size : Sizes, ready : BOOLEAN]] /\ queue_select \in QueueIds
  BY <1>1 DEF QueueConfigs, update_queue_field
<1>3. queues' \in [QueueIds -> [size : Sizes, ready : BOOLEAN]]
  BY <1>2 DEF update_queue_field
<1>4. queues' # NoQueues
  BY <1>2, <1>3 DEF NoQueues
<1>5. ~activated
  BY <1>1
<1> QED
  BY <1>3, <1>4, <1>5 DEF update_queue_field, QueueConfigs

\* The steps of the negotiation before DRIVER_OK, and FAILED.
LEMMA StatusBits ==
  ASSUME IInv, NEW new \in SUBSET Bits, Negotiate(new) \/ SetFailed(new), UNCHANGED wait_failed
  PROVE  IInv'
<1> USE DEF IInv, TypeOK, QueuesHaveOneOwner, transport, features, thread, events, interrupt
<1>1. CASE Negotiate(new)
  <2>1. "DRIVER_OK" \notin device_status /\ "FAILED" \notin device_status
    BY <1>1 DEF Negotiate, NegotiationStep
  <2>2. "DRIVER_OK" \notin new /\ "FAILED" \notin new /\ new # {} /\ device_status' = new
    BY <1>1, <2>1 DEF Negotiate, NegotiationStep
  <2> QED
    BY <1>1, <2>1, <2>2 DEF Negotiate
<1>2. CASE SetFailed(new)
  <2>1. device_status' = device_status \union {"FAILED"} /\ "FAILED" \in Bits
    BY <1>2 DEF SetFailed, Bits
  <2> QED
    BY <1>2, <2>1 DEF SetFailed
<1> QED
  BY <1>1, <1>2

\* DRIVER_OK: the queues are at home, so the device starts and takes them.
LEMMA Activation ==
  ASSUME IInv, NEW new \in SUBSET Bits, DriverOk(new), UNCHANGED wait_failed
  PROVE  IInv'
<1> USE DEF IInv, TypeOK, QueuesHaveOneOwner, transport, features, thread, events, interrupt
<1>1. /\ "DRIVER_OK" \notin device_status /\ "FAILED" \notin device_status
      /\ "DRIVER_OK" \in new /\ device_status' = new
  BY DEF DriverOk, NegotiationStep
<1>2. ~activated /\ queues # NoQueues /\ vpc = "run" /\ vpc' = "run"
  BY <1>1 DEF DriverOk, NegotiationStep
<1>3. /\ devQueues' = queues /\ queues' = NoQueues /\ worker' = "wait" /\ activated'
      /\ activated' \in BOOLEAN /\ event_idx_enabled' \in BOOLEAN
  BY SMTT(40), ZenonT(40), <1>2 DEF DriverOk, activate
<1> QED
  BY <1>1, <1>2, <1>3, FreshQueues DEF DriverOk

\* Both resets of the transport.
LEMMA Resets ==
  ASSUME IInv, WriteZero \/ StopWorker, UNCHANGED wait_failed
  PROVE  IInv'
<1> USE DEF IInv, TypeOK, QueuesHaveOneOwner, transport, features, thread, events, interrupt
<1>1. CASE WriteZero /\ "FAILED" \in device_status
  BY <1>1 DEF WriteZero, ResetUnlessFailed
<1>2. CASE WriteZero /\ "FAILED" \notin device_status
  BY ZenonT(40), SMTT(40), <1>2, FreshQueues, ZeroSelects DEF WriteZero, ResetUnlessFailed, reset
<1>3. CASE StopWorker
  BY <1>3 DEF StopWorker, Alive
<1> QED
  BY SMTT(40), ZenonT(40), <1>1, <1>2, <1>3

\* The worker has ended and the reset goes on.
LEMMA Joined ==
  ASSUME IInv, JoinWorker
  PROVE  IInv'
<1> USE DEF IInv, TypeOK, QueuesHaveOneOwner, transport, features, thread, events, interrupt
<1>1. stop_evt => wait_failed
  BY DEF JoinWorker, Alive
<1>2. CASE "FAILED" \in device_status
  BY ZenonT(40), SMTT(40), <1>1, <1>2, FreshQueues DEF JoinWorker, ResetUnlessFailed
<1>3. CASE "FAILED" \notin device_status
  BY SMTT(40), ZenonT(40), <1>1, <1>3, FreshQueues, ZeroSelects DEF JoinWorker, ResetUnlessFailed, reset
<1> QED
  BY SMTT(40), ZenonT(40), <1>2, <1>3

\* The worker's steps.
LEMMA WorkerSteps ==
  ASSUME IInv, Worker \/ WaitFailed
  PROVE  IInv'
<1> USE DEF IInv, TypeOK, QueuesHaveOneOwner, transport, features, thread, events, interrupt, Alive
<1>1. ASSUME NEW q \in QueueIds, WakeForQueue(q), UNCHANGED wait_failed PROVE IInv'
  BY <1>1 DEF WakeForQueue
<1>2. CASE WakeForStop /\ UNCHANGED wait_failed
  BY ZenonT(40), SMTT(40), <1>2 DEF WakeForStop
<1>3. CASE Drain /\ UNCHANGED wait_failed
  <2>1. activated /\ device_status # {}
    BY <1>3 DEF Drain
  <2> QED
    BY ZenonT(40), SMTT(40), <1>3, <2>1 DEF Drain
<1>4. CASE WaitFailed
  BY <1>4 DEF WaitFailed
<1> QED
  BY ZenonT(40), SMTT(40), <1>1, <1>2, <1>3, <1>4 DEF Worker

\* Every step of driver, worker and reset keeps the invariant.
LEMMA NextLemma == IInv /\ [Next]_vars => IInv'
<1> SUFFICES ASSUME IInv, [Next]_vars PROVE IInv'
  OBVIOUS
<1>1. CASE UNCHANGED vars
  BY <1>1 DEF IInv, TypeOK, QueuesHaveOneOwner, vars, transport, features, thread, events, interrupt
<1>2. CASE Driver
  BY <1>2, QuietHandlers, QueueRegisters, StatusBits, Activation, Resets DEF Driver, WriteStatus
<1> QED
  BY <1>1, <1>2, Joined, WorkerSteps DEF Next

\* The transport's invariant, through any number of negotiations, activations,
\* resets and failed waits.
THEOREM Invariance == Spec => []IInv
BY InitLemma, NextLemma, PTL DEF Spec

\* Registers and thread positions keep their types; only offered features are
\* ever recorded as acknowledged.
THEOREM TypeOKAlways == Spec => []TypeOK
<1>1. IInv => TypeOK
  BY DEF IInv
<1> QED
  BY <1>1, Invariance, PTL

\* Transport and worker never hold the queues at the same time.
THEOREM QueuesHaveOneOwnerAlways == Spec => []QueuesHaveOneOwner
<1>1. IInv => QueuesHaveOneOwner
  BY DEF IInv
<1> QED
  BY <1>1, Invariance, PTL

\* DRIVER_OK always finds queues to activate the device with.
THEOREM DriverOkIsActiveAlways == Spec => []DriverOkIsActive
<1>1. IInv => DriverOkIsActive
  BY DEF IInv, DriverOkIsActive
<1> QED
  BY <1>1, Invariance, PTL

\* A status that was reset stays clear until the next cycle's worker runs.
THEOREM NoStatusFromOldCycleAlways == Spec => []NoStatusFromOldCycle
<1>1. IInv => NoStatusFromOldCycle
  BY DEF IInv, NoStatusFromOldCycle
<1> QED
  BY <1>1, Invariance, PTL

\* A worker leaves its loop for the reset that waits for it, or after a failed
\* wait.
THEOREM WorkerStopsOnlyForResetAlways == Spec => []WorkerStopsOnlyForReset
<1>1. IInv => WorkerStopsOnlyForReset
  BY DEF IInv, WorkerStopsOnlyForReset
<1> QED
  BY <1>1, Invariance, PTL

\* A queue is ready only in a negotiation that has come to FEATURES_OK.
Clean == "FEATURES_OK" \notin device_status => \A q \in DOMAIN queues : ~queues[q].ready

\* Only the registers guarded by FEATURES_OK make a queue ready; the status
\* loses that bit only when the queues go to the device or are made anew.
LEMMA CleanLemma ==
  ASSUME IInv, Clean, [Next]_vars
  PROVE  Clean'
<1> USE DEF Clean, transport
<1>0. \A q \in DOMAIN create_queues : ~create_queues[q].ready
  BY DEF create_queues
<1>1. CASE UNCHANGED <<device_status, queues>>
  BY <1>1
<1>2. CASE \E new \in SUBSET Bits : WriteStatus(new)
  <2> PICK new \in SUBSET Bits : WriteStatus(new)
    BY <1>2
  <2>1. CASE Negotiate(new)
    BY <2>1 DEF Negotiate, NegotiationStep
  <2>2. CASE DriverOk(new)
    <3>1. ~activated /\ queues # NoQueues
      BY <2>2 DEF IInv, DriverOk, NegotiationStep
    <3>2. queues' = NoQueues
      BY <2>2, <3>1 DEF DriverOk, activate
    <3> QED
      BY <3>2 DEF NoQueues
  <2>3. CASE SetFailed(new)
    BY <2>3 DEF SetFailed
  <2> QED
    BY <2>1, <2>2, <2>3 DEF WriteStatus
<1>3. CASE update_queue_field
  BY <1>3 DEF update_queue_field, check_device_status
<1>4. CASE WriteZero \/ JoinWorker
  <2>1. ResetUnlessFailed
    BY <1>4 DEF WriteZero, JoinWorker
  <2> QED
    BY <1>0, <2>1 DEF ResetUnlessFailed, reset
<1>5. ASSUME NEW bits \in AckWords, ack_features_by_page(bits) PROVE Clean'
  BY <1>5 DEF ack_features_by_page
<1>6. ASSUME NEW q \in QueueIds, QueueNotify(q) \/ WakeForQueue(q) PROVE Clean'
  BY SMTT(40), ZenonT(40), <1>6 DEF QueueNotify, WakeForQueue
<1>7. CASE WriteSelect \/ InterruptAck \/ StopWorker \/ WakeForStop \/ Drain \/ WaitFailed
  BY SMTT(40), ZenonT(40), <1>7
    DEF WriteSelect, InterruptAck, StopWorker, WakeForStop, Drain, WaitFailed
<1> QED
  BY <1>1, <1>2, <1>3, <1>4, <1>5, <1>6, <1>7 DEF Next, Driver, Worker, vars

\* A driver in the middle of its set-up reads a queue for every selector, and a
\* driver after a reset finds none of them ready.
THEOREM SetupFindsQueuesAlways == Spec => []SetupFindsQueues
<1>1. Init => Clean
  BY DEF Init, Clean, create_queues
<1>2. IInv /\ Clean => SetupFindsQueues
  <2> SUFFICES ASSUME IInv, Clean PROVE SetupFindsQueues
    OBVIOUS
  <2>1. ASSUME "FEATURES_OK" \in device_status, queue_select \in QueueIds,
               device_status \cap {"DRIVER_OK", "FAILED"} = {}
        PROVE  QueueNumMax # 0
    <3>1. ~activated /\ queues # NoQueues
      BY <2>1 DEF IInv
    <3>2. DOMAIN queues = QueueIds
      BY <3>1 DEF IInv, TypeOK, QueueConfigs
    <3> QED
      BY <2>1, <3>2 DEF QueueNumMax
  <2>2. ASSUME device_status = {} PROVE ~QueueReady
    BY <2>2 DEF Clean, QueueReady
  <2> QED
    BY <2>1, <2>2 DEF SetupFindsQueues
<1> QED
  BY <1>1, <1>2, Invariance, CleanLemma, PTL DEF Spec

\* Through activation, reset and failure the queues are where the status register says.
THEOREM QueuesFollowStatusAlways == Spec => []QueuesFollowStatus
<1>1. QueuesHaveOneOwner /\ DriverOkIsActive /\ SetupFindsQueues => QueuesFollowStatus
  BY DEF QueuesFollowStatus
<1> QED
  BY <1>1, QueuesHaveOneOwnerAlways, DriverOkIsActiveAlways, SetupFindsQueuesAlways, PTL

\* Neither the interrupt status nor the stop event of one cycle acts in the next.
THEOREM CyclesApartAlways == Spec => []CyclesApart
<1>1. NoStatusFromOldCycle /\ WorkerStopsOnlyForReset => CyclesApart
  BY DEF CyclesApart
<1> QED
  BY <1>1, NoStatusFromOldCycleAlways, WorkerStopsOnlyForResetAlways, PTL

-----------------------------------------------------------------------------
(* The exits of the guest. *)

Ops == {"wrmsr", "rdmsr", "cpuid", "out", "in", "hlt", "fault"}

\* Where the instruction is, and how often it has taken effect by then.
Progress ==
  /\ at \in {"guest", "exit", "advance", "emulate", "stopped"} /\ effects \in {0, 1}
  /\ at = "guest" => instr = NoInstr /\ effects = 1
  /\ at # "guest" => instr.op \in Ops
  /\ at = "exit" => effects = 0 /\ got = Nothing
  /\ at = "exit" /\ instr.op \in {"wrmsr", "rdmsr"} => instr.msr \in Msrs
  /\ at \in {"advance", "emulate"} => effects = 1

\* The registers of the program hold what the guest wrote; a write that stopped the VM
\* left its register alone.
RegistersAgree ==
  /\ wrote["GUEST_OS_ID"] = guest_os_id
  /\ wrote["TSC_INVARIANT_CONTROL"] = TSC_INVARIANT_CONTROL
  /\ wrote["pci"] = <<0, pci_address_config>>
  /\ tsc_reference_gpa = IF wrote["REFERENCE_TSC"][2] % 2 = 1 THEN PageOf(wrote["REFERENCE_TSC"])
                         ELSE NoPage

ExitInv ==
  /\ Progress
  /\ DOMAIN wrote = ReadBack
  /\ at # "stopped" => RegistersAgree
  /\ RegistersReadBack /\ EnabledPageIsWritten

\* An instruction that exits has one of the operations that handle_exit tells apart.
LEMMA InstrOps ==
  ASSUME NEW i \in Instrs
  PROVE  i.op \in Ops /\ (i.op \in {"wrmsr", "rdmsr"} => i.msr \in Msrs)
BY DEF Instrs, Ops

\* The guest runs and exits.
LEMMA RunStep ==
  ASSUME ExitInv, run_vp
  PROVE  ExitInv'
<1>1. instr' \in Instrs /\ effects' = 0 /\ at' = "exit" /\ got' = Nothing
  BY DEF ExitInv, Progress, run_vp
<1>2. Progress'
  BY <1>1, InstrOps DEF Progress
<1>3. RegistersReadBack'
  BY <1>1 DEF RegistersReadBack, Nothing, ReadBack
<1> QED  BY <1>1, <1>2, <1>3
  DEF ExitInv, Progress, run_vp, registers, RegistersAgree, EnabledPageIsWritten

\* The run loop ends: whatever was done is kept.
LEMMA BreakStep ==
  ASSUME ExitInv, at # "guest", Break, UNCHANGED <<registers, wrote>>
  PROVE  ExitInv'
BY SMTT(40), ZenonT(40) DEF ExitInv, Progress, Break, registers, RegistersReadBack, EnabledPageIsWritten

\* An instruction that is done retires.
LEMMA RetireStep ==
  ASSUME ExitInv, at \in {"advance", "emulate"}, Retire, UNCHANGED <<effects, got, registers, wrote>>
  PROVE  ExitInv'
BY SMTT(40), ZenonT(40)
  DEF ExitInv, Progress, Retire, registers, RegistersAgree, RegistersReadBack, EnabledPageIsWritten

\* CPUID and HLT are done in one step.
LEMMA CpuidStep ==
  ASSUME ExitInv, handle_cpuid \/ HandleHalt
  PROVE  ExitInv'
<1>1. CASE Break /\ handle_cpuid
  BY <1>1, BreakStep DEF handle_cpuid
<1>2. CASE /\ effects' = effects + 1 /\ Retire /\ got'.reg = "none" /\ at = "exit"
           /\ UNCHANGED <<registers, wrote>>
  <2>1. Progress'
    BY <1>2 DEF ExitInv, Progress, Retire
  <2>2. RegistersReadBack'
    BY <1>2 DEF RegistersReadBack, ReadBack
  <2> QED  BY <1>2, <2>1, <2>2 DEF ExitInv, registers, RegistersAgree, EnabledPageIsWritten
<1> QED  BY <1>1, <1>2 DEF handle_cpuid, HandleHalt, ExitInv, Progress, Nothing

\* WRMSR puts the halves together, and the register holds them or the VM stops.
LEMMA WriteMsrStep ==
  ASSUME ExitInv, WriteMsr
  PROVE  ExitInv'
<1> DEFINE value == MsrValue(instr.rax, instr.rdx)
<1>1. /\ at = "exit" /\ instr.op = "wrmsr" /\ instr.msr \in Msrs /\ instr.msr # "pci"
      /\ effects = 0 /\ got = Nothing
  BY SMTT(40), ZenonT(40), ExitAssumption DEF ExitInv, Progress, WriteMsr
<1>2. got' = got /\ instr' = instr /\ at' \in {"advance", "stopped"}
  BY SMTT(40), ZenonT(40) DEF WriteMsr, WriteReferenceTscMsr, Break
<1>3. at' = "advance" => effects' = 1
  BY SMTT(40), ZenonT(40), <1>1 DEF WriteMsr, WriteReferenceTscMsr, Break
<1>4. at' = "stopped" => effects' = 0
  BY SMTT(40), ZenonT(40), <1>1 DEF WriteMsr, WriteReferenceTscMsr, Break
<1>5. Progress'
  BY <1>1, <1>2, <1>3, <1>4 DEF Progress, Ops
<1>6. /\ DOMAIN wrote' = ReadBack
      /\ \A r \in ReadBack : wrote'[r] = IF r = instr.msr THEN value ELSE wrote[r]
  BY DEF ExitInv, WriteMsr, MsrValue
<1>7. RegistersReadBack'
  BY <1>1, <1>2 DEF RegistersReadBack, ReadBack, Nothing
<1>8. EnabledPageIsWritten'
  <2>1. \/ UNCHANGED <<tsc_reference_gpa, page_at>>
        \/ tsc_reference_gpa' = NoPage
        \/ tsc_reference_gpa' = PageOf(value) /\ page_at' = page_at \union {PageOf(value)}
    BY SMTT(40), ZenonT(40) DEF WriteMsr, WriteReferenceTscMsr
  <2> QED  BY SMTT(40), ZenonT(40), <2>1 DEF ExitInv, EnabledPageIsWritten
<1>9. ASSUME at' = "advance" PROVE RegistersAgree'
  <2> HIDE DEF value
  <2>1. RegistersAgree
    BY <1>1 DEF ExitInv
  <2>2. wrote'["GUEST_OS_ID"] = guest_os_id' /\ wrote'["TSC_INVARIANT_CONTROL"] = TSC_INVARIANT_CONTROL'
    BY ZenonT(40), SMTT(40), <1>6, <2>1 DEF WriteMsr, RegistersAgree, ReadBack, value
  <2>3. wrote'["pci"] = <<0, pci_address_config'>>
    BY ZenonT(40), SMTT(40), <1>1, <1>6, <2>1 DEF WriteMsr, RegistersAgree, ReadBack
  <2>4. CASE instr.msr = "REFERENCE_TSC"
    <3>1. wrote'["REFERENCE_TSC"] = value
      BY <1>6, <2>4 DEF ReadBack
    <3>2. WriteReferenceTscMsr(value)
      BY SMTT(40), ZenonT(40), <2>4 DEF WriteMsr, value
    <3>3. tsc_reference_gpa' = IF value[2] % 2 = 1 THEN PageOf(value) ELSE NoPage
      BY <1>9, <3>2 DEF WriteReferenceTscMsr, Break
    <3> QED  BY <2>2, <2>3, <3>1, <3>3 DEF RegistersAgree, PageOf
  <2>5. CASE instr.msr # "REFERENCE_TSC"
    <3>1. wrote'["REFERENCE_TSC"] = wrote["REFERENCE_TSC"] /\ tsc_reference_gpa' = tsc_reference_gpa
      BY <1>6, <2>5 DEF ReadBack, WriteMsr
    <3> QED  BY SMTT(40), ZenonT(40), <2>1, <2>2, <2>3, <3>1 DEF RegistersAgree, PageOf
  <2> QED  BY <2>4, <2>5
<1> QED  BY <1>2, <1>5, <1>6, <1>7, <1>8, <1>9 DEF ExitInv

\* RDMSR reads what the register holds.
LEMMA ReadMsrStep ==
  ASSUME ExitInv, ReadMsr
  PROVE  ExitInv'
<1>1. CASE Break
  BY <1>1, BreakStep DEF ReadMsr
<1>2. CASE ~Break
  <2>1. /\ at = "exit" /\ instr.op = "rdmsr" /\ instr.msr \in Msrs /\ instr.msr # "pci" /\ effects = 0
        /\ RegistersAgree
    BY ExitAssumption DEF ExitInv, Progress, ReadMsr
  <2>2. /\ got' = [reg |-> instr.msr, value |-> MsrContents(instr.msr)]
        /\ effects' = 1 /\ at' = "advance" /\ instr' = instr /\ UNCHANGED <<registers, wrote>>
    BY <1>2, <2>1 DEF ReadMsr
  <2>3. Progress'
    BY <2>1, <2>2 DEF Progress, Ops
  <2>4. ASSUME NEW r, r = instr.msr, r \in ReadBack, r # "REFERENCE_TSC"
        PROVE  MsrContents(r) = wrote[r]
    BY <2>1, <2>4 DEF MsrContents, ReadBack, RegistersAgree
  <2>5. MsrContents("REFERENCE_TSC") =
          IF wrote["REFERENCE_TSC"][2] % 2 = 1
          THEN <<PageOf(wrote["REFERENCE_TSC"])[1], PageOf(wrote["REFERENCE_TSC"])[2] + 1>> ELSE Zero
    BY SMTT(40), ZenonT(40), <2>1 DEF MsrContents, RegistersAgree, PageOf, NoPage
  <2>6. RegistersReadBack'
    BY SMTT(40), ZenonT(40), <2>2, <2>4, <2>5 DEF RegistersReadBack, PageOf
  <2> QED  BY ZenonT(40), SMTT(40), <2>1, <2>2, <2>3, <2>6
    DEF ExitInv, registers, RegistersAgree, PageOf, EnabledPageIsWritten
<1> QED  BY <1>1, <1>2

\* IN and OUT.
LEMMA PortStep ==
  ASSUME ExitInv, PortOut \/ PortIn
  PROVE  ExitInv'
<1>1. at = "exit" /\ effects = 0 /\ got = Nothing /\ RegistersAgree /\ instr.op \in Ops
  BY DEF ExitInv, Progress, PortOut, PortIn
<1>2. at' = "emulate" /\ effects' = 1 /\ instr' = instr
  BY <1>1 DEF PortOut, PortIn
<1>3. Progress'
  BY <1>1, <1>2 DEF Progress
<1>4. EnabledPageIsWritten'
  BY SMTT(40), ZenonT(40) DEF ExitInv, EnabledPageIsWritten, PortOut, PortIn, registers
<1>5. CASE PortOut
  <2>1. DOMAIN wrote' = ReadBack /\ RegistersAgree'
    BY <1>1, <1>5 DEF ExitInv, PortOut, RegistersAgree, ReadBack
  <2>2. RegistersReadBack'
    BY SMTT(40), ZenonT(40), <1>1, <1>5 DEF PortOut, RegistersReadBack, ReadBack, Nothing
  <2> QED  BY SMTT(40), ZenonT(40), <1>2, <1>3, <1>4, <2>1, <2>2 DEF ExitInv
<1>6. CASE PortIn
  <2>1. DOMAIN wrote' = ReadBack /\ RegistersAgree'
    BY SMTT(40), ZenonT(40), <1>1, <1>6 DEF ExitInv, PortIn, RegistersAgree, registers
  <2>2. RegistersReadBack'
    <3>1. CASE instr.port = "0xCF8"
      BY SMTT(40), ZenonT(40), <1>1, <1>6, <3>1 DEF PortIn, RegistersReadBack, PortData, RegistersAgree
    <3>2. CASE instr.port # "0xCF8"
      BY SMTT(40), ZenonT(40), <1>6, <3>2 DEF PortIn, RegistersReadBack, ReadBack
    <3> QED  BY <3>1, <3>2
  <2> QED  BY SMTT(40), ZenonT(40), <1>2, <1>3, <1>4, <2>1, <2>2 DEF ExitInv
<1> QED  BY <1>5, <1>6

\* The invariant holds before the first instruction ...
LEMMA ExitInitLemma == ExitInit => ExitInv
BY
  DEF ExitInit, ExitInv, Progress, RegistersAgree, RegistersReadBack, EnabledPageIsWritten, ReadBack, Zero, Nothing,
       PageOf, NoPage

\* ... and every exit, every step of the emulator and every clock keeps it.
LEMMA ExitNextLemma == ExitInv /\ [ExitNext]_<<clock_vars, exit_vars>> => ExitInv'
<1> SUFFICES ASSUME ExitInv, [ExitNext]_<<clock_vars, exit_vars>> PROVE ExitInv'
  OBVIOUS
<1>1. CASE UNCHANGED exit_vars
  BY ZenonT(40), SMTT(40), <1>1
    DEF exit_vars, registers, ExitInv, Progress, RegistersAgree, RegistersReadBack, EnabledPageIsWritten
<1>2. CASE run_vp
  BY <1>2, RunStep
<1>3. CASE handle_exit
  <2>1. CASE handle_io_port \/ HandleOther
    BY <2>1, BreakStep DEF handle_io_port, HandleOther
  <2> QED  BY <1>3, <2>1, CpuidStep, WriteMsrStep, ReadMsrStep, PortStep DEF handle_exit
<1>4. CASE advance_rip
  BY <1>4, BreakStep, RetireStep DEF advance_rip
<1>5. CASE FinishEmulation
  BY <1>5, BreakStep, RetireStep DEF FinishEmulation
<1> QED  BY <1>1, <1>2, <1>3, <1>4, <1>5 DEF ExitNext

\* handle_exit, whatever the guest executes and wherever the hypervisor or the emulator
\* refuses: every instruction takes effect once before the guest goes on, registers read
\* back as they were written, and an enabled reference page is in memory.
THEOREM ExitsCompleteAlways == ExitSpec => []ExitsComplete
<1>1. ExitInv => ExitsComplete
  BY DEF ExitInv, Progress, ExitsComplete, InstructionOnce, NoInstr, Ops
<1> QED  BY <1>1, ExitInitLemma, ExitNextLemma, PTL DEF ExitSpec

\* The clocks of a guest whose instructions exit are those of GuestClocks: no exit
\* changes them.
THEOREM ExitsKeepClocks == ExitSpec => ClockSpec
<1>1. ExitInit => ClockInit
  BY DEF ExitInit
<1>2. [ExitNext]_<<clock_vars, exit_vars>> => [ClockNext]_clock_vars
  BY DEF ExitNext
<1> QED  BY <1>1, <1>2, PTL DEF ExitSpec, ClockSpec
=============================================================================
