-------------------------- MODULE MCMmioTransport ---------------------------
(***************************************************************************)
(* One queue, EVENT_IDX on page 0 of the features, nothing offered on page *)
(* 1, and one bit that is offered on neither; and, whenever the vCPU       *)
(* thread may run a register handler, what the real devices show through   *)
(* the registers.                                                          *)
(***************************************************************************)
EXTENDS MmioTransport, VirtioDevices

MCOffered == {<<0, "event_idx">>}
MCAckWords == {{"event_idx", "other"}}
MCEventIdx == <<0, "event_idx">>
MCImageSizes == 0 .. 9

\* The devices keep their word whenever a driver can ask them: the features they show
\* are the ones they accept, through either page (mmio.rs, lines 411-419 and 478-491;
\* device.rs, lines 108-142), the configuration space reads the same in every access
\* width (read_config), and activation, worker and layout provide for what is offered.
DevicesKeepTheirWord ==
  vpc = "run" => AllShownAccepted /\ AllConfigReadsAgree /\ AllOfferedUsable
=============================================================================
