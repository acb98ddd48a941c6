--------------------------- MODULE RequestChannel ---------------------------
(***************************************************************************)
(* What a virtqueue promises to the driver and to the device, whatever the *)
(* rings and the notification suppression do: requests reach the device in *)
(* the order they were submitted, each is completed once or refused once,  *)
(* completions reach the driver in the order the device made them, and     *)
(* neither side waits forever while there is work for it.                  *)
(***************************************************************************)
EXTENDS Sequences, FiniteSets, SequencesExt

CONSTANTS Heads,    \* descriptor chains
          BadHeads  \* chains the device may refuse

VARIABLES submitted,  \* chains on their way to the device, oldest first
          completed,  \* chains on their way back, oldest first
          refused     \* chains the device dropped and will not return

channelVars == <<submitted, completed, refused>>

Init ==
  /\ submitted = <<>>
  /\ completed = <<>>
  /\ refused = {}

Submit(h) ==
  /\ h \notin ToSet(submitted) \union ToSet(completed) \union refused
  /\ submitted' = Append(submitted, h)
  /\ UNCHANGED <<completed, refused>>

Complete ==
  /\ submitted # <<>>
  /\ submitted' = Tail(submitted)
  /\ completed' = Append(completed, Head(submitted))
  /\ UNCHANGED refused

Refuse ==
  /\ submitted # <<>>
  /\ Head(submitted) \in BadHeads
  /\ submitted' = Tail(submitted)
  /\ refused' = refused \union {Head(submitted)}
  /\ UNCHANGED completed

Reap ==
  /\ completed # <<>>
  /\ completed' = Tail(completed)
  /\ UNCHANGED <<submitted, refused>>

Next == (\E h \in Heads : Submit(h)) \/ Complete \/ Refuse \/ Reap

Fairness ==
  /\ WF_channelVars(Complete \/ Refuse)
  /\ WF_channelVars(Reap)

Spec == Init /\ [][Next]_channelVars /\ Fairness
=============================================================================
