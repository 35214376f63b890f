------------------------------ MODULE MCInputs ------------------------------
(* What the program reads from outside, one reader at a time: the others stay where they
   start with a fixed input. *)
EXTENDS Options, JsonRpc, DataChannels, WavReader

VARIABLE subject

vars == <<subject, optVars, rpcVars, dcVars, wavVars>>

OptIdle == OptStart([entries |-> << >>, port |-> FALSE], {})
RpcIdle == RpcStart([kind |-> "not JSON"])
DcIdle == DcStart(<< >>)
WavIdle == WavStart("RIFF WAVE", <<[name |-> "fmt ", format |-> "PCM", size |-> FormatSize]>>, 0)

Init ==
  \/ subject = "options" /\ OptInit /\ RpcIdle /\ DcIdle /\ WavIdle
  \/ subject = "rpc" /\ OptIdle /\ RpcInit /\ DcIdle /\ WavIdle
  \/ subject = "channels" /\ OptIdle /\ RpcIdle /\ DcInit /\ WavIdle
  \/ subject = "wav" /\ OptIdle /\ RpcIdle /\ DcIdle /\ WavInit

Next ==
  /\ UNCHANGED subject
  /\ \/ subject = "options" /\ OptNext /\ UNCHANGED <<rpcVars, dcVars, wavVars>>
     \/ subject = "rpc" /\ RpcNext /\ UNCHANGED <<optVars, dcVars, wavVars>>
     \/ subject = "channels" /\ DcNext /\ UNCHANGED <<optVars, rpcVars, wavVars>>
     \/ subject = "wav" /\ WavNext /\ UNCHANGED <<optVars, rpcVars, dcVars>>

Spec == Init /\ [][Next]_vars
=============================================================================
