------------------------------ MODULE FrameQueue ------------------------------
(***************************************************************************)
(* What a frame carrier promises to the code above it (the FrameCarrier    *)
(* trait of transports/rust/src/carrier.rs, the interface of               *)
(* transports/typescript/src/carrier.ts): delimited messages, in order,    *)
(* none lost or invented, until an end reports an error.  RpcTransport is  *)
(* built on this promise; StreamFraming shows when a byte stream keeps it. *)
(***************************************************************************)
EXTENDS Naturals, Sequences

CONSTANT Frames  \* the messages that may be sent

VARIABLES
  sent,      \* messages that a send reported as sent, in order
  received,  \* messages handed to the receiver, in order
  status     \* "sound", "ended" (clean end of stream) or "failed"

vars == <<sent, received, status>>

Init == sent = <<>> /\ received = <<>> /\ status = "sound"

Send == /\ \E f \in Frames : sent' = Append(sent, f)
        /\ UNCHANGED <<received, status>>

Deliver ==
  /\ status = "sound"
  /\ Len(received) < Len(sent)
  /\ received' = Append(received, sent[Len(received) + 1])
  /\ UNCHANGED <<sent, status>>

(* A clean end: nothing that was sent is missing. *)
End == /\ status = "sound"
       /\ received = sent
       /\ status' = "ended"
       /\ UNCHANGED <<sent, received>>

(* An end reports an error; there is no promise from here on. *)
Fail == /\ status' = "failed"
        /\ UNCHANGED <<sent, received>>

Broken == status = "failed" /\ status' = "failed"

Next == Send \/ Deliver \/ End \/ Fail \/ Broken

Spec == Init /\ [][Next]_vars
=============================================================================
