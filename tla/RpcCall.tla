------------------------------ MODULE RpcCall ------------------------------
(***************************************************************************)
(* What one CSIL-RPC connection promises to the caller of                  *)
(* RpcClient::call, without frames, envelopes or a server loop: calls are  *)
(* made one after the other, the handler runs at most once for a call and  *)
(* only while that call is outstanding, and a call that returns a typed    *)
(* reply returns the reply of its own handler execution.                   *)
(*                                                                         *)
(* Calls are numbered 1, 2, ... in the order the program makes them.       *)
(***************************************************************************)
EXTENDS Naturals, Sequences

VARIABLES
  current,   \* the outstanding call, 0 when there is none
  executed,  \* the calls the handler has run for, in the order it ran
  results    \* results[n] is what call n returned

vars == <<current, executed, results>>

(***************************************************************************)
(* A call returns a typed reply, a transport status sent by the server, or *)
(* a local error; "answers" names the call whose execution produced a      *)
(* reply.                                                                  *)
(***************************************************************************)
Ran(n) == \E i \in 1 .. Len(executed) : executed[i] = n

Reply(n)  == [kind |-> "reply",  answers |-> n]
Status(n) == [kind |-> "status", answers |-> n]
Failure   == [kind |-> "error",  answers |-> 0]

Init ==
  /\ current = 0
  /\ executed = <<>>
  /\ results = <<>>

Begin ==
  /\ current = 0
  /\ current' = Len(results) + 1
  /\ UNCHANGED <<executed, results>>

Execute ==
  /\ current # 0
  /\ ~Ran(current)
  /\ executed' = Append(executed, current)
  /\ UNCHANGED <<current, results>>

\* A typed reply exists only once the handler has run; a status may also come
\* from a server that refused the envelope, and an error may come at any time.
Return ==
  /\ current # 0
  /\ \/ Ran(current) /\ results' = Append(results, Reply(current))
     \/ results' = Append(results, Status(current))
     \/ results' = Append(results, Failure)
  /\ current' = 0
  /\ UNCHANGED executed

\* A request that is never handed to the carrier: the call begins and fails in
\* one step, and the handler does not run for it.
FailUnsent ==
  /\ current = 0
  /\ results' = Append(results, Failure)
  /\ UNCHANGED <<current, executed>>

Next == Begin \/ Execute \/ Return \/ FailUnsent

Spec == Init /\ [][Next]_vars
=============================================================================
