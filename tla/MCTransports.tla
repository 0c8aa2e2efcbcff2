----------------------------- MODULE MCTransports -----------------------------
(***************************************************************************)
(* Instances of three parts of the transport libraries that do not         *)
(* interact: `component` says which of them runs, and the variables of the *)
(* others stay as they start.                                              *)
(***************************************************************************)
EXTENDS StreamFraming, TypeScriptClient, SeqChannel

VARIABLE component  \* "stream", "calls" or "datagrams"

allVars == <<component, streamVars, callVars, seqVars>>

(* An empty frame, and bodies that could also be read as prefixes. *)
MCBodies == {<<>>, <<1>>, <<0, 1>>, <<0, 1, 2>>}

MCInit ==
  /\ component \in {"stream", "calls", "datagrams"}
  /\ StreamInit /\ CallsInit /\ SeqInit
  /\ component # "stream" => reader = "rust"
  /\ component # "calls" => inOrder
  /\ component # "datagrams" => tracksRestarts

Stream == component = "stream" /\ StreamNext /\ UNCHANGED <<component, callVars, seqVars>>
Overlapping == component = "calls" /\ CallsNext /\ UNCHANGED <<component, streamVars, seqVars>>
Datagrams == component = "datagrams" /\ SeqNext /\ UNCHANGED <<component, streamVars, callVars>>

MCNext == Stream \/ Overlapping \/ Datagrams

(* The types of the variables of the three components. *)
TypeOK == StreamTypeOK /\ CallsTypeOK /\ SeqTypeOK

MCSpec == MCInit /\ [][MCNext]_allVars /\ StreamFairness /\ CallsFairness
=============================================================================
