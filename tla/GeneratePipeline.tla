--------------------------- MODULE GeneratePipeline ---------------------------
(***************************************************************************)
(* csilgen generate (generate_code_with_progress_and_schema of             *)
(* crates/csilgen-cli/src/lib.rs): a process finds the entry points among  *)
(* its inputs, and for one after the other parses it, runs the generator   *)
(* in the runtime of its only thread, writes the generated files, and at   *)
(* last writes the schema descriptor under its final name.  Anything can   *)
(* fail on the way and the process can be killed; what it has written      *)
(* stays on disk for the next invocation.                                  *)
(*                                                                         *)
(* Inputs are numbered in the order of their paths.  Which files import    *)
(* which is new in every invocation; the search for rings is taken from    *)
(* DependencyGraph as what AnalysisIsExact says of it.                     *)
(***************************************************************************)
EXTENDS DependencyGraph, WasmRuntime

CONSTANTS
  MainThread,      \* the thread of the command line
  Outputs,         \* for each file, the paths its generated files go to, in order
  SchemaPath,      \* for each file, <stem>.csil-schema.cbor: equal stems, equal paths
  MaxInvocations,  \* bound: invocations into one output directory
  MaxFaults        \* bound: failures and kills

(* Generated files do not have the names of descriptors: a generator that    *)
(* emits the name of its own entry's is stopped in CheckCollision, one that  *)
(* emits the name of another's is not stopped by the code, and left out.     *)
ASSUME PipelineAssumption ==
  /\ Files \subseteq Nat
  /\ \A f \in Files : Outputs[f] \in Seq(Range(Outputs[f]))
  /\ \A f, g \in Files : SchemaPath[g] \notin Range(Outputs[f])
  /\ None \notin [kind : {"generated", "torn", "descriptor"}, entry : Files, invocation : Nat]

OutputPaths == UNION {Range(Outputs[f]) \union {SchemaPath[f]} : f \in Files}

VARIABLES
  at,          \* where the process is
  inputs,      \* what discover_input_files found
  emitSchema,  \* not --no-schema
  selected,    \* the entry points
  entries,     \* those still to be processed, the first one being processed
  toWrite,     \* generated files of the entry still to be written
  errors,      \* error_count
  exit,        \* "running", "ok", "errors", "failed" or "killed"
  invocation,  \* the number of this invocation
  faults,      \* failures and kills so far
  disk         \* the output directory

pipelineVars == <<at, inputs, emitSchema, selected, entries, toWrite, errors, exit,
                  invocation, faults, disk>>

PipelineInit ==
  /\ at = "ended" /\ exit = "failed" /\ invocation = 0 /\ faults = 0
  /\ inputs = {} /\ emitSchema = TRUE /\ selected = {} /\ entries = <<>> /\ toWrite = <<>>
  /\ errors = 0
  /\ disk = [p \in OutputPaths |-> None]

(* The files as a vector, sorted. *)
Sorted(files) ==
  CHOOSE s \in [1 .. Cardinality(files) -> files] : \A i, j \in DOMAIN s : i < j => s[i] < s[j]

Entry == Head(entries)
Single == Cardinality(inputs) = 1
Content(kind) == [kind |-> kind, entry |-> Entry, invocation |-> invocation]

RuntimeWaits == UNCHANGED runtimeVars

Exit(how) == at' = "ended" /\ exit' = how /\ UNCHANGED <<entries, toWrite, errors>>

Goto(step) == at' = step /\ UNCHANGED exit

(* An entry is done; with several inputs the next one follows. *)
EntryEnds(failed) ==
  /\ errors' = errors + failed
  /\ entries' = Tail(entries) /\ toWrite' = <<>>
  /\ IF Single /\ failed = 1 THEN at' = "ended" /\ exit' = "failed"
     ELSE IF Len(entries) > 1 THEN at' = "entry" /\ UNCHANGED exit
     ELSE at' = "ended" /\ exit' = (IF errors' = 0 THEN "ok" ELSE "errors")

Fault == faults < MaxFaults /\ faults' = faults + 1
NoFault == UNCHANGED faults

-----------------------------------------------------------------------------
Invoke ==
  /\ at = "ended" /\ invocation < MaxInvocations
  /\ invocation' = invocation + 1
  /\ inputs' \in SUBSET Files /\ emitSchema' \in BOOLEAN
  /\ selected' = {} /\ entries' = <<>> /\ toWrite' = <<>> /\ errors' = 0
  /\ at' = "select" /\ exit' = "running"
  /\ ProcessStarts
  /\ UNCHANGED <<moduleFile, ops, faults, disk>>

(* process_single_file takes its file; with several, the graph is built and  *)
(* searched, and the entry points are sorted.                                *)
SelectEntries ==
  /\ at = "select"
  /\ IF Single THEN selected' = inputs
     ELSE \E imports \in [inputs -> SUBSET inputs] :
            LET deps == ValidImports(imports, inputs) IN
            /\ ~HasRing(deps)
            /\ EntryPoints(deps) # {}
            /\ selected' = EntryPoints(deps)
  /\ entries' = Sorted(selected')
  /\ at' = "preflight" /\ UNCHANGED <<exit, toWrite, errors>>
  /\ NoFault /\ RuntimeWaits /\ UNCHANGED <<inputs, emitSchema, invocation, disk>>

(* An import that leads nowhere, a ring, or no file at all. *)
SelectFails ==
  /\ at = "select"
  /\ \/ Fault /\ ~Single
     \/ NoFault /\ inputs = {}
  /\ Exit("failed")
  /\ RuntimeWaits /\ UNCHANGED <<inputs, emitSchema, selected, invocation, disk>>

-----------------------------------------------------------------------------
(* preflight_schema_paths and remove_stale_schema. *)

NoDescriptors(files) ==
  [p \in OutputPaths |-> IF \E f \in files : SchemaPath[f] = p THEN None ELSE disk[p]]

\* Mutant: two entries may share a descriptor.
ReserveNothing ==
  /\ at = "preflight" /\ emitSchema
  /\ Goto("runtime") /\ UNCHANGED <<entries, toWrite, errors>>
  /\ NoFault /\ RuntimeWaits /\ UNCHANGED <<inputs, emitSchema, selected, invocation, disk>>

ReserveSchemaPaths ==
  /\ at = "preflight" /\ emitSchema
  /\ IF \A f, g \in selected : SchemaPath[f] = SchemaPath[g] => f = g
     THEN Goto("runtime") /\ UNCHANGED <<entries, toWrite, errors>>
     ELSE Exit("failed")
  /\ NoFault /\ RuntimeWaits /\ UNCHANGED <<inputs, emitSchema, selected, invocation, disk>>

(* A removal may fail, or be the last thing a killed process does. *)
RemoveStaleSchemas ==
  /\ at = "preflight" /\ ~emitSchema
  /\ \E k \in 0 .. Len(entries) :
       /\ disk' = NoDescriptors({entries[i] : i \in 1 .. k})
       /\ IF k = Len(entries)
          THEN Goto("runtime") /\ NoFault /\ UNCHANGED <<entries, toWrite, errors>>
          ELSE Exit("failed") /\ Fault
  /\ RuntimeWaits /\ UNCHANGED <<inputs, emitSchema, selected, invocation>>

(* initialize_wasm_runtime: without the generator the target is unknown. *)
InitializeRuntime ==
  /\ at = "runtime"
  /\ Discover(MainThread) /\ UNCHANGED ops
  /\ IF discovered'[MainThread] # None
     THEN Goto("entry") /\ UNCHANGED <<entries, toWrite, errors>>
     ELSE Exit("failed")
  /\ NoFault /\ UNCHANGED <<inputs, emitSchema, selected, invocation, disk>>

-----------------------------------------------------------------------------
(* One turn of process_entry_points, and process_single_file. *)

ParseFails ==
  /\ at = "entry" /\ Fault
  /\ EntryEnds(1)
  /\ RuntimeWaits /\ UNCHANGED <<inputs, emitSchema, selected, invocation, disk>>

(* Parsed, validated, and described where a descriptor is wanted. *)
Parse ==
  /\ at = "entry"
  /\ \E size \in InputSizes : ExecuteLoads(MainThread, Registered, size)
  /\ UNCHANGED ops
  /\ Goto("execute") /\ UNCHANGED <<entries, toWrite, errors>>
  /\ NoFault /\ UNCHANGED <<inputs, emitSchema, selected, invocation, disk>>

ExecuteInRuntime ==
  /\ at = "execute" /\ ExecuteStep(MainThread)
  /\ UNCHANGED pipelineVars

Executed ==
  /\ at = "execute" /\ AtCall(MainThread, "idle")
  /\ IF outcome[MainThread] = "files"
     THEN Goto("collision") /\ UNCHANGED <<entries, toWrite, errors>>
     ELSE EntryEnds(1)
  /\ NoFault /\ RuntimeWaits /\ UNCHANGED <<inputs, emitSchema, selected, invocation, disk>>

(* reject_generator_schema_collision: the generator may emit the name of the *)
(* descriptor.                                                               *)
CheckCollision ==
  /\ at = "collision"
  /\ \/ NoFault /\ Goto("write") /\ toWrite' = Outputs[Entry] /\ UNCHANGED <<entries, errors>>
     \/ Fault /\ emitSchema /\ EntryEnds(1)
  /\ RuntimeWaits /\ UNCHANGED <<inputs, emitSchema, selected, invocation, disk>>

(* write_generated_files *)
WriteGenerated ==
  /\ at = "write" /\ toWrite # <<>>
  /\ disk' = [disk EXCEPT ![Head(toWrite)] = Content("generated")]
  /\ toWrite' = Tail(toWrite)
  /\ UNCHANGED <<at, exit, entries, errors>>
  /\ NoFault /\ RuntimeWaits /\ UNCHANGED <<inputs, emitSchema, selected, invocation>>

\* Mutant: the other files and the descriptor are still written.
WriteFailsGoesOn(kept) ==
  /\ at = "write" /\ toWrite # <<>> /\ Fault
  /\ disk' = IF kept THEN disk ELSE [disk EXCEPT ![Head(toWrite)] = Content("torn")]
  /\ toWrite' = Tail(toWrite) /\ errors' = errors + 1
  /\ UNCHANGED <<at, exit, entries>>
  /\ RuntimeWaits /\ UNCHANGED <<inputs, emitSchema, selected, invocation>>

(* The file cannot be written, or not to its end: the rest is not tried. *)
WriteFails(kept) ==
  /\ at = "write" /\ toWrite # <<>> /\ Fault
  /\ disk' = IF kept THEN disk ELSE [disk EXCEPT ![Head(toWrite)] = Content("torn")]
  /\ EntryEnds(1)
  /\ RuntimeWaits /\ UNCHANGED <<inputs, emitSchema, selected, invocation>>

(* write_atomic: a temporary file takes the place of the old descriptor. *)
WriteSchema ==
  /\ at = "write" /\ toWrite = <<>>
  /\ disk' = IF emitSchema THEN [disk EXCEPT ![SchemaPath[Entry]] = Content("descriptor")] ELSE disk
  /\ EntryEnds(0)
  /\ NoFault /\ RuntimeWaits /\ UNCHANGED <<inputs, emitSchema, selected, invocation>>

WriteSchemaFails ==
  /\ at = "write" /\ toWrite = <<>> /\ emitSchema /\ Fault
  /\ EntryEnds(1)
  /\ RuntimeWaits /\ UNCHANGED <<inputs, emitSchema, selected, invocation, disk>>

(* The process is killed; a file it was writing may stay torn. *)
Kill ==
  /\ at # "ended" /\ Fault
  /\ Exit("killed")
  /\ \/ UNCHANGED disk
     \/ at = "write" /\ toWrite # <<>>
        /\ disk' = [disk EXCEPT ![Head(toWrite)] = Content("torn")]
  /\ RuntimeWaits /\ UNCHANGED <<inputs, emitSchema, selected, invocation>>

-----------------------------------------------------------------------------
PipelineNext ==
  \/ Invoke \/ SelectEntries \/ SelectFails
  \/ ReserveSchemaPaths \/ RemoveStaleSchemas \/ InitializeRuntime
  \/ ParseFails \/ Parse \/ ExecuteInRuntime \/ Executed \/ CheckCollision
  \/ WriteGenerated \/ WriteFails(TRUE) \/ WriteFails(FALSE) \/ WriteSchema \/ WriteSchemaFails
  \/ Kill

PipelineSpec ==
  PipelineInit /\ RuntimeInit /\ [][PipelineNext]_<<pipelineVars, runtimeVars>>

-----------------------------------------------------------------------------
IsDescriptor(content, f) == content # None /\ content.kind = "descriptor" /\ content.entry = f

(* Not written by an earlier invocation, or earlier in the same one. *)
NotOlder(content, other) ==
  /\ content # None
  /\ \/ content.invocation > other.invocation
     \/ content.invocation = other.invocation /\ content.entry >= other.entry

(* Whenever a process fails or is killed (:761), no generated file of an     *)
(* entry is older than the descriptor that lies beside it: the descriptor    *)
(* comes last.  The files may well be newer than the descriptor, or torn.    *)
DescriptorAfterFiles ==
  \A f \in Files : IsDescriptor(disk[SchemaPath[f]], f) =>
    \A p \in Range(Outputs[f]) : NotOlder(disk[p], disk[SchemaPath[f]])

Delivered(f) ==
  IsDescriptor(disk[SchemaPath[f]], f) /\ disk[SchemaPath[f]].invocation = invocation

(* An invocation that comes to its end counts as errors exactly the entries  *)
(* whose descriptor is not new (process_entry_points goes on after each); if *)
(* it succeeds, every file of every entry is new and whole, and a descriptor *)
(* that was not wanted is gone.                                              *)
ExitTellsWhatIsOnDisk ==
  /\ (exit \in {"ok", "errors"} /\ emitSchema) =>
       errors = Cardinality({f \in selected : ~Delivered(f)})
  /\ exit = "ok" => \A f \in selected :
       /\ ~emitSchema => ~IsDescriptor(disk[SchemaPath[f]], f)
       /\ \A p \in Range(Outputs[f]) :
            /\ disk[p] # None /\ disk[p].kind # "torn" /\ disk[p].invocation = invocation
            /\ disk[p].entry >= f
=============================================================================
