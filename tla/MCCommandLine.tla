----------------------------- MODULE MCCommandLine -----------------------------
(***************************************************************************)
(* Instances of what the commands of csilgen are made of.  `part` says     *)
(* what runs: the search of the dependency graph, invocations of csilgen   *)
(* generate, a program that executes generators in two threads, one that   *)
(* uses every call of a runtime in one thread, or releases that csilgen    *)
(* breaking and csilgen validate let through.                              *)
(***************************************************************************)
EXTENDS GeneratePipeline, MCReleases

CONSTANTS p1, p2, p3

VARIABLE part  \* "graph", "pipeline", "executions", "modules" or "releases"

allVars == <<part, graphVars, pipelineVars, runtimeVars, releaseVars>>

MCFiles == 1 .. 3
MCSearchPath == <<p1, p2, p3>>
MCConforming == {p1, p2}

(* The first two entries share a file; the first and the third have one stem. *)
MCOutputs == <<<<"lib", "one">>, <<"lib">>, <<"three">>>>
MCSchemaPath == <<"stem", "second", "stem">>

-----------------------------------------------------------------------------
MCInit ==
  /\ part \in {"graph", "pipeline", "executions", "modules", "releases"}
  /\ GraphInit
  /\ part # "graph" => includes = [f \in Files |-> {}] /\ canonical = {}
  /\ RuntimeInit
  /\ part \in {"graph", "executions", "releases"} => moduleFile = [p \in Paths |-> 1]
  /\ part = "pipeline" => moduleFile[p2] = 0 /\ moduleFile[p3] = 0
  /\ PipelineInit
  /\ ReleasesInit
  /\ part # "releases" => base = NoRules

Graph ==
  part = "graph" /\ GraphNext /\ UNCHANGED <<part, pipelineVars, runtimeVars, releaseVars>>

Pipeline == part = "pipeline" /\ PipelineNext /\ UNCHANGED <<part, graphVars, releaseVars>>

(* The threads discover the generator, which is not counted, and execute it. *)
Executions ==
  /\ part = "executions"
  /\ \E t \in Threads :
       \/ AtCall(t, "idle") /\ Discover(t) /\ UNCHANGED ops
       \/ EmbedderCalls(t) /\ call' # call
       \/ ExecuteStep(t)
  /\ UNCHANGED <<part, graphVars, pipelineVars, releaseVars>>

Modules ==
  /\ part = "modules"
  /\ EmbedderCalls(MainThread) \/ ExecuteStep(MainThread) \/ InstallModule \/ Tick
  /\ UNCHANGED <<part, graphVars, pipelineVars, releaseVars>>

Releases ==
  part = "releases" /\ ReleasesNext /\ UNCHANGED <<part, graphVars, pipelineVars, runtimeVars>>

MCNext == Graph \/ Pipeline \/ Executions \/ Modules \/ Releases

MCSpec == MCInit /\ [][MCNext]_allVars
=============================================================================
