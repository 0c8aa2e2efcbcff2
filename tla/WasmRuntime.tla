------------------------------ MODULE WasmRuntime ------------------------------
(***************************************************************************)
(* WasmGeneratorRuntime and GeneratorRegistry                              *)
(* (wasm/csilgen-wasm-generators/src/lib.rs): generators are found on a    *)
(* search path, compiled into a cache of modules, loaded under a name and  *)
(* executed.  A runtime belongs to one thread; what the runtimes of a      *)
(* process share is OFFSET, the static at which write_string_to_wasm       *)
(* places an input.  It is read and written without synchronization: the   *)
(* load for the pointer, the load for the addition and the store are steps *)
(* of their own.                                                           *)
(*                                                                         *)
(* Every execution has a memory of its own, of Memory bytes.  One          *)
(* generator, Registered, has a file in some directories of the search     *)
(* path; another name can be loaded by a path or from bytes.               *)
(***************************************************************************)
EXTENDS Naturals, Sequences, FiniteSets

CONSTANTS
  Threads,      \* threads with a runtime
  SearchPath,   \* the files of the registered generator, in search order
  Names,        \* names of generators
  Registered,   \* the one the registry can know
  Conforming,   \* the files whose name says which target they serve
  Memory,       \* bytes of an instance's memory
  FirstOffset,  \* 1024
  Padding,      \* 8
  InputSizes,   \* sizes of serialized inputs
  CacheTtl,     \* CACHE_TTL, in ticks
  MaxCacheSize, \* MAX_CACHE_SIZE
  None,         \* no value
  MaxVersions,  \* bound: versions of a module file
  MaxOps        \* bound: calls an embedding program makes

Paths == {SearchPath[i] : i \in DOMAIN SearchPath}

ASSUME RuntimeAssumption ==
  /\ SearchPath \in Seq(Paths) /\ Registered \in Names /\ Conforming \subseteq Paths
  /\ Memory \in Nat /\ FirstOffset \in Nat /\ Padding \in Nat
  /\ InputSizes \subseteq Nat /\ CacheTtl \in Nat /\ MaxCacheSize \in Nat
  /\ MaxVersions \in Nat /\ MaxOps \in Nat

VARIABLES
  moduleFile,  \* the version of each file on disk, 0 if it is not there
  discovered,  \* GeneratorRegistry.discovered: the file of Registered, for each thread
  cache,       \* module_cache: the version compiled from a file, and its age
  loaded,      \* generators: what runs under a name
  offset,      \* OFFSET
  call,        \* the execute_generator under way in each thread
  outcome,     \* what the last one returned
  ops,         \* calls made
  spent,       \* bytes of the inputs whose addition to OFFSET has begun, padding included
  refusal,     \* the last input refused for memory, with what was spent by then
  fresh        \* per thread: clean_module_cache(0) calls, and the files at the last one

runtimeVars == <<moduleFile, discovered, cache, loaded, offset, call, outcome, ops,
                 spent, refusal, fresh>>
memoryVars == <<offset, spent, refusal>>

Idle == [pc |-> "idle", name |-> None, size |-> 0, ptr |-> 0, sum |-> 0]

(* What a new process has. *)
InThreads(value) == [t \in Threads |-> value]
NoModules == [p \in Paths |-> None]
NothingLoaded == [n \in Names |-> None]
NotCleaned == [times |-> 0, files |-> moduleFile]

RuntimeInit ==
  /\ moduleFile \in [Paths -> 0 .. 1]
  /\ discovered = InThreads(None) /\ cache = InThreads(NoModules) /\ loaded = InThreads(NothingLoaded)
  /\ call = InThreads(Idle) /\ outcome = InThreads("none") /\ fresh = InThreads(NotCleaned)
  /\ offset = FirstOffset /\ spent = 0 /\ refusal = None
  /\ ops = 0

ProcessStarts ==
  /\ discovered' = InThreads(None) /\ cache' = InThreads(NoModules) /\ loaded' = InThreads(NothingLoaded)
  /\ call' = InThreads(Idle) /\ outcome' = InThreads("none") /\ fresh' = InThreads(NotCleaned)
  /\ offset' = FirstOffset /\ spent' = 0 /\ refusal' = None

-----------------------------------------------------------------------------
(* The registry: the first file on the search path wins, and an id that is   *)
(* already known is not looked up again.                                     *)

Found == {i \in DOMAIN SearchPath : moduleFile[SearchPath[i]] > 0 /\ SearchPath[i] \in Conforming}

Discover(t) ==
  /\ discovered' = [discovered EXCEPT ![t] =
       IF @ = None /\ Found # {} THEN SearchPath[CHOOSE i \in Found : \A j \in Found : i <= j] ELSE @]
  /\ UNCHANGED <<moduleFile, cache, loaded, call, outcome, fresh, memoryVars>>

ClearRegistry(t) ==
  /\ discovered' = [discovered EXCEPT ![t] = None]
  /\ UNCHANGED <<moduleFile, cache, loaded, call, outcome, fresh, memoryVars>>

-----------------------------------------------------------------------------
(* load_generator_from_path.  The compiled module goes into the cache before *)
(* the metadata is looked at, and nothing bounds the cache here.             *)

Compiled(t, p) == IF cache[t][p] # None THEN cache[t][p].version ELSE moduleFile[p]
Cached(t, p) == [cache EXCEPT ![t][p] = IF @ = None THEN [version |-> moduleFile[p], age |-> 0] ELSE @]
HasMetadata(t, n, p) == (n = Registered /\ discovered[t] # None) \/ p \in Conforming

LoadFromPath(t, n, p) ==
  /\ Compiled(t, p) > 0
  /\ cache' = Cached(t, p)
  /\ loaded' = IF HasMetadata(t, n, p)
               THEN [loaded EXCEPT ![t][n] =
                       [path |-> p, version |-> Compiled(t, p), since |-> fresh[t].times]]
               ELSE loaded

(* load_generator: from bytes the caller has. *)
LoadBytes(t, n) ==
  /\ loaded' = [loaded EXCEPT ![t][n] = [path |-> None, version |-> 1, since |-> fresh[t].times]]
  /\ UNCHANGED <<moduleFile, discovered, cache, call, outcome, fresh, memoryVars>>

Load(t, n, p) ==
  /\ LoadFromPath(t, n, p)
  /\ UNCHANGED <<moduleFile, discovered, call, outcome, fresh, memoryVars>>

LoadFromRegistry(t) == discovered[t] # None /\ Load(t, Registered, discovered[t])

Unload(t, n) ==
  /\ loaded[t][n] # None
  /\ loaded' = [loaded EXCEPT ![t][n] = None]
  /\ UNCHANGED <<moduleFile, discovered, cache, call, outcome, fresh, memoryVars>>

-----------------------------------------------------------------------------
(* The module cache. *)

\* Mutant: a module is kept up to the maximal age.
NotOlderThan(modules, age) ==
  [p \in Paths |-> IF modules[p] # None /\ modules[p].age <= age THEN modules[p] ELSE None]

Younger(modules, age) ==
  [p \in Paths |-> IF modules[p] # None /\ modules[p].age < age THEN modules[p] ELSE None]

Size(modules) == Cardinality({p \in Paths : modules[p] # None})

(* cleanup_cache: the expired ones go, then the oldest of too many. *)
CleanedUp(modules) ==
  LET young == Younger(modules, CacheTtl)
      Cuts == {cut \in [Paths -> {TRUE, FALSE}] :
                 /\ \A p \in Paths : cut[p] => young[p] # None
                 /\ \A p, q \in Paths : (cut[p] /\ young[q] # None /\ ~cut[q]) => young[p].age >= young[q].age
                 /\ Cardinality({p \in Paths : cut[p]}) =
                      IF Size(young) > MaxCacheSize THEN Size(young) - MaxCacheSize ELSE 0}
  IN {[p \in Paths |-> IF cut[p] THEN None ELSE young[p]] : cut \in Cuts}

CleanupCache(t) ==
  /\ \E modules \in CleanedUp(cache[t]) : cache' = [cache EXCEPT ![t] = modules]
  /\ UNCHANGED <<moduleFile, discovered, loaded, call, outcome, fresh, memoryVars>>

Precompile(t) ==
  /\ discovered[t] # None /\ moduleFile[discovered[t]] > 0
  /\ cache[t][discovered[t]] = None
  /\ \E modules \in CleanedUp(Cached(t, discovered[t])[t]) : cache' = [cache EXCEPT ![t] = modules]
  /\ UNCHANGED <<moduleFile, discovered, loaded, call, outcome, fresh, memoryVars>>

CleanModuleCache(t, age) ==
  /\ cache' = [cache EXCEPT ![t] = Younger(@, age)]
  /\ fresh' = IF age = 0
              THEN [fresh EXCEPT ![t] = [times |-> @.times + 1, files |-> moduleFile]]
              ELSE fresh
  /\ UNCHANGED <<moduleFile, discovered, loaded, call, outcome, memoryVars>>

-----------------------------------------------------------------------------
(* execute_generator *)

(* A generator that is not loaded is loaded from the registry. *)
ExecuteLoads(t, n, size) ==
  /\ \/ loaded[t][n] # None /\ UNCHANGED <<cache, loaded>>
     \/ /\ loaded[t][n] = None /\ n = Registered /\ discovered[t] # None
        /\ LoadFromPath(t, n, discovered[t])
  /\ call' = [call EXCEPT ![t] = [Idle EXCEPT !.pc = "read-offset", !.name = n, !.size = size]]
  /\ outcome' = [outcome EXCEPT ![t] = "none"]
  /\ UNCHANGED <<moduleFile, discovered, fresh, memoryVars>>

ExecuteFails(t, n) ==
  /\ loaded[t][n] = None
  /\ n = Registered /\ discovered[t] # None => Compiled(t, discovered[t]) = 0
  /\ outcome' = [outcome EXCEPT ![t] = "failed"]
  /\ UNCHANGED <<moduleFile, discovered, cache, loaded, call, fresh, memoryVars>>

AtCall(t, pc) == call[t].pc = pc

\* Mutant: the offset moves on before the size is checked.
ReadOffsetAndAdvance(t) ==
  /\ AtCall(t, "read-offset")
  /\ IF offset + call[t].size > Memory
     THEN /\ call' = [call EXCEPT ![t] = Idle]
          /\ outcome' = [outcome EXCEPT ![t] = "failed"]
          /\ refusal' = [size |-> call[t].size, spent |-> spent]
          /\ offset' = offset + call[t].size + Padding
     ELSE /\ call' = [call EXCEPT ![t].pc = "load-offset", ![t].ptr = offset]
          /\ UNCHANGED <<outcome, refusal, offset>>
  /\ UNCHANGED <<moduleFile, discovered, cache, loaded, ops, spent, fresh>>

(* write_string_to_wasm, up to the check. *)
ReadOffset(t) ==
  /\ AtCall(t, "read-offset")
  /\ IF offset + call[t].size > Memory
     THEN /\ call' = [call EXCEPT ![t] = Idle]
          /\ outcome' = [outcome EXCEPT ![t] = "failed"]
          /\ refusal' = [size |-> call[t].size, spent |-> spent]
     ELSE /\ call' = [call EXCEPT ![t].pc = "load-offset", ![t].ptr = offset]
          /\ UNCHANGED <<outcome, refusal>>
  /\ UNCHANGED <<moduleFile, discovered, cache, loaded, offset, ops, spent, fresh>>

(* OFFSET += bytes.len() + 8 *)
LoadOffset(t) ==
  /\ AtCall(t, "load-offset")
  /\ call' = [call EXCEPT ![t].pc = "store-offset", ![t].sum = offset + call[t].size + Padding]
  /\ spent' = spent + call[t].size + Padding
  /\ UNCHANGED <<moduleFile, discovered, cache, loaded, outcome, ops, fresh, offset, refusal>>

StoreOffset(t) ==
  /\ AtCall(t, "store-offset")
  /\ offset' = call[t].sum
  /\ call' = [call EXCEPT ![t].pc = "run"]
  /\ UNCHANGED <<moduleFile, discovered, cache, loaded, outcome, ops, spent, refusal, fresh>>

(* The generator runs in its instance: it may trap, use up its fuel, exceed  *)
(* the time limit or return something that cannot be read.                   *)
RunGenerator(t) ==
  /\ AtCall(t, "run")
  /\ call' = [call EXCEPT ![t] = Idle]
  /\ \E result \in {"files", "failed"} : outcome' = [outcome EXCEPT ![t] = result]
  /\ UNCHANGED <<moduleFile, discovered, cache, loaded, ops, fresh, memoryVars>>

ExecuteStep(t) == ReadOffset(t) \/ LoadOffset(t) \/ StoreOffset(t) \/ RunGenerator(t)

-----------------------------------------------------------------------------
(* A program that embeds the runtime calls it as it likes. *)

EmbedderCalls(t) ==
  /\ AtCall(t, "idle") /\ ops < MaxOps
  /\ ops' = ops + 1
  /\ \/ Discover(t) \/ ClearRegistry(t) \/ LoadFromRegistry(t)
     \/ \E n \in Names, p \in Paths : Load(t, n, p)
     \/ \E n \in Names : LoadBytes(t, n) \/ Unload(t, n) \/ ExecuteFails(t, n)
     \/ \E n \in Names, size \in InputSizes : ExecuteLoads(t, n, size)
     \/ CleanupCache(t) \/ Precompile(t)
     \/ \E age \in 0 .. CacheTtl : CleanModuleCache(t, age)

(* A generator is installed or replaced. *)
InstallModule ==
  /\ \E p \in Paths :
       /\ moduleFile[p] < MaxVersions
       /\ moduleFile' = [moduleFile EXCEPT ![p] = @ + 1]
  /\ UNCHANGED <<discovered, cache, loaded, call, outcome, ops, fresh, memoryVars>>

Tick ==
  /\ cache' = [t \in Threads |-> [p \in Paths |->
       IF cache[t][p] = None \/ cache[t][p].age = CacheTtl THEN cache[t][p]
       ELSE [cache[t][p] EXCEPT !.age = @ + 1]]]
  /\ UNCHANGED <<moduleFile, discovered, loaded, call, outcome, ops, fresh, memoryVars>>

RuntimeNext == (\E t \in Threads : EmbedderCalls(t) \/ ExecuteStep(t)) \/ InstallModule \/ Tick

RuntimeSpec == RuntimeInit /\ [][RuntimeNext]_runtimeVars

-----------------------------------------------------------------------------
(* A file that has been replaced keeps running from the module cache (:932)  *)
(* and from the loaded generators.  A program that cleans the cache with     *)
(* max_age 0 and loads the generator after that runs the file as it was at   *)
(* the cleaning, or a later one, whatever it has done before.                *)
ReloadSeesNewFile ==
  \A t \in Threads, n \in Names :
    LET g == loaded[t][n] IN
    (g # None /\ g.path # None /\ g.since = fresh[t].times) => g.version >= fresh[t].files[g.path]

(* The unsynchronized OFFSET (:1194-1210) can lose an addition, which        *)
(* places two inputs at one address of two memories, and cannot gain one:    *)
(* an input is refused for memory only if the inputs written before it in    *)
(* this process, with their padding, leave no room for it.                   *)
RefusedOnlyWhenSpent ==
  refusal # None => FirstOffset + refusal.spent + refusal.size > Memory
=============================================================================
