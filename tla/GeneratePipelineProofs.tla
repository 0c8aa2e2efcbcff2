------------------------- MODULE GeneratePipelineProofs -------------------------
(***************************************************************************)
(* Proofs about csilgen generate and the runtime it executes generators    *)
(* in.                                                                     *)
(*                                                                         *)
(* The runtime (WasmRuntime): a lost update of OFFSET never makes it       *)
(* exceed what was written, and a generator loaded after the cache was     *)
(* cleaned is not older than the file was then, for any number of threads  *)
(* and files.                                                              *)
(*                                                                         *)
(* The command (GeneratePipeline): what is on disk, and what its exit      *)
(* tells of it, after any number of invocations, failures and kills.  The  *)
(* runtime decides only which way an entry goes, so the invariant is about *)
(* the variables of the pipeline alone.                                    *)
(***************************************************************************)
EXTENDS GeneratePipeline, FiniteSetTheorems, SequenceTheorems, WellFoundedInduction, TLAPS

Versions == [Paths -> Nat]
CachedModules == [version : Nat, age : Nat] \union {None}
LoadedGenerators ==
  [path : Paths \union {None}, version : Nat, since : Nat] \union {None}
CallStates ==
  [pc : {"idle", "read-offset", "load-offset", "store-offset", "run"},
   name : Names \union {None}, size : Nat, ptr : Nat, sum : Nat]

RuntimeTypeOK ==
  /\ moduleFile \in Versions
  /\ discovered \in [Threads -> Paths \union {None}]
  /\ cache \in [Threads -> [Paths -> CachedModules]]
  /\ loaded \in [Threads -> [Names -> LoadedGenerators]]
  /\ offset \in Nat /\ spent \in Nat
  /\ call \in [Threads -> CallStates]
  /\ refusal \in [size : Nat, spent : Nat] \union {None}
  /\ fresh \in [Threads -> [times : Nat, files : Versions]]

\* A sum that waits to be stored may be out of date, but it is no more than what
\* had been spent when it was made.
OffsetInv ==
  /\ offset <= FirstOffset + spent
  /\ \A t \in Threads : AtCall(t, "store-offset") => call[t].sum <= FirstOffset + spent

\* What was cleaned out is not older than what there is now: files only get newer,
\* and whatever entered the cache since was compiled from one of the newer files.
CacheInv ==
  \A t \in Threads, p \in Paths :
    /\ fresh[t].files[p] <= moduleFile[p]
    /\ cache[t][p] # None => fresh[t].files[p] <= cache[t][p].version

\* No generator claims to be loaded after a cleaning that has not happened.
LoadedInv ==
  \A t \in Threads, n \in Names : loaded[t][n] # None => loaded[t][n].since <= fresh[t].times

RuntimeInv ==
  RuntimeTypeOK /\ OffsetInv /\ RefusedOnlyWhenSpent /\ CacheInv /\ LoadedInv /\ ReloadSeesNewFile

-----------------------------------------------------------------------------
\* The invariant holds where a process starts.
LEMMA RuntimeInvInit == RuntimeInit => RuntimeInv
<1> SUFFICES ASSUME RuntimeInit PROVE RuntimeInv
  OBVIOUS
<1> USE RuntimeAssumption DEF RuntimeInit, InThreads
<1>1. RuntimeTypeOK
  <2>1. moduleFile \in Versions
    BY DEF Versions
  <2>2. NotCleaned \in [times : Nat, files : Versions]
    BY <2>1 DEF NotCleaned
  <2>3. NoModules \in [Paths -> CachedModules] /\ NothingLoaded \in [Names -> LoadedGenerators]
    BY DEF NoModules, NothingLoaded, CachedModules, LoadedGenerators
  <2>4. Idle \in CallStates
    BY DEF Idle, CallStates
  <2>5. QED
    BY <2>1, <2>2, <2>3, <2>4 DEF RuntimeTypeOK
<1>2. OffsetInv /\ RefusedOnlyWhenSpent
  BY DEF OffsetInv, AtCall, Idle, RefusedOnlyWhenSpent
<1>3. CacheInv /\ LoadedInv /\ ReloadSeesNewFile
  BY <1>1 DEF RuntimeTypeOK, Versions, CacheInv, LoadedInv, ReloadSeesNewFile, NotCleaned, NoModules, NothingLoaded
<1>4. QED
  BY <1>1, <1>2, <1>3 DEF RuntimeInv

\* A new process starts as the first one did, from the files there are.
LEMMA ProcessStartsStep ==
  ASSUME RuntimeInv, ProcessStarts, UNCHANGED moduleFile
  PROVE  RuntimeInv'
<1> USE RuntimeAssumption DEF RuntimeInv, ProcessStarts, InThreads
<1>1. RuntimeTypeOK'
  <2>1. NotCleaned \in [times : Nat, files : Versions]
    BY DEF NotCleaned, RuntimeTypeOK
  <2>2. NoModules \in [Paths -> CachedModules] /\ NothingLoaded \in [Names -> LoadedGenerators]
    BY DEF NoModules, NothingLoaded, CachedModules, LoadedGenerators
  <2>3. Idle \in CallStates
    BY DEF Idle, CallStates
  <2>4. QED
    BY <2>1, <2>2, <2>3 DEF RuntimeTypeOK
<1>2. OffsetInv' /\ RefusedOnlyWhenSpent'
  BY DEF OffsetInv, AtCall, Idle, RefusedOnlyWhenSpent
<1>3. CacheInv' /\ LoadedInv' /\ ReloadSeesNewFile'
  BY DEF CacheInv, LoadedInv, ReloadSeesNewFile, NotCleaned, NoModules, NothingLoaded,
         RuntimeTypeOK, Versions
<1>4. QED
  BY <1>1, <1>2, <1>3

\* What a call that leaves OFFSET and the executions alone cannot disturb.
LEMMA MemoryKept ==
  ASSUME RuntimeInv, UNCHANGED <<call, memoryVars>>
  PROVE  OffsetInv' /\ RefusedOnlyWhenSpent'
BY DEF RuntimeInv, OffsetInv, RefusedOnlyWhenSpent, AtCall, memoryVars

-----------------------------------------------------------------------------
\* A set of naturals has a least element: the shortest of the intervals that end at
\* its elements.
LEMMA LeastNatural ==
  ASSUME NEW S, S \subseteq Nat, S # {}
  PROVE  \E i \in S : \A j \in S : i <= j
<1> DEFINE Intervals == {0 .. i : i \in S}
<1>1. Intervals # {} /\ Intervals \subseteq FiniteSubsetsOf(Nat)
  <2>1. ASSUME NEW i \in S
        PROVE  IsFiniteSet(0 .. i) /\ 0 .. i \in SUBSET Nat
    <3>1. 0 \in Int /\ i \in Int
      OBVIOUS
    <3>2. IsFiniteSet(0 .. i)
      BY <3>1, FS_Interval
    <3>3. QED
      BY <3>2
  <2>2. QED
    BY <2>1 DEF FiniteSubsetsOf
<1> HIDE DEF Intervals
<1>2. \E I \in Intervals : \A J \in Intervals : ~(<<J, I>> \in StrictSubsetOrdering(Nat))
  BY <1>1, WFMin, FS_StrictSubsetOrderingWellFounded
<1>3. PICK i \in S : \A J \in Intervals : ~(<<J, 0 .. i>> \in StrictSubsetOrdering(Nat))
  BY <1>2 DEF Intervals
<1>4. ASSUME NEW j \in S, j < i
      PROVE  FALSE
  <2>1. 0 .. j \subseteq 0 .. i /\ i \in 0 .. i /\ i \notin 0 .. j
    BY <1>4
  <2>2. <<0 .. j, 0 .. i>> \in StrictSubsetOrdering(Nat)
    BY <2>1 DEF StrictSubsetOrdering
  <2>3. QED
    BY <1>3, <2>2 DEF Intervals
<1>5. QED
  BY <1>4

\* The registry finds a file of the search path, if any: the first one.
LEMMA FirstFound ==
  Found # {} => SearchPath[CHOOSE i \in Found : \A j \in Found : i <= j] \in Paths
<1> SUFFICES ASSUME Found # {}
             PROVE  SearchPath[CHOOSE i \in Found : \A j \in Found : i <= j] \in Paths
  OBVIOUS
<1>1. Found \subseteq Nat /\ Found \subseteq DOMAIN SearchPath
  BY RuntimeAssumption DEF Found
<1>2. \E i \in Found : \A j \in Found : i <= j
  BY <1>1, LeastNatural
<1>3. (CHOOSE i \in Found : \A j \in Found : i <= j) \in Found
  BY <1>2
<1>4. QED
  BY <1>1, <1>3 DEF Paths

\* Discover and ClearRegistry.
LEMMA RegistryStep ==
  ASSUME RuntimeInv, NEW t \in Threads, Discover(t) \/ ClearRegistry(t)
  PROVE  RuntimeInv'
<1>1. discovered' \in [Threads -> Paths \union {None}]
  <2>1. CASE Discover(t)
    BY <2>1, FirstFound DEF Discover, RuntimeInv, RuntimeTypeOK
  <2>2. CASE ClearRegistry(t)
    BY <2>2 DEF ClearRegistry, RuntimeInv, RuntimeTypeOK
  <2>3. QED
    BY <2>1, <2>2
<1>2. QED
  BY <1>1, MemoryKept
     DEF RuntimeInv, RuntimeTypeOK, CacheInv, LoadedInv, ReloadSeesNewFile, Discover,
         ClearRegistry, memoryVars

-----------------------------------------------------------------------------
\* A generator from a file: what is compiled is what the cache has or, if it has
\* nothing, what the file is now, and neither is older than at the last cleaning.
LEMMA LoadFromPathFacts ==
  ASSUME RuntimeInv, NEW t \in Threads, NEW n \in Names, NEW p \in Paths, LoadFromPath(t, n, p),
         UNCHANGED <<moduleFile, fresh>>
  PROVE  /\ cache' \in [Threads -> [Paths -> CachedModules]]
         /\ loaded' \in [Threads -> [Names -> LoadedGenerators]]
         /\ CacheInv' /\ LoadedInv' /\ ReloadSeesNewFile'
<1> USE DEF RuntimeInv, RuntimeTypeOK, LoadFromPath
<1>1. /\ Compiled(t, p) \in Nat
      /\ fresh[t].files[p] <= Compiled(t, p)
      /\ fresh[t].times \in Nat /\ fresh[t].files[p] \in Nat
  <2>1. cache[t][p] \in CachedModules /\ moduleFile[p] \in Nat
    BY DEF Versions
  <2>2. fresh[t].times \in Nat /\ fresh[t].files \in Versions
    OBVIOUS
  <2>3. QED
    BY <2>1, <2>2 DEF CachedModules, Compiled, CacheInv, Versions
<1>2. cache' \in [Threads -> [Paths -> CachedModules]]
  BY DEF Cached, CachedModules, Versions
<1>3. CacheInv'
  BY <1>1 DEF CacheInv, Cached, Compiled, CachedModules, Versions
<1> DEFINE g == [path |-> p, version |-> Compiled(t, p), since |-> fresh[t].times]
<1>4. g \in LoadedGenerators
  BY <1>1 DEF LoadedGenerators
<1>5. loaded' \in [Threads -> [Names -> LoadedGenerators]]
  BY <1>4
<1>6. ASSUME NEW u \in Threads, NEW m \in Names
      PROVE  loaded'[u][m] = loaded[u][m] \/ (u = t /\ loaded'[u][m] = g)
  OBVIOUS
<1>7. LoadedInv'
  BY <1>1, <1>6 DEF LoadedInv
<1>8. ReloadSeesNewFile'
  BY <1>1, <1>6 DEF ReloadSeesNewFile
<1>9. QED
  BY <1>2, <1>3, <1>5, <1>7, <1>8

\* load_generator_from_path, from a path or through the registry.
LEMMA LoadStep ==
  ASSUME RuntimeInv, NEW t \in Threads, NEW n \in Names, NEW p \in Paths, Load(t, n, p)
  PROVE  RuntimeInv'
BY LoadFromPathFacts, MemoryKept DEF RuntimeInv, RuntimeTypeOK, Load, memoryVars

LEMMA LoadFromRegistryStep ==
  ASSUME RuntimeInv, NEW t \in Threads, LoadFromRegistry(t)
  PROVE  RuntimeInv'
<1>1. discovered[t] \in Paths /\ Registered \in Names
  BY RuntimeAssumption DEF LoadFromRegistry, RuntimeInv, RuntimeTypeOK
<1>2. QED
  BY <1>1, LoadStep DEF LoadFromRegistry

\* What is loaded under a name is replaced.
LEMMA NameReplaced ==
  ASSUME NEW S, NEW f \in [Threads -> [Names -> S]], NEW t \in Threads, NEW n \in Names, NEW g \in S
  PROVE  [f EXCEPT ![t][n] = g] \in [Threads -> [Names -> S]]
OBVIOUS

\* load_generator and unload_generator.
LEMMA LoadBytesStep ==
  ASSUME RuntimeInv, NEW t \in Threads, NEW n \in Names, LoadBytes(t, n) \/ Unload(t, n)
  PROVE  RuntimeInv'
<1> USE DEF RuntimeInv, RuntimeTypeOK, LoadBytes, Unload
<1> DEFINE g == [path |-> None, version |-> 1, since |-> fresh[t].times]
<1>1. g \in LoadedGenerators /\ fresh[t].times \in Nat
  BY DEF LoadedGenerators
<1>2. ASSUME NEW u \in Threads, NEW m \in Names
      PROVE  loaded'[u][m] \in {loaded[u][m], None} \/ (u = t /\ loaded'[u][m] = g)
  OBVIOUS
<1>3. loaded' \in [Threads -> [Names -> LoadedGenerators]]
  <2>1. None \in LoadedGenerators
    BY DEF LoadedGenerators
  <2>2. loaded' = [loaded EXCEPT ![t][n] = g] \/ loaded' = [loaded EXCEPT ![t][n] = None]
    OBVIOUS
  <2>3. loaded \in [Threads -> [Names -> LoadedGenerators]]
    OBVIOUS
  <2> HIDE DEF g, RuntimeInv, RuntimeTypeOK, LoadBytes, Unload
  <2>4. [loaded EXCEPT ![t][n] = g] \in [Threads -> [Names -> LoadedGenerators]]
    BY <1>1, <2>3, NameReplaced
  <2>5. [loaded EXCEPT ![t][n] = None] \in [Threads -> [Names -> LoadedGenerators]]
    BY <2>1, <2>3, NameReplaced
  <2>6. QED
    BY <2>2, <2>4, <2>5
<1>4. LoadedInv' /\ ReloadSeesNewFile'
  <2>1. g.since <= fresh[t].times /\ g.path = None
    BY <1>1
  <2>2. UNCHANGED fresh
    OBVIOUS
  <2>3. QED
    BY <1>2, <2>1, <2>2, ZenonT(60) DEF LoadedInv, ReloadSeesNewFile
<1>5. CacheInv'
  BY DEF CacheInv
<1>6. QED
  BY <1>3, <1>4, <1>5, MemoryKept DEF memoryVars

-----------------------------------------------------------------------------
\* Cleaning up removes modules and changes none.
LEMMA YoungerFacts ==
  ASSUME NEW modules \in [Paths -> CachedModules], NEW age
  PROVE  /\ Younger(modules, age) \in [Paths -> CachedModules]
         /\ \A p \in Paths : Younger(modules, age)[p] \in {None, modules[p]}
<1>1. None \in CachedModules
  BY DEF CachedModules
<1>2. QED
  BY <1>1 DEF Younger

LEMMA CleanedUpFacts ==
  ASSUME NEW modules \in [Paths -> CachedModules], NEW cleaned \in CleanedUp(modules)
  PROVE  /\ cleaned \in [Paths -> CachedModules]
         /\ \A p \in Paths : cleaned[p] \in {None, modules[p]}
<1> DEFINE young == Younger(modules, CacheTtl)
<1>1. PICK cut \in [Paths -> {TRUE, FALSE}] :
        cleaned = [p \in Paths |-> IF cut[p] THEN None ELSE young[p]]
  BY DEF CleanedUp
<1>2. young \in [Paths -> CachedModules] /\ \A p \in Paths : young[p] \in {None, modules[p]}
  BY YoungerFacts
<1>3. None \in CachedModules
  BY DEF CachedModules
<1> HIDE DEF young
<1>4. QED
  BY <1>1, <1>2, <1>3

\* A thread's cache may be replaced by one whose modules are not older than the files
\* at its last cleaning.
LEMMA CacheReplaced ==
  ASSUME RuntimeInv, NEW t \in Threads, NEW modules \in [Paths -> CachedModules],
         \A p \in Paths : modules[p] # None => fresh[t].files[p] <= modules[p].version,
         cache' = [cache EXCEPT ![t] = modules],
         UNCHANGED <<moduleFile, discovered, loaded, call, fresh, memoryVars>>
  PROVE  RuntimeInv'
<1> USE DEF RuntimeInv
<1>1. RuntimeTypeOK'
  BY DEF RuntimeTypeOK, memoryVars
<1>2. CacheInv'
  BY DEF CacheInv, RuntimeTypeOK
<1>3. LoadedInv' /\ ReloadSeesNewFile'
  BY DEF LoadedInv, ReloadSeesNewFile
<1>4. QED
  BY <1>1, <1>2, <1>3, MemoryKept DEF memoryVars

\* cleanup_cache.
LEMMA CleanupCacheStep ==
  ASSUME RuntimeInv, NEW t \in Threads, CleanupCache(t)
  PROVE  RuntimeInv'
<1>1. PICK modules \in CleanedUp(cache[t]) : cache' = [cache EXCEPT ![t] = modules]
  BY DEF CleanupCache
<1>2. cache[t] \in [Paths -> CachedModules]
  BY DEF RuntimeInv, RuntimeTypeOK
<1>3. /\ modules \in [Paths -> CachedModules]
      /\ \A p \in Paths : modules[p] \in {None, cache[t][p]}
  BY <1>2, CleanedUpFacts
<1>4. \A p \in Paths : modules[p] # None => fresh[t].files[p] <= modules[p].version
  BY <1>3 DEF RuntimeInv, CacheInv
<1>5. QED
  BY <1>1, <1>3, <1>4, CacheReplaced DEF CleanupCache

\* precompile_module: what it compiles is what the file is now.
LEMMA PrecompileStep ==
  ASSUME RuntimeInv, NEW t \in Threads, Precompile(t)
  PROVE  RuntimeInv'
<1> USE DEF RuntimeInv, RuntimeTypeOK
<1> DEFINE d == discovered[t]
           filled == Cached(t, d)[t]
<1>1. PICK modules \in CleanedUp(filled) : cache' = [cache EXCEPT ![t] = modules]
  BY DEF Precompile
<1>2. d \in Paths /\ moduleFile[d] \in Nat
  BY DEF Precompile, Versions
<1>3. filled = [cache[t] EXCEPT ![d] = [version |-> moduleFile[d], age |-> 0]]
  BY <1>2 DEF Precompile, Cached
<1>4. filled \in [Paths -> CachedModules]
  BY <1>2, <1>3 DEF CachedModules
<1>5. \A p \in Paths : filled[p] # None => fresh[t].files[p] <= filled[p].version
  BY <1>2, <1>3 DEF CacheInv
<1>6. /\ modules \in [Paths -> CachedModules]
      /\ \A p \in Paths : modules[p] \in {None, filled[p]}
  BY <1>4, CleanedUpFacts
<1> HIDE DEF filled
<1>7. \A p \in Paths : modules[p] # None => fresh[t].files[p] <= modules[p].version
  BY <1>5, <1>6
<1>8. QED
  BY <1>1, <1>6, <1>7, CacheReplaced DEF Precompile

\* clean_module_cache: with max_age 0 nothing is left, so that all that is known of the
\* cache afterwards is that it will be filled from the files of now or later ones.
LEMMA CleanModuleCacheStep ==
  ASSUME RuntimeInv, NEW t \in Threads, NEW age \in Nat, CleanModuleCache(t, age)
  PROVE  RuntimeInv'
<1> USE DEF RuntimeInv, CleanModuleCache
<1> DEFINE modules == Younger(cache[t], age)
<1>1. /\ modules \in [Paths -> CachedModules]
      /\ \A p \in Paths : modules[p] \in {None, cache[t][p]}
  BY YoungerFacts DEF RuntimeTypeOK
<1>2. cache' = [cache EXCEPT ![t] = modules]
  OBVIOUS
<1>3. CASE age # 0
  <2>1. \A p \in Paths : modules[p] # None => fresh[t].files[p] <= modules[p].version
    BY <1>1 DEF CacheInv
  <2> HIDE DEF modules
  <2>2. QED
    BY <1>1, <1>2, <1>3, <2>1, CacheReplaced
<1>4. CASE age = 0
  <2>1. \A p \in Paths : modules[p] = None
    BY <1>4 DEF Younger, RuntimeTypeOK, CachedModules
  <2> HIDE DEF modules
  <2>2. fresh' = [fresh EXCEPT ![t] = [times |-> @.times + 1, files |-> moduleFile]]
    BY <1>4
  <2>3. /\ fresh'[t].times = fresh[t].times + 1 /\ fresh'[t].files = moduleFile
        /\ fresh[t].times \in Nat
        /\ \A u \in Threads : u # t => fresh'[u] = fresh[u]
    BY <2>2 DEF RuntimeTypeOK
  <2>4. RuntimeTypeOK'
    BY <1>1, <1>2, <2>2 DEF RuntimeTypeOK, memoryVars
  <2>5. CacheInv'
    BY <1>2, <2>1, <2>3 DEF CacheInv, RuntimeTypeOK, Versions
  <2>6. LoadedInv'
    BY <2>3 DEF LoadedInv, RuntimeTypeOK, LoadedGenerators
  <2>7. ReloadSeesNewFile'
    <3>1. \A n \in Names : loaded[t][n] # None => loaded[t][n].since # fresh'[t].times
      BY <2>3 DEF LoadedInv, RuntimeTypeOK, LoadedGenerators
    <3>2. QED
      BY <2>3, <3>1 DEF ReloadSeesNewFile
  <2>8. QED
    BY <2>4, <2>5, <2>6, <2>7, MemoryKept
<1>5. QED
  BY <1>3, <1>4

-----------------------------------------------------------------------------
\* execute_generator: it may load the generator first.
LEMMA ExecuteLoadsStep ==
  ASSUME RuntimeInv, NEW t \in Threads, NEW n \in Names, NEW size \in InputSizes,
         ExecuteLoads(t, n, size)
  PROVE  RuntimeInv'
<1> USE DEF RuntimeInv, ExecuteLoads, memoryVars
<1>1. /\ cache' \in [Threads -> [Paths -> CachedModules]]
      /\ loaded' \in [Threads -> [Names -> LoadedGenerators]]
      /\ CacheInv' /\ LoadedInv' /\ ReloadSeesNewFile'
  <2>1. CASE UNCHANGED <<cache, loaded>>
    BY <2>1 DEF RuntimeTypeOK, CacheInv, LoadedInv, ReloadSeesNewFile
  <2>2. CASE discovered[t] # None /\ LoadFromPath(t, n, discovered[t])
    <3>1. discovered[t] \in Paths
      BY <2>2 DEF RuntimeTypeOK
    <3>2. QED
      BY <2>2, <3>1, LoadFromPathFacts
  <2>3. QED
    BY <2>1, <2>2
<1>2. call' \in [Threads -> CallStates]
  BY RuntimeAssumption DEF RuntimeTypeOK, CallStates, Idle
<1>3. OffsetInv' /\ RefusedOnlyWhenSpent'
  BY DEF OffsetInv, RefusedOnlyWhenSpent, AtCall, RuntimeTypeOK, Idle
<1>4. QED
  BY <1>1, <1>2, <1>3 DEF RuntimeTypeOK

LEMMA ExecuteFailsStep ==
  ASSUME RuntimeInv, NEW t \in Threads, NEW n \in Names, ExecuteFails(t, n)
  PROVE  RuntimeInv'
BY MemoryKept
   DEF ExecuteFails, RuntimeInv, RuntimeTypeOK, CacheInv, LoadedInv, ReloadSeesNewFile, memoryVars

\* What does not concern the modules leaves what is known of them.
LEMMA ModulesKept ==
  ASSUME RuntimeInv, UNCHANGED <<moduleFile, cache, loaded, fresh>>
  PROVE  CacheInv' /\ LoadedInv' /\ ReloadSeesNewFile'
BY DEF RuntimeInv, CacheInv, LoadedInv, ReloadSeesNewFile

\* An execution that goes on keeps its type.
LEMMA CallGoesOn ==
  ASSUME NEW c \in CallStates, NEW v \in Nat
  PROVE  /\ [c EXCEPT !.pc = "load-offset", !.ptr = v] \in CallStates
         /\ [c EXCEPT !.pc = "store-offset", !.sum = v] \in CallStates
         /\ [c EXCEPT !.pc = "run"] \in CallStates
BY DEF CallStates

\* The steps of an execution.  A refused input did not fit behind OFFSET, and OFFSET is
\* no further than what was spent; the addition is made of the OFFSET there is, so that
\* a sum exceeds what was spent before it by its own input at most.
LEMMA ExecuteStepStep ==
  ASSUME RuntimeInv, NEW t \in Threads, ExecuteStep(t)
  PROVE  RuntimeInv'
<1> USE DEF RuntimeInv
<1>1. /\ call \in [Threads -> CallStates] /\ call[t].size \in Nat /\ call[t].sum \in Nat
      /\ offset \in Nat /\ spent \in Nat
      /\ FirstOffset \in Nat /\ Padding \in Nat /\ Memory \in Nat
  BY RuntimeAssumption DEF RuntimeTypeOK, CallStates
<1>2. Idle \in CallStates
  BY DEF Idle, CallStates
<1>3. CASE ReadOffset(t)
  <2> USE <1>3 DEF ReadOffset
  <2>1. call' \in [Threads -> CallStates]
    <3>1. [call[t] EXCEPT !.pc = "load-offset", !.ptr = offset] \in CallStates
      BY <1>1, CallGoesOn
    <3>2. call' = [call EXCEPT ![t] = Idle]
            \/ call' = [call EXCEPT ![t] = [call[t] EXCEPT !.pc = "load-offset", !.ptr = offset]]
      BY <1>1
    <3>3. QED
      BY <1>1, <1>2, <3>1, <3>2
  <2>2. RuntimeTypeOK'
    BY <1>1, <2>1 DEF RuntimeTypeOK
  <2>3. OffsetInv'
    <3>1. ~AtCall(t, "store-offset")'
      BY <1>1 DEF AtCall, Idle, CallStates
    <3>2. \A u \in Threads : u # t => call'[u] = call[u]
      BY <1>1
    <3>3. QED
      BY <3>1, <3>2 DEF OffsetInv, AtCall
  <2>4. RefusedOnlyWhenSpent'
    <3>1. CASE offset + call[t].size > Memory
      BY <1>1, <3>1 DEF RefusedOnlyWhenSpent, OffsetInv
    <3>2. CASE ~(offset + call[t].size > Memory)
      BY <3>2 DEF RefusedOnlyWhenSpent
    <3>3. QED
      BY <3>1, <3>2
  <2>5. QED
    BY <2>2, <2>3, <2>4, ModulesKept
<1>4. CASE LoadOffset(t)
  <2> USE <1>4 DEF LoadOffset
  <2> DEFINE sum == offset + call[t].size + Padding
  <2>1. call' \in [Threads -> CallStates]
    <3>1. [call[t] EXCEPT !.pc = "store-offset", !.sum = sum] \in CallStates
      <4>1. sum \in Nat /\ call[t] \in CallStates
        BY <1>1
      <4> HIDE DEF sum
      <4>2. QED
        BY <4>1, CallGoesOn
    <3>2. call' = [call EXCEPT ![t] = [call[t] EXCEPT !.pc = "store-offset", !.sum = sum]]
      BY <1>1
    <3>3. QED
      BY <1>1, <3>1, <3>2
  <2>2. RuntimeTypeOK'
    <3>1. spent' \in Nat
      BY <1>1
    <3>2. QED
      BY <1>1, <2>1, <3>1 DEF RuntimeTypeOK
  <2>3. OffsetInv'
    <3>1. \A u \in Threads : call[u].sum \in Nat
      BY <1>1 DEF CallStates
    <3>2. call'[t].sum <= FirstOffset + spent'
      <4>1. call'[t].sum = sum
        BY <1>1 DEF CallStates
      <4>2. offset <= FirstOffset + spent
        BY DEF OffsetInv
      <4>3. QED
        BY <1>1, <4>1, <4>2
    <3>3. \A u \in Threads : u # t => call'[u] = call[u]
      BY <1>1
    <3>4. spent <= spent' /\ spent' \in Nat /\ offset' = offset
      BY <1>1
    <3>5. QED
      BY <1>1, <3>1, <3>2, <3>3, <3>4 DEF OffsetInv, AtCall
  <2>4. RefusedOnlyWhenSpent'
    BY DEF RefusedOnlyWhenSpent
  <2>5. QED
    BY <2>2, <2>3, <2>4, ModulesKept
<1>5. CASE StoreOffset(t)
  <2> USE <1>5 DEF StoreOffset
  <2>1. call' \in [Threads -> CallStates]
    <3>1. [call[t] EXCEPT !.pc = "run"] \in CallStates
      BY <1>1, CallGoesOn
    <3>2. call' = [call EXCEPT ![t] = [call[t] EXCEPT !.pc = "run"]]
      BY <1>1
    <3>3. QED
      BY <1>1, <3>1, <3>2
  <2>2. RuntimeTypeOK'
    BY <1>1, <2>1 DEF RuntimeTypeOK
  <2>3. OffsetInv' /\ RefusedOnlyWhenSpent'
    BY <1>1 DEF OffsetInv, RefusedOnlyWhenSpent, AtCall, CallStates
  <2>4. QED
    BY <2>2, <2>3, ModulesKept
<1>6. CASE RunGenerator(t)
  <2> USE <1>6 DEF RunGenerator, memoryVars
  <2>1. RuntimeTypeOK'
    BY <1>1, <1>2 DEF RuntimeTypeOK
  <2>2. OffsetInv' /\ RefusedOnlyWhenSpent'
    BY <1>1 DEF OffsetInv, RefusedOnlyWhenSpent, AtCall, Idle
  <2>3. QED
    BY <2>1, <2>2, ModulesKept
<1>7. QED
  BY <1>3, <1>4, <1>5, <1>6 DEF ExecuteStep

-----------------------------------------------------------------------------
\* Whatever the embedding program calls.
LEMMA EmbedderCallsStep ==
  ASSUME RuntimeInv, NEW t \in Threads, EmbedderCalls(t)
  PROVE  RuntimeInv'
<1>1. ASSUME NEW age \in 0 .. CacheTtl, CleanModuleCache(t, age)
      PROVE  RuntimeInv'
  BY <1>1, CleanModuleCacheStep
<1>2. QED
  BY <1>1, RegistryStep, LoadFromRegistryStep, LoadStep, LoadBytesStep, ExecuteFailsStep,
     ExecuteLoadsStep, CleanupCacheStep, PrecompileStep
     DEF EmbedderCalls

\* A file on disk only gets newer.
LEMMA InstallModuleStep ==
  ASSUME RuntimeInv, InstallModule
  PROVE  RuntimeInv'
<1> USE DEF RuntimeInv, InstallModule
<1>1. moduleFile' \in Versions /\ \A p \in Paths : moduleFile[p] <= moduleFile'[p]
  BY DEF RuntimeTypeOK, Versions
<1>2. RuntimeTypeOK'
  BY <1>1 DEF RuntimeTypeOK, memoryVars
<1>3. CacheInv'
  BY <1>1, <1>2 DEF CacheInv, RuntimeTypeOK, Versions
<1>4. QED
  BY <1>2, <1>3, MemoryKept DEF LoadedInv, ReloadSeesNewFile

\* Time passes: the modules in the cache get older, and are the same.
LEMMA TickStep ==
  ASSUME RuntimeInv, Tick
  PROVE  RuntimeInv'
<1> USE DEF RuntimeInv, Tick
<1>1. ASSUME NEW t \in Threads, NEW p \in Paths
      PROVE  /\ cache'[t][p] \in CachedModules
             /\ cache[t][p] = None => cache'[t][p] = None
             /\ cache[t][p] # None => cache'[t][p].version = cache[t][p].version
  BY RuntimeAssumption DEF RuntimeTypeOK, CachedModules
<1>2. cache' \in [Threads -> [Paths -> CachedModules]]
  BY <1>1
<1>3. RuntimeTypeOK'
  BY <1>2 DEF RuntimeTypeOK, memoryVars
<1>4. CacheInv'
  BY <1>1 DEF CacheInv
<1>5. QED
  BY <1>3, <1>4, MemoryKept DEF LoadedInv, ReloadSeesNewFile

LEMMA RuntimeInvStep == RuntimeInv /\ [RuntimeNext]_runtimeVars => RuntimeInv'
<1>1. ASSUME RuntimeInv, UNCHANGED runtimeVars
      PROVE  RuntimeInv'
  BY <1>1, MemoryKept, ModulesKept DEF RuntimeInv, RuntimeTypeOK, runtimeVars, memoryVars
<1>2. QED
  BY <1>1, EmbedderCallsStep, ExecuteStepStep, InstallModuleStep, TickStep DEF RuntimeNext

-----------------------------------------------------------------------------
(* Whatever the threads of a program do between the load and the store of    *)
(* OFFSET (lib.rs:1196, :1207), OFFSET and every sum that waits to be stored *)
(* stay within what was written.                                             *)
THEOREM RuntimeInvariant == RuntimeSpec => []RuntimeInv
BY RuntimeInvInit, RuntimeInvStep, PTL DEF RuntimeSpec

(* An input is refused for memory only if the inputs written before it, in   *)
(* any interleaving of any number of threads, leave no room for it.          *)
THEOREM RefusalsAreSpent == RuntimeSpec => []RefusedOnlyWhenSpent
<1>1. RuntimeInv => RefusedOnlyWhenSpent
  BY DEF RuntimeInv
<1>2. QED
  BY <1>1, RuntimeInvariant, PTL

(* A generator that is loaded after its cache was cleaned with max_age 0 is  *)
(* the file as it was then or a later one, through any sequence of loads,    *)
(* compilations, clean-ups and replacements of the files.                    *)
THEOREM ReloadsAreFresh == RuntimeSpec => []ReloadSeesNewFile
<1>1. RuntimeInv => ReloadSeesNewFile
  BY DEF RuntimeInv
<1>2. QED
  BY <1>1, RuntimeInvariant, PTL

-----------------------------------------------------------------------------
(***************************************************************************)
(* csilgen generate.                                                       *)
(***************************************************************************)
Contents == [kind : {"generated", "torn", "descriptor"}, entry : Files, invocation : Nat]

PipelineSteps ==
  {"ended", "select", "preflight", "runtime", "entry", "execute", "collision", "write"}

PipelineTypeOK ==
  /\ at \in PipelineSteps /\ exit \in {"running", "ok", "errors", "failed", "killed"}
  /\ inputs \in SUBSET Files /\ emitSchema \in BOOLEAN /\ selected \in SUBSET Files
  /\ entries \in Seq(Files) /\ toWrite \in Seq(OutputPaths)
  /\ errors \in Nat /\ invocation \in Nat
  /\ disk \in [OutputPaths -> Contents \union {None}]

Remaining == {entries[i] : i \in DOMAIN entries}
Done == selected \ Remaining

\* The entries are processed in the order of their paths.
EntriesInv ==
  /\ Remaining \subseteq selected
  /\ \A i, j \in DOMAIN entries : i < j => entries[i] < entries[j]
  /\ \A f \in Done : \A g \in Remaining : f < g
  /\ at = "select" => selected = {} /\ errors = 0
  /\ at \in {"preflight", "runtime"} => Done = {} /\ errors = 0
  /\ at \in {"ended", "select"} \/ entries # <<>>
  /\ at = "ended" <=> exit # "running"
  /\ exit \in {"ok", "errors"} => entries = <<>>
  /\ exit = "ok" => errors = 0

\* Nothing on disk is from a later invocation or a later entry.
DiskInv ==
  \A p \in OutputPaths : disk[p] # None =>
    /\ disk[p].invocation <= invocation
    /\ (disk[p].invocation = invocation /\ at # "ended") =>
         \/ disk[p].entry \in Done
         \/ at = "write" /\ disk[p] = Content("generated")

\* The files of the entry being written are new, but for those still to be written.
WritingInv ==
  at = "write" =>
    /\ \A i \in DOMAIN toWrite : toWrite[i] \in Range(Outputs[Entry])
    /\ \A p \in Range(Outputs[Entry]) \ Range(toWrite) : disk[p] = Content("generated")

Whole(f) ==
  \A p \in Range(Outputs[f]) :
    /\ disk[p] # None /\ disk[p].kind # "torn" /\ disk[p].invocation = invocation
    /\ disk[p].entry >= f

\* What is on disk of the entries that have been processed.
Progress ==
  /\ emitSchema => \A f, g \in selected : SchemaPath[f] = SchemaPath[g] => f = g
  /\ emitSchema => errors = Cardinality({f \in Done : ~Delivered(f)})
  /\ ~emitSchema => \A f \in selected : disk[SchemaPath[f]] = None
  /\ errors = 0 => \A f \in Done : Whole(f)

ProgressInv ==
  (at \notin {"ended", "select", "preflight"} \/ exit \in {"ok", "errors"}) => Progress

PipelineInv ==
  PipelineTypeOK /\ EntriesInv /\ DiskInv /\ WritingInv /\ ProgressInv /\ DescriptorAfterFiles

-----------------------------------------------------------------------------
(* A finite set of numbers has an increasing enumeration: a number's place   *)
(* is how many are no greater.                                               *)
LEMMA SortedFiles ==
  ASSUME NEW S \in SUBSET Files
  PROVE  /\ Sorted(S) \in Seq(Files) /\ {Sorted(S)[i] : i \in DOMAIN Sorted(S)} = S
         /\ \A i, j \in DOMAIN Sorted(S) : i < j => Sorted(S)[i] < Sorted(S)[j]
<1> DEFINE n == Cardinality(S)
           Lower(x) == {y \in S : y <= x}
           place == [x \in S |-> Cardinality(Lower(x))]
           s == [i \in 1 .. n |-> CHOOSE x \in S : place[x] = i]
           Increasing(t) == \A i, j \in DOMAIN t : i < j => t[i] < t[j]
<1>0. S \subseteq Nat /\ IsFiniteSet(S) /\ n \in Nat
  BY FilesAssumption, PipelineAssumption, FS_Subset, FS_CardinalityType
<1>1. ASSUME NEW x \in S
      PROVE  Cardinality(Lower(x)) \in 1 .. n
  <2>1. Lower(x) \in SUBSET S /\ x \in Lower(x)
    BY <1>0
  <2>2. IsFiniteSet(Lower(x)) /\ Cardinality(Lower(x)) <= n
    BY <1>0, <2>1, FS_Subset
  <2>3. Cardinality(Lower(x)) \in Nat /\ Cardinality(Lower(x)) # 0
    BY <2>1, <2>2, FS_CardinalityType, FS_EmptySet
  <2>4. QED
    BY <1>0, <2>2, <2>3
<1>2. ASSUME NEW x \in S, NEW y \in S, x < y
      PROVE  place[x] < place[y]
  <2>0. x \in Nat /\ y \in Nat /\ \A z \in S : z \in Nat
    BY <1>0
  <2>01. (\A z \in S : z <= x => z <= y) /\ y <= y /\ ~(y <= x)
    BY <1>2, <2>0
  <2>1. Lower(x) \in SUBSET Lower(y) /\ y \in Lower(y) /\ y \notin Lower(x)
    BY <2>01
  <2>2. Lower(y) \in SUBSET S
    OBVIOUS
  <2>3. IsFiniteSet(Lower(y))
    BY <1>0, <2>2, FS_Subset
  <2>4. Cardinality(Lower(x)) <= Cardinality(Lower(y)) /\ Cardinality(Lower(y)) # Cardinality(Lower(x))
    BY <2>1, <2>3, FS_Subset
  <2>5. Cardinality(Lower(x)) \in 1 .. n /\ Cardinality(Lower(y)) \in 1 .. n
    BY <1>1
  <2> HIDE DEF Lower
  <2>6. QED
    BY <1>0, <2>4, <2>5
<1>3. place \in [S -> 1 .. n]
  BY <1>1
<1> HIDE DEF place
<1>4. place \in Injection(S, 1 .. n)
  <2>1. \A x, y \in S : place[x] = place[y] => x = y
    <3> SUFFICES ASSUME NEW x \in S, NEW y \in S, place[x] = place[y], x # y
                 PROVE  FALSE
      OBVIOUS
    <3>1. place[x] \in Nat /\ (x < y \/ y < x)
      BY <1>0, <1>3
    <3>2. QED
      BY <1>2, <3>1
  <2>2. QED
    BY <1>3, <2>1 DEF Injection, IsInjective
<1>5. IsFiniteSet(1 .. n) /\ Cardinality(1 .. n) = n
  BY <1>0, FS_Interval
<1>6. place \in Surjection(S, 1 .. n)
  BY <1>4, <1>5, FS_Injection
<1>7. \A i \in 1 .. n : s[i] \in S /\ place[s[i]] = i
  BY <1>6 DEF Surjection
<1>8. s \in [1 .. n -> S] /\ DOMAIN s = 1 .. n
  BY <1>7
<1> HIDE DEF s
<1>9. Increasing(s)
  <2> SUFFICES ASSUME NEW i \in 1 .. n, NEW j \in 1 .. n, i < j, ~(s[i] < s[j])
               PROVE  FALSE
    BY <1>8
  <2>1. s[i] \in S /\ s[j] \in S /\ place[s[i]] = i /\ place[s[j]] = j
    BY <1>7
  <2>2. s[i] \in Nat /\ s[j] \in Nat
    BY <1>0, <2>1
  <2>3. s[j] < s[i] \/ s[i] = s[j]
    BY <2>2
  <2>4. CASE s[j] < s[i]
    <3>1. j < i
      BY <1>2, <2>1, <2>4
    <3>2. QED
      BY <1>0, <3>1
  <2>5. QED
    BY <1>0, <2>1, <2>3, <2>4
<1>10. Sorted(S) \in [1 .. n -> S] /\ Increasing(Sorted(S))
  BY <1>8, <1>9 DEF Sorted
<1> DEFINE t == Sorted(S)
<1> HIDE DEF t
<1>11. t \in [1 .. n -> S] /\ Increasing(t)
  BY <1>10 DEF t
<1>12. t \in Injection(1 .. n, S)
  <2>1. ASSUME NEW i \in 1 .. n, NEW j \in 1 .. n, t[i] = t[j], i # j
        PROVE  FALSE
    <3>1. t[i] \in S /\ t[j] \in S /\ DOMAIN t = 1 .. n
      BY <1>11
    <3>2. t[i] \in Nat /\ t[j] \in Nat /\ i \in Nat /\ j \in Nat
      <4>1. t[i] \in Nat /\ t[j] \in Nat
        BY <1>0, <3>1
      <4>2. i \in Nat /\ j \in Nat
        BY <1>0
      <4>3. QED
        BY <4>1, <4>2
    <3>3. i < j \/ j < i
      BY <2>1, <3>2
    <3>4. t[i] < t[j] \/ t[j] < t[i]
      BY <1>11, <3>1, <3>3
    <3>5. QED
      BY <2>1, <3>2, <3>4
  <2>2. QED
    BY <1>11, <2>1 DEF Injection, IsInjective
<1>13. t \in Surjection(1 .. n, S)
  BY <1>0, <1>5, <1>12, FS_Injection
<1>14. {t[i] : i \in DOMAIN t} = S
  BY <1>11, <1>13 DEF Surjection
<1>15. t \in Seq(Files)
  <2>1. t \in [1 .. n -> Files]
    BY <1>11
  <2>2. QED
    BY <1>0, <2>1, SeqDef
<1>16. QED
  BY <1>11, <1>14, <1>15 DEF t

-----------------------------------------------------------------------------
LEMMA PipelineInvInit == PipelineInit => PipelineInv
<1> SUFFICES ASSUME PipelineInit
             PROVE  PipelineInv
  OBVIOUS
<1> USE DEF PipelineInit
<1>1. PipelineTypeOK
  BY EmptySeq DEF PipelineTypeOK, PipelineSteps
<1>2. entries = <<>> /\ DOMAIN entries = {} /\ Remaining = {} /\ Done = {}
  BY EmptySeq DEF Remaining, Done
<1>3. EntriesInv /\ WritingInv /\ ProgressInv
  BY <1>2 DEF EntriesInv, WritingInv, ProgressInv
<1>4. \A p \in OutputPaths : disk[p] = None
  OBVIOUS
<1>5. DiskInv /\ DescriptorAfterFiles
  BY <1>4 DEF DiskInv, DescriptorAfterFiles, IsDescriptor, OutputPaths
<1>6. QED
  BY <1>1, <1>3, <1>5 DEF PipelineInv

(* The paths of a file are among OutputPaths, and never those of a descriptor. *)
LEMMA PathFacts ==
  ASSUME NEW f \in Files
  PROVE  /\ SchemaPath[f] \in OutputPaths
         /\ \A p \in Range(Outputs[f]) :
              p \in OutputPaths /\ \A g \in Files : SchemaPath[g] # p
         /\ Outputs[f] \in Seq(OutputPaths)
<1>1. SchemaPath[f] \in OutputPaths /\ Range(Outputs[f]) \subseteq OutputPaths
  BY DEF OutputPaths
<1>2. Outputs[f] \in Seq(Range(Outputs[f])) /\ \A g \in Files : SchemaPath[g] \notin Range(Outputs[f])
  BY PipelineAssumption
<1>3. Outputs[f] \in Seq(OutputPaths)
  BY <1>1, <1>2, SeqMonotonic
<1>4. QED
  BY <1>1, <1>2, <1>3

\* What the process writes is a content, and it knows where it comes from.
LEMMA ContentFacts ==
  ASSUME PipelineTypeOK, entries # <<>>, NEW kind \in {"generated", "torn", "descriptor"}
  PROVE  /\ Entry \in Files /\ Content(kind) \in Contents /\ Content(kind) # None
         /\ Content(kind).kind = kind /\ Content(kind).entry = Entry
         /\ Content(kind).invocation = invocation
<1>1. Entry \in Files /\ invocation \in Nat
  BY DEF PipelineTypeOK, Entry
<1>2. Content(kind) \in Contents
  BY <1>1 DEF Content, Contents
<1>3. None \notin Contents
  BY PipelineAssumption DEF Contents
<1>4. QED
  BY <1>1, <1>2, <1>3 DEF Content

\* The first entry comes before the others and after those that have been processed.
LEMMA EntryFacts ==
  ASSUME PipelineTypeOK, EntriesInv, entries # <<>>
  PROVE  /\ Entry \in Remaining /\ Entry \in selected /\ Entry \notin Done
         /\ \A f \in Done : f < Entry
         /\ \A f \in selected : f \in Nat
         /\ Tail(entries) \in Seq(Files)
         /\ {Tail(entries)[i] : i \in DOMAIN Tail(entries)} = Remaining \ {Entry}
         /\ \A i, j \in DOMAIN Tail(entries) : i < j => Tail(entries)[i] < Tail(entries)[j]
         /\ \A g \in Remaining \ {Entry} : Entry < g
         /\ Len(entries) > 1 <=> Tail(entries) # <<>>
<1> DEFINE n == Len(entries)
<1>1. /\ entries \in Seq(Files) /\ n \in Nat /\ n > 0 /\ DOMAIN entries = 1 .. n
      /\ Entry = entries[1] /\ Files \subseteq Nat /\ selected \subseteq Files
  BY EmptySeq, LenProperties, PipelineAssumption DEF PipelineTypeOK, Entry
<1>2. /\ Tail(entries) \in Seq(Files) /\ Len(Tail(entries)) = n - 1
      /\ \A i \in 1 .. n - 1 : Tail(entries)[i] = entries[i + 1]
  BY <1>1, HeadTailProperties
<1>3. DOMAIN Tail(entries) = 1 .. n - 1
  BY <1>2, LenProperties
<1>4. \A i \in 1 .. n : entries[i] \in Nat /\ entries[i] \in Remaining
  BY <1>1, ElementOfSeq DEF Remaining
<1>5. \A i, j \in 1 .. n : i < j => entries[i] < entries[j]
  BY <1>1 DEF EntriesInv
<1>6. \A i \in 2 .. n : entries[1] < entries[i]
  BY <1>1, <1>5
<1>7. Entry \in Remaining /\ Entry \in selected /\ Entry \notin Done /\ \A f \in Done : f < Entry
  BY <1>1, <1>4 DEF EntriesInv, Done
<1>8. {Tail(entries)[i] : i \in DOMAIN Tail(entries)} = {entries[i] : i \in 2 .. n}
  <2>1. ASSUME NEW i \in 2 .. n
        PROVE  i - 1 \in 1 .. n - 1 /\ (i - 1) + 1 = i
    BY <1>1
  <2>2. ASSUME NEW i \in 1 .. n - 1
        PROVE  i + 1 \in 2 .. n
    BY <1>1
  <2>3. \A i \in 2 .. n : entries[i] = Tail(entries)[i - 1]
    BY <1>2, <2>1
  <2>4. \A x : x \in {Tail(entries)[i] : i \in DOMAIN Tail(entries)}
               <=> \E i \in 1 .. n - 1 : x = Tail(entries)[i]
    BY <1>3
  <2>5. \A x : (\E i \in 1 .. n - 1 : x = Tail(entries)[i]) <=> \E i \in 2 .. n : x = entries[i]
    <3> HIDE DEF n
    <3>1. ASSUME NEW x, NEW i \in 1 .. n - 1, x = Tail(entries)[i]
          PROVE  \E j \in 2 .. n : x = entries[j]
      BY <1>2, <2>2, <3>1
    <3>2. ASSUME NEW x, NEW i \in 2 .. n, x = entries[i]
          PROVE  \E j \in 1 .. n - 1 : x = Tail(entries)[j]
      BY <2>1, <2>3, <3>2
    <3>3. QED
      BY <3>1, <3>2
  <2>6. QED
    BY <2>4, <2>5
<1>9. {entries[i] : i \in 2 .. n} = Remaining \ {Entry}
  <2>1. \A i \in 2 .. n : i \in 1 .. n /\ entries[i] # entries[1]
    BY <1>1, <1>4, <1>6
  <2>2. \A i \in 1 .. n : i = 1 \/ i \in 2 .. n
    BY <1>1
  <2>3. QED
    BY <1>1, <2>1, <2>2 DEF Remaining
<1>10. \A i, j \in 1 .. n - 1 : i < j => Tail(entries)[i] < Tail(entries)[j]
  <2>1. ASSUME NEW i \in 1 .. n - 1, NEW j \in 1 .. n - 1, i < j
        PROVE  Tail(entries)[i] < Tail(entries)[j]
    <3>1. i + 1 \in 1 .. n /\ j + 1 \in 1 .. n /\ i + 1 < j + 1
      BY <1>1, <2>1
    <3>2. QED
      BY <1>2, <1>5, <3>1
  <2>2. QED
    BY <2>1
<1>11. n > 1 <=> Tail(entries) # <<>>
  <2>1. Tail(entries) # <<>> <=> n - 1 # 0
    BY <1>2, EmptySeq
  <2>2. QED
    BY <1>1, <2>1
<1>12. \A g \in Remaining \ {Entry} : Entry < g
  BY <1>1, <1>6, <1>9
<1>13. \A f \in selected : f \in Nat
  BY <1>1
<1>14. \A i, j \in DOMAIN Tail(entries) : i < j => Tail(entries)[i] < Tail(entries)[j]
  BY <1>3, <1>10
<1>15. QED
  BY <1>2, <1>7, <1>8, <1>9, <1>11, <1>12, <1>13, <1>14

-----------------------------------------------------------------------------
(* What a step may do to the disk while an entry is processed: to put        *)
(* something of this entry in the place of what was there.                   *)
Puts(p, kind) == disk' = [disk EXCEPT ![p] = Content(kind)]

LEMMA PutFacts ==
  ASSUME PipelineTypeOK, entries # <<>>, NEW p \in OutputPaths,
         NEW kind \in {"generated", "torn", "descriptor"}, Puts(p, kind)
  PROVE  /\ disk' \in [OutputPaths -> Contents \union {None}]
         /\ disk'[p] = Content(kind)
         /\ \A q \in OutputPaths : q # p => disk'[q] = disk[q]
BY ContentFacts DEF Puts, PipelineTypeOK

\* Descriptors stay where generated files are written, and so does what is known of them.
LEMMA GeneratedPut ==
  ASSUME PipelineTypeOK, EntriesInv, DiskInv, DescriptorAfterFiles, entries # <<>>,
         at \notin {"ended", "select"}, invocation' = invocation,
         NEW p \in Range(Outputs[Entry]), NEW kind \in {"generated", "torn"}, Puts(p, kind)
  PROVE  /\ \A f \in Files : disk'[SchemaPath[f]] = disk[SchemaPath[f]]
         /\ \A f \in Files : Delivered(f)' <=> Delivered(f)
         /\ DescriptorAfterFiles'
<1>1. /\ Entry \in Files /\ p \in OutputPaths /\ kind \in {"generated", "torn", "descriptor"}
      /\ \A f \in Files : SchemaPath[f] \in OutputPaths /\ SchemaPath[f] # p
  BY PathFacts, ContentFacts
<1>2. /\ disk'[p] = Content(kind) /\ Content(kind) # None
      /\ Content(kind).invocation = invocation /\ Content(kind).entry = Entry
      /\ \A q \in OutputPaths : q # p => disk'[q] = disk[q]
  BY <1>1, PutFacts, ContentFacts
<1>3. \A f \in Files : disk'[SchemaPath[f]] = disk[SchemaPath[f]]
  BY <1>1, <1>2
<1>4. \A f \in Files : Delivered(f)' <=> Delivered(f)
  BY <1>3 DEF Delivered, IsDescriptor
<1>5. ASSUME NEW f \in Files, IsDescriptor(disk[SchemaPath[f]], f), NEW q \in Range(Outputs[f])
      PROVE  NotOlder(disk'[q], disk'[SchemaPath[f]])
  <2>1. q \in OutputPaths /\ NotOlder(disk[q], disk[SchemaPath[f]])
    BY <1>5, PathFacts DEF DescriptorAfterFiles
  <2>2. CASE q # p
    BY <1>2, <1>3, <2>1, <2>2
  <2>3. CASE q = p
    <3> DEFINE d == disk[SchemaPath[f]]
    <3>1. d # None /\ d.kind = "descriptor" /\ d.entry = f /\ d \in Contents
      BY <1>1, <1>5 DEF IsDescriptor, PipelineTypeOK
    <3>2. d.invocation <= invocation /\ (d.invocation = invocation => d.entry \in Done)
      <4>1. Content("generated").kind = "generated"
        BY ContentFacts
      <4>2. QED
        BY <1>1, <3>1, <4>1 DEF DiskInv
    <3>3. d.invocation \in Nat /\ invocation \in Nat
      BY <3>1 DEF Contents, PipelineTypeOK
    <3>4. d.invocation = invocation => Entry >= d.entry
      <4>1. d.entry \in Done => d.entry < Entry /\ d.entry \in Nat /\ Entry \in Nat
        BY EntryFacts DEF Done
      <4>2. QED
        BY <3>2, <4>1
    <3>5. invocation > d.invocation \/ (invocation = d.invocation /\ Entry >= d.entry)
      BY <3>2, <3>3, <3>4
    <3>6. NotOlder(Content(kind), d)
      BY <1>2, <3>5 DEF NotOlder
    <3>7. QED
      BY <1>2, <1>3, <2>3, <3>6
  <2>4. QED
    BY <2>2, <2>3
<1>6. DescriptorAfterFiles'
  BY <1>3, <1>5 DEF DescriptorAfterFiles
<1>7. QED
  BY <1>3, <1>4, <1>6

\* An entry that has not been processed has no descriptor of this invocation yet.
LEMMA NotDelivered ==
  ASSUME PipelineTypeOK, EntriesInv, DiskInv, entries # <<>>, at \notin {"ended", "select"},
         NEW f \in Remaining
  PROVE  ~Delivered(f)
<1>1. SchemaPath[f] \in OutputPaths
  BY PathFacts DEF EntriesInv, PipelineTypeOK
<1>2. Content("generated").kind = "generated"
  BY ContentFacts
<1>3. QED
  BY <1>1, <1>2 DEF DiskInv, Delivered, IsDescriptor, Done

-----------------------------------------------------------------------------
(* Where the end of an entry leads, given what has become of the disk: the   *)
(* entry joins those that are done, as an error exactly if its descriptor is *)
(* not new.                                                                  *)
LEMMA EntryEndsStep ==
  ASSUME PipelineInv, at \in {"entry", "execute", "collision", "write"},
         NEW failed \in {0, 1}, EntryEnds(failed),
         UNCHANGED <<inputs, emitSchema, selected, invocation>>,
         disk' \in [OutputPaths -> Contents \union {None}], DescriptorAfterFiles',
         \A p \in OutputPaths :
           disk'[p] = disk[p] \/ (disk'[p].entry = Entry /\ disk'[p].invocation = invocation),
         emitSchema => \A f \in Done : Delivered(f)' <=> Delivered(f),
         NEW e \in Files, e = Entry, emitSchema => (failed = 0 <=> Delivered(e)'),
         ~emitSchema => \A f \in selected : disk'[SchemaPath[f]] = disk[SchemaPath[f]],
         failed = 0 => Whole(e)' /\ \A f \in Done : Whole(f) => Whole(f)'
  PROVE  PipelineInv'
<1> USE DEF PipelineInv
<1>1. /\ at # "ended" /\ entries # <<>> /\ exit = "running" /\ errors \in Nat
      /\ entries' = Tail(entries) /\ toWrite' = <<>> /\ errors' = errors + failed /\ errors' \in Nat
      /\ at' \in {"ended", "entry"}
  BY DEF EntriesInv, PipelineTypeOK, EntryEnds
<1>2. /\ e \in Remaining /\ e \in selected /\ e \notin Done
      /\ \A f \in Done : f < e
      /\ entries' \in Seq(Files)
      /\ Remaining' = Remaining \ {e}
      /\ \A i, j \in DOMAIN entries' : i < j => entries'[i] < entries'[j]
      /\ \A g \in Remaining \ {e} : e < g
      /\ Len(entries) > 1 <=> entries' # <<>>
  <2>1. Remaining' = {Tail(entries)[i] : i \in DOMAIN Tail(entries)}
    BY <1>1 DEF Remaining
  <2>2. QED
    BY <1>1, <2>1, EntryFacts
<1>3. Done' = Done \union {e}
  BY <1>2 DEF Done
<1>4. PipelineTypeOK'
  <2>1. exit' \in {"running", "ok", "errors", "failed", "killed"}
    BY <1>1 DEF EntryEnds
  <2>2. toWrite' \in Seq(OutputPaths)
    BY <1>1, EmptySeq
  <2>3. QED
    BY <1>1, <1>2, <2>1, <2>2 DEF PipelineTypeOK, PipelineSteps
<1>5. /\ at' = "ended" <=> exit' # "running"
      /\ at' = "entry" => entries' # <<>>
      /\ exit' \in {"ok", "errors"} => entries' = <<>>
      /\ exit' = "ok" => errors' = 0
  BY <1>1, <1>2 DEF EntryEnds
<1>6. EntriesInv'
  <2>1. Remaining' \subseteq selected' /\ \A f \in Done' : \A g \in Remaining' : f < g
    BY <1>2, <1>3 DEF EntriesInv
  <2>2. QED
    BY <1>1, <1>2, <1>5, <2>1 DEF EntriesInv
<1>7. DiskInv'
  <2>1. ASSUME NEW p \in OutputPaths, disk'[p] # None
        PROVE  /\ disk'[p].invocation <= invocation
               /\ disk'[p].invocation = invocation => disk'[p].entry \in Done'
    <3>1. CASE disk'[p] = disk[p]
      <4>1. Content("generated").entry = e
        BY <1>1, ContentFacts
      <4>2. QED
        BY <1>1, <1>3, <2>1, <3>1, <4>1 DEF DiskInv
    <3>2. CASE disk'[p].entry = e /\ disk'[p].invocation = invocation
      <4>1. invocation <= invocation
        BY DEF PipelineTypeOK
      <4>2. QED
        BY <1>3, <3>2, <4>1
    <3>3. QED
      BY <3>1, <3>2
  <2>2. QED
    BY <2>1 DEF DiskInv
<1>8. WritingInv'
  BY <1>1 DEF WritingInv
<1>9. Progress'
  <2>1. Progress
    BY <1>1 DEF ProgressInv
  <2>2. ASSUME emitSchema
        PROVE  errors' = Cardinality({f \in Done' : ~Delivered(f)'})
    <3> DEFINE Lacking == {f \in Done : ~Delivered(f)}
               Lacking2 == {f \in Done' : ~Delivered(f)'}
    <3>1. Lacking2 = IF failed = 1 THEN Lacking \union {e} ELSE Lacking
      BY <1>2, <1>3, <2>2
    <3>2. IsFiniteSet(Lacking) /\ e \notin Lacking
      <4>1. Lacking \in SUBSET Files
        BY DEF Done, PipelineTypeOK
      <4>2. QED
        BY <1>2, <4>1, FilesAssumption, FS_Subset
    <3>3. errors = Cardinality(Lacking)
      BY <2>1, <2>2 DEF Progress
    <3> HIDE DEF Lacking, Lacking2
    <3>4. Cardinality(Lacking \union {e}) = Cardinality(Lacking) + 1
      BY <3>2, FS_AddElement
    <3>5. Cardinality(Lacking2) = errors'
      BY <1>1, <3>1, <3>3, <3>4
    <3>6. QED
      BY <3>5 DEF Lacking2
  <2>3. errors' = 0 => \A f \in Done' : Whole(f)'
    <3>1. errors' = 0 => errors = 0 /\ failed = 0
      BY <1>1
    <3>2. QED
      BY <1>3, <2>1, <3>1 DEF Progress
  <2>4. /\ emitSchema' => \A f, g \in selected' : SchemaPath[f] = SchemaPath[g] => f = g
        /\ ~emitSchema' => \A f \in selected' : disk'[SchemaPath[f]] = None
    BY <2>1 DEF Progress
  <2>5. QED
    BY <2>2, <2>3, <2>4 DEF Progress
<1>10. QED
  BY <1>4, <1>6, <1>7, <1>8, <1>9 DEF ProgressInv

\* Files that are not torn are still whole where a later entry has put one of its own.
LEMMA WholeKept ==
  ASSUME PipelineTypeOK, EntriesInv, entries # <<>>, invocation' = invocation,
         NEW p \in OutputPaths, NEW kind \in {"generated", "descriptor"}, Puts(p, kind)
  PROVE  \A f \in Done : Whole(f) => Whole(f)'
<1>1. /\ disk'[p] = Content(kind) /\ Content(kind) # None /\ Content(kind).kind = kind
      /\ Content(kind).invocation = invocation /\ Content(kind).entry = Entry
      /\ \A q \in OutputPaths : q # p => disk'[q] = disk[q]
  BY PutFacts, ContentFacts
<1>2. ASSUME NEW f \in Done, Whole(f)
      PROVE  Whole(f)'
  <2>1. Entry >= f /\ f \in Files
    <3>1. f < Entry /\ f \in Nat /\ Entry \in Nat
      BY EntryFacts DEF Done
    <3>2. f \in Files
      BY DEF Done, PipelineTypeOK
    <3>3. QED
      BY <3>1, <3>2
  <2>2. ASSUME NEW q \in Range(Outputs[f])
        PROVE  /\ disk'[q] # None /\ disk'[q].kind # "torn" /\ disk'[q].invocation = invocation'
               /\ disk'[q].entry >= f
    <3>1. q \in OutputPaths
      BY <2>1, PathFacts
    <3>2. CASE q = p
      BY <1>1, <2>1, <3>2
    <3>3. CASE q # p
      BY <1>1, <1>2, <3>1, <3>3 DEF Whole
    <3>4. QED
      BY <3>2, <3>3
  <2>3. QED
    BY <2>2 DEF Whole
<1>3. QED
  BY <1>2

-----------------------------------------------------------------------------
\* A process that ends before its time keeps the order of what is on disk.
LEMMA ExitStep ==
  ASSUME PipelineInv, at # "ended", NEW how \in {"failed", "killed"}, Exit(how),
         UNCHANGED <<inputs, emitSchema, selected, invocation>>,
         disk' \in [OutputPaths -> Contents \union {None}], DescriptorAfterFiles',
         \A p \in OutputPaths : disk'[p] # None => disk'[p].invocation <= invocation
  PROVE  PipelineInv'
<1> USE DEF PipelineInv
<1>1. /\ at' = "ended" /\ exit' \in {"failed", "killed"}
      /\ entries' = entries /\ toWrite' = toWrite /\ errors' = errors
  BY DEF Exit
<1>2. PipelineTypeOK'
  BY <1>1 DEF PipelineTypeOK, PipelineSteps
<1>3. Remaining' = Remaining /\ Done' = Done
  BY <1>1 DEF Remaining, Done
<1>4. EntriesInv'
  BY <1>1, <1>3 DEF EntriesInv
<1>5. DiskInv' /\ WritingInv' /\ ProgressInv'
  BY <1>1 DEF DiskInv, WritingInv, ProgressInv
<1>6. QED
  BY <1>2, <1>4, <1>5

\* The process goes on with its entry.
LEMMA GoOnStep ==
  ASSUME PipelineInv, at \in {"runtime", "entry", "execute", "collision"},
         at' \in {"entry", "execute", "collision", "write"},
         UNCHANGED <<exit, inputs, emitSchema, selected, entries, errors, invocation, disk>>,
         toWrite' = IF at' = "write" THEN Outputs[Entry] ELSE toWrite
  PROVE  PipelineInv'
<1> USE DEF PipelineInv
<1>1. entries # <<>> /\ Entry \in Files /\ Entry' = Entry
  BY ContentFacts DEF EntriesInv, Entry
<1>2. PipelineTypeOK'
  <2>1. toWrite' \in Seq(OutputPaths)
    BY <1>1, PathFacts DEF PipelineTypeOK
  <2>2. QED
    BY <2>1 DEF PipelineTypeOK, PipelineSteps
<1>3. Remaining' = Remaining /\ Done' = Done
  BY DEF Remaining, Done
<1>4. EntriesInv'
  BY <1>1, <1>3 DEF EntriesInv
<1>5. DiskInv'
  BY <1>3 DEF DiskInv
<1>6. WritingInv'
  <2>1. at' = "write" => toWrite' = Outputs[Entry]'
    BY <1>1
  <2>2. at' = "write" => \A i \in DOMAIN toWrite' : toWrite'[i] \in Range(Outputs[Entry]')
    BY <2>1 DEF Range
  <2>3. QED
    BY <2>1, <2>2 DEF WritingInv
<1>7. Progress' /\ DescriptorAfterFiles'
  <2>1. Progress
    BY DEF ProgressInv
  <2>2. \A f \in selected : Delivered(f)' <=> Delivered(f)
    BY DEF Delivered
  <2>3. {f \in Done' : ~Delivered(f)'} = {f \in Done : ~Delivered(f)}
    BY <1>3, <2>2 DEF Done
  <2>4. \A f \in Done : Whole(f) => Whole(f)'
    BY DEF Whole
  <2>5. Progress'
    BY <1>3, <2>1, <2>3, <2>4 DEF Progress
  <2>6. QED
    BY <2>5 DEF DescriptorAfterFiles
<1>8. QED
  BY <1>2, <1>4, <1>5, <1>6, <1>7 DEF ProgressInv

LEMMA InvokeStep == PipelineInv /\ Invoke => PipelineInv'
<1> SUFFICES ASSUME PipelineInv, Invoke
             PROVE  PipelineInv'
  OBVIOUS
<1> USE DEF PipelineInv, Invoke
<1>1. entries' = <<>> /\ DOMAIN entries' = {} /\ Remaining' = {} /\ Done' = {}
  BY EmptySeq DEF Remaining, Done
<1>2. PipelineTypeOK'
  BY EmptySeq DEF PipelineTypeOK, PipelineSteps
<1>3. EntriesInv' /\ WritingInv' /\ ProgressInv'
  BY <1>1 DEF EntriesInv, WritingInv, ProgressInv
<1>4. DiskInv'
  <2>1. ASSUME NEW p \in OutputPaths, disk[p] # None
        PROVE  disk[p].invocation < invocation'
    <3>1. disk[p].invocation \in Nat /\ invocation \in Nat /\ disk[p].invocation <= invocation
      BY <2>1 DEF DiskInv, PipelineTypeOK, Contents
    <3>2. QED
      BY <3>1
  <2>2. ASSUME NEW p \in OutputPaths, disk[p] # None
        PROVE  disk[p].invocation <= invocation' /\ disk[p].invocation # invocation'
    <3>1. disk[p].invocation \in Nat /\ invocation' \in Nat
      BY <1>2, <2>2 DEF PipelineTypeOK, Contents
    <3>2. QED
      BY <2>1, <2>2, <3>1
  <2>3. QED
    BY <2>2 DEF DiskInv
<1>5. DescriptorAfterFiles'
  BY DEF DescriptorAfterFiles
<1>6. QED
  BY <1>2, <1>3, <1>4, <1>5

LEMMA SelectEntriesStep == PipelineInv /\ SelectEntries => PipelineInv'
<1> SUFFICES ASSUME PipelineInv, SelectEntries
             PROVE  PipelineInv'
  OBVIOUS
<1> USE DEF PipelineInv, SelectEntries
<1>1. /\ at = "select" /\ at' = "preflight" /\ exit' = exit /\ toWrite' = toWrite /\ errors' = errors
      /\ inputs' = inputs /\ emitSchema' = emitSchema /\ invocation' = invocation /\ disk' = disk
      /\ entries' = Sorted(selected') /\ inputs \in SUBSET Files /\ exit = "running"
      /\ selected = {} /\ errors = 0
  BY DEF EntriesInv, PipelineTypeOK
<1>2. selected' \subseteq inputs /\ selected' # {}
  <2>1. CASE Single
    <3>1. Cardinality(inputs) # Cardinality({})
      BY <2>1, FS_EmptySet DEF Single
    <3>2. QED
      BY <2>1, <3>1
  <2>2. CASE ~Single
    <3>1. PICK imports \in [inputs -> SUBSET inputs] :
            /\ EntryPoints(ValidImports(imports, inputs)) # {}
            /\ selected' = EntryPoints(ValidImports(imports, inputs))
      BY <2>2
    <3>2. QED
      BY <3>1 DEF EntryPoints, ValidImports
  <2>3. QED
    BY <2>1, <2>2
<1>3. /\ entries' \in Seq(Files) /\ Remaining' = selected'
      /\ \A i, j \in DOMAIN entries' : i < j => entries'[i] < entries'[j]
  <2>1. selected' \in SUBSET Files
    BY <1>1, <1>2
  <2>2. QED
    BY <1>1, <2>1, SortedFiles DEF Remaining
<1>4. Done' = {} /\ entries' # <<>>
  <2>1. DOMAIN <<>> = {}
    BY EmptySeq
  <2>2. QED
    BY <1>2, <1>3, <2>1 DEF Done, Remaining
<1>5. PipelineTypeOK'
  BY <1>1, <1>2, <1>3 DEF PipelineTypeOK, PipelineSteps
<1>6. EntriesInv'
  BY <1>1, <1>3, <1>4 DEF EntriesInv
<1>7. DiskInv'
  <2>1. Done = {}
    BY <1>1 DEF Done
  <2>2. QED
    BY <1>1, <2>1 DEF DiskInv
<1>8. WritingInv' /\ ProgressInv' /\ DescriptorAfterFiles'
  BY <1>1 DEF WritingInv, ProgressInv, DescriptorAfterFiles
<1>9. QED
  BY <1>5, <1>6, <1>7, <1>8

LEMMA ReserveSchemaPathsStep == PipelineInv /\ ReserveSchemaPaths => PipelineInv'
<1> SUFFICES ASSUME PipelineInv, ReserveSchemaPaths
             PROVE  PipelineInv'
  OBVIOUS
<1> USE DEF PipelineInv, ReserveSchemaPaths
<1>1. \A p \in OutputPaths : disk'[p] # None => disk'[p].invocation <= invocation
  BY DEF DiskInv
<1>2. disk' \in [OutputPaths -> Contents \union {None}] /\ DescriptorAfterFiles'
  BY DEF PipelineTypeOK, DescriptorAfterFiles
<1>3. CASE Exit("failed")
  BY <1>1, <1>2, <1>3, ExitStep
<1>4. CASE /\ \A f, g \in selected : SchemaPath[f] = SchemaPath[g] => f = g
           /\ Goto("runtime") /\ UNCHANGED <<entries, toWrite, errors>>
  <2>1. at' = "runtime" /\ exit' = exit /\ entries' = entries /\ errors' = errors
    BY <1>4 DEF Goto
  <2>2. PipelineTypeOK'
    BY <1>4, <2>1 DEF PipelineTypeOK, PipelineSteps
  <2>3. Remaining' = Remaining /\ Done' = Done /\ Done = {} /\ errors = 0
    BY <2>1 DEF Remaining, Done, EntriesInv
  <2>4. EntriesInv' /\ DiskInv' /\ WritingInv'
    BY <2>1, <2>3 DEF EntriesInv, DiskInv, WritingInv
  <2>5. {f \in Done' : ~Delivered(f)'} = {}
    BY <2>3
  <2>6. Progress'
    BY <1>4, <2>1, <2>3, <2>5, FS_EmptySet DEF Progress
  <2>7. QED
    BY <1>2, <2>2, <2>4, <2>6 DEF ProgressInv
<1>5. QED
  BY <1>3, <1>4

LEMMA FirstPlaces ==
  ASSUME NEW n \in Nat, NEW k \in 0 .. n, NEW i \in 1 .. k
  PROVE  i \in 1 .. n
OBVIOUS

LEMMA RemoveStaleSchemasStep == PipelineInv /\ RemoveStaleSchemas => PipelineInv'
<1> SUFFICES ASSUME PipelineInv, RemoveStaleSchemas
             PROVE  PipelineInv'
  OBVIOUS
<1> USE DEF PipelineInv, RemoveStaleSchemas
<1>1. PICK k \in 0 .. Len(entries) :
        /\ disk' = NoDescriptors({entries[i] : i \in 1 .. k})
        /\ IF k = Len(entries)
           THEN Goto("runtime") /\ NoFault /\ UNCHANGED <<entries, toWrite, errors>>
           ELSE Exit("failed") /\ Fault
  OBVIOUS
<1> DEFINE files == {entries[i] : i \in 1 .. k}
<1>2. /\ files \subseteq Files /\ DOMAIN entries = 1 .. Len(entries)
      /\ k = Len(entries) => files = Remaining
  <2>1. DOMAIN entries = 1 .. Len(entries) /\ Len(entries) \in Nat
    BY LenProperties DEF PipelineTypeOK
  <2>2. \A i \in 1 .. k : i \in DOMAIN entries
    <3>1. k \in 0 .. Len(entries)
      BY <1>1
    <3>2. \A i \in 1 .. k : i \in 1 .. Len(entries)
      BY <2>1, <3>1, FirstPlaces
    <3>3. QED
      BY <2>1, <3>2
  <2>3. QED
    BY <2>1, <2>2, ElementOfSeq DEF PipelineTypeOK, Remaining
<1>3. \A p \in OutputPaths : disk'[p] = disk[p] \/ (disk'[p] = None /\ \E f \in files : SchemaPath[f] = p)
  BY <1>1 DEF NoDescriptors
<1>4. disk' \in [OutputPaths -> Contents \union {None}]
  BY <1>1 DEF NoDescriptors, PipelineTypeOK
<1>5. \A p \in OutputPaths : disk'[p] # None => disk'[p].invocation <= invocation
  BY <1>3 DEF DiskInv
<1> HIDE DEF files
<1>6. DescriptorAfterFiles'
  <2>1. ASSUME NEW f \in Files, IsDescriptor(disk'[SchemaPath[f]], f), NEW p \in Range(Outputs[f])
        PROVE  NotOlder(disk'[p], disk'[SchemaPath[f]])
    <3>1. /\ SchemaPath[f] \in OutputPaths /\ p \in OutputPaths
          /\ \A g \in Files : SchemaPath[g] # p
      BY PathFacts
    <3>2. disk'[p] = disk[p] /\ disk'[SchemaPath[f]] = disk[SchemaPath[f]]
      BY <1>2, <1>3, <2>1, <3>1 DEF IsDescriptor
    <3>3. QED
      BY <2>1, <3>2 DEF DescriptorAfterFiles
  <2>2. QED
    BY <2>1 DEF DescriptorAfterFiles
<1>7. CASE k # Len(entries)
  BY <1>1, <1>4, <1>5, <1>6, <1>7, ExitStep
<1>8. CASE k = Len(entries)
  <2>1. at' = "runtime" /\ UNCHANGED <<exit, entries, toWrite, errors>>
    BY <1>1, <1>8 DEF Goto
  <2>2. PipelineTypeOK'
    BY <1>4, <2>1 DEF PipelineTypeOK, PipelineSteps
  <2>3. Remaining' = Remaining /\ Done' = Done /\ Done = {} /\ errors = 0 /\ files = selected
    BY <1>2, <1>8, <2>1 DEF Remaining, Done, EntriesInv
  <2>4. EntriesInv' /\ WritingInv'
    BY <2>1, <2>3 DEF EntriesInv, WritingInv
  <2>5. DiskInv'
    BY <1>3, <2>1, <2>3 DEF DiskInv
  <2>6. \A f \in selected : disk'[SchemaPath[f]] = None
    <3>1. \A f \in selected : SchemaPath[f] \in OutputPaths
      BY PathFacts DEF PipelineTypeOK
    <3>2. QED
      BY <1>1, <2>3, <3>1 DEF NoDescriptors, files
  <2>7. Progress'
    BY <2>1, <2>3, <2>6 DEF Progress
  <2>8. QED
    BY <1>6, <2>2, <2>4, <2>5, <2>7 DEF ProgressInv
<1>9. QED
  BY <1>7, <1>8

\* An entry that fails leaves what is on disk.
LEMMA EntryFailsStep ==
  ASSUME PipelineInv, at \in {"entry", "execute", "collision", "write"}, EntryEnds(1),
         UNCHANGED <<inputs, emitSchema, selected, invocation, disk>>
  PROVE  PipelineInv'
<1>1. entries # <<>>
  BY DEF PipelineInv, EntriesInv
<1>2. PICK e \in Files : e = Entry
  BY <1>1, ContentFacts DEF PipelineInv
<1>3. \A f \in Files : Delivered(f)' <=> Delivered(f)
  BY DEF Delivered
<1>4. ~Delivered(e)'
  BY <1>1, <1>2, <1>3, EntryFacts, NotDelivered DEF PipelineInv
<1>5. disk' \in [OutputPaths -> Contents \union {None}] /\ DescriptorAfterFiles'
  BY DEF PipelineInv, PipelineTypeOK, DescriptorAfterFiles
<1>6. \A f \in Done : Delivered(f)' <=> Delivered(f)
  BY <1>3 DEF PipelineInv, PipelineTypeOK, Done
<1>7. 1 \in {0, 1} /\ 1 # 0
  OBVIOUS
<1>8. QED
  BY <1>2, <1>4, <1>5, <1>6, <1>7, EntryEndsStep

LEMMA WriteGeneratedStep == PipelineInv /\ WriteGenerated => PipelineInv'
<1> SUFFICES ASSUME PipelineInv, WriteGenerated
             PROVE  PipelineInv'
  OBVIOUS
<1> USE DEF PipelineInv, WriteGenerated
<1> DEFINE p == Head(toWrite)
<1>1. /\ at = "write" /\ at' = at /\ exit' = exit /\ entries' = entries /\ errors' = errors
      /\ inputs' = inputs /\ emitSchema' = emitSchema /\ selected' = selected
      /\ invocation' = invocation /\ entries # <<>> /\ Entry' = Entry /\ Entry \in Files
  BY ContentFacts DEF EntriesInv, Entry
<1>2. /\ toWrite' \in Seq(OutputPaths) /\ p \in Range(Outputs[Entry])
      /\ Range(toWrite) \subseteq Range(toWrite') \union {p}
      /\ \A i \in DOMAIN toWrite' : toWrite'[i] \in Range(toWrite)
  <2>1. toWrite \in Seq(OutputPaths) /\ toWrite # <<>> /\ toWrite' = Tail(toWrite)
    BY DEF PipelineTypeOK
  <2>2. /\ Tail(toWrite) \in Seq(OutputPaths) /\ Len(Tail(toWrite)) = Len(toWrite) - 1
        /\ \A i \in 1 .. Len(toWrite) - 1 : Tail(toWrite)[i] = toWrite[i + 1]
        /\ Len(toWrite) \in Nat \ {0} /\ p = toWrite[1] /\ DOMAIN toWrite = 1 .. Len(toWrite)
    BY <2>1, HeadTailProperties, EmptySeq, LenProperties
  <2>3. DOMAIN Tail(toWrite) = 1 .. Len(toWrite) - 1
    BY <2>2, LenProperties
  <2>4. 1 \in DOMAIN toWrite /\ \A i \in 1 .. Len(toWrite) - 1 : i + 1 \in DOMAIN toWrite
    BY <2>2
  <2>5. \A i \in DOMAIN toWrite : i = 1 \/ (i - 1 \in 1 .. Len(toWrite) - 1 /\ (i - 1) + 1 = i)
    BY <2>2
  <2>6. ASSUME NEW i \in DOMAIN toWrite
        PROVE  toWrite[i] = p \/ toWrite[i] \in Range(Tail(toWrite))
    <3>1. CASE i = 1
      BY <2>2, <3>1
    <3>2. CASE i - 1 \in 1 .. Len(toWrite) - 1 /\ (i - 1) + 1 = i
      <4>1. toWrite[i] = Tail(toWrite)[i - 1]
        BY <2>2, <3>2
      <4>2. QED
        BY <2>3, <3>2, <4>1 DEF Range
    <3>3. QED
      BY <2>5, <3>1, <3>2
  <2>7. Range(toWrite) \subseteq Range(Tail(toWrite)) \union {p}
    BY <2>6 DEF Range
  <2>8. \A i \in DOMAIN Tail(toWrite) : Tail(toWrite)[i] \in Range(toWrite)
    BY <2>2, <2>3, <2>4 DEF Range
  <2>9. p \in Range(Outputs[Entry])
    BY <1>1, <2>2, <2>4 DEF WritingInv
  <2>10. QED
    BY <2>1, <2>2, <2>7, <2>8, <2>9
<1>3. Puts(p, "generated")
  BY DEF Puts
<1> HIDE DEF p
<1>4. /\ p \in OutputPaths /\ disk' \in [OutputPaths -> Contents \union {None}]
      /\ disk'[p] = Content("generated") /\ \A q \in OutputPaths : q # p => disk'[q] = disk[q]
  BY <1>1, <1>2, <1>3, PathFacts, PutFacts
<1>5. PipelineTypeOK'
  BY <1>1, <1>2, <1>4 DEF PipelineTypeOK
<1>6. Remaining' = Remaining /\ Done' = Done /\ Content("generated")' = Content("generated")
  BY <1>1 DEF Remaining, Done, Content
<1>7. EntriesInv'
  BY <1>1, <1>6 DEF EntriesInv
<1>8. DiskInv'
  <2>1. Content("generated").invocation = invocation /\ invocation <= invocation
    BY <1>1, ContentFacts DEF PipelineTypeOK
  <2>2. QED
    BY <1>1, <1>4, <1>6, <2>1 DEF DiskInv
<1>9. WritingInv'
  <2>1. \A i \in DOMAIN toWrite' : toWrite'[i] \in Range(Outputs[Entry]')
    <3>1. Range(toWrite) \subseteq Range(Outputs[Entry])
      BY <1>1 DEF WritingInv, Range
    <3>2. QED
      BY <1>1, <1>2, <3>1
  <2>2. \A q \in Range(Outputs[Entry]') \ Range(toWrite') : disk'[q] = Content("generated")'
    <3>1. ASSUME NEW q \in Range(Outputs[Entry]), q \notin Range(toWrite')
          PROVE  disk'[q] = Content("generated")
      <4>1. q \in OutputPaths
        BY <1>1, PathFacts
      <4>2. QED
        BY <1>1, <1>2, <1>4, <3>1, <4>1 DEF WritingInv
    <3>2. QED
      BY <1>1, <1>6, <3>1
  <2>3. QED
    BY <1>1, <2>1, <2>2 DEF WritingInv
<1>10. Progress'
  <2>1. Progress
    BY <1>1 DEF ProgressInv
  <2>2. /\ \A f \in Files : disk'[SchemaPath[f]] = disk[SchemaPath[f]]
        /\ \A f \in Files : Delivered(f)' <=> Delivered(f)
    BY <1>1, <1>2, <1>3, GeneratedPut
  <2>3. \A f \in Done : Whole(f) => Whole(f)'
    BY <1>1, <1>3, <1>4, WholeKept
  <2>4. {f \in Done' : ~Delivered(f)'} = {f \in Done : ~Delivered(f)} /\ selected \subseteq Files
    BY <1>6, <2>2 DEF Done, PipelineTypeOK
  <2>5. errors' = 0 => \A f \in Done' : Whole(f)'
    BY <1>1, <1>6, <2>1, <2>3 DEF Progress
  <2>6. ~emitSchema' => \A f \in selected' : disk'[SchemaPath[f]] = None
    BY <1>1, <2>1, <2>2, <2>4 DEF Progress
  <2>7. emitSchema' => errors' = Cardinality({f \in Done' : ~Delivered(f)'})
    <3>1. emitSchema => errors = Cardinality({f \in Done : ~Delivered(f)})
      BY <2>1 DEF Progress
    <3> HIDE DEF PipelineInv, WriteGenerated
    <3>2. QED
      BY <1>1, <2>4, <3>1, Zenon
  <2>8. emitSchema' => \A f, g \in selected' : SchemaPath[f] = SchemaPath[g] => f = g
    BY <1>1, <2>1 DEF Progress
  <2>9. QED
    BY <2>5, <2>6, <2>7, <2>8 DEF Progress
<1>11. DescriptorAfterFiles'
  BY <1>1, <1>2, <1>3, GeneratedPut
<1>12. QED
  BY <1>5, <1>7, <1>8, <1>9, <1>10, <1>11 DEF ProgressInv

\* The disk with a part of a file the process was writing, or without it.
LEMMA TornFile ==
  ASSUME PipelineInv, at = "write", toWrite # <<>>, invocation' = invocation,
         disk' = disk \/ Puts(Head(toWrite), "torn")
  PROVE  /\ disk' \in [OutputPaths -> Contents \union {None}] /\ DescriptorAfterFiles'
         /\ \A f \in Files : disk'[SchemaPath[f]] = disk[SchemaPath[f]]
         /\ \A f \in Files : Delivered(f)' <=> Delivered(f)
         /\ \A p \in OutputPaths :
              disk'[p] = disk[p] \/ (disk'[p].entry = Entry /\ disk'[p].invocation = invocation)
         /\ \A p \in OutputPaths : disk'[p] # None => disk'[p].invocation <= invocation
<1> USE DEF PipelineInv
<1>1. entries # <<>> /\ Entry \in Files /\ invocation <= invocation
  BY ContentFacts DEF EntriesInv, PipelineTypeOK
<1>2. CASE disk' = disk
  BY <1>2 DEF DescriptorAfterFiles, Delivered, DiskInv, PipelineTypeOK
<1>3. CASE Puts(Head(toWrite), "torn")
  <2>1. Head(toWrite) \in Range(Outputs[Entry]) /\ Head(toWrite) \in OutputPaths
    <3>1. Head(toWrite) = toWrite[1] /\ 1 \in DOMAIN toWrite
      BY EmptySeq, LenProperties, HeadTailProperties DEF PipelineTypeOK
    <3>2. Head(toWrite) \in Range(Outputs[Entry])
      BY <3>1 DEF WritingInv
    <3>3. QED
      BY <1>1, <3>2, PathFacts
  <2>2. PICK p \in OutputPaths : p = Head(toWrite)
    BY <2>1
  <2>3. /\ disk' \in [OutputPaths -> Contents \union {None}] /\ disk'[p] = Content("torn")
        /\ \A q \in OutputPaths : q # p => disk'[q] = disk[q]
    BY <1>1, <1>3, <2>2, PutFacts
  <2>4. Content("torn").entry = Entry /\ Content("torn").invocation = invocation
    BY <1>1, ContentFacts
  <2>5. /\ \A f \in Files : disk'[SchemaPath[f]] = disk[SchemaPath[f]]
        /\ \A f \in Files : Delivered(f)' <=> Delivered(f)
        /\ DescriptorAfterFiles'
    BY <1>1, <1>3, <2>1, GeneratedPut
  <2>6. QED
    BY <1>1, <2>3, <2>4, <2>5 DEF DiskInv
<1>4. QED
  BY <1>2, <1>3

LEMMA WriteFailsStep ==
  ASSUME PipelineInv, NEW kept \in BOOLEAN, WriteFails(kept)
  PROVE  PipelineInv'
<1> USE DEF WriteFails
<1>1. disk' = disk \/ Puts(Head(toWrite), "torn")
  BY DEF Puts
<1>2. /\ disk' \in [OutputPaths -> Contents \union {None}] /\ DescriptorAfterFiles'
      /\ \A f \in Files : disk'[SchemaPath[f]] = disk[SchemaPath[f]]
      /\ \A f \in Files : Delivered(f)' <=> Delivered(f)
      /\ \A p \in OutputPaths :
           disk'[p] = disk[p] \/ (disk'[p].entry = Entry /\ disk'[p].invocation = invocation)
  BY <1>1, TornFile
<1>3. entries # <<>>
  BY DEF PipelineInv, EntriesInv
<1>4. PICK e \in Files : e = Entry
  BY <1>3, ContentFacts DEF PipelineInv
<1>5. ~Delivered(e)'
  BY <1>2, <1>3, <1>4, EntryFacts, NotDelivered DEF PipelineInv
<1>6. Done \subseteq Files /\ selected \subseteq Files /\ 1 \in {0, 1} /\ 1 # 0
  BY DEF PipelineInv, PipelineTypeOK, Done
<1>7. QED
  BY <1>2, <1>4, <1>5, <1>6, EntryEndsStep

LEMMA WriteSchemaStep == PipelineInv /\ WriteSchema => PipelineInv'
<1> SUFFICES ASSUME PipelineInv, WriteSchema
             PROVE  PipelineInv'
  OBVIOUS
<1> USE DEF WriteSchema
<1>1. entries # <<>> /\ Entry \in selected /\ Entry \in Files /\ selected \subseteq Files
  BY ContentFacts, EntryFacts DEF PipelineInv, EntriesInv, PipelineTypeOK
<1>2. PICK e \in Files : e = Entry
  BY <1>1
<1>3. \A p \in Range(Outputs[e]) : disk[p] = Content("generated")
  <2>1. Range(toWrite) = {}
    BY EmptySeq DEF Range
  <2>2. QED
    BY <1>2, <2>1 DEF PipelineInv, WritingInv
<1>4. /\ Content("generated") # None /\ Content("generated").kind = "generated"
      /\ Content("generated").invocation = invocation /\ Content("generated").entry = e
      /\ Content("descriptor") # None /\ Content("descriptor").kind = "descriptor"
      /\ Content("descriptor").invocation = invocation /\ Content("descriptor").entry = e
      /\ e >= e
  <2>1. e \in Nat
    BY PipelineAssumption
  <2>2. QED
    BY <1>1, <1>2, <2>1, ContentFacts DEF PipelineInv
<1>5. SchemaPath[e] \in OutputPaths
  BY PathFacts
<1>6. /\ disk' \in [OutputPaths -> Contents \union {None}]
      /\ emitSchema => disk'[SchemaPath[e]] = Content("descriptor")
      /\ \A q \in OutputPaths : q # SchemaPath[e] \/ ~emitSchema => disk'[q] = disk[q]
  <2>1. CASE emitSchema
    <3>1. Puts(SchemaPath[e], "descriptor")
      BY <1>2, <2>1 DEF Puts
    <3>2. QED
      BY <1>1, <1>5, <2>1, <3>1, PutFacts DEF PipelineInv
  <2>2. CASE ~emitSchema
    BY <2>2 DEF PipelineInv, PipelineTypeOK
  <2>3. QED
    BY <2>1, <2>2
<1>7. \A f \in Files : \A p \in Range(Outputs[f]) : p \in OutputPaths /\ disk'[p] = disk[p]
  BY <1>6, PathFacts
<1>8. DescriptorAfterFiles'
  <2>1. ASSUME NEW f \in Files, IsDescriptor(disk'[SchemaPath[f]], f), NEW p \in Range(Outputs[f])
        PROVE  NotOlder(disk'[p], disk'[SchemaPath[f]])
    <3>1. SchemaPath[f] \in OutputPaths
      BY PathFacts
    <3>2. CASE disk'[SchemaPath[f]] = disk[SchemaPath[f]]
      BY <1>7, <2>1, <3>2 DEF PipelineInv, DescriptorAfterFiles
    <3>3. CASE emitSchema /\ SchemaPath[f] = SchemaPath[e]
      <4>1. f = e
        BY <1>4, <1>6, <2>1, <3>3 DEF IsDescriptor
      <4>2. disk'[p] = Content("generated") /\ disk'[SchemaPath[f]] = Content("descriptor")
        BY <1>3, <1>6, <1>7, <3>3, <4>1
      <4>3. QED
        BY <1>4, <4>2 DEF NotOlder
    <3>4. QED
      BY <1>6, <3>1, <3>2, <3>3
  <2>2. QED
    BY <2>1 DEF DescriptorAfterFiles
<1>9. \A p \in OutputPaths :
        disk'[p] = disk[p] \/ (disk'[p].entry = Entry /\ disk'[p].invocation = invocation)
  BY <1>2, <1>4, <1>6
<1>10. emitSchema => \A f \in Done : Delivered(f)' <=> Delivered(f)
  <2>1. ASSUME emitSchema, NEW f \in Done
        PROVE  disk'[SchemaPath[f]] = disk[SchemaPath[f]]
    <3>1. Progress /\ f \in selected /\ f \in Files /\ f # e /\ e \in selected
      BY <1>1, <1>2, EntryFacts DEF PipelineInv, ProgressInv, Done
    <3>2. SchemaPath[f] # SchemaPath[e]
      BY <2>1, <3>1 DEF Progress
    <3>3. QED
      BY <1>6, <3>1, <3>2, PathFacts
  <2>2. QED
    BY <2>1 DEF Delivered
<1>11. emitSchema => Delivered(e)'
  BY <1>4, <1>6 DEF Delivered, IsDescriptor
<1>12. ~emitSchema => \A f \in selected : disk'[SchemaPath[f]] = disk[SchemaPath[f]]
  BY <1>1, <1>6, PathFacts
<1>13. Whole(e)' /\ \A f \in Done : Whole(f) => Whole(f)'
  <2>1. Whole(e)'
    BY <1>3, <1>4, <1>7 DEF Whole
  <2>2. \A f \in Done : Whole(f) => Whole(f)'
    <3>1. \A f \in Done : f \in Files
      BY <1>1 DEF Done
    <3>2. QED
      BY <1>7, <3>1 DEF Whole
  <2>3. QED
    BY <2>1, <2>2
<1>14. 0 \in {0, 1}
  OBVIOUS
<1>15. QED
  BY <1>2, <1>6, <1>8, <1>9, <1>10, <1>11, <1>12, <1>13, <1>14, EntryEndsStep

LEMMA KillStep == PipelineInv /\ Kill => PipelineInv'
<1> SUFFICES ASSUME PipelineInv, Kill
             PROVE  PipelineInv'
  OBVIOUS
<1> USE DEF Kill
<1>1. /\ disk' \in [OutputPaths -> Contents \union {None}] /\ DescriptorAfterFiles'
      /\ \A p \in OutputPaths : disk'[p] # None => disk'[p].invocation <= invocation
  <2>1. CASE disk' = disk
    BY <2>1 DEF PipelineInv, PipelineTypeOK, DescriptorAfterFiles, DiskInv
  <2>2. CASE at = "write" /\ toWrite # <<>> /\ Puts(Head(toWrite), "torn")
    BY <2>2, TornFile
  <2>3. QED
    BY <2>1, <2>2 DEF Puts
<1>2. QED
  BY <1>1, ExitStep

-----------------------------------------------------------------------------
LEMMA PipelineInvStep ==
  PipelineInv /\ [PipelineNext]_<<pipelineVars, runtimeVars>> => PipelineInv'
<1> SUFFICES ASSUME PipelineInv, [PipelineNext]_<<pipelineVars, runtimeVars>>
             PROVE  PipelineInv'
  OBVIOUS
<1>1. /\ disk \in [OutputPaths -> Contents \union {None}] /\ DescriptorAfterFiles
      /\ \A p \in OutputPaths : disk[p] # None => disk[p].invocation <= invocation
  BY DEF PipelineInv, PipelineTypeOK, DiskInv
<1>2. disk' = disk /\ invocation' = invocation =>
        /\ disk' \in [OutputPaths -> Contents \union {None}] /\ DescriptorAfterFiles'
        /\ \A p \in OutputPaths : disk'[p] # None => disk'[p].invocation <= invocation
  BY <1>1 DEF DescriptorAfterFiles
<1>3. CASE SelectFails
  BY <1>2, <1>3, ExitStep DEF SelectFails
<1>4. CASE InitializeRuntime
  <2>1. CASE Exit("failed")
    BY <1>2, <1>4, <2>1, ExitStep DEF InitializeRuntime
  <2>2. CASE Goto("entry") /\ UNCHANGED <<entries, toWrite, errors>>
    BY <1>4, <2>2, GoOnStep DEF InitializeRuntime, Goto
  <2>3. QED
    BY <1>4, <2>1, <2>2 DEF InitializeRuntime
<1>5. CASE ParseFails
  BY <1>5, EntryFailsStep DEF ParseFails
<1>6. CASE Parse
  BY <1>6, GoOnStep DEF Parse, Goto
<1>7. CASE Executed
  <2>1. CASE EntryEnds(1)
    BY <1>7, <2>1, EntryFailsStep DEF Executed
  <2>2. CASE Goto("collision") /\ UNCHANGED <<entries, toWrite, errors>>
    BY <1>7, <2>2, GoOnStep DEF Executed, Goto
  <2>3. QED
    BY <1>7, <2>1, <2>2 DEF Executed
<1>8. CASE CheckCollision
  <2>1. CASE EntryEnds(1)
    BY <1>8, <2>1, EntryFailsStep DEF CheckCollision
  <2>2. CASE Goto("write") /\ toWrite' = Outputs[Entry] /\ UNCHANGED <<entries, errors>>
    BY <1>8, <2>2, GoOnStep DEF CheckCollision, Goto
  <2>3. QED
    BY <1>8, <2>1, <2>2 DEF CheckCollision
<1>9. CASE WriteSchemaFails
  BY <1>9, EntryFailsStep DEF WriteSchemaFails
<1>10. CASE UNCHANGED pipelineVars
  <2>1. /\ UNCHANGED <<at, exit, inputs, emitSchema, selected, entries, toWrite, errors>>
        /\ UNCHANGED <<invocation, disk>>
    BY <1>10 DEF pipelineVars
  <2>2. /\ Remaining' = Remaining /\ Done' = Done /\ Content("generated")' = Content("generated")
        /\ Entry' = Entry
    BY <2>1 DEF Remaining, Done, Content, Entry
  <2>3. PipelineTypeOK' /\ EntriesInv' /\ DiskInv' /\ WritingInv'
    BY <2>1, <2>2 DEF PipelineInv, PipelineTypeOK, EntriesInv, DiskInv, WritingInv
  <2>4. \A f \in Done : (Delivered(f)' <=> Delivered(f)) /\ (Whole(f)' <=> Whole(f))
    BY <2>1 DEF Delivered, Whole
  <2>5. {f \in Done' : ~Delivered(f)'} = {f \in Done : ~Delivered(f)}
    BY <2>2, <2>4
  <2>6. ProgressInv' /\ DescriptorAfterFiles'
    BY <2>1, <2>2, <2>4, <2>5 DEF PipelineInv, ProgressInv, Progress, DescriptorAfterFiles
  <2>7. QED
    BY <2>3, <2>6 DEF PipelineInv
<1>11. CASE ExecuteInRuntime
  BY <1>10, <1>11 DEF ExecuteInRuntime
<1>12. CASE \/ Invoke \/ SelectEntries \/ ReserveSchemaPaths \/ RemoveStaleSchemas
            \/ WriteGenerated \/ WriteFails(TRUE) \/ WriteFails(FALSE) \/ WriteSchema \/ Kill
  BY <1>12, InvokeStep, SelectEntriesStep, ReserveSchemaPathsStep, RemoveStaleSchemasStep,
     WriteGeneratedStep, WriteFailsStep, WriteSchemaStep, KillStep
<1>13. QED
  BY <1>3, <1>4, <1>5, <1>6, <1>7, <1>8, <1>9, <1>10, <1>11, <1>12 DEF PipelineNext

(* The invariant of csilgen generate, over any number of invocations into    *)
(* one output directory, failures and kills: how far it is through its       *)
(* entries, and what is on disk of those that are done (lib.rs).             *)
THEOREM PipelineInvariant == PipelineSpec => []PipelineInv
BY PipelineInvInit, PipelineInvStep, PTL DEF PipelineSpec

(* A descriptor is never newer than the generated files beside it, whatever  *)
(* failed and whenever the process was killed (lib.rs:761).                  *)
THEOREM DescriptorsComeLast == PipelineSpec => []DescriptorAfterFiles
<1>1. PipelineInv => DescriptorAfterFiles
  BY DEF PipelineInv
<1>2. QED
  BY <1>1, PipelineInvariant, PTL

(* The errors an invocation counts are the entries without a new descriptor, *)
(* and after a success every file of every entry is new and whole.           *)
THEOREM ExitsAreTrue == PipelineSpec => []ExitTellsWhatIsOnDisk
<1>1. PipelineInv => ExitTellsWhatIsOnDisk
  <2> SUFFICES ASSUME PipelineInv, exit \in {"ok", "errors"}
               PROVE  ExitTellsWhatIsOnDisk
    BY DEF ExitTellsWhatIsOnDisk
  <2>1. Progress /\ Done = selected /\ (exit = "ok" => errors = 0)
    <3>1. entries = <<>> /\ DOMAIN <<>> = {}
      BY EmptySeq DEF PipelineInv, EntriesInv
    <3>2. QED
      BY <3>1 DEF PipelineInv, EntriesInv, ProgressInv, Remaining, Done
  <2>2. ~IsDescriptor(None, None) /\ \A f \in selected : ~IsDescriptor(None, f)
    BY DEF IsDescriptor
  <2>3. QED
    BY <2>1, <2>2 DEF ExitTellsWhatIsOnDisk, Progress, Whole
<1>2. QED
  BY <1>1, PipelineInvariant, PTL
=============================================================================
