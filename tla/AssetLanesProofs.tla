-------------------------- MODULE AssetLanesProofs --------------------------
(***************************************************************************)
(* Proofs about AssetLanes, for any number of runs, assets, pull requests, *)
(* versions and runs at a time, whoever is aborted where, with or without  *)
(* the cleanup of pull request lanes:                                      *)
(*                                                                         *)
(* - complete.json of a release or main lane comes after its assets, and   *)
(*   main/latest.json after both (LanesInv);                               *)
(* - a release has only assets of the tree that its tag names, unless      *)
(*   merges of two pull requests have drafted its version (ReleasedInv);   *)
(* - when workflows run one after the other, manifests tell the truth, a   *)
(*   release becomes public with all of its assets, and reruns get through *)
(*   (SerialInv).                                                          *)
(***************************************************************************)
EXTENDS AssetLanes, FiniteSetTheorems, SequenceTheorems, WellFoundedInduction, TLAPS

-----------------------------------------------------------------------------
(* Where the jobs of a run are, and what they hold there.                    *)

\* Where the loops over the assets are.
SealLoop ==
  {"seal-get", "seal-digest", "seal-copy", "seal-check", "seal-record", "seal-clean",
   "seal-clean-digest"}
CopyLoop == {"copy-get", "copy-put", "copy-check", "copy-record"}
Loops == {"verify", "download", "remove", "upload"} \union SealLoop \union CopyLoop

Reading == {"read", "verify", "decide"}
Preparing == Reading \union {"build", "seal-manifest"} \union SealLoop
Copying == CopyLoop \union {"copy-manifest"}
Promoting == Reading \union Copying \union {"draft", "create", "push"}
Publishing ==
  Reading \union Copying
    \union {"download", "version-check", "remove", "upload", "list", "publish",
            "version-manifest", "latest"}

Active(me) == me.pc \notin Ends \union {"idle"}

\* A run is in a job of its workflow, on the lane of that job.
InJob(me) ==
  Active(me) =>
    /\ me.source \in PullRequests /\ me.version \in Versions
    /\ \/ me.kind = "pr" /\ me.phase = "prepare" /\ me.pc \in Preparing
       \/ me.kind = "merge" /\ me.phase = "promote" /\ me.pc \in Promoting
       \/ me.kind = "release" /\ me.phase = "prepare" /\ me.pc \in Preparing \union {"authorize"}
       \/ me.kind = "release" /\ me.phase = "publish" /\ me.pc \in Publishing
    /\ me.lane = IF me.kind = "release" THEN VersionLane(me.version) ELSE PrLane(me.source)
    /\ me.pc \in Copying =>
         \/ me.to = MainLane(me.source)
         \/ me.kind = "merge" /\ me.to = VersionLane(me.version)

\* The assets a loop has dealt with.
Earlier(a) == {b \in Assets : b < a}

\* What it holds at that point.
HoldsWhatItNeeds(me) ==
  /\ me.pc \notin Loops => me.asset = 1
  /\ me.pc \in (SealLoop \union CopyLoop) \ {"seal-get", "copy-get"} => me.held \in Contents
  /\ (me.pc \in Copying \union {"verify", "decide", "version-manifest"}
      \/ (me.phase = "publish" /\ Active(me) /\ me.pc \notin {"read", "latest"}))
       => me.found \in Manifests
  /\ me.pc \in SealLoop \union {"download"} =>
       \A b \in Earlier(me.asset) : me.files[b] \in Contents
  /\ me.pc \in {"seal-manifest", "version-check", "remove", "upload"} =>
       \A b \in Assets : me.files[b] \in Contents

RunOK(me) == me \in RunStates /\ InJob(me) /\ HoldsWhatItNeeds(me)

\* The assets of its lane, or of the one it copies to, that must be there by now.
Filled(objects, lane, set) == \A b \in set : objects[<<lane, "asset", b>>] # None

LanesFilled(me, objects, manifests) ==
  /\ (me.kind = "release" /\ me.pc \in SealLoop) => Filled(objects, me.lane, Earlier(me.asset))
  /\ (me.kind = "release"
      /\ \/ me.pc \in SealLoop \ {"seal-get", "seal-digest", "seal-copy"}
         \/ me.pc = "seal-digest" /\ me.asset \notin me.uploads)
       => objects[<<me.lane, "asset", me.asset>>] # None
  /\ (me.kind = "release" /\ me.pc = "seal-manifest") => Filled(objects, me.lane, Assets)
  /\ me.pc \in CopyLoop => Filled(objects, me.to, Earlier(me.asset))
  /\ me.pc \in {"copy-check", "copy-record"} => objects[<<me.to, "asset", me.asset>>] # None
  /\ me.pc = "copy-manifest" => Filled(objects, me.to, Assets)
  /\ (me.phase = "publish" /\ Active(me) /\ me.pc # "read") => manifests[me.lane] # None
  /\ me.pc \in {"version-manifest", "latest"} => manifests[MainLane(me.source)] # None

LanesInv ==
  /\ TypeOK
  /\ \A r \in Runs : RunOK(run[r]) /\ LanesFilled(run[r], store, manifest)
  /\ CompleteLanesHaveAssets
  /\ latest # None => manifest[MainLane(latest)] # None


-----------------------------------------------------------------------------
(* Objects and manifests of a release or main lane stay, whatever their      *)
(* contents.                                                                 *)
Grows ==
  /\ \A l \in Lanes, a \in Assets :
       l[1] # "pr" /\ store[<<l, "asset", a>>] # None => store'[<<l, "asset", a>>] # None
  /\ \A l \in Lanes : l[1] # "pr" /\ manifest[l] # None => manifest'[l] # None

LEMMA NamedLanes ==
  /\ \A i \in PullRequests : PrLane(i) \in Lanes /\ MainLane(i) \in Lanes /\ MainLane(i)[1] = "main"
  /\ \A v \in Versions : VersionLane(v) \in Lanes /\ VersionLane(v)[1] = "version"
BY DEF PrLane, MainLane, VersionLane, Lanes

LEMMA IdleOK == Idle \in RunStates
<1>1. 1 \in Assets /\ [a \in Assets |-> 0] \in [Assets -> 0 .. 2]
  BY LanesAssumption DEF Assets
<1>2. QED
  BY <1>1 DEF Idle, RunStates, Kinds, Phases, Points

LEMMA EndedOK ==
  ASSUME NEW me, RunOK(me), NEW how \in Ends, NEW objects, NEW manifests
  PROVE  RunOK(Ended(me, how)) /\ LanesFilled(Ended(me, how), objects, manifests)
<1> DEFINE next == Ended(me, how)
<1>1. next.kind = me.kind /\ next.phase = "none" /\ next.pc = how /\ next.asset = 1
  BY DEF Ended, Idle
<1>2. next \in RunStates
  <2>1. /\ me.kind \in Kinds /\ me.source \in PullRequests \union {None}
        /\ me.version \in Versions \union {0} /\ me.unread \in BOOLEAN /\ how \in Points
    BY DEF RunOK, RunStates, Points
  <2>2. QED
    BY <2>1, IdleOK, ZenonT(60) DEF RunStates, Ended
<1>3. InJob(next)
  BY <1>1 DEF InJob, Active
<1>4. HoldsWhatItNeeds(next)
  BY <1>1 DEF HoldsWhatItNeeds, Ends, Loops, SealLoop, CopyLoop, Copying
<1>5. LanesFilled(next, objects, manifests)
  BY <1>1 DEF LanesFilled, Ends, SealLoop, CopyLoop
<1>6. QED
  BY <1>2, <1>3, <1>4, <1>5 DEF RunOK

\* What a run needs of its lanes stays there.
LEMMA FilledStays ==
  ASSUME LanesInv, Grows, NEW me, RunOK(me), LanesFilled(me, store, manifest)
  PROVE  LanesFilled(me, store', manifest')
<1>1. CASE ~Active(me)
  BY <1>1, EndedOK DEF LanesFilled, Active, Ends, SealLoop, CopyLoop
<1>2. CASE Active(me) /\ me.kind = "release"
  <2>1. me.lane \in Lanes /\ me.lane[1] = "version" /\ me.asset \in Assets
    BY <1>2, NamedLanes DEF RunOK, InJob, RunStates
  <2>2. MainLane(me.source) \in Lanes /\ MainLane(me.source)[1] = "main"
    BY <1>2, NamedLanes DEF RunOK, InJob
  <2>3. me.pc \in Copying => me.to = MainLane(me.source)
    BY <1>2 DEF RunOK, InJob
  <2>4. QED
    BY <1>2, <2>1, <2>2, <2>3 DEF LanesFilled, Filled, Earlier, Grows, Copying, CopyLoop
<1>3. CASE Active(me) /\ me.kind # "release"
  <2>1. /\ me.phase # "publish"
        /\ me.pc \notin {"version-manifest", "latest"}
        /\ me.asset \in Assets
    BY <1>3 DEF RunOK, InJob, RunStates, Preparing, Promoting, Reading, Copying, CopyLoop,
       SealLoop
  <2>2. me.pc \in Copying => me.to \in Lanes /\ me.to[1] # "pr"
    BY <1>3, NamedLanes DEF RunOK, InJob
  <2>3. QED
    BY <1>3, <2>1, <2>2 DEF LanesFilled, Filled, Earlier, Grows, Copying, CopyLoop
<1>4. QED
  BY <1>1, <1>2, <1>3

LEMMA RunFacts ==
  ASSUME LanesInv, NEW r \in Runs
  PROVE  RunOK(run[r]) /\ LanesFilled(run[r], store, manifest)
BY DEF LanesInv

\* One run goes on, the others stay where they are.
LEMMA GotoKeeps ==
  ASSUME LanesInv, NEW r \in Runs, NEW next, Goto(r, next), Grows,
         RunOK(next), LanesFilled(next, store', manifest')
  PROVE  /\ run' \in [Runs -> RunStates]
         /\ \A q \in Runs : RunOK(run'[q]) /\ LanesFilled(run'[q], store', manifest')
<1>1. run' = [run EXCEPT ![r] = next] /\ run \in [Runs -> RunStates] /\ next \in RunStates
  BY DEF Goto, LanesInv, TypeOK, RunOK
<1>2. ASSUME NEW q \in Runs
      PROVE  RunOK(run'[q]) /\ LanesFilled(run'[q], store', manifest')
  <2>1. CASE q = r
    BY <1>1, <2>1
  <2>2. CASE q # r
    BY <1>1, <2>2, RunFacts, FilledStays
  <2>3. QED
    BY <2>1, <2>2
<1>3. QED
  BY <1>1, <1>2

LEMMA GitHubOnlyKeeps ==
  ASSUME LanesInv, NEW r \in Runs, NEW next, Goto(r, next), UNCHANGED lanes,
         tags' \in Seq(PullRequests), merged' \in [PullRequests -> {"open", "same", "changed"}],
         releases' \in Seq(Releases),
         RunOK(next), LanesFilled(next, store, manifest)
  PROVE  LanesInv'
<1>1. store' = store /\ manifest' = manifest /\ latest' = latest
  BY DEF lanes
<1>2. Grows
  BY <1>1 DEF Grows
<1>3. /\ run' \in [Runs -> RunStates]
      /\ \A q \in Runs : RunOK(run'[q]) /\ LanesFilled(run'[q], store', manifest')
  BY <1>1, <1>2, GotoKeeps
<1>4. QED
  BY <1>1, <1>3 DEF LanesInv, TypeOK, CompleteLanesHaveAssets

LEMMA StepKeeps ==
  ASSUME LanesInv, NEW r \in Runs, NEW next, Step(r, next),
         RunOK(next), LanesFilled(next, store, manifest)
  PROVE  LanesInv'
<1>1. /\ tags' \in Seq(PullRequests)
      /\ merged' \in [PullRequests -> {"open", "same", "changed"}]
      /\ releases' \in Seq(Releases)
  BY DEF Step, github, LanesInv, TypeOK
<1>2. QED
  BY <1>1, GitHubOnlyKeeps DEF Step

LEMMA StepIfKeeps ==
  ASSUME LanesInv, NEW r \in Runs, NEW ok, NEW next, StepIf(r, ok, next),
         ok => RunOK(next) /\ LanesFilled(next, store, manifest)
  PROVE  LanesInv'
<1>1. Step(r, IF ok THEN next ELSE Ended(run[r], "failed"))
  BY DEF StepIf, Check, Step
<1>2. CASE ok
  BY <1>1, <1>2, StepKeeps
<1>3. CASE ~ok
  <2>1. RunOK(Ended(run[r], "failed")) /\ LanesFilled(Ended(run[r], "failed"), store, manifest)
    BY RunFacts, EndedOK DEF Ends
  <2>2. QED
    BY <1>1, <1>3, <2>1, StepKeeps
<1>4. QED
  BY <1>2, <1>3

-----------------------------------------------------------------------------
(* Steps on the lanes. *)

LEMMA ActiveFacts ==
  ASSUME NEW me, RunOK(me), Active(me)
  PROVE  /\ me.source \in PullRequests /\ me.version \in Versions /\ me.asset \in Assets
         /\ me.lane \in Lanes /\ (me.kind = "release" => me.lane[1] # "pr")
         /\ me.pc \in Copying => me.to \in Lanes /\ me.to[1] # "pr"
BY NamedLanes DEF RunOK, InJob, RunStates

\* A run puts an object, and removes none but what was staged.
LEMMA PutKeeps ==
  ASSUME LanesInv, NEW r \in Runs, NEW next, Goto(r, next),
         UNCHANGED <<manifest, latest, github>>,
         NEW l \in Lanes, NEW s \in Slots, NEW a \in Assets,
         NEW content \in Contents \union {None},
         s = "asset" => content # None,
         Put(<<l, s, a>>, content),
         NEW me, me = run[r],
         ASSUME LanesFilled(me, store', manifest)
         PROVE  RunOK(next) /\ LanesFilled(next, store', manifest)
  PROVE  LanesInv'
<1>1. store \in [Lanes \X Slots \X Assets -> Contents \union {None}]
  BY DEF LanesInv, TypeOK
<1>2. /\ store' \in [Lanes \X Slots \X Assets -> Contents \union {None}]
      /\ \A m \in Lanes, b \in Assets :
           store[<<m, "asset", b>>] # None => store'[<<m, "asset", b>>] # None
  <2>1. store' = [store EXCEPT ![<<l, s, a>>] = content] /\ "asset" \in Slots
    BY DEF Put, Slots
  <2>2. ASSUME NEW m \in Lanes, NEW b \in Assets, store[<<m, "asset", b>>] # None
        PROVE  store'[<<m, "asset", b>>] # None
    <3>1. CASE <<m, "asset", b>> = <<l, s, a>>
      BY <1>1, <2>1, <3>1
    <3>2. CASE <<m, "asset", b>> # <<l, s, a>>
      BY <1>1, <2>1, <2>2, <3>2
    <3>3. QED
      BY <3>1, <3>2
  <2>3. QED
    BY <1>1, <2>1, <2>2
<1>3. Grows
  BY <1>2 DEF Grows
<1>4. /\ run' \in [Runs -> RunStates]
      /\ \A q \in Runs : RunOK(run'[q]) /\ LanesFilled(run'[q], store', manifest')
  <2>1. LanesFilled(run[r], store', manifest')
    BY <1>3, RunFacts, FilledStays
  <2>2. QED
    BY <1>3, <2>1, GotoKeeps
<1>5. TypeOK'
  BY <1>2, <1>4 DEF LanesInv, TypeOK, github
<1>6. CompleteLanesHaveAssets'
  BY <1>2 DEF LanesInv, CompleteLanesHaveAssets
<1>7. QED
  BY <1>4, <1>5, <1>6 DEF LanesInv

\* S3Cache.copy within the lane of a run, or to the lane it copies to.
LEMMA CopyKeeps ==
  ASSUME LanesInv, NEW r \in Runs, NEW next,
         NEW l \in Lanes, NEW s \in Slots, NEW m \in Lanes, NEW a \in Assets,
         CopyObject(r, <<l, s, a>>, <<m, "asset", a>>, next),
         UNCHANGED <<manifest, latest, github>>,
         ASSUME LanesFilled(run[r], store', manifest), store'[<<m, "asset", a>>] # None
         PROVE  RunOK(next) /\ LanesFilled(next, store', manifest)
  PROVE  LanesInv'
<1>1. store \in [Lanes \X Slots \X Assets -> Contents \union {None}]
  BY DEF LanesInv, TypeOK
<1> DEFINE got == store[<<l, s, a>>]
<1>2. "asset" \in Slots /\ got \in Contents \union {None}
  BY <1>1 DEF Slots
<1>3. CASE got = None
  <2>1. Step(r, Ended(run[r], "failed"))
    BY <1>3 DEF CopyObject, Check, Step, lanes
  <2>2. RunOK(Ended(run[r], "failed")) /\ LanesFilled(Ended(run[r], "failed"), store, manifest)
    BY RunFacts, EndedOK DEF Ends
  <2>3. QED
    BY <2>1, <2>2, StepKeeps
<1>4. CASE got # None
  <2>1. Goto(r, next) /\ Put(<<m, "asset", a>>, got)
    BY <1>4 DEF CopyObject, Check
  <2>2. store' = [store EXCEPT ![<<m, "asset", a>>] = got]
    BY <2>1 DEF Put
  <2>3. store'[<<m, "asset", a>>] # None
    BY <1>1, <1>2, <1>4, <2>2
  <2>4. QED
    BY <1>2, <1>4, <2>1, <2>3, PutKeeps
<1>5. QED
  BY <1>3, <1>4

\* A run writes the manifest of a lane that is complete.
LEMMA ManifestKeeps ==
  ASSUME LanesInv, NEW r \in Runs, NEW next, Goto(r, next),
         UNCHANGED <<store, latest, github>>,
         NEW l \in Lanes, NEW record \in Manifests, manifest' = [manifest EXCEPT ![l] = record],
         l[1] # "pr" => Filled(store, l, Assets),
         RunOK(next), LanesFilled(next, store, manifest')
  PROVE  LanesInv'
<1>1. manifest \in [Lanes -> Manifests \union {None}] /\ record # None
  BY LanesAssumption DEF LanesInv, TypeOK
<1>2. /\ manifest' \in [Lanes -> Manifests \union {None}] /\ manifest'[l] = record
      /\ \A m \in Lanes : m # l => manifest'[m] = manifest[m]
  BY <1>1
<1>3. Grows
  BY <1>1, <1>2 DEF Grows
<1>4. /\ run' \in [Runs -> RunStates]
      /\ \A q \in Runs : RunOK(run'[q]) /\ LanesFilled(run'[q], store', manifest')
  BY <1>3, GotoKeeps
<1>5. TypeOK'
  BY <1>2, <1>4 DEF LanesInv, TypeOK, github
<1>6. CompleteLanesHaveAssets'
  BY <1>2 DEF LanesInv, CompleteLanesHaveAssets, Filled
<1>7. latest' # None => manifest'[MainLane(latest')] # None
  BY <1>1, <1>2, NamedLanes DEF LanesInv, TypeOK
<1>8. QED
  BY <1>4, <1>5, <1>6, <1>7 DEF LanesInv

LEMMA StoreTypes ==
  ASSUME LanesInv
  PROVE  \A l \in Lanes, s \in Slots, a \in Assets : store[<<l, s, a>>] \in Contents \union {None}
BY DEF LanesInv, TypeOK

LEMMA AssetFacts == 1 \in Assets
BY LanesAssumption DEF Assets

LEMMA EarlierAssets ==
  /\ Earlier(1) = {}
  /\ \A a \in Assets :
       /\ Earlier(a) \subseteq Assets
       /\ a < NumAssets => Earlier(a + 1) = Earlier(a) \union {a}
       /\ a = NumAssets => Assets = Earlier(a) \union {a}
BY LanesAssumption DEF Assets, Earlier

\* What a loop over the assets leaves alone, and where it goes.
SameJob(me, next) ==
  /\ next.kind = me.kind /\ next.phase = me.phase
  /\ next.source = me.source /\ next.version = me.version
  /\ next.lane = me.lane /\ next.to = me.to
  /\ next.uploads = me.uploads /\ next.found = me.found /\ next.release = me.release

LEMMA AdvanceFacts ==
  ASSUME NEW me \in RunStates, NEW loop \in Points, NEW after \in Points
  PROVE  LET next == Advance(me, loop, after) IN
         /\ next \in RunStates /\ SameJob(me, next) /\ next.files = me.files
         /\ \/ next.pc = loop /\ Earlier(next.asset) = Earlier(me.asset) \union {me.asset}
            \/ next.pc = after /\ next.asset = 1 /\ Assets = Earlier(me.asset) \union {me.asset}
<1> DEFINE next == Advance(me, loop, after)
<1>1. me.asset \in Assets
  BY DEF RunStates
<1>2. CASE me.asset < NumAssets
  <2>1. me.asset + 1 \in Assets
    BY <1>1, <1>2, LanesAssumption DEF Assets
  <2>2. /\ next \in RunStates /\ SameJob(me, next) /\ next.files = me.files
        /\ next.pc = loop /\ next.asset = me.asset + 1
    BY <1>2, <2>1 DEF Advance, RunStates, SameJob
  <2>3. QED
    BY <1>1, <1>2, <2>2, EarlierAssets
<1>3. CASE ~(me.asset < NumAssets)
  <2>1. me.asset = NumAssets
    BY <1>1, <1>3, LanesAssumption DEF Assets
  <2>2. /\ next \in RunStates /\ SameJob(me, next) /\ next.files = me.files
        /\ next.pc = after /\ next.asset = 1
    BY <1>3, AssetFacts DEF Advance, RunStates, SameJob
  <2>3. QED
    BY <1>1, <2>1, <2>2, EarlierAssets
<1>4. QED
  BY <1>2, <1>3

LEMMA FileFacts ==
  ASSUME NEW me \in RunStates, NEW content \in Contents
  PROVE  LET next == [me EXCEPT !.files[me.asset] = content] IN
         /\ next \in RunStates /\ SameJob(me, next) /\ next.pc = me.pc /\ next.asset = me.asset
         /\ next.files[me.asset] = content
         /\ \A b \in Assets : b # me.asset => next.files[b] = me.files[b]
<1> DEFINE next == [me EXCEPT !.files[me.asset] = content]
<1>1. me.files \in [Assets -> Contents \union {None}] /\ me.asset \in Assets
  BY DEF RunStates
<1>2. next = [me EXCEPT !.files = [me.files EXCEPT ![me.asset] = content]]
  BY DEF RunStates
<1>3. [me.files EXCEPT ![me.asset] = content] \in [Assets -> Contents \union {None}]
  BY <1>1
<1>4. next \in RunStates /\ SameJob(me, next) /\ next.pc = me.pc /\ next.asset = me.asset
      /\ next.files = [me.files EXCEPT ![me.asset] = content]
  BY <1>2, <1>3 DEF RunStates, SameJob
<1>5. QED
  BY <1>1, <1>4

-----------------------------------------------------------------------------
(* What each step keeps of LanesInv, first those that write nothing ...      *)

LEMMA SealGetKeeps ==
  ASSUME LanesInv, NEW r \in Runs, SealGet(r)
  PROVE  LanesInv'
<1> DEFINE me == run[r]
           got == store[<<me.lane, SealSlot(me), me.asset>>]
           next == [me EXCEPT !.pc = "seal-digest", !.held = got]
<1>1. RunOK(me) /\ LanesFilled(me, store, manifest) /\ me.pc = "seal-get"
  BY RunFacts DEF SealGet, At
<1>2. StepIf(r, got # None, next)
  BY DEF SealGet
<1>3. Active(me)
  BY <1>1 DEF Active, Ends
<1>4. got \in Contents \union {None}
  BY <1>1, <1>3, ActiveFacts, StoreTypes DEF Slots, SealSlot
<1>5. me.asset \notin me.uploads => got = store[<<me.lane, "asset", me.asset>>]
  BY DEF SealSlot
<1> HIDE DEF me, got
<1>6. ASSUME got # None
      PROVE  RunOK(next) /\ LanesFilled(next, store, manifest)
  <2>1. next \in RunStates
    BY <1>1, <1>4, <1>5, <1>6 DEF RunOK, RunStates, Points, Phases
  <2>2. InJob(next)
    BY <1>1, <1>4, <1>5, <1>6 DEF RunOK, RunStates, InJob, Active, Ends, Preparing,
       Promoting, Publishing, Reading, Copying, CopyLoop, SealLoop
  <2>3. HoldsWhatItNeeds(next)
    BY <1>1, <1>4, <1>5, <1>6 DEF RunOK, RunStates, InJob, HoldsWhatItNeeds, Active, Ends,
       Loops, Preparing, Promoting, Publishing, Reading, Copying, CopyLoop, SealLoop
  <2>4. LanesFilled(next, store, manifest)
    BY <1>1, <1>4, <1>5, <1>6 DEF RunOK, RunStates, InJob, LanesFilled, Filled, Active,
       Ends, Loops, Preparing, Promoting, Publishing, Reading, Copying, CopyLoop, SealLoop
  <2>5. QED
    BY <2>1, <2>2, <2>3, <2>4 DEF RunOK
<1>7. QED
  BY <1>2, <1>6, StepIfKeeps

LEMMA SealCheckKeeps ==
  ASSUME LanesInv, NEW r \in Runs, SealCheck(r)
  PROVE  LanesInv'
<1> DEFINE me == run[r]
           copied == store[<<me.lane, "asset", me.asset>>]
           next == [me EXCEPT !.pc = "seal-record"]
<1>1. RunOK(me) /\ LanesFilled(me, store, manifest) /\ me.pc = "seal-check"
  BY RunFacts DEF SealCheck, At
<1>2. StepIf(r, copied = me.held, next)
  BY DEF SealCheck
<1>3. Active(me)
  BY <1>1 DEF Active, Ends
<1> HIDE DEF me, copied
<1>4. ASSUME copied = me.held
      PROVE  RunOK(next) /\ LanesFilled(next, store, manifest)
  <2>1. next \in RunStates
    BY <1>1, <1>4 DEF RunOK, RunStates, Points, Phases
  <2>2. InJob(next)
    BY <1>1, <1>4 DEF RunOK, RunStates, InJob, Active, Ends, Preparing, Promoting,
       Publishing, Reading, Copying, CopyLoop, SealLoop
  <2>3. HoldsWhatItNeeds(next)
    BY <1>1, <1>4 DEF RunOK, RunStates, InJob, HoldsWhatItNeeds, Active, Ends, Loops,
       Preparing, Promoting, Publishing, Reading, Copying, CopyLoop, SealLoop
  <2>4. LanesFilled(next, store, manifest)
    BY <1>1, <1>4 DEF RunOK, RunStates, InJob, LanesFilled, Filled, Active, Ends, Loops,
       Preparing, Promoting, Publishing, Reading, Copying, CopyLoop, SealLoop
  <2>5. QED
    BY <2>1, <2>2, <2>3, <2>4 DEF RunOK
<1>5. QED
  BY <1>2, <1>4, StepIfKeeps

LEMMA BuildsDoneKeeps ==
  ASSUME LanesInv, NEW r \in Runs, BuildsDone(r)
  PROVE  LanesInv'
<1> DEFINE me == run[r]
           next == [me EXCEPT !.pc = "seal-get", !.built = [a \in Assets |-> 0]]
<1>1. RunOK(me) /\ LanesFilled(me, store, manifest) /\ me.pc = "build"
  BY RunFacts DEF BuildsDone, At
<1>2. Step(r, next)
  BY DEF BuildsDone
<1>3. Active(me)
  BY <1>1 DEF Active, Ends
<1>4. [a \in Assets |-> 0] \in [Assets -> 0 .. 2]
  OBVIOUS
<1>5. me.asset = 1 /\ Earlier(1) = {}
  BY <1>1, EarlierAssets DEF RunOK, HoldsWhatItNeeds, Loops, SealLoop, CopyLoop
<1> HIDE DEF me
<1>6. RunOK(next) /\ LanesFilled(next, store, manifest)
  <2>1. next \in RunStates
    <3>1. me \in RunStates /\ "seal-get" \in Points
      BY <1>1 DEF RunOK, Points
    <3>2. QED
      BY <1>4, <3>1 DEF RunStates
  <2>2. InJob(next)
    BY <1>1, <1>4, <1>5 DEF RunOK, RunStates, InJob, Active, Ends, Preparing, Promoting,
       Publishing, Reading, Copying, CopyLoop, SealLoop
  <2>3. HoldsWhatItNeeds(next)
    BY <1>1, <1>4, <1>5, <1>5 DEF RunOK, RunStates, InJob, HoldsWhatItNeeds, Active, Ends,
       Loops, Preparing, Promoting, Publishing, Reading, Copying, CopyLoop, SealLoop
  <2>4. LanesFilled(next, store, manifest)
    BY <1>1, <1>4, <1>5, <1>5 DEF RunOK, RunStates, InJob, LanesFilled, Filled, Active,
       Ends, Loops, Preparing, Promoting, Publishing, Reading, Copying, CopyLoop, SealLoop
  <2>5. QED
    BY <2>1, <2>2, <2>3, <2>4 DEF RunOK
<1>7. QED
  BY <1>2, <1>6, StepKeeps

LEMMA CopyGetKeeps ==
  ASSUME LanesInv, NEW r \in Runs, CopyGet(r)
  PROVE  LanesInv'
<1> DEFINE me == run[r]
           got == store[<<me.lane, "asset", me.asset>>]
           next == [me EXCEPT !.pc = "copy-put", !.held = got]
<1>1. RunOK(me) /\ LanesFilled(me, store, manifest) /\ me.pc = "copy-get"
  BY RunFacts DEF CopyGet, At
<1>2. StepIf(r, got # None, next)
  BY DEF CopyGet
<1>3. Active(me)
  BY <1>1 DEF Active, Ends
<1>4. got \in Contents \union {None}
  BY <1>1, <1>3, ActiveFacts, StoreTypes DEF Slots, SealSlot
<1> HIDE DEF me, got
<1>5. ASSUME got # None
      PROVE  RunOK(next) /\ LanesFilled(next, store, manifest)
  <2>1. next \in RunStates
    BY <1>1, <1>4, <1>5 DEF RunOK, RunStates, Points, Phases
  <2>2. InJob(next)
    BY <1>1, <1>4, <1>5 DEF RunOK, RunStates, InJob, Active, Ends, Preparing, Promoting,
       Publishing, Reading, Copying, CopyLoop, SealLoop
  <2>3. HoldsWhatItNeeds(next)
    BY <1>1, <1>4, <1>5 DEF RunOK, RunStates, InJob, HoldsWhatItNeeds, Active, Ends, Loops,
       Preparing, Promoting, Publishing, Reading, Copying, CopyLoop, SealLoop
  <2>4. LanesFilled(next, store, manifest)
    BY <1>1, <1>4, <1>5 DEF RunOK, RunStates, InJob, LanesFilled, Filled, Active, Ends,
       Loops, Preparing, Promoting, Publishing, Reading, Copying, CopyLoop, SealLoop
  <2>5. QED
    BY <2>1, <2>2, <2>3, <2>4 DEF RunOK
<1>6. QED
  BY <1>2, <1>5, StepIfKeeps

LEMMA CopyCheckKeeps ==
  ASSUME LanesInv, NEW r \in Runs, CopyCheck(r)
  PROVE  LanesInv'
<1> DEFINE me == run[r]
           copied == store[<<me.to, "asset", me.asset>>]
           next == [me EXCEPT !.pc = "copy-record"]
<1>1. RunOK(me) /\ LanesFilled(me, store, manifest) /\ me.pc = "copy-check"
  BY RunFacts DEF CopyCheck, At
<1>2. StepIf(r, copied = me.held, next)
  BY DEF CopyCheck
<1>3. Active(me)
  BY <1>1 DEF Active, Ends
<1> HIDE DEF me, copied
<1>4. ASSUME copied = me.held
      PROVE  RunOK(next) /\ LanesFilled(next, store, manifest)
  <2>1. next \in RunStates
    BY <1>1, <1>4 DEF RunOK, RunStates, Points, Phases
  <2>2. InJob(next)
    BY <1>1, <1>4 DEF RunOK, RunStates, InJob, Active, Ends, Preparing, Promoting,
       Publishing, Reading, Copying, CopyLoop, SealLoop
  <2>3. HoldsWhatItNeeds(next)
    BY <1>1, <1>4 DEF RunOK, RunStates, InJob, HoldsWhatItNeeds, Active, Ends, Loops,
       Preparing, Promoting, Publishing, Reading, Copying, CopyLoop, SealLoop
  <2>4. LanesFilled(next, store, manifest)
    BY <1>1, <1>4 DEF RunOK, RunStates, InJob, LanesFilled, Filled, Active, Ends, Loops,
       Preparing, Promoting, Publishing, Reading, Copying, CopyLoop, SealLoop
  <2>5. QED
    BY <2>1, <2>2, <2>3, <2>4 DEF RunOK
<1>5. QED
  BY <1>2, <1>4, StepIfKeeps

LEMMA VersionCheckKeeps ==
  ASSUME LanesInv, NEW r \in Runs, VersionCheck(r)
  PROVE  LanesInv'
<1> DEFINE me == run[r]
           next == [me EXCEPT !.pc = "remove"]
<1>1. RunOK(me) /\ LanesFilled(me, store, manifest) /\ me.pc = "version-check"
  BY RunFacts DEF VersionCheck, At
<1>2. StepIf(r, me.files[1].version = me.version, next)
  BY DEF VersionCheck
<1>3. Active(me)
  BY <1>1 DEF Active, Ends
<1> HIDE DEF me
<1>4. ASSUME me.files[1].version = me.version
      PROVE  RunOK(next) /\ LanesFilled(next, store, manifest)
  <2>1. next \in RunStates
    BY <1>1, <1>4 DEF RunOK, RunStates, Points, Phases
  <2>2. InJob(next)
    BY <1>1, <1>4 DEF RunOK, RunStates, InJob, Active, Ends, Preparing, Promoting,
       Publishing, Reading, Copying, CopyLoop, SealLoop
  <2>3. HoldsWhatItNeeds(next)
    BY <1>1, <1>4 DEF RunOK, RunStates, InJob, HoldsWhatItNeeds, Active, Ends, Loops,
       Preparing, Promoting, Publishing, Reading, Copying, CopyLoop, SealLoop
  <2>4. LanesFilled(next, store, manifest)
    BY <1>1, <1>4 DEF RunOK, RunStates, InJob, LanesFilled, Filled, Active, Ends, Loops,
       Preparing, Promoting, Publishing, Reading, Copying, CopyLoop, SealLoop
  <2>5. QED
    BY <2>1, <2>2, <2>3, <2>4 DEF RunOK
<1>5. QED
  BY <1>2, <1>4, StepIfKeeps

LEMMA ListAssetsKeeps ==
  ASSUME LanesInv, NEW r \in Runs, ListAssets(r)
  PROVE  LanesInv'
<1> DEFINE me == run[r]
           next == [me EXCEPT !.pc = "publish"]
<1>1. RunOK(me) /\ LanesFilled(me, store, manifest) /\ me.pc = "list"
  BY RunFacts DEF ListAssets, At
<1>2. StepIf(r, \A a \in Assets : releases[me.release].assets[a] # None, next)
  BY DEF ListAssets
<1>3. Active(me)
  BY <1>1 DEF Active, Ends
<1> HIDE DEF me
<1>4. ASSUME \A a \in Assets : releases[me.release].assets[a] # None
      PROVE  RunOK(next) /\ LanesFilled(next, store, manifest)
  <2>1. next \in RunStates
    BY <1>1, <1>4 DEF RunOK, RunStates, Points, Phases
  <2>2. InJob(next)
    BY <1>1, <1>4 DEF RunOK, RunStates, InJob, Active, Ends, Preparing, Promoting,
       Publishing, Reading, Copying, CopyLoop, SealLoop
  <2>3. HoldsWhatItNeeds(next)
    BY <1>1, <1>4 DEF RunOK, RunStates, InJob, HoldsWhatItNeeds, Active, Ends, Loops,
       Preparing, Promoting, Publishing, Reading, Copying, CopyLoop, SealLoop
  <2>4. LanesFilled(next, store, manifest)
    BY <1>1, <1>4 DEF RunOK, RunStates, InJob, LanesFilled, Filled, Active, Ends, Loops,
       Preparing, Promoting, Publishing, Reading, Copying, CopyLoop, SealLoop
  <2>5. QED
    BY <2>1, <2>2, <2>3, <2>4 DEF RunOK
<1>5. QED
  BY <1>2, <1>4, StepIfKeeps

\* Sealing or downloading an asset is followed by the next one.
LEMMA CollectedOK ==
  ASSUME NEW me, RunOK(me), NEW content \in Contents, NEW objects, NEW manifests,
         LanesFilled(me, objects, manifests),
         NEW loop, NEW after,
         \/ /\ me.pc \in SealLoop /\ loop = "seal-get" /\ after = "seal-manifest"
            /\ me.kind = "release" => objects[<<me.lane, "asset", me.asset>>] # None
         \/ me.pc = "download" /\ loop = "download" /\ after = "version-check"
  PROVE  LET next == Advance([me EXCEPT !.files[me.asset] = content], loop, after)
         IN  RunOK(next) /\ LanesFilled(next, objects, manifests)
<1> DEFINE kept == [me EXCEPT !.files[me.asset] = content]
           next == Advance(kept, loop, after)
<1>1. /\ kept \in RunStates /\ SameJob(me, kept) /\ kept.asset = me.asset /\ me \in RunStates
      /\ kept.files[me.asset] = content
      /\ \A b \in Assets : b # me.asset => kept.files[b] = me.files[b]
  BY FileFacts DEF RunOK
<1>2. loop \in Points /\ after \in Points
  BY DEF Points
<1> HIDE DEF kept
<1>3. /\ next \in RunStates /\ SameJob(kept, next) /\ next.files = kept.files
      /\ \/ next.pc = loop /\ Earlier(next.asset) = Earlier(me.asset) \union {me.asset}
         \/ next.pc = after /\ next.asset = 1 /\ Assets = Earlier(me.asset) \union {me.asset}
  <2>1. kept \in RunStates /\ kept.asset = me.asset
    BY <1>1
  <2>2. /\ next \in RunStates /\ SameJob(kept, next) /\ next.files = kept.files
        /\ \/ next.pc = loop /\ Earlier(next.asset) = Earlier(kept.asset) \union {kept.asset}
           \/ next.pc = after /\ next.asset = 1 /\ Assets = Earlier(kept.asset) \union {kept.asset}
    BY <1>2, <2>1, AdvanceFacts, ZenonT(60)
  <2>3. QED
    BY <2>1, <2>2
<1> HIDE DEF next
<1>4. SameJob(me, next) /\ me.asset \in Assets /\ Earlier(me.asset) \subseteq Assets
  BY <1>1, <1>3, EarlierAssets DEF SameJob, RunStates
<1>5. InJob(next)
  BY <1>3, <1>4 DEF RunOK, RunStates, InJob, SameJob, Active, Ends, Preparing, Promoting,
     Publishing, Reading, Copying, CopyLoop, SealLoop
<1>6. \A b \in Earlier(me.asset) \union {me.asset} : next.files[b] \in Contents
  <2>1. \A b \in Earlier(me.asset) : me.files[b] \in Contents
    BY DEF RunOK, HoldsWhatItNeeds
  <2>2. QED
    BY <1>1, <1>3, <1>4, <2>1
<1>7. HoldsWhatItNeeds(next)
  BY <1>1, <1>3, <1>4, <1>6 DEF RunOK, InJob, HoldsWhatItNeeds, SameJob, Active, Ends, Loops,
     Preparing, Promoting, Publishing, Reading, Copying, CopyLoop, SealLoop
<1>8. (me.kind = "release" /\ me.pc \in SealLoop)
        => Filled(objects, me.lane, Earlier(me.asset) \union {me.asset})
  BY DEF LanesFilled, Filled, SealLoop
<1>9. LanesFilled(next, objects, manifests)
  BY <1>1, <1>3, <1>4, <1>8 DEF RunOK, InJob, LanesFilled, SameJob, Active, Ends,
     Publishing, Preparing, Promoting, Reading, Copying, CopyLoop, SealLoop
<1>10. QED
  BY <1>3, <1>5, <1>7, <1>9 DEF RunOK, next, kept

\* A loop that has dealt with an asset goes on to the next one.
LEMMA LoopOK ==
  ASSUME NEW me, RunOK(me), NEW objects, NEW manifests, LanesFilled(me, objects, manifests),
         NEW loop, NEW after,
         \/ me.pc = "verify" /\ loop = "verify" /\ after = "decide"
         \/ me.pc = "copy-record" /\ loop = "copy-get" /\ after = "copy-manifest"
         \/ me.pc \in {"remove", "upload"} /\ loop = "remove" /\ after = "list"
  PROVE  LET next == Advance(me, loop, after)
         IN  RunOK(next) /\ LanesFilled(next, objects, manifests)
<1> DEFINE next == Advance(me, loop, after)
<1>1. me \in RunStates /\ loop \in Points /\ after \in Points
  BY DEF RunOK, Points
<1>2. /\ next \in RunStates /\ SameJob(me, next) /\ next.files = me.files
      /\ \/ next.pc = loop /\ Earlier(next.asset) = Earlier(me.asset) \union {me.asset}
         \/ next.pc = after /\ next.asset = 1 /\ Assets = Earlier(me.asset) \union {me.asset}
  BY <1>1, AdvanceFacts, Zenon
<1> HIDE DEF next
<1>3. InJob(next)
  BY <1>2 DEF RunOK, RunStates, InJob, SameJob, Active, Ends, Preparing, Promoting,
     Publishing, Reading, Copying, CopyLoop, SealLoop
<1>4. HoldsWhatItNeeds(next)
  BY <1>2 DEF RunOK, InJob, HoldsWhatItNeeds, SameJob, Active, Ends, Loops,
     Preparing, Promoting, Publishing, Reading, Copying, CopyLoop, SealLoop
<1>5. me.pc = "copy-record" => Filled(objects, me.to, Earlier(me.asset) \union {me.asset})
  BY DEF LanesFilled, Filled, CopyLoop
<1>6. LanesFilled(next, objects, manifests)
  BY <1>2, <1>5 DEF RunOK, InJob, LanesFilled, SameJob, Active, Ends,
     Publishing, Preparing, Promoting, Reading, Copying, CopyLoop, SealLoop
<1>7. QED
  BY <1>2, <1>3, <1>4, <1>6 DEF RunOK, next

\* What a job does about a lane it cannot use.
LEMMA UnusableOK ==
  ASSUME NEW me, RunOK(me), NEW objects, NEW manifests, LanesFilled(me, objects, manifests),
         me.pc \in Reading
  PROVE  RunOK(Unusable(me)) /\ LanesFilled(Unusable(me), objects, manifests)
<1> DEFINE next == Unusable(me)
<1>1. CASE me.phase = "prepare"
  <2>1. next = [me EXCEPT !.pc = "build", !.uploads = Assets, !.found = None, !.asset = 1]
    BY <1>1 DEF Unusable
  <2> HIDE DEF next
  <2>2. next \in RunStates
    BY <2>1, AssetFacts, ZenonT(60) DEF RunOK, RunStates, Points
  <2>3. InJob(next)
    BY <1>1, <2>1 DEF RunOK, RunStates, InJob, Active, Ends, Preparing, Promoting,
       Publishing, Reading, Copying, CopyLoop, SealLoop
  <2>4. HoldsWhatItNeeds(next)
    BY <1>1, <2>1 DEF RunOK, RunStates, HoldsWhatItNeeds, Active, Ends, Loops, Copying,
       CopyLoop, SealLoop
  <2>5. LanesFilled(next, objects, manifests)
    BY <1>1, <2>1 DEF RunOK, RunStates, LanesFilled, CopyLoop, SealLoop
  <2>6. QED
    BY <2>2, <2>3, <2>4, <2>5 DEF RunOK, next
<1>2. CASE me.phase = "promote"
  <2>1. next = [me EXCEPT !.pc = "push", !.found = None, !.asset = 1]
    BY <1>2 DEF Unusable
  <2> HIDE DEF next
  <2>2. next \in RunStates
    BY <2>1, AssetFacts, ZenonT(60) DEF RunOK, RunStates, Points
  <2>3. InJob(next)
    BY <1>2, <2>1 DEF RunOK, RunStates, InJob, Active, Ends, Preparing, Promoting,
       Publishing, Reading, Copying, CopyLoop, SealLoop
  <2>4. HoldsWhatItNeeds(next)
    BY <1>2, <2>1 DEF RunOK, RunStates, HoldsWhatItNeeds, Active, Ends, Loops, Copying,
       CopyLoop, SealLoop
  <2>5. LanesFilled(next, objects, manifests)
    BY <1>2, <2>1 DEF RunOK, RunStates, LanesFilled, CopyLoop, SealLoop
  <2>6. QED
    BY <2>2, <2>3, <2>4, <2>5 DEF RunOK, next
<1>3. CASE me.phase \notin {"prepare", "promote"}
  BY <1>3, EndedOK DEF Unusable, Ends
<1>4. QED
  BY <1>1, <1>2, <1>3

LEMMA SealDigestKeeps ==
  ASSUME LanesInv, NEW r \in Runs, SealDigest(r)
  PROVE  LanesInv'
<1> DEFINE me == run[r]
           digest == store[<<me.lane, SealDigestSlot(me), me.asset>>]
           next == IF me.asset \in me.uploads THEN [me EXCEPT !.pc = "seal-copy"]
                   ELSE Advance(Sealed(me), "seal-get", "seal-manifest")
<1>1. RunOK(me) /\ LanesFilled(me, store, manifest) /\ me.pc = "seal-digest"
  BY RunFacts DEF SealDigest, At
<1>2. StepIf(r, digest = me.held, next)
  BY DEF SealDigest
<1> HIDE DEF me
<1>3. RunOK(next) /\ LanesFilled(next, store, manifest)
  <2>1. CASE me.asset \in me.uploads
    <3>1. next = [me EXCEPT !.pc = "seal-copy"]
      BY <2>1
    <3> HIDE DEF next
    <3>2. next \in RunStates
      BY <1>1, <3>1 DEF RunOK, RunStates, Points
    <3>3. InJob(next)
      BY <1>1, <3>1 DEF RunOK, RunStates, InJob, Active, Ends, Preparing, Promoting,
         Publishing, Reading, Copying, CopyLoop, SealLoop
    <3>4. HoldsWhatItNeeds(next)
      BY <1>1, <3>1 DEF RunOK, RunStates, HoldsWhatItNeeds, Active, Ends, Loops, Copying,
         CopyLoop,
         SealLoop
    <3>5. LanesFilled(next, store, manifest)
      BY <1>1, <2>1, <3>1 DEF RunOK, RunStates, LanesFilled, Active, Ends, CopyLoop, SealLoop
    <3>6. QED
      BY <3>2, <3>3, <3>4, <3>5 DEF RunOK
  <2>2. CASE me.asset \notin me.uploads
    <3>1. me.held \in Contents /\ me.pc \in SealLoop
      BY <1>1 DEF RunOK, HoldsWhatItNeeds, SealLoop
    <3>2. me.kind = "release" => store[<<me.lane, "asset", me.asset>>] # None
      BY <1>1, <2>2 DEF LanesFilled
    <3>3. next = Advance([me EXCEPT !.files[me.asset] = me.held], "seal-get", "seal-manifest")
      BY <2>2 DEF Sealed
    <3>4. QED
      BY <1>1, <3>1, <3>2, <3>3, CollectedOK
  <2>3. QED
    BY <2>1, <2>2
<1>4. QED
  BY <1>2, <1>3, StepIfKeeps DEF me

LEMMA DownloadKeeps ==
  ASSUME LanesInv, NEW r \in Runs, Download(r)
  PROVE  LanesInv'
<1> DEFINE me == run[r]
           got == store[<<me.lane, "asset", me.asset>>]
           next == Advance([me EXCEPT !.files[me.asset] = got], "download", "version-check")
<1>1. RunOK(me) /\ LanesFilled(me, store, manifest) /\ me.pc = "download"
  BY RunFacts DEF Download, At
<1>2. StepIf(r, got # None, next)
  BY DEF Download
<1>3. got \in Contents \union {None}
  BY <1>1, ActiveFacts, StoreTypes DEF Slots, Active, Ends
<1> HIDE DEF me, got
<1>4. ASSUME got # None
      PROVE  RunOK(next) /\ LanesFilled(next, store, manifest)
  BY <1>1, <1>3, <1>4, CollectedOK
<1>5. QED
  BY <1>2, <1>4, StepIfKeeps

LEMMA ReadManifestKeeps ==
  ASSUME LanesInv, NEW r \in Runs, ReadManifest(r)
  PROVE  LanesInv'
<1> DEFINE me == run[r]
           read == manifest[me.lane]
           next == IF read = None THEN Unusable(me) ELSE [me EXCEPT !.pc = "verify", !.found = read]
<1>1. RunOK(me) /\ LanesFilled(me, store, manifest) /\ me.pc = "read" /\ Step(r, next)
  BY RunFacts DEF ReadManifest, At
<1>2. read \in Manifests \union {None}
  BY <1>1, ActiveFacts DEF Active, Ends, LanesInv, TypeOK
<1>3. read = manifest[me.lane]
  OBVIOUS
<1> HIDE DEF me, read
<1>4. RunOK(next) /\ LanesFilled(next, store, manifest)
  <2>1. CASE read = None
    BY <1>1, <2>1, UnusableOK DEF Reading
  <2>2. CASE read # None
    <3>1. next = [me EXCEPT !.pc = "verify", !.found = read]
      BY <2>2
    <3> HIDE DEF next
    <3>2. next \in RunStates
      BY <1>1, <1>2, <3>1, ZenonT(60) DEF RunOK, RunStates, Points
    <3>3. InJob(next)
      BY <1>1, <3>1 DEF RunOK, RunStates, InJob, Active, Ends, Preparing, Promoting,
         Publishing, Reading, Copying, CopyLoop, SealLoop
    <3>4. HoldsWhatItNeeds(next)
      BY <1>1, <1>2, <2>2, <3>1 DEF RunOK, RunStates, HoldsWhatItNeeds, Active, Ends, Loops,
         Copying,
         CopyLoop, SealLoop
    <3>5. LanesFilled(next, store, manifest)
      BY <1>1, <1>3, <2>2, <3>1 DEF RunOK, RunStates, LanesFilled, CopyLoop, SealLoop
    <3>6. QED
      BY <3>2, <3>3, <3>4, <3>5 DEF RunOK
  <2>3. QED
    BY <2>1, <2>2
<1>5. QED
  BY <1>1, <1>4, StepKeeps

LEMMA VerifyAssetKeeps ==
  ASSUME LanesInv, NEW r \in Runs, VerifyAsset(r)
  PROVE  LanesInv'
<1> DEFINE me == run[r]
           same == store[<<me.lane, "asset", me.asset>>] = me.found.assets[me.asset]
           next == IF same THEN Advance(me, "verify", "decide") ELSE Unusable(me)
<1>1. RunOK(me) /\ LanesFilled(me, store, manifest) /\ me.pc = "verify" /\ Step(r, next)
  BY RunFacts DEF VerifyAsset, At
<1> HIDE DEF me, same
<1>2. RunOK(next) /\ LanesFilled(next, store, manifest)
  <2>1. CASE same
    BY <1>1, <2>1, LoopOK
  <2>2. CASE ~same
    BY <1>1, <2>2, UnusableOK DEF Reading
  <2>3. QED
    BY <2>1, <2>2
<1>3. QED
  BY <1>1, <1>2, StepKeeps

LEMMA SkipPromotionKeeps ==
  ASSUME LanesInv, NEW r \in Runs, SkipPromotion(r)
  PROVE  LanesInv'
<1>1. /\ RunOK(run[r]) /\ LanesFilled(run[r], store, manifest) /\ run[r].pc = "read"
      /\ Step(r, Unusable(run[r]))
  BY RunFacts DEF SkipPromotion, At
<1>2. QED
  BY <1>1, UnusableOK, StepKeeps DEF Reading

\* The history of a run is not part of what its jobs work with.
LEMMA UnreadFacts ==
  ASSUME NEW me \in RunStates
  PROVE  LET next == [me EXCEPT !.unread = TRUE] IN
         /\ next \in RunStates /\ SameJob(me, next)
         /\ next.pc = me.pc /\ next.asset = me.asset /\ next.files = me.files
         /\ next.held = me.held /\ next.built = me.built /\ next.listed = me.listed
BY DEF RunStates, SameJob

LEMMA LaneUnreadKeeps ==
  ASSUME LanesInv, NEW r \in Runs, LaneUnread(r)
  PROVE  LanesInv'
<1> DEFINE me == Unusable(run[r])
           next == [me EXCEPT !.unread = TRUE]
<1>1. RunOK(run[r]) /\ LanesFilled(run[r], store, manifest) /\ run[r].pc \in Reading
  BY RunFacts DEF LaneUnread, At, Reading
<1>2. Step(r, next)
  BY DEF LaneUnread
<1>3. RunOK(me) /\ LanesFilled(me, store, manifest)
  BY <1>1, UnusableOK
<1> HIDE DEF me
<1>4. /\ next \in RunStates /\ SameJob(me, next)
      /\ next.pc = me.pc /\ next.asset = me.asset /\ next.files = me.files
      /\ next.held = me.held
  BY <1>3, UnreadFacts DEF RunOK
<1> HIDE DEF next
<1>5. InJob(next)
  BY <1>3, <1>4 DEF RunOK, InJob, Active, SameJob
<1>6. HoldsWhatItNeeds(next)
  BY <1>3, <1>4 DEF RunOK, HoldsWhatItNeeds, Active, SameJob
<1>7. LanesFilled(next, store, manifest)
  BY <1>3, <1>4 DEF LanesFilled, Active, SameJob
<1>8. QED
  BY <1>2, <1>4, <1>5, <1>6, <1>7, StepKeeps DEF RunOK

\* The runner is killed, a job times out, or a test job fails.
LEMMA AbortKeeps ==
  ASSUME LanesInv, NEW r \in Runs, Abort(r)
  PROVE  LanesInv'
BY RunFacts, EndedOK, StepKeeps DEF Abort, Ends
-----------------------------------------------------------------------------
(* ... then those that write objects, ...                                    *)

\* A tree of a commit is one.
LEMMA BuiltFacts ==
  ASSUME LanesInv, NEW r \in Runs, Active(run[r])
  PROVE  /\ Commit(run[r]) \in Commits /\ TreeOf(Commit(run[r])) \in Commits
         /\ Built(r) \in Contents
<1>1. run[r].source \in PullRequests /\ run[r].version \in Versions
  BY RunFacts, ActiveFacts
<1>2. Commit(run[r]) \in Commits /\ TreeOf(Commit(run[r])) \in Commits
  BY <1>1 DEF Commit, TreeOf, HeadOf, MergeOf, Commits
<1>3. QED
  BY <1>1, <1>2 DEF Built, Contents

LEMMA UploadAssetKeeps ==
  ASSUME LanesInv, NEW r \in Runs, NEW a \in Assets, UploadAsset(r, a)
  PROVE  LanesInv'
<1> DEFINE me == run[r]
           next == [me EXCEPT !.built[a] = 1]
<1>1. /\ RunOK(me) /\ LanesFilled(me, store, manifest) /\ me.pc = "build"
      /\ Put(<<me.lane, "staging", a>>, Built(r))
      /\ Goto(r, next)
      /\ UNCHANGED <<manifest, latest, github>>
  BY RunFacts DEF UploadAsset, At
<1>2. /\ Active(me)
      /\ me.lane \in Lanes
      /\ "staging" \in Slots
      /\ a \in Assets
      /\ Built(r) \in Contents \union {None}
      /\ "staging" = "asset" => Built(r) # None
  <2>1. Active(me)
    BY <1>1 DEF Active, Ends
  <2>2. QED
    BY <1>1, <2>1, ActiveFacts, BuiltFacts DEF Slots, RunOK, RunStates, HoldsWhatItNeeds,
       Copying, CopyLoop, SealLoop
<1>3. me = run[r]
  OBVIOUS
<1> HIDE DEF me
<1>4. ASSUME LanesFilled(me, store', manifest)
      PROVE  RunOK(next) /\ LanesFilled(next, store', manifest)
  <2>1. /\ next = [me EXCEPT !.built = [me.built EXCEPT ![a] = 1]]
        /\ [me.built EXCEPT ![a] = 1] \in [Assets -> 0 .. 2]
    BY <1>1 DEF RunOK, RunStates
  <2>2. next \in RunStates
    BY <1>1, <1>2, <1>4, <2>1 DEF RunOK, RunStates, Points, Phases, Kinds
  <2>3. InJob(next)
    BY <1>1, <1>2, <1>4, <2>1 DEF RunOK, RunStates, InJob, Active, Ends, Preparing,
       Promoting, Publishing, Reading, Copying, CopyLoop, SealLoop
  <2>4. HoldsWhatItNeeds(next)
    BY <1>1, <1>2, <1>4, <2>1 DEF RunOK, RunStates, InJob, HoldsWhatItNeeds, Active, Ends,
       Loops, Preparing, Promoting, Publishing, Reading, Copying, CopyLoop, SealLoop
  <2>5. LanesFilled(next, store', manifest)
    BY <1>1, <1>2, <1>4, <2>1 DEF RunOK, RunStates, InJob, LanesFilled, Filled, Active,
       Ends, Loops, Preparing, Promoting, Publishing, Reading, Copying, CopyLoop, SealLoop
  <2>6. QED
    BY <2>2, <2>3, <2>4, <2>5 DEF RunOK
<1> HIDE DEF next
<1>5. QED
  BY <1>1, <1>2, <1>3, <1>4, PutKeeps

LEMMA UploadDigestKeeps ==
  ASSUME LanesInv, NEW r \in Runs, NEW a \in Assets, UploadDigest(r, a)
  PROVE  LanesInv'
<1> DEFINE me == run[r]
           next == [me EXCEPT !.built[a] = 2]
<1>1. /\ RunOK(me) /\ LanesFilled(me, store, manifest) /\ me.pc = "build"
      /\ Put(<<me.lane, "staging-sha256", a>>, Built(r))
      /\ Goto(r, next)
      /\ UNCHANGED <<manifest, latest, github>>
  BY RunFacts DEF UploadDigest, At
<1>2. /\ Active(me)
      /\ me.lane \in Lanes
      /\ "staging-sha256" \in Slots
      /\ a \in Assets
      /\ Built(r) \in Contents \union {None}
      /\ "staging-sha256" = "asset" => Built(r) # None
  <2>1. Active(me)
    BY <1>1 DEF Active, Ends
  <2>2. QED
    BY <1>1, <2>1, ActiveFacts, BuiltFacts DEF Slots, RunOK, RunStates, HoldsWhatItNeeds,
       Copying, CopyLoop, SealLoop
<1>3. me = run[r]
  OBVIOUS
<1> HIDE DEF me
<1>4. ASSUME LanesFilled(me, store', manifest)
      PROVE  RunOK(next) /\ LanesFilled(next, store', manifest)
  <2>1. /\ next = [me EXCEPT !.built = [me.built EXCEPT ![a] = 2]]
        /\ [me.built EXCEPT ![a] = 2] \in [Assets -> 0 .. 2]
    BY <1>1 DEF RunOK, RunStates
  <2>2. next \in RunStates
    BY <1>1, <1>2, <1>4, <2>1 DEF RunOK, RunStates, Points, Phases, Kinds
  <2>3. InJob(next)
    BY <1>1, <1>2, <1>4, <2>1 DEF RunOK, RunStates, InJob, Active, Ends, Preparing,
       Promoting, Publishing, Reading, Copying, CopyLoop, SealLoop
  <2>4. HoldsWhatItNeeds(next)
    BY <1>1, <1>2, <1>4, <2>1 DEF RunOK, RunStates, InJob, HoldsWhatItNeeds, Active, Ends,
       Loops, Preparing, Promoting, Publishing, Reading, Copying, CopyLoop, SealLoop
  <2>5. LanesFilled(next, store', manifest)
    BY <1>1, <1>2, <1>4, <2>1 DEF RunOK, RunStates, InJob, LanesFilled, Filled, Active,
       Ends, Loops, Preparing, Promoting, Publishing, Reading, Copying, CopyLoop, SealLoop
  <2>6. QED
    BY <2>2, <2>3, <2>4, <2>5 DEF RunOK
<1> HIDE DEF next
<1>5. QED
  BY <1>1, <1>2, <1>3, <1>4, PutKeeps

LEMMA SealRecordKeeps ==
  ASSUME LanesInv, NEW r \in Runs, SealRecord(r)
  PROVE  LanesInv'
<1> DEFINE me == run[r]
           next == [me EXCEPT !.pc = "seal-clean"]
<1>1. /\ RunOK(me) /\ LanesFilled(me, store, manifest) /\ me.pc = "seal-record"
      /\ Put(<<me.lane, "sha256", me.asset>>, me.held)
      /\ Goto(r, next)
      /\ UNCHANGED <<manifest, latest, github>>
  BY RunFacts DEF SealRecord, At
<1>2. /\ Active(me)
      /\ me.lane \in Lanes
      /\ "sha256" \in Slots
      /\ me.asset \in Assets
      /\ me.held \in Contents \union {None}
      /\ "sha256" = "asset" => me.held # None
  <2>1. Active(me)
    BY <1>1 DEF Active, Ends
  <2>2. QED
    BY <1>1, <2>1, ActiveFacts DEF Slots, RunOK, RunStates, HoldsWhatItNeeds, Copying, CopyLoop,
       SealLoop
<1>3. me = run[r]
  OBVIOUS
<1> HIDE DEF me
<1>4. ASSUME LanesFilled(me, store', manifest)
      PROVE  RunOK(next) /\ LanesFilled(next, store', manifest)
  <2>2. next \in RunStates
    BY <1>1, <1>2, <1>4 DEF RunOK, RunStates, Points, Phases, Kinds
  <2>3. InJob(next)
    BY <1>1, <1>2, <1>4 DEF RunOK, RunStates, InJob, Active, Ends, Preparing, Promoting,
       Publishing, Reading, Copying, CopyLoop, SealLoop
  <2>4. HoldsWhatItNeeds(next)
    BY <1>1, <1>2, <1>4 DEF RunOK, RunStates, InJob, HoldsWhatItNeeds, Active, Ends, Loops,
       Preparing, Promoting, Publishing, Reading, Copying, CopyLoop, SealLoop
  <2>5. LanesFilled(next, store', manifest)
    BY <1>1, <1>2, <1>4 DEF RunOK, RunStates, InJob, LanesFilled, Filled, Active, Ends,
       Loops, Preparing, Promoting, Publishing, Reading, Copying, CopyLoop, SealLoop
  <2>6. QED
    BY <2>2, <2>3, <2>4, <2>5 DEF RunOK
<1> HIDE DEF next
<1>5. QED
  BY <1>1, <1>2, <1>3, <1>4, PutKeeps

LEMMA SealCleanKeeps ==
  ASSUME LanesInv, NEW r \in Runs, SealClean(r)
  PROVE  LanesInv'
<1> DEFINE me == run[r]
           next == [me EXCEPT !.pc = "seal-clean-digest"]
<1>1. /\ RunOK(me) /\ LanesFilled(me, store, manifest) /\ me.pc = "seal-clean"
      /\ Put(<<me.lane, "staging", me.asset>>, None)
      /\ Goto(r, next)
      /\ UNCHANGED <<manifest, latest, github>>
  BY RunFacts DEF SealClean, At
<1>2. /\ Active(me)
      /\ me.lane \in Lanes
      /\ "staging" \in Slots
      /\ me.asset \in Assets
      /\ None \in Contents \union {None}
      /\ "staging" = "asset" => None # None
  <2>1. Active(me)
    BY <1>1 DEF Active, Ends
  <2>2. QED
    BY <1>1, <2>1, ActiveFacts DEF Slots, RunOK, RunStates, HoldsWhatItNeeds, Copying, CopyLoop,
       SealLoop
<1>3. me = run[r]
  OBVIOUS
<1> HIDE DEF me
<1>4. ASSUME LanesFilled(me, store', manifest)
      PROVE  RunOK(next) /\ LanesFilled(next, store', manifest)
  <2>2. next \in RunStates
    BY <1>1, <1>2, <1>4 DEF RunOK, RunStates, Points, Phases, Kinds
  <2>3. InJob(next)
    BY <1>1, <1>2, <1>4 DEF RunOK, RunStates, InJob, Active, Ends, Preparing, Promoting,
       Publishing, Reading, Copying, CopyLoop, SealLoop
  <2>4. HoldsWhatItNeeds(next)
    BY <1>1, <1>2, <1>4 DEF RunOK, RunStates, InJob, HoldsWhatItNeeds, Active, Ends, Loops,
       Preparing, Promoting, Publishing, Reading, Copying, CopyLoop, SealLoop
  <2>5. LanesFilled(next, store', manifest)
    BY <1>1, <1>2, <1>4 DEF RunOK, RunStates, InJob, LanesFilled, Filled, Active, Ends,
       Loops, Preparing, Promoting, Publishing, Reading, Copying, CopyLoop, SealLoop
  <2>6. QED
    BY <2>2, <2>3, <2>4, <2>5 DEF RunOK
<1> HIDE DEF next
<1>5. QED
  BY <1>1, <1>2, <1>3, <1>4, PutKeeps

LEMMA SealCleanDigestKeeps ==
  ASSUME LanesInv, NEW r \in Runs, SealCleanDigest(r)
  PROVE  LanesInv'
<1> DEFINE me == run[r]
           next == Advance(Sealed(me), "seal-get", "seal-manifest")
<1>1. /\ RunOK(me) /\ LanesFilled(me, store, manifest) /\ me.pc = "seal-clean-digest"
      /\ Put(<<me.lane, "staging-sha256", me.asset>>, None)
      /\ Goto(r, next)
      /\ UNCHANGED <<manifest, latest, github>>
  BY RunFacts DEF SealCleanDigest, At
<1>2. /\ Active(me)
      /\ me.lane \in Lanes
      /\ "staging-sha256" \in Slots
      /\ me.asset \in Assets
      /\ None \in Contents \union {None}
      /\ "staging-sha256" = "asset" => None # None
  <2>1. Active(me)
    BY <1>1 DEF Active, Ends
  <2>2. QED
    BY <1>1, <2>1, ActiveFacts DEF Slots, RunOK, RunStates, HoldsWhatItNeeds, Copying, CopyLoop,
       SealLoop
<1>3. me = run[r]
  OBVIOUS
<1> HIDE DEF me
<1>4. ASSUME LanesFilled(me, store', manifest)
      PROVE  RunOK(next) /\ LanesFilled(next, store', manifest)
  <2>1. me.held \in Contents /\ me.pc \in SealLoop
    BY <1>1 DEF RunOK, HoldsWhatItNeeds, SealLoop
  <2>2. me.kind = "release" => store'[<<me.lane, "asset", me.asset>>] # None
    BY <1>1, <1>4 DEF LanesFilled, SealLoop
  <2>3. next = Advance([me EXCEPT !.files[me.asset] = me.held], "seal-get", "seal-manifest")
    BY DEF Sealed
  <2>4. QED
    BY <1>1, <1>4, <2>1, <2>2, <2>3, CollectedOK
<1> HIDE DEF next
<1>5. QED
  BY <1>1, <1>2, <1>3, <1>4, PutKeeps

LEMMA CopyRecordKeeps ==
  ASSUME LanesInv, NEW r \in Runs, CopyRecord(r)
  PROVE  LanesInv'
<1> DEFINE me == run[r]
           next == Advance(me, "copy-get", "copy-manifest")
<1>1. /\ RunOK(me) /\ LanesFilled(me, store, manifest) /\ me.pc = "copy-record"
      /\ Put(<<me.to, "sha256", me.asset>>, me.held)
      /\ Goto(r, next)
      /\ UNCHANGED <<manifest, latest, github>>
  BY RunFacts DEF CopyRecord, At
<1>2. /\ Active(me)
      /\ me.to \in Lanes
      /\ "sha256" \in Slots
      /\ me.asset \in Assets
      /\ me.held \in Contents \union {None}
      /\ "sha256" = "asset" => me.held # None
  <2>1. Active(me)
    BY <1>1 DEF Active, Ends
  <2>2. QED
    BY <1>1, <2>1, ActiveFacts DEF Slots, RunOK, RunStates, HoldsWhatItNeeds, Copying, CopyLoop,
       SealLoop
<1>3. me = run[r]
  OBVIOUS
<1> HIDE DEF me
<1>4. ASSUME LanesFilled(me, store', manifest)
      PROVE  RunOK(next) /\ LanesFilled(next, store', manifest)
  BY <1>1, <1>4, LoopOK
<1> HIDE DEF next
<1>5. QED
  BY <1>1, <1>2, <1>3, <1>4, PutKeeps

LEMMA SealCopyKeeps ==
  ASSUME LanesInv, NEW r \in Runs, SealCopy(r)
  PROVE  LanesInv'
<1> DEFINE me == run[r]
           next == [me EXCEPT !.pc = "seal-check"]
<1>1. /\ RunOK(me) /\ LanesFilled(me, store, manifest) /\ me.pc = "seal-copy"
      /\ CopyObject(r, <<me.lane, "staging", me.asset>>, <<me.lane, "asset", me.asset>>, next)
      /\ UNCHANGED <<manifest, latest, github>>
  BY RunFacts DEF SealCopy, At
<1>2. me.lane \in Lanes /\ "staging" \in Slots /\ me.lane \in Lanes /\ me.asset \in Assets
  BY <1>1, ActiveFacts DEF Active, Ends, Slots, Copying, CopyLoop
<1> HIDE DEF me
<1>3. ASSUME LanesFilled(me, store', manifest), store'[<<me.lane, "asset", me.asset>>] # None
      PROVE  RunOK(next) /\ LanesFilled(next, store', manifest)
  <2>2. next \in RunStates
    BY <1>1, <1>3 DEF RunOK, RunStates, Points, Phases, Kinds
  <2>3. InJob(next)
    BY <1>1, <1>3 DEF RunOK, RunStates, InJob, Active, Ends, Preparing, Promoting,
       Publishing, Reading, Copying, CopyLoop, SealLoop
  <2>4. HoldsWhatItNeeds(next)
    BY <1>1, <1>3 DEF RunOK, RunStates, InJob, HoldsWhatItNeeds, Active, Ends, Loops,
       Preparing, Promoting, Publishing, Reading, Copying, CopyLoop, SealLoop
  <2>5. LanesFilled(next, store', manifest)
    BY <1>1, <1>3 DEF RunOK, RunStates, InJob, LanesFilled, Filled, Active, Ends, Loops,
       Preparing, Promoting, Publishing, Reading, Copying, CopyLoop, SealLoop
  <2>6. QED
    BY <2>2, <2>3, <2>4, <2>5 DEF RunOK
<1>4. QED
  BY <1>1, <1>2, <1>3, CopyKeeps DEF me

LEMMA CopyPutKeeps ==
  ASSUME LanesInv, NEW r \in Runs, CopyPut(r)
  PROVE  LanesInv'
<1> DEFINE me == run[r]
           next == [me EXCEPT !.pc = "copy-check"]
<1>1. /\ RunOK(me) /\ LanesFilled(me, store, manifest) /\ me.pc = "copy-put"
      /\ CopyObject(r, <<me.lane, "asset", me.asset>>, <<me.to, "asset", me.asset>>, next)
      /\ UNCHANGED <<manifest, latest, github>>
  BY RunFacts DEF CopyPut, At
<1>2. me.lane \in Lanes /\ "asset" \in Slots /\ me.to \in Lanes /\ me.asset \in Assets
  BY <1>1, ActiveFacts DEF Active, Ends, Slots, Copying, CopyLoop
<1> HIDE DEF me
<1>3. ASSUME LanesFilled(me, store', manifest), store'[<<me.to, "asset", me.asset>>] # None
      PROVE  RunOK(next) /\ LanesFilled(next, store', manifest)
  <2>2. next \in RunStates
    BY <1>1, <1>3 DEF RunOK, RunStates, Points, Phases, Kinds
  <2>3. InJob(next)
    BY <1>1, <1>3 DEF RunOK, RunStates, InJob, Active, Ends, Preparing, Promoting,
       Publishing, Reading, Copying, CopyLoop, SealLoop
  <2>4. HoldsWhatItNeeds(next)
    BY <1>1, <1>3 DEF RunOK, RunStates, InJob, HoldsWhatItNeeds, Active, Ends, Loops,
       Preparing, Promoting, Publishing, Reading, Copying, CopyLoop, SealLoop
  <2>5. LanesFilled(next, store', manifest)
    BY <1>1, <1>3 DEF RunOK, RunStates, InJob, LanesFilled, Filled, Active, Ends, Loops,
       Preparing, Promoting, Publishing, Reading, Copying, CopyLoop, SealLoop
  <2>6. QED
    BY <2>2, <2>3, <2>4, <2>5 DEF RunOK
<1>4. QED
  BY <1>1, <1>2, <1>3, CopyKeeps DEF me
-----------------------------------------------------------------------------
(* ... those that look at GitHub, and the start of a run, ...                  *)

\* The largest of some positions is one of them.
LEMMA MaxFacts ==
  ASSUME NEW n \in Nat, NEW S, S \subseteq 1 .. n, S # {}
  PROVE  Max(S) \in S /\ \A k \in S : Max(S) >= k
<1> DEFINE Rest == {n - k : k \in S}
<1>1. Rest \subseteq Nat /\ Rest # {}
  <2>1. \A k \in S : n - k \in Nat
    OBVIOUS
  <2>2. QED
    BY <2>1
<1>2. PICK x \in Rest : \A y \in Rest : ~(<<y, x>> \in OpToRel(<, Nat))
  BY <1>1, NatLessThanWellFounded, WFMin
<1>3. PICK m \in S : x = n - m
  OBVIOUS
<1>4. \A k \in S : m >= k
  <2>1. ASSUME NEW k \in S, k > m
        PROVE  FALSE
    <3>1. n - k \in Rest /\ n - k \in Nat /\ x \in Nat /\ n - k < x
      BY <1>1, <1>3, <2>1
    <3>2. <<n - k, x>> \in OpToRel(<, Nat)
      BY <3>1 DEF OpToRel
    <3>3. QED
      BY <1>2, <3>1, <3>2
  <2>2. QED
    BY <2>1
<1>5. QED
  BY <1>4 DEF Max

\* _find_github_release returns a release of that version, or none.
LEMMA FindFacts ==
  ASSUME releases \in Seq(Releases), NEW v
  PROVE  /\ Find(v) \in Nat
         /\ Find(v) # 0 => Find(v) \in DOMAIN releases /\ releases[Find(v)].version = v
         /\ Find(v) = 0 => \A k \in DOMAIN releases : releases[k].version # v
<1> DEFINE all == {k \in DOMAIN releases : releases[k].version = v}
           published == {k \in all : ~releases[k].draft}
<1>1. Len(releases) \in Nat /\ DOMAIN releases = 1 .. Len(releases)
  OBVIOUS
<1>2. published \subseteq all /\ all \subseteq 1 .. Len(releases)
  BY <1>1
<1>3. CASE all = {}
  BY <1>3 DEF Find
<1>4. CASE published # {}
  <2>1. Max(published) \in published
    BY <1>1, <1>2, <1>4, MaxFacts
  <2>2. Find(v) = Max(published)
    BY <1>4 DEF Find
  <2>3. QED
    BY <1>1, <1>2, <2>1, <2>2
<1>5. CASE all # {} /\ published = {}
  <2>1. Max(all) \in all
    BY <1>1, <1>2, <1>5, MaxFacts
  <2>2. Find(v) = Max(all)
    BY <1>5 DEF Find
  <2>3. QED
    BY <1>1, <1>2, <2>1, <2>2
<1>6. QED
  BY <1>3, <1>4, <1>5

LEMMA DecideUploadsKeeps ==
  ASSUME LanesInv, NEW r \in Runs, DecideUploads(r)
  PROVE  LanesInv'
<1> DEFINE me == run[r]
           needed == IF Current(me) THEN {} ELSE Assets
           next == [me EXCEPT !.pc = "build", !.found = None, !.uploads = needed]
<1>1. RunOK(me) /\ LanesFilled(me, store, manifest) /\ me.pc = "decide" /\ me.phase = "prepare"
  BY RunFacts DEF DecideUploads, At
<1>2. Step(r, next)
  BY DEF DecideUploads
<1>3. Active(me)
  BY <1>1 DEF Active, Ends
<1>4. needed \subseteq Assets
  OBVIOUS
<1> HIDE DEF me, needed
<1>5. RunOK(next) /\ LanesFilled(next, store, manifest)
  <2>1. next \in RunStates
    BY <1>1, <1>4 DEF RunOK, RunStates, Points, Phases
  <2>2. InJob(next)
    BY <1>1, <1>4 DEF RunOK, RunStates, InJob, Active, Ends, Preparing, Promoting,
       Publishing, Reading, Copying, CopyLoop, SealLoop
  <2>3. HoldsWhatItNeeds(next)
    BY <1>1, <1>4 DEF RunOK, RunStates, InJob, HoldsWhatItNeeds, Active, Ends, Loops,
       Preparing, Promoting, Publishing, Reading, Copying, CopyLoop, SealLoop
  <2>4. LanesFilled(next, store, manifest)
    BY <1>1, <1>4 DEF RunOK, RunStates, InJob, LanesFilled, Filled, Active, Ends, Loops,
       Preparing, Promoting, Publishing, Reading, Copying, CopyLoop, SealLoop
  <2>5. QED
    BY <2>1, <2>2, <2>3, <2>4 DEF RunOK
<1>6. QED
  BY <1>2, <1>5, StepKeeps

LEMMA DecidePublishKeeps ==
  ASSUME LanesInv, NEW r \in Runs, DecidePublish(r)
  PROVE  LanesInv'
<1> DEFINE me == run[r]
           next == [me EXCEPT !.pc = "download"]
<1>1. RunOK(me) /\ LanesFilled(me, store, manifest) /\ me.pc = "decide" /\ me.phase = "publish"
  BY RunFacts DEF DecidePublish, At
<1>2. StepIf(r, Current(me), next)
  BY DEF DecidePublish
<1>3. Active(me)
  BY <1>1 DEF Active, Ends
<1>4. me.asset = 1 /\ Earlier(1) = {}
  BY <1>1, EarlierAssets DEF RunOK, HoldsWhatItNeeds, Loops, SealLoop, CopyLoop
<1> HIDE DEF me
<1>5. ASSUME Current(me)
      PROVE  RunOK(next) /\ LanesFilled(next, store, manifest)
  <2>1. next \in RunStates
    BY <1>1, <1>4, <1>5 DEF RunOK, RunStates, Points, Phases
  <2>2. InJob(next)
    BY <1>1, <1>4, <1>5 DEF RunOK, RunStates, InJob, Active, Ends, Preparing, Promoting,
       Publishing, Reading, Copying, CopyLoop, SealLoop
  <2>3. HoldsWhatItNeeds(next)
    BY <1>1, <1>4, <1>5 DEF RunOK, RunStates, InJob, HoldsWhatItNeeds, Active, Ends, Loops,
       Preparing, Promoting, Publishing, Reading, Copying, CopyLoop, SealLoop
  <2>4. LanesFilled(next, store, manifest)
    BY <1>1, <1>4, <1>5 DEF RunOK, RunStates, InJob, LanesFilled, Filled, Active, Ends,
       Loops, Preparing, Promoting, Publishing, Reading, Copying, CopyLoop, SealLoop
  <2>5. QED
    BY <2>1, <2>2, <2>3, <2>4 DEF RunOK
<1>6. QED
  BY <1>2, <1>5, StepIfKeeps

LEMMA DecidePromotionKeeps ==
  ASSUME LanesInv, NEW r \in Runs, DecidePromotion(r)
  PROVE  LanesInv'
<1> DEFINE me == run[r]
           next == [me EXCEPT !.pc = "copy-get", !.to = VersionLane(me.version)]
<1>1. /\ RunOK(me)
      /\ LanesFilled(me, store, manifest)
      /\ me.pc = "decide"
      /\ me.phase = "promote"
      /\ Step(r, next) \/ Step(r, Unusable(me))
  BY RunFacts DEF DecidePromotion, At
<1>2. VersionLane(me.version) \in Lanes /\ me.asset = 1 /\ Earlier(1) = {}
  <2>1. me.version \in Versions
    BY <1>1, ActiveFacts DEF Active, Ends
  <2>2. QED
    BY <1>1, <2>1, NamedLanes, EarlierAssets DEF RunOK, HoldsWhatItNeeds, Loops, SealLoop,
       CopyLoop
<1> HIDE DEF me
<1>3. RunOK(next) /\ LanesFilled(next, store, manifest)
  <2>1. me \in RunStates /\ "copy-get" \in Points
    BY <1>1 DEF RunOK, Points
  <2>2. next \in RunStates
    BY <1>2, <2>1 DEF RunStates
  <2>3. InJob(next)
    BY <1>1, <1>2 DEF RunOK, RunStates, InJob, Active, Ends, Preparing, Promoting,
       Publishing, Reading, Copying, CopyLoop, SealLoop
  <2>4. HoldsWhatItNeeds(next)
    BY <1>1, <1>2 DEF RunOK, RunStates, InJob, HoldsWhatItNeeds, Active, Ends, Loops,
       Preparing, Promoting, Publishing, Reading, Copying, CopyLoop, SealLoop
  <2>5. LanesFilled(next, store, manifest)
    BY <1>1, <1>2 DEF RunOK, RunStates, InJob, LanesFilled, Filled, Active, Ends, Loops,
       Preparing, Promoting, Publishing, Reading, Copying, CopyLoop, SealLoop
  <2>6. QED
    BY <2>2, <2>3, <2>4, <2>5 DEF RunOK
<1>4. CASE Step(r, next)
  BY <1>3, <1>4, StepKeeps
<1>5. CASE Step(r, Unusable(me))
  BY <1>1, <1>5, UnusableOK, StepKeeps DEF Reading
<1>6. QED
  BY <1>1, <1>4, <1>5

LEMMA FindDraftKeeps ==
  ASSUME LanesInv, NEW r \in Runs, FindDraft(r)
  PROVE  LanesInv'
<1> DEFINE me == run[r]
           found == Find(me.version)
           mine == releases[found].draft /\ releases[found].source = me.source
<1>1. RunOK(me) /\ LanesFilled(me, store, manifest) /\ me.pc = "draft"
  BY RunFacts DEF FindDraft, At
<1>2. \/ Step(r, [me EXCEPT !.pc = "create"])
      \/ StepIf(r, mine, [me EXCEPT !.pc = "read"])
  BY DEF FindDraft
<1> HIDE DEF me, mine
<1>3. ASSUME NEW point \in {"create", "read"}
      PROVE  /\ RunOK([me EXCEPT !.pc = point])
             /\ LanesFilled([me EXCEPT !.pc = point], store, manifest)
  <2> DEFINE next == [me EXCEPT !.pc = point]
  <2>2. next \in RunStates
    BY <1>1 DEF RunOK, RunStates, Points, Phases, Kinds
  <2>3. InJob(next)
    BY <1>1 DEF RunOK, RunStates, InJob, Active, Ends, Preparing, Promoting, Publishing,
       Reading, Copying, CopyLoop, SealLoop
  <2>4. HoldsWhatItNeeds(next)
    BY <1>1 DEF RunOK, RunStates, InJob, HoldsWhatItNeeds, Active, Ends, Loops, Preparing,
       Promoting, Publishing, Reading, Copying, CopyLoop, SealLoop
  <2>5. LanesFilled(next, store, manifest)
    BY <1>1 DEF RunOK, RunStates, InJob, LanesFilled, Filled, Active, Ends, Loops,
       Preparing, Promoting, Publishing, Reading, Copying, CopyLoop, SealLoop
  <2>6. QED
    BY <2>2, <2>3, <2>4, <2>5 DEF RunOK
<1>4. CASE Step(r, [me EXCEPT !.pc = "create"])
  BY <1>3, <1>4, StepKeeps
<1>5. CASE StepIf(r, mine, [me EXCEPT !.pc = "read"])
  BY <1>3, <1>5, StepIfKeeps
<1>6. QED
  BY <1>2, <1>4, <1>5

\* A release found has assets.
LEMMA ReleaseFacts ==
  ASSUME releases \in Seq(Releases), NEW k \in DOMAIN releases
  PROVE  /\ releases[k] \in Releases
         /\ releases[k].assets \in [Assets -> Posted \union {None}]
<1>1. releases[k] \in Releases
  BY ElementOfSeq
<1>2. QED
  BY <1>1 DEF Releases

LEMMA AuthorizeKeeps ==
  ASSUME LanesInv, NEW r \in Runs, Authorize(r)
  PROVE  LanesInv'
<1> DEFINE me == run[r]
           found == Find(me.version)
           listed == releases[found].assets
           next == [me EXCEPT !.pc = "read", !.phase = "publish",
                              !.release = found, !.listed = listed]
<1>1. RunOK(me) /\ LanesFilled(me, store, manifest) /\ me.pc = "authorize"
  BY RunFacts DEF Authorize, At
<1>2. CASE Authorized(me.version, me.source)
  <2>1. Step(r, next)
    BY <1>2 DEF Authorize
  <2>2. found \in Nat /\ found \in DOMAIN releases
    BY <1>2, FindFacts DEF Authorized, LanesInv, TypeOK
  <2>3. listed \in [Assets -> Posted \union {None}]
    BY <2>2, ReleaseFacts DEF LanesInv, TypeOK
  <2> HIDE DEF me, found, listed
  <2>4. RunOK(next) /\ LanesFilled(next, store, manifest)
    <3>2. next \in RunStates
      BY <1>1, <2>2, <2>3, ZenonT(60) DEF RunOK, RunStates, Points, Phases, Kinds
    <3>3. InJob(next)
      BY <1>1, <2>2, <2>3 DEF RunOK, RunStates, InJob, Active, Ends, Preparing, Promoting,
         Publishing, Reading, Copying, CopyLoop, SealLoop
    <3>4. HoldsWhatItNeeds(next)
      BY <1>1, <2>2, <2>3 DEF RunOK, RunStates, InJob, HoldsWhatItNeeds, Active, Ends,
         Loops, Preparing, Promoting, Publishing, Reading, Copying, CopyLoop, SealLoop
    <3>5. LanesFilled(next, store, manifest)
      BY <1>1, <2>2, <2>3 DEF RunOK, RunStates, InJob, LanesFilled, Filled, Active, Ends,
         Loops, Preparing, Promoting, Publishing, Reading, Copying, CopyLoop, SealLoop
    <3>6. QED
      BY <3>2, <3>3, <3>4, <3>5 DEF RunOK
  <2>5. QED
    BY <2>1, <2>4, StepKeeps
<1>3. CASE ~Authorized(me.version, me.source)
  <2>1. Step(r, Ended(me, "failed"))
    BY <1>3 DEF Authorize
  <2>2. QED
    BY <1>1, <2>1, EndedOK, StepKeeps DEF Ends
<1>4. QED
  BY <1>2, <1>3

LEMMA PrStarts ==
  ASSUME NEW i \in PullRequests, NEW v \in Versions
  PROVE  LET next == [Idle EXCEPT !.kind = "pr", !.phase = "prepare", !.pc = "read",
                                  !.source = i, !.version = v, !.lane = PrLane(i)]
         IN  RunOK(next) /\ LanesFilled(next, store, manifest)
<1> DEFINE next == [Idle EXCEPT !.kind = "pr", !.phase = "prepare", !.pc = "read",
                                !.source = i, !.version = v, !.lane = PrLane(i)]
<1>1. next \in RunStates
  BY IdleOK, NamedLanes, ZenonT(60) DEF RunStates, Kinds, Phases, Points
<1>2. /\ next.kind = "pr" /\ next.phase = "prepare" /\ next.pc = "read" /\ next.asset = 1
      /\ next.source = i /\ next.version = v /\ next.lane = PrLane(i)
  BY DEF Idle
<1> HIDE DEF next
<1>3. InJob(next)
  BY <1>2 DEF InJob, Active, Ends, Preparing, Promoting, Publishing, Reading, Copying, CopyLoop,
     SealLoop
<1>4. HoldsWhatItNeeds(next)
  BY <1>2 DEF HoldsWhatItNeeds, Active, Ends, Loops, Copying, CopyLoop, SealLoop
<1>5. LanesFilled(next, store, manifest)
  BY <1>2 DEF LanesFilled, Active, Ends, CopyLoop, SealLoop
<1>6. QED
  BY <1>1, <1>3, <1>4, <1>5 DEF RunOK, next

LEMMA MergeStarts ==
  ASSUME NEW i \in PullRequests, NEW v \in Versions
  PROVE  LET next == [Idle EXCEPT !.kind = "merge", !.phase = "promote", !.pc = "draft",
                                  !.source = i, !.version = v, !.lane = PrLane(i)]
         IN  RunOK(next) /\ LanesFilled(next, store, manifest)
<1> DEFINE next == [Idle EXCEPT !.kind = "merge", !.phase = "promote", !.pc = "draft",
                                !.source = i, !.version = v, !.lane = PrLane(i)]
<1>1. next \in RunStates
  BY IdleOK, NamedLanes, ZenonT(60) DEF RunStates, Kinds, Phases, Points
<1>2. /\ next.kind = "merge" /\ next.phase = "promote" /\ next.pc = "draft" /\ next.asset = 1
      /\ next.source = i /\ next.version = v /\ next.lane = PrLane(i)
  BY DEF Idle
<1> HIDE DEF next
<1>3. InJob(next)
  BY <1>2 DEF InJob, Active, Ends, Preparing, Promoting, Publishing, Reading, Copying, CopyLoop,
     SealLoop
<1>4. HoldsWhatItNeeds(next)
  BY <1>2 DEF HoldsWhatItNeeds, Active, Ends, Loops, Copying, CopyLoop, SealLoop
<1>5. LanesFilled(next, store, manifest)
  BY <1>2 DEF LanesFilled, Active, Ends, CopyLoop, SealLoop
<1>6. QED
  BY <1>1, <1>3, <1>4, <1>5 DEF RunOK, next

LEMMA ReleaseStarts ==
  ASSUME NEW i \in PullRequests, NEW v \in Versions
  PROVE  LET next == [Idle EXCEPT !.kind = "release", !.phase = "prepare", !.pc = "read",
                                  !.source = i, !.version = v, !.lane = VersionLane(v)]
         IN  RunOK(next) /\ LanesFilled(next, store, manifest)
<1> DEFINE next == [Idle EXCEPT !.kind = "release", !.phase = "prepare", !.pc = "read",
                                !.source = i, !.version = v, !.lane = VersionLane(v)]
<1>1. next \in RunStates
  BY IdleOK, NamedLanes, ZenonT(60) DEF RunStates, Kinds, Phases, Points
<1>2. /\ next.kind = "release" /\ next.phase = "prepare" /\ next.pc = "read" /\ next.asset = 1
      /\ next.source = i /\ next.version = v /\ next.lane = VersionLane(v)
  BY DEF Idle
<1> HIDE DEF next
<1>3. InJob(next)
  BY <1>2 DEF InJob, Active, Ends, Preparing, Promoting, Publishing, Reading, Copying, CopyLoop,
     SealLoop
<1>4. HoldsWhatItNeeds(next)
  BY <1>2 DEF HoldsWhatItNeeds, Active, Ends, Loops, Copying, CopyLoop, SealLoop
<1>5. LanesFilled(next, store, manifest)
  BY <1>2 DEF LanesFilled, Active, Ends, CopyLoop, SealLoop
<1>6. QED
  BY <1>1, <1>3, <1>4, <1>5 DEF RunOK, next

LEMMA PreparePullRequestKeeps ==
  ASSUME LanesInv, NEW r \in Runs, NEW i \in PullRequests, PreparePullRequest(r, i)
  PROVE  LanesInv'
BY PrStarts, StepKeeps DEF PreparePullRequest

LEMMA PlanReleaseKeeps ==
  ASSUME LanesInv, NEW r \in Runs, NEW i \in PullRequests, PlanRelease(r, i)
  PROVE  LanesInv'
BY MergeStarts, StepKeeps DEF PlanRelease

LEMMA PrepareReleaseKeeps ==
  ASSUME LanesInv, NEW r \in Runs, NEW v \in Versions, PrepareRelease(r, v)
  PROVE  LanesInv'
<1> DEFINE me == [Idle EXCEPT !.kind = "release", !.phase = "prepare", !.pc = "read",
                              !.source = tags[v], !.version = v, !.lane = VersionLane(v)]
<1>1. tags[v] \in PullRequests
  BY DEF PrepareRelease, LanesInv, TypeOK
<1>2. RunOK(me) /\ LanesFilled(me, store, manifest)
  BY <1>1, ReleaseStarts
<1>3. Step(r, me) \/ Step(r, Ended(me, "failed"))
  BY DEF PrepareRelease
<1> HIDE DEF me
<1>4. QED
  BY <1>2, <1>3, EndedOK, StepKeeps DEF Ends
-----------------------------------------------------------------------------
(* ... those that write to GitHub, ...                                       *)

\* The assets of one release change.
LEMMA PostFacts ==
  ASSUME releases \in Seq(Releases), NEW k, NEW a \in Assets, NEW post \in Posted \union {None}
  PROVE  [releases EXCEPT ![k].assets[a] = post] \in Seq(Releases)
<1>1. CASE k \in DOMAIN releases
  <2>1. releases[k] \in Releases /\ releases[k].assets \in [Assets -> Posted \union {None}]
    BY <1>1, ReleaseFacts
  <2> DEFINE posted == [releases[k].assets EXCEPT ![a] = post]
             changed == [releases[k] EXCEPT !.assets = posted]
  <2>2. posted \in [Assets -> Posted \union {None}]
    BY <2>1
  <2>3. [releases EXCEPT ![k].assets[a] = post] = [releases EXCEPT ![k] = changed]
    BY <1>1, <2>1 DEF Releases
  <2> HIDE DEF posted
  <2>4. changed \in Releases
    BY <2>1, <2>2 DEF Releases
  <2> HIDE DEF changed
  <2>5. k \in 1 .. Len(releases)
    BY <1>1
  <2>6. QED
    BY <2>3, <2>4, <2>5, ExceptSeq
<1>2. CASE k \notin DOMAIN releases
  <2>1. [releases EXCEPT ![k].assets[a] = post] = releases
    BY <1>2
  <2>2. QED
    BY <2>1
<1>3. QED
  BY <1>1, <1>2

\* A step on GitHub that may be refused.
LEMMA GitHubCheckKeeps ==
  ASSUME LanesInv, NEW r \in Runs, NEW ok, NEW next, Check(r, ok, next), UNCHANGED lanes,
         tags' \in Seq(PullRequests), merged' \in [PullRequests -> {"open", "same", "changed"}],
         releases' \in Seq(Releases),
         RunOK(next), LanesFilled(next, store, manifest)
  PROVE  LanesInv'
<1>1. RunOK(Ended(run[r], "failed")) /\ LanesFilled(Ended(run[r], "failed"), store, manifest)
  BY RunFacts, EndedOK DEF Ends
<1>2. CASE ok
  BY <1>2, GitHubOnlyKeeps DEF Check
<1>3. CASE ~ok
  BY <1>1, <1>3, GitHubOnlyKeeps DEF Check
<1>4. QED
  BY <1>2, <1>3

LEMMA CreateDraftKeeps ==
  ASSUME LanesInv, NEW r \in Runs, CreateDraft(r)
  PROVE  LanesInv'
<1> DEFINE me == run[r]
           next == [me EXCEPT !.pc = "read"]
<1>1. /\ RunOK(me) /\ LanesFilled(me, store, manifest) /\ me.pc = "create"
      /\ Goto(r, next) /\ UNCHANGED lanes /\ UNCHANGED <<tags, merged>>
      /\ releases' = Append(releases, Draft(me))
  BY RunFacts DEF CreateDraft, At
<1>2. me.source \in PullRequests /\ me.version \in Versions
  BY <1>1, ActiveFacts DEF Active, Ends
<1> HIDE DEF me
<1>3. Draft(me) \in Releases
  BY <1>2 DEF Draft, Releases
<1>4. /\ releases' \in Seq(Releases) /\ tags' \in Seq(PullRequests)
      /\ merged' \in [PullRequests -> {"open", "same", "changed"}]
  BY <1>1, <1>3, AppendProperties DEF LanesInv, TypeOK
<1>5. RunOK(next) /\ LanesFilled(next, store, manifest)
  <2>2. next \in RunStates
    BY <1>1 DEF RunOK, RunStates, Points, Phases, Kinds
  <2>3. InJob(next)
    BY <1>1 DEF RunOK, RunStates, InJob, Active, Ends, Preparing, Promoting, Publishing,
       Reading, Copying, CopyLoop, SealLoop
  <2>4. HoldsWhatItNeeds(next)
    BY <1>1 DEF RunOK, RunStates, InJob, HoldsWhatItNeeds, Active, Ends, Loops, Preparing,
       Promoting, Publishing, Reading, Copying, CopyLoop, SealLoop
  <2>5. LanesFilled(next, store, manifest)
    BY <1>1 DEF RunOK, RunStates, InJob, LanesFilled, Filled, Active, Ends, Loops,
       Preparing, Promoting, Publishing, Reading, Copying, CopyLoop, SealLoop
  <2>6. QED
    BY <2>2, <2>3, <2>4, <2>5 DEF RunOK
<1> HIDE DEF next
<1>6. QED
  BY <1>1, <1>4, <1>5, GitHubOnlyKeeps

LEMMA PushTagKeeps ==
  ASSUME LanesInv, NEW r \in Runs, PushTag(r)
  PROVE  LanesInv'
<1> DEFINE me == run[r]
           new == me.version = NextVersion
<1>1. /\ RunOK(me) /\ me.pc = "push" /\ Check(r, new, Ended(me, "done"))
      /\ UNCHANGED lanes /\ UNCHANGED <<merged, releases>>
      /\ tags' = Append(tags, me.source) \/ tags' = tags
  BY RunFacts DEF PushTag, At
<1>2. me.source \in PullRequests
  BY <1>1, ActiveFacts DEF Active, Ends
<1>3. /\ releases' \in Seq(Releases) /\ tags' \in Seq(PullRequests)
      /\ merged' \in [PullRequests -> {"open", "same", "changed"}]
  BY <1>1, <1>2, AppendProperties DEF LanesInv, TypeOK
<1>4. RunOK(Ended(me, "done")) /\ LanesFilled(Ended(me, "done"), store, manifest)
  BY <1>1, EndedOK DEF Ends
<1> HIDE DEF me, new
<1>5. QED
  BY <1>1, <1>3, <1>4, GitHubCheckKeeps

LEMMA RemoveAssetKeeps ==
  ASSUME LanesInv, NEW r \in Runs, RemoveAsset(r)
  PROVE  LanesInv'
<1> DEFINE me == run[r]
           there == releases[me.release].assets[me.asset] = me.listed[me.asset]
           next == [me EXCEPT !.pc = "upload"]
<1>1. /\ RunOK(me) /\ LanesFilled(me, store, manifest) /\ me.pc = "remove"
      /\ Check(r, there, next) /\ UNCHANGED lanes /\ UNCHANGED <<tags, merged>>
      /\ \/ releases' = [releases EXCEPT ![me.release].assets[me.asset] = None]
         \/ releases' = releases
  BY RunFacts DEF RemoveAsset, At
<1>2. me.asset \in Assets /\ releases \in Seq(Releases)
  BY <1>1, ActiveFacts DEF Active, Ends, LanesInv, TypeOK
<1> HIDE DEF me, there
<1>3. [releases EXCEPT ![me.release].assets[me.asset] = None] \in Seq(Releases)
  BY <1>2, PostFacts
<1>4. /\ releases' \in Seq(Releases) /\ tags' \in Seq(PullRequests)
      /\ merged' \in [PullRequests -> {"open", "same", "changed"}]
  BY <1>1, <1>2, <1>3 DEF LanesInv, TypeOK
<1>5. RunOK(next) /\ LanesFilled(next, store, manifest)
  <2>2. next \in RunStates
    BY <1>1 DEF RunOK, RunStates, Points, Phases, Kinds
  <2>3. InJob(next)
    BY <1>1 DEF RunOK, RunStates, InJob, Active, Ends, Preparing, Promoting, Publishing,
       Reading, Copying, CopyLoop, SealLoop
  <2>4. HoldsWhatItNeeds(next)
    BY <1>1 DEF RunOK, RunStates, InJob, HoldsWhatItNeeds, Active, Ends, Loops, Preparing,
       Promoting, Publishing, Reading, Copying, CopyLoop, SealLoop
  <2>5. LanesFilled(next, store, manifest)
    BY <1>1 DEF RunOK, RunStates, InJob, LanesFilled, Filled, Active, Ends, Loops,
       Preparing, Promoting, Publishing, Reading, Copying, CopyLoop, SealLoop
  <2>6. QED
    BY <2>2, <2>3, <2>4, <2>5 DEF RunOK
<1> HIDE DEF next
<1>6. QED
  BY <1>1, <1>4, <1>5, GitHubCheckKeeps

LEMMA UploadReleaseAssetKeeps ==
  ASSUME LanesInv, NEW r \in Runs, UploadReleaseAsset(r)
  PROVE  LanesInv'
<1> DEFINE me == run[r]
           free == releases[me.release].assets[me.asset] = None
           post == [content |-> me.files[me.asset], by |-> r]
           next == Advance(me, "remove", "list")
<1>1. /\ RunOK(me) /\ LanesFilled(me, store, manifest) /\ me.pc \in {"remove", "upload"}
      /\ Check(r, free, next) /\ UNCHANGED lanes /\ UNCHANGED <<tags, merged>>
      /\ \/ releases' = [releases EXCEPT ![me.release].assets[me.asset] = post]
         \/ releases' = releases
  BY RunFacts DEF UploadReleaseAsset, At
<1>2. me.asset \in Assets /\ releases \in Seq(Releases)
  BY <1>1, ActiveFacts DEF Active, Ends, LanesInv, TypeOK
<1>3. post \in Posted
  BY <1>1, <1>2 DEF RunOK, HoldsWhatItNeeds, Posted
<1> HIDE DEF me, free, post
<1>4. [releases EXCEPT ![me.release].assets[me.asset] = post] \in Seq(Releases)
  BY <1>2, <1>3, PostFacts
<1>5. /\ releases' \in Seq(Releases) /\ tags' \in Seq(PullRequests)
      /\ merged' \in [PullRequests -> {"open", "same", "changed"}]
  BY <1>1, <1>2, <1>4 DEF LanesInv, TypeOK
<1>6. RunOK(next) /\ LanesFilled(next, store, manifest)
  BY <1>1, LoopOK
<1> HIDE DEF next
<1>7. QED
  BY <1>1, <1>5, <1>6, GitHubCheckKeeps

LEMMA PublishKeeps ==
  ASSUME LanesInv, NEW r \in Runs, Publish(r)
  PROVE  LanesInv'
<1> DEFINE me == run[r]
           k == me.release
           next == [me EXCEPT !.pc = "copy-get", !.to = MainLane(me.source),
                              !.files = [a \in Assets |-> None]]
<1>1. /\ RunOK(me) /\ LanesFilled(me, store, manifest) /\ me.pc = "publish"
      /\ Goto(r, next) /\ UNCHANGED lanes /\ UNCHANGED <<tags, merged>>
      /\ releases' = [releases EXCEPT ![k].draft = FALSE]
  BY RunFacts DEF Publish, At
<1>2. /\ MainLane(me.source) \in Lanes /\ releases \in Seq(Releases)
      /\ me.asset = 1 /\ Earlier(1) = {}
  <2>1. me.source \in PullRequests
    BY <1>1, ActiveFacts DEF Active, Ends
  <2>2. QED
    BY <1>1, <2>1, NamedLanes, EarlierAssets
    DEF RunOK, HoldsWhatItNeeds, Loops, SealLoop, CopyLoop, LanesInv, TypeOK
<1> HIDE DEF me, k
<1>3. [releases EXCEPT ![k].draft = FALSE] \in Seq(Releases)
  <2>1. CASE k \in DOMAIN releases
    <3>1. releases[k] \in Releases /\ k \in 1 .. Len(releases)
      BY <1>2, <2>1, ReleaseFacts
    <3> DEFINE public == [releases[k] EXCEPT !.draft = FALSE]
    <3>2. public \in Releases
      BY <3>1 DEF Releases
    <3>3. [releases EXCEPT ![k].draft = FALSE] = [releases EXCEPT ![k] = public]
      BY <2>1, <3>1 DEF Releases
    <3> HIDE DEF public
    <3>4. QED
      BY <1>2, <3>1, <3>2, <3>3, ExceptSeq
  <2>2. CASE k \notin DOMAIN releases
    <3>1. [releases EXCEPT ![k].draft = FALSE] = releases
      BY <1>2, <2>2
    <3>2. QED
      BY <1>2, <3>1
  <2>3. QED
    BY <2>1, <2>2
<1>4. /\ releases' \in Seq(Releases) /\ tags' \in Seq(PullRequests)
      /\ merged' \in [PullRequests -> {"open", "same", "changed"}]
  BY <1>1, <1>3 DEF LanesInv, TypeOK
<1>5. RunOK(next) /\ LanesFilled(next, store, manifest)
  <2>2. next \in RunStates
    <3>1. me \in RunStates
      BY <1>1 DEF RunOK
    <3>2. [a \in Assets |-> None] \in [Assets -> Contents \union {None}] /\ "copy-get" \in Points
      BY DEF Points
    <3>3. QED
      BY <1>2, <3>1, <3>2 DEF RunStates
  <2>3. InJob(next)
    BY <1>1, <1>2 DEF RunOK, RunStates, InJob, Active, Ends, Preparing, Promoting,
       Publishing, Reading, Copying, CopyLoop, SealLoop
  <2>4. HoldsWhatItNeeds(next)
    BY <1>1, <1>2 DEF RunOK, RunStates, InJob, HoldsWhatItNeeds, Active, Ends, Loops,
       Preparing, Promoting, Publishing, Reading, Copying, CopyLoop, SealLoop
  <2>5. LanesFilled(next, store, manifest)
    BY <1>1, <1>2 DEF RunOK, RunStates, InJob, LanesFilled, Filled, Active, Ends, Loops,
       Preparing, Promoting, Publishing, Reading, Copying, CopyLoop, SealLoop
  <2>6. QED
    BY <2>2, <2>3, <2>4, <2>5 DEF RunOK
<1> HIDE DEF next
<1>6. QED
  BY <1>1, <1>4, <1>5, GitHubOnlyKeeps

-----------------------------------------------------------------------------
(* ... and those that write manifests and the pointer, or are no run's.       *)

LEMMA SealManifestKeeps ==
  ASSUME LanesInv, NEW r \in Runs, SealManifest(r)
  PROVE  LanesInv'
<1> DEFINE me == run[r]
           record == [source |-> Commit(me), tree |-> TreeOf(Commit(me)),
                      version |-> me.version, assets |-> me.files]
           empty == [a \in Assets |-> None]
           on == [me EXCEPT !.pc = "authorize", !.uploads = {}, !.files = empty]
           next == IF me.kind = "pr" THEN Ended(me, "done") ELSE on
<1>1. /\ RunOK(me) /\ LanesFilled(me, store, manifest) /\ me.pc = "seal-manifest"
      /\ manifest' = [manifest EXCEPT ![me.lane] = record]
      /\ Goto(r, next) /\ UNCHANGED <<store, latest, github>>
  BY RunFacts DEF SealManifest, At
<1>2. /\ me.lane \in Lanes /\ me.version \in Versions
      /\ Commit(me) \in Commits /\ TreeOf(Commit(me)) \in Commits
  BY <1>1, ActiveFacts, BuiltFacts DEF Active, Ends
<1>3. me.files \in [Assets -> Contents]
  BY <1>1 DEF RunOK, RunStates, HoldsWhatItNeeds
<1>4. record \in Manifests
  BY <1>2, <1>3 DEF Manifests
<1>5. empty \in [Assets -> Contents \union {None}]
  OBVIOUS
<1> HIDE DEF me, record, empty
<1>6. me.lane[1] # "pr" => Filled(store, me.lane, Assets)
  <2>1. me.kind = "pr" \/ me.kind = "release"
    BY <1>1 DEF RunOK, InJob, Active, Ends, Promoting, Reading, Copying, CopyLoop
  <2>2. me.kind = "pr" => me.lane[1] = "pr"
    BY <1>1 DEF RunOK, InJob, Active, Ends, PrLane
  <2>3. QED
    BY <1>1, <2>1, <2>2 DEF LanesFilled
<1>7. ASSUME me.kind # "pr"
      PROVE  RunOK(on) /\ LanesFilled(on, store, manifest')
  <2>1. me.kind = "release" /\ me.phase = "prepare"
    BY <1>1, <1>7 DEF RunOK, InJob, Active, Ends, Promoting, Publishing, Reading, Copying,
       CopyLoop
  <2> DEFINE goes == on
  <2>2. on \in RunStates
    BY <1>1, <1>5, <2>1 DEF RunOK, RunStates, Points, Phases, Kinds
  <2>3. InJob(on)
    BY <1>1, <1>5, <2>1 DEF RunOK, RunStates, InJob, Active, Ends, Preparing, Promoting,
       Publishing, Reading, Copying, CopyLoop, SealLoop
  <2>4. HoldsWhatItNeeds(on)
    BY <1>1, <1>5, <2>1 DEF RunOK, RunStates, InJob, HoldsWhatItNeeds, Active, Ends, Loops,
       Preparing, Promoting, Publishing, Reading, Copying, CopyLoop, SealLoop
  <2>5. LanesFilled(on, store, manifest')
    BY <1>1, <1>5, <2>1 DEF RunOK, RunStates, InJob, LanesFilled, Filled, Active, Ends,
       Loops, Preparing, Promoting, Publishing, Reading, Copying, CopyLoop, SealLoop
  <2>6. QED
    BY <2>2, <2>3, <2>4, <2>5 DEF RunOK
<1>8. RunOK(Ended(me, "done")) /\ LanesFilled(Ended(me, "done"), store, manifest')
  BY <1>1, EndedOK DEF Ends
<1>9. RunOK(next) /\ LanesFilled(next, store, manifest')
  BY <1>7, <1>8
<1> HIDE DEF next
<1>10. QED
  BY <1>1, <1>2, <1>4, <1>6, <1>9, ManifestKeeps

LEMMA CopyManifestKeeps ==
  ASSUME LanesInv, NEW r \in Runs, CopyManifest(r)
  PROVE  LanesInv'
<1> DEFINE me == run[r]
           source == Commit(me)
           tree == TreeOf(Commit(me))
           record == [me.found EXCEPT !.source = source, !.tree = tree]
           next == AfterCopy(me)
<1>1. /\ RunOK(me) /\ LanesFilled(me, store, manifest) /\ me.pc = "copy-manifest"
      /\ manifest' = [manifest EXCEPT ![me.to] = record]
      /\ Goto(r, next) /\ UNCHANGED <<store, latest, github>>
  BY RunFacts DEF CopyManifest, At
<1>2. me.to \in Lanes /\ me.lane \in Lanes /\ source \in Commits /\ tree \in Commits
      /\ MainLane(me.source) \in Lanes
  <2>1. Active(me) /\ me.pc \in Copying
    BY <1>1 DEF Active, Ends, Copying
  <2>2. QED
    BY <1>1, <2>1, ActiveFacts, BuiltFacts, NamedLanes
<1>3. me.found \in Manifests /\ me.asset = 1 /\ Earlier(1) = {}
  BY <1>1, EarlierAssets DEF RunOK, HoldsWhatItNeeds, Copying, CopyLoop, SealLoop, Loops
<1>4. manifest \in [Lanes -> Manifests \union {None}]
  BY DEF LanesInv, TypeOK
<1> HIDE DEF me, source, tree
<1>5. record \in Manifests
  BY <1>2, <1>3 DEF Manifests
<1> HIDE DEF record
<1>6. Filled(store, me.to, Assets)
  BY <1>1 DEF LanesFilled
<1>7. /\ manifest'[me.to] # None
      /\ \A l \in Lanes : manifest[l] # None => manifest'[l] # None
  BY <1>1, <1>2, <1>4, <1>5, LanesAssumption
<1>8. RunOK(next) /\ LanesFilled(next, store, manifest')
  <2>1. CASE me.phase = "publish"
    <3>1. next = [me EXCEPT !.pc = "version-manifest"]
      BY <2>1 DEF AfterCopy
    <3>0. manifest'[me.lane] # None /\ me.to = MainLane(me.source)
      <4>1. me.to = MainLane(me.source)
        BY <1>1, <2>1 DEF RunOK, InJob, Active, Ends, Copying
      <4>2. manifest[me.lane] # None
        BY <1>1, <2>1 DEF LanesFilled, Active, Ends
      <4>3. QED
        BY <1>2, <1>7, <4>1, <4>2
    <3> HIDE DEF next
    <3>2. next \in RunStates
      BY <1>1, <1>3, <1>7, <2>1, <3>0, <3>1 DEF RunOK, RunStates, Points, Phases, Kinds
    <3>3. InJob(next)
      BY <1>1, <1>3, <1>7, <2>1, <3>0, <3>1 DEF RunOK, RunStates, InJob, Active, Ends,
         Preparing, Promoting, Publishing, Reading, Copying, CopyLoop, SealLoop
    <3>4. HoldsWhatItNeeds(next)
      BY <1>1, <1>3, <1>7, <2>1, <3>0, <3>1 DEF RunOK, RunStates, InJob, HoldsWhatItNeeds,
         Active, Ends, Loops, Preparing, Promoting, Publishing, Reading, Copying, CopyLoop,
         SealLoop
    <3>5. LanesFilled(next, store, manifest')
      BY <1>1, <1>3, <1>7, <2>1, <3>0, <3>1 DEF RunOK, RunStates, InJob, LanesFilled,
         Filled, Active, Ends, Loops, Preparing, Promoting, Publishing, Reading, Copying,
         CopyLoop, SealLoop
    <3>6. QED
      BY <3>2, <3>3, <3>4, <3>5 DEF RunOK
  <2>2. CASE me.phase # "publish" /\ me.to = VersionLane(me.version)
    <3>1. next = [me EXCEPT !.pc = "copy-get", !.to = MainLane(me.source)]
      BY <2>2 DEF AfterCopy
    <3> HIDE DEF next
    <3>2. next \in RunStates
      BY <1>1, <1>2, <1>3, <2>2, <3>1, ZenonT(60) DEF RunOK, RunStates, Points, Phases, Kinds
    <3>3. InJob(next)
      BY <1>1, <1>2, <1>3, <2>2, <3>1 DEF RunOK, RunStates, InJob, Active, Ends, Preparing,
         Promoting, Publishing, Reading, Copying, CopyLoop, SealLoop
    <3>4. HoldsWhatItNeeds(next)
      BY <1>1, <1>2, <1>3, <2>2, <3>1 DEF RunOK, RunStates, InJob, HoldsWhatItNeeds,
         Active, Ends, Loops, Preparing, Promoting, Publishing, Reading, Copying, CopyLoop,
         SealLoop
    <3>5. LanesFilled(next, store, manifest')
      BY <1>1, <1>2, <1>3, <2>2, <3>1 DEF RunOK, RunStates, InJob, LanesFilled, Filled,
         Active, Ends, Loops, Preparing, Promoting, Publishing, Reading, Copying, CopyLoop,
         SealLoop
    <3>6. QED
      BY <3>2, <3>3, <3>4, <3>5 DEF RunOK
  <2>3. CASE me.phase # "publish" /\ me.to # VersionLane(me.version)
    <3>1. next = [me EXCEPT !.pc = "push", !.to = None, !.found = None]
      BY <2>3 DEF AfterCopy
    <3> HIDE DEF next
    <3>2. next \in RunStates
      BY <1>1, <1>2, <1>3, <2>3, <3>1, ZenonT(60) DEF RunOK, RunStates, Points, Phases, Kinds
    <3>3. InJob(next)
      BY <1>1, <1>2, <1>3, <2>3, <3>1 DEF RunOK, RunStates, InJob, Active, Ends, Preparing,
         Promoting, Publishing, Reading, Copying, CopyLoop, SealLoop
    <3>4. HoldsWhatItNeeds(next)
      BY <1>1, <1>2, <1>3, <2>3, <3>1 DEF RunOK, RunStates, InJob, HoldsWhatItNeeds,
         Active, Ends, Loops, Preparing, Promoting, Publishing, Reading, Copying, CopyLoop,
         SealLoop
    <3>5. LanesFilled(next, store, manifest')
      BY <1>1, <1>2, <1>3, <2>3, <3>1 DEF RunOK, RunStates, InJob, LanesFilled, Filled,
         Active, Ends, Loops, Preparing, Promoting, Publishing, Reading, Copying, CopyLoop,
         SealLoop
    <3>6. QED
      BY <3>2, <3>3, <3>4, <3>5 DEF RunOK
  <2>4. QED
    BY <2>1, <2>2, <2>3
<1> HIDE DEF next
<1>9. QED
  BY <1>1, <1>2, <1>5, <1>6, <1>8, ManifestKeeps

LEMMA VersionManifestKeeps ==
  ASSUME LanesInv, NEW r \in Runs, VersionManifest(r)
  PROVE  LanesInv'
<1> DEFINE me == run[r]
           next == [me EXCEPT !.pc = "latest"]
<1>1. /\ RunOK(me) /\ LanesFilled(me, store, manifest) /\ me.pc = "version-manifest"
      /\ manifest' = [manifest EXCEPT ![me.lane] = me.found]
      /\ Goto(r, next) /\ UNCHANGED <<store, latest, github>>
  BY RunFacts DEF VersionManifest, At
<1>2. me.lane \in Lanes /\ me.lane[1] # "pr" /\ me.found \in Manifests
      /\ me.phase = "publish" /\ MainLane(me.source) \in Lanes
  <2>1. Active(me)
    BY <1>1 DEF Active, Ends
  <2>2. me.kind = "release" /\ me.phase = "publish"
    BY <1>1, <2>1 DEF RunOK, InJob, Preparing, Promoting, Reading, Copying, CopyLoop, SealLoop
  <2>3. me.found \in Manifests
    BY <1>1 DEF RunOK, HoldsWhatItNeeds
  <2>4. QED
    BY <1>1, <2>1, <2>2, <2>3, ActiveFacts, NamedLanes
<1>3. manifest \in [Lanes -> Manifests \union {None}] /\ CompleteLanesHaveAssets
  BY DEF LanesInv, TypeOK
<1> HIDE DEF me
<1>4. manifest[me.lane] # None /\ manifest[MainLane(me.source)] # None
  BY <1>1, <1>2 DEF LanesFilled, Active, Ends
<1>5. Filled(store, me.lane, Assets)
  BY <1>2, <1>3, <1>4 DEF CompleteLanesHaveAssets, Filled
<1>6. \A l \in Lanes : manifest[l] # None => manifest'[l] # None
  BY <1>1, <1>2, <1>3, LanesAssumption
<1>7. RunOK(next) /\ LanesFilled(next, store, manifest')
  <2>2. next \in RunStates
    BY <1>1, <1>2, <1>4, <1>6 DEF RunOK, RunStates, Points, Phases, Kinds
  <2>3. InJob(next)
    BY <1>1, <1>2, <1>4, <1>6 DEF RunOK, RunStates, InJob, Active, Ends, Preparing,
       Promoting, Publishing, Reading, Copying, CopyLoop, SealLoop
  <2>4. HoldsWhatItNeeds(next)
    BY <1>1, <1>2, <1>4, <1>6 DEF RunOK, RunStates, InJob, HoldsWhatItNeeds, Active, Ends,
       Loops, Preparing, Promoting, Publishing, Reading, Copying, CopyLoop, SealLoop
  <2>5. LanesFilled(next, store, manifest')
    BY <1>1, <1>2, <1>4, <1>6 DEF RunOK, RunStates, InJob, LanesFilled, Filled, Active,
       Ends, Loops, Preparing, Promoting, Publishing, Reading, Copying, CopyLoop, SealLoop
  <2>6. QED
    BY <2>2, <2>3, <2>4, <2>5 DEF RunOK
<1> HIDE DEF next
<1>8. QED
  BY <1>1, <1>2, <1>5, <1>7, ManifestKeeps

LEMMA PutLatestKeeps ==
  ASSUME LanesInv, NEW r \in Runs, PutLatest(r)
  PROVE  LanesInv'
<1> DEFINE me == run[r]
           next == Ended(me, "done")
<1>1. /\ RunOK(me) /\ LanesFilled(me, store, manifest) /\ me.pc = "latest"
      /\ latest' = me.source /\ Goto(r, next) /\ store' = store /\ manifest' = manifest
      /\ UNCHANGED github
  BY RunFacts DEF PutLatest, At
<1>2. me.source \in PullRequests /\ manifest[MainLane(me.source)] # None
  BY <1>1, ActiveFacts DEF Active, Ends, LanesFilled
<1>3. RunOK(next) /\ LanesFilled(next, store', manifest')
  BY <1>1, EndedOK DEF Ends
<1>4. Grows
  BY <1>1 DEF Grows
<1> HIDE DEF me, next
<1>5. /\ run' \in [Runs -> RunStates]
      /\ \A q \in Runs : RunOK(run'[q]) /\ LanesFilled(run'[q], store', manifest')
  BY <1>1, <1>3, <1>4, GotoKeeps
<1>6. TypeOK'
  BY <1>1, <1>2, <1>5 DEF LanesInv, TypeOK, github
<1>7. QED
  BY <1>1, <1>2, <1>5, <1>6 DEF LanesInv, CompleteLanesHaveAssets

LEMMA MergePullRequestKeeps ==
  ASSUME LanesInv, NEW i \in PullRequests, MergePullRequest(i)
  PROVE  LanesInv'
<1>1. /\ store' = store /\ manifest' = manifest /\ latest' = latest /\ run' = run
      /\ tags' = tags /\ releases' = releases
      /\ merged' \in [PullRequests -> {"open", "same", "changed"}]
  BY DEF MergePullRequest, lanes, LanesInv, TypeOK
<1>2. QED
  BY <1>1 DEF LanesInv, TypeOK, CompleteLanesHaveAssets

\* The cleanup removes objects and manifests of pull request lanes only.
LEMMA ExpireKeeps ==
  ASSUME LanesInv, NEW i \in PullRequests, Expire(i)
  PROVE  LanesInv'
<1> DEFINE lane == PrLane(i)
<1>1. PICK slot, asset :
        /\ latest' = latest /\ run' = run /\ UNCHANGED github
        /\ \/ store' = store /\ manifest' = [manifest EXCEPT ![lane] = None]
           \/ store' = [store EXCEPT ![<<lane, slot, asset>>] = None] /\ manifest' = manifest
  <2>1. QED
    BY DEF Expire, Put
<1>2. lane[1] = "pr"
  BY DEF PrLane
<1>3. /\ store \in [Lanes \X Slots \X Assets -> Contents \union {None}]
      /\ manifest \in [Lanes -> Manifests \union {None}]
  BY DEF LanesInv, TypeOK
<1> HIDE DEF lane
<1>4. /\ store' \in [Lanes \X Slots \X Assets -> Contents \union {None}]
      /\ \A l \in Lanes, a \in Assets :
           l[1] # "pr" => store'[<<l, "asset", a>>] = store[<<l, "asset", a>>]
  <2>1. CASE store' = store
    BY <1>3, <2>1
  <2>2. CASE store' = [store EXCEPT ![<<lane, slot, asset>>] = None]
    <3>1. store' \in [Lanes \X Slots \X Assets -> Contents \union {None}]
      BY <1>3, <2>2
    <3>2. ASSUME NEW l \in Lanes, NEW a \in Assets, l[1] # "pr"
          PROVE  store'[<<l, "asset", a>>] = store[<<l, "asset", a>>]
      <4>1. l # lane /\ <<l, "asset", a>> # <<lane, slot, asset>>
        BY <1>2, <3>2
      <4>2. <<l, "asset", a>> \in Lanes \X Slots \X Assets
        BY DEF Slots
      <4>3. QED
        BY <1>3, <2>2, <4>1, <4>2
    <3>3. QED
      BY <3>1, <3>2
  <2>3. QED
    BY <1>1, <2>1, <2>2
<1>5. /\ manifest' \in [Lanes -> Manifests \union {None}]
      /\ \A l \in Lanes : l[1] # "pr" => manifest'[l] = manifest[l]
  BY <1>1, <1>2, <1>3
<1>6. Grows
  BY <1>4, <1>5 DEF Grows
<1>7. \A q \in Runs : RunOK(run'[q]) /\ LanesFilled(run'[q], store', manifest')
  BY <1>1, <1>6, RunFacts, FilledStays
<1>8. TypeOK'
  BY <1>1, <1>4, <1>5 DEF LanesInv, TypeOK, github
<1>9. CompleteLanesHaveAssets'
  BY <1>4, <1>5 DEF LanesInv, CompleteLanesHaveAssets
<1>10. latest' # None => manifest'[MainLane(latest')] # None
  BY <1>1, <1>5, NamedLanes DEF LanesInv, TypeOK
<1>11. QED
  BY <1>7, <1>8, <1>9, <1>10 DEF LanesInv

-----------------------------------------------------------------------------
LEMMA LanesInit == Init => LanesInv
<1> SUFFICES ASSUME Init
             PROVE  LanesInv
  OBVIOUS
<1>1. TypeOK
  <2>1. run \in [Runs -> RunStates]
    BY IdleOK DEF Init
  <2>2. store \in [Lanes \X Slots \X Assets -> Contents \union {None}]
    BY DEF Init
  <2>3. manifest \in [Lanes -> Manifests \union {None}] /\ latest \in PullRequests \union {None}
    BY DEF Init
  <2>4. /\ merged \in [PullRequests -> {"open", "same", "changed"}]
        /\ tags \in Seq(PullRequests) /\ releases \in Seq(Releases)
    BY DEF Init
  <2>5. QED
    BY <2>1, <2>2, <2>3, <2>4 DEF TypeOK
<1>2. RunOK(Idle) /\ LanesFilled(Idle, store, manifest)
  <2>1. Idle.pc = "idle" /\ Idle.asset = 1 /\ Idle.phase = "none"
    BY DEF Idle
  <2>2. InJob(Idle) /\ HoldsWhatItNeeds(Idle)
    BY <2>1 DEF InJob, HoldsWhatItNeeds, Active, Ends, Loops, SealLoop, CopyLoop, Copying
  <2>3. LanesFilled(Idle, store, manifest)
    BY <2>1 DEF LanesFilled, Active, Ends, SealLoop, CopyLoop
  <2>4. QED
    BY <2>2, <2>3, IdleOK DEF RunOK
<1>3. QED
  BY <1>1, <1>2 DEF Init, LanesInv, CompleteLanesHaveAssets

LEMMA WorkKeeps ==
  ASSUME LanesInv, NEW r \in Runs, Work(r)
  PROVE  LanesInv'
BY ReadManifestKeeps, VerifyAssetKeeps, DecideUploadsKeeps, UploadAssetKeeps, UploadDigestKeeps,
   BuildsDoneKeeps, SealGetKeeps, SealDigestKeeps, SealCopyKeeps, SealCheckKeeps,
   SealRecordKeeps, SealCleanKeeps, SealCleanDigestKeeps, SealManifestKeeps, FindDraftKeeps,
   CreateDraftKeeps, SkipPromotionKeeps, DecidePromotionKeeps, CopyGetKeeps, CopyPutKeeps,
   CopyCheckKeeps, CopyRecordKeeps, CopyManifestKeeps, PushTagKeeps, AuthorizeKeeps,
   DecidePublishKeeps, DownloadKeeps, VersionCheckKeeps, RemoveAssetKeeps,
   UploadReleaseAssetKeeps, ListAssetsKeeps, PublishKeeps, VersionManifestKeeps, PutLatestKeeps,
   Zenon
DEF Work

LEMMA LanesStep == LanesInv /\ [Next]_vars => LanesInv'
<1> SUFFICES ASSUME LanesInv, [Next]_vars
             PROVE  LanesInv'
  OBVIOUS
<1>1. ASSUME NEW r \in Runs, Work(r)
      PROVE  LanesInv'
  BY <1>1, WorkKeeps
<1>2. CASE UNCHANGED vars
  <2>1. /\ store' = store /\ manifest' = manifest /\ latest' = latest /\ run' = run
        /\ tags' = tags /\ releases' = releases /\ merged' = merged
    BY <1>2 DEF vars, lanes, github
  <2>2. QED
    BY <2>1 DEF LanesInv, TypeOK, CompleteLanesHaveAssets
<1>3. QED
  BY <1>1, <1>2, MergePullRequestKeeps, ExpireKeeps, PreparePullRequestKeeps, PlanReleaseKeeps,
     PrepareReleaseKeeps, LaneUnreadKeeps, AbortKeeps, Zenon
  DEF Next

\* Whatever the workflows of .reactorcide do to the lanes at a time, and wherever a job dies,
\* what a job relies on at each of its requests has been written (_seal_asset_lane,
\* _promote_merged_pr_assets, _publish_tag_release).
THEOREM LanesInvariant == Spec => []LanesInv
BY LanesInit, LanesStep, PTL DEF Spec

\* Type correctness, also when merges race and lanes expire.
THEOREM LanesTypeCorrect == Spec => []TypeOK
<1>1. LanesInv => TypeOK
  BY DEF LanesInv
<1>2. QED
  BY <1>1, LanesInvariant, PTL

\* complete.json of a release or main lane means that all its assets are there:
\* _seal_asset_lane and _promote_merged_pr_assets write it last, and nothing
\* removes an object of such a lane, however many runs write to it.
THEOREM CompleteLanes == Spec => []CompleteLanesHaveAssets
<1>1. LanesInv => CompleteLanesHaveAssets
  BY DEF LanesInv
<1>2. QED
  BY <1>1, LanesInvariant, PTL

\* main/latest.json points to a main lane with its manifest and all its assets:
\* _publish_tag_release moves the pointer last.
THEOREM LatestLaneIsComplete == Spec => []LatestIsComplete
<1>1. LanesInv => LatestIsComplete
  <2> SUFFICES ASSUME LanesInv, latest # None
               PROVE  /\ manifest[MainLane(latest)] # None
                      /\ \A a \in Assets : store[<<MainLane(latest), "asset", a>>] # None
    BY DEF LatestIsComplete
  <2>1. MainLane(latest) \in Lanes /\ MainLane(latest)[1] = "main"
    BY NamedLanes DEF LanesInv, TypeOK
  <2>2. QED
    BY <2>1 DEF LanesInv, CompleteLanesHaveAssets
<1>2. QED
  BY <1>1, LanesInvariant, PTL
-----------------------------------------------------------------------------
(***************************************************************************)
(* What goes into a release.  Merges of two pull requests may draft the    *)
(* same version, and both write to its lane: what is in the lane then, and *)
(* in its releases, was built from the tree of one of them.                *)
(***************************************************************************)
HasRelease(all, v, i) == \E k \in DOMAIN all : all[k].version = v /\ all[k].source = i

\* The tree of the merge commit of i.
MergedTree(merges, i) == IF merges[i] = "same" THEN HeadOf(i) ELSE MergeOf(i)

\* A tree of a pull request that has a release of the version.
ReleaseTree(tree, v, merges, all) ==
  \E i \in PullRequests : HasRelease(all, v, i) /\ tree = MergedTree(merges, i)

\* A release is of a pull request that is merged, a tag is on one of its version.
ReleasesMerged == \A k \in DOMAIN releases : merged[releases[k].source] # "open"
TagsReleased == \A v \in DOMAIN tags : HasRelease(releases, v, tags[v])

\* When workflows run one after the other, a version has one release.
Alone == MaxActive = 1
ReleasesUnique ==
  Alone => \A k, l \in DOMAIN releases : releases[k].version = releases[l].version => k = l

OneActive == \A q, r \in Runs : Active(run[q]) /\ Active(run[r]) => q = r

Merging(me) == Active(me) /\ me.kind = "merge"

\* A merge works on its release, and copies a tree that the merge has kept.
MergeOK(me, last, merges, all) ==
  Merging(me) =>
    /\ merges[me.source] # "open"
    /\ me.pc \notin {"draft", "create"} => HasRelease(all, me.version, me.source)
    /\ me.pc \in Copying => merges[me.source] = "same"
    /\ Alone => /\ me.version = last + 1
                /\ me.pc = "create" => \A k \in DOMAIN all : all[k].version # me.version

\* A release workflow works for a release of its version, and holds files of
\* such a tree.
PublishOK(me, merges, all) ==
  (me.kind = "release" /\ Active(me)) =>
    /\ HasRelease(all, me.version, me.source)
    /\ me.phase = "publish" => /\ me.release \in DOMAIN all
                               /\ all[me.release].version = me.version
                               /\ all[me.release].source = me.source
    /\ me.phase = "publish" \/ me.pc = "authorize" =>
         \A a \in Assets :
           me.files[a] # None => ReleaseTree(me.files[a].tree, me.version, merges, all)

\* The tree is the one that the name of the lane stands for.
Belongs(tree, l, merges, all) ==
  /\ \A i \in PullRequests : l = PrLane(i) => tree = HeadOf(i)
  /\ \A v \in Versions : l = VersionLane(v) => ReleaseTree(tree, v, merges, all)

TreesInv ==
  \A l \in Lanes, s \in {"asset", "staging"}, a \in Assets :
    store[<<l, s, a>>] # None => Belongs(store[<<l, s, a>>].tree, l, merged, releases)

AssetTrees ==
  \A k \in DOMAIN releases, a \in Assets :
    releases[k].assets[a] # None =>
      ReleaseTree(releases[k].assets[a].content.tree, releases[k].version, merged, releases)

ReleasedInv ==
  /\ ReleasesUnique /\ ReleasesMerged /\ TagsReleased
  /\ Alone => OneActive
  /\ \A r \in Runs : /\ MergeOK(run[r], Len(tags), merged, releases)
                     /\ PublishOK(run[r], merged, releases)
  /\ TreesInv /\ AssetTrees

-----------------------------------------------------------------------------
\* What GitHub knows only grows.
ReleasesStay ==
  \A k \in DOMAIN releases : /\ k \in DOMAIN releases'
                             /\ releases'[k].version = releases[k].version
                             /\ releases'[k].source = releases[k].source
MergesStay == \A i \in PullRequests : merged[i] # "open" => merged'[i] = merged[i]

LEMMA HasReleaseStays ==
  ASSUME ReleasesStay, NEW v, NEW i, HasRelease(releases, v, i)
  PROVE  HasRelease(releases', v, i)
BY DEF ReleasesStay, HasRelease

\* The tree of a released commit stays what it is.
LEMMA ReleasedTreeStays ==
  ASSUME ReleasesMerged, MergesStay, NEW v, NEW i \in PullRequests, HasRelease(releases, v, i)
  PROVE  merged[i] # "open" /\ MergedTree(merged', i) = MergedTree(merged, i)
BY DEF ReleasesMerged, MergesStay, HasRelease, MergedTree

LEMMA OneSource ==
  ASSUME Alone, ReleasesUnique, NEW v, NEW i, NEW j,
         HasRelease(releases, v, i), HasRelease(releases, v, j)
  PROVE  i = j
BY DEF ReleasesUnique, HasRelease

LEMMA TreeNames ==
  /\ \A i \in PullRequests :
       TreeOf(HeadOf(i)) = HeadOf(i) /\ TreeOf(MergeOf(i)) = MergedTree(merged, i)
  /\ \A i \in PullRequests : HeadOf(i) # MergeOf(i)
BY DEF TreeOf, HeadOf, MergeOf, MergedTree

LEMMA ReleaseTreeStays ==
  ASSUME ReleasesMerged, ReleasesStay, MergesStay,
         NEW tree, NEW v, ReleaseTree(tree, v, merged, releases)
  PROVE  ReleaseTree(tree, v, merged', releases')
<1>1. PICK i \in PullRequests : HasRelease(releases, v, i) /\ tree = MergedTree(merged, i)
  BY DEF ReleaseTree
<1>2. QED
  BY <1>1, HasReleaseStays, ReleasedTreeStays DEF ReleaseTree

LEMMA BelongsStays ==
  ASSUME ReleasesMerged, ReleasesStay, MergesStay,
         NEW tree, NEW l, Belongs(tree, l, merged, releases)
  PROVE  Belongs(tree, l, merged', releases')
BY ReleaseTreeStays DEF Belongs

LEMMA TreesStay ==
  ASSUME ReleasedInv, ReleasesStay, MergesStay, store' = store
  PROVE  TreesInv'
BY BelongsStays DEF ReleasedInv, TreesInv

\* What a run is about stays true when GitHub changes for another one.
LEMMA MergeStays ==
  ASSUME ReleasesStay, MergesStay, NEW me, RunOK(me),
         MergeOK(me, Len(tags), merged, releases),
         Alone /\ Merging(me) => tags' = tags /\ DOMAIN releases' = DOMAIN releases
  PROVE  MergeOK(me, Len(tags'), merged', releases')
<1> SUFFICES ASSUME Merging(me)
             PROVE  /\ merged'[me.source] # "open"
                    /\ me.pc \notin {"draft", "create"} =>
                         HasRelease(releases', me.version, me.source)
                    /\ me.pc \in Copying => merged'[me.source] = "same"
                    /\ Alone => /\ me.version = Len(tags') + 1
                                /\ me.pc = "create" =>
                                     \A k \in DOMAIN releases' : releases'[k].version # me.version
  BY DEF MergeOK
<1>1. /\ merged[me.source] # "open"
      /\ me.pc \notin {"draft", "create"} => HasRelease(releases, me.version, me.source)
      /\ me.pc \in Copying => merged[me.source] = "same"
  BY DEF MergeOK
<1>2. merged'[me.source] = merged[me.source]
  <2>1. me.source \in PullRequests
    BY ActiveFacts DEF Merging
  <2>2. QED
    BY <1>1, <2>1 DEF MergesStay
<1>3. ASSUME Alone
      PROVE  /\ me.version = Len(tags') + 1
             /\ me.pc = "create" => \A k \in DOMAIN releases' : releases'[k].version # me.version
  <2>1. /\ me.version = Len(tags) + 1
        /\ me.pc = "create" => \A k \in DOMAIN releases : releases[k].version # me.version
        /\ tags' = tags /\ DOMAIN releases' = DOMAIN releases
    BY <1>3 DEF MergeOK
  <2>2. QED
    BY <2>1 DEF ReleasesStay
<1>4. me.pc \notin {"draft", "create"} => HasRelease(releases', me.version, me.source)
  BY <1>1, HasReleaseStays
<1>5. QED
  BY <1>1, <1>2, <1>3, <1>4

LEMMA PublishStays ==
  ASSUME ReleasesMerged, ReleasesStay, MergesStay, NEW me, RunOK(me),
         PublishOK(me, merged, releases)
  PROVE  PublishOK(me, merged', releases')
<1> SUFFICES ASSUME me.kind = "release", Active(me)
             PROVE  PublishOK(me, merged', releases')
  BY DEF PublishOK
<1>1. HasRelease(releases', me.version, me.source)
  BY HasReleaseStays DEF PublishOK
<1>2. me.phase = "publish" => /\ me.release \in DOMAIN releases'
                             /\ releases'[me.release].version = me.version
                             /\ releases'[me.release].source = me.source
  BY DEF PublishOK, ReleasesStay
<1>3. me.phase = "publish" \/ me.pc = "authorize" =>
        \A a \in Assets :
          me.files[a] # None => ReleaseTree(me.files[a].tree, me.version, merged', releases')
  BY ReleaseTreeStays DEF PublishOK
<1>4. QED
  BY <1>1, <1>2, <1>3 DEF PublishOK

\* One run goes on, whatever it does to GitHub.
LEMMA RunsReleased ==
  ASSUME LanesInv, ReleasedInv, NEW r \in Runs, NEW next, Goto(r, next), ReleasesStay, MergesStay,
         Alone => \A q \in Runs : q # r /\ Active(run[q]) =>
                    ~Active(next) /\ tags' = tags /\ DOMAIN releases' = DOMAIN releases,
         MergeOK(next, Len(tags'), merged', releases'), PublishOK(next, merged', releases')
  PROVE  /\ Alone => OneActive'
         /\ \A q \in Runs : /\ MergeOK(run'[q], Len(tags'), merged', releases')
                            /\ PublishOK(run'[q], merged', releases')
<1>1. run' = [run EXCEPT ![r] = next] /\ run \in [Runs -> RunStates]
  BY DEF Goto, LanesInv, TypeOK
<1>2. run'[r] = next /\ \A q \in Runs : q # r => run'[q] = run[q]
  BY <1>1
<1>3. Alone => OneActive'
  BY <1>2 DEF ReleasedInv, OneActive
<1>4. ASSUME NEW q \in Runs
      PROVE  /\ MergeOK(run'[q], Len(tags'), merged', releases')
             /\ PublishOK(run'[q], merged', releases')
  <2>1. CASE q = r
    BY <1>2, <2>1
  <2>2. CASE q # r
    <3>1. /\ MergeOK(run[q], Len(tags), merged, releases) /\ PublishOK(run[q], merged, releases)
          /\ ReleasesMerged /\ RunOK(run[q])
      BY RunFacts DEF ReleasedInv
    <3>2. Alone /\ Merging(run[q]) => tags' = tags /\ DOMAIN releases' = DOMAIN releases
      BY <2>2 DEF Merging
    <3>3. QED
      BY <1>2, <2>2, <3>1, <3>2, MergeStays, PublishStays
  <2>3. QED
    BY <2>1, <2>2
<1>5. QED
  BY <1>3, <1>4

\* The same when nothing changes on GitHub.
LEMMA StepReleased ==
  ASSUME LanesInv, ReleasedInv, NEW r \in Runs, NEW next, Goto(r, next), UNCHANGED github,
         Alone /\ Active(next) => \A q \in Runs : q # r => ~Active(run[q]),
         MergeOK(next, Len(tags), merged, releases), PublishOK(next, merged, releases),
         TreesInv'
  PROVE  ReleasedInv'
<1>1. tags' = tags /\ merged' = merged /\ releases' = releases
  BY DEF github
<1>2. ReleasesStay /\ MergesStay
  BY <1>1 DEF ReleasesStay, MergesStay
<1>3. /\ Alone => OneActive'
      /\ \A q \in Runs : /\ MergeOK(run'[q], Len(tags'), merged', releases')
                         /\ PublishOK(run'[q], merged', releases')
  BY <1>1, <1>2, RunsReleased
<1>4. ReleasesUnique' /\ ReleasesMerged' /\ TagsReleased' /\ AssetTrees'
  BY <1>1 DEF ReleasedInv, ReleasesUnique, ReleasesMerged, TagsReleased, AssetTrees
<1>5. QED
  BY <1>3, <1>4 DEF ReleasedInv

\* An active run is alone when there may be one at a time.
LEMMA OthersRest ==
  ASSUME ReleasedInv, Alone, NEW r \in Runs, Active(run[r])
  PROVE  \A q \in Runs : q # r => ~Active(run[q])
BY DEF ReleasedInv, OneActive

\* The run ends, or goes on in the same job with the files it had.
Onward(me, next) ==
  Active(next) =>
    /\ Active(me) /\ me.pc \notin {"draft", "create"} /\ next.pc \notin {"draft", "create"}
    /\ next.kind = me.kind /\ next.phase = me.phase
    /\ next.source = me.source /\ next.version = me.version /\ next.release = me.release
    /\ next.kind = "merge" /\ next.pc \in Copying => me.pc \in Copying
    /\ next.phase = "publish" \/ next.pc = "authorize" =>
         \A a \in Assets :
           next.files[a] = None \/ (me.phase = "publish" /\ next.files[a] = me.files[a])

LEMMA OnwardOK ==
  ASSUME NEW me, NEW next, Onward(me, next), NEW last, NEW merges, NEW all,
         MergeOK(me, last, merges, all), PublishOK(me, merges, all)
  PROVE  /\ MergeOK(next, last, merges, all) /\ PublishOK(next, merges, all)
         /\ Active(next) => Active(me)
<1>1. CASE ~Active(next)
  BY <1>1 DEF MergeOK, PublishOK, Merging
<1>2. CASE Active(next)
  <2>1. Merging(next) => Merging(me)
    BY <1>2 DEF Onward, Merging
  <2>2. MergeOK(next, last, merges, all)
    <3> SUFFICES ASSUME Merging(next)
                 PROVE  MergeOK(next, last, merges, all)
      BY DEF MergeOK
    <3>1. /\ next.source = me.source /\ next.version = me.version
          /\ next.pc \in Copying => me.pc \in Copying
          /\ me.pc \notin {"draft", "create"} /\ next.pc # "create"
      BY <1>2 DEF Onward, Merging
    <3>2. /\ merges[me.source] # "open" /\ HasRelease(all, me.version, me.source)
          /\ me.pc \in Copying => merges[me.source] = "same"
          /\ Alone => me.version = last + 1
      BY <2>1, <3>1 DEF MergeOK
    <3> DEFINE new == last + 1
    <3>3. Alone => next.version = new
      BY <3>1, <3>2
    <3> HIDE DEF new
    <3>4. /\ merges[next.source] # "open" /\ HasRelease(all, next.version, next.source)
          /\ next.pc \in Copying => merges[next.source] = "same"
      BY <3>1, <3>2
    <3>5. QED
      BY <3>1, <3>3, <3>4 DEF MergeOK, new
  <2>3. PublishOK(next, merges, all)
    BY <1>2 DEF Onward, PublishOK
  <2>4. QED
    BY <1>2, <2>2, <2>3 DEF Onward
<1>3. QED
  BY <1>1, <1>2

LEMMA OnwardReleased ==
  ASSUME LanesInv, ReleasedInv, NEW r \in Runs, NEW next, Goto(r, next), UNCHANGED github,
         Onward(run[r], next), TreesInv'
  PROVE  ReleasedInv'
<1>1. /\ MergeOK(next, Len(tags), merged, releases) /\ PublishOK(next, merged, releases)
      /\ Active(next) => Active(run[r])
  BY OnwardOK DEF ReleasedInv
<1>2. Alone /\ Active(next) => \A q \in Runs : q # r => ~Active(run[q])
  BY <1>1, OthersRest
<1>3. QED
  BY <1>1, <1>2, StepReleased

LEMMA QuietStepReleased ==
  ASSUME LanesInv, ReleasedInv, NEW r \in Runs, NEW next, Step(r, next), Onward(run[r], next)
  PROVE  ReleasedInv'
<1>1. Goto(r, next) /\ UNCHANGED github /\ ReleasesStay /\ MergesStay /\ store' = store
  BY DEF Step, github, lanes, ReleasesStay, MergesStay
<1>2. QED
  BY <1>1, TreesStay, OnwardReleased

LEMMA EndedOnward ==
  ASSUME NEW me, NEW how \in Ends
  PROVE  Onward(me, Ended(me, how))
BY DEF Onward, Active, Ended, Idle

LEMMA QuietStepIfReleased ==
  ASSUME LanesInv, ReleasedInv, NEW r \in Runs, NEW ok, NEW next, StepIf(r, ok, next),
         ok => Onward(run[r], next)
  PROVE  ReleasedInv'
<1>1. Step(r, IF ok THEN next ELSE Ended(run[r], "failed"))
  BY DEF StepIf, Check, Step
<1>2. CASE ok
  BY <1>1, <1>2, QuietStepReleased
<1>3. CASE ~ok
  BY <1>1, <1>3, EndedOnward, QuietStepReleased DEF Ends
<1>4. QED
  BY <1>2, <1>3

\* A run puts an object that belongs into the lane.
LEMMA PutTrees ==
  ASSUME LanesInv, ReleasedInv, UNCHANGED github,
         NEW l \in Lanes, NEW s \in Slots, NEW a \in Assets, NEW content,
         Put(<<l, s, a>>, content),
         s \in {"asset", "staging"} /\ content # None => Belongs(content.tree, l, merged, releases)
  PROVE  TreesInv'
<1>1. merged' = merged /\ releases' = releases
  BY DEF github
<1>2. store \in [Lanes \X Slots \X Assets -> Contents \union {None}]
  BY DEF LanesInv, TypeOK
<1>3. ASSUME NEW m \in Lanes, NEW z \in {"asset", "staging"}, NEW b \in Assets,
             store'[<<m, z, b>>] # None
      PROVE  Belongs(store'[<<m, z, b>>].tree, m, merged, releases)
  <2>1. z \in Slots
    BY DEF Slots
  <2>2. CASE <<m, z, b>> = <<l, s, a>>
    <3>1. store'[<<m, z, b>>] = content /\ m = l /\ z = s
      BY <1>2, <2>2 DEF Put
    <3>2. QED
      BY <1>3, <3>1
  <2>3. CASE <<m, z, b>> # <<l, s, a>>
    <3>1. store'[<<m, z, b>>] = store[<<m, z, b>>]
      BY <1>2, <2>1, <2>3 DEF Put
    <3>2. QED
      BY <1>3, <3>1 DEF ReleasedInv, TreesInv
  <2>4. QED
    BY <2>2, <2>3
<1>4. QED
  BY <1>1, <1>3 DEF TreesInv
-----------------------------------------------------------------------------
(* What each step keeps of ReleasedInv: most of them lead Onward.            *)

LEMMA AdvanceOnward ==
  ASSUME NEW me \in RunStates, NEW loop \in Points, NEW after \in Points,
         Active(me), me.pc \notin {"draft", "create"},
         loop \notin {"draft", "create", "authorize"},
         after \notin {"draft", "create", "authorize"},
         loop \in Copying \/ after \in Copying => me.pc \in Copying
  PROVE  Onward(me, Advance(me, loop, after))
<1> DEFINE next == Advance(me, loop, after)
<1>1. SameJob(me, next) /\ next.files = me.files /\ next.pc \in {loop, after}
  BY AdvanceFacts
<1> HIDE DEF next
<1>2. Onward(me, next)
  BY <1>1 DEF Onward, SameJob
<1>3. QED
  BY <1>2 DEF next

LEMMA SealedOnward ==
  ASSUME NEW me, RunOK(me), me.pc \in SealLoop, me.held \in Contents
  PROVE  Onward(me, Advance(Sealed(me), "seal-get", "seal-manifest"))
<1> DEFINE kept == Sealed(me)
           next == Advance(kept, "seal-get", "seal-manifest")
<1>1. kept \in RunStates /\ SameJob(me, kept)
  BY FileFacts DEF RunOK, Sealed
<1> HIDE DEF kept
<1>2. SameJob(kept, next) /\ next.pc \in {"seal-get", "seal-manifest"}
  <2>1. "seal-get" \in Points /\ "seal-manifest" \in Points
    BY DEF Points
  <2>2. SameJob(kept, next) /\ (next.pc = "seal-get" \/ next.pc = "seal-manifest")
    BY <1>1, <2>1, AdvanceFacts, Zenon
  <2>3. QED
    BY <2>2
<1> HIDE DEF next
<1>3. me.phase = "prepare" /\ Active(me) /\ me.pc \notin {"draft", "create"}
  BY DEF RunOK, InJob, Active, Ends, Preparing, Promoting, Publishing, Reading, Copying,
     CopyLoop, SealLoop
<1>4. Onward(me, next)
  BY <1>1, <1>2, <1>3 DEF Onward, SameJob, Copying, CopyLoop
<1>5. QED
  BY <1>4 DEF next, kept

LEMMA UnusableOnward ==
  ASSUME NEW me, RunOK(me), me.pc \in Reading
  PROVE  Onward(me, Unusable(me))
<1>1. Active(me) /\ me.pc \notin {"draft", "create"} /\ me \in RunStates
  BY DEF RunOK, Reading, Active, Ends
<1>2. CASE me.phase = "prepare"
  BY <1>1, <1>2 DEF Onward, Unusable, RunStates, Copying, CopyLoop
<1>3. CASE me.phase = "promote"
  BY <1>1, <1>3 DEF Onward, Unusable, RunStates, Copying, CopyLoop
<1>4. CASE me.phase \notin {"prepare", "promote"}
  BY <1>4, EndedOnward DEF Unusable, Ends
<1>5. QED
  BY <1>2, <1>3, <1>4

LEMMA ReadManifestReleased ==
  ASSUME LanesInv, ReleasedInv, NEW r \in Runs, ReadManifest(r)
  PROVE  ReleasedInv'
<1> DEFINE me == run[r]
           read == manifest[me.lane]
           none == read = None
           next == IF none THEN Unusable(me) ELSE [me EXCEPT !.pc = "verify", !.found = read]
<1>1. RunOK(me) /\ me.pc = "read"
  BY RunFacts DEF ReadManifest, At
<1>2. Step(r, next)
  BY DEF ReadManifest
<1>3. me = run[r]
  OBVIOUS
<1> HIDE DEF me, read, none
<1>4. Onward(me, next)
  <2>1. CASE none
    BY <1>1, <2>1, UnusableOnward DEF Reading
  <2>2. CASE ~(none)
    BY <1>1, <2>2 DEF RunOK, RunStates, InJob, Onward, Active, Ends, Preparing, Promoting,
       Publishing, Reading, Copying, CopyLoop, SealLoop
  <2>3. QED
    BY <2>1, <2>2
<1> HIDE DEF next
<1>5. QED
  BY <1>2, <1>3, <1>4, QuietStepReleased

LEMMA VerifyAssetReleased ==
  ASSUME LanesInv, ReleasedInv, NEW r \in Runs, VerifyAsset(r)
  PROVE  ReleasedInv'
<1> DEFINE me == run[r]
           same == store[<<me.lane, "asset", me.asset>>] = me.found.assets[me.asset]
           next == IF same THEN Advance(me, "verify", "decide") ELSE Unusable(me)
<1>1. RunOK(me) /\ me.pc = "verify"
  BY RunFacts DEF VerifyAsset, At
<1>2. Step(r, next)
  BY DEF VerifyAsset
<1>3. me = run[r]
  OBVIOUS
<1> HIDE DEF me, same
<1>4. Onward(me, next)
  <2>1. CASE same
    BY <1>1, <2>1, AdvanceOnward DEF RunOK, Active, Ends, Points, Copying, CopyLoop
  <2>2. CASE ~(same)
    BY <1>1, <2>2, UnusableOnward DEF Reading
  <2>3. QED
    BY <2>1, <2>2
<1> HIDE DEF next
<1>5. QED
  BY <1>2, <1>3, <1>4, QuietStepReleased

LEMMA DecideUploadsReleased ==
  ASSUME LanesInv, ReleasedInv, NEW r \in Runs, DecideUploads(r)
  PROVE  ReleasedInv'
<1> DEFINE me == run[r]
           needed == IF Current(me) THEN {} ELSE Assets
           next == [me EXCEPT !.pc = "build", !.found = None, !.uploads = needed]
<1>1. RunOK(me) /\ me.pc = "decide"
  BY RunFacts DEF DecideUploads, At
<1>2. Step(r, next)
  BY DEF DecideUploads
<1>3. me = run[r]
  OBVIOUS
<1> HIDE DEF me, needed
<1>4. Onward(me, next)
  BY <1>1 DEF RunOK, RunStates, InJob, Onward, Active, Ends, Preparing, Promoting, Publishing,
     Reading, Copying, CopyLoop, SealLoop
<1> HIDE DEF next
<1>5. QED
  BY <1>2, <1>3, <1>4, QuietStepReleased

LEMMA BuildsDoneReleased ==
  ASSUME LanesInv, ReleasedInv, NEW r \in Runs, BuildsDone(r)
  PROVE  ReleasedInv'
<1> DEFINE me == run[r]
           unbuilt == [a \in Assets |-> 0]
           next == [me EXCEPT !.pc = "seal-get", !.built = unbuilt]
<1>1. RunOK(me) /\ me.pc = "build"
  BY RunFacts DEF BuildsDone, At
<1>2. Step(r, next)
  BY DEF BuildsDone
<1>3. me = run[r]
  OBVIOUS
<1> HIDE DEF me, unbuilt
<1>4. Onward(me, next)
  BY <1>1 DEF RunOK, RunStates, InJob, Onward, Active, Ends, Preparing, Promoting, Publishing,
     Reading, Copying, CopyLoop, SealLoop
<1> HIDE DEF next
<1>5. QED
  BY <1>2, <1>3, <1>4, QuietStepReleased

LEMMA SealGetReleased ==
  ASSUME LanesInv, ReleasedInv, NEW r \in Runs, SealGet(r)
  PROVE  ReleasedInv'
<1> DEFINE me == run[r]
           got == store[<<me.lane, SealSlot(me), me.asset>>]
           next == [me EXCEPT !.pc = "seal-digest", !.held = got]
<1>1. RunOK(me) /\ me.pc = "seal-get"
  BY RunFacts DEF SealGet, At
<1>2. StepIf(r, got # None, next)
  BY DEF SealGet
<1>3. me = run[r]
  OBVIOUS
<1> HIDE DEF me, got
<1>4. Onward(me, next)
  BY <1>1 DEF RunOK, RunStates, InJob, Onward, Active, Ends, Preparing, Promoting, Publishing,
     Reading, Copying, CopyLoop, SealLoop
<1> HIDE DEF next
<1>5. QED
  BY <1>2, <1>3, <1>4, QuietStepIfReleased

LEMMA SealDigestReleased ==
  ASSUME LanesInv, ReleasedInv, NEW r \in Runs, SealDigest(r)
  PROVE  ReleasedInv'
<1> DEFINE me == run[r]
           digest == store[<<me.lane, SealDigestSlot(me), me.asset>>]
           fresh == me.asset \in me.uploads
           next == IF fresh THEN [me EXCEPT !.pc = "seal-copy"]
                   ELSE Advance(Sealed(me), "seal-get", "seal-manifest")
<1>1. RunOK(me) /\ me.pc = "seal-digest"
  BY RunFacts DEF SealDigest, At
<1>2. StepIf(r, digest = me.held, next)
  BY DEF SealDigest
<1>3. me = run[r]
  OBVIOUS
<1> HIDE DEF me, digest, fresh
<1>4. Onward(me, next)
  <2>1. CASE fresh
    BY <1>1, <2>1 DEF RunOK, RunStates, InJob, Onward, Active, Ends, Preparing, Promoting,
       Publishing, Reading, Copying, CopyLoop, SealLoop
  <2>2. CASE ~(fresh)
    BY <1>1, <2>2, SealedOnward DEF RunOK, HoldsWhatItNeeds, SealLoop
  <2>3. QED
    BY <2>1, <2>2
<1> HIDE DEF next
<1>5. QED
  BY <1>2, <1>3, <1>4, QuietStepIfReleased

LEMMA SealCheckReleased ==
  ASSUME LanesInv, ReleasedInv, NEW r \in Runs, SealCheck(r)
  PROVE  ReleasedInv'
<1> DEFINE me == run[r]
           copied == store[<<me.lane, "asset", me.asset>>]
           next == [me EXCEPT !.pc = "seal-record"]
<1>1. RunOK(me) /\ me.pc = "seal-check"
  BY RunFacts DEF SealCheck, At
<1>2. StepIf(r, copied = me.held, next)
  BY DEF SealCheck
<1>3. me = run[r]
  OBVIOUS
<1> HIDE DEF me, copied
<1>4. Onward(me, next)
  BY <1>1 DEF RunOK, RunStates, InJob, Onward, Active, Ends, Preparing, Promoting, Publishing,
     Reading, Copying, CopyLoop, SealLoop
<1> HIDE DEF next
<1>5. QED
  BY <1>2, <1>3, <1>4, QuietStepIfReleased

LEMMA SkipPromotionReleased ==
  ASSUME LanesInv, ReleasedInv, NEW r \in Runs, SkipPromotion(r)
  PROVE  ReleasedInv'
<1> DEFINE me == run[r]
           next == Unusable(me)
<1>1. RunOK(me) /\ me.pc = "read"
  BY RunFacts DEF SkipPromotion, At
<1>2. Step(r, next)
  BY DEF SkipPromotion
<1>3. me = run[r]
  OBVIOUS
<1> HIDE DEF me
<1>4. Onward(me, next)
  BY <1>1, UnusableOnward DEF Reading
<1> HIDE DEF next
<1>5. QED
  BY <1>2, <1>3, <1>4, QuietStepReleased

LEMMA LaneUnreadReleased ==
  ASSUME LanesInv, ReleasedInv, NEW r \in Runs, LaneUnread(r)
  PROVE  ReleasedInv'
<1> DEFINE me == Unusable(run[r])
           next == [me EXCEPT !.unread = TRUE]
<1>1. RunOK(run[r]) /\ LanesFilled(run[r], store, manifest) /\ run[r].pc \in Reading
  BY RunFacts DEF LaneUnread, At, Reading
<1>2. Step(r, next)
  BY DEF LaneUnread
<1>3. RunOK(me) /\ Onward(run[r], me)
  BY <1>1, UnusableOK, UnusableOnward
<1> HIDE DEF me
<1>4. SameJob(me, next) /\ next.pc = me.pc /\ next.files = me.files
  BY <1>3, UnreadFacts DEF RunOK
<1> HIDE DEF next
<1>5. Onward(run[r], next)
  BY <1>3, <1>4 DEF Onward, Active, SameJob
<1>6. QED
  BY <1>2, <1>5, QuietStepReleased

LEMMA CopyGetReleased ==
  ASSUME LanesInv, ReleasedInv, NEW r \in Runs, CopyGet(r)
  PROVE  ReleasedInv'
<1> DEFINE me == run[r]
           got == store[<<me.lane, "asset", me.asset>>]
           next == [me EXCEPT !.pc = "copy-put", !.held = got]
<1>1. RunOK(me) /\ me.pc = "copy-get"
  BY RunFacts DEF CopyGet, At
<1>2. StepIf(r, got # None, next)
  BY DEF CopyGet
<1>3. me = run[r]
  OBVIOUS
<1> HIDE DEF me, got
<1>4. Onward(me, next)
  BY <1>1 DEF RunOK, RunStates, InJob, Onward, Active, Ends, Preparing, Promoting, Publishing,
     Reading, Copying, CopyLoop, SealLoop
<1> HIDE DEF next
<1>5. QED
  BY <1>2, <1>3, <1>4, QuietStepIfReleased

LEMMA CopyCheckReleased ==
  ASSUME LanesInv, ReleasedInv, NEW r \in Runs, CopyCheck(r)
  PROVE  ReleasedInv'
<1> DEFINE me == run[r]
           copied == store[<<me.to, "asset", me.asset>>]
           next == [me EXCEPT !.pc = "copy-record"]
<1>1. RunOK(me) /\ me.pc = "copy-check"
  BY RunFacts DEF CopyCheck, At
<1>2. StepIf(r, copied = me.held, next)
  BY DEF CopyCheck
<1>3. me = run[r]
  OBVIOUS
<1> HIDE DEF me, copied
<1>4. Onward(me, next)
  BY <1>1 DEF RunOK, RunStates, InJob, Onward, Active, Ends, Preparing, Promoting, Publishing,
     Reading, Copying, CopyLoop, SealLoop
<1> HIDE DEF next
<1>5. QED
  BY <1>2, <1>3, <1>4, QuietStepIfReleased

LEMMA DecidePublishReleased ==
  ASSUME LanesInv, ReleasedInv, NEW r \in Runs, DecidePublish(r)
  PROVE  ReleasedInv'
<1> DEFINE me == run[r]
           current == Current(me)
           next == [me EXCEPT !.pc = "download"]
<1>1. RunOK(me) /\ me.pc = "decide"
  BY RunFacts DEF DecidePublish, At
<1>2. StepIf(r, current, next)
  BY DEF DecidePublish
<1>3. me = run[r]
  OBVIOUS
<1> HIDE DEF me, current
<1>4. Onward(me, next)
  BY <1>1 DEF RunOK, RunStates, InJob, Onward, Active, Ends, Preparing, Promoting, Publishing,
     Reading, Copying, CopyLoop, SealLoop
<1> HIDE DEF next
<1>5. QED
  BY <1>2, <1>3, <1>4, QuietStepIfReleased

LEMMA VersionCheckReleased ==
  ASSUME LanesInv, ReleasedInv, NEW r \in Runs, VersionCheck(r)
  PROVE  ReleasedInv'
<1> DEFINE me == run[r]
           right == me.files[1].version = me.version
           next == [me EXCEPT !.pc = "remove"]
<1>1. RunOK(me) /\ me.pc = "version-check"
  BY RunFacts DEF VersionCheck, At
<1>2. StepIf(r, right, next)
  BY DEF VersionCheck
<1>3. me = run[r]
  OBVIOUS
<1> HIDE DEF me, right
<1>4. Onward(me, next)
  BY <1>1 DEF RunOK, RunStates, InJob, Onward, Active, Ends, Preparing, Promoting, Publishing,
     Reading, Copying, CopyLoop, SealLoop
<1> HIDE DEF next
<1>5. QED
  BY <1>2, <1>3, <1>4, QuietStepIfReleased

LEMMA ListAssetsReleased ==
  ASSUME LanesInv, ReleasedInv, NEW r \in Runs, ListAssets(r)
  PROVE  ReleasedInv'
<1> DEFINE me == run[r]
           all == \A a \in Assets : releases[me.release].assets[a] # None
           next == [me EXCEPT !.pc = "publish"]
<1>1. RunOK(me) /\ me.pc = "list"
  BY RunFacts DEF ListAssets, At
<1>2. StepIf(r, all, next)
  BY DEF ListAssets
<1>3. me = run[r]
  OBVIOUS
<1> HIDE DEF me, all
<1>4. Onward(me, next)
  BY <1>1 DEF RunOK, RunStates, InJob, Onward, Active, Ends, Preparing, Promoting, Publishing,
     Reading, Copying, CopyLoop, SealLoop
<1> HIDE DEF next
<1>5. QED
  BY <1>2, <1>3, <1>4, QuietStepIfReleased

LEMMA AbortReleased ==
  ASSUME LanesInv, ReleasedInv, NEW r \in Runs, Abort(r)
  PROVE  ReleasedInv'
BY EndedOnward, QuietStepReleased DEF Abort, Ends

\* Steps that write manifests or the pointer only.
LEMMA StoreStaysReleased ==
  ASSUME LanesInv, ReleasedInv, NEW r \in Runs, NEW next, Goto(r, next), UNCHANGED github,
         store' = store, Onward(run[r], next)
  PROVE  ReleasedInv'
<1>1. ReleasesStay /\ MergesStay
  BY DEF github, ReleasesStay, MergesStay
<1>2. QED
  BY <1>1, TreesStay, OnwardReleased

LEMMA SealManifestReleased ==
  ASSUME LanesInv, ReleasedInv, NEW r \in Runs, SealManifest(r)
  PROVE  ReleasedInv'
<1> DEFINE me == run[r]
           pr == me.kind = "pr"
           empty == [a \in Assets |-> None]
           next == IF pr THEN Ended(me, "done")
                   ELSE [me EXCEPT !.pc = "authorize", !.uploads = {}, !.files = empty]
<1>1. /\ RunOK(me) /\ me.pc = "seal-manifest"
      /\ Goto(r, next) /\ UNCHANGED github /\ store' = store
  BY RunFacts DEF SealManifest, At
<1>2. me = run[r]
  OBVIOUS
<1> HIDE DEF me, pr, empty
<1>3. Onward(me, next)
  <2>1. CASE pr
    BY <2>1, EndedOnward DEF Ends
  <2>2. CASE ~pr
    <3>1. \A a \in Assets : empty[a] = None
      BY DEF empty
    <3>2. QED
      BY <1>1, <2>2, <3>1 DEF RunOK, RunStates, InJob, Onward, Active, Ends, Preparing,
         Promoting, Publishing, Reading, Copying, CopyLoop, SealLoop
  <2>3. QED
    BY <2>1, <2>2
<1> HIDE DEF next
<1>4. QED
  BY <1>1, <1>2, <1>3, StoreStaysReleased

LEMMA CopyManifestReleased ==
  ASSUME LanesInv, ReleasedInv, NEW r \in Runs, CopyManifest(r)
  PROVE  ReleasedInv'
<1> DEFINE me == run[r]
           next == AfterCopy(me)
<1>1. /\ RunOK(me) /\ me.pc = "copy-manifest"
      /\ Goto(r, next) /\ UNCHANGED github /\ store' = store
  BY RunFacts DEF CopyManifest, At
<1>2. me = run[r]
  OBVIOUS
<1> HIDE DEF me
<1>3. Onward(me, next)
  BY <1>1 DEF AfterCopy, RunOK, RunStates, InJob, Onward, Active, Ends, Preparing, Promoting,
     Publishing, Reading, Copying, CopyLoop, SealLoop
<1> HIDE DEF next
<1>4. QED
  BY <1>1, <1>2, <1>3, StoreStaysReleased

LEMMA VersionManifestReleased ==
  ASSUME LanesInv, ReleasedInv, NEW r \in Runs, VersionManifest(r)
  PROVE  ReleasedInv'
<1> DEFINE me == run[r]
           next == [me EXCEPT !.pc = "latest"]
<1>1. /\ RunOK(me) /\ me.pc = "version-manifest"
      /\ Goto(r, next) /\ UNCHANGED github /\ store' = store
  BY RunFacts DEF VersionManifest, At
<1>2. me = run[r]
  OBVIOUS
<1> HIDE DEF me
<1>3. Onward(me, next)
  BY <1>1 DEF RunOK, RunStates, InJob, Onward, Active, Ends, Preparing, Promoting, Publishing,
     Reading, Copying, CopyLoop, SealLoop
<1> HIDE DEF next
<1>4. QED
  BY <1>1, <1>2, <1>3, StoreStaysReleased

LEMMA PutLatestReleased ==
  ASSUME LanesInv, ReleasedInv, NEW r \in Runs, PutLatest(r)
  PROVE  ReleasedInv'
<1> DEFINE me == run[r]
           next == Ended(me, "done")
<1>1. /\ RunOK(me) /\ me.pc = "latest"
      /\ Goto(r, next) /\ UNCHANGED github /\ store' = store
  BY RunFacts DEF PutLatest, At
<1>2. me = run[r]
  OBVIOUS
<1> HIDE DEF me
<1>3. Onward(me, next)
  BY EndedOnward DEF Ends
<1> HIDE DEF next
<1>4. QED
  BY <1>1, <1>2, <1>3, StoreStaysReleased

\* What a run builds belongs into its lane.
LEMMA BuiltBelongs ==
  ASSUME LanesInv, ReleasedInv, NEW r \in Runs, Active(run[r]), run[r].kind # "merge"
  PROVE  Belongs(Built(r).tree, run[r].lane, merged, releases)
<1> DEFINE me == run[r]
<1>1. /\ RunOK(me) /\ me.source \in PullRequests /\ me.version \in Versions
      /\ Built(r).tree = TreeOf(Commit(me))
  BY RunFacts, ActiveFacts DEF Built
<1>2. \/ me.kind = "pr" /\ me.lane = PrLane(me.source)
      \/ me.kind = "release" /\ me.lane = VersionLane(me.version)
  BY <1>1 DEF RunOK, InJob
<1>3. me.kind = "release" => HasRelease(releases, me.version, me.source)
  BY DEF ReleasedInv, PublishOK
<1>4. Built(r).tree = IF me.kind = "pr" THEN HeadOf(me.source) ELSE MergedTree(merged, me.source)
  BY <1>1, <1>2, TreeNames DEF Commit
<1> HIDE DEF me
<1>5. CASE me.kind = "pr"
  <2>1. Built(r).tree = HeadOf(me.source) /\ me.lane = PrLane(me.source)
    BY <1>2, <1>4, <1>5
  <2>2. Belongs(Built(r).tree, me.lane, merged, releases)
    BY <2>1 DEF Belongs, PrLane, VersionLane
  <2>3. QED
    BY <2>2 DEF me
<1>6. CASE me.kind = "release"
  <2>1. Built(r).tree = MergedTree(merged, me.source) /\ me.lane = VersionLane(me.version)
    BY <1>2, <1>4, <1>6
  <2>2. Belongs(Built(r).tree, me.lane, merged, releases)
    BY <1>1, <1>3, <1>6, <2>1 DEF Belongs, ReleaseTree, PrLane, VersionLane
  <2>3. QED
    BY <2>2 DEF me
<1>7. QED
  BY <1>2, <1>5, <1>6

LEMMA UploadAssetReleased ==
  ASSUME LanesInv, ReleasedInv, NEW r \in Runs, NEW a \in Assets, UploadAsset(r, a)
  PROVE  ReleasedInv'
<1> DEFINE me == run[r]
           next == [me EXCEPT !.built[a] = 1]
<1>1. /\ RunOK(me) /\ me.pc = "build" /\ Active(me)
      /\ Put(<<me.lane, "staging", a>>, Built(r)) /\ Goto(r, next) /\ UNCHANGED github
  BY RunFacts DEF UploadAsset, At, Active, Ends
<1>2. me.lane \in Lanes /\ "staging" \in Slots /\ a \in Assets
  BY <1>1, ActiveFacts DEF Slots, Copying, CopyLoop
<1>3. Belongs(Built(r).tree, me.lane, merged, releases)
  <2>1. me.kind # "merge"
    BY <1>1 DEF RunOK, InJob, Active, Ends, Preparing, Promoting, Publishing, Reading, Copying,
       CopyLoop, SealLoop
  <2>2. QED
    BY <1>1, <2>1, BuiltBelongs
<1>4. TreesInv'
  BY <1>1, <1>2, <1>3, PutTrees
<1>5. me = run[r]
  OBVIOUS
<1> HIDE DEF me
<1>6. Onward(me, next)
  BY <1>1 DEF RunOK, RunStates, InJob, Onward, Active, Ends, Preparing, Promoting, Publishing,
     Reading, Copying, CopyLoop, SealLoop
<1> HIDE DEF next
<1>7. QED
  BY <1>1, <1>4, <1>5, <1>6, OnwardReleased

LEMMA UploadDigestReleased ==
  ASSUME LanesInv, ReleasedInv, NEW r \in Runs, NEW a \in Assets, UploadDigest(r, a)
  PROVE  ReleasedInv'
<1> DEFINE me == run[r]
           next == [me EXCEPT !.built[a] = 2]
<1>1. /\ RunOK(me) /\ me.pc = "build" /\ Active(me)
      /\ Put(<<me.lane, "staging-sha256", a>>, Built(r)) /\ Goto(r, next) /\ UNCHANGED github
  BY RunFacts DEF UploadDigest, At, Active, Ends
<1>2. me.lane \in Lanes /\ "staging-sha256" \in Slots /\ a \in Assets
  BY <1>1, ActiveFacts DEF Slots, Copying, CopyLoop
<1>4. TreesInv'
  BY <1>1, <1>2, PutTrees
<1>5. me = run[r]
  OBVIOUS
<1> HIDE DEF me
<1>6. Onward(me, next)
  BY <1>1 DEF RunOK, RunStates, InJob, Onward, Active, Ends, Preparing, Promoting, Publishing,
     Reading, Copying, CopyLoop, SealLoop
<1> HIDE DEF next
<1>7. QED
  BY <1>1, <1>4, <1>5, <1>6, OnwardReleased

LEMMA SealRecordReleased ==
  ASSUME LanesInv, ReleasedInv, NEW r \in Runs, SealRecord(r)
  PROVE  ReleasedInv'
<1> DEFINE me == run[r]
           next == [me EXCEPT !.pc = "seal-clean"]
<1>1. /\ RunOK(me) /\ me.pc = "seal-record" /\ Active(me)
      /\ Put(<<me.lane, "sha256", me.asset>>, me.held) /\ Goto(r, next) /\ UNCHANGED github
  BY RunFacts DEF SealRecord, At, Active, Ends
<1>2. me.lane \in Lanes /\ "sha256" \in Slots /\ me.asset \in Assets
  BY <1>1, ActiveFacts DEF Slots, Copying, CopyLoop
<1>4. TreesInv'
  BY <1>1, <1>2, PutTrees
<1>5. me = run[r]
  OBVIOUS
<1> HIDE DEF me
<1>6. Onward(me, next)
  BY <1>1 DEF RunOK, RunStates, InJob, Onward, Active, Ends, Preparing, Promoting, Publishing,
     Reading, Copying, CopyLoop, SealLoop
<1> HIDE DEF next
<1>7. QED
  BY <1>1, <1>4, <1>5, <1>6, OnwardReleased

LEMMA SealCleanReleased ==
  ASSUME LanesInv, ReleasedInv, NEW r \in Runs, SealClean(r)
  PROVE  ReleasedInv'
<1> DEFINE me == run[r]
           next == [me EXCEPT !.pc = "seal-clean-digest"]
<1>1. /\ RunOK(me) /\ me.pc = "seal-clean" /\ Active(me)
      /\ Put(<<me.lane, "staging", me.asset>>, None) /\ Goto(r, next) /\ UNCHANGED github
  BY RunFacts DEF SealClean, At, Active, Ends
<1>2. me.lane \in Lanes /\ "staging" \in Slots /\ me.asset \in Assets
  BY <1>1, ActiveFacts DEF Slots, Copying, CopyLoop
<1>4. TreesInv'
  BY <1>1, <1>2, PutTrees
<1>5. me = run[r]
  OBVIOUS
<1> HIDE DEF me
<1>6. Onward(me, next)
  BY <1>1 DEF RunOK, RunStates, InJob, Onward, Active, Ends, Preparing, Promoting, Publishing,
     Reading, Copying, CopyLoop, SealLoop
<1> HIDE DEF next
<1>7. QED
  BY <1>1, <1>4, <1>5, <1>6, OnwardReleased

LEMMA SealCleanDigestReleased ==
  ASSUME LanesInv, ReleasedInv, NEW r \in Runs, SealCleanDigest(r)
  PROVE  ReleasedInv'
<1> DEFINE me == run[r]
           next == Advance(Sealed(me), "seal-get", "seal-manifest")
<1>1. /\ RunOK(me) /\ me.pc = "seal-clean-digest" /\ Active(me)
      /\ Put(<<me.lane, "staging-sha256", me.asset>>, None) /\ Goto(r, next) /\ UNCHANGED github
  BY RunFacts DEF SealCleanDigest, At, Active, Ends
<1>2. me.lane \in Lanes /\ "staging-sha256" \in Slots /\ me.asset \in Assets
  BY <1>1, ActiveFacts DEF Slots, Copying, CopyLoop
<1>4. TreesInv'
  BY <1>1, <1>2, PutTrees
<1>5. me = run[r]
  OBVIOUS
<1> HIDE DEF me
<1>6. Onward(me, next)
  BY <1>1, SealedOnward DEF RunOK, HoldsWhatItNeeds, SealLoop
<1> HIDE DEF next
<1>7. QED
  BY <1>1, <1>4, <1>5, <1>6, OnwardReleased

LEMMA CopyRecordReleased ==
  ASSUME LanesInv, ReleasedInv, NEW r \in Runs, CopyRecord(r)
  PROVE  ReleasedInv'
<1> DEFINE me == run[r]
           next == Advance(me, "copy-get", "copy-manifest")
<1>1. /\ RunOK(me) /\ me.pc = "copy-record" /\ Active(me)
      /\ Put(<<me.to, "sha256", me.asset>>, me.held) /\ Goto(r, next) /\ UNCHANGED github
  BY RunFacts DEF CopyRecord, At, Active, Ends
<1>2. me.to \in Lanes /\ "sha256" \in Slots /\ me.asset \in Assets
  BY <1>1, ActiveFacts DEF Slots, Copying, CopyLoop
<1>4. TreesInv'
  BY <1>1, <1>2, PutTrees
<1>5. me = run[r]
  OBVIOUS
<1> HIDE DEF me
<1>6. Onward(me, next)
  BY <1>1, AdvanceOnward DEF RunOK, Points, Copying, CopyLoop
<1> HIDE DEF next
<1>7. QED
  BY <1>1, <1>4, <1>5, <1>6, OnwardReleased

\* S3Cache.copy brings an object to a lane it belongs into.
LEMMA CopyReleased ==
  ASSUME LanesInv, ReleasedInv, NEW r \in Runs, NEW next, Onward(run[r], next), UNCHANGED github,
         NEW from, NEW l \in Lanes, NEW a \in Assets,
         CopyObject(r, from, <<l, "asset", a>>, next),
         store[from] # None => Belongs(store[from].tree, l, merged, releases)
  PROVE  ReleasedInv'
<1>1. CASE store[from] = None
  <2>1. Goto(r, Ended(run[r], "failed")) /\ store' = store
    BY <1>1 DEF CopyObject, Check
  <2>2. QED
    BY <2>1, EndedOnward, StoreStaysReleased DEF Ends
<1>2. CASE store[from] # None
  <2>1. Goto(r, next) /\ Put(<<l, "asset", a>>, store[from]) /\ "asset" \in Slots
    BY <1>2 DEF CopyObject, Check, Slots
  <2>2. TreesInv'
    BY <1>2, <2>1, PutTrees
  <2>3. QED
    BY <2>1, <2>2, OnwardReleased
<1>3. QED
  BY <1>1, <1>2

LEMMA SealCopyReleased ==
  ASSUME LanesInv, ReleasedInv, NEW r \in Runs, SealCopy(r)
  PROVE  ReleasedInv'
<1> DEFINE me == run[r]
           from == <<me.lane, "staging", me.asset>>
           next == [me EXCEPT !.pc = "seal-check"]
<1>1. /\ RunOK(me) /\ me.pc = "seal-copy" /\ Active(me) /\ UNCHANGED github
      /\ CopyObject(r, from, <<me.lane, "asset", me.asset>>, next)
  BY RunFacts DEF SealCopy, At, Active, Ends
<1>2. me.lane \in Lanes /\ me.asset \in Assets
  BY <1>1, ActiveFacts
<1>3. store[from] # None => Belongs(store[from].tree, me.lane, merged, releases)
  BY <1>2 DEF ReleasedInv, TreesInv
<1>4. me = run[r]
  OBVIOUS
<1> HIDE DEF me, from
<1>5. Onward(me, next)
  BY <1>1 DEF RunOK, RunStates, InJob, Onward, Active, Ends, Preparing, Promoting, Publishing,
     Reading, Copying, CopyLoop, SealLoop
<1> HIDE DEF next
<1>6. QED
  BY <1>1, <1>2, <1>3, <1>4, <1>5, CopyReleased

LEMMA CopyPutReleased ==
  ASSUME LanesInv, ReleasedInv, NEW r \in Runs, CopyPut(r)
  PROVE  ReleasedInv'
<1> DEFINE me == run[r]
           from == <<me.lane, "asset", me.asset>>
           next == [me EXCEPT !.pc = "copy-check"]
<1>1. /\ RunOK(me) /\ me.pc = "copy-put" /\ Active(me) /\ UNCHANGED github
      /\ CopyObject(r, from, <<me.to, "asset", me.asset>>, next)
  BY RunFacts DEF CopyPut, At, Active, Ends
<1>2. me.lane \in Lanes /\ me.to \in Lanes /\ me.asset \in Assets /\ me.source \in PullRequests
  BY <1>1, ActiveFacts DEF Copying, CopyLoop
<1>3. MergeOK(me, Len(tags), merged, releases)
  BY DEF ReleasedInv
<1>4. ASSUME store[from] # None
      PROVE  Belongs(store[from].tree, me.to, merged, releases)
  <2>1. CASE me.to = MainLane(me.source)
    BY <2>1 DEF Belongs, MainLane, PrLane, VersionLane
  <2>2. CASE me.kind = "merge" /\ me.to = VersionLane(me.version)
    <3>1. me.lane = PrLane(me.source)
      BY <1>1, <2>2 DEF RunOK, InJob
    <3>2. Belongs(store[from].tree, me.lane, merged, releases)
      BY <1>2, <1>4 DEF ReleasedInv, TreesInv
    <3>3. store[from].tree = HeadOf(me.source)
      BY <1>2, <3>1, <3>2 DEF Belongs
    <3>4. HasRelease(releases, me.version, me.source) /\ merged[me.source] = "same"
      BY <1>1, <1>3, <2>2 DEF MergeOK, Merging, Copying, CopyLoop
    <3>5. store[from].tree = MergedTree(merged, me.source)
      BY <3>3, <3>4 DEF MergedTree
    <3> HIDE DEF me, from
    <3>6. QED
      BY <1>2, <2>2, <3>4, <3>5 DEF Belongs, ReleaseTree, PrLane, VersionLane
  <2>3. QED
    BY <1>1, <2>1, <2>2 DEF RunOK, InJob, Copying, CopyLoop
<1>5. me = run[r]
  OBVIOUS
<1> HIDE DEF me, from
<1>6. Onward(me, next)
  BY <1>1 DEF RunOK, RunStates, InJob, Onward, Active, Ends, Preparing, Promoting, Publishing,
     Reading, Copying, CopyLoop, SealLoop
<1> HIDE DEF next
<1>7. QED
  BY <1>1, <1>2, <1>4, <1>5, <1>6, CopyReleased
-----------------------------------------------------------------------------
(* Steps that look for a release, or copy an asset of a lane to the runner.  *)

LEMMA FindDraftReleased ==
  ASSUME LanesInv, ReleasedInv, NEW r \in Runs, FindDraft(r)
  PROVE  ReleasedInv'
<1> DEFINE me == run[r]
           found == Find(me.version)
           mine == releases[found].draft /\ releases[found].source = me.source
<1>1. /\ RunOK(me) /\ me.pc = "draft" /\ Active(me)
      /\ MergeOK(me, Len(tags), merged, releases)
      /\ IF found = 0 THEN Step(r, [me EXCEPT !.pc = "create"])
         ELSE StepIf(r, mine, [me EXCEPT !.pc = "read"])
  BY RunFacts DEF FindDraft, At, Active, Ends, ReleasedInv
<1>2. me \in RunStates /\ Merging(me) /\ me.kind # "release"
  BY <1>1 DEF RunOK, InJob, Merging, Preparing, Publishing, Reading, Copying, CopyLoop, SealLoop
<1>3. Alone => \A q \in Runs : q # r => ~Active(run[q])
  BY <1>2, OthersRest DEF Merging
<1>4. /\ found # 0 => found \in DOMAIN releases /\ releases[found].version = me.version
      /\ found = 0 => \A k \in DOMAIN releases : releases[k].version # me.version
  BY FindFacts DEF LanesInv, TypeOK
<1> HIDE DEF me, found
<1>5. ASSUME NEW next, Step(r, next), next.kind # "release",
             MergeOK(next, Len(tags), merged, releases)
      PROVE  ReleasedInv'
  <2>1. Goto(r, next) /\ UNCHANGED github /\ ReleasesStay /\ MergesStay /\ store' = store
    BY <1>5 DEF Step, github, lanes, ReleasesStay, MergesStay
  <2>2. PublishOK(next, merged, releases)
    BY <1>5 DEF PublishOK
  <2>3. QED
    BY <1>3, <1>5, <2>1, <2>2, TreesStay, StepReleased
<1>6. CASE found = 0
  <2> DEFINE next == [me EXCEPT !.pc = "create"]
  <2>1. /\ next.kind = me.kind /\ next.pc = "create"
        /\ next.source = me.source /\ next.version = me.version
    BY <1>2 DEF RunStates
  <2>2. Step(r, next)
    BY <1>1, <1>6
  <2> HIDE DEF next
  <2>3. MergeOK(next, Len(tags), merged, releases)
    BY <1>1, <1>2, <1>4, <1>6, <2>1 DEF MergeOK, Copying, CopyLoop
  <2>4. QED
    BY <1>2, <1>5, <2>1, <2>2, <2>3
<1>7. CASE found # 0 /\ mine
  <2> DEFINE next == [me EXCEPT !.pc = "read"]
  <2>1. /\ next.kind = me.kind /\ next.pc = "read"
        /\ next.source = me.source /\ next.version = me.version
    BY <1>2 DEF RunStates
  <2>2. Step(r, next)
    BY <1>1, <1>7 DEF StepIf, Check, Step
  <2>3. HasRelease(releases, me.version, me.source)
    BY <1>4, <1>7 DEF HasRelease
  <2> HIDE DEF next
  <2>4. MergeOK(next, Len(tags), merged, releases)
    BY <1>1, <1>2, <2>1, <2>3 DEF MergeOK, Copying, CopyLoop
  <2>5. QED
    BY <1>2, <1>5, <2>1, <2>2, <2>4
<1>8. CASE found # 0 /\ ~mine
  <2>1. Step(r, Ended(me, "failed"))
    BY <1>1, <1>8 DEF StepIf, Check, Step, me
  <2>2. QED
    BY <2>1, EndedOnward, QuietStepReleased DEF me, Ends
<1>9. QED
  BY <1>6, <1>7, <1>8

LEMMA DecidePromotionReleased ==
  ASSUME LanesInv, ReleasedInv, NEW r \in Runs, DecidePromotion(r)
  PROVE  ReleasedInv'
<1> DEFINE me == run[r]
           next == [me EXCEPT !.pc = "copy-get", !.to = VersionLane(me.version)]
<1>1. /\ RunOK(me) /\ me.pc = "decide" /\ Active(me) /\ me.phase = "promote"
      /\ MergeOK(me, Len(tags), merged, releases)
      /\ Step(r, IF Promotable(me) THEN next ELSE Unusable(me))
  BY RunFacts DEF DecidePromotion, At, Active, Ends, ReleasedInv
<1>2. CASE Promotable(me)
  <2>1. Goto(r, next) /\ UNCHANGED github /\ ReleasesStay /\ MergesStay /\ store' = store
    BY <1>1, <1>2 DEF Step, github, lanes, ReleasesStay, MergesStay
  <2>2. me \in RunStates /\ Merging(me) /\ me.source \in PullRequests
    BY <1>1, ActiveFacts DEF RunOK, InJob, Merging
  <2>3. merged[me.source] = "same"
    <3>1. TreeOf(HeadOf(me.source)) = TreeOf(MergeOf(me.source))
      BY <1>2 DEF Promotable
    <3>2. QED
      BY <2>2, <3>1, TreeNames DEF MergedTree
  <2>4. Alone => \A q \in Runs : q # r => ~Active(run[q])
    BY <2>2, OthersRest DEF Merging
  <2> HIDE DEF me
  <2>5. /\ next.kind = "merge" /\ next.pc = "copy-get"
        /\ next.source = me.source /\ next.version = me.version
    BY <2>2 DEF RunStates, Merging
  <2> HIDE DEF next
  <2>6. MergeOK(next, Len(tags), merged, releases) /\ PublishOK(next, merged, releases)
    BY <1>1, <2>2, <2>3, <2>5 DEF MergeOK, PublishOK
  <2>7. QED
    BY <2>1, <2>4, <2>6, TreesStay, StepReleased
<1>3. CASE ~Promotable(me)
  <2>1. Step(r, Unusable(me)) /\ me.pc \in Reading
    BY <1>1, <1>3 DEF Reading
  <2>2. QED
    BY <1>1, <2>1, UnusableOnward, QuietStepReleased
<1>4. QED
  BY <1>2, <1>3

LEMMA AuthorizedFacts ==
  ASSUME LanesInv, NEW v, NEW i, Authorized(v, i)
  PROVE  /\ HasRelease(releases, v, i)
         /\ Find(v) \in DOMAIN releases
         /\ releases[Find(v)].version = v /\ releases[Find(v)].source = i
BY FindFacts DEF LanesInv, TypeOK, Authorized, HasRelease

LEMMA AuthorizeReleased ==
  ASSUME LanesInv, ReleasedInv, NEW r \in Runs, Authorize(r)
  PROVE  ReleasedInv'
<1> DEFINE me == run[r]
           found == Find(me.version)
           listed == releases[found].assets
           next == [me EXCEPT !.pc = "read", !.phase = "publish",
                              !.release = found, !.listed = listed]
<1>1. RunOK(me) /\ me.pc = "authorize" /\ Active(me) /\ PublishOK(me, merged, releases)
  BY RunFacts DEF Authorize, At, Active, Ends, ReleasedInv
<1>2. CASE Authorized(me.version, me.source)
  <2>1. Goto(r, next) /\ UNCHANGED github /\ ReleasesStay /\ MergesStay /\ store' = store
    BY <1>2 DEF Authorize, Step, github, lanes, ReleasesStay, MergesStay
  <2>2. me \in RunStates /\ me.kind = "release"
    BY <1>1 DEF RunOK, InJob, Preparing, Promoting, Reading, Copying, CopyLoop, SealLoop
  <2>3. /\ found \in DOMAIN releases
        /\ releases[found].version = me.version /\ releases[found].source = me.source
        /\ Alone => \A q \in Runs : q # r => ~Active(run[q])
    BY <1>1, <1>2, AuthorizedFacts, OthersRest
  <2> HIDE DEF me, found, listed
  <2>4. /\ next.kind = "release" /\ next.release = found /\ next.files = me.files
        /\ next.source = me.source /\ next.version = me.version
    BY <2>2 DEF RunStates
  <2> HIDE DEF next
  <2>5. MergeOK(next, Len(tags), merged, releases) /\ PublishOK(next, merged, releases)
    BY <1>1, <2>2, <2>3, <2>4 DEF MergeOK, PublishOK, Merging
  <2>6. QED
    BY <2>1, <2>3, <2>5, TreesStay, StepReleased
<1>3. CASE ~Authorized(me.version, me.source)
  <2>1. Step(r, Ended(me, "failed"))
    BY <1>3 DEF Authorize
  <2>2. QED
    BY <2>1, EndedOnward, QuietStepReleased DEF Ends
<1>4. QED
  BY <1>2, <1>3

\* What is in a version lane is of the tree of one of its releases.
LEMMA DownloadReleased ==
  ASSUME LanesInv, ReleasedInv, NEW r \in Runs, Download(r)
  PROVE  ReleasedInv'
<1> DEFINE me == run[r]
           got == store[<<me.lane, "asset", me.asset>>]
           kept == [me EXCEPT !.files[me.asset] = got]
           next == Advance(kept, "download", "version-check")
<1>1. /\ RunOK(me) /\ me.pc = "download" /\ Active(me) /\ PublishOK(me, merged, releases)
      /\ StepIf(r, got # None, next)
  BY RunFacts DEF Download, At, Active, Ends, ReleasedInv
<1>2. CASE got = None
  <2>1. Step(r, Ended(run[r], "failed"))
    BY <1>1, <1>2 DEF StepIf, Check, Step
  <2>2. QED
    BY <2>1, EndedOnward, QuietStepReleased DEF Ends
<1>3. CASE got # None
  <2>1. Goto(r, next) /\ UNCHANGED github /\ ReleasesStay /\ MergesStay /\ store' = store
    BY <1>1, <1>3 DEF StepIf, Check, github, lanes, ReleasesStay, MergesStay
  <2>2. /\ me \in RunStates /\ me.kind = "release" /\ me.phase = "publish"
        /\ me.version \in Versions /\ me.lane = VersionLane(me.version)
        /\ me.lane \in Lanes /\ me.asset \in Assets
    BY <1>1, ActiveFacts DEF RunOK, InJob, Preparing, Promoting, Reading, Copying, CopyLoop,
       SealLoop
  <2>3. got \in Contents
    BY <1>3, <2>2, StoreTypes DEF Slots
  <2>4. /\ ReleaseTree(got.tree, me.version, merged, releases)
        /\ Alone => \A q \in Runs : q # r => ~Active(run[q])
    <3>1. Belongs(got.tree, me.lane, merged, releases)
      BY <1>3, <2>2 DEF ReleasedInv, TreesInv
    <3>2. QED
      BY <1>1, <2>2, <3>1, OthersRest DEF Belongs
  <2> HIDE DEF me, got
  <2>5. /\ kept \in RunStates /\ SameJob(me, kept) /\ kept.files[me.asset] = got
        /\ \A b \in Assets : b # me.asset => kept.files[b] = me.files[b]
    BY <2>2, <2>3, FileFacts
  <2> HIDE DEF kept
  <2>6. "download" \in Points /\ "version-check" \in Points
    BY DEF Points
  <2>7. SameJob(kept, next) /\ next.files = kept.files
    BY <2>5, <2>6, AdvanceFacts, Zenon
  <2> HIDE DEF next
  <2>8. SameJob(me, next)
    BY <2>5, <2>7 DEF SameJob
  <2>9. /\ HasRelease(releases, me.version, me.source)
        /\ me.release \in DOMAIN releases
        /\ releases[me.release].version = me.version /\ releases[me.release].source = me.source
        /\ \A a \in Assets :
             me.files[a] # None => ReleaseTree(me.files[a].tree, me.version, merged, releases)
    BY <1>1, <2>2 DEF PublishOK
  <2>10. \A a \in Assets :
           next.files[a] # None => ReleaseTree(next.files[a].tree, me.version, merged, releases)
    BY <2>4, <2>5, <2>7, <2>9
  <2>11. MergeOK(next, Len(tags), merged, releases) /\ PublishOK(next, merged, releases)
    BY <2>2, <2>8, <2>9, <2>10 DEF MergeOK, PublishOK, Merging, SameJob
  <2>12. QED
    BY <2>1, <2>4, <2>11, TreesStay, StepReleased
<1>4. QED
  BY <1>2, <1>3

-----------------------------------------------------------------------------
\* A workflow starts when nobody works, if there may be one at a time.
LEMMA NoneWorks ==
  ASSUME MaxActive = 1, OneActive, Cardinality({q \in Runs : Working(q)}) < MaxActive
  PROVE  \A q \in Runs : ~Active(run[q])
<1> SUFFICES ASSUME NEW q \in Runs, Active(run[q])
             PROVE  FALSE
  OBVIOUS
<1>1. {p \in Runs : Working(p)} = {q}
  BY DEF Working, Active, OneActive
<1>2. QED
  BY <1>1, FS_Singleton

\* A workflow that starts has the release it needs, or needs none.
LEMMA StartReleased ==
  ASSUME LanesInv, ReleasedInv, NEW r \in Runs, NEW next, Step(r, next), MayStart(r),
         MergeOK(next, Len(tags), merged, releases), PublishOK(next, merged, releases)
  PROVE  ReleasedInv'
<1>1. Goto(r, next) /\ UNCHANGED github /\ ReleasesStay /\ MergesStay /\ store' = store
  BY DEF Step, github, lanes, ReleasesStay, MergesStay
<1>2. Alone => \A q \in Runs : ~Active(run[q])
  BY NoneWorks DEF MayStart, Alone, ReleasedInv
<1>3. QED
  BY <1>1, <1>2, TreesStay, StepReleased

LEMMA PreparePullRequestReleased ==
  ASSUME LanesInv, ReleasedInv, NEW r \in Runs, NEW i \in PullRequests, PreparePullRequest(r, i)
  PROVE  ReleasedInv'
<1> DEFINE next == [Idle EXCEPT !.kind = "pr", !.phase = "prepare", !.pc = "read",
                                !.source = i, !.version = NextVersion, !.lane = PrLane(i)]
<1>1. Step(r, next) /\ MayStart(r) /\ next.kind = "pr"
  BY DEF PreparePullRequest, Idle
<1> HIDE DEF next
<1>2. MergeOK(next, Len(tags), merged, releases) /\ PublishOK(next, merged, releases)
  BY <1>1 DEF Merging, MergeOK, PublishOK
<1>3. QED
  BY <1>1, <1>2, StartReleased

LEMMA PrepareReleaseReleased ==
  ASSUME LanesInv, ReleasedInv, NEW r \in Runs, NEW v \in Versions, PrepareRelease(r, v)
  PROVE  ReleasedInv'
<1> DEFINE next == [Idle EXCEPT !.kind = "release", !.phase = "prepare", !.pc = "read",
                                !.source = tags[v], !.version = v, !.lane = VersionLane(v)]
<1>1. MayStart(r) /\ Step(r, IF Authorized(v, tags[v]) THEN next ELSE Ended(next, "failed"))
  BY DEF PrepareRelease
<1>2. /\ next.kind = "release" /\ next.phase = "prepare" /\ next.pc = "read"
      /\ next.source = tags[v] /\ next.version = v
  BY DEF Idle
<1> HIDE DEF next
<1>3. CASE Authorized(v, tags[v])
  <2>1. HasRelease(releases, next.version, next.source)
    BY <1>2, <1>3, AuthorizedFacts
  <2>2. MergeOK(next, Len(tags), merged, releases) /\ PublishOK(next, merged, releases)
    BY <1>2, <2>1 DEF Merging, MergeOK, PublishOK
  <2>3. QED
    BY <1>1, <1>3, <2>2, StartReleased
<1>4. CASE ~Authorized(v, tags[v])
  <2> DEFINE gone == Ended(next, "failed")
  <2>1. ~Active(gone)
    BY DEF Ended, Idle, Active, Ends
  <2>2. Step(r, gone)
    BY <1>1, <1>4
  <2> HIDE DEF gone
  <2>3. MergeOK(gone, Len(tags), merged, releases) /\ PublishOK(gone, merged, releases)
    BY <2>1 DEF Merging, MergeOK, PublishOK
  <2>4. QED
    BY <1>1, <2>2, <2>3, StartReleased
<1>5. QED
  BY <1>3, <1>4

LEMMA PlanReleaseReleased ==
  ASSUME LanesInv, ReleasedInv, NEW r \in Runs, NEW i \in PullRequests, PlanRelease(r, i)
  PROVE  ReleasedInv'
<1> DEFINE next == [Idle EXCEPT !.kind = "merge", !.phase = "promote", !.pc = "draft",
                                !.source = i, !.version = NextVersion, !.lane = PrLane(i)]
<1>1. Step(r, next) /\ MayStart(r) /\ merged[i] # "open"
  BY DEF PlanRelease
<1>2. next.kind = "merge" /\ next.pc = "draft" /\ next.source = i /\ next.version = NextVersion
  BY DEF Idle
<1> HIDE DEF next
<1>3. MergeOK(next, Len(tags), merged, releases)
  BY <1>1, <1>2 DEF MergeOK, NextVersion, Copying, CopyLoop
<1>4. PublishOK(next, merged, releases)
  BY <1>2 DEF PublishOK
<1>5. QED
  BY <1>1, <1>3, <1>4, StartReleased
-----------------------------------------------------------------------------
(* Steps on GitHub.                                                          *)

\* What releases are about does not depend on their assets.
LEMMA PostedReleased ==
  ASSUME LanesInv, ReleasedInv, NEW r \in Runs, NEW next, Goto(r, next), Onward(run[r], next),
         UNCHANGED lanes, UNCHANGED <<tags, merged>>,
         DOMAIN releases' = DOMAIN releases, ReleasesStay,
         \A k \in DOMAIN releases, a \in Assets :
           \/ releases'[k].assets[a] = releases[k].assets[a] \/ releases'[k].assets[a] = None
           \/ ReleaseTree(releases'[k].assets[a].content.tree, releases[k].version,
                          merged, releases)
  PROVE  ReleasedInv'
<1>1. store' = store /\ tags' = tags /\ merged' = merged /\ MergesStay
  BY DEF lanes, MergesStay
<1>2. /\ MergeOK(next, Len(tags), merged, releases) /\ PublishOK(next, merged, releases)
      /\ Active(next) => Active(run[r])
      /\ ReleasesMerged /\ MergeOK(run[r], Len(tags), merged, releases)
  BY OnwardOK DEF ReleasedInv
<1>3. MergeOK(next, Len(tags'), merged', releases') /\ PublishOK(next, merged', releases')
  <2>1. PublishOK(next, merged', releases')
    <3> SUFFICES ASSUME next.kind = "release", Active(next)
                 PROVE  PublishOK(next, merged', releases')
      BY DEF PublishOK
    <3>1. HasRelease(releases', next.version, next.source)
      BY <1>2, HasReleaseStays DEF PublishOK
    <3>2. next.phase = "publish" => /\ next.release \in DOMAIN releases'
                                   /\ releases'[next.release].version = next.version
                                   /\ releases'[next.release].source = next.source
      BY <1>2 DEF PublishOK, ReleasesStay
    <3>3. next.phase = "publish" \/ next.pc = "authorize" =>
            \A a \in Assets :
              next.files[a] # None =>
                ReleaseTree(next.files[a].tree, next.version, merged', releases')
      BY <1>1, <1>2, ReleaseTreeStays DEF PublishOK
    <3>4. QED
      BY <3>1, <3>2, <3>3 DEF PublishOK
  <2>2. MergeOK(next, Len(tags'), merged', releases')
    <3> SUFFICES ASSUME Merging(next)
                 PROVE  MergeOK(next, Len(tags'), merged', releases')
      BY DEF MergeOK
    <3>1. next.pc \notin {"draft", "create"}
      BY DEF Onward, Merging
    <3>2. HasRelease(releases', next.version, next.source)
      BY <1>2, <3>1, HasReleaseStays DEF MergeOK
    <3>3. QED
      BY <1>1, <1>2, <3>1, <3>2 DEF MergeOK
  <2>3. QED
    BY <2>1, <2>2
<1>4. Alone => \A q \in Runs : q # r /\ Active(run[q]) =>
                 ~Active(next) /\ tags' = tags /\ DOMAIN releases' = DOMAIN releases
  BY <1>1, <1>2, OthersRest
<1>5. /\ Alone => OneActive'
      /\ \A q \in Runs : /\ MergeOK(run'[q], Len(tags'), merged', releases')
                         /\ PublishOK(run'[q], merged', releases')
  BY <1>1, <1>3, <1>4, RunsReleased
<1>6. ReleasesUnique' /\ ReleasesMerged'
  BY <1>1 DEF ReleasedInv, ReleasesUnique, ReleasesMerged, ReleasesStay
<1>7. TagsReleased'
  BY <1>1, HasReleaseStays DEF ReleasedInv, TagsReleased
<1>8. TreesInv'
  BY <1>1, TreesStay
<1>9. AssetTrees'
  <2> SUFFICES ASSUME NEW k \in DOMAIN releases, NEW a \in Assets, releases'[k].assets[a] # None
               PROVE  ReleaseTree(releases'[k].assets[a].content.tree, releases'[k].version,
                                  merged', releases')
    BY <1>1 DEF AssetTrees
  <2>1. ReleaseTree(releases'[k].assets[a].content.tree, releases[k].version, merged, releases)
    BY DEF ReleasedInv, AssetTrees
  <2>2. QED
    BY <1>1, <1>2, <2>1, ReleaseTreeStays DEF ReleasesStay
<1>10. QED
  BY <1>5, <1>6, <1>7, <1>8, <1>9 DEF ReleasedInv

LEMMA RemoveAssetReleased ==
  ASSUME LanesInv, ReleasedInv, NEW r \in Runs, RemoveAsset(r)
  PROVE  ReleasedInv'
<1> DEFINE me == run[r]
           k == me.release
           there == releases[k].assets[me.asset] = me.listed[me.asset]
           next == [me EXCEPT !.pc = "upload"]
<1>1. /\ RunOK(me) /\ me.pc = "remove" /\ Active(me) /\ PublishOK(me, merged, releases)
      /\ Check(r, there, next) /\ UNCHANGED lanes /\ UNCHANGED <<tags, merged>>
      /\ releases' = [releases EXCEPT ![k].assets[me.asset] = None] \/ releases' = releases
  BY RunFacts DEF RemoveAsset, At, Active, Ends, ReleasedInv
<1>2. me.asset \in Assets /\ releases \in Seq(Releases)
  BY <1>1, ActiveFacts DEF LanesInv, TypeOK
<1>3. k \in DOMAIN releases
  BY <1>1 DEF RunOK, InJob, PublishOK, Preparing, Promoting, Reading, Copying, CopyLoop,
     SealLoop
<1>4. Onward(me, next)
  <2> HIDE DEF me
  <2>1. QED
    BY <1>1 DEF RunOK, RunStates, InJob, Onward, Active, Ends, Preparing, Promoting, Publishing,
       Reading, Copying, CopyLoop, SealLoop
<1>5. /\ DOMAIN releases' = DOMAIN releases
      /\ \A j \in DOMAIN releases :
           /\ releases'[j].version = releases[j].version
           /\ releases'[j].source = releases[j].source
           /\ \A a \in Assets : \/ releases'[j].assets[a] = releases[j].assets[a]
                                \/ releases'[j].assets[a] = None
  <2> HIDE DEF me, k
  <2>1. CASE releases' = [releases EXCEPT ![k].assets[me.asset] = None]
    <3>1. \A j \in DOMAIN releases : releases[j] \in Releases
      BY <1>2, ReleaseFacts
    <3>2. QED
      BY <1>2, <1>3, <2>1, <3>1 DEF Releases
  <2>2. QED
    BY <1>1, <2>1
<1>6. ReleasesStay
  BY <1>5 DEF ReleasesStay
<1>7. Goto(r, next) \/ Goto(r, Ended(me, "failed"))
  BY <1>1 DEF Check
<1> HIDE DEF next
<1>8. QED
  BY <1>1, <1>4, <1>5, <1>6, <1>7, EndedOnward, PostedReleased DEF Ends

LEMMA UploadReleaseAssetReleased ==
  ASSUME LanesInv, ReleasedInv, NEW r \in Runs, UploadReleaseAsset(r)
  PROVE  ReleasedInv'
<1> DEFINE me == run[r]
           k == me.release
           free == releases[k].assets[me.asset] = None
           post == [content |-> me.files[me.asset], by |-> r]
           next == Advance(me, "remove", "list")
<1>1. /\ RunOK(me)
      /\ me.pc \in {"remove", "upload"}
      /\ Active(me)
      /\ PublishOK(me, merged, releases)
      /\ Check(r, free, next) /\ UNCHANGED lanes /\ UNCHANGED <<tags, merged>>
      /\ releases' = [releases EXCEPT ![k].assets[me.asset] = post] \/ releases' = releases
  BY RunFacts DEF UploadReleaseAsset, At, Active, Ends, ReleasedInv
<1>2. me.asset \in Assets /\ releases \in Seq(Releases) /\ me \in RunStates
  BY <1>1, ActiveFacts DEF LanesInv, TypeOK, RunOK
<1>3. /\ k \in DOMAIN releases /\ releases[k].version = me.version
      /\ \A a \in Assets :
           me.files[a] # None => ReleaseTree(me.files[a].tree, me.version, merged, releases)
  <2>1. me.kind = "release" /\ me.phase = "publish"
    BY <1>1 DEF RunOK, InJob, Preparing, Promoting, Reading, Copying, CopyLoop, SealLoop
  <2>2. QED
    BY <1>1, <2>1 DEF PublishOK
<1>4. ReleaseTree(post.content.tree, releases[k].version, merged, releases)
  <2>1. me.files[me.asset] \in Contents
    BY <1>1, <1>2 DEF RunOK, HoldsWhatItNeeds
  <2>2. me.files[me.asset] # None
    BY <2>1, LanesAssumption
  <2>3. QED
    BY <1>2, <1>3, <2>2
<1>5. Onward(me, next)
  <2>1. "remove" \in Points /\ "list" \in Points
    BY DEF Points
  <2>2. QED
    BY <1>1, <1>2, <2>1, AdvanceOnward DEF Copying, CopyLoop
<1>6. /\ DOMAIN releases' = DOMAIN releases
      /\ \A j \in DOMAIN releases :
           /\ releases'[j].version = releases[j].version
           /\ releases'[j].source = releases[j].source
           /\ \A a \in Assets :
                \/ releases'[j].assets[a] = releases[j].assets[a]
                \/ ReleaseTree(releases'[j].assets[a].content.tree, releases[j].version,
                               merged, releases)
  <2> HIDE DEF me, k, post
  <2>1. CASE releases' = [releases EXCEPT ![k].assets[me.asset] = post]
    <3>1. \A j \in DOMAIN releases : releases[j] \in Releases
      BY <1>2, ReleaseFacts
    <3>2. /\ DOMAIN releases' = DOMAIN releases
          /\ \A j \in DOMAIN releases : j # k => releases'[j] = releases[j]
          /\ releases'[k].version = releases[k].version
          /\ releases'[k].source = releases[k].source
          /\ releases'[k].assets = [releases[k].assets EXCEPT ![me.asset] = post]
      BY <1>2, <1>3, <2>1, <3>1 DEF Releases
    <3>3. releases[k].assets \in [Assets -> Posted \union {None}]
      BY <1>3, <3>1 DEF Releases
    <3>4. \A a \in Assets :
            releases'[k].assets[a] = releases[k].assets[a] \/ releases'[k].assets[a] = post
      BY <1>2, <3>2, <3>3
    <3>5. QED
      BY <1>4, <3>2, <3>4
  <2>2. QED
    BY <1>1, <2>1
<1>7. ReleasesStay
  BY <1>6 DEF ReleasesStay
<1>8. Goto(r, next) \/ Goto(r, Ended(me, "failed"))
  BY <1>1 DEF Check
<1> HIDE DEF next
<1>9. QED
  BY <1>1, <1>5, <1>6, <1>7, <1>8, EndedOnward, PostedReleased DEF Ends

LEMMA PublishReleased ==
  ASSUME LanesInv, ReleasedInv, NEW r \in Runs, Publish(r)
  PROVE  ReleasedInv'
<1> DEFINE me == run[r]
           k == me.release
           main == MainLane(me.source)
           empty == [a \in Assets |-> None]
           next == [me EXCEPT !.pc = "copy-get", !.to = main, !.files = empty]
<1>1. /\ RunOK(me) /\ me.pc = "publish" /\ Active(me) /\ PublishOK(me, merged, releases)
      /\ Goto(r, next) /\ UNCHANGED lanes /\ UNCHANGED <<tags, merged>>
      /\ releases' = [releases EXCEPT ![k].draft = FALSE]
  BY RunFacts DEF Publish, At, Active, Ends, ReleasedInv
<1>2. releases \in Seq(Releases)
  BY DEF LanesInv, TypeOK
<1>3. k \in DOMAIN releases
  BY <1>1 DEF RunOK, InJob, PublishOK, Preparing, Promoting, Reading, Copying, CopyLoop,
     SealLoop
<1>4. \A a \in Assets : empty[a] = None
  OBVIOUS
<1>5. Onward(me, next)
  <2> HIDE DEF me, main, empty
  <2>1. QED
    BY <1>1, <1>4 DEF RunOK, RunStates, InJob, Onward, Active, Ends, Preparing, Promoting,
       Publishing, Reading, Copying, CopyLoop, SealLoop
<1>6. /\ DOMAIN releases' = DOMAIN releases
      /\ \A j \in DOMAIN releases :
           /\ releases'[j].version = releases[j].version
           /\ releases'[j].source = releases[j].source
           /\ releases'[j].assets = releases[j].assets
  <2>1. \A j \in DOMAIN releases : releases[j] \in Releases
    BY <1>2, ReleaseFacts
  <2> HIDE DEF me, k
  <2>2. QED
    BY <1>1, <1>2, <1>3, <2>1 DEF Releases
<1>7. ReleasesStay
  BY <1>6 DEF ReleasesStay
<1> HIDE DEF next
<1>8. QED
  BY <1>1, <1>5, <1>6, <1>7, PostedReleased

LEMMA CreateDraftReleased ==
  ASSUME LanesInv, ReleasedInv, NEW r \in Runs, CreateDraft(r)
  PROVE  ReleasedInv'
<1> DEFINE me == run[r]
           n == Len(releases)
           draft == Draft(me)
           next == [me EXCEPT !.pc = "read"]
<1>1. /\ RunOK(me) /\ me.pc = "create" /\ Active(me) /\ MergeOK(me, Len(tags), merged, releases)
      /\ Goto(r, next) /\ store' = store /\ tags' = tags /\ merged' = merged
      /\ releases' = Append(releases, draft)
  BY RunFacts DEF CreateDraft, At, Active, Ends, ReleasedInv, lanes
<1>2. /\ me \in RunStates
      /\ Merging(me)
      /\ me.source \in PullRequests
      /\ me.version \in Versions
  BY <1>1, ActiveFacts
  DEF RunOK, InJob, Merging, Preparing, Publishing, Reading, Copying, CopyLoop, SealLoop
<1>3. /\ draft.version = me.version /\ draft.source = me.source /\ draft \in Releases
      /\ \A a \in Assets : draft.assets[a] = None
  BY <1>2 DEF Draft, Releases
<1>4. Alone => \A q \in Runs : q # r => ~Active(run[q])
  BY <1>1, OthersRest
<1> HIDE DEF me, draft
<1>5. /\ releases \in Seq(Releases) /\ n \in Nat /\ DOMAIN releases = 1 .. n
      /\ DOMAIN releases' = 1 .. n + 1 /\ releases'[n + 1] = draft
      /\ \A k \in 1 .. n : releases'[k] = releases[k]
  BY <1>1, <1>3, AppendProperties DEF LanesInv, TypeOK
<1>6. /\ \A k \in DOMAIN releases : k \in DOMAIN releases' /\ releases'[k] = releases[k]
      /\ \A k \in DOMAIN releases' : k \in DOMAIN releases \/ releases'[k] = draft
      /\ \A k \in DOMAIN releases' : k \notin DOMAIN releases => k = n + 1
      /\ n + 1 \in DOMAIN releases'
  <2>1. \A k \in 1 .. n + 1 : k \in 1 .. n \/ k = n + 1
    BY <1>5
  <2>2. \A k \in 1 .. n : k \in 1 .. n + 1
    BY <1>5
  <2>3. n + 1 \in 1 .. n + 1
    BY <1>5
  <2>4. QED
    BY <1>5, <2>1, <2>2, <2>3
<1>7. ReleasesStay /\ MergesStay
  BY <1>1, <1>6 DEF ReleasesStay, MergesStay
<1>8. /\ merged[me.source] # "open"
      /\ Alone => /\ me.version = Len(tags) + 1
                  /\ \A k \in DOMAIN releases : releases[k].version # me.version
  BY <1>1, <1>2 DEF MergeOK
<1>9. HasRelease(releases', me.version, me.source)
  BY <1>3, <1>5, <1>6 DEF HasRelease
<1>10. /\ next.kind = "merge"
       /\ next.pc = "read"
       /\ next.source = me.source
       /\ next.version = me.version
  BY <1>2 DEF RunStates, Merging
<1> HIDE DEF next
<1>11. MergeOK(next, Len(tags'), merged', releases') /\ PublishOK(next, merged', releases')
  <2>1. "read" \notin Copying
    BY DEF Copying, CopyLoop
  <2>2. QED
    BY <1>1, <1>8, <1>9, <1>10, <2>1 DEF MergeOK, PublishOK
<1>12. /\ Alone => OneActive'
       /\ \A q \in Runs : /\ MergeOK(run'[q], Len(tags'), merged', releases')
                          /\ PublishOK(run'[q], merged', releases')
  BY <1>1, <1>4, <1>7, <1>11, RunsReleased
<1>13. ReleasesUnique'
  <2>1. ASSUME Alone, NEW k \in DOMAIN releases', NEW l \in DOMAIN releases',
               releases'[k].version = releases'[l].version
        PROVE  k = l
    <3>1. CASE k \in DOMAIN releases /\ l \in DOMAIN releases
      BY <1>6, <2>1, <3>1 DEF ReleasedInv, ReleasesUnique
    <3>2. CASE k \in DOMAIN releases /\ l \notin DOMAIN releases
      BY <1>3, <1>6, <1>8, <2>1, <3>2
    <3>3. CASE k \notin DOMAIN releases /\ l \in DOMAIN releases
      BY <1>3, <1>6, <1>8, <2>1, <3>3
    <3>4. CASE k \notin DOMAIN releases /\ l \notin DOMAIN releases
      BY <1>6, <3>4
    <3>5. QED
      BY <3>1, <3>2, <3>3, <3>4
  <2>2. QED
    BY <2>1 DEF ReleasesUnique
<1>14. ReleasesMerged'
  BY <1>1, <1>3, <1>6, <1>8 DEF ReleasedInv, ReleasesMerged
<1>15. TagsReleased'
  BY <1>1, <1>7, HasReleaseStays DEF ReleasedInv, TagsReleased
<1>16. TreesInv'
  BY <1>1, <1>7, TreesStay
<1>17. AssetTrees'
  <2> SUFFICES ASSUME NEW k \in DOMAIN releases', NEW a \in Assets, releases'[k].assets[a] # None
               PROVE  ReleaseTree(releases'[k].assets[a].content.tree, releases'[k].version,
                                  merged', releases')
    BY DEF AssetTrees
  <2>1. k \in DOMAIN releases /\ releases'[k] = releases[k]
    BY <1>3, <1>6
  <2>2. QED
    BY <1>7, <2>1, ReleaseTreeStays DEF ReleasedInv, AssetTrees
<1>18. QED
  BY <1>12, <1>13, <1>14, <1>15, <1>16, <1>17 DEF ReleasedInv

LEMMA PushTagReleased ==
  ASSUME LanesInv, ReleasedInv, NEW r \in Runs, PushTag(r)
  PROVE  ReleasedInv'
<1> DEFINE me == run[r]
           new == me.version = NextVersion
           next == IF new THEN Ended(me, "done") ELSE Ended(me, "failed")
<1>1. /\ RunOK(me) /\ me.pc = "push" /\ Active(me) /\ MergeOK(me, Len(tags), merged, releases)
      /\ Goto(r, next) /\ store' = store /\ merged' = merged /\ releases' = releases
      /\ tags' = IF new THEN Append(tags, me.source) ELSE tags
  BY RunFacts DEF PushTag, At, Active, Ends, ReleasedInv, lanes, Check
<1>2. Merging(me) /\ me.source \in PullRequests
  BY <1>1, ActiveFacts
  DEF RunOK, InJob, Merging, Preparing, Publishing, Reading, Copying, CopyLoop, SealLoop
<1>3. HasRelease(releases, me.version, me.source)
  BY <1>1, <1>2 DEF MergeOK
<1>4. Alone => \A q \in Runs : q # r => ~Active(run[q])
  BY <1>1, OthersRest
<1>5. ReleasesStay /\ MergesStay
  BY <1>1 DEF ReleasesStay, MergesStay
<1>6. ~Active(next)
  BY DEF Ended, Idle, Active, Ends
<1> HIDE DEF me, next
<1>7. MergeOK(next, Len(tags'), merged', releases') /\ PublishOK(next, merged', releases')
  BY <1>6 DEF MergeOK, PublishOK, Merging
<1>8. /\ Alone => OneActive'
      /\ \A q \in Runs : /\ MergeOK(run'[q], Len(tags'), merged', releases')
                         /\ PublishOK(run'[q], merged', releases')
  BY <1>1, <1>4, <1>5, <1>7, RunsReleased
<1>9. TagsReleased'
  <2>1. CASE new
    <3>1. /\ tags \in Seq(PullRequests)
          /\ tags' = Append(tags, me.source)
          /\ me.version = Len(tags) + 1
      BY <1>1, <2>1 DEF LanesInv, TypeOK, NextVersion
    <3>2. /\ \A v \in DOMAIN tags' : v \in DOMAIN tags \/ v = Len(tags) + 1
          /\ \A v \in DOMAIN tags : tags'[v] = tags[v]
          /\ tags'[Len(tags) + 1] = me.source
      BY <1>2, <3>1, AppendProperties
    <3>3. ASSUME NEW v \in DOMAIN tags'
          PROVE  HasRelease(releases, v, tags'[v])
      <4>1. CASE v \in DOMAIN tags
        BY <3>2, <4>1 DEF ReleasedInv, TagsReleased
      <4>2. CASE v = Len(tags) + 1
        BY <1>3, <3>1, <3>2, <4>2
      <4>3. QED
        BY <3>2, <4>1, <4>2
    <3>4. QED
      BY <1>1, <3>3 DEF TagsReleased
  <2>2. CASE ~new
    BY <1>1, <2>2 DEF ReleasedInv, TagsReleased
  <2>3. QED
    BY <2>1, <2>2
<1>10. TreesInv'
  BY <1>1, <1>5, TreesStay
<1>11. ReleasesUnique' /\ ReleasesMerged' /\ AssetTrees'
  BY <1>1 DEF ReleasedInv, ReleasesUnique, ReleasesMerged, AssetTrees
<1>12. QED
  BY <1>8, <1>9, <1>10, <1>11 DEF ReleasedInv

-----------------------------------------------------------------------------
\* A merge touches no release: those are of pull requests that are merged already.
LEMMA MergePullRequestReleased ==
  ASSUME LanesInv, ReleasedInv, NEW i \in PullRequests, MergePullRequest(i)
  PROVE  ReleasedInv'
<1>1. /\ store' = store /\ run' = run /\ tags' = tags /\ releases' = releases
      /\ merged[i] = "open" /\ \E how : merged' = [merged EXCEPT ![i] = how]
  BY DEF MergePullRequest, lanes
<1>2. ReleasesStay /\ MergesStay
  BY <1>1 DEF ReleasesStay, MergesStay, LanesInv, TypeOK
<1>3. \A q \in Runs : /\ MergeOK(run'[q], Len(tags'), merged', releases')
                      /\ PublishOK(run'[q], merged', releases')
  BY <1>1, <1>2, RunFacts, MergeStays, PublishStays DEF ReleasedInv
<1>4. \A k \in DOMAIN releases : merged'[releases[k].source] = merged[releases[k].source]
  <2>1. \A k \in DOMAIN releases : releases[k].source \in PullRequests
    BY ReleaseFacts DEF LanesInv, TypeOK, Releases
  <2>2. QED
    BY <1>2, <2>1 DEF MergesStay, ReleasedInv, ReleasesMerged
<1>5. ReleasesUnique' /\ ReleasesMerged' /\ TagsReleased'
  BY <1>1, <1>4 DEF ReleasedInv, ReleasesUnique, ReleasesMerged, TagsReleased
<1>6. AssetTrees'
  BY <1>1, <1>2, ReleaseTreeStays DEF ReleasedInv, AssetTrees
<1>7. TreesInv'
  BY <1>1, <1>2, TreesStay
<1>8. Alone => OneActive'
  BY <1>1 DEF ReleasedInv, OneActive
<1>9. QED
  BY <1>3, <1>5, <1>6, <1>7, <1>8 DEF ReleasedInv

LEMMA ExpireReleased ==
  ASSUME LanesInv, ReleasedInv, NEW i \in PullRequests, Expire(i)
  PROVE  ReleasedInv'
<1>1. PICK key :
        /\ run' = run /\ tags' = tags /\ merged' = merged /\ releases' = releases
        /\ store' = store \/ store' = [store EXCEPT ![key] = None]
  BY DEF Expire, Put, github
<1>2. TreesInv'
  <2>1. store \in [Lanes \X Slots \X Assets -> Contents \union {None}]
    BY DEF LanesInv, TypeOK
  <2>2. ASSUME NEW l \in Lanes, NEW s \in {"asset", "staging"}, NEW a \in Assets,
               store'[<<l, s, a>>] # None
        PROVE  store'[<<l, s, a>>] = store[<<l, s, a>>]
    <3>1. <<l, s, a>> \in Lanes \X Slots \X Assets
      BY DEF Slots
    <3>2. QED
      BY <1>1, <2>1, <2>2, <3>1
  <2>3. QED
    BY <1>1, <2>2 DEF ReleasedInv, TreesInv
<1>3. QED
  BY <1>1, <1>2
  DEF ReleasedInv, ReleasesUnique, ReleasesMerged, TagsReleased, AssetTrees, OneActive

LEMMA ReleasedInit == Init => ReleasedInv
<1> SUFFICES ASSUME Init
             PROVE  ReleasedInv
  OBVIOUS
<1>1. /\ releases = <<>> /\ tags = <<>> /\ run = [r \in Runs |-> Idle]
      /\ store = [k \in Lanes \X Slots \X Assets |-> None]
  BY DEF Init
<1>2. \A r \in Runs : ~Active(run[r])
  BY <1>1 DEF Active, Ends, Idle
<1>3. ReleasesUnique /\ ReleasesMerged /\ TagsReleased /\ AssetTrees
  BY <1>1 DEF ReleasesUnique, ReleasesMerged, TagsReleased, AssetTrees
<1>4. TreesInv
  BY <1>1 DEF TreesInv, Slots
<1>5. QED
  BY <1>2, <1>3, <1>4 DEF ReleasedInv, MergeOK, PublishOK, Merging, OneActive

LEMMA WorkReleased ==
  ASSUME LanesInv, ReleasedInv, NEW r \in Runs, Work(r)
  PROVE  ReleasedInv'
BY ReadManifestReleased, VerifyAssetReleased, DecideUploadsReleased, UploadAssetReleased,
   UploadDigestReleased, BuildsDoneReleased, SealGetReleased, SealDigestReleased,
   SealCopyReleased, SealCheckReleased, SealRecordReleased, SealCleanReleased,
   SealCleanDigestReleased, SealManifestReleased, FindDraftReleased, CreateDraftReleased,
   SkipPromotionReleased, DecidePromotionReleased, CopyGetReleased, CopyPutReleased,
   CopyCheckReleased, CopyRecordReleased, CopyManifestReleased, PushTagReleased,
   AuthorizeReleased, DecidePublishReleased, DownloadReleased, VersionCheckReleased,
   RemoveAssetReleased, UploadReleaseAssetReleased, ListAssetsReleased, PublishReleased,
   VersionManifestReleased, PutLatestReleased, Zenon
DEF Work

LEMMA ReleasedStep == LanesInv /\ ReleasedInv /\ [Next]_vars => ReleasedInv'
<1> SUFFICES ASSUME LanesInv, ReleasedInv, [Next]_vars
             PROVE  ReleasedInv'
  OBVIOUS
<1>1. ASSUME NEW r \in Runs, Work(r)
      PROVE  ReleasedInv'
  BY <1>1, WorkReleased
<1>2. CASE UNCHANGED vars
  <2>1. /\ store' = store
        /\ run' = run
        /\ tags' = tags
        /\ releases' = releases
        /\ merged' = merged
    BY <1>2 DEF vars, lanes, github
  <2>2. QED
    BY <2>1 DEF ReleasedInv, ReleasesUnique, ReleasesMerged, TagsReleased, TreesInv, AssetTrees,
       OneActive
<1>3. QED
  BY <1>1, <1>2, MergePullRequestReleased, ExpireReleased, PreparePullRequestReleased,
     PrepareReleaseReleased, PlanReleaseReleased, LaneUnreadReleased, AbortReleased, Zenon
  DEF Next

\* A release has only assets that were built from the tree its tag names,
\* unless merges of two pull requests have drafted its version: promotion takes
\* a lane only for a tree the merge has kept (_promote_merged_pr_assets), and
\* what a workflow builds is of the tree of its own release.  It holds for any
\* number of workflows at a time, wherever they stop.
THEOREM ReleasesComeFromTheirTree == Spec => []ReleasedFromItsTree
<1>1. Init => LanesInv /\ ReleasedInv
  BY LanesInit, ReleasedInit
<1>2. (LanesInv /\ ReleasedInv) /\ [Next]_vars => (LanesInv /\ ReleasedInv)'
  BY LanesStep, ReleasedStep
<1>3. LanesInv /\ ReleasedInv => ReleasedFromItsTree
  <2> SUFFICES ASSUME LanesInv, ReleasedInv, NEW k \in DOMAIN releases,
                      ~Contested(releases[k].version), NEW a \in Assets,
                      releases[k].assets[a] # None
               PROVE  releases[k].assets[a].content.tree = TreeOf(MergeOf(releases[k].source))
    BY DEF ReleasedFromItsTree, FromItsTree
  <2>1. PICK i \in PullRequests :
          /\ HasRelease(releases, releases[k].version, i)
          /\ releases[k].assets[a].content.tree = MergedTree(merged, i)
    BY DEF ReleasedInv, AssetTrees, ReleaseTree
  <2>2. i = releases[k].source
    BY <2>1 DEF HasRelease, Contested
  <2>3. QED
    BY <2>1, <2>2, TreeNames
<1>4. QED
  BY <1>1, <1>2, <1>3, PTL DEF Spec

-----------------------------------------------------------------------------
(***************************************************************************)
(* Workflows that run one after the other.                                 *)
(***************************************************************************)
\* The tree of the commit that a run is about, and what it builds.
CommitTree(me, merges) ==
  IF me.kind = "pr" THEN HeadOf(me.source) ELSE MergedTree(merges, me.source)
OwnBuild(r, me, merges) ==
  [tree |-> CommitTree(me, merges), version |-> me.version, build |-> r]

\* The assets of a lane, or their digests, are those of a manifest.
Holds(objects, l, slot, set, m) == \A b \in set : objects[<<l, slot, b>>] = m.assets[b]

\* Whose release and tag a run is about: none yet, none yet, this one.
SourceOK(me, names, all) ==
  Active(me) =>
    /\ me.kind = "pr" => \A k \in DOMAIN all : all[k].source # me.source
    /\ me.kind = "merge" => \A v \in DOMAIN names : names[v] # me.source
    /\ me.kind = "release" => me.version \in DOMAIN names /\ names[me.version] = me.source

\* The manifest that a run has read is there, and is that of its lane's assets; what is
\* published was sealed, or found sealed, just before.
HasRead(me) ==
  me.pc \in {"verify", "decide"} \union Copying
    \/ (me.phase = "publish" /\ Active(me) /\ me.pc # "read")
SeenOK(me, objects, manifests) ==
  /\ (me.pc = "authorize" \/ (me.phase = "publish" /\ Active(me))) =>
       /\ manifests[me.lane] # None
       /\ Holds(objects, me.lane, "asset", Assets, manifests[me.lane])
  /\ HasRead(me) => me.found = manifests[me.lane]
  /\ me.pc = "verify" => Holds(objects, me.lane, "asset", Earlier(me.asset), me.found)
  /\ me.pc \in {"decide"} \union Copying =>
       Holds(objects, me.lane, "asset", Assets, me.found)

\* What a lane's manifest is about was built by other runs, until a run seals it.
FreshOK(r, me, manifests) ==
  (me.phase = "prepare" /\ me.pc # "authorize" /\ Active(me) /\ manifests[me.lane] # None) =>
    \A a \in Assets : manifests[me.lane].assets[a].build # r

\* Builds are counted while they run.
CountOK(me) ==
  (Active(me) /\ me.pc # "build") => \A a \in Assets : me.built[a] = 0

\* A run builds all assets, or none of a lane that is sealed for its tree and version.
Building == {"build", "seal-manifest"} \union SealLoop
BuildOK(me, objects, manifests, merges) ==
  /\ me.pc \in Building => me.uploads \in {{}, Assets}
  /\ (me.pc \in Building /\ me.uploads = {}) =>
       /\ manifests[me.lane] # None /\ manifests[me.lane].version = me.version
       /\ manifests[me.lane].tree = CommitTree(me, merges)
       /\ Holds(objects, me.lane, "asset", Assets, manifests[me.lane])

\* What is staged, by the builds and until it is sealed.
StagedOK(r, me, objects, merges) ==
  \A a \in me.uploads :
    LET waits == \/ me.pc \in SealLoop /\ a > me.asset
                 \/ me.pc \in {"seal-get", "seal-digest", "seal-copy"} /\ a = me.asset
    IN /\ waits \/ (me.pc = "build" /\ me.built[a] # 0) =>
            objects[<<me.lane, "staging", a>>] = OwnBuild(r, me, merges)
       /\ waits \/ (me.pc = "build" /\ me.built[a] = 2) =>
            objects[<<me.lane, "staging-sha256", a>>] = OwnBuild(r, me, merges)

\* What the seal job holds, and what it has sealed.
Collected(me) == IF me.pc = "seal-manifest" THEN Assets ELSE Earlier(me.asset)
SealOK(r, me, objects, merges) ==
  /\ me.pc \in SealLoop \ {"seal-get"} =>
       me.held = IF me.uploads = {} THEN objects[<<me.lane, "asset", me.asset>>]
                 ELSE OwnBuild(r, me, merges)
  /\ me.pc \in SealLoop \ {"seal-get", "seal-digest"} => me.uploads # {}
  /\ me.pc \in SealLoop \ {"seal-get", "seal-digest", "seal-copy"} =>
       objects[<<me.lane, "asset", me.asset>>] = me.held
  /\ me.pc \in {"seal-clean", "seal-clean-digest"} =>
       objects[<<me.lane, "sha256", me.asset>>] = me.held
  /\ me.pc \in SealLoop \union {"seal-manifest"} =>
       \A b \in Collected(me) :
         /\ objects[<<me.lane, "asset", b>>] = me.files[b]
         /\ objects[<<me.lane, "sha256", b>>] = me.files[b]
         /\ me.files[b].tree = CommitTree(me, merges)
         /\ me.files[b].version = me.version

\* What a run copies, and what it has copied.
Copied(me) == IF me.pc = "copy-manifest" THEN Assets ELSE Earlier(me.asset)
CopyOK(me, objects) ==
  me.pc \in Copying =>
    /\ me.kind = "merge" => me.found.version = me.version /\ me.found.tree = HeadOf(me.source)
    /\ me.pc \in CopyLoop \ {"copy-get"} => me.held = me.found.assets[me.asset]
    /\ me.pc \in {"copy-check", "copy-record"} =>
         objects[<<me.to, "asset", me.asset>>] = me.held
    /\ Holds(objects, me.to, "asset", Copied(me), me.found)
    /\ Holds(objects, me.to, "sha256", Copied(me), me.found)

\* What a run has downloaded, and what it has made of the release's assets.
PostOK(me, all) ==
  (me.phase = "publish" /\ Active(me)) =>
    /\ me.pc = "download" => \A b \in Earlier(me.asset) : me.files[b] = me.found.assets[b]
    /\ me.pc = "version-check" => \A b \in Assets : me.files[b] = me.found.assets[b]
    /\ me.pc \in Reading \union {"download", "version-check"} =>
         \A b \in Assets : all[me.release].assets[b] = me.listed[b]
    /\ me.pc \in {"remove", "upload"} =>
         \A b \in Assets :
           /\ b < me.asset => all[me.release].assets[b] # None
           /\ b > me.asset => all[me.release].assets[b] = me.listed[b]
    /\ me.pc = "remove" => all[me.release].assets[me.asset] = me.listed[me.asset]
    /\ me.pc = "upload" => all[me.release].assets[me.asset] = None
    /\ me.pc \in {"list", "publish"} =>
         \A b \in Assets : all[me.release].assets[b] # None

JobOK(r, me, objects, manifests, merges, all) ==
  /\ SeenOK(me, objects, manifests)
  /\ BuildOK(me, objects, manifests, merges)
  /\ StagedOK(r, me, objects, merges)
  /\ SealOK(r, me, objects, merges)
  /\ CopyOK(me, objects)
  /\ PostOK(me, all)

RunSerial(r, me, objects, manifests, names, merges, all) ==
  /\ SourceOK(me, names, all)
  /\ FreshOK(r, me, manifests) /\ CountOK(me)
  /\ JobOK(r, me, objects, manifests, merges, all)

\* A pull request has one version, which its tag names once it is pushed.
OneVersion ==
  /\ \A j, k \in DOMAIN releases :
       releases[j].source = releases[k].source => releases[j].version = releases[k].version
  /\ \A k \in DOMAIN releases :
       \/ releases[k].version \in DOMAIN tags
       \/ releases[k].version = Len(tags) + 1
          /\ \A v \in DOMAIN tags : tags[v] # releases[k].source

\* A manifest of a version lane is about the merge commit of the version's release.  Until
\* the version is tagged it was promoted, and the lane has its assets.
AboutRelease(m, v, merges, all) ==
  \E i \in PullRequests : /\ HasRelease(all, v, i)
                          /\ m.source = MergeOf(i) /\ m.tree = MergedTree(merges, i)
Promoted(m, v, objects, manifests) ==
  /\ Holds(objects, VersionLane(v), "asset", Assets, m)
  /\ \A i \in PullRequests :
       m.source = MergeOf(i) /\ manifests[PrLane(i)] # None =>
         manifests[PrLane(i)].assets = m.assets
VersionLanesOK ==
  \A v \in Versions : manifest[VersionLane(v)] # None =>
    LET m == manifest[VersionLane(v)] IN
      /\ m.version = v /\ AboutRelease(m, v, merged, releases)
      /\ v \notin DOMAIN tags => Promoted(m, v, store, manifest)

\* The digest of an asset that a manifest is about is beside it, in the lanes that are
\* sealed or copied from.
DigestsOK ==
  \A l \in Lanes, a \in Assets :
    l[1] # "main" /\ manifest[l] # None /\ store[<<l, "asset", a>>] = manifest[l].assets[a] =>
      store[<<l, "sha256", a>>] = manifest[l].assets[a]

\* A run that was not started has built nothing.
Unbuilt(r) ==
  /\ \A k \in Lanes \X Slots \X Assets : store[k] # None => store[k].build # r
  /\ \A l \in Lanes : manifest[l] # None => \A a \in Assets : manifest[l].assets[a].build # r
NothingAhead == \A r \in Runs : At(r, "idle") => Unbuilt(r)

SerialInv ==
  /\ Alone /\ OneActive
  /\ \A r \in Runs : RunSerial(r, run[r], store, manifest, tags, merged, releases)
  /\ OneVersion /\ VersionLanesOK /\ DigestsOK /\ NothingAhead
  /\ ManifestIsTrue
  /\ RerunHeals
-----------------------------------------------------------------------------
(* One run goes on, while no other is active.                                *)

LEMMA SerialFacts ==
  ASSUME SerialInv, NEW r \in Runs
  PROVE  /\ RunSerial(r, run[r], store, manifest, tags, merged, releases)
         /\ Active(run[r]) => \A q \in Runs : q # r => ~Active(run[q])
BY DEF SerialInv, OneActive

LEMMA JobFacts ==
  ASSUME SerialInv, NEW r \in Runs
  PROVE  /\ SourceOK(run[r], tags, releases) /\ FreshOK(r, run[r], manifest)
         /\ CountOK(run[r])
         /\ SeenOK(run[r], store, manifest) /\ BuildOK(run[r], store, manifest, merged)
         /\ StagedOK(r, run[r], store, merged) /\ SealOK(r, run[r], store, merged)
         /\ CopyOK(run[r], store) /\ PostOK(run[r], releases)
BY SerialFacts DEF RunSerial, JobOK

\* Nothing is asked of a run that is not active.
LEMMA InactiveSerial ==
  ASSUME NEW r, NEW me, ~Active(me), NEW objects, NEW manifests, NEW names, NEW merges, NEW all
  PROVE  RunSerial(r, me, objects, manifests, names, merges, all)
<1>1. me.pc \in Ends \union {"idle"}
  BY DEF Active
<1>2. /\ SourceOK(me, names, all) /\ FreshOK(r, me, manifests)
      /\ CountOK(me) /\ PostOK(me, all)
  BY DEF SourceOK, FreshOK, CountOK, PostOK
<1>3. SeenOK(me, objects, manifests) /\ CopyOK(me, objects)
  BY <1>1 DEF SeenOK, HasRead, CopyOK, Copying, CopyLoop, Ends
<1>4. /\ BuildOK(me, objects, manifests, merges) /\ StagedOK(r, me, objects, merges)
      /\ SealOK(r, me, objects, merges)
  BY <1>1 DEF BuildOK, StagedOK, SealOK, Building, SealLoop, Ends
<1>5. QED
  BY <1>2, <1>3, <1>4 DEF RunSerial, JobOK

\* What is about the runs, when one of them goes on and the others are not active.
RunsSerial ==
  /\ Alone /\ OneActive
  /\ \A r \in Runs : RunSerial(r, run[r], store, manifest, tags, merged, releases)
  /\ RerunHeals

LEMMA OneGoes ==
  ASSUME LanesInv, SerialInv, NEW r \in Runs, NEW next, Goto(r, next),
         \A q \in Runs : q # r => ~Active(run[q]),
         next.pc = "failed" => next.kind \notin {"pr", "release"},
         RunSerial(r, next, store', manifest', tags', merged', releases')
  PROVE  RunsSerial'
<1>1. run' = [run EXCEPT ![r] = next] /\ run \in [Runs -> RunStates]
  BY DEF Goto, LanesInv, TypeOK
<1>2. run'[r] = next /\ \A q \in Runs : q # r => run'[q] = run[q]
  BY <1>1
<1>3. Alone' /\ OneActive'
  BY <1>2 DEF OneActive, SerialInv, Alone
<1>4. ASSUME NEW q \in Runs
      PROVE  RunSerial(q, run'[q], store', manifest', tags', merged', releases')
  <2>1. CASE q = r
    BY <1>2, <2>1
  <2>2. CASE q # r
    <3>1. ~Active(run'[q])
      BY <1>2, <2>2
    <3>2. QED
      BY <3>1, InactiveSerial
  <2>3. QED
    BY <2>1, <2>2
<1>5. RerunHeals'
  BY <1>2 DEF RerunHeals, SerialInv, At
<1>6. QED
  BY <1>3, <1>4, <1>5 DEF RunsSerial

\* A run that was started stays so.
LEMMA NoNewIdle ==
  ASSUME LanesInv, NEW r \in Runs, NEW next, Goto(r, next), next.pc # "idle"
  PROVE  \A q \in Runs : At(q, "idle")' => At(q, "idle") /\ q # r
<1>1. run' = [run EXCEPT ![r] = next] /\ run \in [Runs -> RunStates]
  BY DEF Goto, LanesInv, TypeOK
<1>2. QED
  BY <1>1 DEF At

\* A step that writes nothing.
LEMMA QuietSerial ==
  ASSUME LanesInv, SerialInv, NEW r \in Runs, NEW next, Step(r, next), next.pc # "idle",
         \A q \in Runs : q # r => ~Active(run[q]),
         next.pc = "failed" => next.kind \notin {"pr", "release"},
         RunSerial(r, next, store, manifest, tags, merged, releases)
  PROVE  SerialInv'
<1>1. /\ Goto(r, next) /\ store' = store /\ manifest' = manifest
      /\ tags' = tags /\ merged' = merged /\ releases' = releases
  BY DEF Step, lanes, github
<1>2. RunsSerial'
  BY <1>1, OneGoes
<1>3. NothingAhead'
  BY <1>1, NoNewIdle DEF SerialInv, NothingAhead, Unbuilt
<1>4. OneVersion' /\ VersionLanesOK' /\ DigestsOK' /\ ManifestIsTrue'
  BY <1>1 DEF SerialInv, OneVersion, VersionLanesOK, DigestsOK, ManifestIsTrue
<1>5. QED
  BY <1>2, <1>3, <1>4 DEF SerialInv, RunsSerial

\* A run goes on with what it is about.
SameRun(me, next) ==
  /\ next.kind = me.kind /\ next.source = me.source /\ next.version = me.version
  /\ next.lane = me.lane
  /\ next.phase = "prepare" => me.phase = "prepare" /\ me.pc # "authorize"
  /\ \/ next.pc = "build"
     \/ next.built = me.built /\ me.pc # "build"
     \/ \A a \in Assets : next.built[a] = 0

LEMMA SameRunSerial ==
  ASSUME NEW r, NEW me, NEW next, Active(me), SameRun(me, next), NEW names, NEW all,
         NEW manifests, SourceOK(me, names, all), FreshOK(r, me, manifests), CountOK(me)
  PROVE  SourceOK(next, names, all) /\ FreshOK(r, next, manifests) /\ CountOK(next)
BY DEF SameRun, SourceOK, FreshOK, CountOK

\* A step of a job that writes nothing, and a check that holds where it must not fail.
LEMMA JobStepSerial ==
  ASSUME LanesInv, SerialInv, NEW r \in Runs, NEW next, Step(r, next), Active(run[r]),
         Active(next), SameRun(run[r], next), JobOK(r, next, store, manifest, merged, releases)
  PROVE  SerialInv'
<1>1. RunSerial(r, next, store, manifest, tags, merged, releases)
  BY JobFacts, SameRunSerial DEF RunSerial
<1>2. next.pc \notin {"idle", "failed"}
  BY DEF Active, Ends
<1>3. QED
  BY <1>1, <1>2, SerialFacts, QuietSerial

LEMMA EndSerial ==
  ASSUME LanesInv, SerialInv, NEW r \in Runs, NEW how \in Ends,
         Active(run[r]), Step(r, Ended(run[r], how)),
         how = "failed" => run[r].kind \notin {"pr", "release"}
  PROVE  SerialInv'
<1> DEFINE next == Ended(run[r], how)
<1>1. next.pc = how /\ next.kind = run[r].kind /\ ~Active(next) /\ next.pc # "idle"
  BY DEF Ended, Idle, Active, Ends
<1>2. RunSerial(r, next, store, manifest, tags, merged, releases)
  BY <1>1, InactiveSerial
<1> HIDE DEF next
<1>3. Step(r, next)
  BY DEF next
<1>4. QED
  BY <1>1, <1>2, <1>3, SerialFacts, QuietSerial

LEMMA JobStepIfSerial ==
  ASSUME LanesInv, SerialInv, NEW r \in Runs, NEW ok, NEW next, StepIf(r, ok, next),
         Active(run[r]), ok \/ run[r].kind = "merge",
         ok => /\ Active(next) /\ SameRun(run[r], next)
               /\ JobOK(r, next, store, manifest, merged, releases)
  PROVE  SerialInv'
<1>1. Step(r, IF ok THEN next ELSE Ended(run[r], "failed"))
  BY DEF StepIf, Check, Step
<1>2. CASE ok
  BY <1>1, <1>2, JobStepSerial
<1>3. CASE ~ok
  BY <1>1, <1>3, EndSerial DEF Ends
<1>4. QED
  BY <1>2, <1>3

\* Where a job says nothing of what it read, copied and posted, and nothing of builds.
LEMMA WhileBuilding ==
  ASSUME NEW me, me.pc \in Building, me.phase = "prepare", NEW objects, NEW manifests, NEW all
  PROVE  SeenOK(me, objects, manifests) /\ CopyOK(me, objects) /\ PostOK(me, all)
BY DEF Building, SealLoop, SeenOK, HasRead, CopyOK, PostOK, Copying, CopyLoop, Reading

LEMMA WhileNotBuilding ==
  ASSUME NEW r, NEW me, me.pc \notin Building, NEW objects, NEW manifests, NEW merges
  PROVE  /\ BuildOK(me, objects, manifests, merges) /\ StagedOK(r, me, objects, merges)
         /\ SealOK(r, me, objects, merges)
BY DEF Building, SealLoop, BuildOK, StagedOK, SealOK

\* Where a loop goes, and what it leaves alone.
LEMMA AdvanceSerial ==
  ASSUME NEW me \in RunStates, NEW loop \in Points, NEW after \in Points
  PROVE  LET next == Advance(me, loop, after) IN
         /\ SameJob(me, next) /\ next.files = me.files
         /\ next.built = me.built /\ next.listed = me.listed
         /\ \/ /\ next.pc = loop /\ next.asset = me.asset + 1 /\ next.asset \in Assets
               /\ Earlier(next.asset) = Earlier(me.asset) \union {me.asset}
            \/ /\ next.pc = after /\ next.asset = 1 /\ me.asset = NumAssets
               /\ Assets = Earlier(me.asset) \union {me.asset}
<1> DEFINE next == Advance(me, loop, after)
<1>1. next.built = me.built /\ next.listed = me.listed
  BY DEF Advance, RunStates
<1>2. me.asset \in Assets
  BY DEF RunStates
<1>3. CASE me.asset < NumAssets
  <2>1. next.pc = loop /\ next.asset = me.asset + 1 /\ me.asset + 1 \in Assets
    BY <1>2, <1>3, LanesAssumption DEF Advance, RunStates, Assets
  <2>2. QED
    BY <1>1, <1>2, <1>3, <2>1, AdvanceFacts, EarlierAssets
<1>4. CASE ~(me.asset < NumAssets)
  <2>1. next.pc = after /\ next.asset = 1 /\ me.asset = NumAssets
    BY <1>2, <1>4, LanesAssumption DEF Advance, RunStates, Assets
  <2>2. QED
    BY <1>1, <1>2, <2>1, AdvanceFacts, EarlierAssets
<1>5. QED
  BY <1>3, <1>4
-----------------------------------------------------------------------------
(* Reading a lane.                                                           *)

\* The manifest of a version lane is what the release workflow of that version wants.
LEMMA VersionManifest1 ==
  ASSUME LanesInv, ReleasedInv, SerialInv, NEW r \in Runs, Active(run[r]), run[r].kind = "release",
         manifest[run[r].lane] # None
  PROVE  LET m == manifest[run[r].lane] IN
         /\ m.source = MergeOf(run[r].source) /\ m.version = run[r].version
         /\ m.tree = MergedTree(merged, run[r].source)
<1> DEFINE me == run[r]
           m == manifest[me.lane]
<1>1. me.lane = VersionLane(me.version) /\ me.version \in Versions /\ me.source \in PullRequests
  BY RunFacts DEF RunOK, InJob
<1>2. HasRelease(releases, me.version, me.source)
  BY DEF ReleasedInv, PublishOK
<1>3. m.version = me.version
  BY <1>1 DEF SerialInv, VersionLanesOK
<1>4. PICK i \in PullRequests : /\ HasRelease(releases, me.version, i)
                                /\ m.source = MergeOf(i) /\ m.tree = MergedTree(merged, i)
  BY <1>1 DEF SerialInv, VersionLanesOK, AboutRelease
<1>5. i = me.source
  BY <1>2, <1>4, OneSource DEF ReleasedInv, SerialInv
<1>6. QED
  BY <1>3, <1>4, <1>5

LEMMA CommitTrees ==
  ASSUME LanesInv, NEW r \in Runs, Active(run[r])
  PROVE  /\ TreeOf(Commit(run[r])) = CommitTree(run[r], merged)
         /\ run[r].kind = "release" =>
              CommitTree(run[r], merged) = MergedTree(merged, run[r].source)
         /\ run[r].kind = "pr" => CommitTree(run[r], merged) = HeadOf(run[r].source)
         /\ Built(r) = OwnBuild(r, run[r], merged)
<1>1. run[r].source \in PullRequests
  BY RunFacts, ActiveFacts
<1>2. QED
  BY <1>1, TreeNames DEF Commit, CommitTree, Built, OwnBuild

\* A lane that cannot be used is built, or not promoted.
LEMMA UnusableSerial ==
  ASSUME LanesInv, SerialInv, NEW r \in Runs, run[r].pc \in Reading, run[r].phase # "publish"
  PROVE  LET next == Unusable(run[r]) IN
         /\ Active(next) /\ SameRun(run[r], next)
         /\ JobOK(r, next, store, manifest, merged, releases)
<1> DEFINE me == run[r]
           next == Unusable(me)
<1>1. RunOK(me) /\ CountOK(me) /\ Active(me) /\ me.phase \in {"prepare", "promote"}
  BY RunFacts, JobFacts DEF RunOK, InJob, Active, Ends, Reading
<1>2. \A a \in Assets : me.built[a] = 0
  BY <1>1 DEF CountOK, Reading
<1>3. me \in RunStates
  BY <1>1 DEF RunOK
<1>4. CASE me.phase = "prepare"
  <2>1. /\ next.pc = "build" /\ next.phase = "prepare" /\ next.kind = me.kind
        /\ next.source = me.source /\ next.version = me.version /\ next.lane = me.lane
        /\ next.uploads = Assets /\ next.built = me.built
    BY <1>3, <1>4 DEF Unusable, RunStates
  <2> HIDE DEF next
  <2>2. Active(next) /\ SameRun(me, next)
    BY <1>4, <2>1 DEF Reading, Active, Ends, SameRun
  <2>3. SeenOK(next, store, manifest) /\ CopyOK(next, store) /\ PostOK(next, releases)
    BY <2>1, WhileBuilding DEF Building
  <2>4. StagedOK(r, next, store, merged) /\ SealOK(r, next, store, merged)
    BY <1>2, <2>1 DEF StagedOK, SealOK, SealLoop
  <2>5. BuildOK(next, store, manifest, merged)
    <3>1. next.uploads # {}
      BY <2>1, AssetFacts
    <3>2. QED
      BY <2>1, <3>1 DEF BuildOK
  <2>6. QED
    BY <2>2, <2>3, <2>4, <2>5 DEF JobOK, next
<1>5. CASE me.phase = "promote"
  <2>1. /\ next.pc = "push" /\ next.phase = "promote" /\ next.kind = me.kind
        /\ next.source = me.source /\ next.version = me.version /\ next.lane = me.lane
        /\ next.built = me.built
    BY <1>3, <1>5 DEF Unusable, RunStates
  <2> HIDE DEF next
  <2>2. Active(next) /\ SameRun(me, next)
    BY <1>2, <2>1 DEF Active, Ends, SameRun
  <2>3. /\ SeenOK(next, store, manifest) /\ CopyOK(next, store)
        /\ PostOK(next, releases)
    BY <2>1 DEF SeenOK, HasRead, CopyOK, PostOK, Copying, CopyLoop
  <2>4. /\ BuildOK(next, store, manifest, merged) /\ StagedOK(r, next, store, merged)
        /\ SealOK(r, next, store, merged)
    BY <2>1, WhileNotBuilding DEF Building, SealLoop
  <2>5. QED
    BY <2>2, <2>3, <2>4 DEF JobOK, next
<1>6. QED
  BY <1>1, <1>4, <1>5

LEMMA ReadManifestSerial ==
  ASSUME LanesInv, ReleasedInv, SerialInv, NEW r \in Runs, ReadManifest(r)
  PROVE  SerialInv'
<1> DEFINE me == run[r]
           next == [me EXCEPT !.pc = "verify", !.found = manifest[me.lane]]
<1>1. /\ RunOK(me) /\ me.pc = "read" /\ Active(me)
      /\ Step(r, IF manifest[me.lane] = None THEN Unusable(me) ELSE next)
  BY RunFacts DEF ReadManifest, At, Active, Ends
<1>2. SeenOK(me, store, manifest) /\ PostOK(me, releases)
  BY JobFacts
<1>3. CASE manifest[me.lane] = None
  <2>1. me.phase # "publish"
    BY <1>1, <1>2, <1>3 DEF SeenOK
  <2>2. QED
    BY <1>1, <1>3, <2>1, UnusableSerial, JobStepSerial DEF Reading
<1>4. CASE manifest[me.lane] # None
  <2>1. /\ next.pc = "verify" /\ next.found = manifest[next.lane] /\ next.phase = me.phase
        /\ SameRun(me, next) /\ next.asset = 1
        /\ next.listed = me.listed /\ next.release = me.release
    BY <1>1 DEF SameRun, RunOK, RunStates, HoldsWhatItNeeds, Loops, SealLoop, CopyLoop
  <2> HIDE DEF next, me
  <2>2. Active(next)
    BY <2>1 DEF Active, Ends
  <2>3. SeenOK(next, store, manifest)
    BY <1>1, <1>2, <1>4, <2>1, EarlierAssets DEF SeenOK, SameRun, HasRead, Holds, Copying, CopyLoop
  <2>4. CopyOK(next, store)
    BY <2>1 DEF CopyOK, Copying, CopyLoop
  <2>5. PostOK(next, releases)
    BY <1>1, <1>2, <2>1 DEF PostOK, Reading
  <2>6. JobOK(r, next, store, manifest, merged, releases)
    BY <2>1, <2>3, <2>4, <2>5, WhileNotBuilding DEF Building, SealLoop, JobOK
  <2>7. QED
    BY <1>1, <1>4, <2>1, <2>2, <2>6, JobStepSerial DEF me
<1>5. QED
  BY <1>3, <1>4

LEMMA VerifyAssetSerial ==
  ASSUME LanesInv, ReleasedInv, SerialInv, NEW r \in Runs, VerifyAsset(r)
  PROVE  SerialInv'
<1> DEFINE me == run[r]
           next == Advance(me, "verify", "decide")
           same == store[<<me.lane, "asset", me.asset>>] = me.found.assets[me.asset]
<1>1. /\ RunOK(me) /\ me.pc = "verify" /\ Active(me)
      /\ Step(r, IF same THEN next ELSE Unusable(me))
  BY RunFacts DEF VerifyAsset, At, Active, Ends
<1>2. /\ SeenOK(me, store, manifest) /\ PostOK(me, releases) /\ CountOK(me)
      /\ me.found = manifest[me.lane] /\ me.found # None /\ me.asset \in Assets
  BY <1>1, JobFacts, LanesAssumption
  DEF SeenOK, HasRead, RunOK, HoldsWhatItNeeds, RunStates
<1>3. CASE ~same
  <2>1. me.phase # "publish"
    BY <1>1, <1>2, <1>3 DEF SeenOK, Holds
  <2>2. QED
    BY <1>1, <1>3, <2>1, UnusableSerial, JobStepSerial DEF Reading
<1>4. CASE same
  <2>1. /\ SameJob(me, next) /\ next.built = me.built /\ next.listed = me.listed
        /\ \/ next.pc = "verify" /\ Earlier(next.asset) = Earlier(me.asset) \union {me.asset}
           \/ next.pc = "decide" /\ Assets = Earlier(me.asset) \union {me.asset}
    <3>1. me \in RunStates /\ "verify" \in Points /\ "decide" \in Points
      BY <1>1 DEF RunOK, Points
    <3> HIDE DEF me
    <3>2. QED
      BY <3>1, AdvanceSerial
  <2> DEFINE got == store[<<me.lane, "asset", me.asset>>]
  <2>2. Holds(store, me.lane, "asset", Earlier(me.asset) \union {me.asset}, me.found)
    BY <1>1, <1>2, <1>4 DEF SeenOK, Holds
  <2> HIDE DEF next, me
  <2>3. Active(next) /\ SameRun(me, next) /\ next.pc \notin Building
    BY <1>1, <2>1 DEF Active, Ends, SameRun, SameJob, Building, SealLoop
  <2>4. SeenOK(next, store, manifest)
    BY <1>1, <1>2, <2>3, <2>1, <2>2 DEF SeenOK, HasRead, Copying, CopyLoop, SameJob
  <2>5. CopyOK(next, store)
    BY <2>1 DEF CopyOK, Copying, CopyLoop
  <2>6. PostOK(next, releases)
    BY <1>1, <1>2, <2>1 DEF PostOK, Reading, SameJob
  <2>7. JobOK(r, next, store, manifest, merged, releases)
    BY <2>3, <2>4, <2>5, <2>6, WhileNotBuilding DEF JobOK
  <2>8. QED
    BY <1>1, <1>4, <2>3, <2>7, JobStepSerial DEF me
<1>5. QED
  BY <1>3, <1>4

LEMMA DecideUploadsSerial ==
  ASSUME LanesInv, ReleasedInv, SerialInv, NEW r \in Runs, DecideUploads(r)
  PROVE  SerialInv'
<1> DEFINE me == run[r]
           up == IF Current(me) THEN {} ELSE Assets
           next == [me EXCEPT !.pc = "build", !.found = None, !.uploads = up]
<1>1. /\ RunOK(me) /\ me.pc = "decide" /\ me.phase = "prepare" /\ Active(me) /\ Step(r, next)
  BY RunFacts DEF DecideUploads, At, Active, Ends
<1>2. /\ SeenOK(me, store, manifest) /\ CountOK(me)
      /\ me.found = manifest[me.lane] /\ me.found # None
  BY <1>1, JobFacts, LanesAssumption
  DEF SeenOK, HasRead, RunOK, HoldsWhatItNeeds, RunStates
<1>4. Current(me) => /\ me.found.version = me.version
                     /\ me.found.tree = CommitTree(me, merged)
  BY <1>1, CommitTrees DEF Current
<1>5. Holds(store, me.lane, "asset", Assets, manifest[me.lane])
  BY <1>1, <1>2 DEF SeenOK
<1>6. up \in {{}, Assets} /\ (up = {} => Current(me))
  BY AssetFacts
<1>7. /\ next.pc = "build" /\ next.phase = "prepare" /\ next.kind = me.kind
      /\ next.source = me.source /\ next.version = me.version /\ next.lane = me.lane
      /\ next.uploads = up /\ next.built = me.built
  BY <1>1 DEF RunOK, RunStates
<1> HIDE DEF next, me, up
<1>8. Active(next) /\ SameRun(me, next) /\ next.pc \in Building
  BY <1>1, <1>7 DEF Active, Ends, SameRun, Building
<1>9. SeenOK(next, store, manifest) /\ CopyOK(next, store) /\ PostOK(next, releases)
  BY <1>7, <1>8, WhileBuilding
<1>10. StagedOK(r, next, store, merged) /\ SealOK(r, next, store, merged)
  <2>1. \A a \in Assets : next.built[a] = 0
    BY <1>1, <1>2, <1>7 DEF CountOK
  <2>2. next.uploads \subseteq Assets
    BY <1>6, <1>7
  <2>3. QED
    BY <1>7, <2>1, <2>2 DEF StagedOK, SealOK, SealLoop
<1>11. BuildOK(next, store, manifest, merged)
  <2>1. CommitTree(next, merged) = CommitTree(me, merged)
    BY <1>7 DEF CommitTree
  <2>2. QED
    BY <1>2, <1>4, <1>5, <1>6, <1>7, <2>1, AssetFacts DEF BuildOK
<1>12. QED
  BY <1>1, <1>8, <1>9, <1>10, <1>11, JobStepSerial DEF JobOK, me

LEMMA SkipPromotionSerial ==
  ASSUME LanesInv, ReleasedInv, SerialInv, NEW r \in Runs, SkipPromotion(r)
  PROVE  SerialInv'
<1>1. /\ run[r].pc = "read" /\ run[r].phase = "promote" /\ Active(run[r]) /\ RunOK(run[r])
      /\ Step(r, Unusable(run[r]))
  BY RunFacts DEF SkipPromotion, At, Active, Ends
<1>2. QED
  BY <1>1, UnusableSerial, JobStepSerial DEF Reading

\* A lane that could not be read is taken for one that cannot be used.
LEMMA LaneUnreadSerial ==
  ASSUME LanesInv, ReleasedInv, SerialInv, NEW r \in Runs, LaneUnread(r)
  PROVE  SerialInv'
<1> DEFINE me == run[r]
           given == Unusable(me)
           next == [given EXCEPT !.unread = TRUE]
<1>1. me.pc \in Reading /\ me.phase # "publish" /\ Active(me) /\ Step(r, next)
  BY DEF LaneUnread, At, Active, Ends, Reading
<1>2. /\ Active(given) /\ SameRun(me, given)
      /\ JobOK(r, given, store, manifest, merged, releases)
  BY <1>1, UnusableSerial
<1>3. given \in RunStates
  BY <1>1, RunFacts, UnusableOK DEF RunOK
<1> HIDE DEF me, given
<1>4. /\ SameJob(given, next) /\ next.pc = given.pc /\ next.asset = given.asset
      /\ next.files = given.files /\ next.held = given.held /\ next.built = given.built
      /\ next.listed = given.listed
  BY <1>3, UnreadFacts
<1> HIDE DEF next
<1>5. Active(next) /\ SameRun(me, next)
  BY <1>2, <1>4 DEF Active, SameRun, SameJob
<1>6. JobOK(r, next, store, manifest, merged, releases)
  <2>1. SeenOK(next, store, manifest) /\ CopyOK(next, store) /\ PostOK(next, releases)
    BY <1>2, <1>4 DEF JobOK, SeenOK, HasRead, CopyOK, Copied, PostOK, SameJob, Active
  <2>2. CommitTree(next, merged) = CommitTree(given, merged)
        /\ OwnBuild(r, next, merged) = OwnBuild(r, given, merged)
    BY <1>4 DEF CommitTree, OwnBuild, SameJob
  <2>3. BuildOK(next, store, manifest, merged) /\ StagedOK(r, next, store, merged)
    BY <1>2, <1>4, <2>2 DEF JobOK, BuildOK, StagedOK, SameJob
  <2>4. SealOK(r, next, store, merged)
    BY <1>2, <1>4, <2>2 DEF JobOK, SealOK, Collected, SameJob
  <2>5. QED
    BY <2>1, <2>3, <2>4 DEF JobOK
<1>7. QED
  BY <1>1, <1>5, <1>6, JobStepSerial DEF me

LEMMA DecidePromotionSerial ==
  ASSUME LanesInv, ReleasedInv, SerialInv, NEW r \in Runs, DecidePromotion(r)
  PROVE  SerialInv'
<1> DEFINE me == run[r]
           next == [me EXCEPT !.pc = "copy-get", !.to = VersionLane(me.version)]
<1>1. /\ RunOK(me) /\ me.pc = "decide" /\ me.phase = "promote" /\ Active(me)
      /\ Step(r, IF Promotable(me) THEN next ELSE Unusable(me))
  BY RunFacts DEF DecidePromotion, At, Active, Ends
<1>2. me.kind = "merge" /\ SeenOK(me, store, manifest) /\ me.asset = 1
  BY <1>1, JobFacts DEF RunOK, InJob, HoldsWhatItNeeds, Loops, SealLoop, CopyLoop
<1>3. CASE ~Promotable(me)
  BY <1>1, <1>3, UnusableSerial, JobStepSerial DEF Reading
<1>4. CASE Promotable(me)
  <2>1. /\ next.pc = "copy-get" /\ next.phase = me.phase /\ SameRun(me, next)
        /\ next.to = VersionLane(next.version) /\ next.found = me.found /\ next.asset = 1
    BY <1>1, <1>2 DEF SameRun, RunOK, RunStates
  <2>2. me.found.version = me.version /\ me.found.tree = HeadOf(me.source)
    <3>1. me.source \in PullRequests
      BY <1>1, ActiveFacts
    <3>2. QED
      BY <1>4, <3>1, TreeNames DEF Promotable
  <2> HIDE DEF next, me
  <2>3. Active(next) /\ next.pc \notin Building
    BY <2>1 DEF Active, Ends, Building, SealLoop
  <2>4. SeenOK(next, store, manifest)
    BY <1>1, <1>2, <2>1 DEF SeenOK, HasRead, Copying, CopyLoop, SameRun
  <2>5. CopyOK(next, store)
    BY <2>1, <2>2, EarlierAssets
    DEF CopyOK, Copied, Holds, Copying, CopyLoop, SameRun, VersionLane, MainLane
  <2>6. PostOK(next, releases)
    BY <1>1, <2>1 DEF PostOK
  <2>7. JobOK(r, next, store, manifest, merged, releases)
    BY <2>3, <2>4, <2>5, <2>6, WhileNotBuilding DEF JobOK
  <2>8. QED
    BY <1>1, <1>4, <2>1, <2>3, <2>7, JobStepSerial DEF me
<1>5. QED
  BY <1>3, <1>4

LEMMA DecidePublishSerial ==
  ASSUME LanesInv, ReleasedInv, SerialInv, NEW r \in Runs, DecidePublish(r)
  PROVE  SerialInv'
<1> DEFINE me == run[r]
           next == [me EXCEPT !.pc = "download"]
<1>1. /\ RunOK(me) /\ me.pc = "decide" /\ me.phase = "publish" /\ Active(me)
      /\ StepIf(r, Current(me), next)
  BY RunFacts DEF DecidePublish, At, Active, Ends
<1>2. /\ me.kind = "release" /\ SeenOK(me, store, manifest) /\ PostOK(me, releases) /\ me.asset = 1
      /\ me.found = manifest[me.lane] /\ me.found # None
  BY <1>1, JobFacts, LanesAssumption
  DEF RunOK, InJob, SeenOK, HasRead, HoldsWhatItNeeds, Loops, SealLoop, CopyLoop
<1>3. Current(me)
  <2>1. /\ me.found.source = MergeOf(me.source) /\ me.found.version = me.version
        /\ me.found.tree = MergedTree(merged, me.source)
    BY <1>1, <1>2, VersionManifest1
  <2>2. Commit(me) = MergeOf(me.source) /\ TreeOf(Commit(me)) = MergedTree(merged, me.source)
    BY <1>1, <1>2, CommitTrees DEF Commit
  <2>3. QED
    BY <2>1, <2>2 DEF Current
<1>4. /\ next.pc = "download" /\ next.phase = me.phase /\ SameRun(me, next)
      /\ next.found = me.found /\ next.asset = 1
      /\ next.release = me.release /\ next.listed = me.listed
  BY <1>1, <1>2 DEF SameRun, RunOK, RunStates
<1> HIDE DEF next, me
<1>5. Active(next) /\ next.pc \notin Building
  BY <1>4 DEF Active, Ends, Building, SealLoop
<1>6. SeenOK(next, store, manifest) /\ CopyOK(next, store)
  BY <1>1, <1>2, <1>4 DEF SeenOK, HasRead, Copying, CopyLoop, SameRun, CopyOK
<1>7. PostOK(next, releases)
  BY <1>1, <1>2, <1>4, EarlierAssets DEF PostOK, Reading
<1>8. JobOK(r, next, store, manifest, merged, releases)
  BY <1>5, <1>6, <1>7, WhileNotBuilding DEF JobOK
<1>9. QED
  BY <1>1, <1>3, <1>4, <1>5, <1>8, JobStepIfSerial DEF me
-----------------------------------------------------------------------------
(* The starts and the end of a run.                                          *)

LEMMA StartSerial ==
  ASSUME MaxActive = 1, LanesInv, SerialInv, NEW r \in Runs, NEW next, MayStart(r), Step(r, next),
         next.pc # "idle", next.pc = "failed" => next.kind \notin {"pr", "release"},
         RunSerial(r, next, store, manifest, tags, merged, releases)
  PROVE  SerialInv'
<1>1. \A q \in Runs : q # r => ~Active(run[q])
  BY NoneWorks DEF MayStart, SerialInv
<1>2. QED
  BY <1>1, QuietSerial

\* At the start of a workflow nothing is read, built, copied or posted.
LEMMA StartJob ==
  ASSUME NEW r, NEW me, me.pc \in {"read", "draft"}, me.phase # "publish",
         NEW objects, NEW manifests, NEW merges, NEW all
  PROVE  JobOK(r, me, objects, manifests, merges, all)
BY DEF JobOK, SeenOK, HasRead, BuildOK, StagedOK, SealOK, CopyOK, PostOK, Building, SealLoop,
   Copying, CopyLoop

LEMMA PreparePullRequestSerial ==
  ASSUME MaxActive = 1, LanesInv, ReleasedInv, SerialInv, NEW r \in Runs, NEW i \in PullRequests,
         PreparePullRequest(r, i)
  PROVE  SerialInv'
<1> DEFINE next == [Idle EXCEPT !.kind = "pr", !.phase = "prepare", !.pc = "read",
                                !.source = i, !.version = NextVersion, !.lane = PrLane(i)]
<1>1. Step(r, next) /\ MayStart(r) /\ merged[i] = "open"
  BY DEF PreparePullRequest
<1>2. /\ next.kind = "pr" /\ next.phase = "prepare" /\ next.pc = "read"
      /\ next.source = i /\ next.lane = PrLane(i)
      /\ \A a \in Assets : next.built[a] = 0
  BY DEF Idle
<1> HIDE DEF next
<1>3. SourceOK(next, tags, releases)
  BY <1>1, <1>2 DEF SourceOK, ReleasedInv, ReleasesMerged
<1>4. FreshOK(r, next, manifest) /\ CountOK(next)
  <2>1. Unbuilt(r) /\ PrLane(i) \in Lanes
    BY <1>1, NamedLanes DEF SerialInv, NothingAhead, MayStart
  <2>2. QED
    BY <1>2, <2>1 DEF FreshOK, CountOK, Unbuilt
<1>5. JobOK(r, next, store, manifest, merged, releases)
  BY <1>2, StartJob
<1>6. QED
  BY <1>1, <1>2, <1>3, <1>4, <1>5, StartSerial DEF RunSerial

\* The release that a tag is on is the one that authorizes its version.
LEMMA TagAuthorized ==
  ASSUME LanesInv, ReleasedInv, SerialInv, NEW v, NEW i, HasRelease(releases, v, i)
  PROVE  Authorized(v, i) /\ Find(v) \in DOMAIN releases
<1>1. Find(v) # 0
  BY FindFacts DEF LanesInv, TypeOK, HasRelease
<1>2. Find(v) \in DOMAIN releases /\ releases[Find(v)].version = v
  BY <1>1, FindFacts DEF LanesInv, TypeOK
<1>3. HasRelease(releases, v, releases[Find(v)].source)
  BY <1>2 DEF HasRelease
<1>4. releases[Find(v)].source = i
  BY <1>3, OneSource DEF ReleasedInv, SerialInv
<1>5. QED
  BY <1>1, <1>2, <1>4 DEF Authorized

LEMMA PrepareReleaseSerial ==
  ASSUME MaxActive = 1, LanesInv, ReleasedInv, SerialInv, NEW r \in Runs, NEW v \in Versions,
         PrepareRelease(r, v)
  PROVE  SerialInv'
<1> DEFINE next == [Idle EXCEPT !.kind = "release", !.phase = "prepare", !.pc = "read",
                                !.source = tags[v], !.version = v, !.lane = VersionLane(v)]
<1>1. Step(r, IF Authorized(v, tags[v]) THEN next ELSE Ended(next, "failed"))
      /\ MayStart(r) /\ v \in DOMAIN tags
  BY DEF PrepareRelease
<1>2. /\ next.kind = "release" /\ next.phase = "prepare" /\ next.pc = "read"
      /\ next.source = tags[v] /\ next.version = v /\ next.lane = VersionLane(v)
      /\ \A a \in Assets : next.built[a] = 0
  BY DEF Idle
<1> HIDE DEF next
<1>3. Authorized(v, tags[v])
  BY <1>1, TagAuthorized DEF ReleasedInv, TagsReleased
<1>4. SourceOK(next, tags, releases) /\ FreshOK(r, next, manifest) /\ CountOK(next)
  <2>1. Unbuilt(r) /\ VersionLane(v) \in Lanes
    BY <1>1, NamedLanes DEF SerialInv, NothingAhead, MayStart
  <2>2. QED
    BY <1>1, <1>2, <2>1 DEF SourceOK, FreshOK, CountOK, Unbuilt
<1>5. JobOK(r, next, store, manifest, merged, releases)
  BY <1>2, StartJob
<1>6. QED
  BY <1>1, <1>2, <1>3, <1>4, <1>5, StartSerial DEF RunSerial

LEMMA PlanReleaseSerial ==
  ASSUME MaxActive = 1, LanesInv, ReleasedInv, SerialInv, NEW r \in Runs, NEW i \in PullRequests,
         PlanRelease(r, i)
  PROVE  SerialInv'
<1> DEFINE next == [Idle EXCEPT !.kind = "merge", !.phase = "promote", !.pc = "draft",
                                !.source = i, !.version = NextVersion, !.lane = PrLane(i)]
<1>1. Step(r, next) /\ MayStart(r) /\ \A v \in DOMAIN tags : tags[v] # i
  BY DEF PlanRelease
<1>2. /\ next.kind = "merge" /\ next.phase = "promote" /\ next.pc = "draft" /\ next.source = i
      /\ \A a \in Assets : next.built[a] = 0
  BY DEF Idle
<1> HIDE DEF next
<1>3. SourceOK(next, tags, releases) /\ FreshOK(r, next, manifest) /\ CountOK(next)
  BY <1>1, <1>2 DEF SourceOK, FreshOK, CountOK
<1>4. JobOK(r, next, store, manifest, merged, releases)
  BY <1>2, StartJob
<1>5. QED
  BY <1>1, <1>2, <1>3, <1>4, StartSerial DEF RunSerial

LEMMA AbortSerial ==
  ASSUME LanesInv, ReleasedInv, SerialInv, NEW r \in Runs, Abort(r)
  PROVE  SerialInv'
BY EndSerial DEF Abort, Working, Active, Ends

LEMMA FindDraftSerial ==
  ASSUME LanesInv, ReleasedInv, SerialInv, NEW r \in Runs, FindDraft(r)
  PROVE  SerialInv'
<1> DEFINE me == run[r]
           found == Find(me.version)
           create == [me EXCEPT !.pc = "create"]
           read == [me EXCEPT !.pc = "read"]
<1>1. /\ RunOK(me) /\ me.pc = "draft" /\ Active(me)
      /\ IF found = 0 THEN Step(r, create)
         ELSE StepIf(r, releases[found].draft /\ releases[found].source = me.source, read)
  BY RunFacts DEF FindDraft, At, Active, Ends
<1>2. me.kind = "merge" /\ me.phase = "promote"
  BY <1>1 DEF RunOK, InJob, Preparing, Publishing, Reading, Copying, CopyLoop, SealLoop
<1>3. ASSUME NEW next \in {create, read}
      PROVE  /\ Active(next) /\ SameRun(me, next)
             /\ JobOK(r, next, store, manifest, merged, releases)
  <2>1. next.pc \in {"create", "read"} /\ next.phase = "promote" /\ SameRun(me, next)
    BY <1>1, <1>2, <1>3 DEF SameRun, RunOK, RunStates
  <2> HIDE DEF create, read, me
  <2>2. JobOK(r, next, store, manifest, merged, releases)
    BY <2>1 DEF JobOK, SeenOK, HasRead, BuildOK, StagedOK, SealOK, CopyOK, PostOK, Building,
       SealLoop, Copying, CopyLoop
  <2>3. QED
    BY <2>1, <2>2 DEF Active, Ends
<1>4. CASE found = 0
  BY <1>1, <1>3, <1>4, JobStepSerial
<1>5. CASE found # 0
  BY <1>1, <1>2, <1>3, <1>5, JobStepIfSerial
<1>6. QED
  BY <1>4, <1>5

LEMMA AuthorizeSerial ==
  ASSUME LanesInv, ReleasedInv, SerialInv, NEW r \in Runs, Authorize(r)
  PROVE  SerialInv'
<1> DEFINE me == run[r]
           found == Find(me.version)
           next == [me EXCEPT !.pc = "read", !.phase = "publish", !.release = found,
                              !.listed = releases[found].assets]
<1>1. /\ RunOK(me) /\ me.pc = "authorize" /\ Active(me)
      /\ IF Authorized(me.version, me.source) THEN Step(r, next) ELSE Step(r, Ended(me, "failed"))
  BY RunFacts DEF Authorize, At, Active, Ends
<1>2. me.kind = "release" /\ SeenOK(me, store, manifest)
  BY <1>1, JobFacts DEF RunOK, InJob, Preparing, Promoting, Publishing, Reading, Copying, CopyLoop,
     SealLoop
<1>3. Authorized(me.version, me.source)
  BY <1>1, <1>2, TagAuthorized DEF ReleasedInv, PublishOK
<1>4. /\ next.pc = "read" /\ next.phase = "publish" /\ next.kind = "release" /\ SameRun(me, next)
      /\ next.release = found /\ next.listed = releases[found].assets
  BY <1>1, <1>2 DEF SameRun, RunOK, RunStates
<1> HIDE DEF next, me, found
<1>5. Active(next) /\ next.pc \notin Building
  BY <1>4 DEF Active, Ends, Building, SealLoop
<1>6. SeenOK(next, store, manifest) /\ CopyOK(next, store)
  BY <1>1, <1>2, <1>4 DEF SeenOK, HasRead, Copying, CopyLoop, SameRun, CopyOK
<1>7. PostOK(next, releases)
  BY <1>4 DEF PostOK
<1>8. JobOK(r, next, store, manifest, merged, releases)
  BY <1>5, <1>6, <1>7, WhileNotBuilding DEF JobOK
<1>9. QED
  BY <1>1, <1>3, <1>4, <1>5, <1>8, JobStepSerial DEF me
-----------------------------------------------------------------------------
(* The other steps that write nothing.                                       *)

LEMMA DownloadSerial ==
  ASSUME LanesInv, ReleasedInv, SerialInv, NEW r \in Runs, Download(r)
  PROVE  SerialInv'
<1> DEFINE me == run[r]
           got == store[<<me.lane, "asset", me.asset>>]
           kept == [me EXCEPT !.files[me.asset] = got]
           next == Advance(kept, "download", "version-check")
<1>1. RunOK(me) /\ me.pc = "download" /\ Active(me) /\ StepIf(r, got # None, next)
  BY RunFacts DEF Download, At, Active, Ends
<1>2. /\ me.kind = "release" /\ me.phase = "publish" /\ me.asset \in Assets
      /\ SeenOK(me, store, manifest) /\ PostOK(me, releases)
      /\ me.found = manifest[me.lane] /\ me.found \in Manifests /\ me.found # None
  BY <1>1, JobFacts, LanesAssumption
  DEF RunOK, InJob, Preparing, Promoting, Publishing, Reading, Copying, CopyLoop, SealLoop,
      SeenOK, HasRead, HoldsWhatItNeeds, RunStates
<1>3. got = me.found.assets[me.asset] /\ got \in Contents
  <2>1. got = me.found.assets[me.asset]
    BY <1>1, <1>2 DEF SeenOK, Holds
  <2>2. QED
    BY <1>2, <2>1 DEF Manifests
<1>4. got # None
  BY <1>3, LanesAssumption
<1>5. /\ kept \in RunStates /\ SameJob(me, kept) /\ kept.asset = me.asset
      /\ kept.files[me.asset] = got
      /\ \A b \in Assets : b # me.asset => kept.files[b] = me.files[b]
  BY <1>1, <1>3, FileFacts DEF RunOK
<1>6. kept.built = me.built /\ kept.listed = me.listed
  BY <1>1 DEF RunOK, RunStates
<1> HIDE DEF got, kept
<1>7. "download" \in Points /\ "version-check" \in Points
  BY DEF Points
<1>8. /\ SameJob(kept, next) /\ next.files = kept.files
      /\ next.built = kept.built /\ next.listed = kept.listed
      /\ \/ next.pc = "download" /\ Earlier(next.asset) = Earlier(kept.asset) \union {kept.asset}
         \/ next.pc = "version-check" /\ Assets = Earlier(kept.asset) \union {kept.asset}
  BY <1>5, <1>7, AdvanceSerial
<1> HIDE DEF next, me
<1>9. SameJob(me, next) /\ SameRun(me, next)
  BY <1>1, <1>5, <1>6, <1>8 DEF SameJob, SameRun
<1>10. Active(next) /\ next.pc \notin Building
  BY <1>8 DEF Active, Ends, Building, SealLoop
<1>11. SeenOK(next, store, manifest) /\ CopyOK(next, store)
  BY <1>1, <1>2, <1>8, <1>9 DEF SeenOK, HasRead, Copying, CopyLoop, SameJob, CopyOK
<1>12. \A b \in Earlier(me.asset) \union {me.asset} : next.files[b] = next.found.assets[b]
  <2>1. \A b \in Earlier(me.asset) : b \in Assets /\ b # me.asset
    BY <1>2 DEF Earlier, Assets
  <2>2. \A b \in Earlier(me.asset) : me.files[b] = me.found.assets[b]
    BY <1>1, <1>2 DEF PostOK
  <2>3. QED
    BY <1>3, <1>5, <1>8, <1>9, <2>1, <2>2 DEF SameJob
<1>13. PostOK(next, releases)
  BY <1>1, <1>2, <1>5, <1>6, <1>8, <1>9, <1>12 DEF PostOK, SameJob, Reading
<1>14. JobOK(r, next, store, manifest, merged, releases)
  BY <1>10, <1>11, <1>13, WhileNotBuilding DEF JobOK
<1>15. QED
  BY <1>1, <1>4, <1>9, <1>10, <1>14, JobStepIfSerial DEF me

LEMMA VersionCheckSerial ==
  ASSUME LanesInv, ReleasedInv, SerialInv, NEW r \in Runs, VersionCheck(r)
  PROVE  SerialInv'
<1> DEFINE me == run[r]
           next == [me EXCEPT !.pc = "remove"]
<1>1. /\ RunOK(me) /\ me.pc = "version-check" /\ Active(me)
      /\ StepIf(r, me.files[1].version = me.version, next)
  BY RunFacts DEF VersionCheck, At, Active, Ends
<1>2. /\ me.kind = "release" /\ me.phase = "publish" /\ me.asset = 1
      /\ SeenOK(me, store, manifest) /\ PostOK(me, releases)
      /\ me.found = manifest[me.lane] /\ me.found # None /\ me.lane \in Lanes
  BY <1>1, JobFacts, LanesAssumption, ActiveFacts
  DEF RunOK, InJob, Preparing, Promoting, Publishing, Reading, Copying, CopyLoop, SealLoop,
      SeenOK, HasRead, HoldsWhatItNeeds, Loops
<1>3. me.files[1].version = me.version
  <2>1. me.files[1] = me.found.assets[1]
    BY <1>1, <1>2, AssetFacts DEF PostOK
  <2>2. me.found.version = me.version
    BY <1>1, <1>2, VersionManifest1
  <2>3. me.found.assets[1].version = me.found.version
    BY <1>2, AssetFacts DEF SerialInv, ManifestIsTrue
  <2>4. QED
    BY <2>1, <2>2, <2>3
<1>4. /\ next.pc = "remove" /\ next.phase = me.phase /\ SameRun(me, next) /\ next.found = me.found
      /\ next.asset = 1 /\ next.release = me.release /\ next.listed = me.listed
  BY <1>1, <1>2 DEF SameRun, RunOK, RunStates
<1> HIDE DEF next, me
<1>5. Active(next) /\ next.pc \notin Building
  BY <1>4 DEF Active, Ends, Building, SealLoop
<1>6. SeenOK(next, store, manifest) /\ CopyOK(next, store)
  BY <1>1, <1>2, <1>4 DEF SeenOK, HasRead, Copying, CopyLoop, SameRun, CopyOK
<1>7. PostOK(next, releases)
  <2>1. \A b \in Assets : ~(b < 1) /\ releases[me.release].assets[b] = me.listed[b]
    BY <1>1, <1>2 DEF PostOK, Assets
  <2>2. QED
    BY <1>4, <2>1, AssetFacts DEF PostOK, Reading
<1>8. JobOK(r, next, store, manifest, merged, releases)
  BY <1>5, <1>6, <1>7, WhileNotBuilding DEF JobOK
<1>9. QED
  BY <1>1, <1>3, <1>4, <1>5, <1>8, JobStepIfSerial DEF me

LEMMA ListAssetsSerial ==
  ASSUME LanesInv, ReleasedInv, SerialInv, NEW r \in Runs, ListAssets(r)
  PROVE  SerialInv'
<1> DEFINE me == run[r]
           next == [me EXCEPT !.pc = "publish"]
           ok == \A a \in Assets : releases[me.release].assets[a] # None
<1>1. RunOK(me) /\ me.pc = "list" /\ Active(me) /\ StepIf(r, ok, next)
  BY RunFacts DEF ListAssets, At, Active, Ends
<1>2. /\ me.kind = "release" /\ me.phase = "publish"
      /\ SeenOK(me, store, manifest) /\ PostOK(me, releases)
  BY <1>1, JobFacts
  DEF RunOK, InJob, Preparing, Promoting, Publishing, Reading, Copying, CopyLoop, SealLoop
<1>3. ok
  BY <1>1, <1>2 DEF PostOK
<1>4. /\ next.pc = "publish" /\ next.phase = me.phase /\ SameRun(me, next) /\ next.found = me.found
      /\ next.release = me.release
  BY <1>1, <1>2 DEF SameRun, RunOK, RunStates
<1> HIDE DEF next, me
<1>5. Active(next) /\ next.pc \notin Building
  BY <1>4 DEF Active, Ends, Building, SealLoop
<1>6. SeenOK(next, store, manifest) /\ CopyOK(next, store)
  BY <1>1, <1>2, <1>4 DEF SeenOK, HasRead, Copying, CopyLoop, SameRun, CopyOK
<1>7. PostOK(next, releases)
  BY <1>3, <1>4 DEF PostOK, Reading
<1>8. JobOK(r, next, store, manifest, merged, releases)
  BY <1>5, <1>6, <1>7, WhileNotBuilding DEF JobOK
<1>9. QED
  BY <1>1, <1>3, <1>4, <1>5, <1>8, JobStepIfSerial DEF me
-----------------------------------------------------------------------------
(* The seal job, where it writes nothing.                                    *)

LEMMA BuildingFacts ==
  ASSUME LanesInv, SerialInv, NEW r \in Runs, run[r].pc \in Building
  PROVE  /\ Active(run[r]) /\ run[r].phase = "prepare" /\ run[r].kind \in {"pr", "release"}
         /\ run[r].uploads \in {{}, Assets} /\ run[r].asset \in Assets
         /\ run[r].lane \in Lanes
         /\ OwnBuild(r, run[r], merged) \in Contents
         /\ run[r].uploads = {} =>
              \A a \in Assets :
                LET got == store[<<run[r].lane, "asset", a>>] IN
                /\ got \in Contents /\ store[<<run[r].lane, "sha256", a>>] = got
                /\ got = manifest[run[r].lane].assets[a]
                /\ got.tree = CommitTree(run[r], merged) /\ got.version = run[r].version
<1> DEFINE me == run[r]
           m == manifest[me.lane]
<1>1. /\ Active(me) /\ me.phase = "prepare" /\ me.kind \in {"pr", "release"}
  BY RunFacts DEF RunOK, InJob, Building, SealLoop, Active, Ends, Promoting, Publishing, Reading,
     Copying, CopyLoop
<1>2. BuildOK(me, store, manifest, merged) /\ me.asset \in Assets /\ me.lane \in Lanes
  BY <1>1, JobFacts, RunFacts, ActiveFacts
<1>3. OwnBuild(r, me, merged) \in Contents
  BY <1>1, CommitTrees, BuiltFacts
<1>4. ASSUME me.uploads = {}, NEW a \in Assets
      PROVE  LET got == store[<<me.lane, "asset", a>>] IN
             /\ got \in Contents /\ store[<<me.lane, "sha256", a>>] = got
             /\ got = m.assets[a]
             /\ got.tree = CommitTree(me, merged) /\ got.version = me.version
  <2>1. /\ m # None /\ m.version = me.version /\ m.tree = CommitTree(me, merged)
        /\ store[<<me.lane, "asset", a>>] = m.assets[a]
    BY <1>2, <1>4 DEF BuildOK, Holds
  <2>2. m \in Manifests
    BY <1>2, <2>1 DEF LanesInv, TypeOK
  <2>3. m.assets[a] \in Contents /\ m.assets[a].tree = m.tree /\ m.assets[a].version = m.version
    BY <1>2, <2>1, <2>2 DEF Manifests, SerialInv, ManifestIsTrue
  <2>4. me.lane[1] # "main"
    <3>1. me.lane \in {PrLane(me.source), VersionLane(me.version)}
      BY <1>1, RunFacts DEF RunOK, InJob
    <3>2. QED
      BY <3>1 DEF PrLane, VersionLane
  <2>5. store[<<me.lane, "sha256", a>>] = m.assets[a]
    BY <1>2, <2>1, <2>4 DEF SerialInv, DigestsOK
  <2>6. QED
    BY <2>1, <2>3, <2>5
<1>5. QED
  BY <1>1, <1>2, <1>3, <1>4 DEF BuildOK

LEMMA BuildJob ==
  ASSUME NEW r, NEW me, me.pc \in Building, me.phase = "prepare", NEW objects, NEW manifests,
         NEW merges, NEW all, BuildOK(me, objects, manifests, merges),
         StagedOK(r, me, objects, merges), SealOK(r, me, objects, merges)
  PROVE  JobOK(r, me, objects, manifests, merges, all)
BY WhileBuilding DEF JobOK

LEMMA OwnBuildStays ==
  ASSUME NEW r, NEW me, NEW next, SameRun(me, next), NEW merges
  PROVE  /\ OwnBuild(r, next, merges) = OwnBuild(r, me, merges)
         /\ CommitTree(next, merges) = CommitTree(me, merges)
BY DEF SameRun, OwnBuild, CommitTree

LEMMA BuildStays ==
  ASSUME NEW me, NEW next, SameRun(me, next), next.uploads = me.uploads, me.pc \in Building,
         NEW objects, NEW manifests, NEW merges, BuildOK(me, objects, manifests, merges)
  PROVE  BuildOK(next, objects, manifests, merges)
<1>1. CommitTree(next, merges) = CommitTree(me, merges)
  BY DEF SameRun, CommitTree
<1>2. QED
  BY <1>1 DEF SameRun, BuildOK

LEMMA BuildsDoneSerial ==
  ASSUME LanesInv, ReleasedInv, SerialInv, NEW r \in Runs, BuildsDone(r)
  PROVE  SerialInv'
<1> DEFINE me == run[r]
           next == [me EXCEPT !.pc = "seal-get", !.built = [a \in Assets |-> 0]]
<1>1. /\ RunOK(me) /\ me.pc = "build" /\ Step(r, next)
      /\ \A a \in me.uploads : me.built[a] = 2
  BY RunFacts DEF BuildsDone, At
<1>2. /\ Active(me) /\ me.phase = "prepare" /\ me.asset = 1
      /\ BuildOK(me, store, manifest, merged) /\ StagedOK(r, me, store, merged)
  BY <1>1, BuildingFacts, JobFacts
  DEF Building, RunOK, HoldsWhatItNeeds, Loops, SealLoop, CopyLoop
<1>3. /\ next.pc = "seal-get" /\ next.phase = "prepare" /\ next.uploads = me.uploads
      /\ next.kind = me.kind /\ next.source = me.source /\ next.version = me.version
      /\ next.lane = me.lane /\ next.asset = 1
      /\ \A a \in Assets : next.built[a] = 0
  BY <1>1, <1>2 DEF RunOK, RunStates
<1> HIDE DEF next, me
<1>4. /\ Active(next) /\ SameRun(me, next) /\ next.pc \in Building /\ me.pc \in Building
  BY <1>1, <1>2, <1>3 DEF Active, Ends, SameRun, Building, SealLoop
<1>5. StagedOK(r, next, store, merged)
  <2>1. \A a \in me.uploads :
          /\ store[<<me.lane, "staging", a>>] = OwnBuild(r, me, merged)
          /\ store[<<me.lane, "staging-sha256", a>>] = OwnBuild(r, me, merged)
    BY <1>1, <1>2 DEF StagedOK
  <2>2. QED
    BY <1>3, <1>4, <2>1, OwnBuildStays DEF StagedOK
<1>6. SealOK(r, next, store, merged)
  BY <1>3, EarlierAssets DEF SealOK, SealLoop, Collected
<1>7. JobOK(r, next, store, manifest, merged, releases)
  BY <1>2, <1>3, <1>4, <1>5, <1>6, BuildStays, BuildJob
<1>8. QED
  BY <1>1, <1>2, <1>4, <1>7, JobStepSerial DEF me

LEMMA SealGetSerial ==
  ASSUME LanesInv, ReleasedInv, SerialInv, NEW r \in Runs, SealGet(r)
  PROVE  SerialInv'
<1> DEFINE me == run[r]
           got == store[<<me.lane, SealSlot(me), me.asset>>]
           next == [me EXCEPT !.pc = "seal-digest", !.held = got]
<1>1. RunOK(me) /\ me.pc = "seal-get" /\ StepIf(r, got # None, next)
  BY RunFacts DEF SealGet, At
<1>2. /\ Active(me) /\ me.phase = "prepare" /\ me.uploads \in {{}, Assets} /\ me.asset \in Assets
      /\ OwnBuild(r, me, merged) \in Contents
      /\ me.uploads = {} => store[<<me.lane, "asset", me.asset>>] \in Contents
  BY <1>1, BuildingFacts DEF Building, SealLoop
<1>3. /\ BuildOK(me, store, manifest, merged) /\ StagedOK(r, me, store, merged)
      /\ SealOK(r, me, store, merged)
  BY JobFacts
<1>4. /\ got = IF me.uploads = {} THEN store[<<me.lane, "asset", me.asset>>]
               ELSE OwnBuild(r, me, merged)
      /\ got \in Contents /\ got # None
  <2>1. CASE me.uploads = {}
    BY <1>2, <2>1, LanesAssumption DEF SealSlot
  <2>2. CASE me.uploads = Assets
    <3>1. me.uploads # {} /\ got = store[<<me.lane, "staging", me.asset>>]
      BY <1>2, <2>2 DEF SealSlot
    <3>2. got = OwnBuild(r, me, merged)
      BY <1>1, <1>2, <1>3, <2>2, <3>1 DEF StagedOK
    <3>3. QED
      BY <1>2, <3>1, <3>2, LanesAssumption
  <2>3. QED
    BY <1>2, <2>1, <2>2
<1>5. /\ next.pc = "seal-digest" /\ next.phase = "prepare" /\ next.uploads = me.uploads
      /\ next.asset = me.asset /\ next.held = got /\ next.files = me.files
      /\ SameRun(me, next)
  BY <1>1, <1>2 DEF RunOK, RunStates, SameRun
<1> HIDE DEF next, me, got
<1>6. Active(next) /\ next.pc \in Building /\ me.pc \in Building
  BY <1>1, <1>5 DEF Active, Ends, Building, SealLoop
<1>7. StagedOK(r, next, store, merged)
  BY <1>1, <1>3, <1>5, OwnBuildStays DEF StagedOK, SealLoop, SameRun
<1>8. SealOK(r, next, store, merged)
  BY <1>1, <1>3, <1>4, <1>5, OwnBuildStays DEF SealOK, SealLoop, SameRun, Collected
<1>9. JobOK(r, next, store, manifest, merged, releases)
  BY <1>3, <1>5, <1>6, <1>7, <1>8, BuildStays, BuildJob
<1>10. QED
  BY <1>1, <1>2, <1>4, <1>5, <1>6, <1>9, JobStepIfSerial DEF me

\* The seal job has collected one more asset.
LEMMA CollectedSerial ==
  ASSUME LanesInv, NEW r \in Runs, NEW me \in RunStates, me.pc \in SealLoop, me.phase = "prepare",
         me.held \in Contents, NEW objects, NEW manifests, NEW merges, NEW all,
         BuildOK(me, objects, manifests, merges), StagedOK(r, me, objects, merges),
         SealOK(r, me, objects, merges),
         objects[<<me.lane, "asset", me.asset>>] = me.held,
         objects[<<me.lane, "sha256", me.asset>>] = me.held,
         me.held.tree = CommitTree(me, merges), me.held.version = me.version
  PROVE  LET next == Advance(Sealed(me), "seal-get", "seal-manifest") IN
         /\ Active(next) /\ SameRun(me, next)
         /\ JobOK(r, next, objects, manifests, merges, all)
<1> DEFINE kept == Sealed(me)
           next == Advance(kept, "seal-get", "seal-manifest")
<1>1. /\ kept \in RunStates /\ SameJob(me, kept) /\ kept.pc = me.pc /\ kept.asset = me.asset
      /\ kept.files[me.asset] = me.held
      /\ \A b \in Assets : b # me.asset => kept.files[b] = me.files[b]
  BY FileFacts DEF Sealed
<1>2. kept.built = me.built /\ me.asset \in Assets
  BY DEF Sealed, RunStates
<1>3. "seal-get" \in Points /\ "seal-manifest" \in Points
  BY DEF Points
<1> HIDE DEF kept
<1>4. /\ SameJob(kept, next) /\ next.files = kept.files /\ next.built = kept.built
      /\ \/ /\ next.pc = "seal-get" /\ next.asset = me.asset + 1 /\ next.asset \in Assets
            /\ Earlier(next.asset) = Earlier(me.asset) \union {me.asset}
         \/ next.pc = "seal-manifest" /\ Assets = Earlier(me.asset) \union {me.asset}
  BY <1>1, <1>3, AdvanceSerial
<1> HIDE DEF next
<1>5. /\ SameRun(me, next) /\ Active(next) /\ next.pc \in Building /\ me.pc \in Building
      /\ next.phase = "prepare" /\ next.uploads = me.uploads
  BY <1>1, <1>2, <1>4 DEF SameJob, SameRun, Active, Ends, Building, SealLoop
<1>6. /\ next.lane = me.lane /\ next.version = me.version
      /\ OwnBuild(r, next, merges) = OwnBuild(r, me, merges)
      /\ CommitTree(next, merges) = CommitTree(me, merges)
  BY <1>5, OwnBuildStays DEF SameRun
<1>7. StagedOK(r, next, objects, merges)
  <2> SUFFICES ASSUME NEW a \in me.uploads, next.pc = "seal-get", a > next.asset \/ a = next.asset
               PROVE  /\ objects[<<me.lane, "staging", a>>] = OwnBuild(r, me, merges)
                      /\ objects[<<me.lane, "staging-sha256", a>>] = OwnBuild(r, me, merges)
    BY <1>4, <1>5, <1>6 DEF StagedOK, SealLoop
  <2>1. a \in Assets /\ next.asset = me.asset + 1
    BY <1>4 DEF RunStates
  <2>2. a > me.asset
    BY <1>2, <2>1, LanesAssumption DEF Assets
  <2>3. QED
    BY <2>2 DEF StagedOK
<1>8. SealOK(r, next, objects, merges)
  <2>1. Collected(next) = Earlier(me.asset) \union {me.asset}
    BY <1>4 DEF Collected
  <2>2. \A b \in Earlier(me.asset) : b \in Assets /\ b # me.asset
    BY <1>2 DEF Earlier, Assets
  <2>3. \A b \in Earlier(me.asset) :
          /\ objects[<<me.lane, "asset", b>>] = me.files[b]
          /\ objects[<<me.lane, "sha256", b>>] = me.files[b]
          /\ me.files[b].tree = CommitTree(me, merges)
          /\ me.files[b].version = me.version
    BY DEF SealOK, Collected, SealLoop
  <2>4. \A b \in Collected(next) :
          /\ objects[<<me.lane, "asset", b>>] = next.files[b]
          /\ objects[<<me.lane, "sha256", b>>] = next.files[b]
          /\ next.files[b].tree = CommitTree(me, merges)
          /\ next.files[b].version = me.version
    BY <1>1, <1>4, <2>1, <2>2, <2>3
  <2>5. QED
    BY <1>4, <1>6, <2>4 DEF SealOK, SealLoop
<1>9. JobOK(r, next, objects, manifests, merges, all)
  BY <1>5, <1>7, <1>8, BuildStays, BuildJob
<1>10. QED
  BY <1>5, <1>9 DEF next, kept

LEMMA SealDigestSerial ==
  ASSUME LanesInv, ReleasedInv, SerialInv, NEW r \in Runs, SealDigest(r)
  PROVE  SerialInv'
<1> DEFINE me == run[r]
           ok == store[<<me.lane, SealDigestSlot(me), me.asset>>] = me.held
           copy == [me EXCEPT !.pc = "seal-copy"]
           next == IF me.asset \in me.uploads THEN copy
                   ELSE Advance(Sealed(me), "seal-get", "seal-manifest")
<1>1. RunOK(me) /\ me.pc = "seal-digest" /\ StepIf(r, ok, next)
  BY RunFacts DEF SealDigest, At
<1>2. /\ Active(me) /\ me.phase = "prepare" /\ me.uploads \in {{}, Assets} /\ me.asset \in Assets
      /\ OwnBuild(r, me, merged) \in Contents
      /\ me.uploads = {} =>
           LET got == store[<<me.lane, "asset", me.asset>>] IN
           /\ got \in Contents /\ store[<<me.lane, "sha256", me.asset>>] = got
           /\ got.tree = CommitTree(me, merged) /\ got.version = me.version
  BY <1>1, BuildingFacts DEF Building, SealLoop
<1>3. /\ BuildOK(me, store, manifest, merged) /\ StagedOK(r, me, store, merged)
      /\ SealOK(r, me, store, merged)
  BY JobFacts
<1>4. me.held = IF me.uploads = {} THEN store[<<me.lane, "asset", me.asset>>]
                ELSE OwnBuild(r, me, merged)
  BY <1>1, <1>3 DEF SealOK, SealLoop
<1>5. me \in RunStates
  BY <1>1 DEF RunOK
<1>6. CASE me.uploads = {}
  <2>1. ok /\ next = Advance(Sealed(me), "seal-get", "seal-manifest")
    BY <1>2, <1>4, <1>6 DEF SealDigestSlot
  <2>2. /\ Active(next) /\ SameRun(me, next)
        /\ JobOK(r, next, store, manifest, merged, releases)
    <3> HIDE DEF me, next
    <3>1. QED
      BY <1>1, <1>2, <1>3, <1>4, <1>5, <1>6, <2>1, CollectedSerial DEF SealLoop
  <2>3. QED
    BY <1>1, <1>2, <2>1, <2>2, JobStepIfSerial
<1>7. CASE me.uploads = Assets
  <2>1. me.uploads # {} /\ me.held = OwnBuild(r, me, merged)
    BY <1>2, <1>4, <1>7
  <2>2. ok
    BY <1>1, <1>2, <1>3, <1>7, <2>1 DEF SealDigestSlot, StagedOK
  <2>3. /\ next.pc = "seal-copy" /\ next.phase = "prepare" /\ next.uploads = me.uploads
        /\ next.asset = me.asset /\ next.held = me.held /\ next.files = me.files
        /\ SameRun(me, next)
    BY <1>1, <1>2, <1>5, <1>7 DEF RunStates, SameRun
  <2> HIDE DEF next, me
  <2>4. Active(next) /\ next.pc \in Building /\ me.pc \in Building
    BY <1>1, <2>3 DEF Active, Ends, Building, SealLoop
  <2>5. StagedOK(r, next, store, merged)
    BY <1>1, <1>3, <2>3, OwnBuildStays DEF StagedOK, SealLoop, SameRun
  <2>6. SealOK(r, next, store, merged)
    BY <1>1, <1>3, <2>1, <2>3, OwnBuildStays DEF SealOK, SealLoop, SameRun, Collected
  <2>7. JobOK(r, next, store, manifest, merged, releases)
    BY <1>3, <2>3, <2>4, <2>5, <2>6, BuildStays, BuildJob
  <2>8. QED
    BY <1>1, <1>2, <2>2, <2>3, <2>4, <2>7, JobStepIfSerial DEF me
<1>8. QED
  BY <1>2, <1>6, <1>7

LEMMA SealCheckSerial ==
  ASSUME LanesInv, ReleasedInv, SerialInv, NEW r \in Runs, SealCheck(r)
  PROVE  SerialInv'
<1> DEFINE me == run[r]
           next == [me EXCEPT !.pc = "seal-record"]
           ok == store[<<me.lane, "asset", me.asset>>] = me.held
<1>1. RunOK(me) /\ me.pc = "seal-check" /\ StepIf(r, ok, next)
  BY RunFacts DEF SealCheck, At
<1>2. /\ Active(me) /\ me.phase = "prepare"
      /\ BuildOK(me, store, manifest, merged) /\ StagedOK(r, me, store, merged)
      /\ SealOK(r, me, store, merged)
  BY <1>1, BuildingFacts, JobFacts DEF Building, SealLoop
<1>3. ok
  BY <1>1, <1>2 DEF SealOK, SealLoop
<1>4. /\ next.pc = "seal-record" /\ next.phase = "prepare" /\ next.uploads = me.uploads
      /\ next.asset = me.asset /\ next.held = me.held /\ next.files = me.files
      /\ SameRun(me, next)
  BY <1>1, <1>2 DEF RunOK, RunStates, SameRun
<1> HIDE DEF next, me
<1>5. Active(next) /\ next.pc \in Building /\ me.pc \in Building
  BY <1>1, <1>4 DEF Active, Ends, Building, SealLoop
<1>6. StagedOK(r, next, store, merged)
  BY <1>1, <1>2, <1>4, OwnBuildStays DEF StagedOK, SealLoop, SameRun
<1>7. SealOK(r, next, store, merged)
  BY <1>1, <1>2, <1>4, OwnBuildStays DEF SealOK, SealLoop, SameRun, Collected
<1>8. JobOK(r, next, store, manifest, merged, releases)
  BY <1>2, <1>4, <1>5, <1>6, <1>7, BuildStays, BuildJob
<1>9. QED
  BY <1>1, <1>2, <1>3, <1>4, <1>5, <1>8, JobStepIfSerial DEF me
-----------------------------------------------------------------------------
(* Copying a lane.                                                           *)

LEMMA VersionOfSource ==
  ASSUME OneVersion, NEW v, NEW w, NEW i,
         HasRelease(releases, v, i), HasRelease(releases, w, i)
  PROVE  v = w
BY DEF OneVersion, HasRelease

\* The version lane a merge copies to has no manifest yet, or one of the same assets, which
\* are there.
LEMMA CopyingFacts ==
  ASSUME LanesInv, ReleasedInv, SerialInv, NEW r \in Runs, run[r].pc \in Copying
  PROVE  LET me == run[r] IN
         /\ Active(me) /\ me.kind \in {"merge", "release"} /\ me.source \in PullRequests
         /\ me.version \in Versions /\ me.asset \in Assets
         /\ me.lane \in Lanes /\ me.to \in Lanes /\ me.to # me.lane /\ me.to[1] # "pr"
         /\ me.found = manifest[me.lane] /\ me.found \in Manifests /\ me.found # None
         /\ \A a \in Assets : me.found.assets[a] \in Contents
         /\ Holds(store, me.lane, "asset", Assets, me.found)
         /\ HasRelease(releases, me.version, me.source)
         /\ me.kind = "release" => me.phase = "publish" /\ me.lane = VersionLane(me.version)
                                   /\ me.to = MainLane(me.source)
         /\ me.kind = "merge" => me.phase = "promote" /\ me.lane = PrLane(me.source)
                                 /\ me.to \in {MainLane(me.source), VersionLane(me.version)}
         /\ (me.to[1] # "main" /\ manifest[me.to] # None) =>
              /\ manifest[me.to].assets = me.found.assets
              /\ Holds(store, me.to, "asset", Assets, me.found)
<1> DEFINE me == run[r]
<1>1. /\ RunOK(me) /\ Active(me)
  BY RunFacts DEF Active, Ends, Copying, CopyLoop
<1>2. /\ me.kind \in {"merge", "release"} /\ me.source \in PullRequests /\ me.version \in Versions
      /\ me.asset \in Assets
      /\ me.found \in Manifests
      /\ me.kind = "release" => me.phase = "publish" /\ me.lane = VersionLane(me.version)
                                /\ me.to = MainLane(me.source)
      /\ me.kind = "merge" => me.phase = "promote" /\ me.lane = PrLane(me.source)
                              /\ me.to \in {MainLane(me.source), VersionLane(me.version)}
  BY <1>1 DEF RunOK, InJob, HoldsWhatItNeeds, RunStates, Preparing, Reading, SealLoop, Copying,
     CopyLoop
<1>3. me.lane \in Lanes /\ me.to \in Lanes /\ me.to # me.lane /\ me.to[1] # "pr"
  BY <1>1, <1>2, ActiveFacts DEF VersionLane, MainLane, PrLane
<1>4. /\ me.found = manifest[me.lane] /\ Holds(store, me.lane, "asset", Assets, me.found)
      /\ CopyOK(me, store)
  BY JobFacts DEF SeenOK, HasRead
<1>5. me.found # None /\ \A a \in Assets : me.found.assets[a] \in Contents
  BY <1>2, LanesAssumption DEF Manifests
<1>6. HasRelease(releases, me.version, me.source)
  BY <1>1, <1>2 DEF ReleasedInv, MergeOK, PublishOK, Merging, Copying, CopyLoop
<1>7. ASSUME manifest[me.to] # None, me.to = VersionLane(me.version), me.kind = "merge"
      PROVE  /\ manifest[me.to].assets = me.found.assets
             /\ Holds(store, me.to, "asset", Assets, me.found)
  <2> DEFINE m == manifest[VersionLane(me.version)]
  <2>1. PICK i \in PullRequests : HasRelease(releases, me.version, i) /\ m.source = MergeOf(i)
    BY <1>2, <1>7 DEF SerialInv, VersionLanesOK, AboutRelease
  <2>2. i = me.source
    BY <1>6, <2>1, OneSource DEF ReleasedInv, SerialInv
  <2>3. me.version \notin DOMAIN tags
    <3>1. me.version = Len(tags) + 1 /\ tags \in Seq(PullRequests)
      BY <1>1, <1>7 DEF ReleasedInv, SerialInv, MergeOK, Merging, LanesInv, TypeOK
    <3>2. QED
      BY <3>1
  <2>4. manifest[PrLane(me.source)] # None /\ manifest[PrLane(me.source)] = me.found
    BY <1>2, <1>4, <1>5, <1>7
  <2>5. Promoted(m, me.version, store, manifest)
    BY <1>2, <1>7, <2>3 DEF SerialInv, VersionLanesOK
  <2>6. QED
    BY <1>2, <1>7, <2>1, <2>2, <2>4, <2>5 DEF Promoted, Holds
<1>9. (me.to[1] # "main" /\ manifest[me.to] # None) =>
        /\ manifest[me.to].assets = me.found.assets
        /\ Holds(store, me.to, "asset", Assets, me.found)
  BY <1>2, <1>7 DEF MainLane
<1> HIDE DEF me
<1>10. QED
  BY <1>1, <1>2, <1>3, <1>4, <1>5, <1>6, <1>9 DEF me

\* Where a run copies it has nothing to build or to post.
LEMMA CopyJob ==
  ASSUME NEW r, NEW me, me.pc \in Copying, NEW objects, NEW manifests, NEW merges, NEW all,
         me.found = manifests[me.lane], me.found # None,
         Holds(objects, me.lane, "asset", Assets, me.found),
         CopyOK(me, objects)
  PROVE  JobOK(r, me, objects, manifests, merges, all) /\ Active(me)
<1>1. me.pc \notin Building /\ Active(me)
  BY DEF Building, SealLoop, Copying, CopyLoop, Active, Ends
<1>2. SeenOK(me, objects, manifests) /\ PostOK(me, all)
  BY DEF SeenOK, PostOK, Copying, CopyLoop, Reading
<1>3. QED
  BY <1>1, <1>2, WhileNotBuilding DEF JobOK

LEMMA CopyGetSerial ==
  ASSUME LanesInv, ReleasedInv, SerialInv, NEW r \in Runs, CopyGet(r)
  PROVE  SerialInv'
<1> DEFINE me == run[r]
           got == store[<<me.lane, "asset", me.asset>>]
           next == [me EXCEPT !.pc = "copy-put", !.held = got]
<1>1. RunOK(me) /\ me.pc = "copy-get" /\ StepIf(r, got # None, next)
  BY RunFacts DEF CopyGet, At
<1>2. /\ Active(me) /\ me.asset \in Assets
      /\ me.found = manifest[me.lane] /\ me.found # None
      /\ Holds(store, me.lane, "asset", Assets, me.found)
      /\ \A a \in Assets : me.found.assets[a] \in Contents
  BY <1>1, CopyingFacts DEF Copying, CopyLoop
<1>3. CopyOK(me, store)
  BY JobFacts
<1>4. got = me.found.assets[me.asset] /\ got # None
  BY <1>2, LanesAssumption DEF Holds
<1>5. /\ next.pc = "copy-put" /\ SameRun(me, next) /\ next.found = me.found /\ next.to = me.to
      /\ next.asset = me.asset /\ next.held = got
  BY <1>1 DEF SameRun, RunOK, RunStates
<1> HIDE DEF next, me, got
<1>6. CopyOK(next, store)
  BY <1>1, <1>3, <1>4, <1>5 DEF CopyOK, Copying, CopyLoop, SameRun, Copied
<1>7. JobOK(r, next, store, manifest, merged, releases) /\ Active(next)
  BY <1>2, <1>5, <1>6, CopyJob DEF SameRun, Copying, CopyLoop
<1>8. QED
  BY <1>1, <1>2, <1>4, <1>5, <1>7, JobStepIfSerial DEF me

LEMMA CopyCheckSerial ==
  ASSUME LanesInv, ReleasedInv, SerialInv, NEW r \in Runs, CopyCheck(r)
  PROVE  SerialInv'
<1> DEFINE me == run[r]
           ok == store[<<me.to, "asset", me.asset>>] = me.held
           next == [me EXCEPT !.pc = "copy-record"]
<1>1. RunOK(me) /\ me.pc = "copy-check" /\ StepIf(r, ok, next)
  BY RunFacts DEF CopyCheck, At
<1>2. /\ Active(me) /\ me.found = manifest[me.lane] /\ me.found # None
      /\ Holds(store, me.lane, "asset", Assets, me.found)
  BY <1>1, CopyingFacts DEF Copying, CopyLoop
<1>3. CopyOK(me, store)
  BY JobFacts
<1>4. ok
  BY <1>1, <1>3 DEF CopyOK, Copying, CopyLoop
<1>5. /\ next.pc = "copy-record" /\ SameRun(me, next) /\ next.found = me.found /\ next.to = me.to
      /\ next.asset = me.asset /\ next.held = me.held
  BY <1>1 DEF SameRun, RunOK, RunStates
<1> HIDE DEF next, me
<1>6. CopyOK(next, store)
  BY <1>1, <1>3, <1>5 DEF CopyOK, Copying, CopyLoop, SameRun, Copied
<1>7. JobOK(r, next, store, manifest, merged, releases) /\ Active(next)
  BY <1>2, <1>5, <1>6, CopyJob DEF SameRun, Copying, CopyLoop
<1>8. QED
  BY <1>1, <1>2, <1>4, <1>5, <1>7, JobStepIfSerial DEF me
-----------------------------------------------------------------------------
(* Steps that put an object.                                                 *)

\* The store after an object was put.
IsPut(l, s, a, content) ==
  \A m \in Lanes, z \in Slots, b \in Assets :
    store'[<<m, z, b>>] = IF m = l /\ z = s /\ b = a THEN content ELSE store[<<m, z, b>>]

LEMMA PutValue ==
  ASSUME LanesInv, NEW l \in Lanes, NEW s \in Slots, NEW a \in Assets,
         NEW content \in Contents \union {None},
         Put(<<l, s, a>>, content)
  PROVE  IsPut(l, s, a, content)
<1>1. store \in [Lanes \X Slots \X Assets -> Contents \union {None}]
  BY DEF LanesInv, TypeOK
<1> SUFFICES ASSUME NEW m \in Lanes, NEW z \in Slots, NEW b \in Assets
             PROVE  store'[<<m, z, b>>] =
                      IF m = l /\ z = s /\ b = a THEN content ELSE store[<<m, z, b>>]
  BY DEF IsPut
<1>2. CASE <<m, z, b>> = <<l, s, a>>
  BY <1>1, <1>2 DEF Put
<1>3. CASE <<m, z, b>> # <<l, s, a>>
  BY <1>1, <1>3 DEF Put
<1>4. QED
  BY <1>2, <1>3

LEMMA SlotNames == "asset" \in Slots /\ "sha256" \in Slots /\ "staging" \in Slots
                   /\ "staging-sha256" \in Slots
BY DEF Slots

\* The version that a lane is of has its tag, if the lane is of one.
Tagged(l) == \A v \in Versions : l = VersionLane(v) => v \in DOMAIN tags

\* What may be put where there is a manifest: over an asset the same one, or one that the
\* manifest is not about unless the lane is that of a version to be tagged; beside an asset
\* its digest.  The main lanes are nobody's source.
MayPut(l, s, a, content) ==
  (l[1] # "main" /\ manifest[l] # None) =>
    /\ s = "asset" => \/ content = store[<<l, "asset", a>>]
                      \/ Tagged(l) /\ content # manifest[l].assets[a]
    /\ s = "sha256" /\ store[<<l, "asset", a>>] = manifest[l].assets[a] =>
         content = manifest[l].assets[a]

LEMMA PutLanes ==
  ASSUME LanesInv, SerialInv, NEW l \in Lanes, NEW s \in Slots, NEW a \in Assets,
         NEW content \in Contents \union {None},
         Put(<<l, s, a>>, content), UNCHANGED <<manifest, latest, github>>,
         MayPut(l, s, a, content)
  PROVE  VersionLanesOK' /\ DigestsOK' /\ OneVersion' /\ ManifestIsTrue'
<1>1. \A m \in Lanes, z \in Slots, b \in Assets :
        store'[<<m, z, b>>] =
          IF m = l /\ z = s /\ b = a THEN content ELSE store[<<m, z, b>>]
  <2>1. IsPut(l, s, a, content)
    BY PutValue
  <2>2. QED
    BY <2>1 DEF IsPut
<1>2. manifest' = manifest /\ tags' = tags /\ merged' = merged /\ releases' = releases
  BY DEF github
<1>3. VersionLanesOK'
  <2> SUFFICES ASSUME NEW v \in Versions, manifest[VersionLane(v)] # None, v \notin DOMAIN tags
               PROVE  Promoted(manifest[VersionLane(v)], v, store', manifest)
    BY <1>2 DEF SerialInv, VersionLanesOK
  <2> DEFINE m == manifest[VersionLane(v)]
  <2>1. Promoted(m, v, store, manifest)
    BY DEF SerialInv, VersionLanesOK
  <2>2. VersionLane(v) \in Lanes /\ VersionLane(v)[1] # "main"
    BY NamedLanes DEF VersionLane
  <2>3. ASSUME NEW b \in Assets
        PROVE  store'[<<VersionLane(v), "asset", b>>] = store[<<VersionLane(v), "asset", b>>]
    <3>1. CASE l = VersionLane(v) /\ s = "asset" /\ b = a
      BY <1>1, <2>2, <3>1 DEF MayPut, Tagged
    <3>2. CASE ~(l = VersionLane(v) /\ s = "asset" /\ b = a)
      BY <1>1, <2>2, <3>2, SlotNames
    <3>3. QED
      BY <3>1, <3>2
  <2> HIDE DEF m
  <2>4. Promoted(m, v, store', manifest)
    BY <2>1, <2>3 DEF Promoted, Holds
  <2>5. QED
    BY <2>4 DEF m
<1>4. DigestsOK'
  <2> SUFFICES ASSUME NEW m \in Lanes, NEW b \in Assets, m[1] # "main", manifest[m] # None,
                      store'[<<m, "asset", b>>] = manifest[m].assets[b]
               PROVE  store'[<<m, "sha256", b>>] = manifest[m].assets[b]
    BY <1>2 DEF DigestsOK
  <2>1. store[<<m, "asset", b>>] = manifest[m].assets[b]
    BY <1>1, SlotNames DEF MayPut
  <2>2. store[<<m, "sha256", b>>] = manifest[m].assets[b]
    BY <2>1 DEF SerialInv, DigestsOK
  <2>3. QED
    BY <1>1, <2>1, <2>2, SlotNames DEF MayPut
<1>5. OneVersion' /\ ManifestIsTrue'
  BY <1>2 DEF SerialInv, OneVersion, ManifestIsTrue
<1>6. QED
  BY <1>3, <1>4, <1>5

BuiltBefore(content) == \A q \in Runs : At(q, "idle") /\ content # None => content.build # q

LEMMA PutSerial ==
  ASSUME LanesInv, SerialInv, NEW l \in Lanes, NEW s \in Slots, NEW a \in Assets,
         NEW content \in Contents \union {None},
         Put(<<l, s, a>>, content), UNCHANGED <<manifest, latest, github>>,
         MayPut(l, s, a, content),
         NEW r \in Runs, NEW next, Goto(r, next), Active(run[r]),
         BuiltBefore(content),
         Active(next), SameRun(run[r], next),
         JobOK(r, next, store', manifest, merged, releases)
  PROVE  SerialInv'
<1>1. manifest' = manifest /\ tags' = tags /\ merged' = merged /\ releases' = releases
  BY DEF github
<1>2. VersionLanesOK' /\ DigestsOK' /\ OneVersion' /\ ManifestIsTrue'
  BY PutLanes
<1>3. next.pc \notin {"idle", "failed"}
  BY DEF Active, Ends
<1>4. RunsSerial'
  <2>1. RunSerial(r, next, store', manifest', tags', merged', releases')
    BY <1>1, JobFacts, SameRunSerial DEF RunSerial
  <2>2. QED
    BY <1>3, <2>1, SerialFacts, OneGoes
<1>5. NothingAhead'
  <2> SUFFICES ASSUME NEW q \in Runs, At(q, "idle")'
               PROVE  Unbuilt(q)'
    BY DEF NothingAhead
  <2>1. At(q, "idle") /\ Unbuilt(q)
    BY <1>3, NoNewIdle DEF SerialInv, NothingAhead
  <2>2. ASSUME NEW k \in Lanes \X Slots \X Assets, store'[k] # None
        PROVE  store'[k].build # q
    <3>1. PICK m \in Lanes, z \in Slots, b \in Assets : k = <<m, z, b>>
      OBVIOUS
    <3>2. IsPut(l, s, a, content)
      BY PutValue
    <3>3. QED
      BY <2>1, <2>2, <3>1, <3>2 DEF Unbuilt, IsPut, BuiltBefore
  <2>3. QED
    BY <1>1, <2>1, <2>2 DEF Unbuilt
<1>6. QED
  BY <1>2, <1>4, <1>5 DEF SerialInv, RunsSerial

-----------------------------------------------------------------------------
(* Building and sealing.                                                     *)

\* What a run builds is not what its lane's manifest is about, nor what another run has built.
LEMMA OwnBuildFacts ==
  ASSUME LanesInv, SerialInv, NEW r \in Runs, run[r].pc \in Building
  PROVE  LET me == run[r] own == OwnBuild(r, run[r], merged) IN
         /\ BuiltBefore(own) /\ Tagged(me.lane)
         /\ manifest[me.lane] # None => \A a \in Assets : own # manifest[me.lane].assets[a]
<1> DEFINE me == run[r]
           own == OwnBuild(r, me, merged)
<1>1. own.build = r
  BY DEF OwnBuild
<1>2. ~At(r, "idle") /\ me.pc # "authorize"
  BY DEF At, Building, SealLoop
<1>3. Active(me) /\ me.phase = "prepare" /\ me.kind \in {"pr", "release"}
  BY BuildingFacts
<1>4. FreshOK(r, me, manifest) /\ SourceOK(me, tags, releases)
  BY JobFacts
<1>5. manifest[me.lane] # None => \A a \in Assets : own # manifest[me.lane].assets[a]
  BY <1>1, <1>2, <1>3, <1>4 DEF FreshOK
<1>6. Tagged(me.lane)
  <2>1. /\ me.kind = "pr" => me.lane = PrLane(me.source)
        /\ me.kind = "release" => me.lane = VersionLane(me.version)
    BY <1>3, RunFacts DEF RunOK, InJob
  <2>2. QED
    BY <1>3, <1>4, <2>1 DEF Tagged, SourceOK, PrLane, VersionLane
<1>7. QED
  BY <1>1, <1>2, <1>5, <1>6 DEF BuiltBefore

LEMMA UploadAssetSerial ==
  ASSUME LanesInv, ReleasedInv, SerialInv, NEW r \in Runs, NEW a \in Assets, UploadAsset(r, a)
  PROVE  SerialInv'
<1> DEFINE me == run[r]
           own == OwnBuild(r, me, merged)
           next == [me EXCEPT !.built[a] = 1]
<1>1. /\ RunOK(me) /\ me.pc = "build" /\ me.built[a] = 0 /\ a \in me.uploads
      /\ Put(<<me.lane, "staging", a>>, Built(r)) /\ Goto(r, next)
      /\ UNCHANGED <<manifest, latest, github>>
  BY RunFacts DEF UploadAsset, At
<1>2. /\ Active(me) /\ me.phase = "prepare" /\ me.uploads \in {{}, Assets} /\ me.lane \in Lanes
      /\ own \in Contents /\ BuildOK(me, store, manifest, merged) /\ StagedOK(r, me, store, merged)
      /\ BuiltBefore(own)
      /\ me.uploads # {}
  BY <1>1, BuildingFacts, JobFacts, OwnBuildFacts DEF Building, BuiltBefore
<1>3. Put(<<me.lane, "staging", a>>, own)
  BY <1>1, <1>2, CommitTrees
<1>4. \A m \in Lanes, z \in Slots, b \in Assets :
        store'[<<m, z, b>>] =
          IF m = me.lane /\ z = "staging" /\ b = a THEN own ELSE store[<<m, z, b>>]
  <2>1. IsPut(me.lane, "staging", a, own)
    BY <1>2, <1>3, SlotNames, PutValue
  <2>2. QED
    BY <2>1 DEF IsPut
<1>5. /\ next.pc = "build" /\ next.phase = "prepare" /\ next.uploads = me.uploads
      /\ SameRun(me, next)
      /\ next.built[a] = 1 /\ \A b \in Assets : b # a => next.built[b] = me.built[b]
  BY <1>1, <1>2 DEF RunOK, RunStates, SameRun
<1> HIDE DEF next, me, own
<1>6. BuildOK(next, store', manifest, merged)
  <2>1. BuildOK(next, store, manifest, merged)
    BY <1>1, <1>2, <1>5, BuildStays DEF Building
  <2>2. QED
    BY <1>2, <1>5, <2>1 DEF BuildOK
<1>7. StagedOK(r, next, store', merged)
  <2>1. \A b \in next.uploads : b \in Assets
    BY <1>2, <1>5
  <2>2. OwnBuild(r, next, merged) = own /\ next.lane = me.lane
    BY <1>5, OwnBuildStays DEF own, SameRun
  <2>3. \A b \in me.uploads :
          /\ me.built[b] # 0 => store[<<me.lane, "staging", b>>] = own
          /\ me.built[b] = 2 => store[<<me.lane, "staging-sha256", b>>] = own
    BY <1>1, <1>2 DEF StagedOK, own
  <2>4. \A b \in next.uploads :
          /\ next.built[b] # 0 => store'[<<me.lane, "staging", b>>] = own
          /\ next.built[b] = 2 => store'[<<me.lane, "staging-sha256", b>>] = own
    BY <1>1, <1>2, <1>4, <1>5, <2>1, <2>3, SlotNames
  <2>5. QED
    BY <1>5, <2>2, <2>4 DEF StagedOK, SealLoop
<1>8. SealOK(r, next, store', merged)
  BY <1>5 DEF SealOK, SealLoop
<1>9. JobOK(r, next, store', manifest, merged, releases) /\ Active(next)
  BY <1>5, <1>6, <1>7, <1>8, BuildJob DEF Building, Active, Ends
<1>10. QED
  <2>1. MayPut(me.lane, "staging", a, own)
    BY DEF MayPut
  <2>2. QED
    BY <1>1, <1>2, <1>3, <1>5, <1>9, <2>1, SlotNames, PutSerial DEF me

LEMMA UploadDigestSerial ==
  ASSUME LanesInv, ReleasedInv, SerialInv, NEW r \in Runs, NEW a \in Assets, UploadDigest(r, a)
  PROVE  SerialInv'
<1> DEFINE me == run[r]
           own == OwnBuild(r, me, merged)
           next == [me EXCEPT !.built[a] = 2]
<1>1. /\ RunOK(me) /\ me.pc = "build" /\ me.built[a] = 1
      /\ Put(<<me.lane, "staging-sha256", a>>, Built(r)) /\ Goto(r, next)
      /\ UNCHANGED <<manifest, latest, github>>
  BY RunFacts DEF UploadDigest, At
<1>2. /\ Active(me) /\ me.phase = "prepare" /\ me.uploads \in {{}, Assets} /\ me.lane \in Lanes
      /\ own \in Contents /\ BuildOK(me, store, manifest, merged) /\ StagedOK(r, me, store, merged)
      /\ BuiltBefore(own)
  BY <1>1, BuildingFacts, JobFacts, OwnBuildFacts DEF Building, BuiltBefore
<1>3. Put(<<me.lane, "staging-sha256", a>>, own)
  BY <1>1, <1>2, CommitTrees
<1>4. \A m \in Lanes, z \in Slots, b \in Assets :
        store'[<<m, z, b>>] =
          IF m = me.lane /\ z = "staging-sha256" /\ b = a THEN own ELSE store[<<m, z, b>>]
  <2>1. IsPut(me.lane, "staging-sha256", a, own)
    BY <1>2, <1>3, SlotNames, PutValue
  <2>2. QED
    BY <2>1 DEF IsPut
<1>5. /\ next.pc = "build" /\ next.phase = "prepare" /\ next.uploads = me.uploads
      /\ SameRun(me, next)
      /\ next.built[a] = 2 /\ \A b \in Assets : b # a => next.built[b] = me.built[b]
  BY <1>1, <1>2 DEF RunOK, RunStates, SameRun
<1> HIDE DEF next, me, own
<1>6. BuildOK(next, store', manifest, merged)
  <2>1. BuildOK(next, store, manifest, merged)
    BY <1>1, <1>2, <1>5, BuildStays DEF Building
  <2>2. next.lane \in Lanes /\ \A b \in Assets :
          store'[<<next.lane, "asset", b>>] = store[<<next.lane, "asset", b>>]
    BY <1>2, <1>4, <1>5, SlotNames DEF SameRun
  <2>3. QED
    BY <1>5, <2>1, <2>2 DEF BuildOK, Holds
<1>7. StagedOK(r, next, store', merged)
  <2>1. \A b \in next.uploads : b \in Assets
    BY <1>2, <1>5
  <2>2. OwnBuild(r, next, merged) = own /\ next.lane = me.lane
    BY <1>5, OwnBuildStays DEF own, SameRun
  <2>3. \A b \in me.uploads :
          /\ me.built[b] # 0 => store[<<me.lane, "staging", b>>] = own
          /\ me.built[b] = 2 => store[<<me.lane, "staging-sha256", b>>] = own
    BY <1>1, <1>2 DEF StagedOK, own
  <2>4. \A b \in next.uploads :
          /\ next.built[b] # 0 => store'[<<me.lane, "staging", b>>] = own
          /\ next.built[b] = 2 => store'[<<me.lane, "staging-sha256", b>>] = own
    BY <1>1, <1>2, <1>4, <1>5, <2>1, <2>3, SlotNames
  <2>5. QED
    BY <1>5, <2>2, <2>4 DEF StagedOK, SealLoop
<1>8. SealOK(r, next, store', merged)
  BY <1>5 DEF SealOK, SealLoop
<1>9. JobOK(r, next, store', manifest, merged, releases) /\ Active(next)
  BY <1>5, <1>6, <1>7, <1>8, BuildJob DEF Building, Active, Ends
<1>10. QED
  <2>1. MayPut(me.lane, "staging-sha256", a, own)
    BY DEF MayPut
  <2>2. QED
    BY <1>1, <1>2, <1>3, <1>5, <1>9, <2>1, SlotNames, PutSerial DEF me

\* What the seal job of a run that has built the assets holds, finds and has sealed.
SealsOwn(r, me, objects) ==
  LET own == OwnBuild(r, me, merged) IN
  /\ me.held = own /\ me.uploads = Assets /\ me.uploads # {}
  /\ \A a \in Assets : a > me.asset =>
       /\ objects[<<me.lane, "staging", a>>] = own
       /\ objects[<<me.lane, "staging-sha256", a>>] = own
  /\ \A b \in Earlier(me.asset) :
       /\ objects[<<me.lane, "asset", b>>] = me.files[b]
       /\ objects[<<me.lane, "sha256", b>>] = me.files[b]
       /\ me.files[b].tree = CommitTree(me, merged)
       /\ me.files[b].version = me.version

\* What the seal job puts leaves the other assets alone.
LEMMA SealPut ==
  ASSUME LanesInv, SerialInv, NEW r \in Runs, NEW s \in Slots,
         run[r].pc \in SealLoop \ {"seal-get", "seal-digest"},
         NEW content, IsPut(run[r].lane, s, run[r].asset, content)
  PROVE  LET me == run[r]
             own == OwnBuild(r, run[r], merged)
         IN
         /\ SealsOwn(r, me, store') /\ me.held = own /\ own \in Contents
         /\ own.tree = CommitTree(me, merged) /\ own.version = me.version
         /\ Active(me) /\ me.phase = "prepare" /\ me.lane \in Lanes /\ me.asset \in Assets
         /\ BuildOK(me, store', manifest, merged)
<1> DEFINE me == run[r]
           own == OwnBuild(r, me, merged)
<1>1. /\ Active(me) /\ me.phase = "prepare" /\ me.lane \in Lanes /\ me.asset \in Assets
      /\ me.uploads \in {{}, Assets} /\ own \in Contents
  BY BuildingFacts DEF Building
<1>2. /\ BuildOK(me, store, manifest, merged) /\ StagedOK(r, me, store, merged)
      /\ SealOK(r, me, store, merged)
  BY JobFacts
<1>3. me.uploads = Assets /\ me.uploads # {} /\ me.held = own
  BY <1>1, <1>2 DEF SealOK
<1>4. own.tree = CommitTree(me, merged) /\ own.version = me.version
  BY DEF OwnBuild
<1>5. \A m \in Lanes, z \in Slots, b \in Assets :
        store'[<<m, z, b>>] =
          IF m = me.lane /\ z = s /\ b = me.asset THEN content ELSE store[<<m, z, b>>]
  BY DEF IsPut
<1>6. \A a \in Assets : a > me.asset => a # me.asset
  BY <1>1 DEF Assets
<1>7. \A b \in Earlier(me.asset) : b \in Assets /\ b # me.asset
  BY <1>1 DEF Earlier, Assets
<1>8. \A a \in Assets : a > me.asset =>
        /\ store[<<me.lane, "staging", a>>] = own
        /\ store[<<me.lane, "staging-sha256", a>>] = own
  BY <1>2, <1>3 DEF StagedOK
<1>9. \A b \in Earlier(me.asset) :
        /\ store[<<me.lane, "asset", b>>] = me.files[b]
        /\ store[<<me.lane, "sha256", b>>] = me.files[b]
        /\ me.files[b].tree = CommitTree(me, merged)
        /\ me.files[b].version = me.version
  BY <1>2 DEF SealOK, Collected, SealLoop
<1> HIDE DEF me, own
<1>10. \A a \in Assets : a > me.asset =>
         /\ store'[<<me.lane, "staging", a>>] = own
         /\ store'[<<me.lane, "staging-sha256", a>>] = own
  BY <1>1, <1>5, <1>6, <1>8, SlotNames
<1>11. \A b \in Earlier(me.asset) :
         /\ store'[<<me.lane, "asset", b>>] = me.files[b]
         /\ store'[<<me.lane, "sha256", b>>] = me.files[b]
  BY <1>1, <1>5, <1>7, <1>9, SlotNames
<1>12. BuildOK(me, store', manifest, merged)
  BY <1>2, <1>3 DEF BuildOK
<1>13. SealsOwn(r, me, store')
  BY <1>3, <1>9, <1>10, <1>11 DEF SealsOwn, own
<1>14. QED
  BY <1>1, <1>3, <1>4, <1>12, <1>13 DEF me, own

\* Where the seal job goes on with the same asset.
LEMMA SealOnward ==
  ASSUME LanesInv, SerialInv, NEW r \in Runs, NEW next, NEW objects,
         LET me == run[r]
             own == OwnBuild(r, run[r], merged)
         IN
         /\ SealsOwn(r, me, objects) /\ BuildOK(me, objects, manifest, merged)
         /\ me.pc \in Building /\ SameRun(me, next) /\ next.uploads = me.uploads
         /\ next.asset = me.asset /\ next.held = me.held /\ next.files = me.files
         /\ objects[<<me.lane, "asset", me.asset>>] = own
         /\ next.pc \in {"seal-clean", "seal-clean-digest"} =>
              objects[<<me.lane, "sha256", me.asset>>] = own,
         next.phase = "prepare",
         next.pc \in SealLoop \ {"seal-get", "seal-digest", "seal-copy"}
  PROVE  /\ Active(next) /\ StagedOK(r, next, objects, merged)
         /\ BuildOK(next, objects, manifest, merged) /\ SealOK(r, next, objects, merged)
         /\ JobOK(r, next, objects, manifest, merged, releases)
<1> DEFINE me == run[r]
           own == OwnBuild(r, me, merged)
<1>1. Active(next) /\ next.pc \in Building /\ next.pc \in SealLoop
  BY DEF Active, Ends, Building, SealLoop
<1>2. /\ OwnBuild(r, next, merged) = own /\ next.lane = me.lane /\ next.version = me.version
      /\ CommitTree(next, merged) = CommitTree(me, merged)
  BY OwnBuildStays DEF SameRun
<1>3. StagedOK(r, next, objects, merged)
  BY <1>1, <1>2 DEF StagedOK, SealLoop, SealsOwn
<1>4. BuildOK(next, objects, manifest, merged)
  BY BuildStays
<1>5. SealOK(r, next, objects, merged)
  <2>1. Collected(next) = Earlier(me.asset)
    BY <1>1 DEF Collected, SealLoop
  <2>2. QED
    BY <1>1, <1>2, <2>1 DEF SealOK, SealsOwn
<1>6. QED
  BY <1>1, <1>3, <1>4, <1>5, BuildJob

LEMMA SealCopySerial ==
  ASSUME LanesInv, ReleasedInv, SerialInv, NEW r \in Runs, SealCopy(r)
  PROVE  SerialInv'
<1> DEFINE me == run[r]
           own == OwnBuild(r, me, merged)
           next == [me EXCEPT !.pc = "seal-check"]
<1>1. /\ RunOK(me) /\ me.pc = "seal-copy"
      /\ CopyObject(r, <<me.lane, "staging", me.asset>>, <<me.lane, "asset", me.asset>>, next)
      /\ UNCHANGED <<manifest, latest, github>>
  BY RunFacts DEF SealCopy, At
<1>2. /\ Active(me) /\ me.phase = "prepare" /\ me.uploads \in {{}, Assets} /\ me.lane \in Lanes
      /\ me.asset \in Assets /\ own \in Contents
  BY <1>1, BuildingFacts DEF Building, SealLoop
<1>3. me.uploads = Assets /\ me.uploads # {} /\ store[<<me.lane, "staging", me.asset>>] = own
  <2>1. StagedOK(r, me, store, merged) /\ SealOK(r, me, store, merged)
    BY JobFacts
  <2>2. me.uploads # {}
    BY <1>1, <2>1 DEF SealOK, SealLoop
  <2>3. QED
    BY <1>1, <1>2, <2>1, <2>2 DEF StagedOK, SealLoop
<1>4. Goto(r, next) /\ Put(<<me.lane, "asset", me.asset>>, own)
  BY <1>1, <1>2, <1>3, LanesAssumption DEF CopyObject, Check
<1>5. IsPut(me.lane, "asset", me.asset, own)
  BY <1>2, <1>4, SlotNames, PutValue
<1>6. /\ SealsOwn(r, me, store') /\ BuildOK(me, store', manifest, merged)
      /\ store'[<<me.lane, "asset", me.asset>>] = own
  <2>1. /\ SealsOwn(r, me, store') /\ BuildOK(me, store', manifest, merged)
    BY <1>1, <1>5, SlotNames, SealPut DEF SealLoop
  <2>2. QED
    BY <1>2, <1>1, <1>5, <2>1, SlotNames DEF IsPut
<1>7. /\ next.pc = "seal-check" /\ next.phase = "prepare" /\ next.uploads = me.uploads
      /\ next.asset = me.asset /\ next.held = me.held /\ next.files = me.files
      /\ SameRun(me, next)
  BY <1>1, <1>2 DEF RunOK, RunStates, SameRun
<1>8. BuiltBefore(own) /\ MayPut(me.lane, "asset", me.asset, own)
  BY <1>1, <1>2, <1>3, OwnBuildFacts DEF MayPut, Building, SealLoop
<1> HIDE DEF me, own, next
<1>9. JobOK(r, next, store', manifest, merged, releases) /\ Active(next)
  BY <1>1, <1>6, <1>7, SealOnward DEF me, own, Building, SealLoop
<1>10. QED
  BY <1>1, <1>2, <1>4, <1>7, <1>8, <1>9, SlotNames, PutSerial DEF me

LEMMA SealRecordSerial ==
  ASSUME LanesInv, ReleasedInv, SerialInv, NEW r \in Runs, SealRecord(r)
  PROVE  SerialInv'
<1> DEFINE me == run[r]
           own == OwnBuild(r, me, merged)
           next == [me EXCEPT !.pc = "seal-clean"]
<1>1. /\ RunOK(me) /\ me.pc = "seal-record"
      /\ Put(<<me.lane, "sha256", me.asset>>, me.held) /\ Goto(r, next)
      /\ UNCHANGED <<manifest, latest, github>>
  BY RunFacts DEF SealRecord, At
<1>2. /\ Active(me) /\ me.phase = "prepare" /\ me.lane \in Lanes
      /\ me.asset \in Assets /\ me.held \in Contents
  BY <1>1, BuildingFacts DEF Building, SealLoop, RunOK, HoldsWhatItNeeds
<1>3. IsPut(me.lane, "sha256", me.asset, me.held)
  BY <1>1, <1>2, SlotNames, PutValue
<1>4. /\ SealsOwn(r, me, store') /\ BuildOK(me, store', manifest, merged) /\ me.held = own
      /\ store'[<<me.lane, "sha256", me.asset>>] = own
      /\ store'[<<me.lane, "asset", me.asset>>] = store[<<me.lane, "asset", me.asset>>]
  <2>1. /\ SealsOwn(r, me, store') /\ BuildOK(me, store', manifest, merged) /\ me.held = own
    BY <1>1, <1>3, SlotNames, SealPut DEF SealLoop
  <2>2. QED
    BY <1>2, <1>1, <1>3, <2>1, SlotNames DEF IsPut
<1>5. store[<<me.lane, "asset", me.asset>>] = own
  <2>1. SealOK(r, me, store, merged)
    BY JobFacts
  <2>2. QED
    BY <1>1, <1>4, <2>1 DEF SealOK, SealLoop
<1>6. /\ next.pc = "seal-clean" /\ next.phase = "prepare" /\ next.uploads = me.uploads
      /\ next.asset = me.asset /\ next.held = me.held /\ next.files = me.files
      /\ SameRun(me, next)
  BY <1>1, <1>2 DEF RunOK, RunStates, SameRun
<1>7. BuiltBefore(me.held) /\ MayPut(me.lane, "sha256", me.asset, me.held)
  BY <1>1, <1>2, <1>4, <1>5, OwnBuildFacts DEF MayPut, Building, SealLoop
<1> HIDE DEF me, own, next
<1>8. JobOK(r, next, store', manifest, merged, releases) /\ Active(next)
  BY <1>1, <1>4, <1>5, <1>6, SealOnward DEF me, own, Building, SealLoop
<1>9. QED
  BY <1>1, <1>2, <1>6, <1>7, <1>8, SlotNames, PutSerial DEF me

\* Nothing is deleted but what was staged.
LEMMA MayClean ==
  BuiltBefore(None) /\ \A l \in Lanes, a \in Assets :
    MayPut(l, "staging", a, None) /\ MayPut(l, "staging-sha256", a, None)
BY DEF MayPut, BuiltBefore

LEMMA SealCleanSerial ==
  ASSUME LanesInv, ReleasedInv, SerialInv, NEW r \in Runs, SealClean(r)
  PROVE  SerialInv'
<1> DEFINE me == run[r]
           own == OwnBuild(r, me, merged)
           next == [me EXCEPT !.pc = "seal-clean-digest"]
<1>1. /\ RunOK(me) /\ me.pc = "seal-clean"
      /\ Put(<<me.lane, "staging", me.asset>>, None) /\ Goto(r, next)
      /\ UNCHANGED <<manifest, latest, github>>
  BY RunFacts DEF SealClean, At
<1>2. /\ Active(me) /\ me.phase = "prepare" /\ me.lane \in Lanes
      /\ me.asset \in Assets
  BY <1>1, BuildingFacts DEF Building, SealLoop
<1>3. IsPut(me.lane, "staging", me.asset, None)
  BY <1>1, <1>2, SlotNames, PutValue
<1>4. /\ SealsOwn(r, me, store') /\ BuildOK(me, store', manifest, merged) /\ me.held = own
      /\ store'[<<me.lane, "sha256", me.asset>>] = store[<<me.lane, "sha256", me.asset>>]
      /\ store'[<<me.lane, "asset", me.asset>>] = store[<<me.lane, "asset", me.asset>>]
  <2>1. /\ SealsOwn(r, me, store') /\ BuildOK(me, store', manifest, merged) /\ me.held = own
    BY <1>1, <1>3, SlotNames, SealPut DEF SealLoop
  <2>2. QED
    BY <1>2, <1>1, <1>3, <2>1, SlotNames DEF IsPut
<1>5. /\ store[<<me.lane, "asset", me.asset>>] = own
      /\ store[<<me.lane, "sha256", me.asset>>] = own
  <2>1. SealOK(r, me, store, merged)
    BY JobFacts
  <2>2. QED
    BY <1>1, <1>4, <2>1 DEF SealOK, SealLoop
<1>6. /\ next.pc = "seal-clean-digest" /\ next.phase = "prepare" /\ next.uploads = me.uploads
      /\ next.asset = me.asset /\ next.held = me.held /\ next.files = me.files
      /\ SameRun(me, next)
  BY <1>1, <1>2 DEF RunOK, RunStates, SameRun
<1> HIDE DEF me, own, next
<1>7. JobOK(r, next, store', manifest, merged, releases) /\ Active(next)
  BY <1>1, <1>4, <1>5, <1>6, SealOnward DEF me, own, Building, SealLoop
<1>8. QED
  BY <1>1, <1>2, <1>6, <1>7, MayClean, SlotNames, PutSerial DEF me

LEMMA SealCleanDigestSerial ==
  ASSUME LanesInv, ReleasedInv, SerialInv, NEW r \in Runs, SealCleanDigest(r)
  PROVE  SerialInv'
<1> DEFINE me == run[r]
           own == OwnBuild(r, me, merged)
           next == Advance(Sealed(me), "seal-get", "seal-manifest")
<1>1. /\ RunOK(me) /\ me.pc = "seal-clean-digest"
      /\ Put(<<me.lane, "staging-sha256", me.asset>>, None) /\ Goto(r, next)
      /\ UNCHANGED <<manifest, latest, github>>
  BY RunFacts DEF SealCleanDigest, At
<1>2. /\ Active(me) /\ me.phase = "prepare" /\ me.lane \in Lanes
      /\ me.asset \in Assets /\ me \in RunStates
  BY <1>1, BuildingFacts DEF Building, SealLoop, RunOK
<1>3. IsPut(me.lane, "staging-sha256", me.asset, None)
  BY <1>1, <1>2, SlotNames, PutValue
<1>4. /\ SealsOwn(r, me, store') /\ BuildOK(me, store', manifest, merged) /\ me.held = own
      /\ own \in Contents /\ own.tree = CommitTree(me, merged) /\ own.version = me.version
      /\ store'[<<me.lane, "sha256", me.asset>>] = store[<<me.lane, "sha256", me.asset>>]
      /\ store'[<<me.lane, "asset", me.asset>>] = store[<<me.lane, "asset", me.asset>>]
  <2>1. /\ SealsOwn(r, me, store') /\ BuildOK(me, store', manifest, merged)
        /\ me.held = own /\ own \in Contents
        /\ own.tree = CommitTree(me, merged) /\ own.version = me.version
    BY <1>1, <1>3, SlotNames, SealPut DEF SealLoop
  <2>2. QED
    BY <1>2, <1>1, <1>3, <2>1, SlotNames DEF IsPut
<1>5. /\ store[<<me.lane, "asset", me.asset>>] = own
      /\ store[<<me.lane, "sha256", me.asset>>] = own
  <2>1. SealOK(r, me, store, merged)
    BY JobFacts
  <2>2. QED
    BY <1>1, <1>4, <2>1 DEF SealOK, SealLoop
<1> HIDE DEF own
<1>6. StagedOK(r, me, store', merged) /\ SealOK(r, me, store', merged)
  <2>1. SameRun(me, me)
    BY <1>1 DEF SameRun
  <2>2. QED
    BY <1>1, <1>2, <1>4, <1>5, <2>1, SealOnward DEF own, Building, SealLoop
<1>7. /\ JobOK(r, next, store', manifest, merged, releases) /\ Active(next)
      /\ SameRun(me, next)
  <2> HIDE DEF me, next
  <2>1. QED
    BY <1>1, <1>2, <1>4, <1>5, <1>6, CollectedSerial DEF next, SealLoop
<1> HIDE DEF me, next
<1>8. QED
  BY <1>1, <1>2, <1>7, MayClean, SlotNames, PutSerial DEF me
-----------------------------------------------------------------------------
(* Copying, where it puts an object.                                         *)

\* A copy changes nothing in a version lane that has a manifest already.
LEMMA CopyMayPut ==
  ASSUME LanesInv, ReleasedInv, SerialInv, NEW r \in Runs, run[r].pc \in Copying
  PROVE  LET me == run[r]
             got == run[r].found.assets[run[r].asset]
         IN /\ BuiltBefore(got) /\ got \in Contents
            /\ MayPut(me.to, "asset", me.asset, got)
            /\ MayPut(me.to, "sha256", me.asset, got)
<1> DEFINE me == run[r]
           got == me.found.assets[me.asset]
<1>1. /\ me.asset \in Assets /\ me.lane \in Lanes /\ me.to \in Lanes
      /\ me.source \in PullRequests /\ me.version \in Versions
      /\ me.found = manifest[me.lane] /\ me.found # None
      /\ \A a \in Assets : me.found.assets[a] \in Contents
      /\ (me.to[1] # "main" /\ manifest[me.to] # None) =>
           /\ manifest[me.to].assets = me.found.assets
           /\ Holds(store, me.to, "asset", Assets, me.found)
  BY CopyingFacts
<1>2. got \in Contents
  BY <1>1
<1>3. BuiltBefore(got)
  BY <1>1 DEF BuiltBefore, SerialInv, NothingAhead, Unbuilt
<1>5. MayPut(me.to, "asset", me.asset, got) /\ MayPut(me.to, "sha256", me.asset, got)
  BY <1>1 DEF MayPut, Holds
<1>6. QED
  BY <1>2, <1>3, <1>5

\* The lane that is copied stays as it is, and so does what was copied before.
LEMMA CopyPuts ==
  ASSUME LanesInv, ReleasedInv, SerialInv, NEW r \in Runs, run[r].pc \in CopyLoop,
         NEW s \in Slots, NEW content, IsPut(run[r].to, s, run[r].asset, content)
  PROVE  LET me == run[r] IN
         /\ Holds(store', me.lane, "asset", Assets, me.found)
         /\ Holds(store', me.to, "asset", Earlier(me.asset), me.found)
         /\ Holds(store', me.to, "sha256", Earlier(me.asset), me.found)
<1> DEFINE me == run[r]
<1>1. /\ me.asset \in Assets /\ me.lane \in Lanes /\ me.to \in Lanes /\ me.to # me.lane
      /\ Holds(store, me.lane, "asset", Assets, me.found)
  BY CopyingFacts DEF Copying
<1>2. CopyOK(me, store)
  BY JobFacts
<1>3. /\ Holds(store, me.to, "asset", Earlier(me.asset), me.found)
      /\ Holds(store, me.to, "sha256", Earlier(me.asset), me.found)
  BY <1>2 DEF CopyOK, Copied, CopyLoop, Copying
<1>4. \A b \in Earlier(me.asset) : b \in Assets /\ b # me.asset
  BY <1>1 DEF Earlier, Assets
<1> HIDE DEF me
<1>5. \A m \in Lanes, z \in Slots, b \in Assets :
        store'[<<m, z, b>>] =
          IF m = me.to /\ z = s /\ b = me.asset THEN content ELSE store[<<m, z, b>>]
  BY DEF IsPut, me
<1>6. Holds(store', me.lane, "asset", Assets, me.found)
  BY <1>1, <1>5, SlotNames DEF Holds
<1>7. /\ Holds(store', me.to, "asset", Earlier(me.asset), me.found)
      /\ Holds(store', me.to, "sha256", Earlier(me.asset), me.found)
  BY <1>1, <1>3, <1>4, <1>5, SlotNames DEF Holds
<1>8. QED
  BY <1>6, <1>7 DEF me

LEMMA CopyPutSerial ==
  ASSUME LanesInv, ReleasedInv, SerialInv, NEW r \in Runs, CopyPut(r)
  PROVE  SerialInv'
<1> DEFINE me == run[r]
           got == me.found.assets[me.asset]
           next == [me EXCEPT !.pc = "copy-check"]
<1>1. /\ RunOK(me) /\ me.pc = "copy-put"
      /\ CopyObject(r, <<me.lane, "asset", me.asset>>, <<me.to, "asset", me.asset>>, next)
      /\ UNCHANGED <<manifest, latest, github>>
  BY RunFacts DEF CopyPut, At
<1>2. /\ Active(me) /\ me.asset \in Assets /\ me.lane \in Lanes /\ me.to \in Lanes
      /\ me.found = manifest[me.lane] /\ me.found # None
      /\ Holds(store, me.lane, "asset", Assets, me.found)
      /\ BuiltBefore(got) /\ got \in Contents /\ MayPut(me.to, "asset", me.asset, got)
  BY <1>1, CopyingFacts, CopyMayPut DEF Copying, CopyLoop
<1>3. Goto(r, next) /\ Put(<<me.to, "asset", me.asset>>, got)
  <2>1. store[<<me.lane, "asset", me.asset>>] = got /\ got # None
    BY <1>2, LanesAssumption DEF Holds
  <2>2. QED
    BY <1>1, <2>1 DEF CopyObject, Check
<1>4. IsPut(me.to, "asset", me.asset, got)
  BY <1>2, <1>3, SlotNames, PutValue
<1>5. store'[<<me.to, "asset", me.asset>>] = got
  BY <1>2, <1>4, SlotNames DEF IsPut
<1>6. /\ Holds(store', me.lane, "asset", Assets, me.found)
      /\ Holds(store', me.to, "asset", Earlier(me.asset), me.found)
      /\ Holds(store', me.to, "sha256", Earlier(me.asset), me.found)
  BY <1>1, <1>4, SlotNames, CopyPuts DEF CopyLoop
<1>7. CopyOK(me, store)
  BY JobFacts
<1>8. /\ next.pc = "copy-check" /\ SameRun(me, next) /\ next.found = me.found /\ next.to = me.to
      /\ next.asset = me.asset /\ next.held = me.held
  BY <1>1 DEF SameRun, RunOK, RunStates
<1> HIDE DEF next, me
<1>9. CopyOK(next, store')
  BY <1>1, <1>5, <1>6, <1>7, <1>8 DEF CopyOK, Copying, CopyLoop, SameRun, Copied
<1>10. JobOK(r, next, store', manifest, merged, releases) /\ Active(next)
  BY <1>2, <1>6, <1>8, <1>9, CopyJob DEF SameRun, Copying, CopyLoop
<1> HIDE DEF got
<1>11. QED
  BY <1>1, <1>2, <1>3, <1>8, <1>10, SlotNames, PutSerial DEF me

LEMMA CopyRecordSerial ==
  ASSUME LanesInv, ReleasedInv, SerialInv, NEW r \in Runs, CopyRecord(r)
  PROVE  SerialInv'
<1> DEFINE me == run[r]
           next == Advance(me, "copy-get", "copy-manifest")
<1>1. /\ RunOK(me) /\ me.pc = "copy-record"
      /\ Put(<<me.to, "sha256", me.asset>>, me.held) /\ Goto(r, next)
      /\ UNCHANGED <<manifest, latest, github>>
  BY RunFacts DEF CopyRecord, At
<1>2. CopyOK(me, store)
  BY JobFacts
<1>3. /\ me.held = me.found.assets[me.asset]
      /\ store[<<me.to, "asset", me.asset>>] = me.held
  BY <1>1, <1>2 DEF CopyOK, Copying, CopyLoop
<1>4. /\ Active(me) /\ me.asset \in Assets /\ me.lane \in Lanes /\ me.to \in Lanes
      /\ me.found = manifest[me.lane] /\ me.found # None
      /\ BuiltBefore(me.held) /\ me.held \in Contents /\ MayPut(me.to, "sha256", me.asset, me.held)
  BY <1>1, <1>3, CopyingFacts, CopyMayPut DEF Copying, CopyLoop
<1>5. IsPut(me.to, "sha256", me.asset, me.held)
  BY <1>1, <1>4, SlotNames, PutValue
<1>6. /\ store'[<<me.to, "sha256", me.asset>>] = me.held
      /\ store'[<<me.to, "asset", me.asset>>] = me.held
  BY <1>3, <1>4, <1>5, SlotNames DEF IsPut
<1>7. /\ Holds(store', me.lane, "asset", Assets, me.found)
      /\ Holds(store', me.to, "asset", Earlier(me.asset), me.found)
      /\ Holds(store', me.to, "sha256", Earlier(me.asset), me.found)
  BY <1>1, <1>5, SlotNames, CopyPuts DEF CopyLoop
<1>8. /\ SameJob(me, next) /\ next.built = me.built
      /\ \/ /\ next.pc = "copy-get" /\ next.asset \in Assets
            /\ Earlier(next.asset) = Earlier(me.asset) \union {me.asset}
         \/ next.pc = "copy-manifest" /\ Assets = Earlier(me.asset) \union {me.asset}
  <2>1. "copy-get" \in Points /\ "copy-manifest" \in Points /\ me \in RunStates
    BY <1>1 DEF Points, RunOK
  <2>2. QED
    BY <2>1, AdvanceSerial
<1> HIDE DEF next, me
<1>9. /\ SameRun(me, next) /\ next.found = me.found /\ next.to = me.to /\ next.pc \in Copying
  BY <1>1, <1>8 DEF SameJob, SameRun, Copying, CopyLoop
<1>10. CopyOK(next, store')
  <2>1. Copied(next) = Earlier(me.asset) \union {me.asset}
    BY <1>8 DEF Copied
  <2>2. /\ Holds(store', next.to, "asset", Copied(next), next.found)
        /\ Holds(store', next.to, "sha256", Copied(next), next.found)
    BY <1>3, <1>6, <1>7, <1>9, <2>1 DEF Holds
  <2>3. next.pc \in {"copy-get", "copy-manifest"}
    BY <1>8
  <2>4. QED
    BY <1>1, <1>2, <1>9, <2>2, <2>3 DEF CopyOK, SameRun, Copying, CopyLoop
<1>11. JobOK(r, next, store', manifest, merged, releases) /\ Active(next)
  BY <1>4, <1>7, <1>9, <1>10, CopyJob DEF SameRun
<1>12. QED
  BY <1>1, <1>4, <1>9, <1>11, SlotNames, PutSerial DEF me
-----------------------------------------------------------------------------
(* Steps that write a manifest, and main/latest.json.                        *)

\* A step that writes no more than main/latest.json.
LEMMA UnchangedSerial ==
  ASSUME LanesInv, SerialInv, NEW r \in Runs, NEW next, Goto(r, next), next.pc # "idle",
         UNCHANGED <<store, manifest, github>>,
         \A q \in Runs : q # r => ~Active(run[q]),
         next.pc = "failed" => next.kind \notin {"pr", "release"},
         RunSerial(r, next, store, manifest, tags, merged, releases)
  PROVE  SerialInv'
<1>1. /\ store' = store /\ manifest' = manifest
      /\ tags' = tags /\ merged' = merged /\ releases' = releases
  BY DEF github
<1>2. RunsSerial'
  BY <1>1, OneGoes
<1>3. NothingAhead'
  BY <1>1, NoNewIdle DEF SerialInv, NothingAhead, Unbuilt
<1>4. OneVersion' /\ VersionLanesOK' /\ DigestsOK' /\ ManifestIsTrue'
  BY <1>1 DEF SerialInv, OneVersion, VersionLanesOK, DigestsOK, ManifestIsTrue
<1>5. QED
  BY <1>2, <1>3, <1>4 DEF SerialInv, RunsSerial

LEMMA PutLatestSerial ==
  ASSUME LanesInv, ReleasedInv, SerialInv, NEW r \in Runs, PutLatest(r)
  PROVE  SerialInv'
<1> DEFINE me == run[r]
           next == Ended(me, "done")
<1>1. me.pc = "latest" /\ Active(me) /\ Goto(r, next) /\ UNCHANGED <<store, manifest, github>>
  BY DEF PutLatest, At, Active, Ends
<1>2. next.pc = "done" /\ ~Active(next)
  BY DEF Ended, Idle, Active, Ends
<1>3. RunSerial(r, next, store, manifest, tags, merged, releases)
  BY <1>2, InactiveSerial
<1> HIDE DEF next
<1>4. QED
  BY <1>1, <1>2, <1>3, SerialFacts, UnchangedSerial

\* The manifest that the publish job writes back is the one that is there.
LEMMA VersionManifestSerial ==
  ASSUME LanesInv, ReleasedInv, SerialInv, NEW r \in Runs, VersionManifest(r)
  PROVE  SerialInv'
<1> DEFINE me == run[r]
           next == [me EXCEPT !.pc = "latest"]
<1>1. /\ RunOK(me) /\ me.pc = "version-manifest" /\ Active(me) /\ Goto(r, next)
      /\ manifest' = [manifest EXCEPT ![me.lane] = me.found]
      /\ UNCHANGED <<store, latest, github>>
  BY RunFacts DEF VersionManifest, At, Active, Ends
<1>2. /\ me.kind = "release" /\ me.phase = "publish"
      /\ me.lane \in Lanes /\ me.found = manifest[me.lane] /\ SeenOK(me, store, manifest)
  <2>1. me.kind = "release" /\ me.phase = "publish"
    BY <1>1 DEF RunOK, InJob, Preparing, Promoting, Reading, Copying, CopyLoop, SealLoop
  <2>2. me.found = manifest[me.lane] /\ SeenOK(me, store, manifest)
    BY <1>1, <2>1, JobFacts DEF SeenOK, HasRead
  <2>3. QED
    BY <1>1, <2>1, <2>2, ActiveFacts
<1>3. manifest' = manifest
  BY <1>1, <1>2 DEF LanesInv, TypeOK
<1>4. /\ next.pc = "latest" /\ next.phase = me.phase /\ SameRun(me, next) /\ next.found = me.found
  BY <1>1 DEF SameRun, RunOK, RunStates
<1> HIDE DEF next, me
<1>5. Active(next) /\ next.pc \notin Building
  BY <1>4 DEF Active, Ends, Building, SealLoop
<1>6. SeenOK(next, store, manifest) /\ CopyOK(next, store) /\ PostOK(next, releases)
  BY <1>1, <1>2, <1>4 DEF SeenOK, HasRead, Copying, CopyLoop, SameRun, CopyOK, PostOK, Reading
<1>7. JobOK(r, next, store, manifest, merged, releases)
  BY <1>5, <1>6, WhileNotBuilding DEF JobOK
<1>8. Step(r, next)
  BY <1>1, <1>3 DEF Step, lanes
<1>9. QED
  BY <1>1, <1>4, <1>5, <1>7, <1>8, JobStepSerial DEF me

\* A manifest that is true, of assets that were built before and have their digests.
TrueManifest(m, l) ==
  \A a \in Assets :
    /\ m.assets[a].tree = m.tree /\ m.assets[a].version = m.version
    /\ m.assets[a] \in Contents /\ BuiltBefore(m.assets[a])
    /\ store[<<l, "asset", a>>] = m.assets[a]
    /\ store[<<l, "sha256", a>>] = m.assets[a]

LEMMA ManifestSerial ==
  ASSUME LanesInv, SerialInv, NEW r \in Runs, NEW next, Goto(r, next), Active(run[r]),
         next.pc \notin {"idle", "failed"}, UNCHANGED <<store, latest, github>>,
         NEW l \in Lanes, NEW m, manifest' = [manifest EXCEPT ![l] = m],
         TrueManifest(m, l), VersionLanesOK',
         RunSerial(r, next, store, manifest', tags, merged, releases)
  PROVE  SerialInv'
<1>1. /\ store' = store /\ tags' = tags /\ merged' = merged /\ releases' = releases
  BY DEF github
<1>2. manifest'[l] = m /\ \A k \in Lanes : k # l => manifest'[k] = manifest[k]
  BY DEF LanesInv, TypeOK
<1>3. RunsSerial'
  BY <1>1, SerialFacts, OneGoes
<1>4. OneVersion'
  BY <1>1 DEF SerialInv, OneVersion
<1>5. ManifestIsTrue'
  <2> SUFFICES ASSUME NEW k \in Lanes, manifest'[k] # None, NEW a \in Assets
               PROVE  /\ manifest'[k].assets[a].tree = manifest'[k].tree
                      /\ manifest'[k].assets[a].version = manifest'[k].version
    BY DEF ManifestIsTrue
  <2>1. CASE k = l
    <3>1. m.assets[a].tree = m.tree /\ m.assets[a].version = m.version
      BY DEF TrueManifest
    <3>2. manifest'[k] = m
      BY <1>2, <2>1
    <3>3. QED
      BY <3>1, <3>2
  <2>2. CASE k # l
    BY <1>2, <2>2 DEF SerialInv, ManifestIsTrue
  <2>3. QED
    BY <2>1, <2>2
<1>6. DigestsOK'
  BY <1>1, <1>2 DEF SerialInv, DigestsOK, TrueManifest
<1>7. NothingAhead'
  <2> SUFFICES ASSUME NEW q \in Runs, At(q, "idle")'
               PROVE  Unbuilt(q)'
    BY DEF NothingAhead
  <2>1. At(q, "idle") /\ Unbuilt(q)
    BY NoNewIdle DEF SerialInv, NothingAhead
  <2>2. \A a \in Assets : m.assets[a].build # q
    BY <2>1, LanesAssumption DEF TrueManifest, BuiltBefore
  <2>3. \A k \in Lanes : manifest'[k] # None => \A a \in Assets : manifest'[k].assets[a].build # q
    BY <1>2, <2>1, <2>2 DEF Unbuilt
  <2>4. QED
    BY <1>1, <2>1, <2>3 DEF Unbuilt
<1>8. QED
  BY <1>3, <1>4, <1>5, <1>6, <1>7 DEF SerialInv, RunsSerial

\* The manifest of a pull request whose release there is not yet.
LEMMA PrManifestLanes ==
  ASSUME LanesInv, SerialInv, UNCHANGED <<store, github>>, NEW i \in PullRequests, NEW m,
         manifest' = [manifest EXCEPT ![PrLane(i)] = m],
         \A k \in DOMAIN releases : releases[k].source # i
  PROVE  VersionLanesOK'
<1>1. /\ store' = store /\ tags' = tags /\ merged' = merged /\ releases' = releases
  BY DEF github
<1>2. /\ \A v \in Versions : manifest'[VersionLane(v)] = manifest[VersionLane(v)]
      /\ \A j \in PullRequests : j # i => manifest'[PrLane(j)] = manifest[PrLane(j)]
  BY NamedLanes DEF LanesInv, TypeOK, VersionLane, PrLane
<1> SUFFICES ASSUME NEW v \in Versions, manifest[VersionLane(v)] # None, v \notin DOMAIN tags
             PROVE  Promoted(manifest[VersionLane(v)], v, store, manifest')
  BY <1>1, <1>2 DEF SerialInv, VersionLanesOK
<1>3. PICK j \in PullRequests :
        HasRelease(releases, v, j) /\ manifest[VersionLane(v)].source = MergeOf(j)
  BY DEF SerialInv, VersionLanesOK, AboutRelease
<1>4. manifest[VersionLane(v)].source # MergeOf(i)
  BY <1>3 DEF HasRelease, MergeOf
<1>5. Promoted(manifest[VersionLane(v)], v, store, manifest)
  BY DEF SerialInv, VersionLanesOK
<1>6. QED
  BY <1>2, <1>4, <1>5 DEF Promoted

\* The manifest of a version lane.
LEMMA VersionManifestLanes ==
  ASSUME LanesInv, SerialInv, UNCHANGED <<store, github>>,
         NEW v \in Versions, NEW i \in PullRequests, HasRelease(releases, v, i),
         NEW m \in Manifests, manifest' = [manifest EXCEPT ![VersionLane(v)] = m],
         Holds(store, VersionLane(v), "asset", Assets, m),
         m.version = v, m.source = MergeOf(i), m.tree = MergedTree(merged, i),
         v \notin DOMAIN tags /\ manifest[PrLane(i)] # None =>
           manifest[PrLane(i)].assets = m.assets
  PROVE  VersionLanesOK'
<1>1. /\ store' = store /\ tags' = tags /\ merged' = merged /\ releases' = releases
  BY DEF github
<1>2. /\ manifest'[VersionLane(v)] = m
      /\ \A w \in Versions : w # v => manifest'[VersionLane(w)] = manifest[VersionLane(w)]
      /\ \A j \in PullRequests : manifest'[PrLane(j)] = manifest[PrLane(j)]
  BY NamedLanes DEF LanesInv, TypeOK, VersionLane, PrLane
<1>3. AboutRelease(m, v, merged, releases) /\ \A j : m.source = MergeOf(j) => j = i
  BY DEF AboutRelease, MergeOf
<1>4. v \notin DOMAIN tags => Promoted(m, v, store, manifest)
  BY <1>3 DEF Promoted
<1>5. ASSUME NEW n, NEW w, Promoted(n, w, store, manifest)
      PROVE  Promoted(n, w, store, manifest')
  BY <1>2, <1>5 DEF Promoted
<1>6. QED
  BY <1>1, <1>2, <1>3, <1>4, <1>5 DEF SerialInv, VersionLanesOK

\* The manifest of a main lane.
LEMMA MainManifestLanes ==
  ASSUME LanesInv, SerialInv, UNCHANGED <<store, github>>, NEW i \in PullRequests, NEW m,
         manifest' = [manifest EXCEPT ![MainLane(i)] = m]
  PROVE  VersionLanesOK'
<1>1. /\ store' = store /\ tags' = tags /\ merged' = merged /\ releases' = releases
  BY DEF github
<1>2. /\ \A w \in Versions : manifest'[VersionLane(w)] = manifest[VersionLane(w)]
      /\ \A j \in PullRequests : manifest'[PrLane(j)] = manifest[PrLane(j)]
  BY NamedLanes DEF LanesInv, TypeOK, VersionLane, MainLane, PrLane
<1>3. QED
  BY <1>1, <1>2 DEF SerialInv, VersionLanesOK, Promoted

LEMMA SealManifestSerial ==
  ASSUME LanesInv, ReleasedInv, SerialInv, NEW r \in Runs, SealManifest(r)
  PROVE  SerialInv'
<1> DEFINE me == run[r]
           m == [source |-> Commit(me), tree |-> TreeOf(Commit(me)),
                 version |-> me.version, assets |-> me.files]
           on == [me EXCEPT !.pc = "authorize", !.uploads = {}, !.files = [a \in Assets |-> None]]
           next == IF me.kind = "pr" THEN Ended(me, "done") ELSE on
<1>1. /\ RunOK(me) /\ me.pc = "seal-manifest" /\ Goto(r, next)
      /\ manifest' = [manifest EXCEPT ![me.lane] = m]
      /\ UNCHANGED <<store, latest, github>>
  BY RunFacts DEF SealManifest, At
<1>2. /\ Active(me) /\ me.phase = "prepare" /\ me.kind \in {"pr", "release"} /\ me.lane \in Lanes
      /\ me.uploads \in {{}, Assets} /\ me.source \in PullRequests /\ me.version \in Versions
  BY <1>1, BuildingFacts, ActiveFacts DEF Building
<1>3. /\ BuildOK(me, store, manifest, merged) /\ SourceOK(me, tags, releases) /\ CountOK(me)
      /\ SealOK(r, me, store, merged)
  BY JobFacts
<1>4. /\ \A b \in Assets : /\ store[<<me.lane, "asset", b>>] = me.files[b]
                           /\ store[<<me.lane, "sha256", b>>] = me.files[b]
                           /\ me.files[b].tree = CommitTree(me, merged)
                           /\ me.files[b].version = me.version
                           /\ me.files[b] \in Contents
      /\ me.files \in [Assets -> Contents]
  <2>1. \A b \in Assets : /\ store[<<me.lane, "asset", b>>] = me.files[b]
                          /\ store[<<me.lane, "sha256", b>>] = me.files[b]
                          /\ me.files[b].tree = CommitTree(me, merged)
                          /\ me.files[b].version = me.version
    BY <1>1, <1>3 DEF SealOK, Collected
  <2>2. \A b \in Assets : me.files[b] \in Contents
    BY <1>1 DEF RunOK, HoldsWhatItNeeds
  <2>3. me.files \in [Assets -> Contents \union {None}]
    BY <1>1 DEF RunOK, RunStates
  <2>4. QED
    BY <2>1, <2>2, <2>3
<1>5. TreeOf(Commit(me)) = CommitTree(me, merged)
  BY <1>2, CommitTrees
<1>6. m.assets = me.files /\ m.version = me.version /\ m.tree = CommitTree(me, merged)
  BY <1>5
<1>7. TrueManifest(m, me.lane)
  <2>1. \A b \in Assets : BuiltBefore(me.files[b])
    <3> SUFFICES ASSUME NEW b \in Assets, NEW q \in Runs, At(q, "idle")
                 PROVE  me.files[b].build # q
      BY DEF BuiltBefore
    <3>1. <<me.lane, "asset", b>> \in Lanes \X Slots \X Assets
      BY <1>2, SlotNames
    <3>2. store[<<me.lane, "asset", b>>] = me.files[b] /\ me.files[b] # None
      BY <1>4, LanesAssumption
    <3>3. Unbuilt(q)
      BY DEF SerialInv, NothingAhead
    <3>4. QED
      BY <3>1, <3>2, <3>3 DEF Unbuilt
  <2>2. QED
    BY <1>4, <1>6, <2>1 DEF TrueManifest
<1>8. CASE me.kind = "pr"
  <2>1. me.lane = PrLane(me.source)
    BY <1>1, <1>2, <1>8 DEF RunOK, InJob
  <2>2. VersionLanesOK'
    <3> HIDE DEF m, me
    <3>1. QED
      BY <1>1, <1>2, <1>3, <1>8, <2>1, PrManifestLanes DEF SourceOK
  <2>3. next.pc = "done" /\ ~Active(next)
    BY <1>8 DEF Ended, Idle, Active, Ends
  <2>4. RunSerial(r, next, store, manifest', tags, merged, releases)
    BY <2>3, InactiveSerial
  <2>5. QED
    <3> HIDE DEF m, next
    <3>1. QED
      BY <1>1, <1>2, <1>7, <2>2, <2>3, <2>4, ManifestSerial
<1>9. CASE me.kind = "release"
  <2>1. /\ me.lane = VersionLane(me.version) /\ HasRelease(releases, me.version, me.source)
        /\ me.version \in DOMAIN tags
    BY <1>1, <1>2, <1>3, <1>9 DEF RunOK, InJob, ReleasedInv, PublishOK, SourceOK
  <2>2. m.source = MergeOf(me.source) /\ m.tree = MergedTree(merged, me.source)
    BY <1>2, <1>6, <1>9, CommitTrees DEF Commit
  <2>3. m \in Manifests
    <3>1. Commit(me) \in Commits /\ TreeOf(Commit(me)) \in Commits
      BY <1>2 DEF Commit, Commits, TreeOf, HeadOf, MergeOf
    <3>2. QED
      BY <1>2, <1>4, <3>1 DEF Manifests
  <2>4. Holds(store, me.lane, "asset", Assets, m)
    BY <1>4, <1>6 DEF Holds
  <2>6. VersionLanesOK'
    <3> HIDE DEF m, me
    <3>1. QED
      BY <1>1, <1>2, <1>6, <2>1, <2>2, <2>3, <2>4, VersionManifestLanes
  <2>7. /\ next.pc = "authorize" /\ next.phase = "prepare" /\ next.kind = "release"
        /\ next.lane = me.lane /\ SameRun(me, next)
    BY <1>1, <1>2, <1>9 DEF RunOK, RunStates, SameRun
  <2>8. manifest'[me.lane] = m /\ m # None
    BY <1>1, <1>2, <2>3, LanesAssumption DEF LanesInv, TypeOK
  <2> HIDE DEF m, next, me
  <2>9. SeenOK(next, store, manifest') /\ CopyOK(next, store) /\ PostOK(next, releases)
    BY <2>4, <2>7, <2>8 DEF SeenOK, HasRead, Copying, CopyLoop, CopyOK, PostOK
  <2>10. JobOK(r, next, store, manifest', merged, releases)
    BY <2>7, <2>9, WhileNotBuilding DEF JobOK, Building, SealLoop
  <2>11. SourceOK(next, tags, releases) /\ FreshOK(r, next, manifest') /\ CountOK(next)
    BY <1>1, <1>2, <1>3, <1>9, <2>7 DEF SourceOK, FreshOK, CountOK, SameRun
  <2>12. RunSerial(r, next, store, manifest', tags, merged, releases)
    BY <2>10, <2>11 DEF RunSerial
  <2>13. QED
    BY <1>1, <1>2, <1>7, <2>6, <2>7, <2>12, ManifestSerial DEF me
<1>10. QED
  BY <1>2, <1>8, <1>9

\* What is known of a lane that has been copied.
LEMMA CopiedFacts ==
  ASSUME LanesInv, ReleasedInv, SerialInv, NEW r \in Runs, run[r].pc = "copy-manifest"
  PROVE  LET me == run[r] IN
         /\ Holds(store, me.to, "asset", Assets, me.found)
         /\ Holds(store, me.to, "sha256", Assets, me.found)
         /\ me.found.version = me.version
         /\ me.found.tree = MergedTree(merged, me.source)
<1> DEFINE me == run[r]
<1>1. /\ Active(me) /\ me.kind \in {"merge", "release"} /\ me.source \in PullRequests
      /\ me.found = manifest[me.lane] /\ me.found # None
      /\ me.kind = "release" => me.lane = VersionLane(me.version)
  BY CopyingFacts DEF Copying
<1>2. CopyOK(me, store)
  BY JobFacts
<1>3. /\ Holds(store, me.to, "asset", Assets, me.found)
      /\ Holds(store, me.to, "sha256", Assets, me.found)
      /\ me.kind = "merge" => me.found.version = me.version /\ me.found.tree = HeadOf(me.source)
  BY <1>2 DEF CopyOK, Copying, CopyLoop, Copied
<1>4. CASE me.kind = "release"
  BY <1>1, <1>3, <1>4, VersionManifest1
<1>5. CASE me.kind = "merge"
  <2>1. MergedTree(merged, me.source) = HeadOf(me.source)
    BY <1>1, <1>5 DEF ReleasedInv, MergeOK, Merging, Copying, MergedTree
  <2>2. QED
    BY <1>3, <1>5, <2>1
<1>6. QED
  BY <1>1, <1>4, <1>5

\* Where a run goes when it has written the manifest of its copy.
LEMMA AfterCopySerial ==
  ASSUME LanesInv, ReleasedInv, SerialInv, NEW r \in Runs, run[r].pc = "copy-manifest",
         NEW m, manifest' = [manifest EXCEPT ![run[r].to] = m]
  PROVE  LET next == AfterCopy(run[r]) IN
         /\ next.pc \notin {"idle", "failed"}
         /\ RunSerial(r, next, store, manifest', tags, merged, releases)
<1> DEFINE me == run[r]
           next == AfterCopy(me)
<1>1. /\ RunOK(me) /\ Active(me) /\ me.kind \in {"merge", "release"}
      /\ me.lane \in Lanes /\ me.to \in Lanes /\ me.to # me.lane
      /\ me.found = manifest[me.lane] /\ me.found # None
      /\ Holds(store, me.lane, "asset", Assets, me.found)
      /\ me.phase = "publish" <=> me.kind = "release"
      /\ me.asset = 1
  BY RunFacts, CopyingFacts
  DEF Copying, CopyLoop, RunOK, HoldsWhatItNeeds, Loops, SealLoop
<1>2. SourceOK(me, tags, releases) /\ CountOK(me) /\ CopyOK(me, store)
  BY JobFacts
<1>3. manifest'[me.lane] = manifest[me.lane] /\ manifest'[me.to] = m
  BY <1>1 DEF LanesInv, TypeOK
<1>4. ASSUME SameRun(me, next)
      PROVE  SourceOK(next, tags, releases) /\ FreshOK(r, next, manifest') /\ CountOK(next)
  <2>1. me.phase # "prepare"
    BY <1>1 DEF RunOK, InJob
  <2> HIDE DEF me, next
  <2>2. QED
    BY <1>1, <1>2, <1>4, <2>1 DEF SameRun, SourceOK, FreshOK, CountOK
<1>5. CASE me.phase = "publish"
  <2>1. /\ next.pc = "version-manifest" /\ next.phase = "publish" /\ SameRun(me, next)
        /\ next.found = me.found
    BY <1>1, <1>5 DEF AfterCopy, RunOK, RunStates, SameRun
  <2> HIDE DEF me, next
  <2>2. SeenOK(next, store, manifest') /\ CopyOK(next, store) /\ PostOK(next, releases)
    BY <1>1, <1>3, <2>1
    DEF SeenOK, HasRead, Copying, CopyLoop, CopyOK, PostOK, SameRun, Reading
  <2>3. JobOK(r, next, store, manifest', merged, releases)
    BY <2>1, <2>2, WhileNotBuilding DEF JobOK, Building, SealLoop
  <2>4. QED
    BY <1>4, <2>1, <2>3 DEF RunSerial, me, next
<1>6. CASE me.phase # "publish" /\ me.to = VersionLane(me.version)
  <2>1. /\ next.pc = "copy-get" /\ SameRun(me, next) /\ next.found = me.found
        /\ next.to = MainLane(me.source) /\ next.asset = 1
    BY <1>1, <1>6 DEF AfterCopy, RunOK, RunStates, SameRun
  <2> HIDE DEF me, next
  <2>2. me.kind = "merge" => me.found.version = me.version /\ me.found.tree = HeadOf(me.source)
    BY <1>2 DEF CopyOK, Copying, me
  <2>3. CopyOK(next, store)
    BY <2>1, <2>2, EarlierAssets
    DEF CopyOK, Copied, Holds, Copying, CopyLoop, SameRun
  <2>4. JobOK(r, next, store, manifest', merged, releases) /\ Active(next)
    BY <1>1, <1>3, <2>1, <2>3, CopyJob DEF SameRun, Copying, CopyLoop
  <2>5. QED
    BY <1>4, <2>1, <2>4 DEF RunSerial, me, next
<1>7. CASE me.phase # "publish" /\ me.to # VersionLane(me.version)
  <2>1. next.pc = "push" /\ SameRun(me, next) /\ next.phase # "publish"
    BY <1>1, <1>7 DEF AfterCopy, RunOK, RunStates, SameRun
  <2> HIDE DEF me, next
  <2>2. SeenOK(next, store, manifest') /\ CopyOK(next, store) /\ PostOK(next, releases)
    BY <2>1 DEF SeenOK, HasRead, Copying, CopyLoop, CopyOK, PostOK
  <2>3. JobOK(r, next, store, manifest', merged, releases)
    BY <2>1, <2>2, WhileNotBuilding DEF JobOK, Building, SealLoop
  <2>4. QED
    BY <1>4, <2>1, <2>3 DEF RunSerial, me, next
<1>8. QED
  BY <1>5, <1>6, <1>7

LEMMA CopyManifestSerial ==
  ASSUME LanesInv, ReleasedInv, SerialInv, NEW r \in Runs, CopyManifest(r)
  PROVE  SerialInv'
<1> DEFINE me == run[r]
           m == [me.found EXCEPT !.source = Commit(me), !.tree = TreeOf(Commit(me))]
           next == AfterCopy(me)
<1>1. /\ me.pc = "copy-manifest" /\ Goto(r, next)
      /\ manifest' = [manifest EXCEPT ![me.to] = m]
      /\ UNCHANGED <<store, latest, github>>
  BY DEF CopyManifest, At
<1>2. /\ Active(me) /\ me.kind \in {"merge", "release"} /\ me.source \in PullRequests
      /\ me.version \in Versions /\ me.lane \in Lanes /\ me.to \in Lanes
      /\ me.found = manifest[me.lane] /\ me.found \in Manifests /\ me.found # None
      /\ \A a \in Assets : me.found.assets[a] \in Contents
      /\ HasRelease(releases, me.version, me.source)
      /\ me.kind = "merge" => me.lane = PrLane(me.source)
      /\ me.kind = "release" => me.to = MainLane(me.source)
      /\ me.to \in {MainLane(me.source), VersionLane(me.version)}
  BY <1>1, CopyingFacts DEF Copying
<1>3. /\ Holds(store, me.to, "asset", Assets, me.found)
      /\ Holds(store, me.to, "sha256", Assets, me.found)
      /\ me.found.version = me.version
      /\ me.found.tree = MergedTree(merged, me.source)
  BY <1>1, CopiedFacts
<1>4. Commit(me) = MergeOf(me.source) /\ TreeOf(Commit(me)) = MergedTree(merged, me.source)
      /\ Commit(me) \in Commits /\ TreeOf(Commit(me)) \in Commits
  BY <1>2, TreeNames DEF Commit, Commits, MergeOf, HeadOf, MergedTree
<1>5. /\ m.assets = me.found.assets /\ m.version = me.version /\ m.source = MergeOf(me.source)
      /\ m.tree = MergedTree(merged, me.source) /\ m \in Manifests
  BY <1>2, <1>3, <1>4 DEF Manifests
<1> HIDE DEF m, me, next
<1>6. TrueManifest(m, me.to)
  <2>1. \A a \in Assets : BuiltBefore(me.found.assets[a])
    BY <1>2 DEF BuiltBefore, SerialInv, NothingAhead, Unbuilt
  <2>2. \A a \in Assets : me.found.assets[a].tree = me.found.tree
                          /\ me.found.assets[a].version = me.found.version
    BY <1>2 DEF SerialInv, ManifestIsTrue
  <2>3. QED
    BY <1>2, <1>3, <1>5, <2>1, <2>2 DEF TrueManifest, Holds
<1>7. Holds(store, me.to, "asset", Assets, m)
  BY <1>3, <1>5 DEF Holds
<1>8. VersionLanesOK'
  <2>1. CASE me.to = MainLane(me.source)
    BY <1>1, <1>2, <2>1, MainManifestLanes
  <2>2. CASE me.to = VersionLane(me.version) /\ me.to # MainLane(me.source)
    <3>1. me.kind = "merge" /\ manifest[PrLane(me.source)].assets = m.assets
      BY <1>2, <1>5, <2>2
    <3>2. QED
      BY <1>1, <1>2, <1>5, <1>7, <2>2, <3>1, VersionManifestLanes
  <2>3. QED
    BY <1>2, <2>1, <2>2
<1>9. /\ next.pc \notin {"idle", "failed"}
       /\ RunSerial(r, next, store, manifest', tags, merged, releases)
  BY <1>1, AfterCopySerial DEF me, next
<1>10. QED
  BY <1>1, <1>2, <1>6, <1>8, <1>9, ManifestSerial DEF me
-----------------------------------------------------------------------------
(* Steps on GitHub.                                                          *)

LEMMA GitHubSerial ==
  ASSUME LanesInv, ReleasedInv, SerialInv, NEW r \in Runs, NEW next, Goto(r, next),
         Active(run[r]), UNCHANGED lanes, merged' = merged, ReleasesStay,
         DOMAIN tags \subseteq DOMAIN tags', OneVersion', next.pc \notin {"idle", "failed"},
         RunSerial(r, next, store, manifest, tags', merged, releases')
  PROVE  SerialInv'
<1>1. store' = store /\ manifest' = manifest
  BY DEF lanes
<1>2. RunsSerial'
  BY <1>1, SerialFacts, OneGoes
<1>3. NothingAhead'
  BY <1>1, NoNewIdle DEF SerialInv, NothingAhead, Unbuilt
<1>4. DigestsOK' /\ ManifestIsTrue'
  BY <1>1 DEF SerialInv, DigestsOK, ManifestIsTrue
<1>5. ASSUME NEW m, NEW v, AboutRelease(m, v, merged, releases)
      PROVE  AboutRelease(m, v, merged, releases')
  BY <1>5, HasReleaseStays DEF AboutRelease
<1>6. VersionLanesOK'
  BY <1>1, <1>5 DEF SerialInv, VersionLanesOK
<1>7. QED
  BY <1>2, <1>3, <1>4, <1>6 DEF SerialInv, RunsSerial

\* The draft is that of the next version, for a commit that no tag is on yet.
LEMMA CreateDraftSerial ==
  ASSUME LanesInv, ReleasedInv, SerialInv, NEW r \in Runs, CreateDraft(r)
  PROVE  SerialInv'
<1> DEFINE me == run[r]
           n == Len(releases)
           draft == Draft(me)
           next == [me EXCEPT !.pc = "read"]
<1>1. /\ RunOK(me) /\ me.pc = "create" /\ Active(me) /\ MergeOK(me, Len(tags), merged, releases)
      /\ Goto(r, next) /\ UNCHANGED lanes /\ tags' = tags /\ merged' = merged
      /\ releases' = Append(releases, draft)
  BY RunFacts DEF CreateDraft, At, Active, Ends, ReleasedInv
<1>2. /\ me \in RunStates /\ me.kind = "merge" /\ me.phase = "promote" /\ Merging(me)
      /\ me.source \in PullRequests /\ me.version \in Versions /\ me.version = Len(tags) + 1
  <2>1. /\ me \in RunStates /\ me.kind = "merge" /\ me.phase = "promote"
        /\ me.source \in PullRequests /\ me.version \in Versions
    BY <1>1, ActiveFacts
    DEF RunOK, InJob, Preparing, Publishing, Reading, Copying, CopyLoop, SealLoop
  <2>2. QED
    BY <1>1, <2>1 DEF SerialInv, MergeOK, Merging
<1>3. draft.version = me.version /\ draft.source = me.source /\ draft \in Releases
  BY <1>2 DEF Draft, Releases
<1>4. /\ \A v \in DOMAIN tags : tags[v] # me.source
      /\ FreshOK(r, me, manifest) /\ CountOK(me)
  BY <1>1, <1>2, JobFacts DEF SourceOK
<1>5. /\ next.kind = "merge" /\ next.phase = "promote" /\ next.pc = "read"
      /\ next.source = me.source /\ SameRun(me, next)
  BY <1>1, <1>2 DEF RunStates, SameRun
<1> HIDE DEF me, draft, next
<1>6. /\ releases \in Seq(Releases) /\ n \in Nat /\ DOMAIN releases = 1 .. n
      /\ DOMAIN releases' = 1 .. n + 1 /\ releases'[n + 1] = draft
      /\ \A k \in 1 .. n : releases'[k] = releases[k]
  BY <1>1, <1>3, AppendProperties DEF LanesInv, TypeOK
<1>7. /\ \A k \in DOMAIN releases : k \in DOMAIN releases' /\ releases'[k] = releases[k]
      /\ \A k \in DOMAIN releases' : k \in DOMAIN releases \/ releases'[k] = draft
  <2>1. \A k \in 1 .. n + 1 : k \in 1 .. n \/ k = n + 1
    BY <1>6
  <2>2. \A k \in 1 .. n : k \in 1 .. n + 1
    BY <1>6
  <2>3. QED
    BY <1>6, <2>1, <2>2
<1>8. ReleasesStay
  BY <1>7 DEF ReleasesStay
<1>9. \A k \in DOMAIN releases :
        releases[k].source = me.source => releases[k].version = me.version
  <2> SUFFICES ASSUME NEW k \in DOMAIN releases, releases[k].source = me.source,
                      releases[k].version # me.version
               PROVE  FALSE
    OBVIOUS
  <2>1. releases[k].version \in DOMAIN tags
    BY <1>2 DEF SerialInv, OneVersion
  <2>2. HasRelease(releases, releases[k].version, tags[releases[k].version])
    BY <2>1 DEF ReleasedInv, TagsReleased
  <2>3. HasRelease(releases, releases[k].version, me.source)
    BY DEF HasRelease
  <2>4. tags[releases[k].version] = me.source
    BY <2>2, <2>3, OneSource DEF ReleasedInv, SerialInv
  <2>5. QED
    BY <1>4, <2>1, <2>4
<1>10. OneVersion'
  <2>1. ASSUME NEW j \in DOMAIN releases', NEW k \in DOMAIN releases',
               releases'[j].source = releases'[k].source
        PROVE  releases'[j].version = releases'[k].version
    <3>1. CASE j \in DOMAIN releases /\ k \in DOMAIN releases
      BY <1>7, <2>1, <3>1 DEF SerialInv, OneVersion
    <3>2. CASE j \in DOMAIN releases /\ releases'[k] = draft
      BY <1>3, <1>7, <1>9, <2>1, <3>2
    <3>3. CASE releases'[j] = draft /\ k \in DOMAIN releases
      BY <1>3, <1>7, <1>9, <2>1, <3>3
    <3>4. CASE releases'[j] = draft /\ releases'[k] = draft
      BY <3>4
    <3>5. QED
      BY <1>7, <3>1, <3>2, <3>3, <3>4
  <2>2. ASSUME NEW k \in DOMAIN releases'
        PROVE  \/ releases'[k].version \in DOMAIN tags
               \/ releases'[k].version = Len(tags) + 1
                  /\ \A v \in DOMAIN tags : tags[v] # releases'[k].source
    <3>1. CASE k \in DOMAIN releases
      BY <1>7, <3>1 DEF SerialInv, OneVersion
    <3>2. CASE releases'[k] = draft
      BY <1>2, <1>3, <1>4, <3>2
    <3>3. QED
      BY <1>7, <3>1, <3>2
  <2>3. QED
    BY <1>1, <2>1, <2>2 DEF OneVersion
<1>11. RunSerial(r, next, store, manifest, tags', merged, releases')
  <2>1. SourceOK(next, tags', releases')
    BY <1>1, <1>4, <1>5 DEF SourceOK
  <2>2. FreshOK(r, next, manifest) /\ CountOK(next)
    BY <1>1, <1>4, <1>5 DEF FreshOK, CountOK, SameRun
  <2>3. JobOK(r, next, store, manifest, merged, releases')
    BY <1>5, StartJob
  <2>4. QED
    BY <2>1, <2>2, <2>3 DEF RunSerial
<1>12. QED
  BY <1>1, <1>5, <1>8, <1>10, <1>11, GitHubSerial DEF me

\* The tag is the next one, and on the commit that the draft is about.
LEMMA PushTagSerial ==
  ASSUME LanesInv, ReleasedInv, SerialInv, NEW r \in Runs, PushTag(r)
  PROVE  SerialInv'
<1> DEFINE me == run[r]
           next == Ended(me, "done")
<1>1. /\ RunOK(me) /\ me.pc = "push" /\ Active(me) /\ MergeOK(me, Len(tags), merged, releases)
  BY RunFacts DEF PushTag, At, Active, Ends, ReleasedInv
<1>2. /\ Merging(me) /\ me.source \in PullRequests
  BY <1>1, ActiveFacts
  DEF RunOK, InJob, Merging, Preparing, Publishing, Reading, Copying, CopyLoop, SealLoop
<1>3. me.version = Len(tags) + 1 /\ HasRelease(releases, me.version, me.source)
  BY <1>1, <1>2 DEF SerialInv, MergeOK
<1>4. /\ Goto(r, next) /\ UNCHANGED lanes /\ merged' = merged /\ releases' = releases
      /\ tags' = Append(tags, me.source)
  BY <1>3 DEF PushTag, Check, NextVersion
<1>5. next.pc = "done" /\ ~Active(next)
  BY DEF Ended, Idle, Active, Ends
<1> HIDE DEF me, next
<1>6. RunSerial(r, next, store, manifest, tags', merged, releases')
  BY <1>5, InactiveSerial
<1>7. /\ \A v \in DOMAIN tags : v \in DOMAIN tags' /\ tags'[v] = tags[v]
      /\ Len(tags) + 1 \in DOMAIN tags'
  <2>1. tags \in Seq(PullRequests)
    BY DEF LanesInv, TypeOK
  <2>2. QED
    BY <1>2, <1>4, <2>1, AppendProperties
<1>8. ReleasesStay
  BY <1>4 DEF ReleasesStay
<1>9. OneVersion'
  <2>1. ASSUME NEW k \in DOMAIN releases
        PROVE  releases[k].version \in DOMAIN tags'
    BY <1>7 DEF SerialInv, OneVersion
  <2>2. QED
    BY <1>4, <2>1 DEF SerialInv, OneVersion
<1>10. QED
  BY <1>1, <1>4, <1>5, <1>6, <1>7, <1>8, <1>9, GitHubSerial DEF me

\* A step of the publish job changes the assets of its release, or that it is a draft.
LEMMA PostSerial ==
  ASSUME LanesInv, ReleasedInv, SerialInv, NEW r \in Runs, NEW next, Goto(r, next),
         Active(run[r]), Active(next), SameRun(run[r], next), UNCHANGED lanes,
         UNCHANGED <<tags, merged>>, DOMAIN releases' = DOMAIN releases, ReleasesStay,
         JobOK(r, next, store, manifest, merged, releases')
  PROVE  SerialInv'
<1>1. tags' = tags /\ merged' = merged
  OBVIOUS
<1>2. OneVersion'
  BY <1>1 DEF SerialInv, OneVersion, ReleasesStay
<1>3. SourceOK(next, tags, releases) /\ FreshOK(r, next, manifest) /\ CountOK(next)
  BY JobFacts, SameRunSerial
<1>4. SourceOK(next, tags', releases')
  BY <1>1, <1>3 DEF SourceOK, ReleasesStay
<1>5. next.pc \notin {"idle", "failed"}
  BY DEF Active, Ends
<1>6. RunSerial(r, next, store, manifest, tags', merged, releases')
  BY <1>3, <1>4 DEF RunSerial
<1>7. QED
  BY <1>1, <1>2, <1>5, <1>6, GitHubSerial

\* What there is about a run that posts to its release.
LEMMA PostingFacts ==
  ASSUME LanesInv, ReleasedInv, SerialInv, NEW r \in Runs,
         run[r].pc \in {"remove", "upload", "publish"}
  PROVE  LET me == run[r] IN
         /\ me \in RunStates /\ Active(me) /\ me.kind = "release" /\ me.phase = "publish"
         /\ me.source \in PullRequests /\ me.version \in Versions /\ me.asset \in Assets
         /\ me.release \in DOMAIN releases /\ releases \in Seq(Releases)
         /\ \A k \in DOMAIN releases : releases[k] \in Releases
         /\ releases[me.release].assets \in [Assets -> Posted \union {None}]
         /\ SeenOK(me, store, manifest) /\ PostOK(me, releases)
<1> DEFINE me == run[r]
<1>1. RunOK(me) /\ Active(me) /\ PublishOK(me, merged, releases) /\ releases \in Seq(Releases)
  BY RunFacts DEF Active, Ends, ReleasedInv, LanesInv, TypeOK
<1>2. /\ me \in RunStates /\ me.kind = "release" /\ me.phase = "publish"
      /\ me.source \in PullRequests /\ me.version \in Versions /\ me.asset \in Assets
  BY <1>1, ActiveFacts
  DEF RunOK, InJob, Preparing, Promoting, Reading, Copying, CopyLoop, SealLoop, RunStates
<1>3. me.release \in DOMAIN releases
  BY <1>1, <1>2 DEF PublishOK
<1>4. QED
  BY <1>1, <1>2, <1>3, ReleaseFacts, JobFacts

LEMMA RemoveAssetSerial ==
  ASSUME LanesInv, ReleasedInv, SerialInv, NEW r \in Runs, RemoveAsset(r)
  PROVE  SerialInv'
<1> DEFINE me == run[r]
           k == me.release
           next == [me EXCEPT !.pc = "upload"]
<1>1. me.pc = "remove"
  BY DEF RemoveAsset, At
<1>2. /\ me \in RunStates /\ Active(me) /\ me.kind = "release" /\ me.phase = "publish"
      /\ me.asset \in Assets /\ k \in DOMAIN releases /\ releases \in Seq(Releases)
      /\ \A j \in DOMAIN releases : releases[j] \in Releases
      /\ releases[k].assets \in [Assets -> Posted \union {None}]
      /\ SeenOK(me, store, manifest) /\ PostOK(me, releases)
  BY <1>1, PostingFacts
<1>3. releases[k].assets[me.asset] = me.listed[me.asset]
  BY <1>1, <1>2 DEF PostOK
<1>4. /\ Goto(r, next) /\ UNCHANGED lanes /\ UNCHANGED <<tags, merged>>
      /\ releases' = [releases EXCEPT ![k].assets[me.asset] = None]
  BY <1>3 DEF RemoveAsset, Check
<1>5. /\ next.pc = "upload" /\ next.phase = me.phase /\ SameRun(me, next)
      /\ next.found = me.found /\ next.asset = me.asset /\ next.release = k
      /\ next.listed = me.listed
  BY <1>1, <1>2 DEF SameRun, RunStates
<1> HIDE DEF me, k, next
<1>6. /\ DOMAIN releases' = DOMAIN releases
      /\ \A j \in DOMAIN releases : /\ releases'[j].version = releases[j].version
                                    /\ releases'[j].source = releases[j].source
      /\ releases'[k].assets = [releases[k].assets EXCEPT ![me.asset] = None]
  BY <1>2, <1>4 DEF Releases
<1>7. releases'[k].assets[me.asset] = None
      /\ \A b \in Assets : b # me.asset => releases'[k].assets[b] = releases[k].assets[b]
  BY <1>2, <1>6
<1>8. ReleasesStay
  BY <1>6 DEF ReleasesStay
<1>9. Active(next) /\ next.pc \notin Building
  BY <1>5 DEF Active, Ends, Building, SealLoop
<1>10. SeenOK(next, store, manifest) /\ CopyOK(next, store)
  BY <1>1, <1>2, <1>5 DEF SeenOK, HasRead, Copying, CopyLoop, SameRun, CopyOK
<1>11. PostOK(next, releases')
  <2>1. \A b \in Assets : /\ b < me.asset => b # me.asset /\ releases[k].assets[b] # None
                          /\ b > me.asset => b # me.asset /\ releases[k].assets[b] = me.listed[b]
    BY <1>1, <1>2 DEF PostOK, k, Assets
  <2>2. \A b \in Assets : /\ b < me.asset => releases'[k].assets[b] # None
                          /\ b > me.asset => releases'[k].assets[b] = me.listed[b]
    BY <1>7, <2>1
  <2>3. QED
    BY <1>5, <1>7, <2>2 DEF PostOK, Reading
<1>12. JobOK(r, next, store, manifest, merged, releases')
  BY <1>9, <1>10, <1>11, WhileNotBuilding DEF JobOK
<1>13. QED
  BY <1>2, <1>4, <1>5, <1>6, <1>8, <1>9, <1>12, PostSerial DEF me

LEMMA UploadReleaseAssetSerial ==
  ASSUME LanesInv, ReleasedInv, SerialInv, NEW r \in Runs, UploadReleaseAsset(r)
  PROVE  SerialInv'
<1> DEFINE me == run[r]
           k == me.release
           post == [content |-> me.files[me.asset], by |-> r]
           next == Advance(me, "remove", "list")
<1>1. /\ me.pc \in {"remove", "upload"} /\ RunOK(me)
      /\ me.pc = "remove" => me.listed[me.asset] = None
  BY RunFacts DEF UploadReleaseAsset, At
<1>2. /\ me \in RunStates /\ Active(me) /\ me.kind = "release" /\ me.phase = "publish"
      /\ me.asset \in Assets /\ k \in DOMAIN releases /\ releases \in Seq(Releases)
      /\ \A j \in DOMAIN releases : releases[j] \in Releases
      /\ releases[k].assets \in [Assets -> Posted \union {None}]
      /\ SeenOK(me, store, manifest) /\ PostOK(me, releases)
  BY <1>1, PostingFacts
<1>3. releases[k].assets[me.asset] = None
  BY <1>1, <1>2 DEF PostOK
<1>4. /\ Goto(r, next) /\ UNCHANGED lanes /\ UNCHANGED <<tags, merged>>
      /\ releases' = [releases EXCEPT ![k].assets[me.asset] = post]
  BY <1>3 DEF UploadReleaseAsset, Check
<1>5. post # None
  <2>1. me.files[me.asset] \in Contents
    BY <1>1, <1>2 DEF RunOK, HoldsWhatItNeeds
  <2>2. post \in Posted
    BY <2>1 DEF Posted
  <2>3. QED
    BY <2>2, LanesAssumption
<1>6. "remove" \in Points /\ "list" \in Points
  BY DEF Points
<1>7. /\ SameJob(me, next) /\ next.built = me.built /\ next.listed = me.listed
      /\ \/ next.pc = "remove" /\ next.asset = me.asset + 1 /\ next.asset \in Assets
         \/ next.pc = "list" /\ me.asset = NumAssets
  BY <1>2, <1>6, AdvanceSerial
<1> HIDE DEF me, k, post, next
<1>8. next.phase = me.phase /\ next.found = me.found /\ next.release = k /\ SameRun(me, next)
  BY <1>1, <1>7 DEF SameJob, SameRun, k
<1>9. /\ DOMAIN releases' = DOMAIN releases
      /\ \A j \in DOMAIN releases : /\ releases'[j].version = releases[j].version
                                    /\ releases'[j].source = releases[j].source
      /\ releases'[k].assets = [releases[k].assets EXCEPT ![me.asset] = post]
  BY <1>2, <1>4 DEF Releases
<1>10. releases'[k].assets[me.asset] # None
       /\ \A b \in Assets : b # me.asset => releases'[k].assets[b] = releases[k].assets[b]
  BY <1>2, <1>5, <1>9
<1>11. ReleasesStay
  BY <1>9 DEF ReleasesStay
<1>12. Active(next) /\ next.pc \notin Building
  BY <1>7 DEF Active, Ends, Building, SealLoop
<1>13. SeenOK(next, store, manifest) /\ CopyOK(next, store)
  BY <1>1, <1>2, <1>7, <1>8 DEF SeenOK, HasRead, Copying, CopyLoop, SameRun, CopyOK
<1>14. PostOK(next, releases')
  <2>1. \A b \in Assets : /\ b < me.asset => releases[k].assets[b] # None
                          /\ b > me.asset => releases[k].assets[b] = me.listed[b]
    BY <1>1, <1>2 DEF PostOK, k
  <2>2. \A b \in Assets : /\ b < me.asset => b # me.asset
                          /\ b > me.asset => b # me.asset
                          /\ b < me.asset \/ b = me.asset \/ b > me.asset
    BY <1>2 DEF Assets
  <2>3. \A b \in Assets : /\ b <= me.asset => releases'[k].assets[b] # None
                          /\ b > me.asset => releases'[k].assets[b] = me.listed[b]
    <3> SUFFICES ASSUME NEW b \in Assets
                 PROVE  /\ b <= me.asset => releases'[k].assets[b] # None
                        /\ b > me.asset => releases'[k].assets[b] = me.listed[b]
      OBVIOUS
    <3>1. b <= me.asset => b < me.asset \/ b = me.asset
      BY <1>2 DEF Assets
    <3>2. QED
      BY <1>10, <2>1, <2>2, <3>1
  <2>4. CASE next.pc = "remove"
    <3>1. next.asset = me.asset + 1 /\ next.asset \in Assets
      BY <1>7, <2>4
    <3>2. \A b \in Assets : /\ b < next.asset => b <= me.asset
                            /\ b > next.asset => b > me.asset
      BY <1>2, <3>1 DEF Assets
    <3>3. next.asset > me.asset
      BY <1>2, <3>1 DEF Assets
    <3>4. releases'[k].assets[next.asset] = me.listed[next.asset]
      BY <2>3, <3>1, <3>3
    <3>5. QED
      BY <1>7, <1>8, <2>3, <2>4, <3>2, <3>4 DEF PostOK, Reading
  <2>5. CASE next.pc = "list"
    <3>1. me.asset = NumAssets
      BY <1>7, <2>5
    <3>2. \A b \in Assets : b <= me.asset
      BY <3>1, LanesAssumption DEF Assets
    <3>3. QED
      BY <1>8, <2>3, <2>5, <3>2 DEF PostOK, Reading
  <2>6. QED
    BY <1>7, <2>4, <2>5
<1>15. JobOK(r, next, store, manifest, merged, releases')
  BY <1>12, <1>13, <1>14, WhileNotBuilding DEF JobOK
<1>16. QED
  BY <1>2, <1>4, <1>8, <1>9, <1>11, <1>12, <1>15, PostSerial DEF me

\* What is published is copied to the main lane next.
LEMMA PublishSerial ==
  ASSUME LanesInv, ReleasedInv, SerialInv, NEW r \in Runs, Publish(r)
  PROVE  SerialInv'
<1> DEFINE me == run[r]
           k == me.release
           main == MainLane(me.source)
           empty == [a \in Assets |-> None]
           next == [me EXCEPT !.pc = "copy-get", !.to = main, !.files = empty]
<1>1. /\ me.pc = "publish" /\ RunOK(me) /\ me.asset = 1
      /\ Goto(r, next) /\ UNCHANGED lanes /\ UNCHANGED <<tags, merged>>
      /\ releases' = [releases EXCEPT ![k].draft = FALSE]
  BY RunFacts DEF Publish, At, RunOK, HoldsWhatItNeeds, Loops, SealLoop, CopyLoop
<1>2. /\ me \in RunStates /\ Active(me) /\ me.kind = "release" /\ me.phase = "publish"
      /\ k \in DOMAIN releases /\ releases \in Seq(Releases)
      /\ \A j \in DOMAIN releases : releases[j] \in Releases
      /\ SeenOK(me, store, manifest) /\ PostOK(me, releases)
  BY <1>1, PostingFacts
<1>3. /\ next.pc = "copy-get" /\ next.phase = me.phase /\ SameRun(me, next)
      /\ next.found = me.found /\ next.asset = me.asset /\ next.to = main
  BY <1>1, <1>2 DEF SameRun, RunStates
<1>4. me.found = manifest[me.lane] /\ me.found # None
  BY <1>1, <1>2, LanesAssumption DEF SeenOK, HasRead, RunOK, HoldsWhatItNeeds
<1>5. Holds(store, me.lane, "asset", Assets, me.found)
  BY <1>2, <1>4 DEF SeenOK
<1> HIDE DEF me, k, next, main, empty
<1>6. /\ DOMAIN releases' = DOMAIN releases
      /\ \A j \in DOMAIN releases : /\ releases'[j].version = releases[j].version
                                    /\ releases'[j].source = releases[j].source
  BY <1>1, <1>2 DEF Releases
<1>7. ReleasesStay
  BY <1>6 DEF ReleasesStay
<1>8. Active(next) /\ next.pc \notin Building
  BY <1>3 DEF Active, Ends, Building, SealLoop
<1>9. SeenOK(next, store, manifest)
  BY <1>2, <1>3, <1>4, <1>5 DEF SeenOK, HasRead, Copying, CopyLoop, SameRun
<1>10. CopyOK(next, store)
  <2>1. Earlier(next.asset) = {}
    BY <1>1, <1>3 DEF Earlier, Assets
  <2>2. next.kind = "release"
    BY <1>2, <1>3 DEF SameRun
  <2>3. QED
    BY <1>3, <2>1, <2>2 DEF CopyOK, Copied, Holds, CopyLoop
<1>11. PostOK(next, releases')
  BY <1>3 DEF PostOK, Reading
<1>12. JobOK(r, next, store, manifest, merged, releases')
  BY <1>8, <1>9, <1>10, <1>11, WhileNotBuilding DEF JobOK
<1>13. QED
  BY <1>1, <1>2, <1>3, <1>6, <1>7, <1>8, <1>12, PostSerial DEF me

\* A merge does not change what a run is about, or the tree of a release.
LEMMA MergePullRequestSerial ==
  ASSUME LanesInv, ReleasedInv, SerialInv, NEW i \in PullRequests, MergePullRequest(i)
  PROVE  SerialInv'
<1>1. /\ store' = store /\ manifest' = manifest /\ run' = run /\ tags' = tags
      /\ releases' = releases
      /\ merged[i] = "open" /\ \E how : merged' = [merged EXCEPT ![i] = how]
  BY DEF MergePullRequest, lanes
<1>2. ReleasesMerged /\ MergesStay
  BY <1>1 DEF ReleasedInv, MergesStay, LanesInv, TypeOK
<1>3. ASSUME NEW r \in Runs, Active(run[r])
      PROVE  CommitTree(run[r], merged') = CommitTree(run[r], merged)
  <2>1. /\ RunOK(run[r]) /\ run[r].source \in PullRequests
        /\ run[r].kind \in {"pr", "merge", "release"}
    BY <1>3, RunFacts DEF RunOK, InJob
  <2>2. CASE run[r].kind = "pr"
    BY <2>2 DEF CommitTree
  <2>3. CASE run[r].kind = "merge"
    <3>1. merged[run[r].source] # "open"
      BY <1>3, <2>3 DEF ReleasedInv, MergeOK, Merging
    <3>2. QED
      BY <1>2, <2>1, <2>3, <3>1 DEF MergesStay, CommitTree, MergedTree
  <2>4. CASE run[r].kind = "release"
    <3>1. HasRelease(releases, run[r].version, run[r].source)
      BY <1>3, <2>4 DEF ReleasedInv, PublishOK
    <3>2. QED
      BY <1>2, <2>1, <2>4, <3>1, ReleasedTreeStays DEF CommitTree
  <2>5. QED
    BY <2>1, <2>2, <2>3, <2>4
<1>4. ASSUME NEW r \in Runs
      PROVE  RunSerial(r, run[r], store, manifest, tags, merged', releases)
  <2>1. CASE ~Active(run[r])
    BY <2>1, InactiveSerial
  <2>2. CASE Active(run[r])
    <3> DEFINE me == run[r]
    <3>1. /\ SourceOK(me, tags, releases) /\ FreshOK(r, me, manifest) /\ CountOK(me)
          /\ SeenOK(me, store, manifest) /\ BuildOK(me, store, manifest, merged)
          /\ StagedOK(r, me, store, merged) /\ SealOK(r, me, store, merged)
          /\ CopyOK(me, store) /\ PostOK(me, releases)
      BY JobFacts
    <3>2. CommitTree(me, merged') = CommitTree(me, merged)
          /\ OwnBuild(r, me, merged') = OwnBuild(r, me, merged)
      BY <1>3, <2>2 DEF OwnBuild
    <3> HIDE DEF me
    <3>3. BuildOK(me, store, manifest, merged')
      BY <3>1, <3>2 DEF BuildOK
    <3>4. StagedOK(r, me, store, merged')
      BY <3>1, <3>2 DEF StagedOK
    <3>5. SealOK(r, me, store, merged')
      BY <3>1, <3>2 DEF SealOK
    <3>6. QED
      BY <3>1, <3>3, <3>4, <3>5 DEF RunSerial, JobOK, me
  <2>3. QED
    BY <2>1, <2>2
<1>5. ASSUME NEW m, NEW v, AboutRelease(m, v, merged, releases)
      PROVE  AboutRelease(m, v, merged', releases)
  BY <1>2, <1>5, ReleasedTreeStays DEF AboutRelease
<1>6. VersionLanesOK'
  BY <1>1, <1>5 DEF SerialInv, VersionLanesOK
<1>7. Alone' /\ OneActive' /\ OneVersion' /\ DigestsOK' /\ NothingAhead' /\ ManifestIsTrue'
      /\ RerunHeals'
  BY <1>1 DEF SerialInv, Alone, OneActive, OneVersion, DigestsOK, NothingAhead, Unbuilt, At,
     ManifestIsTrue, RerunHeals
<1>8. QED
  BY <1>1, <1>4, <1>6, <1>7 DEF SerialInv
-----------------------------------------------------------------------------
(* The cleanup, when no run is active.                                       *)

LEMMA MinFacts ==
  ASSUME NEW S, S \subseteq Nat, S # {}
  PROVE  Min(S) \in S /\ \A k \in S : Min(S) <= k
<1>1. PICK m \in S : \A y \in S : ~(<<y, m>> \in OpToRel(<, Nat))
  BY NatLessThanWellFounded, WFMin
<1>2. ASSUME NEW k \in S, ~(m <= k)
      PROVE  FALSE
  <2>1. k \in Nat /\ m \in Nat /\ k < m
    BY <1>2
  <2>2. <<k, m>> \in OpToRel(<, Nat)
    BY <2>1 DEF OpToRel
  <2>3. QED
    BY <1>1, <2>2
<1>3. \A k \in S : m <= k
  BY <1>2
<1>4. QED
  BY <1>3 DEF Min

\* The cleanup lists the assets and their digests, those of asset 1 first.
LEMMA KeyFacts ==
  /\ DOMAIN KeyOrder \subseteq Nat \ {0}
  /\ KeyOrder[1] = <<"asset", 1>> /\ KeyOrder[2] = <<"sha256", 1>> /\ 1 \in DOMAIN KeyOrder
  /\ \A k \in DOMAIN KeyOrder :
       KeyOrder[k][1] \in {"asset", "sha256"} /\ KeyOrder[k][2] \in Assets
<1> DEFINE n == 2 * (NumAssets - 1)
           first == <<<<"asset", 1>>, <<"sha256", 1>>>>
           rest == [k \in 1 .. n |->
                      <<IF k % 2 = 1 THEN "asset" ELSE "sha256", 2 + (k - 1) \div 2>>]
           Keys == {"asset", "sha256"} \X Assets
<1>1. n \in Nat /\ NumAssets \in Nat \ {0}
  BY LanesAssumption
<1>2. first \in Seq(Keys) /\ Len(first) = 2
  BY AssetFacts
<1>3. rest \in Seq(Keys) /\ Len(rest) = n
  <2>1. ASSUME NEW k \in 1 .. n
        PROVE  2 + (k - 1) \div 2 \in Assets
    BY <1>1 DEF Assets
  <2>2. \A k \in 1 .. n : rest[k] \in Keys
    BY <2>1
  <2>3. QED
    BY <1>1, <2>2
<1>4. KeyOrder = first \o rest
  BY DEF KeyOrder
<1>5. first[1] = <<"asset", 1>> /\ first[2] = <<"sha256", 1>>
  OBVIOUS
<1> HIDE DEF first, rest
<1> HIDE DEF Keys, n
<1>6. /\ KeyOrder \in Seq(Keys) /\ Len(KeyOrder) = 2 + n
      /\ KeyOrder[1] = first[1] /\ KeyOrder[2] = first[2]
  <2>1. /\ first \o rest \in Seq(Keys) /\ Len(first \o rest) = Len(first) + Len(rest)
        /\ \A k \in 1 .. Len(first) + Len(rest) :
             (first \o rest)[k] = IF k <= Len(first) THEN first[k] ELSE rest[k - Len(first)]
    BY <1>2, <1>3, ConcatProperties
  <2>2. 1 \in 1 .. 2 + n /\ 2 \in 1 .. 2 + n /\ 1 <= 2
    BY <1>1
  <2>3. QED
    BY <1>2, <1>3, <1>4, <2>1, <2>2
<1>7. DOMAIN KeyOrder = 1 .. 2 + n
  BY <1>6
<1>8. \A k \in DOMAIN KeyOrder : KeyOrder[k] \in Keys
  BY <1>6, ElementOfSeq
<1>9. QED
  BY <1>1, <1>5, <1>6, <1>7, <1>8 DEF Keys

\* What is deleted at a step: an object that the manifest is not about any more, or the manifest.
LEMMA ExpireSteps ==
  ASSUME LanesInv, NEW i \in PullRequests, Expire(i)
  PROVE  \/ manifest' = [manifest EXCEPT ![PrLane(i)] = None] /\ store' = store
         \/ \E s \in {"asset", "sha256"}, a \in Assets :
              /\ Put(<<PrLane(i), s, a>>, None) /\ MayPut(PrLane(i), s, a, None)
              /\ manifest' = manifest
<1> DEFINE lane == PrLane(i)
           Left(k) == store[<<lane, KeyOrder[k][1], KeyOrder[k][2]>>] # None
           left == {k \in DOMAIN KeyOrder : Left(k)}
           k == Min(left)
<1>1. CASE manifest' = [manifest EXCEPT ![lane] = None] /\ store' = store
  BY <1>1
<1>2. CASE /\ left # {} /\ manifest' = manifest
           /\ k <= 2 \/ manifest[lane] = None
           /\ Put(<<lane, KeyOrder[k][1], KeyOrder[k][2]>>, None)
  <2>1. left \subseteq Nat /\ left \subseteq DOMAIN KeyOrder
    BY KeyFacts
  <2>2. k \in left /\ \A j \in left : k <= j
    BY <1>2, <2>1, MinFacts
  <2>3. k \in DOMAIN KeyOrder /\ k \in Nat \ {0}
    BY <2>1, <2>2, KeyFacts
  <2> DEFINE s == KeyOrder[k][1]
             a == KeyOrder[k][2]
  <2>4. s \in {"asset", "sha256"} /\ a \in Assets
    BY <2>3, KeyFacts
  <2> HIDE DEF k, left
  <2>5. ASSUME manifest[lane] # None
        PROVE  MayPut(lane, s, a, None)
    <3>1. k = 1 \/ k = 2
      BY <1>2, <2>3, <2>5
    <3>2. Tagged(lane) /\ manifest[lane].assets[a] # None
      <4>1. lane \in Lanes /\ Tagged(lane)
        BY NamedLanes DEF PrLane, VersionLane, Tagged
      <4>2. manifest[lane] \in Manifests
        BY <2>5, <4>1 DEF LanesInv, TypeOK
      <4>3. manifest[lane].assets[a] \in Contents
        BY <2>4, <4>2 DEF Manifests
      <4>4. QED
        BY <4>1, <4>3, LanesAssumption
    <3>3. CASE k = 1
      <4>1. s = "asset"
        BY <3>3, KeyFacts
      <4>2. QED
        BY <3>2, <4>1 DEF MayPut
    <3>4. CASE k = 2
      <4>1. s = "sha256" /\ a = 1
        BY <3>4, KeyFacts
      <4>2. 1 \notin left
        BY <2>2, <3>4
      <4>3. store[<<lane, "asset", 1>>] = None
        BY <4>2, KeyFacts DEF left
      <4>4. QED
        BY <3>2, <4>1, <4>3 DEF MayPut
    <3>5. QED
      BY <3>1, <3>3, <3>4
  <2>6. MayPut(lane, s, a, None)
    BY <2>5 DEF MayPut
  <2>7. QED
    BY <1>2, <2>4, <2>6
<1>3. QED
  BY <1>1, <1>2 DEF Expire

LEMMA ExpireSerial ==
  ASSUME MaxActive = 1, LanesInv, ReleasedInv, SerialInv, NEW i \in PullRequests, Expire(i)
  PROVE  SerialInv'
<1> DEFINE lane == PrLane(i)
<1>1. /\ \A q \in Runs : ~Active(run[q])
      /\ UNCHANGED <<latest, github, run>>
  BY NoneWorks DEF Expire, SerialInv
<1>2. /\ run' = run /\ tags' = tags /\ merged' = merged /\ releases' = releases
      /\ UNCHANGED <<latest, github>>
  BY <1>1 DEF github
<1>3. RunsSerial'
  <2>1. \A q \in Runs : RunSerial(q, run'[q], store', manifest', tags', merged', releases')
    BY <1>1, <1>2, InactiveSerial
  <2>2. QED
    BY <1>2, <2>1 DEF SerialInv, RunsSerial, Alone, OneActive, RerunHeals, At
<1>4. lane \in Lanes /\ lane[1] = "pr" /\ manifest \in [Lanes -> Manifests \union {None}]
  BY NamedLanes DEF PrLane, LanesInv, TypeOK
<1>5. CASE manifest' = [manifest EXCEPT ![lane] = None] /\ store' = store
  <2>1. \A l \in Lanes : manifest'[l] = IF l = lane THEN None ELSE manifest[l]
    BY <1>4, <1>5
  <2>2. \A v \in Versions : VersionLane(v) # lane /\ VersionLane(v) \in Lanes
    BY <1>4, NamedLanes
  <2>3. \A j \in PullRequests : PrLane(j) \in Lanes
    BY <1>4, NamedLanes
  <2> HIDE DEF lane
  <2>4. VersionLanesOK'
    BY <1>2, <1>5, <2>1, <2>2, <2>3 DEF SerialInv, VersionLanesOK, Promoted
  <2>5. DigestsOK' /\ ManifestIsTrue'
    BY <1>5, <2>1 DEF SerialInv, DigestsOK, ManifestIsTrue
  <2>6. NothingAhead'
    BY <1>2, <1>5, <2>1 DEF SerialInv, NothingAhead, Unbuilt, At
  <2>7. OneVersion'
    BY <1>2 DEF SerialInv, OneVersion
  <2>8. QED
    BY <1>3, <2>4, <2>5, <2>6, <2>7 DEF SerialInv, RunsSerial
<1>6. ASSUME NEW s \in {"asset", "sha256"}, NEW a \in Assets, manifest' = manifest,
             Put(<<lane, s, a>>, None), MayPut(lane, s, a, None)
      PROVE  SerialInv'
  <2>1. s \in Slots
    BY SlotNames
  <2>2. VersionLanesOK' /\ DigestsOK' /\ OneVersion' /\ ManifestIsTrue'
    BY <1>2, <1>4, <1>6, <2>1, PutLanes
  <2>3. NothingAhead'
    <3> SUFFICES ASSUME NEW q \in Runs, At(q, "idle")'
                 PROVE  Unbuilt(q)'
      BY DEF NothingAhead
    <3>1. Unbuilt(q)
      BY <1>2 DEF SerialInv, NothingAhead, At
    <3>2. ASSUME NEW k \in Lanes \X Slots \X Assets, store'[k] # None
          PROVE  store'[k].build # q
      <4>1. PICK m \in Lanes, z \in Slots, b \in Assets : k = <<m, z, b>>
        OBVIOUS
      <4>2. IsPut(lane, s, a, None)
        BY <1>4, <1>6, <2>1, PutValue
      <4>3. QED
        BY <3>1, <3>2, <4>1, <4>2 DEF Unbuilt, IsPut
    <3>3. QED
      BY <1>6, <3>1, <3>2 DEF Unbuilt
  <2>4. QED
    BY <1>3, <2>2, <2>3 DEF SerialInv, RunsSerial
<1>7. QED
  BY <1>5, <1>6, ExpireSteps

LEMMA SerialInit ==
  ASSUME MaxActive = 1, Init
  PROVE  SerialInv
<1>1. /\ releases = <<>> /\ tags = <<>> /\ run = [r \in Runs |-> Idle]
      /\ store = [k \in Lanes \X Slots \X Assets |-> None] /\ manifest = [l \in Lanes |-> None]
  BY DEF Init
<1>2. \A r \in Runs : ~Active(run[r]) /\ run[r].pc = "idle"
  BY <1>1 DEF Active, Ends, Idle
<1>3. \A r \in Runs : RunSerial(r, run[r], store, manifest, tags, merged, releases)
  BY <1>2, InactiveSerial
<1>4. \A l \in Lanes : manifest[l] = None
  BY <1>1
<1>5. VersionLanesOK /\ DigestsOK /\ ManifestIsTrue
  BY <1>4, NamedLanes DEF VersionLanesOK, DigestsOK, ManifestIsTrue
<1>6. OneVersion /\ NothingAhead
  BY <1>1, <1>4 DEF OneVersion, NothingAhead, Unbuilt
<1>7. Alone /\ OneActive /\ RerunHeals
  BY <1>2 DEF Alone, OneActive, RerunHeals, At
<1>8. QED
  BY <1>3, <1>5, <1>6, <1>7 DEF SerialInv

LEMMA WorkSerial ==
  ASSUME LanesInv, ReleasedInv, SerialInv, NEW r \in Runs, Work(r)
  PROVE  SerialInv'
BY ReadManifestSerial, VerifyAssetSerial, DecideUploadsSerial, UploadAssetSerial,
   UploadDigestSerial, BuildsDoneSerial, SealGetSerial, SealDigestSerial, SealCopySerial,
   SealCheckSerial, SealRecordSerial, SealCleanSerial, SealCleanDigestSerial, SealManifestSerial,
   FindDraftSerial, CreateDraftSerial, SkipPromotionSerial, DecidePromotionSerial, CopyGetSerial,
   CopyPutSerial, CopyCheckSerial, CopyRecordSerial, CopyManifestSerial, PushTagSerial,
   AuthorizeSerial, DecidePublishSerial, DownloadSerial, VersionCheckSerial, RemoveAssetSerial,
   UploadReleaseAssetSerial, ListAssetsSerial, PublishSerial, VersionManifestSerial,
   PutLatestSerial, Zenon
DEF Work

LEMMA SerialStep ==
  ASSUME MaxActive = 1, LanesInv, ReleasedInv, SerialInv, [Next]_vars
  PROVE  SerialInv'
<1>1. ASSUME NEW r \in Runs, Work(r)
      PROVE  SerialInv'
  BY <1>1, WorkSerial
<1>2. CASE UNCHANGED vars
  <2>1. /\ store' = store /\ manifest' = manifest /\ run' = run
        /\ tags' = tags /\ releases' = releases /\ merged' = merged
    BY <1>2 DEF vars, lanes, github
  <2>2. \A r \in Runs : RunSerial(r, run'[r], store', manifest', tags', merged', releases')
    BY <2>1 DEF SerialInv
  <2>3. Alone' /\ OneActive' /\ OneVersion' /\ DigestsOK' /\ NothingAhead' /\ ManifestIsTrue'
        /\ RerunHeals' /\ VersionLanesOK'
    BY <2>1 DEF SerialInv, Alone, OneActive, OneVersion, DigestsOK, NothingAhead, Unbuilt,
       At, ManifestIsTrue, RerunHeals, VersionLanesOK
  <2>4. QED
    BY <2>2, <2>3 DEF SerialInv
<1>3. QED
  BY <1>1, <1>2, MergePullRequestSerial, ExpireSerial, PreparePullRequestSerial,
     PlanReleaseSerial, PrepareReleaseSerial, LaneUnreadSerial, AbortSerial, Zenon
  DEF Next

-----------------------------------------------------------------------------
(* What a step may never do to a draft.                                      *)

\* A release that stops being a draft has all of its assets.
DraftsComplete ==
  \A k \in DOMAIN releases :
    releases[k].draft /\ ~releases'[k].draft => \A a \in Assets : releases[k].assets[a] # None

LEMMA PublishDrafts ==
  ASSUME LanesInv, ReleasedInv, SerialInv, NEW r \in Runs, Publish(r)
  PROVE  DraftsComplete
<1> DEFINE me == run[r]
<1>1. me.pc = "publish" /\ releases' = [releases EXCEPT ![me.release].draft = FALSE]
  BY DEF Publish, At
<1>2. /\ me.release \in DOMAIN releases /\ releases \in Seq(Releases)
      /\ \A a \in Assets : releases[me.release].assets[a] # None
  <2>1. /\ me.release \in DOMAIN releases /\ releases \in Seq(Releases)
        /\ me.phase = "publish" /\ Active(me) /\ PostOK(me, releases)
    BY <1>1, PostingFacts
  <2>2. QED
    BY <1>1, <2>1 DEF PostOK
<1> HIDE DEF me
<1>3. \A k \in DOMAIN releases : k # me.release => releases'[k] = releases[k]
  BY <1>1, <1>2
<1>4. QED
  BY <1>2, <1>3 DEF DraftsComplete

LEMMA PostDrafts ==
  ASSUME LanesInv, NEW k, NEW a, NEW post,
         releases' = [releases EXCEPT ![k].assets[a] = post] \/ releases' = releases
  PROVE  DraftsComplete
<1>1. ASSUME NEW j \in DOMAIN releases
      PROVE  releases'[j].draft = releases[j].draft
  <2>1. releases[j] \in Releases
    BY ReleaseFacts DEF LanesInv, TypeOK
  <2>2. QED
    BY <2>1 DEF Releases
<1>2. QED
  BY <1>1 DEF DraftsComplete

LEMMA CreateDrafts ==
  ASSUME LanesInv, NEW r \in Runs, CreateDraft(r)
  PROVE  DraftsComplete
<1>1. releases \in Seq(Releases) /\ releases' = Append(releases, Draft(run[r]))
  BY DEF LanesInv, TypeOK, CreateDraft
<1>2. \A k \in DOMAIN releases : releases'[k] = releases[k]
  BY <1>1
<1>3. QED
  BY <1>2 DEF DraftsComplete

LEMMA WorkDrafts ==
  ASSUME LanesInv, ReleasedInv, SerialInv, NEW r \in Runs, Work(r)
  PROVE  DraftsComplete
<1>1. releases' = releases => DraftsComplete
  BY DEF DraftsComplete
<1>2. CASE ReadManifest(r) \/ VerifyAsset(r) \/ DecideUploads(r) \/ BuildsDone(r)
  BY <1>1, <1>2 DEF ReadManifest, VerifyAsset, DecideUploads, BuildsDone, Step, github
<1>3. CASE \E a \in Assets : UploadAsset(r, a) \/ UploadDigest(r, a)
  BY <1>1, <1>3 DEF UploadAsset, UploadDigest, github
<1>4. CASE SealGet(r) \/ SealDigest(r) \/ SealCheck(r)
  BY <1>1, <1>4 DEF SealGet, SealDigest, SealCheck, StepIf, github
<1>5. CASE SealCopy(r) \/ SealRecord(r) \/ SealClean(r) \/ SealCleanDigest(r)
  BY <1>1, <1>5 DEF SealCopy, SealRecord, SealClean, SealCleanDigest, github
<1>6. CASE SealManifest(r) \/ CopyManifest(r) \/ VersionManifest(r) \/ PutLatest(r)
  BY <1>1, <1>6 DEF SealManifest, CopyManifest, VersionManifest, PutLatest, github
<1>7. CASE FindDraft(r) \/ SkipPromotion(r) \/ DecidePromotion(r) \/ Authorize(r)
  BY <1>1, <1>7 DEF FindDraft, SkipPromotion, DecidePromotion, Authorize, Step, StepIf, github
<1>8. CASE PushTag(r)
  BY <1>1, <1>8 DEF PushTag
<1>9. CASE CopyGet(r) \/ CopyCheck(r) \/ DecidePublish(r) \/ Download(r) \/ VersionCheck(r)
           \/ ListAssets(r)
  BY <1>1, <1>9
  DEF CopyGet, CopyCheck, DecidePublish, Download, VersionCheck, ListAssets, StepIf, github
<1>10. CASE CopyPut(r) \/ CopyRecord(r)
  BY <1>1, <1>10 DEF CopyPut, CopyRecord, github
<1> DEFINE me == run[r]
           post == [content |-> me.files[me.asset], by |-> r]
<1>11. CASE RemoveAsset(r)
  <2>1. \/ releases' = [releases EXCEPT ![me.release].assets[me.asset] = None]
        \/ releases' = releases
    BY <1>11 DEF RemoveAsset
  <2>2. QED
    BY <2>1, PostDrafts
<1>12. CASE UploadReleaseAsset(r)
  <2>1. \/ releases' = [releases EXCEPT ![me.release].assets[me.asset] = post]
        \/ releases' = releases
    BY <1>12 DEF UploadReleaseAsset
  <2>2. QED
    BY <2>1, PostDrafts
<1>13. QED
  BY <1>2, <1>3, <1>4, <1>5, <1>6, <1>7, <1>8, <1>9, <1>10, <1>11, <1>12, CreateDrafts,
     PublishDrafts, Zenon
  DEF Work

LEMMA SerialDrafts ==
  ASSUME LanesInv, ReleasedInv, SerialInv, [Next]_vars
  PROVE  DraftsComplete
<1>1. releases' = releases => DraftsComplete
  BY DEF DraftsComplete
<1>2. ASSUME NEW r \in Runs, NEW i \in PullRequests, PreparePullRequest(r, i) \/ PlanRelease(r, i)
      PROVE  DraftsComplete
  BY <1>1, <1>2 DEF PreparePullRequest, PlanRelease, Step, github
<1>3. ASSUME NEW r \in Runs, NEW v \in Versions, PrepareRelease(r, v)
      PROVE  DraftsComplete
  BY <1>1, <1>3 DEF PrepareRelease, Step, github
<1>4. ASSUME NEW r \in Runs, LaneUnread(r) \/ Abort(r)
      PROVE  DraftsComplete
  BY <1>1, <1>4 DEF LaneUnread, Abort, Step, github
<1>5. ASSUME NEW i \in PullRequests, MergePullRequest(i) \/ Expire(i)
      PROVE  DraftsComplete
  BY <1>1, <1>5 DEF MergePullRequest, Expire, github
<1>6. CASE UNCHANGED vars
  BY <1>1, <1>6 DEF vars, github
<1>7. QED
  BY <1>2, <1>3, <1>4, <1>5, <1>6, WorkDrafts, Zenon DEF Next

-----------------------------------------------------------------------------
\* While the workflows run one after the other, wherever each of them is aborted and
\* whatever the cleanup deletes between them, what is staged, sealed, copied and posted is
\* what its run has built or found sealed (plugin_csilgen_jobs.py: _seal_asset_lane,
\* _promote_merged_pr_assets, _publish_tag_release).
THEOREM SerialInvariant ==
  ASSUME MaxActive = 1
  PROVE  Spec => [](LanesInv /\ ReleasedInv /\ SerialInv)
<1>1. Init => LanesInv /\ ReleasedInv /\ SerialInv
  BY LanesInit, ReleasedInit, SerialInit
<1>2. (LanesInv /\ ReleasedInv /\ SerialInv) /\ [Next]_vars
        => (LanesInv /\ ReleasedInv /\ SerialInv)'
  BY LanesStep, ReleasedStep, SerialStep
<1>3. QED
  BY <1>1, <1>2, PTL DEF Spec

\* A manifest tells the truth about what its assets were built from, while the workflows
\* run one after the other: _seal_asset_lane and _promote_merged_pr_assets write the
\* manifest of what they have verified.
THEOREM ManifestsAreTrue ==
  ASSUME MaxActive = 1
  PROVE  Spec => []ManifestIsTrue
<1>1. SerialInv => ManifestIsTrue
  BY DEF SerialInv
<1>2. QED
  BY <1>1, SerialInvariant, PTL

\* A pull request or release workflow fails only if it is aborted itself: whatever the
\* workflows before it and the cleanup have left in the lanes, the tag or the draft, no
\* check of prepare, seal or _publish_tag_release turns it down.
THEOREM RerunsHeal ==
  ASSUME MaxActive = 1
  PROVE  Spec => []RerunHeals
<1>1. SerialInv => RerunHeals
  BY DEF SerialInv
<1>2. QED
  BY <1>1, SerialInvariant, PTL

\* A release becomes public only with all of its assets, while the workflows run one
\* after the other: _publish_tag_release lists them again before it publishes.
THEOREM PublicationIsComplete ==
  ASSUME MaxActive = 1
  PROVE  Spec => PublishedWhenComplete
<1>1. LanesInv /\ ReleasedInv /\ SerialInv /\ [Next]_vars =>
        [\A k \in DOMAIN releases :
           releases[k].draft /\ ~releases'[k].draft
             => \A a \in Assets : releases[k].assets[a] # None]_vars
  BY SerialDrafts DEF DraftsComplete
<1>2. QED
  BY <1>1, SerialInvariant, PTL DEF Spec, PublishedWhenComplete
=============================================================================
