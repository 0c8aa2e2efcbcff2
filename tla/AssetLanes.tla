----------------------------- MODULE AssetLanes -----------------------------
(***************************************************************************)
(* How csilgen's release assets get from a pull request to a GitHub        *)
(* release (.reactorcide/plugins/plugin_csilgen_jobs.py over the object    *)
(* store of .reactorcide/scripts/asset_cache.py).                          *)
(*                                                                         *)
(* Three workflows share the store.  A "pr" workflow builds the assets of  *)
(* a pull request's head commit, stages them and seals them in the lane    *)
(* pr-<number>-<sha>.  A "merge" workflow drafts the release, promotes the *)
(* sealed lane to v<version> and main-<sha>, and pushes the tag.  A        *)
(* "release" workflow prepares, builds and seals the version lane, uploads *)
(* it to the release, publishes it, and copies it to the main lane.        *)
(*                                                                         *)
(* Every request to the store or to GitHub is a step of its own: any two   *)
(* workflows may interleave there, and any workflow may stop there, killed *)
(* or failed by a test.  run[r] is the r-th workflow run with the local    *)
(* variables of the job it is in.                                          *)
(*                                                                         *)
(* The bytes of an asset are abstracted to what they were built from: a    *)
(* tree, a version, and the run that built them, as builds need not be     *)
(* reproducible.  Two archives have the same digest when all three agree.  *)
(***************************************************************************)
EXTENDS Naturals, Sequences, FiniteSets, FiniteSetsExt

CONSTANTS
  PullRequests,  \* pull requests, one revision each
  NumAssets,     \* length of EXPECTED_CACHE_ASSETS; asset 1 is the CLI that
                 \* publishing runs to see its version
  Runs,          \* bound: the workflow runs there may be
  MaxActive,     \* bound: runs in progress at the same time
  MaxVersions,   \* bound: versions released
  MaxFaults,     \* bound: runs that are aborted or give up reading a lane
  Expiring,      \* TRUE: the cleanup of another release deletes "pr" lanes
  None           \* no object, no release

VARIABLES
  store,     \* objects of the bucket, without the manifests
  manifest,  \* manifest[l]: complete.json of lane l
  latest,    \* main/latest.json
  tags,      \* tags[v]: the pull request whose merge commit version v tags
  merged,    \* is a pull request merged, and does its tree survive the merge
  releases,  \* the releases on GitHub, in the order of their creation
  run        \* the workflow runs

lanes == <<store, manifest, latest>>
github == <<tags, merged, releases>>
vars == <<lanes, github, run>>

Assets == 1..NumAssets
Versions == 1..MaxVersions

HeadOf(i) == <<"head", i>>
MergeOf(i) == <<"merge", i>>
Commits == {"head", "merge"} \X PullRequests

\* Trees are named by a commit that has them.
TreeOf(c) == IF c[1] = "merge" /\ merged[c[2]] = "same" THEN HeadOf(c[2]) ELSE c

PrLane(i) == <<"pr", i>>
MainLane(i) == <<"main", i>>
VersionLane(v) == <<"version", v>>
Lanes == ({"pr", "main"} \X PullRequests) \union ({"version"} \X Versions)

Slots == {"asset", "sha256", "staging", "staging-sha256"}
Contents == [tree : Commits, version : Versions, build : Runs]
Manifests == [source : Commits, tree : Commits, version : Versions,
              assets : [Assets -> Contents]]
Posted == [content : Contents, by : Runs]
Releases == [version : Versions, source : PullRequests, draft : BOOLEAN,
             assets : [Assets -> Posted \union {None}]]

ASSUME LanesAssumption ==
  /\ NumAssets \in Nat \ {0} /\ MaxActive \in Nat /\ MaxVersions \in Nat
  /\ MaxFaults \in Nat
  /\ Expiring \in BOOLEAN
  /\ None \notin Contents /\ None \notin Posted /\ None \notin Manifests
  /\ None \notin Lanes /\ None \notin PullRequests

Kinds == {"none", "pr", "merge", "release"}
Phases == {"none", "prepare", "promote", "publish"}
Ends == {"done", "failed", "aborted"}
Points == Ends \union
  {"idle", "draft", "create", "read", "verify", "decide", "build",
   "seal-get", "seal-digest", "seal-copy", "seal-check", "seal-record",
   "seal-clean", "seal-clean-digest", "seal-manifest", "authorize",
   "copy-get", "copy-put", "copy-check", "copy-record", "copy-manifest",
   "push", "download", "version-check", "remove", "upload", "list",
   "publish", "version-manifest", "latest"}

RunStates ==
  [kind : Kinds, phase : Phases, pc : Points,
   unread : BOOLEAN,             \* history: a lane was given up unread
   source : PullRequests \union {None}, version : Versions \union {0},
   lane : Lanes \union {None},   \* the lane the job works on
   to : Lanes \union {None},     \* the lane it copies to
   asset : Assets,               \* where its loop over the assets is
   uploads : SUBSET Assets,      \* asset_cache_uploads
   built : [Assets -> 0..2],     \* objects the build job of each asset has put
   held : Contents \union {None},      \* content
   found : Manifests \union {None},    \* manifest
   files : [Assets -> Contents \union {None}],   \* the artifacts directory
   release : Nat,                \* the release _authorized_release returned,
   listed : [Assets -> Posted \union {None}]]    \* with its assets at that time

Idle ==
  [kind |-> "none", phase |-> "none", pc |-> "idle", unread |-> FALSE,
   source |-> None, version |-> 0, lane |-> None, to |-> None, asset |-> 1,
   uploads |-> {},
   built |-> [a \in Assets |-> 0], held |-> None, found |-> None,
   files |-> [a \in Assets |-> None], release |-> 0,
   listed |-> [a \in Assets |-> None]]

Ended(me, how) ==
  [Idle EXCEPT !.kind = me.kind, !.source = me.source, !.version = me.version,
               !.unread = me.unread, !.pc = how]

TypeOK ==
  /\ store \in [Lanes \X Slots \X Assets -> Contents \union {None}]
  /\ manifest \in [Lanes -> Manifests \union {None}]
  /\ latest \in PullRequests \union {None}
  /\ tags \in Seq(PullRequests)
  /\ merged \in [PullRequests -> {"open", "same", "changed"}]
  /\ releases \in Seq(Releases)
  /\ run \in [Runs -> RunStates]

Init ==
  /\ store = [k \in Lanes \X Slots \X Assets |-> None]
  /\ manifest = [l \in Lanes |-> None]
  /\ latest = None
  /\ tags = <<>>
  /\ merged = [i \in PullRequests |-> "open"]
  /\ releases = <<>>
  /\ run = [r \in Runs |-> Idle]

-----------------------------------------------------------------------------
(* Steps of a run. *)

At(r, pc) == run[r].pc = pc

Goto(r, next) == run' = [run EXCEPT ![r] = next]

\* Go on if a check holds; otherwise the job raises and its workflow fails.
Check(r, ok, next) == Goto(r, IF ok THEN next ELSE Ended(run[r], "failed"))

\* The same for steps that write nothing.
Step(r, next) == Goto(r, next) /\ UNCHANGED <<lanes, github>>
StepIf(r, ok, next) == Check(r, ok, next) /\ UNCHANGED <<lanes, github>>

\* The next asset of a loop over EXPECTED_CACHE_ASSETS, or what follows it.
Advance(me, loop, after) ==
  IF me.asset < NumAssets
  THEN [me EXCEPT !.pc = loop, !.asset = @ + 1, !.held = None]
  ELSE [me EXCEPT !.pc = after, !.asset = 1, !.held = None]

Put(key, content) == store' = [store EXCEPT ![key] = content]

Commit(me) == IF me.kind = "pr" THEN HeadOf(me.source) ELSE MergeOf(me.source)

Built(r) ==
  [tree |-> TreeOf(Commit(run[r])), version |-> run[r].version, build |-> r]

Working(r) == run[r].pc \notin Ends \union {"idle"}

MayStart(r) ==
  /\ At(r, "idle")
  /\ Cardinality({q \in Runs : Working(q)}) < MaxActive

MayFault ==
  Cardinality({q \in Runs : At(q, "aborted") \/ run[q].unread}) < MaxFaults

-----------------------------------------------------------------------------
(* GitHub and git. *)

\* semver-tags: the version after the last one tagged.
NextVersion == Len(tags) + 1

\* _find_github_release: the published release of a version, or else the
\* draft that was created last; 0 if there is none.
Find(v) ==
  LET all == {k \in DOMAIN releases : releases[k].version = v}
      published == {k \in all : ~releases[k].draft}
  IN IF all = {} THEN 0
     ELSE IF published # {} THEN Max(published) ELSE Max(all)

\* The marker in the body of the release names the commit of the tag.
Authorized(v, i) == Find(v) # 0 /\ releases[Find(v)].source = i

Draft(me) ==
  [version |-> me.version, source |-> me.source, draft |-> TRUE,
   assets |-> [a \in Assets |-> None]]

\* A merge keeps the head's tree if nothing else was merged since its base.
MergePullRequest(i) ==
  /\ merged[i] = "open"
  /\ \E how \in {"same", "changed"} : merged' = [merged EXCEPT ![i] = how]
  /\ UNCHANGED <<lanes, tags, releases, run>>

-----------------------------------------------------------------------------
(* asset-prepare, for a pull request and for a tag. *)

\* The events pull_request_opened and pull_request_updated; the version is
\* that of the day, the lane only that of the commit.
PreparePullRequest(r, i) ==
  /\ MayStart(r) /\ NextVersion \in Versions /\ merged[i] = "open"
  /\ Step(r, [Idle EXCEPT !.kind = "pr", !.phase = "prepare", !.pc = "read",
                          !.source = i, !.version = NextVersion,
                          !.lane = PrLane(i)])

PrepareRelease(r, v) ==
  /\ MayStart(r) /\ v \in DOMAIN tags
  /\ LET me == [Idle EXCEPT !.kind = "release", !.phase = "prepare",
                            !.pc = "read", !.source = tags[v], !.version = v,
                            !.lane = VersionLane(v)]
     IN Step(r, IF Authorized(v, tags[v]) THEN me ELSE Ended(me, "failed"))

\* What each phase does about a lane without a valid manifest.
Unusable(me) ==
  IF me.phase = "prepare" THEN [me EXCEPT !.pc = "build", !.uploads = Assets,
                                          !.found = None, !.asset = 1]
  ELSE IF me.phase = "promote" THEN [me EXCEPT !.pc = "push", !.found = None,
                                               !.asset = 1]
  ELSE Ended(me, "failed")

\* Mutant: prepare trusts the manifest without looking at the files.
ReadManifestOnly(r) ==
  /\ At(r, "read")
  /\ LET me == run[r] IN
       Step(r, IF manifest[me.lane] = None THEN Unusable(me)
               ELSE [me EXCEPT !.pc = "decide", !.found = manifest[me.lane]])

ReadManifest(r) ==
  /\ At(r, "read")
  /\ LET me == run[r] IN
       Step(r, IF manifest[me.lane] = None THEN Unusable(me)
               ELSE [me EXCEPT !.pc = "verify", !.found = manifest[me.lane]])

VerifyAsset(r) ==
  /\ At(r, "verify")
  /\ LET me == run[r] IN
       Step(r, IF store[<<me.lane, "asset", me.asset>>] = me.found.assets[me.asset]
               THEN Advance(me, "verify", "decide") ELSE Unusable(me))

\* _read_lane_manifest: a request for the manifest or for an asset fails after
\* its retries, so that prepare and promotion take the lane for one that is of
\* no use, whatever it holds.  A publishing job does not catch it (Abort).
LaneUnread(r) ==
  /\ At(r, "read") \/ At(r, "verify")
  /\ run[r].phase # "publish"
  /\ MayFault
  /\ Step(r, [Unusable(run[r]) EXCEPT !.unread = TRUE])

\* Mutant: the version the lane was sealed for is not compared.
CurrentAnyVersion(me) ==
  /\ me.found.source = Commit(me)
  /\ me.found.tree = TreeOf(Commit(me))

\* The manifest is about this commit, tree and version.
Current(me) ==
  /\ me.found.source = Commit(me)
  /\ me.found.tree = TreeOf(Commit(me))
  /\ me.found.version = me.version

\* Mutant: a sealed lane is built again.
DecideToRebuild(r) ==
  /\ At(r, "decide") /\ run[r].phase = "prepare"
  /\ Step(r, [run[r] EXCEPT !.pc = "build", !.found = None, !.uploads = Assets])

DecideUploads(r) ==
  /\ At(r, "decide") /\ run[r].phase = "prepare"
  /\ Step(r, [run[r] EXCEPT !.pc = "build", !.found = None,
                !.uploads = IF Current(run[r]) THEN {} ELSE Assets])

-----------------------------------------------------------------------------
(* asset-build: one job per asset, in parallel. *)

UploadAsset(r, a) ==
  /\ At(r, "build") /\ a \in run[r].uploads /\ run[r].built[a] = 0
  /\ Put(<<run[r].lane, "staging", a>>, Built(r))
  /\ Goto(r, [run[r] EXCEPT !.built[a] = 1])
  /\ UNCHANGED <<manifest, latest, github>>

UploadDigest(r, a) ==
  /\ At(r, "build") /\ run[r].built[a] = 1
  /\ Put(<<run[r].lane, "staging-sha256", a>>, Built(r))
  /\ Goto(r, [run[r] EXCEPT !.built[a] = 2])
  /\ UNCHANGED <<manifest, latest, github>>

BuildsDone(r) ==
  /\ At(r, "build")
  /\ \A a \in run[r].uploads : run[r].built[a] = 2
  /\ Step(r, [run[r] EXCEPT !.pc = "seal-get",
                            !.built = [a \in Assets |-> 0]])

-----------------------------------------------------------------------------
(* asset-seal. *)

\* Where the seal job finds an asset: staged by this run, or sealed before.
SealSlot(me) == IF me.asset \in me.uploads THEN "staging" ELSE "asset"
SealDigestSlot(me) ==
  IF me.asset \in me.uploads THEN "staging-sha256" ELSE "sha256"

\* The seal job collects its manifest entries in files.
Sealed(me) == [me EXCEPT !.files[me.asset] = me.held]

SealGet(r) ==
  /\ At(r, "seal-get")
  /\ LET me == run[r]
         got == store[<<me.lane, SealSlot(me), me.asset>>]
     IN StepIf(r, got # None, [me EXCEPT !.pc = "seal-digest", !.held = got])

SealDigest(r) ==
  /\ At(r, "seal-digest")
  /\ LET me == run[r] IN
       StepIf(r, store[<<me.lane, SealDigestSlot(me), me.asset>>] = me.held,
             IF me.asset \in me.uploads THEN [me EXCEPT !.pc = "seal-copy"]
             ELSE Advance(Sealed(me), "seal-get", "seal-manifest"))

\* S3Cache.copy copies what the source holds by now, and fails without one.
CopyObject(r, from, to, next) ==
  /\ Check(r, store[from] # None, next)
  /\ IF store[from] = None THEN UNCHANGED store ELSE Put(to, store[from])

SealCopy(r) ==
  /\ At(r, "seal-copy")
  /\ LET me == run[r] IN
       CopyObject(r, <<me.lane, "staging", me.asset>>,
                  <<me.lane, "asset", me.asset>>,
                  [me EXCEPT !.pc = "seal-check"])
  /\ UNCHANGED <<manifest, latest, github>>

SealCheck(r) ==
  /\ At(r, "seal-check")
  /\ LET me == run[r] IN
       StepIf(r, store[<<me.lane, "asset", me.asset>>] = me.held,
             [me EXCEPT !.pc = "seal-record"])

SealRecord(r) ==
  /\ At(r, "seal-record")
  /\ Put(<<run[r].lane, "sha256", run[r].asset>>, run[r].held)
  /\ Goto(r, [run[r] EXCEPT !.pc = "seal-clean"])
  /\ UNCHANGED <<manifest, latest, github>>

SealClean(r) ==
  /\ At(r, "seal-clean")
  /\ Put(<<run[r].lane, "staging", run[r].asset>>, None)
  /\ Goto(r, [run[r] EXCEPT !.pc = "seal-clean-digest"])
  /\ UNCHANGED <<manifest, latest, github>>

SealCleanDigest(r) ==
  /\ At(r, "seal-clean-digest")
  /\ Put(<<run[r].lane, "staging-sha256", run[r].asset>>, None)
  /\ Goto(r, Advance(Sealed(run[r]), "seal-get", "seal-manifest"))
  /\ UNCHANGED <<manifest, latest, github>>

\* Mutant: nothing follows the seal of a release.
SealManifestEnds(r) ==
  /\ At(r, "seal-manifest")
  /\ LET me == run[r] IN
       /\ manifest' = [manifest EXCEPT ![me.lane] =
            [source |-> Commit(me), tree |-> TreeOf(Commit(me)),
             version |-> me.version, assets |-> me.files]]
       /\ Goto(r, Ended(me, "done"))
  /\ UNCHANGED <<store, latest, github>>

SealManifest(r) ==
  /\ At(r, "seal-manifest")
  /\ LET me == run[r] IN
       /\ manifest' = [manifest EXCEPT ![me.lane] =
            [source |-> Commit(me), tree |-> TreeOf(Commit(me)),
             version |-> me.version, assets |-> me.files]]
       /\ Goto(r, IF me.kind = "pr" THEN Ended(me, "done")
                  ELSE [me EXCEPT !.pc = "authorize", !.uploads = {},
                                  !.files = [a \in Assets |-> None]])
  /\ UNCHANGED <<store, latest, github>>

-----------------------------------------------------------------------------
(* release-tag. *)

\* A second run of the job for a tagged commit has no release to make.
PlanRelease(r, i) ==
  /\ MayStart(r) /\ NextVersion \in Versions
  /\ merged[i] # "open" /\ \A v \in DOMAIN tags : tags[v] # i
  /\ Step(r, [Idle EXCEPT !.kind = "merge", !.phase = "promote",
                          !.pc = "draft", !.source = i,
                          !.version = NextVersion, !.lane = PrLane(i)])

\* _create_or_reuse_draft: look for a release ...
FindDraft(r) ==
  /\ At(r, "draft")
  /\ LET me == run[r]
         found == Find(me.version)
     IN IF found = 0 THEN Step(r, [me EXCEPT !.pc = "create"])
        ELSE StepIf(r, releases[found].draft /\ releases[found].source = me.source,
                   [me EXCEPT !.pc = "read"])

\* ... and create it if there was none.
CreateDraft(r) ==
  /\ At(r, "create")
  /\ releases' = Append(releases, Draft(run[r]))
  /\ Goto(r, [run[r] EXCEPT !.pc = "read"])
  /\ UNCHANGED <<lanes, tags, merged>>

\* GitHub does not say what the head of the pull request, or its tree, is.
SkipPromotion(r) ==
  /\ At(r, "read") /\ run[r].phase = "promote"
  /\ Step(r, Unusable(run[r]))

\* Mutant: the tree of the merge commit is not compared.
PromotableAnyTree(me) ==
  /\ me.found.source = HeadOf(me.source)
  /\ me.found.version = me.version
  /\ me.found.tree = TreeOf(HeadOf(me.source))

\* The sealed lane is the head's, of this version, and the merge kept its tree.
Promotable(me) ==
  /\ me.found.source = HeadOf(me.source)
  /\ me.found.version = me.version
  /\ me.found.tree = TreeOf(HeadOf(me.source))
  /\ TreeOf(HeadOf(me.source)) = TreeOf(MergeOf(me.source))

DecidePromotion(r) ==
  /\ At(r, "decide") /\ run[r].phase = "promote"
  /\ LET me == run[r] IN
       Step(r, IF Promotable(me)
               THEN [me EXCEPT !.pc = "copy-get", !.to = VersionLane(me.version)]
               ELSE Unusable(me))

PushTag(r) ==
  /\ At(r, "push")
  /\ LET me == run[r]
         new == me.version = NextVersion
     IN /\ tags' = IF new THEN Append(tags, me.source) ELSE tags
        /\ Check(r, new, Ended(me, "done"))
  /\ UNCHANGED <<lanes, merged, releases>>

-----------------------------------------------------------------------------
(* The copy of a verified lane to another one, in release-tag and release. *)

CopyGet(r) ==
  /\ At(r, "copy-get")
  /\ LET me == run[r]
         got == store[<<me.lane, "asset", me.asset>>]
     IN StepIf(r, got # None, [me EXCEPT !.pc = "copy-put", !.held = got])

CopyPut(r) ==
  /\ At(r, "copy-put")
  /\ LET me == run[r] IN
       CopyObject(r, <<me.lane, "asset", me.asset>>,
                  <<me.to, "asset", me.asset>>,
                  [me EXCEPT !.pc = "copy-check"])
  /\ UNCHANGED <<manifest, latest, github>>

CopyCheck(r) ==
  /\ At(r, "copy-check")
  /\ LET me == run[r] IN
       StepIf(r, store[<<me.to, "asset", me.asset>>] = me.held,
             [me EXCEPT !.pc = "copy-record"])

\* Mutant: the manifest follows the first asset.
CopyRecordOnce(r) ==
  /\ At(r, "copy-record")
  /\ Put(<<run[r].to, "sha256", run[r].asset>>, run[r].held)
  /\ Goto(r, [run[r] EXCEPT !.pc = "copy-manifest", !.asset = 1, !.held = None])
  /\ UNCHANGED <<manifest, latest, github>>

CopyRecord(r) ==
  /\ At(r, "copy-record")
  /\ Put(<<run[r].to, "sha256", run[r].asset>>, run[r].held)
  /\ Goto(r, Advance(run[r], "copy-get", "copy-manifest"))
  /\ UNCHANGED <<manifest, latest, github>>

AfterCopy(me) ==
  IF me.phase = "publish" THEN [me EXCEPT !.pc = "version-manifest"]
  ELSE IF me.to = VersionLane(me.version)
  THEN [me EXCEPT !.pc = "copy-get", !.to = MainLane(me.source)]
  ELSE [me EXCEPT !.pc = "push", !.to = None, !.found = None]

CopyManifest(r) ==
  /\ At(r, "copy-manifest")
  /\ LET me == run[r] IN
       /\ manifest' = [manifest EXCEPT ![me.to] =
            [me.found EXCEPT !.source = Commit(me), !.tree = TreeOf(Commit(me))]]
       /\ Goto(r, AfterCopy(me))
  /\ UNCHANGED <<store, latest, github>>

-----------------------------------------------------------------------------
(* release. *)

Authorize(r) ==
  /\ At(r, "authorize")
  /\ LET me == run[r]
         found == Find(me.version)
     IN IF Authorized(me.version, me.source)
        THEN Step(r, [me EXCEPT !.pc = "read", !.phase = "publish",
                                !.release = found,
                                !.listed = releases[found].assets])
        ELSE Step(r, Ended(me, "failed"))

DecidePublish(r) ==
  /\ At(r, "decide") /\ run[r].phase = "publish"
  /\ StepIf(r, Current(run[r]), [run[r] EXCEPT !.pc = "download"])

Download(r) ==
  /\ At(r, "download")
  /\ LET me == run[r]
         got == store[<<me.lane, "asset", me.asset>>]
     IN StepIf(r, got # None,
              Advance([me EXCEPT !.files[me.asset] = got],
                      "download", "version-check"))

\* Mutant: the release is published before its assets are uploaded.
VersionCheckThenPublish(r) ==
  /\ At(r, "version-check")
  /\ StepIf(r, run[r].files[1].version = run[r].version,
           [run[r] EXCEPT !.pc = "publish"])

VersionCheck(r) ==
  /\ At(r, "version-check")
  /\ StepIf(r, run[r].files[1].version = run[r].version,
           [run[r] EXCEPT !.pc = "remove"])

\* The asset _authorized_release listed is deleted by its id: if it is not
\* there any more the request fails.
RemoveAsset(r) ==
  /\ At(r, "remove") /\ run[r].listed[run[r].asset] # None
  /\ LET me == run[r]
         there == releases[me.release].assets[me.asset] = me.listed[me.asset]
     IN /\ Check(r, there, [me EXCEPT !.pc = "upload"])
        /\ releases' = IF there
                       THEN [releases EXCEPT ![me.release].assets[me.asset] = None]
                       ELSE releases
  /\ UNCHANGED <<lanes, tags, merged>>

\* GitHub refuses a second asset of the same name.
UploadReleaseAsset(r) ==
  /\ At(r, "upload") \/ (At(r, "remove") /\ run[r].listed[run[r].asset] = None)
  /\ LET me == run[r]
         free == releases[me.release].assets[me.asset] = None
         post == [content |-> me.files[me.asset], by |-> r]
     IN /\ Check(r, free, Advance(me, "remove", "list"))
        /\ releases' = IF free
                       THEN [releases EXCEPT ![me.release].assets[me.asset] = post]
                       ELSE releases
  /\ UNCHANGED <<lanes, tags, merged>>

ListAssets(r) ==
  /\ At(r, "list")
  /\ StepIf(r, \A a \in Assets : releases[run[r].release].assets[a] # None,
           [run[r] EXCEPT !.pc = "publish"])

\* Mutant: the pointer is moved before the main lane is written.
PublishPointsFirst(r) ==
  /\ At(r, "publish")
  /\ releases' = [releases EXCEPT ![run[r].release].draft = FALSE]
  /\ Goto(r, [run[r] EXCEPT !.pc = "latest"])
  /\ UNCHANGED <<lanes, tags, merged>>

Publish(r) ==
  /\ At(r, "publish")
  /\ releases' = [releases EXCEPT ![run[r].release].draft = FALSE]
  /\ LET me == run[r] IN
       Goto(r, [me EXCEPT !.pc = "copy-get", !.to = MainLane(me.source),
                          !.files = [a \in Assets |-> None]])
  /\ UNCHANGED <<lanes, tags, merged>>

\* The manifest read at the start of the job is written back.
VersionManifest(r) ==
  /\ At(r, "version-manifest")
  /\ manifest' = [manifest EXCEPT ![run[r].lane] = run[r].found]
  /\ Goto(r, [run[r] EXCEPT !.pc = "latest"])
  /\ UNCHANGED <<store, latest, github>>

PutLatest(r) ==
  /\ At(r, "latest")
  /\ latest' = run[r].source
  /\ Goto(r, Ended(run[r], "done"))
  /\ UNCHANGED <<store, manifest, github>>

-----------------------------------------------------------------------------
\* The runner is killed, a job times out, or a test job fails.
Abort(r) ==
  /\ Working(r) /\ MayFault
  /\ Step(r, Ended(run[r], "aborted"))

\* The cleanup at the end of some other release deletes what it listed of an
\* old lane, in the order of the keys: asset 1 is a "cli-" key and comes before
\* complete.json, the others come after it.  It may be killed half way.  Staged
\* objects are left out: a run stages its own before it seals.
KeyOrder ==
  <<<<"asset", 1>>, <<"sha256", 1>>>>
  \o [k \in 1..2 * (NumAssets - 1) |->
        <<IF k % 2 = 1 THEN "asset" ELSE "sha256", 2 + (k - 1) \div 2>>]

Expire(i) ==
  /\ Expiring
  /\ Cardinality({q \in Runs : Working(q)}) < MaxActive
  /\ LET lane == PrLane(i)
         Left(k) == store[<<lane, KeyOrder[k][1], KeyOrder[k][2]>>] # None
         left == {k \in DOMAIN KeyOrder : Left(k)}
     IN \/ /\ manifest[lane] # None /\ \A k \in left : k > 2
           /\ manifest' = [manifest EXCEPT ![lane] = None]
           /\ UNCHANGED store
        \/ /\ left # {}
           /\ LET k == Min(left) IN
                /\ k <= 2 \/ manifest[lane] = None
                /\ Put(<<lane, KeyOrder[k][1], KeyOrder[k][2]>>, None)
           /\ UNCHANGED manifest
  /\ UNCHANGED <<latest, github, run>>

\* What run r does by itself once it was started.
Work(r) ==
  \/ ReadManifest(r) \/ VerifyAsset(r) \/ DecideUploads(r)
  \/ \E a \in Assets : UploadAsset(r, a) \/ UploadDigest(r, a)
  \/ BuildsDone(r)
  \/ SealGet(r) \/ SealDigest(r) \/ SealCopy(r) \/ SealCheck(r)
  \/ SealRecord(r) \/ SealClean(r) \/ SealCleanDigest(r) \/ SealManifest(r)
  \/ FindDraft(r) \/ CreateDraft(r) \/ SkipPromotion(r) \/ DecidePromotion(r)
  \/ CopyGet(r) \/ CopyPut(r) \/ CopyCheck(r) \/ CopyRecord(r)
  \/ CopyManifest(r) \/ PushTag(r)
  \/ Authorize(r) \/ DecidePublish(r) \/ Download(r) \/ VersionCheck(r)
  \/ RemoveAsset(r) \/ UploadReleaseAsset(r) \/ ListAssets(r) \/ Publish(r)
  \/ VersionManifest(r) \/ PutLatest(r)

Next ==
  \/ \E i \in PullRequests : MergePullRequest(i) \/ Expire(i)
  \/ \E r \in Runs, i \in PullRequests :
       PreparePullRequest(r, i) \/ PlanRelease(r, i)
  \/ \E r \in Runs, v \in Versions : PrepareRelease(r, v)
  \/ \E r \in Runs : Work(r) \/ LaneUnread(r) \/ Abort(r)

Spec == Init /\ [][Next]_vars

\* A runner carries on with the jobs of a workflow it has started.
FairSpec == Spec /\ \A r \in Runs : WF_vars(Work(r))

-----------------------------------------------------------------------------
(* Properties. *)

\* Merges of two pull requests have drafted releases of the same version.
Contested(v) ==
  \E k, l \in DOMAIN releases : /\ releases[k].version = v /\ releases[l].version = v
                                /\ releases[k].source # releases[l].source

\* The assets of the k-th release were built from the tree its tag names.
FromItsTree(k) ==
  \A a \in Assets : releases[k].assets[a] # None =>
    releases[k].assets[a].content.tree = TreeOf(MergeOf(releases[k].source))

\* A release carries only assets that were built from the tree its tag names,
\* whatever the workflows did before and do meanwhile: promotion checks the
\* trees (_promote_merged_pr_assets), publishing the manifest.  Merges of two
\* pull requests that draft one version are left out: both may copy to its lane
\* before, and after, one of them gets the tag.
ReleasedFromItsTree ==
  \A k \in DOMAIN releases : ~Contested(releases[k].version) => FromItsTree(k)

\* A manifest tells the truth about what its assets were built from.
ManifestIsTrue ==
  \A l \in Lanes : manifest[l] # None =>
    \A a \in Assets : /\ manifest[l].assets[a].tree = manifest[l].tree
                      /\ manifest[l].assets[a].version = manifest[l].version

\* complete.json of a release or main lane means that the lane has all of its
\* assets: the manifest is the last thing written (_seal_asset_lane and
\* _promote_merged_pr_assets), also when the lane is sealed a second time.
CompleteLanesHaveAssets ==
  \A l \in Lanes : (l[1] # "pr" /\ manifest[l] # None) =>
    \A a \in Assets : store[<<l, "asset", a>>] # None

\* A release workflow of the lane's version or commit gave up reading its lane.
GivenUp(l) ==
  \E q \in Runs :
    /\ run[q].kind = "release" /\ run[q].unread
    /\ l \in {VersionLane(run[q].version), MainLane(run[q].source)}

\* Version and main lanes are immutable, say version_lane and main_lane of
\* asset_cache.py: once complete.json is there no asset changes any more.  They
\* are, for workflows one after the other, as long as no read of them fails for
\* good: a lane that could be read is promoted, sealed and copied again as it is.
ReadLanesAreImmutable ==
  [][\A l \in Lanes : (l[1] # "pr" /\ manifest[l] # None /\ ~GivenUp(l)) =>
       \A a \in Assets : store'[<<l, "asset", a>>] = store[<<l, "asset", a>>]]_vars

\* main/latest.json points to a main lane that is complete.
LatestIsComplete ==
  latest # None => /\ manifest[MainLane(latest)] # None
                   /\ \A a \in Assets : store[<<MainLane(latest), "asset", a>>] # None

\* A release workflow fails only if it is aborted itself: whatever earlier
\* workflows have left behind in the lanes, the tag or the draft, a rerun
\* from the start gets through.
RerunHeals ==
  \A r \in Runs : run[r].kind \in {"pr", "release"} => ~At(r, "failed")

\* A release becomes public only with all of its assets.
PublishedWhenComplete ==
  [][\A k \in DOMAIN releases :
       releases[k].draft /\ ~releases'[k].draft
         => \A a \in Assets : releases[k].assets[a] # None]_vars

\* A release workflow that is not aborted publishes its release.
ReleaseIsPublished ==
  \A r \in Runs, v \in Versions :
    (run[r].kind = "release" /\ run[r].version = v /\ Working(r))
      ~> (At(r, "aborted") \/ \E k \in DOMAIN releases :
                                releases[k].version = v /\ ~releases[k].draft)
=============================================================================
