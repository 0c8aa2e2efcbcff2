# A TLA+ model of csilgen

csilgen reads interface definitions (CSIL: CDDL data types plus services), resolves
their includes, validates them and runs code generators, compiled to WebAssembly, over
the result. Beside the compiler the repository keeps the run-time libraries that the
generated code talks through (`transports/`, one port per language, Rust being the
reference) and the release automation (`.reactorcide/`).

This directory holds TLA+ modules of the parts that have state and order, TLC
configurations that check them on small instances, and TLAPS proofs of the results that
hold for every instance. Paths below are relative to the repository; a lower-case file
name such as `rpc.rs` is the one named in the section.

## 1. The system

| Component | State | Operations | Interacts with |
|---|---|---|---|
| RPC transport (`transports/rust/src/rpc.rs`) | client: next id; one outstanding call; server: none between two `serve_one` | `call`, `serve_one`, encode and decode of request, response, push | frame carrier, the host's handler and serve loop |
| Frame carriers (`carrier.rs`) | a byte stream, a max-frame limit | `send_frame`, `recv_frame`, length-prefix read and write | RPC, events |
| Datagram transport (`datagrams.rs`) | `SeqTracker`: last sequence number, last epoch | `observe`, encode and decode | datagram carrier, the host |
| Event transport (`events.rs`) | none in the library | codecs, `Hello::negotiate` | frame carrier, the host |
| Ports of the transports (TypeScript, Go, ...) | as Rust; TypeScript calls are asynchronous and may overlap | as Rust | as Rust |
| Import resolver (`crates/csilgen-core/src/resolver.rs`, `ast.rs`) | cache of resolved files, set of files being resolved, one spec under assembly per nested call | `resolve_imports`, include, selective import | parser, file system, CLI |
| Dependency graph (`dependency.rs`, `scanner.rs`) | dependencies and reverse dependencies of a set of files | build, entry points, cycle search | CLI |
| Breaking-change detector, validator (`breaking.rs`, `validator.rs`) | none of their own; the versions of an interface that are in use outside | compare two versions, check one | CLI, a release gate in CI |
| Lexer, parser, formatter, linter | none | pure functions of text or AST | CLI |
| Generation pipeline (`crates/csilgen-cli/src/lib.rs`) | output directory, counters | entry points in turn: resolve, validate, generate, write files and schema descriptor | resolver, graph, WASM runtime |
| WASM runtime (`wasm/csilgen-wasm-generators/src/lib.rs`) | registry, module cache, loaded generators, input offset | discover, load, execute, evict | generators, file system |
| Code generators (`wasm/*-generator`), schema descriptor | none | pure functions of a spec | WASM runtime |
| Release automation (`.reactorcide/plugins/plugin_csilgen_jobs.py`) | asset lanes in an object store, manifests, GitHub releases and tags | prepare, build, seal, promote, publish, clean up | workflows that run concurrently and may die |

### What is hard

* **RPC.** A synchronous call takes whatever frame arrives next. Pushes, receives that
  give up, a server that dies between running the handler and sending the response,
  replies that are too large to send, and peers of another version all put client and
  server out of step.
* **Resolver.** A recursion with a cache and a set of marks, used for several roots;
  diamonds, aliases, selective imports, rings, cross-file type extensions, and errors
  that unwind the recursion half-way.
* **Datagrams.** Loss, reordering, repetition, sequence wrap-around and sender restarts.
* **Framing.** Streams that end or time out inside a frame.
* **TypeScript calls.** A call awaits its send, then its receive; others run in between,
  and the connection may end while several wait.
* **Dependency graph.** Two spellings of one path; rings that not every file is on.
* **Pipeline.** Entry points that share an output directory; failures and kills after some
  files were written; what earlier invocations left behind.
* **WASM runtime.** Cached modules that are stale, a process-wide offset that only grows
  and is shared by threads without synchronization.
* **Interface versions.** The detector sees two versions, the validator one, a client may
  be as old as the first; what matters is on the wire and not in the text.
* **Asset lanes.** Several jobs on one object store without transactions; crash and
  retry between any two requests; a cleanup that runs beside them.

### What correctness means

* RPC: a handler runs at most once per call and in call order; a returned reply was
  produced for that very call (on a connection without pushes and abandoned receives) or
  at least comes in order and once (with them); a call always returns.
* Resolver: an error exactly when the files form a ring or name something that is not
  there; the result depends on the files only, not on the history of the resolver;
  every rule reaches the root once; collisions survive until validation; extensions
  reach the type they extend; marks are taken back; the recursion ends.
* Datagrams: a datagram is classified as newer exactly when it is newer.
* Framing: the frames received are a prefix of the frames written whole, or an error.
* TypeScript calls: each call gets its own response, or at least a response of its own,
  and returns.
* Dependency graph: a cycle is reported exactly when there is one, and code is generated
  from files that together reach all others.
* Pipeline: no descriptor on disk is newer than the files it describes, and the exit says
  what is on disk.
* WASM runtime: a reload runs what is on disk; an input is refused only for lack of memory.
* Interface versions: what passes the gate reads the messages of the version in use, and
  an ordinal means for ever what it first meant.
* Asset lanes: a published release consists of assets of one build of its own source; a
  lane with a manifest has the assets the manifest lists.

`PROJECT.json` lists every component with its status, and the hazards line by line.

## 2. Modules

| Module | What it is |
|---|---|
| `RpcCall` | abstract: what a connection promises to the caller of `RpcClient::call` |
| `RpcTransport` | one connection: client, server, a queue of frames in each direction |
| `RpcTransportProofs` | types, execution order, reply order, lockstep, and that `RpcTransport` implements `RpcCall` |
| `ImportResolver` | `ImportResolver` and `merge_type_choice_extensions` |
| `MCImportResolver` | the sets of disks the runs consider |
| `ImportResolverProofs` | types, marks, no re-entry, rings |
| `AssetLanes` | the jobs of the three release workflows over the object store and GitHub |
| `MCAssetLanes` | the symmetry of the runs |
| `AssetLanesProofs` | types, complete lanes, what releases are made of, workflows one after the other |
| `FrameQueue` | abstract: what a frame carrier promises to the code above it |
| `StreamFraming` | frames on a byte stream, read by the Rust or the TypeScript reader |
| `StreamFramingProofs` | clean ends, places after errors, and that `StreamFraming` implements `FrameQueue` |
| `TypeScriptClient` | overlapping calls of the TypeScript client over a WebSocket |
| `SeqChannel` | `SeqTracker` at the end of a datagram network |
| `TransportsProofs` | proofs about `TypeScriptClient` and `SeqChannel`, and the types of all three side by side |
| `MCTransports` | instances of `StreamFraming`, `TypeScriptClient` and `SeqChannel` |
| `DependencyGraph` | entry points and cycle search among the input files |
| `DependencyGraphProofs` | the search finds a cycle exactly when there is one |
| `WasmRuntime` | registry, module cache, loaded generators, input offset |
| `GeneratePipeline` | `csilgen generate`, composed of the two above and an output directory |
| `GeneratePipelineProofs` | refusals and reloads of the runtime; descriptors come last, exits are true |
| `BreakingChanges` | `csilgen breaking` and the wire-id check as the gate between versions |
| `BreakingChangesProofs` | ordinals keep their meaning |
| `MCReleases` | the versions of an interface that are tried |
| `MCCommandLine` | instances of the four modules of the command line |

Operators named `Mutant` in their comment are faulty variants of the definition that
follows them. Nothing uses them; they are there to show that a property notices the
fault (`mutants` in `PROJECT.json`).

### RpcTransport

`RpcClient::call` is cut where it hands over to the carrier: `CallSend` (up to a
successful `send_frame`), then one of `CallReceive`, `CallEof`, `CallTimeout` (the three
things `recv_frame` may return); `CallSendFails` is a call that ends in `send_frame`.
`RpcServer::serve_one` is `ServeReceive` (receive and decode, or refuse), `Dispatch` (the
handler), `ServeSend`, and `ServeStops` for the ways in which the host's loop ends.
`ServerCrash` may come at any point and may take the unread responses with it.
`ServerPush` is a host that emits `RpcPush` frames on the same connection.

A frame is a record with a version, an id and what the decoder can tell apart (request,
response, push). The payload is the number of the call it was made for, so that a reply
which reaches the wrong call is visible. `results[n]` is what call `n` returned. Requests
and replies over the max-frame guard are those for the operations in `LargeRequests` and
`LargeReplies`.

Environment: a carrier delivers frames in order and loses none unless the connection
dies. The host serves with the loop `while let Ok(true) = server.serve_one(..) {}` of
`docs/serving-csil-rpc-http-and-tcp.md`, and drops the connection when it ends.

### ImportResolver

The recursion `resolve_imports` -> `resolve_imports_uncollapsed` ->
`load_and_resolve_file` is an explicit stack with one frame per
`resolve_imports_uncollapsed` in progress: the file, whether this call marked it
(`newly_resolving`), the import it is at, and its local bookkeeping (`rules`, `origins`,
`merged`). `LoadCached`, `LoadFile` and the `Load...` error actions are the branches of
`load_and_resolve_file`; `Merge` is the loop of `resolve_include` or
`resolve_selective_import`; `FinishImported` and `FinishRoot` are the two ways a frame
returns. `Fails` is the `?` that unwinds all of them. One resolver serves several
top-level calls (`MaxCalls`), as its cache is made for.

`FoldExtensions` is `merge_type_choice_extensions` on rules that are a name, a kind and a
set of arms. The order of the arms is not modelled. `resolve_file_path` is part of the
disk: an import names the file its path leads to from where it stands, or `NoFile`. A
`Disk` gives each file the rules and imports its parser returns, or that it does not parse.

### AssetLanes

A run of a workflow is a record `run[r]` that goes through the jobs of its kind, each
action being one request to the store or to GitHub with the local computation around it:

| Job | Function | Actions |
|---|---|---|
| `asset-prepare` | `_prepare_asset_lane` | `PreparePullRequest` or `PrepareRelease`, `ReadManifest`, `VerifyAsset`, `DecideUploads` |
| `asset-build`, one per asset | `_build_and_upload_asset` | `UploadAsset`, `UploadDigest`; `BuildsDone` is the dependency of the next job on all of them |
| `asset-seal` | `_seal_asset_lane` | `SealGet`, `SealDigest`, `SealCopy`, `SealCheck`, `SealRecord`, `SealClean`, `SealCleanDigest`, `SealManifest` |
| `release-tag` | `_tag_releases`, `_promote_merged_pr_assets` | `PlanRelease`, `FindDraft`, `CreateDraft`, `ReadManifest`, `VerifyAsset`, `DecidePromotion` or `SkipPromotion`, `CopyGet` .. `CopyManifest`, `PushTag` |
| `release` | `_publish_tag_release` | `Authorize`, `ReadManifest`, `VerifyAsset`, `DecidePublish`, `Download`, `VersionCheck`, `RemoveAsset`, `UploadReleaseAsset`, `ListAssets`, `Publish`, `CopyGet` .. `CopyManifest`, `VersionManifest`, `PutLatest` |

`_read_lane_manifest` and the copy loop serve two or three jobs and are one set of
actions each; `phase` says which job is running, `Unusable` and `AfterCopy` what it does
next. `Abort` ends a run between any two requests: a job that is killed or times out, or
one of the test jobs, which stand beside the builds and are otherwise left out. `Expire`
is the cleanup of another release when it deletes this lane, key by key.

The bytes of an asset are the tree, the version and the run they were built from, so a
digest tells builds apart that need not be reproducible. A commit's tree is its own,
except that a merge may keep the tree of the head. `semver-tags` gives the version after
the last one tagged. Nothing in the workflow files limits how many runs of a workflow
there are at a time, so any number up to `MaxActive` may overlap, and any event may be
delivered again. The retries of a request (`_request`, `_put_presigned`) repeat an
idempotent request and are not modelled, but what comes of a request that fails after them
is: `_read_lane_manifest` takes a lane it cannot read for one of no use, so that preparation
builds it again and promotion leaves it alone (`LaneUnread`); anywhere else the job fails
(`Abort`). `MaxFaults` bounds the two together. `LEGACY_CACHE_ASSETS` is left out.

### StreamFraming and FrameQueue

The writer is `write_length_prefixed`; `WriteFails` is a `write_all` that fails after any
number of bytes, or a flush that fails when all of the frame is written; the program still
has the carrier. So `sent`, the frames whose send succeeded, and `whole`, those of which
every byte was written, are two things, and `resumed` says that something was sent after
a frame that was left unfinished. The Rust reader
(`read_length_prefixed`) takes bytes one at a time, so that a time-out (`ReadTimesOut`) or
the end of the stream may come between any two; the TypeScript reader
(`LengthPrefixedDeframer`) takes chunks of any size. Both limits are parameters, as the
two ends may differ. Prefixes and bodies are made of the same bytes, so a reader that has
lost its place reads the one as the other. `FrameQueue` is the promise of the
`FrameCarrier` trait, and what `RpcTransport` takes a carrier for.

### TypeScriptClient

A call is cut at its two awaits: `CallAwaitsSend`, then `CallAwaitsReceive` when its send
has resolved. `DeliverFrame` and `DeliverClose` are the callbacks of `WebSocketCarrier`.
The server has one `serveOne` per request, cut at the await of the handler; `inOrder`
says that sends resolve in order and that the host awaits each `serveOne`.

### SeqChannel

The sender numbers its datagrams modulo `SeqSpace`, sends some without a number, and
may restart with a new epoch (modulo `EpochSpace`). The network keeps, loses, reorders
and repeats. `SeqTracker::observe` is one action whose alternatives are its branches.
`run`, `lives`, `place` are what an outside observer knows and the tracker does not.

### DependencyGraph

`dfs_visit` is an explicit stack (`path`), one action per branch. `canonical` is the set
of inputs whose path is spelled as an import of it would be: `ImportScanner` makes imports
canonical, `discover_input_files` takes paths as the directory walk or the glob gives them.

### WasmRuntime

One action per public operation of `WasmGeneratorRuntime` and `GeneratorRegistry` that
changes state. Module files are replaced at any time (`InstallModule`) and cached modules
age (`Tick`). `OFFSET`, the static of `write_string_to_wasm`, is shared by the threads of
the process: the read for the pointer, the read for the addition and the write are three
steps. Every execution has a memory of its own.

### GeneratePipeline

`Invoke` starts a process with any set of inputs, with or without `--no-schema`, in a
directory in which earlier ones have left files. `SelectEntries` is the graph,
`ReserveSchemaPaths` and `RemoveStaleSchemas` are `preflight_schema_paths`,
`InitializeRuntime` and `Parse` to `WriteSchema` are one turn of `process_entry_points`
or all of `process_single_file`. The runtime's own steps are those of `WasmRuntime`. A
write may fail with the old file kept or torn, and `Kill` may come anywhere.

### BreakingChanges and MCReleases

A version is a function from rule names to rules. `Compatible` and the `Compare...`
operators are the functions of `breaking.rs`, `ValidWireIds` is `validate_wire_ids`. `Propose`
compares a version with the one in use, `Release` puts it in its place if nothing was
reported and its ids are valid. What a type has on the wire (`WireOf`) is written from
`docs/cbor-wire-contract.md` and `choice.rs`, not from the detector: that is the reference
the detector is held to.

## 3. Runs

| Run | Bounds | Shows |
|---|---|---|
| `rpc_clean` | 4 calls, 4 operations (plain, large request, large reply), crashes and closes at any time | `ResponseForOutstandingCall`, `ImplementsRpcCall` |
| `rpc_faulty` | 4 calls, 3 operations, 1 push, 2 abandoned receives, fairness | `ExecutedInOrder`, `RepliesInOrder`, `CallEventuallyReturns` |
| `resolver_mesh` | all ways in which 3 files include each other, up to two includes each, one possibly broken; 2 calls on one resolver, fairness | `NoReentry`, `MarksAreInProgress`, `CircularMeansRing`, `ResolveReturns` |
| `resolver_trees` | 4 files without rings: either one rule each, with plain, aliased and selective imports, or one type, at most one definition of it, any extensions; 2 calls | `ContextFree`, `DiamondsMergeOnce`, `ExtensionsReachTheirTypeInTrees` |
| `resolver_extensions` | the extensions of `resolver_trees`, 1 call | violated: `ExtensionsReachTheirType` |
| `lanes_serial` | 4 workflow runs one after the other, 2 pull requests, 2 assets, 2 versions, 1 abort or failed read | `ManifestIsTrue`, `ReadLanesAreImmutable`, `PublishedWhenComplete` |
| `lanes_recover` | 3 workflow runs one after the other, 1 pull request, 2 assets, 1 abort or failed read, cleanups of the pull request lane, fairness | `RerunHeals`, `ReleaseIsPublished` |
| `lanes_overlap` | 3 workflow runs, 2 at a time, 1 pull request, 2 assets, 1 abort or failed read | `ReleasedFromItsTree`, `CompleteLanesHaveAssets`, `LatestIsComplete` |
| `transports` | stream: 3 sends, bytes in base 3, 2-byte prefixes, 4 bodies, limits 3 and 2, 2 failed writes, 1 time-out, both readers; calls: 3, in and out of order; datagrams: 4, 4 sequence numbers, 2 epochs, 2 restarts, 1 repeat; fairness | framing: `TypeOK`, `CleanEndLosesNothing`, `AlignedUnlessBytesLost`, `ImplementsFrameQueue`, `FramesArrive`; calls: `OverlappingCallsKeepStep`, `EachResponseOnce`, `CallsReturnWhileOpen`; datagrams: `NewerExactlyWhenNewer`, `GapsCountLosses`, `RestartsReported` |
| `command_line` | every graph of 3 inputs; 2 invocations with 2 faults over 3 inputs that share an output and a stem; 2 threads and 3 calls; 3 module files, 2 versions; the versions of `MCReleases`, without reordered or opened choices | `AnalysisIsExact`, `DescriptorAfterFiles`, `ExitTellsWhatIsOnDisk`, `ReloadSeesNewFile`, `RefusedOnlyWhenSpent`, `OldMessagesAreRead`, `OrdinalsKeepTheirMeaning` |
| `generate_spelling` | every graph of 3 inputs, any of them spelled otherwise | violated: `ImportedFilesAreNoEntries` |
| `breaking_choices` | a field whose choice is reordered, or opened to an arm that is no literal | violated: `OldMessagesAreRead` |

Four calls let a response be late by more than one call and still be followed by a call
that could take it; two abandoned receives are needed for that, and one push shifts the
connection by one frame for good, so a second adds nothing new in kind. A ring through
the entry file, a ring below it and a self-include need at most three files; a diamond
whose shared file is reached directly and through two others needs four. Two calls on
one resolver are enough for a cache hit and for a call after a failure.

Four workflow runs are a pull request, its merge, its release and one more: a rerun of any
of them, or the workflow of a second pull request, which is what makes a version stale.
Two assets make every loop half done. A fault and a rerun are one attempt at recovery;
recovery from a failed recovery, after any number of faults, is the theorem `RerunsHeal`.
Where workflows overlap, two at a time suffice for every interleaving of two requests; the
third run is the one that prepared the ground. The releases whose version two pull
requests have drafted, which `ReleasedFromItsTree` leaves out, do not arise with one pull
request; the theorem `ReleasesComeFromTheirTree` is about any number of both.

Three frames are one before, one at and one after a fault; two failed writes are a frame
cut short and another that goes on behind it, or is there in full. An empty body, and
bodies one byte shorter than a prefix, as long as one and one byte longer, made of bytes
that are lengths, are the ways in which a reader may take a body for a prefix; the limits
of the two ends refuse none of them and the longest of them. Three overlapping calls are
two that change places and one that sees it. Four sequence numbers are passed by four
datagrams and wrap; two restarts come back to the first epoch. In the pipeline two entries
share a generated file and two a descriptor, and the second invocation runs over the
leftovers of the first. Two threads suffice for a lost addition, and 12 bytes of memory
are spent by three inputs. Releases are unbounded: the versions of `MCReleases` have one
or two fields or operations, with at least one change of each kind the detector looks at,
and any of them may follow any other. Versions that pass the gate although they cannot
read old messages are left out of `command_line`: those of `breaking_choices`, and new
bounds and optional arrays ("Met on the way" below), so `OldMessagesAreRead` says that
of the others none slips through.

`rpc_faulty`, `resolver_mesh`, `lanes_recover` and `transports` assume weak fairness of
the server loop, of a receive that has a frame or an end of stream to return, of the
resolver's own steps, of the jobs of a workflow that was started, of a program that asks
for the next frame, and of the JavaScript event loop; a program that is scheduled, and a
runner that works, give that. Nothing obliges the program to make calls, nor anything
to fail. Deadlock is not checked: a connection whose ends are closed, a resolver that
has used up its calls, and workflows that have all ended, have stopped.

### What the violated runs show

* `resolver_extensions`: the diamond guard knows a rule by name and origin, not by what
  was folded into it. Including `base` and then `ext`, where `ext` includes `base` and
  extends its type, loses the extension; the other order keeps it.
* `generate_spelling`: `build_from_files` keeps the imports that are among its input paths.
  With `--input ./schemas` the inputs are relative and the imports canonical: nothing is
  imported by anything, every file is an entry point and a ring is not found.
* `breaking_choices`: the detector compares choices as sets. On the wire a union carries
  the number of its arm, so `int / text` against `text / int` passes and old messages are
  misread; an enum that gains a non-literal arm becomes a union, which passes as well.

Met on the way, and not given a run:

* `serve_one` answers a request of an unsupported version with status 1, like any frame
  that does not decode; `docs/csil-transport-conventions.md` (2) asks for status 5.
* A failed `resolve_imports` leaves the marks of the calls it unwound behind, so a later
  call on the same resolver may report a ring that is not there. That is why
  `MarksAreInProgress` and one half of `CircularMeansRing` speak of the time before the
  first failure. The command line makes a resolver per entry point and does not meet it.
* `asset_cache.py` calls version and main lanes immutable. A release workflow that fails to
  read its sealed lane builds everything again (`_prepare_asset_lane` catches the error as
  if the lane did not fit), and the seal job copies over the sealed assets, one by one, while
  the old manifest still stands. `ReadLanesAreImmutable` says that one workflow at a time
  does so only then. Two release workflows of one tag, say after a second delivery of its
  event, do it without a failure; they may mix two builds in one release, and the one that
  ends last writes the manifest it has read back over the other's. Both builds are of the
  right tree and version, so `ReleasedFromItsTree` and `ManifestIsTrue` do not notice.
* Two merges at a time may plan one version, as looking for the draft and creating it are two
  requests. The lane of the version then has two writers, and the release job reads every
  asset again after it has verified it: what is copied there in between is uploaded, and is
  of the tree that did not get the tag. `ReleasedFromItsTree` leaves such versions out
  (`Contested`).
* `RpcClient::call` does not look at the id of the frame it takes. A push that arrives
  during a call fails that call, and the response then answers the next one; hence `Quiet`
  below, and `RepliesInOrder` where pushes are allowed. `docs/csil-rpc-transport.md` (1.3)
  says a push is not a reply to anything. The TypeScript client does the same, though the
  same document says frames are demultiplexed by id; `OverlappingCallsKeepStep` therefore
  needs sends that resolve in order and a host that awaits each `serveOne`.
* A public release whose workflow runs again lacks an artifact while that is replaced.
  `PublishedWhenComplete` is about the step that publishes.
* The resolver's origin map has one origin per name, so two colliding rules of an included
  file pass for one rule seen twice and validation never sees the second.
* A pull request lane is named by its commit, its contents also depend on the version of
  the day: two overlapping runs for one commit, on either side of another release, may end
  in a manifest that states a version its assets do not have. `lanes_serial` has one run at
  a time.
* A stream that ends inside a length prefix ends cleanly for `read_length_prefixed`, and an
  error leaves it somewhere in a frame; `CleanEndLosesNothing` and
  `AlignedUnlessBytesLost` say exactly how much that can hide. A frame whose send has
  reported an error may arrive all the same. The TypeScript deframer never gets past a
  frame over the limit: it throws before it takes anything off its buffer.
* When a WebSocket closes, one waiting receive is told; a second one, and a call made later,
  wait for ever. `CallsReturnWhileOpen` speaks of open connections.
* `docs/csil-datagrams-transport.md` promises serial-number comparison, `SeqTracker`
  compares plainly: after the wrap every datagram is late until the epoch changes.
  `NewerExactlyWhenNewer` says how far the plain comparison goes.
* A generator that emits the descriptor name of another entry is not stopped; one that
  emits its own entry's is. The pipeline leaves the first out by assumption.
* `csilgen breaking`: expressions of other kinds than the seven it knows (constrained types,
  ranges, inline groups) are compatible with nothing, so a file with `text .size` differs
  from itself; a bound where there was none is not reported; an optional array is
  compatible with any other; a field that disappears and returns with another type passes
  in two steps; alternatives of group choices are only counted; included files are not
  loaded; and the gate of `examples/breaking-changes/README.md` looks for a word in the
  output that the command does not print. The versions of `MCReleases` leave these out;
  `Release` takes the exit status as the gate.

## 4. Proofs

TLAPS checks every theorem for all values of the constants. `theorems` in `PROJECT.json`
lists them, and which property of which run each one states.

### What is assumed

The assumptions on constants are named in the module that declares them, and TLC evaluates
them in the runs of that module. `RpcAssumption`, `DiskAssumption`, `CallsAssumption`,
`SeqAssumption`, `RuntimeAssumption`, `StreamAssumption` and `LanesAssumption` say that
the constants have their types and that `None` is none of the values it stands apart from.
Three say more:

* `PipelineAssumption` (`GeneratePipeline`): no generated file has the name of a schema
  descriptor (section 3).
* `FilesAssumption` (`DependencyGraph`): the input files are finitely many.
* `PrefixAssumption` (`StreamFraming`): writing a length as a big-endian prefix and
  reading a prefix are each other's inverse, which is what `u32::to_be_bytes` and
  `from_be_bytes` do. The sum they are defined by is evaluated by TLC for the instance it
  runs; for all bases and widths it would take an induction over the digits.

Some theorems are about a part of the behaviours, and name it: `Quiet` (no pushes, no
abandoned receives) for lockstep and for the refinement of `RpcCall`; and `MaxActive = 1`,
workflows that run one after the other, for `SerialInvariant` and the three theorems that
follow from it. The number of runs, the faults, the versions and `Expiring` are any.
Section 3 says why the condition is needed: two pull request workflows at a time may leave
a manifest that is not true. `ReleasesComeFromTheirTree` has no condition, however many
workflows overlap; the versions it does not speak of are named in the property.

Where a specification states fairness the theorems are about the specification without it
(`StreamSteps`, `CallsSpec`, `SeqSpec`, `GraphSpec`, `RuntimeSpec`, `PipelineSpec`,
`ReleasesSpec`), which has more behaviours.

### Along which arguments

* `RpcTransportProofs`. `OrderInv` says that call numbers grow along the pipeline: from
  the replies returned, over the responses on their way back and the frame the server
  holds, to the requests still queued. `ExecutedInOrder` and `RepliesInOrder` talk about
  the two ends of that pipeline and are not inductive alone: the next element of
  `executed` comes from the queue. `Lockstep` says that, on a `Quiet` connection, exactly
  one frame is in flight during a call, and none between calls, until the server is gone.
  With it every step of `RpcTransport` is a step of `RpcCall` or leaves its variables
  alone, and a frame that reaches the client answers its call. With a push it may answer
  an earlier call or none (section 3).
* `ImportResolverProofs`. `ResolverInv` adds to the properties that outer calls wait at
  an import, that every file in progress is marked, and that the outermost call knows
  that it set its own mark until something fails. `NoReentry` bounds the depth of the
  recursion by the number of files, also after failures.
  `RingInv` is about includes: a file is cached only when all it includes is cached, so
  that the cache is closed and, entered in the order in which calls finish, without a
  ring; the calls in progress are a path of includes from the root of the request; and
  until something fails the marks are no more than the files of that path. A mark met
  again therefore closes a ring, and what was resolved has none (`CircularMeansRing`).
* `StreamFramingProofs`. `StreamInv`: until bytes of a frame were lost, what the reader has
  buffered and what is on the stream are what was written after the frames received. The
  concatenation of all frames is not defined by recursion: there is a sequence of bytes in
  which the frames written whole stand at the places `ends` names, and the bytes before the
  reader are its rest from the place of the last frame received. Without it nothing is known
  of the frame that a step completes. `Within` says that the frames sent are those of
  `whole` whose flush did not fail, in the same order. From it follow
  `CleanEndLosesNothing`, `AlignedUnlessBytesLost`, and that every step maps to a step of
  `FrameQueue` or none.
* `TransportsProofs`. `CallsInv`: each call and each frame is in one place (sending,
  waiting, returned; on the way up, at the handler, on the way down, in the inbox, taken),
  which gives `EachResponseOnce`; and with sends that resolve in order the places hold
  consecutive numbers, which gives `OverlappingCallsKeepStep`. `SeqInv`: as long as the
  sequence numbers did not wrap, the last one is that of the newest datagram
  (`NewerExactlyWhenNewer`); the gaps reported bound the places missing between the first
  number and the last; and a restart that has not been reported yet pays for the report
  that it will cause, as a datagram which outlives its sender pays for two.
* `DependencyGraphProofs`. `SearchInv`: the path is a path; the files that the search
  has left lead to files it has left, and no set of them leads into itself. That is what
  the classical argument about colours says of the black files. Entry points reach
  every file, as otherwise the files they do not reach would contain a ring.
* `GeneratePipelineProofs`. `RuntimeInv`: `OFFSET`, and every sum a thread has computed and
  not yet stored, are at most what was spent, so that lost updates lower it and never
  raise it; a module in the cache, and a loaded generator, are at least as new as the
  file was when the cache was last cleaned. `PipelineInv` is about the directory: the
  entry points are in increasing order and those done come before the current one;
  nothing on disk is from a later invocation or, of this one, from a later entry;
  of the current entry's files those before the next to be written are new; and
  `errors` counts the entries done without a new descriptor. The runtime decides which
  way an entry ends and nothing else of it, so the two invariants meet only there.
* `BreakingChangesProofs`. `ReleasesInv`: the version in use keeps the services and
  operations of the first, with their ordinals, and both have valid ids. An ordinal of
  the first that means something else now would be one of two operations, which
  `validate_wire_ids` refuses.
* `AssetLanesProofs`, in three parts. `LanesInv` says of a run at each point of its jobs
  what it holds and what is in the store by then: past an asset in a loop, the asset is
  there. It can be relied on because objects and manifests of release and main lanes
  are never removed, whoever else writes to the lane, so it holds with any number of
  merges at a time, faults and `Expire`. A manifest is written at the end of a loop, hence
  `CompleteLanesHaveAssets`; the pointer after the manifest, hence `LatestIsComplete`.
  `ReleasedInv` is about trees: a pull request lane holds only builds of the head's tree;
  the lane of a version, and what is uploaded to a release of it, only builds of the
  merged tree of a pull request that has a release of this version, as a promotion copies
  only where the merge has kept the tree; a publishing run holds files of such a tree; and
  a released pull request is merged, so that its tree no longer changes. A version that is
  not `Contested` has one such pull request. `ReleasedFromItsTree` alone says nothing of
  the lane the next upload comes from.
  `SerialInv` is about the contents of the lanes, for one run at a time. Of the active run
  it says what it has seen and done: the manifest it has read is the one that is there, and
  the lane it publishes from was sealed, or found sealed, just before (`SeenOK`); it builds
  all assets or none, and none only of a lane whose manifest is current (`BuildOK`); what
  it has staged, sealed, copied and posted is what it built or read (`StagedOK`, `SealOK`,
  `CopyOK`, `PostOK`). Of what runs leave behind, wherever they were aborted or gave up
  reading, it says what the next one relies on: the manifest of a version lane is about the
  merge commit of the version's release, and until the version is tagged the lane has
  the assets that the pull request lane's manifest lists, so that a second promotion copies
  the same ones (`VersionLanesOK`); beside an asset that a manifest is about stands its
  digest (`DigestsOK`); and a pull request has one version (`OneVersion`). More cannot be
  asked of a version lane: after a read that failed it is sealed over, and a job that dies
  in between leaves assets of two builds under the manifest of the first. A workflow that
  starts has built nothing that is there (`NothingAhead`), so that the assets of a lane that
  is sealed again are not those its old manifest is about, which is why `ReadManifest` and
  `VerifyAsset` can tell. The cleanup deletes an asset before the manifest or after it, and
  a digest only when its asset is gone (`ExpireSteps`).

### Model-checked only

* Liveness under fairness, which TLAPS does not reach: `CallEventuallyReturns`,
  `ResolveReturns`, `ReleaseIsPublished`, `FramesArrive`, `CallsReturnWhileOpen`.
* Properties that compare the code with a recursive definition over include graphs or
  types, and need an induction over data: `ContextFree`, `DiamondsMergeOnce`,
  `ExtensionsReachTheirTypeInTrees`, `OldMessagesAreRead`. The last one is not even true of
  all versions (`breaking_choices`), so the versions of `MCReleases` stay part of it.
* `ReadLanesAreImmutable`. `SerialInv` is not enough for it: it would have to say of a lane
  that nobody gave up reading that its assets are those of its manifest, in every lane a
  run may still write to.

## 5. Plan

Everything of section 2 is modelled and checked, and every safety property of a passing
run is proved except `ReadLanesAreImmutable` and the four that need an induction over data.
What is left, in this order:

1. The proof of `ReadLanesAreImmutable` for workflows that run one after the other.
2. The retention rules of the cleanup (`_cleanup_asset_cache`), which two entries of the hazard
   list wait for: a listing that is stale when it is used, and a manifest that forgets what
   it was promoted from.
3. The invariants of `AssetLanes` for two workflows of different pull requests at a time:
   `SerialInv` speaks of the one active run, most of it would hold of each run whose lanes
   no other active run writes.
4. The event transport, if a life of its connections comes into the repository.

## 6. Not modelled

* Lexer, parser, formatter, linter, hoisting, the schema descriptor, the CBOR codecs and
  the code generators, which are nine tenths of the source: functions from text or AST to
  text or bytes, without state or order, where a model would restate the code line by line.
* The event transport: codecs and a negotiation of two versions; the life of a connection
  is in programs outside the repository.
* The ports of the transports other than TypeScript are synchronous like the Rust
  reference, and held to it by the conformance vectors.
* The rules by which the cleanup retains lanes, which take a clock and the references
  between lanes.
* The checks of the validator other than wire ids, each of one spec alone.
* Reports, progress bars, metrics, build scripts and test drivers.
