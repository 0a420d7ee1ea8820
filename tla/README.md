# rust-sak: TLA+ models, checks and proofs

`rust-sak` is a library of independent modules (`src/src/<module>`). Most of it is a thin layer over the
operating system or other crates. The parts that hold a protocol of their own, between threads, futures,
processes, attempts or calls, are modelled here. `PROJECT.json` maps each definition to its source lines.

## 1. Inventory

| Part | State it keeps | Operations | Interacts with | What is hard | What makes it correct |
|---|---|---|---|---|---|
| `memo` single flight | table of running calls, each call's outcome and wakers | `get_or_compute`, `get_or_compute_async` | the store below; spawned blocking writes | threads and futures share a computation; its leader may panic or be dropped | one leader per key and type; everybody released, with the same answer |
| `memo` stores | memory tier, disk tier (redb), open-database registry, write cadence | `get`, `set`, `remove`, `retain`, `flush`, `cleanup`, open, close | each other, through promotion | declined and expired copies; deferred durability; last drop against reopen | nothing stale after a removal; a bound on what a crash loses; one store per open file |
| `fetch` downloads | target, `.part`, `.part.json`, hash checkpoint | start, attempt, stream, promote, cancel | server, file system, `fetch::retry` | resumption over retries, crashes and republished resources | a file at the target is one whole version, with the digest published |
| `fetch` download handle | join handle, last progress, result | `track`, `cancel`, `join`, drop | the transfer's task | one task, awaited by two calls whose futures may be dropped | who asks is told how it ended, as often as they ask |
| `fetch` requests and retries | configuration, client cell, attempt, wait asked for | builders, clones, requests, `with_fibonacci_backoff` | server | clients built at once; stale `Retry-After` | one client per configuration; the wait the last answer asked for |
| `ai` install | per version folder: lock file, marker, files, staging | `plan`, `install`, unpack, remove other versions | other processes; `fetch`; blocking threads | crashes half-way; futures dropped under a blocking thread; versions that remove each other | a folder that reads as installed is complete |
| `ai` install of single files | files in place, record, derived folders, staging | `install_files` | the above; what is compiled from the files | kills and hand edits between clearing, fetching, moving and recording | a verified record is true; nothing derived from an old file survives it |
| `ai` loading and sessions | environment, offered providers, build lock, timing cache, per-thread counters | `prepare`, load, build | ONNX Runtime | failing builds that share a cache; telling failures apart | a torn cache is removed before the next build; out of memory is one's own |
| `ai` hub | a listing's commit and pages | parse, resolve, list, pick | Hugging Face | the branch moves; the server names the next page | a listing is of one revision, whole |
| `o11y` pipeline | gates, two buffers, control block, export thread | `init`, record, `flush`, `shutdown` | all application threads; a user callback | races of requests with the cycle in flight; the callback panics | flush and shutdown export what was recorded; no request is lost; both return |
| `o11y` metrics | series map, histogram atomics, weak registry | record, snapshot, prune | the pipeline | threads that first see a tag set at once; the cap; pruning | no sample lost or counted twice; no live instrument forgotten |
| `o11y` spans, tracing bridge | stacks of open spans; tracing's extensions; remote parent | open, detach, poll, finish; layer callbacks, `with_parent` | each other; the pipeline | futures move between threads; folded spans; nesting and panics | a stack holds what runs there; the exported tree is tracing's |
| `fs` | none (the file system) | copy, move, extract, trash, path checks | – | cross-device moves, archive limits, links, names | nothing lost half-way; limits respected; paths stay inside |
| `tui` live display | terminal mode, drawing thread | start, update, finish, drop | the terminal, Ctrl-C | every way to end | the terminal is restored once |
| `image`, `crypto`, `github`, `sysinfo` | none | pure functions and probes | codecs, drivers, HTTP | arithmetic at boundaries | agreement with a reference definition |

`PROJECT.json` lists the hazards at their lines, with the properties that cover them.

## 2. Modules

| Module | Models | Role |
|---|---|---|
| `MemoFlight`, `MCMemoFlight` | `memo/flight.rs`, `get_or_compute(_async)` | specification; symmetry for TLC |
| `MemoTiers` | `memo/composite_store.rs`, `memory_store.rs`, `disk_store.rs` | two tiers, deadlines, durability, crash |
| `MemoRegistry` | the registry in `memo/disk_store.rs` | opening, sharing, tearing down |
| `FetchDownload`, `MCFetchDownload` | `fetch/download.rs`, `partial.rs`, the loop of `retry.rs` | specification; versions and requests for TLC |
| `FetchHandle`, `Promise` | `Download` in `fetch/download.rs` | the handle, and what it promises |
| `FetchRequests` | `fetch/mod.rs`, `request.rs`, `retry.rs`, `response.rs` | builders, client, retries, body cap |
| `AiInstall`, `MCAiInstall` | `ai/install.rs`, `install/lock.rs`, `install/marker.rs` | specification; symmetry for TLC |
| `AiInstallFiles` | `ai/install/files.rs`, `install/record.rs` | files installed in place |
| `AiSession` | `ai/load.rs`, `session.rs`, `provider.rs` | loading, the ladder, the build lock |
| `AiHub` | `ai/hf.rs`, `ai/source.rs` | listings |
| `O11yPipeline` | `o11y/pipeline.rs`, `worker.rs`, `buffer.rs`, `gate.rs` | specification and properties |
| `O11yMetrics` | `o11y/metric/*.rs` | histograms, series, registry |
| `O11ySpans` | `o11y/trace/span.rs`, `context.rs`, `instrumented.rs`, `owned.rs` | stacks of open spans |
| `O11yBridge` | `o11y/tracing/*.rs` | the tracing layer |
| `FsTransfer`, `FsExtract`, `FsTrash`, `FsNames` | the files of `fs/` they are named for | file operations |
| `MCComponents` | – | the components that share no state, each explored on its own |
| `MemoFlightProofs` | – | proofs about `MemoFlight`: its control, then its answers |
| `MemoStoresProofs` | – | proofs about `MemoTiers` and `MemoRegistry` |
| `FetchDownloadProofs` | – | proofs about `FetchDownload` |
| `FetchFsProofs` | – | proofs about `FetchHandle` (with `Promise`), `FetchRequests`, `FsTransfer`, `FsExtract` and `FsTrash` |
| `AiInstallProofs`, `AiComponentProofs` | – | proofs about `AiInstall`; about `AiInstallFiles`, `AiSession` and `AiHub` |
| `O11yPipelineProofs` | – | proofs about `O11yPipeline` |
| `ComponentProofs` | – | induction over sequences and paths; proofs about `FsNames`, `O11ySpans`, `O11yBridge` and `O11yMetrics` |

Definitions named as mutants in a comment are not part of any specification: each is a plausible
mistake in the definition it stands before, kept to show that a property would notice it.

### Core modules

**MemoFlight.** A caller is a thread or a future; `pc` is its place in `get_or_compute`. `calls` is `Flight::calls`, a *call* one
of the cells an `Arc<Call>` may occupy, with `outcome` and `wakers`. A step is one store access or one critical
section. `Wait` checks and goes to sleep in one step because the code does so under one lock. `Publish` and `Notify`
are two steps because the code unlocks between them. `Drop` is the leader guard: deregister, then `Abandon` and
`AbandonNotify` if nothing was published. Over a store with a path an async write is a task (`SpawnSet`, `RunTask`)
that survives its future (`CancelLeader`). Store reads and writes may fail; entries may vanish (`StoreLoses`) or be
replaced by bytes without a header (`SetBytes`). `answers`, `vanished` and `faulty` are history, read by no guard.

**FetchDownload.** The bytes of version `v` are the blocks `<<v, 1>>, <<v, 2>>, ...`, so mixed, short and repeated contents can be told
from whole ones; a hash is the sequence it was fed. The task goes through `stream_to_file`: reconcile or discard,
then attempts, each of which reads offset and sidecar again, sends, and handles 200, 206 and 416, streams through
a buffer, syncs and promotes. Any step may fail (`Fail`), the task may be aborted or killed (`Stop`), power may fail
(`PowerLoss`: unsynced tails and the sidecar may be lost), and a URL may change what it serves (`Republish`).
Abstractions:
- ETag and Last-Modified are one validator, which names one version; some versions have none (`MCUnnamed`).
- `Skip` takes the same path as `Resume` in the code and is not in the checked requests.
- Metadata operations survive a power failure in the order they were made.
- A file operation already handed to the blocking pool when the task is aborted is done, or not, before the next
  transfer begins. One transfer runs at a time; the code documents no promise for two on one path.
- Progress events are left out here: `FetchHandle` has them.
- Any error may be retried, or final (`Stop`): which errors `is_retryable` accepts is not distinguished.

**AiInstall.** Each process runs `install_one` (`pc`) and, for it, one blocking thread (`job`) that unpacks and then cleans up. An
archive is a set of entries tagged with whether they come from the archive the listing's hash names. `intact` is
`Marker::intact`. Deleting, emptying and moving go entry by entry. `Kill` ends a process anywhere and frees its
locks; `UnpackFails` and `FetchFails` fail any file operation; `Damage` deletes a file by hand. `Drop` drops the
install's future: with `Droppable` also while the blocking thread runs, which then goes on without the lock.
The passing run has `Droppable = FALSE`; what the code does otherwise is the finding of `ai_install_dropped`. Not
modelled: power failure (neither the files nor the marker are synced), and event reporting.

**O11yPipeline.** Callers may start telemetry, record, flush and shut down; `Recorders`, `Flushers` and `Stoppers` say who does what.
The gates are two stores. `control` is the mutex-protected block; `sleeping` is the wait set of the one condition
variable, which every `notify_all` empties. The worker looks (`Look`), times out (`Tick`), claims the requests,
takes the buffers, reports drops and posts signal by signal, and finishes; a report may panic, and `Sentinel` shuts
the gates however the thread ends. `log::emit` skips the gate, and so does `Enter` for logs. The backoff is kept as
whether there is one; the metric registry as whether a snapshot is non-empty. `asked` and `live` are history.
`MaxBatch <= Capacity` is assumed: a larger `max_batch_size` never triggers an early export.

### Components that share no state

**MemoTiers.** A step is one access to one tier: the tiers are visited one after the other without a common lock.
`memory[k]`, `disk[k]` and `durable[k]` are the copy a tier, the committed table and the table after a crash hold; a
copy names its write, its deadline and, if promoted, its origin's deadline. `NextIsDurable` is the cadence. A tier may
decline, fail, evict or expire; a sweep runs as an operation of its own; `Crash` and `Close` reopen over what is
durable. The clocks do not jump. `last[k]` is history: the last write that nobody raced.

**MemoRegistry.** `registered` is `OPEN`, a generation; a store lives while a handle or a running sweep holds it
(`Strong`), and its teardown takes `OPEN`, evicts its own generation only and closes the file. redb's lock is `file`.

**AiInstallFiles.** Processes run `install_files`: `Decide` under the lock, then `Clear` (record first, then what is
derived), `Keep`, `FetchFile`, `MoveIn`, `Finish`, each of which may fail or be where the process is killed; `Edit` changes files
by hand; `Derive` is the caller's use of `Files::derived` after a success. A modification time is one no two writes share.

**FetchRequests.** `settings` and `client` per fetcher, one record per request: built, sent, answered, body read under
the cap, waiting. Builders take the fetcher by value, so they need it unused (`Unused`). `fibonacci_delay` is stated by the recurrence that
the code's closed form rounds to below its cap.

**FetchHandle and Promise.** The task and the owner's calls, whose futures may be dropped. `Promise` is the
abstract specification: the work ends once, and each answer is how it ended, or the answer is lost for good.
`FetchHandle` implements it under a mapping (`Outcome == INSTANCE Promise WITH ...`): `TruthfulJoin == Outcome!Spec`.
"Lost" covers a `track` dropped in the very await of the task, after which a later `join` answers `Ok` whatever happened
(`download.rs:239`, see section 4).

**AiSession.** The process (with the one re-execution of `prepare`), the load under its lock, and builds that walk the
ladder. A TensorRT build holds `TENSORRT_BUILD` and may leave the timing cache torn; the next may not start before it was
discarded, unless discarding failed or the build panicked (`wounded`). Out-of-memory records are counted per
thread, and compared with a mark.

**AiHub.** The branch moves (`Push`) between any two requests; the server names the next page, the right one, a
visited one or another's; entries are files or not, hashed or not.

**O11yMetrics.** `Buckets::record` is one atomic after another, with the compare-exchange loop of the sum; `TagMap::with` is
read-lock look-up, then the write lock with a second look-up, and the cap checked against a count read earlier. Counters and gauges
use the same map with one atomic each and are not modelled apart.

**O11ySpans.** A stack per thread; guards, futures (polls may nest, end ready, pending or by a panic, and move between
threads) and owned spans. Guards are dropped on the thread that opened them. Attributes and events are left out. The state of a `PendingSpan` is whether it is
parked, which is what the code's `Option<SpanState>` tells.

**O11yBridge.** One tree of `tracing` spans, each exported, folded or neither, with the thread that opened it; nested
`with_parent` calls, each of which restores what it replaced, by return or by panic; the gate opens and shuts once. A thread's
own stack of `o11y` spans, the last fallback for a parent, is `NoContext` here.

**FsExtract.** Entries in any order over a small set of paths (a folder, a file in it, two others): what they declare
and hold, refused or skipped ones, links, modes, the caller's ceilings. A link's containment is a choice when it is
made and again when it is verified; nothing's path goes on below a link. **FsTransfer.** A listing carried file by file, onto a
folder that may be its own by another name, by rename or copy and delete. **FsTrash.** Two handles on one path,
other programs, a clock in seconds. **FsNames.** One question and its answer: paths as component sequences.

## 3. Runs

| Run | Bounds | Result |
|---|---|---|
| `memo_flight_memory` | 1 thread, 2 futures, 1 key, 2 types, 2 calls | `SingleFlight`, `NobodyStranded`, `NoWastedCompute`, `AbandonedMeansVanished` hold |
| `memo_flight_disk` | 1 thread, 1 future, 1 type, 3 calls, spawned writes, 1 orphan | `Agreement`, `EveryRequestReturns` hold |
| `memo_flight_abandoned` | as above | `NothingCachedWhenAbandoned` fails (finding) |
| `fetch_download` | 2 URLs, versions of 2 and 3 blocks (one without validator), 3 requests, 2 retries, 1 republication | `TargetWhole`, `SidecarDescribesPart`, `ResumeIdentified`, `DigestOfTarget`, `TransferEnds` hold |
| `fetch_unsynced`, `fetch_short_range`, `fetch_unknown_partial` | 1 URL, 1 request, 1 retry | `TargetDurable`, `NoShortTarget`, `UnknownStartsFresh` fail (findings) |
| `ai_install` | 2 processes, 2 versions, 2 entries, 2 installs each | `MarkerComplete`, `SuccessIsIntact`, `InstallEnds` hold |
| `ai_install_dropped` | as above, droppable | `MarkerComplete` fails (finding) |
| `o11y_pipeline` | 2 threads, 3 records, buffers of 2, threshold 2, 1 flush, 1 elapsed interval | `FlushDrains`, `ShutdownDrains`, `NobodyOversleeps`, `GatesFollowWorker`, `CallsReturn` hold |
| `o11y_spans_lost` | 2 threads, 2 futures, 3 spans | `EndedIsExported` fails (finding) |
| `components` | see below | 19 invariants, `TreePreserved` and `TruthfulJoin` hold |

`components` explores the fifteen components that share no state in one run: `part`, chosen in the initial state, names the
one that moves while the rest stand still. This is a disjoint union, not a composition: each component is explored exactly
as it would be alone, and each property is about one of them. Threads, processes and handles are `p` and `q` everywhere, so one symmetry serves
all. About a million distinct states.

| Component | Bounds | Properties |
|---|---|---|
| `MemoTiers` | 2 threads, 1 key, 2 writes, lifetimes 0 and 2, 2 ticks, a durable commit every 2 writes or 2 ticks | `ServesLastWrite`, `CrashLosesOnlyDeferred`, `PromotedNoLonger` |
| `MemoRegistry` | 3 openers, 3 stores, 2 attempts, another process | `LiveIsRegistered` |
| `AiInstallFiles` | 2 processes, 2 files, 3 contents, 3 listings, 2 installs, 1 edit by hand | `RecordTrue`, `DerivedFresh` |
| `FsExtract` | 4 paths, 3 entries, sizes 1 and 2, 2 modes | `NoHalfFile`, `AccountsAgree`, `ModesDoNotCollide` |
| `FsTransfer` | 5 files, two of one name, one special, one filtered; a file already there | `NothingLost` |
| `FsTrash` | 2 handles, 2 files, 3 seconds, tolerance of 1 | `TrashFaithful` |
| `FsNames` | paths of up to 4 components | `StaysInside` |
| `FetchRequests` | 2 fetchers, 2 requests, 2 retries, 1 builder call or clone | `WaitsAsAsked`, `OneClient` |
| `FetchHandle` | 2 updates | `TruthfulJoin` |
| `AiSession` | 2 loaders, 2 requests, 2 out-of-memory records, 1 restart of the process | `TimingHealed`, `OomIsOwn` |
| `AiHub` | 3 commits of 2 or 3 pages, 4 URLs | `OneRevision` |
| `O11yMetrics` | 2 threads, 3 samples of 2 values, 3 tag lists (two equal as sets), a cap of 1; 3 instruments | `NoSampleLost` |
| `O11ySpans` | 2 threads, 2 futures, 3 spans | `StacksBalance` |
| `O11yBridge` | 1 thread, 3 spans, 2 nested contexts, 1 field | `TreePreserved` |

Why the bounds are enough for the cases of interest:
- memo: three callers give a leader, a follower and a late arrival that becomes the next leader; two types on one key
  exercise `flight_key`. Two call cells let an old call be held while a new one runs; a third caller may then
  wait in `Enter` for a cell, which the code's heap never makes it do, so the run on disk, which checks liveness, has as many cells as
  callers and orphaned writes can hold. The proofs are for any number of cells.
- fetch: two retries are a resume of a resume; a version of two blocks can be complete, partial or longer than what is now
  served; the three requests differ in URL, key, mode and `across_urls`.
- install: two processes, each wanting either version, meet on one folder and as each other's "other version"; two
  entries make a half-moved folder; two installs each follow every crash with a recovery.
- o11y: three records overflow a buffer of two; a flush, a shutdown and an elapsed interval can each meet a cycle
  in flight. Liveness holds although the interval elapses at most once: no call depends on it.
- tiers and registry: two writes are an old and a new one; a third opener meets a store that is being torn down while another is opened.
- files: two installs by two processes and one edit put a republished, an edited and an untouched file side by side.
- bridge: one remote context nested in itself still tells "puts back what was there" from "clears".
- extraction: three entries are a folder, what is in it, and one that replaces either.

`CHECK_DEADLOCK FALSE` is used for installs, where each process stops after `MaxStarts`, and for `o11y_spans_lost` and `components`, whose bounded
counters end most behaviours; none of its components has a wait that its properties are about.

### Fairness

- memo: every caller that can take a step of its own does, and spawned tasks run: operating-system and runtime
  scheduling. A computation ends. Nobody is obliged to ask, panic or be dropped.
- fetch: the task goes on. A stalled request is `Fail`, which the read timeout of the client guarantees
  (`fetch/mod.rs`; a client built without one loses this).
- install: futures and blocking threads are scheduled, transfers end, and a lock that stays free is taken. Killed
  processes are idle.
- o11y: callers inside a call and the worker are scheduled; each post ends within the client's timeout. Giving up a
  flush on its timeout is *not* fair, so `CallsReturn` shows that flush does not need it unless the worker panicked.
- components: safety only.

## 4. Findings and observations

Each finding is a run that expects a violation; details and quotations are in `PROJECT.json`.
1. A dropped leader's disk write lands after its followers were told nothing was cached.
2. A 416 promotes a partial that was never synced.
3. A 206 that covers less than was asked for is promoted as the whole file.
4. A retry resumes a partial whose sidecar cannot be read.
5. An install dropped while unpacking releases its lock too early; two unpackings of a folder can interleave.
6. The span of an instrumented future is never exported: `PendingSpan::finish` calls `exit` first, which overwrites the
   parked state with what is no longer on any stack.

Known windows that properties exclude, and name: a resume without any validator (`blind` in `TargetWhole`); a
shutdown between the publication of the pipeline and the opening of the gates (`live` in `GatesFollowWorker`); an edit
by hand while an install runs (`stirred` in `DerivedFresh`); a file written through a link (`through` in `NoHalfFile`);
a writer on the same key between the tiers (`last` in `ServesLastWrite`).

Seen while reading and modelling, with no run of their own:
- `CompositeStore::set` of a value above `max_capacity` is `Ok` though memory declines it and keeps the old copy in
  front of the new one on disk (`composite_store.rs:69`).
- "Never let the promoted copy outlive the entry" (`composite_store.rs:55`) holds up to the time that passes between the
  disk read and the promotion (`late`).
- Two `memory_disk` handles built apart share the disk store and not the memory in front of it.
- A `track` dropped inside the await of the task has taken the join handle with it; a later `join` is `Ok` (`download.rs:239`).
- A Hub answer whose body breaks off is reported as malformed and not as a network error (`hf.rs:376`).
- A file written through a link earlier in the archive is left half-written when its entry fails: the link is removed (`extract.rs`, `visit_file`).
- The tolerance of two seconds lets `restore_from_trash` bring back an older file of the same path.
- `mk_config_file_at` with an empty file path and a name of two components fails with `Io`, not `EmptyName`.
- `add_with_tags(n, &[])` makes a tagged series without tags beside the untagged one; the cap on series is passed by as many
  threads as read the count before it was reached.
- `shutdown()` can block for several export timeouts, one per signal (`worker.rs:136`), where `o11y/mod.rs:113` speaks of one.
- Folders derived by the caller while another process installs are outside the folder lock.

## 5. Proofs

TLAPS proves the statements below for every value of the constants that the named assumptions allow: any number of
threads, futures, processes, keys, files, versions, paths or requests, and without the bounds that stop TLC, since
counters are typed by `Nat` only. Each theorem has the form `Spec => []P`. The argument is the same throughout: an inductive
invariant, a conjunction of named parts, holds in the initial states; one lemma per action (`...Keeps`, or `...Step`)
shows that the action preserves it; and it implies the property. None of the properties is inductive as it stands;
the parts below are what each lacks.

| Module | Invariant | Properties it gives |
|---|---|---|
| `MemoFlightProofs` | `IInv` (`Invariant`) | `TypeOK`, `SingleFlight`, `NobodyStranded` |
| | `AnswersInv` (`AnswersInvariant`) | `Agreement`, `AbandonedMeansVanished`, `NoWastedCompute` |
| `MemoStoresProofs` | `CrashInv` (`TiersInvariant`), `ServeInv` | `CrashLosesOnlyDeferred`, `PromotedNoLonger`, `ServesLastWrite` |
| | `RegistryInv` (`RegistryInvariant`) | `LiveIsRegistered` |
| `FetchDownloadProofs` | `DownloadInv` (`DownloadInvariant`) | `TargetWhole`, `SidecarDescribesPart`, `ResumeIdentified`, `DigestOfTarget` |
| `FetchFsProofs` | `HandleInv` (`HandleInvariant`) | `TruthfulJoin`: `FetchHandle` implements `Promise` |
| | `RequestsInv` (`RequestsInvariant`) | `OneClient`, `WaitsAsAsked` |
| | `TransferInv` (`TransferInvariant`) | `NothingLost` |
| | `ExtractInv` (`ExtractInvariant`) | `NoHalfFile`, `ModesDoNotCollide`, `CountsAgree` |
| | `DiskInv`, on top of `ExtractInv` | `AccountsAgree` |
| | `TrashInv` (`TrashInvariant`) | `TrashFaithful` |
| `AiInstallProofs` | `InstallInv` (`InstallInvariant`) | `MarkerComplete`, `SuccessIsIntact` |
| `AiComponentProofs` | `FilesInv` (`FilesInvariant`) | `RecordTrue`, `DerivedFresh` |
| | `SessionInv` (`SessionInvariant`) | `TimingHealed`, `OomIsOwn` |
| | `HubInv` | `OneRevision` |
| `O11yPipelineProofs` | `PipelineInv` (`PipelineInvariant`) | `FlushDrains`, `ShutdownDrains`, `NobodyOversleeps`, `GatesFollowWorker` |
| `ComponentProofs` | `StaysInside` itself: one question, one answer | `StaysInside` |
| | `SpansInv` | `StacksBalance` |
| | `BridgeInv` | `TreePreserved` |
| | `MetricsInv` | `NoSampleLost` |

### Why each invariant is what it is

**MemoFlight, control.** `SingleFlight` says nothing of the call a leader holds, so a step that takes a call out of
the table could let a second one in. `LeaderRegistered` and `RegisteredHasLeader` tie each registered call to exactly
one leader, and `OneOwner` each call to one leader or task. A follower sleeps only on a call that somebody will still
publish: `FollowerHasOwner`, with `Unpublished`, `Published` and `FlagClear` for where its owner is. `TaskAwaited` and
`HasResult` say what a spawned write and a finished caller leave behind.

**MemoFlight, answers.** `ReturnsPublished` and `AnswersOutcome`: whoever has an answer has the outcome of the call it held, so
there is at most one answer per call. That a follower can decode that outcome takes `SameType` (who shares a call shares a
type) and `OwnType` (a leader publishes its own type), which give `Decodable`. For "abandoned" to be true, `AbandonersVanished`,
`OutcomeVanished` and `NotAbandoned` follow who may publish it. `NoWastedCompute` needs `SpawnedIfBlocking`: only over a
blocking store may a write land behind a leader's second look.

**MemoTiers.** `Counted` bounds the writes since the last durable commit, `BehindByDeferred` says that the table after a
crash is behind only on those, and `PromisesWhatIsLeft` keeps a promoted copy's deadline next to its origin's. For
what reads are served: a read that overlaps a write is marked (`OverlapIsMixed`, `WritingIsUnknown`), a promotion that is not brings the
last write (`PromotesLast`), and a write that nobody raced has reached both tiers (`Landed`).

**MemoRegistry.** `OpenerHasFile` and `StoreHasFile` tie redb's lock to one opener or store; `LiveIsHeld`: a store is live
exactly while somebody holds it; `LiveIsNamed`: the table then names it; `LockIsTeardown`: `OPEN` is held across the closing of
a file, and by nothing else.

**FetchDownload.** What was received, written and hashed is described at every program counter: `ReadTruly` and
`AnsweredTruly` for response and headers, `BodyInOrder` for the block the stream is at, `SidecarWritten`,
`SidecarIdentifies` and `OwnPart` for whose bytes a partial holds, `CheckpointCovers` for what the hash was fed, and `PromotesWhole`
and `TargetSynced` for the rename. `Stop` and `PowerLoss` may cut the task anywhere, so what a restart reads (partial, sidecar,
checkpoint) is described in every state and not only where the code uses it.

**FetchHandle.** `NobodyAsked` and `KeepsHowItEnded`: the join handle, the recorded result and a `track` or `join` in
flight never disagree. Under the mapping, initial states map to initial states, and each step of the task or
its owner to one step of `Promise` (it ends, it answers, the answer is lost) or to a stutter; one case per action.

**FetchRequests.** `KeptIsCurrent` (the cell holds what the current configuration builds), `UsesKept` (what a request in
flight uses) and `NoStaleHint` (a wait belongs to the response of this very attempt).

**FsTransfer.** Nothing that is carried lands on a source that is still to be carried, unless it is named so
(`Overwritten`): the lemma `NothingLandsOnCarried`, over paths as sequences. With it `SourceKept` (what has not been
passed is still there), `SourceMoved`, `Arrived`, and `Tallied`, which counts what was listed so far.

**FsExtract.** `WritesFile` (what is open is where the entry said, or beyond a link), `FilesWhole` (all the others
are complete, and no entry's leftover bytes reach the next), `DirsStay` (a directory that waits for its mode is not
replaced) and `DeepestFirst` (a folder that has its mode is at least as deep as those that wait), from which no folder is
closed before what is in it. `Counted` joins budget, summary and hook.

**FsTrash.** `OnePlace` (a file is at the path, in the Trash or destroyed, and in one of them) and `ChosenInTime` (what
a restore chose is no older than its handle's instant, less the tolerance).

**AiInstall.** `OwnLock`, `LockHasReason` and `ThreadAwaited`: a blocking thread works only under the lock of the process that
awaits it. `UnpackProgress` says what is in place at each step of unpacking; `MarkerWhole` that a marker stands
beside nothing less than the archive's entries; `OthersAreOther` and `OneOther` that the versions a process removes are not its own.

**AiInstallFiles.** `Locked`, and what a run has already done at each step (`Cleared`, `Planned`, `ReadIsTrue`,
`DealtWithIsTrue`); `RecordIsTrue`. Modification times are in the past (`InThePast`), so that an edit by hand is newer
than any record; what was derived comes from the files that were there (the parts that begin with `Derived`), whenever `DoneTrusting`.

**AiSession.** `OneHolder` and `OnlyTensorRt` for the build lock, `TornIsHeld`: the build that tore a cache is still
there to discard it, and holds the lock, unless it was wounded; `MarkIsOwn`: a thread's counter is above its build's mark exactly
when that build ran out of memory.

**O11yPipeline.** `OneOpener` and `GatesShut` for the gates; `Sleepers` for who may be in the wait set; `Numbered` for the
records, `CycleCount` for the cycle started and not finished, `HandEmpty` for what the worker holds between cycles, `StopFlag`.
`FlushServed` and `ShutdownServed` then follow the cycle a call waits for: each buffer it has passed holds nothing the
call asked for, and once it is finished neither does the worker.

**FsExtract, the disk.** `DiskInv`: the bytes on disk are no more than those counted. An entry adds what it counted to one path,
at most; a file that is replaced, truncated or removed takes its bytes away and gives back none. `OnDisk` is the
cardinality of a set of bytes, one pair per byte, so that the sum over the paths is a fact about finite sets.

**AiHub.** After page `n` the listing is `Whole`: each verifiable file of the pages before the next, once (as a bijection), at
the commit the branch pointed at when it was resolved; the pages visited are those and no other, so only the right
next page can be followed.

**FsNames.** `PlainKeeps`: the components pushed are the ones asked about that are neither empty nor a dot, in order.
For a target that is accepted, the depth never falls below zero at the upward steps, which are all at its start, and a name
leads inside wherever it leads (`TargetStays`, for every depth of the link; the specification asks at depths up to two).

**O11ySpans.** `StacksBalance` is not inductive alone: `OneOwner` (a guard of one thread, or one future, has a span) and
`OnePoll` (a future is polled by one thread, once, and parked between polls). `remove` takes the uppermost
occurrence only; it is because a stack never repeats a span that it takes all of it away (`RemoveLeaves`).

**O11yBridge.** `Shaped`: a span's parent is older than it, so the tree has no cycles and `scope` is defined for each span;
`ScopeShape` says what it is: ancestors, each older than the one before, so that the first exported one on the way up is
the largest, which is how the property names it. `OpenInside` and `UnderAround` keep an open span's surroundings open;
`ContextsNest` is what `with_parent` puts back. Each action's step is then a case of `TreeStep`.

**O11yMetrics.** `Accounts` says, while threads are half-way, what is counted and not yet summed (`Counted`), and what is in a
bucket and not yet in the count (`Bucketed`), so that at rest the three sums agree; `AllShaped`: all series have the layout's
buckets; `Capped` counts the threads that have read the count before the cap was reached and may still make a
series; `OneSeries` needs the second look-up under the write lock; `Working` says where a recorder's series is.

### Induction over data

The induction theorems of the library take an operator as a parameter, which no installed prover can instantiate. The
definitions that go through a list, a path or a tree (`Plain`, `Passes`, `scope`, `Added`) are recursive functions on an
interval, and what they are for every input is proved from two facts about *sets* of numbers,
`StrongInduction` and `SetInduction`, themselves proved from the least element of a set of naturals (`WFMin`), and from `FiniteRecursion`: an
equation that gives a value at each number from that at an earlier one has a solution. The induction hypothesis is the set
of the lengths for which the claim holds.

### Assumptions

The named assumptions of the models state what the code's types give (markers such as `NoCall` are not real values, lengths are positive, a
validator names one version, one path is listed once). `HubAssumption` says that an entry of a commit is on one page of its listing:
the server's part of the bargain, as `hf.rs` relies on it. `MetricsAssumption` and `BridgeAssumption` only separate the
markers from values and give lengths and caps their types. Three theorems have a hypothesis of their own:
- `AiInstallProofs`: `Droppable = FALSE`. With a future dropped under its blocking thread `MarkerComplete` is false:
  finding 5.
- `TargetIsWhole`: `ShortRanges = FALSE`, a 206 covers what was asked for. Otherwise the property is false: finding 3.
- `ServesTheLastWrite`: `"over" \notin Sizes`, no value is larger than the memory tier. Otherwise the old copy stays in
  front (section 4).

### Only model-checked

- `EveryRequestReturns`, `TransferEnds`, `InstallEnds`, `CallsReturn`: liveness under fairness, which the prover does not do. Every other
  property of a passing run is stated by a theorem.
- That the runs expected to fail do: the six findings are counterexamples on their bounds.

## 6. Not modelled

- Request construction, header merging, credentials, `Link` parsing, JSON and OTLP layout, logging: data the properties
  do not tell apart.
- `memo` keys, `ai` tuning and GPU facts, `o11y` enrichment and records, `image`, `crypto`, `github`, `sysinfo`: pure functions, probes or
  wrappers of libraries, with no state that two steps share. Several parts of `fs` (temporary files, listings) are single system calls.
- `tui`: one thread that its owner joins draws on a terminal outside the program.
- ONNX Runtime, codecs, hash libraries, archive decoders, redb and moka: external; they appear as what the code
  relies on.
- Two transfers to one path at once, power failure under an install, clock jumps, promotion races (for which
  `memo/mod.rs:255` promises nothing).

See the components in `PROJECT.json`.

## 7. What is left

1. Composition: `FetchDownload` under `FetchHandle`; `O11ySpans` and `O11yMetrics` as what the pipeline exports.
2. Liveness of `FetchHandle` and `FetchRequests`, which end under the same fairness as the transfer.
3. Two transfers to one path.
