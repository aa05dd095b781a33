# OmniFetch in TLA+

Models of the parts of OmniFetch whose correctness depends on interleavings, crashes and
remote servers, with the TLC runs that check them and the TLAPS proofs about eight of them.
Paths below are relative to `src/internal/` unless they start with `cmd/`.

## The system

`cmd/omnifetch/main.go` parses flags, builds one `engine.App`, adds every URL argument
(`AddURL`), calls `StartQueued` once and renders events until `App.Done`. An interrupt cancels
the context that everything runs under.

| Component | State it keeps | Operations | Talks to |
|---|---|---|---|
| `engine/app.go` **App** | `jobRunning`, `jobCancels` under `mu`; one errgroup per `StartQueued`; `eventsCh` (2048) | `AddURL`, `StartQueued`, `RetryFailed`, `CancelActive`, `DeleteCompleted`, `ClearErrors`, `Done`, `Close`; `startOne` per job | Queue by locked calls; engines by `CanHandle`/`Run`; front end by lossy events |
| `queue/queue.go` **Queue** | slice of jobs and index map under an RWMutex | `Add`, `Get`, `Patch`, `RemoveWhere`, `IDsWhere`, `Snapshot`, `SortByUpdatedDesc` | called by App from every goroutine |
| `downloader/` **Segmented downloader** | `.part`, `.json` metadata, output file; per call the resume state, an errgroup of ticker, producer, workers, a bounded channel | `Download` (with `downloadSegmented`, `downloadSingle`, `probeWithRangeGET`) | HTTP server, disk |
| `engine/file_engine.go` **FileEngine** | `.part`; per call a select loop, a copier, a first-byte watcher | `CanHandle`, `Run`, `downloadStreaming` | HTTP server, disk, events |
| `engine/media_engine.go` **MediaEngine** | the media directory | `CanHandle`, `Run` (yt-dlp), directory snapshots | yt-dlp, disk |
| `engine/article_engine.go` **ArticleEngine** | output file | `CanHandle`, `Run` | HTTP server, disk |
| `cmd/omnifetch/main.go` **CLI** | copies of jobs built from events | `runCLI` loop, `exitCode` | App |
| `errors/`, `utils/`, `models/` | none | classification, formatting, types | everyone |

In this commit no engine calls `Downloader.Download`: direct files go through
`downloadStreaming`, and the segmented downloader is a library beside it.

What is hard, and what makes each component correct:

- **App**: two `StartQueued` calls may overlap (through `RetryFailed`), each goroutine of a group
  works on a copy of its job, registers itself, patches the queue and cleans up in separate critical
  sections. One runner per job; every runner can be cancelled; a job shown as downloading
  has a runner; `Done` means quiet; queued jobs begin and end; an interrupt drains everything.
- **Segmented downloader**: the metadata on disk is read again after a crash. It must never be ahead
  of the bytes; a chunk must not be fetched twice; the group must neither stop early, nor hang, nor
  take the cancellation it causes itself for the caller's.
- **FileEngine**: the size of `.part` is all that a resume knows. The file must be a
  prefix of the remote one after any interruption; the first-byte timeout cancels the same context
  a user cancels, and must still be reported as a timeout.
- **Routing**: two different algorithms choose an engine, one when a URL is added and one when
  it is run. They must agree.
- **CLI and event stream**: `emit` drops events when nobody reads, and `StartQueued` may block for minutes
  before `runCLI` does. What is shown must not contradict the queue; the exit code must be right; an
  interrupt must end the program wherever `main` is.
- **Queue**: a slice and a map from ids to positions, changed together. Compaction and sorting move
  jobs; the map must follow, or a patch lands in another job.
- **MediaEngine**: jobs share one directory and learn from a snapshot what is theirs. A job must not
  miss its own files, and should not claim those of a run that was over before it began.

## Modules

| Module | Models | How state and actions correspond |
|---|---|---|
| `JobLifecycle` | App and Queue, use by the CLI | `job` is the queue (a function instead of slice and index map), `running` and `cancels` the two maps, `pc[<<c, j>>]` the place in `startOne` of the goroutine the c-th errgroup started for job j, `caller` the front-end thread inside a method. One action per critical section: `ReadJob` (`Get`), `Register`/`AlreadyRunning`, `Begin`, `Succeed`/`Fail`/`EndCanceled`, `Cleanup`; `Launch` is one `eg.Go`, blocked by the limit. `RetryFailed` and `ClearErrors` patch one id per step, as the code releases the lock between them. |
| `MCJobLifecycle` | | sets of operations for the runs |
| `JobLifecycleProofs` | | theorems about `JobLifecycle` |
| `JobStore` | what App relies on when it calls Queue | a function from ids to entries; each method one step, with its arguments in `call` and what it returns in `reply`. |
| `Queue` | `queue/queue.go` | `jobs` is the slice, `byID` the map with positions from 0, `clock` what `time.Now()` returns, not always later than before. Removal compacts, sorting permutes (not stably), both rebuild the map. Implements `JobStore`. |
| `QueueProofs` | | theorems about `Queue` |
| `MCQueue` | | the conditions App looks for; symmetry of ids |
| `AtomicDownload` | what a resumable download promises | the output changes in one step, from what it was to a whole file; `sound` says that the call has nothing else than the target's bytes. |
| `Segmented` | `downloadSegmented`, `downloadRangeInto`, `resume.go` | `part`, `meta`, `out` are the files; a chunk on disk is the version of the remote file its bytes come from. `main` is the calling goroutine, `pc` the group's goroutines in the order of their `eg.Go`, `workCh` the channel, `firstErr` the errgroup's `sync.Once`. `Save` may fail silently, as its result is dropped. Implements `AtomicDownload`. |
| `SegmentedProofs` | | theorems about `Segmented` |
| `Fallback` | all of `Download`: `Segmented`, `probeWithRangeGET`, `downloadSingle` | extends `Segmented` with the other path over the same `.part` and metadata; implements `AtomicDownload`. `copier` is the copying goroutine of `downloadSingle`, `at` where it writes. A server may ignore ranges: `FetchFull` is a worker that writes a whole body from its chunk's offset, `FullBody` one that has written a part of it when something ends it; `spoiled` remembers both. `planless` says that the metadata is what `downloadSingle` saves, without chunks: it is no more than `NoMeta` to everybody but `CorruptPartial`, where a segmented call that finds it compatible (a server without validators) gives up `.part` with it. |
| `FallbackProofs` | | theorems about `Fallback`, over the lemmas of `SegmentedProofs` |
| `Stream` | `downloadStreaming` | `part` is a sequence of `<<version, block>>`; `main` the select loop, `copier` what the copying goroutine runs or has put into `doneCh`, `watcher` the first-byte watcher (`sent`: `timeoutCh` is full, `fired`: `downloadCtx` is cancelled too). Implements `AtomicDownload`. |
| `StreamProofs` | | theorems about `Stream` |
| `Media` | `MediaEngine.Run`, `snapshotMediaFiles`, `collectDownloadedFiles` | `dir` is the shared directory (size and time of a file as one number), `pc` where each job is, `todo` what its `WalkDir` has listed and not visited yet: other jobs write between two visits. yt-dlp is external: it finds some, all or none of the items behind the URL (`found`), writes a `.part` file for each, renames it when it is complete, and prints names that may or may not be parsed. |
| `MediaProofs` | | theorems about `Media` |
| `MCMedia` | | two jobs, of which one wants an item of the other |
| `Routing` | `AddURL`, `route`, `selectRunner`, `probeKind`, `CanHandle`, `resolveDownloadURL`, the ends of `FileEngine.Run` (up to the transfer) and `ArticleEngine.Run` | a URL is its form, scheme, class of host and class of path; what a probe learns is a type, that of an error page, or nothing. A GitHub blob link becomes an https one, whatever its scheme was. |
| `RoutingProofs` | | theorems about `Routing` |
| `Dashboard` | `main`, `runCLI`, `emit`, `patchJob`, `jobReporter` | composed with `JobLifecycle` (`L == INSTANCE ... WITH MaxCalls <- 1, LaterOps <- {}`): each step that changes a job is the step of that module and puts the events the code emits after it into `pend`, from where `Emit` moves or drops them one at a time. `chan` is `eventsCh`; Events without a state are `Detail` (a `JobUpdated` with an `OutputPath` only) and `Other` (Metrics, JobLog). `shown` and `named` are the entries of `st.jobs`; `cli` is where main is, or the exit code. |
| `DashboardProofs` | | theorems about `Dashboard` |

How they fit together: `Queue` implements `JobStore`, which is the view of the queue that
`JobLifecycle` takes (its `job` is that store); `Dashboard` is composed with `JobLifecycle`, `Fallback` with
`Segmented`. `JobLifecycle` sees an engine as a step that succeeds, fails or ends cancelled: `Stream`,
`Segmented` and `Fallback` implement `AtomicDownload`, which says what such a step does to the output file and that it ends
cancelled only for its caller's sake. `Routing` justifies the one guard `JobLifecycle` leaves out ("No engine
supports this URL").

Operators called "Mutant of ..." are plausible mistakes: each is what the definition after it
might have been, and no specification uses them. For every checked property one of them breaks it.

## Runs

| Run | Question | Bounds | Answer |
|---|---|---|---|
| `lifecycle_api` | all methods in any order | 2 jobs, limit 1, 2 errgroups | holds |
| `lifecycle_cli` | the CLI's single `StartQueued` | 3 jobs, limit 2 | holds |
| `lifecycle_retry_lost` | is a queued job always begun? | 1 job, 2 errgroups | no, see Findings |
| `seg_safety` | crash safety, errors, cancellation; is it an `AtomicDownload`? | 3 chunks, 3 slots, 3 calls, 2 versions | holds |
| `fallback` | do both paths share `.part` safely and end, are they an `AtomicDownload`? | 3 chunks, 3 slots, 2 calls, 2 versions | holds |
| `seg_never_returns` | does a complete download return? | 2 chunks | no |
| `stream_resume` | resumption, the timeout race; is it an `AtomicDownload`? | 3 blocks, 3 calls, 2 versions | holds |
| `queue` | do slice and map agree, are they a `JobStore`? | 3 ids, 2 fields, 2 values | holds |
| `media` | which files does a job claim? | 2 jobs, 2 items, 2 runs each | holds |
| `dashboard` | what the screen shows, exit codes, the end of the program | 2 jobs on one slot, channel of 2, 1 row | holds |
| `routing` | do the two passes agree? | every class of URL | holds |
| `routing_articles` | do pages become articles? | every class of URL | no |

Why the bounds are enough. *Lifecycle*: hazards need two goroutines for one job (two
errgroups) and a job that waits for a slot while another runs (more jobs than the limit). *Segmented*:
`SetLimit(MaxWorkers)` counts ticker and producer, so three slots leave one worker running while the
producer is at work and two once it has ended, and two and one waiting for `eg.Go`; three calls allow a crash or
cancellation, a resume, and a resume of that one; two versions a change at any moment.
Three and more workers at once need more slots: the proofs hold for any number. *Fallback*: two calls are one path and then the
same or the other, three chunks one more than the channel holds. *Stream*: three blocks make a prefix, a
proper middle and an end; three calls as above. *Queue*: with three positions a job is removed before, between or after others;
two fields let a patch set one, both or none; with two times some updates are simultaneous. *Media*: a failed run leaves a `.part` file and
a retry goes on with it; two writes of a file tell a changed one from an unchanged one. *Dashboard*: `Cap` and
`MaxRows` keep the code's relation (2048 against 18 rows, two events per `AddURL`) at its tightest: the channel is
full as soon as the first job is added, so that every kind of event is dropped in some behaviour. `MaxCalls`, `MaxVersion`, `MaxRuns`,
`MaxSig` and `MaxClock` bound counters the code does not have.

## Fairness

- A goroutine that can take a step takes it (`WF` on `StartOne`, `Goroutine`, `Watcher`, `Loop`), and a
  method once entered keeps going: Go's scheduler is fair.
- `DrainSpec`: transfers end only once their context is cancelled. The HTTP client has
  `Timeout: 0` (`downloader/client.go:32`), so a server may be silent for ever. `InterruptDrains`,
  `CancelReturns`, `SilenceEnds` and `ProgramEnds` need no more. In `Dashboard` an engine may report for ever, which
  makes the end of its run a step that is enabled again and again: a cancelled engine gets to it
  (`SF`), because its loop selects on the context.
- `FairSpec` and `FFairSpec` add that transfers end somehow. `QueuedJobsBegin`, `EveryJobEnds`, `FetchesEverything`,
  `SingleEnds`, `CompleteDownloadReturns` would be false of any program whose server never answers.

The refuted liveness properties are refuted under the strongest of them.

## Proofs

All proof modules follow one argument: an inductive invariant `IInv`, a lemma for each action X that says
that X keeps it, and the theorem `Inductive`; every other theorem is `IInv => P`, or says what a step does in a
state with `IInv`. A refinement is proved in the same way: the initial states map to initial states, and each
step to a step or a stutter of the abstract specification.

**`JobLifecycleProofs`**, for any set of jobs, any limit, any number of errgroups, any use of the
methods: `TypeOK`, `OneRunnerPerJob`, `CancelReachesRunner`, `NoOrphanDownload`, `QuietWhenDone`. The first
three and the fourth carry each other; `QuietWhenDone` does not follow from them, because a runner
could be at work for a job another goroutine finished. `IInv` therefore adds `RunningState` (a runner's job is
DOWNLOADING or deleted, or QUEUED if a `RetryFailed` that had seen it as ERROR resets it after another group's goroutine
began it; `Done` is false in the first and the last case), and `LaunchedIsStored` and `FreshLaunch` (a goroutine exists only for a job that was
added, in a group that was created, and one still to be launched has none in the current group).
`RunsOnce` is proved for the program main.go is (`LaterOps = {}`: no method follows `StartQueued`; the theorems name this as
their assumption). It needs `Once` beside `IInv`: there is at most one errgroup, a job that is still QUEUED has no attempt and
nobody but its one goroutine on its way to it, and a goroutine that holds a copy of a job holds an untried one, so
that the count it writes is 1.

**`SegmentedProofs`**, for any number of chunks, workers, calls and versions, with a remote file that may change at
any moment and a server that answers a range with that range: `TypeOK`, `ResumeSound`, `NoDoubleFetch`, `CanceledOnlyByCaller`,
`FirstSuccessIsRight`. `ResumeSound` is not inductive: metadata is saved from memory, so memory must be
sound as well (`DataSound`), the metadata must lag behind it and name no version from the future (`MemoryAhead`), and no
worker may be about to overwrite a complete chunk, which is `OnePlace`: a chunk is not yet sent, in the channel,
with one worker, or complete. `TickerEndsByError` says that the ticker leaves a group only with an error.
`ImplementsDownload` needs one part more, `NoJunk`: no chunk that memory or the metadata calls complete is half overwritten,
and from `OpenPart` on `.part` has its full length, so that what is renamed has no chunk that is missing or a mixture.
`FirstSuccessIsRight` is checked by no run of its own: `ImplementsDownload` says the same of the step that renames.

**`StreamProofs`**, for any number of blocks, calls and versions: `TypeOK`, `PartIsPrefix`, `SuccessIsWhole`, `RefusedIsComplete` and
`ImplementsDownload`. `PartIsPrefix` is not inductive: it needs that the copier writes the block that comes next
in `.part` (`CopierAtEnd`: offset, length and position in the body agree, and the body is of the version `.part` was begun with, if
the server still has it), that `.part` has no holes whatever the server did (`InPlace`), and that versions do not come back
(`PastVersions`). That the copier is cancelled only by the caller or the watcher is a part of `CopierAtEnd`; it is
what keeps a timeout from being reported as a cancellation.

**`QueueProofs`**, for any ids, fields, values and conditions, and slices of any length: `TypeOK`, `IndexSound`, `OrderKept` and
`Implements`. `IInv` is `TypeOK` and `IndexSound`, which says already that ids are distinct. `Rearranged` and
`Picked` say what a slice of some of the jobs holds, whichever way they are walked; with them compaction,
sorting and the two filters are the store's methods, because the map sees what the slice has (`FoundIsByID`).

**`RoutingProofs`**, for every URL and every answer of a server: `RunnerIsKind`. Both algorithms are the first
engine found of a list (`FirstOf`); `RouteIs` says what the first one finds, `SelectIsRoute` that the probe never changes it.

**`FallbackProofs`**, for any number of chunks, workers, calls and versions, with a server that may ignore ranges: `FTypeOK`,
`MixedResumeSound`, `MixedSuccessIsRight` and `ImplementsMixed`. What the paths may assume of each other's files is `Shape`: `.part` has
its full length, or is a prefix of whole chunks none of which is older than `begun`. It is what makes the length of `.part` mean
something (`SizeIsPrefix`): a `.part` that is shorter than the file is always a prefix, because a segmented call gives it its full
length before the first chunk and nothing makes it shorter but a new beginning. `Sound` is `DataSound` of `Segmented` as long as nothing is `spoiled`, and
`OnePlace`, `TickerEndsByError` and `NoGroupOutside` are those of `SegmentedProofs`. `TickerEndsByError` matters here in another
way: a segmented call that ended well after an answer of 200 would deliver a mixture, and the ticker never lets it. `ImplementsMixed` needs `OnlyByCaller` beside it (no error is a cancellation that the caller did not
ask for, wherever it is on its way to the result); its `sound` is lost when an answer of 200 spoils what was kept, or a stream goes on with a `.part` of another version.

**`MediaProofs`**, for any jobs, items and numbers of runs: `TypeOK`, `OwnFilesClaimed`, `OthersOnlyIfConcurrent`. Both are about the end of a run,
after two walks that other jobs write into. `FinishedStays` (a finished file never changes) makes one entry of a snapshot comparable
with the directory of any later moment, `MadeIsNew` says that what a run made was not in its snapshot, `Accounted` that what differs from a snapshot
has somebody who touched it, and `Collecting` carries both through the second walk, file by file.

**`DashboardProofs`**, for any jobs and limit, and any channel with room for two events a row (the code has 2048 places and 18 rows): `Refines` (the program implements `JobLifecycle` under its one
`StartQueued`), `TypeOK`, `OutcomeIsTrue`, `ExitCodeIsRight`, `RowsHaveURL` and `ScreenCatchesUp`. `Life` restates what these need of a job's
life, since a theorem of an instantiated module cannot be cited: before its `Begin` a job is QUEUED, while its engine runs it is DOWNLOADING,
and what is still to be launched has no goroutine. An outcome is therefore final, and `HonestEvents` (no event that is pending or in the channel
carries an outcome the job does not have) makes `OutcomeIsTrue` inductive. `DoneStays`: once `Done` was seen it stays true, so that the second
snapshot, from which the exit code is computed, finds it so. `Announced`: the `JobAdded` of a job with a row comes before any other news of it,
in the channel or as what main is about to send while there is room (`Adding` counts it: two places for each job that was added). `Latest`: the last news of a job is true, wherever it is, with the thread that
will send it, last in the channel or on the screen; it rests on `Shapes`, that a thread has at most one piece of news to send, and sends it first.

The parts of each `IInv` were checked by TLC before they were proved.

Every invariant and every action property that a run checks has its theorem. Only model-checked is everything about liveness
(`EveryJobEnds`, `InterruptDrains`, `CancelReturns`, `FetchesEverything`, `SingleEnds`, `SilenceEnds`, `ProgramEnds`):
the prover has no `ENABLED`. Of the findings there is nothing to prove, their runs are counterexamples.

## Findings

1. **A retry can be lost** (`lifecycle_retry_lost`). `startOne` makes its job ERROR before the deferred
   function clears `jobRunning`; a `RetryFailed` in between launches a goroutine that sees the job
   running and returns (`engine/app.go:220`). The job stays QUEUED and `Done` false.
2. **A complete segmented download never returns** (`seg_never_returns`). The ticker is part of the
   errgroup and ends only when the group is cancelled (`downloader/segmented.go:191`); `eg.Wait` waits for it.
   The success branch after `eg.Wait` is unreachable.
3. **Articles are never extracted** (`routing_articles`, `engine/file_engine.go:75`): FileEngine takes every http
   URL before the probe is asked, then refuses pages.

Limits of the code that the models show and that no document of the repository promises away. No property of a run would catch
one of them; where the model takes the step, the guard that leaves it out is named:

- *Zeros after a success.* The already-complete path of `downloadSegmented` keeps the metadata
  (`downloader/segmented.go:140`); the next call of that output trusts it and renames a fresh, zeroed `.part`. TLC
  refutes `SuccessIsRight`; `FirstSuccessIsRight`, `MixedSuccessIsRight` and the refinements stop at `finishes`.
- *A complete `.part` is never finished.* The server answers 416 to a resume that has every byte
  (`engine/file_engine.go:158`, the same in `downloadSingle`). `RefusedIsComplete` says nothing is lost. A `.part` that
  `downloadSegmented` has truncated to full length is refused in the same way: `downloadSingle` gets past it only if the server sends 200.
- *Metadata of bytes that are gone.* A call that dies after `Truncate(0)` for an answer of 200 and before the first
  save leaves metadata that lists chunks (`downloader/segmented.go:385`); a segmented call then trusts it.
- *200 to a range.* `downloadRangeInto` accepts it and writes the whole body from the chunk's offset, or as much of it as
  comes before an error (`downloader/segmented.go:313`). `spoiled` in `Fallback` is true after this and after the previous case.
- *Two versions in one file.* Ranged requests carry no `If-Range`: a change of the remote file during a call, or between
  two calls of `downloadStreaming`, ends in a mixture that is reported as a success. `SuccessIsWhole` and
  `ImplementsDownload` ask for the remote file only if it stayed the same.
- *One name, two jobs.* Two direct files with one name share a `.part`; each property of `Stream` fails with two writers.
- *Bodies without length* that the connection cuts short count as complete (`engine/file_engine.go:253`).
- *Media files of others.* A media job that ends without files of its own may succeed with what a concurrent job wrote, its
  `.part` included; one whose item was in the directory before and whose output cannot be parsed ends with "no files".
- *Jobs run again.* A goroutine begins its job whatever has become of it since it was launched, and counts its attempt from the copy it
  read (`engine/app.go:244`). `QuietWhenDone` does not rule such runs out, and `RunsOnce` is about the one `StartQueued` of main.go.
- *130 or not.* After an interrupt that ends the last jobs the program exits with 130 or with what the jobs say, whichever branch
  of the select comes first (`cmd/omnifetch/main.go:252`). `ExitCodeIsRight` says what 0 and 2 mean, not that 130 is returned.
- *Dropped events* (`engine/app.go:137`): a job whose last one was dropped is shown in
  an older state until the program ends, since `printNow` prefers its own copy to the snapshot's.
  `ScreenCatchesUp` leaves those jobs (`lost`) out; without that it fails.
- *Few workers.* `FetchesEverything` is checked from three slots on. With `MaxWorkers` of 1 the ticker takes the
  only slot and the producer never starts. With 2 a worker starts once the producer has ended, which it does if the channel (twice
  `MinWorkers`) holds all chunks that are left; otherwise everyone waits. The model shows both when the constants are changed.
- *Metadata without chunks.* What `downloadSingle` saves can match a HEAD without validators; a segmented call then deletes it and `.part`
  and ends with `CORRUPT_PARTIAL` (`downloader/segmented.go:113`). Bytes are lost, none is wrong.
- *Error pages.* An answer of 404 with an html body is refused as "a web page, not a direct file" (`Learned` in `Routing`).

## Not modelled

The comparison with an expected checksum (no caller sets one), the arithmetic of chunk plans (sequential), the sums of metrics
events (nothing is promised of them), `App.Close` (main never reaches it after `StartQueued`), flags, prompts, drawing, logging,
formatting, file names, HTML extraction, yt-dlp itself, floating-point averages, random ids, and losing written
bytes in a power failure (a crash is the death of the process).

Abstractions to keep in mind: ETag, Last-Modified and size tell versions apart, and no version comes back; the remote file changes
at any moment in `Stream` and `Segmented`, between calls in `Fallback`; bodies have a known length, so that a short one is a read error; the front
end is one thread; the ids of a group are launched in any order; `Queue` and `JobLifecycle` take random ids to be new.

## Plan

What is left is to prove more, in this order:

1. `JobLifecycle`: that its steps change `job` as the methods of `JobStore` do, so that `Queue` can stand in its place.
2. `Dashboard`: what the rows show together with `RunsOnce`, which the refinement gives it: a row never goes back from an outcome.
