# TLA+ verification of m314dl

m314dl downloads HLS, DASH and Smooth Streaming presentations, plain files and
live streams, and republishes them over HTTP. This directory holds TLA+ modules
of it, TLC configurations that model-check them on small instances, and TLAPS
proofs of the properties that matter most.

Paths are relative to the repository's root; `engine.go`, `stream.go` and
`concurrency.go` without a directory are in `internal/engine`.

## 1. The system

| Component | State | Operations | Talks to |
|---|---|---|---|
| Download pipeline (`engine.go`) | items and results channels, `pending`, `NextIdx`, `Offset`, output, checkpoint, part files | feed, take, fetch, send, commit in order, checkpoint, unwind, resume, pace | segment fetch, feeder, sinks |
| Segment fetch (`stream.go`) | a part file, bytes already there, attempts | range request, stream the body, retry, restart, give up | HTTP client, controller, `fileURL` |
| Live feeder (`feed` in `engine.go`) | `seen`, `lastInit`, `idx`, deadline | live edge, push a batch, prune, refresh, stop | source, pipeline |
| Adaptive concurrency (`concurrency.go`) | limit, inflight, waiters, tick state | acquire, release, setLimit, unblock, decide | workers |
| Plain file (`DownloadFile`, `internal/source/file.go`) | chunk plan, `.part` file | probe, chunked download, one connection, rename | pipeline |
| Keys and decryption (`engine.go`, `cenc.go`) | key cache, decryptor | resolve, fetch, build or refuse, take layers off | writer |
| TS broadcast (`internal/restream/mpegts.go`, `server.go`) | subscribers, queues, byte counts, `last`, `done` | subscribe, publish, kick, end, serve a viewer | sink writer, pump |
| Publisher (`internal/restream/hls.go`, `dash.go`, `server.go`) | window or spool of each track, version, two caches | init, segment, evict, end, playlist, manifest | sink writer, HTTP handlers |
| FFmpeg remux (`internal/restream/remux.go`) | pipes, one process | write, pump, end | TS broadcast |
| Restream run (`internal/serve/serve.go`) | jobs, presentation, error group | build outputs, run jobs, end on cancel | pipeline, presentation |
| Channel worker (`internal/worker/worker.go`) | channel table, staging directories | start, stop, run, stop all, reclaim | restream run |
| RPC server (`internal/rpc`) | job table, `running` | add, wait, list, stop, reap, shut down | child processes |
| Playlist batch (`playlist.go`) | slots, paths, outcomes | dispatch, skip, collect, advise a retry | command line |
| Command line (`main.go`) | flags, interrupt handler | choose a mode; load, list, select, expand, download, convert, mux a title | all |
| Manifest parsers (`internal/hls`, `dash`, `mss`, `source`) | none that outlives a call | document to streams and segments | command line, feeder |
| Track selection (`internal/pick`) | none | sort, filter, choose | command line |

`DownloadStream` runs one feeder, `workers` worker goroutines and one writer per
track. The feeder numbers what the playlist lists and puts items into a bounded
channel; a worker takes an item, waits for the limiter, downloads it into its own
part file and puts a result into a second bounded channel; the writer holds
results back until their turn, decrypts, appends to the output and rewrites a
checkpoint `{next_idx, offset}` after every commit. When the writer fails it
cancels the context, because it is the only consumer. A rerun truncates the
output to the checkpoint and skips the items below `next_idx`. In restream mode
the writer hands segments to a sink instead: a publisher, a TS broadcaster, or
the input pipe of an FFmpeg whose output feeds the broadcaster. A worker process
runs many restreams; an RPC server runs the command itself as child processes.

What is hard:

* Order: results arrive in any order, some never; both channels are bounded.
* Failure: fetches, decryption, writes and saves fail; the context is canceled
  by a user, a sibling track or the writer; FFmpeg stops reading or crashes.
* Crash and rerun: a kill between any two of the part's removal, the write, the
  bookkeeping and the rename; a rerun that judges by files on disk.
* Live: the window moves, repeats, changes its init, or ends.
* Readers and writers: viewers of different speed, cached playlists of a version
  that moves, an end that races what is queued, starts that race stops.
* Arithmetic: timelines, windows and byte ranges at their boundaries; a limit
  that is halved and doubled.
* Carried state: key, map and range lines, periods joined by id, keys from four
  places.

`PROJECT.json` lists these hazards with their lines and the properties that
would catch them going wrong.

## 2. Modules

| Module | What it is |
|---|---|
| `ResumableCopy` | The abstract specification: leading items become durable one by one, and a download is reported done only when all are. |
| `Pipeline` | `DownloadStream` of one track to a file, with kills and reruns. |
| `PipelineInvariant`, `PipelineProofs` | Its inductive invariant, and proofs. |
| `SegmentFetch`, `SegmentFetchProofs` | `downloadSegment`: one segment, many requests and runs, one part file. |
| `LiveFeeder` | `feed` against a window that moves, stops, is cached or changes its init. |
| `Limiter` | The limiter as a monitor, every worker at it, and the controller. |
| `EngineProofs` | Proofs about the two above. |
| `TSBroadcast`, `TSBroadcastProofs` | The broadcaster, the handler of a viewer, the two callers of `End`. |
| `Publisher`, `PublisherProofs` | Tracks, window and spool, versions and caches, the handlers of playlist and manifest, `End`. |
| `Restream`, `RestreamProofs` | `serve`: outputs, the jobs of an errgroup, the paced sink, FFmpeg with its pipes, the watcher, the return. |
| `Titles` | One title or a list of them over several runs: paths, slots, what is on disk, the interrupt. |
| `ChannelWorker` | The channel table, starts, stops, the process that dies. |
| `JobServer` | Jobs, the goroutines that wait for them, the reaper, the shutdown. |
| `Program`, `ProgramProofs` | The command: it composes `Titles`, `ChannelWorker` and `JobServer`, of which a process is one. |
| `Manifest` | The common model of streams and segments. |
| `DashManifest`, `SmoothManifest`, `HLSPlaylist` | The parsers as operators, each with reference definitions. |
| `Selection`, `ByteLayout`, `Decryption` | Track selection; chunks of a file and of an index; keys and layers. |
| `Title`, `TitleProofs` | Composes the seven above: load, list, choose, expand, settle, open, take. |
| `MCTitle` | Families of documents, answers, selections and keys for `Title`. |
| `MC...` | Small instances for TLC. |

The modules meet where the code hands over. `LiveFeeder` ends at the channel of
items, where `Pipeline` begins; `Pipeline`'s `FetchOk` is a `SegmentFetch` that
ended in `ok`, whose part is whole by `OkIsWhole`, its `FetchFail` one that ended
otherwise, with the start of the segment in the part (`PartIsPrefix`), and its
`PartRestart` is `Restart`; `Limiter` is what a worker in `acquire` waits for;
`Restream` takes a segment from the writer where `Pipeline` would append it;
`TSBroadcast` and `Publisher` are what `Restream` feeds; a running channel of
`ChannelWorker` is a `Restream`; a title in `Titles` is first a `Title` and then
one `Pipeline` per track.

### Pipeline

* `feeder`, `listed`, `streaming`, `sent`: `feed`. An item is its index in the
  order of the feed, inits included. `Emit`, `SkipWritten` and `FeederCanceled`
  are the three ways through `emit`; `BatchSent` is `push` returning; `Refresh`
  the live loop; `StopRecording` `cfg.Stop` and the recording limit.
* The channel of items is `taken .. sent-1`, and closed when `feeder = "done"`.
  `results` is the channel of results, `drained` says it was closed.
* `wpc[w]` is where a worker stands: `recv`, `acquire`, `fetch`, `good` or `bad`
  (the select on `results`), `exit`. `held[w]` is its item.
* `writer`: `range` (receiving), `drain` (looking for `NextIdx` in `pending`),
  `write` (between `readDecrypt` and `out.Write`), `save` (`afterCommit`),
  `final`, `done`. `pending` is the two sets `ready` and `holes`.
* `file`, `torn`, `ckpt`, `parts` are the disk and survive `Kill`; the rest is
  set anew by `Rerun`, which is `openOutput` and the start of `DownloadStream`.

A step ends where another goroutine, or a kill, could see the difference. `save`
writes a temporary file and renames it; since a temporary file is never read,
the rename is the step. Bytes, progress, pacing and the limiter are abstracted
here; pacing and sinks are in `Restream`.

### SegmentFetch

* `file` is the part file, a sequence of offsets into the object. `have` is the
  variable of that name; the model adds to it with each read, the code when the
  body is over, which nobody can tell apart.
* `pc`: `start` (stat and open), `request`, `body`, `wait` (`retryWait`) and the
  ways to return. Each answer of the server is an action, in the order of the
  cases of the `switch`; `attempt` counts as the loop does, also for the two
  `continue`s that are not tested. The watchdog is among the reasons of
  `NoResponse` and `BodyFails`.
* The server is external. What it, or the disk, may do beyond the ordinary are
  the constants `CapsOpen`, `Chunked`, `TornRetries`.

### LiveFeeder

* A segment is its number, which stands for the key of URL and range. `origin` is
  what the source lists and `prior` its last state, which a cache may still
  answer (`RefreshStale`). `seen`, `lastInit`, `idx` are the variables of `feed`.
* `Start` is the live edge and the first `push`, with the ad filter and the init
  items built into `batch`; `Emit` and `Skip` are `emit`; `Pushed` prunes `seen`;
  `Refresh` is a refresh that lists something. `Batch` is the walk of `push` over
  a listing; a segment without an init has the init `""`. `items`, `offered`,
  `backlog`, `skipped` and `written` are history.

### Limiter

* `wpc[w]` is a worker at the monitor: about to call `acquire`, in `cond.Wait`,
  woken and about to look again, fetching, or gone. A critical section is a step;
  a signal makes one sleeper `woken`, a broadcast all of them.
* `Tick` is one turn of `controller.run` with `decide` or `decideFixed` applied
  to any of `Rates` and to whether there was an error or pressure. `Unblock` is
  the goroutine that waits for the context.

### TSBroadcast

* The loop of `publish` is `PublishBegins`, an `Offer` per subscriber and
  `PublishReturns`. The send and the count after it are two steps (`Offer`,
  `Count`), for the handler may receive in between; `Uncount` is its side. The
  mutex is held while the producer is in the loop (`Unlocked`).
* `viewer[v]` is where the handler stands: asked (`join`), before the select
  that looks for a kick (`look`), in the select (`wait`), in the loop that drains
  (`drain`), with a unit in hand (`taken`, `writing`), and how it left.
* `End` is `CheckDone` and `CloseDone`, called by the run loop and the watcher.

### Publisher

* `seq` and `oldest` are a track's counter and the start of its window, `spooled`
  the files that are complete, `init` and `ended` its flags; `sink` is where its
  download is between the critical sections of `Init` and `Segment`.
* A request goes through the handler's critical sections one by one (`rpc`,
  `form`): the check that every track has a segment, `dashBody` under its mutex
  (`cacheMu`), the ends, the clock and the lengths, in the code's order. `answer`
  is what a client was shown.
* `EndBegins`, `EndTrack` and `EndDone` are `End` track after track.

### Restream

* `BuildOutputs` gives `mode` and `jobs` of a selection; `jpc[j]` is a job:
  taking the next segment, writing it to its sink, in `pace`, or over.
* `pipe`, `closed`, `read`, `opened`, `ffmpeg` are the input pipes and FFmpeg,
  which opens its inputs one after the other, reads one at most `Lead` ahead of
  another, may crash and exits at the end of them. A write to a full pipe blocks
  until it is read, closed or FFmpeg is gone, whatever the context says.
* `main` is `serve`: jobs, `End`, serving until the interrupt, the return.

### Titles, ChannelWorker, JobServer, Program

* `Titles`: `next` is the loop that dispatches, `stage[e]` a title, `path[e]` its
  output, `disk` and `raw` the files. A track is fetched, refused or cut off in
  one step. The mux is three: `MuxBegins` opens the output in place, `FFmpegExits`
  leaves it whole or cut, `MuxEnds` is what `download` does then; a second signal
  may come between, and leave FFmpeg to the next run. `Exists` is `os.Stat`: a cut
  output exists. A run keeps only the disk of the run before, and such an FFmpeg.
* `ChannelWorker`: request `r` checks the table under a read lock, loads without
  one, stages, and registers under the write lock; `handed` are channels a stop
  took out of the table and has not canceled yet. `Crash` keeps `spool` alone. The
  FFmpeg of a start that is refused at registration (`worker.go:356-366`) is not
  followed.
* `JobServer`: the waiting goroutine of a job is `waited`, `stamped`, `released`,
  which are the three stores after `cmd.Wait`; `Add` is under the lock, with the
  reaper at its place. `Exit` ends the process also while it is stopping jobs,
  as `ListenAndServe` returns early; on Linux the children die with it.
* `Program`: `ModeOf` is the test of flags and URLs in `run`; a mode steps as its
  module does.

### Title and the operators under it

A URL is the chain of references it was resolved through; a duration is in
ticks; a line of a playlist is a tag and its value; XML is the record of the
attributes the code reads. `Load` is `LoadManifest` with its detection, `List`
the listing of `-list` or the test for a live title, `Choose` `pick.Select`,
`Expand` `ExpandStream` track by track, `Settle` the `-skip-live` and empty
cases, `Open` the decision of `newCencDecryptor`, `Take` a segment through
`decryptSegment`, or past it when it is the only one of a finished stream, without
key and range (`SingleFile`). Data is the sequence of layers the packager put around it:
taking one off that is not outside garbles it.

The parser of MPDs works with seconds in `float64`. The model's ticks are exact,
and a representation carries where a result of the code comes out beside the exact
one (`Roundings`): the end of the period one tick short, a `math.Ceil` of a whole
quotient one too high, the whole part of one too low. A result that is not whole is
cut or rounded up where it ought to be. TLC and the proofs take every combination.

The walks of the code, over periods and representations, over the lines of a
playlist and over the elements of a timeline, are recursive functions of the
position reached, with one step as an operator of its own (`AddTrack`,
`MediaLine`, `MasterLine`, `Element`). A filter is `Those` members whose places
are in a set, in order; `Sort` puts each stream at its rank; `InOrder` is the
order in which a parser meets representations.

The reference definitions are stated over positions and sums and not by
carrying state: `SegmentAt` looks back from a URI to the lines that matter,
`TimelineFits` and `NumbersFit` say which ticks are covered, `Tiles` that ranges
follow each other from the first byte to the last.

The definitions marked `Mutant` are plausible bugs next to what they change; no
specification uses them. Each property of a passing run fails when one of them
is put in its place.

## 3. Runs

| Run | Instance | Shows |
|---|---|---|
| `pipeline_live` | 2 workers, channels of 1, at most 3 items, live with `-live-duration`, other tracks, saves may fail | the inductive invariant of the proofs, `MissingOnlyIfCanceled` with it; every run that cannot grow ends |
| `pipeline_resume` | 2 workers, channels of 1, 3 items, 2 runs of a VOD | order, checkpoint, completeness; the refinement of `ResumableCopy`; one item lost at most |
| `fetch_honest` | an object of 4 bytes, 5 kinds of segment, 2 retries, 3 runs | the part is the start of the segment and whole on success; every fetch ends |
| `broadcast` | 2 viewers, units of 1, 2 and 1 bytes, a budget of 2, 2 slots | streams without a gap, tail delivered, budget, a producer that never waits, viewers released |
| `limiter` | 4 workers, floor 1, start 2, ceiling 4, `-t` absent or 3, 3 throughputs | the limit in its bounds, no lost wakeup, a cancel reaches all |
| `live_feed` | 6 segments, a window of 3, 2 kept, an ad, 2 inits and a segment without, 1 stale answer, a VOD run again | every segment once and in order, behind its init; a rerun skips only what was written; the feed ends |
| `publish` | a fragmented video of 3 segments, a raw audio of 1, a window of 1 and 1 beyond, 2 requests, 2 seconds; live or spooled | what was listed can be fetched, caches are fresh, manifests playable, static only when whole |
| `restream` | `ts` or `dash`, one muxed stream, with or without a segment that has no duration, or three, 3 segments, a pipe of 1, 3 ticks | pacing, a complete broadcast, the end of `serve` |
| `program` | 5 entries in 2 runs with one slot; 2 requests for 2 ids with one channel and one death; 3 jobs with a cap of 2, 1 retained | titles kept, channels owned, every mode settles, the cap, the reaper |
| `title` | the fourteen families of `MCTitle`, words of 32, chunks of 4 bytes and 5 at most | listings, splicing, playlists, selections, byte ranges, decryption |
| `init_authority`, `titles_interrupt` | as `title`; 5 entries, 1 slot, 2 runs | violated: section 6 |

Why the bounds suffice. Pipeline: two workers race for every order of two
results, a third item waits behind both, a channel of one is full in some state
and empty in others, a second run resumes what the first left anywhere. Fetch:
four bytes let a slice begin and end inside the object and a body break in its
middle; two retries let a restart come before, between and after them. Broadcast:
the second unit does not fit while the first waits, the third does, so that a
viewer is kicked for bytes and for slots, or primed with a unit over the budget;
the third is published after a kick. Limiter: with a floor of one and a ceiling of
four the limit doubles, halves and steps; the throughputs fall in each band of
`decide` from one another; four workers leave two asleep beside two that fetch.
Feeder: a window of three of six moves twice beyond its own length, and the init
changes and comes back. Publisher: the video outgrows window and tail, so that a
segment is evicted, and two requests meet in the cache. Restream: three segments,
a burst of one, a pipe of one and a lead of one make each wait for another; a
selection has a segment without a duration.
Titles: two entries share a title, with a live one, a file and a channel between
them; channels: two requests want one place, or one id, while a stop and a death
come between; jobs: one beyond the cap, two beyond the ceiling. Title: timelines
of two elements cross a period's end, three periods return to the first, a
playlist has up to three URIs with a tag before each, streams are above, at and
below every bound. `Word` wraps where `uint64` would, with a word of 32.

Named bounds of the models and not of the code: `Total`, `MaxRuns`, `Units`,
`Newest`, `MaxStale`, `MaxClock`, `MaxCrashes`, and the sets of viewers, workers,
requests and jobs.

`CHECK_DEADLOCK FALSE` in every configuration: the program returns, and a
bounded source ends. That nothing is stuck before is what the liveness properties
say. Symmetry is used only where no temporal property is checked.

Fairness, and what justifies it:

* `Pipeline`: feeder, each worker, the writer and the main goroutine are weakly
  fair, as the scheduler gives a goroutine that can step; a fetch ends because
  the watchdog cuts each attempt and the attempts are counted. Nobody need
  refresh, stop, cancel, kill or rerun, so `RunEnds` is about a run that cannot
  grow.
* `SegmentFetch`: opening, an answer, the body and the wait; which answer is left
  open. The watchdog cuts a connection silent for 30 seconds, and a timer fires.
* `TSBroadcast`: the producer and `End` alone, for nothing makes a client read;
  `ViewersReleased` says what it needs of the clients in `ClientFairness`.
* `Limiter`: workers, ticker and the goroutine of `unblock`; a fetch ends.
* `LiveFeeder`: the feeder's own steps weakly; `Refresh` strongly, since a poll
  that was answered from a cache is repeated.
* `Restream`: downloads get on, FFmpeg reads what it can, goroutines are
  scheduled, time passes. No step that fails, crashes or interrupts is fair.
* `Titles`: the steps of a title that was dispatched, and that FFmpeg comes to the
  end of its inputs, which are files. `ChannelWorker`: a stop goes
  on to cancel what it took out of the table, and the goroutines of a canceled
  channel end, unless FFmpeg's pipes hold them; nobody need ask, fail or stop.

## 4. Proofs

Each theorem holds for every value of the constants that satisfies the named
assumptions of its module. TLC evaluates them in the runs. Some say of a
constant what a prover does not see for itself: `TitlesAssumption` that
`Entries` is a sequence, `SelectionsAssumption` that what `SelectSeq` leaves of a
selection is one. `InputsAssumption` says what the decoders make of a document
(`IsMPD`, `IsSmooth`, `IsText`, `IsExpr`, `IsSidx`): lists are lists, an attribute
of an unsigned or signed type is a number, a duration fits a word. `encoding/xml`
and `strconv` refuse anything else, an index is read as unsigned words, and the
values themselves are arbitrary. TLC checked the invariants below before they were
proved; where an inductive invariant has quantifiers TLC cannot enumerate (a map
from representations to tracks in `DashInv`), it checked the property alone.

| Theorem | States | Module |
|---|---|---|
| `TypeCorrect`, `Invariance` | types, and the inductive invariant `IInv` | `PipelineProofs` |
| `OutputOrdered`, `CheckpointConsistent`, `PendingWhole` | `OutputInOrder`, `CheckpointCutsOutput`, `PendingPartsWhole` | |
| `NothingLost`, `SuccessIsComplete` | `MissingOnlyIfCanceled`, `CompleteOnSuccess` | |
| `RerunKeepsOutput` | `RerunLosesAtMostOne`, if saves do not fail and there is one track | |
| `RefinesCopy` | `ImplementsCopy`: a VOD download refines `ResumableCopy`, under the same assumptions and without `-live-duration` | |
| `FetchTypeCorrect`, `FetchInvariance` | types, and `FetchInv` | `SegmentFetchProofs` |
| `PartResumable`, `FetchedIsWhole`, `AttemptsEnd` | `PartIsPrefix`, `OkIsWhole`, `AttemptsBounded` | |
| `LimiterInvariance`, `LimitBounded`, `WakeupsKept`, `SlotsAccounted` | `LimiterInv`, `LimitWithinBounds`, `NoLostWakeup`, `Accounted` | `EngineProofs` |
| `BroadcastInvariance`, `NoGap`, `TailIsSent` | `BroadcastInv`, `ViewerGapless`, `TailDelivered` | `TSBroadcastProofs` |
| `BudgetIsKept` | `BudgetHolds` | |
| `FeederInvariance`, `OnceAndInOrder`, `InitFirst` | `IInv`, `OnceInOrder`, `InitPrecedes` | `EngineProofs` |
| `SkipsAreWritten` | `SkipsOnlyWritten`, unless a live recording is run again | |
| `PublisherInvariance`, `ShownIsServed`, `CachesAreFresh` | `IInv`, `ListedStaysFetchable`, `CacheFresh` | `PublisherProofs` |
| `ManifestsPlay`, `StaticManifests` | `MpdPlayable`, `StaticIsWhole` | |
| `RestreamInvariance`, `NeverAheadOfClock`, `CompleteIsRead` | `IInv`, `PacedToClock`, `CompleteIsBroadcast` | `RestreamProofs` |
| `JobsInvariance`, `CapIsExact`, `OldestGoFirst` | its invariant, `CapCountsChildren`, `ReapsOldestFinished` | `ProgramProofs` |
| `WorkerInvariance`, `ChannelsAreOwned` | its invariant, `ChannelsOwned` | |
| `TitlesInvariance`, `TitlesAreKept` | its invariant, `TitlesKept`, both without `-pick` | |
| `OpenInvariance`, `NoCiphertext` | `OpenInv`, `ClearOrRefused` | `TitleProofs` |
| `ListingsFit` | `ListingFits` | |
| `ReadByPosition` | `PlaylistByPosition` | |
| `SelectedAsAsked` | `SelectionKept` | |
| `PeriodsAreApart`, `BytesAreTiled` | `NothingSpliced`, `BytesTiled` | |

Pipeline. `OutputInOrder` needs that everything in the output is below `nextIdx`
(`OutputInv`); that the item the writer writes exists needs to know where items
are (`RangeInv`); that a part is not written to after it was reported needs that
an item is in one place only (`UniqueInv`), and completeness the converse, that
while nothing failed it is in one place at least (`ConserveInv`), with the order
in which feeder, workers and channels shut down (`ShutdownInv`).
`CompleteOnSuccess` follows at `Return`: nothing is between the floor and
`taken`, and `taken` is all that was listed. `RerunKeepsOutput` adds `AheadInv`:
the output is ahead of the checkpoint by the item being saved at most.
`RefinesCopy` is a step simulation (`CopyStep`). A save maps to `CopyNext` or a
stutter, a successful `Return` to `ReportDone`, a cut output to `StartOver` or a
stutter, the rest to stutters. It needs `ExactInv` for a checkpoint that lies
beyond the output: the first save of the run that found it replaces it, so
`Durable` goes from 0 to 1 and never jumps.

Fetch. Under `Honest` (no capped open range, lengths sent, slices inside the
object, a write cut short only on the last attempt), `PartIsPrefix` needs
`CountInv` (the program counts on exactly what is in the file) and `BodyInv` (the
body goes on where the file ends). `AttemptsBounded` needs to know which of the
untested attempts was used (`AttemptInv`).

Limiter. `Accounted` ties the counter to the workers that fetch; `NoLostWakeup`
is inductive with it: free slots are never more than the workers on their way
while somebody sleeps. A worker that moves changes the cardinality of two sets
(`Moved`), a broadcast of two others.

Broadcast. Counted back from the unit a subscriber was offered last, its channel,
the handler's hand and the response hold successive units (`EndsWith`), whether
or not the loop of `publish` has come to it (`Offered`). A kicked or finished
viewer keeps a run with any end. The tail needs that the stream is done only after
the producer, unless canceled (`EndInv`), that nothing is being sent then
(`LoopInv`), and that a viewer served to the end is subscribed or kicked
(`MemberInv`). The budget is tested on a count and promised of the bytes that
wait, and the two differ: a unit is sent before it is counted and received before
it is uncounted. `QueueInv` says by how much (`Uncounted`, `Unsent`); where
`publish` tests, nothing is unsent, so that the count errs on the safe side.
`Bytes` is a recursive function on sequences. That it is a sum, and what it makes
of `Append` and `Tail`, follows by induction over the set of positions reached
(`UpTo`), from the least number of a set (`Least`).

Live feeder. `InitInv` is about everything sent and everything still in the batch:
each segment is behind its init, and the init that came last is `lastInit`, so
that the next segment may rely on it. It holds whatever a refresh brings.
`OrderInv` needs that no refresh went back: then what was offered is not above the
end of the listing, a listing at hand is within what was offered, and `seen`, cut
after the batch to what is listed, is exactly what is listed when the feed waits,
which is why the next listing adds its new end and nothing else. What a batch is
(`BatchWalks`, `BatchSends`) follows by the same induction over the places of the
listing. `SkipInv` says that a run that found a checkpoint is of a VOD, whose one
batch holds items of the batch the run before had, with the same indices.

Publisher. A segment and the version it bumps are one critical section, so that a
body whose version is not older than `Since` shows the last segment. `Since` is
the version, or the one before it once an `End` that found all downloads done
bumped it without adding anything. `DashInv` and `PlaylistInv` say so of the
caches, `FormInv` of the manifest a handler is building between its critical
sections, `AnswerInv` of what was shown: a listing that was `Possible` stays a
listing of segments in the window or its tail. A static manifest is whole because
the handler looks whether all ended before it takes the body, and not after.

Restream. A job that waits in `pace` set out at most one segment beyond the burst,
counting only those that last (`Timed`), and `paceStart` is a time that was (`PaceInv`). What was written to a pipe is in it
or was read (`PipeInv`); FFmpeg ends by itself only when its pipes are closed and
empty; and without an interrupt the pipes are closed only after all jobs are over
(`CloseInv`), which without an error wrote all they had (`JobInv`). `ExitInv` puts
these together at the step in which FFmpeg exits.

Channels. A channel is in the table, in the hands of a stop that took it out
(`handed`), canceled, or still with the request that starts it, and `SlotInv` ties
each slot of the table to a channel that was built. That two requests may load at
the same time for one place is harmless as both are counted again under the write
lock. `TableInv` has the finiteness that a cardinality needs.

Titles. The path of an entry is a function of the list, `Canon`: the title alone
for the first entry that has it, with the position for the others. No two entries
share one (`CanonDiffers`), each run gives the same one, and so what is on disk is
of the entry that finds it (`FileInv`). It need not be whole. While FFmpeg writes
it, and for ever once it was cut, the raw files are beside it: only `MuxEnds`
removes them, after it saw the output whole, and no later run gets that far, for it
skips the title. An FFmpeg that outlived its command may still make the output
whole under the next one. With `-pick` the paths of two runs differ and this is
false: `RetryPick = TRUE` in `Program.cfg` gives the counterexample, and the
theorems assume `~RetryPick`.

Jobs. `running` is the number of goroutines that wait for a child, and each child
alive has one; a job has a time stamp only when its goroutine is past `Waited`,
and then its child is dead.

Decryption. `ClearOrRefused` is about one step, `Take`, but the decryptor it uses
was made earlier, for a stream that `Expand` had replaced in between. `OpenInv`
says that `decs` are those of the streams that were opened, in order, with the
keys of the input, and that what was taken is a segment of such a stream as it was
packaged (`TakenFrom`). Then it is a matter of layers: what is outermost comes off
under the true key (`Stacked`, `Outermost`), a true key is what `ResolveKey` finds
or nothing (`ResolvedTrue`), and each method meets the layers it expects
(`Cleared`). Of a sole segment without a key the property says nothing, as nothing
is taken off it.

Listings. `KindInv` says that what `Load` stored is the parse of the document.
The rest is about the parsers, for every document. `FromTimeline` is a walk over
the elements (`FromTimelineWalks`), and `WalkInv` says after each what was listed:
each segment begins where the last one ended or where an `S@t` puts it, and there
are as many as `Announced`. The only place where `Word` matters is the difference
in `Fitting`; with `t` before the end of the period, as that was rounded
(`PeriodEnd`), it does not wrap (`OpenRunFits`). Numbers and the edge of a live
window are `CeilDivCovers`, with what a rounding adds or takes away (`CoveringIs`,
`CompleteIs`). What is proved of an open run is what the code's numbers give: all
that fits before the rounded end, never the shorter piece after it. The
timeline of `mss.go` is the same with other elements (`SpanInv`).

Playlists. What a parser carries into a line is what the lines before it say:
`Carried` names key, map, duration, discontinuity, range and number as functions
of the position (`KeyAt`, `InitAt`, ..., `NextAt`), `CarriedOn` that each line
keeps it, `MediaInv` that the segments so far are those of the URIs so far, in
order. A master playlist is the same with the `STREAM-INF` that waits for its URI
(`Pends`, `MasterInv`). `HlsInv` carries this through the selection: what is
chosen are tracks of the manifest, unexpanded until their turn, and each that was
expanded was read from the playlist at its URL.

Selection. `Above` is an order on five numbers (`AboveOrders`), so that ranks are
one to one and `Sort` is a rearrangement that descends (`Sorted`). All three
parsers give tracks (`DashTracks`, `SmoothTracks`, `ParsedHLS`), which is what
makes the comparisons defined. `Apply` filters, falls back to the `nearest`, and
cuts: `Pool` is what it cuts from, `NearestIs` that what `nearest` keeps is at
the least `Distance`, `BoundsKept` the property; the best is at the head because
the pool descends. `BestSpoken` says the same of each language. `ChosenInv` ties
`chosen` to `Select` of the sorted tracks until the first is expanded.
Two definitions were wrong before this was proved: a stream of negative height was
at a distance, where `nearest` skips it (`pick.go:296`), and the property said
that something is chosen also for `best0`, which asks for nothing.

Periods. `Apart` says of the representations read so far that there is a map from
them to the tracks: each is whole in its track, which has its codecs, init and key
(`Homed`), and every segment of a track is a URL of a representation that is
mapped to it, so that no other track has it (`Within`). A representation is either
a track of its own, with an id of its own because it is made from the place it
was read at (`OwnApart`, `IdsApart`), or joins a track that is compatible
(`JoinApart`): `Added` names the two cases of `AddTrack`. `DashWalks` is the walk
over the places, `DashApart` the induction, `ApartIs` the property. The property
once said that each representation is in exactly one track; that is false of a
document that lists a URL in two representations, which may then be read in both,
and it now says so only of those that share no URL with another.

Bytes. `PlanTiles` is arithmetic: `ChunkSize` grows when there would be too many
chunks, and the last chunk ends with the file. An expanded index is a walk over
the segments (`ExpandWalks`) in which a file is filled in where it is met first
and nowhere else (`ExpandInv`, `Filled`); `Subsegment` gives the range of a
reference as a difference of sums, so neighbours meet (`FilledTiles`). It needs
that a file has one index and that every reference has bytes: a reference of size
zero gives a range that ends before it begins (`sidx.go:93`). `DashInv` carries
both through the selection: the tracks stay apart until they are downloaded, and
what is downloaded are tracks, each expanded once; as ids are unique, a chosen
stream is compared with the track it came from.

## 5. Only model-checked

* Liveness (`RunEnds`, `FetchEnds`, `ProducerNeverWaits`, `ViewersReleased`,
  `CancelReleases`, `FeedEnds`, `ServeEnds`, `EveryModeSettles`): fairness and
  ENABLED are out of the prover's reach.
* `TitlesKept` with `-pick` and `SkipsOnlyWritten` of a live recording that is run
  again are not provable because they are false: section 6.

Every other invariant and action property of a passing run is the statement of a
theorem.

## 6. Where the code and its documentation disagree

Shown by a run:

* `init_authority`: `decryptSegment` takes the encryption off only when the
  manifest named a key for the segment. A stream whose init says it is encrypted,
  and whose manifest does not, gets a decryptor that is never used; its samples
  are stored encrypted.
* `titles_interrupt`: an interrupt looks like a broken subtitle. The title is
  muxed without it and reported complete, so that a rerun does not resume it.

Reproduced by a configuration without a run (`tlc -config X.cfg MC.tla`):

* `PipelineLiveTail.cfg` with `MCPipeline`: a live hole does not drain what waits
  behind it; when it is the last result, downloaded segments are dropped.
* `PipelineLimitedCancel.cfg` with `MCPipeline`: with `-live-duration` an
  interrupted VOD counts as complete, and its checkpoint is removed.
* `LiveRerun.cfg` with `MCLiveFeeder`: a rerun of a live recording numbers its
  items from zero and skips those below the old `NextIdx`, which are others.
* `BroadcastEnd.cfg` with `MCTSBroadcast`: `End` is not atomic; two callers can
  both close the channel, which panics.
* `RestreamRemux.cfg` with `MCRestream`: a failed track does not close the pipes;
  another one waits in a write for ever, and `serve` does not return.
* `TitlesCutMux.cfg` with `MCTitles`: FFmpeg writes the output in place and what it
  leaves when it fails, or outlives a second signal, is taken for a finished title
  by the next run (`MuxedIsDone`). The raw files are still there.
* `TitleBareKey.cfg` with `MCTitle`: a bare key given beside others opens a
  stream whose manifest names no key id, although its init names another.

Excluded by an assumption, and reproduced by lifting it:

* `MultiTrack = TRUE` in `PipelineResume.cfg`: a finished track has no
  checkpoint, so a rerun after another track was interrupted starts it over.
* `TornRetries = TRUE` in `FetchHonest.cfg`: the bytes of a write cut short are
  in the part but not counted; a retry appends them again.
* `CapsOpen = TRUE` in `FetchHonest.cfg`: only a slice of known length is checked
  for having come whole (`OkIsWhole`).
* A slice beyond the object: a 416 is success even if the slice is known to be
  longer than the part.
* `Chunked = TRUE`: the length -1 of an open range equals the length -1 of an
  answer without one, so the head of the object is written in place of the range.

Reproduced by adding an invariant to a configuration:

* `OpenRunEnds` in `TitleInit.cfg`: a timeline with `@r = -1` need not end with its
  period. Its end is cut to ticks (`PT4.35S` at 100 is 434, so that a run of 145
  lists two segments of three, `dash.go:406`), a shorter last segment is left out,
  and a run that begins past the end has an unsigned difference (`dash.go:407`).
  `ListingFits` says what holds of the runs that begin within the period.
* `SoleSegmentOpened` in `TitleInit.cfg`: the only segment of a finished stream,
  without key and range, goes to `downloadSingleFile` (`engine.go:143`): an image
  header stays on, BBTS stays encrypted.
* `RetryPick = TRUE` in `Program.cfg`: an entry retried with `-pick` gets the path
  of another entry of its title, and is skipped as existing (`TitlesKept`).

Seen in the source and not stated as a property: the RPC server's process may
exit while `stopAll` signals its jobs (`rpc.go:131`; `JobServer` models it); a
live manifest takes the oldest period that is listed, not the newest
(`dash.go:170`); `range` is a documented key of the selection without a case
(`pick.go:44`), and `bwmin` drops streams of unknown bandwidth (`pick.go:200`).

## 7. What is left

In the order of their worth: that a step of `Publisher` and `TSBroadcast` is what
`Restream` assumes of its sinks; the `fileURL` that the workers of a plain file
share and re-resolve; the lock that `keyCache` holds across a fetch; the retry loop
of `internal/httpx`; the continuity counters of the TS rewriter, with their wrap at
16.

## 8. Not modelled, and why

* `internal/mp4`, `internal/sampleaes`, `internal/bbts`: byte formats and ciphers
  run by one goroutine, covered by the repository's tests. `Decryption` takes the
  ciphers to invert what the packager did, and decides only whether, in which
  order and with which key they are applied. The index box is in `ByteLayout`.
* `internal/subs`, `internal/mux`: conversions of text and the arguments of one
  ffmpeg call. That they may fail, that the mux writes in place and may be cut or
  left behind, and which files are kept, is in `Titles`.
* The byte-offset resume of `downloadSingleFile` (`engine.go:945`): `Title` says
  what it stores, not how it goes on after a cut.
* `internal/scrape`, `internal/curl`: text matching, an input of `Title`.
* `internal/httpx`: headers, proxies and TLS; a request has one outcome.
* Text of playlists and manifests that are served: `Publisher` says which
  segments they show. Master playlist and served subtitles carry no state.
* Progress, logs, self update, the benchmark server, the platform stubs
  (`rpc_other.go`, `spoolfs_*.go`).
