# A TLA+ verification of hft-recorder

hft-recorder captures market data from a Parser process, compresses it into a
sharded corpus with a hard byte budget, publishes durable *cuts* of that corpus
while it is still growing, and serves them to readers in the same process, in
other processes and after the fact.  This directory models the parts of that
system in which order, failure and concurrency decide whether a recording can
be trusted.  TLC checks the models on small instances; TLAPS proves the most
important properties for every instance.

    tlc -workers 4 -config MCCorpusCut.cfg CorpusCut
    tlapm CorpusCutProofs.tla

`PROJECT.json` lists the components, runs, mutants (a plausible bug for every
property, which TLC must find), the correspondence of definitions to source
lines, hazards, theorems and the four disagreements found between the code and
what the repository says of it.

## The system

| Part | Source (under `src/src/`) | Role |
|---|---|---|
| Parser capture client | `Runtime/src/Capture/Parser/ParserMarketCaptureClient.cpp` | drains shared-memory rings of the Parser, imports its losses and progress |
| Capture queue | `Runtime/src/Capture/Parser/BufferedCorpusWriter.*` | bounded single-producer queue; its worker owns the corpus writer |
| Corpus writer | `Runtime/src/Corpus/BinaryMarketCorpusWriter.cpp` | admission under a byte budget, blocks, segments, cuts, finalization |
| Cuts and cursor | `Runtime/src/Corpus/CorpusCut.cpp` | atomic replacement of `cut.bin`, validation, the active cursor |
| Row grammar | `Contracts/.../BinaryMarketDepthTransaction.hpp`, `Runtime/src/Corpus/BinaryMarketSourceState.hpp` | which rows may follow which |
| Sealed reader | `Runtime/src/Corpus/BinaryMarketCorpusReader.cpp` | merges the shards of a finished corpus |
| Capture session | `Runtime/src/Capture/Coordinator/RecorderCaptureSession.cpp` | the life of one recording: start, drain, stop, final drain, seal |
| Reference capture | `Runtime/src/Capture/Coordinator/RecorderReferenceCapture.cpp` | a thread that deposits reference payloads |
| Recorder service | `Service/src/*` | a control socket over one session; block reads by generation |
| JSON coordinator | `Runtime/src/Capture/Coordinator/CaptureCoordinator*.cpp` | the older per-symbol capture into JSON lines with a manifest |
| Native handoff | `Runtime/src/Capture/Session/MarketData/NativeMarketCapture.cpp`, `.../SpscRing.hpp` | ring and row arena between the market thread and the storage thread |
| Storage, manifest | `Runtime/src/Corpus/Storage/*`, `Runtime/src/Capture/Session/*` | sinks and documents of the JSON path |
| Replay | `Runtime/src/Replay/*` | loads a session, orders its rows, rebuilds books |
| Catalogue, history | `Runtime/src/Corpus/Recordings/*`, `Runtime/src/History/*` | discovery of recordings, historical downloads |
| Tools | `Process/src/*` | command line, terminal interface, job supervision |
| Desktop application | `Gui/src/*` | view models with background workers, charts, QML |
| Compression lab | `Lab/*` | codecs and measurements |

In a recording, the session thread takes rows, sources, progress marks and gaps
from the client and enqueues them; the queue's worker applies them to the
corpus writer and publishes a cut at most every 500 ms; the reference thread
deposits payloads beside the queue.  When a limit is reached the session stops
the worker, lets the writer use its final reserve, drains what was queued,
imports the losses and finalizes.  Readers refresh their cursor at any time.

## The modules

The core of a recording has one module per component, with its own runs:

| Module | Models | Abstract specification |
|---|---|---|
| `BufferedCorpusWriter` | the capture queue and its three threads | `CaptureLog` |
| `BinaryMarketCorpusWriter` | the byte ledger of the corpus writer | - |
| `CorpusCut` | segments, cuts, manifest, crashes, the active cursor | `DurableLog` |
| `NativeMarketCapture` | market thread, storage thread, ring, row arena, health and manifest of the JSON sinks | - |

The other components are modules too, and are checked together in three
compositions.  A module may hold several machines (`Init`/`Next`,
`PlanInit`/`PlanNext`, ...), one for each part of its component that keeps state
of its own.

| Module | Models |
|---|---|
| `ParserMarketCaptureClient` | draining of the Parser's rings, sources, progress, losses, freeze, up to the merge of the active cursor |
| `RecorderCaptureSession` | the worker of one capture with its Parser, and the callers that stop it or change its selection |
| `RecorderReferenceCapture` | the reference thread, its slot and the binding to a cut |
| `RecorderService` | server, stop worker, clients with deadlines, block reads by generation, archived catalogues |
| `CaptureCoordinator` | a JSON recording session; the manager thread of its streams |
| `ManifestReplacement` | the replacement of `manifest.json` with crashes between its calls |
| `RecorderRuns` | the job loop of `run-preset` and of the terminal interface; the launch plan; the sweep of dead sessions |
| `ShardSupervisor` | `shard-run` and its child processes |
| `HistoryCli` | import of daily archives with failures and kills; the dates on offer |
| `CandleHistory` | candle requests of a session with their progress file, up to the loader |
| `CorpusRecords` | the converter of Parser records; the depth transaction |
| `SourceState` | generation, channels and health overlays of one corpus source |
| `SealedReader` | preflight and merged cursor of a sealed corpus |
| `StoredSession` | the loader of a session directory; the manifest as a document |
| `SessionReplay` | timeline and seeks; books from full-depth rows; the integrity verdict |
| `RecordingLibrary` | the catalogue with its cache; publication of a group file |
| `CapturePage`, `DetailedCandles` | the capture page, its settings and its candle downloads |
| `BacktestRuns`, `BacktestSetup`, `BacktestBatch` | jobs and results; parameters, legs and profiles; pairs and analysis |
| `CompressionLab` | the compression page |
| `LiveTail` | the chart of a session that is still written |
| `ChartLayers`, `ChartView`, `ComparePage`, `MoexBasis` | what the charts load, keep selected, compute and show |

`RecorderProcesses`, `RecordedData` and `RecorderProgress` compose them.  These
components meet only at interfaces that each module models (a file, a socket, a
queue of callbacks), so the product of their states would say nothing more.  A
behaviour of a composition is a behaviour of one *part*: `part` is chosen at the
start, a part's variables are the places `s1`, `s2`, ... in the order of its
module, the rest stay 0.  A property `part = "session" => Session!P` is therefore
`P` of that machine, for the constants of its `INSTANCE`.  `ManifestReplacement`
and `SourceState` are extended, not instantiated, and keep their variables, so
that a run checks the very formula that is proved.  The types of the other parts
are not checked as properties of their own.

`MC...` modules and `.cfg` files instantiate the core.  `...Proofs` modules hold
the theorems, one for each component that has some (`CorpusStoreProofs` holds
those of three small ones; `NativeMarketCaptureAccounting` goes on from
`NativeMarketCaptureProofs`, and `CaptureClientProofs` from the invariant and
the step lemmas in `CaptureClientSteps`).  Operators named like a definition with
a suffix (`QueueFullOffByOne`, `CutRootUnsynced`, ...) are the mutants; no
specification uses them.

### BufferedCorpusWriter - the capture queue

`records_`, `written_`, `read_`, `stop_`, `status_`, `referencePending_` and
`referencePayload_` are the members of the class; `read`, `stop`, `dirty` are
the locals of `run()`.  A step is whatever another thread can see in one piece:
`enqueue()` is three steps (guards, copy into the slot, publication of
`written_`), one round of `run()` is seven.  The corpus writer is the sequence
`applied` of the calls it answered `Ok`; any call may also answer `OutOfRange`
(a quota) or `Error`.  `accepted` is the sequence of calls the caller was
answered `Ok` for.  The 500 ms timer is a free choice, except that the last
commit is forced by the code.

Because of the order of reads in `run()` a reference payload can be deposited
after the worker looked at the slot for the last time, and is then lost
although it was answered `Ok`; the session joins the reference thread first, so
the property about `finish()` speaks of payloads the worker took.

### BinaryMarketCorpusWriter - the byte ledger

The writer is sequential; `pc` is the next step of the call in progress and
`todo` the segments it still has to flush.  Sizes are symbolic constants, so
the theorems hold for the real `sizeof`s.  `Footprint` is what the files of the
recording can occupy at that moment, buffered rows counted at their reserve.
A flushed block may have any size its rows reserved.  A failed write may leave
its file behind.  Calls that are refused without changing anything (a row out
of order, an invalid transaction) are stuttering steps.  The final drain is
limited, as in the code's own computation, to the rows the rings and the queue
can hold and to one new source for each of them.

### CorpusCut - durable cuts and the active cursor

A block is its segment and how far it is on its way to the disk: `buffered` in
the stream, `stored` in the page cache, `synced`, or `lost`.  `cutSurvivors` and
`manifestSurvivors` are the contents a power failure may leave under the two
names; a rename adds one, a sync of the root directory leaves only the visible
one.  Every system call of `publishCut()`, `sealSegment()` and `finalize()` is
a step and may fail.  `ProcessDies` loses the stream buffers, `PowerFails`
resolves every unsynced write and rename either way.  The cursor is opened in
the Recorder's process (`local`), in another one with a feed (`remote`), or on
the files alone (`archive`), and its refresh and its attempts to open a segment
interleave with everything else.

Assumed of the file system: a failed sync persists nothing, a later successful
one persists everything; a rename is atomic.  The reservation test and the
reference binder of `publishCut()` are folded into the failure of
`CutDirectory`.  Which row of a loaded block is served next is left out.

### NativeMarketCapture - the handoff of the direct JSON capture

`pc` is the market thread: it polls (`VenueMultiplexCapture::pollOnce()`), runs
the hooks that the exchange core calls for every commit, and finalizes.
`workerPc` is the storage thread, `drainWorker()`.  `slots_`, `head_`, `tail_`
are the `SpscRing`; `rows_`, `rowHead_`, `rowTail_` the arena of depth rows,
`reserved` the place `onDepth()` chose; `failed_`, `lostBySource_` and
`stopStorage_` the atomics.  A push and a pop are two steps each (the slot, then
the index).  `onDepth()` is four: the checks, the read of the storage thread's
tail with the choice of a place, the copy, and the publication.  The copy is
one step because its target is invisible to the other thread, which is what
`RowsIntact` establishes.  `consume()` ends with the sink's answer; setting
`failed_` and the note to the channel follow as steps of their own, so the
market thread can act between them.  `health` is the runtime health of each
channel, of which the manifest only asks whether counters are zero;
`finalizeSession()` computes the final manifest from it.

`committed` is a ghost: what the exchange core committed, by number.  The
commits and the results of appending, writing and replaying are free choices.
The exchange core and `configure()` are outside the model, which starts when
`start()` has succeeded.  A relaxed load of `failed_` is a read at that step.
The destructor's second attempt to finalize is part of the outcome of the step.
A failure to close a file only adds a warning in the code and is left out.

### The composed components

What a reader who compares a module with its source should know:

- *Parser client.* The Parser is outside the repository; its steps are those the
  client relies on.  `freezeDisconnected()` reads the leases before the
  admission epoch; the model takes them in that order.
- *Capture session.* A failed selection clears `selectionPending` even if a newer
  revision was requested meanwhile.  The Parser publishes a row in two steps, a lease
  and a commit, and can be lost between them.  A lost Parser with a successful freeze
  and no losses still ends as a complete corpus; `CompleteMeansAll` excepts only the
  rows of a lease that was taken between the two reads of that freeze.  Changes of the
  selection (`session`) and rows in flight (`captured`) are two parts.
- *Service.* A call has a number in the model; the protocol carries the operation
  only, and a reply is matched by the connection.  `readBlock()` names no generation
  or that of the last cut its caller was told of; a reply is of one cut, which
  `BlockOfGeneration` compares with the number named, and `OldGenerationFails` with
  the session.
- *JSON coordinator.* A stop clears the two flags of a stream and sets the manager's
  own in three stores, each a step.  An error of a channel nobody requested is noted
  and does not touch the verdict.  A finalization that failed and is tried again starts from the
  manifest it left, and computes the verdict again from the health notes.  A
  failed start leaves the session directory set.  A stream that is started
  while the manager thread leaves after a failure is not served; `Captured` excepts
  failures.
- *Manifest.* The code can lose the acknowledged document in two ways, which
  `AcknowledgedSurvives` excepts until the next document is in place: the copy
  back fails, or `exists()` or `file_size()` fails on the current document (so no
  `.prev` copy is made), the rename fails and the document is removed.
- *Jobs.* The loop reads `finalRows` before it finalizes.  `run-preset` leaves
  starts that block by `_Exit`; liveness assumes jobs with a duration.
- *Shards.* One part has two shards on an exclusive session, one has two shards and a
  single slot.  The two writers of a status file share its temporary name; the model
  takes each replacement as atomic.  Children are not assumed to obey.
- *History.* Two importers of the same directory are not modelled.  The listing of
  an archive is a page, of which the code takes the first entries.
- *Candles.* A progress file that says `failed` may count rows that were not flushed.
- *Loader and sealed reader.* Files do not change between preflight and reading.
  A row of the sealed corpus carries the generation it follows, a request names
  sources and channels, and a corpus whose tables are short, bad or absent is refused.
  `BeginFitsRows` holds for corpora whose real-time clock is steady.
- *Replay.* `refreshLiveTimeline()` brings back no partial-depth incident, and
  `openSelectedReplay()` applies no hints; the properties except both.  `BookFollowsSeek`
  speaks of books since a finalize or a seek backwards; between a rebuilt timeline and
  those the book is not that of the cursor, which is the fourth disagreement below.
- *Catalogue.* Once a cached session was deleted the cache is no longer replaced;
  `CacheFollows` speaks of histories without deletions.  Groups: one directory, two
  publishers.  The scan that verifies a group meets its children one by one while
  recorders write, so a published list is compared with the sessions there when the scan
  began; the first inventory of a publisher is one step.
- *Backtests.* Progress messages are left out.  A batch that exceeds its budget is cut
  without a word; fees return to defaults.  Loading a profile saves nothing, so its
  primary leg is ahead of the settings until something else is saved
  (`SettingsInStep` excepts it).
- *Capture page.* A start during a stop that still drains is accepted and has no
  effect.  An accepted change of channels is not asked of a running session.
- *Live tail.* A row is three units of its file, so that a read ends inside a line or
  before its end; files never shrink.
- *Charts.* Prices divide the scale, pixels are integers, and rounding is that of
  the code.  Loaded files are absent, whole, torn, bad or mixed.  The prices of the
  basis page are left out; which rows are paired and kept is what it is checked for.

## What is checked

| Run | States | Shows |
|---|---|---|
| `queue` | 0.9 M | order, exactly once, meaning of `Ok` from `finish()`/`drainFrozen()`, no retry after an I/O error, refinement of `CaptureLog`; `finish()` returns and what was acknowledged is applied unless the capture failed |
| `ledger_safety` | 6.0 M | footprint <= ledger <= budget; cuts, losses and the final drain always fit |
| `cut` | 0.6 M | a surviving cut is whole; nothing shown is lost; the manifest is a witness; the cursor never breaks; refinement of `DurableLog`; an open cursor reaches the finalized cut |
| `cut_generation` | - | *violated*: see below |
| `handoff_safety` | 5.0 M | rows in flight stay intact; the sinks hold a prefix; a frame is refused only by a busy arena; every commit is accounted for; what an exact manifest means |
| `handoff_liveness` | 0.3 M | `finalize()` returns |
| `handoff_stop` | - | *violated*: see below |
| `processes` | 3.1 M | the parts with threads, processes, sockets and crashes: rows accounted for, verdicts true, answers of their question, nothing left running, nothing taken back, an acknowledged manifest survives |
| `data` | 2.0 M | the parts with stored data and choices: formats and readers agree, replay is faithful, what is shown is what is chosen, what is computed is what a direct reading gives, what no handler may do, overlays nest |
| `progress` | 0.1 M | work that was begun ends |
| `block_generation` | - | *violated*: see below |
| `replay_rebuild` | - | *violated*: see below |

The properties of `processes`, `data` and `progress` are conjunctions by theme; each conjunct is
defined, with its own comment, in the module of its component, and the comment
of the conjunction says which code it is about.

Bounds.  The queue has two slots and three calls, so that a slot is reused
while the worker may still read it, and the cursor limit is met.  The ledger has
two shards, two channels, blocks of two rows, one source that can be added, a
budget that is reached after a few rows and a reserve for two pending rows:
every refusal, every flush for room, a rotation and the final drain happen.
The cuts have two shards, up to three blocks, three segments (so that one shard
rotates) and three generations (a publication, a failed one, the final one).
The handoff has a ring of two slots (one event, and another in the storage
thread's hands), an arena of two frames and three commits of one or two rows:
the ring is full, the arena wraps, is full and skips its end, and the row
numbers meet their limit.  A frame larger than the arena occurs in
`handoff_liveness`.  In the compositions every `INSTANCE` names its bounds, and a
comment says what they make happen: rings of one row, so that rows wait and are
refused; two revisions of a selection, so that one is requested while another is
pending; a reserve that is met; two clients, two jobs on one exclusive session, two
publishers; archives larger than a page; reads shorter than a line; candle
windows whose candidates cross a weekend; charted sessions of at most three rows
over all their channels, which leaves room for two channels that end at different
times.  A bound is no larger than the case it is there for needs.

Fairness.  The queue's worker and a call that has begun continue, because the
operating system runs every thread and no wait in them is unbounded; nothing
obliges ingestion to stop or the reference thread to deposit.  A consumer keeps
polling its cursor; nothing obliges the Recorder to run at all.  The storage
thread of the handoff runs, and so does a `finalize()` that has begun; nothing
obliges the exchange core to commit or the operator to stop.  In
`RecorderProgress` the fairness of a part is that of its threads, its event loop
and its timers (weak), and of deadlines and turns that come again and again
(strong); recordings end because they have a duration.  As a behaviour is of one
part, the fairness of a disjunction over the parts is the fairness of each.
Users, Parsers, exchanges and engines owe nothing.

Deadlock is not checked: a finished capture, an ended writer and a powered-off
machine really stop.

### Four disagreements

`CorpusCut.hpp:30` calls a cut "One durable Recorder commit, immutable after
publication."  `publishCut()` may fail in its last step, the sync of the root
directory, after `cut.bin` was replaced; the generation is not counted, and
`finalize()` publishes another cut under the same number.  A cursor of another
process that read `cut.bin` before and asks for the approved generation after
adopts the first one.  `OneCutPerGeneration` is violated in that way.  Nothing
is lost: the blocks of the first cut are a durable prefix of the second, which
is what `ShownSurvives` and `ImplementsDurableLog` say.

`docs/ErrorHandlingAndGaps.md` and `docs/DeliveryTimestampsContract.md` promise
that nothing is dropped silently (the lines are quoted in `PROJECT.json`).
`drainWorker()` finds the ring empty and looks at `stopStorage_` afterwards.  An
event pushed between the two, before `shutdown()` sets the flag, stays in the
ring when the thread exits: it is neither recorded nor counted, and the manifest
can still offer exact replay.  `NeverSilentlyDropped` is violated in that way.
`EveryCommitAccounted` and `ExactMeansRecorded`, which except the events left in
the ring, show that there is no other way.

`RecorderService.hpp:97-98` says of a block read that "An old unavailable
generation fails closed".  The server compares the generation with the number of
its latest cut, and every session counts its cuts from 1: a client that names
generation 1 of a session that was stopped gets `Ok` and a block of the next
session once that has published its first cut.  `OldGenerationFails` is violated
in that way.  That the number, at least, is always the one named is
`BlockOfGeneration`, which is proved.

`SessionReplay.hpp:101` says of `book()` "Current book reflecting all events with
ts <= cursor tsNs."  `rebuildBuckets_()` sets the cursor to 0 and leaves the book,
so a candles file added after a seek, or a live refresh, leaves a book ahead of
its cursor.  `BookOfCursor` is violated in that way; `BookFollowsSeek` shows that
the next seek backwards makes the book right again.

## What is proved

All for every value of the constants, under the assumptions named in the
modules (`CapacityAssumption`, `SizeAssumption`, ...: sizes are natural
numbers, a queue and a block have room for at least one item, at least one
source is configured and no more than the maximum).  `PROJECT.json` lists the
theorems.

*Queue* (`CorpusStoreProofs`).  `IInv` adds to the type invariant:
where the cursors stand relative to each other and to the program counters
(`CursorInv`), that every slot between them holds the accepted call of that
number (`SlotInv`), what the worker may conclude from its copy of the stop flag
(`StopInv`), and what a commit covers (`CommitInv`).  `AppliedInOrder` is not
inductive without the slots, `FinishOkMeansDurable` not without the other two.
The refinement of `CaptureLog` is proved from the same invariant.

*Manifest* (`CorpusStoreProofs`).  `Prepared` says what the temporary file is at
each call, `Sound` which of `manifest.json` and its kept copy is whole and how
new it is, as long as the document is not lost (a copy back failed, or a document
that could not be examined was removed).  That the acknowledged document
survives, that `manifest.json` is torn only in the copy back, and that no step
puts an older document there follow from both.

*Source state* (`CorpusStoreProofs`).  `OverlaysNest` is inductive with the types
of the overlays.  `UnhealthyByHistory` compares the overlays, kept record by
record, with a reading of the whole stream; it needs to know what a loss marker
that nothing has answered yet says about them (`HistoryInv`).
`RowsUnderSubscription` needs that the state holds the subscription of the last
transition and the latest generation (`SubscriptionInv`).

*Ledger* (`BinaryMarketCorpusWriterProofs`).  `LedgerInv` bounds
the footprint by the ledger with every future cost of what is already accepted
(the cut files, the tables, the index), `CutInv` bounds the next cut by its
reservation counting a buffered row as a block, `LimitInv` keeps the unspent
part of the final reserve above the limit.  Each is the slack that makes the
property it supports inductive.

*Cuts* (`CorpusCutProofs`).  `KeptInv` says where an unsynced
block may be while a cut is taken, `NamesInv` which directory entries exist,
`CutInv` how acknowledged, visible and surviving cuts relate, `CursorInv` that
what the cursor holds is behind what the disk keeps.  `ShownSurvives` needs the
relation of generations to survivors: a visible cut whose generation is already
acknowledged is safe, any other one is not adopted.  The refinement of
`DurableLog` maps the committed prefix to the shortest outcome of a power
failure; that there is one is `LeastInv`.

*Handoff* (`NativeMarketCaptureProofs`, `NativeMarketCaptureAccounting`).
`OrderInv` numbers the events: those
that left the ring, then the slots from tail to head, then the commit whose hook
runs, without a gap until `failed_` is set (`RingInv`), and how far the sinks are
behind the event in hand (`RecordInv`).  `RecordedIsPrefix` follows from both.
`RowInv` gives every event in flight an interval of row numbers between the
arena's cursors that does not wrap (`HoldsRows`), in the order of the ring
(`QueueInv`), with the frame being copied behind all of them (`HookInv`); two row
numbers less than a capacity apart have different places, so `RowsIntact`
holds.  `BusyInv` says that rows not given back belong to a depth frame in
flight that ends at the head, from which `ArenaFullOnlyWhenBusy` follows with
the arena's size of two frames.  The types need the limit on row numbers
(`LimitInv`).  `CountInv` puts every commit of a source in exactly one place at
every step: recorded, in the ring, counted as lost, reported as dropped, in the
hook or in the storage thread's hands.  When `shutdown()` has reported, the last
two are empty and nothing is counted but not reported (`PhaseInv`), which is
`EveryCommitAccounted`; `ExactInv` ties the manifest to the counts.

*Service* (`RecorderServiceProofs`), for any clients and any number of calls and
sessions.  A connection carries the call in progress or its reply and nothing
else (`Talks`), and a reply suits the call that waits for it: a block is of a cut
with the number the call named, a catalogue of the generation it is given with
(`Suits`); the numbers of a client's calls increase from those that have run over
one that was left behind to the one on the wire (`Numbered`).  `ReadInv` and
`StopInv` say the same of a catalogue being read and of a stop in progress.

*Capture client* (`CaptureClientSteps`, `CaptureClientProofs`), for any number of
shards and sources and any ring (`Sizes`: there is at least one of each).  `IInv`
has a part for each thing the client must not be wrong about while producers go
on between its steps.  `RingInv`: what was handed over is the start of every
ring, and its sources are registered.  `DirectoryInv`: a listed source has its
membership row in a ring, an announced one is the next.  `LossInv`: the ledger
adds up to the losses counted, and the epoch that was started is ahead of it by
the losses in progress.  `ArrivalInv`: a ring is ordered by arrival, and neither
a row nor a lease is older than what its shard has promised.  `SinkInv` and
`SnapInv`: the last report, and the snapshot being read shard by shard and cell by
cell, are promises that stay true as the rings grow; the cells read are the
ledger's unless a loss was started meanwhile.  `EmitInv`: no row that the cursor
has still to emit, drained or not, comes before one it has emitted.  `StopInv`:
after an acknowledged stop only the client moves.  Each of the five properties
of the module follows from these parts, and none is inductive alone.

What is proved of a sum or of a numbering is proved by taking the least number
at which it fails, since the library's induction theorems are out of the
prover's reach.  `Counting` collects what the client's lemmas need of numbers and
finite sets, and is proved from the library before the theorems.

Only model-checked: liveness (fairness is out of the prover's reach); the
components of `processes` and `data` that no paragraph above names; and, as
such, the conjunctions of those two runs.  For the service, the source state, the
manifest and the capture client the theorems are about the specification of the
component's own module, which a composition instantiates for its constants.

## Seen while modelling

These are behaviours of the code that a property had to except, or that a reader
may not expect.  Unlike the four disagreements above, no line of the repository
speaks against them, so they have no run.

- A freeze after a disconnect reads the leases before the admission epoch, so a
  lease taken in between is not waited for.
- The primary leg of a loaded profile is lost when the viewer is killed before
  anything else is saved.
- The date listing of an archive takes the oldest dates of a page.
- Two candle requests of one session can leave files that the loader refuses.
- An accepted change of channels on the capture page is not asked of the session.
- A result of the compression page that arrives late lands in the table of the
  session selected by then.

## What is not modelled

Rendering and parsing of documents (beyond accepted, refused, torn), codecs and
checksums, painting, layout and QML, argument parsing, and the validation reports.
They transform data in one sequential call and keep no state that a model checker
could reach and a unit test could not.  The Parser, the exchange core, the backtest
engine and the exchanges are outside the repository and appear as free choices.
The order of rows inside the loaded blocks of the active cursor is left out.
Allocation failures are not modelled.  `PROJECT.json` gives the reason component
by component.
