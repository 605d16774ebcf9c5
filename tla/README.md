# AlphaLineage: a TLA+ model of its state machines

AlphaLineage searches for trading signals with genetic programming and keeps
a strict account of what was selected on which data. A FastAPI server
(`src/src/alphalineage/api`) runs searches as background threads, keeps
*sessions* on disk that are continued segment by segment, and guards a *frozen
holdout* that may be read only deliberately. This directory models the parts of
that server whose correctness depends on order, interleaving and failure, and
proves theorems about them.

Paths below are relative to `src/src/alphalineage/` unless they start with `src/`.

## 1. Inventory

| Part | Code | State it keeps | Operations | Module |
|---|---|---|---|---|
| Training scheduler | `api/resources.py` | CPU and memory available, shared executor, slots of each lease | resolve, acquire, reserve, submit, release | `TrainingScheduler` |
| Job store and progress | `api/jobs.py`, `api/progress.py` | job status, cancel event, published phase | submit, run, cancel, delete, finish | `JobLifecycle`, `JobStore` |
| Session document | `api/sessions.py` | `session.json`, round, finalization, comparison and plan files, `_SESSION_IO_LOCK` | load, save, restart | `SessionDocument` |
| Session evidence | `api/sessions.py` 521-1359, 1864-2137; `api/app.py` 4805-4846, 5230-5855 | holdout counters, list of finalizations, reservations, pinned plans | finalize, compare, pin a plan, release a dead reservation | `HoldoutLedger`, `SessionEvidence` |
| Session segments | `api/sessions.py` 1362-1861; `api/app.py` 4769-5184; `library/store.py` | checkpoint, lineage, rounds, segment history | continue, run a segment, finish, release a dead reservation | `SessionSegments` |
| Whole session | the two above on one document | all of it | everything above | `Sessions` (partly) |
| Formula store | `api/app.py` 1202-1600, 2930-3626, `core/extensions.py`, `core/primitives.py` | `formulas.json`, the registry of operators, pins of runs, sessions and results | create, edit, delete, load with the catalog, test, keep, register and remove an operator | `FormulaStore` (partly) |
| Universes | `data/universe.py`, `data/universe_folders.py`, `api/app.py` 2070-2240, 3861-4250 | one file per universe, a copy in memory, the folder document | save, load, move the reserved file, delete, create/move/delete folders | `UniverseStore`, `UniverseFolders` (partly) |
| Data synchronisation | `data/cache.py`, `data/provider.py`, `data/retry.py`, `data/schema.py`, providers, `api/app.py` 1794-1937, 4320-4712, `src/scripts/download_universe.py` | price files, sync and fill jobs | sync, fill, download, stop, clear | `PriceSync` (partly) |
| Agent | `agent/*.py`, `api/app.py` agent routes | conversation file, proposals, budgets of a turn | message, promote, patch settings, clear | `AgentTurn`, `AgentDesk`, `SearchConfig` (partly) |
| Genetic search | `core/gp.py`, `core/generate.py`, `core/tuning.py` | population, scores, cursors, draws, trial count, checkpoint, timings of the tuner | initialise, breed, score a chunk, commit, stop, resume, rescore, choose and observe a number of workers | `SearchVariation`, `SearchRun`, `WorkerTuner` (partly) |
| Signals | `api/signal_workspace.py`, `library/signals.py`, `api/app.py` 6025-6110 | snapshot files, jobs and the lock of their submission | prepare, submit or join, refresh, rank, stop | `SignalDesk` (partly) |
| Validation statistics | `validation/*.py` | none | splits, folds, selection, comparison, PBO | `Splits`, `Validation` (partly) |
| Overfitting judge | `validation/pipeline.py`, `validation/pbo.py` | kept summaries, which polls precede the one unlock of the test split | judge, stop, reuse | `Validation`; boundary steps in `JobStore`, `SessionEvidence` (partly) |
| Stand-alone runs | `api/service.py` | the job alone | submit, stop | kind `"run"` of `JobStore`; pins in `FormulaStore` (partly) |
| Backtest | `backtest/*.py` | none shared | positions, delay, coverage | `Validation` (when a book is held; no returns) |
| Corporate actions, integrity | `data/adjust.py`, `data/integrity.py` | none shared | numeric adjustment and checks | not modelled |
| Library, catalogs | `library/factors.py`, `library/overlap.py`, `core/primitives.py` ... | single files, tables | create, read | not modelled: data |
| Evaluators | `core/cpp.py`, `src/cpp/evaluator.cpp` of the repository | none shared | numeric evaluation | not modelled: floating point |
| Explanations | `explain/*.py` | none shared | retrieval, text | not modelled |
| Frontend | `src/frontend` | view state | requests, polling | appears as the client that sends requests and polls |

How they interact. A request handler *reserves* the session (an id in
`session.json`, saved under the lock), *submits* a job to the job store (one
thread each) and returns. The job enters a training lease before it trains, polls
`stop()` while it works, publishes its phase into the progress object the job
store shares, and *commits* under the lock: an artifact file first, then the
session that lists it. A GET that finds a reservation with no live job
releases it, which is how a session recovers after the process exits. The exit
itself is ordinary: `/shutdown` calls `os._exit` while jobs run.

Hard behaviour, in order of weight (`PROJECT.json` lists each with its line):

* two-write commits, and exits between the writes;
* a reservation that is looked at after it was saved and before its job exists;
* the session loaded, worked on for hours, and saved without the lock;
* a cancel that reads a phase, sets an event and writes a phase, while the work
  publishes phases without the same lock;
* a comparison, a plan and a finalization that are separate requests over hours;
* two weighted resources that are waited for together, with futures that may
  outlive the lease that submitted them;
* a document of formulas that requests copy, change and write whole, a registry
  beside it, and names in both that runs, sessions and results hold on to;
* one directory used by two processes that move the same file;
* price files that overlapping jobs extend from what each of them read, and write
  under one temporary name; a
  ranking that is prepared on one state of them and computed on another;
* a search whose resume must be exact across stops, exits and evaluators;
* an agent's conversation and settings, saved from copies read long before.

What makes each part correct:

* *Scheduler*: nothing is over-committed, lost or returned twice; whatever
  resolves can be granted; reserved work never queues behind other work; every
  wait ends.
* *Job store*: one start, one end, one outcome; the polled phase agrees with it;
  "stopped" is said only of what somebody was told is stopping; an accepted
  cancel ends the job.
* *Evidence*: the list of holdout reads is an append-only ledger with exact
  numbers, consent for repeats, and at most one locked first read; published
  evidence never changes; a reservation is not held for ever.
* *Segments*: one segment at a time; each continue is recorded once; committed
  rounds, trials and lineage are kept.
* *Formulas*: a published revision keeps its meaning; a deletion never strands a
  user of a formula; a live run keeps what it pinned; a test ran what it records.
* *Data*: a file users had is under some name until they remove it; a price file
  that can be read is one unbroken series of one provider, and one job at a time
  leaves none that cannot; what a deleted folder held moves up; a
  ranking is of the session it was asked for or a later one, with every member in it.
* *Search*: a checkpoint is that of a search nobody interrupted; scores of two
  evaluators never mix; counts of trials never shrink; no tree has more copies than the limit; the tuner of workers
  calibrates when it should and for no longer than it should.
* *Agent*: settings stay legal and measure what a user chose; a proposal's round carries its evaluations.
* *Statistics*: no label crosses a boundary; reuse changes no verdict; a
  comparison holds a strategy to the floors of the selection.

## 2. Modules

`JobLifecycle` and `HoldoutLedger` are abstract specifications: what a client may
rely on, with no thread, lock or file. `JobStore` and `SessionEvidence` are
shown to implement them (`ImplementsLifecycle`, `ImplementsLedger`). `Sessions`,
`DataHome` and `Research` compose components. The other modules are one per
component. `X_Word` operators placed before a definition `X` are faulty variants of
`X`: each is a plausible slip in that code, and `PROJECT.json` names the property
that catches it.

### TrainingScheduler (`api/resources.py`)

`pc[r]` is where the job thread `r` stands relative to its lease; `cancelled` the
predicate the lease polls; `available_workers`, `available_memory` the scheduler's
fields; `pending[r]` and `running[r]` the futures queued and executing. `Workers`
and `RequestedMemory` are the arithmetic of `ResourcePolicy.percent` and
`resolve_resources` (rounded ceiling, floor division, clamps), `LeaseMemory` the
cap in `TrainingLease.__init__`. `Reserve` is one step because the condition's
lock is held from the test to the subtraction; `GiveUp` is the poll that sees the
cancel. `Release` is `__exit__`, whatever is left in flight: futures keep running
after the lease has gone. `Submit` holds a slot of the lease's semaphore until
`Complete`, its done-callback. CPU and memory detection are inputs (`MaxWorkers`,
`MaxMemory`, `Budget`); `shutdown()`, which only tests call, is left out.

### JobLifecycle, JobStore (`api/jobs.py`, `api/progress.py`)

`status` is `Job.status`; `worker` the program point of its thread; `phase` the
`_phase` of the progress object; `lock` the store's lock when a canceller holds it
across steps. `cancel()` is three steps, `CancelLook`, `CancelSignal`,
`CancelMark`, under the store's lock, because the worker publishes its phase
without that lock and can do so between any two of them. The kinds `segment`,
`run` and `finalization` are the three work functions; they differ in whether they
cross the locked-test boundary and whether a stopped search goes on to report.
`Settle` records the outcome under the lock; `FinishProgress` writes the last
phase after it.

### SessionDocument

The variables every session module shares: the document (`session`), the artifact
files, the lock when it is held across two writes, the job registry, the cancel
events, the recorded outcomes and the program counter of each thread. `Submitted`,
`Settle` and `Stop` are the job store as the sessions see it: `Stop` may set the
event at any moment of the job's life, because `JobStore` shows that the phase
`cancel()` has read can be stale. `Crash` loses threads, registry, events and lock
and keeps the files. Documents written by older versions appear only as
`LegacyReads`.

### HoldoutLedger, SessionEvidence

A finalization goes `ClaimFinalization` (or `WriteCompatPlan` and
`SaveFinalizationClaim` when the request names no plan), `SubmitFinalization` (the
handler reads the reservation back, which by then may be another one),
`BeginFinalization` (the check in `finalize_round`), `ReadHoldout`,
`PublishFinalization` (the artifact) and `CountFinalization` (the session);
`AbandonFinalization` and `UnwindFinalization` are the ways out of an exception.
Comparisons and plans are their own actions, two-write commits as well.
`NoticeStale` and `ReleaseStale` are the two halves of
`_session_finalization_job_view`. Data is kept only where a handler branches on
it: which holdout, which plan, first or repeated, adaptive or not, significant or
not. `Ledger` maps the session's list of finalizations, each with what its file
says, to the abstract ledger.

### SessionSegments

A continue goes `CheckIdle`, `ClearReservation` if a dead reservation is in the
way, `ClaimSegment`, `ReloadReservation`, `SaveSettings`, `SubmitSegment`; its
job `BeginSegment` to `FinishSegment`. `copy[s]` is the session the thread has in
memory and writes back; `gp[s]` and `store[s]` are the population and the lineage,
reduced to how many generations and trials they hold and whether each parent
was looked up in the right generation (`sound`). `checkpoint.json` and
`lineage.json` are written with `Path.write_text`, so each write is two steps,
truncated (`torn`) and written; `session.json` and the artifacts are renamed into
place, one step.

`RequestsOverlap` says whether a request may look at the job registry between
another request's reservation and its submission. The code does not prevent
it; finding 1 shows what then happens. The passing run excludes it, so its
properties hold of requests that do not overlap *in that window*; jobs, stops,
polls and exits interleave freely either way.

### Sessions

Evidence and segments on one document: a step of one leaves the other's local
state alone, an exit hits both. Nothing in the server keeps a finalization from
starting while a segment is at work, and finding 3 is the consequence.

### FormulaStore (`api/app.py`, `core/extensions.py`)

`doc` is `formulas.json`, a body or nothing for each revision; `registry` the
operators in memory; `pins` of the live `jobs`, `pinned` of the `saved` sessions and
results, what sessions have of their `own`, and `tests` with what they `tested`, refer to revisions by runtime name.
Every request is steps of a thread: it reads the whole document, works on its copy
and writes it whole. `_formula_lifecycle_lock` is taken
by deletion and by the submission of a run only; the steps from `BeginEdit` to
`WriteEdit`, from `BeginDelete` to `EndDelete`, of a load (`BeginLoad`, `Load`) and of a
test (`BeginTest` to `EndTest`, `KeepTest`) interleave as the code lets them.
`MergeCatalog` is the merge with the packaged catalog that a load needs first, and
`Restart` may bring a new catalog. A test looks its dependencies up in one place and
expands another, and a kept result pins what the test recorded
(`TestRanItsRevisions`). The registry has a second source: clients put bodies into it
under names they choose, with `POST /operators` (`AddOperator`), with a run, a new
session or a continue (`RegisterOwn`), and sessions and results put back what they embed
(`Materialize`); all without the lock but for runs, one operator at a time, and only
under names that are free. `brought` is a history variable of the bodies clients
brought. `gone` is another: the revisions that have left
the document, and those an edit registered and an exit kept from the document
(`Unwritten`); their names may come to mean something else, and nothing is promised
of them.

### UniverseStore, UniverseFolders, PriceSync, DataHome

`UniverseStore` has names that are linked to inodes, because older versions may
have left a user's file under the name that is now reserved and every load moves
it: scan for links, link the first free legacy name, scan again, unlink. Two
processes do that at once and either may die at any step. A save is two steps,
truncated and written. `UniverseFolders` is the document of what users changed on
top of the manifest's tree; each request is one action under its lock, except a
deletion, which collects the names of universes before it. `PriceSync` has the
files (per day a *level*: before or after a recorded split), jobs with their list of
symbols, and the steps of one symbol: read the file, ask for the ranges it lacks,
join what came with what was read, and replace the file. `ParquetCache.store` writes to
a temporary name made of the symbol and the process id alone (`data/cache.py` 106), so
all threads of a process share it, while a script has a name of its own (`Owner`):
`OpenTemporary` truncates what another job may just be writing, `CloseTemporary` is the
end of the write, `Replace` moves over the target whatever has the name by then, and
`Undo` removes it after an error, whoever's it is. `temp` are the files under these
names; `job[j].file` says where the file a job has open has got to: under its name
still, moved over the target by another job, or nowhere. A file two jobs wrote at once is
taken to be the series of either or unreadable (`Broken`). `clashed` is a history variable:
the symbols that two jobs of one process stored at once. Providers are external: they
lag a day, fail transiently, run out of allowance, or adjust all days to today's
level. `DataHome` composes these with `SignalDesk`: a removed universe loses its
place, a fill or sync needs a universe the process has loaded, a process that exits
takes syncs and rankings with it.

### SignalDesk (`api/signal_workspace.py`, `library/signals.py`)

A request for a ranking is prepared outside any lock (`AskSignal`: the expected
session, the symbols of its window and which are worth fetching), joins a job
with the same identity or gets its own under `SUBMIT_LOCK` (`SubmitSignal`). The job
runs a sync batch of `PriceSync` (kind `"signal"`), sees a stop only when the batch is
over, prepares again (`RecheckSignal`), reads the prices (`ReadPanel`), ranks and writes
one snapshot. `signal[q].asked` is what was prepared at first and identifies the
request, `plan` what the job goes by after the recheck. A formula is its lookback: it
has a value where that many bars of the panel, one for each day any file has, all
have prices. The window is `Window` sessions here, three years in the code.

### SearchConfig, AgentTurn, AgentDesk

`SearchConfig` is the legality of settings and of a patch. `AgentTurn` is the loop of
a model node and a tools node with its budgets of calls, scores, tokens and steps;
the model is any of a set of replies. `AgentDesk` has the conversation file, the
session's settings and rounds and the requests on them, each in the steps between
which it holds a copy and no lock. `turn[d]` and `errand[d]` are the requests under
way; `segment` is as much of a continue and its segment as reads and writes these two
files. A continue merges the settings of its request into the session's as they were
when it came (`AskContinue`: legal, covered by the embargo, of the same execution),
reads the session again with the reservation (`ClaimSession`) and saves it with
them (`SaveSettings`); the segment takes a copy hours long and saves it. `measured` is a
history variable: the ways to measure (horizon, method, least names, seed) that users
chose, at the start or with a continue. One continue at a time is a bound.

### SearchVariation, SearchRun

`SearchVariation` is one generation as operators on a record with the search's
state: elite, stepping stones, published defaults, and slots filled by lanes in
turn, each child within the limit of copies, with retries and an immigrant at last.
Draws are positions in a fixed stream, since `random.Random` is saved and restored
with the checkpoint; so *exact resume* is a statement about states. Scores are a
function of measure, evaluator and tree, `Score[measure][kernel]`: the evaluators' numbers
differ (`src/tests/test_cpp_evaluator.py` 19-21), so a population scored again by another
one is another search from there on (`altered`). `SearchRun` has
the search over its segments: the population in memory, the generation being
scored in chunks, the checkpoint file, stops, failures, exits, the
change of evaluator that scores everything again, injected seeds, and a
continue with another measure.

### WorkerTuner (`core/tuning.py`)

`tuner` is the `WorkerTuner` of the segment under way: samples of each rung of its
ladder, the cursor, the rung it settled on, the count of slow batches.
`ChooseWorkers` and `ObserveBatch` alternate as `GP._individuals_transaction` calls them;
`BeginTuning` adopts the `worker_tuning` of the checkpoint and `SaveTuning` writes it.
Costs are whole numbers, so the knee (10 %) and the drift (50 %) are exact.
`calibration` is a history variable: samples a calibration has taken and the samples
that were due, from the start, or from a run of slow batches. Scores do not depend
on the number of workers, so the search does not see the tuner.

### Splits, Validation

`Splits` is arithmetic on positions of the calendar: boundaries with embargo,
forward folds, purged folds, the agent's inner window. `Validation` has what a
session freezes (`frozen`), its rounds (`judged_rounds`), the report under way and
the summaries it kept. Selection, comparison and the report are definitions on
what they read; `Judged` is the verdict from any summaries, and
`ReportMatchesReference` compares it with the one from fresh summaries. Damage of a kept
summary is damage that is noticed: `pbo_from_summaries` raises and all are taken again. (A
malformed *first* summary it does not raise on but answers with no number,
`validation/pbo.py` 189-190; that is left out.) What a signal
holds is a whole number for each name (`Weights`); the `Book` of a date adds up the
signals of the horizon name by name, as `_staggered_portfolio_path` averages them. A median is
the middle of the order of fold means (`Nth`), the mean of the two middle ones if they
are even in number.

### Research

The agent's desk, the search, the tuner of its workers and the validation of its
rounds side by side, with the one place where the first writes what the second
reads: an applied patch changes the measure of the search. Budgets bound the requests of each kind.

## 3. Runs

| Run | Checks | What it shows |
|---|---|---|
| `scheduler` | `TypeOK`, `ExactAccounting`, `EveryRunIsRunnable`, `ReservedWorkNeverQueues`, `WaitingEnds` | a wide, a light and a memory-capped run compete for three workers and five units of memory |
| `job_store` | `TypeOK`, `ClientsHearTheOutcome`, `ImplementsLifecycle`, `AcceptedCancelEnds` | one job of each kind, two cancelling requests, a thread that cannot start |
| `evidence` | `EvidenceTypeOK`, `ReadsAccounted`, `PlanBehindArtifact`, `ImplementsLedger`, `EvidenceImmutable` | two finalizations, a comparison with its plan, two holdout revisions, a polling client, an exit |
| `release` | `ReservationsReleased` | liveness of the reservations with two exits, a refused thread, and a session that already had a read |
| `segments` | `SegmentsTypeOK`, `OneSegmentAtATime`, `RoundsAccounted`, `LineageFollowsCheckpoint`, `TrialsAndRoundsKept`, `SegmentReleased` | two continues of a new session with stops, failures, a refused thread, two exits, a polling client |
| `formulas` | `TypeOK`, `TestRanItsRevisions`, `RunKeepsItsFormulas`, `RevisionFixed` | any three of an edit, a deletion, a load, a test and its kept result, a run, a session, a saved result, operators registered and removed by name, and a restart with another catalog, on a store where one formula uses another |
| `data_home` | `DataTypeOK`, `HistoryIsOneSeries`, `LegacyFileKept`, `SnapshotsAreOfTheirDay`, `DeletedFolderMovesUp` | two processes move the reserved file and stop half way, universes used by jobs and removed, folders in and out of the manifest; overlapping syncs, fills and downloads of two symbols, one of which splits, that store under one temporary name; rankings of them refreshed, joined and stopped while days pass |
| `research` | `ResearchTypeOK`, `PatchesStayLegal`, `RoundsCarryTheirSearch`, `ResumeReproducesRun`, `KernelsDoNotMix`, `NoLabelCrosses`, `ReportMatchesReference`, `ComparisonAgreesWithSelection`, `CalibrationsArePaid`, `TrialsNeverShrink` | exchanges, promotions and patches beside segments and the settings of continues; searches stopped, resumed, rescored and moved; rounds selected, compared and reported on while prices change; workers calibrated over two segments |
| `overlapping_requests` | `OneSegmentAtATime` violated | finding 1 |
| `exit_while_saving` | `CheckpointSurvivesExit` violated | finding 2 |
| `read_during_segment` | `ReadsStayCounted` violated | finding 3 |
| `trials_after_promotion` | `FoldedTrialsStay` violated | finding 4 |

Each property states its meaning and its code above its definition.

Bounds, and why they are enough (all safety properties of the passing runs, and a few more, are moreover
proved for every value of them, section 4):

* `MaxWorkers = 3`, `MaxMemory = 5`: the wide run needs all of the machine, the
  others fit beside each other, and the third resolves to more memory than exists,
  so that its lease is capped. `MaxTasks = 4` is one more than any lease may have
  in flight.
* `Jobs`, `Cancellers` of the job store: a race needs one job and one
  canceller; the second canceller adds cancels of a job already cancelled, and the
  three kinds of work all occur.
* Two finalizations: one that reads first and one that must ask; a request that
  overtakes another needs two. Two fingerprints: same and different holdout. One
  exit separates any two writes; two exits (`release`, `segments`) add an exit
  during the recovery from one. `SpawnFailures = 1`: a refused thread at any one
  submission.
* Two segments, `MaxRounds = 2`: a second segment continues what the first
  committed, or left behind by an exit.
* Formulas: one editor, deleter, reader, run, session and result, three requests
  in all, two revisions of each of three formulas, and one operator that a client brings
  under the name of the first revision of a formula the others use. A race is between two requests
  over a dependency that a third put there. Two editors are excluded on purpose:
  see *Also met*.
* Data directory: `Budgets` lists mixes of requests: two of universes, with or
  without one of folders; one of universes with three of folders; two of
  prices; three of signals (two rankings and a stop); one of prices and one of
  signals. Two jobs are enough for
  one to truncate, move or remove the file of the other.
  Directories a move left half way are initial states of the mix of universes
  alone. Three days with a split on the last, two symbols of which one is listed
  later, two jobs; days pass only where a job exists. A formula looks back two bars of a
  window of three, so that it can be warming up, stale or without prices. The names of universes a
  folder's deletion moves are collected before it.
* Research: each member of `Budgets` lets one or two of the four parts move, since
  they share only the measure. Populations of five trees out of eleven and up to
  three generations, so that the limit of copies, retries, immigrants, the beam and
  stagnation all occur; chunks of two trees, so that a stop falls between them.
  Two evaluators that put some trees in another order. Three names, of which one
  formula goes round: at a horizon of three its signals cancel though no two are
  opposite, and the comparison rejects it.
  Calendars of 12 to 20 days with embargoes and horizons of one to three; a sync
  adds a day or a revision of prices, and the calendar only grows. The tuner has
  ceilings of two and three workers, batches of one to three trees with two the least
  that is measured, a patience of two, and nine batches: enough to calibrate, to drift
  and to calibrate again, over two segments. Medians are in
  whole units. `apart` keeps the desk's requests and a segment from overlapping; it
  is used by `trials_after_promotion` alone, to show that the loss it finds
  needs no overlap.
* One watcher: a poll is two steps of a stateless client; a second watcher
  would repeat them. `MCSessionEvidence` declares the two finalize requests
  symmetric; no property of that run is a liveness property.

`CHECK_DEADLOCK FALSE` everywhere: every run has finitely many requests, and when
all have ended the server waits for the next one.

Fairness, and why the code justifies it. Each is weak and per thread: a thread
that can go on does. `TrainingScheduler`: the waiting loop polls every 0.1 s, bodies
end, executor threads take what is queued. `JobStore`: a body that was told to
stop reaches a poll, work past the boundary returns, a canceller leaves the
lock; a body nobody stops may work for ever, and nobody has to submit, cancel or
delete. Sessions: a submitted job and a handler proceed; and *some client keeps
asking for the session*, as the web client does, because a dead reservation is
released by a GET. No fairness is assumed of requests, stops or exits.

### Findings

1. **Overlapping continues.** `claim_job` says it will "Atomically reserve a
   session for one queued/running segment" (`api/sessions.py` 1371). The handler
   saves the reservation at `api/app.py` 5114 and registers the job at 5174. A
   second continue, or any GET, in between finds a reservation without a job,
   finishes it as interrupted (4776-4779), and a second claim succeeds: both
   segments then work on one session.
2. **Exit while a checkpoint is written.** `/shutdown` says "Session state is already
   persisted to disk after every segment, so an immediate exit is safe"
   (`api/app.py` 6324). `GP.save_checkpoint` rewrites `checkpoint.json` in
   place (`core/gp.py` 2614); an exit between truncating and writing leaves a file
   no later continue can read.
3. **A read erased by a segment.** "Finalizing a selected round increments the
   matching frozen-holdout counter exactly once" (`src/docs/TUTORIAL.md` 344). A
   finalization that commits while a continue (`api/app.py` 5125-5134) or a
   segment (`api/sessions.py` 1551-1861) holds an unlocked copy of the session is
   erased from the counters when the copy is saved.
4. **An agent's trials leave the count.** "Approving a proposal folds the run's
   spend into the session's cumulative trial count" (`src/README.md` 280-282).
   `agent/promote.py` 138 adds them; the next segment assigns the search's own
   count (`api/sessions.py` 1715), while the session still lists the agent's round.
Also met, without a run of their own:

* A process killed mid-write "must leave the previous file or no file, never a truncated
  Parquet that has() reports as cached and every later load fails to read"
  (`data/cache.py` 103-105). Two jobs of the server that store one symbol share the
  temporary file (106): one job's `os.replace` moves the file the other has just
  truncated and is writing over the target, and an exit leaves it there. Every later
  sync of the symbol then fails when it loads the file, before it looks whether it was to
  be refreshed (`api/app.py` 1808). `NoTruncatedFile` in `PriceSync` states the comment
  and is refuted when it is listed in `MCDataHome.cfg` with `Budgets <- JobsAndExit`;
  `HistoryIsOneSeries` excepts symbols that two jobs stored at once.
* A comparison that was running when the process exited keeps its reservation for
  ever (`ReservationsReleased` asks it only of a process that keeps running), and a
  job whose thread could not start stays registered as queued.
* `continue_session` saves the merged settings (`api/app.py` 5132) before the segment
  has scored anything under them. If that segment stops before its first
  generation, the checkpoint's scores are still the old measure's and the next
  continue sees no change: `ScoresShareOneMeasure` in `SearchRun` states it and is
  refuted when it is listed in `MCResearch.cfg`.
* A provider that adjusts lowers, after a split, the days it is asked for then, and
  not those in the file; the merge looks for a jump at recorded splits only.
  `AdjustedSeriesHaveOneLevel` in `PriceSync` states that there is none and is
  refuted when it is listed in `MCDataHome.cfg`.
* `DELETE /operators` takes an operator from the registry whoever uses it, so a kept
  result is not self-contained after it; `RunKeepsItsFormulas` excepts it. Nor do
  the requests that register operators look at the document: between a test's
  lookup of its revisions and their expansion a client can remove a revision from the
  registry and register another body under its name, and the test runs that body and
  records the revision. TLC finds it with three requests when the last disjunct of
  `TestRanItsRevisions` is left out. That disjunct excepts such a test: one of
  the bodies it ran under the name of a revision, not the document's, is one a client brought.
* A deletion that overlaps an edit writes the document it read, and the edit's
  revisions are gone. A formula deleted and created again gives old names another
  meaning. An edit registers its revision before it writes it: a result saved in
  between embeds a body that an exit keeps from the document, and the next edit gives
  its name to another one (TLC finds it with five requests). `gone` keeps track of all
  three; nothing is promised of those revisions.
* A load reads the document before it takes effect. If a formula is deleted and
  created again and a run pins it meanwhile, a load that read the document in between,
  where the use dangles, drops from the registry what the run pinned.
  `RunKeepsItsFormulas` excepts loads of a document with a dangling use, and
  `DeletionSparesUsers` says that a deletion takes nothing away from the formulas
  *it read*: a document that lacks what it uses from the start stays so.
* Two edits of one formula at once can publish two bodies under one revision:
  `RevisionFixed` is a claim about one editor, and is refuted with two in
  `Editors` of `MCFormulaStore.cfg`.
* A batch smaller than the rung it was asked for runs with fewer workers and is
  recorded for that rung all the same (`core/tuning.py` 150): the comment above
  that line says it "says nothing about that rung". `SamplesMeanTheirRung` in
  `WorkerTuner` states the comment. A segment also settles at once on timings of an
  unfinished calibration, one sample for each rung, though "A rung must collect this many
  samples" (30): `AdoptsWhatSettled`. Both are refuted when listed in `MCResearch.cfg`.
* A request for a ranking joins an equal job that is being stopped, and gets no
  snapshot. `POST /data/sync` excepts such jobs (`api/app.py` 4658). `JoinedJobsGoOn` in
  `SignalDesk` states it for rankings and is refuted when listed in `MCDataHome.cfg`.
* For a horizon of two or more a comparison may reject the strategy its winner was
  selected under: cohorts cancel in what is held, two opposite ones, or three of which no
  two are. `ComparisonAgreesWithSelection` says when it cannot: where no name is held on
  opposite sides by two signals less than a horizon apart. That is sufficient and not
  necessary; names may be held both ways without cancelling.
* A checkpoint keeps `_best_ever` as the evaluator that found it scored it, and after
  a change of evaluator compares it with scores of the new one (`core/gp.py` 1852,
  2663), though a run "cannot mix score kernels" (73). `KernelsDoNotMix` is about the
  population and the kept scores.

## 4. Proofs

Eight modules `M_proofs` hold theorems checked by TLAPS for every value of the
constants that meets the modules' `ASSUME`s: one for each of `TrainingScheduler`,
`JobStore`, `SessionEvidence`, `SessionSegments`, `FormulaStore` and `DataHome` (with what
it composes), and for `Research` two, `Research_proofs` (desk, evidence, tuner) and
`Search_proofs` (the search, and the types of all). Every safety property that a
passing run checks, and both refinements, are among them.

| Theorem | States |
|---|---|
| `TrainingScheduler_proofs!TypeCorrect` | `Spec => []TypeOK`: neither budget is overdrawn |
| `TrainingScheduler_proofs!Accounting` | `Spec => []ExactAccounting` |
| `TrainingScheduler_proofs!Runnable` | `Spec => []EveryRunIsRunnable` |
| `TrainingScheduler_proofs!NeverQueues` | `Spec => []ReservedWorkNeverQueues` |
| `JobStore_proofs!TypeCorrect` | `Spec => []TypeOK` |
| `JobStore_proofs!ClientsCorrect` | `Spec => []ClientsHearTheOutcome`: the last phase is the outcome, and nothing ends stopped unasked |
| `JobStore_proofs!Refinement` | `Spec => ImplementsLifecycle` |
| `SessionEvidence_proofs!TypeCorrect` | `EvidenceSpec => []EvidenceTypeOK` |
| `SessionEvidence_proofs!AccountCorrect` | `EvidenceSpec => []ReadsAccounted`: exact numbers, nothing done uncounted, nothing uncounted but by an exit |
| `SessionEvidence_proofs!PlanCorrect` | `EvidenceSpec => []PlanBehindArtifact` |
| `SessionEvidence_proofs!ImmutableCorrect` | `EvidenceSpec => EvidenceImmutable` |
| `SessionEvidence_proofs!UncountedCorrect` | `EvidenceSpec => []UncountedOnlyByExit` |
| `SessionEvidence_proofs!LedgerRefinement` | `EvidenceSpec => ImplementsLedger` |
| `SessionSegments_proofs!TypeCorrect` | `SegmentsSpec => []SegmentsTypeOK` |
| `SessionSegments_proofs!ReservationCorrect` | without overlapping requests, `SegmentsSpec => []OneSegmentAtATime` |
| `SessionSegments_proofs!AccountCorrect` | the same of `[]RoundsAccounted` |
| `SessionSegments_proofs!LineageCorrect` | the same of `[]LineageFollowsCheckpoint` |
| `SessionSegments_proofs!TrialsAndRoundsCorrect` | the same of `TrialsAndRoundsKept` |
| `FormulaStore_proofs!TypeCorrect` | with one editor, `Spec => []TypeOK` |
| `FormulaStore_proofs!RevisionsCorrect` | with one editor, `Spec => RevisionFixed` |
| `FormulaStore_proofs!DeletionCorrect` | with one editor, `Spec => DeletionSparesUsers`: no formula is left without one it uses that the deletion had read |
| `FormulaStore_proofs!RunCorrect` | with one editor, `Spec => RunKeepsItsFormulas` |
| `FormulaStore_proofs!TestsCorrect` | with one editor, `Spec => []TestRanItsRevisions`: what a test records it ran, or a body a client brought |
| `DataHome_proofs!LegacyFileSafe` | `Spec => []LegacyFileKept` |
| `DataHome_proofs!HomeTypesCorrect` | `Spec => []DataTypeOK` |
| `DataHome_proofs!DeletionCorrect` | `Spec => DeletedFolderMovesUp` |
| `DataHome_proofs!FoldersNest` | `Spec => []Forest`: no folder is inside itself |
| `DataHome_proofs!HistoryCorrect` | `Spec => []HistoryIsOneSeries` |
| `DataHome_proofs!SnapshotsCorrect` | `Spec => []SnapshotsAreOfTheirDay` |
| `Research_proofs!DeskTypesCorrect` | `Spec => []DeskTypeOK` |
| `Research_proofs!PatchesCorrect` | `Spec => []PatchesStayLegal` |
| `Research_proofs!PromotionsCorrect` | `Spec => []RoundsCarryTheirSearch` |
| `Research_proofs!ReportsCorrect` | `Spec => []ReportMatchesReference` |
| `Research_proofs!LabelsCorrect` | `Spec => []NoLabelCrosses` |
| `Research_proofs!ComparisonCorrect` | `Spec => []ComparisonAgreesWithSelection` |
| `Research_proofs!TunerCorrect` | `Spec => []CalibrationsArePaid` |
| `Research_proofs!TunerTypesCorrect`, `EvidenceTypesCorrect` | `Spec => []` of the types of the tuner and of the evidence |
| `Search_proofs!ResumeCorrect` | if operations on trees give trees, `Spec => []ResumeReproducesRun` |
| `Search_proofs!KernelsCorrect` | the same of `[]KernelsDoNotMix` |
| `Search_proofs!TrialsCorrect` | the same of `TrialsNeverShrink` |
| `Search_proofs!SearchTypesCorrect` | the same of `[]SearchTypeOK`, the limit of copies included |
| `Search_proofs!ResearchTypesCorrect` | the same of `[]ResearchTypeOK` |

*Scheduler.* Assumed: `Runs` finite, budgets at least one, percentages 1 to 100. The
inductive invariant is `TypeOK`, `ExactAccounting`, `SlotsBounded` and that nothing
was rejected. Accounting is by cardinality: what the held leases took is a set
with one element per unit, a lease's share is disjoint from the others', so
reserving and releasing add and remove exactly its share. That is why the
`min()` clamps of `_release` never act: without the accounting, `TypeOK` alone would
follow from the clamps and hide a double release. `Runnable` needs the
arithmetic lemmas that a resolved request is between one and the budget.
`NeverQueues` embeds the futures in execution into the workers taken; a queued
future holds one more slot, so the embedding is strict.

*Job store.* Assumed: the three kinds, and that `None` is not a job or canceller.
`PhaseAgreesWithOutcome` is not inductive: a canceller in the lock could mark a
job that ended. The invariant adds what the code relies on: the lock keeps the
job a canceller looked at live until it is marked (`LockKeepsLive`), the status
follows the thread's program point (`StatusFollowsWorker`), an event that is
set was announced or is just being announced (`CancelIsTold`), only a job with its
event set ends early (`EarlyIsCancelled`), and between the outcome and the last
phase `early` tells the outcomes apart (`SettledKnowsOutcome`). The refinement
uses the same invariant: one action per lifecycle step, all others stutter.

*Evidence.* Assumed: `SessionAssumption` (the kinds of requests are disjoint, `None` is
none of them, plan names of requests are not names made of a round and a
holdout). None of the properties is inductive. What makes them so is what a thread
may rely on while it holds the lock or a reservation: the thread between the two
writes of a commit is the lock's holder (`LockHolder`); while a reservation stands
the consent it was given still suffices, since nobody counts a read meanwhile
(`ReservationConsents`); and an artifact written and not yet counted carries the next
numbers, label and consent (`CommitNumbered`). With `CountedExist` and `OutcomeKnown`
these give the first two parts of `ReadsAccounted`, `CounterIsExact` and
`DoneMeansCounted`. For plans: a plan file is what its name says and names only an eligible comparison (`PlansSound`), the plan of an
admitted request exists and fits it (`PlanPinned`), artifacts follow requests, and a
comparison has no final status before its own last write (`ComparisonOpen`), which is
why it can be rewritten without rewriting published evidence. The refinement maps
`CountFinalization` to one abstract read, by `CommitNumbered` and `CounterIsExact`;
every other step leaves the listed reads and the counts alone, and `KeptStep` shows
that it does not touch their files. `UncountedCorrect` counts the exits: only an exit
takes a thread out of a commit, and `LockHolder` says it takes at most one; that
is the third part.

*Segments.* Assumed: `SessionAssumption` again, and `~RequestsOverlap` for all but the
types: finding 1 shows that without it the other theorems are false. The invariant is
`Typed /\ Reservation /\ Committed /\ Evolution`. `Reservation`: between its claim and
the end of its job the document names that thread and no other
(`HoldsReservation`), a reservation somebody noticed as dead is dead
(`NoticedAreDead`), and so the copy a segment writes back is the document but for
what it changed itself (`CopyIsCurrent`). This is the fact everything rests on,
since nothing locks the session while a segment works. `Committed`: the files of rounds
have no gap (`FilesHaveNoGap`), which is why the length of the list is a free number
(`PickIsFree`); a file that is not listed is one an exit kept from it (`CommitSound`).
`Evolution`: trials only grow from copy to checkpoint to document
(`TrialsSound`), and whoever saves the lineage holds the generation it is of
(`LineageSound`).

*Formulas.* Assumed: `OneEditor`, as two are the race listed under *Also met*, and
`StoresAssumption`: revisions of the initial document are numbered without a gap and
what the catalog packages uses no formula. Requests write documents
they read earlier, so the document goes back and forth. What holds is an
order: a deletion's copy is a part of the document, the document is a part of an
editor's copy (`SubStore`), and all agree on packaged formulas, as nobody needs
to merge the catalog while somebody has a copy (`SameManaged`). With the lock's holder
(`LockOK`), what an edit publishes being new to its copy (`PlansOK`) and what a
deletion spares (`DeletesOK`), `RevisionFixed`, `DeletionSparesUsers` and
`RunKeepsItsFormulas` follow. `TestRanItsRevisions` needs that the registry, the
copies and all that pins agree: whatever body is kept under the name of a revision that
is not gone is the one the document has or is about to get from the edit that
registered it, or a client brought it under that name (`AgreementOK`). The attempt to prove it without the last clause led to the
exit between registration and write.

*Data directory.* Assumed: at least two legacy names, none of them reserved or a user's
own. A process acts on a scan that another one's unlinks have made
stale. What does not go stale is an order (`ScansHold`): under each name somebody
found, or under one that is tried before it, the file is still there. The first name
found is the one kept, so no unlink takes the last name of the file.

*Folders.* Assumed: `FolderAssumption`, in which the manifest has no cycle, as
`_builtin_layout` makes a folder's parent of a shorter path. What a folder is shown
under is climbed over the manifest past deleted folders (`Up`), what it is nested in
is climbed over what is shown (`Line`), and both are recursive functions, which exist
only over something without cycles. `DescentExists` builds such a function level by
level, once for both. For `Line` the levels are an invariant: what is shown is a
forest (`Forest`), with what it stores of folders being of folders that stand
(`StoredStand`). A move puts all that is inside the folder below everything else,
which is a level only because the request refuses what is inside it; a deletion keeps
the levels. With the forest the folder a deletion moves things to is not the one that
goes (`DeleteMoves`), hence `DeletedFolderMovesUp`.

*Prices and signals.* Assumed: `PriceAssumption`, `SignalAssumption` (finite sets of
symbols, positive bounds, universes with members). Jobs take no lock on a symbol, so the
file may change between load and store. The invariant therefore never relates a job to the
file, only to what it has in hand: its days are one stretch of one provider's
(`Solid`), and each range still to ask for meets that stretch (`Meets`); days only
pass, so nothing another job does can break that. That a file can be read is
`Alone`: while no two jobs of a process have stored a symbol at once, who stores it has
its temporary file to itself, so the file is whole when it is moved, and is the one
moved. Once two have, nothing is promised (*Also met*). A snapshot's part of it: plans are
for members of the expected day, and a request's job is its own or one with the
same plan (`AsksOK`, `Distinct`).

*Research.* Each part has an inductive invariant of its own, since no step moves two of
them but the patch. Desk: every copy of the session's document that is on its way
to be saved is legal, covered by the embargo and of the start's execution (`DeskInv`), and
measures what a user chose (`ChosenInv`), so the last writer
may win: a patch changes no measurement, and a continue adds its own to what was chosen.
`novelty_mode`, which a continue freezes as it does the execution, is not among the
modelled settings. Every exchange counts at least the scores it showed (`DeskInv` too; the total of a
thread is a running sum, `TotalTrials`). Evidence: each summary, kept or just taken, is
its pair's under the context it is filed under, or is known to be damaged
(`EvidenceInv`). Splits: the parts are an embargo apart, and a judged round's labels span no more
than the embargo (`SplitInv`); the folds are proved from a closed form of their
boundaries. Tuner: what a calibration has taken and what it lacks are together
what was due, and timings kept stand at their knee (`TunerInv`). The types of the evidence
need that a summary is filed under a context it could have been taken in. Assumed:
`DeskAssumption`, `TurnAssumption`, `ConfigAssumption`, `ValidationAssumption`,
`CandidatesAssumption`, `SplitsAssumption`, `TunerAssumption`, `BudgetsAssumption`.

*Comparison.* That a comparison agrees with the selection is two facts and an invariant.
The best qualified candidate exists, since ranks are a total order
(`PrecedesTotal`, `PrecedesTransitive`), and is adequate on its folds
(`WinnerIsAdequate`). In a fold the comparison counts as two-sided at least the days
the selection counted as such: a name a signal holds long is, in the book of that day, a
sum of terms none of which is short, unless signals of that book hold it both ways, and
such a sum is not zero (`SumFacts`, `NameIsHeld`, `BookIsTwoSided`, `FoldAgrees`). `ComparisonInv` keeps what the
selection knew beside the round, and that a comparison was made on the prices it names.
Daily results and weights are whole numbers, for every day of the calendar (`CandidatesAssumption`).

*Search.* Assumed besides: `OperationsGiveTrees`, that crossover, mutation and growth
give trees wherever the stream of draws stands. It speaks of every position of
the stream, so it is a hypothesis of the theorems and no `ASSUME`, which TLC would have
to evaluate; the definitions of `MCResearch` meet it. First what a generation is:
every way to make a child gives a tree and moves the cursors on (`ChildIsOK`), slots
fill without passing the limit of copies, scoring adds what it scored to
the cache and nothing else. `Straight[k][e]` is the search nobody interrupted after *k*
generations with the evaluator *e*. The invariant `SearchInv` says that what is in memory is
a whole search or, while a generation is scored, the variation of one, its base (`HeldOK`),
and that as long as nobody altered the search the base and the checkpoint are both
`Straight` at their generations with the evaluator they name (`Unbroken`). `HeldOK` and
`CheckpointOK` also say that all numbers of a search that is ready and of the checkpoint
come from the evaluator they name, under some measure, and agree with the cached ones
(`ScoredBy`); a search that still waits to be scored again (`outdated`) is excepted.
`KernelsDoNotMix` follows (lemma `Separate`). A stop returns to the base, a failure and
an exit to the checkpoint, so both are `Straight` again. Trials of the base are at least
the checkpoint's, which is `TrialsNeverShrink` at the next save.

Only model-checked:

* `WaitingEnds`, `AcceptedCancelEnds`, `ReservationsReleased`, `SegmentReleased`: the
  prover has no liveness under fairness and no `ENABLED`.

No module here declares a `RECURSIVE` operator, so that all of them can be proved about.

## 5. Plan

1. `Sessions`: a passing run of the whole session on what the composition does keep,
   with `create_session` and `delete_session` (`api/app.py` 5933: live-job check and
   directory removal against a continue), for whole sessions rather than their
   formulas.
2. Theorems of `Sessions`: the evidence's ledger while segments run, from the two
   components' invariants.

## 6. Not modelled, and why

Floating-point computation (fitness, statistics, backtests, evaluators) has no
shared state and is out of a model checker's reach; where control depends on its
result the result is a constant of the model (`Score`, `DailyIC`, `Sharpe`,
`Genuine`). Trees are names: crossover points, simplification and the types of
nodes are inside the functions that make one tree from others. `novelty_mode` is
off, as it is by default. Catalogs and explanations are data and text, and so is
what the language model is shown. Universe presets and snapshots are tables; the
rate limiter of `data/retry.py` has no caller. Of signals, a formula's sources and bindings, lookbacks
without a bound, files that fail their integrity check, the offline switch, the
relabelling of exclusions after a failed download, and what is made from a snapshot
(charts, portfolios, exports) are left out. Migration of documents
written by older versions is reduced to reads without fingerprints and to the
reserved universe name. File-system failures other than an exit in the middle of an
in-place write, a refused link and a refused unlink are not modelled; neither is the
network between client and server beyond requests arriving in any order. CPU and
memory detection are constants.
