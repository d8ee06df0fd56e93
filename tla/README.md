# A TLA+ model of AbaSIFT

AbaSIFT runs a YAML-defined graph of quality-check kernels over a dataset, batch by batch,
on a thread pool, and ends with a report. This directory holds TLA+ modules that model the
parts of it whose correctness depends on order, concurrency and failure, the TLC
configurations that check them on small instances, and proofs that TLAPS checks.

    tlc -config MCExecutorMut.cfg MCExecutor      # and the other .cfg files, see "Runs"
    tlapm ExecutorProofs.tla                      # and the other modules of "Proofs"

## 1. Inventory

All paths are under `src/abasift/`.

| component | state it keeps | operations | what makes it correct |
|---|---|---|---|
| **Executor** (`executor.py`) | the job's union and report; per batch, the unions and reports of the folded nodes, the pending nodes, the futures in flight | `run`: stream batches, run the DAG on the pool, merge the leaves, digest, stamp, commit | what a node sees depends on its ancestors alone; no verdict or artifact is lost in a merge; failures stay where they happened; the job ends; documents are complete |
| **ArtifactUnion** (`data.py`) | none (immutable values): data and the set of freed keys | `extended`, `union`, `with_mutations`, `without_transients`, `find_batch` | a join keeps everything but what was freed, and what was freed stays freed |
| **Report** (`report.py`) | checks per sample with a cached aggregate status; summaries | `apply`, `merge`, `is_alive`, `counts` | the cached status is the worst of the checks, after every write |
| **Pipeline** (`pipeline.py`) | the definition (immutable) | `from_yaml`, `from_dict`, `validated`, `topo_order`, `ancestors`, replacement conflicts, `to_dict` | what is accepted can be executed; what is rejected is wrong; an archived config loads again, to the same definition |
| **DiskCache** (`cache.py`) | a directory shared by processes; per-key locks of a process | `materialize`, `evict`, `forget` | no truncated file, one download per key and process, capacity kept, no call hangs |
| **Kernel contracts** (`kernel.py`) | `batch_stream`: the batch under construction | `SampleKernel.run`, `MutatingKernel`, `batch_stream` | one verdict per live sample, whatever `sift` does; every enumerated item is in one batch |
| **DataArchiver** (`kernels/archiver.py`, `kernels/_dump.py`) | the dump tree, which outlives a run | archive, free, commit | a replaced value is reachable through its handle; a retry overwrites what it wrote before and nothing else |
| **LazyRaw** (`lazy.py`, `decoders.py`, `payloads.py`) | a decode memo under a lock | `decode`, `release`, `local_path` | decoded once per batch, dropped afterwards |
| **Check kernels** (`duration.py`, `imu_spike.py`) | none | `sift`, `digest` | thresholds |
| **Frame stacks** (`kernels/frames.py`, `kernels/video.py`) | entries of the disk cache, the dump path | `sift` (nested `materialize`, a shared handle, a copy out) | every sift answers; an error has a cause outside; a dump that passed is whole |
| **Loaders** (`loaders/`) | none | enumeration | every file or directory in reach gets one answer, the lowest ones under `max_samples` |
| **Live view of a run** (`vis/live.py`, `RunView`) | counters and a version behind a lock | the observer's handlers, `snapshot`, the page's token | the counters are the report's; the page converges to the job's state |
| **Live view of a definition** (`PipelineView`) | the watched modules and their stamps; Python's module table | reload, describe, watch, the page's token | pages come to rest, on the current YAML and classes |
| **CLI, decoders, vendored DJI reader** | none | | out of scope |

How they interact: the loader yields batches to the executor's driver thread; the driver
submits nodes to the pool; workers run kernels, which read their inputs' union and report
(immutable, or copied when merged), decode `LazyRaw` streams through the process-wide disk
cache, and return results in futures that the driver folds. Archivers write to the dump
tree while batches run and in the commit pass. The driver tells an optional observer what
happens; the web server's threads read the observer. Worker *processes* share nothing but
the cache directory and the dump tree.

Hard behaviours: the driver and several workers interleave; branches fail and mutate
independently and join later; an exception on the driver has to wait for the pool; the
cache's steps interleave across threads and processes, and any of them may be the last one
of a dying process. `PROJECT.json` lists every hazard at its line, with the properties that
watch it or the reason why none does. Beyond that list: the part file of a dead process
takes disk space nobody reclaims (`cache.py:91`); two evictions at once may drop more than
needed (`cache.py:102`); the memo of a handle that a node published stays until the job's
union goes (`executor.py:131`); `node_started` is emitted at submission, so that queued
nodes show as running (`executor.py:205`); a second `Executor` may replace the process-wide
cache, whose locks are then other ones (`executor.py:61`). No text of the repository
promises anything there, and no property is stated.

## 2. Modules

    Maps                 Python dicts                   Dag   ancestors
    ArtifactUnion        data.py: operators             Report   report.py: operators
    Joins                executor.py's fold loops over both, as a state machine
    Executor             executor.py, SampleKernel.run, DataArchiver
    ExecutorProperties   what Executor promises
    QcJob                the abstract job: what a reader of the report relies on
    ExecutorRefinement   Executor implements QcJob
    Pipeline             pipeline.py: loading, validation, writing back
    Loaders              loaders/: operators            BatchStream   kernel.py: batch_stream
    DiskCache            cache.py
    FrameStack           frames.py, video.py and LazyRaw.decode, on top of DiskCache
    DumpTree             _dump.py and the writes of several attempts of a job
    LiveView             vis/live.py, RunView and the page's polling, on top of Executor
    PipelineView         PipelineView, the module table, pages and edits
    MC*                  instances for TLC

    DataLemmas           maps, positions, joins of unions and reports
    JoinsProofs          Joins
    PipelineProofs       Pipeline
    ExecutorProofs       Executor, that it implements QcJob, and LiveView's counters
    CacheProofs          DiskCache and FrameStack
    DumpTreeProofs       DumpTree
    BatchStreamProofs    BatchStream and Loaders
    PipelineViewProofs   PipelineView

**ArtifactUnion, Report.** Both classes are values to the rest of the code, so they are
operators. A union is `[data, deleted]`; a key is opaque; a value's `kind` tells the live
`Batch`, a `LazyRaw` handle and plain data apart. A report is `[check, status, summary]`,
where `status` is the *cached* aggregate, kept apart from the checks because the code keeps
it apart: `Apply` and `Merge` recompute it exactly where `apply` and `merge` do.
Measurements, thresholds and wording are left out.

**Joins.** The executor folds unions and reports in a loop. `JoinAll`, `JoinConflict` and
`MergeAll` are closed forms of these loops, which a proof can work with; `Joins` runs the
loops turn by turn and checks that they compute the closed forms.

**Executor.** `phase` says where `run()` is. The driver's actions are `NextBatch`,
`SourceExhausted`, `SourceRaises` (the generator's three outcomes), `Submit` (one turn of
the submission loop, inputs joined on the spot, which may raise), `Fold` (what one `wait`
returned), `MergeBatch` (leaf merge and job merge, which may raise), `Unwound` (an exception
leaves the `with pool` block when every future has run), `Digest`, `DigestRaises`, `Stamp`,
`Commit`, `CommitRaises`, `JobFinished`. The pool's are `Start` (a free worker takes the
oldest submission) and `Run(n)`: `JudgeSamples`, `Archive`, `Free`, or `RunRaises`, the
whole-node failure. A worker reads only what was captured at submission and writes only its
own future, so one step per kernel run loses no interleaving that the union or the report
can tell. A verdict is a free choice: every outcome of `sift`, an exception included, is one
of `Verdicts`. `Faulty` names the nodes whose own code may raise outside the per-sample
failsafe. Handles carry no batch number because an archived URI is a function of the key.
The executor starts from `PipelineAssumption`, which is what `Pipeline` is checked to
establish (`AcceptedIsRunnable`).

**QcJob, ExecutorRefinement.** `QcJob` knows no pool, union, merge or cached aggregate: a
batch is judged in one step (`Judge`), each checker judging exactly the samples that nothing
upstream of it condemned, or failing as a whole; verdicts stand; documents, once published,
hold every verdict and summary and a count taken from the verdicts themselves. The mapping
lets a batch count as judged when `MergeBatch` has merged it: `arts` is empty exactly
outside of a batch, so `Merged` is `batch` or one less. Submissions, kernel runs and folds
are stuttering steps. `ImplementsQcJob` replaces several properties of earlier versions
(who is judged, fresh statuses, complete documents, batches that stand), all of which follow
from it.

**Pipeline.** A document is what YAML gives: which keys it has, scalars that need not be
strings (`1` is not `"1"`), null and empty values. `FromDict` refuses it or makes the
definition, `validated()` is the sequence of checks it makes, the first one that fails
rejecting, `topo_order` one turn of its loop per step, and `ToDict` writes it back.

**Loaders, BatchStream.** A tree maps the files that exist to sizes, some of which a listing
may not give; a file is told by its directory, stem and class of extension. `find` lists a
tree in order, `ls` in any order (`Listings`). `_enumerate` is pure, so the loaders are
operators: the loop over the listing is a recursive function, a sort puts each element where
as many others come before it (`Ascending`), and `max_samples` is Python's slice, negative
numbers included (`Kept`). `BatchStream` lists in one step and then takes one item per turn
of the loop, and may raise anywhere (`Raises`).

**FrameStack.** DiskCache's threads are *frames*: a kernel's thread has one for its call of
`materialize` and one for the call its fetch makes, so both locks, the part files and the
evictions are those of `DiskCache`, unchanged. `at` says where in its sift a thread is.
`Breaks` is what fails from outside (a codec, a read, a write: at most `Faults`),
`CrashAndRetry` ends a process anywhere in its batch and starts it anew on what is on disk.
`release` runs on the driver after every future of the batch is folded, so it meets no
decode and is left out.

**DumpTree.** The tree maps a path, a sequence of segments, to what the last write left
there. An attempt opens (which truncates) and closes its files one by one, objects first,
then the documents; it may fail or be killed at any of them. A write that fails costs a
dumping kernel (`Dumpers`) one sample, after which it goes on, any other node all of its
objects, and the commit pass the job (`WriteFails`). `Edit` changes the YAML at any time. A
definition stands for its hash.

**PipelineView.** `loaded` is `sys.modules`: it maps a module to the classes it holds, by the
module that defines them, each as the version of the source it came from. A package
re-exports from modules in it (`Package`), one level deep: the code finds the packages to
reload with a changed module by the prefix of its name. Importing a module imports its
package first; an import that fails leaves in `sys.modules` what it had imported on the way.
A request is a thread, and `_reload_changed` takes no lock; each place where a request reads
or writes a file or shared state is a step, and edits and other requests come in between.

`importlib.reload` is external code, modelled from CPython's: a module that another thread is
reloading (`_RELOADING`, here `Reloading`) is returned at once, unexecuted (`SkipReload`);
one whose package is not there raises, which the code logs (`ReloadRaises`); otherwise the
source is read (`Reload`) and executed in the module that everybody sees, which binds one
class after the other (`Bind`) until it is done or fails (`Reloaded`). Whichever it was, the
request then takes new stamps of all that is watched (`Stamp`) and assigns them (`Restamp`),
over what another request may have assigned meanwhile; it goes on with `ReadYaml`,
`ImportKernel`, `Describe` and `Watch`. Two histories name what the code cannot notice:
`unseen`, the modules whose last edit no request compared with its stamp or could load, and
`skipped`, those that a request has since found under another one's reload. An edit is a new
version that does or does not execute. An answer may be lost, the server restarted.

**DiskCache.** Each system call and lock operation of `materialize` and `evict` is an
action, so that calls of other threads and processes come in between. A file has a
modification time (a counter, ticking where the code's clock does), a flag `whole` and the
process that put it there. Locks are per process. `Crash(w)` ends a process at any step:
its locks and its threads' calls are gone, the directory stays. The part files of a dead
process are dropped from the model: their names hold its pid and thread, and `evict` skips
part files, so no step of the code ever looks at them (they do take disk space, a hazard).

**LiveView.** Executor with its observer and one browser page. `LiveJob` is the record
`live` and the counter `version`; each handler is an operator that sets both, because the
code holds the lock throughout. An event is part of the driver's step that emits it, except
`node_finished`: one `wait` may return several futures, and page requests come in between
their events (`due`). `Open` and `Opened` are the two locked reads of `RunView.model`,
`Poll`, `Pull` and `PullFails` one turn of the page's loop. `Pull` reads the snapshot alone:
the token that `/body` computes is not sent. Counts per check name are left out
(a kernel's verdict is one check), and so is the elapsed time, which has no token.

## 3. Runs

| run | instance | what it shows |
|---|---|---|
| `joins` | up to three inputs over two keys, and over two checks of one sample or one check of two | the loops compute the closed forms; a join loses nothing and resurrects nothing; a sample dead on one branch is dead after the join; input order does not matter |
| `executor_mut` | seven nodes: a diamond, an archiver, a freeing node and a sibling leaf; two batches, one with an enumeration finding; source and two kernels may raise; two workers | views are the ancestors', whoever finishes first; the leaf merge loses nothing, mutations win and frees hold; the job completes, and implements `QcJob` |
| `executor_clash` | six nodes where a join meets a raw and an archived value, two samples in one batch; digests and commits may raise | `run()` always ends, returning or raising; once it has raised no kernel runs; it implements `QcJob` all the same |
| `pipeline` | all graphs over three and four names, repeated and unknown names, every class on a chain, three archivers connected and globbed in every way, two-node documents with numbers for names, unknown keys, bad params and every form of `cache` | accepted means runnable, "cycle" means cycle, YAML order breaks ties, replacements never race, an archived config loads to the same definition, loading ends |
| `disk_cache` | three threads of two processes, a large and a small object, capacity for one large, three calls, one crash | no truncated entry, one download per process and key, no part file left, capacity kept once evictions are done |
| `live_view` | a source and two checks, one worker, a batch with a sample and one with nothing but a finding, one page | the counters agree with the job's report at every moment; a page that has once seen that it is behind ends up on the finished job |
| `loading` | every tree of up to four of seven files in three directories, sizes 0 to 2 or not given; both loaders, both orders, with and without recursion, `max_samples` none, 2 and -1, batch sizes 0 to 2; every order of `ls`; an exception anywhere | each sample and each finding is in the one batch it belongs to; batches are full; the largest video and its own sidecar make the sample; under `max_samples` the lowest are answered |
| `frame_stack` | two threads of one process that renders, dumps, reads and frees, one thread of another that renders and frees; one video; capacity for the stack and one more; one fault, one crash and retry | every sift answers; an error has a cause outside of the kernels; a dump that passed is whole |
| `dump_tree` | a definition with two archived objects and one with two dumped videos, both with an explicit target, and one without; three attempts, two edits, two seconds | handles read back; a finished run's files change only by a retry of the same definition; an attempt that ends well heals what earlier ones left |
| `pipeline_view` | two pages; one kernel imported through the package that re-exports it and one from the submodule; a YAML that names either or is broken; one edit, one restart, any of the files broken at the start | pages come to rest; at rest they show the current YAML and classes, but for edits nobody compares or can load, and modules found under another request's reload |

Two runs are expected to fail: `sibling_conflict` and `returned_path`, see the next section.

**Bounds.** Two samples or two batches are enough for one to fail while another goes on,
and for a later batch to disturb an earlier one. Two workers are enough for any two nodes
to finish in either order. Three inputs of a join are enough for a key to be freed, carried
and carried again. In the cache two threads of one process race for a lock while a third,
in another process, inserts and evicts; `MaxCalls` and `MaxCrashes` only bound how often,
and the small object lets an eviction choose. `Verdicts` are `pass` and `error` because the
control flow asks only whether a status is `error`; the order of all four is in `Joins`.
The globs of `pipeline` are those for which `_globs_overlap` is exact, that is where one of
two overlapping globs matches the other; for pairs such as `dur/*` and `*/s1` the code's
comment says that it does not try, and the model would show `NoParallelReplacement` fail.

A tree of four files has a directory with two videos and a sidecar beside another sample, and
a first and a second batch. In `frame_stack` the capacity makes the video and the stack evict
each other, and the encode the stack; one fault is enough to fail at any point, and the crash
and the fault meet. A process that crashed goes on alone (`Alone`): two processes after a
crash are two processes. `dump_tree` needs an attempt that leaves something, one of another
definition in between and the retry; the clock ticks between runs only, because a run reads
it once. For `pipeline_view` one edit can fall at any step of either page's request, and
either request into any step of the other's reload or restamp. In `executor_clash` a digest
raises where its node is `Faulty`; that of a node with archived artifacts would raise at the
same place, but no node of the instance is one.
`MCPipelineViewWide.cfg`, to be run by hand, has a package that re-exports from two modules,
a third kernel in a module of its own, a YAML that names any of them, one page, two edits
and a restart, and `MCPipelineViewBoth.cfg` the two pages of the run and a YAML that may also
name both kernels; they hold as well.

One page is enough for `live_view`, because pages only read; two parallel checks make two
`node_finished` events of one `wait`.

**Fairness.** The driver waits only for a future; a free worker takes work; a kernel that
was started returns or raises (a kernel that hangs hangs the job: there is no timeout). In
the cache a thread that can take a step does, and a fetch returns or raises. A CPython lock
is not fair, but with a bounded number of calls a thread cannot be overtaken for ever,
so weak fairness of each thread's steps suffices.
An open page polls for ever and its requests are answered or fail (weak fairness); that not
every answer is lost is strong fairness of `Pull` and, in `PipelineView`, of `Answer`. The
server outlives the job until the user stops it (`_hold`), and ends at once only with an
exception that leaves `run()`. Edits, faults, crashes and lost answers have no fairness. In
`FrameStack` each sift's own steps are weakly fair: a codec returns or raises, and the locks
are free of overtaking for the reason above.

**Deadlock** is checked in the executor runs and `live_view` (`Ended` stutters when `run()`
is over). It is off elsewhere, where a behaviour stops because the inputs, calls, attempts
or edits run out; there the liveness properties take its place.

## 4. Where the code and its documentation disagree

Each is shown by a configuration whose property TLC finds violated. Two are runs, for which
`PROJECT.json` quotes both sides:

- `sibling_conflict`: a conflict in a join raises out of `run()`, though the documents say
  that nothing but a `digest()` may;
- `returned_path`: `materialize` may return the path of a file it has just evicted.

The others are to be run by hand:

- `MCExecutorSameId.cfg`, `EarlierBatchesStand`: two batches with one sample id overwrite
  each other's verdicts; `report.py:118-119` says that keys are disjoint across batches, and
  `FlatDirLoader` gives `a.mp4` and `a.mov` one id;
- `MCExecutorFreeAll.cfg`, `EverySampleAnswered`: a check node below a node that freed the
  `Batch` fails and marks nobody; `executor.py:22-23` says that it marks every live sample;
- `MCLiveViewOpened.cfg`, `OpenPageKeepsUp`: a page whose two reads fall on the two sides of
  `job_finished` shows the unfinished job for ever; `server.py:10-12` says that it keeps up;
- `MCBatchStreamTies.cfg`, `OrderIsDeterministic`: with `order: size`, files of one size keep
  the order in which `ls` lists them, and so `max_samples` picks others on another machine;
  `flat_dir.py:32` says "always deterministic";
- `MCDumpTreeConfig.cfg`, `ConfigIsTheDefinition`: the YAML is copied when the job commits;
  one edited since the job was loaded ends up in the directory of a hash that is not its
  own, and `archiver.py:125-126` says that the hash asserts it;
- `MCDumpTreeSecond.cfg`, `DefaultRunsNeverCollide`: two runs of one job that start within a
  second share a directory; `_dump.py:80-81` says that nothing can collide;
- `MCPipelineViewError.cfg`, `ErrorIsCurrent`: a module that fails to import is not watched,
  so that correcting it moves no token, and the page keeps its error until something else
  changes; `server.py:111-112` and `vis.md:60-61` say that the next poll replaces it;
- `MCPipelineViewReload.cfg`, `EveryReloadCounts`: a module is edited while no request is at
  work, and two pages poll. Both requests find it changed; one is executing it when the
  other's `importlib.reload` returns at once (`server.py:100`), stamps it (`server.py:104`),
  describes the class from before the edit and answers. Its page holds the token of the files
  as they are and keeps the old class until something else changes; `server.py:81` says that
  the reload keeps signatures honest, and `server.py:43-44` that nothing there can be stale;
- `MCPipelineViewPackage.cfg`, `ParentPicksUpTheChild`: as above, but the request that skips
  the submodule goes on to its package, which takes the old class from the submodule that is
  still being executed; and the other request, done with the submodule, skips the package if
  the first is still in it. No request is at work any more, the stamps are those of the files,
  and the package holds the old class for every page, also for those opened later;
  `server.py:91` says that the parent picks up the new child.

Three more were met without a configuration. `_instantiate` calls a bad param "a load error",
and `design.md:168` agrees, but only a mutating node is instantiated by `validated()`: any
other one raises from `run()`. And two directories of one basename are one sample for
`EgoverseDjiLoader`, which counts on md5 names. And the page of a pipeline may show a class
that its source has long replaced, with its token at rest (`server.py:43-44` says that
nothing there can be stale): a package that fails half-way leaves a module of its own
imported, where a YAML that names a kernel by that module finds it; once the module is
edited, `_reload_changed` cannot reload it for lack of the package, logs that
(`server.py:102-103`) and stamps it all the same (`server.py:104`), so the page goes on with
the old class. The proof of `SettledIsCurrent` met this, and the property counts such an
edit as unseen.

`MCDiskCacheLive.cfg` (`EveryCallReturns`) is `DiskCache`'s own liveness, which
`EverySiftAnswers` now carries through nested calls; it holds.

## 5. Proofs

TLAPS checks the following for every value of the constants that the assumptions allow:
every graph, every number of batches, workers, threads and processes, every document.

| module | theorems, and the property each states |
|---|---|
| `JoinsProofs` | `LoopsAreClosedForms` (`ClosedForms`), `JoinsAreUnions` (`JoinIsUnion`), `NobodyRises` (`DeathSurvivesTheJoin`), `InputOrderDoesNotMatter` (`OrderIrrelevant`) |
| `PipelineProofs` | `AcceptedRuns` (`AcceptedIsRunnable`), `CyclesAreReal` (`CycleIsReal`), `TiesFollowTheYaml` (`YamlBreaksTies`), `ArchivedConfigLoads` (`ConfigsAgree`), `ReplacementsAreOrdered` (`NoParallelReplacement`) |
| `ExecutorProofs` | `TypeCorrect` (`TypeOK`), `NodesAccountedFor` (`Partition`), `SchedulerNeverStuck` (`NeverUnreachable`), `RaisedMeansQuiet` (`RaisedIsQuiet`); `InputsAreAncestors` (`ViewIsAncestors`), `NothingLostInTheMerge` (`LeavesCarryEverything`), `HandleOutlivesRaw` (`MutationWins`), `DeletesStand` (`FreedStaysFreed`); `ImplementsTheJob` (`ImplementsQcJob`); `CountersAreTheReport` (`TallyIsReport`) |
| `CacheProofs` | `NeverTruncated` (`NoTruncatedFile`), `SingleFlight` (`DownloadOnce`), `NoPartsLeft` (`PartsAreCleaned`), `Settles` (`SettlesUnderCapacity`); `ErrorsAreCaused` (`ErrorsHaveACause`), `PassedDumpsAreWhole` (`PassedDumpIsWhole`) |
| `DumpTreeProofs` | `HandlesAreGood` (`HandlesReadBack`), `EvidenceIsKept` (`EvidenceStands`), `RetriesHeal` (`RetryHeals`) |
| `BatchStreamProofs` | `BatchesAreSized` (`BatchesAreFull`), `NothingLost` (`StreamIsWhole`); `LargestWins` (`LargestVideoWins`), `LowestAnswered` (`LowestAreAnswered`) |
| `PipelineViewProofs` | `SettledPagesAreCurrent` (`SettledIsCurrent`) |

They build on each other: `AcceptedRuns` is what `PipelineAssumption` takes for granted,
`LoopsAreClosedForms` is why the executor's joins may be closed forms, the invariants of the
scheduling and of what flows along the graph are the ones the refinement needs, and the live
counters need the refinement's.

**Joins.** Invariant (`LoopInv`): what the loop has is the closed form of what it has
folded, and no turn so far met a conflict; one turn takes the closed form of `m` results to
that of `m + 1`. The loops are unbounded, the argument is the invariant, not an induction.
For the reverse order: which values survive a join depends on the set of results that freed
a key, not on their places, and two that both carry an unfreed key carry the same value,
or there is a conflict. `ResultsAssumption` says that results are reports in a state
`apply` leaves them in, with the cached status up to date, which `ExecutorProofs` proves of
the executor's (`Fresh` in `View`).

**Pipeline.** The invariant says what the checks passed so far have established
(`Checked`), that every placed node follows its inputs (`Topological`), that ties are broken
as they are listed (`Stable`) and that the definition is the document's (`AsWritten`). A
turn appends the ready nodes by rank (`InYamlOrder`), which needs no induction over the list.
That the order makes the graph acyclic, and that everything descends from the source, comes
from the member of a set of nodes that is placed first: all its inputs are outside of the
set. `DocumentAssumption` says what a document of YAML is: `nodes` is a list, a name is falsy
or has a text, `str` of a text is that text, and `float` likewise; without the last two a
config would not load to itself. `ReplacementsAreOrdered` has the hypothesis
`OverlapsAreSeen`: the globs of the documents are those `_globs_overlap` compares exactly.
Without it the statement is false, which is a listed hazard; TLC's instance satisfies it.

**Scheduling.** The invariant is `TypeOK /\ Partition /\ Quiescent`.
`TypeOK` alone is not inductive: the leaf merge reads `arts` at every leaf, and only
`Partition` says that they are all there when nothing is pending or in flight.
`NeverUnreachable` adds an argument on `Order`: the pending node placed first has all its
inputs placed before it, none of them is pending, so they are folded or in flight; if
nothing is in flight they are all folded and the node is ready.

**What flows along the graph.** `Flow` says of every folded node, and of every future, that
its report and union are its ancestors' work and its own (`MadeBy`, `FoundBy`), agree with
each ancestor on what that ancestor found (`Agree`), and hold whatever an ancestor's union
held, or a handle that succeeded it, or know that it was freed (`Kept`). Folded results never
change, so a step only has to show it of the node that moves: a submission joins inputs that
have it (each ancestor is an input or an ancestor of one), a kernel adds its own. It is this
invariant, not `ViewIsAncestors`, that is inductive: futures must have it before they are
folded, and the union's half needs the deleted sets. The leaves carry everything because
every node is a leaf or upstream of one, the last of those it reaches in `Order`. That the
job's union holds nothing freed (`JobUnion`) survives the commit pass because documents are
the archivers' keys, and a freed key is never one: `JobAssumption` states that only a
`DataArchiver` in archive mode writes documents.

**The refinement.** Four more invariants. `Judging`: whoever is folded or in flight has the
`Batch`, and whoever has run has answered for exactly the samples none of its ancestors
condemned, or failed as a whole. `Timely`: no node sees another batch, nor a sample of one.
`JobRecord`: documents are written in `Order`, after every digest and the stamp; the report
is aggregated and speaks about samples of merged batches only. `Silent`: only a digest and a
failing source write summaries. `MergeBatch` is then `Judge`, `SourceRaises` and `Digest`
are `Summarise`, `Commit` is `Publish`, and every other step a stutter or the end.

It holds under two hypotheses, and the code needs both. `DistinctIds`: no two batches share
a sample id, as `report.py:118-119` says; `MCExecutorSameId.cfg` shows what happens without.
`BatchIsKept`: no archiver's globs match the `Batch` itself; `MCExecutorFreeAll.cfg` shows
what happens without. The instances of the runs satisfy both.

**The live view.** Watching changes nothing (`WatchedIsTheJob`: every step of the watched
job is one of the job or a stutter), so the executor's invariants carry over. A batch's
counts may be added to the page's because its verdicts are new to the report: the report
speaks about merged batches (`JobRecord`), the batch about its own samples (`Timely`), and
no sample is of both (`DistinctIds`, again a hypothesis).

**DiskCache.** The invariant says that whoever is between taking and releasing a lock holds
it alone in its process (`Exclusion`), that a part file exists exactly while its thread
downloads and is whole when it is about to be renamed (`PartsInStep`), and that the key
being downloaded has not been put there by the same process (`NotOurs`), which holds because
only the holder of the lock inserts.

For the capacity (`SettleInv`), a running total that is only ever reduced says nothing by
itself: other threads insert and drop while an eviction lists, sorts and unlinks. What is
invariant is `Settling`: as long as no process died, the directory fits, or some thread's
eviction is still to come or covers it (`Clears`), that is, every file there is one it has
still to look at or may still drop, and its total counts those it has looked at. An
insertion makes its own thread such an eviction, because it is about to list; a file that
appears during one has its inserter's. An eviction that stops has the rest of its list under
the capacity, and what others dropped meanwhile only helps. That the sum of the sizes grows
by the size of a file put in is shown by a least set for which it would not.

**FrameStack.** That an entry was returned does not mean that it is still there, so nothing
like "the path exists" is invariant. `SiftInv` says, at each place of a sift, which entry it
counts on, and that its process still finds that entry or has been disturbed: something
failed, or another eviction took it (`Claims`). A first decode counts on the stack that a
`frames` node of the same process made long before; that no archiver has freed it is a fact
about the graph, and `Begun` and `Recorded` say it of the verdicts: nobody frees while a dump
or a check is unanswered. Every step of one thread leaves what the others count on alone
(`Only`), so each action is looked at for its own thread. The nested call needs the
outer one's place and the inner one's together (`Place`).

**DumpTree.** The tree is written by one attempt at a time, so the argument is about paths: two
writes of one attempt never share one (`NamesApart`), two attempts share one only if they
are of one definition, and whatever is on disk was put there by some attempt (`Traced`).
`HandlesAreGood` and `RetriesHeal` need `InHand`, that what the attempt has written so far
stands, and with it the hypothesis `NamesApart`: `flat_name` gives the keys of one node
different segments, and no object the name of a document. The code does not see to it (a
listed hazard: `a/b` and `a__b` flatten to one); TLC's instance satisfies it.
`EvidenceIsKept` needs no hypothesis.

**BatchStream.** What the loop over the listing and the concatenation of the batches compute
at `n` is proved by the least `n` at which it would be otherwise; sorts by rank need only
the sizes of finite sets. Between two turns of the loop less than a batch is held, and
nothing at all where each item is a batch of its own (a batch size of zero or less); the
batches yielded are sized and numbered, and only one yielded at the end of the stream holds
fewer. For `NothingLost` the invariant (`StreamInv`) adds what has become of each item
taken: the samples yielded and those held are the samples taken, in order, and each finding
is where `BatchOf` puts it, or is held. As every batch so far is full, the number of samples
before a finding tells its batch.

The items come from one listing (`Listed`): it holds each file of the tree in reach once,
with its size, in whatever order (`IsListing`). A group says of the part of the listing
looked at so far what its directory's largest video and its sidecar are (`Describes`), and
each directory with a file in that part has one group (`Groups`). The chosen items are the
first of a sorted sequence, so whatever was left out comes after them (`LowestAnswer`).
`LargestWins`, and `LowestAnswered` for `EgoverseDjiLoader`, have the hypothesis
`NamesAreUnique`: no two directories but the root share a basename, which is what the loader
counts on (`egoverse.py` says that the names are md5). Without it two directories are one
sample (section 4). The instance of `loading` satisfies it.

**PipelineView.** The invariant is `ViewInv`. Of a module and a class it holds, `Current`
says that the class is the one its source defines now, or a source is broken or its edit
missed (`Missed`: unseen or skipped), or the module is `Pending`: every request that is past its look,
or is yet to look, has it in front of it, still to be executed, or is executing it from the
source as it is and has not bound that class yet. Skipping is what may end this without an
execution, and that puts the module in `skipped`; so whoever stamps, imports or describes
finds nothing pending but what is excused. A package takes the class its submodule holds at
that moment, and that one is no longer pending because no module still to be executed is in
one that is executing (`Executes`): deepest first is needed here.

`Good` is about a token and what is shown with it: as long as the token speaks about the
files as they are, what is shown is right, or else a module of the YAML's has come to be
watched that the token does not know of, and then the page's next poll pulls again. The
second half is needed because a page keeps the token it asked with, which was taken before
its own request, or another's, watched what it describes. And a token may speak of less than
is watched, or of more: a restamp that is under way writes back what was watched when it
began (`Outgrown`, `Beyond`), so `Good` looks at the stamps that are about to be assigned
as well as at those that are.

What `unseen` must cover came out of this proof: an edit that cannot be loaded for lack of a
package (section 4), and an edit of a module whose class a package holds that nobody watches.

Assumptions on constants: `PipelineAssumption`, `WorkerAssumption` and `JobAssumption` in
`Executor`, `CacheAssumption` in `DiskCache`, `FrameAssumption` and `RunsAssumption` in
`FrameStack`, `ResultsAssumption` in `Joins`, `DocumentAssumption` in `Pipeline`,
`DumpAssumption` in `DumpTree`, `FilesAssumption` in `Loaders`, `ParamsAssumption` in
`BatchStream`, `ViewAssumption` in `PipelineView`. TLC evaluates them on the instances of
the runs.

Model-checked only:

- liveness (`JobCompletes`, `JobEnds`, `Decides`, `PulledPageKeepsUp`, `EverySiftAnswers`,
  `PagesSettle`): fairness and ENABLED are out of the proof system's reach.

Every invariant that a passing run checks is stated by one of the theorems above.

## 6. Not modelled

YAML's syntax, formatting, numeric thresholds, container formats and frame selection; the
CLI's arguments and its output; the description and the rendering of a page, which are pure
functions. That `extended` raises on a present key and `with_mutations` on an absent one: a
kernel writes under its own node's name and archives what it matched, so neither is
reachable. Node names and sample ids are opaque, so names that contain `/` (which would
break the namespaces) are not covered. `key_for` and, in the instance of `dump_tree`,
`flat_name` are injective; the latter is not in the code, a listed hazard. A handle's hash
and equality are its URI, decoder and options, all functions of the key here. A pipeline
built in code has no YAML to edit: `DumpTree` models the one that has. `inputs` that are not
a list (a string is taken letter by letter) are left out of `Pipeline`'s documents. Packages
more than one level deep, and a package that re-exports from outside of itself, are not
covered by `PipelineView` (of `abasift.kernels.video` the package is `abasift.kernels`;
`abasift` above it is the server's own, and always there). In the same module a first
import, and the reading of all classes for one description, is each one step (Python's
import lock makes other threads wait for a first import; by `Current`, no class that counts
changes while a request describes); that a reload takes the module out of `sys.modules` and
puts it back at once when its body has run is left out, and so are the compiled files that
Python may use for a source edited within one second to the same size. A kernel's fetch over
the network is a step that returns or raises; object stores, whose writes are atomic, are
the local case without truncated files.

## 7. Plan

Done: the modules above, their runs, and the proofs of section 5. Left:

1. Packages of any depth in `PipelineView`, and packages that re-export from elsewhere.
2. The liveness properties, for which the safety halves (`NeverUnreachable`, `RaisedIsQuiet`,
   `SettledIsCurrent`) are proved: a progress argument needs fairness and ENABLED.
