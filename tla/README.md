# GoRAGlite in TLA+

A verification development for GoRAGlite: TLA+ modules of the parts whose
behaviour is decided by interleavings, failures and ordering, TLC configurations
that model-check them on small instances, and theorems TLAPS proves for every
value of the constants.  Paths are relative to the repository (`internal/...`).
`PROJECT.json` maps every definition to the lines it models.

## 1. The system

Files are *ingested* (copied to storage, one row of `raw_files`), *workflows*
are executed over them, each run in a database of its own, finished runs are
moved to a queue, and the *merger* integrates them into `corpus.db`.

| Component | State | Operations | Interacts with |
|---|---|---|---|
| Merger `internal/merger` | `running`, `stopCh`; run files in `queue/{pending,done,failed}`; the corpus tables | `Start`, `Stop`, `ProcessOne`, `processBatch`, `mergeRun`, `RetryFailed`, `GarbageCollect`, `Status` | database layer (one connection, attached run), file system, orchestrator (fills the queue) |
| Database layer `internal/db` | one pooled connection, `attached` map, pragmas | `Open`, `CreateRun`, `Attach`, `Detach`, `Transaction` | everything that touches SQLite |
| Orchestrator `internal/orchestrator` | `raw_files`, stored copies, `workflowMap` | `Ingest`, `IngestDir`, `ProcessPending`, `Search`, `SetWorkflowMapping`, readers | engine, file system, queue |
| Engine `internal/workflow/engine.go` | a run database and its `_run_meta.status` | `LoadWorkflow`, `Run`, one `execute...` per operation | loader's tables, extractors, run database |
| Loader `internal/workflow/loader.go` | `workflows`, `workflow_steps`, `workflow_tags` | `LoadBuiltins`, `LoadFromFile`, `Activate`, `Deprecate`, `Delete`, `Clone` | engine |
| HOROS bus `pkg/horosbus` | `tasks`, `heartbeats`, `logs` | `SubmitTask`, `ClaimTask`, `CompleteTask`, `FailTask`, `SendHeartbeat`, `MarkDead`, `Deregister`, `Log` | several processes on one file |
| Egocheck `pkg/egocheck` | `ego_manifests` | `Run`, `StoreInDB`, `LoadFromDB`, `Verify` | file system |
| Extractors `internal/extract` | none (pure functions) | one `Extract` per format | engine |
| Vectors `internal/vector` | index, vocabulary | hashing, TF-IDF, blending, top-k search | none in this tree |
| Command line `cmd/raglite` | none | `init`, `ingest`, `process`, `search`, `status`, `run`, `inspect`, `gc`, `export`, `workflows` | all of the above |

### What is hard, and what must hold

* **Merger.**  A merge is some fifteen database calls.  Between any two of them
  the process may crash, the context may be cancelled, the pool may replace the
  connection, and another goroutine may merge another run through the same alias
  `run_src`.  The corpus must change by whole runs, each once; no output may be
  lost; the queue must drain; a run that depends on older runs must find them.
* **Orchestrator.**  `Ingest` hashes a file, looks for its row, copies it and
  inserts the row, with no lock over the four: a row must have its stored file,
  with the content the row names.  `ProcessPending` must reach every pending file,
  though a merge that somebody else makes decides when a file is done.
* **Engine and loader.**  A run that is `completed` has executed the steps of one
  version of its workflow; `on_empty` is obeyed; a failed run is never queued.
* **Bus.**  A task is given to one worker, its final status is final, the oldest
  task is taken first, and no claim is starved by the other writers.
* **Egocheck, extractors.**  Algorithms: blocks are nested, a plain function is
  whole, the text of a page is kept, positions are unique, a changed file is
  reported and no other.

`PROJECT.json` lists each hazard at the line where it bites, with the properties
that would catch it going wrong.  Where a property has the hazard in its premise, or
the code simply does what it should not, a note says so instead: such a hazard is
in the model and no property is claimed for it.

## 2. The modules

| Modules | Part | Abstract specification | Proofs | Instance |
|---|---|---|---|---|
| `CorpusTables`, `Merger`, `MergerInvariants` | merger on its database layer | `AtomicMerge` | `MergerProofs` | `MCMerger` |
| `Ingest` | ingest of files | - | `IngestProofs` | `MCIngest` |
| `WorkflowStore`, `Engine` | loader and engine | `RunRecord` | `EngineProofs` | `MCEngine` |
| `HorosBus` | bus | `TaskQueue` | `BusProofs` | `MCHorosBus` |
| `Pipeline` | orchestrator and command line, composed with ingest, engine and merger | - | `PipelineProofs` | `MCPipeline` |
| `CodeExtractor` | parsers of code | `Extent`, a definition over the whole document | `ExtractorProofs` | `MCDocuments` |
| `DocumentExtractor` | PDF, DOCX, XLSX | - | `ExtractorProofs` | `MCDocuments` |
| `Egocheck` | manifests | - | `EgocheckProofs` | `MCDocuments` |

`Induction` has the induction over the natural numbers that the last two proof modules
cite (section 8).

`Merger`, `Engine` and `Ingest` are the parts in detail, call by call.  `Pipeline`
puts them together and takes an ingest, a run's outcome and a merge as one step
each; what justifies that is what is shown of the detailed modules: a merge is
atomic (`AtomicSpec`), a run ends with a status that is true (`RunRecorded`,
`StatusTold`), the queue drains (`QueueDrains`).  This is an argument and not a
refinement: no run checks that the composition of the three implements `Pipeline`.  Of a merge
that is not all good `Pipeline` keeps what can outlast it: an alias that stays
attached (`wedged`).

Definitions whose comment begins with "Mistake:" are what a plausible slip in the
code would make of the definition below them.  No specification uses them;
`PROJECT.json` lists which property each of them violates.

## 3. The merger

### The modules

| Module | Content |
|---|---|
| `CorpusTables` | the tables a merge writes and each of its statements as an operator on them |
| `AtomicMerge` | the promise: the corpus changes by `Integrate(r)`, once per run, or `Import(f)` |
| `Merger` | the code: one action per database call, the loop, the callers, the environment; the properties |
| `MergerInvariants` | the inductive invariants: `IInv`, and `QueueInv`, which adds the order of the queue |
| `MergerProofs` | the proofs |
| `MCMerger` | the instances |

### How state and actions correspond to the code

* `running`, `stopClosed` are `Merger.running` and whether `stopCh` is closed.
* `pc[a]`, `cur[a]`, `result[a]`, `cancelled[a]` are the stack of an actor: where
  it is, the path its `mergeRun` was called with, the error it will return,
  whether its context is done.  Actors are the loop and the goroutines that call
  `ProcessOne`.
* `dirs[d][r]` is the file of run `r` in directory `d`: none, the run database, or
  the empty database that `ATTACH` creates when there is no file.
* `attached` is the entry of `DB.attached`; `conn` is the one connection of the
  pool: what it really has attached and whether its `foreign_keys` pragma is on.
  The two disagree after a failed `DETACH` or a replaced connection.
* `corpus` is what is committed, `work` what the open transaction sees.  A table
  maps a key to the run its row came from; `raw_files` maps a file to its status.
* `faults` is the budget of environment steps: `crash`, `cancel`, `recycle` (the
  pool replaces the connection), `stop`, `retry` (`RetryFailed`), `error` (a call
  fails and the code sees it), `swallowed` (a query fails and the code ignores it).

Each statement of the transaction is an action; a failing one is `Rollback`.
`NoTx` guards every other use of the connection, because the pool has one
(`db.go:62`) and a transaction holds it.  `SkipTable` is the query of
`sqlite_master` failing, which the code reads as "no such table".  `MoveRun` is
the rename after a merge, whose error is ignored.  `StopPanics` is `close` of a
closed channel, which ends the process.

`RetryFailed` and `GarbageCollect` are one action per file: the code renames or
removes them one by one, and anything may happen in between.

Abstractions: a row is its key and the run it comes from (`feature_name`, `layer` and
`relation_type` are dropped from the keys: a run has its row for a chunk, or for a
pair of them, or not, so rows of two runs that differ in these alone count as the
same); a relation that breaks a CHECK is skipped by OR IGNORE (`corpus.sql:155-158`)
and left out of `Relations[r]` from the start; a vector whose layer breaks its CHECK
(`corpus.sql:137-138`) makes OR REPLACE fail, so a run in `BadLayers` fails at
`MergeVectors` each time; `parent_id`
is left out, no workflow of this tree sets it; the two
queries of `_run_meta` are one action, since nothing writes a run database that
is in the queue; the age of a file in `done/` is not modelled, any file there may
be collected, because a rename keeps the modification time.

### Runs

| Run | Shows |
|---|---|
| `merger_interference` | two runs that share a chunk, the loop and one `ProcessOne`, imports and garbage collection, one crash, cancellation and recycled connection each and two `Stop`s (the second one, after a `Start` that returned at once, panics), at any step: `AtomicSpec`, `OwnRun`, `NoOrphans`, `DoneMerged`, `NoOutputLost` |
| `merger_queue` | the loop on a queue of five runs with batches of two: one run depends on older ones, one has a chunk that breaks a `CHECK`, one never got its final status, one has a vector of an unknown layer; a failing call, a swallowed error, a crash and a retry: the invariant `QueueInv`, the content properties, and under fairness `QueueDrains` and `MergeableMerged` |
| `merger_foreign_keys` | a violation, see below |
| `merger_cancelled` | a violation |
| `merger_rows_produced` | a violation |

Bounds.  Two runs are the smallest number that collide on the alias and on a
chunk; one caller next to the loop gives every pair of actors.  The queue needs
three runs for a dependency across a batch border with batches of two, and two
more for files that fail for ever, one before its transaction and one within it.  One fault of each kind suffices for each
fault to meet every step; two of one kind would repeat states in which the first
has already left its mark (a wedged alias, a stale pragma, a run in `failed/`); `Stop` needs two.
`AtomicSpec`, `OwnRun` and the other safety properties that are proved hold for
every bound.

### Fairness

`FairSpec` assumes weak fairness of `Start` and of `LoopStep`.  The first says the
process that owns the corpus starts its merger (again after a crash) - which no command of
this tree does, `cmdProcess` makes a merger and never starts it, so the liveness
properties are those of a merger that is used as its package means it; the second
that its goroutine runs: the ticker fires at every interval and no database call
blocks for ever (a call either returns or the context ends it).  Nothing is
assumed of callers, of `RetryFailed`, `GarbageCollect`, `Enqueue` or of faults.
The liveness run has no `stop`, `cancel` or `recycle`: each of these can leave a
merger that never merges again, by the code's own rules (a loop that has ended is
not restarted; an alias whose connection is gone cannot be detached).

### What is proved

`MergerProofs` proves `Inductive == Spec => []IInv`, for all sets of runs, files,
chunks and callers, every batch size and every budget of faults.  The assumptions
are those of the modules: the markers are not members of the sets they extend, the
set of chunks is finite, the outputs of runs have their types, the queue starts
with runs that can be queued.  None of the properties is inductive as it
stands.  `OwnRun` needs to know that the holder of the alias is the one the map
names and that an empty map means nothing is attached (`AliasInv`); `AtomicSpec`
and `AllOrNothing` need what the open transaction has written at each of its
steps (`WorkInv`, `OriginInv`), that its run was completed and not merged when it
began (`RunInv`), and that no other transaction is open; `DoneMerged` needs that a
merge that returns nil has committed (`RunInv`); `NoOrphans` needs the foreign keys in
the working tables (`ReferInv`); `NoOutputLost` needs that a run has one file and
that the loop's file stays where it is (`FilesInv`).

The conclusions follow from it.  Two of them have a condition:

* `NoOutputLostHolds` assumes `OutsideQueue`: `ProcessOne` is not handed a path of
  `pending/` or `failed/`.  Without it the property fails: the loop may rename the
  file between the `Stat` and the `ATTACH` of a caller, which then creates an empty
  database in the queue, and the rename of that file replaces a run in `failed/`.
  The caller of `ProcessOne` has to keep to it; none exists in this tree.
* `ImplementsAtomicMerge` assumes that no query error is swallowed
  (`MaxFaults["swallowed"] = 0`).  With one, the code integrates a run in part,
  and `AllOrNothing` and `RowsProduced` say what remains true.

`MergeableNotFailedHolds` says that a run which has what it refers to, if only in
older runs of the queue, is never moved to `failed/`, for queues and batches of any
size, and however often the process crashes, is stopped, retries or gets new runs.  It
rests on `QueueInv`, which adds to `IInv`:

* a run that others may rest on is merged or waits in `pending/` (`QueueOrder`): so
  what the current run refers to is either in the corpus or in an older file of the
  queue;
* of the waiting runs the loop has the oldest in its batch, and takes the oldest of
  these first: so nothing older waits when the current run is attached;
* then none of its statements breaks a foreign key, and the alias is free when it is
  attached, because the loop's own `DETACH` always succeeds (`AloneInv`);
* so `mergeRun` returns nil and the file goes to `done/` (`SuccessInv`).

Its condition `LoopAlone` is what the argument needs: no other
caller, no cancelled context, no replaced connection.  Each of the three makes a
complete run fail: another merge holds the alias, the calls of a done context return
its error (run `merger_cancelled`), and an alias whose connection is gone cannot be
detached (`db.go:222`).  A database that reports an error is the premise of the
property itself (`NoError`).

Only model-checked: `QueueDrains` and `MergeableMerged`, which are liveness.

## 4. Ingest

`Ingest` models `Orchestrator.Ingest` and `copyFile` with a step for each thing
another process can see: hash, lookup, create (which truncates), copy, insert,
remove.  Each caller is a `raglite ingest` process; it calls `Ingest` for one path
after another under one context, as `cmdIngest` and `IngestDir` do, and SIGINT
(`Cancel`) makes the context done for the current path and those that follow.
`IngestDir` stops at the first error and `cmdIngest` goes on; both are among the
sequences of calls a caller may make.

A content stands for its checksum, which is also its id and the name of its copy.
`stored[c]` is the file under that name: none, incomplete, or a content (not
necessarily `c`, since the source may have been edited after it was hashed).
`linked[a]` says whether the file `a` has open still has that name; `os.Remove` by
another caller takes it away.  The bytes of a copy are written in one step, so
two writers of one file do not mix; `Partial` is a copy that was truncated or whose
write failed.  The MIME type, the audit row (its error is ignored) and the failure
to open the source have no effect on these.

Run `ingest`: two callers, of which both may be given the file `x` and one the file
`y`, and one fault of each of the six kinds.  `CleanedUp` is about all contents,
`RowsStored` about those one caller has for itself: two callers with one content
do lose its copy (the loser of the two INSERTs removes the winner's file), without
any fault.  Two callers and two contents are the smallest instance with both
situations; more of either adds no new pair.

`IngestProofs` proves both for any number of callers, contents and faults.  The
invariant `IngestInv` adds to `RowsStored` that a call past its lookup has a content
that is not a row, and that its copy is whole when it comes to the INSERT
(`WriteInv`); that rests on the ids of two calls being different when one of them
has its content for itself (`CallInv`, lemma `AloneApart`).  `CleanedUp` is
inductive relative to `IngestInv`.

Run `ingest_cancelled` is a violation, see below.

## 5. Engine and loader

### How state and actions correspond to the code

`WorkflowStore` has the rows of `workflows` (`status`) and of `workflow_steps`
(`stored`).  `LoadBuiltins` and `LoadFromFile` send files of SQL statements that
commit one by one, hence `LoadWorkflowRow`, `LoadStepRow` and `LoadTags`, with
`StopLoad` for a statement that fails or a program that ends.  INSERT OR REPLACE of
the workflow deletes the old row, and the foreign key takes the old steps along;
this is what `ReplaceWorkflow` does and what `OneDefinition` rests on.  It is the
cascade of a connection that `db.Open` has set up: `raglite init`, the one command
that loads, does so right after opening.  On a connection the pool has put in its
place (`db.go:64`) `foreign_keys` is off and steps the new file does not write stay;
a load an hour after opening is not modelled.
`DeleteWorkflow` and `CloneWorkflow` are transactions and one action each.

`Engine` has one action for each call of `Engine.Run` that another process or a
failure can come between: the two queries of `LoadWorkflow`, `CreateRun`,
`InitRunMeta`, one `CopyStep` per step, `AttachCorpus`, `ExecuteStep`,
`LogStepExecution`, and the last status update, in `FailRun` or `Finalize`.

* An operation is what it may do to a number of rows (`Produces`): SQL text,
  predicates and configurations are data.  A table is its name and its row count.
* `execution[r]` is the `StepExecution` in hand, `log[r]` the rows of
  `_step_executions`.
* The reads of the steps may end early (`ReadSomeSteps`), since `rows.Err()` is not
  asked for, and a row count that fails is zero (`ExecuteStep`).  Both are part of
  what the code does with an error, not errors that Run returns.
* An external step whose extractor is registered is not executable: it holds the
  rows of its query and asks the pool, which has one connection, for another
  (`engine.go:506-514`).  It ends when its context does.
* `Recycle` is the pool's hourly replacement of the connection, which loses the
  attached corpus.

### Run `engine`

One run against three operations of a loader with two builds, and one fault (a
failing call, a cancelled context, a crash or a replaced connection).  Two builds
are needed for steps of different versions; three calls for a load between the two
queries with a change before it or a clone after it; two or three steps per
workflow for a first, a middle and a last one.  `MaxRows = 1` tells "no row" from
"rows", which is all that `on_empty` does.  `OneDefinition` - what a run executes
are the first steps of one definition - says also what is not true: that they are
all of them.  A run that is loaded while the steps are being written is executed
with those that are there, completes and is merged.  The shipped workflow's shape is
among the instances: its first step reads `_input`, which nothing creates, so it
fails at once, as every workflow of `sql/workflows` that begins in this way does.

`RunEnds` uses weak fairness of `RunStep(r)`: a call returns.  It does not assume
that anybody cancels, and excludes the external step that waits for itself.

### Proofs

`EngineProofs` proves `EngineInv` inductive for any workflows, builds, tables,
numbers of rows, faults and loader calls, and concludes `OneDefinition`,
`CompletedWhole`, `Lineage` and `StatusTold`.  The strengthening says how far a run
is (`PhaseInv`: what is described, recorded and said of it at each place), what is
known of the step that is executed and not recorded (`ExecutionInv`), that a record
without rows does not go on when its step says "fail" (`LogInv`), and of the store
that a load in progress has written the first steps of what it loads, unless they
were deleted (`StoreInv`).  `RunByRun` splits the invariant into one per run and
`Unchanged` disposes of the runs a step does not touch.  `ImplementsRunRecord` maps
each step to a step of `RunRecord` or to a stutter.

Only model-checked: `RunEnds`.

Assumption: one load at a time, and no clone to an id that is just being loaded.
With two loads of different builds interleaved, steps of the two do mix, since the
statements are replaced one by one; nothing in the repository loads concurrently.

## 6. The HOROS bus

### How state and actions correspond to the code

Every operation is one statement, so one action, but for `ClaimTask`, a deferred
transaction: `SelectPending`, `UpdateTask`, `CommitClaim`, and `ClaimFails` for
`SQLITE_BUSY`, a cancelled context and every other error.  External are SQLite's
rules, which the module spells out because the code relies on them: a transaction
reads the snapshot of its first read (`fresh` says whether that is still the latest),
one connection writes at a time (`lock`), and a transaction whose snapshot is old may
not write.  `held[w]` is what a worker was given; that it reports nothing else, and
that only once, is assumed of the callers, since `CompleteTask` and `FailTask` look
neither at the status nor at the owner.  `created_at` counts seconds and is read
before the row is written, so `created` is any of `Seconds`.  A commit of any kind,
a heartbeat or a log line, makes other snapshots old: `SendHeartbeat`, `MarkDead`,
`Deregister` and `Log` are there for that.

### Run `bus`

Two workers of one zone, two tasks in it, one task in a zone where nobody works, two
seconds, one crash or failed call: the smallest instance with two claims at once,
with tasks of the same and of different seconds in either order, and with a task
nobody may take.  `QueueKept` says that `ClaimTask`, for all its steps, is one step
that takes an oldest task; "oldest" is by `created_at`, and tasks of one second are
unordered, so the bus is no FIFO in a strict sense (`docs/HOROS_INTEGRATION_PLAN.md:33`
calls it "File d'attente FIFO").

`TasksTaken` needs strong fairness of `UpdateTask`: each commit of somebody else
between SELECT and UPDATE makes the claim fail, so the chance comes again and again
and is not there all the time.  The assumption is that the others write now and then
- heartbeats and logs are periodic - and that the worker repeats a claim that
failed, which `WF` of `SelectPending` says; the code leaves that to its callers.

### Proofs

`BusInv` is inductive for any tasks, workers, zones and faults.  `ClaimedOnce` alone
is not: the UPDATE of a claim checks nothing.  What it needs is that a fresh snapshot
shows what is there (`ClaimInv`: what was seen is still an oldest pending task) and
that nobody commits between the UPDATE and the COMMIT of the holder of the lock.
`ImplementsQueue` proves the refinement.  Only model-checked: `TasksTaken`.

Nothing gives the tasks of a dead worker back: `MarkDead` writes `heartbeats` only,
and a task whose worker crashed stays `running` for ever.  The repository promises
nothing else, so no property does; `NotForgotten` says that only a crash or a failed
call has this effect.  No code in the repository calls the bus.

## 7. The pipeline

### How state and actions correspond to the code

`Pipeline` is a data directory with the callers that issue commands on it and
somebody who merges, which no command does.  `ProcessPending` is the query with its
limit, one `Lookup` per row (each reads `workflowMap` without the lock that
`SetWorkflowMapping` takes), `Grouped`, and per workflow `RunWorkflow`, `SelectFiles`,
`RunCompletes` or `RunFails`, `Enqueue`.  `Search` has its run and `ReadResults`,
the command `run` its run, `Status` one action per count.

* A run is what it is for, its workflow, the files its first step selected and its
  status.  The parameter `file_ids` is read by no step: a run is about the pending
  files its workflow's own predicate selects, whatever it was asked for.
* A race of `SetWorkflowMapping` with a lookup gives the old or the new value, or
  ends the program, as Go's concurrent map check does: that is `Crash`.
* `DetectMimeType` is evaluated for each file, from the platform's table, the
  program's own and the first bytes.
* Every operation of the engine writes by `CREATE TABLE` of its step's output
  (`engine.go:320, 337, 348`), and the schema of a run database has created `_output`
  already (`run.sql:95`).  So a step whose output is `_output` fails, and its workflow is
  in `Failing`; and a run without such a step completes and leaves `_output` empty.
  The merge marks the files it finds in `_output` (`merger.go:250-253`): none.  Only a
  workflow whose own statements insert rows into `_output` (a predicate is SQL text
  that is sent as it is) gets its files marked; these are `Writing`, and `Marked(r)`
  is what the merge of a run makes vectorized.  Every workflow the tree ships is in
  `Failing` (section 9), so `Processed` is about workflows somebody has yet to write.
* `Merge` is a merge that succeeds, one that fails, or one whose alias stays in
  `DB.attached` (`db.go:222`; a replaced connection, an error of `DETACH`): then the
  merger is `wedged` and moves all that follows to `failed/`, until it is restarted
  (`RestartMerger`), since a new process has an empty map.
* `stranded` remembers for what purpose a completed run was left in `runs/`, where
  no code looks.
* Names and dates of runs are left out: two runs that agree in the rest are one.

### Run `pipeline`

Three files: a plain text; a Markdown file, which the default map gives to a
workflow that does not select it, as the shipped map does; and a document whose
workflow completes and leaves `_output` empty, so that it stays pending whatever is
run and merged.  A query looks at two files (`Limit`, 100 in the code).  One caller
processes for ever, one searches, runs and asks for the status, one merger, and one
event of `SetWorkflowMapping`, crash, signal or error.  Three files with a limit of
two is the smallest instance in which a file can be passed over; the document and the
Markdown file together fill the query and starve the text until the map is mended,
which is the reason for the premise of `Processed`.  Two callers meet in every table.
`Failing` and `Barren` are empty here: a workflow that never works and a file without
chunks only make files stuck, as the document is.

Fairness (`FairSpec`): a call that has begun goes on.  The rest is asked of whoever
uses the package, since nothing in the tree does it: a caller that does nothing but
process calls again, as a cron job would; somebody runs the merger, which then comes to
every run in the queue (`QueueDrains` of `Merger`); and a wedged one is restarted
(`WF_vars(RestartMerger)`).  Without the first a file that was passed over, without the
second any, and without the third any that comes after the fault stays pending for
ever.  Nobody has to import, search or fail.

### Proofs

`PipelineInv` is inductive for any callers, files, types, maps and faults, and gives
`AskedOfOne`, `RunsInPlace` and `StatusMissesNone`.  `AskedOfOne` is about the types
whose mapping does not change during the call: files of one that does are split
between the two workflows.  The last rests on the order of
the two counts: a file moves from pending to vectorized and never back, so it is
seen by the first count or the second (`Counting`).  Only model-checked: `Processed`.

## 8. Documents and manifests

`MCDocuments` has three programs in one specification; each behaviour is of one of
them, chosen in `MCInit` (`which`).  They share no state, and CHECK_DEADLOCK is off
because a document ends.

### Code (`CodeExtractor`)

The parsers read line by line, so the document is met as it is read: `Read` takes any
of the lines the parser's patterns can tell apart, `Finish` is what follows the loop.
`current` is `currentBlock` or `currentSection`, `mark` is the one number each
parser keeps: `blockIndent`, `braceCount`, `blockStart`, or the line of the open fence.
A line of Python is its kind and indentation, one of JavaScript or Bash its kind and
braces, one of SQL its kind and whether it ends a statement, and so on; the regular
expressions themselves are data.

`FunctionsWhole` compares what the parsers of Python, JavaScript and Bash find with
the extent that the language gives a function or class: `Extent` looks at the whole
document, at indentation in Python and at the depth of braces in the others, and knows
nothing of the parser's state.  The two agree for *plain* functions (`Plain`): no other
function or class within, no import right after it in Python, and in JavaScript and
Bash at the top level, opened on the line of the header and closed.  For all others it
says less, because the code does less:

* any header, at any depth, ends the open block (`code.go:287-292, 304-309, 494-499`).
  So a class ends before its first method and an outer function before a nested one;
  blocks of functions and classes hold one header each, and what follows the inner one
  in the outer one is in the block of the inner one or in none;
* an import at column 0 does not end a Python block (`code.go:321-330`), which runs on
  over it;
* a JavaScript function on one line with its braces balanced is not ended on it and
  runs on, and a header met inside of braces takes the place of the open block
  (`code.go:396-401`), which is lost.  In Python and Bash no header is without its
  block, which `FunctionsWhole` says too.

`NoneLost` is about the lines a parser is there to keep (`Content`): every line of
text for `genericParse`; where a statement of SQL begins; headings and fences of
Markdown; headers, imports and shebangs of Python and Bash.  It does not ask for the
lines of bodies, nor for anything of JavaScript, and of HTML only that a page never
leaves nothing.

All documents of up to five lines are enumerated, for each of seven parsers (`cobol`
stands for the languages without one, `typescript` for those that share one).  Five
lines have room for two blocks, a line before, between and after them; or a fence
with a heading in it in a section.

### PDF, DOCX and XLSX (`DocumentExtractor`)

`units` are the lines of a PDF's text, the elements of a DOCX body, what stands between
the double spaces in the text of a DOCX whose XML is not what is expected, or the
sheets of an XLSX and their rows.  `ParseText` is the loop of `parseText`, `Body` is
`convertToSegments`, `Fallback` is `fallbackExtract` of DOCX, and `ExtractSheet` is
`extractSheet` with `startPos` and the fallback for XML it does not expect.

`TextCut` says where the text of a PDF is cut: at a line that is a form feed alone, at
one that begins with "Page n" and at a blank line after text, and nowhere else, with
every other line of text in one segment.  It does not say that a segment stays on its
page, since it does not: `pdftotext` puts the form feed before the first text of a page,
and such a line (`fed`) ends nothing (`pdf.go:115-118`).  Nor does it say that all text
is kept: a line that begins with "Page n" is dropped whatever it goes on with
(`pdf.go:107, 118`).

`PositionsDistinct` has an exception for XLSX, where the position of a row is an offset
that counts segments plus the number of the row: gaps and missing numbers make two
segments share a position.  The premise `SheetsSound` is the largest we found.  Six units
have room for three sheets with a row each or two with two.

Not in the model: the page a segment of a PDF reports.  All segments point to the one
variable `currentPage` and report its last value.

### Manifests (`Egocheck`)

`Run` hashes file by file, `StoreInDB` replaces the rows of the process in a
transaction, `LoadFromDB` and `Verify` compare.  A hash is the content, so there are
no collisions, and the total hash is the sequence of hashes, without paths.
`LoadFromDB` does not ask why its rows ended (`egocheck.go:219-252`): the read may break
off at any row, and `unread` is what it left out, of the sources and of the row with
the total hash.  The rows have one timestamp, which is all they are ordered by, so any
of them may be left out.  Without any row there is "no stored manifest found" and no
error (`NoManifest`), without the total hash the program panics (`Panic`,
`egocheck.go:274`).  Two
callers, one source, two databases, two contents, two changes: two databases for one
to take the other's place, two changes for one that undoes the other.
`NoFalseAlarm` is about quiet files: without a change there is a mismatch only after a
read that broke off and left out a source.  `SameIsSame` is about what Verify can see, and
holds also after a read that broke off, since a total hash that was read is of all
rows; that no file is missing is its premise, see below.

### Proofs

All seven properties are proved, for documents and lists of files of any length.  A
count over a document is a recursive function, and what it computes can only be proved
by induction over its argument.  `Induction` derives that from the well-foundedness of
`<` on the numbers, for a *set* of numbers in place of a predicate; the proofs define
the set of the n for which the fact holds.

`ExtractorProofs`, code.  `Nested` is not inductive: the next block must fit, which is
that the open block, the open fence and the place of the next block have *room* among
those found (`Held`, `MarkHeld`).  `NoneLost` needs that a line with content which is in
no block is in what is open (`KeptInv`).  `FunctionsWhole` compares an incremental
parser with `Extent`, which looks at the whole document.  Between the two stands the
parser's own rule, over the whole document as well (`Stops`, `Ending` in
`ExtractorProofs`): the invariant `WholeInv` says at each line that the functions that
have ended by it are exactly the blocks, at most one has not and that is
`currentBlock`, and `braceCount` is the sum of the braces so far (`Depths`).  At the end
`WholeOf` compares the two definitions: for a plain function the rule's end is its
extent (`PlainPython`, `PlainBraces`), and no block holds a second header
(`NoneWithin`).

`ExtractorProofs`, documents.  `TextCut`: what is before `blockStart` is cut into
segments, each up to a line that ends one, and what follows is one paragraph.
`PositionsDistinct`: in a PDF positions count the segments; in a DOCX they are places
among the elements or the parts; in an XLSX each row has its segment (`OnePerUnit`), and the positions of a
sheet lie below the number of segments found when the next one begins, if its sheets
are sound.

`EgocheckProofs`.  `EgoInv`: every manifest, stored or being made, *follows* the list
`Run` goes through, as a part of it in its order, and is accurate as long as no file
has changed since it was begun.  So two manifests of the same files are equal row by
row, which is what makes a total hash without paths sound for the databases.  What a
read left out is a set of places in the stored manifest, so the invariant speaks of the
whole manifest and the comparison of what was read of it (`Loaded`).
`SameIsSameHolds` assumes `PathsDistinct`, that no path is listed twice: if a database
is listed before and after another one, two manifests can have the two in either order,
and hashes without paths do not tell a change from that.  The schema's
`UNIQUE(process_id, file_path)` makes the same assumption: a manifest with a path twice
cannot be stored.  `NoFalseAlarmHolds` does not need it.

## 9. Where the code and its documents disagree

Shown by a run of their own:

* `merger_foreign_keys`: `db.Open` sets the pragmas on the first connection only
  and lets the pool replace it after an hour (`db.go:64`), so references are no
  longer enforced (`docs/HOROS_INTEGRATION_PLAN.md:128`).
* `merger_cancelled`: a cancelled context moves the rest of the batch, complete and
  mergeable, to `failed/` (`merger.go:154`, against `merger.go:20`).
* `merger_rows_produced`: `rows_produced` is not the number of rows of `_output`
  (`merger.go:239`, against `sql/schema/corpus.sql:198`).
* `ingest_cancelled`: interrupting `raglite ingest` on files that are already
  ingested removes their stored copies, since an error of the lookup counts as
  "not there" and the failed INSERT cleans up (`orchestrator.go:121-155`).
* `engine_skip_remaining`: the `break` of `skip_remaining` leaves the switch and not
  the loop (`engine.go:205`, against `types.go:56`): the remaining steps run.

Met while modelling, and part of the models as the code has them:

* `_input` "sera créée dynamiquement" (`sql/schema/run.sql:47`): nothing creates it,
  and a first step that reads it fails (`engine.go:258`), so no shipped workflow works.
* `_output` holds the "résultats finaux à merger" (`sql/schema/run.sql:91`), but is
  created with the run database (`run.sql:95`) and every operation creates the table it
  writes (`engine.go:320, 337, 348`): a step that writes to `_output` fails, and a run
  without one completes with nothing in it, of which the merge marks no file
  (`merger.go:250-253`).
* `ProcessPending` "processes all pending files" (`orchestrator.go:218`), but looks at
  100 of them, in no order, once (`Limit`).
* `cmdProcess` says it starts the merger (`main.go:256`) and starts none.
* Markdown is mapped to a workflow that selects `text/plain` only
  (`orchestrator.go:89`, `sql/workflows/chunk_code.sql:489`).
* `raglite <command> [options]` (`main.go:91`): the options are parsed before the
  command is looked at, and neither order of the two does what it says.
* A JavaScript block is lost to the header of the next one (`code.go:396`).
* A form feed turns the page only on a line of its own (`pdf.go:118`, against the
  comment at `pdf.go:106`), and a line of text that begins with "Page 3" is dropped
  (`pdf.go:107, 118`).
* `LoadFromDB` "loads the latest manifest" (`egocheck.go:205`), or what it got of it
  before an error it does not look at (`egocheck.go:219-252`), for which `Verify` reports
  new files or "no stored manifest found", or panics (`egocheck.go:274`).
* `Verify` does not notice a database that is gone when another listed one has its
  content (`egocheck.go:272`).
* Files that cannot be read are not logged (`egocheck.go:52`).

## 10. Not modelled

* The Go parser of `code.go` cuts along the syntax tree of `go/parser`: the work is
  that library's.  A Go file it refuses is read by `genericParse`, which is modelled.
* `bufio.Scanner` stops at a line of more than 64 KiB; `genericParse` does not ask for
  its error, and the rest of such a document is dropped.  Lines have no length here.
* Unzipping, XML, `pdftotext`, the text in cells and paragraphs, and hashes.
* `internal/vector`: floating-point arithmetic on arrays without state that outlives a
  call, out of reach of both tools; nothing in the repository calls it.
* The registry of extractors: two maps that are filled before they are read; no
  command registers an extractor.
* The embedded schema assets; the SQL text that a workflow brings along; SQLite
  itself, taken to be atomic and isolated.
* `GetChunk`, `GetFile`, `ListFiles`, `Merger.Status`, `GetTaskStatus`, the commands
  `inspect`, `export` and `workflows`: they read and print.
* The orchestrator's worker pool: nothing ever starts a worker.
* Two loads of workflows at the same time (section 5).

The proofs are about safety and refinement, and every safety property that a run
expects to hold is stated by a theorem.  Liveness under fairness is checked by TLC only:
`QueueDrains`, `MergeableMerged`, `RunEnds`, `TasksTaken` and `Processed`.
