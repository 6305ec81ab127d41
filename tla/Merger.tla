------------------------------- MODULE Merger -------------------------------
(***************************************************************************)
(* internal/merger/merger.go with the parts of internal/db/db.go it runs   *)
(* on: one process that owns the single connection to corpus.db, the merge *)
(* loop of Start, goroutines that call ProcessOne, and the environment     *)
(* (imports of files, cancelled contexts, recycled connections, failing    *)
(* statements, process crashes), each bounded by a budget of faults.       *)
(***************************************************************************)
EXTENDS CorpusTables

CONSTANTS
  Callers,     \* goroutines that may call ProcessOne
  OneDirs,     \* the directories of the paths ProcessOne is handed
  Queued,      \* the runs in queue/pending when the model starts
  Mtime,       \* modification time of a run's file
  BatchSize,
  MaxFaults,   \* how many faults of each kind may happen
  NoPath       \* no database attached

Loop == "loop"
Actors == {Loop} \cup Callers
Dirs == {"runs", "pending", "done", "failed"}
Paths == Dirs \X Runs
FaultKinds == {"crash", "cancel", "recycle", "stop", "retry", "error", "swallowed"}
TxSteps == {"chunks", "features", "vectors", "relations", "history", "files", "commit"}
AttachedSteps == {"status", "check", "begin", "detach"} \cup TxSteps
Steps == {"off", "select", "next", "stat", "attach", "move"} \cup AttachedSteps

(* A run whose engine reported an error is not queued (orchestrator.go:267); *)
(* one whose final status was not written is.                               *)
Queueable == {r \in Runs : MetaStatus[r] \in {"running", "completed"}}

ASSUME ActorsAssumption == Loop \notin Callers /\ OneDirs \subseteq Dirs /\ Queued \subseteq Queueable
ASSUME NumbersAssumption ==
  /\ BatchSize \in Nat \ {0}
  /\ Mtime \in [Runs -> Nat]
  /\ MaxFaults \in [FaultKinds -> Nat]
  /\ NoPath \notin Paths
  /\ "empty" \notin Runs /\ NoRun # "empty"

VARIABLES
  running,     \* Merger.running
  stopClosed,  \* Merger.stopCh has been closed
  pc,          \* where each actor is
  cur,         \* the path each actor's mergeRun was called with
  result,      \* what that call returns: nil ("ok") or an error ("err")
  cancelled,   \* whether that call's context is done
  todo,        \* the part of the loop's batch it has not reached
  dirs,        \* dirs[d][r]: "none", the run database ("real") or an empty file ("empty")
  attached,    \* DB.attached["run_src"], the path or NoPath
  conn,        \* the connection: what it has attached as run_src, and its foreign_keys pragma
  corpus,      \* the committed tables
  work,        \* the tables as the open transaction sees them
  faults       \* faults left

lifecycle == <<running, stopClosed>>
calls == <<pc, cur, result, cancelled>>
database == <<attached, conn, corpus, work>>
vars == <<running, stopClosed, pc, cur, result, cancelled, todo, dirs,
          attached, conn, corpus, work, faults>>

-----------------------------------------------------------------------------
(* Database handles. *)

(* db.Open runs its pragmas once: the first connection enforces foreign    *)
(* keys, one that database/sql opens later has SQLite's defaults.          *)
Conns == [src : Runs \cup {NoRun, "empty"}, fk : BOOLEAN]
(* Mistake: the pragma that turns foreign keys on is forgotten. *)
OpenedWithoutPragma == [src |-> NoRun, fk |-> FALSE]

OpenedConn == [src |-> NoRun, fk |-> TRUE]
ReplacedConn == [src |-> NoRun, fk |-> FALSE]

(* The path an actor works on, and what it finds there. *)
RunOf(a) == cur[a][2]
FileAt(p) == dirs[p[1]][p[2]]

InTx(a) == pc[a] \in TxSteps
NoTx == \A a \in Actors : ~InTx(a)

TypeOK ==
  /\ running \in BOOLEAN /\ stopClosed \in BOOLEAN
  /\ pc \in [Actors -> Steps]
  /\ cur \in [Actors -> Paths \cup {NoPath}]
  /\ result \in [Actors -> {"ok", "err"}]
  /\ cancelled \in [Actors -> BOOLEAN]
  /\ todo \subseteq Runs
  /\ dirs \in [Dirs -> [Runs -> {"none", "real", "empty"}]]
  /\ attached \in Paths \cup {NoPath}
  /\ conn \in Conns
  /\ corpus \in Corpus
  /\ work \in Corpus
  /\ faults \in [FaultKinds -> Nat]

Init ==
  /\ running = FALSE /\ stopClosed = FALSE
  /\ pc = [a \in Actors |-> "off"]
  /\ cur = [a \in Actors |-> NoPath]
  /\ result = [a \in Actors |-> "ok"]
  /\ cancelled = [a \in Actors |-> FALSE]
  /\ todo = {}
  /\ dirs = [d \in Dirs |-> [r \in Runs |->
               IF d = IF r \in Queued THEN "pending" ELSE "runs" THEN "real" ELSE "none"]]
  /\ attached = NoPath
  /\ conn = OpenedConn
  /\ corpus = EmptyCorpus
  /\ work = EmptyCorpus
  /\ faults = MaxFaults

-----------------------------------------------------------------------------
(* Helpers of the actions. *)

Suffer(kind) == faults[kind] > 0 /\ faults' = [faults EXCEPT ![kind] = @ - 1]

Goto(a, step) == pc' = [pc EXCEPT ![a] = step]

(* mergeRun returns: the loop goes on to move the file, a caller is done   *)
(* and its call leaves nothing behind.                                     *)
Return(a, res) ==
  IF a = Loop
  THEN /\ Goto(a, "move")
       /\ result' = [result EXCEPT ![a] = res]
       /\ UNCHANGED <<cur, cancelled>>
  ELSE /\ Goto(a, "off")
       /\ result' = [result EXCEPT ![a] = "ok"]
       /\ cur' = [cur EXCEPT ![a] = NoPath]
       /\ cancelled' = [cancelled EXCEPT ![a] = FALSE]

(* mergeRun returns with the run attached, so the deferred Detach runs.    *)
Unwind(a, res) == Goto(a, "detach") /\ result' = [result EXCEPT ![a] = res]

MoveFile(r, from, to) ==
  dirs' = [dirs EXCEPT ![from][r] = "none", ![to][r] = dirs[from][r]]

(* The process ends, and another one opens the same data directory.        *)
Restarted ==
  /\ running' = FALSE /\ stopClosed' = FALSE
  /\ pc' = [a \in Actors |-> "off"]
  /\ result' = [a \in Actors |-> "ok"]
  /\ cancelled' = [a \in Actors |-> FALSE]
  /\ todo' = {}
  /\ attached' = NoPath
  /\ conn' = OpenedConn
  /\ cur' = [a \in Actors |-> NoPath]
  /\ work' = corpus
  /\ UNCHANGED <<dirs, corpus>>

-----------------------------------------------------------------------------
(* Start and Stop. *)

(* A Start that finds stopCh closed returns at once and leaves running set. *)
Start ==
  /\ ~running
  /\ running' = TRUE
  /\ IF stopClosed
     THEN UNCHANGED <<pc, cancelled>>
     ELSE Goto(Loop, "select") /\ cancelled' = [cancelled EXCEPT ![Loop] = FALSE]
  /\ UNCHANGED <<stopClosed, cur, result, todo, dirs, database, faults>>

Stop ==
  /\ running /\ ~stopClosed
  /\ Suffer("stop")
  /\ stopClosed' = TRUE /\ running' = FALSE
  /\ UNCHANGED <<calls, todo, dirs, database>>

(* close of a closed channel. *)
StopPanics == running /\ stopClosed /\ Suffer("stop") /\ Restarted

(* The loop's select takes stopCh or ctx.Done; running is not cleared.     *)
LoopExit ==
  /\ pc[Loop] = "select"
  /\ stopClosed \/ cancelled[Loop]
  /\ Goto(Loop, "off")
  /\ UNCHANGED <<lifecycle, cur, result, cancelled, todo, dirs, database, faults>>

-----------------------------------------------------------------------------
(* processBatch. *)

Pending == {r \in Runs : dirs["pending"][r] # "none"}

(* The first BatchSize files of the queue by modification time.            *)
Batches ==
  {B \in SUBSET Pending :
     /\ Cardinality(B) = IF Cardinality(Pending) < BatchSize THEN Cardinality(Pending) ELSE BatchSize
     /\ \A r \in B, q \in Pending \ B : Mtime[r] <= Mtime[q]}

ProcessBatch ==
  /\ pc[Loop] = "select"
  /\ Pending # {}
  /\ todo' \in Batches
  /\ Goto(Loop, "next")
  /\ UNCHANGED <<lifecycle, cur, result, cancelled, dirs, database, faults>>

(* Mistake: the batch is merged in the order of the directory.             *)
UnsortedOldest(r) == TRUE

Oldest(r) == \A q \in todo : Mtime[r] <= Mtime[q]

NextRun ==
  /\ pc[Loop] = "next"
  /\ \E r \in todo :
       /\ Oldest(r)
       /\ cur' = [cur EXCEPT ![Loop] = <<"pending", r>>]
       /\ todo' = todo \ {r}
  /\ Goto(Loop, "stat")
  /\ UNCHANGED <<lifecycle, result, cancelled, dirs, database, faults>>

(* Mistakes: the error of mergeRun is not looked at, or the file stays.    *)
AlwaysDone(res) == "done"
LeftInQueue(res) == IF res = "ok" THEN "done" ELSE "pending"

Destination(res) == IF res = "ok" THEN "done" ELSE "failed"

(* The rename to done or failed, its error ignored, and the next file.     *)
MoveRun ==
  LET r == RunOf(Loop) IN
  /\ pc[Loop] = "move"
  /\ \/ /\ dirs["pending"][r] # "none"
        /\ MoveFile(r, "pending", Destination(result[Loop]))
        /\ UNCHANGED faults
     \/ Suffer("error") /\ UNCHANGED dirs
  /\ Goto(Loop, IF todo = {} THEN "select" ELSE "next")
  /\ cur' = [cur EXCEPT ![Loop] = NoPath]
  /\ result' = [result EXCEPT ![Loop] = "ok"]
  /\ UNCHANGED <<lifecycle, cancelled, todo, database>>

-----------------------------------------------------------------------------
(* mergeRun up to its transaction. *)

ProcessOne(a, p) ==
  /\ a \in Callers /\ pc[a] = "off"
  /\ p[1] \in OneDirs
  /\ cur' = [cur EXCEPT ![a] = p]
  /\ Goto(a, "stat")
  /\ UNCHANGED <<lifecycle, result, cancelled, todo, dirs, database, faults>>

StatRun(a) ==
  /\ pc[a] = "stat"
  /\ IF FileAt(cur[a]) = "none"
     THEN Return(a, "err")
     ELSE Goto(a, "attach") /\ UNCHANGED <<cur, result, cancelled>>
  /\ UNCHANGED <<lifecycle, todo, dirs, database, faults>>

(* Mistake: the Detach is deferred before the error of Attach is looked at. *)
AttachFailsDeferred(a) == Unwind(a, "err") /\ UNCHANGED <<cur, cancelled, attached, conn, dirs>>

AttachFails(a) == Return(a, "err") /\ UNCHANGED <<attached, conn, dirs>>

(* ATTACH opens the file, and creates an empty one when there is none.     *)
Attach(a) ==
  LET p == cur[a] IN
  /\ pc[a] = "attach"
  /\ \/ /\ attached = NoPath /\ ~cancelled[a]
        /\ attached' = p
        /\ conn' = [conn EXCEPT !.src = IF FileAt(p) = "real" THEN p[2] ELSE "empty"]
        /\ dirs' = [dirs EXCEPT ![p[1]][p[2]] = IF @ = "none" THEN "empty" ELSE @]
        /\ Goto(a, "status")
        /\ UNCHANGED <<cur, result, cancelled, faults>>
     \/ /\ attached # NoPath \/ cancelled[a]
        /\ AttachFails(a)
        /\ UNCHANGED faults
     \/ Suffer("error") /\ AttachFails(a)
  /\ UNCHANGED <<lifecycle, todo, corpus, work>>

(* The two queries of _run_meta. *)
CheckStatus(a) ==
  /\ pc[a] = "status" /\ NoTx
  /\ \/ /\ ~cancelled[a] /\ conn.src = RunOf(a) /\ MetaStatus[RunOf(a)] = "completed"
        /\ Goto(a, "check")
        /\ UNCHANGED <<result, faults>>
     \/ /\ cancelled[a] \/ conn.src # RunOf(a) \/ MetaStatus[RunOf(a)] # "completed"
        /\ Unwind(a, "err")
        /\ UNCHANGED faults
     \/ Suffer("error") /\ Unwind(a, "err")
  /\ UNCHANGED <<lifecycle, cur, cancelled, todo, dirs, database>>

(* Mistake: no idempotency check. *)
CheckMergedNever(a) ==
  /\ pc[a] = "check" /\ NoTx
  /\ Goto(a, "begin")
  /\ UNCHANGED <<lifecycle, cur, result, cancelled, todo, dirs, database, faults>>

(* The count of run_history: its error is ignored and reads as zero.       *)
CheckMerged(a) ==
  /\ pc[a] = "check" /\ NoTx
  /\ \/ /\ ~cancelled[a] /\ IsMerged(corpus, RunOf(a))
        /\ Unwind(a, "ok")
        /\ UNCHANGED faults
     \/ /\ cancelled[a] \/ ~IsMerged(corpus, RunOf(a))
        /\ Goto(a, "begin")
        /\ UNCHANGED <<result, faults>>
     \/ Suffer("swallowed") /\ Goto(a, "begin") /\ UNCHANGED result
  /\ UNCHANGED <<lifecycle, cur, cancelled, todo, dirs, database>>

BeginTx(a) ==
  /\ pc[a] = "begin" /\ NoTx
  /\ \/ ~cancelled[a] /\ Goto(a, "chunks") /\ UNCHANGED <<result, faults>>
     \/ cancelled[a] /\ Unwind(a, "err") /\ UNCHANGED faults
     \/ Suffer("error") /\ Unwind(a, "err")
  /\ UNCHANGED <<lifecycle, cur, cancelled, todo, dirs, database>>

-----------------------------------------------------------------------------
(* The transaction. *)

(* A statement of the transaction runs: step is its place, refs what its   *)
(* foreign keys ask, new the tables it leaves.                             *)
Statement(a, step, next, refs, new) ==
  /\ pc[a] = step /\ ~cancelled[a] /\ conn.src = RunOf(a)
  /\ conn.fk => refs
  /\ work' = new
  /\ Goto(a, next)
  /\ UNCHANGED <<lifecycle, cur, result, cancelled, todo, dirs, attached, conn, corpus, faults>>

(* The query that asks whether the run has the table fails, and the step   *)
(* is skipped as if it had none.                                           *)
SkipTable(a, step, next) ==
  /\ pc[a] = step
  /\ \/ conn.src # RunOf(a) /\ UNCHANGED faults
     \/ Suffer("swallowed")
  /\ Goto(a, next)
  /\ UNCHANGED <<lifecycle, cur, result, cancelled, todo, dirs, database>>

MergeChunks(a) ==
  \/ Statement(a, "chunks", "features", ChunkRefs(work, RunOf(a)), WithChunks(work, RunOf(a)))
  \/ SkipTable(a, "chunks", "features")

MergeFeatures(a) ==
  \/ Statement(a, "features", "vectors", FeatureRefs(work, RunOf(a)), WithFeatures(work, RunOf(a)))
  \/ SkipTable(a, "features", "vectors")

MergeVectors(a) ==
  \/ /\ Statement(a, "vectors", "relations", VectorRefs(work, RunOf(a)), WithVectors(work, RunOf(a)))
     /\ RunOf(a) \notin BadLayers
  \/ SkipTable(a, "vectors", "relations")

MergeRelations(a) ==
  \/ Statement(a, "relations", "history", RelationRefs(work, RunOf(a)), WithRelations(work, RunOf(a)))
  \/ SkipTable(a, "relations", "history")

(* rows_produced is the number of rows the first statement inserted.       *)
Inserted == {c \in Chunks : work.chunks[c] # corpus.chunks[c]}

(* Mistake: rows_produced is the count of _output. *)
UpdateHistoryWithOutput(a) ==
  Statement(a, "history", "files", TRUE, WithHistory(work, RunOf(a), Cardinality(OutputRows(RunOf(a)))))

UpdateHistory(a) ==
  Statement(a, "history", "files", TRUE, WithHistory(work, RunOf(a), Cardinality(Inserted)))

(* Mistake: the files are marked with DB.Exec, outside the transaction. *)
UpdateFilesOutsideTx(a) ==
  /\ pc[a] = "files" /\ ~cancelled[a] /\ conn.src = RunOf(a)
  /\ work' = WithFiles(work, RunOf(a)) /\ corpus' = WithFiles(corpus, RunOf(a))
  /\ Goto(a, "commit")
  /\ UNCHANGED <<lifecycle, cur, result, cancelled, todo, dirs, attached, conn, faults>>

UpdateFiles(a) ==
  Statement(a, "files", "commit", TRUE, WithFiles(work, RunOf(a)))

Commit(a) ==
  /\ pc[a] = "commit" /\ ~cancelled[a]
  /\ corpus' = work
  /\ Unwind(a, "ok")
  /\ UNCHANGED <<lifecycle, cur, cancelled, todo, dirs, attached, conn, work, faults>>

(* Whether the foreign keys of the statement an actor is at hold. *)
RefsHold(a) ==
  CASE pc[a] = "chunks"    -> ChunkRefs(work, RunOf(a))
    [] pc[a] = "features"  -> FeatureRefs(work, RunOf(a))
    [] pc[a] = "vectors"   -> VectorRefs(work, RunOf(a))
    [] pc[a] = "relations" -> RelationRefs(work, RunOf(a))
    [] OTHER               -> TRUE

(* Mistake: an error of the function leaves the transaction to be committed. *)
TxCommitted == corpus' = work /\ UNCHANGED work

TxRolledBack == work' = corpus /\ UNCHANGED corpus

(* A statement fails: a foreign key, a CHECK of OR REPLACE, a missing      *)
(* run_src, a done context, which may also cost the connection, or an      *)
(* error of the database.                                                  *)
Rollback(a) ==
  /\ InTx(a)
  /\ \/ /\ ~cancelled[a]
        /\ \/ conn.fk /\ ~RefsHold(a)
           \/ conn.src # RunOf(a) /\ pc[a] = "history"
           \/ conn.src = RunOf(a) /\ pc[a] = "vectors" /\ RunOf(a) \in BadLayers
        /\ UNCHANGED <<conn, faults>>
     \/ cancelled[a] /\ conn' \in {conn, ReplacedConn} /\ UNCHANGED faults
     \/ Suffer("error") /\ UNCHANGED conn
  /\ TxRolledBack
  /\ Unwind(a, "err")
  /\ UNCHANGED <<lifecycle, cur, cancelled, todo, dirs, attached>>

(* Mistake: the entry of the map is not deleted. *)
DetachedButListed == conn' = [conn EXCEPT !.src = NoRun] /\ UNCHANGED attached

Detached == conn' = [conn EXCEPT !.src = NoRun] /\ attached' = NoPath

(* DB.Detach: the map forgets the alias only if DETACH succeeds.           *)
Detach(a) ==
  /\ pc[a] = "detach" /\ NoTx
  /\ \/ ~cancelled[a] /\ conn.src # NoRun /\ Detached /\ UNCHANGED faults
     \/ (cancelled[a] \/ conn.src = NoRun) /\ UNCHANGED <<attached, conn, faults>>
     \/ Suffer("error") /\ UNCHANGED <<attached, conn>>
  /\ Return(a, result[a])
  /\ UNCHANGED <<lifecycle, todo, dirs, corpus, work>>

-----------------------------------------------------------------------------
(* The queue's other operations and the environment. *)

RetryFailed(r) ==
  /\ dirs["failed"][r] # "none"
  /\ Suffer("retry")
  /\ MoveFile(r, "failed", "pending")
  /\ UNCHANGED <<lifecycle, calls, todo, database>>

(* Mistake: old failed files are collected too. *)
GarbageCollectFailed(r) ==
  /\ \E d \in {"done", "failed"} : dirs[d][r] # "none" /\ dirs' = [dirs EXCEPT ![d][r] = "none"]
  /\ UNCHANGED <<lifecycle, calls, todo, database, faults>>

(* A moved file keeps its modification time, so any done file may be old.  *)
GarbageCollect(r) ==
  /\ dirs["done"][r] # "none"
  /\ dirs' = [dirs EXCEPT !["done"][r] = "none"]
  /\ UNCHANGED <<lifecycle, calls, todo, database, faults>>

(* orchestrator.ProcessPending moves a finished run to the queue. *)
Enqueue(r) ==
  /\ dirs["runs"][r] = "real" /\ r \in Queueable
  /\ MoveFile(r, "runs", "pending")
  /\ UNCHANGED <<lifecycle, calls, todo, database, faults>>

(* orchestrator.Ingest adds a file; a transaction of the merger excludes it. *)
Import(f) ==
  /\ NoTx
  /\ corpus.files[f] = "absent"
  /\ corpus' = WithImport(corpus, f)
  /\ work' = corpus'
  /\ UNCHANGED <<lifecycle, calls, todo, dirs, attached, conn, faults>>

Cancel(a) ==
  /\ pc[a] # "off" /\ ~cancelled[a]
  /\ Suffer("cancel")
  /\ cancelled' = [cancelled EXCEPT ![a] = TRUE]
  /\ UNCHANGED <<lifecycle, pc, cur, result, todo, dirs, database>>

(* ConnMaxLifetime: between two uses the pool replaces the connection.     *)
Recycle ==
  /\ NoTx
  /\ Suffer("recycle")
  /\ conn' = ReplacedConn
  /\ UNCHANGED <<lifecycle, calls, todo, dirs, attached, corpus, work>>

Crash == Suffer("crash") /\ Restarted

-----------------------------------------------------------------------------
MergeRun(a) ==
  \/ StatRun(a) \/ Attach(a) \/ CheckStatus(a) \/ CheckMerged(a) \/ BeginTx(a)
  \/ MergeChunks(a) \/ MergeFeatures(a) \/ MergeVectors(a) \/ MergeRelations(a)
  \/ UpdateHistory(a) \/ UpdateFiles(a) \/ Commit(a) \/ Rollback(a) \/ Detach(a)

LoopStep == LoopExit \/ ProcessBatch \/ NextRun \/ MergeRun(Loop) \/ MoveRun

Next ==
  \/ Start \/ Stop \/ StopPanics
  \/ LoopExit \/ ProcessBatch \/ NextRun \/ MoveRun
  \/ \E a \in Actors : MergeRun(a) \/ Cancel(a)
  \/ \E a \in Callers, p \in Paths : ProcessOne(a, p)
  \/ \E r \in Runs : RetryFailed(r) \/ GarbageCollect(r) \/ Enqueue(r)
  \/ \E f \in Files : Import(f)
  \/ Recycle \/ Crash

Spec == Init /\ [][Next]_vars

(* The process starts the merger, and its goroutine keeps running.         *)
Fairness == WF_vars(Start) /\ WF_vars(LoopStep)
FairSpec == Spec /\ Fairness

-----------------------------------------------------------------------------
(* Properties.                                                             *)

NoErrorSwallowed == faults["swallowed"] = MaxFaults["swallowed"]
NeverRecycled == faults["recycle"] = MaxFaults["recycle"]

(* All merges share one alias, one map entry and one connection: at most   *)
(* one actor is between its Attach and its Detach, and what its statements *)
(* can read there is its own run, never the run of another merge           *)
(* (merger.go:180-213 with db.go:195-228).                                 *)
OwnRun ==
  \A a \in Actors : pc[a] \in AttachedSteps =>
    /\ conn.src \in {RunOf(a), "empty", NoRun}
    /\ \A b \in Actors \ {a} : pc[b] \notin AttachedSteps

(* No committed row comes from a run that is not recorded as merged, and a *)
(* run recorded as merged has every legal row in the corpus, whatever      *)
(* crashed, was cancelled, failed or was retried in between                *)
(* (merger.go:216-259).                                                    *)
AllOrNothing ==
  /\ \A c \in Chunks :
       {corpus.chunks[c], corpus.features[c], corpus.vectors[c]}
          \subseteq {r \in Runs : IsMerged(corpus, r)} \cup {NoRun}
  /\ \A p \in Pairs : corpus.relations[p] # NoRun => IsMerged(corpus, corpus.relations[p])
  /\ NoErrorSwallowed => \A r \in Runs : IsMerged(corpus, r) =>
       /\ LegalRows(r) \subseteq Stored(corpus.chunks)
       /\ Features[r] \subseteq Stored(corpus.features)
       /\ Vectors[r] \subseteq Stored(corpus.vectors)
       /\ Relations[r] \subseteq Stored(corpus.relations)

(* rows_produced counts the chunks the corpus holds of the run, also after *)
(* a crash between the commit and the rename has a run merged again        *)
(* (merger.go:205-213, 239-247).                                           *)
RowsProduced ==
  NoErrorSwallowed => \A r \in Runs : IsMerged(corpus, r) =>
    corpus.history[r] = Cardinality({c \in Chunks : corpus.chunks[c] = r})

(* "nombre de lignes dans _output" (sql/schema/corpus.sql:198): what        *)
(* rows_produced says of a merged run (merger.go:239-247).                 *)
RowsOfOutput ==
  \A r \in Runs : IsMerged(corpus, r) => corpus.history[r] = Cardinality(OutputRows(r))

(* While the first connection lasts, every row refers to rows that exist   *)
(* (corpus.sql:77,122,136,153-154 with db.go:97-99).                       *)
Refer(C) ==
  /\ \A c \in Stored(C.chunks) : C.files[Output[C.chunks[c]][c]] # "absent"
  /\ Stored(C.features) \cup Stored(C.vectors) \subseteq Stored(C.chunks)
  /\ \A p \in Stored(C.relations) : {p[1], p[2]} \subseteq Stored(C.chunks)
NoOrphans == NeverRecycled => Refer(corpus)

(* "Pragmas SQLite obligatoires (WAL, foreign_keys, etc.)"                 *)
(* (docs/HOROS_INTEGRATION_PLAN.md:128): the references hold on whatever   *)
(* connection a merge runs.                                                *)
ReferencesHold == Refer(corpus)

(* A run database in done/ has been merged, so GarbageCollect loses        *)
(* nothing (merger.go:164, 391).                                           *)
DoneMerged == \A r \in Runs : dirs["done"][r] = "real" => IsMerged(corpus, r)

(* Until it is merged, the output of a run is in some directory.           *)
NoOutputLost ==
  \A r \in Runs : IsMerged(corpus, r) \/ \E d \in Dirs : dirs[d][r] = "real"

(* A file is marked vectorized only if a merged run produced rows of it    *)
(* (merger.go:250).                                                        *)
VectorizedByMerge ==
  \A f \in Files : corpus.files[f] = "vectorized" =>
    \E r \in Runs : IsMerged(corpus, r) /\ f \in OutputFiles(r)

(* Whether a run can be merged whatever order the merges of other runs     *)
(* take, or because of runs queued before it with an older file.           *)
Refers(r) == Features[r] \cup Vectors[r] \cup {p[1] : p \in Relations[r]} \cup {p[2] : p \in Relations[r]}
Sound(r) ==
  /\ r \in Queued /\ MetaStatus[r] = "completed" /\ r \notin BadLayers
  /\ \A c \in LegalRows(r) : Output[r][c] \in InitFiles
SelfContained(r) == Sound(r) /\ Refers(r) \subseteq LegalRows(r)
Mergeable(r) ==
  /\ Sound(r)
  /\ Refers(r) \subseteq LegalRows(r) \cup
       UNION {LegalRows(q) : q \in {q \in Runs : SelfContained(q) /\ Mtime[q] < Mtime[r]}}

NoError == NoErrorSwallowed /\ faults["error"] = MaxFaults["error"]

(* "Integrates completed run outputs into the corpus" (merger.go:20): a    *)
(* completed run whose rows have what they refer to, if only in the older  *)
(* runs of the queue, is never moved to failed/ unless the database itself *)
(* reported an error.                                                      *)
MergeableNotFailed ==
  NoError => \A r \in Runs : Mergeable(r) => dirs["failed"][r] # "real"

(* Every file of the queue leaves it, whatever its age and the batch size. *)
QueueDrains ==
  \A r \in Runs : dirs["pending"][r] # "none" ~> dirs["pending"][r] = "none"

(* A completed run in the queue is merged in the end, across a crash.      *)
MergeableMerged ==
  \A r \in Runs : Mergeable(r) /\ dirs["pending"][r] = "real" ~> IsMerged(corpus, r) \/ ~NoError

(* The merger implements AtomicMerge: under every interleaving, crash and  *)
(* retry the corpus changes by whole integrations, each run's once.        *)
Atomic == INSTANCE AtomicMerge
AtomicSpec == Atomic!Spec

=============================================================================
