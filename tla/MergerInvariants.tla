-------------------------- MODULE MergerInvariants --------------------------
(***************************************************************************)
(* The inductive invariant behind the safety properties of Merger, in the  *)
(* parts in which MergerProofs establishes it.                             *)
(***************************************************************************)
EXTENDS Merger

Holding(a) == pc[a] \in AttachedSteps

(* An actor that is inside mergeRun has a path.                            *)
Busy == \A a \in Actors : pc[a] \notin {"off", "select", "next"} => cur[a] # NoPath

(* Faults are only used up.                                                *)
BudgetInv == \A k \in FaultKinds : faults[k] <= MaxFaults[k]

(* The loop runs only after Start, which never starts a second one.        *)
StartedInv == pc[Loop] # "off" => running \/ stopClosed

(* Who holds the alias, what is behind it, and which connections enforce   *)
(* foreign keys.                                                           *)
AliasInv ==
  /\ \A a \in Actors : Holding(a) => attached = cur[a]
  /\ \A a, b \in Actors : Holding(a) /\ Holding(b) => a = b
  /\ \A a \in Actors : Holding(a) => conn.src \in {RunOf(a), "empty", NoRun}
  /\ attached = NoPath => conn.src = NoRun
  /\ NeverRecycled =>
       /\ attached = NoPath => conn.fk
       /\ \A a \in Actors : Holding(a) => conn.fk \/ (pc[a] = "detach" /\ cancelled[a])

(* What a merge has established about its run before each step.            *)
RunInv ==
  /\ \A a \in Actors : pc[a] \in {"check", "begin"} \cup TxSteps => MetaStatus[RunOf(a)] = "completed"
  /\ NoErrorSwallowed => \A a \in Actors :
       /\ pc[a] = "begin" => cancelled[a] \/ ~IsMerged(corpus, RunOf(a))
       /\ InTx(a) => ~IsMerged(corpus, RunOf(a))
  /\ \A a \in Actors : pc[a] \in {"detach", "move"} /\ result[a] = "ok" => IsMerged(corpus, RunOf(a))

(* What a run's transaction has written when it reaches a step.            *)
Written(step, C, r) ==
  CASE step = "chunks"    -> C
    [] step = "features"  -> WithChunks(C, r)
    [] step = "vectors"   -> WithFeatures(WithChunks(C, r), r)
    [] step = "relations" -> WithVectors(WithFeatures(WithChunks(C, r), r), r)
    [] step = "history"   -> WithRelations(WithVectors(WithFeatures(WithChunks(C, r), r), r), r)
    [] step = "files"     -> WithHistory(WithRelations(WithVectors(WithFeatures(
                               WithChunks(C, r), r), r), r), r, Cardinality(Fresh(C, r)))
    [] OTHER              -> Integrated(C, r)

(* The working tables: nobody's outside a transaction; inside one, the     *)
(* corpus with the statements run so far, unless run_src went missing      *)
(* before the first of them, and then nothing at all.                      *)
WorkInv ==
  /\ NoTx => work = corpus
  /\ \A a \in Actors : InTx(a) =>
       /\ conn.src # RunOf(a) => work = corpus /\ pc[a] \notin {"files", "commit"}
       /\ conn.src = RunOf(a) /\ NoErrorSwallowed => work = Written(pc[a], corpus, RunOf(a))

(* Whose rows and marks the working tables hold, errors swallowed or not.  *)
MergedOr(C, r) == {q \in Runs : IsMerged(C, q)} \cup {NoRun, r}
Origins(W, C, r, step) ==
  /\ \A c \in Chunks : {W.chunks[c], W.features[c], W.vectors[c]} \subseteq MergedOr(C, r)
  /\ \A p \in Pairs : W.relations[p] \in MergedOr(C, r)
  /\ \A q \in Runs : IsMerged(W, q) <=> IsMerged(C, q) \/ (q = r /\ step \in {"files", "commit"})
  /\ \A f \in Files : W.files[f] = "vectorized" =>
       C.files[f] = "vectorized" \/ (step = "commit" /\ f \in OutputFiles(r))
OriginInv ==
  /\ Origins(corpus, corpus, NoRun, "chunks")
  /\ \A a \in Actors : InTx(a) => Origins(work, corpus, RunOf(a), pc[a])

(* Foreign keys hold in the working tables after each statement, and a     *)
(* chunk is a row its run offers.                                          *)
Owned(C) == \A c \in Stored(C.chunks) : c \in LegalRows(C.chunks[c])
ReferInv ==
  /\ Owned(corpus) /\ (NeverRecycled => Refer(corpus))
  /\ \A a \in Actors : InTx(a) => Owned(work) /\ (NeverRecycled => Refer(work))

(* The loop works on files of the queue that are there.                    *)
LoopPathInv ==
  pc[Loop] \notin {"off", "select", "next"} => cur[Loop][1] = "pending"

(* ProcessOne is handed no path of the queue: then a run has one file, no  *)
(* empty one ever enters the queue, and the loop's file stays until moved. *)
OutsideQueue == OneDirs \cap {"pending", "failed"} = {}
LoopHasFile ==
  /\ \A r \in todo : dirs["pending"][r] = "real"
  /\ pc[Loop] \notin {"off", "select", "next"} =>
       dirs["pending"][RunOf(Loop)] = "real" /\ RunOf(Loop) \notin todo
CallersOutside == \A a \in Callers : pc[a] # "off" => cur[a][1] \in OneDirs
NoEmptyQueued == \A r \in Runs : dirs["pending"][r] # "empty" /\ dirs["failed"][r] # "empty"
OneFile == \A r \in Runs : \A d, e \in Dirs : dirs[d][r] = "real" /\ dirs[e][r] = "real" => d = e
FilesInv == OutsideQueue => LoopHasFile /\ CallersOutside /\ NoEmptyQueued /\ OneFile

(* All parts together: inductive, and strong enough for the safety         *)
(* properties of Merger (merger.go:172-260 with db.go:195-259).            *)
IInv ==
  /\ TypeOK /\ Busy
  /\ BudgetInv /\ StartedInv /\ AliasInv /\ RunInv /\ WorkInv /\ OriginInv
  /\ ReferInv /\ LoopPathInv /\ FilesInv

(* The loop alone, never cancelled, on a connection that lasts: what its   *)
(* order and its single connection are worth.                              *)
LoopAlone == Callers = {} /\ OutsideQueue /\ MaxFaults["cancel"] = 0 /\ MaxFaults["recycle"] = 0

(* Nobody else has the alias, and the run's own database is behind it.     *)
AloneInv ==
  /\ ~cancelled[Loop]
  /\ IF Holding(Loop) THEN conn.src = RunOf(Loop) ELSE attached = NoPath

(* A run that another one may rest on is merged, or waits in the queue; of *)
(* those, the loop has the older ones in its batch, and takes them first.  *)
Merging == pc[Loop] \notin {"off", "select", "next"}
Taken(r) == r \in todo \/ (Merging /\ r = RunOf(Loop))
QueueOrder ==
  /\ \A r \in Runs : Mergeable(r) => IsMerged(corpus, r) \/ dirs["pending"][r] = "real"
  /\ pc[Loop] \notin {"off", "select"} =>
       \A q \in Runs : SelfContained(q) /\ ~IsMerged(corpus, q) /\ ~Taken(q) =>
         \A r \in Runs : Taken(r) => Mtime[r] <= Mtime[q]
  /\ Merging => \A r \in todo : Mtime[RunOf(Loop)] <= Mtime[r]

(* A mergeable run does not fail, so its file is not moved to failed/.     *)
SuccessInv ==
  /\ pc[Loop] \in {"detach", "move"} /\ Mergeable(RunOf(Loop)) => result[Loop] = "ok"
  /\ \A r \in Runs : Mergeable(r) => dirs["failed"][r] # "real"

(* No statement takes a file out of the corpus. *)
FilesStay == \A f \in InitFiles : corpus.files[f] # "absent" /\ work.files[f] # "absent"

(* All parts together, for the order of the queue (merger.go:120-169).     *)
QueueInv ==
  /\ IInv /\ FilesStay
  /\ LoopAlone /\ NoError => AloneInv /\ QueueOrder /\ SuccessInv

=============================================================================
