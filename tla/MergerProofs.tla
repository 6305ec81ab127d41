---------------------------- MODULE MergerProofs ----------------------------
(***************************************************************************)
(* The inductive invariant of Merger, for every set of runs, files and     *)
(* chunks, every number of callers and every budget of faults: one lemma   *)
(* per part of the invariant.  Then what it implies: the safety properties *)
(* of Merger, that it implements AtomicMerge, and, of the loop when it is  *)
(* alone, that it moves no mergeable run to failed/.                       *)
(***************************************************************************)
EXTENDS MergerInvariants, FiniteSetTheorems, TLAPS

-----------------------------------------------------------------------------
(* What the statements of a merge do to the type of the tables. *)

LEMMA CardinalityOfChunks ==
  ASSUME NEW S \in SUBSET Chunks
  PROVE  Cardinality(S) \in Nat
BY ChunksFinite, FS_Subset, FS_CardinalityType

LEMMA InsertTypes ==
  ASSUME NEW K, NEW table \in [K -> Runs \cup {NoRun}], NEW rows, NEW r \in Runs
  PROVE  /\ InsertOrIgnore(table, rows, r) \in [K -> Runs \cup {NoRun}]
         /\ InsertOrReplace(table, rows, r) \in [K -> Runs \cup {NoRun}]
BY DEF InsertOrIgnore, InsertOrReplace

LEMMA StatementTypes ==
  ASSUME NEW C \in Corpus, NEW r \in Runs
  PROVE  /\ WithChunks(C, r) \in Corpus
         /\ WithFeatures(C, r) \in Corpus
         /\ WithVectors(C, r) \in Corpus
         /\ WithRelations(C, r) \in Corpus
         /\ \A n \in Nat : WithHistory(C, r, n) \in Corpus
         /\ WithFiles(C, r) \in Corpus
<1>1. WithChunks(C, r) \in Corpus
  BY InsertTypes DEF WithChunks, Corpus
<1>2. WithFeatures(C, r) \in Corpus
  BY InsertTypes DEF WithFeatures, Corpus
<1>3. WithVectors(C, r) \in Corpus
  BY InsertTypes DEF WithVectors, Corpus
<1>4. WithRelations(C, r) \in Corpus
  BY InsertTypes DEF WithRelations, Corpus
<1>5. \A n \in Nat : WithHistory(C, r, n) \in Corpus
  BY DEF WithHistory, Corpus
<1>6. WithFiles(C, r) \in Corpus
  BY DEF WithFiles, Corpus
<1>. QED BY <1>1, <1>2, <1>3, <1>4, <1>5, <1>6

LEMMA EmptyCorpusType == EmptyCorpus \in Corpus
BY DEF EmptyCorpus, Corpus

-----------------------------------------------------------------------------
(* Types. *)

LEMMA ConnTypes ==
  OpenedConn \in Conns /\ ReplacedConn \in Conns
BY DEF Conns, OpenedConn, ReplacedConn

LEMMA RunOfType ==
  ASSUME TypeOK, NEW a \in Actors, cur[a] # NoPath
  PROVE  /\ cur[a] \in Paths /\ cur[a] = <<cur[a][1], cur[a][2]>>
         /\ cur[a][1] \in Dirs /\ RunOf(a) \in Runs
BY DEF TypeOK, Paths, RunOf

LEMMA SufferType ==
  ASSUME TypeOK, NEW kind \in FaultKinds, Suffer(kind)
  PROVE  faults' \in [FaultKinds -> Nat]
BY DEF TypeOK, Suffer

LEMMA ReturnType ==
  ASSUME TypeOK, Busy, NEW a \in Actors, cur[a] # NoPath,
         NEW res \in {"ok", "err"}, Return(a, res)
  PROVE  /\ pc' \in [Actors -> Steps] /\ cur' \in [Actors -> Paths \cup {NoPath}]
         /\ result' \in [Actors -> {"ok", "err"}] /\ cancelled' \in [Actors -> BOOLEAN]
         /\ Busy'
<1>1. CASE a = Loop
  BY <1>1 DEF Return, Goto, TypeOK, Busy, Steps
<1>2. CASE a # Loop
  BY <1>2 DEF Return, Goto, TypeOK, Busy, Steps
<1>. QED BY <1>1, <1>2

LEMMA TypeStep == TypeOK /\ Busy /\ [Next]_vars => TypeOK' /\ Busy'
<1> SUFFICES ASSUME TypeOK, Busy, [Next]_vars PROVE TypeOK' /\ Busy'
  OBVIOUS
<1> USE DEF TypeOK, Busy, Goto, Unwind, lifecycle, calls, database,
            Steps, AttachedSteps, TxSteps, Loop, Actors, FaultKinds
<1>1. CASE Start
  BY <1>1 DEF Start
<1>2. CASE Stop
  BY <1>2, SufferType DEF Stop
<1>3. CASE StopPanics
  BY <1>3, SufferType, ConnTypes DEF StopPanics, Restarted
<1>4. CASE LoopExit
  BY <1>4 DEF LoopExit
<1>5. CASE ProcessBatch
  BY <1>5 DEF ProcessBatch, Batches, Pending
<1>6. CASE NextRun
  BY <1>6, NumbersAssumption DEF NextRun, Paths, Dirs
<1>7. CASE MoveRun
  <2>1. cur[Loop] # NoPath
    BY <1>7 DEF MoveRun
  <2>2. RunOf(Loop) \in Runs
    BY <2>1, RunOfType
  <2>. QED
    BY <1>7, <2>2, SufferType DEF MoveRun, MoveFile, Destination, Dirs
<1>8. ASSUME NEW a \in Actors, MergeRun(a) PROVE TypeOK' /\ Busy'
  <2>1. CASE StatRun(a)
    BY <2>1, ReturnType DEF StatRun
  <2>2. CASE Attach(a)
    <3>1. cur[a] # NoPath
      BY <2>2 DEF Attach
    <3>2. /\ cur[a] \in Paths /\ cur[a][1] \in Dirs /\ cur[a][2] \in Runs
      BY <3>1, RunOfType DEF RunOf
    <3>3. faults' \in [FaultKinds -> Nat]
      BY <2>2, SufferType DEF Attach
    <3>4. attached' \in Paths \cup {NoPath}
      BY <2>2, <3>2 DEF Attach, AttachFails
    <3>5. conn' \in Conns /\ dirs' \in [Dirs -> [Runs -> {"none", "real", "empty"}]]
      <4>1. CASE UNCHANGED <<conn, dirs>>
        BY <4>1
      <4>2. CASE /\ conn' = [conn EXCEPT !.src = IF FileAt(cur[a]) = "real" THEN cur[a][2] ELSE "empty"]
                 /\ dirs' = [dirs EXCEPT ![cur[a][1]][cur[a][2]] = IF @ = "none" THEN "empty" ELSE @]
        <5>1. conn' \in Conns
          <6>1. CASE FileAt(cur[a]) = "real"
            BY <4>2, <6>1, <3>2 DEF Conns
          <6>2. CASE FileAt(cur[a]) # "real"
            BY <4>2, <6>2 DEF Conns
          <6>. QED BY <6>1, <6>2
        <5>2. dirs' \in [Dirs -> [Runs -> {"none", "real", "empty"}]]
          BY <4>2, <3>2
        <5>. QED BY <5>1, <5>2
      <4>. QED BY <2>2, <4>1, <4>2 DEF Attach, AttachFails
    <3>6. /\ pc' \in [Actors -> Steps] /\ cur' \in [Actors -> Paths \cup {NoPath}]
          /\ result' \in [Actors -> {"ok", "err"}] /\ cancelled' \in [Actors -> BOOLEAN]
          /\ Busy'
      <4>1. CASE Goto(a, "status") /\ UNCHANGED <<cur, result, cancelled>>
        BY <4>1, <3>1
      <4>2. CASE Return(a, "err")
        BY <4>2, <3>1, ReturnType
      <4>. QED
        BY <2>2, <4>1, <4>2 DEF Attach, AttachFails
    <3>. QED
      BY <2>2, <3>3, <3>4, <3>5, <3>6 DEF Attach
  <2>3. CASE CheckStatus(a)
    <3>1. faults' \in [FaultKinds -> Nat]
      BY <2>3, SufferType DEF CheckStatus
    <3>. QED
      BY <2>3, <3>1 DEF CheckStatus
  <2>4. CASE CheckMerged(a)
    BY <2>4, SufferType DEF CheckMerged
  <2>5. CASE BeginTx(a)
    <3>1. faults' \in [FaultKinds -> Nat]
      BY <2>5, SufferType DEF BeginTx
    <3>. QED
      BY <2>5, <3>1 DEF BeginTx
  <2>6. ASSUME InTx(a) PROVE RunOf(a) \in Runs
    BY <2>6, RunOfType DEF InTx
  <2>7. CASE MergeChunks(a)
    <3>1. WithChunks(work, RunOf(a)) \in Corpus
      BY <2>6, <2>7, StatementTypes DEF MergeChunks, Statement, SkipTable, InTx
    <3>. QED
      BY <2>7, <3>1, SufferType DEF MergeChunks, Statement, SkipTable
  <2>8. CASE MergeFeatures(a)
    <3>1. WithFeatures(work, RunOf(a)) \in Corpus
      BY <2>6, <2>8, StatementTypes DEF MergeFeatures, Statement, SkipTable, InTx
    <3>. QED
      BY <2>8, <3>1, SufferType DEF MergeFeatures, Statement, SkipTable
  <2>9. CASE MergeVectors(a)
    <3>1. WithVectors(work, RunOf(a)) \in Corpus
      BY <2>6, <2>9, StatementTypes DEF MergeVectors, Statement, SkipTable, InTx
    <3>. QED
      BY <2>9, <3>1, SufferType DEF MergeVectors, Statement, SkipTable
  <2>10. CASE MergeRelations(a)
    <3>1. WithRelations(work, RunOf(a)) \in Corpus
      BY <2>6, <2>10, StatementTypes DEF MergeRelations, Statement, SkipTable, InTx
    <3>. QED
      BY <2>10, <3>1, SufferType DEF MergeRelations, Statement, SkipTable
  <2>11. CASE UpdateHistory(a)
    <3>1. Cardinality(Inserted) \in Nat
      BY CardinalityOfChunks DEF Inserted
    <3>2. WithHistory(work, RunOf(a), Cardinality(Inserted)) \in Corpus
      BY <2>6, <2>11, <3>1, StatementTypes DEF UpdateHistory, Statement, InTx
    <3>. QED
      BY <2>11, <3>2 DEF UpdateHistory, Statement
  <2>12. CASE UpdateFiles(a)
    <3>1. WithFiles(work, RunOf(a)) \in Corpus
      BY <2>6, <2>12, StatementTypes DEF UpdateFiles, Statement, InTx
    <3>. QED
      BY <2>12, <3>1 DEF UpdateFiles, Statement
  <2>13. CASE Commit(a)
    BY <2>13 DEF Commit
  <2>14. CASE Rollback(a)
    <3>1. faults' \in [FaultKinds -> Nat]
      BY <2>14, SufferType DEF Rollback
    <3>2. conn' \in Conns
      BY <2>14, ConnTypes DEF Rollback
    <3>. QED
      BY <2>14, <3>1, <3>2 DEF Rollback, TxRolledBack, InTx
  <2>15. CASE Detach(a)
    <3>1. faults' \in [FaultKinds -> Nat]
      BY <2>15, SufferType DEF Detach
    <3>2. attached' \in Paths \cup {NoPath} /\ conn' \in Conns
      <4>1. [conn EXCEPT !.src = NoRun] \in Conns
        BY DEF Conns
      <4>. QED BY <2>15, <4>1 DEF Detach, Detached
    <3>3. cur[a] # NoPath
      BY <2>15 DEF Detach
    <3>. QED
      BY <2>15, <3>1, <3>2, <3>3, ReturnType DEF Detach
  <2>. QED
    BY <1>8, <2>1, <2>2, <2>3, <2>4, <2>5, <2>7, <2>8, <2>9, <2>10, <2>11, <2>12, <2>13,
       <2>14, <2>15 DEF MergeRun
<1>9. ASSUME NEW a \in Actors, Cancel(a) PROVE TypeOK' /\ Busy'
  BY <1>9, SufferType DEF Cancel
<1>10. ASSUME NEW a \in Callers, NEW p \in Paths, ProcessOne(a, p) PROVE TypeOK' /\ Busy'
  BY <1>10, NumbersAssumption DEF ProcessOne
<1>11. ASSUME NEW r \in Runs, RetryFailed(r) PROVE TypeOK' /\ Busy'
  BY <1>11, SufferType DEF RetryFailed, MoveFile, Dirs
<1>12. ASSUME NEW r \in Runs, GarbageCollect(r) PROVE TypeOK' /\ Busy'
  BY <1>12 DEF GarbageCollect, Dirs
<1>13. ASSUME NEW r \in Runs, Enqueue(r) PROVE TypeOK' /\ Busy'
  BY <1>13 DEF Enqueue, MoveFile, Dirs
<1>14. ASSUME NEW f \in Files, Import(f) PROVE TypeOK' /\ Busy'
  <2>1. WithImport(corpus, f) \in Corpus
    BY DEF WithImport, Corpus
  <2>. QED
    BY <1>14, <2>1 DEF Import
<1>15. CASE Recycle
  BY <1>15, SufferType, ConnTypes DEF Recycle
<1>16. CASE Crash
  BY <1>16, SufferType, ConnTypes DEF Crash, Restarted
<1>17. CASE UNCHANGED vars
  BY <1>17 DEF vars
<1>. QED
  BY <1>1, <1>2, <1>3, <1>4, <1>5, <1>6, <1>7, <1>8, <1>9, <1>10, <1>11, <1>12, <1>13,
     <1>14, <1>15, <1>16, <1>17 DEF Next

LEMMA InitTypes == Init => TypeOK /\ Busy
<1> SUFFICES ASSUME Init PROVE TypeOK /\ Busy
  OBVIOUS
<1>1. pc \in [Actors -> Steps] /\ Busy
  BY DEF Init, Steps, Busy
<1>2. dirs \in [Dirs -> [Runs -> {"none", "real", "empty"}]]
  BY DEF Init
<1>3. corpus \in Corpus /\ work \in Corpus /\ faults \in [FaultKinds -> Nat]
  BY EmptyCorpusType, NumbersAssumption DEF Init
<1>. QED
  BY <1>1, <1>2, <1>3, ConnTypes DEF Init, TypeOK

-----------------------------------------------------------------------------
(* Faults. *)

(* A step keeps the budget of faults or takes one fault from it. *)
LEMMA FaultStep ==
  ASSUME [Next]_vars
  PROVE  UNCHANGED faults \/ \E k \in FaultKinds : Suffer(k)
<1>1. ASSUME NEW z \in Actors, MergeRun(z)
      PROVE  UNCHANGED faults \/ \E k \in FaultKinds : Suffer(k)
  BY <1>1 DEF MergeRun, StatRun, Attach, CheckStatus, CheckMerged, BeginTx, MergeChunks, MergeFeatures,
       MergeVectors, MergeRelations, UpdateHistory, UpdateFiles, Statement, SkipTable, Commit,
       Rollback, Detach, FaultKinds
<1>. QED
  BY <1>1 DEF Next, Start, Stop, StopPanics, LoopExit, ProcessBatch, NextRun, MoveRun, Cancel,
       ProcessOne, RetryFailed, GarbageCollect, Enqueue, Import, Recycle, Crash, FaultKinds, vars

LEMMA SufferSpends ==
  ASSUME TypeOK, NEW k \in FaultKinds, Suffer(k)
  PROVE  \A j \in FaultKinds : faults'[j] <= faults[j]
BY DEF Suffer, TypeOK

LEMMA BudgetStep ==
  ASSUME TypeOK, BudgetInv, [Next]_vars
  PROVE  /\ BudgetInv'
         /\ NoErrorSwallowed' => NoErrorSwallowed
         /\ NeverRecycled' => NeverRecycled
<1>1. \A j \in FaultKinds : faults'[j] <= faults[j]
  BY FaultStep, SufferSpends DEF TypeOK
<1>2. faults' \in [FaultKinds -> Nat]
  BY FaultStep, SufferType DEF TypeOK
<1>3. \A j \in FaultKinds : faults'[j] <= MaxFaults[j] /\ (faults'[j] = MaxFaults[j] => faults[j] = MaxFaults[j])
  <2> SUFFICES ASSUME NEW j \in FaultKinds
               PROVE  faults'[j] <= MaxFaults[j] /\ (faults'[j] = MaxFaults[j] => faults[j] = MaxFaults[j])
    OBVIOUS
  <2>1. faults'[j] \in Nat /\ faults[j] \in Nat /\ MaxFaults[j] \in Nat
    BY <1>2, NumbersAssumption DEF TypeOK
  <2>2. faults'[j] <= faults[j] /\ faults[j] <= MaxFaults[j]
    BY <1>1 DEF BudgetInv
  <2>. QED
    BY <2>1, <2>2
<1>. QED
  BY <1>3 DEF BudgetInv, NoErrorSwallowed, NeverRecycled, FaultKinds


-----------------------------------------------------------------------------
(* What a step leaves alone. *)

(* A step of mergeRun moves no other actor. *)
LEMMA OthersStay ==
  ASSUME TypeOK, NEW z \in Actors, MergeRun(z), NEW a \in Actors \ {z}
  PROVE  /\ pc'[a] = pc[a] /\ cur'[a] = cur[a]
         /\ result'[a] = result[a] /\ cancelled'[a] = cancelled[a]
BY DEF TypeOK, MergeRun, StatRun, Attach, AttachFails, CheckStatus, CheckMerged, BeginTx,
     MergeChunks, MergeFeatures, MergeVectors, MergeRelations, UpdateHistory, UpdateFiles,
     Statement, SkipTable, Commit, Rollback, Detach, Return, Unwind, Goto

(* Only a commit or an import writes the corpus. *)
LEMMA CorpusWriters ==
  ASSUME [Next]_vars
  PROVE  \/ UNCHANGED corpus
         \/ \E z \in Actors : Commit(z)
         \/ \E f \in Files : Import(f)
<1>1. ASSUME NEW z \in Actors, MergeRun(z)
      PROVE  UNCHANGED corpus \/ Commit(z)
  BY <1>1 DEF MergeRun, StatRun, Attach, CheckStatus, CheckMerged, BeginTx, MergeChunks, MergeFeatures,
       MergeVectors, MergeRelations, UpdateHistory, UpdateFiles, Statement, SkipTable,
       Rollback, TxRolledBack, Detach, database
<1>. QED
  BY <1>1 DEF Next, Start, Stop, StopPanics, Restarted, LoopExit, ProcessBatch, NextRun, MoveRun,
       Cancel, ProcessOne, RetryFailed, GarbageCollect, Enqueue, Recycle, Crash, vars, database

(* An actor of a merge is the only one. *)
LEMMA HoldsAlone ==
  ASSUME AliasInv, NEW z \in Actors, Holding(z)
  PROVE  \A a \in Actors \ {z} : ~Holding(a) /\ ~InTx(a)
BY DEF AliasInv, Holding, InTx, AttachedSteps

-----------------------------------------------------------------------------
(* The alias run_src. *)

(* Whoever holds the alias holds it alone, with its own run or none behind it. *)
LEMMA AliasStep ==
  ASSUME TypeOK, Busy, BudgetInv, AliasInv, [Next]_vars
  PROVE  AliasInv'
<1> USE DEF AliasInv, TypeOK, Busy, Holding, RunOf, NeverRecycled, NoTx, InTx, Goto, Unwind, Suffer, BudgetInv,
        lifecycle, calls, database, AttachedSteps, TxSteps, Steps, Actors, Loop, FaultKinds
<1>1. CASE Start
  BY <1>1 DEF Start
<1>2. CASE Stop
  BY <1>2 DEF Stop
<1>3. CASE StopPanics
  BY <1>3 DEF StopPanics, Restarted, OpenedConn
<1>4. CASE LoopExit
  BY <1>4 DEF LoopExit
<1>5. CASE ProcessBatch
  BY <1>5 DEF ProcessBatch
<1>6. CASE NextRun
  BY <1>6 DEF NextRun
<1>7. CASE MoveRun
  BY <1>7 DEF MoveRun, MoveFile
<1>8. ASSUME NEW z \in Actors, MergeRun(z) PROVE AliasInv'
  <2>1. CASE StatRun(z)
    BY <2>1 DEF StatRun, Return
  <2>2. CASE Attach(z)
    <3>1. CASE /\ attached = NoPath /\ ~cancelled[z]
               /\ attached' = cur[z]
               /\ conn' = [conn EXCEPT !.src = IF FileAt(cur[z]) = "real" THEN cur[z][2] ELSE "empty"]
               /\ pc' = [pc EXCEPT ![z] = "status"]
               /\ UNCHANGED <<cur, cancelled, faults>>
      <4>1. \A a \in Actors : ~Holding(a)
        BY <3>1
      <4>2. \A a \in Actors : Holding(a)' => a = z
        BY <3>1, <4>1
      <4>3. conn'.src \in {RunOf(z)', "empty"} /\ conn'.fk = conn.fk
        BY <3>1 DEF Conns
      <4>4. cur[z] # NoPath
        BY <2>2 DEF Attach
      <4>. QED
        BY <3>1, <4>2, <4>3, <4>4
    <3>2. CASE Return(z, "err") /\ UNCHANGED <<attached, conn>>
      BY <2>2, <3>2 DEF Attach, AttachFails, Return
    <3>. QED
      BY <2>2, <3>1, <3>2 DEF Attach, AttachFails
  <2>3. CASE CheckStatus(z)
    BY <2>3 DEF CheckStatus
  <2>4. CASE CheckMerged(z)
    BY <2>4 DEF CheckMerged
  <2>5. CASE BeginTx(z)
    BY <2>5 DEF BeginTx
  <2>6. CASE MergeChunks(z)
    BY <2>6 DEF MergeChunks, Statement, SkipTable
  <2>7. CASE MergeFeatures(z)
    BY <2>7 DEF MergeFeatures, Statement, SkipTable
  <2>8. CASE MergeVectors(z)
    BY <2>8 DEF MergeVectors, Statement, SkipTable
  <2>9. CASE MergeRelations(z)
    BY <2>9 DEF MergeRelations, Statement, SkipTable
  <2>10. CASE UpdateHistory(z)
    BY <2>10 DEF UpdateHistory, Statement
  <2>11. CASE UpdateFiles(z)
    BY <2>11 DEF UpdateFiles, Statement
  <2>12. CASE Commit(z)
    BY <2>12 DEF Commit
  <2>13. CASE Rollback(z)
    BY <2>13 DEF Rollback, TxRolledBack, ReplacedConn
  <2>14. CASE Detach(z)
    <3>1. CASE /\ ~cancelled[z] /\ conn.src # NoRun
               /\ attached' = NoPath
               /\ conn' = [conn EXCEPT !.src = NoRun]
               /\ UNCHANGED faults
      <4>1. conn'.src = NoRun /\ conn'.fk = conn.fk
        BY <3>1 DEF Conns
      <4>2. \A a \in Actors : ~Holding(a)'
        BY <2>14, <3>1 DEF Detach, Return
      <4>. QED
        BY <2>14, <3>1, <4>1, <4>2 DEF Detach
    <3>2. CASE UNCHANGED <<attached, conn>>
      <4>1. \A a \in Actors : Holding(a)' => a # z /\ Holding(a) /\ cur'[a] = cur[a] /\ cancelled'[a] = cancelled[a] /\ pc'[a] = pc[a]
        BY <2>14, <3>2 DEF Detach, Return
      <4>2. NeverRecycled' => NeverRecycled
        BY <2>14 DEF Detach
      <4>. QED
        BY <2>14, <3>2, <4>1, <4>2
    <3>. QED
      BY <2>14, <3>1, <3>2 DEF Detach, Detached
  <2>. QED
    BY <1>8, <2>1, <2>2, <2>3, <2>4, <2>5, <2>6, <2>7, <2>8, <2>9, <2>10, <2>11, <2>12, <2>13, <2>14 DEF MergeRun
<1>9. ASSUME NEW z \in Actors, Cancel(z) PROVE AliasInv'
  BY <1>9 DEF Cancel
<1>10. ASSUME NEW z \in Callers, NEW p \in Paths, ProcessOne(z, p) PROVE AliasInv'
  BY <1>10 DEF ProcessOne
<1>11. ASSUME NEW r \in Runs, RetryFailed(r) PROVE AliasInv'
  BY <1>11 DEF RetryFailed, MoveFile
<1>12. ASSUME NEW r \in Runs, GarbageCollect(r) PROVE AliasInv'
  BY <1>12 DEF GarbageCollect
<1>13. ASSUME NEW r \in Runs, Enqueue(r) PROVE AliasInv'
  BY <1>13 DEF Enqueue, MoveFile
<1>14. ASSUME NEW f \in Files, Import(f) PROVE AliasInv'
  BY <1>14 DEF Import
<1>15. CASE Recycle
  BY <1>15 DEF Recycle, ReplacedConn
<1>16. CASE Crash
  BY <1>16 DEF Crash, Restarted, OpenedConn
<1>17. CASE UNCHANGED vars
  BY <1>17 DEF vars
<1>. QED
  BY <1>1, <1>2, <1>3, <1>4, <1>5, <1>6, <1>7, <1>8, <1>9, <1>10, <1>11, <1>12, <1>13, <1>14, <1>15, <1>16, <1>17 DEF Next

-----------------------------------------------------------------------------
(* What a merge has established about its run. *)

(* A commit records the run of its transaction, and no other. *)
LEMMA CommitRecords ==
  ASSUME TypeOK, OriginInv, NEW z \in Actors, Commit(z)
  PROVE  \A r \in Runs : IsMerged(corpus', r) <=> IsMerged(corpus, r) \/ r = RunOf(z)
BY DEF OriginInv, Origins, Commit, InTx, TxSteps

LEMMA ImportKeepsHistory ==
  ASSUME TypeOK, NEW f \in Files, Import(f)
  PROVE  \A r \in Runs : IsMerged(corpus', r) <=> IsMerged(corpus, r)
BY DEF Import, WithImport, IsMerged, TypeOK, Corpus

(* No run is forgotten. *)
LEMMA MergedStays ==
  ASSUME TypeOK, OriginInv, [Next]_vars
  PROVE  \A r \in Runs : IsMerged(corpus, r) => IsMerged(corpus', r)
BY CorpusWriters, CommitRecords, ImportKeepsHistory

LEMMA SwallowedShows ==
  ASSUME TypeOK, BudgetInv, Suffer("swallowed")
  PROVE  ~NoErrorSwallowed'
<1>1. faults["swallowed"] \in Nat /\ faults["swallowed"] <= MaxFaults["swallowed"]
  BY DEF TypeOK, BudgetInv, FaultKinds
<1>2. faults'["swallowed"] = faults["swallowed"] - 1
  BY DEF Suffer, TypeOK, FaultKinds
<1>3. MaxFaults["swallowed"] \in Nat
  BY NumbersAssumption DEF FaultKinds
<1>. QED
  BY <1>1, <1>2, <1>3 DEF NoErrorSwallowed

LEMMA RecycledShows ==
  ASSUME TypeOK, BudgetInv, Suffer("recycle")
  PROVE  ~NeverRecycled'
<1>1. faults["recycle"] \in Nat /\ faults["recycle"] <= MaxFaults["recycle"]
  BY DEF TypeOK, BudgetInv, FaultKinds
<1>2. faults'["recycle"] = faults["recycle"] - 1
  BY DEF Suffer, TypeOK, FaultKinds
<1>3. MaxFaults["recycle"] \in Nat
  BY NumbersAssumption DEF FaultKinds
<1>. QED
  BY <1>1, <1>2, <1>3 DEF NeverRecycled
LEMMA StatusEffect ==
  ASSUME NEW a, CheckStatus(a)
  PROVE  /\ \/ pc' = [pc EXCEPT ![a] = "check"] /\ MetaStatus[RunOf(a)] = "completed" /\ result' = result
            \/ pc' = [pc EXCEPT ![a] = "detach"] /\ result' = [result EXCEPT ![a] = "err"]
         /\ UNCHANGED <<cur, cancelled, corpus>>
BY DEF CheckStatus, Goto, Unwind, database

LEMMA RunStep ==
  ASSUME TypeOK, Busy, BudgetInv, AliasInv, OriginInv, RunInv, [Next]_vars
  PROVE  RunInv'
<1> USE DEF TypeOK, Busy, Goto, Unwind, RunInv, RunOf, InTx, IsMerged, lifecycle, calls, database,
            TxSteps, AttachedSteps, Steps, Actors, Loop
<1>0. NoErrorSwallowed' => NoErrorSwallowed
  BY BudgetStep
<1> USE <1>0
<1>1. CASE Start
  BY <1>1 DEF Start
<1>2. CASE Stop
  BY <1>2 DEF Stop
<1>3. CASE StopPanics
  BY <1>3 DEF StopPanics, Restarted, OpenedConn
<1>4. CASE LoopExit
  BY <1>4 DEF LoopExit
<1>5. CASE ProcessBatch
  BY <1>5 DEF ProcessBatch
<1>6. CASE NextRun
  BY <1>6 DEF NextRun, Oldest
<1>7. CASE MoveRun
  BY <1>7 DEF MoveRun, MoveFile, Destination
<1>8. ASSUME NEW z \in Actors, MergeRun(z) PROVE RunInv'
  <2>1. CASE StatRun(z)
    BY <2>1 DEF StatRun, Return
  <2>2. CASE Attach(z)
    BY <2>2 DEF Attach, AttachFails, Return
  <2>3. CASE CheckStatus(z)
    BY <1>8, <2>3, StatusEffect
  <2>4. CASE CheckMerged(z)
    BY <2>4, SwallowedShows DEF CheckMerged
  <2>5. CASE BeginTx(z)
    BY <2>5 DEF BeginTx
  <2>6. CASE MergeChunks(z)
    BY <2>6 DEF MergeChunks, Statement, SkipTable
  <2>7. CASE MergeFeatures(z)
    BY <2>7 DEF MergeFeatures, Statement, SkipTable
  <2>8. CASE MergeVectors(z)
    BY <2>8 DEF MergeVectors, Statement, SkipTable
  <2>9. CASE MergeRelations(z)
    BY <2>9 DEF MergeRelations, Statement, SkipTable
  <2>10. CASE UpdateHistory(z)
    BY <2>10 DEF UpdateHistory, Statement
  <2>11. CASE UpdateFiles(z)
    BY <2>11 DEF UpdateFiles, Statement
  <2>12. CASE Commit(z)
    <3>1. \A r \in Runs : IsMerged(corpus', r) <=> IsMerged(corpus, r) \/ r = RunOf(z)
      BY <2>12, CommitRecords
    <3>2. RunOf(z) \in Runs
      BY <2>12, RunOfType DEF Commit
    <3>3. \A a \in Actors : pc'[a] \in {"check", "begin", "detach"} \cup TxSteps => a = z
      BY <2>12, HoldsAlone, OthersStay, <1>8 DEF Holding, Commit
    <3>4. ASSUME NEW a \in Actors, pc'[a] = "move", result'[a] = "ok"
          PROVE  IsMerged(corpus', RunOf(a)')
      <4>1. a # z
        BY <2>12, <3>4 DEF Commit
      <4>2. pc[a] = "move" /\ result[a] = "ok" /\ RunOf(a)' = RunOf(a)
        BY <1>8, <3>4, <4>1, OthersStay
      <4>. QED
        BY <3>1, <4>2, RunOfType
    <3>5. pc'[z] = "detach" /\ RunOf(z)' = RunOf(z)
      BY <2>12 DEF Commit
    <3>. QED
      BY <3>1, <3>2, <3>3, <3>4, <3>5
  <2>13. CASE Rollback(z)
    BY <2>13 DEF Rollback, TxRolledBack, ReplacedConn
  <2>14. CASE Detach(z)
    BY <2>14 DEF Detach, Detached, Return
  <2>. QED
    BY <1>8, <2>1, <2>2, <2>3, <2>4, <2>5, <2>6, <2>7, <2>8, <2>9, <2>10, <2>11, <2>12, <2>13, <2>14 DEF MergeRun
<1>9. ASSUME NEW z \in Actors, Cancel(z) PROVE RunInv'
  BY <1>9 DEF Cancel
<1>10. ASSUME NEW z \in Callers, NEW p \in Paths, ProcessOne(z, p) PROVE RunInv'
  BY <1>10 DEF ProcessOne
<1>11. ASSUME NEW r \in Runs, RetryFailed(r) PROVE RunInv'
  BY <1>11 DEF RetryFailed, MoveFile
<1>12. ASSUME NEW r \in Runs, GarbageCollect(r) PROVE RunInv'
  BY <1>12 DEF GarbageCollect
<1>13. ASSUME NEW r \in Runs, Enqueue(r) PROVE RunInv'
  BY <1>13 DEF Enqueue, MoveFile
<1>14. ASSUME NEW f \in Files, Import(f) PROVE RunInv'
  BY <1>14, ImportKeepsHistory, RunOfType DEF Import
<1>15. CASE Recycle
  BY <1>15 DEF Recycle, ReplacedConn
<1>16. CASE Crash
  BY <1>16 DEF Crash, Restarted, OpenedConn
<1>17. CASE UNCHANGED vars
  BY <1>17 DEF vars
<1>. QED
  BY <1>1, <1>2, <1>3, <1>4, <1>5, <1>6, <1>7, <1>8, <1>9, <1>10, <1>11, <1>12, <1>13, <1>14, <1>15, <1>16, <1>17 DEF Next

-----------------------------------------------------------------------------
(* What can happen to a transaction: it begins, its next statement runs or *)
(* is skipped, or nothing of it changes.                                   *)
TxRuns(a) ==
  \/ BeginTx(a) \/ MergeChunks(a) \/ MergeFeatures(a) \/ MergeVectors(a) \/ MergeRelations(a)
  \/ UpdateHistory(a) \/ UpdateFiles(a)
TxWaits(a) ==
  /\ InTx(a) /\ pc'[a] = pc[a] /\ cur'[a] = cur[a]
  /\ UNCHANGED <<corpus, work, conn>>

LEMMA TxStep ==
  ASSUME TypeOK, Busy, AliasInv, [Next]_vars, NEW a \in Actors, InTx(a)'
  PROVE  TxRuns(a) \/ TxWaits(a)
<1> USE DEF TypeOK, Goto, Unwind, InTx, TxSteps, lifecycle, calls, database
<1>1. ASSUME MergeRun(a) PROVE TxRuns(a)
  BY <1>1 DEF MergeRun, TxRuns, StatRun, Attach, AttachFails, CheckStatus, CheckMerged, Commit, Rollback, Detach, Return
<1>2. ASSUME NEW z \in Actors \ {a}, MergeRun(z) PROVE TxWaits(a)
  <2>1. /\ InTx(a) /\ pc'[a] = pc[a] /\ cur'[a] = cur[a] /\ ~NoTx
    BY <1>2, OthersStay DEF NoTx
  <2>2. ~Holding(z) /\ ~InTx(z) /\ attached # NoPath
    BY <2>1, HoldsAlone DEF AliasInv, Holding, AttachedSteps, Busy
  <2>. QED
    BY <1>2, <2>1, <2>2 DEF MergeRun, TxWaits, StatRun, Attach, AttachFails, CheckStatus, CheckMerged, BeginTx,
       MergeChunks, MergeFeatures, MergeVectors, MergeRelations, UpdateHistory, UpdateFiles,
       Statement, SkipTable, Commit, Rollback, Detach, Holding, AttachedSteps
<1>3. ASSUME ~\E z \in Actors : MergeRun(z) PROVE TxWaits(a)
  BY <1>3 DEF Next, TxWaits, NoTx, Start, Stop, StopPanics, Restarted, LoopExit, ProcessBatch, NextRun,
     MoveRun, Cancel, ProcessOne, RetryFailed, GarbageCollect, Enqueue, Import, Recycle, Crash, vars, Actors
<1>. QED
  BY <1>1, <1>2, <1>3

-----------------------------------------------------------------------------
(* Whose rows the working tables hold. *)

LEMMA StatementFields ==
  ASSUME NEW C \in Corpus, NEW r \in Runs
  PROVE  /\ WithChunks(C, r).chunks = InsertOrIgnore(C.chunks, LegalRows(r), r)
         /\ WithChunks(C, r).features = C.features /\ WithChunks(C, r).vectors = C.vectors
         /\ WithChunks(C, r).relations = C.relations /\ WithChunks(C, r).history = C.history
         /\ WithChunks(C, r).files = C.files
         /\ WithFeatures(C, r).features = InsertOrReplace(C.features, Features[r], r)
         /\ WithFeatures(C, r).chunks = C.chunks /\ WithFeatures(C, r).vectors = C.vectors
         /\ WithFeatures(C, r).relations = C.relations /\ WithFeatures(C, r).history = C.history
         /\ WithFeatures(C, r).files = C.files
         /\ WithVectors(C, r).vectors = InsertOrReplace(C.vectors, Vectors[r], r)
         /\ WithVectors(C, r).chunks = C.chunks /\ WithVectors(C, r).features = C.features
         /\ WithVectors(C, r).relations = C.relations /\ WithVectors(C, r).history = C.history
         /\ WithVectors(C, r).files = C.files
         /\ WithRelations(C, r).relations = InsertOrIgnore(C.relations, Relations[r], r)
         /\ WithRelations(C, r).chunks = C.chunks /\ WithRelations(C, r).features = C.features
         /\ WithRelations(C, r).vectors = C.vectors /\ WithRelations(C, r).history = C.history
         /\ WithRelations(C, r).files = C.files
BY DEF WithChunks, WithFeatures, WithVectors, WithRelations, Corpus

LEMMA MarkFields ==
  ASSUME NEW C \in Corpus, NEW r \in Runs, NEW n \in Nat
  PROVE  /\ WithHistory(C, r, n).history = [q \in Runs |-> IF q = r THEN n ELSE C.history[q]]
         /\ WithHistory(C, r, n).chunks = C.chunks /\ WithHistory(C, r, n).features = C.features
         /\ WithHistory(C, r, n).vectors = C.vectors /\ WithHistory(C, r, n).relations = C.relations
         /\ WithHistory(C, r, n).files = C.files
         /\ WithFiles(C, r).files =
              [f \in Files |-> IF f \in OutputFiles(r) /\ C.files[f] # "absent" THEN "vectorized" ELSE C.files[f]]
         /\ WithFiles(C, r).chunks = C.chunks /\ WithFiles(C, r).features = C.features
         /\ WithFiles(C, r).vectors = C.vectors /\ WithFiles(C, r).relations = C.relations
         /\ WithFiles(C, r).history = C.history
BY DEF WithHistory, WithFiles, Corpus

(* Both ways of inserting leave a row or put the run's. *)
LEMMA InsertOrigin ==
  ASSUME NEW K, NEW table \in [K -> Runs \cup {NoRun}], NEW rows, NEW r, NEW k \in K
  PROVE  /\ InsertOrIgnore(table, rows, r)[k] \in {table[k], r}
         /\ InsertOrReplace(table, rows, r)[k] \in {table[k], r}
BY DEF InsertOrIgnore, InsertOrReplace

LEMMA OriginsOfStatements ==
  ASSUME NEW W \in Corpus, NEW C \in Corpus, NEW r \in Runs, NEW s \in TxSteps, Origins(W, C, r, s)
  PROVE  /\ s = "chunks" => Origins(WithChunks(W, r), C, r, "features")
         /\ s = "features" => Origins(WithFeatures(W, r), C, r, "vectors")
         /\ s = "vectors" => Origins(WithVectors(W, r), C, r, "relations")
         /\ s = "relations" => Origins(WithRelations(W, r), C, r, "history")
         /\ s = "history" => \A n \in Nat : Origins(WithHistory(W, r, n), C, r, "files")
         /\ s = "files" => Origins(WithFiles(W, r), C, r, "commit")
         /\ s \notin {"files", "commit"} =>
              \A t \in {"chunks", "features", "vectors", "relations", "history"} : Origins(W, C, r, t)
<1>1. /\ W.chunks \in [Chunks -> Runs \cup {NoRun}] /\ W.features \in [Chunks -> Runs \cup {NoRun}]
      /\ W.vectors \in [Chunks -> Runs \cup {NoRun}] /\ W.relations \in [Pairs -> Runs \cup {NoRun}]
      /\ W.files \in [Files -> {"absent", "pending", "vectorized"}]
  BY DEF Corpus
<1>2. r \in MergedOr(C, r)
  BY DEF MergedOr
<1>3. ASSUME s = "chunks" PROVE Origins(WithChunks(W, r), C, r, "features")
  BY <1>1, <1>2, <1>3, StatementFields, InsertOrigin DEF Origins, IsMerged
<1>4. ASSUME s = "features" PROVE Origins(WithFeatures(W, r), C, r, "vectors")
  <2>1. \A c \in Chunks : WithFeatures(W, r).features[c] \in {W.features[c], r}
    BY <1>1, StatementFields, InsertOrigin
  <2>. QED
    BY <1>2, <1>4, <2>1, StatementFields DEF Origins, IsMerged
<1>5. ASSUME s = "vectors" PROVE Origins(WithVectors(W, r), C, r, "relations")
  BY <1>1, <1>2, <1>5, StatementFields, InsertOrigin DEF Origins, IsMerged
<1>6. ASSUME s = "relations" PROVE Origins(WithRelations(W, r), C, r, "history")
  BY <1>1, <1>2, <1>6, StatementFields, InsertOrigin DEF Origins, IsMerged
<1>7. ASSUME s = "history", NEW n \in Nat PROVE Origins(WithHistory(W, r, n), C, r, "files")
  <2> DEFINE H == WithHistory(W, r, n)
  <2>0. H.history = [q \in Runs |-> IF q = r THEN n ELSE W.history[q]]
    BY <1>7, MarkFields
  <2>1. \A q \in Runs : IsMerged(H, q) <=> IsMerged(W, q) \/ q = r
    BY <1>7, <2>0, RunsAssumption DEF IsMerged
  <2>2. /\ H.chunks = W.chunks /\ H.features = W.features /\ H.vectors = W.vectors
        /\ H.relations = W.relations /\ H.files = W.files
    BY <1>7, MarkFields
  <2> HIDE DEF H
  <2>3. Origins(H, C, r, "files")
    BY <1>7, <2>1, <2>2 DEF Origins
  <2>. QED
    BY <2>3 DEF H
<1>8. ASSUME s = "files" PROVE Origins(WithFiles(W, r), C, r, "commit")
  <2> DEFINE M == WithFiles(W, r)
  <2>0. M.files = [f \in Files |->
          IF f \in OutputFiles(r) /\ W.files[f] # "absent" THEN "vectorized" ELSE W.files[f]]
    BY MarkFields, 0 \in Nat
  <2>1. \A f \in Files : M.files[f] = "vectorized" => W.files[f] = "vectorized" \/ f \in OutputFiles(r)
    BY <2>0
  <2>2. /\ M.chunks = W.chunks /\ M.features = W.features /\ M.vectors = W.vectors
        /\ M.relations = W.relations /\ M.history = W.history
    BY MarkFields, 0 \in Nat
  <2> HIDE DEF M
  <2>3. Origins(M, C, r, "commit")
    BY <1>8, <2>1, <2>2 DEF Origins, IsMerged
  <2>. QED
    BY <2>3 DEF M
<1>9. s \notin {"files", "commit"} =>
        \A t \in {"chunks", "features", "vectors", "relations", "history"} : Origins(W, C, r, t)
  BY DEF Origins
<1>. QED
  BY <1>3, <1>4, <1>5, <1>6, <1>7, <1>8, <1>9

LEMMA OriginOfTx ==
  ASSUME TypeOK, Busy, AliasInv, WorkInv, OriginInv, [Next]_vars, NEW a \in Actors, InTx(a)'
  PROVE  Origins(work', corpus', RunOf(a)', pc'[a])
<1> USE DEF TypeOK, Goto, RunOf, lifecycle, calls, database
<1>1. CASE TxWaits(a)
  BY <1>1 DEF TxWaits, OriginInv
<1>2. CASE BeginTx(a)
  <2>1. work' = corpus /\ corpus' = corpus /\ pc'[a] = "chunks" /\ RunOf(a)' = RunOf(a)
    BY <1>2 DEF BeginTx, Unwind, InTx, TxSteps, WorkInv
  <2>. QED
    BY <2>1 DEF OriginInv, Origins, MergedOr
<1>3. ASSUME TxRuns(a), ~BeginTx(a)
      PROVE  Origins(work', corpus', RunOf(a)', pc'[a])
  <2>1. InTx(a) /\ RunOf(a) \in Runs /\ Origins(work, corpus, RunOf(a), pc[a]) /\ pc[a] \in TxSteps
    BY <1>3, RunOfType DEF TxRuns, MergeChunks, MergeFeatures, MergeVectors, MergeRelations,
         UpdateHistory, UpdateFiles, Statement, SkipTable, InTx, TxSteps, OriginInv, Busy
  <2>2. corpus' = corpus /\ RunOf(a)' = RunOf(a)
    BY <1>3 DEF TxRuns, MergeChunks, MergeFeatures, MergeVectors, MergeRelations,
         UpdateHistory, UpdateFiles, Statement, SkipTable
  <2>3. Cardinality(Inserted) \in Nat
    BY CardinalityOfChunks DEF Inserted
  <2>4. CASE MergeChunks(a)
    BY <2>1, <2>2, <2>4, OriginsOfStatements DEF MergeChunks, Statement, SkipTable
  <2>5. CASE MergeFeatures(a)
    BY <2>1, <2>2, <2>5, OriginsOfStatements DEF MergeFeatures, Statement, SkipTable
  <2>6. CASE MergeVectors(a)
    BY <2>1, <2>2, <2>6, OriginsOfStatements DEF MergeVectors, Statement, SkipTable
  <2>7. CASE MergeRelations(a)
    BY <2>1, <2>2, <2>7, OriginsOfStatements DEF MergeRelations, Statement, SkipTable
  <2>8. CASE UpdateHistory(a)
    BY <2>1, <2>2, <2>3, <2>8, OriginsOfStatements DEF UpdateHistory, Statement
  <2>9. CASE UpdateFiles(a)
    BY <2>1, <2>2, <2>9, OriginsOfStatements DEF UpdateFiles, Statement
  <2>. QED
    BY <1>3, <2>4, <2>5, <2>6, <2>7, <2>8, <2>9 DEF TxRuns
<1>. QED
  BY <1>1, <1>2, <1>3, TxStep DEF TxRuns

LEMMA OriginStep ==
  ASSUME TypeOK, Busy, AliasInv, WorkInv, OriginInv, [Next]_vars
  PROVE  OriginInv'
<1>1. Origins(corpus, corpus, NoRun, "chunks")'
  <2>1. CASE UNCHANGED corpus
    BY <2>1 DEF OriginInv
  <2>2. ASSUME NEW z \in Actors, Commit(z) PROVE Origins(corpus, corpus, NoRun, "chunks")'
    <3>1. RunOf(z) \in Runs /\ Origins(work, corpus, RunOf(z), "commit") /\ corpus' = work
      BY <2>2, RunOfType DEF Commit, OriginInv, InTx, TxSteps, Busy
    <3>. QED
      BY <3>1 DEF Origins, MergedOr
  <2>3. ASSUME NEW f \in Files, Import(f) PROVE Origins(corpus, corpus, NoRun, "chunks")'
    <3>1. /\ corpus'.chunks = corpus.chunks /\ corpus'.features = corpus.features
          /\ corpus'.vectors = corpus.vectors /\ corpus'.relations = corpus.relations
          /\ corpus'.history = corpus.history
      BY <2>3 DEF Import, WithImport, TypeOK, Corpus
    <3>. QED
      BY <3>1 DEF OriginInv, Origins, MergedOr, IsMerged
  <2>. QED
    BY <2>1, <2>2, <2>3, CorpusWriters
<1>2. \A a \in Actors : InTx(a)' => Origins(work', corpus', RunOf(a)', pc'[a])
  BY OriginOfTx
<1>. QED
  BY <1>1, <1>2 DEF OriginInv

-----------------------------------------------------------------------------
(* The loop. *)

LEMMA StartedStep ==
  ASSUME TypeOK, StartedInv, [Next]_vars
  PROVE  StartedInv'
<1> USE DEF TypeOK, StartedInv, Goto, lifecycle, calls
<1>1. ASSUME NEW z \in Actors, MergeRun(z) PROVE StartedInv'
  <2>1. UNCHANGED <<running, stopClosed>> /\ pc[z] # "off"
    BY <1>1 DEF MergeRun, StatRun, Attach, CheckStatus, CheckMerged, BeginTx, MergeChunks, MergeFeatures,
       MergeVectors, MergeRelations, UpdateHistory, UpdateFiles, Statement, SkipTable, Commit, Rollback,
       Detach, InTx, TxSteps
  <2>. QED
    BY <1>1, <2>1, OthersStay DEF Actors
<1>2. ASSUME NEW z \in Callers, NEW p \in Paths, ProcessOne(z, p) PROVE StartedInv'
  BY <1>2, ActorsAssumption DEF ProcessOne, Actors
<1>. QED
  BY <1>1, <1>2 DEF Next, Start, Stop, StopPanics, Restarted, LoopExit, ProcessBatch, NextRun,
     MoveRun, Cancel, RetryFailed, GarbageCollect, Enqueue, Import, Recycle, Crash, vars, Actors

-----------------------------------------------------------------------------
(* What the working tables hold. *)

(* Outside transactions nothing is written, and one that ends leaves the   *)
(* working tables to the corpus.                                           *)
LEMMA WorkOutsideTx ==
  ASSUME TypeOK, Busy, StartedInv, AliasInv, WorkInv, [Next]_vars, NoTx'
  PROVE  work' = corpus'
<1> USE DEF TypeOK, Goto, Unwind, lifecycle, calls, database
<1>1. ASSUME NEW z \in Actors, MergeRun(z), ~InTx(z)' PROVE work' = corpus'
  <2>1. CASE Commit(z) \/ Rollback(z)
    BY <2>1 DEF Commit, Rollback, TxRolledBack
  <2>2. CASE ~Commit(z) /\ ~Rollback(z)
    <3>1. ~InTx(z) /\ UNCHANGED <<work, corpus>>
      BY <1>1, <2>2 DEF MergeRun, StatRun, Attach, CheckStatus, CheckMerged, BeginTx, MergeChunks,
         MergeFeatures, MergeVectors, MergeRelations, UpdateHistory, UpdateFiles, Statement, SkipTable,
         Detach, InTx, TxSteps
    <3>2. \A a \in Actors \ {z} : ~InTx(a)
      BY <1>1, OthersStay DEF NoTx, InTx
    <3>. QED
      BY <3>1, <3>2 DEF WorkInv, NoTx
  <2>. QED
    BY <2>1, <2>2
<1>2. ASSUME ~\E z \in Actors : MergeRun(z) PROVE work' = corpus'
  <2>0. ASSUME Start PROVE UNCHANGED <<work, corpus>> /\ \A a \in Actors : InTx(a)' <=> InTx(a)
    BY <2>0 DEF Start, StartedInv, InTx, TxSteps
  <2>1. \/ work' = corpus'
        \/ UNCHANGED <<work, corpus>> /\ \A a \in Actors : InTx(a)' <=> InTx(a)
    BY <1>2, <2>0 DEF Next, Stop, StopPanics, Restarted, LoopExit, ProcessBatch, NextRun,
       MoveRun, Cancel, ProcessOne, RetryFailed, GarbageCollect, Enqueue, Import, Recycle, Crash, vars,
       InTx, TxSteps, calls
  <2>. QED
    BY <2>1 DEF WorkInv, NoTx
<1>. QED
  BY <1>1, <1>2 DEF NoTx

(* The first statement's count is the number of rows it found missing. *)
LEMMA InsertedIsFresh ==
  ASSUME TypeOK, NEW r \in Runs, work = Written("history", corpus, r)
  PROVE  Inserted = Fresh(corpus, r)
<1> DEFINE C1 == WithChunks(corpus, r)
           C2 == WithFeatures(C1, r)
           C3 == WithVectors(C2, r)
<1>1. corpus \in Corpus /\ C1 \in Corpus /\ C2 \in Corpus /\ C3 \in Corpus
  BY StatementTypes DEF TypeOK
<1>2. work = WithRelations(C3, r)
  BY DEF Written
<1>3. C1.chunks = InsertOrIgnore(corpus.chunks, LegalRows(r), r)
  BY <1>1, StatementFields
<1> HIDE DEF C1
<1>4. C2.chunks = C1.chunks
  BY <1>1, StatementFields
<1> HIDE DEF C2
<1>5. C3.chunks = C2.chunks
  BY <1>1, StatementFields
<1> HIDE DEF C3
<1>6. work.chunks = C3.chunks
  BY <1>1, <1>2, StatementFields
<1>7. work.chunks = InsertOrIgnore(corpus.chunks, LegalRows(r), r)
  BY <1>3, <1>4, <1>5, <1>6
<1>8. corpus.chunks \in [Chunks -> Runs \cup {NoRun}] /\ LegalRows(r) \subseteq Chunks
  BY <1>1 DEF Corpus, LegalRows, OutputRows
<1>. QED
  BY <1>7, <1>8, RunsAssumption DEF Inserted, Fresh, Stored, InsertOrIgnore

LEMMA WorkOfTx ==
  ASSUME TypeOK, Busy, BudgetInv, AliasInv, WorkInv, [Next]_vars, NEW a \in Actors, InTx(a)'
  PROVE  /\ conn'.src # RunOf(a)' => work' = corpus' /\ pc'[a] \notin {"files", "commit"}
         /\ conn'.src = RunOf(a)' /\ NoErrorSwallowed' => work' = Written(pc'[a], corpus', RunOf(a)')
<1>0. NoErrorSwallowed' => NoErrorSwallowed
  BY BudgetStep
<1> USE DEF TypeOK, Goto, RunOf, lifecycle, calls, database
<1>1. CASE TxWaits(a)
  BY <1>0, <1>1 DEF TxWaits, WorkInv
<1>2. CASE BeginTx(a)
  <2>1. work' = corpus /\ corpus' = corpus /\ pc'[a] = "chunks" /\ RunOf(a)' = RunOf(a)
    BY <1>2 DEF BeginTx, Unwind, InTx, TxSteps, WorkInv
  <2>. QED
    BY <2>1 DEF Written
<1>3. ASSUME TxRuns(a), ~BeginTx(a)
      PROVE  /\ conn'.src # RunOf(a) => work' = corpus /\ pc'[a] \notin {"files", "commit"}
             /\ conn'.src = RunOf(a) /\ NoErrorSwallowed' => work' = Written(pc'[a], corpus, RunOf(a))
  <2>1. InTx(a) /\ RunOf(a) \in Runs
    BY <1>3, RunOfType DEF TxRuns, MergeChunks, MergeFeatures, MergeVectors, MergeRelations,
         UpdateHistory, UpdateFiles, Statement, SkipTable, InTx, TxSteps, Busy
  <2>2. /\ conn.src # RunOf(a) => work = corpus
        /\ conn.src = RunOf(a) /\ NoErrorSwallowed' => work = Written(pc[a], corpus, RunOf(a))
    BY <1>0, <2>1 DEF WorkInv
  <2>3. CASE MergeChunks(a)
    BY <2>2, <2>3, SwallowedShows DEF MergeChunks, Statement, SkipTable, Written
  <2>4. CASE MergeFeatures(a)
    BY <2>2, <2>4, SwallowedShows DEF MergeFeatures, Statement, SkipTable, Written
  <2>5. CASE MergeVectors(a)
    BY <2>2, <2>5, SwallowedShows DEF MergeVectors, Statement, SkipTable, Written
  <2>6. CASE MergeRelations(a)
    BY <2>2, <2>6, SwallowedShows DEF MergeRelations, Statement, SkipTable, Written
  <2>7. CASE UpdateHistory(a)
    <3>1. NoErrorSwallowed' => work = Written("history", corpus, RunOf(a))
      BY <2>2, <2>7 DEF UpdateHistory, Statement
    <3>2. NoErrorSwallowed' => Inserted = Fresh(corpus, RunOf(a))
      BY <2>1, <3>1, InsertedIsFresh
    <3>. QED
      BY <2>7, <3>1, <3>2 DEF UpdateHistory, Statement, Written
  <2>8. CASE UpdateFiles(a)
    BY <2>2, <2>8 DEF UpdateFiles, Statement, Written, Integrated
  <2>. QED
    BY <1>3, <2>3, <2>4, <2>5, <2>6, <2>7, <2>8 DEF TxRuns
<1>4. TxRuns(a) /\ ~BeginTx(a) => corpus' = corpus /\ RunOf(a)' = RunOf(a)
  BY DEF TxRuns, MergeChunks, MergeFeatures, MergeVectors, MergeRelations,
       UpdateHistory, UpdateFiles, Statement, SkipTable
<1>. QED
  BY <1>1, <1>2, <1>3, <1>4, TxStep

LEMMA WorkStep ==
  ASSUME TypeOK, Busy, BudgetInv, StartedInv, AliasInv, WorkInv, [Next]_vars
  PROVE  WorkInv'
BY WorkOutsideTx, WorkOfTx DEF WorkInv

-----------------------------------------------------------------------------
(* Foreign keys. *)

LEMMA StoredType ==
  ASSUME NEW C \in Corpus
  PROVE  /\ C.chunks \in [Chunks -> Runs \cup {NoRun}] /\ Stored(C.chunks) \subseteq Chunks
         /\ C.features \in [Chunks -> Runs \cup {NoRun}] /\ Stored(C.features) \subseteq Chunks
         /\ C.vectors \in [Chunks -> Runs \cup {NoRun}] /\ Stored(C.vectors) \subseteq Chunks
         /\ C.relations \in [Pairs -> Runs \cup {NoRun}] /\ Stored(C.relations) \subseteq Pairs
         /\ C.files \in [Files -> {"absent", "pending", "vectorized"}]
         /\ \A c \in Stored(C.chunks) : C.chunks[c] \in Runs
BY DEF Corpus, Stored

LEMMA LegalRowsType ==
  ASSUME NEW r \in Runs
  PROVE  /\ LegalRows(r) \subseteq Chunks
         /\ \A c \in LegalRows(r) : Output[r][c] \in Files
         /\ Features[r] \subseteq Chunks /\ Vectors[r] \subseteq Chunks /\ Relations[r] \subseteq Pairs
BY OutputAssumption DEF LegalRows, OutputRows

LEMMA ReferOfChunks ==
  ASSUME NEW W \in Corpus, NEW r \in Runs
  PROVE  /\ Owned(W) => Owned(WithChunks(W, r))
         /\ Refer(W) /\ ChunkRefs(W, r) => Refer(WithChunks(W, r))
<1> DEFINE T == InsertOrIgnore(W.chunks, LegalRows(r), r)
<1>0. W.chunks \in [Chunks -> Runs \cup {NoRun}] /\ LegalRows(r) \in SUBSET Chunks
  BY StoredType, LegalRowsType
<1>1. \A c \in Chunks : T[c] = IF c \in LegalRows(r) /\ W.chunks[c] = NoRun THEN r ELSE W.chunks[c]
  BY <1>0 DEF InsertOrIgnore
<1>2. Stored(T) = Stored(W.chunks) \cup LegalRows(r) /\ T \in [Chunks -> Runs \cup {NoRun}]
  BY <1>0, RunsAssumption, InsertTypes DEF Stored, InsertOrIgnore
<1> HIDE DEF T
<1>3. \A c \in Stored(T) : (T[c] = W.chunks[c] /\ c \in Stored(W.chunks)) \/ (T[c] = r /\ c \in Fresh(W, r))
  <2> SUFFICES ASSUME NEW c \in Chunks, T[c] # NoRun
               PROVE  (T[c] = W.chunks[c] /\ c \in Stored(W.chunks)) \/ (T[c] = r /\ c \in Fresh(W, r))
    BY <1>2 DEF Stored
  <2>1. CASE c \in LegalRows(r) /\ W.chunks[c] = NoRun
    BY <1>0, <1>1, <2>1 DEF Stored, Fresh
  <2>2. CASE ~(c \in LegalRows(r) /\ W.chunks[c] = NoRun)
    <3>1. T[c] = W.chunks[c] /\ c \in DOMAIN W.chunks
      BY <1>0, <1>1, <2>2
    <3>2. W.chunks[c] # NoRun
      BY <3>1
    <3>3. c \in Stored(W.chunks)
      BY <3>1, <3>2 DEF Stored
    <3>. QED
      BY <3>1, <3>3
  <2>. QED
    BY <2>1, <2>2
<1>4. /\ WithChunks(W, r).chunks = T
      /\ WithChunks(W, r).features = W.features /\ WithChunks(W, r).vectors = W.vectors
      /\ WithChunks(W, r).relations = W.relations /\ WithChunks(W, r).files = W.files
  BY StatementFields DEF T
<1>5. Owned(W) => Owned(WithChunks(W, r))
  BY <1>3, <1>4 DEF Owned, Fresh
<1>6. Refer(W) /\ ChunkRefs(W, r) => Refer(WithChunks(W, r))
  BY <1>2, <1>3, <1>4 DEF Refer, ChunkRefs
<1>. QED
  BY <1>5, <1>6

LEMMA ReferOfDescriptions ==
  ASSUME NEW W \in Corpus, NEW r \in Runs
  PROVE  /\ Refer(W) /\ FeatureRefs(W, r) => Refer(WithFeatures(W, r))
         /\ Refer(W) /\ VectorRefs(W, r) => Refer(WithVectors(W, r))
         /\ Refer(W) /\ RelationRefs(W, r) => Refer(WithRelations(W, r))
         /\ Owned(W) => Owned(WithFeatures(W, r)) /\ Owned(WithVectors(W, r)) /\ Owned(WithRelations(W, r))
<1>1. Stored(WithFeatures(W, r).features) = Stored(W.features) \cup Features[r]
  <2>1. W.features \in [Chunks -> Runs \cup {NoRun}] /\ Features[r] \in SUBSET Chunks
    BY StoredType, LegalRowsType
  <2>2. WithFeatures(W, r).features = InsertOrReplace(W.features, Features[r], r)
    BY StatementFields
  <2>. QED
    BY <2>1, <2>2, RunsAssumption DEF Stored, InsertOrIgnore, InsertOrReplace
<1>2. Stored(WithVectors(W, r).vectors) = Stored(W.vectors) \cup Vectors[r]
  <2>1. W.vectors \in [Chunks -> Runs \cup {NoRun}] /\ Vectors[r] \in SUBSET Chunks
    BY StoredType, LegalRowsType
  <2>2. WithVectors(W, r).vectors = InsertOrReplace(W.vectors, Vectors[r], r)
    BY StatementFields
  <2>. QED
    BY <2>1, <2>2, RunsAssumption DEF Stored, InsertOrIgnore, InsertOrReplace
<1>3. Stored(WithRelations(W, r).relations) = Stored(W.relations) \cup Relations[r]
  <2>1. W.relations \in [Pairs -> Runs \cup {NoRun}] /\ Relations[r] \in SUBSET Pairs
    BY StoredType, LegalRowsType
  <2>2. WithRelations(W, r).relations = InsertOrIgnore(W.relations, Relations[r], r)
    BY StatementFields
  <2>. QED
    BY <2>1, <2>2, RunsAssumption DEF Stored, InsertOrIgnore, InsertOrReplace
<1>4. Refer(W) /\ FeatureRefs(W, r) => Refer(WithFeatures(W, r))
  BY <1>1, StatementFields DEF Refer, FeatureRefs
<1>5. Refer(W) /\ VectorRefs(W, r) => Refer(WithVectors(W, r))
  BY <1>2, StatementFields DEF Refer, VectorRefs
<1>6. Refer(W) /\ RelationRefs(W, r) => Refer(WithRelations(W, r))
  BY <1>3, StatementFields DEF Refer, RelationRefs
<1>7. Owned(W) => Owned(WithFeatures(W, r)) /\ Owned(WithVectors(W, r)) /\ Owned(WithRelations(W, r))
  BY StatementFields DEF Owned
<1>. QED
  BY <1>4, <1>5, <1>6, <1>7

LEMMA ReferOfMarks ==
  ASSUME NEW W \in Corpus, Owned(W), NEW r \in Runs, NEW n \in Nat
  PROVE  /\ Owned(WithHistory(W, r, n)) /\ Owned(WithFiles(W, r))
         /\ Refer(W) => Refer(WithHistory(W, r, n)) /\ Refer(WithFiles(W, r))
<1>1. Owned(WithHistory(W, r, n)) /\ Owned(WithFiles(W, r))
  BY MarkFields DEF Owned
<1> DEFINE H == WithHistory(W, r, n)
           M == WithFiles(W, r)
<1>a. /\ H.chunks = W.chunks /\ H.features = W.features /\ H.vectors = W.vectors
      /\ H.relations = W.relations /\ H.files = W.files
  BY MarkFields
<1>b. /\ M.chunks = W.chunks /\ M.features = W.features /\ M.vectors = W.vectors
      /\ M.relations = W.relations
      /\ M.files = [f \in Files |->
           IF f \in OutputFiles(r) /\ W.files[f] # "absent" THEN "vectorized" ELSE W.files[f]]
  BY MarkFields
<1> HIDE DEF H, M
<1>2. Refer(W) => Refer(H)
  BY <1>a DEF Refer
<1>3. \A f \in Files : W.files[f] # "absent" => M.files[f] # "absent"
  BY <1>b
<1>4. \A c \in Stored(W.chunks) : Output[W.chunks[c]][c] \in Files
  BY StoredType, LegalRowsType DEF Owned
<1>5. Refer(W) => Refer(M)
  BY <1>3, <1>4, <1>b DEF Refer
<1>. QED
  BY <1>1, <1>2, <1>5 DEF H, M

LEMMA ReferOfTx ==
  ASSUME TypeOK, Busy, BudgetInv, AliasInv, WorkInv, ReferInv, [Next]_vars, NEW a \in Actors, InTx(a)'
  PROVE  Owned(work') /\ (NeverRecycled' => Refer(work'))
<1>0. NeverRecycled' => NeverRecycled
  BY BudgetStep
<1> USE DEF TypeOK, Goto, lifecycle, calls, database
<1>1. CASE TxWaits(a)
  BY <1>0, <1>1 DEF TxWaits, ReferInv
<1>2. CASE BeginTx(a)
  <2>1. work' = corpus
    BY <1>2 DEF BeginTx, Unwind, InTx, TxSteps, WorkInv
  <2>. QED
    BY <1>0, <2>1 DEF ReferInv
<1>3. ASSUME TxRuns(a), ~BeginTx(a)
      PROVE  Owned(work') /\ (NeverRecycled' => Refer(work'))
  <2>1. InTx(a) /\ RunOf(a) \in Runs /\ pc[a] # "detach"
    BY <1>3, RunOfType DEF TxRuns, MergeChunks, MergeFeatures, MergeVectors, MergeRelations,
         UpdateHistory, UpdateFiles, Statement, SkipTable, InTx, TxSteps, Busy
  <2>2. Owned(work) /\ (NeverRecycled' => Refer(work)) /\ (NeverRecycled' => conn.fk)
    BY <1>0, <2>1 DEF ReferInv, AliasInv, Holding, InTx, AttachedSteps
  <2>3. CASE MergeChunks(a)
    BY <2>1, <2>2, <2>3, ReferOfChunks DEF MergeChunks, Statement, SkipTable
  <2>4. CASE MergeFeatures(a)
    BY <2>1, <2>2, <2>4, ReferOfDescriptions DEF MergeFeatures, Statement, SkipTable
  <2>5. CASE MergeVectors(a)
    BY <2>1, <2>2, <2>5, ReferOfDescriptions DEF MergeVectors, Statement, SkipTable
  <2>6. CASE MergeRelations(a)
    BY <2>1, <2>2, <2>6, ReferOfDescriptions DEF MergeRelations, Statement, SkipTable
  <2>7. CASE UpdateHistory(a)
    <3>1. Cardinality(Inserted) \in Nat
      BY CardinalityOfChunks DEF Inserted
    <3>. QED
      BY <2>1, <2>2, <2>7, <3>1, ReferOfMarks DEF UpdateHistory, Statement
  <2>8. CASE UpdateFiles(a)
    BY <2>1, <2>2, <2>8, ReferOfMarks, 0 \in Nat DEF UpdateFiles, Statement
  <2>. QED
    BY <1>3, <2>3, <2>4, <2>5, <2>6, <2>7, <2>8 DEF TxRuns
<1>. QED
  BY <1>1, <1>2, <1>3, TxStep DEF TxRuns

LEMMA ReferStep ==
  ASSUME TypeOK, Busy, BudgetInv, AliasInv, WorkInv, ReferInv, [Next]_vars
  PROVE  ReferInv'
<1>0. NeverRecycled' => NeverRecycled
  BY BudgetStep
<1>1. Owned(corpus') /\ (NeverRecycled' => Refer(corpus'))
  <2>1. CASE UNCHANGED corpus
    BY <1>0, <2>1 DEF ReferInv
  <2>2. ASSUME NEW z \in Actors, Commit(z) PROVE Owned(corpus') /\ (NeverRecycled' => Refer(corpus'))
    BY <1>0, <2>2 DEF Commit, ReferInv, InTx, TxSteps
  <2>3. ASSUME NEW f \in Files, Import(f) PROVE Owned(corpus') /\ (NeverRecycled' => Refer(corpus'))
    <3>1. /\ corpus'.chunks = corpus.chunks /\ corpus'.features = corpus.features
          /\ corpus'.vectors = corpus.vectors /\ corpus'.relations = corpus.relations
          /\ \A g \in Files : corpus.files[g] # "absent" => corpus'.files[g] # "absent"
      BY <2>3 DEF Import, WithImport, TypeOK, Corpus
    <3>2. Owned(corpus) /\ \A c \in Stored(corpus.chunks) : Output[corpus.chunks[c]][c] \in Files
      BY StoredType, LegalRowsType DEF Owned, ReferInv, TypeOK
    <3>. QED
      BY <1>0, <3>1, <3>2 DEF ReferInv, Owned, Refer
  <2>. QED
    BY <2>1, <2>2, <2>3, CorpusWriters
<1>. QED
  BY <1>1, ReferOfTx DEF ReferInv

-----------------------------------------------------------------------------
(* The directories. *)

(* What a step does to them. *)
FileStep ==
  \/ UNCHANGED dirs
  \/ \E a \in Actors : pc[a] = "attach" /\ MergeRun(a) /\ cur[a] \in Paths /\ FileAt(cur[a]) = "none"
       /\ dirs' = [dirs EXCEPT ![cur[a][1]][cur[a][2]] = "empty"]
  \/ MoveRun /\ RunOf(Loop) \in Runs /\ MoveFile(RunOf(Loop), "pending", Destination(result[Loop]))
  \/ \E r \in Runs : RetryFailed(r) \/ GarbageCollect(r) \/ Enqueue(r)

LEMMA FileWriters ==
  ASSUME TypeOK, Busy, [Next]_vars
  PROVE  FileStep
<1>1. ASSUME NEW a \in Actors, MergeRun(a), dirs' # dirs PROVE FileStep
  <2>1. Attach(a)
    BY <1>1 DEF MergeRun, StatRun, CheckStatus, CheckMerged, BeginTx, MergeChunks, MergeFeatures,
       MergeVectors, MergeRelations, UpdateHistory, UpdateFiles, Statement, SkipTable, Commit,
       Rollback, Detach, database
  <2>2. pc[a] = "attach" /\ cur[a] \in Paths /\ cur[a][1] \in Dirs /\ cur[a][2] \in Runs
    BY <2>1, RunOfType DEF Attach, Busy, RunOf
  <2>3. dirs' = [dirs EXCEPT ![cur[a][1]][cur[a][2]] = IF @ = "none" THEN "empty" ELSE @]
    BY <1>1, <2>1 DEF Attach, AttachFails
  <2>4. FileAt(cur[a]) = "none"
    BY <1>1, <2>2, <2>3 DEF FileAt, TypeOK
  <2>5. dirs' = [dirs EXCEPT ![cur[a][1]][cur[a][2]] = "empty"]
    BY <2>3, <2>4 DEF FileAt
  <2>. QED
    BY <1>1, <2>2, <2>4, <2>5 DEF FileStep
<1>2. MoveRun => RunOf(Loop) \in Runs
  BY RunOfType DEF MoveRun, Busy, Actors
<1>. QED
  BY <1>1, <1>2 DEF FileStep, Next, Start, Stop, StopPanics, Restarted, LoopExit, ProcessBatch, NextRun,
     MoveRun, Cancel, ProcessOne, Import, Recycle, Crash, vars

(* What each of those does to the file of one run in one directory. *)
LEMMA MoveEffect ==
  ASSUME TypeOK, NEW r \in Runs, NEW from \in Dirs, NEW to \in Dirs, from # to, MoveFile(r, from, to)
  PROVE  \A d \in Dirs, q \in Runs :
           dirs'[d][q] = IF q = r /\ d = from THEN "none"
                         ELSE IF q = r /\ d = to THEN dirs[from][r] ELSE dirs[d][q]
BY DEF MoveFile, TypeOK

LEMMA LoopPathStep ==
  ASSUME TypeOK, Busy, LoopPathInv, [Next]_vars
  PROVE  LoopPathInv'
<1> USE DEF TypeOK, LoopPathInv, Goto, Unwind, lifecycle, calls
<1>1. ASSUME NEW z \in Actors, MergeRun(z) PROVE LoopPathInv'
  <2>1. CASE z = Loop
    <3>1. pc[Loop] \notin {"off", "select", "next"} /\ cur'[Loop] = cur[Loop]
      BY <1>1, <2>1 DEF MergeRun, StatRun, Attach, AttachFails, CheckStatus, CheckMerged, BeginTx, MergeChunks,
         MergeFeatures, MergeVectors, MergeRelations, UpdateHistory, UpdateFiles, Statement, SkipTable, Commit,
         Rollback, Detach, InTx, TxSteps, Return
    <3>. QED
      BY <3>1
  <2>2. CASE z # Loop
    BY <1>1, <2>2, OthersStay DEF Actors
  <2>. QED
    BY <2>1, <2>2
<1>2. ASSUME NEW z \in Callers, NEW p \in Paths, ProcessOne(z, p) PROVE LoopPathInv'
  BY <1>2, ActorsAssumption DEF ProcessOne, Actors
<1>3. CASE NextRun
  BY <1>3 DEF NextRun, Actors
<1>. QED
  BY <1>1, <1>2, <1>3 DEF Next, Start, Stop, StopPanics, Restarted, LoopExit, ProcessBatch,
     MoveRun, Cancel, RetryFailed, GarbageCollect, Enqueue, Import, Recycle, Crash, vars, Actors

LEMMA CallersStep ==
  ASSUME TypeOK, Busy, CallersOutside, [Next]_vars
  PROVE  CallersOutside'
<1> USE DEF TypeOK, CallersOutside, Goto, Unwind, lifecycle, calls
<1>1. ASSUME NEW z \in Actors, MergeRun(z) PROVE CallersOutside'
  <2>1. ASSUME z \in Callers PROVE pc'[z] # "off" => pc[z] # "off" /\ cur'[z] = cur[z]
    BY <1>1, <2>1, ActorsAssumption DEF MergeRun, StatRun, Attach, AttachFails, CheckStatus, CheckMerged, BeginTx,
       MergeChunks, MergeFeatures, MergeVectors, MergeRelations, UpdateHistory, UpdateFiles, Statement,
       SkipTable, Commit, Rollback, Detach, InTx, TxSteps, Return
  <2>. QED
    BY <1>1, <2>1, OthersStay DEF Actors
<1>2. ASSUME NEW z \in Callers, NEW p \in Paths, ProcessOne(z, p) PROVE CallersOutside'
  BY <1>2 DEF ProcessOne, Actors
<1>. QED
  BY <1>1, <1>2, ActorsAssumption DEF Next, Start, Stop, StopPanics, Restarted, LoopExit, ProcessBatch, NextRun,
     MoveRun, Cancel, RetryFailed, GarbageCollect, Enqueue, Import, Recycle, Crash, vars, Actors

(* A file a caller's or the loop's Attach creates is not in the queue. *)
LEMMA AttachOutside ==
  ASSUME TypeOK, Busy, OutsideQueue, LoopPathInv, LoopHasFile, CallersOutside,
         NEW a \in Actors, pc[a] = "attach", FileAt(cur[a]) = "none"
  PROVE  cur[a][1] \notin {"pending", "failed"}
<1>1. CASE a = Loop
  BY <1>1 DEF LoopPathInv, LoopHasFile, FileAt, RunOf
<1>2. CASE a \in Callers
  BY <1>2 DEF CallersOutside, OutsideQueue
<1>. QED
  BY <1>1, <1>2 DEF Actors

LEMMA QueuedStep ==
  ASSUME TypeOK, Busy, OutsideQueue, LoopPathInv, LoopHasFile, CallersOutside, NoEmptyQueued, [Next]_vars
  PROVE  NoEmptyQueued'
<1>1. CASE UNCHANGED dirs
  BY <1>1 DEF NoEmptyQueued
<1>2. ASSUME NEW a \in Actors, pc[a] = "attach", cur[a] \in Paths, FileAt(cur[a]) = "none",
             dirs' = [dirs EXCEPT ![cur[a][1]][cur[a][2]] = "empty"]
      PROVE  NoEmptyQueued'
  <2>1. cur[a][1] \notin {"pending", "failed"}
    BY <1>2, AttachOutside
  <2>. QED
    BY <1>2, <2>1 DEF NoEmptyQueued, TypeOK, Dirs
<1>3. ASSUME NEW r \in Runs, NEW from \in {"pending", "failed", "runs"}, NEW to \in Dirs, from # to,
             MoveFile(r, from, to), dirs[from][r] # "empty"
      PROVE  NoEmptyQueued'
  BY <1>3, MoveEffect DEF NoEmptyQueued, Dirs
<1>4. CASE MoveRun /\ RunOf(Loop) \in Runs /\ MoveFile(RunOf(Loop), "pending", Destination(result[Loop]))
  BY <1>3, <1>4 DEF NoEmptyQueued, Destination, Dirs
<1>5. ASSUME NEW r \in Runs, RetryFailed(r) \/ GarbageCollect(r) \/ Enqueue(r) PROVE NoEmptyQueued'
  <2>1. CASE RetryFailed(r)
    BY <1>3, <2>1 DEF RetryFailed, NoEmptyQueued, Dirs
  <2>2. CASE GarbageCollect(r)
    BY <2>2 DEF GarbageCollect, NoEmptyQueued, TypeOK, Dirs
  <2>3. CASE Enqueue(r)
    BY <1>3, <2>3 DEF Enqueue, Dirs
  <2>. QED
    BY <1>5, <2>1, <2>2, <2>3
<1>. QED
  BY <1>1, <1>2, <1>4, <1>5, FileWriters DEF FileStep

LEMMA OneFileStep ==
  ASSUME TypeOK, Busy, OneFile, [Next]_vars
  PROVE  OneFile'
<1>1. CASE UNCHANGED dirs
  BY <1>1 DEF OneFile
<1>2. ASSUME NEW a \in Actors, cur[a] \in Paths, dirs' = [dirs EXCEPT ![cur[a][1]][cur[a][2]] = "empty"]
      PROVE  OneFile'
  BY <1>2 DEF OneFile, TypeOK
<1>3. ASSUME NEW r \in Runs, NEW from \in Dirs, NEW to \in Dirs, from # to, MoveFile(r, from, to)
      PROVE  OneFile'
  BY <1>3, MoveEffect DEF OneFile
<1>4. CASE MoveRun /\ RunOf(Loop) \in Runs /\ MoveFile(RunOf(Loop), "pending", Destination(result[Loop]))
  BY <1>3, <1>4 DEF Destination, Dirs
<1>5. ASSUME NEW r \in Runs, RetryFailed(r) \/ GarbageCollect(r) \/ Enqueue(r) PROVE OneFile'
  BY <1>3, <1>5 DEF RetryFailed, GarbageCollect, Enqueue, OneFile, TypeOK, Dirs
<1>. QED
  BY <1>1, <1>2, <1>4, <1>5, FileWriters DEF FileStep

(* The files the loop has in hand stay in the queue while it has them. *)
(* Only the loop takes a run's database out of the queue. *)
LEMMA PendingStays ==
  ASSUME TypeOK, Busy, NoEmptyQueued, [Next]_vars
  PROVE  \/ MoveRun
         \/ \A r \in Runs : dirs["pending"][r] = "real" => dirs'["pending"][r] = "real"
<1> USE DEF TypeOK
<1>1. ASSUME NEW a \in Actors, pc[a] = "attach", cur[a] \in Paths, FileAt(cur[a]) = "none",
             dirs' = [dirs EXCEPT ![cur[a][1]][cur[a][2]] = "empty"]
      PROVE  \A r \in Runs : dirs["pending"][r] = "real" => dirs'["pending"][r] = "real"
  BY <1>1 DEF FileAt, Dirs
<1>2. ASSUME NEW r \in Runs, RetryFailed(r) \/ GarbageCollect(r) \/ Enqueue(r)
      PROVE  \A q \in Runs : dirs["pending"][q] = "real" => dirs'["pending"][q] = "real"
  <2>1. CASE RetryFailed(r)
    BY <2>1, MoveEffect DEF RetryFailed, NoEmptyQueued, Dirs
  <2>2. CASE GarbageCollect(r)
    BY <2>2 DEF GarbageCollect, Dirs
  <2>3. CASE Enqueue(r)
    BY <2>3, MoveEffect DEF Enqueue, Dirs
  <2>. QED
    BY <1>2, <2>1, <2>2, <2>3
<1>. QED
  BY <1>1, <1>2, FileWriters DEF FileStep

LEMMA LoopFileStep ==
  ASSUME TypeOK, Busy, OutsideQueue, StartedInv, LoopPathInv, NoEmptyQueued, CallersOutside, LoopHasFile, [Next]_vars
  PROVE  LoopHasFile'
<1> USE DEF TypeOK, Goto, Unwind, lifecycle, calls
<1>1. \/ MoveRun
      \/ \A r \in Runs : dirs["pending"][r] = "real" => dirs'["pending"][r] = "real"
  BY PendingStays
<1>2. CASE MoveRun
  <2>1. \A r \in todo : r # RunOf(Loop) /\ dirs["pending"][r] = "real" /\ r \in Runs
    BY <1>2 DEF MoveRun, LoopHasFile
  <2>2. \A r \in todo : dirs'["pending"][r] = "real"
    BY <1>2, <2>1 DEF MoveRun, MoveFile, Destination, Dirs
  <2>3. todo' = todo /\ pc'[Loop] \in {"select", "next"}
    BY <1>2 DEF MoveRun, Actors
  <2>. QED
    BY <2>2, <2>3 DEF LoopHasFile
<1>3. CASE ProcessBatch
  BY <1>3 DEF ProcessBatch, Batches, Pending, LoopHasFile, NoEmptyQueued, Actors, Dirs
<1>4. CASE NextRun
  BY <1>1, <1>4 DEF NextRun, LoopHasFile, RunOf, Actors
<1>5. CASE Start
  BY <1>5 DEF Start, StartedInv, LoopHasFile, RunOf, Actors
<1>6. ASSUME StopPanics \/ Crash PROVE LoopHasFile'
  BY <1>6 DEF StopPanics, Crash, Restarted, LoopHasFile, Actors
<1>7. ASSUME NEW z \in Actors, MergeRun(z), ~MoveRun PROVE LoopHasFile'
  <2>1. todo' = todo
    BY <1>7 DEF MergeRun, StatRun, Attach, CheckStatus, CheckMerged, BeginTx, MergeChunks,
       MergeFeatures, MergeVectors, MergeRelations, UpdateHistory, UpdateFiles, Statement, SkipTable, Commit,
       Rollback, Detach
  <2>2. pc'[Loop] \notin {"off", "select", "next"} =>
          pc[Loop] \notin {"off", "select", "next"} /\ cur'[Loop] = cur[Loop]
    <3>1. CASE z = Loop
      BY <1>7, <3>1 DEF MergeRun, StatRun, Attach, AttachFails, CheckStatus, CheckMerged, BeginTx, MergeChunks,
         MergeFeatures, MergeVectors, MergeRelations, UpdateHistory, UpdateFiles, Statement, SkipTable, Commit,
         Rollback, Detach, InTx, TxSteps, Return
    <3>. QED
      BY <1>7, <3>1, OthersStay DEF Actors
  <2>. QED
    BY <1>1, <1>7, <2>1, <2>2, RunOfType DEF LoopHasFile, RunOf, Busy, Actors
<1>8. ASSUME NEW z \in Callers, NEW p \in Paths, ProcessOne(z, p), ~MoveRun PROVE LoopHasFile'
  <2>1. todo' = todo /\ pc'[Loop] = pc[Loop] /\ cur'[Loop] = cur[Loop]
    BY <1>8, ActorsAssumption DEF ProcessOne, Actors
  <2>. QED
    BY <1>1, <1>8, <2>1, RunOfType DEF LoopHasFile, RunOf, Busy, Actors
<1>9. ASSUME UNCHANGED <<todo, cur>>, pc'[Loop] = pc[Loop] \/ pc'[Loop] = "off", ~MoveRun PROVE LoopHasFile'
  BY <1>1, <1>9, RunOfType DEF LoopHasFile, RunOf, Busy, Actors
<1>10. (Stop \/ LoopExit \/ (\E z \in Actors : Cancel(z)) \/ Recycle
         \/ (\E r \in Runs : RetryFailed(r) \/ GarbageCollect(r) \/ Enqueue(r))
         \/ (\E f \in Files : Import(f)) \/ UNCHANGED vars)
       => UNCHANGED <<todo, cur>> /\ (pc'[Loop] = pc[Loop] \/ pc'[Loop] = "off")
  BY DEF Stop, LoopExit, Cancel, Recycle, RetryFailed, GarbageCollect, Enqueue, Import, vars, Actors
<1>. QED
  BY <1>2, <1>3, <1>4, <1>5, <1>6, <1>7, <1>8, <1>9, <1>10 DEF Next

LEMMA FilesStep ==
  ASSUME TypeOK, Busy, StartedInv, LoopPathInv, FilesInv, [Next]_vars
  PROVE  FilesInv'
BY CallersStep, QueuedStep, OneFileStep, LoopFileStep DEF FilesInv, OutsideQueue

-----------------------------------------------------------------------------
(* The inductive invariant. *)

LEMMA InitIInv == Init => IInv
<1> SUFFICES ASSUME Init PROVE IInv
  OBVIOUS
<1>1. TypeOK /\ Busy
  BY InitTypes
<1>2. \A a \in Actors : pc[a] = "off"
  BY DEF Init
<1>3. BudgetInv
  BY NumbersAssumption DEF Init, BudgetInv
<1>4. StartedInv /\ LoopPathInv
  BY <1>2 DEF StartedInv, LoopPathInv, Actors
<1>5. AliasInv
  BY <1>2 DEF Init, AliasInv, Holding, AttachedSteps, TxSteps, OpenedConn
<1>6. RunInv
  BY <1>2 DEF RunInv, InTx, TxSteps
<1>7. WorkInv
  BY <1>2 DEF Init, WorkInv, InTx, TxSteps
<1>8. OriginInv
  <2>1. Origins(corpus, corpus, NoRun, "chunks")
    BY RunsAssumption DEF Init, Origins, MergedOr, EmptyCorpus, IsMerged
  <2>. QED
    BY <1>2, <2>1 DEF OriginInv, InTx, TxSteps
<1>9. ReferInv
  <2>1. Stored(corpus.chunks) = {} /\ Stored(corpus.features) = {} /\ Stored(corpus.vectors) = {}
        /\ Stored(corpus.relations) = {}
    BY DEF Init, EmptyCorpus, Stored
  <2>. QED
    BY <1>2, <2>1 DEF ReferInv, Owned, Refer, InTx, TxSteps
<1>10. FilesInv
  <2>1. \A d \in Dirs, r \in Runs :
          dirs[d][r] = IF d = IF r \in Queued THEN "pending" ELSE "runs" THEN "real" ELSE "none"
    BY DEF Init
  <2>2. OneFile /\ NoEmptyQueued
    BY <2>1 DEF OneFile, NoEmptyQueued, Dirs
  <2>3. LoopHasFile /\ CallersOutside
    BY <1>2 DEF Init, LoopHasFile, CallersOutside, Actors
  <2>. QED
    BY <2>2, <2>3 DEF FilesInv
<1>. QED
  BY <1>1, <1>3, <1>4, <1>5, <1>6, <1>7, <1>8, <1>9, <1>10 DEF IInv

LEMMA NextIInv == IInv /\ [Next]_vars => IInv'
<1> SUFFICES ASSUME IInv, [Next]_vars PROVE IInv'
  OBVIOUS
<1>1. TypeOK' /\ Busy'
  BY TypeStep DEF IInv
<1>2. BudgetInv' /\ StartedInv' /\ AliasInv'
  BY BudgetStep, StartedStep, AliasStep DEF IInv
<1>3. RunInv'
  BY RunStep DEF IInv
<1>4. WorkInv' /\ OriginInv'
  BY WorkStep, OriginStep DEF IInv
<1>5. ReferInv'
  BY ReferStep DEF IInv
<1>6. LoopPathInv' /\ FilesInv'
  BY LoopPathStep, FilesStep DEF IInv
<1>. QED
  BY <1>1, <1>2, <1>3, <1>4, <1>5, <1>6 DEF IInv

(* Every part of the inductive invariant holds in every reachable state.   *)
THEOREM Inductive == Spec => []IInv
<1>1. Init => IInv
  BY InitIInv
<1>2. IInv /\ [Next]_vars => IInv'
  BY NextIInv
<1>. QED
  BY <1>1, <1>2, PTL DEF Spec

-----------------------------------------------------------------------------
(* The safety properties. *)

(* Every variable keeps its type, whatever the environment does. *)
THEOREM TypeCorrect == Spec => []TypeOK
<1>1. IInv => TypeOK
  BY DEF IInv
<1>. QED
  BY <1>1, Inductive, PTL

(* No two merges are between Attach and Detach at once, and the statements *)
(* of a merge never read another run's database.                           *)
THEOREM OwnRunHolds == Spec => []OwnRun
<1>1. IInv => OwnRun
  BY DEF IInv, AliasInv, OwnRun, Holding
<1>. QED
  BY <1>1, Inductive, PTL

(* As long as the connection that db.Open configured lasts, every row of   *)
(* the corpus refers to rows that are there.                               *)
THEOREM NoOrphansHolds == Spec => []NoOrphans
<1>1. IInv => NoOrphans
  BY DEF IInv, ReferInv, NoOrphans
<1>. QED
  BY <1>1, Inductive, PTL

(* What done/ holds has been merged, so GarbageCollect may delete it. *)
THEOREM DoneMergedHolds == Spec => []DoneMerged
<1>1. Init => DoneMerged
  BY DEF Init, DoneMerged, Dirs
<1>2. IInv /\ DoneMerged /\ [Next]_vars => DoneMerged'
  <2> SUFFICES ASSUME IInv, DoneMerged, [Next]_vars PROVE DoneMerged'
    OBVIOUS
  <2> USE DEF IInv
  <2>1. \A r \in Runs : IsMerged(corpus, r) => IsMerged(corpus', r)
    BY MergedStays
  <2>2. SUFFICES ASSUME NEW r \in Runs, dirs'["done"][r] = "real", dirs["done"][r] # "real"
                 PROVE  IsMerged(corpus, r)
    BY <2>1, <2>2 DEF DoneMerged
  <2>3. CASE MoveRun /\ RunOf(Loop) \in Runs /\ MoveFile(RunOf(Loop), "pending", Destination(result[Loop]))
    <3>1. r = RunOf(Loop) /\ result[Loop] = "ok"
      BY <2>2, <2>3, MoveEffect DEF TypeOK, Destination, Dirs
    <3>. QED
      BY <2>3, <3>1 DEF MoveRun, RunInv, Actors
  <2>4. ASSUME NEW a \in Actors, cur[a] \in Paths, dirs' = [dirs EXCEPT ![cur[a][1]][cur[a][2]] = "empty"]
        PROVE  FALSE
    BY <2>2, <2>4 DEF TypeOK
  <2>5. ASSUME NEW q \in Runs, RetryFailed(q) \/ GarbageCollect(q) \/ Enqueue(q) PROVE FALSE
    <3>1. CASE GarbageCollect(q)
      BY <2>2, <3>1 DEF GarbageCollect, TypeOK, Dirs
    <3>2. CASE RetryFailed(q)
      BY <2>2, <3>2, MoveEffect DEF RetryFailed, Dirs
    <3>3. CASE Enqueue(q)
      BY <2>2, <3>3, MoveEffect DEF Enqueue, Dirs
    <3>. QED
      BY <2>5, <3>1, <3>2, <3>3
  <2>. QED
    BY <2>2, <2>3, <2>4, <2>5, FileWriters DEF FileStep
<1>. QED
  BY <1>1, <1>2, Inductive, PTL DEF Spec

(* When ProcessOne is handed no path of the queue, no step loses the       *)
(* output of a run before it is merged.                                    *)
THEOREM NoOutputLostHolds ==
  ASSUME OutsideQueue
  PROVE  Spec => []NoOutputLost
<1>1. Init => NoOutputLost
  <2> SUFFICES ASSUME Init, NEW r \in Runs PROVE \E d \in Dirs : dirs[d][r] = "real"
    BY DEF NoOutputLost
  <2>1. dirs[IF r \in Queued THEN "pending" ELSE "runs"][r] = "real"
    BY DEF Init, Dirs
  <2>. QED
    BY <2>1 DEF Dirs
<1>2. IInv /\ DoneMerged /\ NoOutputLost /\ [Next]_vars => NoOutputLost'
  <2> SUFFICES ASSUME IInv, DoneMerged, NoOutputLost, [Next]_vars, NEW r \in Runs, ~IsMerged(corpus', r)
               PROVE  \E d \in Dirs : dirs'[d][r] = "real"
    BY DEF NoOutputLost
  <2> USE DEF IInv
  <2>1. ~IsMerged(corpus, r)
    BY MergedStays
  <2>2. PICK d \in Dirs : dirs[d][r] = "real"
    BY <2>1 DEF NoOutputLost
  <2>3. d # "done"
    BY <2>1, <2>2 DEF DoneMerged
  <2>4. ASSUME NEW q \in Runs, NEW from \in Dirs, NEW to \in Dirs, from # to,
               MoveFile(q, from, to), dirs[from][q] = "real"
        PROVE  \E e \in Dirs : dirs'[e][r] = "real"
    <3>1. CASE q = r
      BY <2>4, <3>1, MoveEffect
    <3>2. CASE q # r
      BY <2>2, <2>4, <3>2, MoveEffect
    <3>. QED
      BY <3>1, <3>2
  <2>5. CASE MoveRun /\ RunOf(Loop) \in Runs /\ MoveFile(RunOf(Loop), "pending", Destination(result[Loop]))
    <3>1. dirs["pending"][RunOf(Loop)] = "real"
      BY <2>5 DEF FilesInv, LoopHasFile, MoveRun
    <3>. QED
      BY <2>4, <2>5, <3>1 DEF Destination, Dirs
  <2>6. ASSUME NEW a \in Actors, cur[a] \in Paths, FileAt(cur[a]) = "none",
               dirs' = [dirs EXCEPT ![cur[a][1]][cur[a][2]] = "empty"]
        PROVE  dirs'[d][r] = "real"
    BY <2>2, <2>6 DEF TypeOK, FileAt
  <2>7. ASSUME NEW q \in Runs, RetryFailed(q) \/ GarbageCollect(q) \/ Enqueue(q)
        PROVE  \E e \in Dirs : dirs'[e][r] = "real"
    <3>1. CASE GarbageCollect(q)
      BY <2>2, <2>3, <3>1 DEF GarbageCollect, TypeOK
    <3>2. CASE RetryFailed(q)
      <4>1. dirs["failed"][q] = "real"
        BY <3>2 DEF RetryFailed, FilesInv, NoEmptyQueued, TypeOK, Dirs
      <4>. QED
        BY <2>4, <3>2, <4>1 DEF RetryFailed, Dirs
    <3>3. CASE Enqueue(q)
      BY <2>4, <3>3 DEF Enqueue, Dirs
    <3>. QED
      BY <2>7, <3>1, <3>2, <3>3
  <2>. QED
    BY <2>2, <2>5, <2>6, <2>7, FileWriters DEF FileStep
<1>. QED
  BY <1>1, <1>2, Inductive, DoneMergedHolds, PTL DEF Spec

-----------------------------------------------------------------------------
(* What the corpus holds. *)

LEMMA IntegratedFields ==
  ASSUME NEW C \in Corpus, NEW r \in Runs
  PROVE  /\ Integrated(C, r).chunks = InsertOrIgnore(C.chunks, LegalRows(r), r)
         /\ Integrated(C, r).features = InsertOrReplace(C.features, Features[r], r)
         /\ Integrated(C, r).vectors = InsertOrReplace(C.vectors, Vectors[r], r)
         /\ Integrated(C, r).relations = InsertOrIgnore(C.relations, Relations[r], r)
         /\ Integrated(C, r).history = [q \in Runs |-> IF q = r THEN Cardinality(Fresh(C, r)) ELSE C.history[q]]
         /\ Cardinality(Fresh(C, r)) \in Nat
<1> DEFINE C1 == WithChunks(C, r)
           C2 == WithFeatures(C1, r)
           C3 == WithVectors(C2, r)
           C4 == WithRelations(C3, r)
           n == Cardinality(Fresh(C, r))
           C5 == WithHistory(C4, r, n)
<1>1. n \in Nat
  BY CardinalityOfChunks, LegalRowsType DEF Fresh
<1>2. C1 \in Corpus /\ C2 \in Corpus /\ C3 \in Corpus /\ C4 \in Corpus
  BY StatementTypes
<1>3. C5 \in Corpus
  BY <1>1, <1>2, StatementTypes
<1>4. Integrated(C, r) = WithFiles(C5, r)
  BY DEF Integrated
<1>5. /\ C1.chunks = InsertOrIgnore(C.chunks, LegalRows(r), r)
      /\ C1.features = C.features /\ C1.vectors = C.vectors /\ C1.relations = C.relations
      /\ C1.history = C.history
  BY StatementFields
<1> HIDE DEF C1
<1>6. /\ C2.features = InsertOrReplace(C1.features, Features[r], r)
      /\ C2.chunks = C1.chunks /\ C2.vectors = C1.vectors /\ C2.relations = C1.relations
      /\ C2.history = C1.history
  BY <1>2, StatementFields
<1> HIDE DEF C2
<1>7. /\ C3.vectors = InsertOrReplace(C2.vectors, Vectors[r], r)
      /\ C3.chunks = C2.chunks /\ C3.features = C2.features /\ C3.relations = C2.relations
      /\ C3.history = C2.history
  BY <1>2, StatementFields
<1> HIDE DEF C3
<1>8. /\ C4.relations = InsertOrIgnore(C3.relations, Relations[r], r)
      /\ C4.chunks = C3.chunks /\ C4.features = C3.features /\ C4.vectors = C3.vectors
      /\ C4.history = C3.history
  BY <1>2, StatementFields
<1> HIDE DEF C4, n
<1>9. /\ C5.history = [q \in Runs |-> IF q = r THEN n ELSE C4.history[q]]
      /\ C5.chunks = C4.chunks /\ C5.features = C4.features /\ C5.vectors = C4.vectors
      /\ C5.relations = C4.relations
  BY ZenonT(60), <1>1, <1>2, MarkFields
<1> HIDE DEF C5
<1>10. LET I == WithFiles(C5, r) IN
       I.chunks = C5.chunks /\ I.features = C5.features /\ I.vectors = C5.vectors
       /\ I.relations = C5.relations /\ I.history = C5.history
  BY <1>3, MarkFields, 0 \in Nat
<1>11. Integrated(C, r).history = [q \in Runs |-> IF q = r THEN n ELSE C.history[q]]
  BY <1>4, <1>5, <1>6, <1>7, <1>8, <1>9, <1>10
<1>. QED
  BY <1>1, <1>4, <1>5, <1>6, <1>7, <1>8, <1>9, <1>10, <1>11 DEF n

LEMMA SameIntegration ==
  ASSUME NEW C, NEW r
  PROVE  Atomic!Integrated(C, r) = Integrated(C, r)
<1>1. /\ \A T, rows : Atomic!InsertOrIgnore(T, rows, r) = InsertOrIgnore(T, rows, r)
      /\ \A T, rows : Atomic!InsertOrReplace(T, rows, r) = InsertOrReplace(T, rows, r)
  BY DEF InsertOrIgnore, InsertOrReplace, Atomic!InsertOrIgnore, Atomic!InsertOrReplace
<1>2. /\ Atomic!OutputRows(r) = OutputRows(r)
      /\ \A T : Atomic!Stored(T) = Stored(T)
  BY DEF OutputRows, Stored, Atomic!OutputRows, Atomic!Stored
<1>3. /\ Atomic!LegalRows(r) = LegalRows(r)
      /\ Atomic!OutputFiles(r) = OutputFiles(r)
  BY <1>2 DEF LegalRows, OutputFiles, Atomic!LegalRows, Atomic!OutputFiles
<1>4. Atomic!Fresh(C, r) = Fresh(C, r)
  BY <1>2, <1>3 DEF Fresh, Atomic!Fresh
<1>5. \A D : Atomic!WithChunks(D, r) = WithChunks(D, r)
  BY <1>1, <1>3 DEF WithChunks, Atomic!WithChunks
<1>6. \A D : Atomic!WithFeatures(D, r) = WithFeatures(D, r)
  BY <1>1 DEF WithFeatures, Atomic!WithFeatures
<1>7. \A D : Atomic!WithVectors(D, r) = WithVectors(D, r)
  BY <1>1 DEF WithVectors, Atomic!WithVectors
<1>8. \A D : Atomic!WithRelations(D, r) = WithRelations(D, r)
  BY <1>1 DEF WithRelations, Atomic!WithRelations
<1>9. \A D, n : Atomic!WithHistory(D, r, n) = WithHistory(D, r, n)
  BY DEF WithHistory, Atomic!WithHistory
<1>10. \A D : Atomic!WithFiles(D, r) = WithFiles(D, r)
  BY <1>3 DEF WithFiles, Atomic!WithFiles
<1> DEFINE C1 == WithChunks(C, r)
           C2 == WithFeatures(C1, r)
           C3 == WithVectors(C2, r)
           C4 == WithRelations(C3, r)
           n == Cardinality(Fresh(C, r))
           C5 == WithHistory(C4, r, n)
<1>11. Integrated(C, r) = WithFiles(C5, r)
  BY DEF Integrated
<1>12. Atomic!Integrated(C, r) = Atomic!WithFiles(Atomic!WithHistory(Atomic!WithRelations(
         Atomic!WithVectors(Atomic!WithFeatures(Atomic!WithChunks(C, r), r), r), r), r,
         Atomic!Cardinality(Atomic!Fresh(C, r))), r)
  BY DEF Atomic!Integrated
<1>0. Atomic!Cardinality(Fresh(C, r)) = Cardinality(Fresh(C, r))
  BY DEF Cardinality, Atomic!Cardinality
<1>13. Atomic!WithChunks(C, r) = C1
  BY <1>5
<1>14. Atomic!WithFeatures(C1, r) = C2
  BY <1>6
<1>15. Atomic!WithVectors(C2, r) = C3
  BY <1>7
<1>16. Atomic!WithRelations(C3, r) = C4
  BY <1>8
<1>17. Atomic!WithHistory(C4, r, n) = C5
  BY <1>9
<1>18. Atomic!WithFiles(C5, r) = WithFiles(C5, r)
  BY <1>10
<1> HIDE DEF C1, C2, C3, C4, C5
<1>19. Atomic!Integrated(C, r) = WithFiles(C5, r)
  BY <1>0, <1>4, <1>12, <1>13, <1>14, <1>15, <1>16, <1>17, <1>18
<1>. QED
  BY <1>11, <1>19

(* Without swallowed errors the corpus changes as AtomicMerge has it. *)
LEMMA CorpusChanges ==
  ASSUME IInv, [Next]_vars, NoErrorSwallowed'
  PROVE  [Atomic!Next]_corpus
<1> USE DEF IInv
<1>0. NoErrorSwallowed
  BY BudgetStep
<1>1. ASSUME NEW z \in Actors, Commit(z) PROVE Atomic!Next
  <2>1. InTx(z) /\ pc[z] = "commit" /\ RunOf(z) \in Runs
    BY <1>1, RunOfType DEF Commit, InTx, TxSteps, Busy
  <2>2. work = Integrated(corpus, RunOf(z))
    BY <1>0, <2>1 DEF WorkInv, Written
  <2>3. MetaStatus[RunOf(z)] = "completed" /\ ~IsMerged(corpus, RunOf(z))
    BY <1>0, <2>1 DEF RunInv, InTx
  <2>4. Atomic!Integrate(RunOf(z))
    BY <1>1, <2>1, <2>2, <2>3, SameIntegration DEF Commit, Atomic!Integrate, Atomic!IsMerged, IsMerged
  <2>. QED
    BY <2>1, <2>4 DEF Atomic!Next
<1>2. ASSUME NEW f \in Files, Import(f) PROVE Atomic!Next
  BY <1>2 DEF Import, Atomic!Next, Atomic!Import, WithImport, Atomic!WithImport
<1>. QED
  BY <1>1, <1>2, CorpusWriters

(* When the database swallows no error, Merger implements AtomicMerge. *)
THEOREM ImplementsAtomicMerge ==
  ASSUME MaxFaults["swallowed"] = 0
  PROVE  Spec => AtomicSpec
<1>1. Init => Atomic!Init
  BY DEF Init, Atomic!Init, EmptyCorpus, Atomic!EmptyCorpus, Pairs, Atomic!Pairs
<1>2. IInv => NoErrorSwallowed
  BY DEF IInv, TypeOK, BudgetInv, NoErrorSwallowed, FaultKinds
<1>3. IInv /\ NoErrorSwallowed' /\ [Next]_vars => [Atomic!Next]_corpus
  BY CorpusChanges
<1>. QED
  BY <1>1, <1>2, <1>3, Inductive, PTL DEF Spec, AtomicSpec, Atomic!Spec

(* A file is marked vectorized only by a merged run with rows of it. *)
THEOREM VectorizedByMergeHolds == Spec => []VectorizedByMerge
<1>1. Init => VectorizedByMerge
  BY DEF Init, VectorizedByMerge, EmptyCorpus
<1>2. IInv /\ VectorizedByMerge /\ [Next]_vars => VectorizedByMerge'
  <2> SUFFICES ASSUME IInv, VectorizedByMerge, [Next]_vars PROVE VectorizedByMerge'
    OBVIOUS
  <2> USE DEF IInv
  <2>1. CASE UNCHANGED corpus
    BY <2>1 DEF VectorizedByMerge
  <2>2. ASSUME NEW z \in Actors, Commit(z) PROVE VectorizedByMerge'
    <3>1. /\ RunOf(z) \in Runs /\ corpus' = work
          /\ Origins(work, corpus, RunOf(z), "commit")
      BY <2>2, RunOfType DEF Commit, OriginInv, InTx, TxSteps, Busy
    <3>2. \A r \in Runs : IsMerged(corpus', r) <=> IsMerged(corpus, r) \/ r = RunOf(z)
      BY <2>2, CommitRecords
    <3>. QED
      BY <3>1, <3>2 DEF Origins, VectorizedByMerge
  <2>3. ASSUME NEW f \in Files, Import(f) PROVE VectorizedByMerge'
    <3>1. \A g \in Files : corpus'.files[g] = "vectorized" => corpus.files[g] = "vectorized"
      BY <2>3 DEF Import, WithImport, TypeOK, Corpus
    <3>2. \A r \in Runs : IsMerged(corpus', r) <=> IsMerged(corpus, r)
      BY <2>3, ImportKeepsHistory
    <3>. QED
      BY <3>1, <3>2 DEF VectorizedByMerge
  <2>. QED
    BY <2>1, <2>2, <2>3, CorpusWriters
<1>. QED
  BY <1>1, <1>2, Inductive, PTL DEF Spec

(* What a merged run has in the corpus, as long as no error is swallowed.  *)
Whole(C) ==
  \A r \in Runs : IsMerged(C, r) =>
    /\ LegalRows(r) \subseteq Stored(C.chunks)
    /\ Features[r] \subseteq Stored(C.features)
    /\ Vectors[r] \subseteq Stored(C.vectors)
    /\ Relations[r] \subseteq Stored(C.relations)
ChunksOfMerged(C) == \A c \in Chunks : C.chunks[c] \in {r \in Runs : IsMerged(C, r)} \cup {NoRun}
Counted(C) ==
  \A r \in Runs : IsMerged(C, r) => C.history[r] = Cardinality({c \in Chunks : C.chunks[c] = r})

LEMMA StoredGrows ==
  ASSUME NEW C \in Corpus, NEW r \in Runs
  PROVE  LET I == Integrated(C, r) IN
         /\ Stored(I.chunks) = Stored(C.chunks) \cup LegalRows(r)
         /\ Stored(I.features) = Stored(C.features) \cup Features[r]
         /\ Stored(I.vectors) = Stored(C.vectors) \cup Vectors[r]
         /\ Stored(I.relations) = Stored(C.relations) \cup Relations[r]
<1> DEFINE I == Integrated(C, r)
<1>1. /\ I.chunks = InsertOrIgnore(C.chunks, LegalRows(r), r)
      /\ I.features = InsertOrReplace(C.features, Features[r], r)
      /\ I.vectors = InsertOrReplace(C.vectors, Vectors[r], r)
      /\ I.relations = InsertOrIgnore(C.relations, Relations[r], r)
  BY IntegratedFields
<1> HIDE DEF I
<1>2. /\ C.chunks \in [Chunks -> Runs \cup {NoRun}] /\ LegalRows(r) \subseteq Chunks
      /\ C.features \in [Chunks -> Runs \cup {NoRun}] /\ Features[r] \subseteq Chunks
      /\ C.vectors \in [Chunks -> Runs \cup {NoRun}] /\ Vectors[r] \subseteq Chunks
      /\ C.relations \in [Pairs -> Runs \cup {NoRun}] /\ Relations[r] \subseteq Pairs
  BY StoredType, LegalRowsType
<1>3. Stored(I.chunks) = Stored(C.chunks) \cup LegalRows(r)
  BY <1>1, <1>2, RunsAssumption DEF Stored, InsertOrIgnore
<1>4. Stored(I.features) = Stored(C.features) \cup Features[r]
  BY <1>1, <1>2, RunsAssumption DEF Stored, InsertOrReplace
<1>5. Stored(I.vectors) = Stored(C.vectors) \cup Vectors[r]
  BY <1>1, <1>2, RunsAssumption DEF Stored, InsertOrReplace
<1>6. Stored(I.relations) = Stored(C.relations) \cup Relations[r]
  BY <1>1, <1>2, RunsAssumption DEF Stored, InsertOrIgnore
<1>. QED
  BY <1>3, <1>4, <1>5, <1>6 DEF I

LEMMA WholeAfter ==
  ASSUME NEW C \in Corpus, NEW r \in Runs, Whole(C)
  PROVE  Whole(Integrated(C, r))
<1> DEFINE I == Integrated(C, r)
<1>1. I.history = [q \in Runs |-> IF q = r THEN Cardinality(Fresh(C, r)) ELSE C.history[q]]
  BY IntegratedFields
<1>2. \A q \in Runs : IsMerged(I, q) => IsMerged(C, q) \/ q = r
  BY <1>1 DEF IsMerged
<1>3. /\ Stored(I.chunks) = Stored(C.chunks) \cup LegalRows(r)
      /\ Stored(I.features) = Stored(C.features) \cup Features[r]
      /\ Stored(I.vectors) = Stored(C.vectors) \cup Vectors[r]
      /\ Stored(I.relations) = Stored(C.relations) \cup Relations[r]
  BY StoredGrows
<1> HIDE DEF I
<1>4. Whole(I)
  BY <1>2, <1>3 DEF Whole
<1>. QED
  BY <1>4 DEF I

LEMMA CountedAfter ==
  ASSUME NEW C \in Corpus, NEW r \in Runs, ~IsMerged(C, r), ChunksOfMerged(C), Counted(C)
  PROVE  Counted(Integrated(C, r))
<1> DEFINE I == Integrated(C, r)
<1>1. /\ I.history = [q \in Runs |-> IF q = r THEN Cardinality(Fresh(C, r)) ELSE C.history[q]]
      /\ I.chunks = InsertOrIgnore(C.chunks, LegalRows(r), r)
  BY IntegratedFields
<1> HIDE DEF I
<1>2. C.chunks \in [Chunks -> Runs \cup {NoRun}] /\ LegalRows(r) \subseteq Chunks
  BY StoredType, LegalRowsType
<1>3. \A c \in Chunks : I.chunks[c] = IF c \in LegalRows(r) /\ C.chunks[c] = NoRun THEN r ELSE C.chunks[c]
  BY <1>1, <1>2 DEF InsertOrIgnore
<1>4. \A c \in Chunks : C.chunks[c] # r
  BY RunsAssumption DEF ChunksOfMerged
<1>5. {c \in Chunks : I.chunks[c] = r} = Fresh(C, r)
  BY <1>2, <1>3, <1>4 DEF Fresh, Stored
<1>6. ASSUME NEW q \in Runs, q # r
      PROVE  {c \in Chunks : I.chunks[c] = q} = {c \in Chunks : C.chunks[c] = q}
  BY <1>3, <1>6, RunsAssumption
<1>7. Counted(I)
  <2> SUFFICES ASSUME NEW q \in Runs, IsMerged(I, q)
               PROVE  I.history[q] = Cardinality({c \in Chunks : I.chunks[c] = q})
    BY DEF Counted
  <2>1. CASE q = r
    BY <1>1, <1>5, <2>1
  <2>2. CASE q # r
    <3>1. I.history[q] = C.history[q] /\ IsMerged(C, q)
      BY <1>1, <2>2 DEF IsMerged
    <3>2. C.history[q] = Cardinality({c \in Chunks : C.chunks[c] = q})
      BY <3>1 DEF Counted
    <3>3. {c \in Chunks : I.chunks[c] = q} = {c \in Chunks : C.chunks[c] = q}
      BY <1>6, <2>2
    <3>. QED
      BY <3>1, <3>2, <3>3
  <2>. QED
    BY <2>1, <2>2
<1>. QED
  BY <1>7 DEF I

LEMMA ContentsStep ==
  IInv /\ (NoErrorSwallowed => Whole(corpus) /\ Counted(corpus)) /\ [Next]_vars
    => (NoErrorSwallowed => Whole(corpus) /\ Counted(corpus))'
<1> SUFFICES ASSUME IInv, NoErrorSwallowed => Whole(corpus) /\ Counted(corpus), [Next]_vars, NoErrorSwallowed'
             PROVE  Whole(corpus') /\ Counted(corpus')
  BY DEF Whole, Counted, NoErrorSwallowed
<1>1. Whole(corpus) /\ Counted(corpus)
  BY BudgetStep DEF IInv
<1>2. corpus \in Corpus /\ ChunksOfMerged(corpus)
  BY DEF IInv, TypeOK, OriginInv, Origins, MergedOr, ChunksOfMerged
<1>3. CASE UNCHANGED corpus
  BY <1>1, <1>3
<1>4. ASSUME NEW z \in Actors, Commit(z) PROVE Whole(corpus') /\ Counted(corpus')
  <2>1. InTx(z) /\ pc[z] = "commit" /\ RunOf(z) \in Runs
    BY <1>4, RunOfType DEF Commit, InTx, TxSteps, IInv, Busy
  <2>2. corpus' = Integrated(corpus, RunOf(z)) /\ ~IsMerged(corpus, RunOf(z))
    BY <1>4, <2>1, BudgetStep DEF IInv, WorkInv, Written, RunInv, Commit
  <2>. QED
    BY <1>1, <1>2, <2>1, <2>2, WholeAfter, CountedAfter
<1>5. ASSUME NEW f \in Files, Import(f) PROVE Whole(corpus') /\ Counted(corpus')
  <2>1. /\ corpus'.chunks = corpus.chunks /\ corpus'.features = corpus.features
        /\ corpus'.vectors = corpus.vectors /\ corpus'.relations = corpus.relations
        /\ corpus'.history = corpus.history
    BY <1>2, <1>5 DEF Import, WithImport, Corpus
  <2>. QED
    BY <1>1, <2>1 DEF Whole, Counted, IsMerged
<1>. QED
  BY <1>3, <1>4, <1>5, CorpusWriters

LEMMA Contents == Spec => [](NoErrorSwallowed => Whole(corpus) /\ Counted(corpus))
<1>1. Init => Whole(corpus) /\ Counted(corpus)
  BY DEF Init, EmptyCorpus, Whole, Counted, IsMerged
<1>. QED
  BY <1>1, ContentsStep, Inductive, PTL DEF Spec

(* Every committed row is a row of a merged run, and a merged run has all  *)
(* its legal rows in the corpus.                                           *)
THEOREM AllOrNothingHolds == Spec => []AllOrNothing
<1>1. IInv /\ (NoErrorSwallowed => Whole(corpus) /\ Counted(corpus)) => AllOrNothing
  BY DEF IInv, OriginInv, Origins, MergedOr, AllOrNothing, Whole
<1>. QED
  BY <1>1, Inductive, Contents, PTL

(* rows_produced is the number of chunks the corpus holds of the run. *)
THEOREM RowsProducedHolds == Spec => []RowsProduced
<1>1. (NoErrorSwallowed => Whole(corpus) /\ Counted(corpus)) => RowsProduced
  BY DEF RowsProduced, Counted
<1>. QED
  BY <1>1, Contents, PTL

-----------------------------------------------------------------------------
(* The loop alone.  The runs that a mergeable run rests on are merged when *)
(* its turn comes: they were queued with it, they leave the queue only     *)
(* when merged, and the loop takes the older ones first (QueueOrder).      *)

(* What the lemmas below assume of a step. *)
Calm == IInv /\ LoopAlone /\ NoError /\ NoError' /\ AloneInv /\ [Next]_vars

LEMMA FaultShows ==
  ASSUME TypeOK, BudgetInv, NEW k \in FaultKinds, Suffer(k)
  PROVE  faults'[k] # MaxFaults[k] /\ MaxFaults[k] # 0
<1>1. faults[k] \in Nat /\ faults[k] <= MaxFaults[k] /\ MaxFaults[k] \in Nat
  BY NumbersAssumption DEF TypeOK, BudgetInv
<1>2. faults'[k] = faults[k] - 1 /\ faults[k] > 0
  BY DEF Suffer, TypeOK
<1>. QED
  BY <1>1, <1>2

LEMMA NoErrorStep ==
  ASSUME TypeOK, BudgetInv, [Next]_vars, NoError'
  PROVE  NoError
<1>1. \A k \in FaultKinds : faults'[k] = MaxFaults[k] => faults[k] = MaxFaults[k]
  <2>1. \A k \in FaultKinds : faults[k] \in Nat /\ faults[k] <= MaxFaults[k] /\ MaxFaults[k] \in Nat
                              /\ faults'[k] <= faults[k] /\ faults'[k] \in Nat
    BY FaultStep, SufferSpends, SufferType, NumbersAssumption DEF TypeOK, BudgetInv
  <2>. QED
    BY <2>1
<1>. QED
  BY <1>1 DEF NoError, NoErrorSwallowed, FaultKinds

LEMMA CalmFaults ==
  ASSUME Calm
  PROVE  \A k \in {"error", "swallowed", "cancel", "recycle"} : ~Suffer(k)
<1> SUFFICES ASSUME NEW k \in {"error", "swallowed", "cancel", "recycle"}, Suffer(k) PROVE FALSE
  OBVIOUS
<1>1. faults'[k] # MaxFaults[k] /\ MaxFaults[k] # 0
  BY FaultShows DEF Calm, IInv, FaultKinds
<1>. QED
  BY <1>1 DEF Calm, LoopAlone, NoError, NoErrorSwallowed

(* What a step of mergeRun, called by the loop, comes to. *)
MergeEffect ==
  /\ Merging /\ pc'[Loop] \notin {"off", "select", "next"}
  /\ UNCHANGED <<cur, cancelled, todo>>
  /\ IF Holding(Loop)' THEN conn'.src = RunOf(Loop) ELSE attached' = NoPath
  /\ pc'[Loop] \in {"detach", "move"} =>
       \/ result'[Loop] = "ok"
       \/ pc[Loop] = "detach" /\ result'[Loop] = result[Loop]
       \/ MetaStatus[RunOf(Loop)] # "completed" \/ RunOf(Loop) \in BadLayers
       \/ InTx(Loop) /\ ~RefsHold(Loop)

LEMMA LoopMerges ==
  ASSUME Calm, MergeRun(Loop)
  PROVE  MergeEffect
<1> USE DEF MergeEffect, Merging, Holding, Goto, Unwind, InTx, TxSteps, AttachedSteps, Steps
<1>0. /\ Loop \in Actors /\ pc \in [Actors -> Steps] /\ cur \in [Actors -> Paths \cup {NoPath}]
      /\ result \in [Actors -> {"ok", "err"}] /\ conn \in Conns
      /\ ~cancelled[Loop] /\ (IF Holding(Loop) THEN conn.src = RunOf(Loop) ELSE attached = NoPath)
      /\ ~Suffer("error") /\ ~Suffer("swallowed")
  BY CalmFaults DEF Calm, IInv, TypeOK, AloneInv, Actors
<1>1. Merging => /\ cur[Loop] \in Paths /\ RunOf(Loop) \in Runs /\ RunOf(Loop) # NoRun
                 /\ FileAt(cur[Loop]) = "real"
  <2>1. ASSUME Merging PROVE cur[Loop][1] = "pending" /\ dirs["pending"][RunOf(Loop)] = "real"
    BY <2>1 DEF Calm, LoopAlone, IInv, LoopPathInv, FilesInv, LoopHasFile
  <2>2. ASSUME Merging PROVE cur[Loop] \in Paths /\ RunOf(Loop) \in Runs
    BY <2>2, <1>0, RunOfType DEF Calm, IInv, Busy
  <2>. QED
    BY <2>1, <2>2, RunsAssumption DEF FileAt, RunOf
<1> USE <1>0
<1>2. CASE StatRun(Loop)
  <2>1. pc[Loop] = "stat" /\ FileAt(cur[Loop]) = "real"
    BY <1>1, <1>2 DEF StatRun
  <2>2. pc' = [pc EXCEPT ![Loop] = "attach"] /\ UNCHANGED <<cur, cancelled, todo, attached>>
    BY <1>2, <2>1 DEF StatRun, database
  <2>. QED
    BY <2>1, <2>2
<1>3. CASE Attach(Loop)
  BY <1>1, <1>3 DEF Attach, RunOf, Conns
<1>4. CASE CheckStatus(Loop)
  BY <1>4 DEF CheckStatus, database
<1>5. CASE CheckMerged(Loop)
  BY <1>5 DEF CheckMerged, database
<1>6. CASE BeginTx(Loop)
  BY <1>6 DEF BeginTx, database
<1>7. CASE MergeChunks(Loop) \/ MergeFeatures(Loop) \/ MergeVectors(Loop) \/ MergeRelations(Loop)
  BY <1>7 DEF MergeChunks, MergeFeatures, MergeVectors, MergeRelations, Statement, SkipTable, database
<1>8. CASE UpdateHistory(Loop) \/ UpdateFiles(Loop)
  BY <1>8 DEF UpdateHistory, UpdateFiles, Statement
<1>9. CASE Commit(Loop)
  BY <1>9 DEF Commit
<1>10. CASE Rollback(Loop)
  BY <1>10 DEF Rollback
<1>11. CASE Detach(Loop)
  BY <1>1, <1>11 DEF Detach, Detached, Return, Conns
<1>. QED
  BY <1>2, <1>3, <1>4, <1>5, <1>6, <1>7, <1>8, <1>9, <1>10, <1>11 DEF MergeRun

LEMMA AloneStep ==
  ASSUME Calm
  PROVE  AloneInv'
<1> USE DEF Holding, AttachedSteps, TxSteps, Goto, lifecycle, calls, database
<1>0. /\ Loop \in Actors /\ Actors = {Loop} /\ Callers = {} /\ pc \in [Actors -> Steps] /\ TypeOK /\ Busy
      /\ StartedInv /\ cancelled \in [Actors -> BOOLEAN] /\ cur \in [Actors -> Paths \cup {NoPath}]
      /\ ~cancelled[Loop] /\ (IF Holding(Loop) THEN conn.src = RunOf(Loop) ELSE attached = NoPath)
      /\ ~Suffer("cancel") /\ ~Suffer("recycle")
  BY CalmFaults DEF Calm, LoopAlone, IInv, TypeOK, AloneInv, Actors
<1>1. CASE MergeRun(Loop)
  BY <1>0, <1>1, LoopMerges DEF MergeEffect, AloneInv, RunOf
<1>2. CASE Start
  BY <1>0, <1>2 DEF Start, AloneInv, StartedInv, RunOf
<1>3. CASE StopPanics \/ Crash
  BY <1>0, <1>3 DEF StopPanics, Crash, Restarted, AloneInv
<1>4. CASE NextRun \/ ProcessBatch \/ LoopExit \/ MoveRun
  BY <1>0, <1>4 DEF NextRun, ProcessBatch, LoopExit, MoveRun, AloneInv
<1>5. CASE UNCHANGED <<pc, cur, cancelled, attached, conn>>
  BY <1>0, <1>5 DEF AloneInv, RunOf
<1>6. Stop \/ (\E r \in Runs : RetryFailed(r) \/ GarbageCollect(r) \/ Enqueue(r)) \/ (\E f \in Files : Import(f))
        \/ UNCHANGED vars => UNCHANGED <<pc, cur, cancelled, attached, conn>>
  BY DEF Stop, RetryFailed, GarbageCollect, Enqueue, Import, vars
<1>. QED
  BY <1>0, <1>1, <1>2, <1>3, <1>4, <1>5, <1>6 DEF Calm, Next, Cancel, Recycle

LEMMA MergeableIs ==
  ASSUME NEW r \in Runs, Mergeable(r)
  PROVE  /\ MetaStatus[r] = "completed" /\ r \in Queued /\ r \notin BadLayers
         /\ \A c \in LegalRows(r) : Output[r][c] \in InitFiles
         /\ \A c \in Refers(r) : c \in LegalRows(r)
              \/ \E q \in Runs : SelfContained(q) /\ Mtime[q] < Mtime[r] /\ c \in LegalRows(q)
BY DEF Mergeable, Sound

LEMMA SelfContainedIs == \A q \in Runs : SelfContained(q) => Mergeable(q)
BY DEF SelfContained, Mergeable

(* The runs that the one at its turn rests on are merged. *)
LEMMA OlderMerged ==
  ASSUME QueueOrder, Merging, RunOf(Loop) \in Runs, todo \subseteq Runs,
         NEW q \in Runs, SelfContained(q), Mtime[q] < Mtime[RunOf(Loop)]
  PROVE  IsMerged(corpus, q)
<1>1. \A r \in Runs : Mtime[r] \in Nat
  BY NumbersAssumption
<1>2. CASE q \in todo
  BY <1>1, <1>2 DEF QueueOrder
<1>3. CASE q \notin todo /\ ~IsMerged(corpus, q)
  <2>1. q # RunOf(Loop)
    BY <1>1
  <2>2. ~Taken(q) /\ Taken(RunOf(Loop)) /\ pc[Loop] \notin {"off", "select"}
    BY <1>3, <2>1 DEF Taken, Merging
  <2>3. Mtime[RunOf(Loop)] <= Mtime[q]
    BY <1>3, <2>2 DEF QueueOrder
  <2>. QED
    BY <1>1, <2>3
<1>. QED
  BY <1>2, <1>3

(* So the foreign keys of its statements hold. *)
LEMMA RefsAreThere ==
  ASSUME IInv, NoError, FilesStay, QueueOrder, Whole(corpus), InTx(Loop), conn.src = RunOf(Loop),
         Mergeable(RunOf(Loop))
  PROVE  RefsHold(Loop)
<1> DEFINE r == RunOf(Loop)
           C1 == WithChunks(corpus, r)
           C2 == WithFeatures(C1, r)
           C3 == WithVectors(C2, r)
<1>1. /\ Merging /\ r \in Runs /\ todo \subseteq Runs /\ corpus \in Corpus
      /\ work = Written(pc[Loop], corpus, r)
  <2>1. Loop \in Actors /\ pc[Loop] \in TxSteps /\ cur[Loop] # NoPath /\ TypeOK
    BY DEF IInv, Busy, InTx, TxSteps, Actors
  <2>. QED
    BY <2>1, RunOfType DEF Merging, InTx, TxSteps, IInv, TypeOK, WorkInv, NoError
<1>2. \A c \in Refers(r) : c \in LegalRows(r) \/ c \in Stored(corpus.chunks)
  <2> SUFFICES ASSUME NEW q \in Runs, SelfContained(q), Mtime[q] < Mtime[r]
               PROVE  LegalRows(q) \subseteq Stored(corpus.chunks)
    BY <1>1, MergeableIs
  <2>. QED
    BY <1>1, OlderMerged DEF Whole
<1>3. C1.chunks = InsertOrIgnore(corpus.chunks, LegalRows(r), r)
  BY <1>1, StatementFields
<1>4. Refers(r) \subseteq Stored(C1.chunks)
  <2>1. corpus.chunks \in [Chunks -> Runs \cup {NoRun}] /\ LegalRows(r) \subseteq Chunks
    BY <1>1, StoredType, LegalRowsType
  <2>. QED
    BY <1>1, <1>2, <1>3, <2>1, RunsAssumption DEF Stored, InsertOrIgnore
<1>5. C1 \in Corpus /\ C2 \in Corpus /\ C2.chunks = C1.chunks /\ C3.chunks = C2.chunks
  BY <1>1, StatementTypes, StatementFields
<1>6. CASE pc[Loop] = "chunks"
  BY <1>1, <1>6, MergeableIs DEF RefsHold, ChunkRefs, Written, Fresh, FilesStay
<1>7. CASE pc[Loop] = "features"
  BY <1>1, <1>4, <1>7 DEF RefsHold, FeatureRefs, Written, Refers
<1>8. CASE pc[Loop] = "vectors"
  BY <1>1, <1>4, <1>5, <1>8 DEF RefsHold, VectorRefs, Written, Refers
<1>9. CASE pc[Loop] = "relations"
  BY <1>1, <1>4, <1>5, <1>9 DEF RefsHold, RelationRefs, Written, Refers
<1>. QED
  BY <1>6, <1>7, <1>8, <1>9 DEF RefsHold

LEMMA FilesStayStep ==
  ASSUME TypeOK, Busy, FilesStay, [Next]_vars
  PROVE  FilesStay'
<1> USE DEF FilesStay
<1>0. InitFiles \subseteq Files /\ corpus \in Corpus /\ work \in Corpus
  BY OutputAssumption DEF TypeOK
<1>1. ASSUME NEW z \in Actors, MergeRun(z) PROVE FilesStay'
  <2>1. CASE UNCHANGED <<corpus, work>>
    BY <2>1
  <2>2. CASE Commit(z) \/ Rollback(z)
    BY <2>2 DEF Commit, Rollback, TxRolledBack
  <2>3. CASE ~UNCHANGED <<corpus, work>> /\ ~Commit(z) /\ ~Rollback(z)
    <3>1. /\ corpus' = corpus /\ InTx(z)
          /\ \/ work' \in {WithChunks(work, RunOf(z)), WithFeatures(work, RunOf(z)), WithVectors(work, RunOf(z)),
                           WithRelations(work, RunOf(z)), WithFiles(work, RunOf(z))}
             \/ work' = WithHistory(work, RunOf(z), Cardinality(Inserted))
      BY <1>1, <2>3 DEF MergeRun, StatRun, Attach, AttachFails, CheckStatus, CheckMerged, BeginTx, MergeChunks,
         MergeFeatures, MergeVectors, MergeRelations, UpdateHistory, UpdateFiles, Statement, SkipTable,
         Detach, Detached, database, InTx, TxSteps
    <3>2. \A f \in InitFiles : work'.files[f] # "absent"
      BY <1>0, <3>1 DEF WithChunks, WithFeatures, WithVectors, WithRelations, WithHistory, WithFiles, Corpus
    <3>. QED
      BY <3>1, <3>2
  <2>. QED
    BY <2>1, <2>2, <2>3
<1>2. ASSUME NEW f \in Files, Import(f) PROVE FilesStay'
  BY <1>0, <1>2 DEF Import, WithImport, Corpus
<1>3. CASE StopPanics \/ Crash
  BY <1>3 DEF StopPanics, Crash, Restarted
<1>. QED
  BY <1>1, <1>2, <1>3 DEF Next, Start, Stop, LoopExit, ProcessBatch, NextRun, MoveRun, Cancel, ProcessOne,
     RetryFailed, GarbageCollect, Enqueue, Recycle, database, vars

LEMMA SuccessStep ==
  ASSUME Calm, FilesStay, Whole(corpus), QueueOrder, SuccessInv
  PROVE  SuccessInv'
<1>0. /\ Loop \in Actors /\ Actors = {Loop} /\ Callers = {} /\ TypeOK /\ Busy /\ pc \in [Actors -> Steps]
      /\ result \in [Actors -> {"ok", "err"}] /\ cur \in [Actors -> Paths \cup {NoPath}]
  BY DEF Calm, LoopAlone, IInv, TypeOK, Actors
<1>1. pc'[Loop] \in {"detach", "move"} /\ Mergeable(RunOf(Loop)') => result'[Loop] = "ok"
  <2> USE DEF Goto, lifecycle, calls
  <2>1. CASE MergeRun(Loop)
    <3> SUFFICES ASSUME pc'[Loop] \in {"detach", "move"}, Mergeable(RunOf(Loop)), result'[Loop] # "ok"
                 PROVE  FALSE
      BY <2>1, LoopMerges DEF MergeEffect, RunOf
    <3>1. RunOf(Loop) \in Runs
      BY <1>0, <2>1, LoopMerges, RunOfType DEF MergeEffect, Merging, Busy
    <3>2. MetaStatus[RunOf(Loop)] = "completed" /\ RunOf(Loop) \notin BadLayers
      BY <3>1, MergeableIs
    <3>3. CASE pc[Loop] = "detach" /\ result'[Loop] = result[Loop]
      BY <3>3 DEF SuccessInv
    <3>4. CASE InTx(Loop) /\ ~RefsHold(Loop)
      <4>1. conn.src = RunOf(Loop)
        BY <3>4 DEF Calm, AloneInv, Holding, InTx, AttachedSteps
      <4>. QED
        BY <3>4, <4>1, RefsAreThere DEF Calm
    <3>. QED
      BY <2>1, <3>2, <3>3, <3>4, LoopMerges DEF MergeEffect
  <2>2. CASE UNCHANGED <<pc, cur, result>>
    BY <2>2 DEF SuccessInv, RunOf
  <2>3. CASE Start \/ StopPanics \/ Crash \/ LoopExit \/ ProcessBatch \/ NextRun \/ MoveRun
    BY <1>0, <2>3 DEF Start, StopPanics, Crash, Restarted, LoopExit, ProcessBatch, NextRun, MoveRun,
       SuccessInv, RunOf
  <2>4. Stop \/ Cancel(Loop) \/ Recycle \/ (\E r \in Runs : RetryFailed(r) \/ GarbageCollect(r) \/ Enqueue(r))
          \/ (\E f \in Files : Import(f)) \/ UNCHANGED vars => UNCHANGED <<pc, cur, result>>
    BY DEF Stop, Cancel, Recycle, RetryFailed, GarbageCollect, Enqueue, Import, vars
  <2>. QED
    BY <1>0, <2>1, <2>2, <2>3, <2>4 DEF Calm, Next
<1>2. \A r \in Runs : Mergeable(r) => dirs'["failed"][r] # "real"
  <2> SUFFICES ASSUME NEW r \in Runs, Mergeable(r), dirs["failed"][r] # "real" PROVE dirs'["failed"][r] # "real"
    BY DEF SuccessInv
  <2>1. ASSUME NEW a \in Actors, cur[a] \in Paths, dirs' = [dirs EXCEPT ![cur[a][1]][cur[a][2]] = "empty"]
        PROVE  dirs'["failed"][r] # "real"
    BY <1>0, <2>1 DEF TypeOK
  <2>2. CASE MoveRun /\ RunOf(Loop) \in Runs /\ MoveFile(RunOf(Loop), "pending", Destination(result[Loop]))
    <3>1. r = RunOf(Loop) => Destination(result[Loop]) = "done"
      BY <2>2 DEF MoveRun, SuccessInv, Destination
    <3>. QED
      BY <1>0, <2>2, <3>1, MoveEffect DEF Destination, Dirs
  <2>3. ASSUME NEW q \in Runs, RetryFailed(q) \/ GarbageCollect(q) \/ Enqueue(q) PROVE dirs'["failed"][r] # "real"
    <3>1. CASE GarbageCollect(q)
      BY <1>0, <3>1 DEF GarbageCollect, TypeOK, Dirs
    <3>2. CASE RetryFailed(q)
      BY <1>0, <3>2, MoveEffect DEF RetryFailed, Dirs
    <3>3. CASE Enqueue(q)
      BY <1>0, <3>3, MoveEffect DEF Enqueue, Dirs
    <3>. QED
      BY <2>3, <3>1, <3>2, <3>3
  <2>. QED
    BY <1>0, <2>1, <2>2, <2>3, FileWriters DEF FileStep, Calm
<1>. QED
  BY <1>1, <1>2 DEF SuccessInv

LEMMA OrderStep ==
  ASSUME Calm, QueueOrder, SuccessInv
  PROVE  QueueOrder'
<1> USE DEF Goto, lifecycle, calls
<1>0. /\ Loop \in Actors /\ Actors = {Loop} /\ Callers = {} /\ TypeOK /\ Busy /\ pc \in [Actors -> Steps]
      /\ cur \in [Actors -> Paths \cup {NoPath}] /\ todo \subseteq Runs /\ StartedInv /\ NoEmptyQueued /\ OneFile
      /\ [Next]_vars
      /\ \A r \in Runs : IsMerged(corpus, r) => IsMerged(corpus', r)
  BY MergedStays DEF Calm, LoopAlone, IInv, TypeOK, Actors, FilesInv
<1>1. ASSUME MoveRun PROVE RunOf(Loop) \in Runs /\ (Mergeable(RunOf(Loop)) => IsMerged(corpus, RunOf(Loop)))
  <2>1. pc[Loop] = "move" /\ RunOf(Loop) \in Runs
    BY <1>0, <1>1, RunOfType DEF MoveRun, Busy
  <2>. QED
    BY <1>0, <2>1 DEF SuccessInv, RunInv, Calm, IInv
<1>2. \A r \in Runs : Mergeable(r) => IsMerged(corpus', r) \/ dirs'["pending"][r] = "real"
  <2> SUFFICES ASSUME NEW r \in Runs, Mergeable(r), ~IsMerged(corpus', r) PROVE dirs'["pending"][r] = "real"
    OBVIOUS
  <2>1. dirs["pending"][r] = "real"
    BY <1>0 DEF QueueOrder
  <2>2. CASE MoveRun
    <3>1. r # RunOf(Loop)
      BY <1>0, <1>1, <2>2
    <3>2. UNCHANGED dirs \/ MoveFile(RunOf(Loop), "pending", Destination(result[Loop]))
      BY <2>2 DEF MoveRun
    <3>. QED
      BY <1>0, <1>1, <2>1, <2>2, <3>1, <3>2, MoveEffect DEF Destination, Dirs
  <2>. QED
    BY <1>0, <2>1, <2>2, PendingStays
<1>3. CASE Merging /\ Merging' /\ UNCHANGED todo /\ cur'[Loop] = cur[Loop]
  <2>1. RunOf(Loop)' = RunOf(Loop) /\ \A r : Taken(r)' <=> Taken(r)
    BY <1>3 DEF RunOf, Taken
  <2>. QED
    BY <1>0, <1>2, <1>3, <2>1 DEF QueueOrder, Merging
<1>4. CASE pc'[Loop] \in {"off", "select"}
  BY <1>2, <1>4 DEF QueueOrder, Merging
<1>5. CASE pc[Loop] = "next" /\ pc'[Loop] = "next" /\ UNCHANGED todo
  BY <1>0, <1>2, <1>5 DEF QueueOrder, Merging, Taken
<1>6. CASE ProcessBatch
  <2>1. pc'[Loop] = "next" /\ UNCHANGED <<corpus, dirs>> /\ todo' \in Batches
    BY <1>0, <1>6 DEF ProcessBatch, database
  <2>2. \A r \in todo', q \in Pending \ todo' : Mtime[r] <= Mtime[q]
    BY <2>1 DEF Batches
  <2>3. \A q \in Runs : SelfContained(q) /\ ~IsMerged(corpus, q) => q \in Pending
    BY SelfContainedIs DEF QueueOrder, Pending
  <2>4. \A r : Taken(r)' <=> r \in todo'
    BY <2>1 DEF Taken, Merging
  <2>. QED
    BY <1>2, <2>1, <2>2, <2>3, <2>4 DEF QueueOrder, Merging
<1>7. CASE NextRun
  <2>1. PICK r \in todo : /\ \A q \in todo : Mtime[r] <= Mtime[q]
                          /\ cur' = [cur EXCEPT ![Loop] = <<"pending", r>>] /\ todo' = todo \ {r}
    BY <1>7 DEF NextRun, Oldest
  <2>2. pc[Loop] = "next" /\ pc'[Loop] = "stat" /\ UNCHANGED corpus /\ RunOf(Loop)' = r
    BY <1>0, <1>7, <2>1 DEF NextRun, RunOf, database
  <2>3. \A q : Taken(q)' <=> Taken(q)
    BY <2>1, <2>2 DEF Taken, Merging
  <2>. QED
    BY <1>2, <2>1, <2>2, <2>3 DEF QueueOrder, Merging
<1>8. CASE MoveRun
  <2>1. /\ pc[Loop] = "move" /\ pc'[Loop] \in {"select", "next"} /\ UNCHANGED <<corpus, todo>>
    BY <1>0, <1>8 DEF MoveRun, database
  <2>2. \A q : Taken(q)' <=> q \in todo
    BY <2>1 DEF Taken, Merging
  <2>3. \A q : Taken(q) <=> q \in todo \/ q = RunOf(Loop)
    BY <2>1 DEF Taken, Merging
  <2>4. SelfContained(RunOf(Loop)) => IsMerged(corpus, RunOf(Loop))
    BY <1>1, <1>8, SelfContainedIs
  <2>. QED
    BY <1>0, <1>2, <2>1, <2>2, <2>3, <2>4 DEF QueueOrder, Merging
<1>9. CASE MergeRun(Loop)
  BY <1>3, <1>9, LoopMerges DEF MergeEffect, Merging
<1>10. CASE Start \/ StopPanics \/ Crash \/ LoopExit
  <2>1. pc'[Loop] \in {"off", "select"} \/ UNCHANGED <<pc, cur, todo>>
    BY <1>0, <1>10 DEF Start, StopPanics, Crash, Restarted, LoopExit
  <2>. QED
    BY <1>3, <1>4, <1>5, <2>1 DEF Merging
<1>11. CASE UNCHANGED <<pc, cur, todo>>
  BY <1>3, <1>4, <1>5, <1>11 DEF Merging
<1>12. Stop \/ Cancel(Loop) \/ Recycle \/ (\E r \in Runs : RetryFailed(r) \/ GarbageCollect(r) \/ Enqueue(r))
          \/ (\E f \in Files : Import(f)) \/ UNCHANGED vars => UNCHANGED <<pc, cur, todo>>
  BY DEF Stop, Cancel, Recycle, RetryFailed, GarbageCollect, Enqueue, Import, vars
<1>. QED
  BY <1>0, <1>6, <1>7, <1>8, <1>9, <1>10, <1>11, <1>12 DEF Next

LEMMA InitQueue == Init => QueueInv
<1> SUFFICES ASSUME Init PROVE QueueInv
  OBVIOUS
<1>1. FilesStay
  BY OutputAssumption DEF Init, FilesStay, EmptyCorpus
<1>2. /\ Loop \in Actors /\ pc[Loop] = "off" /\ ~cancelled[Loop] /\ attached = NoPath
  BY DEF Init, Actors
<1>3. AloneInv
  BY <1>2 DEF AloneInv, Holding, AttachedSteps, TxSteps
<1>4. \A r \in Runs : Mergeable(r) => dirs["pending"][r] = "real" /\ dirs["failed"][r] # "real"
  BY MergeableIs DEF Init, Dirs
<1>. QED
  BY InitIInv, <1>1, <1>2, <1>3, <1>4 DEF QueueInv, QueueOrder, SuccessInv, Merging

LEMMA NextQueue == QueueInv /\ (NoErrorSwallowed => Whole(corpus) /\ Counted(corpus)) /\ [Next]_vars => QueueInv'
<1> SUFFICES ASSUME QueueInv, NoErrorSwallowed => Whole(corpus), [Next]_vars PROVE QueueInv'
  OBVIOUS
<1>1. IInv' /\ FilesStay'
  BY NextIInv, FilesStayStep DEF QueueInv, IInv
<1>2. ASSUME LoopAlone, NoError' PROVE AloneInv' /\ QueueOrder' /\ SuccessInv'
  <2>1. NoError
    BY <1>2, NoErrorStep DEF QueueInv, IInv
  <2>2. Calm /\ QueueOrder /\ SuccessInv /\ Whole(corpus) /\ FilesStay
    BY <1>2, <2>1 DEF Calm, QueueInv, NoError
  <2>. QED
    BY <2>2, AloneStep, OrderStep, SuccessStep
<1>3. LoopAlone' => LoopAlone
  BY DEF LoopAlone, OutsideQueue
<1>. QED
  BY <1>1, <1>2, <1>3 DEF QueueInv

(* Every reachable state has the loop take its runs in the order in which  *)
(* they rest on each other.                                                *)
THEOREM QueueInductive == Spec => []QueueInv
<1>. QED
  BY InitQueue, NextQueue, Contents, PTL DEF Spec

(* When nobody else merges, the process is not asked to cancel and its     *)
(* connection lasts, a run that has what it refers to, if only in the      *)
(* older runs of the queue, is never moved to failed/: whatever crashes,   *)
(* is stopped, retried, collected or queued meanwhile, and whatever the    *)
(* size of a batch (processBatch and mergeRun).                            *)
THEOREM MergeableNotFailedHolds ==
  ASSUME LoopAlone
  PROVE  Spec => []MergeableNotFailed
<1>1. QueueInv => MergeableNotFailed
  BY DEF QueueInv, SuccessInv, MergeableNotFailed
<1>. QED
  BY <1>1, QueueInductive, PTL

=============================================================================
