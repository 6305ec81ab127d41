---------------------------- MODULE CorpusTables ----------------------------
(***************************************************************************)
(* The tables of corpus.db that a merge writes, and what each statement of *)
(* internal/merger/merger.go does to them.                                 *)
(*                                                                         *)
(* A row of chunks, chunk_features, chunk_vectors or chunk_relations is    *)
(* determined by its key and by the run whose output holds it, so a table  *)
(* is a function from its keys to the run the stored row comes from.       *)
(* feature_name, layer and relation_type are left out of the keys: a run   *)
(* either has its row for a chunk, or a pair of them, or it has not; rows  *)
(* of two runs that differ in them alone count as the same row.            *)
(***************************************************************************)
EXTENDS Naturals, FiniteSets

CONSTANTS
  Runs,        \* run databases, one per execution of a workflow
  Files,       \* ids of raw_files
  Chunks,      \* ids of chunks
  NoRun,       \* no row
  NoFile,      \* no row of _output
  NotMerged,   \* no row of run_history
  Output,      \* Output[r][c]: the file_id of row c of r's _output, or NoFile
  Illegal,     \* Illegal[r]: the rows of _output that break a CHECK of chunks
  Features,    \* Features[r]: the chunks r's _output_features describes
  Vectors,     \* Vectors[r]: the chunks r's _output_vectors describes
  BadLayers,   \* runs with a row of _output_vectors that breaks the CHECK of its layer
  Relations,   \* Relations[r]: the pairs of r's _output_relations, without rows that break a CHECK
  MetaStatus,  \* MetaStatus[r]: the status of r's _run_meta
  InitFiles    \* the files imported before the merger runs

Pairs == Chunks \X Chunks
RunStatus == {"pending", "running", "completed", "failed"}

ASSUME RunsAssumption == NoRun \notin Runs /\ NoFile \notin Files /\ NotMerged \notin Nat
ASSUME ChunksFinite == IsFiniteSet(Chunks)
ASSUME OutputAssumption ==
  /\ Output \in [Runs -> [Chunks -> Files \cup {NoFile}]]
  /\ Illegal \in [Runs -> SUBSET Chunks]
  /\ Features \in [Runs -> SUBSET Chunks]
  /\ Vectors \in [Runs -> SUBSET Chunks]
  /\ BadLayers \subseteq Runs
  /\ Relations \in [Runs -> SUBSET Pairs]
  /\ MetaStatus \in [Runs -> RunStatus]
  /\ InitFiles \subseteq Files

Corpus ==
  [chunks    : [Chunks -> Runs \cup {NoRun}],
   features  : [Chunks -> Runs \cup {NoRun}],
   vectors   : [Chunks -> Runs \cup {NoRun}],
   relations : [Pairs -> Runs \cup {NoRun}],
   history   : [Runs -> Nat \cup {NotMerged}],       \* rows_produced of a merged run
   files     : [Files -> {"absent", "pending", "vectorized"}]]

EmptyCorpus ==
  [chunks    |-> [c \in Chunks |-> NoRun],
   features  |-> [c \in Chunks |-> NoRun],
   vectors   |-> [c \in Chunks |-> NoRun],
   relations |-> [p \in Pairs |-> NoRun],
   history   |-> [r \in Runs |-> NotMerged],
   files     |-> [f \in Files |-> IF f \in InitFiles THEN "pending" ELSE "absent"]]

-----------------------------------------------------------------------------
(* What a run database offers. *)

OutputRows(r) == {c \in Chunks : Output[r][c] # NoFile}

OutputFiles(r) == {Output[r][c] : c \in OutputRows(r)}

(* OR IGNORE skips a row that breaks a CHECK, without an error; under OR   *)
(* REPLACE such a row fails the statement (BadLayers).                     *)
LegalRows(r) == OutputRows(r) \ Illegal[r]

-----------------------------------------------------------------------------
(* Rows, and the two ways of inserting them. *)

Stored(table) == {k \in DOMAIN table : table[k] # NoRun}

InsertOrIgnore(table, rows, r) ==
  [k \in DOMAIN table |-> IF k \in rows /\ table[k] = NoRun THEN r ELSE table[k]]

InsertOrReplace(table, rows, r) ==
  [k \in DOMAIN table |-> IF k \in rows THEN r ELSE table[k]]

-----------------------------------------------------------------------------
(* The six statements of the merge transaction: what each writes ...       *)

Fresh(C, r) == LegalRows(r) \ Stored(C.chunks)

WithChunks(C, r) == [C EXCEPT !.chunks = InsertOrIgnore(C.chunks, LegalRows(r), r)]

WithFeatures(C, r) == [C EXCEPT !.features = InsertOrReplace(C.features, Features[r], r)]

WithVectors(C, r) == [C EXCEPT !.vectors = InsertOrReplace(C.vectors, Vectors[r], r)]

WithRelations(C, r) == [C EXCEPT !.relations = InsertOrIgnore(C.relations, Relations[r], r)]

WithHistory(C, r, rows) ==
  [C EXCEPT !.history = [q \in Runs |-> IF q = r THEN rows ELSE C.history[q]]]

(* Mistake: a status the merger never sets. *)
WithFilesChunked(C, r) ==
  [C EXCEPT !.files = [f \in Files |->
     IF f \in OutputFiles(r) /\ C.files[f] # "absent" THEN "chunked" ELSE C.files[f]]]

WithFiles(C, r) ==
  [C EXCEPT !.files = [f \in Files |->
     IF f \in OutputFiles(r) /\ C.files[f] # "absent" THEN "vectorized" ELSE C.files[f]]]

(* ... and the foreign keys SQLite checks when it ends. *)

ChunkRefs(C, r) == \A c \in Fresh(C, r) : C.files[Output[r][c]] # "absent"

FeatureRefs(C, r) == Features[r] \subseteq Stored(C.chunks)

VectorRefs(C, r) == Vectors[r] \subseteq Stored(C.chunks)

RelationRefs(C, r) ==
  \A p \in Relations[r] \ Stored(C.relations) : {p[1], p[2]} \subseteq Stored(C.chunks)

(* The whole transaction on a corpus, when no statement of it fails. *)
Integrated(C, r) ==
  WithFiles(WithHistory(WithRelations(WithVectors(WithFeatures(WithChunks(C, r), r), r), r), r,
                        Cardinality(Fresh(C, r))), r)

(* orchestrator.Ingest inserts the row of a file it has not seen. *)
WithImport(C, f) == [C EXCEPT !.files = [g \in Files |-> IF g = f THEN "pending" ELSE C.files[g]]]

IsMerged(C, r) == C.history[r] # NotMerged

=============================================================================
