------------------------------- MODULE Engine -------------------------------
(***************************************************************************)
(* Engine.Run: a workflow is read from the store in two queries, a run     *)
(* database is created and described, and the steps are executed one after *)
(* the other, each of them materialised as a table and recorded.  The      *)
(* loader changes the store at any time; a context may be cancelled, a     *)
(* call fail, the process die between any two calls.                       *)
(***************************************************************************)
EXTENDS WorkflowStore, Integers

CONSTANTS
  Runs,       \* one call of Run each, with a run database of its own
  Tables,     \* names of tables of a run database
  MaxRows,    \* the largest table
  MaxFaults   \* how many errors, cancelled contexts, crashes and replaced connections there may be

SqlOps == {"filter", "project", "join", "aggregate", "window", "hash", "vectorize"}
OnEmpty == {"continue", "skip_remaining", "fail"}
Corpus == "corpus"   \* a table of the attached corpus
NoTable == -1
Rows == 0 .. MaxRows

(* Operations outside of SqlOps and "external" (diff, fork, merge) are allowed *)
(* by the schema and unknown to the engine.                                    *)
Step == [op : SqlOps \cup {"external", "diff"}, source : Tables \cup {Corpus}, output : Tables, onEmpty : OnEmpty]

ASSUME StepsAssumption ==
  /\ Release \in [Versions -> [Workflows -> Seq(Step)]]
  /\ InitSteps \in [Workflows -> Seq(Step)]
  /\ InitStatus \in [Workflows -> Status]
ASSUME TablesAssumption == {"_input", "_output"} \subseteq Tables /\ Corpus \notin Tables
ASSUME RowsAssumption == MaxRows \in Nat
ASSUME FaultsAssumption == MaxFaults \in Nat

VARIABLES
  pc,          \* where each call is
  workflow,    \* the workflow it was called with
  steps,       \* Workflow.Steps, as loaded
  copied,      \* how many of them are in _workflow_steps
  meta,        \* _run_meta.status, "none" without the row
  tables,      \* the tables of the run database with their number of rows
  log,         \* _step_executions: rows_in and rows_out of each recorded step
  execution,   \* the StepExecution that is still to be recorded
  result,      \* what Run returned: nil and an error, or a run that failed or completed
  attached,    \* whether the connection has the corpus
  cancelled,   \* whether the context is done
  registered,  \* whether the engine has the extractor of the external steps
  faults       \* faults left

run == <<pc, workflow, steps, copied, meta, tables, log, execution, result, attached, cancelled, registered, faults>>
vars == <<store, run>>

NoRun == [t \in Tables |-> NoTable]
Counts == [in : Rows, out : Rows]

TypeOK ==
  /\ status \in [Workflows -> Status] /\ stored \in [Workflows -> Seq(Step)]
  /\ loading \in Seq(Workflows) /\ release \in Versions /\ line \in Nat
  /\ changes \in Nat
  /\ pc \in [Runs -> {"off", "steps", "create", "meta", "copy", "exec", "log", "fail", "returned", "dead"}]
  /\ workflow \in [Runs -> Workflows \cup {"none"}]
  /\ steps \in [Runs -> Seq(Step)]
  /\ copied \in [Runs -> Nat]
  /\ meta \in [Runs -> {"none", "running", "completed", "failed"}]
  /\ tables \in [Runs -> [Tables -> Rows \cup {NoTable}]]
  /\ log \in [Runs -> Seq(Counts)]
  /\ execution \in [Runs -> Counts]
  /\ result \in [Runs -> {"none", "error", "failed", "completed"}]
  /\ attached \in [Runs -> BOOLEAN] /\ cancelled \in [Runs -> BOOLEAN]
  /\ registered \in BOOLEAN
  /\ faults \in 0 .. MaxFaults

Init ==
  /\ StoreInit
  /\ pc = [r \in Runs |-> "off"]
  /\ workflow = [r \in Runs |-> "none"]
  /\ steps = [r \in Runs |-> <<>>]
  /\ copied = [r \in Runs |-> 0]
  /\ meta = [r \in Runs |-> "none"]
  /\ tables = [r \in Runs |-> NoRun]
  /\ log = [r \in Runs |-> <<>>]
  /\ execution = [r \in Runs |-> [in |-> 0, out |-> 0]]
  /\ result = [r \in Runs |-> "none"]
  /\ attached = [r \in Runs |-> FALSE] /\ cancelled = [r \in Runs |-> FALSE]
  /\ registered = FALSE
  /\ faults = MaxFaults

-----------------------------------------------------------------------------
Suffer == faults > 0 /\ faults' = faults - 1

At(r, where) == pc[r] = where
Goto(r, where) == pc' = [pc EXCEPT ![r] = where]
Return(r, res) == Goto(r, "returned") /\ result' = [result EXCEPT ![r] = res]

(* A call that is given the context fails once that is done. *)
Fails(r) == (cancelled[r] /\ UNCHANGED faults) \/ (~cancelled[r] /\ Suffer)
Works(r) == ~cancelled[r] /\ UNCHANGED faults

(* The map of extractors has no lock: they are registered before the engine runs. *)
RegisterExtractor ==
  /\ ~registered /\ \A r \in Runs : At(r, "off")
  /\ registered' = TRUE
  /\ UNCHANGED <<store, pc, workflow, steps, copied, meta, tables, log, execution, result, attached, cancelled, faults>>

(* The first query of LoadWorkflow: only an active workflow is found. *)
ReadWorkflow(r, w) ==
  /\ At(r, "off") /\ Works(r)
  /\ status[w] = "active"
  /\ workflow' = [workflow EXCEPT ![r] = w]
  /\ Goto(r, "steps")
  /\ UNCHANGED <<store, steps, copied, meta, tables, log, execution, result, attached, cancelled, registered>>

NotActive(r, w) ==
  /\ At(r, "off") /\ Works(r)
  /\ status[w] # "active"
  /\ Return(r, "error")
  /\ UNCHANGED <<store, workflow, steps, copied, meta, tables, log, execution, attached, cancelled, registered>>

Load(r, loaded) ==
  /\ steps' = [steps EXCEPT ![r] = loaded]
  /\ Goto(r, "create")
  /\ UNCHANGED <<store, workflow, copied, meta, tables, log, execution, result, attached, cancelled, registered>>

(* The second query: the rows the workflow has by now. *)
ReadSteps(r) == At(r, "steps") /\ Works(r) /\ Load(r, stored[workflow[r]])

(* rows.Err() is not asked for: when reading the rows fails or is cancelled, *)
(* the steps end where it did.                                              *)
ReadSomeSteps(r) ==
  /\ At(r, "steps")
  /\ Suffer \/ (cancelled[r] /\ UNCHANGED faults)
  /\ \E n \in 0 .. Len(stored[workflow[r]]) : Load(r, SubSeq(stored[workflow[r]], 1, n))

(* db.CreateRun: the file with the schema, which has an empty _output.  It *)
(* is given no context.                                                    *)
CreateRun(r) ==
  /\ At(r, "create") /\ UNCHANGED faults
  /\ tables' = [tables EXCEPT ![r]["_output"] = 0]
  /\ Goto(r, "meta")
  /\ UNCHANGED <<store, workflow, steps, copied, meta, log, execution, result, attached, cancelled, registered>>

InitRunMeta(r) ==
  /\ At(r, "meta") /\ Works(r)
  /\ meta' = [meta EXCEPT ![r] = "running"]
  /\ Goto(r, "copy")
  /\ UNCHANGED <<store, workflow, steps, copied, tables, log, execution, result, attached, cancelled, registered>>

CopyStep(r) ==
  /\ At(r, "copy") /\ copied[r] < Len(steps[r]) /\ Works(r)
  /\ copied' = [copied EXCEPT ![r] = @ + 1]
  /\ UNCHANGED <<store, pc, workflow, steps, meta, tables, log, execution, result, attached, cancelled, registered>>

(* Mistake: going on when a step could not be copied. *)
AttachUnchecked(r) ==
  /\ At(r, "copy") /\ Works(r)
  /\ attached' = [attached EXCEPT ![r] = TRUE]
  /\ Goto(r, "exec")
  /\ UNCHANGED <<store, workflow, steps, copied, meta, tables, log, execution, result, cancelled, registered>>

AttachCorpus(r) ==
  /\ At(r, "copy") /\ copied[r] = Len(steps[r]) /\ Works(r)
  /\ attached' = [attached EXCEPT ![r] = TRUE]
  /\ Goto(r, "exec")
  /\ UNCHANGED <<store, workflow, steps, copied, meta, tables, log, execution, result, cancelled, registered>>

(* One of the calls so far, or the recording of a step, returns an error:  *)
(* Run returns nil, and the database stays as it is.  CreateRun is given   *)
(* no context, and fails by itself only.                                   *)
GiveUp(r) ==
  /\ \/ pc[r] \in {"off", "steps", "meta", "copy", "log"} /\ Fails(r)
     \/ At(r, "create") /\ Suffer
  /\ Return(r, "error")
  /\ UNCHANGED <<store, workflow, steps, copied, meta, tables, log, execution, attached, cancelled, registered>>

-----------------------------------------------------------------------------
(* Mistake: off by one. *)
PendingButLast(r) == Len(log[r]) + 1 < Len(steps[r])

Pending(r) == Len(log[r]) < Len(steps[r])
Current(r) == steps[r][Len(log[r]) + 1]

(* Mistake: the output of the first step instead of the last one. *)
SourceOfFirst(r) ==
  IF Current(r).source = "_input" /\ Len(log[r]) > 0
  THEN steps[r][1].output
  ELSE Current(r).source

(* _input stands for the output of the step before; the first step has none. *)
Source(r) ==
  IF Current(r).source = "_input" /\ Len(log[r]) > 0
  THEN steps[r][Len(log[r])].output
  ELSE Current(r).source

Readable(r, t) == IF t = Corpus THEN attached[r] ELSE tables[r][t] # NoTable

(* CREATE TABLE ... AS SELECT *)
Creatable(r) == Readable(r, Source(r)) /\ tables[r][Current(r).output] = NoTable

(* How many rows an operation may produce from a source with n of them.  The *)
(* predicate of the last three is any SQL; an external step whose extractor  *)
(* is unknown copies no row.                                                 *)
Produces(op, n) ==
  CASE op \in {"filter", "window"} -> 0 .. n
    [] op \in {"hash", "vectorize"} -> {n}
    [] op \in {"project", "join", "aggregate"} -> Rows
    [] op = "external" -> {0}

(* The operations a step has code for, and an external step only without   *)
(* its extractor: with it the step holds the rows of its query and waits   *)
(* for a second connection, which the pool does not have.                  *)
Executable(r) == Current(r).op \in SqlOps \/ (Current(r).op = "external" /\ ~registered)
HoldsConnection(r) == Current(r).op = "external" /\ registered /\ Readable(r, Source(r))

SourceRows(r) == IF Source(r) = Corpus THEN Rows ELSE {tables[r][Source(r)]}

(* rows_in is counted only in a table of the run database; a count that    *)
(* fails is taken for zero.                                                *)
Counted(r, n) == IF Source(r) \in {"_input", Corpus} THEN 0 ELSE n

ExecuteStep(r) ==
  /\ At(r, "exec") /\ Pending(r) /\ ~cancelled[r]
  /\ Executable(r) /\ Creatable(r)
  /\ \E n \in SourceRows(r) : \E m \in Produces(Current(r).op, n) :
       /\ tables' = [tables EXCEPT ![r][Current(r).output] = m]
       /\ \/ /\ execution' = [execution EXCEPT ![r] = [in |-> Counted(r, n), out |-> m]]
             /\ UNCHANGED faults
          \/ /\ Suffer
             /\ \/ execution' = [execution EXCEPT ![r] = [in |-> 0, out |-> m]]
                \/ execution' = [execution EXCEPT ![r] = [in |-> Counted(r, n), out |-> 0]]
  /\ Goto(r, "log")
  /\ UNCHANGED <<store, workflow, steps, copied, meta, log, result, attached, cancelled, registered>>

(* Mistake: statements that are not given the context. *)
StepFailsUncancelled(r) ==
  /\ At(r, "exec") /\ Pending(r)
  /\ \/ Suffer
     \/ ~Creatable(r) /\ ~HoldsConnection(r) /\ UNCHANGED faults
     \/ Current(r).op = "diff" /\ UNCHANGED faults
  /\ Goto(r, "fail")
  /\ UNCHANGED <<store, workflow, steps, copied, meta, tables, log, execution, result, attached, cancelled, registered>>

(* The step has no code, its statement is refused, or it fails.  A step    *)
(* that waits for its own connection gets here once it is cancelled.       *)
StepFails(r) ==
  /\ At(r, "exec") /\ Pending(r)
  /\ \/ Fails(r)
     \/ ~Creatable(r) /\ ~HoldsConnection(r) /\ UNCHANGED faults
     \/ Current(r).op = "diff" /\ UNCHANGED faults
  /\ Goto(r, "fail")
  /\ UNCHANGED <<store, workflow, steps, copied, meta, tables, log, execution, result, attached, cancelled, registered>>

(* Mistake: on_empty forgotten altogether. *)
LogWithoutEmpty(r) ==
  /\ At(r, "log") /\ Works(r)
  /\ log' = [log EXCEPT ![r] = Append(@, execution[r])]
  /\ Goto(r, "exec")
  /\ UNCHANGED <<store, workflow, steps, copied, meta, tables, execution, result, attached, cancelled, registered>>

(* The step is recorded; without a row it fails the run if it says so.  The *)
(* break of skip_remaining leaves the switch and nothing else.              *)
LogStepExecution(r) ==
  /\ At(r, "log") /\ Works(r)
  /\ log' = [log EXCEPT ![r] = Append(@, execution[r])]
  /\ Goto(r, IF execution[r].out = 0 /\ Current(r).onEmpty = "fail" THEN "fail" ELSE "exec")
  /\ UNCHANGED <<store, workflow, steps, copied, meta, tables, execution, result, attached, cancelled, registered>>

(* Mistake: one final status for every run, as a deferred update would write it. *)
UpdateAsCompleted(r, final) ==
  \/ Works(r) /\ meta' = [meta EXCEPT ![r] = "completed"]
  \/ /\ (cancelled[r] /\ UNCHANGED faults) \/ Suffer
     /\ UNCHANGED meta

(* updateRunStatus, whose error nobody looks at. *)
UpdateRunStatus(r, final) ==
  \/ Works(r) /\ meta' = [meta EXCEPT ![r] = final]
  \/ /\ (cancelled[r] /\ UNCHANGED faults) \/ Suffer
     /\ UNCHANGED meta

FailRun(r) ==
  /\ At(r, "fail")
  /\ UpdateRunStatus(r, "failed") /\ Return(r, "failed")
  /\ UNCHANGED <<store, workflow, steps, copied, tables, log, execution, attached, cancelled, registered>>

Finalize(r) ==
  /\ At(r, "exec") /\ ~Pending(r)
  /\ UpdateRunStatus(r, "completed") /\ Return(r, "completed")
  /\ UNCHANGED <<store, workflow, steps, copied, tables, log, execution, attached, cancelled, registered>>

-----------------------------------------------------------------------------
Ended == {"returned", "dead"}
Underway(r) == pc[r] \notin Ended \cup {"off"}

Cancel(r) ==
  /\ pc[r] \notin Ended /\ ~cancelled[r] /\ Suffer
  /\ cancelled' = [cancelled EXCEPT ![r] = TRUE]
  /\ UNCHANGED <<store, pc, workflow, steps, copied, meta, tables, log, execution, result, attached, registered>>

Crash(r) ==
  /\ Underway(r) /\ Suffer
  /\ Goto(r, "dead")
  /\ UNCHANGED <<store, workflow, steps, copied, meta, tables, log, execution, result, attached, cancelled, registered>>

(* The pool replaces a connection that is an hour old and not in use: the new *)
(* one does not have the corpus.                                              *)
Recycle(r) ==
  /\ attached[r] /\ Underway(r) /\ Suffer
  /\ ~(At(r, "exec") /\ Pending(r) /\ HoldsConnection(r))
  /\ attached' = [attached EXCEPT ![r] = FALSE]
  /\ UNCHANGED <<store, pc, workflow, steps, copied, meta, tables, log, execution, result, cancelled, registered>>

RunStep(r) ==
  \/ ReadSteps(r) \/ ReadSomeSteps(r) \/ CreateRun(r) \/ InitRunMeta(r) \/ CopyStep(r) \/ AttachCorpus(r)
  \/ ExecuteStep(r) \/ StepFails(r) \/ LogStepExecution(r) \/ FailRun(r) \/ Finalize(r)
  \/ GiveUp(r)

Next ==
  \/ \E r \in Runs, w \in Workflows : ReadWorkflow(r, w) \/ NotActive(r, w)
  \/ \E r \in Runs : RunStep(r) \/ Cancel(r) \/ Crash(r) \/ Recycle(r)
  \/ RegisterExtractor
  \/ StoreNext /\ UNCHANGED run

Spec == Init /\ [][Next]_vars

(* A goroutine that can go on does; nobody has to cancel or to call anything. *)
FairSpec == Spec /\ \A r \in Runs : WF_vars(RunStep(r))

-----------------------------------------------------------------------------
(* A run whose steps are those of a workflow has them in their order and    *)
(* from one definition, though the workflow may be loaded again, deleted or *)
(* cloned between the two queries: it may lack steps at the end, never one  *)
(* in the middle (engine.go:85-117, loader.go:42).                          *)
OneDefinition == \A r \in Runs : OfOneDefinition(steps[r])

(* A completed run has all its steps described and recorded, each left its  *)
(* table, and none that had to produce rows is recorded without              *)
(* (engine.go:185-216).                                                     *)
CompletedWhole ==
  \A r \in Runs : meta[r] = "completed" =>
    /\ copied[r] = Len(steps[r]) /\ Len(log[r]) = Len(steps[r])
    /\ \A i \in DOMAIN steps[r] :
         /\ tables[r][steps[r][i].output] # NoTable
         /\ steps[r][i].onEmpty = "fail" => log[r][i].out > 0

(* The table a recorded step has read. *)
ReadBy(r, i) ==
  IF steps[r][i].source = "_input" /\ i > 1 THEN steps[r][i - 1].output ELSE steps[r][i].source

(* The record of a step agrees with the tables: rows_in with what the step  *)
(* has read, rows_out with what it left, except for a zero where a count    *)
(* failed; no later step changes a table an earlier one was read from       *)
(* (engine.go:257-307).                                                     *)
Lineage ==
  \A r \in Runs : \A i \in DOMAIN log[r] :
    /\ log[r][i].out \in {0, tables[r][steps[r][i].output]}
    /\ ReadBy(r, i) # Corpus => log[r][i].in \in {0, tables[r][ReadBy(r, i)]}
    /\ MaxFaults = 0 => log[r][i].out = tables[r][steps[r][i].output]

(* What Run returns is what the database says, or the database still says   *)
(* running: nothing else may be told of a run whose last update was lost    *)
(* (engine.go:187-216).                                                     *)
StatusTold ==
  \A r \in Runs :
    /\ meta[r] \in {"completed", "failed"} => result[r] = meta[r]
    /\ result[r] \in {"completed", "failed"} => meta[r] \in {"running", result[r]}

(* The database of a run keeps the promise of RunRecord. *)
Record == INSTANCE RunRecord WITH
  status <- meta,
  plan <- [r \in Runs |-> IF meta[r] = "none" THEN 0 ELSE Len(steps[r])],
  done <- [r \in Runs |-> Len(log[r])]

(* Every run is recorded step by step, is completed only with its last step *)
(* and keeps its final status (engine.go:185-216, 549-563).                 *)
RunRecorded == Record!Spec

(* A run ends, one way or another, unless an external step waits for the    *)
(* connection it holds itself; cancelling the context ends that one too     *)
(* (engine.go:506-514).                                                     *)
RunEnds == \A r \in Runs : Underway(r) /\ (cancelled[r] \/ ~registered) ~> pc[r] \in Ended

(* skip_remaining: "que faire si resultat vide", nothing is executed after  *)
(* a step that asks for it and produced nothing (types.go:60,                *)
(* sql/schema/workflows.sql:55).                                            *)
SkipRemainingObeyed ==
  \A r \in Runs : \A i \in DOMAIN log[r] :
    log[r][i].out = 0 /\ steps[r][i].onEmpty = "skip_remaining" => Len(log[r]) = i

-----------------------------------------------------------------------------
(* A load in progress has written the first steps of its workflow, unless   *)
(* that was deleted meanwhile.                                              *)
StoreInv ==
  /\ \A w \in Workflows : OfOneDefinition(stored[w])
  /\ line > 0 =>
       /\ loading # <<>> /\ line <= Len(Scripted) + 1
       /\ Exists(Head(loading)) => stored[Head(loading)] = SubSeq(Scripted, 1, line - 1)

(* The step that was executed and is not recorded yet. *)
ExecutionInv ==
  \A r \in Runs : At(r, "log") =>
    LET i == Len(log[r]) + 1 IN
    /\ i <= Len(steps[r])
    /\ tables[r][steps[r][i].output] # NoTable
    /\ execution[r].out \in {0, tables[r][steps[r][i].output]}
    /\ ReadBy(r, i) # Corpus => execution[r].in \in {0, tables[r][ReadBy(r, i)]}
    /\ MaxFaults = 0 => execution[r].out = tables[r][steps[r][i].output]

LogInv ==
  \A r \in Runs :
    /\ copied[r] <= Len(steps[r]) /\ Len(log[r]) <= Len(steps[r])
    /\ \A i \in DOMAIN log[r] :
         /\ tables[r][steps[r][i].output] # NoTable
         /\ pc[r] \in {"exec", "log"} /\ steps[r][i].onEmpty = "fail" => log[r][i].out > 0

(* How far a run is, and what its database says. *)
PhaseInv ==
  \A r \in Runs :
    /\ At(r, "steps") => workflow[r] \in Workflows
    /\ pc[r] \in {"off", "steps", "create", "meta"} => meta[r] = "none" /\ log[r] = <<>> /\ copied[r] = 0
    /\ pc[r] \in {"copy", "exec", "log", "fail"} => meta[r] = "running"
    /\ At(r, "copy") => log[r] = <<>>
    /\ pc[r] \in {"exec", "log", "fail"} => copied[r] = Len(steps[r])
    /\ meta[r] \in {"completed", "failed"} => At(r, "returned")
    /\ ~At(r, "returned") => result[r] = "none"

(* The inductive invariant of the engine: it holds together what the        *)
(* properties above need at every step of a run (engine.go:146-219).        *)
EngineInv ==
  /\ TypeOK /\ StoreInv /\ ExecutionInv /\ LogInv /\ PhaseInv
  /\ OneDefinition /\ CompletedWhole /\ Lineage /\ StatusTold

=============================================================================
