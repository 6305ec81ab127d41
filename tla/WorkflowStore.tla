---------------------------- MODULE WorkflowStore ----------------------------
(***************************************************************************)
(* The tables workflows and workflow_steps of workflows.db, and the        *)
(* operations of workflow.Loader on them.  LoadBuiltins and LoadFromFile   *)
(* send SQL files whose statements commit one by one; DeleteWorkflow and   *)
(* CloneWorkflow are one transaction each.                                 *)
(***************************************************************************)
EXTENDS Naturals, Sequences, SequencesExt

CONSTANTS
  Workflows,   \* workflow ids
  Versions,    \* builds of the program, each with its embedded files
  Files,       \* the lists of workflows a load may go through: one file, or all of them
  Release,     \* Release[v][w]: the steps the files of build v give workflow w
  InitStatus, InitSteps,   \* what the tables hold at first
  MaxChanges   \* how many operations of the loader may be called

NoRow == "none"
Status == {NoRow, "draft", "active", "deprecated"}

ASSUME FilesAssumption == Workflows # {} /\ Files \subseteq Seq(Workflows)
ASSUME VersionsAssumption == Versions # {}
ASSUME ChangesAssumption == MaxChanges \in Nat

VARIABLES
  status,    \* status[w]: the row of workflows
  stored,    \* stored[w]: the rows of workflow_steps, by step_order
  loading,   \* the workflows the load in progress has still to write
  release,   \* the build that loads
  line,      \* its next statement for Head(loading): 0 the workflow's row, then its steps, then its tags
  changes    \* calls left

store == <<status, stored, loading, release, line, changes>>

StoreInit ==
  /\ status = InitStatus /\ stored = InitSteps
  /\ loading = <<>> /\ line = 0
  /\ release = CHOOSE v \in Versions : TRUE
  /\ changes = MaxChanges

-----------------------------------------------------------------------------
Call == changes > 0 /\ changes' = changes - 1

Exists(w) == status[w] # NoRow

(* LoadBuiltins or LoadFromFile, of some build of the program: one at a time. *)
StartLoad(v, files) ==
  /\ loading = <<>> /\ Call
  /\ release' = v /\ loading' = files /\ line' = 0
  /\ UNCHANGED <<status, stored>>

Scripted == Release[release][Head(loading)]

(* Mistake: an upsert instead of a replacement would keep the old steps. *)
ReplaceKeepsSteps(w) ==
  /\ status' = [status EXCEPT ![w] = "active"]
  /\ UNCHANGED stored

(* INSERT OR REPLACE of the workflow: replacing its row deletes the old one, *)
(* and the foreign key deletes the steps with it.  Loads are on the first   *)
(* connection, since `init' loads as soon as it has opened the database; on *)
(* one of the pool's replacements foreign_keys is off, and old steps that   *)
(* the new build has no statement for would stay.                           *)
ReplaceWorkflow(w) ==
  /\ status' = [status EXCEPT ![w] = "active"]
  /\ stored' = [stored EXCEPT ![w] = <<>>]

LoadWorkflowRow ==
  /\ loading # <<>> /\ line = 0
  /\ ReplaceWorkflow(Head(loading))
  /\ line' = 1
  /\ UNCHANGED <<loading, release, changes>>

(* INSERT OR REPLACE of a step at step_order k. *)
PutStep(steps, k, s) == IF k <= Len(steps) THEN ReplaceAt(steps, k, s) ELSE Append(steps, s)

LoadStepRow ==
  /\ loading # <<>> /\ line \in 1 .. Len(Scripted) /\ Exists(Head(loading))
  /\ stored' = [stored EXCEPT ![Head(loading)] = PutStep(@, line, Scripted[line])]
  /\ line' = line + 1
  /\ UNCHANGED <<status, loading, release, changes>>

LoadTags ==
  /\ loading # <<>> /\ line > Len(Scripted) /\ Exists(Head(loading))
  /\ loading' = Tail(loading) /\ line' = 0
  /\ UNCHANGED <<status, stored, release, changes>>

(* A statement fails (a step or a tag needs its workflow's row), or the     *)
(* program is interrupted: what was written stays, the rest is not loaded.  *)
StopLoad ==
  /\ loading # <<>>
  /\ loading' = <<>> /\ line' = 0
  /\ UNCHANGED <<status, stored, release, changes>>

ActivateWorkflow(w) ==
  /\ Call /\ Exists(w)
  /\ status' = [status EXCEPT ![w] = "active"]
  /\ UNCHANGED <<stored, loading, release, line>>

DeprecateWorkflow(w) ==
  /\ Call /\ Exists(w)
  /\ status' = [status EXCEPT ![w] = "deprecated"]
  /\ UNCHANGED <<stored, loading, release, line>>

DeleteWorkflow(w) ==
  /\ Call
  /\ status' = [status EXCEPT ![w] = NoRow]
  /\ stored' = [stored EXCEPT ![w] = <<>>]
  /\ UNCHANGED <<loading, release, line>>

(* The copy is a draft with the steps its source has now.  A new id that is *)
(* taken violates the primary key and nothing changes.                      *)
CloneWorkflow(w, new) ==
  /\ Call /\ Exists(w) /\ ~Exists(new)
  /\ new \notin ToSet(loading)   \* not the id of a workflow that is being loaded
  /\ status' = [status EXCEPT ![new] = "draft"]
  /\ stored' = [stored EXCEPT ![new] = stored[w]]
  /\ UNCHANGED <<loading, release, line>>

StoreNext ==
  \/ \E v \in Versions, files \in Files : StartLoad(v, files)
  \/ LoadWorkflowRow \/ LoadStepRow \/ LoadTags \/ StopLoad
  \/ \E w \in Workflows : ActivateWorkflow(w) \/ DeprecateWorkflow(w) \/ DeleteWorkflow(w)
  \/ \E w, new \in Workflows : CloneWorkflow(w, new)

-----------------------------------------------------------------------------
(* Every list of steps that somebody wrote as a workflow. *)
Definitions == {Release[v][w] : v \in Versions, w \in Workflows} \cup {InitSteps[w] : w \in Workflows}

(* The steps are the first steps of one definition: none is missing in the  *)
(* middle, and none comes from another definition.                          *)
OfOneDefinition(steps) == \E d \in Definitions : IsPrefix(steps, d)

=============================================================================
