------------------------------ MODULE Pipeline ------------------------------
(***************************************************************************)
(* A data directory and the programs that work on it: callers that run the *)
(* commands of cmd/raglite/main.go, which are calls of one Orchestrator    *)
(* (internal/orchestrator/orchestrator.go), and somebody who runs the      *)
(* merger, which no command does.                                          *)
(*                                                                         *)
(* A run of the engine (module Engine) is what it was for, the files its   *)
(* first step selected and the status in its database; two runs that agree *)
(* in that and lie in the same directory are one.  A merge (module Merger) *)
(* is one step here.                                                       *)
(***************************************************************************)
EXTENDS Naturals, FiniteSets

CONSTANTS
  Callers,     \* processes or goroutines, each in one command at a time
  Commands,    \* Commands[c]: what c runs, of process, search, run and status
  Files,
  Extension,   \* Extension[f]: the extension of its name
  Magic,       \* Magic[f]: its first bytes, "pdf", "zip" or "other"
  Types,       \* MIME types
  SystemTypes, \* what package mime knows: from some extensions to types
  ExtMap,      \* the table of detectMimeType, likewise
  DefaultMap,  \* defaultWorkflowMap, from some types to workflows
  Workflows,   \* the chunking workflows
  Searching,   \* the workflow search_v1
  Failing,     \* the workflows that are not active or whose steps cannot be executed: every
               \* one with a step whose output is _output, which is all that the tree ships
  Writing,     \* the workflows whose own statements insert rows for their files into _output
  Selects,     \* Selects[w]: the types in the predicate of w's first step
  Barren,      \* files in which such a workflow finds nothing to chunk
  Limit,       \* the LIMIT of ProcessPending's query, 100
  Remaps,      \* the calls of SetWorkflowMapping, as pairs of a type and a workflow
  MaxEvents    \* how many of them are made and how many faults happen, together

Purposes == {"process", "search", "run"}
Runs == [for : Purposes, of : Workflows \cup {Searching}, reads : SUBSET Files,
         status : {"running", "completed", "failed"}]

(* detectMimeType: the platform's table, then its own, then the bytes. *)
DetectMimeType(ext, magic) ==
  CASE ext \in DOMAIN SystemTypes -> SystemTypes[ext]
    [] ext \notin DOMAIN SystemTypes /\ ext \in DOMAIN ExtMap -> ExtMap[ext]
    [] OTHER -> CASE magic = "pdf" -> "pdf"
                  [] magic = "zip" /\ ext \in {"docx", "xlsx"} -> ext
                  [] magic = "zip" /\ ext \notin {"docx", "xlsx"} -> "zip"
                  [] OTHER -> "octet-stream"

TypeOf == [f \in Files |-> DetectMimeType(Extension[f], Magic[f])]

(* Those that run `process' again and again. *)
Regular == {c \in Callers : Commands[c] = {"process"}}

ASSUME CallersAssumption == Commands \in [Callers -> SUBSET {"process", "search", "run", "status"}]
ASSUME FilesAssumption == IsFiniteSet(Files) /\ Barren \subseteq Files /\ TypeOf \in [Files -> Types]
ASSUME WorkflowsAssumption ==
  /\ DOMAIN DefaultMap \subseteq Types /\ DefaultMap \in [DOMAIN DefaultMap -> Workflows]
  /\ Selects \in [Workflows -> SUBSET Types]
  /\ Remaps \subseteq Types \X Workflows
  /\ Searching \notin Workflows /\ Failing \subseteq Workflows \cup {Searching}
  /\ Writing \subseteq Workflows
ASSUME BoundsAssumption == Limit \in Nat \ {0} /\ MaxEvents \in Nat

VARIABLES
  files,    \* the status in raw_files, or "absent"
  mapping,  \* Orchestrator.workflowMap, from some types to workflows
  changes,  \* how many calls of SetWorkflowMapping there were
  stranded, \* what completed runs in runs/ are for that were to be queued or read, and never will
  queue,    \* the runs in queue/pending/
  wedged,   \* whether the merger's alias is attached for good, so that every merge fails
  pc,       \* where each caller is
  batch,    \* the pending files it has not grouped
  groups,   \* workflowFiles: the files it asks of a workflow
  todo,     \* the workflows it has not run
  current,  \* the run it executes
  known,    \* the files there were when its `status' began
  counted,  \* the files its `status' has counted
  remapped, \* the types mapped anew since its query of the pending files
  faults    \* how many faults there were

lookups == <<batch, groups, remapped>>
counts == <<known, counted>>
merging == <<queue, wedged>>
vars == <<files, mapping, changes, stranded, merging, pc, lookups, todo, current, counts, faults>>

Working == {"started", "selected", "rename", "results"}
Steps == {"idle", "group", "loop", "count", "told"} \cup Working

Maps == UNION {[D -> Workflows] : D \in SUBSET Types}

Nothing == [w \in Workflows |-> {}]
Run(purpose, w) == [for |-> purpose, of |-> w, reads |-> {}, status |-> "running"]
NoRun == Run("search", Searching)

TypeOK ==
  /\ files \in [Files -> {"absent", "pending", "vectorized"}]
  /\ mapping \in Maps /\ changes \in 0 .. MaxEvents
  /\ stranded \subseteq Purposes /\ queue \subseteq Runs /\ wedged \in BOOLEAN
  /\ pc \in [Callers -> Steps]
  /\ batch \in [Callers -> SUBSET Files]
  /\ groups \in [Callers -> [Workflows -> SUBSET Files]]
  /\ todo \in [Callers -> SUBSET Workflows]
  /\ current \in [Callers -> Runs]
  /\ known \in [Callers -> SUBSET Files] /\ counted \in [Callers -> SUBSET Files]
  /\ remapped \in [Callers -> SUBSET Types]
  /\ faults \in 0 .. MaxEvents

Each(x) == [c \in Callers |-> x]

Init ==
  /\ files = [f \in Files |-> "absent"]
  /\ mapping = DefaultMap /\ changes = 0
  /\ stranded = {} /\ queue = {} /\ wedged = FALSE
  /\ pc = Each("idle")
  /\ batch = Each({}) /\ groups = Each(Nothing) /\ remapped = Each({})
  /\ todo = Each({}) /\ current = Each(NoRun)
  /\ known = Each({}) /\ counted = Each({})
  /\ faults = 0

-----------------------------------------------------------------------------
Suffer == changes + faults < MaxEvents /\ faults' = faults + 1

Goto(c, step) == pc' = [pc EXCEPT ![c] = step]

Calls(c, command) == pc[c] = "idle" /\ command \in Commands[c]

With(status) == {f \in Files : files[f] = status}

(* Ingest of a file the corpus does not have; module Ingest. *)
Import(f) ==
  /\ files[f] = "absent" /\ files' = [files EXCEPT ![f] = "pending"]
  /\ UNCHANGED <<mapping, changes, stranded, merging, pc, lookups, todo, current, counts, faults>>

(* Under the lock, which the readers of the map do not take: a lookup next *)
(* to it finds the old or the new workflow, or ends the program (Crash).   *)
SetWorkflowMapping(t, w) ==
  /\ changes + faults < MaxEvents /\ changes' = changes + 1
  /\ mapping' = [u \in DOMAIN mapping \cup {t} |-> IF u = t THEN w ELSE mapping[u]]
  /\ remapped' = [c \in Callers |-> remapped[c] \cup IF pc[c] = "group" THEN {t} ELSE {}]
  /\ UNCHANGED <<files, stranded, merging, pc, batch, groups, todo, current, counts, faults>>

-----------------------------------------------------------------------------
(* Mistake: the query does not ask for the status. *)
OfAnyStatus == With("pending") \cup With("vectorized")

Candidates == With("pending")

(* What LIMIT may give of them, in no order. *)
Page(b) == Cardinality(b) <= Limit /\ (b = Candidates \/ Cardinality(b) = Limit)

(* The query.  No error is asked for when its rows break off. *)
ProcessPending(c) ==
  /\ Calls(c, "process")
  /\ \E b \in SUBSET Candidates \ {{}} :
       /\ \/ Page(b) /\ UNCHANGED faults
          \/ Cardinality(b) <= Limit /\ Suffer
       /\ batch' = [batch EXCEPT ![c] = b]
  /\ Goto(c, "group")
  /\ UNCHANGED <<files, mapping, changes, stranded, merging, groups, remapped, todo, current, counts>>

(* Mistake: the files of a type without a workflow go to some workflow. *)
LookupUnchecked(c, f) ==
  /\ pc[c] = "group" /\ f \in batch[c]
  /\ \E w \in Workflows : groups' = [groups EXCEPT ![c][w] = @ \cup {f}]
  /\ batch' = [batch EXCEPT ![c] = @ \ {f}]
  /\ UNCHANGED <<files, mapping, changes, stranded, merging, pc, remapped, todo, current, counts, faults>>

(* One read of the map per file; a type without a workflow is passed over. *)
Lookup(c, f) ==
  /\ pc[c] = "group" /\ f \in batch[c]
  /\ \/ TypeOf[f] \in DOMAIN mapping /\ groups' = [groups EXCEPT ![c][mapping[TypeOf[f]]] = @ \cup {f}]
     \/ TypeOf[f] \notin DOMAIN mapping /\ UNCHANGED groups
  /\ batch' = [batch EXCEPT ![c] = @ \ {f}]
  /\ UNCHANGED <<files, mapping, changes, stranded, merging, pc, remapped, todo, current, counts, faults>>

(* What remains of the groups is which workflows have files: no step reads *)
(* the parameter file_ids that is made of them.                            *)
Grouped(c) ==
  /\ pc[c] = "group" /\ batch[c] = {}
  /\ todo' = [todo EXCEPT ![c] = {w \in Workflows : groups[c][w] # {}}]
  /\ groups' = [groups EXCEPT ![c] = Nothing]
  /\ remapped' = [remapped EXCEPT ![c] = {}]
  /\ Goto(c, "loop")
  /\ UNCHANGED <<files, mapping, changes, stranded, merging, batch, current, counts, faults>>

(* engine.Run for the next workflow, in the order of a map: none.  Its     *)
(* database is created, or an error comes before it.                       *)
RunWorkflow(c, w) ==
  /\ pc[c] = "loop" /\ w \in todo[c]
  /\ todo' = [todo EXCEPT ![c] = @ \ {w}]
  /\ \/ /\ current' = [current EXCEPT ![c] = Run("process", w)]
        /\ Goto(c, "started") /\ UNCHANGED faults
     \/ Suffer /\ UNCHANGED <<current, pc>>
  /\ UNCHANGED <<files, mapping, changes, stranded, merging, lookups, counts>>

(* The files a run is about are the pending ones its first step selects,   *)
(* when it does.                                                           *)
SelectFiles(c) ==
  /\ pc[c] = "started"
  /\ current' = [current EXCEPT ![c].reads =
                   {f \in With("pending") : TypeOf[f] \in Selects[current[c].of]}]
  /\ Goto(c, "selected")
  /\ UNCHANGED <<files, mapping, changes, stranded, merging, lookups, todo, counts, faults>>

After(purpose) == CASE purpose = "process" -> "rename" [] purpose = "search" -> "results" [] purpose = "run" -> "idle"

Lost(run) == run.for \in {"process", "search"} /\ run.status = "completed"

(* The caller is done with the run as it is, which stays in runs/.         *)
LeaveRun(c, run) ==
  /\ stranded' = IF Lost(run) THEN stranded \cup {run.for} ELSE stranded
  /\ current' = [current EXCEPT ![c] = NoRun]
  /\ Goto(c, IF run.for = "process" THEN "loop" ELSE "idle")

(* The last step is done; an error of the final status is ignored.  Each   *)
(* operation creates the table it writes, and _output is there from the    *)
(* start: a run completes when no step has it for its output.              *)
RunCompletes(c) ==
  /\ pc[c] = "selected" /\ current[c].of \notin Failing
  /\ \E status \in {"completed", "running"} :
       LET run == [current[c] EXCEPT !.status = status]
       IN /\ \/ status = "completed" /\ UNCHANGED faults
             \/ status = "running" /\ Suffer
          /\ \/ /\ run.for \in {"process", "search"}
                /\ current' = [current EXCEPT ![c] = run]
                /\ Goto(c, After(run.for)) /\ UNCHANGED stranded
             \/ run.for = "run" /\ LeaveRun(c, run)
  /\ UNCHANGED <<files, mapping, changes, merging, lookups, todo, counts>>

Doomed(run) == run.of \in Failing \/ run.reads = {}

(* Mistake: after an error of the engine the run is queued all the same. *)
RunFailsUnnoticed(c) ==
  /\ pc[c] \in {"started", "selected"}
  /\ \/ pc[c] = "selected" /\ Doomed(current[c]) /\ UNCHANGED faults
     \/ Suffer
  /\ current' = [current EXCEPT ![c].status = "failed"]
  /\ Goto(c, After(current[c].for))
  /\ UNCHANGED <<files, mapping, changes, stranded, merging, lookups, todo, counts>>

(* engine.Run returns an error, also for want of rows (on_empty = fail);   *)
(* the status says so unless that write fails too.                         *)
RunFails(c) ==
  /\ pc[c] \in {"started", "selected"}
  /\ \/ pc[c] = "selected" /\ Doomed(current[c]) /\ UNCHANGED faults
     \/ Suffer
  /\ \E status \in {"failed", "running"} : LeaveRun(c, [current[c] EXCEPT !.status = status])
  /\ UNCHANGED <<files, mapping, changes, merging, lookups, todo, counts>>

(* os.Rename to queue/pending; its error is printed. *)
Enqueue(c) ==
  /\ pc[c] = "rename"
  /\ \/ /\ queue' = queue \cup {current[c]}
        /\ current' = [current EXCEPT ![c] = NoRun]
        /\ Goto(c, "loop") /\ UNCHANGED <<stranded, faults>>
     \/ Suffer /\ LeaveRun(c, current[c]) /\ UNCHANGED queue
  /\ UNCHANGED <<files, mapping, changes, wedged, lookups, todo, counts>>

(* The command counts the queue and merges nothing of it. *)
ProcessReturns(c) ==
  /\ pc[c] = "loop" /\ todo[c] = {}
  /\ Goto(c, "idle")
  /\ UNCHANGED <<files, mapping, changes, stranded, merging, lookups, todo, current, counts, faults>>

(* A signal: the runs that are not begun fail before they have a database. *)
Cancel(c) ==
  /\ todo[c] # {} /\ Suffer
  /\ todo' = [todo EXCEPT ![c] = {}]
  /\ UNCHANGED <<files, mapping, changes, stranded, merging, pc, lookups, current, counts>>

-----------------------------------------------------------------------------
(* The other commands. *)
Search(c) ==
  /\ Calls(c, "search")
  /\ current' = [current EXCEPT ![c] = Run("search", Searching)]
  /\ Goto(c, "selected")
  /\ UNCHANGED <<files, mapping, changes, stranded, merging, lookups, todo, counts, faults>>

(* The rows of _output are read and the run removed, but after an error.   *)
ReadResults(c) ==
  /\ pc[c] = "results"
  /\ \/ /\ current' = [current EXCEPT ![c] = NoRun]
        /\ Goto(c, "idle") /\ UNCHANGED <<stranded, faults>>
     \/ Suffer /\ LeaveRun(c, current[c])
  /\ UNCHANGED <<files, mapping, changes, merging, lookups, todo, counts>>

(* The command `run': what it selects matters to nobody, as its database   *)
(* stays in runs/.                                                         *)
CmdRun(c, w) ==
  /\ Calls(c, "run")
  /\ current' = [current EXCEPT ![c] = Run("run", w)]
  /\ Goto(c, "selected")
  /\ UNCHANGED <<files, mapping, changes, stranded, merging, lookups, todo, counts, faults>>

(* Mistake: the vectorized files are counted before the pending ones. *)
VectorizedFirst == <<"vectorized", "pending">>

CountOrder == <<"pending", "vectorized">>

(* Status counts with a query each, and an error leaves the count zero. *)
CountFirst(c) ==
  /\ Calls(c, "status")
  /\ known' = [known EXCEPT ![c] = With("pending") \cup With("vectorized")]
  /\ \/ counted' = [counted EXCEPT ![c] = With(CountOrder[1])] /\ UNCHANGED faults
     \/ counted' = [counted EXCEPT ![c] = {}] /\ Suffer
  /\ Goto(c, "count")
  /\ UNCHANGED <<files, mapping, changes, stranded, merging, lookups, todo, current>>

CountSecond(c) ==
  /\ pc[c] = "count"
  /\ \/ counted' = [counted EXCEPT ![c] = @ \cup With(CountOrder[2])] /\ UNCHANGED faults
     \/ UNCHANGED counted /\ Suffer
  /\ Goto(c, "told")
  /\ UNCHANGED <<files, mapping, changes, stranded, merging, lookups, todo, current, known>>

StatusReturns(c) ==
  /\ pc[c] = "told" /\ Goto(c, "idle")
  /\ known' = [known EXCEPT ![c] = {}] /\ counted' = [counted EXCEPT ![c] = {}]
  /\ UNCHANGED <<files, mapping, changes, stranded, merging, lookups, todo, current, faults>>

-----------------------------------------------------------------------------
(* The merger marks the files it finds in _output, which is empty unless   *)
(* the workflow's statements have filled it themselves.                    *)
Marked(r) == IF r.status = "completed" /\ r.of \in Writing THEN r.reads \ Barren ELSE {}

(* Mistake: a status the merger never sets. *)
MergeAsChunked(r) ==
  /\ r \in queue /\ queue' = queue \ {r}
  /\ ~wedged
  /\ files' = [f \in Files |-> IF f \in Marked(r) THEN "chunked" ELSE files[f]]
  /\ UNCHANGED <<mapping, changes, stranded, wedged, pc, lookups, todo, current, counts, faults>>

(* A run of the queue is merged whole or moved to failed/; module Merger.  *)
(* A fault may leave the alias in DB.attached, and then all are moved.     *)
Merge(r) ==
  /\ r \in queue /\ queue' = queue \ {r}
  /\ \/ /\ ~wedged
        /\ files' = [f \in Files |-> IF f \in Marked(r) THEN "vectorized" ELSE files[f]]
        /\ \/ UNCHANGED <<wedged, faults>>
           \/ Suffer /\ wedged' = TRUE
     \/ wedged /\ UNCHANGED <<files, wedged, faults>>
     \/ Suffer /\ wedged' \in {wedged, TRUE} /\ UNCHANGED files
  /\ UNCHANGED <<mapping, changes, stranded, pc, lookups, todo, current, counts>>

(* Only a new process has an empty DB.attached. *)
RestartMerger ==
  /\ wedged /\ wedged' = FALSE
  /\ UNCHANGED <<files, mapping, changes, stranded, queue, pc, lookups, todo, current, counts, faults>>

(* The program of the callers dies, and knows only the default map again. *)
Crash ==
  /\ Suffer
  /\ stranded' = stranded \cup {p \in Purposes : \E c \in Callers : Lost(current[c]) /\ current[c].for = p}
  /\ mapping' = DefaultMap
  /\ pc' = Each("idle")
  /\ batch' = Each({}) /\ groups' = Each(Nothing) /\ remapped' = Each({})
  /\ todo' = Each({}) /\ current' = Each(NoRun)
  /\ known' = Each({}) /\ counted' = Each({})
  /\ UNCHANGED <<files, changes, merging>>

Begin(c) == Search(c) \/ CountFirst(c) \/ \E w \in Workflows : CmdRun(c, w)

Continue(c) ==
  \/ (\E f \in Files : Lookup(c, f)) \/ Grouped(c) \/ (\E w \in Workflows : RunWorkflow(c, w))
  \/ SelectFiles(c) \/ RunCompletes(c) \/ RunFails(c) \/ Enqueue(c) \/ ProcessReturns(c)
  \/ ReadResults(c) \/ CountSecond(c) \/ StatusReturns(c)

Next ==
  \/ \E f \in Files : Import(f)
  \/ \E m \in Remaps : SetWorkflowMapping(m[1], m[2])
  \/ \E c \in Callers : ProcessPending(c) \/ Begin(c) \/ Continue(c) \/ Cancel(c)
  \/ \E r \in queue : Merge(r)
  \/ RestartMerger \/ Crash

Spec == Init /\ [][Next]_vars

(* A call goes on.  The rest is asked of whoever uses the package, since   *)
(* nothing in the tree does it: that the regular callers call again, that  *)
(* the merger runs and comes to what is queued (QueueDrains of module      *)
(* Merger), and that it does not stay wedged.                              *)
FairSpec ==
  /\ Spec
  /\ \A c \in Callers : WF_vars(Continue(c))
  /\ \A c \in Regular : WF_vars(ProcessPending(c))
  /\ \A f \in Files : WF_vars(\E r \in queue : f \in Marked(r) /\ Merge(r))
  /\ WF_vars(RestartMerger)

-----------------------------------------------------------------------------
(* A file is asked of one workflow, of the one its type is mapped to, also *)
(* when SetWorkflowMapping changes the map between two lookups of the call *)
(* (unless it changes this type).                                          *)
AskedOfOne ==
  \A c \in Callers, w \in Workflows : \A f \in groups[c][w] :
    /\ f \notin batch[c] /\ \A v \in Workflows \ {w} : f \notin groups[c][v]
    /\ TypeOf[f] \notin remapped[c] => TypeOf[f] \in DOMAIN mapping /\ mapping[TypeOf[f]] = w

NoFault == faults = 0

(* The queue has runs of ProcessPending that did not fail, and a completed *)
(* run of it or of a search is left in runs/, where nobody looks, only     *)
(* after an error or a crash.                                              *)
RunsInPlace ==
  /\ \A r \in queue : r.for = "process" /\ r.status # "failed" /\ (NoFault => r.status = "completed")
  /\ NoFault => stranded = {}

(* The numbers of `status' are of different moments, but miss no file that *)
(* was there when it began.                                                *)
StatusMissesNone ==
  NoFault => \A c \in Callers : pc[c] = "told" => known[c] \subseteq counted[c]

(* Why they hold: the groups are of the query a caller is at, a run about  *)
(* to be queued did not fail, and a file the second query of `status' has  *)
(* yet to count was counted by the first or is vectorized by now.          *)
Grouping(c) == pc[c] # "group" => batch[c] = {} /\ groups[c] = Nothing /\ remapped[c] = {}

Executing(c) ==
  /\ pc[c] = "rename" => current[c].for = "process" /\ current[c].status # "failed"
  /\ pc[c] \in {"rename", "results"} /\ NoFault => current[c].status = "completed"

Counting(c) == pc[c] = "count" /\ NoFault => known[c] \subseteq counted[c] \cup With("vectorized")

CallInv == \A c \in Callers : Grouping(c) /\ Executing(c) /\ Counting(c)

PipelineInv == TypeOK /\ CallInv /\ AskedOfOne /\ RunsInPlace /\ StatusMissesNone

(* ProcessPending and the merger together can make a file vectorized: its  *)
(* type has a workflow that selects it, completes and fills _output.  No   *)
(* workflow of the tree is one.                                            *)
Processable(f) ==
  /\ TypeOf[f] \in DOMAIN mapping /\ f \notin Barren
  /\ mapping[TypeOf[f]] \in Writing \ Failing /\ TypeOf[f] \in Selects[mapping[TypeOf[f]]]

Stuck == {f \in With("pending") : ~Processable(f)}

(* A file whose workflow fills _output gets through, whatever failed,      *)
(* crashed, stayed in runs/ or met a wedged merger before, as long as the  *)
(* files that never do are fewer than ProcessPending looks at, somebody    *)
(* calls it again and again and somebody keeps a merger running.           *)
Processed ==
  \A f \in Files :
    <>[](Processable(f) /\ Cardinality(Stuck) < Limit) =>
      [](files[f] = "pending" => <>(files[f] = "vectorized"))

=============================================================================
