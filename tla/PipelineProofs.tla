--------------------------- MODULE PipelineProofs ---------------------------
(***************************************************************************)
(* What the data directory keeps for any callers, files, types, workflows  *)
(* and faults.                                                             *)
(***************************************************************************)
EXTENDS Pipeline, TLAPS

LEMMA MapsAre == ASSUME NEW m PROVE m \in Maps <=> DOMAIN m \subseteq Types /\ m \in [DOMAIN m -> Workflows]
BY DEF Maps

LEMMA RunType == ASSUME NEW p \in Purposes, NEW w \in Workflows \cup {Searching} PROVE Run(p, w) \in Runs
BY DEF Run, Runs

LEMMA InitPipeline == Init => PipelineInv
<1>. SUFFICES ASSUME Init PROVE PipelineInv
  OBVIOUS
<1>1. mapping \in Maps
  BY MapsAre, WorkflowsAssumption DEF Init
<1>2. NoRun \in Runs
  BY RunType DEF NoRun, Purposes
<1>3. TypeOK
  <2>1. wedged \in BOOLEAN
    BY DEF Init
  <2>. QED BY <1>1, <1>2, <2>1, BoundsAssumption DEF Init, TypeOK, Each, Steps, Nothing
<1>4. CallInv /\ AskedOfOne /\ RunsInPlace /\ StatusMissesNone
  BY DEF Init, Each, Nothing, CallInv, Grouping, Executing, Counting, AskedOfOne, RunsInPlace, StatusMissesNone
<1>. QED BY <1>3, <1>4 DEF PipelineInv

LEMMA TypeNext == PipelineInv /\ [Next]_vars => TypeOK'
<1>. SUFFICES ASSUME TypeOK, [Next]_vars PROVE TypeOK'
  BY DEF PipelineInv
<1>. USE DEF TypeOK, Goto, Calls, Steps, Working, lookups, counts, merging
<1>0. Suffer => faults' \in 0 .. MaxEvents
  BY BoundsAssumption DEF Suffer
<1>1. NoRun \in Runs
  BY RunType DEF NoRun, Purposes
<1>2. \A r \in Runs, status \in {"running", "completed", "failed"}, b \in SUBSET Files :
        [r EXCEPT !.status = status] \in Runs /\ [r EXCEPT !.reads = b] \in Runs
  BY DEF Runs
<1>3. ASSUME NEW f \in Files, Import(f) PROVE TypeOK'
  BY <1>3 DEF Import
<1>4. ASSUME NEW m \in Remaps, SetWorkflowMapping(m[1], m[2]) PROVE TypeOK'
  <2>1. m[1] \in Types /\ m[2] \in Workflows
    BY WorkflowsAssumption
  <2>2. mapping' \in Maps
    <3>1. DOMAIN mapping \subseteq Types /\ mapping \in [DOMAIN mapping -> Workflows]
      BY MapsAre
    <3>2. DOMAIN mapping' = DOMAIN mapping \cup {m[1]} /\ mapping' \in [DOMAIN mapping' -> Workflows]
      BY <1>4, <2>1, <3>1 DEF SetWorkflowMapping
    <3>. QED BY <2>1, <3>1, <3>2, MapsAre
  <2>. QED BY <1>4, <2>1, <2>2, BoundsAssumption DEF SetWorkflowMapping
<1>5. ASSUME NEW c \in Callers, ProcessPending(c) PROVE TypeOK'
  BY <1>0, <1>5 DEF ProcessPending, Candidates, With
<1>6. ASSUME NEW c \in Callers, NEW f \in Files, Lookup(c, f) PROVE TypeOK'
  <2>1. TypeOf[f] \in DOMAIN mapping => mapping[TypeOf[f]] \in Workflows
    BY MapsAre
  <2>2. groups' \in [Callers -> [Workflows -> SUBSET Files]]
    <3>1. CASE UNCHANGED groups
      BY <3>1
    <3>2. CASE TypeOf[f] \in DOMAIN mapping /\ groups' = [groups EXCEPT ![c][mapping[TypeOf[f]]] = @ \cup {f}]
      BY <2>1, <3>2
    <3>. QED BY <1>6, <3>1, <3>2 DEF Lookup
  <2>. QED BY <1>6, <2>2 DEF Lookup
<1>7. ASSUME NEW c \in Callers, Grouped(c) PROVE TypeOK'
  BY <1>7 DEF Grouped, Nothing
<1>8. ASSUME NEW c \in Callers, NEW w \in Workflows, RunWorkflow(c, w) PROVE TypeOK'
  <2>1. Run("process", w) \in Runs
    BY RunType DEF Purposes
  <2>2. current' \in [Callers -> Runs] /\ pc' \in [Callers -> Steps] /\ faults' \in 0 .. MaxEvents
    BY ZenonT(40), <1>8, <2>1, <1>0 DEF RunWorkflow
  <2>. QED BY <1>8, <2>2 DEF RunWorkflow
<1>9. ASSUME NEW c \in Callers, SelectFiles(c) PROVE TypeOK'
  BY <1>2, <1>9 DEF SelectFiles, With
<1>10. ASSUME NEW c \in Callers, NEW r \in Runs, LeaveRun(c, r)
       PROVE  stranded' \subseteq Purposes /\ current' \in [Callers -> Runs] /\ pc' \in [Callers -> Steps]
  BY <1>1, <1>10 DEF LeaveRun, Runs
<1>11. ASSUME NEW c \in Callers, RunCompletes(c) PROVE TypeOK'
  <2>1. PICK status \in {"completed", "running"} :
          LET run == [current[c] EXCEPT !.status = status]
          IN /\ \/ status = "completed" /\ UNCHANGED faults
                \/ status = "running" /\ Suffer
             /\ \/ /\ run.for \in {"process", "search"}
                   /\ current' = [current EXCEPT ![c] = run]
                   /\ Goto(c, After(run.for)) /\ UNCHANGED stranded
                \/ run.for = "run" /\ LeaveRun(c, run)
    BY <1>11 DEF RunCompletes
  <2>. DEFINE run == [current[c] EXCEPT !.status = status]
  <2>2. run \in Runs /\ faults' \in 0 .. MaxEvents
    BY <1>2, <2>1, <1>0
  <2>3. stranded' \subseteq Purposes /\ current' \in [Callers -> Runs] /\ pc' \in [Callers -> Steps]
    BY ZenonT(40), <1>10, <2>1, <2>2 DEF After
  <2>. QED BY <1>11, <2>2, <2>3 DEF RunCompletes
<1>12. ASSUME NEW c \in Callers, RunFails(c) PROVE TypeOK'
  <2>1. PICK status \in {"failed", "running"} : LeaveRun(c, [current[c] EXCEPT !.status = status])
    BY <1>12 DEF RunFails
  <2>2. stranded' \subseteq Purposes /\ current' \in [Callers -> Runs] /\ pc' \in [Callers -> Steps]
    BY <1>2, <1>10, <2>1
  <2>. QED BY <1>12, <2>2, <1>0 DEF RunFails
<1>13. ASSUME NEW c \in Callers, Enqueue(c) \/ ReadResults(c) PROVE TypeOK'
  <2>1. stranded' \subseteq Purposes /\ current' \in [Callers -> Runs] /\ pc' \in [Callers -> Steps]
    BY ZenonT(40), <1>1, <1>10, <1>13 DEF Enqueue, ReadResults
  <2>. QED BY <1>13, <2>1, <1>0 DEF Enqueue, ReadResults
<1>14. ASSUME NEW c \in Callers, ProcessReturns(c) \/ Cancel(c) PROVE TypeOK'
  <2>1. CASE ProcessReturns(c)
    BY <2>1 DEF ProcessReturns
  <2>2. CASE Cancel(c)
    BY <2>2, <1>0 DEF Cancel
  <2>. QED BY <1>14, <2>1, <2>2
<1>15. ASSUME NEW c \in Callers, Search(c) PROVE TypeOK'
  <2>1. Run("search", Searching) \in Runs
    BY RunType DEF Purposes
  <2>. QED BY <1>15, <2>1 DEF Search
<1>20. ASSUME NEW c \in Callers, NEW w \in Workflows, CmdRun(c, w) PROVE TypeOK'
  <2>1. Run("run", w) \in Runs
    BY RunType DEF Purposes
  <2>. QED BY <1>20, <2>1 DEF CmdRun
<1>16. ASSUME NEW c \in Callers, CountFirst(c) \/ CountSecond(c) \/ StatusReturns(c) PROVE TypeOK'
  <2>1. CASE CountFirst(c)
    BY ZenonT(40), <2>1, <1>0 DEF CountFirst, With
  <2>2. CASE CountSecond(c)
    BY <2>2, <1>0 DEF CountSecond, With
  <2>3. CASE StatusReturns(c)
    BY <2>3 DEF StatusReturns
  <2>. QED BY <1>16, <2>1, <2>2, <2>3
<1>17. ASSUME NEW r \in queue, Merge(r) PROVE TypeOK'
  BY <1>17, <1>0 DEF Merge, Runs
<1>21. ASSUME RestartMerger PROVE TypeOK'
  BY <1>21 DEF RestartMerger
<1>18. ASSUME Crash PROVE TypeOK'
  <2>1. mapping' \in Maps
    BY <1>18, MapsAre, WorkflowsAssumption DEF Crash
  <2>. QED BY <1>1, <1>18, <2>1, <1>0 DEF Crash, Each, Nothing
<1>19. CASE UNCHANGED vars
  BY <1>19 DEF vars
<1>. QED BY <1>3, <1>4, <1>5, <1>6, <1>7, <1>8, <1>9, <1>11, <1>12, <1>13, <1>14, <1>15, <1>16, <1>17, <1>18, <1>19, <1>20,
            <1>21 DEF Next, Begin, Continue

-----------------------------------------------------------------------------
(* The groups are disjoint because a lookup takes its file out of the      *)
(* batch.                                                                  *)
LEMMA GroupsNext == PipelineInv /\ [Next]_vars => AskedOfOne' /\ \A c \in Callers : Grouping(c)'
<1>. DEFINE Groups == AskedOfOne /\ \A c \in Callers : Grouping(c)
<1>. SUFFICES ASSUME TypeOK, AskedOfOne, \A c \in Callers : Grouping(c), [Next]_vars PROVE Groups'
  BY DEF PipelineInv, CallInv
<1>1. ASSUME UNCHANGED <<lookups, mapping>>, \A c \in Callers : pc[c] = "group" => pc'[c] = "group"
      PROVE  Groups'
  BY <1>1 DEF AskedOfOne, Grouping, lookups
<1>2. ASSUME NEW c \in Callers, NEW step, step # "group", pc[c] # "group" \/ UNCHANGED pc, UNCHANGED <<lookups, mapping>>,
             UNCHANGED pc \/ Goto(c, step)
      PROVE  Groups'
  BY <1>1, <1>2 DEF Goto, TypeOK
<1>3. ASSUME NEW f \in Files, Import(f) PROVE Groups'
  BY <1>1, <1>3 DEF Import
<1>4. ASSUME NEW m \in Remaps, SetWorkflowMapping(m[1], m[2]) PROVE Groups'
  <2>1. \A c \in Callers : Grouping(c)'
    BY <1>4 DEF SetWorkflowMapping, Grouping
  <2>2. \A t \in DOMAIN mapping \ {m[1]} : t \in DOMAIN mapping' /\ mapping'[t] = mapping[t]
    BY <1>4 DEF SetWorkflowMapping
  <2>3. ASSUME NEW c \in Callers, NEW w \in Workflows, NEW f \in groups[c][w], TypeOf[f] \notin remapped'[c]
        PROVE  TypeOf[f] \in DOMAIN mapping' /\ mapping'[TypeOf[f]] = w
    <3>1. pc[c] = "group"
      BY <2>3 DEF Grouping, Nothing
    <3>2. remapped'[c] = remapped[c] \cup {m[1]}
      BY <1>4, <3>1 DEF SetWorkflowMapping
    <3>. QED BY <2>2, <2>3, <3>2 DEF AskedOfOne
  <2>4. UNCHANGED <<batch, groups>>
    BY <1>4 DEF SetWorkflowMapping
  <2>5. AskedOfOne'
    BY <2>3, <2>4 DEF AskedOfOne
  <2>. QED BY <2>1, <2>5
<1>5. ASSUME NEW c \in Callers, ProcessPending(c) PROVE Groups'
  <2>1. groups[c] = Nothing /\ UNCHANGED <<groups, remapped, mapping>> /\ pc'[c] = "group"
    BY <1>5 DEF ProcessPending, Calls, Grouping, Goto, TypeOK
  <2>2. \A d \in Callers \ {c} : batch'[d] = batch[d] /\ pc'[d] = pc[d]
    BY <1>5 DEF ProcessPending, Goto, TypeOK
  <2>3. \A d \in Callers : Grouping(d)'
    BY <2>1, <2>2 DEF Grouping
  <2>4. \A w \in Workflows : groups'[c][w] = {}
    BY <2>1 DEF Nothing
  <2>5. AskedOfOne'
    <3>. SUFFICES ASSUME NEW d \in Callers, NEW w \in Workflows, NEW f \in groups'[d][w]
                  PROVE  /\ f \notin batch'[d] /\ \A v \in Workflows \ {w} : f \notin groups'[d][v]
                         /\ TypeOf[f] \notin remapped'[d] =>
                              TypeOf[f] \in DOMAIN mapping' /\ mapping'[TypeOf[f]] = w
      BY DEF AskedOfOne
    <3>1. d # c /\ batch'[d] = batch[d]
      BY <2>2, <2>4
    <3>. QED BY <2>1, <3>1 DEF AskedOfOne
  <2>. QED BY <2>3, <2>5
<1>6. ASSUME NEW c \in Callers, NEW f \in Files, Lookup(c, f) PROVE Groups'
  <2>1. /\ pc[c] = "group" /\ f \in batch[c] /\ UNCHANGED <<pc, remapped, mapping>>
        /\ batch' = [batch EXCEPT ![c] = @ \ {f}]
    BY <1>6 DEF Lookup
  <2>2. \A c1 \in Callers : Grouping(c1)'
    BY <1>6, <2>1 DEF Lookup, Grouping, TypeOK
  <2>3. CASE UNCHANGED groups
    BY <2>1, <2>2, <2>3 DEF AskedOfOne, TypeOK
  <2>4. CASE TypeOf[f] \in DOMAIN mapping /\ groups' = [groups EXCEPT ![c][mapping[TypeOf[f]]] = @ \cup {f}]
    <3>. DEFINE v == mapping[TypeOf[f]]
    <3>1. v \in Workflows
      BY <2>4, MapsAre DEF TypeOK
    <3>2. \A w \in Workflows : groups'[c][w] = IF w = v THEN groups[c][w] \cup {f} ELSE groups[c][w]
      BY <2>4, <3>1 DEF TypeOK
    <3>3. \A d \in Callers \ {c} : groups'[d] = groups[d] /\ batch'[d] = batch[d]
      BY <2>1, <2>4 DEF TypeOK
    <3>4. batch'[c] = batch[c] \ {f} /\ \A w \in Workflows : f \notin groups[c][w]
      BY <2>1 DEF AskedOfOne, TypeOK
    <3>5. AskedOfOne'
      BY <2>1, <2>4, <3>1, <3>2, <3>3, <3>4 DEF AskedOfOne
    <3>. QED BY <2>2, <3>5
  <2>. QED BY <1>6, <2>3, <2>4 DEF Lookup
<1>7. ASSUME NEW c \in Callers, Grouped(c) PROVE Groups'
  <2>1. /\ groups'[c] = Nothing /\ remapped'[c] = {} /\ batch'[c] = {} /\ UNCHANGED mapping
        /\ \A d \in Callers \ {c} : /\ groups'[d] = groups[d] /\ remapped'[d] = remapped[d]
                                     /\ batch'[d] = batch[d] /\ pc'[d] = pc[d]
    BY <1>7 DEF Grouped, Goto, TypeOK
  <2>2. \A w \in Workflows : groups'[c][w] = {}
    BY <2>1 DEF Nothing
  <2>3. AskedOfOne'
    BY <2>1, <2>2 DEF AskedOfOne
  <2>4. \A d \in Callers : Grouping(d)'
    BY <2>1 DEF Grouping
  <2>. QED BY <2>3, <2>4
<1>8. ASSUME Crash PROVE Groups'
  BY <1>8 DEF Crash, Each, AskedOfOne, Grouping, Nothing
<1>9. ASSUME NEW c \in Callers, NEW w \in Workflows, RunWorkflow(c, w) PROVE Groups'
  BY <1>2, <1>9 DEF RunWorkflow
<1>10. ASSUME NEW c \in Callers, SelectFiles(c) \/ ProcessReturns(c) \/ Search(c) PROVE Groups'
  BY <1>2, <1>10 DEF SelectFiles, ProcessReturns, Search, Calls
<1>11. ASSUME NEW c \in Callers, NEW w \in Workflows, CmdRun(c, w) PROVE Groups'
  BY <1>2, <1>11 DEF CmdRun, Calls
<1>12. ASSUME NEW c \in Callers, RunCompletes(c) PROVE Groups'
  <2>1. \E step : step # "group" /\ Goto(c, step)
    BY <1>12 DEF RunCompletes, LeaveRun, After
  <2>. QED BY <1>2, <1>12, <2>1 DEF RunCompletes
<1>13. ASSUME NEW c \in Callers, RunFails(c) PROVE Groups'
  <2>1. \E step : step # "group" /\ Goto(c, step)
    BY <1>13 DEF RunFails, LeaveRun
  <2>. QED BY <1>2, <1>13, <2>1 DEF RunFails
<1>14. ASSUME NEW c \in Callers, Enqueue(c) \/ ReadResults(c) PROVE Groups'
  <2>1. \E step : step # "group" /\ Goto(c, step)
    BY <1>14 DEF Enqueue, ReadResults, LeaveRun
  <2>. QED BY <1>2, <1>14, <2>1 DEF Enqueue, ReadResults
<1>15. ASSUME NEW c \in Callers, Cancel(c) PROVE Groups'
  BY <1>1, <1>15 DEF Cancel
<1>16. ASSUME NEW c \in Callers, CountFirst(c) \/ CountSecond(c) \/ StatusReturns(c) PROVE Groups'
  BY <1>2, <1>16 DEF CountFirst, CountSecond, StatusReturns, Calls
<1>17. ASSUME NEW r \in queue, Merge(r) PROVE Groups'
  BY <1>1, <1>17 DEF Merge
<1>19. ASSUME RestartMerger PROVE Groups'
  BY <1>1, <1>19 DEF RestartMerger
<1>18. CASE UNCHANGED vars
  BY <1>1, <1>18 DEF vars
<1>. QED BY <1>3, <1>4, <1>5, <1>6, <1>7, <1>8, <1>9, <1>10, <1>11, <1>12, <1>13, <1>14, <1>15, <1>16, <1>17, <1>18, <1>19
         DEF Next, Begin, Continue

-----------------------------------------------------------------------------
(* A run reaches the queue by a rename after an engine.Run without error,  *)
(* and one that is lost on the way is lost by a fault.                     *)
LEMMA RunsNext == PipelineInv /\ [Next]_vars => RunsInPlace' /\ \A c \in Callers : Executing(c)'
<1>. DEFINE Placed == RunsInPlace /\ \A c \in Callers : Executing(c)
<1>. SUFFICES ASSUME TypeOK, RunsInPlace, \A c \in Callers : Executing(c), [Next]_vars PROVE Placed'
  BY DEF PipelineInv, CallInv
<1>0. (Suffer => ~NoFault') /\ (UNCHANGED faults => NoFault' = NoFault)
  BY DEF Suffer, NoFault, TypeOK
(* Whoever moves its callers only away from a rename or from results.      *)
<1>1. ASSUME \A d \in Callers : pc'[d] \in {"rename", "results"} => pc'[d] = pc[d] /\ current'[d] = current[d],
             queue' \subseteq queue, NoFault' => stranded' = stranded, UNCHANGED faults \/ Suffer
      PROVE  Placed'
  BY <1>0, <1>1 DEF RunsInPlace, Executing
<1>2. ASSUME UNCHANGED <<pc, current, stranded>>, queue' \subseteq queue, UNCHANGED faults \/ Suffer PROVE Placed'
  BY <1>1, <1>2
<1>3. ASSUME NEW c \in Callers, NEW step \in Steps \ {"rename", "results"}, pc' = [pc EXCEPT ![c] = step],
             \A d \in Callers \ {c} : current'[d] = current[d], queue' \subseteq queue,
             NoFault' => stranded' = stranded, UNCHANGED faults \/ Suffer
      PROVE  Placed'
  BY <1>1, <1>3 DEF TypeOK
<1>. USE DEF Goto, merging
<1>4. ASSUME NEW f \in Files, Import(f) PROVE Placed'
  BY <1>2, <1>4 DEF Import
<1>5. ASSUME NEW m \in Remaps, SetWorkflowMapping(m[1], m[2]) PROVE Placed'
  BY <1>2, <1>5 DEF SetWorkflowMapping
<1>6. ASSUME NEW c \in Callers, ProcessPending(c) PROVE Placed'
  BY <1>3, <1>6 DEF ProcessPending, Steps
<1>7. ASSUME NEW c \in Callers, NEW f \in Files, Lookup(c, f) PROVE Placed'
  BY <1>2, <1>7 DEF Lookup
<1>8. ASSUME NEW c \in Callers, Grouped(c) \/ ProcessReturns(c) PROVE Placed'
  BY <1>3, <1>8 DEF Grouped, ProcessReturns, Steps
<1>9. ASSUME NEW c \in Callers, NEW w \in Workflows, RunWorkflow(c, w) PROVE Placed'
  <2>1. CASE Suffer /\ UNCHANGED <<current, pc>>
    BY <1>2, <1>9, <2>1 DEF RunWorkflow
  <2>2. CASE current' = [current EXCEPT ![c] = Run("process", w)] /\ Goto(c, "started") /\ UNCHANGED faults
    <3>1. \A d \in Callers \ {c} : current'[d] = current[d]
      BY <2>2 DEF TypeOK
    <3>. QED BY <1>3, <1>9, <2>2, <3>1 DEF RunWorkflow, Steps, Working
  <2>. QED BY <1>9, <2>1, <2>2 DEF RunWorkflow
<1>10. ASSUME NEW c \in Callers, SelectFiles(c) PROVE Placed'
  <2>1. \A d \in Callers \ {c} : current'[d] = current[d]
    BY <1>10 DEF SelectFiles, TypeOK
  <2>. QED BY <1>3, <1>10, <2>1 DEF SelectFiles, Steps, Working
<1>11. ASSUME NEW c \in Callers, NEW r, LeaveRun(c, r)
       PROVE  /\ \A d \in Callers \ {c} : current'[d] = current[d]
              /\ \E step \in Steps \ {"rename", "results"} : pc' = [pc EXCEPT ![c] = step]
              /\ ~Lost(r) => stranded' = stranded
  <2>1. \A d \in Callers \ {c} : current'[d] = current[d]
    BY <1>11 DEF LeaveRun, TypeOK
  <2>2. Goto(c, "loop") \/ Goto(c, "idle")
    BY <1>11 DEF LeaveRun
  <2>3. ~Lost(r) => stranded' = stranded
    BY <1>11 DEF LeaveRun
  <2>. QED BY <2>1, <2>2, <2>3 DEF Steps
<1>12. ASSUME NEW c \in Callers, RunCompletes(c) PROVE Placed'
  <2>1. PICK status \in {"completed", "running"} :
          LET run == [current[c] EXCEPT !.status = status]
          IN /\ \/ status = "completed" /\ UNCHANGED faults
                \/ status = "running" /\ Suffer
             /\ \/ /\ run.for \in {"process", "search"}
                   /\ current' = [current EXCEPT ![c] = run]
                   /\ Goto(c, After(run.for)) /\ UNCHANGED stranded
                \/ run.for = "run" /\ LeaveRun(c, run)
    BY <1>12 DEF RunCompletes
  <2>. DEFINE run == [current[c] EXCEPT !.status = status]
  <2>2. run.status = status /\ run.for = current[c].for /\ UNCHANGED queue
    BY <1>12 DEF RunCompletes, TypeOK, Runs
  <2>3. CASE run.for = "run" /\ LeaveRun(c, run)
    <3>1. ~Lost(run)
      BY <2>3 DEF Lost
    <3>. QED BY <1>3, <1>11, <2>1, <2>2, <2>3, <3>1
  <2>4. CASE run.for \in {"process", "search"} /\ current' = [current EXCEPT ![c] = run]
             /\ Goto(c, After(run.for)) /\ UNCHANGED stranded
    <3>1. pc'[c] \in {"rename", "results"} /\ (pc'[c] = "rename" => run.for = "process") /\ current'[c] = run
      BY <2>4 DEF After, TypeOK
    <3>2. \A d \in Callers \ {c} : pc'[d] = pc[d] /\ current'[d] = current[d]
      BY <2>4 DEF TypeOK
    <3>3. NoFault' => NoFault /\ status = "completed"
      BY <1>0, <2>1
    <3>. QED BY ZenonT(40), <2>2, <2>4, <3>1, <3>2, <3>3 DEF RunsInPlace, Executing
  <2>. QED BY <2>1, <2>3, <2>4
<1>13. ASSUME NEW c \in Callers, RunFails(c) PROVE Placed'
  <2>1. PICK status \in {"failed", "running"} : LeaveRun(c, [current[c] EXCEPT !.status = status])
    BY <1>13 DEF RunFails
  <2>2. ~Lost([current[c] EXCEPT !.status = status])
    BY DEF Lost, TypeOK, Runs
  <2>. QED BY <1>3, <1>11, <1>13, <2>1, <2>2 DEF RunFails
<1>14. ASSUME NEW c \in Callers, Enqueue(c) PROVE Placed'
  <2>1. CASE Suffer /\ LeaveRun(c, current[c]) /\ UNCHANGED queue
    BY <1>0, <1>3, <1>11, <2>1
  <2>2. CASE /\ queue' = queue \cup {current[c]} /\ current' = [current EXCEPT ![c] = NoRun]
             /\ Goto(c, "loop") /\ UNCHANGED <<stranded, faults>>
    <3>1. /\ current[c].for = "process" /\ current[c].status # "failed"
          /\ NoFault => current[c].status = "completed"
      BY <1>14 DEF Enqueue, Executing
    <3>2. pc'[c] = "loop" /\ \A d \in Callers \ {c} : pc'[d] = pc[d] /\ current'[d] = current[d]
      BY <2>2 DEF TypeOK
    <3>. QED BY <1>0, <2>2, <3>1, <3>2 DEF RunsInPlace, Executing
  <2>. QED BY <1>14, <2>1, <2>2 DEF Enqueue
<1>15. ASSUME NEW c \in Callers, ReadResults(c) PROVE Placed'
  <2>1. CASE Suffer /\ LeaveRun(c, current[c])
    BY <1>0, <1>3, <1>11, <1>15, <2>1 DEF ReadResults
  <2>2. CASE current' = [current EXCEPT ![c] = NoRun] /\ Goto(c, "idle") /\ UNCHANGED <<stranded, faults>>
    <3>1. \A d \in Callers \ {c} : current'[d] = current[d]
      BY <2>2 DEF TypeOK
    <3>. QED BY <1>3, <1>15, <2>2, <3>1 DEF ReadResults, Steps
  <2>. QED BY <1>15, <2>1, <2>2 DEF ReadResults
<1>16. ASSUME NEW c \in Callers, Cancel(c) PROVE Placed'
  BY <1>2, <1>16 DEF Cancel
<1>17. ASSUME NEW c \in Callers, NEW r, current' = [current EXCEPT ![c] = r], Goto(c, "selected"),
              UNCHANGED <<stranded, queue, faults>>
       PROVE  Placed'
  <2>1. \A d \in Callers \ {c} : current'[d] = current[d]
    BY <1>17 DEF TypeOK
  <2>. QED BY <1>3, <1>17, <2>1 DEF Steps, Working
<1>18. ASSUME NEW c \in Callers, Search(c) PROVE Placed'
  BY <1>17, <1>18 DEF Search
<1>19. ASSUME NEW c \in Callers, NEW w \in Workflows, CmdRun(c, w) PROVE Placed'
  BY <1>17, <1>19 DEF CmdRun
<1>20. ASSUME NEW c \in Callers, CountFirst(c) \/ CountSecond(c) \/ StatusReturns(c) PROVE Placed'
  <2>1. UNCHANGED <<current, stranded, queue>> /\ (UNCHANGED faults \/ Suffer)
    BY <1>20 DEF CountFirst, CountSecond, StatusReturns
  <2>2. \E step \in Steps \ {"rename", "results"} : pc' = [pc EXCEPT ![c] = step]
    BY <1>20 DEF CountFirst, CountSecond, StatusReturns, Steps
  <2>. QED BY <1>3, <2>1, <2>2
<1>21. ASSUME NEW r \in queue, Merge(r) PROVE Placed'
  BY <1>2, <1>21 DEF Merge
<1>22. ASSUME Crash PROVE Placed'
  <2>1. \A d \in Callers : pc'[d] = "idle"
    BY <1>22 DEF Crash, Each
  <2>. QED BY <1>0, <1>1, <1>22, <2>1 DEF Crash
<1>24. ASSUME RestartMerger PROVE Placed'
  BY <1>2, <1>24 DEF RestartMerger
<1>23. CASE UNCHANGED vars
  BY <1>2, <1>23 DEF vars
<1>. QED BY <1>4, <1>5, <1>6, <1>7, <1>8, <1>9, <1>10, <1>12, <1>13, <1>14, <1>15, <1>16, <1>18, <1>19, <1>20, <1>21,
            <1>22, <1>23, <1>24 DEF Next, Begin, Continue

-----------------------------------------------------------------------------
(* A file only ever goes from pending to vectorized, so the second query   *)
(* finds what left the first count.                                        *)
LEMMA CountsNext == PipelineInv /\ [Next]_vars => StatusMissesNone' /\ \A c \in Callers : Counting(c)'
<1>. DEFINE Seen == StatusMissesNone /\ \A c \in Callers : Counting(c)
<1>. SUFFICES ASSUME TypeOK, StatusMissesNone, \A c \in Callers : Counting(c), [Next]_vars PROVE Seen'
  BY DEF PipelineInv, CallInv
<1>0. (Suffer => ~NoFault') /\ (UNCHANGED faults => NoFault' = NoFault)
  BY DEF Suffer, NoFault, TypeOK
<1>. USE DEF Goto
(* A caller that is not in the middle of counting.                         *)
<1>1. ASSUME UNCHANGED <<known, counted>>, With("vectorized") \subseteq With("vectorized")',
             \A d \in Callers : pc'[d] \in {"count", "told"} => pc'[d] = pc[d], UNCHANGED faults \/ Suffer
      PROVE  Seen'
  BY <1>0, <1>1 DEF StatusMissesNone, Counting
<1>2. ASSUME UNCHANGED <<known, counted, files>>, NEW c \in Callers, NEW step \in Steps \ {"count", "told"},
             pc' = [pc EXCEPT ![c] = step], UNCHANGED faults \/ Suffer
      PROVE  Seen'
  <2>1. With("vectorized")' = With("vectorized")
    BY <1>2 DEF With
  <2>2. \A d \in Callers : pc'[d] \in {"count", "told"} => pc'[d] = pc[d]
    BY <1>2 DEF TypeOK
  <2>. QED BY <1>1, <1>2, <2>1, <2>2
<1>3. ASSUME UNCHANGED <<known, counted, pc, files>>, UNCHANGED faults \/ Suffer PROVE Seen'
  <2>1. With("vectorized")' = With("vectorized")
    BY <1>3 DEF With
  <2>. QED BY <1>1, <1>3, <2>1
<1>4. ASSUME NEW f \in Files, Import(f) PROVE Seen'
  <2>1. With("vectorized") \subseteq With("vectorized")'
    BY <1>4 DEF Import, With, TypeOK
  <2>. QED BY <1>1, <1>4, <2>1 DEF Import, counts
<1>5. ASSUME NEW m \in Remaps, SetWorkflowMapping(m[1], m[2]) PROVE Seen'
  BY <1>3, <1>5 DEF SetWorkflowMapping, counts
<1>6. ASSUME NEW c \in Callers, ProcessPending(c) PROVE Seen'
  BY <1>2, <1>6 DEF ProcessPending, Steps, counts
<1>7. ASSUME NEW c \in Callers, NEW f \in Files, Lookup(c, f) PROVE Seen'
  BY <1>3, <1>7 DEF Lookup, counts
<1>8. ASSUME NEW c \in Callers, Grouped(c) \/ ProcessReturns(c) \/ SelectFiles(c) \/ Search(c) PROVE Seen'
  BY <1>2, <1>8 DEF Grouped, ProcessReturns, SelectFiles, Search, Steps, Working, counts
<1>9. ASSUME NEW c \in Callers, NEW w \in Workflows, RunWorkflow(c, w) PROVE Seen'
  BY <1>2, <1>3, <1>9 DEF RunWorkflow, Steps, Working, counts
<1>10. ASSUME NEW c \in Callers, NEW w \in Workflows, CmdRun(c, w) PROVE Seen'
  BY <1>2, <1>10 DEF CmdRun, Steps, Working, counts
<1>11. ASSUME NEW c \in Callers, RunCompletes(c) PROVE Seen'
  <2>1. \E step \in Steps \ {"count", "told"} : pc' = [pc EXCEPT ![c] = step]
    BY <1>11 DEF RunCompletes, LeaveRun, After, Steps, Working
  <2>. QED BY <1>2, <1>11, <2>1 DEF RunCompletes, counts
<1>12. ASSUME NEW c \in Callers, RunFails(c) PROVE Seen'
  <2>1. \E step \in Steps \ {"count", "told"} : pc' = [pc EXCEPT ![c] = step]
    BY <1>12 DEF RunFails, LeaveRun, Steps
  <2>. QED BY <1>2, <1>12, <2>1 DEF RunFails, counts
<1>13. ASSUME NEW c \in Callers, Enqueue(c) \/ ReadResults(c) PROVE Seen'
  <2>1. \E step \in Steps \ {"count", "told"} : pc' = [pc EXCEPT ![c] = step]
    BY <1>13 DEF Enqueue, ReadResults, LeaveRun, Steps
  <2>. QED BY <1>2, <1>13, <2>1 DEF Enqueue, ReadResults, counts
<1>14. ASSUME NEW c \in Callers, Cancel(c) PROVE Seen'
  BY <1>3, <1>14 DEF Cancel, counts
<1>15. ASSUME NEW c \in Callers, CountFirst(c) PROVE Seen'
  <2>1. UNCHANGED files /\ pc'[c] = "count" /\ known'[c] = With("pending") \cup With("vectorized")
    BY <1>15 DEF CountFirst, TypeOK
  <2>2. NoFault' => NoFault /\ counted'[c] = With("pending")
    BY <1>0, <1>15 DEF CountFirst, CountOrder, TypeOK
  <2>3. \A d \in Callers \ {c} : pc'[d] = pc[d] /\ known'[d] = known[d] /\ counted'[d] = counted[d]
    BY <1>15 DEF CountFirst, TypeOK
  <2>4. With("vectorized")' = With("vectorized")
    BY <2>1 DEF With
  <2>. QED BY <2>1, <2>2, <2>3, <2>4 DEF StatusMissesNone, Counting
<1>16. ASSUME NEW c \in Callers, CountSecond(c) PROVE Seen'
  <2>1. pc[c] = "count" /\ UNCHANGED known /\ pc'[c] = "told" /\ With("vectorized")' = With("vectorized")
    BY <1>16 DEF CountSecond, With, TypeOK
  <2>2. NoFault' => NoFault /\ counted'[c] = counted[c] \cup With("vectorized")
    BY <1>0, <1>16 DEF CountSecond, CountOrder, TypeOK
  <2>3. \A d \in Callers \ {c} : pc'[d] = pc[d] /\ counted'[d] = counted[d]
    BY <1>16 DEF CountSecond, TypeOK
  <2>. QED BY <2>1, <2>2, <2>3 DEF StatusMissesNone, Counting
<1>17. ASSUME NEW c \in Callers, StatusReturns(c) PROVE Seen'
  <2>1. pc'[c] = "idle" /\ With("vectorized")' = With("vectorized") /\ UNCHANGED faults
    BY <1>17 DEF StatusReturns, With, TypeOK
  <2>2. \A d \in Callers \ {c} : pc'[d] = pc[d] /\ known'[d] = known[d] /\ counted'[d] = counted[d]
    BY <1>17 DEF StatusReturns, TypeOK
  <2>. QED BY <1>0, <2>1, <2>2 DEF StatusMissesNone, Counting
<1>18. ASSUME NEW r \in queue, Merge(r) PROVE Seen'
  <2>1. With("vectorized") \subseteq With("vectorized")'
    BY <1>18 DEF Merge, With, TypeOK
  <2>. QED BY <1>1, <1>18, <2>1 DEF Merge, counts
<1>19. ASSUME Crash PROVE Seen'
  <2>1. ~NoFault'
    BY <1>0, <1>19 DEF Crash
  <2>. QED BY <2>1 DEF StatusMissesNone, Counting
<1>21. ASSUME RestartMerger PROVE Seen'
  BY <1>3, <1>21 DEF RestartMerger, counts
<1>20. CASE UNCHANGED vars
  BY <1>3, <1>20 DEF vars, counts
<1>. QED BY <1>4, <1>5, <1>6, <1>7, <1>8, <1>9, <1>10, <1>11, <1>12, <1>13, <1>14, <1>15, <1>16, <1>17, <1>18, <1>19, <1>20,
            <1>21 DEF Next, Begin, Continue

-----------------------------------------------------------------------------
(* The invariant of the data directory.                                    *)
THEOREM InductivePipeline == Spec => []PipelineInv
<1>1. PipelineInv /\ [Next]_vars => PipelineInv'
  BY TypeNext, GroupsNext, RunsNext, CountsNext DEF PipelineInv, CallInv
<1>. QED BY InitPipeline, <1>1, PTL DEF Spec

(* Every file of a call is asked of one workflow, the one its type is      *)
(* mapped to (ProcessPending's grouping).                                  *)
THEOREM AskedOfOneHolds == Spec => []AskedOfOne
BY InductivePipeline, PTL DEF PipelineInv

(* What is queued was run by ProcessPending and did not fail, and nothing  *)
(* that completed is left behind but by a fault.                           *)
THEOREM RunsInPlaceHolds == Spec => []RunsInPlace
BY InductivePipeline, PTL DEF PipelineInv

(* `status' counts every file there was when it began.                     *)
THEOREM StatusMissesNoneHolds == Spec => []StatusMissesNone
BY InductivePipeline, PTL DEF PipelineInv

=============================================================================
