---------------------------- MODULE EngineProofs ----------------------------
(***************************************************************************)
(* What a run keeps for any workflows, builds, tables, faults and calls of *)
(* the loader.                                                             *)
(***************************************************************************)
EXTENDS Engine, SequenceTheorems, TLAPS

(* ReplaceAt and Append keep the type of the steps. *)
LEMMA PutStepType ==
  ASSUME NEW S, NEW s \in Seq(S), NEW k \in Nat \ {0}, NEW e \in S
  PROVE  PutStep(s, k, e) \in Seq(S)
BY DEF PutStep, ReplaceAt

LEMMA TypeStore ==
  ASSUME TypeOK, StoreNext
  PROVE  /\ status' \in [Workflows -> Status] /\ stored' \in [Workflows -> Seq(Step)]
         /\ loading' \in Seq(Workflows) /\ release' \in Versions /\ line' \in Nat
         /\ changes' \in Nat
<1>. USE FilesAssumption, StepsAssumption DEF TypeOK
<1>1. ASSUME loading # <<>>
      PROVE  /\ Head(loading) \in Workflows /\ Tail(loading) \in Seq(Workflows)
             /\ Scripted \in Seq(Step)
  BY <1>1 DEF Scripted
<1>2. ASSUME NEW v \in Versions, NEW files \in Files, StartLoad(v, files)
      PROVE  loading' \in Seq(Workflows) /\ release' \in Versions /\ line' \in Nat /\ changes' \in Nat
             /\ UNCHANGED <<status, stored>>
  BY <1>2 DEF StartLoad, Call
<1>3. CASE LoadWorkflowRow
  BY <1>3, <1>1 DEF LoadWorkflowRow, ReplaceWorkflow, Status
<1>4. CASE LoadStepRow
  <2>1. line \in Nat \ {0} /\ Scripted[line] \in Step
    BY <1>4, <1>1 DEF LoadStepRow
  <2>2. PutStep(stored[Head(loading)], line, Scripted[line]) \in Seq(Step)
    BY <2>1, <1>4, <1>1, PutStepType DEF LoadStepRow
  <2>. QED BY <2>2, <1>4, <1>1 DEF LoadStepRow
<1>0. <<>> \in Seq(Workflows) /\ <<>> \in Seq(Step)
  OBVIOUS
<1>5. CASE LoadTags
  BY <1>5, <1>1 DEF LoadTags
<1>8. CASE StopLoad
  BY <1>8, <1>0 DEF StopLoad
<1>6. ASSUME NEW w \in Workflows, ActivateWorkflow(w) \/ DeprecateWorkflow(w) \/ DeleteWorkflow(w)
      PROVE  status' \in [Workflows -> Status] /\ stored' \in [Workflows -> Seq(Step)] /\ changes' \in Nat
             /\ UNCHANGED <<loading, release, line>>
  <2>1. UNCHANGED <<loading, release, line>> /\ changes' \in Nat
    BY <1>6 DEF ActivateWorkflow, DeprecateWorkflow, DeleteWorkflow, Call
  <2>2. status' \in [Workflows -> Status]
    BY <1>6 DEF ActivateWorkflow, DeprecateWorkflow, DeleteWorkflow, Status, NoRow
  <2>3. stored' \in [Workflows -> Seq(Step)]
    BY <1>6, <1>0 DEF ActivateWorkflow, DeprecateWorkflow, DeleteWorkflow
  <2>. QED BY <2>1, <2>2, <2>3
<1>7. ASSUME NEW w \in Workflows, NEW new \in Workflows, CloneWorkflow(w, new)
      PROVE  status' \in [Workflows -> Status] /\ stored' \in [Workflows -> Seq(Step)] /\ changes' \in Nat
             /\ UNCHANGED <<loading, release, line>>
  BY <1>7 DEF CloneWorkflow, Call, Status
<1>. QED
  BY <1>2, <1>3, <1>4, <1>5, <1>6, <1>7, <1>8 DEF StoreNext

-----------------------------------------------------------------------------
(* Prefixes, element by element. *)
LEMMA PrefixElements ==
  ASSUME NEW S, NEW s \in Seq(S), NEW t \in Seq(S)
  PROVE  IsPrefix(s, t) <=> Len(s) <= Len(t) /\ \A i \in 1 .. Len(s) : s[i] = t[i]
<1>. SUFFICES ASSUME Len(s) <= Len(t)
              PROVE  SubSeq(s, 1, Len(s)) = SubSeq(t, 1, Len(s)) <=> \A i \in 1 .. Len(s) : s[i] = t[i]
  BY DEF IsPrefix
<1>. DEFINE u == SubSeq(s, 1, Len(s))  v == SubSeq(t, 1, Len(s))
<1>1. /\ u \in Seq(S) /\ Len(u) = Len(s) /\ \A i \in 1 .. Len(s) : u[i] = s[i]
      /\ v \in Seq(S) /\ Len(v) = Len(s) /\ \A i \in 1 .. Len(s) : v[i] = t[i]
  BY SubSeqProperties
<1>2. u = v <=> \A i \in 1 .. Len(s) : u[i] = v[i]
  BY <1>1, SeqEqual
<1>. QED BY <1>1, <1>2

LEMMA FirstStepsPrefix ==
  ASSUME NEW S, NEW s \in Seq(S), NEW n \in 0 .. Len(s)
  PROVE  SubSeq(s, 1, n) \in Seq(S) /\ IsPrefix(SubSeq(s, 1, n), s)
<1>. DEFINE t == SubSeq(s, 1, n)
<1>1. t \in Seq(S) /\ Len(t) = n /\ \A i \in 1 .. n : t[i] = s[i]
  BY SubSeqProperties
<1>. HIDE DEF t
<1>2. IsPrefix(t, s)
  BY <1>1, PrefixElements
<1>. QED BY <1>1, <1>2 DEF t

LEMMA OneMore ==
  ASSUME NEW S, NEW s \in Seq(S), NEW n \in 1 .. Len(s)
  PROVE  Append(SubSeq(s, 1, n - 1), s[n]) = SubSeq(s, 1, n)
<1>1. SubSeq(s, 1, n - 1) \in Seq(S) /\ s[n] \in S
  <2>1. \A i \in 1 .. n - 1 : s[i] \in S
    OBVIOUS
  <2>. QED BY <2>1, SubSeqProperties
<1>2. 1 \in 1 .. Len(s) /\ n \in 1 .. Len(s)
  OBVIOUS
<1>3. SubSeq(s, 1, n) = SubSeq(s, 1, n - 1) \o <<s[n]>>
  BY <1>2, SubSeqRecursiveSecond
<1>4. Append(SubSeq(s, 1, n - 1), s[n]) = SubSeq(s, 1, n - 1) \o <<s[n]>>
  BY <1>1, AppendIsConcat
<1>. QED BY <1>3, <1>4

LEMMA PrefixTransitive ==
  ASSUME NEW S, NEW s \in Seq(S), NEW t \in Seq(S), NEW u \in Seq(S), IsPrefix(s, t), IsPrefix(t, u)
  PROVE  IsPrefix(s, u)
BY PrefixElements

LEMMA DefinitionsType == Definitions \subseteq Seq(Step)
BY StepsAssumption DEF Definitions

(* Fewer steps of one definition are still steps of one definition. *)
LEMMA FewerSteps ==
  ASSUME NEW s \in Seq(Step), NEW t \in Seq(Step), IsPrefix(s, t), OfOneDefinition(t)
  PROVE  OfOneDefinition(s)
<1>1. PICK d \in Definitions : IsPrefix(t, d)
  BY DEF OfOneDefinition
<1>2. IsPrefix(s, d)
  BY <1>1, PrefixTransitive, DefinitionsType
<1>. QED BY <1>2 DEF OfOneDefinition

LEMMA NoSteps == OfOneDefinition(<<>>)
<1>1. PICK w \in Workflows : InitSteps[w] \in Seq(Step) /\ InitSteps[w] \in Definitions
  BY FilesAssumption, StepsAssumption DEF Definitions
<1>2. IsPrefix(<<>>, InitSteps[w])
  <2>1. SubSeq(<<>>, 1, 0) = <<>> /\ SubSeq(InitSteps[w], 1, 0) = <<>>
    BY SubSeqEmpty
  <2>. QED BY <1>1, <2>1 DEF IsPrefix
<1>. QED BY <1>1, <1>2 DEF OfOneDefinition

(* Whatever the loader does, each workflow has the first steps of one      *)
(* definition.                                                             *)
LEMMA StoreStep ==
  ASSUME TypeOK, StoreInv, StoreNext
  PROVE  StoreInv'
<1>. USE FilesAssumption, StepsAssumption, NoSteps DEF TypeOK
<1>1. ASSUME loading # <<>>
      PROVE  /\ Head(loading) \in Workflows /\ Tail(loading) \in Seq(Workflows)
             /\ Scripted \in Seq(Step) /\ Scripted \in Definitions
  BY <1>1 DEF Scripted, Definitions
<1>2. ASSUME NEW w, stored'[w] = stored[w] \/ stored'[w] = <<>>, OfOneDefinition(stored[w])
      PROVE  OfOneDefinition(stored'[w])
  BY <1>2
<1>3. ASSUME NEW v \in Versions, NEW files \in Files, StartLoad(v, files)
      PROVE  StoreInv'
  BY <1>3 DEF StartLoad, StoreInv
<1>4. CASE LoadWorkflowRow
  <2>1. SubSeq(Scripted, 1, 0) = <<>>
    BY <1>1, <1>4 DEF LoadWorkflowRow
  <2>2. Scripted' = Scripted
    BY <1>4 DEF LoadWorkflowRow, Scripted
  <2>. QED BY SMTT(30), <1>1, <1>2, <1>4, <2>1, <2>2 DEF LoadWorkflowRow, ReplaceWorkflow, StoreInv
<1>5. CASE LoadStepRow
  <2>. DEFINE h == Head(loading)
  <2>1. /\ loading # <<>> /\ h \in Workflows /\ line \in 1 .. Len(Scripted)
        /\ stored[h] = SubSeq(Scripted, 1, line - 1)
    BY <1>1, <1>5 DEF LoadStepRow, StoreInv
  <2>2. Len(stored[h]) = line - 1
    BY <2>1, <1>1, SubSeqProperties
  <2>3. stored' = [stored EXCEPT ![h] = Append(@, Scripted[line])]
    <3>1. PutStep(stored[h], line, Scripted[line]) = Append(stored[h], Scripted[line])
      BY <2>2, <2>1, <1>1 DEF PutStep
    <3>. QED BY <3>1, <1>5 DEF LoadStepRow
  <2>4. Append(stored[h], Scripted[line]) = SubSeq(Scripted, 1, line)
    BY <2>1, <1>1, OneMore
  <2>5. stored'[h] = SubSeq(Scripted, 1, line)
    BY <2>1, <2>3, <2>4
  <2>6. OfOneDefinition(stored'[h])
    BY <2>5, <2>1, <1>1, FirstStepsPrefix DEF OfOneDefinition
  <2>7. Scripted' = Scripted /\ line' = line + 1 /\ loading' = loading /\ status' = status
    BY <1>5 DEF LoadStepRow, Scripted
  <2>8. \A w \in Workflows : OfOneDefinition(stored'[w])
    BY <2>3, <2>6 DEF StoreInv
  <2>. QED BY <2>1, <2>5, <2>7, <2>8, <1>1 DEF StoreInv, Exists
<1>6. CASE LoadTags \/ StopLoad
  BY <1>6 DEF LoadTags, StopLoad, StoreInv
<1>7. ASSUME NEW w \in Workflows, ActivateWorkflow(w) \/ DeprecateWorkflow(w) \/ DeleteWorkflow(w)
      PROVE  StoreInv'
  <2>1. Scripted' = Scripted /\ line' = line /\ loading' = loading
    BY <1>7 DEF ActivateWorkflow, DeprecateWorkflow, DeleteWorkflow, Scripted
  <2>2. \A x \in Workflows : OfOneDefinition(stored'[x])
    BY <1>2, <1>7 DEF ActivateWorkflow, DeprecateWorkflow, DeleteWorkflow, StoreInv
  <2>3. \A x \in Workflows : Exists(x)' => Exists(x) /\ stored'[x] = stored[x]
    BY <1>7 DEF ActivateWorkflow, DeprecateWorkflow, DeleteWorkflow, Exists
  <2>. QED BY <2>1, <2>2, <2>3, <1>1 DEF StoreInv
<1>8. ASSUME NEW w \in Workflows, NEW new \in Workflows, CloneWorkflow(w, new)
      PROVE  StoreInv'
  <2>1. Scripted' = Scripted /\ line' = line /\ loading' = loading
    BY <1>8 DEF CloneWorkflow, Scripted
  <2>2. \A x \in Workflows : OfOneDefinition(stored'[x])
    BY <1>8 DEF CloneWorkflow, StoreInv
  <2>3. loading # <<>> => Head(loading) # new
    BY SMTT(30), <1>8 DEF CloneWorkflow, ToSet
  <2>4. \A x \in Workflows \ {new} : stored'[x] = stored[x] /\ Exists(x)' = Exists(x)
    BY <1>8 DEF CloneWorkflow, Exists
  <2>. QED BY <2>1, <2>2, <2>3, <2>4, <1>1 DEF StoreInv
<1>. QED
  BY <1>3, <1>4, <1>5, <1>6, <1>7, <1>8 DEF StoreNext

-----------------------------------------------------------------------------
(* The invariant, run by run. *)
Logged(r) ==
  /\ copied[r] <= Len(steps[r]) /\ Len(log[r]) <= Len(steps[r])
  /\ \A i \in DOMAIN log[r] :
       /\ tables[r][steps[r][i].output] # NoTable
       /\ pc[r] \in {"exec", "log"} /\ steps[r][i].onEmpty = "fail" => log[r][i].out > 0
       /\ log[r][i].out \in {0, tables[r][steps[r][i].output]}
       /\ ReadBy(r, i) # Corpus => log[r][i].in \in {0, tables[r][ReadBy(r, i)]}
       /\ MaxFaults = 0 => log[r][i].out = tables[r][steps[r][i].output]

Executed(r) == At(r, "log") =>
  LET i == Len(log[r]) + 1 IN
  /\ i <= Len(steps[r])
  /\ tables[r][steps[r][i].output] # NoTable
  /\ execution[r].out \in {0, tables[r][steps[r][i].output]}
  /\ ReadBy(r, i) # Corpus => execution[r].in \in {0, tables[r][ReadBy(r, i)]}
  /\ MaxFaults = 0 => execution[r].out = tables[r][steps[r][i].output]

Phase(r) ==
  /\ At(r, "steps") => workflow[r] \in Workflows
  /\ pc[r] \in {"off", "steps", "create", "meta"} => meta[r] = "none" /\ log[r] = <<>> /\ copied[r] = 0
  /\ pc[r] \in {"copy", "exec", "log", "fail"} => meta[r] = "running"
  /\ At(r, "copy") => log[r] = <<>>
  /\ pc[r] \in {"exec", "log", "fail"} => copied[r] = Len(steps[r])
  /\ meta[r] \in {"completed", "failed"} => At(r, "returned")
  /\ ~At(r, "returned") => result[r] = "none"

Whole(r) == meta[r] = "completed" =>
  /\ copied[r] = Len(steps[r]) /\ Len(log[r]) = Len(steps[r])
  /\ \A i \in DOMAIN steps[r] :
       /\ tables[r][steps[r][i].output] # NoTable
       /\ steps[r][i].onEmpty = "fail" => log[r][i].out > 0

Told(r) ==
  /\ meta[r] \in {"completed", "failed"} => result[r] = meta[r]
  /\ result[r] \in {"completed", "failed"} => meta[r] \in {"running", result[r]}

RunInv(r) ==
  /\ OfOneDefinition(steps[r])
  /\ Logged(r) /\ Executed(r) /\ Phase(r) /\ Whole(r) /\ Told(r)

RunType(r) ==
  /\ pc[r] \in {"off", "steps", "create", "meta", "copy", "exec", "log", "fail", "returned", "dead"}
  /\ workflow[r] \in Workflows \cup {"none"} /\ steps[r] \in Seq(Step)
  /\ copied[r] \in Nat /\ meta[r] \in {"none", "running", "completed", "failed"}
  /\ tables[r] \in [Tables -> Rows \cup {NoTable}]
  /\ log[r] \in Seq(Counts) /\ execution[r] \in Counts
  /\ result[r] \in {"none", "error", "failed", "completed"}
  /\ attached[r] \in BOOLEAN /\ cancelled[r] \in BOOLEAN

EveryRun == \A r \in Runs : RunInv(r)

LEMMA RunByRun == EngineInv <=> TypeOK /\ StoreInv /\ EveryRun
<1>. USE DEF EveryRun
<1>1. ASSUME EngineInv PROVE TypeOK /\ StoreInv /\ \A r \in Runs : RunInv(r)
  BY ZenonT(60), <1>1 DEF EngineInv, RunInv, Logged, Executed, Phase, Whole, Told, ExecutionInv, LogInv, PhaseInv,
     OneDefinition, CompletedWhole, Lineage, StatusTold
<1>2. ASSUME TypeOK, StoreInv, \A r \in Runs : RunInv(r) PROVE EngineInv
  <2>1. OneDefinition /\ ExecutionInv /\ PhaseInv /\ CompletedWhole /\ StatusTold
    BY <1>2 DEF RunInv, Executed, Phase, Whole, Told, ExecutionInv, PhaseInv, OneDefinition, CompletedWhole, StatusTold
  <2>2. LogInv /\ Lineage
    BY <1>2 DEF RunInv, Logged, LogInv, Lineage
  <2>. QED BY <1>2, <2>1, <2>2 DEF EngineInv
<1>. QED BY <1>1, <1>2

(* What a run keeps when nothing happens to it. *)
Same(r) ==
  /\ pc'[r] = pc[r] /\ workflow'[r] = workflow[r] /\ steps'[r] = steps[r] /\ copied'[r] = copied[r]
  /\ meta'[r] = meta[r] /\ tables'[r] = tables[r] /\ log'[r] = log[r] /\ execution'[r] = execution[r]
  /\ result'[r] = result[r]

LEMMA Unchanged == ASSUME NEW r \in Runs, Same(r), RunInv(r) PROVE RunInv(r)'
<1>. USE DEF Same, RunInv
<1>1. Logged(r)'
  BY ZenonT(60) DEF Logged, ReadBy
<1>2. Executed(r)'
  BY DEF Executed, At, ReadBy
<1>3. Phase(r)' /\ Told(r)'
  BY DEF Phase, Told, At
<1>4. Whole(r)'
  BY DEF Whole
<1>5. OfOneDefinition(steps[r])'
  BY DEF OfOneDefinition
<1>. QED BY <1>1, <1>2, <1>3, <1>4, <1>5

(* Everything outside of the run r is left alone by its actions. *)
Elsewhere(r) == \A q \in Runs \ {r} : Same(q)

-----------------------------------------------------------------------------
(* The step a run is at, when it has one. *)
LEMMA StepAt ==
  ASSUME TypeOK, NEW r \in Runs, Pending(r)
  PROVE  Len(log[r]) + 1 \in 1 .. Len(steps[r]) /\ Current(r) \in Step
BY DEF TypeOK, Pending, Current

LEMMA SourceType ==
  ASSUME TypeOK, NEW r \in Runs, Pending(r)
  PROVE  /\ Source(r) \in Tables \cup {Corpus} /\ Source(r) = ReadBy(r, Len(log[r]) + 1)
         /\ Readable(r, Source(r)) => SourceRows(r) \subseteq Rows
<1>1. Current(r) \in Step /\ steps[r] \in Seq(Step) /\ log[r] \in Seq(Counts) /\ Len(log[r]) < Len(steps[r])
  BY StepAt DEF TypeOK, Pending
<1>2. Source(r) \in Tables \cup {Corpus}
  <2>1. Len(log[r]) > 0 => steps[r][Len(log[r])] \in Step
    BY <1>1
  <2>. QED BY <1>1, <2>1 DEF Source, Step
<1>3. Source(r) = ReadBy(r, Len(log[r]) + 1)
  BY <1>1 DEF Source, ReadBy, Current
<1>4. ASSUME Readable(r, Source(r)) PROVE SourceRows(r) \subseteq Rows
  BY <1>2, <1>4 DEF TypeOK, SourceRows, Readable, Rows, NoTable
<1>. QED BY <1>2, <1>3, <1>4

LEMMA ProducesRows ==
  ASSUME NEW op \in SqlOps \cup {"external"}, NEW n \in Rows
  PROVE  Produces(op, n) \subseteq Rows
BY RowsAssumption DEF Produces, SqlOps, Rows

(* What the faults left are after a call that fails or does not. *)
LEMMA FaultsType ==
  ASSUME TypeOK, NEW r \in Runs, Fails(r) \/ Works(r) \/ Suffer \/ UNCHANGED faults
  PROVE  faults' \in 0 .. MaxFaults
BY FaultsAssumption DEF TypeOK, Fails, Works, Suffer

LEMMA TypeRun ==
  ASSUME TypeOK, NEW r \in Runs, Phase(r), RunStep(r)
  PROVE  TypeOK' /\ Elsewhere(r) /\ UNCHANGED store
<1>. USE FaultsType DEF TypeOK, Elsewhere, Same, store, Goto, Return, At
<1>1. CASE ReadSteps(r)
  BY <1>1 DEF ReadSteps, Load, Phase
<1>2. CASE ReadSomeSteps(r)
  <2>1. PICK n \in 0 .. Len(stored[workflow[r]]) : Load(r, SubSeq(stored[workflow[r]], 1, n))
    BY <1>2 DEF ReadSomeSteps
  <2>2. SubSeq(stored[workflow[r]], 1, n) \in Seq(Step)
    BY <1>2, FirstStepsPrefix DEF ReadSomeSteps, Phase
  <2>3. faults' \in 0 .. MaxFaults
    BY <1>2 DEF ReadSomeSteps
  <2>. QED BY <2>1, <2>2, <2>3 DEF Load
<1>3. CASE CreateRun(r)
  BY <1>3, RowsAssumption, TablesAssumption DEF CreateRun, Rows
<1>4. CASE InitRunMeta(r)
  BY <1>4 DEF InitRunMeta
<1>5. CASE CopyStep(r)
  <2>1. faults' \in 0 .. MaxFaults /\ copied' \in [Runs -> Nat]
    BY <1>5 DEF CopyStep
  <2>. QED BY <1>5, <2>1 DEF CopyStep
<1>6. CASE AttachCorpus(r)
  BY <1>6 DEF AttachCorpus
<1>7. CASE ExecuteStep(r)
  <2>1. PICK n \in SourceRows(r) : \E m \in Produces(Current(r).op, n) :
          /\ tables' = [tables EXCEPT ![r][Current(r).output] = m]
          /\ \/ execution' = [execution EXCEPT ![r] = [in |-> Counted(r, n), out |-> m]]
             \/ execution' = [execution EXCEPT ![r] = [in |-> 0, out |-> m]]
             \/ execution' = [execution EXCEPT ![r] = [in |-> Counted(r, n), out |-> 0]]
    BY <1>7 DEF ExecuteStep
  <2>2. PICK m \in Produces(Current(r).op, n) :
          /\ tables' = [tables EXCEPT ![r][Current(r).output] = m]
          /\ \/ execution' = [execution EXCEPT ![r] = [in |-> Counted(r, n), out |-> m]]
             \/ execution' = [execution EXCEPT ![r] = [in |-> 0, out |-> m]]
             \/ execution' = [execution EXCEPT ![r] = [in |-> Counted(r, n), out |-> 0]]
    BY <2>1
  <2>3. n \in Rows /\ m \in Rows /\ Counted(r, n) \in Rows /\ 0 \in Rows /\ Current(r).output \in Tables
    <3>1. Pending(r) /\ Executable(r) /\ Readable(r, Source(r))
      BY <1>7 DEF ExecuteStep, Creatable
    <3>4. SourceRows(r) \subseteq Rows
      BY <3>1, SourceType
    <3>5. Current(r).output \in Tables
      BY <3>1, StepAt DEF Step
    <3>2. n \in Rows /\ Current(r).output \in Tables /\ 0 \in Rows
      BY <3>4, <3>5, RowsAssumption DEF Rows
    <3>3. m \in Rows
      BY <3>1, <3>2, <2>2, ProducesRows DEF Executable
    <3>. QED BY <3>2, <3>3 DEF Counted
  <2>4. tables' \in [Runs -> [Tables -> Rows \cup {NoTable}]]
    BY <2>2, <2>3
  <2>5. execution' \in [Runs -> Counts]
    <3>1. PICK c : c \in Counts /\ execution' = [execution EXCEPT ![r] = c]
      BY <2>2, <2>3 DEF Counts
    <3>. QED BY <3>1
  <2>6. faults' \in 0 .. MaxFaults
    <3>1. Suffer \/ UNCHANGED faults
      BY <1>7 DEF ExecuteStep
    <3>. QED BY <3>1, FaultsType
  <2>7. \A q \in Runs \ {r} : tables'[q] = tables[q] /\ execution'[q] = execution[q]
    BY <2>2
  <2>. QED BY <1>7, <2>4, <2>5, <2>6, <2>7 DEF ExecuteStep
<1>8. CASE StepFails(r)
  BY <1>8 DEF StepFails
<1>9. CASE LogStepExecution(r)
  BY <1>9 DEF LogStepExecution
<1>10. CASE FailRun(r)
  BY <1>10 DEF FailRun, UpdateRunStatus
<1>11. CASE Finalize(r)
  BY <1>11 DEF Finalize, UpdateRunStatus
<1>12. CASE GiveUp(r)
  BY <1>12 DEF GiveUp
<1>. QED BY <1>1, <1>2, <1>3, <1>4, <1>5, <1>6, <1>7, <1>8, <1>9, <1>10, <1>11, <1>12 DEF RunStep

(* The actions of a run that are no calls of its own, and the registration. *)
LEMMA TypeOther ==
  ASSUME TypeOK, NEW r \in Runs,
         (\E w \in Workflows : ReadWorkflow(r, w) \/ NotActive(r, w)) \/ Cancel(r) \/ Crash(r) \/ Recycle(r)
  PROVE  TypeOK' /\ Elsewhere(r) /\ UNCHANGED store
<1>. USE FaultsType DEF TypeOK, Elsewhere, Same, store, Goto, Return, At
<1>1. ASSUME NEW w \in Workflows, ReadWorkflow(r, w) PROVE TypeOK' /\ Elsewhere(r) /\ UNCHANGED store
  BY <1>1 DEF ReadWorkflow
<1>2. ASSUME NEW w \in Workflows, NotActive(r, w) PROVE TypeOK' /\ Elsewhere(r) /\ UNCHANGED store
  BY <1>2 DEF NotActive
<1>3. CASE Cancel(r)
  BY <1>3 DEF Cancel
<1>4. CASE Crash(r)
  BY <1>4 DEF Crash
<1>5. CASE Recycle(r)
  BY <1>5 DEF Recycle
<1>. QED BY <1>1, <1>2, <1>3, <1>4, <1>5

-----------------------------------------------------------------------------
(* One lemma per part of the invariant that an action can disturb.  A run   *)
(* that reads has the steps of one definition.                              *)
LEMMA OneDefinitionStep ==
  ASSUME TypeOK, StoreInv, NEW r \in Runs, RunInv(r), RunStep(r)
  PROVE  OfOneDefinition(steps'[r])
<1>. USE DEF TypeOK, RunInv
<1>1. CASE ReadSteps(r)
  BY <1>1 DEF ReadSteps, Load, Phase, StoreInv
<1>2. CASE ReadSomeSteps(r)
  <2>1. PICK n \in 0 .. Len(stored[workflow[r]]) : Load(r, SubSeq(stored[workflow[r]], 1, n))
    BY <1>2 DEF ReadSomeSteps
  <2>2. workflow[r] \in Workflows
    BY <1>2 DEF ReadSomeSteps, Phase
  <2>3. OfOneDefinition(SubSeq(stored[workflow[r]], 1, n))
    BY <2>2, FirstStepsPrefix, FewerSteps DEF StoreInv
  <2>. QED BY <2>1, <2>3 DEF Load
<1>3. CASE UNCHANGED steps
  BY <1>3
<1>. QED BY <1>1, <1>2, <1>3 DEF RunStep, CreateRun, InitRunMeta, CopyStep, AttachCorpus, ExecuteStep, StepFails,
            LogStepExecution, FailRun, Finalize, GiveUp

(* Until the first step is executed nothing is recorded. *)
LEMMA BeforeSteps ==
  ASSUME TypeOK, TypeOK', NEW r \in Runs, RunInv(r),
         ReadSteps(r) \/ ReadSomeSteps(r) \/ CreateRun(r) \/ InitRunMeta(r) \/ CopyStep(r) \/ AttachCorpus(r)
  PROVE  Logged(r)' /\ Executed(r)' /\ Phase(r)' /\ Whole(r)' /\ Told(r)'
<1>. USE DEF TypeOK, RunInv, Goto, At, Load
<1>1. log[r] = <<>> /\ log'[r] = <<>> /\ meta[r] \in {"none", "running"} /\ pc'[r] # "log" /\ result'[r] = "none"
      /\ meta'[r] \in {"none", "running"}
  BY DEF ReadSteps, ReadSomeSteps, CreateRun, InitRunMeta, CopyStep, AttachCorpus, Phase
<1>2. copied'[r] <= Len(steps'[r])
  BY DEF ReadSteps, ReadSomeSteps, CreateRun, InitRunMeta, CopyStep, AttachCorpus, Phase, Logged
<1>3. Phase(r)'
  <2>1. CASE ReadSteps(r) \/ ReadSomeSteps(r)
    BY <1>1, <2>1 DEF ReadSteps, ReadSomeSteps, Phase
  <2>2. CASE CreateRun(r)
    BY <1>1, <2>2 DEF CreateRun, Phase
  <2>3. CASE InitRunMeta(r)
    BY <1>1, <2>3 DEF InitRunMeta, Phase
  <2>4. CASE CopyStep(r)
    BY <1>1, <2>4 DEF CopyStep, Phase
  <2>5. CASE AttachCorpus(r)
    BY <1>1, <2>5 DEF AttachCorpus, Phase
  <2>. QED BY <2>1, <2>2, <2>3, <2>4, <2>5
<1>. QED BY <1>1, <1>2, <1>3 DEF Logged, Executed, Whole, Told

(* A step writes a table that was not there, and so none that a recorded    *)
(* step has read or left.                                                   *)
LEMMA ExecuteKeeps ==
  ASSUME TypeOK, TypeOK', NEW r \in Runs, RunInv(r), ExecuteStep(r)
  PROVE  Logged(r)' /\ Executed(r)' /\ Phase(r)' /\ Whole(r)' /\ Told(r)'
<1>. USE DEF Goto, At
<1>0. RunType(r) /\ RunType(r)' /\ RunInv(r)
  BY SMTT(30) DEF TypeOK, RunType
<1>. DEFINE out == Current(r).output
<1>1. /\ Pending(r) /\ Executable(r) /\ Readable(r, Source(r)) /\ tables[r][out] = NoTable
      /\ pc[r] = "exec" /\ pc'[r] = "log" /\ log'[r] = log[r] /\ steps'[r] = steps[r]
      /\ copied'[r] = copied[r] /\ meta'[r] = meta[r] /\ result'[r] = result[r]
  BY DEF ExecuteStep, Creatable, TypeOK
<1>2. /\ Len(log[r]) + 1 \in 1 .. Len(steps[r]) /\ out \in Tables /\ out = steps[r][Len(log[r]) + 1].output
      /\ \A i \in DOMAIN log[r] : i \in 1 .. Len(steps[r]) /\ steps[r][i].output \in Tables
           /\ ReadBy(r, i) \in Tables \cup {Corpus} /\ log[r][i].in \in Rows
  <2>1. \A i \in 1 .. Len(steps[r]) : steps[r][i].output \in Tables /\ ReadBy(r, i) \in Tables \cup {Corpus}
    <3>1. \A i \in 1 .. Len(steps[r]) : steps[r][i] \in Step
      BY <1>0 DEF RunType
    <3>. QED BY <3>1 DEF Step, ReadBy
  <2>2. \A i \in DOMAIN log[r] : i \in 1 .. Len(steps[r]) /\ log[r][i] \in Counts
    BY <1>0 DEF Logged, RunInv, RunType
  <2>3. Len(log[r]) + 1 \in 1 .. Len(steps[r]) /\ Current(r) \in Step
    BY <1>1, StepAt
  <2>. QED BY <1>1, <2>1, <2>2, <2>3 DEF Current, Counts, Step
<1>3. PICK n, m :
        /\ n \in SourceRows(r)
        /\ tables' = [tables EXCEPT ![r][out] = m]
        /\ \/ execution' = [execution EXCEPT ![r] = [in |-> Counted(r, n), out |-> m]]
           \/ MaxFaults # 0 /\ execution' = [execution EXCEPT ![r] = [in |-> 0, out |-> m]]
           \/ MaxFaults # 0 /\ execution' = [execution EXCEPT ![r] = [in |-> Counted(r, n), out |-> 0]]
  <2>1. PICK n \in SourceRows(r) : \E m \in Produces(Current(r).op, n) :
          /\ tables' = [tables EXCEPT ![r][out] = m]
          /\ \/ execution' = [execution EXCEPT ![r] = [in |-> Counted(r, n), out |-> m]]
             \/ Suffer /\ execution' = [execution EXCEPT ![r] = [in |-> 0, out |-> m]]
             \/ Suffer /\ execution' = [execution EXCEPT ![r] = [in |-> Counted(r, n), out |-> 0]]
    BY DEF ExecuteStep
  <2>2. Suffer => MaxFaults # 0
    BY FaultsAssumption DEF Suffer, TypeOK
  <2>. QED BY <2>1, <2>2
<1>4. tables'[r][out] = m /\ \A t \in Tables \ {out} : tables'[r][t] = tables[r][t]
  BY <1>2, <1>3 DEF TypeOK
<1>5. m # NoTable
  <2>1. PICK k \in SourceRows(r) : \E l \in Produces(Current(r).op, k) : tables' = [tables EXCEPT ![r][out] = l]
    BY DEF ExecuteStep
  <2>2. PICK l \in Produces(Current(r).op, k) : l = m
    BY <1>2, <1>4, <2>1 DEF TypeOK
  <2>3. SourceRows(r) \subseteq Rows
    BY <1>1, SourceType
  <2>4. l \in Rows
    BY <1>1, <2>2, <2>3, ProducesRows DEF Executable
  <2>. QED BY <2>2, <2>4 DEF Rows, NoTable
<1>6. Logged(r)'
  <2>1. \A i \in DOMAIN log[r] :
          /\ tables'[r][steps[r][i].output] = tables[r][steps[r][i].output]
          /\ ReadBy(r, i)' = ReadBy(r, i)
          /\ ReadBy(r, i) # Corpus => log[r][i].in \in {0, tables'[r][ReadBy(r, i)]}
    <3>1. \A i \in DOMAIN log[r] : steps[r][i].output # out /\ ReadBy(r, i)' = ReadBy(r, i)
      BY <1>0, <1>1 DEF RunInv, Logged, ReadBy
    <3>2. ASSUME NEW i \in DOMAIN log[r], ReadBy(r, i) # Corpus
          PROVE  log[r][i].in \in {0, tables'[r][ReadBy(r, i)]}
      <4>1. log[r][i].in \in {0, tables[r][ReadBy(r, i)]} /\ log[r][i].in # NoTable /\ ReadBy(r, i) \in Tables
        BY SMTT(60), <1>0, <1>2, <3>2 DEF RunInv, Logged, Rows, NoTable
      <4>. QED BY <1>1, <1>4, <4>1
    <3>. QED BY <1>2, <1>4, <3>1, <3>2
  <2>. QED BY SMTT(60), <1>0, <1>1, <2>1 DEF RunInv, Logged
<1>7. Executed(r)'
  <2>. DEFINE k == Len(log[r]) + 1
  <2>1. Source(r) = ReadBy(r, k) /\ ReadBy(r, k)' = ReadBy(r, k)
    BY <1>1, SourceType DEF ReadBy
  <2>2. Source(r) # Corpus => Source(r) \in Tables \ {out} /\ n = tables[r][Source(r)]
    BY <1>1, <1>3, SourceType DEF Readable, SourceRows
  <2>3. Source(r) # Corpus => Counted(r, n) \in {0, tables'[r][Source(r)]}
    BY <1>4, <2>2 DEF Counted
  <2>4. /\ execution'[r].out \in {0, m}
        /\ MaxFaults = 0 => execution'[r].out = m
        /\ execution'[r].in \in {0, Counted(r, n)}
    BY <1>3 DEF TypeOK
  <2>5. Source(r) # Corpus => execution'[r].in \in {0, tables'[r][Source(r)]}
    BY <2>3, <2>4
  <2>6. Len(log'[r]) + 1 = k /\ ReadBy(r, Len(log[r]) + 1)' = Source(r)
    BY <1>1, <2>1 DEF ReadBy
  <2>7. steps'[r][k].output = out /\ tables'[r][out] = m
    BY <1>1, <1>2, <1>4
  <2>8. k <= Len(steps'[r])
    BY <1>1, <1>2
  <2>9. ReadBy(r, k) # Corpus => execution'[r].in \in {0, tables'[r][ReadBy(r, k)]}
    BY <2>1, <2>5
  <2>10. Executed(r)' <=>
           /\ k <= Len(steps'[r])
           /\ tables'[r][steps'[r][k].output] # NoTable
           /\ execution'[r].out \in {0, tables'[r][steps'[r][k].output]}
           /\ ReadBy(r, k) # Corpus => execution'[r].in \in {0, tables'[r][ReadBy(r, k)]}
           /\ MaxFaults = 0 => execution'[r].out = tables'[r][steps'[r][k].output]
    BY <1>1 DEF Executed, ReadBy
  <2>. QED BY <1>5, <2>4, <2>7, <2>8, <2>9, <2>10
<1>8. Phase(r)' /\ Whole(r)' /\ Told(r)'
  BY <1>0, <1>1 DEF Phase, Whole, Told, RunInv
<1>. QED BY <1>6, <1>7, <1>8

(* The record of a step is the one of its execution. *)
LEMMA LogKeeps ==
  ASSUME TypeOK, TypeOK', NEW r \in Runs, RunInv(r), LogStepExecution(r)
  PROVE  Logged(r)' /\ Executed(r)' /\ Phase(r)' /\ Whole(r)' /\ Told(r)'
<1>. USE DEF Goto, At
<1>0. RunType(r) /\ RunType(r)' /\ RunInv(r)
  BY SMTT(30) DEF TypeOK, RunType
<1>. DEFINE k == Len(log[r]) + 1
<1>1. /\ pc[r] = "log" /\ log'[r] = Append(log[r], execution[r]) /\ steps'[r] = steps[r] /\ tables'[r] = tables[r]
      /\ copied'[r] = copied[r] /\ meta'[r] = meta[r] /\ result'[r] = result[r]
      /\ pc'[r] = IF execution[r].out = 0 /\ Current(r).onEmpty = "fail" THEN "fail" ELSE "exec"
  BY DEF LogStepExecution, TypeOK
<1>2. /\ Len(log'[r]) = k /\ DOMAIN log'[r] = 1 .. k /\ log'[r][k] = execution[r]
      /\ \A i \in 1 .. k - 1 : log'[r][i] = log[r][i]
      /\ DOMAIN log[r] = 1 .. k - 1 /\ k \in Nat
  <2>1. log[r] \in Seq(Counts) /\ execution[r] \in Counts
    BY <1>0 DEF RunType
  <2>. QED BY <1>1, <2>1
<1>3. /\ k <= Len(steps[r]) /\ tables[r][steps[r][k].output] # NoTable
      /\ execution[r].out \in {0, tables[r][steps[r][k].output]} /\ execution[r].out \in Nat
      /\ ReadBy(r, k) # Corpus => execution[r].in \in {0, tables[r][ReadBy(r, k)]}
      /\ MaxFaults = 0 => execution[r].out = tables[r][steps[r][k].output]
  <2>1. execution[r].out \in Nat
    BY <1>0, RowsAssumption DEF RunType, Counts, Rows
  <2>. QED BY <1>0, <1>1, <2>1 DEF RunInv, Executed
<1>4. Current(r) = steps[r][k] /\ \A i \in 1 .. k : ReadBy(r, i)' = ReadBy(r, i)
  BY <1>1 DEF Current, ReadBy
<1>5. Logged(r)'
  <2>. SUFFICES ASSUME NEW i \in 1 .. k
                PROVE  /\ tables[r][steps[r][i].output] # NoTable
                       /\ pc'[r] = "exec" /\ steps[r][i].onEmpty = "fail" => log'[r][i].out > 0
                       /\ log'[r][i].out \in {0, tables[r][steps[r][i].output]}
                       /\ ReadBy(r, i) # Corpus => log'[r][i].in \in {0, tables[r][ReadBy(r, i)]}
                       /\ MaxFaults = 0 => log'[r][i].out = tables[r][steps[r][i].output]
    <3>1. copied'[r] <= Len(steps'[r]) /\ Len(log'[r]) <= Len(steps'[r]) /\ DOMAIN log'[r] = 1 .. k
      BY <1>0, <1>1, <1>2, <1>3 DEF RunInv, Logged
    <3>2. pc'[r] # "log"
      BY <1>1
    <3>. QED BY <1>1, <1>4, <3>1, <3>2 DEF Logged
  <2>1. CASE i = k
    BY SMTT(30), <1>1, <1>2, <1>3, <1>4, <2>1
  <2>2. CASE i # k
    BY SMTT(60), <1>0, <1>1, <1>2, <2>2 DEF RunInv, Logged
  <2>. QED BY <2>1, <2>2
<1>6. Executed(r)' /\ Phase(r)' /\ Whole(r)' /\ Told(r)'
  BY <1>0, <1>1 DEF Executed, Phase, Whole, Told, RunInv
<1>. QED BY <1>5, <1>6

(* How a run ends. *)
LEMMA EndKeeps ==
  ASSUME TypeOK, TypeOK', NEW r \in Runs, RunInv(r),
         StepFails(r) \/ FailRun(r) \/ Finalize(r) \/ GiveUp(r) \/ Crash(r)
  PROVE  Logged(r)' /\ Executed(r)' /\ Phase(r)' /\ Whole(r)' /\ Told(r)'
<1>. USE DEF Goto, At, Return, UpdateRunStatus
<1>0. RunType(r) /\ RunInv(r)
  BY DEF TypeOK, RunType
<1>1. /\ log'[r] = log[r] /\ steps'[r] = steps[r] /\ tables'[r] = tables[r] /\ copied'[r] = copied[r]
      /\ pc'[r] \in {"fail", "returned", "dead"}
  BY DEF StepFails, FailRun, Finalize, GiveUp, Crash, TypeOK
<1>2. Logged(r)' /\ Executed(r)'
  <2>1. \A i : ReadBy(r, i)' = ReadBy(r, i)
    BY <1>1 DEF ReadBy
  <2>. QED BY <1>0, <1>1, <2>1 DEF RunInv, Logged, Executed
<1>3. CASE StepFails(r)
  <2>1. meta'[r] = meta[r] /\ result'[r] = result[r] /\ pc'[r] = "fail" /\ pc[r] = "exec"
    BY <1>3 DEF StepFails, TypeOK
  <2>2. Phase(r)'
    BY <1>0, <1>1, <2>1 DEF Phase, RunInv
  <2>3. Whole(r)'
    BY <1>0, <2>1 DEF Phase, Whole, RunInv
  <2>4. Told(r)'
    BY <1>0, <2>1 DEF Phase, Told, RunInv
  <2>. QED BY <1>2, <2>2, <2>3, <2>4
<1>4. CASE FailRun(r)
  <2>1. meta'[r] \in {meta[r], "failed"} /\ result'[r] = "failed" /\ pc'[r] = "returned" /\ pc[r] = "fail"
    BY <1>4 DEF FailRun, TypeOK
  <2>2. Phase(r)'
    BY <1>0, <1>1, <2>1 DEF Phase, RunInv
  <2>3. Whole(r)'
    BY <1>0, <2>1 DEF Phase, Whole, RunInv
  <2>4. Told(r)'
    BY <1>0, <2>1 DEF Phase, Told, RunInv
  <2>. QED BY <1>2, <2>2, <2>3, <2>4
<1>5. CASE Finalize(r)
  <2>1. pc[r] = "exec" /\ Len(log[r]) = Len(steps[r]) /\ copied[r] = Len(steps[r])
    BY SMTT(60), <1>0, <1>5 DEF Finalize, Pending, Logged, Phase, RunInv, RunType
  <2>2. Whole(r)'
    BY SMTT(30), <1>0, <1>1, <2>1 DEF Whole, Logged, RunInv
  <2>3. meta'[r] \in {meta[r], "completed"} /\ result'[r] = "completed" /\ pc'[r] = "returned" /\ pc[r] = "exec"
    BY <1>5 DEF Finalize, TypeOK
  <2>4. Phase(r)'
    BY <1>0, <1>1, <2>1, <2>3 DEF Phase, RunInv
  <2>5. Told(r)'
    BY <1>0, <2>3 DEF Phase, Told, RunInv
  <2>. QED BY <1>2, <2>2, <2>4, <2>5
<1>6. CASE GiveUp(r)
  <2>1. meta'[r] = meta[r] /\ result'[r] = "error" /\ pc'[r] = "returned" /\ pc[r] \in {"off", "steps", "create", "meta", "copy", "log"}
    BY <1>6 DEF GiveUp, TypeOK
  <2>2. Phase(r)'
    BY <1>0, <1>1, <2>1 DEF Phase, RunInv
  <2>3. Whole(r)'
    BY <1>0, <2>1 DEF Phase, Whole, RunInv
  <2>4. Told(r)'
    BY <1>0, <2>1 DEF Phase, Told, RunInv
  <2>. QED BY <1>2, <2>2, <2>3, <2>4
<1>7. CASE Crash(r)
  <2>1. meta'[r] = meta[r] /\ result'[r] = result[r] /\ pc'[r] = "dead" /\ pc[r] \notin {"off", "returned", "dead"}
    BY <1>7 DEF Crash, Underway, Ended, TypeOK
  <2>2. Phase(r)'
    BY <1>0, <1>1, <2>1 DEF Phase, RunInv
  <2>3. Whole(r)'
    BY <1>0, <2>1 DEF Phase, Whole, RunInv
  <2>4. Told(r)'
    BY <1>0, <2>1 DEF Phase, Told, RunInv
  <2>. QED BY <1>2, <2>2, <2>3, <2>4
<1>. QED BY <1>2, <1>3, <1>4, <1>5, <1>6, <1>7

-----------------------------------------------------------------------------
LEMMA RunStepKeeps ==
  ASSUME TypeOK, TypeOK', StoreInv, NEW r \in Runs, RunInv(r), RunStep(r)
  PROVE  RunInv(r)'
<1>1. Logged(r)' /\ Executed(r)' /\ Phase(r)' /\ Whole(r)' /\ Told(r)'
  BY BeforeSteps, ExecuteKeeps, LogKeeps, EndKeeps DEF RunStep
<1>2. OfOneDefinition(steps'[r])
  BY OneDefinitionStep
<1>. QED BY <1>1, <1>2 DEF RunInv, OfOneDefinition

(* What happens to a run from outside, and its start. *)
LEMMA OtherKeeps ==
  ASSUME TypeOK, TypeOK', NEW r \in Runs, RunInv(r),
         (\E w \in Workflows : ReadWorkflow(r, w) \/ NotActive(r, w)) \/ Cancel(r) \/ Crash(r) \/ Recycle(r)
  PROVE  RunInv(r)'
<1>. USE DEF Goto, At, Return
<1>1. CASE Cancel(r) \/ Recycle(r)
  <2>1. Same(r)
    BY <1>1 DEF Cancel, Recycle, Same
  <2>. QED BY <2>1, Unchanged
<1>2. CASE Crash(r)
  <2>1. Logged(r)' /\ Executed(r)' /\ Phase(r)' /\ Whole(r)' /\ Told(r)'
    BY <1>2, EndKeeps
  <2>2. UNCHANGED steps
    BY <1>2 DEF Crash
  <2>. QED BY <2>1, <2>2 DEF RunInv, OfOneDefinition
<1>3. ASSUME NEW w \in Workflows, ReadWorkflow(r, w) \/ NotActive(r, w) PROVE RunInv(r)'
  <2>1. /\ pc[r] = "off" /\ steps'[r] = steps[r] /\ copied'[r] = copied[r] /\ meta'[r] = meta[r]
        /\ log'[r] = log[r] /\ tables'[r] = tables[r]
    BY <1>3 DEF ReadWorkflow, NotActive
  <2>2. \/ pc'[r] = "steps" /\ workflow'[r] \in Workflows /\ result'[r] = result[r]
        \/ pc'[r] = "returned" /\ result'[r] = "error"
    BY <1>3 DEF ReadWorkflow, NotActive, TypeOK
  <2>3. meta[r] = "none" /\ log[r] = <<>> /\ copied[r] = 0 /\ result[r] = "none" /\ steps[r] \in Seq(Step)
    BY <2>1 DEF RunInv, Phase, TypeOK
  <2>4. Phase(r)' /\ Executed(r)' /\ Told(r)'
    BY <2>1, <2>2, <2>3 DEF Phase, Executed, Told
  <2>5. Logged(r)' /\ Whole(r)'
    BY <2>1, <2>2, <2>3 DEF Logged, Whole
  <2>6. OfOneDefinition(steps[r])'
    BY <2>1 DEF RunInv, OfOneDefinition
  <2>. QED BY <2>4, <2>5, <2>6 DEF RunInv
<1>. QED BY <1>1, <1>2, <1>3

LEMMA InitEngine == Init => EngineInv
<1>. SUFFICES ASSUME Init PROVE EngineInv
  OBVIOUS
<1>1. TypeOK
  <2>1. /\ pc \in [Runs -> {"off", "steps", "create", "meta", "copy", "exec", "log", "fail", "returned", "dead"}]
        /\ steps \in [Runs -> Seq(Step)] /\ log \in [Runs -> Seq(Counts)]
        /\ tables \in [Runs -> [Tables -> Rows \cup {NoTable}]]
    BY DEF Init, NoRun
  <2>2. execution \in [Runs -> Counts]
    BY RowsAssumption DEF Init, Counts, Rows
  <2>3. /\ status \in [Workflows -> Status] /\ stored \in [Workflows -> Seq(Step)]
        /\ loading \in Seq(Workflows) /\ line \in Nat /\ changes \in Nat
    BY StepsAssumption, ChangesAssumption DEF Init, StoreInit
  <2>4. release \in Versions
    BY VersionsAssumption DEF Init, StoreInit
  <2>5. /\ workflow \in [Runs -> Workflows \cup {"none"}] /\ copied \in [Runs -> Nat]
        /\ meta \in [Runs -> {"none", "running", "completed", "failed"}]
        /\ result \in [Runs -> {"none", "error", "failed", "completed"}]
        /\ attached \in [Runs -> BOOLEAN] /\ cancelled \in [Runs -> BOOLEAN] /\ registered \in BOOLEAN
    BY DEF Init
  <2>6. faults \in 0 .. MaxFaults
    BY FaultsAssumption DEF Init
  <2>. QED BY <2>1, <2>2, <2>3, <2>4, <2>5, <2>6 DEF TypeOK
<1>2. StoreInv
  <2>1. \A w \in Workflows : InitSteps[w] \in Definitions /\ InitSteps[w] \in Seq(Step)
    BY StepsAssumption DEF Definitions
  <2>2. \A w \in Workflows : IsPrefix(InitSteps[w], InitSteps[w])
    BY <2>1, PrefixElements
  <2>. QED BY <2>1, <2>2 DEF Init, StoreInit, StoreInv, OfOneDefinition
<1>3. ASSUME NEW r \in Runs PROVE RunInv(r)
  <2>1. /\ pc[r] = "off" /\ meta[r] = "none" /\ log[r] = <<>> /\ copied[r] = 0 /\ steps[r] = <<>> /\ result[r] = "none"
    BY DEF Init
  <2>. QED BY <2>1, NoSteps DEF RunInv, Logged, Executed, Phase, Whole, Told, At
<1>. QED BY <1>1, <1>2, <1>3, RunByRun DEF EveryRun

LEMMA NextEngine == EngineInv /\ [Next]_vars => EngineInv'
<1>. SUFFICES ASSUME EngineInv, [Next]_vars PROVE EngineInv'
  OBVIOUS
<1>0. TypeOK /\ StoreInv /\ \A r \in Runs : RunInv(r)
  BY RunByRun DEF EveryRun
<1>1. ASSUME TypeOK', StoreInv', \A r \in Runs : RunInv(r)' PROVE EngineInv'
  <2>1. EveryRun'
    BY <1>1 DEF EveryRun
  <2>. QED BY <1>1, <2>1, RunByRun, PTL
<1>2. ASSUME NEW r \in Runs, TypeOK', Elsewhere(r), UNCHANGED store, RunInv(r)' PROVE EngineInv'
  <2>1. \A q \in Runs : RunInv(q)'
    BY <1>0, <1>2, Unchanged DEF Elsewhere
  <2>2. StoreInv'
    BY <1>0, <1>2 DEF store, StoreInv, OfOneDefinition, Definitions, Scripted, Exists
  <2>. QED BY <1>1, <1>2, <2>1, <2>2
<1>3. ASSUME NEW r \in Runs, RunStep(r) PROVE EngineInv'
  BY <1>0, <1>2, <1>3, TypeRun, RunStepKeeps DEF RunInv
<1>4. ASSUME NEW r \in Runs,
             (\E w \in Workflows : ReadWorkflow(r, w) \/ NotActive(r, w)) \/ Cancel(r) \/ Crash(r) \/ Recycle(r)
      PROVE  EngineInv'
  BY <1>0, <1>2, <1>4, TypeOther, OtherKeeps
<1>5. CASE StoreNext /\ UNCHANGED run
  <2>1. TypeOK' /\ StoreInv'
    BY <1>0, <1>5, TypeStore, StoreStep DEF TypeOK, run
  <2>2. \A r \in Runs : RunInv(r)'
    BY <1>0, <1>5, Unchanged DEF Same, run
  <2>. QED BY <1>1, <2>1, <2>2
<1>6. CASE RegisterExtractor \/ UNCHANGED vars
  <2>1. TypeOK' /\ UNCHANGED store
    BY <1>0, <1>6 DEF RegisterExtractor, vars, run, store, TypeOK
  <2>2. \A r \in Runs : Same(r)
    BY <1>6 DEF RegisterExtractor, vars, run, Same
  <2>3. \A r \in Runs : RunInv(r)'
    BY <1>0, <2>2, Unchanged
  <2>4. StoreInv'
    BY <1>0, <2>1 DEF store, StoreInv, OfOneDefinition, Definitions, Scripted, Exists
  <2>. QED BY <1>1, <2>1, <2>3, <2>4
<1>. QED BY <1>3, <1>4, <1>5, <1>6 DEF Next

(* The inductive invariant of Engine holds throughout.                      *)
THEOREM InductiveEngine == Spec => []EngineInv
BY InitEngine, NextEngine, PTL DEF Spec

(* A run has its steps from one definition of its workflow, whatever the    *)
(* loader does between the two queries of LoadWorkflow (engine.go:85-117).  *)
THEOREM OneDefinitionHolds == Spec => []OneDefinition
BY InductiveEngine, PTL DEF EngineInv

(* A completed run has described, executed and recorded every step          *)
(* (engine.go:185-216).                                                     *)
THEOREM CompletedWholeHolds == Spec => []CompletedWhole
BY InductiveEngine, PTL DEF EngineInv

(* What is recorded of a step stays true of its tables (engine.go:257-307). *)
THEOREM LineageHolds == Spec => []Lineage
BY InductiveEngine, PTL DEF EngineInv

(* What Run returns does not contradict the database (engine.go:187-216).   *)
THEOREM StatusToldHolds == Spec => []StatusTold
BY InductiveEngine, PTL DEF EngineInv

-----------------------------------------------------------------------------
(* The steps the record of a run has to get through. *)
Plan == [r \in Runs |-> IF meta[r] = "none" THEN 0 ELSE Len(steps[r])]
Done == [r \in Runs |-> Len(log[r])]

LEMMA RecordNext ==
  ASSUME EngineInv, EngineInv', [Next]_vars
  PROVE  [Record!Next]_<<meta, Plan, Done>>
<1>. USE DEF Plan, Done, Goto, At, Return
<1>0. TypeOK /\ TypeOK' /\ StoreInv /\ StoreInv' /\ \A r \in Runs : RunInv(r)
  BY RunByRun, PTL DEF EngineInv, EveryRun
<1>1. ASSUME UNCHANGED <<meta, log>>, \A r \in Runs : meta[r] # "none" => steps'[r] = steps[r]
      PROVE  UNCHANGED <<meta, Plan, Done>>
  BY <1>1
<1>2. ASSUME NEW r \in Runs, RunStep(r) PROVE [Record!Next]_<<meta, Plan, Done>>
  <2>1. CASE ReadSteps(r) \/ ReadSomeSteps(r)
    <3>1. meta[r] = "none" /\ UNCHANGED <<meta, log>> /\ \A q \in Runs \ {r} : steps'[q] = steps[q]
      BY <1>0, <2>1 DEF ReadSteps, ReadSomeSteps, Load, RunInv, Phase, TypeOK
    <3>. QED BY <1>1, <3>1
  <2>2. CASE InitRunMeta(r)
    <3>1. meta[r] = "none" /\ meta' = [meta EXCEPT ![r] = "running"] /\ UNCHANGED <<steps, log>>
      BY <1>0, <2>2 DEF InitRunMeta, RunInv, Phase
    <3>2. Len(steps[r]) \in Nat
      BY <1>0 DEF TypeOK
    <3>3. Plan' = [Plan EXCEPT ![r] = Len(steps[r])] /\ Done' = Done
      <4>1. meta'[r] = "running" /\ \A q \in Runs \ {r} : meta'[q] = meta[q]
        BY <1>0, <3>1 DEF TypeOK
      <4>. QED BY <3>1, <4>1
    <3>. QED BY <3>1, <3>2, <3>3 DEF Record!Next, Record!Begin
  <2>3. CASE LogStepExecution(r)
    <3>1. /\ meta[r] = "running" /\ Len(log[r]) < Len(steps[r]) /\ UNCHANGED <<steps, meta>>
          /\ log' = [log EXCEPT ![r] = Append(@, execution[r])]
      <4>1. Len(log[r]) \in Nat /\ Len(steps[r]) \in Nat
        BY <1>0 DEF TypeOK
      <4>. QED BY <1>0, <2>3, <4>1 DEF LogStepExecution, RunInv, Phase, Executed
    <3>2. Plan' = Plan
      BY <3>1
    <3>3. Done' = [Done EXCEPT ![r] = @ + 1]
      <4>1. log \in [Runs -> Seq(Counts)] /\ execution[r] \in Counts
        BY <1>0 DEF TypeOK
      <4>2. Len(log'[r]) = Len(log[r]) + 1 /\ \A q \in Runs \ {r} : log'[q] = log[q]
        BY <3>1, <4>1
      <4>. QED BY <4>2
    <3>. QED BY <3>1, <3>2, <3>3 DEF Record!Next, Record!Record
  <2>4. CASE FailRun(r)
    <3>1. CASE UNCHANGED meta
      BY <1>1, <2>4, <3>1 DEF FailRun
    <3>2. CASE meta' = [meta EXCEPT ![r] = "failed"]
      <4>1. meta[r] = "running" /\ UNCHANGED <<steps, log>>
        BY <1>0, <2>4 DEF FailRun, RunInv, Phase
      <4>2. Plan' = Plan /\ Done' = Done
        BY <1>0, <3>2, <4>1 DEF TypeOK
      <4>. QED BY <3>2, <4>1, <4>2 DEF Record!Next, Record!Fail
    <3>. QED BY <2>4, <3>1, <3>2 DEF FailRun, UpdateRunStatus
  <2>5. CASE Finalize(r)
    <3>1. CASE UNCHANGED meta
      BY <1>1, <2>5, <3>1 DEF Finalize
    <3>2. CASE meta' = [meta EXCEPT ![r] = "completed"]
      <4>0. Len(log[r]) \in Nat /\ Len(steps[r]) \in Nat
        BY <1>0 DEF TypeOK
      <4>1. meta[r] = "running" /\ UNCHANGED <<steps, log>> /\ Len(log[r]) = Len(steps[r])
        BY <1>0, <2>5, <4>0 DEF Finalize, Pending, RunInv, Phase, Logged
      <4>2. Plan' = Plan /\ Done' = Done
        BY <1>0, <3>2, <4>1 DEF TypeOK
      <4>. QED BY <3>2, <4>1, <4>2 DEF Record!Next, Record!Complete
    <3>. QED BY <2>5, <3>1, <3>2 DEF Finalize, UpdateRunStatus
  <2>6. CASE CreateRun(r) \/ CopyStep(r) \/ AttachCorpus(r) \/ ExecuteStep(r) \/ StepFails(r) \/ GiveUp(r)
    BY <1>1, <2>6 DEF CreateRun, CopyStep, AttachCorpus, ExecuteStep, StepFails, GiveUp
  <2>. QED BY <1>2, <2>1, <2>2, <2>3, <2>4, <2>5, <2>6 DEF RunStep
<1>3. ASSUME UNCHANGED <<meta, log, steps>> PROVE [Record!Next]_<<meta, Plan, Done>>
  BY <1>1, <1>3
<1>. QED BY <1>2, <1>3 DEF Next, ReadWorkflow, NotActive, Cancel, Crash, Recycle, RegisterExtractor, vars, run

(* Engine.Run implements the record of a run: it begins, records each of   *)
(* its steps once, completes after the last and never changes a final      *)
(* status (engine.go:185-216, 549-563).                                    *)
THEOREM ImplementsRunRecord == Spec => RunRecorded
<1>1. Init => Record!Init
  BY DEF Init, Record!Init
<1>2. EngineInv /\ EngineInv' /\ [Next]_vars => [Record!Next]_<<meta, Plan, Done>>
  BY RecordNext
<1>. QED BY <1>1, <1>2, InductiveEngine, PTL DEF Spec, RunRecorded, Record!Spec, Plan, Done

=============================================================================
