---------------------------- MODULE IngestProofs ----------------------------
(***************************************************************************)
(* What Ingest keeps for any number of callers, files and faults.          *)
(***************************************************************************)
EXTENDS Ingest, TLAPS

(* A fault is spent for good. *)
LEMMA BudgetShrinks ==
  ASSUME TypeOK, BudgetInv, NEW k \in FaultKinds, Suffer(k)
  PROVE  /\ faults' \in [FaultKinds -> Nat] /\ BudgetInv'
         /\ ~Never(k)'
         /\ \A j \in FaultKinds : Never(j)' => Never(j)
<1>1. faults' \in [FaultKinds -> Nat]
  BY DEF TypeOK, Suffer
<1>2. \A j \in FaultKinds : /\ faults[j] \in Nat /\ faults'[j] \in Nat /\ MaxFaults[j] \in Nat
                            /\ faults[j] <= MaxFaults[j] /\ faults'[j] <= faults[j]
  BY <1>1, BudgetAssumption DEF TypeOK, BudgetInv, Suffer
<1>3. \A j \in FaultKinds : faults'[j] <= MaxFaults[j] /\ (faults'[j] = MaxFaults[j] => faults[j] = MaxFaults[j])
  BY <1>2
<1>4. faults'[k] = faults[k] - 1
  BY DEF Suffer, TypeOK
<1>5. faults'[k] # MaxFaults[k]
  BY <1>2, <1>4
<1>. QED BY <1>1, <1>3, <1>5 DEF BudgetInv, Never

LEMMA TypeStep ==
  ASSUME TypeOK, BudgetInv, CallInv, [Next]_vars
  PROVE  TypeOK' /\ BudgetInv' /\ \A j \in FaultKinds : Never(j)' => Never(j)
<1>. USE SourcesAssumption, ContentsAssumption
<1>0. "crash" \in FaultKinds /\ "cancel" \in FaultKinds /\ "modify" \in FaultKinds
      /\ "query" \in FaultKinds /\ "copy" \in FaultKinds /\ "insert" \in FaultKinds
  BY DEF FaultKinds
<1>1. ASSUME NEW k \in FaultKinds, Suffer(k)
      PROVE  faults' \in [FaultKinds -> Nat] /\ BudgetInv' /\ \A j \in FaultKinds : Never(j)' => Never(j)
  BY <1>1, BudgetShrinks
<1>2. ASSUME UNCHANGED faults
      PROVE  faults' \in [FaultKinds -> Nat] /\ BudgetInv' /\ \A j \in FaultKinds : Never(j)' => Never(j)
  BY <1>2 DEF TypeOK, BudgetInv, Never
<1>3. ASSUME NEW a \in Callers, pc[a] # "off"
      PROVE  id[a] \in Contents /\ path[a] \in Sources
  BY <1>3 DEF TypeOK, CallInv
<1>4. CASE UNCHANGED vars
  BY <1>2, <1>4 DEF TypeOK, vars
<1>5. ASSUME NEW a \in Callers, NEW p \in Sources, Hash(a, p) PROVE TypeOK' /\ UNCHANGED faults
  BY <1>5 DEF Hash, TypeOK, Goto, Steps
<1>6. ASSUME NEW a \in Callers, Exists(a)
      PROVE  TypeOK' /\ (UNCHANGED faults \/ Suffer("query"))
  BY <1>6, <1>0, <1>1 DEF Exists, TypeOK, Goto, Return, Steps
<1>7. ASSUME NEW a \in Callers, Create(a)
      PROVE  TypeOK' /\ (UNCHANGED faults \/ Suffer("copy"))
  BY <1>7, <1>0, <1>1, <1>3 DEF Create, TypeOK, Goto, Return, Steps
<1>8. ASSUME NEW a \in Callers, Copy(a)
      PROVE  TypeOK' /\ (UNCHANGED faults \/ Suffer("copy"))
  <2>1. pc[a] = "copy" /\ id[a] \in Contents /\ source[path[a]] \in Contents
    BY <1>8, <1>3 DEF Copy, TypeOK
  <2>2. stored' \in [Contents -> Contents \cup {NoFile, Partial}]
    BY <1>8, <2>1 DEF Copy, TypeOK
  <2>. QED BY <1>8, <1>0, <1>1, <2>2 DEF Copy, TypeOK, Goto, Return, Steps
<1>9. ASSUME NEW a \in Callers, Insert(a)
      PROVE  TypeOK' /\ (UNCHANGED faults \/ Suffer("insert"))
  BY <1>9, <1>0, <1>1, <1>3 DEF Insert, TypeOK, Goto, Return, Steps
<1>10. ASSUME NEW a \in Callers, Remove(a) PROVE TypeOK' /\ UNCHANGED faults
  BY <1>10, <1>3 DEF Remove, TypeOK, Goto, Steps
<1>11. ASSUME NEW a \in Callers, Cancel(a) PROVE TypeOK' /\ Suffer("cancel")
  BY <1>11, <1>0, <1>1 DEF Cancel, TypeOK, call
<1>12. ASSUME NEW a \in Callers, Exit(a) PROVE TypeOK' /\ UNCHANGED faults
  BY <1>12 DEF Exit, TypeOK, call
<1>13. ASSUME NEW a \in Callers, Crash(a) PROVE TypeOK' /\ Suffer("crash")
  BY <1>13, <1>0, <1>1 DEF Crash, Return, Goto, TypeOK, Steps
<1>14. ASSUME NEW p \in Sources, NEW c \in Contents, Modify(p, c) PROVE TypeOK' /\ Suffer("modify")
  BY <1>14, <1>0, <1>1 DEF Modify, TypeOK, call
<1>. QED
  BY <1>0, <1>1, <1>2, <1>4, <1>5, <1>6, <1>7, <1>8, <1>9, <1>10, <1>11, <1>12, <1>13, <1>14 DEF Next

(* A call has its arguments, and unless a source is edited its id is the   *)
(* content the source had from the start.                                  *)
LEMMA CallStep ==
  ASSUME TypeOK, BudgetInv, SourceInv, CallInv, [Next]_vars
  PROVE  SourceInv' /\ CallInv'
<1>. USE SourcesAssumption, ContentsAssumption
<1>1. "modify" \in FaultKinds
  BY DEF FaultKinds
<1>2. Never("modify")' => Never("modify")
  BY <1>1, TypeStep
<1>3. CASE UNCHANGED vars
  BY <1>3 DEF vars, SourceInv, CallInv, Never
<1>4. ASSUME NEW a \in Callers, NEW p \in Sources, Hash(a, p) PROVE SourceInv' /\ CallInv'
  BY <1>4 DEF Hash, Goto, SourceInv, CallInv, Never, TypeOK
<1>5. ASSUME NEW a \in Callers, Return(a), UNCHANGED source
      PROVE  SourceInv' /\ CallInv'
  BY <1>2, <1>5 DEF Return, Goto, SourceInv, CallInv, TypeOK
<1>6. ASSUME NEW a \in Callers, NEW step \in Steps \ {"off"}, pc[a] # "off", Goto(a, step),
             UNCHANGED <<source, path, id>>
      PROVE  SourceInv' /\ CallInv'
  BY <1>2, <1>6 DEF Goto, SourceInv, CallInv, TypeOK
<1>7. ASSUME UNCHANGED <<source, pc, path, id>> PROVE SourceInv' /\ CallInv'
  BY <1>2, <1>7 DEF SourceInv, CallInv
<1>8. ASSUME NEW a \in Callers, Exists(a) PROVE SourceInv' /\ CallInv'
  BY <1>5, <1>6, <1>8 DEF Exists, Steps
<1>9. ASSUME NEW a \in Callers, Create(a) PROVE SourceInv' /\ CallInv'
  BY <1>5, <1>6, <1>9 DEF Create, Steps
<1>10. ASSUME NEW a \in Callers, Copy(a) PROVE SourceInv' /\ CallInv'
  BY <1>5, <1>6, <1>10 DEF Copy, Steps
<1>11. ASSUME NEW a \in Callers, Insert(a) PROVE SourceInv' /\ CallInv'
  BY <1>5, <1>6, <1>11 DEF Insert, Steps
<1>12. ASSUME NEW a \in Callers, Remove(a) PROVE SourceInv' /\ CallInv'
  BY <1>2, <1>12 DEF Remove, Goto, SourceInv, CallInv, TypeOK
<1>13. ASSUME NEW a \in Callers, Crash(a) PROVE SourceInv' /\ CallInv'
  BY <1>5, <1>13 DEF Crash
<1>14. ASSUME NEW a \in Callers, Cancel(a) \/ Exit(a) PROVE SourceInv' /\ CallInv'
  BY <1>7, <1>14 DEF Cancel, Exit, call
<1>15. ASSUME NEW p \in Sources, NEW c \in Contents, Modify(p, c) PROVE SourceInv' /\ CallInv'
  <2>1. ~Never("modify")'
    BY <1>1, <1>15, BudgetShrinks DEF Modify
  <2>. QED BY <1>15, <2>1 DEF Modify, call, SourceInv, CallInv
<1>. QED
  BY <1>3, <1>4, <1>8, <1>9, <1>10, <1>11, <1>12, <1>13, <1>14, <1>15 DEF Next

(* Two calls at a content only one caller is given are one call.           *)
LEMMA AloneApart ==
  ASSUME TypeOK, CallInv, Never("modify"), NEW a \in Callers, NEW b \in Callers,
         id[a] # None, id[a] = id[b], Alone(id[a])
  PROVE  a = b
<1>1. /\ path[a] \in Args[a] /\ InitContent[path[a]] = id[a]
      /\ path[b] \in Args[b] /\ InitContent[path[b]] = id[a]
  BY DEF CallInv
<1>. QED BY <1>1 DEF Alone

(* The copy of a row is written before the row, by a call that has its     *)
(* content for itself, and by no call after it.                            *)
LEMMA WriteStep ==
  ASSUME IngestInv, [Next]_vars
  PROVE  WriteInv' /\ RowsStored'
<1>. USE ContentsAssumption DEF IngestInv
<1>0. "crash" \in FaultKinds /\ "cancel" \in FaultKinds /\ "modify" \in FaultKinds
      /\ "query" \in FaultKinds /\ "copy" \in FaultKinds /\ "insert" \in FaultKinds
  BY DEF FaultKinds
<1>1. SUFFICES ASSUME Never("cancel")', Never("query")', Never("modify")'
      PROVE  WriteInv' /\ RowsStored'
  BY DEF WriteInv, RowsStored
<1>2. Never("cancel") /\ Never("query") /\ Never("modify")
  BY <1>0, <1>1, TypeStep
<1>3. ~Suffer("cancel") /\ ~Suffer("query") /\ ~Suffer("modify")
  BY <1>0, <1>1, BudgetShrinks
<1>4. \A a \in Callers : ~cancelled[a]
  BY <1>2 DEF WriteInv
<1>5. \A c \in rows : Alone(c) => stored[c] = c
  BY <1>2 DEF RowsStored
<1>6. \A a \in Callers : pc[a] \notin {"off", "exists"} /\ Alone(id[a]) =>
        id[a] \notin rows /\ (pc[a] = "copy" => linked[a]) /\ (pc[a] = "insert" => stored[id[a]] = id[a])
  BY <1>2 DEF WriteInv
<1>7. ASSUME NEW a \in Callers, pc[a] # "off"
      PROVE  id[a] \in Contents /\ id[a] = source[path[a]]
  BY <1>2, <1>7 DEF TypeOK, CallInv, SourceInv
<1>8. ASSUME NEW a \in Callers, NEW b \in Callers, a # b, pc[a] # "off", Alone(id[a])
      PROVE  id[b] # id[a]
  BY <1>2, <1>7, <1>8, AloneApart
<1>. DEFINE Written(a) == pc[a] \notin {"off", "exists"} /\ Alone(id[a]) =>
              id[a] \notin rows /\ (pc[a] = "copy" => linked[a]) /\ (pc[a] = "insert" => stored[id[a]] = id[a])
            Good == /\ \A a \in Callers : ~cancelled[a]
                    /\ \A a \in Callers : Written(a)
                    /\ \A c \in rows : Alone(c) => stored[c] = c
<1>9. SUFFICES Good'
  BY <1>1 DEF WriteInv, RowsStored, Alone
<1>. HIDE DEF Good
<1>10. Good
  BY <1>4, <1>5, <1>6 DEF Good
<1>11. ASSUME UNCHANGED <<stored, rows, pc, id, linked, cancelled>> PROVE Good'
  BY <1>10, <1>11 DEF Good, Alone
<1>12. ASSUME NEW a \in Callers, Return(a), UNCHANGED <<stored, rows, cancelled>> PROVE Good'
  BY <1>10, <1>12 DEF Good, Alone, Return, Goto, TypeOK
<1>13. ASSUME NEW a \in Callers, NEW p \in Sources, Hash(a, p) PROVE Good'
  BY <1>10, <1>13 DEF Good, Alone, Hash, Goto, TypeOK
<1>14. ASSUME NEW a \in Callers, Exists(a) PROVE Good'
  <2>1. CASE Return(a)
    BY <1>12, <1>14, <2>1 DEF Exists
  <2>2. CASE ~Known(a) /\ Goto(a, "create") /\ UNCHANGED <<path, id, linked>>
    BY <1>10, <1>14, <2>2 DEF Good, Alone, Exists, Known, Goto, TypeOK
  <2>. QED BY <1>3, <1>4, <1>14, <2>1, <2>2 DEF Exists
<1>15. ASSUME NEW a \in Callers, Create(a) PROVE Good'
  <2>1. CASE Return(a) /\ UNCHANGED stored
    BY <1>12, <1>15, <2>1 DEF Create
  <2>2. CASE /\ stored' = [stored EXCEPT ![id[a]] = Partial]
             /\ linked' = [linked EXCEPT ![a] = TRUE]
             /\ Goto(a, "copy") /\ UNCHANGED <<path, id>>
    <3>1. pc[a] = "create" /\ id[a] \in Contents /\ UNCHANGED <<rows, cancelled>>
      BY <1>7, <1>15 DEF Create
    <3>2. ASSUME NEW b \in Callers PROVE Written(b)'
      BY <1>6, <1>8, <2>2, <3>1, <3>2 DEF Alone, Goto, TypeOK
    <3>3. \A c \in rows : Alone(c) => stored'[c] = c
      BY <1>5, <1>6, <2>2, <3>1 DEF TypeOK
    <3>. QED BY <1>4, <3>1, <3>2, <3>3 DEF Good, Alone
  <2>. QED BY <1>15, <2>1, <2>2 DEF Create
<1>16. ASSUME NEW a \in Callers, Copy(a) PROVE Good'
  <2>1. CASE Return(a) /\ UNCHANGED stored
    BY <1>12, <1>16, <2>1 DEF Copy
  <2>2. CASE /\ stored' = [stored EXCEPT ![id[a]] = IF linked[a] THEN source[path[a]] ELSE @]
             /\ Goto(a, "insert") /\ UNCHANGED <<path, id, linked>>
    <3>1. /\ pc[a] = "copy" /\ id[a] \in Contents /\ source[path[a]] = id[a]
          /\ UNCHANGED <<rows, cancelled>>
      BY <1>7, <1>16 DEF Copy
    <3>2. ASSUME NEW b \in Callers PROVE Written(b)'
      <4>1. CASE b = a
        BY <1>6, <2>2, <3>1, <4>1 DEF Alone, Goto, TypeOK
      <4>2. CASE b # a
        <5>1. pc'[b] = pc[b] /\ id'[b] = id[b] /\ linked'[b] = linked[b]
          BY <2>2, <4>2 DEF Goto, TypeOK
        <5>2. pc[b] # "off" /\ Alone(id[b]) => stored'[id[b]] = stored[id[b]]
          BY <1>7, <1>8, <2>2, <3>1, <4>2 DEF TypeOK
        <5>. QED BY <1>6, <3>1, <5>1, <5>2 DEF Alone
      <4>. QED BY <4>1, <4>2
    <3>3. \A c \in rows : Alone(c) => stored'[c] = c
      BY <1>5, <1>6, <2>2, <3>1 DEF TypeOK
    <3>. QED BY <1>4, <3>1, <3>2, <3>3 DEF Good, Alone
  <2>. QED BY <1>16, <2>1, <2>2 DEF Copy
<1>17. ASSUME NEW a \in Callers, Insert(a) PROVE Good'
  <2>1. CASE rows' = rows \cup {id[a]} /\ Return(a)
    <3>1. pc[a] = "insert" /\ id[a] \in Contents /\ UNCHANGED <<stored, cancelled>>
      BY <1>7, <1>17 DEF Insert
    <3>2. ASSUME NEW b \in Callers PROVE Written(b)'
      <4>1. CASE b = a
        BY <2>1, <4>1 DEF Return, Goto, TypeOK
      <4>2. CASE b # a
        <5>1. pc'[b] = pc[b] /\ id'[b] = id[b] /\ linked'[b] = linked[b]
          BY <2>1, <4>2 DEF Return, Goto, TypeOK
        <5>2. pc[b] # "off" /\ Alone(id[b]) => id[b] # id[a]
          BY <1>8, <4>2
        <5>. QED BY <1>6, <2>1, <3>1, <5>1, <5>2 DEF Alone
      <4>. QED BY <4>1, <4>2
    <3>3. \A c \in rows' : Alone(c) => stored[c] = c
      BY <1>5, <1>6, <2>1, <3>1
    <3>. QED BY <1>4, <3>1, <3>2, <3>3 DEF Good, Alone
  <2>2. CASE Goto(a, "remove") /\ UNCHANGED <<rows, path, id, linked>>
    BY <1>10, <1>17, <2>2 DEF Good, Alone, Insert, Goto, TypeOK
  <2>. QED BY <1>17, <2>1, <2>2 DEF Insert
<1>18. ASSUME NEW a \in Callers, Remove(a) PROVE Good'
  <2>1. pc[a] = "remove" /\ id[a] \in Contents /\ UNCHANGED <<rows, cancelled>>
    BY <1>7, <1>18 DEF Remove
  <2>2. ASSUME NEW b \in Callers PROVE Written(b)'
    <3>1. CASE b = a
      BY <1>18, <3>1 DEF Remove, Goto, TypeOK
    <3>2. CASE b # a
      <4>1. pc'[b] = pc[b] /\ id'[b] = id[b]
        BY <1>18, <3>2 DEF Remove, Goto, TypeOK
      <4>2. pc[b] # "off" /\ Alone(id[b]) => stored'[id[b]] = stored[id[b]] /\ linked'[b] = linked[b]
        BY <1>7, <1>8, <1>18, <2>1, <3>2 DEF Remove, TypeOK
      <4>. QED BY <1>6, <2>1, <4>1, <4>2 DEF Alone
    <3>. QED BY <3>1, <3>2
  <2>3. \A c \in rows : Alone(c) => stored'[c] = c
    BY <1>5, <1>6, <1>18, <2>1 DEF Remove, TypeOK
  <2>. QED BY <1>4, <2>1, <2>2, <2>3 DEF Good, Alone
<1>19. ASSUME NEW a \in Callers, Crash(a) PROVE Good'
  <2>1. cancelled' = cancelled
    BY <1>4, <1>19 DEF Crash, TypeOK
  <2>. QED BY <1>12, <1>19, <2>1 DEF Crash
<1>20. ASSUME NEW a \in Callers, Exit(a) PROVE Good'
  BY <1>4, <1>20 DEF Exit
<1>21. ASSUME NEW a \in Callers, Cancel(a) PROVE Good'
  BY <1>3, <1>21 DEF Cancel
<1>22. ASSUME NEW p \in Sources, NEW c \in Contents, Modify(p, c) PROVE Good'
  BY <1>3, <1>22 DEF Modify
<1>23. CASE UNCHANGED vars
  BY <1>11, <1>23 DEF vars
<1>. QED
  BY <1>13, <1>14, <1>15, <1>16, <1>17, <1>18, <1>19, <1>20, <1>21, <1>22, <1>23 DEF Next

(* The invariant of Ingest, for every number of callers, whatever they are *)
(* given, and every budget of faults (orchestrator.go:97-186).             *)
THEOREM InductiveIngest == Spec => []IngestInv
<1>1. Init => IngestInv
  BY SourcesAssumption, BudgetAssumption, ContentsAssumption
     DEF Init, IngestInv, TypeOK, BudgetInv, SourceInv, CallInv, WriteInv, RowsStored, Steps
<1>2. IngestInv /\ [Next]_vars => IngestInv'
  BY TypeStep, CallStep, WriteStep DEF IngestInv
<1>. QED BY <1>1, <1>2, PTL DEF Spec

(* A row has its copy, whole, of every content only one caller ingests,    *)
(* through any crashes, failed copies and failed inserts                   *)
(* (orchestrator.go:134-155).                                              *)
THEOREM RowsStoredHolds == Spec => []RowsStored
BY InductiveIngest, PTL DEF IngestInv

(* No copy is left behind without a row unless a process crashed or a copy *)
(* failed, also when several callers ingest one content                    *)
(* (orchestrator.go:151-155).                                              *)
THEOREM CleanedUpHolds == Spec => []CleanedUp
<1>. USE ContentsAssumption
<1>1. Init => CleanedUp
  BY DEF Init, CleanedUp
<1>2. ASSUME IngestInv, CleanedUp, [Next]_vars PROVE CleanedUp'
  <2>. USE DEF IngestInv
  <2>1. "crash" \in FaultKinds /\ "copy" \in FaultKinds
    BY DEF FaultKinds
  <2>2. SUFFICES ASSUME Never("crash")', Never("copy")', NEW c \in Contents, stored'[c] # NoFile,
                        c \notin rows'
        PROVE  \E a \in Callers : id'[a] = c
    BY DEF CleanedUp
  <2>3. Never("crash") /\ Never("copy") /\ ~Suffer("crash") /\ ~Suffer("copy")
    BY <1>2, <2>1, <2>2, TypeStep, BudgetShrinks
  <2>4. \A a \in Callers : pc[a] # "off" => id[a] \in Contents
    BY <1>2 DEF CallInv, TypeOK
  <2>5. stored[c] # NoFile /\ c \notin rows => \E a \in Callers : id[a] = c /\ pc[a] # "off"
    BY <1>2, <2>3 DEF CleanedUp, CallInv
  <2>6. ASSUME UNCHANGED <<stored, rows, id>> PROVE \E a \in Callers : id'[a] = c
    BY <2>2, <2>5, <2>6
  <2>7. ASSUME NEW a \in Callers, stored[c] # NoFile, c \notin rows,
               \A b \in Callers : b # a => id'[b] = id[b], id[a] = c /\ pc[a] # "off" => id'[a] = c
        PROVE  \E b \in Callers : id'[b] = c
    <3>1. PICK b \in Callers : id[b] = c /\ pc[b] # "off"
      BY <2>5, <2>7
    <3>2. id'[b] = c
      BY <2>7, <3>1
    <3>. QED BY <3>2
  <2>8. ASSUME NEW a \in Callers, Return(a), stored[c] # NoFile, c \notin rows, id[a] # c
        PROVE  \E b \in Callers : id'[b] = c
    BY <1>2, <2>7, <2>8 DEF Return, TypeOK
  <2>9. CASE \E a \in Callers, p \in Sources : Hash(a, p)
    <3>1. PICK a \in Callers, p \in Sources : Hash(a, p)
      BY <2>9
    <3>2. pc[a] = "off" /\ (\A b \in Callers : b # a => id'[b] = id[b]) /\ UNCHANGED <<stored, rows>>
      BY <1>2, <3>1 DEF Hash, TypeOK
    <3>. QED BY <2>2, <2>7, <3>2
  <2>10. ASSUME NEW a \in Callers, Exists(a) PROVE \E b \in Callers : id'[b] = c
    <3>1. UNCHANGED <<stored, rows>>
      BY <2>10 DEF Exists
    <3>2. CASE Known(a) /\ Return(a)
      BY <2>2, <2>8, <3>1, <3>2 DEF Known
    <3>3. CASE UNCHANGED id
      BY <2>2, <2>6, <3>1, <3>3
    <3>. QED BY <2>10, <3>2, <3>3 DEF Exists
  <2>11. ASSUME NEW a \in Callers, Create(a) \/ Copy(a) PROVE \E b \in Callers : id'[b] = c
    <3>1. /\ UNCHANGED <<rows, id>> /\ pc[a] # "off"
          /\ \A d \in Contents : d # id[a] => stored'[d] = stored[d]
      BY <1>2, <2>3, <2>11 DEF Create, Copy, TypeOK
    <3>2. CASE id[a] = c
      BY <3>1, <3>2
    <3>3. CASE id[a] # c
      BY <2>2, <2>7, <3>1, <3>3
    <3>. QED BY <3>2, <3>3
  <2>12. ASSUME NEW a \in Callers, Insert(a) PROVE \E b \in Callers : id'[b] = c
    <3>1. UNCHANGED stored /\ rows \subseteq rows'
      BY <2>12 DEF Insert
    <3>2. CASE id[a] \in rows' /\ Return(a)
      BY <2>2, <2>8, <3>1, <3>2
    <3>3. CASE UNCHANGED <<rows, id>>
      BY <2>2, <2>6, <3>1, <3>3
    <3>. QED BY <2>12, <3>2, <3>3 DEF Insert
  <2>13. ASSUME NEW a \in Callers, Remove(a) PROVE \E b \in Callers : id'[b] = c
    <3>1. /\ id[a] \in Contents /\ UNCHANGED rows
          /\ stored' = [stored EXCEPT ![id[a]] = NoFile] /\ id' = [id EXCEPT ![a] = None]
      BY <2>4, <2>13 DEF Remove
    <3>2. id[a] # c /\ stored[c] # NoFile
      BY <1>2, <2>2, <3>1 DEF TypeOK
    <3>3. \A b \in Callers : b # a => id'[b] = id[b]
      BY <1>2, <3>1 DEF TypeOK
    <3>. QED BY <2>2, <2>7, <3>1, <3>2, <3>3
  <2>14. ASSUME NEW a \in Callers, Cancel(a) \/ Exit(a) PROVE \E b \in Callers : id'[b] = c
    BY <2>6, <2>14 DEF Cancel, Exit, call
  <2>15. ASSUME NEW a \in Callers, Crash(a) PROVE \E b \in Callers : id'[b] = c
    BY <2>3, <2>15 DEF Crash
  <2>16. ASSUME NEW p \in Sources, NEW d \in Contents, Modify(p, d) PROVE \E b \in Callers : id'[b] = c
    BY <2>6, <2>16 DEF Modify, call
  <2>17. CASE UNCHANGED vars
    BY <2>6, <2>17 DEF vars
  <2>. QED
    BY <1>2, <2>9, <2>10, <2>11, <2>12, <2>13, <2>14, <2>15, <2>16, <2>17 DEF Next
<1>. QED BY <1>1, <1>2, InductiveIngest, PTL DEF Spec

=============================================================================
