----------------------------- MODULE BusProofs -----------------------------
(***************************************************************************)
(* What the bus keeps for any tasks, workers, zones and faults.            *)
(***************************************************************************)
EXTENDS HorosBus, TLAPS

LEMMA InitBus == Init => BusInv
<1>. SUFFICES ASSUME Init PROVE BusInv
  OBVIOUS
<1>1. TypeOK
  BY FaultsAssumption DEF Init, TypeOK
<1>2. ClaimInv /\ ClaimedOnce /\ NotForgotten
  BY WorkersAssumption DEF Init, ClaimInv, ClaimedOnce, NotForgotten
<1>. QED BY <1>1, <1>2 DEF BusInv

LEMMA TypeNext == BusInv /\ [Next]_vars => TypeOK'
<1>. SUFFICES ASSUME TypeOK, ClaimInv, [Next]_vars PROVE TypeOK'
  BY DEF BusInv
<1>. USE DEF TypeOK, Suffer, Committed, Write, Idle, Unlock, Rollback
<1>1. ASSUME NEW t \in Tasks, NEW second \in Seconds, SubmitTask(t, second) PROVE TypeOK'
  BY <1>1, SecondsAssumption DEF SubmitTask
<1>2. ASSUME NEW w \in Workers, NEW t \in Tasks, SelectPending(w, t) PROVE TypeOK'
  BY <1>2 DEF SelectPending
<1>3. ASSUME NEW w \in Workers, NEW t \in Tasks, CompleteTask(w, t) \/ FailTask(w, t) PROVE TypeOK'
  <2>1. PICK final \in {"completed", "failed"} : Report(w, t, final)
    BY <1>3 DEF CompleteTask, FailTask
  <2>. QED BY <2>1 DEF Report
<1>4. ASSUME NEW w \in Workers, UpdateTask(w) PROVE TypeOK'
  BY <1>4 DEF UpdateTask
<1>5. ASSUME NEW w \in Workers, ClaimFails(w) PROVE TypeOK'
  BY <1>5, FaultsAssumption DEF ClaimFails
<1>6. ASSUME NEW w \in Workers, CommitClaim(w) PROVE TypeOK'
  BY <1>6 DEF CommitClaim, ClaimInv
<1>7. ASSUME NEW w \in Workers, Crash(w) PROVE TypeOK'
  BY <1>7, FaultsAssumption DEF Crash
<1>8. ASSUME NEW w \in Workers, SendHeartbeat(w) \/ MarkDead(w) \/ Deregister(w) PROVE TypeOK'
  BY <1>8 DEF SendHeartbeat, MarkDead, Deregister, Beat
<1>9. CASE Log \/ UNCHANGED vars
  BY <1>9 DEF Log, vars
<1>. QED BY <1>1, <1>2, <1>3, <1>4, <1>5, <1>6, <1>7, <1>8, <1>9 DEF Next

-----------------------------------------------------------------------------
(* A snapshot that is still the latest one stays what it was when no task   *)
(* changes.                                                                 *)
LEMMA SameTasks ==
  ASSUME NEW w \in Workers, UNCHANGED <<status, created>>, seen'[w] = seen[w], First(seen[w], ZoneOf[w])
  PROVE  First(seen[w], ZoneOf[w])'
BY DEF First, PendingIn

LEMMA ClaimNext == BusInv /\ [Next]_vars => ClaimInv'
<1>. SUFFICES ASSUME TypeOK, ClaimInv, [Next]_vars PROVE ClaimInv'
  BY DEF BusInv
<1>. USE DEF Suffer, Committed, Write, Idle, Unlock, Rollback
(* A commit makes every other snapshot an old one. *)
<1>1. ASSUME NEW v \in Workers \cup {Nobody}, lock \in {v, Nobody}, lock' = Nobody, Committed,
             \A w \in Workers \ {v} : pc'[w] = pc[w] /\ seen'[w] = seen[w],
             v \in Workers => pc'[v] = "idle"
      PROVE  ClaimInv'
  BY <1>1, WorkersAssumption DEF ClaimInv, TypeOK
<1>2. ASSUME UNCHANGED <<pc, seen, lock>>, lock = Nobody, Committed PROVE ClaimInv'
  BY <1>2, WorkersAssumption DEF ClaimInv, TypeOK
<1>3. ASSUME NEW t \in Tasks, NEW second \in Seconds, SubmitTask(t, second) PROVE ClaimInv'
  BY <1>3, <1>2 DEF SubmitTask
<1>4. ASSUME NEW w \in Workers, NEW t \in Tasks, SelectPending(w, t) PROVE ClaimInv'
  <2>1. /\ pc'[w] = "selected" /\ seen'[w] = t /\ lock' = lock /\ pc[w] = "idle"
        /\ \A v \in Workers \ {w} : pc'[v] = pc[v] /\ seen'[v] = seen[v] /\ fresh'[v] = fresh[v]
    BY <1>4 DEF SelectPending, TypeOK
  <2>2. First(t, ZoneOf[w])'
    BY <1>4 DEF SelectPending, First, PendingIn
  <2>3. \A v \in Workers \ {w} : First(seen[v], ZoneOf[v]) => First(seen[v], ZoneOf[v])'
    BY <1>4, <2>1, SameTasks DEF SelectPending
  <2>4. First(seen[w], ZoneOf[w])'
    BY <2>1, <2>2 DEF First, PendingIn
  <2>. QED BY <2>1, <2>3, <2>4 DEF ClaimInv
<1>5. ASSUME NEW w \in Workers, NEW t \in Tasks, CompleteTask(w, t) \/ FailTask(w, t) PROVE ClaimInv'
  BY <1>5, <1>2 DEF CompleteTask, FailTask, Report
<1>6. ASSUME NEW w \in Workers, UpdateTask(w) PROVE ClaimInv'
  <2>1. \A v \in Workers : First(seen[v], ZoneOf[v]) => First(seen[v], ZoneOf[v])'
    BY <1>6, SameTasks DEF UpdateTask
  <2>. QED BY <1>6, <2>1, WorkersAssumption DEF UpdateTask, ClaimInv, TypeOK
<1>7. ASSUME NEW w \in Workers, Rollback(w), UNCHANGED <<status, created>> PROVE ClaimInv'
  <2>1. \A v \in Workers \ {w} : First(seen[v], ZoneOf[v]) => First(seen[v], ZoneOf[v])'
    BY <1>7, SameTasks DEF TypeOK
  <2>. QED BY <1>7, <2>1, WorkersAssumption DEF ClaimInv, TypeOK
<1>8. ASSUME NEW w \in Workers, ClaimFails(w) \/ Crash(w) PROVE ClaimInv'
  BY <1>7, <1>8 DEF ClaimFails, Crash
<1>9. ASSUME NEW w \in Workers, CommitClaim(w) PROVE ClaimInv'
  <2>1. lock = w
    BY <1>9 DEF CommitClaim, ClaimInv
  <2>. QED BY <1>1, <1>9, <2>1 DEF CommitClaim, TypeOK
<1>10. ASSUME NEW w \in Workers, SendHeartbeat(w) \/ MarkDead(w) \/ Deregister(w) PROVE ClaimInv'
  BY <1>10, <1>2 DEF SendHeartbeat, MarkDead, Deregister, Beat
<1>11. CASE Log
  BY <1>11, <1>2 DEF Log
<1>12. CASE UNCHANGED vars
  <2>1. \A v \in Workers : First(seen[v], ZoneOf[v]) => First(seen[v], ZoneOf[v])'
    BY <1>12, SameTasks DEF vars
  <2>. QED BY <1>12, <2>1 DEF vars, ClaimInv
<1>. QED BY <1>3, <1>4, <1>5, <1>6, <1>8, <1>9, <1>10, <1>11, <1>12 DEF Next

LEMMA HeldNext == BusInv /\ [Next]_vars => ClaimedOnce' /\ NotForgotten'
<1>. SUFFICES ASSUME TypeOK, ClaimInv, ClaimedOnce, NotForgotten, [Next]_vars PROVE ClaimedOnce' /\ NotForgotten'
  BY DEF BusInv
<1>. USE DEF Suffer, Committed, Write, Idle, Unlock, Rollback
<1>1. ASSUME UNCHANGED <<status, owner, held>>, faults' = faults \/ faults' # MaxFaults PROVE ClaimedOnce' /\ NotForgotten'
  BY <1>1 DEF ClaimedOnce, NotForgotten
<1>2. Suffer => faults' # MaxFaults
  BY FaultsAssumption DEF TypeOK
<1>3. ASSUME NEW t \in Tasks, NEW second \in Seconds, SubmitTask(t, second) PROVE ClaimedOnce' /\ NotForgotten'
  <2>1. /\ status[t] = "none" /\ status'[t] = "pending" /\ UNCHANGED <<owner, held, faults>>
        /\ \A u \in Tasks \ {t} : status'[u] = status[u]
    BY <1>3 DEF SubmitTask, TypeOK
  <2>. QED BY <2>1 DEF ClaimedOnce, NotForgotten, TypeOK
<1>4. ASSUME NEW w \in Workers, NEW t \in Tasks, CompleteTask(w, t) \/ FailTask(w, t) PROVE ClaimedOnce' /\ NotForgotten'
  <2>1. /\ t \in held[w] /\ status'[t] # "running" /\ UNCHANGED <<owner, faults>>
        /\ \A u \in Tasks \ {t} : status'[u] = status[u]
        /\ held'[w] = held[w] \ {t} /\ \A v \in Workers \ {w} : held'[v] = held[v]
    BY <1>4 DEF CompleteTask, FailTask, Report, TypeOK
  <2>. QED BY <2>1 DEF ClaimedOnce, NotForgotten, TypeOK
<1>5. ASSUME NEW w \in Workers, CommitClaim(w) PROVE ClaimedOnce' /\ NotForgotten'
  <2>. DEFINE t == seen[w]
  <2>1. t \in Tasks /\ status[t] = "pending"
    BY <1>5 DEF CommitClaim, ClaimInv, First, PendingIn
  <2>2. /\ status'[t] = "running" /\ owner'[t] = w /\ faults' = faults
        /\ \A u \in Tasks \ {t} : status'[u] = status[u] /\ owner'[u] = owner[u]
        /\ held'[w] = held[w] \cup {t} /\ \A v \in Workers \ {w} : held'[v] = held[v]
    BY <1>5, <2>1 DEF CommitClaim, TypeOK
  <2>3. \A v \in Workers : t \notin held[v]
    BY <2>1 DEF ClaimedOnce
  <2>. QED BY <2>1, <2>2, <2>3, WorkersAssumption DEF ClaimedOnce, NotForgotten, TypeOK
<1>6. ASSUME NEW w \in Workers, Crash(w) PROVE ClaimedOnce' /\ NotForgotten'
  <2>1. /\ UNCHANGED <<status, owner>> /\ faults' # MaxFaults
        /\ held'[w] = {} /\ \A v \in Workers \ {w} : held'[v] = held[v]
    BY <1>2, <1>6 DEF Crash, TypeOK
  <2>. QED BY <2>1 DEF ClaimedOnce, NotForgotten
<1>7. ASSUME NEW w \in Workers, \/ \E t \in Tasks : SelectPending(w, t)
                               \/ UpdateTask(w) \/ ClaimFails(w) \/ SendHeartbeat(w) \/ MarkDead(w) \/ Deregister(w)
      PROVE  ClaimedOnce' /\ NotForgotten'
  BY <1>1, <1>2, <1>7 DEF SelectPending, UpdateTask, ClaimFails, SendHeartbeat, MarkDead, Deregister, Beat
<1>8. CASE Log \/ UNCHANGED vars
  BY <1>1, <1>8 DEF Log, vars
<1>. QED BY <1>3, <1>4, <1>5, <1>6, <1>7, <1>8 DEF Next

-----------------------------------------------------------------------------
(* The inductive invariant of the bus holds throughout.                     *)
THEOREM InductiveBus == Spec => []BusInv
<1>1. BusInv /\ [Next]_vars => BusInv'
  BY TypeNext, ClaimNext, HeldNext DEF BusInv
<1>. QED BY InitBus, <1>1, PTL DEF Spec

(* Two workers never have the same task, however their transactions overlap *)
(* (bus.go:152-193).                                                        *)
THEOREM ClaimedOnceHolds == Spec => []ClaimedOnce
BY InductiveBus, PTL DEF BusInv

(* Without a crash or a failed call no running task is forgotten            *)
(* (bus.go:175-192).                                                        *)
THEOREM NotForgottenHolds == Spec => []NotForgotten
BY InductiveBus, PTL DEF BusInv

-----------------------------------------------------------------------------
(* The state of the queue in the tables. *)
Waiting == {t \in Tasks : status[t] = "pending"}
Taken == [w \in Workers |-> {t \in Tasks : status[t] = "running" /\ owner[t] = w}]
Ended == {t \in Tasks : status[t] \in {"completed", "failed"}}

LEMMA QueueNext ==
  ASSUME BusInv, BusInv', [Next]_vars
  PROVE  [Queue!Next]_<<created, Waiting, Taken, Ended>>
<1>. USE DEF Waiting, Taken, Ended
<1>0. TypeOK /\ ClaimInv /\ ClaimedOnce
  BY DEF BusInv
<1>1. ASSUME UNCHANGED <<status, created, owner>> PROVE UNCHANGED <<created, Waiting, Taken, Ended>>
  BY <1>1
<1>2. ASSUME NEW t \in Tasks, NEW second \in Seconds, SubmitTask(t, second) PROVE Queue!Submit(t)
  <2>1. /\ status[t] = "none" /\ status' = [status EXCEPT ![t] = "pending"] /\ UNCHANGED owner
        /\ created' = [created EXCEPT ![t] = second] /\ second \in Nat
    BY <1>2, SecondsAssumption DEF SubmitTask
  <2>2. Waiting' = Waiting \cup {t} /\ Taken' = Taken /\ Ended' = Ended
    BY <1>0, <2>1 DEF TypeOK
  <2>3. created'[t] = second
    BY <1>0, <2>1 DEF TypeOK
  <2>4. t \notin Waiting \cup Ended \cup UNION {Taken[w] : w \in Workers}
    BY <2>1
  <2>. QED BY <2>1, <2>2, <2>3, <2>4 DEF Queue!Submit, Queue!Known
<1>3. ASSUME NEW w \in Workers, NEW t \in Tasks, CompleteTask(w, t) \/ FailTask(w, t) PROVE Queue!End(w, t)
  <2>1. PICK final \in {"completed", "failed"} : status' = [status EXCEPT ![t] = final]
    BY <1>3 DEF CompleteTask, FailTask, Report
  <2>2. UNCHANGED <<owner, created>> /\ status[t] = "running" /\ owner[t] = w
    BY <1>0, <1>3 DEF CompleteTask, FailTask, Report, ClaimedOnce
  <2>3. Waiting' = Waiting /\ Ended' = Ended \cup {t}
    BY <1>0, <2>1, <2>2 DEF TypeOK
  <2>4. Taken' = [Taken EXCEPT ![w] = @ \ {t}]
    BY ZenonT(60), <1>0, <2>1, <2>2 DEF TypeOK
  <2>. QED BY <2>2, <2>3, <2>4 DEF Queue!End
<1>4. ASSUME NEW w \in Workers, NEW t \in Tasks, t = seen[w], CommitClaim(w) PROVE Queue!Take(w, t)
  <2>1. First(t, ZoneOf[w])
    BY <1>0, <1>4 DEF CommitClaim, ClaimInv
  <2>2. /\ status' = [status EXCEPT ![t] = "running"] /\ owner' = [owner EXCEPT ![t] = w] /\ UNCHANGED created
        /\ status[t] = "pending"
    BY <1>4, <2>1 DEF CommitClaim, First, PendingIn
  <2>3. Waiting' = Waiting \ {t} /\ Ended' = Ended
    BY <1>0, <2>1, <2>2 DEF TypeOK
  <2>4. Taken' = [Taken EXCEPT ![w] = @ \cup {t}]
    <3>1. \A v \in Workers : Taken'[v] = IF v = w THEN Taken[v] \cup {t} ELSE Taken[v]
      BY <1>0, <2>1, <2>2 DEF TypeOK
    <3>. QED BY <3>1
  <2>5. t \in Waiting /\ ZoneOf[t] = ZoneOf[w] /\ \A u \in Waiting : ZoneOf[u] = ZoneOf[w] => created[t] <= created[u]
    BY <2>1 DEF First, PendingIn
  <2>. QED BY <2>2, <2>3, <2>4, <2>5 DEF Queue!Take
<1>5. ASSUME NEW w \in Workers, \/ \E t \in Tasks : SelectPending(w, t)
                               \/ UpdateTask(w) \/ ClaimFails(w) \/ Crash(w)
                               \/ SendHeartbeat(w) \/ MarkDead(w) \/ Deregister(w)
      PROVE  UNCHANGED <<created, Waiting, Taken, Ended>>
  BY <1>1, <1>5 DEF SelectPending, UpdateTask, ClaimFails, Crash, SendHeartbeat, MarkDead, Deregister, Beat
<1>6. CASE Log \/ UNCHANGED vars
  BY <1>1, <1>6 DEF Log, vars
<1>7. ASSUME NEW w \in Workers, CommitClaim(w) PROVE seen[w] \in Tasks
  BY <1>0, <1>7 DEF CommitClaim, ClaimInv
<1>8. ASSUME \E t \in Tasks, second \in Seconds : SubmitTask(t, second) PROVE Queue!Next
  BY <1>2, <1>8 DEF Queue!Next
<1>9. ASSUME \E w \in Workers, t \in Tasks : CompleteTask(w, t) \/ FailTask(w, t) PROVE Queue!Next
  BY <1>3, <1>9 DEF Queue!Next
<1>10. ASSUME \E w \in Workers : CommitClaim(w) PROVE Queue!Next
  <2>1. PICK w \in Workers : CommitClaim(w)
    BY <1>10
  <2>2. PICK t \in Tasks : t = seen[w]
    BY <1>7, <2>1
  <2>3. Queue!Take(w, t)
    BY <1>4, <2>1, <2>2
  <2>. QED BY <2>3 DEF Queue!Next
<1>. HIDE DEF Waiting, Taken, Ended
<1>. QED BY <1>5, <1>6, <1>8, <1>9, <1>10 DEF Next

(* The bus implements the queue of tasks: a claim is one step that takes an *)
(* oldest task of the zone (bus.go:132-218).                                *)
THEOREM ImplementsQueue == Spec => QueueKept
<1>1. Init => Queue!Init
  BY DEF Init, Queue!Init
<1>2. BusInv /\ BusInv' /\ [Next]_vars => [Queue!Next]_<<created, Waiting, Taken, Ended>>
  BY QueueNext
<1>. QED BY <1>1, <1>2, InductiveBus, PTL DEF Spec, QueueKept, Queue!Spec, Waiting, Taken, Ended

=============================================================================
