------------------------------ MODULE HorosBus ------------------------------
(***************************************************************************)
(* horosbus.Bus: processes that share a SQLite file with the tasks and the *)
(* heartbeats of the workers.  Every operation is one statement, and       *)
(* commits by itself, except ClaimTask: a deferred transaction that reads  *)
(* the oldest pending task of a zone and updates its row without looking   *)
(* at the row's status again.                                              *)
(*                                                                         *)
(* External to the package is SQLite in WAL mode: a transaction reads from *)
(* the snapshot of its first read, one connection at a time may write, and *)
(* a transaction whose snapshot is not the latest one may not.  External   *)
(* too are the callers: a worker completes or fails the tasks that it was  *)
(* given and no others.                                                    *)
(***************************************************************************)
EXTENDS Naturals

CONSTANTS
  Tasks, Workers,
  ZoneOf,      \* the zone of each of them
  Seconds,     \* values of created_at, which is read before the row is written
  MaxFaults    \* how many crashes and failed calls there may be

Nobody == "nobody"

ASSUME WorkersAssumption == Nobody \notin Workers
ASSUME SecondsAssumption == Seconds \subseteq Nat
ASSUME FaultsAssumption == MaxFaults \in Nat

VARIABLES
  status,    \* status of each task, "none" without its row
  created,   \* created_at
  owner,     \* worker_id
  beat,      \* the row of each worker in heartbeats
  lock,      \* who has written and not committed
  pc,        \* where each worker is in ClaimTask
  seen,      \* the task its SELECT has found
  fresh,     \* whether nothing was committed since
  held,      \* the tasks it was given and has not reported
  faults

vars == <<status, created, owner, beat, lock, pc, seen, fresh, held, faults>>

TypeOK ==
  /\ status \in [Tasks -> {"none", "pending", "running", "completed", "failed"}]
  /\ created \in [Tasks -> Nat]
  /\ owner \in [Tasks -> Workers \cup {Nobody}]
  /\ beat \in [Workers -> {"none", "alive", "dead"}]
  /\ lock \in Workers \cup {Nobody}
  /\ pc \in [Workers -> {"idle", "selected", "updated"}]
  /\ seen \in [Workers -> Tasks \cup {Nobody}]
  /\ fresh \in [Workers -> BOOLEAN]
  /\ held \in [Workers -> SUBSET Tasks]
  /\ faults \in 0 .. MaxFaults

Init ==
  /\ status = [t \in Tasks |-> "none"]
  /\ created = [t \in Tasks |-> 0]
  /\ owner = [t \in Tasks |-> Nobody]
  /\ beat = [w \in Workers |-> "none"]
  /\ lock = Nobody
  /\ pc = [w \in Workers |-> "idle"]
  /\ seen = [w \in Workers |-> Nobody]
  /\ fresh = [w \in Workers |-> FALSE]
  /\ held = [w \in Workers |-> {}]
  /\ faults = MaxFaults

-----------------------------------------------------------------------------
Suffer == faults > 0 /\ faults' = faults - 1

(* After a commit every other snapshot is an old one. *)
Committed == fresh' = [w \in Workers |-> FALSE]

(* A statement of its own waits for the lock, and changes nothing when it  *)
(* has waited too long.                                                    *)
Write == lock = Nobody /\ Committed

SubmitTask(t, second) ==
  /\ status[t] = "none" /\ Write
  /\ status' = [status EXCEPT ![t] = "pending"]
  /\ created' = [created EXCEPT ![t] = second]
  /\ UNCHANGED <<owner, beat, lock, pc, seen, held, faults>>

-----------------------------------------------------------------------------
PendingIn(z) == {t \in Tasks : status[t] = "pending" /\ ZoneOf[t] = z}

(* Mistake: ORDER BY created_at DESC *)
NewestFirst(t, z) == t \in PendingIn(z) /\ \A u \in PendingIn(z) : created[u] <= created[t]

(* ORDER BY created_at ASC LIMIT 1: any of those created in the first second. *)
First(t, z) == t \in PendingIn(z) /\ \A u \in PendingIn(z) : created[t] <= created[u]

SelectPending(w, t) ==
  /\ pc[w] = "idle" /\ First(t, ZoneOf[w])
  /\ pc' = [pc EXCEPT ![w] = "selected"]
  /\ seen' = [seen EXCEPT ![w] = t]
  /\ fresh' = [fresh EXCEPT ![w] = TRUE]
  /\ UNCHANGED <<status, created, owner, beat, lock, held, faults>>

(* Mistake: a SELECT that is not part of the transaction. *)
UpdateOldSnapshot(w) ==
  /\ pc[w] = "selected" /\ lock = Nobody
  /\ pc' = [pc EXCEPT ![w] = "updated"]
  /\ lock' = w
  /\ fresh' = [fresh EXCEPT ![w] = TRUE]
  /\ UNCHANGED <<status, created, owner, beat, seen, held, faults>>

(* The UPDATE gets the lock, if the snapshot is the latest one. *)
UpdateTask(w) ==
  /\ pc[w] = "selected" /\ lock = Nobody /\ fresh[w]
  /\ pc' = [pc EXCEPT ![w] = "updated"]
  /\ lock' = w
  /\ UNCHANGED <<status, created, owner, beat, seen, fresh, held, faults>>

Idle(w) ==
  /\ pc' = [pc EXCEPT ![w] = "idle"]
  /\ seen' = [seen EXCEPT ![w] = Nobody]

Unlock(w) == lock' = IF lock = w THEN Nobody ELSE lock

Rollback(w) == Idle(w) /\ Unlock(w) /\ fresh' = [fresh EXCEPT ![w] = FALSE]

(* Mistake: without the deferred Rollback the transaction stays open. *)
LeaveOpen(w) ==
  /\ \/ pc[w] = "selected" /\ (lock # Nobody \/ ~fresh[w]) /\ UNCHANGED faults
     \/ pc[w] # "idle" /\ Suffer
  /\ Idle(w)
  /\ UNCHANGED <<status, created, owner, beat, lock, fresh, held>>

(* SQLITE_BUSY, a cancelled context or another error: Rollback. *)
ClaimFails(w) ==
  /\ \/ pc[w] = "selected" /\ (lock # Nobody \/ ~fresh[w]) /\ UNCHANGED faults
     \/ pc[w] # "idle" /\ Suffer
  /\ Rollback(w)
  /\ UNCHANGED <<status, created, owner, beat, held>>

(* Mistake: an UPDATE by zone and status instead of the id. *)
CommitWholeZone(w) ==
  /\ pc[w] = "updated"
  /\ status' = [t \in Tasks |-> IF t \in PendingIn(ZoneOf[w]) THEN "running" ELSE status[t]]
  /\ owner' = [t \in Tasks |-> IF t \in PendingIn(ZoneOf[w]) THEN w ELSE owner[t]]
  /\ held' = [held EXCEPT ![w] = @ \cup {seen[w]}]
  /\ Committed /\ Idle(w) /\ Unlock(w)
  /\ UNCHANGED <<created, beat, faults>>

(* Mistake: without the Commit the deferred Rollback undoes the claim. *)
NeverCommitted(w) ==
  /\ pc[w] = "updated"
  /\ Rollback(w)
  /\ UNCHANGED <<status, created, owner, beat, held, faults>>

(* The row becomes the worker's and ClaimTask returns the task. *)
CommitClaim(w) ==
  /\ pc[w] = "updated"
  /\ status' = [status EXCEPT ![seen[w]] = "running"]
  /\ owner' = [owner EXCEPT ![seen[w]] = w]
  /\ held' = [held EXCEPT ![w] = @ \cup {seen[w]}]
  /\ Committed /\ Idle(w) /\ Unlock(w)
  /\ UNCHANGED <<created, beat, faults>>

-----------------------------------------------------------------------------
Report(w, t, final) ==
  /\ t \in held[w] /\ Write
  /\ status' = [status EXCEPT ![t] = final]
  /\ held' = [held EXCEPT ![w] = @ \ {t}]
  /\ UNCHANGED <<created, owner, beat, lock, pc, seen, faults>>

CompleteTask(w, t) == Report(w, t, "completed")
FailTask(w, t) == Report(w, t, "failed")

(* The process of a worker dies, and SQLite rolls its transaction back; it  *)
(* may start again at any time, and then knows of no task.                  *)
Crash(w) ==
  /\ Suffer
  /\ held' = [held EXCEPT ![w] = {}]
  /\ Rollback(w)
  /\ UNCHANGED <<status, created, owner, beat>>

Beat(w, row) ==
  /\ Write
  /\ beat' = [beat EXCEPT ![w] = row]
  /\ UNCHANGED <<status, created, owner, lock, pc, seen, held, faults>>

SendHeartbeat(w) == Beat(w, "alive")
MarkDead(w) == beat[w] # "none" /\ Beat(w, "dead")
Deregister(w) == beat[w] # "none" /\ Beat(w, "none")

(* A row in logs: another commit. *)
Log == Write /\ UNCHANGED <<status, created, owner, beat, lock, pc, seen, held, faults>>

Next ==
  \/ \E t \in Tasks, second \in Seconds : SubmitTask(t, second)
  \/ \E w \in Workers, t \in Tasks : SelectPending(w, t) \/ CompleteTask(w, t) \/ FailTask(w, t)
  \/ \E w \in Workers : \/ UpdateTask(w) \/ ClaimFails(w) \/ CommitClaim(w) \/ Crash(w)
                        \/ SendHeartbeat(w) \/ MarkDead(w) \/ Deregister(w)
  \/ Log

Spec == Init /\ [][Next]_vars

(* A worker goes on asking for tasks and finishes the call it is in; as     *)
(* the others write now and then and not all the time, a claim that is      *)
(* repeated finds its snapshot still the latest one in the end.             *)
FairSpec ==
  /\ Spec
  /\ \A w \in Workers :
       /\ WF_vars(\E t \in Tasks : SelectPending(w, t))
       /\ WF_vars(ClaimFails(w) /\ UNCHANGED faults) /\ WF_vars(CommitClaim(w))
       /\ SF_vars(UpdateTask(w))

-----------------------------------------------------------------------------
(* No two workers are given the same task, and nobody reports one that is   *)
(* not his own, though no UPDATE looks at the status or the owner           *)
(* (bus.go:152-218).                                                        *)
ClaimedOnce ==
  \A w \in Workers : \A t \in held[w] :
    /\ status[t] = "running" /\ owner[t] = w
    /\ \A v \in Workers \ {w} : t \notin held[v]

(* As long as nobody crashed and no call failed, a running task is known to *)
(* the worker it was given to (bus.go:175-192).                             *)
NotForgotten ==
  faults = MaxFaults => \A t \in Tasks : status[t] = "running" => owner[t] # Nobody /\ t \in held[owner[t]]

(* The bus is a queue of tasks: a claim takes effect in one step, when it is *)
(* committed, and takes the oldest task there is (bus.go:132-218).           *)
Queue == INSTANCE TaskQueue WITH
  waiting <- {t \in Tasks : status[t] = "pending"},
  taken <- [w \in Workers |-> {t \in Tasks : status[t] = "running" /\ owner[t] = w}],
  ended <- {t \in Tasks : status[t] \in {"completed", "failed"}}

QueueKept == Queue!Spec

(* A task does not wait for ever when its zone has a worker (bus.go:152-193). *)
TasksTaken ==
  \A t \in Tasks :
    (\E w \in Workers : ZoneOf[w] = ZoneOf[t]) => (status[t] = "pending" ~> status[t] # "pending")

(* What a claim has seen holds until somebody commits; whoever has updated   *)
(* has the lock, and nobody commits meanwhile.                               *)
ClaimInv ==
  \A w \in Workers :
    /\ pc[w] # "idle" => seen[w] \in Tasks
    /\ pc[w] # "idle" /\ fresh[w] => First(seen[w], ZoneOf[w])
    /\ pc[w] = "updated" <=> lock = w
    /\ pc[w] = "updated" => fresh[w]

(* The inductive invariant of the bus (bus.go:152-218). *)
BusInv == TypeOK /\ ClaimInv /\ ClaimedOnce /\ NotForgotten

=============================================================================
