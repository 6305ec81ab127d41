------------------------------ MODULE RunRecord ------------------------------
(***************************************************************************)
(* What the database of a run promises: the run is recorded step by step,  *)
(* is completed only after the last of its steps, and keeps its final      *)
(* status.                                                                 *)
(***************************************************************************)
EXTENDS Naturals

CONSTANT Runs

VARIABLES
  status,   \* none, running, completed or failed
  plan,     \* how many steps the run has
  done      \* how many of them are recorded

Init ==
  /\ status = [r \in Runs |-> "none"]
  /\ plan = [r \in Runs |-> 0]
  /\ done = [r \in Runs |-> 0]

(* It begins with any number of steps to do. *)
Begin(r) ==
  /\ status[r] = "none"
  /\ status' = [status EXCEPT ![r] = "running"]
  /\ plan'[r] \in Nat /\ plan' = [plan EXCEPT ![r] = plan'[r]]
  /\ UNCHANGED done

Record(r) ==
  /\ status[r] = "running" /\ done[r] < plan[r]
  /\ done' = [done EXCEPT ![r] = @ + 1]
  /\ UNCHANGED <<status, plan>>

Complete(r) ==
  /\ status[r] = "running" /\ done[r] = plan[r]
  /\ status' = [status EXCEPT ![r] = "completed"]
  /\ UNCHANGED <<plan, done>>

Fail(r) ==
  /\ status[r] = "running"
  /\ status' = [status EXCEPT ![r] = "failed"]
  /\ UNCHANGED <<plan, done>>

Next == \E r \in Runs : Begin(r) \/ Record(r) \/ Complete(r) \/ Fail(r)

Spec == Init /\ [][Next]_<<status, plan, done>>

=============================================================================
