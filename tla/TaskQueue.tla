------------------------------ MODULE TaskQueue ------------------------------
(***************************************************************************)
(* What the tasks of the bus promise: each task waits until one worker of  *)
(* its zone takes it, the oldest first, and is that worker's until it is   *)
(* completed or failed.                                                    *)
(***************************************************************************)
EXTENDS Naturals

CONSTANTS Tasks, Workers, ZoneOf

VARIABLES
  created,   \* the second a task was created
  waiting,   \* the tasks nobody has taken
  taken,     \* taken[w]: those a worker works on
  ended      \* those that are completed or failed

Init ==
  /\ created = [t \in Tasks |-> 0]
  /\ waiting = {} /\ ended = {}
  /\ taken = [w \in Workers |-> {}]

Known == waiting \cup ended \cup UNION {taken[w] : w \in Workers}

Submit(t) ==
  /\ t \notin Known
  /\ waiting' = waiting \cup {t}
  /\ created'[t] \in Nat /\ created' = [created EXCEPT ![t] = created'[t]]
  /\ UNCHANGED <<taken, ended>>

Take(w, t) ==
  /\ t \in waiting /\ ZoneOf[t] = ZoneOf[w]
  /\ \A u \in waiting : ZoneOf[u] = ZoneOf[w] => created[t] <= created[u]
  /\ waiting' = waiting \ {t}
  /\ taken' = [taken EXCEPT ![w] = @ \cup {t}]
  /\ UNCHANGED <<created, ended>>

End(w, t) ==
  /\ t \in taken[w]
  /\ taken' = [taken EXCEPT ![w] = @ \ {t}]
  /\ ended' = ended \cup {t}
  /\ UNCHANGED <<created, waiting>>

Next == \E t \in Tasks : Submit(t) \/ \E w \in Workers : Take(w, t) \/ End(w, t)

Spec == Init /\ [][Next]_<<created, waiting, taken, ended>>

=============================================================================
