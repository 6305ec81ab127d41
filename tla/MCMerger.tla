------------------------------ MODULE MCMerger ------------------------------
(***************************************************************************)
(* Small instances of Merger.  r1 and r2 share a chunk, so the second one  *)
(* to be merged finds it stored, and r2 holds a row that breaks a CHECK;   *)
(* r3 only adds vectors and a relation to the chunks of the others; the    *)
(* engine never wrote the final status of r4; r5 has a vector of a layer   *)
(* the corpus does not know.                                               *)
(***************************************************************************)
EXTENDS MergerInvariants

CONSTANTS r1, r2, r3, r4, r5, f1, f2, c1, c2, c3

MCOutput ==
  [r \in Runs |-> [c \in Chunks |->
     CASE r = r1 /\ c = c1 -> f1
       [] r = r2           -> f2
       [] OTHER            -> NoFile]]
MCIllegal == [r \in Runs |-> IF r = r2 THEN {c3} \cap Chunks ELSE {}]
MCFeatures == [r \in Runs |-> IF r = r2 THEN {c1, c2} ELSE {c1}]
MCVectors == [r \in Runs |-> IF r = r1 THEN {c1} ELSE {c2}]
MCBadLayers == {r5} \cap Runs
MCRelations == [r \in Runs |-> IF r = r1 THEN {} ELSE {<<c1, c2>>}]
MCStatus == [r \in Runs |-> IF r = r4 THEN "running" ELSE "completed"]
MCMtime == [r \in Runs |-> CASE r = r1 -> 1 [] r = r2 -> 2 [] r = r5 -> 4 [] OTHER -> 3]

NoFaults == [k \in FaultKinds |-> 0]

(* Everything but failing statements: what other actors and the scheduler do. *)
Interference ==
  [NoFaults EXCEPT !["crash"] = 1, !["cancel"] = 1, !["recycle"] = 1, !["stop"] = 2]

(* What the database and the process may suffer under the loop. *)
Failures == [NoFaults EXCEPT !["crash"] = 1, !["error"] = 1, !["swallowed"] = 1, !["retry"] = 1]

OnlyCancel == [NoFaults EXCEPT !["cancel"] = 1]
OnlyRecycle == [NoFaults EXCEPT !["recycle"] = 1]

=============================================================================
