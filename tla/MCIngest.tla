------------------------------ MODULE MCIngest ------------------------------
(***************************************************************************)
(* Two processes over two files.  Both are given the file x, so that its   *)
(* content X may be ingested twice at a time; Y has one caller.            *)
(***************************************************************************)
EXTENDS Ingest

CONSTANTS x, y, X, Y, p1, p2

MCInitContent == [p \in Sources |-> IF p = x THEN X ELSE Y]
MCArgs == [a \in Callers |-> IF a = p1 THEN {x, y} ELSE {x}]

NoFaults == [k \in FaultKinds |-> 0]
OneOfEach == [k \in FaultKinds |-> 1]
OnlyCancel == [NoFaults EXCEPT !["cancel"] = 1]

=============================================================================
