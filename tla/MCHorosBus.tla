----------------------------- MODULE MCHorosBus -----------------------------
(***************************************************************************)
(* Two workers of one zone, two tasks in it and one in a zone where nobody *)
(* works.                                                                  *)
(***************************************************************************)
EXTENDS HorosBus, TLC

CONSTANTS t1, t2, t3, w1, w2

MCZoneOf == (t1 :> "rag") @@ (t2 :> "rag") @@ (t3 :> "ocr") @@ (w1 :> "rag") @@ (w2 :> "rag")
MCSeconds == {1, 2}

=============================================================================
