---------------------------- MODULE AtomicMerge ----------------------------
(***************************************************************************)
(* What the merger promises: the corpus changes only by the import of a    *)
(* file or by the integration, whole, once, of a completed run             *)
(* (internal/merger/merger.go:20, "integrates completed run outputs into   *)
(* the corpus", and the idempotency check of line 205).                    *)
(***************************************************************************)
EXTENDS CorpusTables

VARIABLE corpus

Init == corpus = EmptyCorpus

Integrate(r) ==
  /\ MetaStatus[r] = "completed"
  /\ ~IsMerged(corpus, r)
  /\ corpus' = Integrated(corpus, r)

Import(f) ==
  /\ corpus.files[f] = "absent"
  /\ corpus' = WithImport(corpus, f)

Next == (\E r \in Runs : Integrate(r)) \/ (\E f \in Files : Import(f))

Spec == Init /\ [][Next]_corpus

=============================================================================
