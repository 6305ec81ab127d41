------------------------------- MODULE MCEngine -------------------------------
(***************************************************************************)
(* One run against the loader.  The files of two builds define the         *)
(* workflow chunk: the new ones in the shape of the shipped workflows,     *)
(* whose first step reads _input, the old ones with an operation the       *)
(* engine does not know.  The workflow own was written by a user, and copy *)
(* is free for a clone.                                                    *)
(***************************************************************************)
EXTENDS Engine

S(op, source, output, onEmpty) == [op |-> op, source |-> source, output |-> output, onEmpty |-> onEmpty]

NewChunk == <<S("filter", "_input", "t1", "skip_remaining"), S("window", "_input", "t2", "continue")>>
OldChunk == <<S("project", Corpus, "t1", "continue"), S("diff", "_input", "t2", "continue")>>
Own == <<S("join", Corpus, "t1", "skip_remaining"),
         S("external", "_input", "t2", "continue"),
         S("aggregate", "_input", "t3", "fail")>>

MCRelease == [v \in Versions |-> [w \in Workflows |->
  IF w # "chunk" THEN <<>> ELSE IF v = "old" THEN OldChunk ELSE NewChunk]]
MCInitStatus == [w \in Workflows |-> IF w = "copy" THEN "none" ELSE "active"]
MCInitSteps == [w \in Workflows |-> CASE w = "chunk" -> OldChunk [] w = "own" -> Own [] w = "copy" -> <<>>]
MCFiles == {<<"chunk">>}
MCTables == {"_input", "_output", "t1", "t2", "t3"}

=============================================================================
