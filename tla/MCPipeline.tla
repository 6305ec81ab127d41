----------------------------- MODULE MCPipeline -----------------------------
(***************************************************************************)
(* A plain text, a Markdown file, which the default map gives to a         *)
(* workflow that does not select it, as defaultWorkflowMap gives it to     *)
(* text_chunking_v1, until SetWorkflowMapping mends it, and a document     *)
(* whose workflow completes and leaves _output empty.  The workflows of    *)
(* the first two fill _output themselves.  A query looks at two files; one *)
(* caller processes for ever, one issues the other commands.               *)
(***************************************************************************)
EXTENDS Pipeline

MCCommands == [c \in {"cron", "user"} |->
  IF c = "cron" THEN {"process"} ELSE {"search", "run", "status"}]
MCFiles == {"a", "b", "c"}
MCExtension == [f \in MCFiles |-> CASE f = "a" -> "txt" [] f = "b" -> "md" [] f = "c" -> "docx"]
MCMagic == [f \in MCFiles |-> IF f = "c" THEN "zip" ELSE "other"]
MCTypes == {"plain", "markdown", "docx"}
MCSystemTypes == [e \in {"txt"} |-> "plain"]
MCExtMap == [e \in {"md"} |-> "markdown"]
MCDefaultMap == [t \in MCTypes |-> IF t = "docx" THEN "docx_v1" ELSE "text_v1"]
MCWorkflows == {"text_v1", "md_v1", "docx_v1"}
MCSelects == [w \in MCWorkflows |->
  CASE w = "text_v1" -> {"plain"} [] w = "md_v1" -> {"markdown"} [] w = "docx_v1" -> {"docx"}]
MCRemaps == {<<"markdown", "md_v1">>}

=============================================================================
