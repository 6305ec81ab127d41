---------------------------- MODULE MCDocuments ----------------------------
(***************************************************************************)
(* The programs that work on one document or one manifest and not on the   *)
(* corpus: in each behaviour one of them, with all it may be given.        *)
(***************************************************************************)
EXTENDS CodeExtractor, DocumentExtractor, Egocheck, TLC

VARIABLE which

MCLanguages == {"cobol", "python", "typescript", "bash", "sql", "html", "markdown"}

Line(kind, braces) == [is |-> kind, opens |-> braces[1], closes |-> braces[2]]

MCLines == [p \in Parsers |->
  CASE p = "generic" -> [is : {"blank", "text"}]
    [] p = "python" -> [is : {"function", "code"}, indent : 0 .. 1]
         \cup [is : {"class", "import", "blank"}, indent : {0}]
    [] p = "javascript" ->
         {Line(kind, braces) : kind \in {"function", "code"}, braces \in {<<0, 0>>, <<1, 0>>, <<1, 1>>}}
           \cup {Line("class", <<1, 0>>), Line("import", <<1, 1>>), Line("code", <<0, 1>>)}
    [] p = "bash" ->
         {Line(kind, braces) : kind \in {"function", "code"}, braces \in {<<0, 0>>, <<1, 0>>, <<1, 1>>}}
           \cup {Line("shebang", <<0, 0>>), Line("comment", <<1, 0>>), Line("code", <<0, 1>>)}
    [] p = "sql" -> [is : {"comment", "statement", "other"}, ends : BOOLEAN]
    [] p = "html" -> [opens : {{}, {"script"}, {"style", "template"}},
                      closes : {{}, {"script", "style"}, {"template"}}]
    [] p = "markdown" -> [is : {"opening", "fence", "heading", "text"}]]

MCFormats == {"pdf", "docx", "fallback", "xlsx"}

MCUnits == [f \in MCFormats |->
  CASE f = "pdf" -> {"feed", "page", "fed", "blank", "text"}
    [] f = "docx" -> {"paragraph", "table", "empty"}
    [] f = "fallback" -> {"nothing", "words"}
    [] f = "xlsx" -> [sheet : {"sheet", "malformed", "unreadable"}]
                       \cup [number : 0 .. 2, empty : BOOLEAN]]

MCSources == <<"main.go">>
MCDatabases == <<"corpus.db", "old.db">>

(* Nothing tells one caller or one content of a file from another. *)
MCSymmetry == Permutations(Callers) \cup Permutations(Contents)

-----------------------------------------------------------------------------
MCInit ==
  /\ which \in {"code", "document", "ego"}
  /\ Init /\ (which # "code" => parser = "generic")
  /\ DocumentInit /\ (which # "document" => format = "pdf")
  /\ EgoInit /\ (which # "ego" => \A path \in Paths : files[path] = Missing)

MCNext ==
  \/ which = "code" /\ Next /\ UNCHANGED <<which, documentVars, egoVars>>
  \/ which = "document" /\ DocumentNext /\ UNCHANGED <<which, vars, egoVars>>
  \/ which = "ego" /\ EgoNext /\ UNCHANGED <<which, vars, documentVars>>

MCSpec == MCInit /\ [][MCNext]_<<which, vars, documentVars, egoVars>>
=============================================================================
