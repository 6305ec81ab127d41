---------------------------- MODULE CodeExtractor ----------------------------
(***************************************************************************)
(* The code extractor (internal/extract/code.go): a parser for each        *)
(* language reads a document line by line and cuts it into blocks, which   *)
(* become segments.  The document is met as it is read: each step takes    *)
(* the next line, one of those the parser's patterns tell apart.           *)
(*                                                                         *)
(* The parser of Go works on the syntax tree of go/parser, which is not    *)
(* modelled; a Go file it refuses is read by genericParse.                 *)
(***************************************************************************)
EXTENDS Integers, Sequences

CONSTANTS
  Languages,  \* what the config of Extract may ask for
  Lines,      \* Lines[p]: the lines of a document that parser p reads
  MaxLines

(* The patterns that begin a block, by the type they give it. *)
Headers == {"function", "class"}
Tags == {"script", "style", "template"}
Parsers == {"generic", "python", "javascript", "bash", "sql", "html", "markdown"}
BlockTypes == Headers \cup Tags
                \cup {"block", "import", "shebang", "statement", "document", "code_block", "section"}

Brackets(kinds) == [is : kinds, opens : Nat, closes : Nat]

ASSUME LanguagesAssumption ==
  /\ MaxLines \in Nat
  /\ DOMAIN Lines = Parsers
  /\ Lines["generic"] \subseteq [is : {"blank", "text"}]
  /\ Lines["python"] \subseteq [is : Headers \cup {"blank", "code"}, indent : Nat]
                               \cup [is : {"import"}, indent : {0}]
  /\ Lines["javascript"] \subseteq Brackets(Headers \cup {"import", "code"})
  /\ Lines["bash"] \subseteq Brackets({"shebang", "comment", "function", "code"})
  /\ Lines["sql"] \subseteq [is : {"comment", "statement", "other"}, ends : BOOLEAN]
  /\ Lines["html"] \subseteq [opens : SUBSET Tags, closes : SUBSET Tags]
  /\ Lines["markdown"] \subseteq [is : {"opening", "fence", "heading", "text"}]

VARIABLES
  parser,   \* who reads the document
  lines,    \* what it has read
  blocks,   \* the blocks it has found
  current,  \* currentBlock, currentSection: the block that is open, its end not known
  mark,     \* blockIndent, braceCount, blockStart or the line of the open currentCodeBlock
  done

vars == <<parser, lines, blocks, current, mark, done>>

Block(type, first, last) == [type |-> type, start |-> first, end |-> last]
None == Block("none", 0, 0)
Open(type, line) == Block(type, line, 0)

Here == Len(lines) + 1

(* The parsers by language: nothing is registered for any other one. *)
ParsersOf(language) ==
  CASE language \in {"python", "bash", "sql", "html", "markdown"} -> {language}
    [] language \in {"javascript", "typescript"} -> {"javascript"}
    [] OTHER -> {"generic"}

Init ==
  /\ \E language \in Languages : parser \in ParsersOf(language)
  /\ lines = <<>> /\ blocks = {} /\ current = None
  /\ mark = IF parser = "generic" THEN 1 ELSE 0
  /\ done = FALSE

-----------------------------------------------------------------------------
(* The blocks once the one that is open, if any, ends at a line. *)
Closed(line) == blocks \cup IF current = None THEN {} ELSE {[current EXCEPT !.end = line]}

Close(line) == blocks' = Closed(line) /\ current' = None
Replace(type, line) == blocks' = Closed(line - 1) /\ current' = Open(type, line)
Single(type) == blocks' = blocks \cup {Block(type, Here, Here)} /\ UNCHANGED current
Pass == UNCHANGED <<blocks, current>>

(* genericParse: text up to a blank line.  The lines that are blank before *)
(* a block count as its first ones.                                        *)
Generic(line) ==
  \/ /\ line.is = "text"
     /\ current' = Open("block", mark) /\ UNCHANGED <<blocks, mark>>
  \/ /\ line.is = "blank" /\ current # None
     /\ Close(Here - 1) /\ mark' = Here + 1
  \/ /\ line.is = "blank" /\ current = None
     /\ Pass /\ UNCHANGED mark

(* Mistake: only a line that is less indented ends a block. *)
Shallower(line) == line.is = "code" /\ line.indent < mark

Leaves(line) == line.is = "code" /\ line.indent <= mark

(* A def or class at any depth ends the open block.  An import does not,   *)
(* nor does a blank line.                                                  *)
Python(line) ==
  \/ line.is \in Headers /\ Replace(line.is, Here) /\ mark' = line.indent
  \/ line.is = "import" /\ Single("import") /\ UNCHANGED mark
  \/ Leaves(line) /\ Close(Here - 1) /\ UNCHANGED mark
  \/ line.is \in {"blank", "code"} /\ ~Leaves(line) /\ Pass /\ UNCHANGED mark

Ends(line) == current # None /\ mark' = 0 /\ line.closes > 0

(* A header that is met inside of braces, its own included, takes the      *)
(* place of the open block, which is lost.                                 *)
JavaScript(line) ==
  /\ mark' = mark + line.opens - line.closes
  /\ \/ line.is = "import" /\ Single("import")
     \/ line.is \in Headers /\ mark' <= 0 /\ Replace(line.is, Here)
     \/ line.is \in Headers /\ mark' > 0 /\ current' = Open(line.is, Here) /\ UNCHANGED blocks
     \/ line.is = "code" /\ Ends(line) /\ Close(Here)
     \/ line.is = "code" /\ ~Ends(line) /\ Pass

(* Comments, and braces in them, are passed over. *)
Bash(line) ==
  \/ line.is = "shebang" /\ Single("shebang") /\ UNCHANGED mark
  \/ line.is = "comment" /\ Pass /\ UNCHANGED mark
  \/ /\ line.is \in {"function", "code"}
     /\ mark' = mark + line.opens - line.closes
     /\ \/ line.is = "function" /\ Replace("function", Here)
        \/ line.is = "code" /\ Ends(line) /\ Close(Here)
        \/ line.is = "code" /\ ~Ends(line) /\ Pass

(* Mistake: the word SELECT, UPDATE... inside of a statement begins another. *)
SqlBegins(line) == line.is = "statement"

Begins(line) == line.is = "statement" /\ current = None

(* Statements up to a line that ends with a semicolon. *)
Sql(line) ==
  /\ UNCHANGED mark
  /\ LET statement == IF Begins(line) THEN Open("statement", Here) ELSE current IN
       \/ line.is = "comment" /\ Pass
       \/ /\ line.is # "comment" /\ statement # None /\ line.ends
          /\ blocks' = blocks \cup {[statement EXCEPT !.end = Here]} /\ current' = None
       \/ /\ line.is # "comment" /\ ~(statement # None /\ line.ends)
          /\ current' = statement /\ UNCHANGED blocks

(* The tag whose pattern is tried first. *)
Foremost(tags) == CASE "script" \in tags -> "script"
                    [] "script" \notin tags /\ "style" \in tags -> "style"
                    [] OTHER -> "template"

(* One element at a time: inside of one, the other tags are not seen; the  *)
(* end of one on the line of its beginning is not seen either.             *)
Html(line) ==
  /\ UNCHANGED mark
  /\ \/ /\ current = None /\ line.opens # {}
        /\ current' = Open(Foremost(line.opens), Here) /\ UNCHANGED blocks
     \/ current.type \in line.closes /\ Close(Here)
     \/ /\ current.type \notin line.closes /\ (current = None => line.opens = {})
        /\ Pass

(* Mistake: what looks like a heading inside of a code block is one. *)
MarkdownHeadings(line) ==
  \/ line.is \in {"opening", "fence"} /\ mark = 0 /\ mark' = Here /\ Pass
  \/ /\ line.is = "fence" /\ mark # 0
     /\ blocks' = blocks \cup {Block("code_block", mark, Here)}
     /\ mark' = 0 /\ UNCHANGED current
  \/ line.is = "heading" /\ Replace("section", Here) /\ UNCHANGED mark
  \/ line.is = "opening" /\ mark # 0 /\ Pass /\ UNCHANGED mark
  \/ line.is = "text" /\ Pass /\ UNCHANGED mark

(* Fenced code blocks, and sections from heading to heading. *)
Markdown(line) ==
  \/ line.is \in {"opening", "fence"} /\ mark = 0 /\ mark' = Here /\ Pass
  \/ /\ line.is = "fence" /\ mark # 0
     /\ blocks' = blocks \cup {Block("code_block", mark, Here)}
     /\ mark' = 0 /\ UNCHANGED current
  \/ line.is = "heading" /\ mark = 0 /\ Replace("section", Here) /\ UNCHANGED mark
  \/ /\ line.is = "text" \/ (mark # 0 /\ line.is # "fence")
     /\ Pass /\ UNCHANGED mark

Read(line) ==
  /\ ~done /\ Len(lines) < MaxLines
  /\ lines' = Append(lines, line)
  /\ \/ parser = "generic" /\ Generic(line)
     \/ parser = "python" /\ Python(line)
     \/ parser = "javascript" /\ JavaScript(line)
     \/ parser = "bash" /\ Bash(line)
     \/ parser = "sql" /\ Sql(line)
     \/ parser = "html" /\ Html(line)
     \/ parser = "markdown" /\ Markdown(line)
  /\ UNCHANGED <<parser, done>>

(* What follows the loop.  An element of HTML that is not closed is        *)
(* dropped.  A document is one line at least, except for genericParse.     *)
AtEnd ==
  LET last == Len(lines) IN
  CASE parser = "html" -> blocks \cup IF blocks = {} THEN {Block("document", 1, last)} ELSE {}
    [] parser = "markdown" ->
         Closed(last) \cup IF mark = 0 THEN {} ELSE {Block("code_block", mark, last)}
    [] OTHER -> Closed(last)

Finish ==
  /\ ~done /\ (parser # "generic" => lines # <<>>)
  /\ blocks' = AtEnd /\ done' = TRUE
  /\ UNCHANGED <<parser, lines, current, mark>>

Next == Finish \/ \E line \in Lines[parser] : Read(line)

Spec == Init /\ [][Next]_vars
-----------------------------------------------------------------------------
Apart(b, c) == b.end < c.start \/ c.end < b.start
Within(b, c) == c.start < b.start /\ b.end <= c.end

(* Whatever the document, each block is a range of lines that exist, which *)
(* is what getLines cuts out of it, and two blocks have no line in common  *)
(* or one lies below the first line of the other: code in a section, an    *)
(* import in a function.  So no two segments have the same Position        *)
(* (createCodeSegment).                                                    *)
Nested ==
  \A b \in blocks :
    /\ 1 <= b.start /\ b.start <= b.end /\ b.end <= Len(lines)
    /\ \A c \in blocks \ {b} : Apart(b, c) \/ Within(b, c) \/ Within(c, b)

(* What a line adds to the braces that are counted. *)
Weight(line) ==
  IF line.is \in {"shebang", "comment"} THEN 0 ELSE line.opens - line.closes

(* What has been counted when each of the lines ls is read. *)
Depths(ls) ==
  LET depth[i \in 0 .. Len(ls)] == IF i = 0 THEN 0 ELSE depth[i - 1] + Weight(ls[i])
  IN  depth

HeadersOf(ls) == {i \in DOMAIN ls : ls[i].is \in Headers}

First(S) == CHOOSE j \in S : \A k \in S : j <= k

(* The lines after the function or class of line i: in Python those that   *)
(* are not blank and not indented more than it, in the other languages     *)
(* those that bring the braces back to what was open before it.            *)
Beyond(ls, i) == {j \in i + 1 .. Len(ls) :
  IF parser = "python" THEN ls[j].is # "blank" /\ ls[j].indent <= ls[i].indent
  ELSE Depths(ls)[j] <= Depths(ls)[i - 1]}

(* Where it ends: the line with the closing brace is its last one. *)
Extent(ls, i) ==
  IF Beyond(ls, i) = {} THEN Len(ls)
  ELSE IF parser = "python" THEN First(Beyond(ls, i)) - 1 ELSE First(Beyond(ls, i))

(* What the parsers are written for.  No other function or class within;   *)
(* in Python, what follows is not an import; in JavaScript and Bash, at    *)
(* the top level, opened on the line of the header, and closed.            *)
Plain(ls, i) ==
  /\ \A j \in i + 1 .. Extent(ls, i) : ls[j].is \notin Headers
  /\ IF parser = "python" THEN Beyond(ls, i) # {} => ls[First(Beyond(ls, i))].is # "import"
     ELSE /\ Beyond(ls, i) # {}
          /\ Depths(ls)[i - 1] = 0 /\ Depths(ls)[i] > 0
          /\ LET last == Extent(ls, i) IN ls[last].is = "code" /\ Depths(ls)[last] = 0

(* Python, JavaScript and Bash.  A plain function or class is a block from *)
(* its header to the end that the indentation or the braces of the lines   *)
(* give it.  Of the others: a block of that type begins at such a header   *)
(* and holds no second one, so that a class ends before its first method   *)
(* and an outer function before a nested one; in Python and Bash none is   *)
(* without its block, while a JavaScript header that is met in braces      *)
(* takes the place of the open one.  The braces are those of the text, in  *)
(* a string or a JavaScript comment too; a comment of Python is code.      *)
FunctionsWhole ==
  done /\ parser \in {"python", "javascript", "bash"} =>
    /\ \A i \in HeadersOf(lines) :
         Plain(lines, i) => Block(lines[i].is, i, Extent(lines, i)) \in blocks
    /\ \A b \in blocks : b.type \in Headers =>
         /\ lines[b.start].is = b.type
         /\ \A j \in b.start + 1 .. b.end : lines[j].is \notin Headers
    /\ parser # "javascript" => \A i \in HeadersOf(lines) :
         \E b \in blocks : b.start = i /\ b.type = lines[i].is

(* The lines that a parser is there to keep. *)
Content(i) == CASE parser = "generic" -> lines[i].is = "text"
                [] parser = "sql" -> lines[i].is = "statement"
                [] parser = "markdown" -> lines[i].is # "text"
                [] parser = "python" -> lines[i].is \in Headers \cup {"import"}
                [] parser = "bash" -> lines[i].is \in {"function", "shebang"}
                [] OTHER -> FALSE

(* At the end each of these lines is in a block: every line of text that   *)
(* genericParse reads, in one only; where a statement of SQL begins; the   *)
(* headings and fences of Markdown, not its text; of Python and Bash the   *)
(* headers, imports and shebangs, not the lines of a body.  Nothing is     *)
(* said of JavaScript, of HTML only that a page never leaves nothing.      *)
NoneLost ==
  done =>
    /\ \A i \in DOMAIN lines : Content(i) => \E b \in blocks : b.start <= i /\ i <= b.end
    /\ parser = "generic" => \A b, c \in blocks : b # c => Apart(b, c)
    /\ parser = "html" => blocks # {}
=============================================================================
