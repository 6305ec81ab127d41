-------------------------- MODULE ExtractorProofs --------------------------
(***************************************************************************)
(* The extractors, for every document, of any length.                      *)
(*                                                                         *)
(* Code: the segments are nested, in every language.  That the blocks      *)
(* found so far are nested is not enough for the next one: the open block  *)
(* must have room, which is that no block has begun before it that did not *)
(* end before it (Held); in Markdown also the open code block, in the text *)
(* of genericParse the place where the next block will begin (MarkHeld).   *)
(*                                                                         *)
(* Nothing is lost: what is in no block is in what is open (KeptInv).  Of  *)
(* the functions those that have ended are the blocks, the other is open,  *)
(* and the count of braces is the sum over the lines (WholeInv); the plain *)
(* ones end where their indentation or braces do.                          *)
(*                                                                         *)
(* PDF: where the text is cut.  The lines that are in no segment yet are   *)
(* those after blockStart, and they are one paragraph.  PDF, DOCX and XLSX: the  *)
(* positions are distinct; those of a sheet lie below the number of the    *)
(* segments that are found when the next sheet begins (PositionInv).       *)
(***************************************************************************)
EXTENDS CodeExtractor, DocumentExtractor, Induction, FiniteSetTheorems

Blocks == [type : BlockTypes \cup {"none"}, start : Nat, end : Nat]

Sound(bs, n) ==
  /\ bs \subseteq Blocks
  /\ \A b \in bs :
       /\ 1 <= b.start /\ b.start <= b.end /\ b.end <= n
       /\ \A c \in bs \ {b} : Apart(b, c) \/ Within(b, c) \/ Within(c, b)

Room(bs, first) == \A b \in bs : b.end < first \/ first < b.start

Held(bs, cur, n) ==
  /\ Sound(bs, n)
  /\ cur \in Blocks
  /\ cur # None => 1 <= cur.start /\ cur.start <= n /\ Room(bs, cur.start)

ClosedOf(bs, cur, e) == bs \cup IF cur = None THEN {} ELSE {[cur EXCEPT !.end = e]}

MarkHeld(bs, cur, mk, n) ==
  /\ parser = "generic" =>
       /\ 1 <= mk /\ mk <= n + 1 /\ \A b \in bs : b.end < mk
       /\ cur # None => cur.start = mk
  /\ parser = "markdown" =>
       /\ 0 <= mk /\ mk <= n
       /\ mk # 0 => (\A b \in bs : b.end < mk) /\ (cur # None => cur.start < mk)

Inv ==
  /\ parser \in Parsers
  /\ lines \in Seq(Lines[parser])
  /\ done \in BOOLEAN
  /\ mark \in Int
  /\ Sound(blocks, Len(lines))
  /\ ~done => Held(blocks, current, Len(lines)) /\ MarkHeld(blocks, current, mark, Len(lines))

-----------------------------------------------------------------------------
(* A block may be added that has the others before its first line, or      *)
(* below it and not beyond its last.                                       *)
LEMMA AddBlock ==
  ASSUME NEW bs, NEW n \in Nat, NEW x \in Blocks, Sound(bs, n),
         1 <= x.start, x.start <= x.end, x.end <= n,
         \A b \in bs : b.end < x.start \/ (x.start < b.start /\ b.end <= x.end)
  PROVE  Sound(bs \cup {x}, n)
<1> SUFFICES ASSUME NEW b \in bs \cup {x}
             PROVE  /\ 1 <= b.start /\ b.start <= b.end /\ b.end <= n
                    /\ \A c \in (bs \cup {x}) \ {b} : Apart(b, c) \/ Within(b, c) \/ Within(c, b)
  BY DEF Sound
<1>1. 1 <= b.start /\ b.start <= b.end /\ b.end <= n
  BY DEF Sound
<1>2. ASSUME NEW c \in (bs \cup {x}) \ {b}
      PROVE  Apart(b, c) \/ Within(b, c) \/ Within(c, b)
  <2>1. CASE b \in bs /\ c \in bs
    BY <2>1 DEF Sound
  <2>2. CASE b \in bs /\ c = x
    BY <2>2 DEF Sound, Blocks, Apart, Within
  <2>3. CASE c \in bs /\ b = x
    BY <2>3 DEF Sound, Blocks, Apart, Within
  <2> QED BY <1>2, <2>1, <2>2, <2>3
<1> QED BY <1>1, <1>2

(* Another line leaves sound what is.                                      *)
LEMMA MoreLines ==
  ASSUME NEW bs, NEW n \in Nat, Sound(bs, n)
  PROVE  Sound(bs, n + 1)
BY DEF Sound, Blocks

(* The line changes nothing.                                               *)
LEMMA HeldPass ==
  ASSUME NEW bs, NEW cur, NEW n \in Nat, Held(bs, cur, n)
  PROVE  Held(bs, cur, n + 1)
BY MoreLines DEF Held, Blocks

(* The open block ends at the line read last or the next one.              *)
LEMMA HeldClose ==
  ASSUME NEW bs, NEW cur, NEW n \in Nat, NEW m \in Nat, NEW e \in Nat, Held(bs, cur, n),
         n <= e, e <= m, m <= n + 1
  PROVE  Sound(ClosedOf(bs, cur, e), m)
<1>1. Sound(bs, m)
  BY MoreLines DEF Held
<1>2. CASE cur = None
  BY <1>1, <1>2 DEF ClosedOf
<1>3. CASE cur # None
  <2> DEFINE x == [cur EXCEPT !.end = e]
  <2>1. x \in Blocks /\ x.start = cur.start /\ x.end = e
    BY DEF Held, Blocks
  <2>2. \A b \in bs : b.end < x.start \/ (x.start < b.start /\ b.end <= x.end)
    BY <1>3, <2>1 DEF Held, Room, Sound, Blocks
  <2>3. 1 <= x.start /\ x.start <= x.end /\ x.end <= m
    BY <1>3, <2>1 DEF Held, Blocks
  <2>4. Sound(bs \cup {x}, m)
    BY <1>1, <2>1, <2>2, <2>3, AddBlock
  <2> QED BY <1>3, <2>4 DEF ClosedOf
<1> QED BY <1>2, <1>3

(* None of the blocks goes beyond the line where the open one ends.        *)
LEMMA ClosedEnds ==
  ASSUME NEW bs, NEW cur, NEW n \in Nat, NEW e \in Nat, Held(bs, cur, n), n <= e
  PROVE  \A b \in ClosedOf(bs, cur, e) : b.end <= e
<1>1. \A b \in bs : b.end <= e
  BY DEF Held, Sound, Blocks
<1>2. cur # None => [cur EXCEPT !.end = e].end = e
  BY DEF Held, Blocks
<1>3. CASE cur = None
  BY <1>1, <1>3 DEF ClosedOf
<1>4. CASE cur # None
  <2> SUFFICES ASSUME NEW b \in bs \cup {[cur EXCEPT !.end = e]} PROVE b.end <= e
    BY <1>4 DEF ClosedOf
  <2>1. CASE b \in bs
    BY <1>1, <2>1
  <2>2. CASE b = [cur EXCEPT !.end = e]
    BY <1>2, <1>4, <2>2
  <2> QED BY <2>1, <2>2
<1> QED BY <1>3, <1>4

LEMMA NoneHeld ==
  ASSUME NEW bs, NEW n \in Nat, Sound(bs, n)
  PROVE  Held(bs, None, n)
BY DEF Held, None, Block, Blocks

(* A block opens at the next line.                                         *)
LEMMA HeldOpen ==
  ASSUME NEW bs, NEW n \in Nat, NEW type \in BlockTypes, Sound(bs, n)
  PROVE  Held(bs, Open(type, n + 1), n + 1)
<1>1. Sound(bs, n + 1)
  BY MoreLines
<1>2. Open(type, n + 1) \in Blocks /\ Open(type, n + 1).start = n + 1
  BY DEF Open, Block, Blocks
<1>3. \A b \in bs : b.end < n + 1
  BY DEF Sound, Blocks
<1> QED BY <1>1, <1>2, <1>3 DEF Held, Room

(* A block takes the place of the one that ends on the line before it.     *)
LEMMA HeldReplace ==
  ASSUME NEW bs, NEW cur, NEW n \in Nat, NEW type \in BlockTypes, Held(bs, cur, n)
  PROVE  Held(ClosedOf(bs, cur, n), Open(type, n + 1), n + 1)
<1>1. Sound(ClosedOf(bs, cur, n), n)
  BY HeldClose
<1> QED BY <1>1, HeldOpen

(* A block of one line leaves room for the open block.                     *)
LEMMA HeldSingle ==
  ASSUME NEW bs, NEW cur, NEW n \in Nat, NEW type \in BlockTypes, Held(bs, cur, n)
  PROVE  Held(bs \cup {Block(type, n + 1, n + 1)}, cur, n + 1)
<1> DEFINE x == Block(type, n + 1, n + 1)
<1>1. x \in Blocks /\ x.start = n + 1 /\ x.end = n + 1
  BY DEF Block, Blocks
<1>2. Sound(bs, n + 1) /\ \A b \in bs : b.end < x.start
  BY <1>1, MoreLines DEF Held, Sound, Blocks
<1>3. Sound(bs \cup {x}, n + 1)
  BY <1>1, <1>2, AddBlock
<1>4. cur # None => cur.start < x.start
  BY <1>1 DEF Held, Blocks
<1> QED BY <1>3, <1>4, HeldPass DEF Held, Room

-----------------------------------------------------------------------------
(* What the lemmas of the parsers assume of the step.                      *)
Reading(p, line) ==
  /\ Inv /\ parser = p /\ line \in Lines[p] /\ ~done
  /\ lines' = Append(lines, line) /\ UNCHANGED <<parser, done>>

LEMMA LinesRead ==
  ASSUME NEW p, NEW line, Reading(p, line)
  PROVE  /\ Len(lines) \in Nat /\ Len(lines') = Len(lines) + 1
         /\ lines' \in Seq(Lines[parser])'
         /\ Held(blocks, current, Len(lines))
BY DEF Reading, Inv

(* Of a parser whose mark tells nothing of the blocks.                     *)
LEMMA Unmarked ==
  ASSUME NEW p \in {"python", "javascript", "bash", "sql", "html"}, NEW line, Reading(p, line),
         Held(blocks', current', Len(lines) + 1), mark' \in Int
  PROVE  Inv'
<1>1. Sound(blocks', Len(lines)')
  BY LinesRead DEF Held
<1>2. Held(blocks, current, Len(lines))' /\ MarkHeld(blocks, current, mark, Len(lines))'
  BY LinesRead DEF MarkHeld, Reading
<1> QED BY <1>1, <1>2, LinesRead DEF Inv, Reading

LEMMA PassHeld ==
  ASSUME NEW p, NEW line, Reading(p, line), Pass
  PROVE  Held(blocks', current', Len(lines) + 1)
BY LinesRead, HeldPass DEF Pass

LEMMA CloseHeld ==
  ASSUME NEW p, NEW line, Reading(p, line), NEW e \in Nat, e = Here - 1 \/ e = Here, Close(e)
  PROVE  Held(blocks', current', Len(lines) + 1)
<1>1. blocks' = ClosedOf(blocks, current, e) /\ current' = None
  BY DEF Close, Closed, ClosedOf
<1>2. Sound(blocks', Len(lines) + 1)
  BY <1>1, LinesRead, HeldClose DEF Here
<1> QED BY <1>1, <1>2, LinesRead, NoneHeld

LEMMA ReplaceHeld ==
  ASSUME NEW p, NEW line, Reading(p, line), NEW type \in BlockTypes, Replace(type, Here)
  PROVE  Held(blocks', current', Len(lines) + 1)
<1>1. blocks' = ClosedOf(blocks, current, Len(lines)) /\ current' = Open(type, Len(lines) + 1)
  BY LinesRead DEF Replace, Closed, ClosedOf, Here
<1> QED BY <1>1, LinesRead, HeldReplace

LEMMA SingleHeld ==
  ASSUME NEW p, NEW line, Reading(p, line), NEW type \in BlockTypes, Single(type)
  PROVE  Held(blocks', current', Len(lines) + 1)
BY LinesRead, HeldSingle DEF Single, Here

LEMMA OpenHeld ==
  ASSUME NEW p, NEW line, Reading(p, line), NEW type \in BlockTypes,
         current' = Open(type, Here), UNCHANGED blocks
  PROVE  Held(blocks', current', Len(lines) + 1)
BY LinesRead, HeldOpen DEF Held, Here

LEMMA PythonStep ==
  ASSUME NEW line, Reading("python", line), Python(line)
  PROVE  Inv'
<1>0. line.is \in Headers \cup {"import", "blank", "code"} /\ line.indent \in Nat
  BY LanguagesAssumption DEF Reading
<1>1. mark' \in Int
  BY <1>0 DEF Python, Reading, Inv
<1>2. CASE line.is \in Headers /\ Replace(line.is, Here)
  <2>1. line.is \in BlockTypes
    BY <1>2 DEF BlockTypes
  <2> QED BY <1>1, <1>2, <2>1, ReplaceHeld, Unmarked
<1>3. CASE Single("import")
  <2>1. "import" \in BlockTypes
    BY DEF BlockTypes
  <2> QED BY <1>1, <1>3, <2>1, SingleHeld, Unmarked
<1>4. CASE Close(Here - 1)
  <2>1. Here - 1 \in Nat
    BY LinesRead DEF Here
  <2> QED BY <1>1, <1>4, <2>1, CloseHeld, Unmarked
<1>5. CASE Pass
  BY <1>1, <1>5, PassHeld, Unmarked
<1> QED BY <1>2, <1>3, <1>4, <1>5 DEF Python

LEMMA JavaScriptStep ==
  ASSUME NEW line, Reading("javascript", line), JavaScript(line)
  PROVE  Inv'
<1>0. line.opens \in Nat /\ line.closes \in Nat
  BY LanguagesAssumption DEF Reading, Brackets
<1>1. mark' \in Int
  BY <1>0 DEF JavaScript, Reading, Inv
<1>2. CASE Single("import")
  <2>1. "import" \in BlockTypes
    BY DEF BlockTypes
  <2> QED BY <1>1, <1>2, <2>1, SingleHeld, Unmarked
<1>3. CASE line.is \in Headers /\ Replace(line.is, Here)
  <2>1. line.is \in BlockTypes
    BY <1>3 DEF BlockTypes
  <2> QED BY <1>1, <1>3, <2>1, ReplaceHeld, Unmarked
<1>4. CASE line.is \in Headers /\ current' = Open(line.is, Here) /\ UNCHANGED blocks
  <2>1. line.is \in BlockTypes
    BY <1>4 DEF BlockTypes
  <2> QED BY <1>1, <1>4, <2>1, OpenHeld, Unmarked
<1>5. CASE Close(Here)
  <2>1. Here \in Nat
    BY LinesRead DEF Here
  <2> QED BY <1>1, <1>5, <2>1, CloseHeld, Unmarked
<1>6. CASE Pass
  BY <1>1, <1>6, PassHeld, Unmarked
<1> QED BY <1>2, <1>3, <1>4, <1>5, <1>6 DEF JavaScript

LEMMA BashStep ==
  ASSUME NEW line, Reading("bash", line), Bash(line)
  PROVE  Inv'
<1>0. line.opens \in Nat /\ line.closes \in Nat
  BY LanguagesAssumption DEF Reading, Brackets
<1>1. mark' \in Int
  BY <1>0 DEF Bash, Reading, Inv
<1>2. CASE Single("shebang")
  <2>1. "shebang" \in BlockTypes
    BY DEF BlockTypes
  <2> QED BY <1>1, <1>2, <2>1, SingleHeld, Unmarked
<1>3. CASE Replace("function", Here)
  <2>1. "function" \in BlockTypes
    BY DEF BlockTypes, Headers
  <2> QED BY <1>1, <1>3, <2>1, ReplaceHeld, Unmarked
<1>4. CASE Close(Here)
  <2>1. Here \in Nat
    BY LinesRead DEF Here
  <2> QED BY <1>1, <1>4, <2>1, CloseHeld, Unmarked
<1>5. CASE Pass
  BY <1>1, <1>5, PassHeld, Unmarked
<1> QED BY <1>2, <1>3, <1>4, <1>5 DEF Bash

LEMMA SqlStep ==
  ASSUME NEW line, Reading("sql", line), Sql(line)
  PROVE  Inv'
<1> DEFINE n == Len(lines)
           statement == IF Begins(line) THEN Open("statement", Here) ELSE current
<1>1. mark' \in Int
  BY DEF Sql, Reading, Inv
<1>2. Held(blocks, statement, n + 1)
  <2>1. "statement" \in BlockTypes
    BY DEF BlockTypes
  <2>2. Held(blocks, Open("statement", Here), n + 1)
    BY <2>1, LinesRead, HeldOpen DEF Held, Here
  <2>3. Held(blocks, current, n + 1)
    BY LinesRead, HeldPass
  <2> QED BY <2>2, <2>3
<1>3. CASE Pass
  BY <1>1, <1>3, PassHeld, Unmarked
<1>4. CASE /\ statement # None
           /\ blocks' = blocks \cup {[statement EXCEPT !.end = Here]} /\ current' = None
  <2>1. blocks' = ClosedOf(blocks, statement, n + 1)
    BY <1>4 DEF ClosedOf, Here
  <2>2. n + 1 \in Nat
    BY LinesRead
  <2>3. Sound(ClosedOf(blocks, statement, n + 1), n + 1)
    BY <1>2, <2>2, HeldClose
  <2>4. Held(blocks', current', n + 1)
    BY <1>4, <2>1, <2>2, <2>3, NoneHeld
  <2> QED BY <1>1, <2>4, Unmarked
<1>5. CASE current' = statement /\ UNCHANGED blocks
  <2>1. Held(blocks', current', n + 1)
    BY <1>2, <1>5
  <2> QED BY <1>1, <2>1, Unmarked
<1> QED BY <1>3, <1>4, <1>5 DEF Sql

LEMMA HtmlStep ==
  ASSUME NEW line, Reading("html", line), Html(line)
  PROVE  Inv'
<1>1. mark' \in Int
  BY DEF Html, Reading, Inv
<1>2. CASE current' = Open(Foremost(line.opens), Here) /\ UNCHANGED blocks
  <2>1. Foremost(line.opens) \in BlockTypes
    BY DEF BlockTypes, Foremost, Tags
  <2> QED BY <1>1, <1>2, <2>1, OpenHeld, Unmarked
<1>3. CASE Close(Here)
  <2>1. Here \in Nat
    BY LinesRead DEF Here
  <2> QED BY <1>1, <1>3, <2>1, CloseHeld, Unmarked
<1>4. CASE Pass
  BY <1>1, <1>4, PassHeld, Unmarked
<1> QED BY <1>2, <1>3, <1>4 DEF Html

(* Of the two whose mark does: what is left to show.                       *)
LEMMA Marked ==
  ASSUME NEW p, NEW line, Reading(p, line), mark' \in Int,
         Held(blocks', current', Len(lines) + 1),
         MarkHeld(blocks', current', mark', Len(lines) + 1)
  PROVE  Inv'
<1>1. Sound(blocks', Len(lines)')
  BY LinesRead DEF Held
<1>2. Held(blocks, current, Len(lines))' /\ MarkHeld(blocks, current, mark, Len(lines))'
  BY LinesRead DEF MarkHeld, Reading
<1> QED BY <1>1, <1>2, LinesRead DEF Inv, Reading

LEMMA GenericStep ==
  ASSUME NEW line, Reading("generic", line), Generic(line)
  PROVE  Inv'
<1> DEFINE n == Len(lines)
<1>0. /\ n \in Nat /\ mark \in Int /\ Held(blocks, current, n) /\ parser = "generic" /\ parser' = parser
      /\ 1 <= mark /\ mark <= n + 1 /\ \A b \in blocks : b.end < mark
      /\ current # None => current.start = mark
  BY LinesRead DEF Reading, Inv, MarkHeld
<1>1. CASE current' = Open("block", mark) /\ UNCHANGED <<blocks, mark>>
  <2>1. Open("block", mark) \in Blocks /\ Open("block", mark).start = mark
    BY <1>0 DEF Open, Block, Blocks, BlockTypes
  <2>2. Sound(blocks', n + 1)
    BY <1>0, <1>1, MoreLines DEF Held
  <2>3. Held(blocks', current', n + 1)
    BY <1>0, <1>1, <2>1, <2>2 DEF Held, Room
  <2>4. MarkHeld(blocks', current', mark', n + 1)
    BY <1>0, <1>1, <2>1 DEF MarkHeld
  <2> QED BY <1>0, <1>1, <2>3, <2>4, Marked
<1>2. CASE Close(Here - 1) /\ mark' = Here + 1
  <2>1. Here - 1 = n /\ mark' = n + 2 /\ current' = None /\ blocks' = ClosedOf(blocks, current, n)
    BY <1>0, <1>2 DEF Here, Close, Closed, ClosedOf
  <2>2. Held(blocks', current', n + 1)
    BY <1>0, <1>2, <2>1, CloseHeld
  <2>3. \A b \in blocks' : b.end <= n
    BY <1>0, <2>1, ClosedEnds
  <2>4. \A b \in blocks' : b.end \in Nat
    BY <2>2 DEF Held, Sound, Blocks
  <2>5. MarkHeld(blocks', current', mark', n + 1)
    BY <1>0, <2>1, <2>3, <2>4 DEF MarkHeld
  <2>6. mark' \in Int
    BY <1>0, <2>1
  <2> QED BY <2>2, <2>5, <2>6, Marked
<1>3. CASE Pass /\ UNCHANGED mark
  <2>1. Held(blocks', current', n + 1)
    BY <1>3, PassHeld
  <2>2. MarkHeld(blocks', current', mark', n + 1)
    BY <1>0, <1>3 DEF MarkHeld, Pass
  <2> QED BY <1>0, <1>3, <2>1, <2>2, Marked
<1> QED BY <1>1, <1>2, <1>3 DEF Generic

LEMMA MarkdownStep ==
  ASSUME NEW line, Reading("markdown", line), Markdown(line)
  PROVE  Inv'
<1> DEFINE n == Len(lines)
<1>0. /\ n \in Nat /\ mark \in Int /\ Held(blocks, current, n) /\ parser = "markdown" /\ parser' = parser
      /\ 0 <= mark /\ mark <= n
      /\ mark # 0 => (\A b \in blocks : b.end < mark) /\ (current # None => current.start < mark)
  BY LinesRead DEF Reading, Inv, MarkHeld
<1>1. CASE mark = 0 /\ mark' = Here /\ Pass
  <2>1. Held(blocks', current', n + 1)
    BY <1>1, PassHeld
  <2>2. mark' = n + 1 /\ \A b \in blocks : b.end < n + 1
    BY <1>0, <1>1 DEF Here, Held, Sound, Blocks
  <2>3. current # None => current.start < n + 1
    BY <1>0 DEF Held, Blocks
  <2>4. MarkHeld(blocks', current', mark', n + 1)
    BY <1>0, <1>1, <2>2, <2>3 DEF MarkHeld, Pass
  <2>5. mark' \in Int
    BY <1>0, <2>2
  <2> QED BY <2>1, <2>4, <2>5, Marked
<1>2. CASE /\ mark # 0 /\ blocks' = blocks \cup {Block("code_block", mark, Here)}
           /\ mark' = 0 /\ UNCHANGED current
  <2> DEFINE x == Block("code_block", mark, Here)
  <2>1. x \in Blocks /\ x.start = mark /\ x.end = n + 1
    BY <1>0 DEF Block, Blocks, BlockTypes, Here
  <2>2. Sound(blocks, n + 1)
    BY <1>0, MoreLines DEF Held
  <2>3. Sound(blocks', n + 1)
    BY <1>0, <1>2, <2>1, <2>2, AddBlock
  <2>4. Held(blocks, current, n + 1)
    BY <1>0, HeldPass
  <2>5. Held(blocks', current', n + 1)
    BY <1>0, <1>2, <2>1, <2>3, <2>4 DEF Held, Room
  <2>6. MarkHeld(blocks', current', mark', n + 1)
    BY <1>0, <1>2 DEF MarkHeld
  <2>7. mark' \in Int
    BY <1>2
  <2> QED BY <2>5, <2>6, <2>7, Marked
<1>3. CASE mark = 0 /\ Replace("section", Here) /\ UNCHANGED mark
  <2>1. "section" \in BlockTypes
    BY DEF BlockTypes
  <2>2. Held(blocks', current', n + 1)
    BY <1>3, <2>1, ReplaceHeld
  <2>3. MarkHeld(blocks', current', mark', n + 1)
    BY <1>0, <1>3 DEF MarkHeld
  <2> QED BY <1>0, <1>3, <2>2, <2>3, Marked
<1>4. CASE Pass /\ UNCHANGED mark
  <2>1. Held(blocks', current', n + 1)
    BY <1>4, PassHeld
  <2>2. MarkHeld(blocks', current', mark', n + 1)
    BY <1>0, <1>4 DEF MarkHeld, Pass
  <2> QED BY <1>0, <1>4, <2>1, <2>2, Marked
<1> QED BY <1>1, <1>2, <1>3, <1>4 DEF Markdown

LEMMA FinishStep ==
  ASSUME Inv, Finish
  PROVE  Inv'
<1> DEFINE n == Len(lines)
<1>0. /\ n \in Nat /\ Held(blocks, current, n) /\ MarkHeld(blocks, current, mark, n) /\ mark \in Int
      /\ lines' = lines /\ parser' = parser /\ parser \in Parsers /\ mark' = mark
      /\ done' = TRUE /\ blocks' = AtEnd
  BY DEF Inv, Finish
<1>1. Sound(ClosedOf(blocks, current, n), n)
  BY <1>0, HeldClose
<1>2. ClosedOf(blocks, current, n) = Closed(n)
  BY DEF Closed, ClosedOf
<1>3. CASE parser = "html"
  <2> DEFINE x == Block("document", 1, n)
  <2>1. lines # <<>> /\ n >= 1
    BY <1>3 DEF Finish, Inv
  <2>2. x \in Blocks /\ x.start = 1 /\ x.end = n
    BY <1>0 DEF Block, Blocks, BlockTypes
  <2>3. CASE blocks = {}
    <3>1. Sound(blocks \cup {x}, n)
      BY <1>0, <2>1, <2>2, <2>3, AddBlock DEF Held
    <3> QED BY <1>0, <1>3, <2>3, <3>1 DEF AtEnd, Inv
  <2>4. CASE blocks # {}
    BY <1>0, <1>3, <2>4 DEF AtEnd, Inv, Held
  <2> QED BY <2>3, <2>4
<1>4. CASE parser = "markdown"
  <2> DEFINE x == Block("code_block", mark, n)
             bs == blocks \cup {x}
  <2>1. CASE mark = 0
    BY <1>0, <1>1, <1>2, <1>4, <2>1 DEF AtEnd, Inv
  <2>2. CASE mark # 0
    <3>0. /\ 0 < mark /\ mark <= n
          /\ \A b \in blocks : b.end < mark
          /\ current # None => current.start < mark
      BY <1>0, <1>4, <2>2 DEF MarkHeld
    <3>1. x \in Blocks /\ x.start = mark /\ x.end = n
      BY <1>0, <3>0 DEF Block, Blocks, BlockTypes
    <3>2. Sound(blocks, n)
      BY <1>0 DEF Held
    <3>3. Sound(bs, n)
      BY <1>0, <3>0, <3>1, <3>2, AddBlock
    <3>4. Held(bs, current, n)
      BY <1>0, <3>0, <3>1, <3>3 DEF Held, Room
    <3>5. Sound(ClosedOf(bs, current, n), n)
      BY <1>0, <3>4, HeldClose
    <3>6. ClosedOf(bs, current, n) = Closed(n) \cup {x}
      BY DEF ClosedOf, Closed
    <3>7. AtEnd = Closed(n) \cup {x}
      BY <1>4, <2>2 DEF AtEnd
    <3> QED BY <1>0, <3>5, <3>6, <3>7 DEF Inv
  <2> QED BY <2>1, <2>2
<1>5. CASE parser \notin {"html", "markdown"}
  BY <1>0, <1>1, <1>2, <1>5 DEF AtEnd, Inv
<1> QED BY <1>3, <1>4, <1>5

LEMMA InitInv == Init => Inv
<1> SUFFICES ASSUME Init PROVE Inv
  OBVIOUS
<1>1. parser \in Parsers
  BY DEF Init, ParsersOf, Parsers
<1>2. lines = <<>> /\ lines \in Seq(Lines[parser]) /\ Len(lines) = 0
  BY DEF Init
<1>3. Sound(blocks, 0)
  BY DEF Init, Sound
<1>4. Held(blocks, current, 0)
  BY <1>3, NoneHeld DEF Init
<1>5. MarkHeld(blocks, current, mark, 0) /\ mark \in Int
  BY DEF Init, MarkHeld
<1> QED BY <1>1, <1>2, <1>3, <1>4, <1>5 DEF Inv, Init

LEMMA NextInv == Inv /\ [Next]_vars => Inv'
<1> SUFFICES ASSUME Inv, [Next]_vars PROVE Inv'
  OBVIOUS
<1>1. CASE Finish
  BY <1>1, FinishStep
<1>2. ASSUME NEW line \in Lines[parser], Read(line)
      PROVE  Inv'
  <2>0. Reading(parser, line)
    BY <1>2 DEF Read, Reading
  <2>1. CASE parser = "generic" /\ Generic(line)
    BY <2>0, <2>1, GenericStep
  <2>2. CASE parser = "python" /\ Python(line)
    BY <2>0, <2>2, PythonStep
  <2>3. CASE parser = "javascript" /\ JavaScript(line)
    BY <2>0, <2>3, JavaScriptStep
  <2>4. CASE parser = "bash" /\ Bash(line)
    BY <2>0, <2>4, BashStep
  <2>5. CASE parser = "sql" /\ Sql(line)
    BY <2>0, <2>5, SqlStep
  <2>6. CASE parser = "html" /\ Html(line)
    BY <2>0, <2>6, HtmlStep
  <2>7. CASE parser = "markdown" /\ Markdown(line)
    BY <2>0, <2>7, MarkdownStep
  <2> QED BY <1>2, <2>1, <2>2, <2>3, <2>4, <2>5, <2>6, <2>7 DEF Read
<1>3. CASE UNCHANGED vars
  BY <1>3 DEF vars, Inv, Held, Sound, Room, MarkHeld
<1> QED BY <1>1, <1>2, <1>3 DEF Next

(* In every reachable state the blocks have room for each other.           *)
THEOREM InductiveBlocks == Spec => []Inv
<1>1. Init => Inv
  BY InitInv
<1>2. Inv /\ [Next]_vars => Inv'
  BY NextInv
<1> QED BY <1>1, <1>2, PTL DEF Spec

(* Whatever the document, two blocks are apart or one lies in the other,   *)
(* below its first line, and all of them are made of lines that exist.     *)
THEOREM NestedHolds == Spec => []Nested
<1>1. Inv => Nested
  BY DEF Inv, Sound, Nested
<1> QED BY <1>1, InductiveBlocks, PTL

-----------------------------------------------------------------------------
(* Nothing that a parser is there to keep is lost.                         *)

InBlock(bs, i) == \E b \in bs : b.start <= i /\ i <= b.end

(* Line i is in a block or in what is open. *)
Kept(bs, cur, mk, i) ==
  \/ InBlock(bs, i)
  \/ cur # None /\ cur.start <= i
  \/ parser = "markdown" /\ mk # 0 /\ mk <= i

KeptInv ==
  /\ ~done => \A i \in DOMAIN lines : Content(i) => Kept(blocks, current, mark, i)
  /\ done => \A i \in DOMAIN lines : Content(i) => InBlock(blocks, i)
  /\ done /\ parser = "html" => blocks # {}
  /\ parser = "generic" => \A b, c \in blocks : b # c => Apart(b, c)

(* What Content says of a line. *)
Kind(p, line) ==
  CASE p = "generic" -> line.is = "text"
    [] p = "sql" -> line.is = "statement"
    [] p = "markdown" -> line.is # "text"
    [] p = "python" -> line.is \in Headers \cup {"import"}
    [] p = "bash" -> line.is \in {"function", "shebang"}
    [] OTHER -> FALSE

(* A block that is closed holds the lines that it held when it was open. *)
LEMMA ClosedHolds ==
  ASSUME NEW bs, NEW cur \in Blocks, NEW i \in Nat, NEW e \in Nat, i <= e,
         InBlock(bs, i) \/ (cur # None /\ cur.start <= i)
  PROVE  InBlock(ClosedOf(bs, cur, e), i)
<1>1. CASE InBlock(bs, i)
  BY <1>1 DEF InBlock, ClosedOf
<1>2. CASE cur # None /\ cur.start <= i
  <2>1. [cur EXCEPT !.end = e].start <= i /\ i <= [cur EXCEPT !.end = e].end
    BY <1>2 DEF Blocks
  <2>. QED BY <1>2, <2>1 DEF InBlock, ClosedOf
<1>. QED BY <1>1, <1>2

(* What the lemmas of the parsers have to show of a line. *)
Keeps(p, line) ==
  /\ \A i \in 1 .. Len(lines) : Kept(blocks, current, mark, i) => Kept(blocks', current', mark', i)
  /\ Kind(p, line) => Kept(blocks', current', mark', Len(lines) + 1)

LEMMA ReadKeeps ==
  ASSUME KeptInv, NEW p, NEW line, Reading(p, line), Keeps(p, line),
         p = "generic" => \A b, c \in blocks' : b # c => Apart(b, c)
  PROVE  KeptInv'
<1>1. /\ Len(lines) \in Nat /\ DOMAIN lines = 1 .. Len(lines) /\ DOMAIN lines' = 1 .. Len(lines) + 1
      /\ lines'[Len(lines) + 1] = line /\ \A i \in 1 .. Len(lines) : lines'[i] = lines[i]
      /\ parser' = parser /\ parser = p /\ ~ done /\ ~ done'
  BY DEF Reading, Inv
<1>2. ASSUME NEW i \in DOMAIN lines', Content(i)' PROVE Kept(blocks, current, mark, i)'
  <2>1. CASE i = Len(lines) + 1
    <3>1. Kind(p, line)
      BY <1>1, <1>2, <2>1 DEF Content, Kind
    <3>. QED BY <1>1, <2>1, <3>1 DEF Keeps, Kept
  <2>2. CASE i \in 1 .. Len(lines)
    <3>1. Content(i)
      BY <1>1, <1>2, <2>2 DEF Content
    <3>2. Kept(blocks, current, mark, i)
      BY <1>1, <2>2, <3>1 DEF KeptInv
    <3>. QED BY <1>1, <2>2, <3>2 DEF Keeps, Kept
  <2>. QED BY <1>1, <2>1, <2>2
<1>. QED BY <1>1, <1>2 DEF KeptInv

LEMMA PassKeeps ==
  ASSUME NEW i, Pass, mark' = mark, Kept(blocks, current, mark, i)
  PROVE  Kept(blocks', current', mark', i)
BY DEF Pass, Kept

LEMMA CloseKeeps ==
  ASSUME NEW p, p # "markdown", NEW line, Reading(p, line), NEW e \in Nat, NEW i \in Nat, i <= e, Close(e),
         Kept(blocks, current, mark, i)
  PROVE  Kept(blocks', current', mark', i)
<1>1. current \in Blocks /\ blocks' = ClosedOf(blocks, current, e)
  BY LinesRead DEF Held, Close, Closed, ClosedOf
<1>2. InBlock(blocks, i) \/ (current # None /\ current.start <= i)
  BY DEF Kept, Reading
<1>. QED BY <1>1, <1>2, ClosedHolds DEF Kept

LEMMA ReplaceKeeps ==
  ASSUME NEW p, NEW line, Reading(p, line), NEW type \in BlockTypes, Replace(type, Here), mark' = mark \/ p # "markdown"
  PROVE  /\ \A i \in 1 .. Len(lines) : Kept(blocks, current, mark, i) => Kept(blocks', current', mark', i)
         /\ Kept(blocks', current', mark', Len(lines) + 1)
<1>1. /\ Len(lines) \in Nat /\ current \in Blocks /\ blocks' = ClosedOf(blocks, current, Len(lines))
      /\ current' = Open(type, Len(lines) + 1)
  BY LinesRead DEF Held, Replace, Closed, ClosedOf, Here
<1>2. current' # None /\ current'.start = Len(lines) + 1
  BY <1>1 DEF Open, None, Block
<1>3. ASSUME NEW i \in 1 .. Len(lines), Kept(blocks, current, mark, i) PROVE Kept(blocks', current', mark', i)
  <2>1. CASE InBlock(blocks, i) \/ (current # None /\ current.start <= i)
    BY <1>1, <2>1, ClosedHolds DEF Kept
  <2>2. CASE parser = "markdown" /\ mark # 0 /\ mark <= i
    BY <2>2 DEF Kept, Reading
  <2>. QED BY <1>3, <2>1, <2>2 DEF Kept
<1>. QED BY <1>1, <1>2, <1>3 DEF Kept

LEMMA SingleKeeps ==
  ASSUME NEW p, p # "markdown", NEW line, Reading(p, line), NEW type, Single(type)
  PROVE  /\ \A i \in 1 .. Len(lines) : Kept(blocks, current, mark, i) => Kept(blocks', current', mark', i)
         /\ Kept(blocks', current', mark', Len(lines) + 1)
<1>1. Block(type, Here, Here).start = Len(lines) + 1 /\ Block(type, Here, Here).end = Len(lines) + 1
      /\ Len(lines) \in Nat
  BY LinesRead DEF Block, Here
<1>. QED BY <1>1 DEF Single, Kept, InBlock, Reading

LEMMA PythonKeeps ==
  ASSUME NEW line, Reading("python", line), Python(line)
  PROVE  Keeps("python", line)
<1>0. Len(lines) \in Nat
  BY LinesRead
<1>1. CASE line.is \in Headers /\ Replace(line.is, Here)
  <2>1. line.is \in BlockTypes
    BY <1>1 DEF BlockTypes
  <2>. QED BY <1>1, <2>1, ReplaceKeeps DEF Keeps
<1>2. CASE line.is = "import" /\ Single("import")
  BY <1>2, SingleKeeps DEF Keeps
<1>3. CASE line.is = "code" /\ Close(Here - 1)
  <2>1. ASSUME NEW i \in 1 .. Len(lines), Kept(blocks, current, mark, i)
        PROVE  Kept(blocks', current', mark', i)
    <3>1. Here - 1 \in Nat /\ i \in Nat /\ i <= Here - 1
      BY <1>0 DEF Here
    <3>. QED BY <1>3, <2>1, <3>1, CloseKeeps
  <2>. QED BY <1>3, <2>1 DEF Keeps, Kind, Headers
<1>4. CASE line.is \in {"blank", "code"} /\ Pass /\ UNCHANGED mark
  BY <1>4, PassKeeps DEF Keeps, Kind, Headers
<1>. QED BY <1>1, <1>2, <1>3, <1>4 DEF Python, Leaves

LEMMA BashKeeps ==
  ASSUME NEW line, Reading("bash", line), Bash(line)
  PROVE  Keeps("bash", line)
<1>0. Len(lines) \in Nat
  BY LinesRead
<1>1. CASE Replace("function", Here)
  <2>1. "function" \in BlockTypes
    BY DEF BlockTypes, Headers
  <2>. QED BY <1>1, <2>1, ReplaceKeeps DEF Keeps
<1>2. CASE Single("shebang")
  BY <1>2, SingleKeeps DEF Keeps
<1>3. CASE line.is = "code" /\ Close(Here)
  <2>1. ASSUME NEW i \in 1 .. Len(lines), Kept(blocks, current, mark, i)
        PROVE  Kept(blocks', current', mark', i)
    <3>1. Here \in Nat /\ i \in Nat /\ i <= Here
      BY <1>0 DEF Here
    <3>. QED BY <1>3, <2>1, <3>1, CloseKeeps
  <2>. QED BY <1>3, <2>1 DEF Keeps, Kind
<1>4. CASE line.is \in {"comment", "code"} /\ Pass
  <2>1. \A i : Kept(blocks, current, mark, i) => Kept(blocks', current', mark', i)
    BY <1>4 DEF Pass, Kept, Reading
  <2>. QED BY <1>4, <2>1 DEF Keeps, Kind
<1>. QED BY <1>1, <1>2, <1>3, <1>4 DEF Bash

LEMMA SqlKeeps ==
  ASSUME NEW line, Reading("sql", line), Sql(line)
  PROVE  Keeps("sql", line)
<1>. DEFINE n == Len(lines)
            statement == IF Begins(line) THEN Open("statement", Here) ELSE current
<1>0. n \in Nat /\ Here = n + 1 /\ current \in Blocks /\ (current # None => current.start <= n)
  BY LinesRead DEF Held, Here
<1>1. Open("statement", n + 1) \in Blocks /\ Open("statement", n + 1).start = n + 1
      /\ Open("statement", n + 1) # None
  BY <1>0 DEF Open, Block, Blocks, BlockTypes, None
<1>2. /\ statement \in Blocks /\ (current # None => statement = current)
      /\ line.is = "statement" => statement # None /\ statement.start <= n + 1
  <2>1. CASE Begins(line)
    <3>1. statement = Open("statement", n + 1)
      BY <1>0, <2>1
    <3>. HIDE DEF statement, n
    <3>. QED BY <1>0, <1>1, <2>1, <3>1 DEF Begins
  <2>2. CASE ~ Begins(line)
    <3>1. statement = current
      BY <2>2
    <3>2. line.is = "statement" => current # None
      BY <2>2 DEF Begins
    <3>3. current # None => current.start <= n + 1
      BY <1>0 DEF Blocks
    <3>. HIDE DEF statement, n
    <3>. QED BY <1>0, <3>1, <3>2, <3>3
  <2>. QED BY <2>1, <2>2
<1>. HIDE DEF n, statement
<1>3. CASE line.is = "comment" /\ Pass
  <2>1. \A i : Kept(blocks, current, mark, i) => Kept(blocks', current', mark', i)
    BY <1>3 DEF Pass, Kept, Reading
  <2>. QED BY <1>3, <2>1 DEF Keeps, Kind
<1>4. CASE /\ statement # None
           /\ blocks' = blocks \cup {[statement EXCEPT !.end = Here]} /\ current' = None
  <2>1. blocks' = ClosedOf(blocks, statement, n + 1)
    BY <1>0, <1>4 DEF ClosedOf
  <2>2. ASSUME NEW i \in 1 .. n + 1, InBlock(blocks, i) \/ (statement # None /\ statement.start <= i)
        PROVE  InBlock(blocks', i)
    <3>1. n + 1 \in Nat /\ i \in Nat /\ i <= n + 1
      BY <1>0
    <3>. QED BY <1>2, <2>1, <2>2, <3>1, ClosedHolds
  <2>3. \A i \in 1 .. n : i \in 1 .. n + 1
    BY <1>0
  <2>4. \A i \in 1 .. n : Kept(blocks, current, mark, i) => Kept(blocks', current', mark', i)
    BY <1>2, <2>2, <2>3 DEF Kept, Reading
  <2>5. line.is = "statement" => Kept(blocks', current', mark', n + 1)
    <3>1. n + 1 \in 1 .. n + 1
      BY <1>0
    <3>. QED BY <1>2, <2>2, <3>1 DEF Kept
  <2>. QED BY <2>4, <2>5 DEF Keeps, Kind, n
<1>5. CASE current' = statement /\ UNCHANGED blocks
  <2>1. \A i \in 1 .. n : Kept(blocks, current, mark, i) => Kept(blocks', current', mark', i)
    BY <1>2, <1>5 DEF Kept, Reading
  <2>2. line.is = "statement" => Kept(blocks', current', mark', n + 1)
    BY <1>2, <1>5 DEF Kept
  <2>. QED BY <2>1, <2>2 DEF Keeps, Kind, n
<1>. QED BY <1>3, <1>4, <1>5 DEF Sql, statement

(* The text before a blank line is apart from the text after it. *)
LEMMA GenericKeeps ==
  ASSUME KeptInv, NEW line, Reading("generic", line), Generic(line)
  PROVE  Keeps("generic", line) /\ \A b, c \in blocks' : b # c => Apart(b, c)
<1>. DEFINE n == Len(lines)
<1>0. /\ n \in Nat /\ mark \in Int /\ parser = "generic" /\ current \in Blocks
      /\ 1 <= mark /\ mark <= n + 1 /\ \A b \in blocks : b.end < mark
      /\ current # None => current.start = mark
  BY LinesRead DEF Reading, Inv, MarkHeld, Held
<1>1. \A b, c \in blocks : b # c => Apart(b, c)
  BY <1>0 DEF KeptInv
<1>. HIDE DEF n
<1>2. CASE line.is = "text" /\ current' = Open("block", mark) /\ UNCHANGED <<blocks, mark>>
  <2>1. Open("block", mark) # None /\ Open("block", mark).start = mark
    BY <1>0 DEF Open, Block, None
  <2>2. \A i \in 1 .. n : Kept(blocks, current, mark, i) => Kept(blocks', current', mark', i)
    BY <1>0, <1>2, <2>1 DEF Kept
  <2>3. Kept(blocks', current', mark', n + 1)
    BY <1>0, <1>2, <2>1 DEF Kept
  <2>. QED BY <1>1, <1>2, <2>2, <2>3 DEF Keeps, n
<1>3. CASE line.is = "blank" /\ current # None /\ Close(Here - 1) /\ mark' = Here + 1
  <2>1. Here - 1 = n /\ blocks' = ClosedOf(blocks, current, n)
    BY <1>0, <1>3 DEF Here, Close, Closed, ClosedOf, n
  <2>2. ASSUME NEW i \in 1 .. n, Kept(blocks, current, mark, i)
        PROVE  Kept(blocks', current', mark', i)
    <3>1. Here - 1 \in Nat /\ i \in Nat /\ i <= Here - 1
      BY <1>0, <2>1
    <3>. QED BY <1>3, <2>2, <3>1, CloseKeeps
  <2>3. \A b, c \in blocks' : b # c => Apart(b, c)
    <3>. DEFINE x == [current EXCEPT !.end = n]
    <3>1. x.start = mark /\ blocks' = blocks \cup {x}
      BY <1>0, <1>3, <2>1 DEF ClosedOf, Blocks
    <3>2. \A b \in blocks : Apart(b, x) /\ Apart(x, b)
      BY <1>0, <3>1 DEF Apart
    <3>. HIDE DEF x
    <3>. QED BY <1>1, <3>1, <3>2
  <2>. QED BY <1>3, <2>2, <2>3 DEF Keeps, Kind, n
<1>4. CASE line.is = "blank" /\ Pass /\ UNCHANGED mark
  <2>1. \A i : Kept(blocks, current, mark, i) => Kept(blocks', current', mark', i)
    BY <1>4, PassKeeps
  <2>. QED BY <1>1, <1>4, <2>1 DEF Keeps, Kind, Pass
<1>. QED BY <1>2, <1>3, <1>4 DEF Generic

LEMMA MarkdownKeeps ==
  ASSUME NEW line, Reading("markdown", line), Markdown(line)
  PROVE  Keeps("markdown", line)
<1>. DEFINE n == Len(lines)
<1>0. /\ n \in Nat /\ Here = n + 1 /\ mark \in Int /\ parser = "markdown" /\ parser' = parser
      /\ 0 <= mark /\ mark <= n
  BY LinesRead DEF Reading, Inv, MarkHeld, Here
<1>. HIDE DEF n
<1>1. CASE mark = 0 /\ mark' = Here /\ Pass
  <2>1. \A i : Kept(blocks, current, mark, i) => Kept(blocks', current', mark', i)
    BY <1>1 DEF Kept, Pass
  <2>2. Kept(blocks', current', mark', n + 1)
    BY <1>0, <1>1 DEF Kept
  <2>. QED BY <2>1, <2>2 DEF Keeps, n
<1>2. CASE /\ mark # 0 /\ blocks' = blocks \cup {Block("code_block", mark, Here)}
           /\ mark' = 0 /\ UNCHANGED current
  <2>1. Block("code_block", mark, Here).start = mark /\ Block("code_block", mark, Here).end = n + 1
    BY <1>0 DEF Block
  <2>2. ASSUME NEW i \in 1 .. n + 1, Kept(blocks, current, mark, i) \/ i = n + 1
        PROVE  Kept(blocks', current', mark', i)
    <3>1. CASE mark <= i
      <4>1. InBlock(blocks', i)
        BY <1>0, <1>2, <2>1, <3>1 DEF InBlock
      <4>. QED BY <4>1 DEF Kept
    <3>2. CASE ~ mark <= i
      <4>1. InBlock(blocks, i) \/ (current # None /\ current.start <= i)
        BY <1>0, <2>2, <3>2 DEF Kept
      <4>2. InBlock(blocks, i) => InBlock(blocks', i)
        BY <1>2 DEF InBlock
      <4>. QED BY <1>2, <4>1, <4>2 DEF Kept
    <3>. QED BY <3>1, <3>2
  <2>3. n + 1 \in 1 .. n + 1 /\ \A i \in 1 .. n : i \in 1 .. n + 1
    BY <1>0
  <2>. QED BY <2>2, <2>3 DEF Keeps, n
<1>3. CASE Replace("section", Here) /\ UNCHANGED mark
  <2>1. "section" \in BlockTypes
    BY DEF BlockTypes
  <2>. QED BY <1>3, <2>1, ReplaceKeeps DEF Keeps
<1>4. CASE (line.is = "text" \/ mark # 0) /\ Pass /\ UNCHANGED mark
  <2>1. \A i : Kept(blocks, current, mark, i) => Kept(blocks', current', mark', i)
    BY <1>4, PassKeeps
  <2>2. Kind("markdown", line) => Kept(blocks', current', mark', n + 1)
    BY <1>0, <1>4 DEF Kind, Kept
  <2>. QED BY <2>1, <2>2 DEF Keeps, n
<1>. QED BY <1>1, <1>2, <1>3, <1>4 DEF Markdown

LEMMA KeptNext == Inv /\ KeptInv /\ [Next]_vars => KeptInv'
<1>. SUFFICES ASSUME Inv, KeptInv, [Next]_vars PROVE KeptInv'
  OBVIOUS
<1>1. CASE UNCHANGED vars
  BY <1>1 DEF vars, KeptInv, Content, Kept
<1>2. CASE Finish
  <2>0. /\ Len(lines) \in Nat /\ DOMAIN lines = 1 .. Len(lines) /\ ~ done /\ current \in Blocks
        /\ blocks' = AtEnd /\ done' /\ lines' = lines /\ parser' = parser /\ parser \in Parsers
        /\ \A i \in DOMAIN lines : Content(i) => Kept(blocks, current, mark, i)
    BY <1>2 DEF Finish, Inv, Held, KeptInv
  <2>. DEFINE n == Len(lines)
  <2>1. parser # "html" => ClosedOf(blocks, current, n) \subseteq blocks'
    BY <2>0 DEF AtEnd, Closed, ClosedOf
  <2>2. ASSUME NEW i \in DOMAIN lines, Content(i) PROVE InBlock(blocks', i)
    <3>1. parser \notin {"html", "javascript"} /\ i \in Nat /\ i <= n
      BY <2>0, <2>2 DEF Content
    <3>2. CASE InBlock(blocks, i) \/ (current # None /\ current.start <= i)
      <4>1. InBlock(ClosedOf(blocks, current, n), i)
        BY <2>0, <3>1, <3>2, ClosedHolds
      <4>. QED BY <2>1, <3>1, <4>1 DEF InBlock
    <3>3. CASE parser = "markdown" /\ mark # 0 /\ mark <= i
      <4>1. Block("code_block", mark, n) \in blocks'
        BY <2>0, <3>3 DEF AtEnd
      <4>2. Block("code_block", mark, n).start = mark /\ Block("code_block", mark, n).end = n
        BY DEF Block
      <4>. QED BY <3>1, <3>3, <4>1, <4>2 DEF InBlock
    <3>. QED BY <2>0, <2>2, <3>2, <3>3 DEF Kept
  <2>3. parser = "html" => blocks' # {}
    BY <2>0 DEF AtEnd
  <2>4. parser = "generic" => \A b, c \in blocks' : b # c => Apart(b, c)
    <3>. SUFFICES ASSUME parser = "generic" PROVE \A b, c \in blocks' : b # c => Apart(b, c)
      OBVIOUS
    <3>1. /\ mark \in Int /\ \A b \in blocks : b.end < mark
          /\ current # None => current.start = mark
      BY <2>0 DEF Inv, MarkHeld
    <3>2. blocks' = ClosedOf(blocks, current, n)
      BY <2>0 DEF AtEnd, Closed, ClosedOf
    <3>3. \A b, c \in blocks : b # c => Apart(b, c)
      BY DEF KeptInv
    <3>. DEFINE x == [current EXCEPT !.end = n]
    <3>4. CASE current = None
      BY <3>2, <3>3, <3>4 DEF ClosedOf
    <3>5. CASE current # None
      <4>1. x.start = mark /\ blocks' = blocks \cup {x}
        BY <2>0, <3>1, <3>2, <3>5 DEF ClosedOf, Blocks
      <4>2. \A b \in blocks : Apart(b, x) /\ Apart(x, b)
        BY <3>1, <4>1 DEF Apart
      <4>. HIDE DEF x
      <4>. QED BY <3>3, <4>1, <4>2
    <3>. QED BY <3>4, <3>5
  <2>5. \A i : Content(i)' = Content(i)
    BY <2>0 DEF Content
  <2>. QED BY <2>0, <2>2, <2>3, <2>4, <2>5 DEF KeptInv
<1>3. ASSUME NEW line \in Lines[parser], Read(line) PROVE KeptInv'
  <2>1. Reading(parser, line)
    BY <1>3 DEF Read, Reading
  <2>2. CASE parser \in {"javascript", "html"}
    <3>1. \A i : ~ Content(i)'
      BY <2>1, <2>2 DEF Reading, Content
    <3>. QED BY <2>1, <2>2, <3>1 DEF KeptInv, Reading
  <2>3. CASE parser = "python" /\ Python(line)
    BY <2>1, <2>3, PythonKeeps, ReadKeeps
  <2>4. CASE parser = "bash" /\ Bash(line)
    BY <2>1, <2>4, BashKeeps, ReadKeeps
  <2>5. CASE parser = "sql" /\ Sql(line)
    BY <2>1, <2>5, SqlKeeps, ReadKeeps
  <2>6. CASE parser = "markdown" /\ Markdown(line)
    BY <2>1, <2>6, MarkdownKeeps, ReadKeeps
  <2>7. CASE parser = "generic" /\ Generic(line)
    BY <2>1, <2>7, GenericKeeps, ReadKeeps
  <2>. QED BY <1>3, <2>2, <2>3, <2>4, <2>5, <2>6, <2>7 DEF Read
<1>. QED BY <1>1, <1>2, <1>3 DEF Next

(* No text, statement, heading, code block, function or import is lost,    *)
(* however long the document: each is in a block or in what is open, and   *)
(* what is open is closed at the end.  A line of text is in one block only.*)
THEOREM NoneLostHolds == Spec => []NoneLost
<1>1. Init => Inv /\ KeptInv
  <2>1. Init => KeptInv
    BY DEF Init, KeptInv
  <2>. QED BY <2>1, InitInv
<1>2. Inv /\ KeptInv /\ [Next]_vars => Inv' /\ KeptInv'
  BY NextInv, KeptNext
<1>3. KeptInv => NoneLost
  BY DEF KeptInv, NoneLost, InBlock
<1>. QED BY <1>1, <1>2, <1>3, PTL DEF Spec

-----------------------------------------------------------------------------
(* Functions and classes are whole.                                        *)

(* A running sum is defined for every number of lines. *)
LEMMA RunningSum ==
  ASSUME NEW m \in Nat, NEW w, \A i \in 1 .. m : w[i] \in Int
  PROVE  \E f \in [0 .. m -> Int] : f = [i \in 0 .. m |-> IF i = 0 THEN 0 ELSE f[i - 1] + w[i]]
<1>. DEFINE S == {n \in Nat : n <= m =>
       \E f \in [0 .. n -> Int] : f = [i \in 0 .. n |-> IF i = 0 THEN 0 ELSE f[i - 1] + w[i]]}
<1>1. 0 \in S
  <2>. DEFINE f == [i \in 0 .. 0 |-> 0]
  <2>1. f \in [0 .. 0 -> Int] /\ f = [i \in 0 .. 0 |-> IF i = 0 THEN 0 ELSE f[i - 1] + w[i]]
    OBVIOUS
  <2>. QED BY <2>1
<1>2. ASSUME NEW n \in Nat, n \in S PROVE n + 1 \in S
  <2>. SUFFICES ASSUME n + 1 <= m
                PROVE  \E f \in [0 .. n + 1 -> Int] :
                         f = [i \in 0 .. n + 1 |-> IF i = 0 THEN 0 ELSE f[i - 1] + w[i]]
    OBVIOUS
  <2>1. PICK f \in [0 .. n -> Int] : f = [i \in 0 .. n |-> IF i = 0 THEN 0 ELSE f[i - 1] + w[i]]
    BY <1>2
  <2>. DEFINE g == [i \in 0 .. n + 1 |-> IF i = n + 1 THEN f[n] + w[i] ELSE f[i]]
  <2>2. f[n] \in Int /\ w[n + 1] \in Int /\ n + 1 # 0
    OBVIOUS
  <2>3. g \in [0 .. n + 1 -> Int] /\ g[n + 1] = f[n] + w[n + 1] /\ \A i \in 0 .. n : g[i] = f[i]
    BY <2>2
  <2>. HIDE DEF g
  <2>4. ASSUME NEW i \in 0 .. n + 1 PROVE g[i] = IF i = 0 THEN 0 ELSE g[i - 1] + w[i]
    <3>1. CASE i = n + 1
      <4>1. n \in 0 .. n /\ i - 1 = n /\ i # 0
        BY <3>1
      <4>. QED BY <2>3, <3>1, <4>1
    <3>2. CASE i # n + 1
      <4>1. i \in 0 .. n /\ (i # 0 => i - 1 \in 0 .. n)
        BY <3>2
      <4>2. f[i] = IF i = 0 THEN 0 ELSE f[i - 1] + w[i]
        BY <2>1, <4>1
      <4>. QED BY <2>3, <4>1, <4>2
    <3>. QED BY <3>1, <3>2
  <2>5. g = [i \in 0 .. n + 1 |-> IF i = 0 THEN 0 ELSE g[i - 1] + w[i]]
    BY <2>3, <2>4
  <2>. QED BY <2>3, <2>5
<1>. HIDE DEF S
<1>3. m \in S
  BY <1>1, <1>2, SetInduction
<1>. QED BY <1>3 DEF S

Weighed(ls) == Len(ls) \in Nat /\ \A i \in 1 .. Len(ls) : Weight(ls[i]) \in Int

LEMMA DepthsDef ==
  ASSUME NEW ls, Weighed(ls)
  PROVE  /\ Depths(ls) \in [0 .. Len(ls) -> Int] /\ Depths(ls)[0] = 0
         /\ \A i \in 1 .. Len(ls) : Depths(ls)[i] = Depths(ls)[i - 1] + Weight(ls[i])
<1>. DEFINE m == Len(ls)
            w == [i \in 1 .. m |-> Weight(ls[i])]
            IsDepth(f) == f = [i \in 0 .. m |-> IF i = 0 THEN 0 ELSE f[i - 1] + Weight(ls[i])]
<1>1. m \in Nat /\ \A i \in 1 .. m : w[i] \in Int /\ w[i] = Weight(ls[i])
  BY DEF Weighed
<1>2. PICK f \in [0 .. m -> Int] : f = [i \in 0 .. m |-> IF i = 0 THEN 0 ELSE f[i - 1] + w[i]]
  <2>. HIDE DEF w, m
  <2>. QED BY <1>1, RunningSum
<1>3. IsDepth(f)
  <2>1. \A i \in 0 .. m : i # 0 => w[i] = Weight(ls[i])
    BY <1>1
  <2>. HIDE DEF w, m
  <2>. QED BY <1>2, <2>1
<1>4. Depths(ls) = CHOOSE g : IsDepth(g)
  BY DEF Depths
<1>. DEFINE d == Depths(ls)
<1>5. IsDepth(d)
  <2>. HIDE DEF IsDepth
  <2>. QED BY <1>3, <1>4
<1>. HIDE DEF d
<1>6. d[0] = 0 /\ \A i \in 1 .. m : d[i] = d[i - 1] + Weight(ls[i])
  BY <1>1, <1>5
<1>7. \A i \in 0 .. m : d[i] \in Int
  <2>. DEFINE S == {i \in Nat : i <= m => d[i] \in Int}
  <2>1. 0 \in S
    BY <1>6
  <2>2. ASSUME NEW i \in Nat, i \in S PROVE i + 1 \in S
    <3>. SUFFICES ASSUME i + 1 <= m PROVE d[i + 1] \in Int
      OBVIOUS
    <3>1. i + 1 \in 1 .. m /\ (i + 1) - 1 = i /\ d[i] \in Int
      BY <1>1, <2>2
    <3>2. d[i + 1] = d[i] + Weight(ls[i + 1])
      BY <1>6, <3>1
    <3>. QED BY <3>1, <3>2 DEF Weighed
  <2>. HIDE DEF S
  <2>3. Nat \subseteq S
    BY <2>1, <2>2, SetInduction
  <2>. QED BY <1>1, <2>3 DEF S
<1>8. d \in [0 .. m -> Int]
  BY <1>5, <1>7
<1>. QED BY <1>6, <1>8 DEF d

(* One more line. *)
Extends(ls, more) ==
  /\ Len(ls) \in Nat /\ Len(more) = Len(ls) + 1
  /\ DOMAIN ls = 1 .. Len(ls) /\ DOMAIN more = 1 .. Len(more)
  /\ \A i \in 1 .. Len(ls) : more[i] = ls[i]
  /\ parser # "python" => Weighed(ls) /\ Weighed(more)

LEMMA DepthsGrown ==
  ASSUME NEW ls, NEW more, Extends(ls, more), parser # "python"
  PROVE  /\ \A i \in 0 .. Len(ls) : Depths(more)[i] = Depths(ls)[i]
         /\ Depths(more)[Len(more)] = Depths(ls)[Len(ls)] + Weight(more[Len(more)])
<1>. DEFINE n == Len(ls)
            d == Depths(ls)
            e == Depths(more)
            S == {i \in Nat : i <= n => e[i] = d[i]}
<1>1. /\ n \in Nat /\ Len(more) = n + 1 /\ \A i \in 1 .. n : more[i] = ls[i]
      /\ d[0] = 0 /\ \A i \in 1 .. n : d[i] = d[i - 1] + Weight(ls[i])
      /\ e[0] = 0 /\ \A i \in 1 .. n + 1 : e[i] = e[i - 1] + Weight(more[i])
  <2>1. Weighed(ls) /\ Weighed(more)
    BY DEF Extends
  <2>. QED BY <2>1, DepthsDef DEF Extends
<1>. HIDE DEF n, d, e
<1>2. 0 \in S
  BY <1>1
<1>3. ASSUME NEW i \in Nat, i \in S PROVE i + 1 \in S
  <2>. SUFFICES ASSUME i + 1 <= n PROVE e[i + 1] = d[i + 1]
    OBVIOUS
  <2>1. i + 1 \in 1 .. n /\ i + 1 \in 1 .. n + 1 /\ (i + 1) - 1 = i /\ e[i] = d[i]
    BY <1>1, <1>3
  <2>2. d[i + 1] = d[i] + Weight(ls[i + 1]) /\ e[i + 1] = e[i] + Weight(more[i + 1])
    BY <1>1, <2>1
  <2>. QED BY <1>1, <2>1, <2>2
<1>. HIDE DEF S
<1>4. Nat \subseteq S
  BY <1>2, <1>3, SetInduction
<1>5. \A i \in 0 .. n : e[i] = d[i]
  BY <1>1, <1>4 DEF S
<1>6. e[n + 1] = d[n] + Weight(more[n + 1])
  <2>1. n + 1 \in 1 .. n + 1 /\ (n + 1) - 1 = n /\ n \in 0 .. n
    BY <1>1
  <2>. QED BY <1>1, <1>5, <2>1
<1>. QED BY <1>1, <1>5, <1>6 DEF n, d, e

(* What the parsers do with a function or class: the line where the one of *)
(* line i ends, which any other one does, at whatever depth, its end, and  *)
(* whether a JavaScript header within braces took its place.               *)
Stops(ls, i) == {j \in i + 1 .. Len(ls) :
  \/ ls[j].is \in Headers
  \/ /\ ls[j].is = "code"
     /\ IF parser = "python" THEN ls[j].indent <= ls[i].indent
        ELSE Depths(ls)[j] = 0 /\ ls[j].closes > 0}

Stop(ls, i) == CHOOSE j \in Stops(ls, i) : \A k \in Stops(ls, i) : j <= k

Ending(ls, i) ==
  IF Stops(ls, i) = {} THEN Len(ls)
  ELSE IF ls[Stop(ls, i)].is \in Headers \/ parser = "python" THEN Stop(ls, i) - 1 ELSE Stop(ls, i)

Overwritten(ls, i) ==
  /\ parser = "javascript" /\ Stops(ls, i) # {}
  /\ ls[Stop(ls, i)].is \in Headers /\ Depths(ls)[Stop(ls, i)] > 0

(* The blocks of functions and classes by that rule: what the inductive    *)
(* invariant says, from which what the language says of them follows.      *)
AllFound ==
  done /\ parser \in {"python", "javascript", "bash"} =>
    {b \in blocks : b.type \in Headers} =
      {Block(lines[i].is, i, Ending(lines, i)) : i \in {j \in HeadersOf(lines) : ~Overwritten(lines, j)}}

LEMMA StopIs ==
  ASSUME NEW ls, Len(ls) \in Nat, NEW i \in Nat, NEW j \in Stops(ls, i), \A k \in Stops(ls, i) : j <= k
  PROVE  Stop(ls, i) = j
<1>1. Stops(ls, i) \subseteq Int
  BY DEF Stops
<1>2. Stop(ls, i) \in Stops(ls, i) /\ \A k \in Stops(ls, i) : Stop(ls, i) <= k
  <2>. DEFINE P(x) == x \in Stops(ls, i) /\ \A k \in Stops(ls, i) : x <= k
  <2>1. P(j)
    OBVIOUS
  <2>2. Stop(ls, i) = CHOOSE x \in Stops(ls, i) : \A k \in Stops(ls, i) : x <= k
    BY DEF Stop
  <2>. QED BY <2>1, <2>2
<1>. QED BY <1>1, <1>2

LEMMA StopLeast ==
  ASSUME NEW ls, Len(ls) \in Nat, NEW i \in Nat, Stops(ls, i) # {}
  PROVE  Stop(ls, i) \in Stops(ls, i) /\ \A k \in Stops(ls, i) : Stop(ls, i) <= k
<1>1. Stops(ls, i) \subseteq Nat
  BY DEF Stops
<1>2. PICK j \in Stops(ls, i) : \A k \in Stops(ls, i) : j <= k
  BY <1>1, LeastOf
<1>. QED BY <1>2, StopIs

(* A line more ends what the lines before did, and may end another. *)
LEMMA StopsGrown ==
  ASSUME NEW ls, NEW more, Extends(ls, more), NEW i \in 1 .. Len(ls)
  PROVE  /\ Stops(ls, i) \subseteq 1 .. Len(ls) /\ Stops(ls, i) \subseteq Stops(more, i)
         /\ Stops(more, i) \subseteq Stops(ls, i) \cup {Len(more)}
<1>. DEFINE n == Len(ls)
<1>1. /\ n \in Nat /\ Len(more) = n + 1 /\ \A j \in 1 .. n : more[j] = ls[j]
      /\ i + 1 .. n \subseteq 1 .. n
  BY DEF Extends
<1>2. parser # "python" => \A j \in 1 .. n : Depths(more)[j] = Depths(ls)[j]
  BY DepthsGrown
<1>3. ASSUME NEW j \in i + 1 .. n PROVE j \in Stops(more, i) <=> j \in Stops(ls, i)
  <2>1. j \in 1 .. n /\ j \in i + 1 .. n + 1
    BY <1>1
  <2>2. more[j] = ls[j] /\ more[i] = ls[i]
    BY <1>1, <2>1
  <2>. QED BY <1>1, <1>2, <2>1, <2>2 DEF Stops
<1>4. \A j \in i + 1 .. n + 1 : j \in i + 1 .. n \/ j = n + 1
  BY <1>1
<1>5. Stops(ls, i) \subseteq i + 1 .. n /\ Stops(more, i) \subseteq i + 1 .. n + 1
  BY <1>1 DEF Stops
<1>. QED BY <1>1, <1>3, <1>4, <1>5

FunctionAt(ls, i) == Block(ls[i].is, i, Ending(ls, i))

(* What has ended stays as it ended. *)
LEMMA SameFunction ==
  ASSUME NEW ls, NEW more, Extends(ls, more), NEW i \in 1 .. Len(ls), Stops(ls, i) # {}
  PROVE  /\ Stops(more, i) # {} /\ FunctionAt(more, i) = FunctionAt(ls, i)
         /\ Overwritten(more, i) <=> Overwritten(ls, i)
<1>. DEFINE j == Stop(ls, i)
<1>1. i \in Nat /\ Len(ls) \in Nat /\ Len(more) = Len(ls) + 1 /\ Len(more) \in Nat
      /\ \A k \in 1 .. Len(ls) : more[k] = ls[k]
  BY DEF Extends
<1>2. j \in Stops(ls, i) /\ \A k \in Stops(ls, i) : j <= k
  BY <1>1, StopLeast
<1>3. j \in 1 .. Len(ls) /\ j \in Stops(more, i)
  BY <1>2, StopsGrown
<1>4. \A k \in Stops(more, i) : j <= k
  BY <1>1, <1>2, <1>3, StopsGrown
<1>5. Stop(more, i) = j
  BY <1>1, <1>3, <1>4, StopIs
<1>6. more[j] = ls[j] /\ more[i] = ls[i] /\ (parser # "python" => Depths(more)[j] = Depths(ls)[j])
  BY <1>1, <1>3, DepthsGrown
<1>7. Ending(more, i) = Ending(ls, i)
  BY <1>3, <1>5, <1>6 DEF Ending
<1>8. Overwritten(more, i) <=> Overwritten(ls, i)
  BY <1>3, <1>5, <1>6 DEF Overwritten
<1>. QED BY <1>3, <1>6, <1>7, <1>8 DEF FunctionAt

LEMMA NewlyStopped ==
  ASSUME NEW ls, NEW more, Extends(ls, more), NEW i \in 1 .. Len(ls), Stops(ls, i) = {},
         Len(more) \in Stops(more, i)
  PROVE  Stop(more, i) = Len(more)
<1>1. i \in Nat /\ Len(more) \in Nat
  BY DEF Extends
<1>2. \A k \in Stops(more, i) : Len(more) <= k
  BY <1>1, StopsGrown
<1>. QED BY <1>1, <1>2, StopIs

(* The functions that have ended are in the blocks, but for those that     *)
(* were overwritten, and no others; the one that has not is open.          *)
Whole(ls, bs, cur, mk) ==
  /\ \A b \in bs : b.type \in Headers =>
       \E i \in HeadersOf(ls) : Stops(ls, i) # {} /\ ~Overwritten(ls, i) /\ b = FunctionAt(ls, i)
  /\ \A i \in HeadersOf(ls) : Stops(ls, i) # {} /\ ~Overwritten(ls, i) => FunctionAt(ls, i) \in bs
  /\ \A i \in HeadersOf(ls) : Stops(ls, i) = {} =>
       cur = Open(ls[i].is, i) /\ (parser = "python" => mk = ls[i].indent)
  /\ cur # None => \E i \in HeadersOf(ls) : Stops(ls, i) = {}
  /\ parser # "python" => mk = Depths(ls)[Len(ls)]

WholeInv ==
  /\ AllFound
  /\ ~done /\ parser \in {"python", "javascript", "bash"} => Whole(lines, blocks, current, mark)

(* Of the function that is open, what the next line makes of it. *)
LEMMA FunctionEnds ==
  ASSUME NEW ls, NEW more, Extends(ls, more), NEW i \in HeadersOf(ls), Stops(ls, i) = {},
         Len(more) \in Stops(more, i)
  PROVE  /\ FunctionAt(more, i) = Block(ls[i].is, i,
              IF more[Len(more)].is \in Headers \/ parser = "python" THEN Len(ls) ELSE Len(more))
         /\ Overwritten(more, i) <=> /\ parser = "javascript" /\ more[Len(more)].is \in Headers
                                     /\ Depths(more)[Len(more)] > 0
<1>1. i \in 1 .. Len(ls) /\ more[i] = ls[i] /\ Len(more) - 1 = Len(ls)
  BY DEF Extends, HeadersOf
<1>2. Stop(more, i) = Len(more)
  BY <1>1, NewlyStopped
<1>. QED BY <1>1, <1>2 DEF FunctionAt, Ending, Overwritten

LEMMA HeadersMore ==
  ASSUME NEW ls, NEW more, Extends(ls, more)
  PROVE  /\ \A i \in HeadersOf(ls) : i \in HeadersOf(more) /\ i \in 1 .. Len(ls) /\ more[i] = ls[i]
         /\ \A i \in HeadersOf(more) : i \in HeadersOf(ls) \/ i = Len(more)
         /\ Len(more) \in HeadersOf(more) <=> more[Len(more)].is \in Headers
         /\ Len(more) \notin HeadersOf(ls)
         /\ Stops(more, Len(more)) = {}
<1>1. Len(ls) \in Nat /\ Len(more) = Len(ls) + 1 /\ \A i \in 1 .. Len(ls) : more[i] = ls[i]
      /\ DOMAIN ls = 1 .. Len(ls) /\ DOMAIN more = 1 .. Len(more)
  BY DEF Extends
<1>2. \A i \in 1 .. Len(more) : i \in 1 .. Len(ls) \/ i = Len(more)
  BY <1>1
<1>3. Len(more) + 1 .. Len(more) = {} /\ Len(more) \in 1 .. Len(more) /\ Len(more) \notin 1 .. Len(ls)
      /\ 1 .. Len(ls) \subseteq 1 .. Len(more)
  BY <1>1
<1>. QED BY <1>1, <1>2, <1>3 DEF HeadersOf, Stops

(* The line leaves the function that is open as it is. *)
LEMMA PassWhole ==
  ASSUME NEW ls, NEW more, Extends(ls, more), more[Len(more)].is \notin Headers,
         NEW bs, NEW cur, NEW mk, Whole(ls, bs, cur, mk), NEW bs2, NEW mk2,
         bs \subseteq bs2, \A b \in bs2 \ bs : b.type \notin Headers,
         \A i \in HeadersOf(ls) : Stops(ls, i) = {} => Len(more) \notin Stops(more, i),
         parser = "python" => mk2 = mk, parser # "python" => mk2 = mk + Weight(more[Len(more)])
  PROVE  Whole(more, bs2, cur, mk2)
<1>1. HeadersOf(more) = HeadersOf(ls) /\ \A i \in HeadersOf(ls) : i \in 1 .. Len(ls) /\ more[i] = ls[i]
  <2>1. /\ \A i \in HeadersOf(ls) : i \in HeadersOf(more) /\ i \in 1 .. Len(ls) /\ more[i] = ls[i]
        /\ \A i \in HeadersOf(more) : i \in HeadersOf(ls) \/ i = Len(more)
        /\ Len(more) \in HeadersOf(more) <=> more[Len(more)].is \in Headers
    BY HeadersMore
  <2>. QED BY <2>1
<1>2. \A i \in HeadersOf(ls) : Stops(ls, i) # {} =>
        /\ Stops(more, i) # {} /\ FunctionAt(more, i) = FunctionAt(ls, i)
        /\ Overwritten(more, i) <=> Overwritten(ls, i)
  BY <1>1, SameFunction
<1>3. \A i \in HeadersOf(ls) : Stops(ls, i) = {} => Stops(more, i) = {}
  BY <1>1, StopsGrown
<1>4. parser # "python" => mk2 = Depths(more)[Len(more)]
  BY DepthsGrown DEF Whole
<1>. QED BY <1>1, <1>2, <1>3, <1>4 DEF Whole

(* The block that is open is the function that has not ended. *)
LEMMA OpenClosed ==
  ASSUME NEW ls, NEW bs, NEW cur, NEW mk, Whole(ls, bs, cur, mk), NEW e
  PROVE  /\ \A b \in ClosedOf(bs, cur, e) :
              b \in bs \/ \E i \in HeadersOf(ls) : Stops(ls, i) = {} /\ b = Block(ls[i].is, i, e)
         /\ bs \subseteq ClosedOf(bs, cur, e)
         /\ \A i \in HeadersOf(ls) : Stops(ls, i) = {} => Block(ls[i].is, i, e) \in ClosedOf(bs, cur, e)
<1>1. ASSUME NEW i \in HeadersOf(ls), Stops(ls, i) = {}
      PROVE  cur # None /\ [cur EXCEPT !.end = e] = Block(ls[i].is, i, e)
  <2>1. cur = Open(ls[i].is, i)
    BY <1>1 DEF Whole
  <2>. QED BY <2>1 DEF Open, Block, None, HeadersOf, Headers
<1>2. cur # None => \E i \in HeadersOf(ls) : Stops(ls, i) = {}
  BY DEF Whole
<1>. QED BY <1>1, <1>2 DEF ClosedOf

(* The line ends it. *)
LEMMA CloseWhole ==
  ASSUME NEW ls, NEW more, Extends(ls, more), more[Len(more)].is \notin Headers,
         NEW bs, NEW cur, NEW mk, Whole(ls, bs, cur, mk), NEW mk2,
         \A i \in HeadersOf(ls) : Stops(ls, i) = {} => Len(more) \in Stops(more, i),
         parser # "python" => mk2 = mk + Weight(more[Len(more)])
  PROVE  Whole(more, ClosedOf(bs, cur, IF parser = "python" THEN Len(ls) ELSE Len(more)), None, mk2)
<1>. DEFINE e == IF parser = "python" THEN Len(ls) ELSE Len(more)
            bs2 == ClosedOf(bs, cur, e)
<1>1. HeadersOf(more) = HeadersOf(ls) /\ \A i \in HeadersOf(ls) : i \in 1 .. Len(ls) /\ more[i] = ls[i]
  <2>1. /\ \A i \in HeadersOf(ls) : i \in HeadersOf(more) /\ i \in 1 .. Len(ls) /\ more[i] = ls[i]
        /\ \A i \in HeadersOf(more) : i \in HeadersOf(ls) \/ i = Len(more)
        /\ Len(more) \in HeadersOf(more) <=> more[Len(more)].is \in Headers
    BY HeadersMore
  <2>. QED BY <2>1
<1>2. \A i \in HeadersOf(ls) : Stops(ls, i) # {} =>
        /\ Stops(more, i) # {} /\ FunctionAt(more, i) = FunctionAt(ls, i)
        /\ Overwritten(more, i) <=> Overwritten(ls, i)
  BY <1>1, SameFunction
<1>3. \A i \in HeadersOf(ls) : Stops(ls, i) = {} =>
        Stops(more, i) # {} /\ FunctionAt(more, i) = Block(ls[i].is, i, e) /\ ~ Overwritten(more, i)
  BY FunctionEnds
<1>4. parser # "python" => mk2 = Depths(more)[Len(more)]
  BY DepthsGrown DEF Whole
<1>5. /\ \A b \in bs2 : b \in bs \/ \E i \in HeadersOf(ls) : Stops(ls, i) = {} /\ b = Block(ls[i].is, i, e)
      /\ bs \subseteq bs2
      /\ \A i \in HeadersOf(ls) : Stops(ls, i) = {} => Block(ls[i].is, i, e) \in bs2
  <2>. HIDE DEF e
  <2>. QED BY OpenClosed
<1>. HIDE DEF bs2, e
<1>6. \A b \in bs2 : b.type \in Headers =>
        \E i \in HeadersOf(more) : Stops(more, i) # {} /\ ~Overwritten(more, i) /\ b = FunctionAt(more, i)
  <2>1. ASSUME NEW b \in bs, b.type \in Headers
        PROVE  \E i \in HeadersOf(more) : Stops(more, i) # {} /\ ~Overwritten(more, i) /\ b = FunctionAt(more, i)
    <3>1. PICK i \in HeadersOf(ls) : Stops(ls, i) # {} /\ ~Overwritten(ls, i) /\ b = FunctionAt(ls, i)
      BY <2>1 DEF Whole
    <3>. QED BY <1>1, <1>2, <3>1
  <2>. QED BY <1>1, <1>3, <1>5, <2>1
<1>7. \A i \in HeadersOf(more) : Stops(more, i) # {} /\ ~Overwritten(more, i) => FunctionAt(more, i) \in bs2
  BY <1>1, <1>2, <1>3, <1>5 DEF Whole
<1>8. \A i \in HeadersOf(more) : Stops(more, i) # {}
  BY <1>1, <1>2, <1>3
<1>9. Whole(more, bs2, None, mk2)
  BY <1>4, <1>6, <1>7, <1>8 DEF Whole
<1>. QED BY <1>9 DEF bs2, e

(* The line is a header, which ends what is open, or overwrites it. *)
LEMMA HeaderWhole ==
  ASSUME NEW ls, NEW more, Extends(ls, more), more[Len(more)].is \in Headers,
         NEW bs, NEW cur, NEW mk, Whole(ls, bs, cur, mk), NEW bs2, NEW mk2,
         parser = "python" => mk2 = more[Len(more)].indent,
         parser # "python" => mk2 = mk + Weight(more[Len(more)]),
         bs2 = IF parser = "javascript" /\ mk2 > 0 THEN bs ELSE ClosedOf(bs, cur, Len(ls))
  PROVE  Whole(more, bs2, Open(more[Len(more)].is, Len(more)), mk2)
<1>. DEFINE m == Len(more)
            lost == parser = "javascript" /\ mk2 > 0
<1>1. /\ \A i \in HeadersOf(ls) : i \in HeadersOf(more) /\ i \in 1 .. Len(ls) /\ more[i] = ls[i]
      /\ \A i \in HeadersOf(more) : i \in HeadersOf(ls) \/ i = m
      /\ m \in HeadersOf(more) /\ Stops(more, m) = {}
  BY HeadersMore
<1>2. \A i \in HeadersOf(ls) : Stops(ls, i) # {} =>
        /\ Stops(more, i) # {} /\ FunctionAt(more, i) = FunctionAt(ls, i)
        /\ Overwritten(more, i) <=> Overwritten(ls, i)
  BY <1>1, SameFunction
<1>3. parser # "python" => mk2 = Depths(more)[m]
  BY DepthsGrown DEF Whole
<1>4. ASSUME NEW i \in HeadersOf(ls), Stops(ls, i) = {}
      PROVE  /\ Stops(more, i) # {} /\ FunctionAt(more, i) = Block(ls[i].is, i, Len(ls))
             /\ Overwritten(more, i) <=> lost
  <2>1. m \in i + 1 .. m
    BY <1>1 DEF Extends
  <2>2. m \in Stops(more, i)
    BY <2>1 DEF Stops
  <2>3. FunctionAt(more, i) = Block(ls[i].is, i, Len(ls))
    BY <1>4, <2>2, FunctionEnds
  <2>4. Overwritten(more, i) <=> parser = "javascript" /\ Depths(more)[m] > 0
    BY <1>4, <2>2, FunctionEnds
  <2>. QED BY <1>3, <2>2, <2>3, <2>4
<1>5. /\ \A b \in bs2 : b \notin bs =>
           ~ lost /\ \E i \in HeadersOf(ls) : Stops(ls, i) = {} /\ b = Block(ls[i].is, i, Len(ls))
      /\ bs \subseteq bs2
      /\ ~ lost => \A i \in HeadersOf(ls) : Stops(ls, i) = {} => Block(ls[i].is, i, Len(ls)) \in bs2
  <2>. DEFINE closed == ClosedOf(bs, cur, Len(ls))
  <2>1. /\ \A b \in closed : b \in bs \/ \E i \in HeadersOf(ls) : Stops(ls, i) = {} /\ b = Block(ls[i].is, i, Len(ls))
        /\ bs \subseteq closed
        /\ \A i \in HeadersOf(ls) : Stops(ls, i) = {} => Block(ls[i].is, i, Len(ls)) \in closed
    BY OpenClosed
  <2>2. bs2 = IF lost THEN bs ELSE closed
    OBVIOUS
  <2>. HIDE DEF lost, closed
  <2>. QED BY <2>1, <2>2
<1>. HIDE DEF lost
<1>6. \A b \in bs2 : b.type \in Headers =>
        \E i \in HeadersOf(more) : Stops(more, i) # {} /\ ~Overwritten(more, i) /\ b = FunctionAt(more, i)
  <2>1. ASSUME NEW b \in bs, b.type \in Headers
        PROVE  \E i \in HeadersOf(more) : Stops(more, i) # {} /\ ~Overwritten(more, i) /\ b = FunctionAt(more, i)
    <3>1. PICK i \in HeadersOf(ls) : Stops(ls, i) # {} /\ ~Overwritten(ls, i) /\ b = FunctionAt(ls, i)
      BY <2>1 DEF Whole
    <3>. QED BY <1>1, <1>2, <3>1
  <2>2. ASSUME NEW b \in bs2, b \notin bs, b.type \in Headers
        PROVE  \E i \in HeadersOf(more) : Stops(more, i) # {} /\ ~Overwritten(more, i) /\ b = FunctionAt(more, i)
    <3>1. PICK i \in HeadersOf(ls) : Stops(ls, i) = {} /\ b = Block(ls[i].is, i, Len(ls))
      BY <1>5, <2>2
    <3>2. Stops(more, i) # {} /\ FunctionAt(more, i) = b /\ ~ Overwritten(more, i)
      BY <1>4, <1>5, <2>2, <3>1
    <3>. QED BY <1>1, <3>2
  <2>. QED BY <2>1, <2>2
<1>7. \A i \in HeadersOf(more) : Stops(more, i) # {} /\ ~Overwritten(more, i) => FunctionAt(more, i) \in bs2
  BY <1>1, <1>2, <1>4, <1>5 DEF Whole
<1>8. \A i \in HeadersOf(more) : Stops(more, i) = {} => i = m
  BY <1>1, <1>2, <1>4
<1>. QED BY <1>1, <1>3, <1>6, <1>7, <1>8 DEF Whole

LEMMA WholeNow ==
  ASSUME parser' = parser, Whole(lines', blocks', current', mark')
  PROVE  Whole(lines, blocks, current, mark)'
<1>1. \A i : Stops(lines, i)' = Stops(lines', i)
  BY DEF Stops
<1>2. \A i : Stop(lines, i)' = Stop(lines', i)
  BY <1>1 DEF Stop
<1>3. \A i : FunctionAt(lines, i)' = FunctionAt(lines', i) /\ (Overwritten(lines, i)' <=> Overwritten(lines', i))
  BY <1>1, <1>2 DEF FunctionAt, Ending, Overwritten
<1>. QED BY <1>1, <1>3 DEF Whole

LEMMA ReadExtends ==
  ASSUME NEW p \in {"python", "javascript", "bash"}, NEW line, Reading(p, line)
  PROVE  /\ Extends(lines, lines') /\ parser = p /\ parser' = p /\ ~ done /\ ~ done'
         /\ Len(lines) \in Nat /\ Len(lines') = Len(lines) + 1
         /\ DOMAIN lines = 1 .. Len(lines) /\ DOMAIN lines' = 1 .. Len(lines) + 1
         /\ lines'[Len(lines) + 1] = line /\ \A i \in 1 .. Len(lines) : lines'[i] = lines[i]
         /\ (p # "python" => Weight(line) \in Int)
<1>1. /\ parser = p /\ parser' = p /\ ~ done /\ ~ done' /\ Len(lines) \in Nat /\ Len(lines') = Len(lines) + 1
      /\ DOMAIN lines = 1 .. Len(lines) /\ DOMAIN lines' = 1 .. Len(lines) + 1
      /\ lines'[Len(lines) + 1] = line /\ \A i \in 1 .. Len(lines) : lines'[i] = lines[i]
      /\ line \in Lines[p] /\ \A i \in 1 .. Len(lines) : lines[i] \in Lines[p]
  BY DEF Reading, Inv
<1>2. p # "python" => \A x \in Lines[p] : Weight(x) \in Int
  BY LanguagesAssumption DEF Weight, Brackets
<1>3. p # "python" => Weighed(lines) /\ Weighed(lines')
  BY <1>1, <1>2 DEF Weighed
<1>. QED BY <1>1, <1>2, <1>3 DEF Extends

(* What the steps do to the blocks, in terms of the lemmas above. *)
LEMMA StepBlocks ==
  ASSUME NEW p \in {"python", "javascript", "bash"}, NEW line, Reading(p, line)
  PROVE  /\ \A e : Close(e) => blocks' = ClosedOf(blocks, current, e) /\ current' = None
         /\ \A type : Replace(type, Here) =>
              blocks' = ClosedOf(blocks, current, Len(lines)) /\ current' = Open(type, Len(lines'))
         /\ \A type : Single(type) /\ type \notin Headers =>
              /\ current' = current /\ blocks \subseteq blocks'
              /\ \A b \in blocks' \ blocks : b.type \notin Headers
<1>1. Here = Len(lines') /\ Here - 1 = Len(lines)
  BY ReadExtends DEF Here
<1>. QED BY <1>1 DEF Close, Replace, Single, Closed, ClosedOf, Block

LEMMA PythonWhole ==
  ASSUME NEW line, Reading("python", line), Python(line), Whole(lines, blocks, current, mark)
  PROVE  Whole(lines', blocks', current', mark')
<1>. DEFINE n == Len(lines)
            m == Len(lines')
<1>1. /\ Extends(lines, lines') /\ parser = "python" /\ n \in Nat /\ m = n + 1 /\ Here - 1 = n
      /\ lines'[m] = line
  BY ReadExtends DEF Here
<1>2. \A i \in HeadersOf(lines) : Stops(lines, i) = {} =>
        (m \in Stops(lines', i) <=> line.is \in Headers \/ Leaves(line))
  <2>. SUFFICES ASSUME NEW i \in HeadersOf(lines), Stops(lines, i) = {}
                PROVE  m \in Stops(lines', i) <=> line.is \in Headers \/ Leaves(line)
    OBVIOUS
  <2>1. i \in 1 .. n /\ lines'[i] = lines[i] /\ mark = lines[i].indent
    BY <1>1, HeadersMore DEF Whole
  <2>2. m \in i + 1 .. m
    BY <1>1, <2>1
  <2>. QED BY <1>1, <2>1, <2>2 DEF Stops, Leaves
<1>3. CASE line.is \in Headers /\ Replace(line.is, Here) /\ mark' = line.indent
  <2>1. blocks' = ClosedOf(blocks, current, n) /\ current' = Open(line.is, m)
    BY <1>3, StepBlocks
  <2>. HIDE DEF n, m
  <2>. QED BY <1>1, <1>3, <2>1, HeaderWhole DEF n, m
<1>4. CASE line.is = "import" /\ Single("import") /\ UNCHANGED mark
  <2>1. line.is \notin Headers /\ ~ Leaves(line)
    BY <1>4 DEF Headers, Leaves
  <2>2. current' = current /\ blocks \subseteq blocks' /\ \A b \in blocks' \ blocks : b.type \notin Headers
    BY <1>4, StepBlocks DEF Headers
  <2>. QED BY <1>1, <1>2, <1>4, <2>1, <2>2, PassWhole
<1>5. CASE Leaves(line) /\ Close(Here - 1) /\ UNCHANGED mark
  <2>1. line.is \notin Headers
    BY <1>5 DEF Leaves, Headers
  <2>2. blocks' = ClosedOf(blocks, current, n) /\ current' = None
    BY <1>1, <1>5, StepBlocks
  <2>3. Whole(lines', ClosedOf(blocks, current, IF parser = "python" THEN n ELSE m), None, mark')
    BY <1>1, <1>2, <1>5, <2>1, CloseWhole
  <2>. QED BY <1>1, <2>2, <2>3
<1>6. CASE line.is \in {"blank", "code"} /\ ~Leaves(line) /\ Pass /\ UNCHANGED mark
  <2>1. line.is \notin Headers
    BY <1>6 DEF Headers
  <2>. QED BY <1>1, <1>2, <1>6, <2>1, PassWhole DEF Pass
<1>. QED BY <1>3, <1>4, <1>5, <1>6 DEF Python

(* Of the two parsers that count braces: the mark is what the document's   *)
(* braces sum up to, so that the line that Ends meets is the Stop.         *)
LEMMA BracesStop ==
  ASSUME NEW p \in {"javascript", "bash"}, NEW line, Reading(p, line),
         Whole(lines, blocks, current, mark), mark' = mark + Weight(line)
  PROVE  /\ Extends(lines, lines') /\ parser = p /\ lines'[Len(lines')] = line
         /\ \A i \in HeadersOf(lines) : Stops(lines, i) = {} =>
              (Len(lines') \in Stops(lines', i) <=> line.is \in Headers \/ (line.is = "code" /\ Ends(line)))
         /\ (\A i \in HeadersOf(lines) : Stops(lines, i) # {}) <=> current = None
<1>. DEFINE n == Len(lines)
            m == Len(lines')
<1>1. Extends(lines, lines') /\ parser = p /\ n \in Nat /\ m = n + 1 /\ lines'[m] = line
  BY ReadExtends
<1>2. Depths(lines')[m] = mark'
  BY <1>1, DepthsGrown DEF Whole
<1>3. ASSUME NEW i \in HeadersOf(lines), Stops(lines, i) = {}
      PROVE  current # None /\ m \in i + 1 .. m
  <2>1. current = Open(lines[i].is, i) /\ lines[i].is \in Headers
    BY <1>3 DEF Whole, HeadersOf
  <2>2. i \in 1 .. n
    BY <1>1, HeadersMore
  <2>. QED BY <1>1, <2>1, <2>2 DEF Open, Block, None, Headers
<1>4. ASSUME NEW i \in HeadersOf(lines), Stops(lines, i) = {}
      PROVE  m \in Stops(lines', i) <=> line.is \in Headers \/ (line.is = "code" /\ Ends(line))
  <2>. HIDE DEF n, m
  <2>. QED BY <1>1, <1>2, <1>3, <1>4 DEF Stops, Ends, n, m
<1>5. current # None => \E i \in HeadersOf(lines) : Stops(lines, i) = {}
  BY DEF Whole
<1>. QED BY <1>1, <1>3, <1>4, <1>5

LEMMA JavaScriptWhole ==
  ASSUME NEW line, Reading("javascript", line), JavaScript(line), Whole(lines, blocks, current, mark)
  PROVE  Whole(lines', blocks', current', mark')
<1>. DEFINE n == Len(lines)
            m == Len(lines')
<1>0. line.is \in Headers \cup {"import", "code"} /\ mark' = mark + Weight(line) /\ mark' \in Int
  <2>1. line.is \in Headers \cup {"import", "code"} /\ line.opens \in Nat /\ line.closes \in Nat /\ mark \in Int
    BY LanguagesAssumption DEF Reading, Inv, Brackets
  <2>. QED BY <2>1 DEF JavaScript, Weight, Headers
<1>1. /\ Extends(lines, lines') /\ parser = "javascript" /\ lines'[m] = line
      /\ n \in Nat /\ m = n + 1 /\ Here = m
      /\ \A i \in HeadersOf(lines) : Stops(lines, i) = {} =>
           (m \in Stops(lines', i) <=> line.is \in Headers \/ (line.is = "code" /\ Ends(line)))
  BY <1>0, BracesStop, ReadExtends DEF Here
<1>. HIDE DEF n, m
<1>2. CASE line.is = "import" /\ Single("import")
  <2>1. current' = current /\ blocks \subseteq blocks' /\ \A b \in blocks' \ blocks : b.type \notin Headers
    BY <1>2, StepBlocks DEF Headers
  <2>2. line.is \notin Headers /\ line.is # "code"
    BY <1>2 DEF Headers
  <2>. QED BY <1>0, <1>1, <2>1, <2>2, PassWhole DEF n, m
<1>3. CASE line.is \in Headers /\ mark' <= 0 /\ Replace(line.is, Here)
  <2>1. blocks' = ClosedOf(blocks, current, n) /\ current' = Open(line.is, m)
    BY <1>3, StepBlocks DEF n, m
  <2>2. ~ (mark' > 0)
    BY <1>0, <1>3
  <2>. QED BY <1>0, <1>1, <1>3, <2>1, <2>2, HeaderWhole DEF n, m
<1>4. CASE line.is \in Headers /\ mark' > 0 /\ current' = Open(line.is, Here) /\ UNCHANGED blocks
  BY <1>0, <1>1, <1>4, HeaderWhole DEF n, m
<1>5. CASE line.is = "code" /\ Ends(line) /\ Close(Here)
  <2>1. blocks' = ClosedOf(blocks, current, m) /\ current' = None
    BY <1>1, <1>5, StepBlocks
  <2>2. line.is \notin Headers
    BY <1>5 DEF Headers
  <2>3. Whole(lines', ClosedOf(blocks, current, IF parser = "python" THEN n ELSE m), None, mark')
    BY <1>0, <1>1, <1>5, <2>2, CloseWhole DEF n, m
  <2>. QED BY <1>1, <2>1, <2>3
<1>6. CASE line.is = "code" /\ ~Ends(line) /\ Pass
  <2>1. line.is \notin Headers
    BY <1>6 DEF Headers
  <2>. QED BY <1>0, <1>1, <1>6, <2>1, PassWhole DEF Pass, n, m
<1>. QED BY <1>2, <1>3, <1>4, <1>5, <1>6 DEF JavaScript

LEMMA BashWhole ==
  ASSUME NEW line, Reading("bash", line), Bash(line), Whole(lines, blocks, current, mark)
  PROVE  Whole(lines', blocks', current', mark')
<1>. DEFINE n == Len(lines)
            m == Len(lines')
<1>0. mark' = mark + Weight(line)
  <2>1. line.is \in {"shebang", "comment", "function", "code"} /\ line.opens \in Nat /\ line.closes \in Nat
        /\ mark \in Int
    BY LanguagesAssumption DEF Reading, Inv, Brackets
  <2>. QED BY <2>1 DEF Bash, Weight
<1>1. /\ Extends(lines, lines') /\ parser = "bash" /\ lines'[m] = line
      /\ n \in Nat /\ m = n + 1 /\ Here = m
      /\ \A i \in HeadersOf(lines) : Stops(lines, i) = {} =>
           (m \in Stops(lines', i) <=> line.is \in Headers \/ (line.is = "code" /\ Ends(line)))
  BY <1>0, BracesStop, ReadExtends DEF Here
<1>. HIDE DEF n, m
<1>2. CASE line.is = "shebang" /\ Single("shebang")
  <2>1. current' = current /\ blocks \subseteq blocks' /\ \A b \in blocks' \ blocks : b.type \notin Headers
    BY <1>2, StepBlocks DEF Headers
  <2>2. line.is \notin Headers /\ line.is # "code"
    BY <1>2 DEF Headers
  <2>. QED BY <1>0, <1>1, <2>1, <2>2, PassWhole DEF n, m
<1>3. CASE line.is = "function" /\ Replace("function", Here)
  <2>1. blocks' = ClosedOf(blocks, current, n) /\ current' = Open(line.is, m)
    BY <1>3, StepBlocks DEF n, m
  <2>2. line.is \in Headers
    BY <1>3 DEF Headers
  <2>. QED BY <1>0, <1>1, <2>1, <2>2, HeaderWhole DEF n, m
<1>4. CASE line.is = "code" /\ Ends(line) /\ Close(Here)
  <2>1. blocks' = ClosedOf(blocks, current, m) /\ current' = None
    BY <1>1, <1>4, StepBlocks
  <2>2. line.is \notin Headers
    BY <1>4 DEF Headers
  <2>3. Whole(lines', ClosedOf(blocks, current, IF parser = "python" THEN n ELSE m), None, mark')
    BY <1>0, <1>1, <1>4, <2>2, CloseWhole DEF n, m
  <2>. QED BY <1>1, <2>1, <2>3
<1>5. CASE line.is \in {"comment", "code"} /\ ~ (line.is = "code" /\ Ends(line)) /\ Pass
  <2>1. line.is \notin Headers
    BY <1>5 DEF Headers
  <2>. QED BY <1>0, <1>1, <1>5, <2>1, PassWhole DEF Pass, n, m
<1>. QED BY <1>2, <1>3, <1>4, <1>5 DEF Bash

LEMMA WholeAtEnd ==
  ASSUME Whole(lines, blocks, current, mark)
  PROVE  {b \in ClosedOf(blocks, current, Len(lines)) : b.type \in Headers} =
           {FunctionAt(lines, i) : i \in {j \in HeadersOf(lines) : ~Overwritten(lines, j)}}
<1>. DEFINE bs == ClosedOf(blocks, current, Len(lines))
<1>1. /\ \A b \in bs : b \in blocks
           \/ \E i \in HeadersOf(lines) : Stops(lines, i) = {} /\ b = Block(lines[i].is, i, Len(lines))
      /\ blocks \subseteq bs
      /\ \A i \in HeadersOf(lines) : Stops(lines, i) = {} => Block(lines[i].is, i, Len(lines)) \in bs
  BY OpenClosed
<1>. HIDE DEF bs
<1>2. \A i \in HeadersOf(lines) : Stops(lines, i) = {} =>
        FunctionAt(lines, i) = Block(lines[i].is, i, Len(lines)) /\ ~ Overwritten(lines, i)
  BY DEF FunctionAt, Ending, Overwritten
<1>3. \A i \in HeadersOf(lines) : FunctionAt(lines, i).type \in Headers
  BY DEF FunctionAt, Block, HeadersOf
<1>4. ASSUME NEW b \in bs, b.type \in Headers
      PROVE  \E i \in HeadersOf(lines) : ~Overwritten(lines, i) /\ b = FunctionAt(lines, i)
  BY <1>1, <1>2, <1>4 DEF Whole
<1>5. ASSUME NEW i \in HeadersOf(lines), ~Overwritten(lines, i) PROVE FunctionAt(lines, i) \in bs
  BY <1>1, <1>2, <1>5 DEF Whole
<1>. QED BY <1>3, <1>4, <1>5 DEF bs

LEMMA SameWhole == AllFound /\ done /\ UNCHANGED <<parser, lines, blocks, done>> => AllFound'
<1>. SUFFICES ASSUME AllFound, done, UNCHANGED <<parser, lines, blocks, done>> PROVE AllFound'
  OBVIOUS
<1>1. \A i : Stops(lines, i)' = Stops(lines, i)
  BY DEF Stops
<1>2. \A i : Stop(lines, i)' = Stop(lines, i)
  BY <1>1 DEF Stop
<1>3. \A i : Ending(lines, i)' = Ending(lines, i) /\ (Overwritten(lines, i)' <=> Overwritten(lines, i))
  BY <1>1, <1>2 DEF Ending, Overwritten
<1>4. HeadersOf(lines)' = HeadersOf(lines)
  BY DEF HeadersOf
<1>. QED BY <1>3, <1>4 DEF AllFound

LEMMA FinishWhole == Finish /\ WholeInv => WholeInv'
<1>. SUFFICES ASSUME Finish, WholeInv, parser \in {"python", "javascript", "bash"} PROVE AllFound'
  BY DEF WholeInv, Finish, AllFound
<1>1. blocks' = ClosedOf(blocks, current, Len(lines)) /\ UNCHANGED <<parser, lines>>
  BY DEF Finish, AtEnd, Closed, ClosedOf
<1>2. Whole(lines, blocks, current, mark)
  BY DEF WholeInv, Finish
<1>3. {b \in blocks' : b.type \in Headers} =
        {FunctionAt(lines, i) : i \in {j \in HeadersOf(lines) : ~Overwritten(lines, j)}}
  BY <1>1, <1>2, WholeAtEnd
<1>4. \A i : Stops(lines, i)' = Stops(lines, i)
  BY <1>1 DEF Stops
<1>5. \A i : Stop(lines, i)' = Stop(lines, i)
  BY <1>1, <1>4 DEF Stop
<1>6. \A i : Ending(lines, i)' = Ending(lines, i) /\ (Overwritten(lines, i)' <=> Overwritten(lines, i))
  BY <1>1, <1>4, <1>5 DEF Ending, Overwritten
<1>7. HeadersOf(lines)' = HeadersOf(lines)
  BY <1>1 DEF HeadersOf
<1>. QED BY <1>1, <1>3, <1>6, <1>7 DEF AllFound, FunctionAt

LEMMA InitWhole == Init => WholeInv
<1>. SUFFICES ASSUME Init PROVE WholeInv
  OBVIOUS
<1>1. lines = <<>> /\ blocks = {} /\ current = None /\ ~ done /\ (parser # "generic" => mark = 0)
  BY DEF Init
<1>2. HeadersOf(lines) = {} /\ Len(lines) = 0
  BY <1>1 DEF HeadersOf
<1>3. Depths(lines)[Len(lines)] = 0
  <2>1. Weighed(lines)
    BY <1>2 DEF Weighed
  <2>. QED BY <1>2, <2>1, DepthsDef
<1>. QED BY <1>1, <1>2, <1>3 DEF WholeInv, AllFound, Whole

LEMMA NextWhole == Inv /\ WholeInv /\ [Next]_vars => WholeInv'
<1>. SUFFICES ASSUME Inv, WholeInv, [Next]_vars PROVE WholeInv'
  OBVIOUS
<1>1. CASE Finish
  BY <1>1, FinishWhole
<1>2. ASSUME NEW line \in Lines[parser], Read(line) PROVE WholeInv'
  <2>. SUFFICES ASSUME parser \in {"python", "javascript", "bash"}
                PROVE  Whole(lines', blocks', current', mark')
    BY <1>2, WholeNow DEF WholeInv, AllFound, Read
  <2>1. Reading(parser, line) /\ Whole(lines, blocks, current, mark)
    BY <1>2 DEF Read, Reading, WholeInv
  <2>2. CASE parser = "python"
    BY <1>2, <2>1, <2>2, PythonWhole DEF Read
  <2>3. CASE parser = "javascript"
    BY <1>2, <2>1, <2>3, JavaScriptWhole DEF Read
  <2>4. CASE parser = "bash"
    BY <1>2, <2>1, <2>4, BashWhole DEF Read
  <2>. QED BY <2>2, <2>3, <2>4
<1>3. CASE UNCHANGED vars
  <2>1. CASE done
    BY <1>3, <2>1, SameWhole DEF WholeInv, vars
  <2>2. CASE ~ done
    <3>1. parser \in {"python", "javascript", "bash"} => Whole(lines', blocks', current', mark')
      BY <1>3, <2>2 DEF WholeInv, vars
    <3>. QED BY <1>3, <2>2, <3>1, WholeNow DEF WholeInv, AllFound, vars
  <2>. QED BY <2>1, <2>2
<1>. QED BY <1>1, <1>2, <1>3 DEF Next

(* The blocks as the rule gives them. *)
AtTheEnd == done /\ parser \in {"python", "javascript", "bash"}

LEMMA FirstLeast ==
  ASSUME NEW S, S \subseteq Nat, S # {}
  PROVE  First(S) \in S /\ \A k \in S : First(S) <= k
<1>1. PICK j \in S : \A k \in S : j <= k
  BY LeastOf
<1>. QED BY <1>1 DEF First

LEMMA LinesAre ==
  ASSUME Inv, AtTheEnd
  PROVE  /\ Len(lines) \in Nat /\ DOMAIN lines = 1 .. Len(lines)
         /\ \A i \in 1 .. Len(lines) : lines[i] \in Lines[parser]
         /\ parser # "python" => Weighed(lines)
<1>1. /\ Len(lines) \in Nat /\ DOMAIN lines = 1 .. Len(lines)
      /\ \A i \in 1 .. Len(lines) : lines[i] \in Lines[parser]
  BY DEF Inv
<1>2. parser # "python" => \A x \in Lines[parser] : Weight(x) \in Int
  BY LanguagesAssumption DEF Weight, Brackets, AtTheEnd
<1>. QED BY <1>1, <1>2 DEF Weighed

(* Python: what is plain ends where the indentation does. *)
LEMMA PlainPython ==
  ASSUME Inv, AtTheEnd, parser = "python", NEW i \in HeadersOf(lines), Plain(lines, i)
  PROVE  Ending(lines, i) = Extent(lines, i)
<1>. DEFINE n == Len(lines)
            beyond == Beyond(lines, i)
            stops == Stops(lines, i)
<1>1. i \in 1 .. n /\ n \in Nat
  BY LinesAre DEF HeadersOf
<1>2. beyond \subseteq Nat /\ beyond \subseteq i + 1 .. n /\ stops \subseteq i + 1 .. n
  BY <1>1 DEF Beyond, Stops
<1>3. \A j \in i + 1 .. n : j \in 1 .. n /\ lines[j].is \in Headers \cup {"import", "blank", "code"}
  <2>. SUFFICES ASSUME NEW j \in i + 1 .. n
                PROVE  j \in 1 .. n /\ lines[j].is \in Headers \cup {"import", "blank", "code"}
    OBVIOUS
  <2>1. j \in 1 .. n
    BY <1>1
  <2>2. lines[j] \in [is : Headers \cup {"blank", "code"}, indent : Nat] \cup [is : {"import"}, indent : {0}]
    BY <2>1, LinesAre, LanguagesAssumption
  <2>. QED BY <2>1, <2>2
<1>4. \A j \in stops : j \in beyond \/ lines[j].is \in Headers
  BY DEF Beyond, Stops
<1>5. CASE beyond = {}
  <2>1. Extent(lines, i) = n
    BY <1>5 DEF Extent
  <2>2. stops = {}
    BY <1>2, <1>4, <1>5, <2>1 DEF Plain
  <2>. QED BY <2>1, <2>2 DEF Ending
<1>6. CASE beyond # {}
  <2>. DEFINE f == First(beyond)
  <2>1. f \in beyond /\ \A k \in beyond : f <= k
    BY <1>2, <1>6, FirstLeast
  <2>2. Extent(lines, i) = f - 1 /\ f \in i + 1 .. n
    BY <1>2, <1>6, <2>1 DEF Extent
  <2>3. lines[f].is # "import" /\ lines[f].is # "blank" /\ lines[f].indent <= lines[i].indent
    BY <1>6, <2>1 DEF Plain, Beyond
  <2>. HIDE DEF f
  <2>4. f \in stops
    BY <1>3, <2>2, <2>3 DEF Stops
  <2>5. \A k \in stops : f <= k
    <3>. SUFFICES ASSUME NEW k \in stops, k < f PROVE FALSE
      BY <1>1, <1>2, <2>2
    <3>1. k \in i + 1 .. f - 1
      BY <1>1, <1>2, <2>2
    <3>2. lines[k].is \notin Headers
      BY <2>2, <3>1 DEF Plain
    <3>3. k \in beyond
      BY <1>4, <3>2
    <3>4. f <= k /\ k \in Int /\ f \in Int
      BY <2>1, <2>2, <3>1, <3>3, <1>1
    <3>. QED BY <3>4
  <2>6. Stop(lines, i) = f
    BY <1>1, <2>4, <2>5, StopIs
  <2>. QED BY <2>2, <2>4, <2>6 DEF Ending
<1>. QED BY <1>5, <1>6

(* JavaScript and Bash: the first line that brings the count back to what  *)
(* it was before the header, which is zero, has a brace that closes.       *)
LEMMA PlainBraces ==
  ASSUME Inv, AtTheEnd, parser # "python", NEW i \in HeadersOf(lines), Plain(lines, i)
  PROVE  Ending(lines, i) = Extent(lines, i) /\ ~ Overwritten(lines, i)
<1>. DEFINE n == Len(lines)
            beyond == Beyond(lines, i)
            stops == Stops(lines, i)
            d == Depths(lines)
            e == First(beyond)
<1>1. i \in 1 .. n /\ n \in Nat /\ Weighed(lines)
  BY LinesAre DEF HeadersOf
<1>2. /\ d \in [0 .. n -> Int] /\ d[0] = 0
      /\ \A j \in 1 .. n : d[j] = d[j - 1] + Weight(lines[j])
  BY <1>1, DepthsDef
<1>3. beyond \subseteq Nat /\ beyond = {j \in i + 1 .. n : d[j] <= 0} /\ beyond # {} /\ d[i] > 0
  BY <1>1 DEF Plain, Beyond
<1>4. e \in beyond /\ \A k \in beyond : e <= k
  BY <1>3, FirstLeast
<1>5. e = Extent(lines, i) /\ lines[e].is = "code" /\ d[e] = 0 /\ e \in i + 1 .. n
  BY <1>3, <1>4 DEF Plain, Extent
<1>. HIDE DEF e, d, beyond
<1>6. e \in 1 .. n /\ e - 1 \in i .. n /\ \A j \in i + 1 .. e - 1 : d[j] > 0
  <2>1. e \in 1 .. n /\ e - 1 \in i .. n
    BY <1>1, <1>5
  <2>2. ASSUME NEW j \in i + 1 .. e - 1 PROVE d[j] > 0
    <3>1. j \in i + 1 .. n /\ j \in 0 .. n /\ ~ e <= j
      BY <1>1, <1>5
    <3>2. j \notin beyond /\ d[j] \in Int
      BY <1>2, <1>4, <3>1
    <3>. QED BY <1>3, <3>1, <3>2
  <2>. QED BY <2>1, <2>2
<1>7. d[e - 1] > 0 /\ d[e - 1] \in Int
  <2>1. e - 1 = i \/ e - 1 \in i + 1 .. e - 1
    BY <1>1, <1>6
  <2>2. e - 1 \in 0 .. n
    BY <1>1, <1>6
  <2>. QED BY <1>2, <1>3, <1>6, <2>1, <2>2
<1>8. lines[e].closes > 0
  <2>1. Weight(lines[e]) < 0
    <3>1. d[e] = d[e - 1] + Weight(lines[e]) /\ Weight(lines[e]) \in Int
      BY <1>1, <1>2, <1>6 DEF Weighed
    <3>. QED BY <1>5, <1>7, <3>1
  <2>2. lines[e] \in Lines[parser] /\ parser \in {"javascript", "bash"}
    BY <1>6, LinesAre DEF AtTheEnd
  <2>3. lines[e].opens \in Nat /\ lines[e].closes \in Nat
    BY <2>2, LanguagesAssumption DEF Brackets
  <2>4. Weight(lines[e]) = lines[e].opens - lines[e].closes
    BY <1>5 DEF Weight
  <2>. QED BY <2>1, <2>3, <2>4
<1>9. e \in stops
  BY <1>5, <1>8 DEF Stops, d
<1>10. \A k \in stops : e <= k
  <2>. SUFFICES ASSUME NEW k \in stops, ~ e <= k PROVE FALSE
    OBVIOUS
  <2>1. k \in i + 1 .. n
    BY DEF Stops
  <2>2. k \in i + 1 .. e - 1 /\ k \in i + 1 .. e
    BY <1>1, <1>5, <2>1
  <2>3. lines[k].is \notin Headers
    BY <1>5, <2>2 DEF Plain
  <2>4. d[k] = 0
    BY <2>3 DEF Stops, d
  <2>. QED BY <1>6, <2>2, <2>4
<1>11. Stop(lines, i) = e
  BY <1>1, <1>9, <1>10, StopIs
<1>12. lines[e].is \notin Headers
  BY <1>5 DEF Headers
<1>. QED BY <1>5, <1>9, <1>11, <1>12 DEF Ending, Overwritten

(* A block ends before the next header. *)
LEMMA NoneWithin ==
  ASSUME Inv, AtTheEnd, NEW i \in HeadersOf(lines), NEW j \in i + 1 .. Ending(lines, i)
  PROVE  lines[j].is \notin Headers
<1>. SUFFICES ASSUME lines[j].is \in Headers PROVE FALSE
  OBVIOUS
<1>. DEFINE n == Len(lines)
            stop == Stop(lines, i)
<1>1. i \in 1 .. n /\ n \in Nat /\ i \in Nat
  BY LinesAre DEF HeadersOf
<1>2. Stops(lines, i) \subseteq i + 1 .. n
  BY DEF Stops
<1>3. CASE Stops(lines, i) = {}
  <2>1. j \in i + 1 .. n
    BY <1>3 DEF Ending
  <2>. QED BY <1>3, <2>1 DEF Stops
<1>4. CASE Stops(lines, i) # {}
  <2>1. stop \in Stops(lines, i) /\ \A k \in Stops(lines, i) : stop <= k
    BY <1>1, <1>4, StopLeast
  <2>. HIDE DEF stop
  <2>2. stop \in i + 1 .. n
    BY <1>2, <2>1
  <2>3. Ending(lines, i) = IF lines[stop].is \in Headers \/ parser = "python" THEN stop - 1 ELSE stop
    BY <1>4 DEF Ending, stop
  <2>4. j \in i + 1 .. n
    BY <1>1, <2>2, <2>3
  <2>5. j \in Stops(lines, i)
    BY <2>4 DEF Stops
  <2>6. stop <= j
    BY <2>1, <2>5
  <2>. QED BY <1>1, <2>2, <2>3, <2>4, <2>6
<1>. QED BY <1>3, <1>4

LEMMA WholeOf == Inv /\ AllFound => FunctionsWhole
<1>. SUFFICES ASSUME Inv, AllFound, AtTheEnd PROVE FunctionsWhole
  BY DEF FunctionsWhole, AtTheEnd
<1>1. {b \in blocks : b.type \in Headers} =
        {FunctionAt(lines, i) : i \in {j \in HeadersOf(lines) : ~Overwritten(lines, j)}}
  BY DEF AllFound, AtTheEnd, FunctionAt
<1>2. ASSUME NEW i \in HeadersOf(lines), Plain(lines, i)
      PROVE  Block(lines[i].is, i, Extent(lines, i)) \in blocks
  <2>1. Ending(lines, i) = Extent(lines, i) /\ ~ Overwritten(lines, i)
    BY <1>2, PlainPython, PlainBraces DEF Overwritten
  <2>2. FunctionAt(lines, i) \in blocks
    BY <1>1, <2>1
  <2>. QED BY <2>1, <2>2 DEF FunctionAt
<1>3. ASSUME NEW b \in blocks, b.type \in Headers
      PROVE  /\ lines[b.start].is = b.type
             /\ \A j \in b.start + 1 .. b.end : lines[j].is \notin Headers
  <2>1. PICK i \in HeadersOf(lines) : b = FunctionAt(lines, i)
    BY <1>1, <1>3
  <2>2. b.start = i /\ b.end = Ending(lines, i) /\ b.type = lines[i].is
    BY <2>1 DEF FunctionAt, Block
  <2>. QED BY <2>2, NoneWithin
<1>4. ASSUME parser # "javascript", NEW i \in HeadersOf(lines)
      PROVE  \E b \in blocks : b.start = i /\ b.type = lines[i].is
  <2>1. FunctionAt(lines, i) \in blocks
    BY <1>1, <1>4 DEF Overwritten
  <2>. QED BY <2>1 DEF FunctionAt, Block
<1>. QED BY <1>2, <1>3, <1>4 DEF FunctionsWhole

(* Whatever the document (Parse of PythonParser, JavaScriptParser and      *)
(* BashParser): a plain function or class is a block from its header to    *)
(* the end that the indentation or the braces of the lines give it; any    *)
(* block of one begins at its header and ends before the next, at whatever *)
(* depth that is; in Python and Bash each header has one.                  *)
THEOREM FunctionsWholeHolds == Spec => []FunctionsWhole
<1>1. Init => Inv /\ WholeInv
  BY InitInv, InitWhole
<1>2. Inv /\ WholeInv /\ [Next]_vars => Inv' /\ WholeInv'
  BY NextInv, NextWhole
<1>3. Inv /\ WholeInv => FunctionsWhole
  BY WholeOf DEF WholeInv
<1>. QED BY <1>1, <1>2, <1>3, PTL DEF Spec

-----------------------------------------------------------------------------
Segments == [first : Nat, last : Nat, position : Nat]

Textual(us, i) == us[i] \in {"text", "fed"}

(* The lines from one to another are those of one paragraph, and none of   *)
(* them is what parseText takes for the end of a page.                     *)
Paragraph(us, first, last) ==
  \A i \in first .. last :
    /\ us[i] \notin {"feed", "page"}
    /\ us[i] = "blank" => \A j \in first .. i : us[j] = "blank"

(* The line after each segment is one that ends it.                        *)
Ended(us, ss, upto) ==
  \A s \in ss : s.last < upto /\ us[s.last + 1] \in {"feed", "page", "blank"}

Ordered(ss) == \A s, t \in ss : s.last < t.first <=> s.position < t.position

Cut(us, ss, upto) ==
  /\ ss \subseteq Segments /\ IsFiniteSet(ss)
  /\ \A s \in ss : /\ 1 <= s.first /\ s.first <= s.last /\ s.last <= upto
                   /\ s.position < Cardinality(ss)
                   /\ Paragraph(us, s.first, s.last)
  /\ \A s, t \in ss : s = t \/ s.last < t.first \/ t.last < s.first
  /\ Ordered(ss)
  /\ \A i \in 1 .. upto : Textual(us, i) => \E s \in ss : s.first <= i /\ i <= s.last

TextInv ==
  /\ units \in Seq(Units[format])
  /\ format \in Formats
  /\ complete \in BOOLEAN /\ text \in BOOLEAN
  /\ format = "pdf" =>
       IF complete THEN /\ Cut(units, segments, Seen)
                        /\ Ended(units, {s \in segments : s.last # Seen}, Seen)
       ELSE /\ start \in 0 .. Seen
            /\ Cut(units, segments, start)
            /\ Ended(units, segments, start)
            /\ Paragraph(units, start + 1, Seen)
            /\ text <=> \E i \in start + 1 .. Seen : Textual(units, i)

-----------------------------------------------------------------------------
(* The text after a place becomes a segment, or there is none.             *)
LEMMA CutFlushed ==
  ASSUME TextInv, format = "pdf", ~complete
  PROVE  Cut(units, Flushed, Seen)
<1>0. /\ Seen \in Nat /\ start \in Nat /\ start <= Seen
      /\ Cut(units, segments, start) /\ Paragraph(units, start + 1, Seen)
      /\ text <=> \E i \in start + 1 .. Seen : Textual(units, i)
  BY DEF TextInv, Seen
<1>1. CASE ~text
  <2>1. Flushed = segments
    BY <1>1 DEF Flushed
  <2>2. \A i \in start + 1 .. Seen : ~Textual(units, i)
    BY <1>0, <1>1
  <2>3. \A i \in 1 .. Seen : Textual(units, i) => i \in 1 .. start
    BY <1>0, <2>2
  <2>4. \A s \in segments : s.last <= Seen
    BY <1>0 DEF Cut, Segments
  <2> QED BY <1>0, <2>1, <2>3, <2>4 DEF Cut
<1>2. CASE text
  <2> DEFINE x == Segment(start + 1, Seen, Found)
             ss == segments \cup {x}
  <2>1. Flushed = ss
    BY <1>2 DEF Flushed
  <2>2. start + 1 <= Seen
    BY <1>0, <1>2
  <2>3. Found \in Nat
    BY <1>0, FS_CardinalityType DEF Cut, Found
  <2>4. x \in Segments /\ x.first = start + 1 /\ x.last = Seen /\ x.position = Found
    BY <1>0, <2>3 DEF Segment, Segments
  <2>5. \A s \in segments : s.last < x.first /\ s.position < x.position /\ s # x
    BY <1>0, <2>3, <2>4 DEF Cut, Segments, Found
  <2>6. x \notin segments
    BY <2>5
  <2>7. IsFiniteSet(ss) /\ Cardinality(ss) = Found + 1
    BY <1>0, <2>6, FS_AddElement DEF Cut, Found
  <2>8. ss \subseteq Segments
    BY <1>0, <2>4 DEF Cut
  <2>9. \A s \in ss : /\ 1 <= s.first /\ s.first <= s.last /\ s.last <= Seen
                      /\ s.position < Cardinality(ss)
                      /\ Paragraph(units, s.first, s.last)
    <3>1. \A s \in segments : /\ 1 <= s.first /\ s.first <= s.last /\ s.last <= Seen
                              /\ s.position < Found + 1
                              /\ Paragraph(units, s.first, s.last)
      BY <1>0, <2>3, <2>5, <2>8, <2>4 DEF Cut, Segments
    <3>2. /\ 1 <= x.first /\ x.first <= x.last /\ x.last <= Seen
          /\ x.position < Found + 1 /\ Paragraph(units, x.first, x.last)
      BY <1>0, <2>2, <2>3, <2>4
    <3> QED BY <2>7, <3>1, <3>2
  <2>10. \A s, t \in ss : s = t \/ s.last < t.first \/ t.last < s.first
    BY <1>0, <2>5 DEF Cut
  <2>11. Ordered(ss)
    <3> SUFFICES ASSUME NEW s \in ss, NEW t \in ss
                 PROVE  s.last < t.first <=> s.position < t.position
      BY DEF Ordered
    <3>1. CASE s \in segments /\ t \in segments
      BY <1>0, <3>1 DEF Cut, Ordered
    <3>2. CASE s \in segments /\ t = x
      BY <2>5, <3>2
    <3>3. CASE s = x /\ t \in segments
      <4>1. t.first <= t.last /\ t.last < x.first /\ x.first <= x.last /\ t.position < x.position
        BY <2>4, <2>5, <2>9, <3>3
      <4> QED BY <2>4, <2>8, <3>3, <4>1 DEF Segments
    <3>4. CASE s = x /\ t = x
      BY <2>2, <2>4, <2>3, <3>4, <1>0
    <3> QED BY <3>1, <3>2, <3>3, <3>4
  <2>12. \A i \in 1 .. Seen : Textual(units, i) => \E s \in ss : s.first <= i /\ i <= s.last
    <3> SUFFICES ASSUME NEW i \in 1 .. Seen, Textual(units, i)
                 PROVE  \E s \in ss : s.first <= i /\ i <= s.last
      OBVIOUS
    <3>1. CASE i <= start
      BY <1>0, <3>1 DEF Cut
    <3>2. CASE i > start
      BY <1>0, <2>4, <3>2
    <3> QED BY <1>0, <3>1, <3>2
  <2> QED BY <2>1, <2>7, <2>8, <2>9, <2>10, <2>11, <2>12 DEF Cut
<1> QED BY <1>1, <1>2 DEF TextInv

LEMMA Grown ==
  ASSUME NEW us, NEW vs, NEW n \in Nat, NEW upto \in 0 .. n, NEW ss,
         \A i \in 1 .. n : vs[i] = us[i], Cut(us, ss, upto)
  PROVE  Cut(vs, ss, upto)
<1>1. \A s \in ss : Paragraph(vs, s.first, s.last)
  <2> SUFFICES ASSUME NEW s \in ss PROVE Paragraph(vs, s.first, s.last)
    OBVIOUS
  <2>1. s.first \in Nat /\ s.last \in Nat /\ 1 <= s.first /\ s.last <= n /\ Paragraph(us, s.first, s.last)
    BY DEF Cut, Segments
  <2>2. \A i \in s.first .. s.last : vs[i] = us[i]
    BY <2>1
  <2>3. \A i \in s.first .. s.last : \A j \in s.first .. i : j \in s.first .. s.last
    BY <2>1
  <2> QED BY <2>1, <2>2, <2>3 DEF Paragraph
<1>2. \A i \in 1 .. upto : Textual(vs, i) <=> Textual(us, i)
  BY DEF Textual
<1> QED BY <1>1, <1>2 DEF Cut

LEMMA ParagraphGrown ==
  ASSUME NEW us, NEW vs, NEW n \in Nat, NEW first \in 1 .. n + 1,
         \A i \in 1 .. n : vs[i] = us[i], Paragraph(us, first, n),
         vs[n + 1] \notin {"feed", "page"},
         vs[n + 1] = "blank" => \A i \in first .. n : us[i] = "blank"
  PROVE  Paragraph(vs, first, n + 1)
<1> SUFFICES ASSUME NEW i \in first .. n + 1
             PROVE  /\ vs[i] \notin {"feed", "page"}
                    /\ vs[i] = "blank" => \A j \in first .. i : vs[j] = "blank"
  BY DEF Paragraph
<1>1. CASE i <= n
  <2>1. i \in first .. n /\ i \in 1 .. n /\ \A j \in first .. i : j \in 1 .. n
    BY <1>1
  <2> QED BY <2>1 DEF Paragraph
<1>2. CASE i = n + 1
  <2>1. \A j \in first .. i : j = i \/ (j \in first .. n /\ j \in 1 .. n)
    BY <1>2
  <2> QED BY <1>2, <2>1
<1> QED BY <1>1, <1>2

LEMMA EndedGrown ==
  ASSUME NEW us, NEW vs, NEW n \in Nat, NEW upto \in 0 .. n, NEW ss, ss \subseteq Segments,
         \A i \in 1 .. n : vs[i] = us[i], Ended(us, ss, upto)
  PROVE  \A more \in upto .. n + 1 : Ended(vs, ss, more)
<1> SUFFICES ASSUME NEW more \in upto .. n + 1, NEW s \in ss
             PROVE  s.last < more /\ vs[s.last + 1] \in {"feed", "page", "blank"}
  BY DEF Ended
<1>1. s.last \in Nat /\ s.last < upto /\ us[s.last + 1] \in {"feed", "page", "blank"}
  BY DEF Ended, Segments
<1>2. s.last + 1 \in 1 .. n
  BY <1>1
<1> QED BY <1>1, <1>2

LEMMA TakeStep ==
  ASSUME TextInv, NEW unit \in Units[format], Take(unit)
  PROVE  TextInv'
<1> DEFINE n == Seen
<1>1. /\ n \in Nat /\ units' \in Seq(Units[format]) /\ Len(units') = n + 1
      /\ units'[n + 1] = unit /\ \A i \in 1 .. n : units'[i] = units[i]
      /\ format' = format /\ complete' = FALSE /\ ~complete
  BY DEF TextInv, Take, Seen
<1>2. text' \in BOOLEAN
  BY DEF TextInv, Take, ParseText, NewPage, ExtractSheet
<1>3. CASE format # "pdf"
  BY <1>1, <1>2, <1>3 DEF TextInv
<1>4. CASE format = "pdf"
  <2>0. /\ start \in 0 .. n /\ Cut(units, segments, start) /\ Paragraph(units, start + 1, n)
        /\ Ended(units, segments, start) /\ segments \subseteq Segments
        /\ text <=> \E i \in start + 1 .. n : Textual(units, i)
        /\ ParseText(unit)
    BY <1>1, <1>4 DEF TextInv, Take, Cut
  <2>1. SUFFICES /\ start' \in 0 .. n + 1 /\ Ended(units', segments', start')
                 /\ Cut(units', segments', start')
                 /\ Paragraph(units', start' + 1, n + 1)
                 /\ text' <=> \E i \in start' + 1 .. n + 1 : Textual(units', i)
    BY <1>1, <1>2, <1>4 DEF TextInv, Seen
  <2>2. n \in 0 .. n /\ Cut(units, Flushed, n)
    BY <1>1, <1>4, CutFlushed
  <2>3. Cut(units', Flushed, n)
    BY <1>1, <2>2, Grown
  <2>4. Cut(units', segments, start)
    BY <1>1, <2>0, Grown
  <2>5. unit \in {"feed", "page", "blank"} => Cut(units', Flushed, n + 1)
    <3> SUFFICES ASSUME unit \in {"feed", "page", "blank"} PROVE Cut(units', Flushed, n + 1)
      OBVIOUS
    <3>1. ~Textual(units', n + 1)
      BY <1>1 DEF Textual
    <3>2. \A i \in 1 .. n + 1 : Textual(units', i) => i \in 1 .. n
      BY <1>1, <3>1
    <3>3. \A s \in Flushed : s.last <= n + 1
      BY <1>1, <2>3 DEF Cut, Segments
    <3> QED BY <2>3, <3>2, <3>3 DEF Cut
  <2>9. Ended(units', segments, start) /\ Ended(units', segments, n + 1)
    <3>1. start \in start .. n + 1 /\ n + 1 \in start .. n + 1
      BY <1>1, <2>0
    <3> QED BY <1>1, <2>0, <3>1, EndedGrown
  <2>10. unit \in {"feed", "page", "blank"} => Ended(units', Flushed, n + 1)
    BY <1>1, <2>0, <2>9 DEF Ended, Flushed, Segment
  <2>6. CASE /\ unit \in {"feed", "page", "blank"}
             /\ segments' = Flushed /\ text' = FALSE /\ start' = Seen + 1
    BY <1>1, <2>5, <2>6, <2>10 DEF Paragraph
  <2>7. CASE unit = "blank" /\ ~text /\ UNCHANGED <<segments, start, text, page>>
    <3>1. \A i \in start + 1 .. n : units[i] = "blank"
      <4> SUFFICES ASSUME NEW i \in start + 1 .. n PROVE units[i] = "blank"
        OBVIOUS
      <4>1. units[i] \in PdfLines
        BY <1>1, <1>4, <2>0, UnitsAssumption DEF TextInv, Seen
      <4>2. ~Textual(units, i)
        BY <2>0, <2>7
      <4> QED BY <2>0, <4>1, <4>2 DEF Textual, Paragraph, PdfLines
    <3>2. Paragraph(units', start + 1, n + 1)
      <4>1. start + 1 \in 1 .. n + 1 /\ units'[n + 1] = "blank"
        BY <1>1, <2>0, <2>7
      <4>2. units'[n + 1] \notin {"feed", "page"}
        BY <4>1
      <4> QED BY <1>1, <2>0, <3>1, <4>1, <4>2, ParagraphGrown
    <3>3. \A i \in start + 1 .. n + 1 : ~Textual(units', i)
      <4> SUFFICES ASSUME NEW i \in start + 1 .. n + 1 PROVE ~Textual(units', i)
        OBVIOUS
      <4>1. CASE i = n + 1
        BY <1>1, <2>7, <4>1 DEF Textual
      <4>2. CASE i <= n
        BY <1>1, <2>0, <3>1, <4>2 DEF Textual
      <4> QED BY <1>1, <2>0, <4>1, <4>2
    <3> QED BY <1>1, <2>0, <2>4, <2>7, <2>9, <3>2, <3>3
  <2>8. CASE unit \in {"fed", "text"} /\ text' = TRUE /\ UNCHANGED <<segments, start, page>>
    <3>0. start + 1 \in 1 .. n + 1 /\ units'[n + 1] \notin {"feed", "page", "blank"}
      BY <1>1, <2>0, <2>8
    <3>1. Paragraph(units', start + 1, n + 1)
      BY <1>1, <2>0, <3>0, ParagraphGrown
    <3>2. Textual(units', n + 1) /\ n + 1 \in start + 1 .. n + 1
      BY <1>1, <2>0, <2>8 DEF Textual
    <3> QED BY <1>1, <2>0, <2>4, <2>8, <2>9, <3>1, <3>2
  <2> QED BY <2>0, <2>6, <2>7, <2>8 DEF ParseText, NewPage
<1> QED BY <1>3, <1>4

LEMMA CompleteStep ==
  ASSUME TextInv, Complete
  PROVE  TextInv'
<1>1. format = "pdf" => Cut(units, segments', Seen)
  BY CutFlushed DEF Complete
<1>2. format = "pdf" => Ended(units, {s \in segments' : s.last # Seen}, Seen)
  <2> SUFFICES ASSUME format = "pdf", NEW s \in Flushed, s.last # Seen
               PROVE  s.last < Seen /\ units[s.last + 1] \in {"feed", "page", "blank"}
    BY DEF Ended, Complete
  <2>1. Seen \in Nat /\ start \in 0 .. Seen /\ segments \subseteq Segments /\ Ended(units, segments, start)
    BY DEF TextInv, Complete, Cut, Seen
  <2>2. s \in segments
    BY DEF Flushed, Segment
  <2> QED BY <2>1, <2>2 DEF Ended, Segments
<1> QED BY <1>1, <1>2 DEF TextInv, Complete, Seen

LEMMA TextInit == DocumentInit => TextInv
<1> SUFFICES ASSUME DocumentInit PROVE TextInv
  OBVIOUS
<1>1. units \in Seq(Units[format]) /\ Seen = 0
  BY DEF DocumentInit, Seen
<1>2. Cut(units, segments, 0)
  BY FS_EmptySet DEF DocumentInit, Cut, Ordered
<1>3. Paragraph(units, 1, 0)
  BY DEF Paragraph
<1>4. ~text /\ ~complete /\ start = 0 /\ format \in Formats
  BY DEF DocumentInit
<1>5. text <=> \E i \in start + 1 .. Seen : Textual(units, i)
  BY <1>1, <1>4
<1>6. complete \in BOOLEAN /\ text \in BOOLEAN
  BY DEF DocumentInit
<1>7. /\ start \in 0 .. Seen /\ Cut(units, segments, start) /\ Paragraph(units, start + 1, Seen)
      /\ Ended(units, segments, start)
  BY <1>1, <1>2, <1>3, <1>4 DEF DocumentInit, Ended
<1> QED BY <1>1, <1>4, <1>5, <1>6, <1>7 DEF TextInv

LEMMA TextNext == TextInv /\ [DocumentNext]_documentVars => TextInv'
<1> SUFFICES ASSUME TextInv, [DocumentNext]_documentVars PROVE TextInv'
  OBVIOUS
<1>1. CASE Complete
  BY <1>1, CompleteStep
<1>2. ASSUME NEW unit \in Units[format], Take(unit)
      PROVE  TextInv'
  BY <1>2, TakeStep
<1>3. CASE UNCHANGED documentVars
  BY <1>3 DEF documentVars, TextInv, Seen
<1> QED BY <1>1, <1>2, <1>3 DEF DocumentNext

(* At any line of a PDF: what is before blockStart is in the segments, and *)
(* what follows is one paragraph.                                          *)
THEOREM InductiveText == DocumentSpec => []TextInv
<1>1. DocumentInit => TextInv
  BY TextInit
<1>2. TextInv /\ [DocumentNext]_documentVars => TextInv'
  BY TextNext
<1> QED BY <1>1, <1>2, PTL DEF DocumentSpec

(* However long the text of a PDF is: parseText cuts it at a form feed     *)
(* alone on its line, at a line that begins with "Page n" and at a blank   *)
(* line after text, and nowhere else.  Every other line with text is in    *)
(* one segment, also one that begins with a form feed, over which the      *)
(* segment goes on.                                                        *)
THEOREM TextCutHolds == DocumentSpec => []TextCut
<1>1. TextInv => TextCut
  <2> SUFFICES ASSUME TextInv, complete, format = "pdf" PROVE TextCut
    BY DEF TextCut
  <2>1. Cut(units, segments, Seen)
    BY DEF TextInv
  <2>2. \A i \in DOMAIN units : units[i] \in {"text", "fed"} =>
          \E s \in segments : \A t \in segments : (t.first <= i /\ i <= t.last) <=> t = s
    <3> SUFFICES ASSUME NEW i \in DOMAIN units, units[i] \in {"text", "fed"}
                 PROVE  \E s \in segments : \A t \in segments :
                          (t.first <= i /\ i <= t.last) <=> t = s
      OBVIOUS
    <3>1. i \in 1 .. Seen /\ i \in Nat
      BY DEF TextInv, Seen
    <3>2. PICK s \in segments : s.first <= i /\ i <= s.last
      BY <2>1, <3>1 DEF Cut, Textual
    <3>3. \A t \in segments : t.first <= i /\ i <= t.last => t = s
      BY <2>1, <3>1, <3>2 DEF Cut, Segments
    <3> QED BY <3>2, <3>3
  <2>3. \A s \in segments : \A i \in s.first .. s.last :
          /\ units[i] \notin {"feed", "page"}
          /\ units[i] = "blank" => \A j \in s.first .. i : units[j] = "blank"
    BY <2>1 DEF Cut, Paragraph
  <2>4. \A s \in segments : s.last = Seen \/ units[s.last + 1] \in {"feed", "page", "blank"}
    BY DEF TextInv, Ended
  <2> QED BY <2>1, <2>2, <2>3, <2>4 DEF TextCut, Cut, Ordered
<1> QED BY <1>1, InductiveText, PTL

-----------------------------------------------------------------------------
(* The Position of the segments of a document.                             *)

(* A finite set with one more than another is larger. *)
LEMMA LargerSet ==
  ASSUME NEW A, NEW B, IsFiniteSet(B), A \subseteq B, A # B
  PROVE  IsFiniteSet(A) /\ Cardinality(A) \in Nat /\ Cardinality(B) \in Nat /\ Cardinality(A) < Cardinality(B)
<1>1. IsFiniteSet(A) /\ Cardinality(A) <= Cardinality(B) /\ (Cardinality(B) = Cardinality(A) => B = A)
  BY FS_Subset
<1>2. Cardinality(A) \in Nat /\ Cardinality(B) \in Nat
  BY <1>1, FS_CardinalityType
<1>. QED BY <1>1, <1>2

LEMMA BeforeFinite ==
  ASSUME NEW i \in Nat, NEW kinds
  PROVE  IsFiniteSet(Before(i, kinds)) /\ Before(i, kinds) \subseteq 1 .. i - 1
<1>1. IsFiniteSet(1 .. i - 1)
  BY FS_Interval
<1>2. Before(i, kinds) \subseteq 1 .. i - 1
  BY DEF Before
<1>. QED BY <1>1, <1>2, FS_Subset

(* The segments of a DOCX: the elements of one kind are counted in their   *)
(* order, the tables after all paragraphs.                                 *)
LEMMA BodyDistinct ==
  ASSUME Seen \in Nat, NEW s \in Body, NEW t \in Body, s.position = t.position
  PROVE  s = t
<1>. DEFINE n == Seen + 1
            P(i) == Before(i, {"paragraph"})
            T(i) == Before(i, {"table"})
            paragraph(i) == Segment(i, i, Cardinality(P(i)))
            table(i) == Segment(i, i, Cardinality(P(n) \cup T(i)))
<1>1. \A i \in Nat : IsFiniteSet(P(i)) /\ IsFiniteSet(T(i)) /\ P(i) \subseteq 1 .. i - 1 /\ T(i) \subseteq 1 .. i - 1
  BY BeforeFinite
<1>2. n \in Nat /\ \A i \in P(n) \cup T(n) : i \in Nat /\ 1 <= i /\ i < n
  BY <1>1
<1>3. \A i, j \in P(n) : i < j => P(i) \subseteq P(j) /\ i \in P(j) /\ i \notin P(i)
  BY <1>2 DEF Before
<1>4. \A i, j \in T(n) : i < j => T(i) \subseteq T(j) /\ i \in T(j) /\ i \notin T(i)
  BY <1>2 DEF Before
<1>5. \A i \in P(n) : P(i) \subseteq P(n) /\ i \notin P(i)
  BY <1>2 DEF Before
<1>6. \A i \in T(n) : i \notin P(n)
  BY DEF Before
<1>7. Body = {paragraph(i) : i \in P(n)} \cup {table(i) : i \in T(n)}
  BY DEF Body
<1>8. /\ \A i : paragraph(i).position = Cardinality(P(i))
      /\ \A i : table(i).position = Cardinality(P(n) \cup T(i))
  BY DEF Segment
<1>. HIDE DEF n, P, T, paragraph, table
<1>9. \A i, j \in P(n) : i < j => Cardinality(P(i)) < Cardinality(P(j))
                                   /\ Cardinality(P(i)) \in Nat /\ Cardinality(P(j)) \in Nat
  <2>. SUFFICES ASSUME NEW i \in P(n), NEW j \in P(n), i < j
                PROVE  Cardinality(P(i)) < Cardinality(P(j))
                       /\ Cardinality(P(i)) \in Nat /\ Cardinality(P(j)) \in Nat
    OBVIOUS
  <2>. QED BY <1>1, <1>2, <1>3, LargerSet
<1>10. \A i, j \in T(n) : i < j => Cardinality(P(n) \cup T(i)) < Cardinality(P(n) \cup T(j))
                                    /\ Cardinality(P(n) \cup T(i)) \in Nat
                                    /\ Cardinality(P(n) \cup T(j)) \in Nat
  <2>. SUFFICES ASSUME NEW i \in T(n), NEW j \in T(n), i < j
                PROVE  /\ Cardinality(P(n) \cup T(i)) < Cardinality(P(n) \cup T(j))
                       /\ Cardinality(P(n) \cup T(i)) \in Nat
                       /\ Cardinality(P(n) \cup T(j)) \in Nat
    OBVIOUS
  <2>1. IsFiniteSet(P(n) \cup T(j))
    BY <1>1, <1>2, FS_Union
  <2>2. P(n) \cup T(i) \subseteq P(n) \cup T(j) /\ P(n) \cup T(i) # P(n) \cup T(j)
    BY <1>4, <1>6
  <2>. QED BY <2>1, <2>2, LargerSet
<1>11. \A i \in P(n), j \in T(n) : Cardinality(P(i)) # Cardinality(P(n) \cup T(j))
  <2>. SUFFICES ASSUME NEW i \in P(n), NEW j \in T(n)
                PROVE  Cardinality(P(i)) # Cardinality(P(n) \cup T(j))
    OBVIOUS
  <2>1. IsFiniteSet(P(n) \cup T(j))
    BY <1>1, <1>2, FS_Union
  <2>2. P(i) \subseteq P(n) \cup T(j) /\ P(i) # P(n) \cup T(j)
    BY <1>5
  <2>3. Cardinality(P(i)) < Cardinality(P(n) \cup T(j)) /\ Cardinality(P(i)) \in Nat
    BY <2>1, <2>2, LargerSet
  <2>. QED BY <2>3
<1>12. \A i, j \in P(n) : Cardinality(P(i)) = Cardinality(P(j)) => i = j
  <2>. SUFFICES ASSUME NEW i \in P(n), NEW j \in P(n), Cardinality(P(i)) = Cardinality(P(j)) PROVE i = j
    OBVIOUS
  <2>1. ~ i < j /\ ~ j < i
    BY <1>9
  <2>. QED BY <1>2, <2>1
<1>13. \A i, j \in T(n) : Cardinality(P(n) \cup T(i)) = Cardinality(P(n) \cup T(j)) => i = j
  <2>. SUFFICES ASSUME NEW i \in T(n), NEW j \in T(n),
                       Cardinality(P(n) \cup T(i)) = Cardinality(P(n) \cup T(j)) PROVE i = j
    OBVIOUS
  <2>1. ~ i < j /\ ~ j < i
    BY <1>10
  <2>. QED BY <1>2, <2>1
<1>14. CASE s \in {paragraph(i) : i \in P(n)} /\ t \in {paragraph(i) : i \in P(n)}
  BY <1>8, <1>12, <1>14
<1>15. CASE s \in {table(i) : i \in T(n)} /\ t \in {table(i) : i \in T(n)}
  BY <1>8, <1>13, <1>15
<1>16. CASE s \in {paragraph(i) : i \in P(n)} /\ t \in {table(i) : i \in T(n)}
  BY <1>8, <1>11, <1>16
<1>17. CASE s \in {table(i) : i \in T(n)} /\ t \in {paragraph(i) : i \in P(n)}
  BY <1>8, <1>11, <1>17
<1>. QED BY <1>7, <1>14, <1>15, <1>16, <1>17

(* One segment at most for each unit. *)
OnePerUnit ==
  /\ segments \subseteq Segments /\ IsFiniteSet(segments)
  /\ \A s \in segments : s.first \in 1 .. Seen
  /\ \A s, t \in segments : s.first = t.first => s = t

(* The rows of the sheet that is read count from start; what was there     *)
(* before, if the sheets are sound, has positions up to start.             *)
InSheet(sheet) ==
  /\ units[sheet] \in [sheet : XlsxSheets] /\ \A j \in sheet + 1 .. Seen : units[j] \in Rows
  /\ \A s \in segments : s.first > sheet => s.position = start + units[s.first].number
  /\ Dense(sheet) => start + (Seen - sheet) <= Found
  /\ SheetsSound => \A s, t \in segments : s.first <= sheet /\ t.first <= sheet =>
       s.position <= start /\ (s.position = t.position => s = t)

PositionInv ==
  /\ format = "docx" => segments = IF complete THEN Body ELSE {}
  /\ format = "fallback" => segments = IF complete THEN Fallback ELSE {}
  /\ format = "xlsx" =>
       /\ OnePerUnit /\ start \in Nat
       /\ units # <<>> => \E sheet \in 1 .. Seen : InSheet(sheet)

LEMMA XlsxUnits ==
  ASSUME TextInv, format = "xlsx"
  PROVE  /\ Seen \in Nat /\ DOMAIN units = 1 .. Seen
         /\ \A i \in 1 .. Seen : units[i] \in [sheet : XlsxSheets] \cup Rows
<1>1. units \in Seq([sheet : XlsxSheets] \cup Rows)
  <2>1. Units["xlsx"] \subseteq [sheet : XlsxSheets] \cup Rows /\ units \in Seq(Units["xlsx"])
    BY UnitsAssumption DEF TextInv
  <2>. QED BY <2>1
<1>. QED BY <1>1 DEF Seen

LEMMA SheetsAndRows == \A x \in Rows : x \notin [sheet : XlsxSheets]
<1>. SUFFICES ASSUME NEW x \in Rows, x \in [sheet : XlsxSheets] PROVE FALSE
  OBVIOUS
<1>1. DOMAIN x = {"number", "empty"} /\ DOMAIN x = {"sheet"}
  BY DEF Rows
<1>2. "sheet" \in DOMAIN x
  BY <1>1
<1>. QED BY <1>1, <1>2

(* What is asked of the sheets and rows read is asked of the first of them. *)
LEMMA SoundBefore ==
  ASSUME TextInv, format = "xlsx", NEW unit, units' = Append(units, unit), segments \subseteq segments',
         SheetsSound'
  PROVE  SheetsSound
<1>1. /\ Seen \in Nat /\ Seen' = Seen + 1 /\ \A i \in 1 .. Seen : units'[i] = units[i]
      /\ DOMAIN units = 1 .. Seen /\ DOMAIN units' = 1 .. Seen + 1
  BY XlsxUnits DEF Seen, TextInv
<1>2. SheetsAt \subseteq SheetsAt' /\ SheetsAt \subseteq 1 .. Seen
  BY <1>1 DEF SheetsAt
<1>3. ASSUME NEW i \in SheetsAt
      PROVE  RowsOf(i) \subseteq RowsOf(i)' /\ RowsOf(i) \subseteq 1 .. Seen
  <2>. SUFFICES ASSUME NEW j \in RowsOf(i) PROVE j \in RowsOf(i)' /\ j \in 1 .. Seen
    OBVIOUS
  <2>1. j \in i + 1 .. Seen /\ units[j] \in Rows /\ \A k \in i + 1 .. j : units[k] \in Rows
    BY DEF RowsOf
  <2>2. i \in 1 .. Seen
    BY <1>2
  <2>3. j \in 1 .. Seen /\ \A k \in i + 1 .. j : k \in 1 .. Seen
    BY <1>1, <2>1, <2>2
  <2>4. j \in i + 1 .. Seen'
    BY <1>1, <2>1, <2>2
  <2>. QED BY <1>1, <2>1, <2>3, <2>4 DEF RowsOf
<1>. SUFFICES ASSUME NEW i \in SheetsAt
              PROVE  /\ Numbered(i) /\ \A j \in RowsOf(i) : units[j].number > 0
                     /\ (\E k \in SheetsAt : k > i) => Dense(i)
                     /\ units[i].sheet = "malformed" => segments = {} \/ \A s \in segments : s.first >= i
  BY DEF SheetsSound
<1>4. i \in SheetsAt' /\ i \in 1 .. Seen /\ units'[i] = units[i]
  BY <1>1, <1>2
<1>5. /\ Numbered(i)' /\ \A j \in RowsOf(i)' : units'[j].number > 0
      /\ (\E k \in SheetsAt' : k > i) => Dense(i)'
      /\ units'[i].sheet = "malformed" => segments' = {} \/ \A s \in segments' : s.first >= i
  BY <1>4 DEF SheetsSound
<1>6. \A j \in RowsOf(i) : j \in RowsOf(i)' /\ units'[j] = units[j]
  BY <1>1, <1>3
<1>7. Numbered(i)
  BY <1>5, <1>6 DEF Numbered
<1>8. Dense(i)' => Dense(i)
  BY <1>6 DEF Dense
<1>. QED BY <1>2, <1>4, <1>5, <1>6, <1>7, <1>8

LEMMA SheetRows ==
  ASSUME TextInv, format = "xlsx", NEW sheet \in 1 .. Seen, InSheet(sheet)
  PROVE  /\ sheet \in SheetsAt /\ RowsOf(sheet) = sheet + 1 .. Seen
         /\ \A j \in sheet + 1 .. Seen : units[j].number \in Nat
<1>1. \A j \in sheet + 1 .. Seen : units[j] \in Rows /\ \A k \in sheet + 1 .. j : k \in sheet + 1 .. Seen
  BY XlsxUnits DEF InSheet
<1>2. RowsOf(sheet) = sheet + 1 .. Seen
  BY <1>1 DEF RowsOf
<1>3. sheet \in SheetsAt
  BY XlsxUnits DEF SheetsAt, InSheet
<1>. QED BY <1>1, <1>2, <1>3 DEF Rows

LEMMA InSheetDistinct ==
  ASSUME TextInv, format = "xlsx", OnePerUnit, start \in Nat, SheetsSound,
         NEW sheet \in 1 .. Seen, InSheet(sheet)
  PROVE  \A s, t \in segments : s.position = t.position => s = t
<1>1. /\ Seen \in Nat /\ sheet \in Nat
      /\ sheet \in SheetsAt /\ RowsOf(sheet) = sheet + 1 .. Seen
      /\ \A j \in sheet + 1 .. Seen : units[j].number \in Nat
  BY XlsxUnits, SheetRows
<1>2. /\ \A j, k \in sheet + 1 .. Seen : j < k => units[j].number < units[k].number
      /\ \A j \in sheet + 1 .. Seen : units[j].number > 0
  BY <1>1 DEF SheetsSound, Numbered
<1>3. \A s \in segments : s.first \in 1 .. Seen /\ s.position \in Nat
                          /\ (s.first > sheet => s.first \in sheet + 1 .. Seen)
  BY <1>1 DEF OnePerUnit, Segments
<1>4. \A s \in segments : s.first > sheet => s.position > start
  BY <1>1, <1>2, <1>3 DEF InSheet
<1>5. \A s \in segments : s.first <= sheet => s.position <= start
  BY DEF InSheet
<1>. SUFFICES ASSUME NEW s \in segments, NEW t \in segments, s.position = t.position PROVE s = t
  OBVIOUS
<1>6. CASE s.first <= sheet /\ t.first <= sheet
  BY <1>6 DEF InSheet
<1>7. CASE s.first > sheet /\ t.first > sheet
  <2>1. units[s.first].number = units[t.first].number
    <3>1. s.position = start + units[s.first].number /\ t.position = start + units[t.first].number
      BY <1>7 DEF InSheet
    <3>2. units[s.first].number \in Nat /\ units[t.first].number \in Nat
      BY <1>1, <1>3, <1>7
    <3>3. \A a, b, c \in Nat : c + a = c + b => a = b
      OBVIOUS
    <3>4. start + units[s.first].number = start + units[t.first].number
      BY <3>1
    <3>. HIDE DEF InSheet
    <3>. QED BY <3>2, <3>3, <3>4
  <2>2. ~ s.first < t.first /\ ~ t.first < s.first
    BY <1>1, <1>2, <1>3, <1>7, <2>1
  <2>3. s.first = t.first
    BY <1>3, <2>2
  <2>. QED BY <2>3 DEF OnePerUnit
<1>8. CASE s.first <= sheet /\ t.first > sheet
  BY <1>3, <1>4, <1>5, <1>8
<1>9. CASE s.first > sheet /\ t.first <= sheet
  BY <1>3, <1>4, <1>5, <1>9
<1>. QED BY <1>1, <1>3, <1>6, <1>7, <1>8, <1>9

(* All sheets but the last are dense: when another begins, no position is  *)
(* beyond the number of segments.                                          *)
LEMMA DenseBelow ==
  ASSUME TextInv, format = "xlsx", OnePerUnit, start \in Nat, SheetsSound,
         NEW sheet \in 1 .. Seen, InSheet(sheet), Dense(sheet)
  PROVE  \A s \in segments : s.position <= Found
<1>0. Found \in Nat
  BY FS_CardinalityType DEF OnePerUnit, Found
<1>1. Seen \in Nat /\ sheet \in Nat /\ RowsOf(sheet) = sheet + 1 .. Seen /\ Found \in Nat
  BY <1>0, XlsxUnits, SheetRows
<1>2. \A j \in sheet + 1 .. Seen : units[j].number = j - sheet
  <2>. SUFFICES ASSUME NEW j \in sheet + 1 .. Seen PROVE units[j].number = j - sheet
    OBVIOUS
  <2>1. units[j] = [number |-> j - sheet, empty |-> FALSE]
    BY <1>1 DEF Dense
  <2>. QED BY <2>1
<1>. SUFFICES ASSUME NEW s \in segments PROVE s.position <= Found
  OBVIOUS
<1>3. s.first \in 1 .. Seen /\ s.position \in Nat
  BY DEF OnePerUnit, Segments
<1>4. start + (Seen - sheet) <= Found
  BY DEF InSheet
<1>5. CASE s.first <= sheet
  <2>1. s.position <= start
    BY <1>5 DEF InSheet
  <2>. QED BY <1>1, <1>3, <1>4, <2>1
<1>6. CASE s.first > sheet
  <2>1. s.first \in sheet + 1 .. Seen
    BY <1>1, <1>3, <1>6
  <2>2. s.position = start + (s.first - sheet)
    BY <1>2, <1>6, <2>1 DEF InSheet
  <2>. QED BY <1>1, <1>3, <1>4, <2>1, <2>2
<1>. QED BY <1>1, <1>3, <1>5, <1>6

LEMMA PositionInit == DocumentInit => PositionInv
<1>. SUFFICES ASSUME DocumentInit PROVE PositionInv
  OBVIOUS
<1>1. segments = {} /\ units = <<>> /\ start = 0 /\ complete = FALSE
  BY DEF DocumentInit
<1>2. OnePerUnit
  BY <1>1, FS_EmptySet DEF OnePerUnit
<1>. QED BY <1>1, <1>2 DEF PositionInv

(* A row is counted from start. *)
LEMMA RowStep ==
  ASSUME TextInv, format = "xlsx", OnePerUnit, start \in Nat, NEW unit \in Rows,
         units' = Append(units, unit), UNCHANGED <<format, start>>,
         segments' = segments \cup
           IF unit.empty THEN {} ELSE {Segment(Seen + 1, Seen + 1, start + unit.number)},
         NEW sheet \in 1 .. Seen, InSheet(sheet)
  PROVE  OnePerUnit' /\ InSheet(sheet)'
<1>. DEFINE n == Seen
            x == Segment(n + 1, n + 1, start + unit.number)
<1>1. /\ n \in Nat /\ Seen' = n + 1 /\ units'[n + 1] = unit /\ \A i \in 1 .. n : units'[i] = units[i]
      /\ sheet \in 1 .. n
  BY XlsxUnits DEF Seen, TextInv
<1>2. unit.number \in Nat /\ unit.empty \in BOOLEAN
  BY DEF Rows
<1>3. x \in Segments /\ x.first = n + 1 /\ x.position = start + unit.number
  BY <1>1, <1>2 DEF Segment, Segments
<1>4. segments' = segments \/ (~ unit.empty /\ segments' = segments \cup {x})
  BY <1>2
<1>5. segments \subseteq Segments /\ \A s \in segments : s.first \in 1 .. n /\ s.first # n + 1
  BY <1>1 DEF OnePerUnit
<1>. HIDE DEF n, x
<1>6. IsFiniteSet(segments') /\ Found \in Nat /\ Found' \in Nat /\ Found <= Found'
      /\ (~ unit.empty => Found' = Found + 1)
  <2>1. IsFiniteSet(segments) /\ Found \in Nat
    BY FS_CardinalityType DEF OnePerUnit, Found
  <2>2. x \notin segments
    BY <1>3, <1>5
  <2>3. segments' = segments \cup {x} => IsFiniteSet(segments') /\ Found' = Found + 1
    BY <2>1, <2>2, FS_AddElement DEF Found
  <2>4. ~ unit.empty => segments' = segments \cup {x}
    BY DEF x, n
  <2>5. segments' = segments => IsFiniteSet(segments') /\ Found' = Found
    BY <2>1 DEF Found
  <2>. QED BY <1>4, <2>1, <2>3, <2>4, <2>5
<1>7. OnePerUnit'
  <2>1. segments' \subseteq Segments /\ \A s \in segments' : s.first \in 1 .. n + 1
    BY <1>1, <1>3, <1>4, <1>5
  <2>2. \A s, t \in segments' : s.first = t.first => s = t
    BY <1>3, <1>4, <1>5 DEF OnePerUnit
  <2>. QED BY <1>1, <1>6, <2>1, <2>2 DEF OnePerUnit
<1>8. units'[sheet] \in [sheet : XlsxSheets] /\ \A j \in sheet + 1 .. n + 1 : units'[j] \in Rows
  <2>1. ASSUME NEW j \in sheet + 1 .. n + 1 PROVE units'[j] \in Rows
    <3>1. j = n + 1 \/ (j \in sheet + 1 .. n /\ j \in 1 .. n)
      BY <1>1
    <3>2. \A i \in sheet + 1 .. n : units[i] \in Rows
      BY DEF InSheet, n
    <3>. QED BY <1>1, <3>1, <3>2
  <2>. QED BY <1>1, <2>1 DEF InSheet
<1>9. \A s \in segments' : s.first > sheet => s.position = start + units'[s.first].number
  <2>1. \A s \in segments : s.first > sheet => s.position = start + units'[s.first].number
    BY <1>1, <1>5 DEF InSheet
  <2>2. x.position = start + units'[x.first].number
    BY <1>1, <1>3
  <2>. QED BY <1>4, <2>1, <2>2
<1>10. Dense(sheet)' => start + (n + 1 - sheet) <= Found'
  <2>. SUFFICES ASSUME Dense(sheet)' PROVE start + (n + 1 - sheet) <= Found'
    OBVIOUS
  <2>1. RowsOf(sheet)' = sheet + 1 .. n + 1
    <3>1. \A j \in sheet + 1 .. n + 1 : \A k \in sheet + 1 .. j : k \in sheet + 1 .. n + 1
      BY <1>1
    <3>. QED BY <1>1, <1>8, <3>1 DEF RowsOf
  <2>2. \A j \in sheet + 1 .. n + 1 : units'[j] = [number |-> j - sheet, empty |-> FALSE]
    BY <2>1 DEF Dense
  <2>3. ~ unit.empty
    <3>1. n + 1 \in sheet + 1 .. n + 1
      BY <1>1
    <3>2. ASSUME NEW j \in sheet + 1 .. n + 1 PROVE ~ units'[j].empty
      <4>1. units'[j] = [number |-> j - sheet, empty |-> FALSE]
        BY <2>2
      <4>. QED BY <4>1
    <3>. QED BY <1>1, <3>1, <3>2
  <2>4. Dense(sheet)
    <3>1. RowsOf(sheet) = sheet + 1 .. n
      BY SheetRows DEF n
    <3>2. \A j \in sheet + 1 .. n : j \in 1 .. n /\ j \in sheet + 1 .. n + 1
      BY <1>1
    <3>. QED BY <1>1, <2>2, <3>1, <3>2 DEF Dense
  <2>5. start + (n - sheet) <= Found
    BY <2>4 DEF InSheet, n
  <2>. QED BY <1>1, <1>6, <2>3, <2>5
<1>11. SheetsSound' => \A s, t \in segments' : s.first <= sheet /\ t.first <= sheet =>
         s.position <= start /\ (s.position = t.position => s = t)
  <2>1. SheetsSound' => SheetsSound
    BY <1>4, SoundBefore
  <2>2. \A s \in segments' : s.first <= sheet => s \in segments
    BY <1>1, <1>3, <1>4
  <2>. QED BY <2>1, <2>2 DEF InSheet
<1>12. InSheet(sheet)'
  <2>1. units'[sheet] \in [sheet : XlsxSheets] /\ \A j \in sheet + 1 .. Seen' : units'[j] \in Rows
    BY <1>1, <1>8
  <2>2. \A s \in segments' : s.first > sheet => s.position = start' + units'[s.first].number
    BY <1>9
  <2>3. Dense(sheet)' => start' + (Seen' - sheet) <= Found'
    BY <1>1, <1>10
  <2>4. SheetsSound' => \A s, t \in segments' : s.first <= sheet /\ t.first <= sheet =>
          s.position <= start' /\ (s.position = t.position => s = t)
    BY <1>11
  <2>. QED BY <2>1, <2>2, <2>3, <2>4 DEF InSheet
<1>. QED BY <1>7, <1>12

(* A sheet counts from the number of segments there are. *)
LEMMA NewSheetStep ==
  ASSUME TextInv, format = "xlsx", PositionInv, NEW unit \in [sheet : XlsxSheets],
         units' = Append(units, unit), UNCHANGED format, start' = StartPos,
         segments' = segments \cup
           IF unit.sheet = "malformed" THEN {Segment(Seen + 1, Seen + 1, StartPos)} ELSE {},
         NEW new, new = Seen + 1
  PROVE  OnePerUnit' /\ start' \in Nat /\ new \in 1 .. Seen' /\ InSheet(new)'
<1>. DEFINE n == Seen
            x == Segment(n + 1, n + 1, Found)
<1>0. OnePerUnit /\ start \in Nat /\ (units # <<>> => \E sheet \in 1 .. Seen : InSheet(sheet))
  BY DEF PositionInv
<1>1. /\ n \in Nat /\ Seen' = n + 1 /\ units'[n + 1] = unit /\ \A i \in 1 .. n : units'[i] = units[i]
      /\ DOMAIN units = 1 .. n /\ DOMAIN units' = 1 .. n + 1
  BY XlsxUnits DEF Seen, TextInv
<1>2. IsFiniteSet(segments) /\ Found \in Nat
  BY <1>0, FS_CardinalityType DEF OnePerUnit, Found
<1>3. x \in Segments /\ x.first = n + 1 /\ x.position = Found
  BY <1>1, <1>2 DEF Segment, Segments
<1>4. segments' = segments \/ (unit.sheet = "malformed" /\ segments' = segments \cup {x})
  BY DEF StartPos
<1>5. segments \subseteq Segments /\ \A s \in segments : s.first \in 1 .. n /\ s.first # n + 1
  BY <1>0, <1>1 DEF OnePerUnit
<1>. HIDE DEF n, x
<1>6. IsFiniteSet(segments') /\ Found' \in Nat /\ Found <= Found' /\ start' = Found
  <2>1. x \notin segments
    BY <1>3, <1>5
  <2>2. segments' = segments \cup {x} => IsFiniteSet(segments') /\ Found' = Found + 1
    BY <1>2, <2>1, FS_AddElement DEF Found
  <2>3. segments' = segments => IsFiniteSet(segments') /\ Found' = Found
    BY <1>2 DEF Found
  <2>. QED BY <1>2, <1>4, <2>2, <2>3 DEF StartPos
<1>7. OnePerUnit'
  <2>1. segments' \subseteq Segments /\ \A s \in segments' : s.first \in 1 .. n + 1
    BY <1>1, <1>3, <1>4, <1>5
  <2>2. \A s, t \in segments' : s.first = t.first => s = t
    BY <1>0, <1>3, <1>4, <1>5 DEF OnePerUnit
  <2>. QED BY <1>1, <1>6, <2>1, <2>2 DEF OnePerUnit
<1>8. SheetsSound' => \A s, t \in segments' : s.position <= Found /\ (s.position = t.position => s = t)
  <2>. SUFFICES ASSUME SheetsSound'
                PROVE  \A s, t \in segments' : s.position <= Found /\ (s.position = t.position => s = t)
    OBVIOUS
  <2>1. SheetsSound
    BY <1>4, SoundBefore
  <2>2. n + 1 \in SheetsAt'
    BY <1>1 DEF SheetsAt
  <2>3. \A s, t \in segments : s.position <= Found /\ (s.position = t.position => s = t)
    <3>1. CASE units = <<>>
      <4>1. segments = {}
        BY <1>1, <1>5, <3>1 DEF n, Seen
      <4>. QED BY <4>1
    <3>2. CASE units # <<>>
      <4>1. PICK sheet \in 1 .. n : InSheet(sheet)
        BY <1>0, <3>2 DEF n
      <4>2. sheet \in SheetsAt /\ sheet \in SheetsAt' /\ RowsOf(sheet) = sheet + 1 .. n
        BY <1>1, <4>1, SheetRows DEF SheetsAt, n
      <4>3. Dense(sheet)'
        BY <1>1, <2>2, <4>1, <4>2 DEF SheetsSound
      <4>4. RowsOf(sheet) \subseteq RowsOf(sheet)'
        <5>. SUFFICES ASSUME NEW j \in sheet + 1 .. n PROVE j \in RowsOf(sheet)'
          BY <4>2
        <5>1. \A k \in sheet + 1 .. j : k \in sheet + 1 .. n /\ k \in 1 .. n
          BY <1>1
        <5>2. \A k \in sheet + 1 .. n : units[k] \in Rows
          BY <4>1 DEF InSheet, n
        <5>3. j \in sheet + 1 .. n + 1 /\ j \in 1 .. n
          BY <1>1
        <5>. QED BY <1>1, <5>1, <5>2, <5>3 DEF RowsOf
      <4>5. Dense(sheet)
        <5>1. \A j \in RowsOf(sheet) : j \in 1 .. n
          BY <1>1, <4>2
        <5>. QED BY <1>1, <4>3, <4>4, <5>1 DEF Dense
      <4>6. \A s \in segments : s.position <= Found
        BY <1>0, <2>1, <4>1, <4>5, DenseBelow DEF n
      <4>7. \A s, t \in segments : s.position = t.position => s = t
        BY <1>0, <2>1, <4>1, InSheetDistinct DEF n
      <4>. QED BY <4>6, <4>7
    <3>. QED BY <3>1, <3>2
  <2>4. CASE segments' = segments
    BY <2>3, <2>4
  <2>5. CASE unit.sheet = "malformed" /\ segments' = segments \cup {x}
    <3>1. segments' = {} \/ \A s \in segments' : s.first >= n + 1
      BY <1>1, <2>2, <2>5 DEF SheetsSound
    <3>2. segments = {}
      BY <1>1, <1>5, <2>5, <3>1
    <3>. QED BY SMTT(30), <1>2, <1>3, <2>5, <3>2
  <2>. QED BY <1>4, <2>4, <2>5
<1>9. \A s \in segments' : ~ s.first > new
  BY <1>1, <1>3, <1>4, <1>5 DEF n
<1>10. new = n + 1 /\ Seen' = new /\ new \in Nat
  BY <1>1 DEF n
<1>11. InSheet(new)'
  <2>1. units'[new] \in [sheet : XlsxSheets] /\ \A j \in new + 1 .. Seen' : units'[j] \in Rows
    BY <1>1, <1>10
  <2>2. \A s \in segments' : s.first > new => s.position = start' + units'[s.first].number
    BY <1>9
  <2>3. Dense(new)' => start' + (Seen' - new) <= Found'
    BY <1>2, <1>6, <1>10
  <2>4. SheetsSound' => \A s, t \in segments' : s.first <= new /\ t.first <= new =>
          s.position <= start' /\ (s.position = t.position => s = t)
    BY <1>6, <1>8
  <2>. QED BY <2>1, <2>2, <2>3, <2>4 DEF InSheet
<1>12. new \in 1 .. Seen' /\ start' \in Nat
  BY <1>1, <1>2, <1>6, <1>10
<1>. QED BY <1>7, <1>11, <1>12

LEMMA SameSheets ==
  ASSUME UNCHANGED <<units, segments, start>>
  PROVE  (OnePerUnit => OnePerUnit') /\ \A sheet \in 1 .. Seen : InSheet(sheet) => InSheet(sheet)'
<1>1. Seen' = Seen /\ Found' = Found /\ (OnePerUnit => OnePerUnit')
  BY DEF Seen, Found, OnePerUnit
<1>2. SheetsAt' = SheetsAt
  BY DEF SheetsAt
<1>3. ASSUME NEW i PROVE RowsOf(i)' = RowsOf(i) /\ Dense(i)' = Dense(i) /\ Numbered(i)' = Numbered(i)
  BY DEF RowsOf, Dense, Numbered, Seen
<1>4. SheetsSound' <=> SheetsSound
  BY <1>2, <1>3 DEF SheetsSound
<1>. QED BY <1>1, <1>3, <1>4 DEF InSheet

LEMMA PositionNext == TextInv /\ PositionInv /\ [DocumentNext]_documentVars => PositionInv'
<1>. SUFFICES ASSUME TextInv, PositionInv, [DocumentNext]_documentVars PROVE PositionInv'
  OBVIOUS
<1>1. CASE UNCHANGED documentVars
  <2>1. /\ format' = format /\ segments' = segments /\ complete' = complete
        /\ Body' = Body /\ Fallback' = Fallback
    BY <1>1 DEF documentVars, Body, Fallback, Before, Seen
  <2>2. format = "xlsx" => PositionInv'
    BY <1>1, SameSheets DEF documentVars, PositionInv, Seen
  <2>. QED BY <2>1, <2>2 DEF PositionInv
<1>2. CASE Complete
  <2>1. CASE format = "docx"
    <3>1. segments' = Body /\ complete' = TRUE /\ format' = "docx" /\ Body' = Body
      BY <1>2, <2>1 DEF Complete, Body, Before, Seen
    <3>. QED BY <3>1 DEF PositionInv
  <2>2. CASE format = "xlsx"
    <3>1. format' = "xlsx" /\ segments' = segments /\ units' = units /\ start' = start
      BY <1>2, <2>2 DEF Complete
    <3>. QED BY <2>2, <3>1, SameSheets DEF PositionInv, Seen
  <2>3. CASE format = "fallback"
    <3>1. segments' = Fallback /\ complete' = TRUE /\ format' = "fallback" /\ Fallback' = Fallback
      BY <1>2, <2>3 DEF Complete, Fallback, Before, Seen
    <3>. QED BY <3>1 DEF PositionInv
  <2>4. CASE format \notin {"docx", "fallback", "xlsx"}
    BY <1>2, <2>4 DEF Complete, PositionInv
  <2>. QED BY <2>1, <2>2, <2>3, <2>4
<1>3. ASSUME NEW unit \in Units[format], Take(unit) PROVE PositionInv'
  <2>1. format' = format /\ units' = Append(units, unit) /\ complete' = complete /\ ~ complete
    BY <1>3 DEF Take
  <2>2. CASE format \in {"docx", "fallback"}
    <3>1. segments' = segments
      BY <1>3, <2>2 DEF Take
    <3>. QED BY <2>1, <2>2, <3>1 DEF PositionInv
  <2>3. CASE format = "xlsx"
    <3>0. ExtractSheet(unit) /\ Follows(unit)
      BY <1>3, <2>3 DEF Take
    <3>1. units' # <<>> /\ OnePerUnit /\ start \in Nat
      BY <2>1, <2>3 DEF TextInv, PositionInv
    <3>2. CASE unit \in Rows
      <4>1. PICK sheet \in 1 .. Seen : InSheet(sheet)
        BY <2>3, <3>0, <3>2 DEF PositionInv, Follows
      <4>2. start' = start
        BY <3>0, <3>2, SheetsAndRows DEF ExtractSheet
      <4>3. segments' = segments \cup
              IF unit.empty THEN {} ELSE {Segment(Seen + 1, Seen + 1, start + unit.number)}
        BY <3>0, <3>2, SheetsAndRows DEF ExtractSheet
      <4>4. OnePerUnit' /\ InSheet(sheet)'
        BY <2>1, <2>3, <3>1, <3>2, <4>1, <4>2, <4>3, RowStep
      <4>5. sheet \in 1 .. Seen'
        BY <2>1 DEF TextInv, Seen
      <4>. QED BY <2>1, <2>3, <3>1, <4>2, <4>4, <4>5 DEF PositionInv
    <3>3. CASE unit \in [sheet : XlsxSheets]
      <4>1. start' = StartPos /\ segments' = segments \cup
              IF unit.sheet = "malformed" THEN {Segment(Seen + 1, Seen + 1, StartPos)} ELSE {}
        BY <3>0, <3>3, SheetsAndRows DEF ExtractSheet
      <4>2. PICK new : new = Seen + 1
        OBVIOUS
      <4>3. OnePerUnit' /\ start' \in Nat /\ new \in 1 .. Seen' /\ InSheet(new)'
        BY <2>1, <2>3, <3>3, <4>1, <4>2, NewSheetStep
      <4>. QED BY <2>1, <2>3, <4>3 DEF PositionInv
    <3>. QED BY <3>0, <3>2, <3>3 DEF ExtractSheet
  <2>4. CASE format \notin {"docx", "fallback", "xlsx"}
    BY <2>1, <2>4 DEF PositionInv
  <2>. QED BY <2>2, <2>3, <2>4
<1>. QED BY <1>1, <1>2, <1>3 DEF DocumentNext

(* No two segments of a document have the same Position, however long it   *)
(* is: in a PDF they are numbered in the order of the text, in a DOCX the  *)
(* tables after the paragraphs, or each part of the text of one that is    *)
(* not the XML that is expected by its place, in an XLSX whose sheets are  *)
(* sound by the rows of each sheet from the number of segments there were  *)
(* before it.                                                              *)
THEOREM PositionsDistinctHolds == DocumentSpec => []PositionsDistinct
<1>1. TextInv /\ PositionInv => PositionsDistinct
  <2>. SUFFICES ASSUME TextInv, PositionInv, format # "xlsx" \/ SheetsSound,
                       NEW s \in segments, NEW t \in segments, s.position = t.position
                PROVE  s = t
    BY DEF PositionsDistinct
  <2>1. CASE format = "pdf"
    <3>1. \E upto : Cut(units, segments, upto)
      BY <2>1 DEF TextInv
    <3>2. ~ s.position < t.position /\ ~ t.position < s.position
      BY <3>1 DEF Cut, Segments
    <3>. QED BY <3>1, <3>2 DEF Cut, Ordered
  <2>2. CASE format = "docx"
    <3>1. Seen \in Nat
      BY DEF TextInv, Seen
    <3>. QED BY <2>2, <3>1, BodyDistinct DEF PositionInv
  <2>4. CASE format = "fallback"
    <3>1. s \in Fallback /\ t \in Fallback
      BY <2>4 DEF PositionInv
    <3>2. PICK i \in Before(Seen + 1, {"words"}), j \in Before(Seen + 1, {"words"}) :
            s = Segment(i, i, i - 1) /\ t = Segment(j, j, j - 1)
      BY <3>1 DEF Fallback
    <3>3. i \in Nat /\ j \in Nat /\ i - 1 = j - 1
      BY <3>2 DEF Before, Segment
    <3>. QED BY <3>2, <3>3
  <2>3. CASE format = "xlsx"
    <3>1. OnePerUnit /\ start \in Nat /\ SheetsSound
      BY <2>3 DEF PositionInv
    <3>2. units # <<>>
      <4>1. s.first \in 1 .. Seen
        BY <3>1 DEF OnePerUnit
      <4>2. 1 <= Seen
        BY <2>3, <4>1, XlsxUnits
      <4>. QED BY <4>2 DEF Seen
    <3>3. PICK sheet \in 1 .. Seen : InSheet(sheet)
      BY <2>3, <3>2 DEF PositionInv
    <3>. QED BY <2>3, <3>1, <3>3, InSheetDistinct
  <2>. QED BY <2>1, <2>2, <2>3, <2>4, UnitsAssumption DEF TextInv
<1>2. DocumentInit => TextInv /\ PositionInv
  BY TextInit, PositionInit
<1>3. TextInv /\ PositionInv /\ [DocumentNext]_documentVars => TextInv' /\ PositionInv'
  BY TextNext, PositionNext
<1>. QED BY <1>1, <1>2, <1>3, PTL DEF DocumentSpec

=============================================================================
