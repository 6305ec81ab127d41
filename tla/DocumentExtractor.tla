-------------------------- MODULE DocumentExtractor --------------------------
(***************************************************************************)
(* The extractors of PDF, DOCX and XLSX (internal/extract): what a         *)
(* document is made of is met unit by unit -- the lines of the text of a   *)
(* PDF, the elements of a DOCX body, the sheets of an XLSX and their rows  *)
(* -- and becomes segments, each with its place among them (Position).     *)
(***************************************************************************)
EXTENDS Naturals, Sequences, FiniteSets

CONSTANTS
  Formats,
  Units,     \* Units[f]: what a document of format f may be made of
  MaxUnits

(* Of the text of a PDF: a form feed alone, "Page n", a form feed and the  *)
(* text that follows on its line, no text, text.                           *)
PdfLines == {"feed", "page", "fed", "blank", "text"}
(* Of a body; those without text give no segment. *)
DocxElements == {"paragraph", "table", "empty"}
(* Of a document.xml that is not the XML that is expected: what stands     *)
(* between two double spaces of its text, nothing or something.            *)
FallbackParts == {"nothing", "words"}
(* A sheet whose rows follow, one that is not the XML that is expected,    *)
(* one that cannot be read; a row by its number, with a value in it or not. *)
XlsxSheets == {"sheet", "malformed", "unreadable"}
Rows == [number : Nat, empty : BOOLEAN]

ASSUME UnitsAssumption ==
  /\ MaxUnits \in Nat
  /\ Formats \subseteq {"pdf", "docx", "fallback", "xlsx"} /\ DOMAIN Units = Formats
  /\ "pdf" \in Formats => Units["pdf"] \subseteq PdfLines
  /\ "docx" \in Formats => Units["docx"] \subseteq DocxElements
  /\ "fallback" \in Formats => Units["fallback"] \subseteq FallbackParts
  /\ "xlsx" \in Formats => Units["xlsx"] \subseteq [sheet : XlsxSheets] \cup Rows

VARIABLES
  format,
  units,     \* what has been read
  segments,  \* from where to where in the document, and their Position
  start,     \* blockStart of parseText, startPos of extractSheet
  text,      \* currentBlock.Len() > 0
  page,      \* currentPage, which every segment of a PDF points to
  complete

documentVars == <<format, units, segments, start, text, page, complete>>

Segment(first, last, position) == [first |-> first, last |-> last, position |-> position]

Seen == Len(units)
Found == Cardinality(segments)

DocumentInit ==
  /\ format \in Formats
  /\ units = <<>> /\ segments = {} /\ start = 0 /\ text = FALSE /\ page = 1
  /\ complete = FALSE

-----------------------------------------------------------------------------
(* The block from the line of blockStart on, if there is any text. *)
Flushed ==
  segments \cup IF text THEN {Segment(start + 1, Seen, Found)} ELSE {}

(* Mistake: a new page does not end a paragraph. *)
TurnPage ==
  /\ page' = page + 1
  /\ UNCHANGED <<segments, start, text>>

NewPage ==
  /\ segments' = Flushed /\ text' = FALSE
  /\ page' = page + 1 /\ start' = Seen + 1

(* parseText: the trimmed line never begins with a form feed, so the first *)
(* text of a page is text like any other.                                  *)
ParseText(unit) ==
  \/ unit \in {"feed", "page"} /\ NewPage
  \/ unit = "blank" /\ text /\ segments' = Flushed /\ text' = FALSE /\ start' = Seen + 1
       /\ UNCHANGED page
  \/ unit = "blank" /\ ~text /\ UNCHANGED <<segments, start, text, page>>
  \/ unit \in {"fed", "text"} /\ text' = TRUE /\ UNCHANGED <<segments, start, page>>

(* Mistake: the rows of every sheet are counted from the same place. *)
FirstPosition == 0

StartPos == Found

(* extractSheet is given the number of segments there are; the row's own   *)
(* number is added to it.  Values without rows are one segment.            *)
ExtractSheet(unit) ==
  /\ UNCHANGED <<text, page>>
  /\ \/ /\ unit \in [sheet : XlsxSheets] /\ start' = StartPos
        /\ segments' = segments \cup
             IF unit.sheet = "malformed" THEN {Segment(Seen + 1, Seen + 1, StartPos)} ELSE {}
     \/ /\ unit \in Rows /\ ~unit.empty /\ UNCHANGED start
        /\ segments' = segments \cup {Segment(Seen + 1, Seen + 1, start + unit.number)}
     \/ unit \in Rows /\ unit.empty /\ UNCHANGED <<segments, start>>

(* The rows are those of a sheet that is the expected XML. *)
Follows(unit) ==
  unit \in Rows => /\ units # <<>>
                   /\ units[Seen] \in Rows \/ units[Seen] = [sheet |-> "sheet"]

Take(unit) ==
  /\ ~complete /\ Seen < MaxUnits /\ units' = Append(units, unit)
  /\ \/ format = "pdf" /\ ParseText(unit)
     \/ format \in {"docx", "fallback"} /\ UNCHANGED <<segments, start, text, page>>
     \/ format = "xlsx" /\ Follows(unit) /\ ExtractSheet(unit)
  /\ UNCHANGED <<format, complete>>

Before(i, kinds) == {j \in 1 .. i - 1 : units[j] \in kinds}

(* convertToSegments: every paragraph, and then every table. *)
Body ==
  {Segment(i, i, Cardinality(Before(i, {"paragraph"}))) : i \in Before(Seen + 1, {"paragraph"})}
    \cup {Segment(i, i, Cardinality(Before(Seen + 1, {"paragraph"}) \cup Before(i, {"table"}))) :
            i \in Before(Seen + 1, {"table"})}

(* fallbackExtract: each part has its place among all of them. *)
Fallback == {Segment(i, i, i - 1) : i \in Before(Seen + 1, {"words"})}

Complete ==
  /\ ~complete /\ complete' = TRUE
  /\ segments' = CASE format = "pdf" -> Flushed
                   [] format = "docx" -> Body
                   [] format = "fallback" -> Fallback
                   [] OTHER -> segments
  /\ UNCHANGED <<format, units, start, text, page>>

DocumentNext == Complete \/ \E unit \in Units[format] : Take(unit)

DocumentSpec == DocumentInit /\ [][DocumentNext]_documentVars
-----------------------------------------------------------------------------
(* The text of a PDF is cut at the lines that are a form feed alone, that  *)
(* begin with "Page n" or that are blank after text, and nowhere else: no  *)
(* segment goes on over one, and each ends at one or at the end of the     *)
(* text.  Every other line with text is in one segment, and they are       *)
(* numbered in its order.  A line that begins with "Page n" is in none,    *)
(* whatever it goes on with; and a form feed with text on its line, which  *)
(* is how pdftotext separates the pages, is no end of one to parseText: a  *)
(* segment goes on over it.                                                *)
TextCut ==
  complete /\ format = "pdf" =>
    /\ \A i \in DOMAIN units : units[i] \in {"text", "fed"} =>
         \E s \in segments : \A t \in segments : (t.first <= i /\ i <= t.last) <=> t = s
    /\ \A s \in segments :
         /\ s.last = Seen \/ units[s.last + 1] \in {"feed", "page", "blank"}
         /\ \A i \in s.first .. s.last :
              /\ units[i] \notin {"feed", "page"}
              /\ units[i] = "blank" => \A j \in s.first .. i : units[j] = "blank"
    /\ \A s, t \in segments : s.last < t.first <=> s.position < t.position

RowsOf(i) == {j \in i + 1 .. Seen : units[j] \in Rows /\ \A k \in i + 1 .. j : units[k] \in Rows}

Numbered(i) == \A j, k \in RowsOf(i) : j < k => units[j].number < units[k].number

(* The sheet of unit i has values in each row from the first to its last. *)
Dense(i) == \A j \in RowsOf(i) : units[j] = [number |-> j - i, empty |-> FALSE]

SheetsAt == {i \in DOMAIN units : units[i] \in [sheet : XlsxSheets]}

(* The sheets number their rows upwards from one, all of them but the last *)
(* have a value in every row, and none that follows another with rows is   *)
(* malformed.                                                              *)
SheetsSound ==
  \A i \in SheetsAt :
    /\ Numbered(i) /\ \A j \in RowsOf(i) : units[j].number > 0
    /\ (\E k \in SheetsAt : k > i) => Dense(i)
    /\ units[i].sheet = "malformed" => segments = {} \/ \A s \in segments : s.first >= i

(* No two segments have the same Position: never in a PDF or DOCX, and not *)
(* in an XLSX whose sheets are sound.                                      *)
PositionsDistinct ==
  format # "xlsx" \/ SheetsSound =>
    \A s, t \in segments : s.position = t.position => s = t
=============================================================================
