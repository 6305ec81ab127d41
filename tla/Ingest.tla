------------------------------- MODULE Ingest -------------------------------
(***************************************************************************)
(* orchestrator.Ingest: a file is hashed, looked up by its hash, copied to *)
(* storage/raw under its hash and entered in raw_files, with no lock over  *)
(* the four.  Each caller is a `raglite ingest' of its own, which calls    *)
(* Ingest for one path after another under one context.                    *)
(*                                                                         *)
(* A content stands for its checksum, its id and the name of its copy.     *)
(***************************************************************************)
EXTENDS Naturals

CONSTANTS
  Callers,      \* processes that ingest
  Sources,      \* paths they ingest from
  Contents,
  InitContent,  \* InitContent[p]: what the file at p holds at first
  Args,         \* Args[a]: the paths a may be given
  MaxFaults,    \* how many faults of each kind may happen
  NoFile,       \* no copy
  Partial,      \* a copy that is truncated or not completely written
  None          \* no path, no content

FaultKinds == {"crash", "cancel", "modify", "query", "copy", "insert"}
Steps == {"off", "exists", "create", "copy", "insert", "remove"}

ASSUME SourcesAssumption ==
  /\ InitContent \in [Sources -> Contents]
  /\ Args \in [Callers -> SUBSET Sources]
ASSUME ContentsAssumption == NoFile \notin Contents /\ Partial \notin Contents /\ None \notin Contents
ASSUME MarkersAssumption == NoFile # Partial
ASSUME BudgetAssumption == MaxFaults \in [FaultKinds -> Nat]

VARIABLES
  source,     \* what the file at a path holds now
  stored,     \* stored[c]: the file storage/raw/c
  rows,       \* the ids of raw_files
  pc,         \* where each caller is
  path, id,   \* the arguments of its call: the path, and the hash computed from it
  linked,     \* whether the file it writes is still the one storage has under its id
  cancelled,  \* whether its context is done
  faults      \* faults left

call == <<pc, path, id, linked>>
vars == <<source, stored, rows, pc, path, id, linked, cancelled, faults>>

TypeOK ==
  /\ source \in [Sources -> Contents]
  /\ stored \in [Contents -> Contents \cup {NoFile, Partial}]
  /\ rows \subseteq Contents
  /\ pc \in [Callers -> Steps]
  /\ path \in [Callers -> Sources \cup {None}]
  /\ id \in [Callers -> Contents \cup {None}]
  /\ linked \in [Callers -> BOOLEAN]
  /\ cancelled \in [Callers -> BOOLEAN]
  /\ faults \in [FaultKinds -> Nat]

Init ==
  /\ source = InitContent
  /\ stored = [c \in Contents |-> NoFile]
  /\ rows = {}
  /\ pc = [a \in Callers |-> "off"]
  /\ path = [a \in Callers |-> None] /\ id = [a \in Callers |-> None]
  /\ linked = [a \in Callers |-> FALSE]
  /\ cancelled = [a \in Callers |-> FALSE]
  /\ faults = MaxFaults

-----------------------------------------------------------------------------
Suffer(kind) == faults[kind] > 0 /\ faults' = [faults EXCEPT ![kind] = @ - 1]

Goto(a, step) == pc' = [pc EXCEPT ![a] = step]

(* Ingest returns, with or without an error. *)
Return(a) ==
  /\ Goto(a, "off")
  /\ path' = [path EXCEPT ![a] = None]
  /\ id' = [id EXCEPT ![a] = None]
  /\ linked' = [linked EXCEPT ![a] = FALSE]

(* The file is opened and hashed; the id is the hash of what was read. *)
Hash(a, p) ==
  /\ pc[a] = "off" /\ p \in Args[a]
  /\ path' = [path EXCEPT ![a] = p]
  /\ id' = [id EXCEPT ![a] = source[p]]
  /\ Goto(a, "exists")
  /\ UNCHANGED <<source, stored, rows, linked, cancelled, faults>>

(* Mistake: no lookup. *)
NeverKnown(a) == FALSE

Known(a) == id[a] \in rows

(* Any error of the query reads as "not there". *)
Exists(a) ==
  /\ pc[a] = "exists"
  /\ \/ ~cancelled[a] /\ Known(a) /\ Return(a) /\ UNCHANGED faults
     \/ /\ cancelled[a] \/ ~Known(a)
        /\ Goto(a, "create") /\ UNCHANGED <<path, id, linked, faults>>
     \/ Suffer("query") /\ Goto(a, "create") /\ UNCHANGED <<path, id, linked>>
  /\ UNCHANGED <<source, stored, rows, cancelled>>

(* os.Create makes the file, or truncates the one that is there. *)
Create(a) ==
  /\ pc[a] = "create"
  /\ \/ /\ stored' = [stored EXCEPT ![id[a]] = Partial]
        /\ linked' = [linked EXCEPT ![a] = TRUE]
        /\ Goto(a, "copy")
        /\ UNCHANGED <<path, id, faults>>
     \/ Suffer("copy") /\ Return(a) /\ UNCHANGED stored
  /\ UNCHANGED <<source, rows, cancelled>>

(* Mistake: the error of copyFile is not looked at. *)
CopyUnchecked(a) ==
  /\ pc[a] = "copy"
  /\ \/ /\ stored' = [stored EXCEPT ![id[a]] = IF linked[a] THEN source[path[a]] ELSE @]
        /\ UNCHANGED faults
     \/ Suffer("copy") /\ UNCHANGED stored
  /\ Goto(a, "insert")
  /\ UNCHANGED <<source, rows, path, id, linked, cancelled>>

(* io.Copy and Sync: what is at the path now goes into the open file; an   *)
(* error leaves that file as it is.                                        *)
Copy(a) ==
  /\ pc[a] = "copy"
  /\ \/ /\ stored' = [stored EXCEPT ![id[a]] = IF linked[a] THEN source[path[a]] ELSE @]
        /\ Goto(a, "insert")
        /\ UNCHANGED <<path, id, linked, faults>>
     \/ Suffer("copy") /\ Return(a) /\ UNCHANGED stored
  /\ UNCHANGED <<source, rows, cancelled>>

Insert(a) ==
  /\ pc[a] = "insert"
  /\ \/ /\ ~cancelled[a] /\ id[a] \notin rows
        /\ rows' = rows \cup {id[a]}
        /\ Return(a)
        /\ UNCHANGED faults
     \/ /\ cancelled[a] \/ id[a] \in rows
        /\ Goto(a, "remove")
        /\ UNCHANGED <<rows, path, id, linked, faults>>
     \/ Suffer("insert") /\ Goto(a, "remove") /\ UNCHANGED <<rows, path, id, linked>>
  /\ UNCHANGED <<source, stored, cancelled>>

(* Mistake: a failed insert leaves the copy. *)
RemoveNothing(a) ==
  /\ pc[a] = "remove"
  /\ Return(a)
  /\ UNCHANGED <<source, stored, rows, cancelled, faults>>

(* The copy is removed; who has it open writes to a file without a name.   *)
Remove(a) ==
  /\ pc[a] = "remove"
  /\ stored' = [stored EXCEPT ![id[a]] = NoFile]
  /\ linked' = [b \in Callers |-> linked[b] /\ b # a /\ id[b] # id[a]]
  /\ Goto(a, "off")
  /\ path' = [path EXCEPT ![a] = None] /\ id' = [id EXCEPT ![a] = None]
  /\ UNCHANGED <<source, rows, cancelled, faults>>

-----------------------------------------------------------------------------
(* The process and its environment. *)

(* SIGINT: the context is done, for this path and those that follow it.    *)
Cancel(a) ==
  /\ ~cancelled[a]
  /\ Suffer("cancel")
  /\ cancelled' = [cancelled EXCEPT ![a] = TRUE]
  /\ UNCHANGED <<source, stored, rows, call>>

(* The command returns, and another one is started. *)
Exit(a) ==
  /\ pc[a] = "off" /\ cancelled[a]
  /\ cancelled' = [cancelled EXCEPT ![a] = FALSE]
  /\ UNCHANGED <<source, stored, rows, call, faults>>

Crash(a) ==
  /\ pc[a] # "off"
  /\ Suffer("crash")
  /\ Return(a)
  /\ cancelled' = [cancelled EXCEPT ![a] = FALSE]
  /\ UNCHANGED <<source, stored, rows>>

(* Somebody edits a source file. *)
Modify(p, c) ==
  /\ source[p] # c
  /\ Suffer("modify")
  /\ source' = [source EXCEPT ![p] = c]
  /\ UNCHANGED <<stored, rows, call, cancelled>>

-----------------------------------------------------------------------------
Next ==
  \/ \E a \in Callers, p \in Sources : Hash(a, p)
  \/ \E a \in Callers :
       \/ Exists(a) \/ Create(a) \/ Copy(a) \/ Insert(a) \/ Remove(a)
       \/ Cancel(a) \/ Exit(a) \/ Crash(a)
  \/ \E p \in Sources, c \in Contents : Modify(p, c)

Spec == Init /\ [][Next]_vars

-----------------------------------------------------------------------------
(* Properties. *)

Never(kind) == faults[kind] = MaxFaults[kind]

(* Only one caller is ever given a file with this content. *)
Alone(c) ==
  \A a, b \in Callers : \A p \in Args[a], q \in Args[b] :
    InitContent[p] = c /\ InitContent[q] = c => a = b

(* Every row of raw_files has its copy, whole and of the content the row   *)
(* names (corpus.sql:20-21, orchestrator.go:134-150).                      *)
AllStored == \A c \in rows : stored[c] = c

(* Whatever crashes and whichever copies and inserts fail, the same holds  *)
(* of a content only one caller ingests, until a context is cancelled, the *)
(* lookup fails or a source is edited (orchestrator.go:119-155).           *)
RowsStored ==
  Never("cancel") /\ Never("query") /\ Never("modify") =>
    \A c \in rows : Alone(c) => stored[c] = c

(* A copy without a row is one an ingest is at work on, unless a process   *)
(* crashed or a copy failed: the clean-up of line 153 misses nothing, and  *)
(* two ingests of one content leave nothing behind either.                 *)
CleanedUp ==
  Never("crash") /\ Never("copy") =>
    \A c \in Contents : stored[c] # NoFile => c \in rows \/ \E a \in Callers : id[a] = c

(* The inductive invariant behind RowsStored: an ingest past its lookup    *)
(* has a content that is not a row, unless another caller ingests it too,  *)
(* and its copy is what it wrote.                                          *)
CallInv == \A a \in Callers :
  /\ pc[a] = "off" <=> id[a] = None
  /\ pc[a] # "off" => path[a] \in Args[a]
  /\ pc[a] # "off" /\ Never("modify") => id[a] = InitContent[path[a]]
SourceInv == Never("modify") => source = InitContent
WriteInv ==
  Never("cancel") /\ Never("query") /\ Never("modify") =>
    /\ \A a \in Callers : ~cancelled[a]
    /\ \A a \in Callers : pc[a] \notin {"off", "exists"} /\ Alone(id[a]) =>
         /\ id[a] \notin rows
         /\ pc[a] = "copy" => linked[a]
         /\ pc[a] = "insert" => stored[id[a]] = id[a]
BudgetInv == \A k \in FaultKinds : faults[k] <= MaxFaults[k]

(* All parts together (orchestrator.go:97-164): inductive, and it implies  *)
(* RowsStored.                                                             *)
IngestInv == TypeOK /\ BudgetInv /\ SourceInv /\ CallInv /\ WriteInv /\ RowsStored

=============================================================================
