------------------------------ MODULE Egocheck ------------------------------
(***************************************************************************)
(* Self-introspection of a worker (pkg/egocheck): it hashes its source and *)
(* database files one after the other, stores the manifest in a database   *)
(* under its process_id, and verifies later that the files match it.       *)
(* Several callers, each a process of its own, do so for one process_id    *)
(* while files are written, removed and created.                           *)
(*                                                                         *)
(* A hash is the content it was computed from; the total hash, which is    *)
(* computed from the hashes one after the other, is their sequence.        *)
(***************************************************************************)
EXTENDS Naturals, Sequences

CONSTANTS
  Callers,
  Sources,    \* srcPaths, a sequence
  Databases,  \* dbPaths
  Contents,
  Missing,    \* what is read of a file that is not there
  MaxChanges  \* how often a file changes

PathsOf(list) == {list[i] : i \in DOMAIN list}
Paths == PathsOf(Sources) \cup PathsOf(Databases)

ASSUME PathsAssumption ==
  /\ Sources \in Seq(PathsOf(Sources)) /\ Databases \in Seq(PathsOf(Databases))
  /\ Missing \notin Contents /\ MaxChanges \in Nat /\ "db" \notin Callers

VARIABLES
  files,     \* the content of each path
  changes,
  manifest,  \* the rows of ego_manifests for the process_id, if there are any
  pc,        \* what each caller does
  pending,   \* the places in Listed that its Run has not come to
  taken,     \* the manifest that it makes
  stored,    \* the rows there were for its Verify to load
  unread,    \* the places of the sources that LoadFromDB did not come to, 0 for the total hash
  mismatch,  \* whether its Verify found one
  calm       \* no file has changed since the Run began that made (or makes) the manifest

egoVars == <<files, changes, manifest, pc, pending, taken, stored, unread, mismatch, calm>>

Keys(kind, list) == [i \in DOMAIN list |-> [kind |-> kind, path |-> list[i]]]
Listed == Keys("source", Sources) \o Keys("database", Databases)

Manifest(exists, rows) == [exists |-> exists, rows |-> rows]

EgoInit ==
  /\ files \in [Paths -> Contents \cup {Missing}] /\ changes = 0
  /\ manifest = Manifest(FALSE, <<>>)
  /\ pc = [c \in Callers |-> "idle"]
  /\ pending = [c \in Callers |-> {}] /\ taken = [c \in Callers |-> <<>>]
  /\ stored = taken /\ unread = pending /\ mismatch = [c \in Callers |-> FALSE]
  /\ calm = [x \in Callers \cup {"db"} |-> FALSE]

-----------------------------------------------------------------------------
Exists(key) == files[key.path] # Missing
Places == DOMAIN Listed
Walked == {i \in Places : Listed[i].kind = "database" \/ Exists(Listed[i])}

(* The loop of Run is about to begin; the paths were given (Run) or those  *)
(* of the sources found in a directory (RunDir).                           *)
Start(c, purpose) ==
  /\ pc[c] = "idle" /\ pc' = [pc EXCEPT ![c] = purpose]
  /\ \E places \in {Places, Walked} : pending' = [pending EXCEPT ![c] = places]
  /\ taken' = [taken EXCEPT ![c] = <<>>]

Run(c) ==
  /\ Start(c, "run") /\ calm' = [calm EXCEPT ![c] = TRUE]
  /\ UNCHANGED <<files, changes, manifest, stored, unread, mismatch>>

Info(key) == [kind |-> key.kind, path |-> key.path, hash |-> files[key.path]]

(* One file: what cannot be read is left out. *)
HashFile(c) ==
  /\ \E i \in pending[c] :
       /\ \A j \in pending[c] : i <= j
       /\ pending' = [pending EXCEPT ![c] = @ \ {i}]
       /\ taken' = [taken EXCEPT ![c] = IF Exists(Listed[i]) THEN Append(@, Info(Listed[i])) ELSE @]
  /\ UNCHANGED <<files, changes, manifest, pc, stored, unread, mismatch, calm>>

Unique(rows) == \A i, j \in DOMAIN rows : rows[i].path = rows[j].path => i = j

(* In a transaction: the rows of the process_id are deleted and those of   *)
(* the manifest inserted, or nothing is.  A path in both lists violates    *)
(* UNIQUE(process_id, file_path).                                          *)
StoreInDB(c) ==
  /\ pc[c] = "run" /\ pending[c] = {} /\ pc' = [pc EXCEPT ![c] = "idle"]
  /\ \/ /\ Unique(taken[c]) /\ manifest' = Manifest(TRUE, taken[c])
        /\ calm' = [calm EXCEPT !["db"] = calm[c]]
     \/ UNCHANGED <<manifest, calm>>
  /\ taken' = [taken EXCEPT ![c] = <<>>]
  /\ UNCHANGED <<files, changes, pending, stored, unread, mismatch>>

SourcesIn(rows) == {i \in DOMAIN rows : rows[i].kind = "source"}

(* Verify up to its own Run.  The rows have one timestamp, which is all    *)
(* that they are ordered by, and no error is asked for when they break     *)
(* off: what was read until then is taken for the manifest.  Verify makes  *)
(* nothing of the rows of the databases.                                   *)
LoadFromDB(c) ==
  /\ manifest.exists /\ Start(c, "verify")
  /\ stored' = [stored EXCEPT ![c] = manifest.rows]
  /\ \E missed \in SUBSET ({0} \cup SourcesIn(manifest.rows)) \ {{0} \cup DOMAIN manifest.rows} :
       unread' = [unread EXCEPT ![c] = missed]
  /\ calm' = [calm EXCEPT ![c] = calm["db"]]
  /\ UNCHANGED <<files, changes, manifest, mismatch>>

(* No row was read, because none is there or before the first one came:    *)
(* "no stored manifest found", and no error.                               *)
NoManifest(c) ==
  /\ pc[c] = "idle" /\ pc' = [pc EXCEPT ![c] = "told"]
  /\ mismatch' = [mismatch EXCEPT ![c] = TRUE] /\ calm' = [calm EXCEPT ![c] = FALSE]
  /\ UNCHANGED <<files, changes, manifest, pending, taken, stored, unread>>

Loaded(c) == {stored[c][i] : i \in SourcesIn(stored[c]) \ unread[c]}

(* Mistake: the hashes of the databases are not written. *)
HashOfSources(rows) == [i \in {k \in DOMAIN rows : rows[k].kind = "source"} |-> rows[i].hash]

TotalHash(rows) == [i \in DOMAIN rows |-> rows[i].hash]

(* Mistake: the database files are looked for among the sources. *)
AnyStrange(old, new) == \E i \in DOMAIN new : new[i] \notin old

(* A source that is new or has changed.  One that is gone is noticed by    *)
(* the total hash alone, as is any database.                               *)
Strange(old, new) == \E i \in SourcesIn(new) : new[i] \notin old

Verify(c) ==
  /\ pc[c] = "verify" /\ pending[c] = {} /\ pc' = [pc EXCEPT ![c] = "told"]
  /\ 0 \notin unread[c]
  /\ mismatch' = [mismatch EXCEPT ![c] =
       TotalHash(stored[c]) # TotalHash(taken[c]) \/ Strange(Loaded(c), taken[c])]
  /\ UNCHANGED <<files, changes, manifest, pending, taken, stored, unread, calm>>

Forget(c) ==
  /\ pc' = [pc EXCEPT ![c] = "idle"]
  /\ taken' = [taken EXCEPT ![c] = <<>>] /\ stored' = [stored EXCEPT ![c] = <<>>]
  /\ unread' = [unread EXCEPT ![c] = {}] /\ mismatch' = [mismatch EXCEPT ![c] = FALSE]
  /\ UNCHANGED <<files, changes, manifest, pending, calm>>

(* The first twelve characters of a total hash that was not read: the      *)
(* process of the caller ends.                                             *)
Panic(c) == pc[c] = "verify" /\ pending[c] = {} /\ 0 \in unread[c] /\ Forget(c)

Return(c) == pc[c] = "told" /\ Forget(c)

Change(path) ==
  /\ changes < MaxChanges /\ changes' = changes + 1
  /\ \E content \in (Contents \cup {Missing}) \ {files[path]} :
       files' = [files EXCEPT ![path] = content]
  /\ calm' = [x \in Callers \cup {"db"} |-> FALSE]
  /\ UNCHANGED <<manifest, pc, pending, taken, stored, unread, mismatch>>

EgoNext ==
  \/ \E c \in Callers : \/ Run(c) \/ HashFile(c) \/ StoreInDB(c)
                        \/ LoadFromDB(c) \/ NoManifest(c) \/ Verify(c) \/ Panic(c) \/ Return(c)
  \/ \E path \in Paths : Change(path)

EgoSpec == EgoInit /\ [][EgoNext]_egoVars
-----------------------------------------------------------------------------
(* Though others store and verify at the same time, though an earlier      *)
(* store failed, and whether the sources were listed or walked: when no    *)
(* file has changed since the Run of the manifest that Verify loaded       *)
(* began, it finds a mismatch only if the loading broke off and left out   *)
(* a source.  That alarm, and the one for want of any row (NoManifest),    *)
(* are false ones, and so is the panic for want of the total hash.         *)
NoFalseAlarm ==
  \A c \in Callers :
    pc[c] = "told" /\ calm[c] /\ mismatch[c] => unread[c] # {}

(* When Verify finds no mismatch and nothing that the stored manifest      *)
(* lists was missing, each file was read with its stored hash, the         *)
(* databases too, which are not compared by name, and none has been added: *)
(* also when the loading broke off, because the total hash is of all rows. *)
SameIsSame ==
  \A c \in Callers :
    /\ pc[c] = "told" /\ ~mismatch[c]
    /\ \A i \in DOMAIN stored[c] : \E j \in DOMAIN taken[c] : taken[c][j].path = stored[c][i].path
    => taken[c] = stored[c]
=============================================================================
