--------------------------- MODULE EgocheckProofs ---------------------------
(***************************************************************************)
(* What a Verify tells, for any number of callers, files and changes.      *)
(* Every manifest follows the list that Run goes through: it is a part of  *)
(* it, in its order.  Two that have the same files are therefore the same  *)
(* row by row, which is what makes it sound to compare databases by the    *)
(* total hash alone.                                                       *)
(***************************************************************************)
EXTENDS Egocheck, Induction

Key == [kind : {"source", "database"}, path : Paths]
Row == [kind : {"source", "database"}, path : Paths, hash : Contents]

(* The k-th row is of the e[k]-th file of the list. *)
Follows(rows, e) ==
  /\ e \in [DOMAIN rows -> Places]
  /\ \A k, l \in DOMAIN rows : k < l => e[k] < e[l]
  /\ \A k \in DOMAIN rows : rows[k].kind = Listed[e[k]].kind /\ rows[k].path = Listed[e[k]].path

Past(rows, e, rest) == \A k \in DOMAIN rows : \A i \in rest : e[k] < i

(* The hashes are those of the files fs, and none of them is left out. *)
Accurate(fs, rows, e, rest) ==
  /\ \A k \in DOMAIN rows : rows[k].hash = fs[rows[k].path]
  /\ \A i \in Places \ rest : fs[Listed[i].path] # Missing => \E k \in DOMAIN rows : e[k] = i

Made(fs, rows, rest, still) ==
  /\ rows \in Seq(Row) /\ rest \subseteq Places
  /\ \E e : Follows(rows, e) /\ Past(rows, e, rest) /\ (still => Accurate(fs, rows, e, rest))

TypeOK ==
  /\ files \in [Paths -> Contents \cup {Missing}]
  /\ manifest \in [exists : BOOLEAN, rows : Seq(Row)]
  /\ pc \in [Callers -> {"idle", "run", "verify", "told"}]
  /\ pending \in [Callers -> SUBSET Places]
  /\ taken \in [Callers -> Seq(Row)] /\ stored \in [Callers -> Seq(Row)]
  /\ unread \in [Callers -> SUBSET Nat] /\ mismatch \in [Callers -> BOOLEAN]
  /\ calm \in [Callers \cup {"db"} -> BOOLEAN]

TakenInv == \A c \in Callers : Made(files, taken[c], pending[c], pc[c] # "idle" /\ calm[c])
ManifestInv == Made(files, manifest.rows, {}, calm["db"])
StoredInv == \A c \in Callers : Made(files, stored[c], {}, pc[c] \in {"verify", "told"} /\ calm[c])
IdleInv == \A c \in Callers : pc[c] \in {"idle", "told"} => pending[c] = {}
ToldInv ==
  \A c \in Callers : pc[c] = "told" =>
    \/ mismatch[c] /\ ~ calm[c]
    \/ mismatch[c] = (TotalHash(stored[c]) # TotalHash(taken[c]) \/ Strange(Loaded(c), taken[c]))

EgoInv == TypeOK /\ TakenInv /\ ManifestInv /\ StoredInv /\ IdleInv /\ ToldInv

-----------------------------------------------------------------------------
(* Two orders of the same places.                                          *)

Increasing(e) == \A k, l \in DOMAIN e : k < l => e[k] < e[l]
Within(e, g) == \A k \in DOMAIN e : \E l \in DOMAIN g : g[l] = e[k]

(* An order with no more places than the other cannot run ahead of it. *)
LEMMA NotAhead ==
  ASSUME NEW m \in Nat, NEW n \in Nat, NEW e \in [1 .. m -> Nat], NEW g \in [1 .. n -> Nat],
         Increasing(e), Increasing(g), Within(e, g)
  PROVE  \A k \in 1 .. m : k <= n => g[k] <= e[k]
<1>. DEFINE T == {k \in 1 .. m : k <= n /\ e[k] < g[k]}
<1>. SUFFICES ASSUME NEW k0 \in 1 .. m, k0 <= n, ~ g[k0] <= e[k0] PROVE FALSE
  OBVIOUS
<1>1. PICK k \in T : \A l \in T : k <= l
  <2>1. T \subseteq Nat /\ k0 \in T
    <3>1. e[k0] \in Nat /\ g[k0] \in Nat
      OBVIOUS
    <3>. QED BY <3>1
  <2>. HIDE DEF T
  <2>. QED BY <2>1, LeastOf
<1>2. PICK l \in 1 .. n : g[l] = e[k]
  BY DEF Within
<1>3. l < k
  <2>1. CASE l > k
    BY <1>2, <2>1 DEF Increasing
  <2>2. CASE l = k
    BY <1>2, <2>2
  <2>. QED BY <2>1, <2>2
<1>4. e[l] < e[k]
  BY <1>3 DEF Increasing
<1>5. l \in T
  <2>1. e[l] \in Nat /\ e[k] \in Nat
    BY <1>3
  <2>. QED BY <1>2, <1>3, <1>4, <2>1
<1>. QED BY <1>1, <1>3, <1>5

(* With as many places it cannot fall behind either. *)
LEMMA NotBehind ==
  ASSUME NEW n \in Nat, NEW e \in [1 .. n -> Nat], NEW g \in [1 .. n -> Nat],
         Increasing(e), Increasing(g), Within(e, g)
  PROVE  \A k \in 1 .. n : e[k] <= g[k]
<1>. DEFINE T == {d \in 0 .. n : n - d \in 1 .. n /\ g[n - d] < e[n - d]}
<1>. SUFFICES ASSUME NEW k0 \in 1 .. n, ~ e[k0] <= g[k0] PROVE FALSE
  OBVIOUS
<1>0. e[k0] \in Nat /\ g[k0] \in Nat
  OBVIOUS
<1>1. n - k0 \in T
  <2>1. n - (n - k0) = k0 /\ n - k0 \in 0 .. n
    OBVIOUS
  <2>. QED BY <1>0, <2>1
<1>2. PICK d \in T : \A x \in T : d <= x
  <2>1. T \subseteq Nat
    OBVIOUS
  <2>2. T # {}
    BY <1>1
  <2>. HIDE DEF T
  <2>. QED BY <2>1, <2>2, LeastOf
<1>. DEFINE k == n - d
<1>3. k \in 1 .. n /\ g[k] < e[k]
  BY <1>2
<1>. HIDE DEF k
<1>4. PICK l \in 1 .. n : g[l] = e[k]
  BY <1>3 DEF Within
<1>5. k < l
  <2>1. CASE l < k
    BY <1>3, <1>4, <2>1 DEF Increasing
  <2>2. CASE l = k
    BY <1>3, <1>4, <2>2
  <2>. QED BY <1>3, <2>1, <2>2
<1>6. e[k] < e[l]
  BY <1>3, <1>5 DEF Increasing
<1>7. n - l \in T
  <2>1. n - (n - l) = l /\ n - l \in 0 .. n
    OBVIOUS
  <2>. QED BY <1>4, <1>6, <2>1
<1>8. n - l < d /\ n - l \in Int /\ d \in Int
  BY <1>3, <1>5, <1>2 DEF k
<1>9. d <= n - l
  BY <1>2, <1>7
<1>. QED BY <1>8, <1>9

(* An order within another of the same length is the other. *)
LEMMA SameOrder ==
  ASSUME NEW n \in Nat, NEW e \in [1 .. n -> Nat], NEW g \in [1 .. n -> Nat],
         Increasing(e), Increasing(g), Within(e, g)
  PROVE  e = g
<1>1. \A k \in 1 .. n : g[k] <= e[k] /\ e[k] <= g[k]
  <2>1. \A k \in 1 .. n : k <= n => g[k] <= e[k]
    BY NotAhead
  <2>2. \A k \in 1 .. n : e[k] <= g[k]
    BY NotBehind
  <2>. QED BY <2>1, <2>2
<1>2. \A k \in 1 .. n : e[k] = g[k]
  <2>1. \A k \in 1 .. n : e[k] \in Nat /\ g[k] \in Nat
    OBVIOUS
  <2>. QED BY <1>1, <2>1
<1>. QED BY <1>2

(* Two orders of the same places are the same. *)
LEMMA SamePlaces ==
  ASSUME NEW m \in Nat, NEW n \in Nat, NEW e \in [1 .. m -> Nat], NEW g \in [1 .. n -> Nat],
         Increasing(e), Increasing(g), Within(e, g), Within(g, e)
  PROVE  m = n /\ e = g
<1>0. (\A k \in 1 .. m : e[k] \in Nat) /\ (\A k \in 1 .. n : g[k] \in Nat)
  OBVIOUS
<1>1. \A k \in 1 .. m : k <= n => g[k] <= e[k]
  BY NotAhead
<1>2. \A k \in 1 .. n : k <= m => e[k] <= g[k]
  BY NotAhead
<1>3. ~ m < n
  <2>. SUFFICES ASSUME m < n PROVE FALSE
    OBVIOUS
  <2>1. PICK k \in 1 .. m : e[k] = g[m + 1]
    BY DEF Within
  <2>2. e[k] <= g[k] /\ k < m + 1 /\ k \in 1 .. n
    BY <1>2
  <2>3. g[k] < g[m + 1]
    BY <2>2 DEF Increasing
  <2>. QED BY <2>1, <2>2, <2>3
<1>4. ~ n < m
  <2>. SUFFICES ASSUME n < m PROVE FALSE
    OBVIOUS
  <2>1. PICK k \in 1 .. n : g[k] = e[n + 1]
    BY DEF Within
  <2>2. g[k] <= e[k] /\ k < n + 1 /\ k \in 1 .. m
    BY <1>1
  <2>3. e[k] < e[n + 1]
    BY <2>2 DEF Increasing
  <2>. QED BY <2>1, <2>2, <2>3
<1>5. m = n
  BY <1>3, <1>4
<1>. QED BY <1>5, SameOrder

-----------------------------------------------------------------------------
(* The list and the manifests made along it.                               *)

LEMMA ListedType ==
  /\ Listed \in Seq(Key) /\ Places = 1 .. Len(Listed) /\ Places \subseteq Nat
  /\ \A i \in Places : Listed[i] \in Key
<1>1. Keys("source", Sources) \in Seq(Key) /\ Keys("database", Databases) \in Seq(Key)
  <2>1. ASSUME NEW list, list \in Seq(PathsOf(list)), PathsOf(list) \subseteq Paths,
               NEW kind \in {"source", "database"}
        PROVE  Keys(kind, list) \in Seq(Key)
    <3>1. Len(list) \in Nat /\ DOMAIN list = 1 .. Len(list)
      BY <2>1
    <3>2. \A i \in DOMAIN list : [kind |-> kind, path |-> list[i]] \in Key
      BY <2>1 DEF Key, PathsOf
    <3>3. Keys(kind, list) \in [1 .. Len(list) -> Key]
      BY <3>1, <3>2 DEF Keys
    <3>. QED BY <3>1, <3>3
  <2>. QED BY <2>1, PathsAssumption DEF Paths
<1>2. Listed \in Seq(Key)
  BY <1>1 DEF Listed
<1>. QED BY <1>2 DEF Places

(* A Run that has hashed nothing has left nothing out. *)
LEMMA NothingMade ==
  ASSUME NEW rest, rest \in {Places, Walked}
  PROVE  Made(files, <<>>, rest, TRUE)
<1>1. <<>> \in Seq(Row) /\ rest \subseteq Places
  BY DEF Walked
<1>2. Follows(<<>>, <<>>) /\ Past(<<>>, <<>>, rest)
  <2>1. <<>> \in [DOMAIN <<>> -> Places]
    OBVIOUS
  <2>. QED BY <2>1 DEF Follows, Past
<1>3. Accurate(files, <<>>, <<>>, rest)
  <2>1. \A i \in Places \ rest : ~ Exists(Listed[i])
    BY DEF Walked
  <2>. QED BY <2>1 DEF Accurate, Exists
<1>. QED BY <1>1, <1>2, <1>3 DEF Made

LEMMA MadeOfNone ==
  ASSUME NEW fs, NEW rest \in SUBSET Places
  PROVE  Made(fs, <<>>, rest, FALSE)
<1>1. <<>> \in Seq(Row)
  OBVIOUS
<1>2. Follows(<<>>, <<>>) /\ Past(<<>>, <<>>, rest)
  <2>1. <<>> \in [DOMAIN <<>> -> Places]
    OBVIOUS
  <2>. QED BY <2>1 DEF Follows, Past
<1>. QED BY <1>1, <1>2 DEF Made

(* The next file in the list: its row, if it can be read, keeps the order  *)
(* and the accuracy.                                                       *)
LEMMA MadeFurther ==
  ASSUME NEW rows, NEW rest, NEW i \in rest, \A j \in rest : i <= j, NEW still \in BOOLEAN,
         files \in [Paths -> Contents \cup {Missing}], Made(files, rows, rest, still)
  PROVE  Made(files, IF Exists(Listed[i]) THEN Append(rows, Info(Listed[i])) ELSE rows, rest \ {i}, still)
<1>1. PICK e : Follows(rows, e) /\ Past(rows, e, rest) /\ (still => Accurate(files, rows, e, rest))
  BY DEF Made
<1>2. rows \in Seq(Row) /\ rest \subseteq Places /\ i \in Places /\ Listed[i] \in Key
  BY ListedType DEF Made
<1>3. \A j \in rest \ {i} : i < j
  BY <1>2, ListedType
<1>4. CASE ~ Exists(Listed[i])
  <2>1. Past(rows, e, rest \ {i})
    BY <1>1 DEF Past
  <2>2. ASSUME still PROVE Accurate(files, rows, e, rest \ {i})
    <3>1. Accurate(files, rows, e, rest)
      BY <1>1, <2>2
    <3>. QED BY <1>4, <3>1 DEF Accurate, Exists
  <2>. QED BY <1>1, <1>2, <1>4, <2>1, <2>2 DEF Made
<1>5. CASE Exists(Listed[i])
  <2>. DEFINE n == Len(rows)
              new == Append(rows, Info(Listed[i]))
              f == [k \in 1 .. n + 1 |-> IF k = n + 1 THEN i ELSE e[k]]
  <2>1. Info(Listed[i]) \in Row /\ n \in Nat /\ DOMAIN rows = 1 .. n
    <3>1. files[Listed[i].path] \in Contents
      BY <1>2, <1>5 DEF Key, Exists
    <3>. QED BY <1>2, <3>1 DEF Info, Key, Row
  <2>2. new \in Seq(Row) /\ DOMAIN new = 1 .. n + 1 /\ new[n + 1] = Info(Listed[i])
        /\ \A k \in 1 .. n : new[k] = rows[k]
    BY <1>2, <2>1
  <2>3. f[n + 1] = i /\ \A k \in 1 .. n : f[k] = e[k]
    BY <2>1
  <2>. HIDE DEF new
  <2>4. \A k \in 1 .. n : e[k] < i
    BY <1>1, <2>1 DEF Past
  <2>5. e \in [1 .. n -> Places] /\ \A k \in 1 .. n : e[k] \in Places
    BY <1>1, <2>1 DEF Follows
  <2>6. f \in [1 .. n + 1 -> Places]
    BY <1>2, <2>1, <2>5
  <2>. HIDE DEF f
  <2>7. Follows(new, f)
    <3>1. \A k, l \in 1 .. n + 1 : k < l => f[k] < f[l]
      <4>. SUFFICES ASSUME NEW k \in 1 .. n + 1, NEW l \in 1 .. n + 1, k < l PROVE f[k] < f[l]
        OBVIOUS
      <4>1. k \in 1 .. n
        BY <2>1
      <4>2. CASE l = n + 1
        BY <2>3, <2>4, <4>1, <4>2
      <4>3. CASE l # n + 1
        <5>1. l \in 1 .. n
          BY <2>1, <4>3
        <5>. QED BY <1>1, <2>1, <2>3, <4>1, <5>1 DEF Follows
      <4>. QED BY <4>2, <4>3
    <3>2. \A k \in 1 .. n + 1 : new[k].kind = Listed[f[k]].kind /\ new[k].path = Listed[f[k]].path
      <4>. SUFFICES ASSUME NEW k \in 1 .. n + 1
                    PROVE  new[k].kind = Listed[f[k]].kind /\ new[k].path = Listed[f[k]].path
        OBVIOUS
      <4>1. CASE k = n + 1
        BY <2>2, <2>3, <4>1 DEF Info
      <4>2. CASE k # n + 1
        <5>1. k \in 1 .. n
          BY <2>1, <4>2
        <5>. QED BY <1>1, <2>1, <2>2, <2>3, <5>1 DEF Follows
      <4>. QED BY <4>1, <4>2
    <3>. QED BY <2>2, <2>6, <3>1, <3>2 DEF Follows
  <2>8. Past(new, f, rest \ {i})
    <3>. SUFFICES ASSUME NEW k \in 1 .. n + 1, NEW j \in rest \ {i} PROVE f[k] < j
      BY <2>2 DEF Past
    <3>1. CASE k = n + 1
      BY <1>3, <2>3, <3>1
    <3>2. CASE k # n + 1
      <4>1. k \in 1 .. n
        BY <2>1, <3>2
      <4>. QED BY <1>1, <2>1, <2>3, <4>1 DEF Past
    <3>. QED BY <3>1, <3>2
  <2>9. ASSUME still PROVE Accurate(files, new, f, rest \ {i})
    <3>1. Accurate(files, rows, e, rest)
      BY <1>1, <2>9
    <3>2. ASSUME NEW k \in 1 .. n + 1 PROVE new[k].hash = files[new[k].path]
      <4>1. CASE k = n + 1
        BY <2>2, <4>1 DEF Info
      <4>2. CASE k # n + 1
        <5>1. k \in 1 .. n
          BY <2>1, <4>2
        <5>. QED BY <2>1, <2>2, <3>1, <5>1 DEF Accurate, Exists
      <4>. QED BY <4>1, <4>2
    <3>3. ASSUME NEW j \in Places \ (rest \ {i}), Exists(Listed[j])
          PROVE  \E k \in 1 .. n + 1 : f[k] = j
      <4>1. CASE j = i
        <5>1. n + 1 \in 1 .. n + 1
          BY <2>1
        <5>. QED BY <2>3, <4>1, <5>1
      <4>2. CASE j # i
        <5>1. PICK k \in 1 .. n : e[k] = j
          BY <2>1, <3>1, <3>3, <4>2 DEF Accurate, Exists
        <5>2. k \in 1 .. n + 1
          BY <2>1
        <5>. QED BY <2>3, <5>1, <5>2
      <4>. QED BY <4>1, <4>2
    <3>. QED BY <2>2, <3>2, <3>3 DEF Accurate, Exists
  <2>10. Made(files, new, rest \ {i}, still)
    <3>1. rest \ {i} \subseteq Places
      BY <1>2
    <3>2. Follows(new, f) /\ Past(new, f, rest \ {i}) /\ (still => Accurate(files, new, f, rest \ {i}))
      BY <2>7, <2>8, <2>9
    <3>. QED BY <2>2, <3>1, <3>2 DEF Made
  <2>. QED BY <1>5, <2>10 DEF new
<1>. QED BY <1>4, <1>5

(* What is known of a manifest when nothing is known to be calm. *)
LEMMA MadeAnyway ==
  ASSUME NEW fs, NEW now, NEW rows, NEW rest, NEW still, Made(fs, rows, rest, still)
  PROVE  Made(now, rows, rest, FALSE)
BY DEF Made

-----------------------------------------------------------------------------
(* The invariant, action by action.                                        *)

LEMMA EgoInvHolds == EgoInit => EgoInv
<1>. SUFFICES ASSUME EgoInit PROVE EgoInv
  OBVIOUS
<1>. USE DEF EgoInit
<1>1. TypeOK
  BY DEF TypeOK, Manifest
<1>2. Made(files, <<>>, {}, FALSE)
  BY MadeOfNone
<1>3. TakenInv /\ ManifestInv /\ StoredInv
  BY <1>2 DEF TakenInv, ManifestInv, StoredInv, Manifest
<1>4. IdleInv /\ ToldInv
  BY DEF IdleInv, ToldInv
<1>. QED BY <1>1, <1>3, <1>4 DEF EgoInv

LEMMA TypeStep ==
  ASSUME EgoInv, EgoNext
  PROVE  TypeOK'
<1>. USE DEF EgoInv, TypeOK
<1>1. ASSUME NEW c \in Callers, Run(c) PROVE TypeOK'
  BY <1>1 DEF Run, Start, Walked
<1>2. ASSUME NEW c \in Callers, HashFile(c) PROVE TypeOK'
  <2>1. PICK i \in pending[c] :
          /\ \A j \in pending[c] : i <= j
          /\ pending' = [pending EXCEPT ![c] = @ \ {i}]
          /\ taken' = [taken EXCEPT ![c] = IF Exists(Listed[i]) THEN Append(@, Info(Listed[i])) ELSE @]
    BY <1>2 DEF HashFile
  <2>2. Made(files, IF Exists(Listed[i]) THEN Append(taken[c], Info(Listed[i])) ELSE taken[c], pending[c] \ {i},
             pc[c] # "idle" /\ calm[c])
    BY <2>1, MadeFurther DEF TakenInv
  <2>3. taken'[c] \in Seq(Row)
    BY <2>1, <2>2 DEF Made
  <2>4. taken' \in [Callers -> Seq(Row)]
    BY <2>1, <2>3
  <2>. QED BY <1>2, <2>1, <2>4 DEF HashFile
<1>3. ASSUME NEW c \in Callers, StoreInDB(c) PROVE TypeOK'
  <2>1. <<>> \in Seq(Row)
    OBVIOUS
  <2>2. taken' \in [Callers -> Seq(Row)]
    BY <1>3, <2>1 DEF StoreInDB
  <2>3. manifest' \in [exists : BOOLEAN, rows : Seq(Row)]
    <3>1. [exists |-> TRUE, rows |-> taken[c]] \in [exists : BOOLEAN, rows : Seq(Row)]
      <4>1. taken[c] \in Seq(Row)
        OBVIOUS
      <4>. HIDE DEF EgoInv, TypeOK
      <4>. QED BY <4>1
    <3>2. manifest' = manifest \/ manifest' = [exists |-> TRUE, rows |-> taken[c]]
      BY <1>3 DEF StoreInDB, Manifest
    <3>. QED BY <3>1, <3>2
  <2>4. calm' \in [Callers \cup {"db"} -> BOOLEAN]
    <3>1. calm[c] \in BOOLEAN
      OBVIOUS
    <3>. QED BY <1>3, <3>1 DEF StoreInDB
  <2>. QED BY <1>3, <2>2, <2>3, <2>4 DEF StoreInDB
<1>4. ASSUME NEW c \in Callers, LoadFromDB(c) PROVE TypeOK'
  <2>1. <<>> \in Seq(Row) /\ manifest.rows \in Seq(Row)
    OBVIOUS
  <2>2. taken' \in [Callers -> Seq(Row)] /\ stored' \in [Callers -> Seq(Row)]
    BY <1>4, <2>1 DEF LoadFromDB, Start
  <2>3. SUBSET ({0} \cup SourcesIn(manifest.rows)) \subseteq SUBSET Nat
    <3>1. DOMAIN manifest.rows \subseteq Nat
      BY <2>1
    <3>. QED BY <3>1 DEF SourcesIn
  <2>4. unread' \in [Callers -> SUBSET Nat]
    BY <1>4, <2>3 DEF LoadFromDB
  <2>. QED BY <1>4, <2>2, <2>4 DEF LoadFromDB, Start, Walked
<1>8. ASSUME NEW c \in Callers, NoManifest(c) PROVE TypeOK'
  BY <1>8 DEF NoManifest
<1>5. ASSUME NEW c \in Callers, Verify(c) PROVE TypeOK'
  BY <1>5 DEF Verify, Strange
<1>6. ASSUME NEW c \in Callers, Forget(c) PROVE TypeOK'
  <2>1. <<>> \in Seq(Row)
    OBVIOUS
  <2>2. taken' \in [Callers -> Seq(Row)] /\ stored' \in [Callers -> Seq(Row)]
    BY <1>6, <2>1 DEF Forget
  <2>. QED BY <1>6, <2>2 DEF Forget
<1>7. ASSUME NEW path \in Paths, Change(path) PROVE TypeOK'
  BY <1>7 DEF Change
<1>. QED BY <1>1, <1>2, <1>3, <1>4, <1>5, <1>6, <1>7, <1>8 DEF EgoNext, Panic, Return

LEMMA TakenStep ==
  ASSUME EgoInv, EgoNext
  PROVE  TakenInv'
<1>. USE DEF EgoInv
<1>. SUFFICES ASSUME NEW d \in Callers
              PROVE  Made(files', taken'[d], pending'[d], pc'[d] # "idle" /\ calm'[d])
  BY DEF TakenInv
<1>0. Made(files, taken[d], pending[d], pc[d] # "idle" /\ calm[d])
  BY DEF TakenInv
<1>1. ASSUME NEW c \in Callers, NEW purpose, Start(c, purpose), UNCHANGED files,
             calm' \in [Callers \cup {"db"} -> BOOLEAN], \A x \in Callers \ {c} : calm'[x] = calm[x]
      PROVE  Made(files', taken'[d], pending'[d], pc'[d] # "idle" /\ calm'[d])
  <2>1. CASE d = c
    <3>1. taken'[d] = <<>> /\ pending'[d] \in {Places, Walked}
      BY <1>1, <2>1 DEF Start, TypeOK
    <3>2. Made(files, taken'[d], pending'[d], TRUE)
      BY <3>1, NothingMade
    <3>. QED BY <1>1, <3>2 DEF Made
  <2>2. CASE d # c
    <3>1. taken'[d] = taken[d] /\ pending'[d] = pending[d] /\ pc'[d] = pc[d] /\ calm'[d] = calm[d]
      BY <1>1, <2>2 DEF Start, TypeOK
    <3>. QED BY <1>0, <1>1, <3>1
  <2>. QED BY <2>1, <2>2
<1>2. ASSUME NEW c \in Callers, Run(c)
      PROVE  Made(files', taken'[d], pending'[d], pc'[d] # "idle" /\ calm'[d])
  <2>1. calm' \in [Callers \cup {"db"} -> BOOLEAN] /\ \A x \in Callers \ {c} : calm'[x] = calm[x]
    BY <1>2 DEF Run, TypeOK
  <2>. QED BY <1>1, <1>2, <2>1 DEF Run
<1>3. ASSUME NEW c \in Callers, HashFile(c)
      PROVE  Made(files', taken'[d], pending'[d], pc'[d] # "idle" /\ calm'[d])
  <2>1. PICK i \in pending[c] :
          /\ \A j \in pending[c] : i <= j
          /\ pending' = [pending EXCEPT ![c] = @ \ {i}]
          /\ taken' = [taken EXCEPT ![c] = IF Exists(Listed[i]) THEN Append(@, Info(Listed[i])) ELSE @]
    BY <1>3 DEF HashFile
  <2>2. files' = files /\ pc' = pc /\ calm' = calm
    BY <1>3 DEF HashFile
  <2>3. CASE d = c
    <3>1. Made(files, IF Exists(Listed[i]) THEN Append(taken[d], Info(Listed[i])) ELSE taken[d],
               pending[d] \ {i}, pc[d] # "idle" /\ calm[d])
      BY <1>0, <2>1, <2>3, MadeFurther DEF TypeOK
    <3>2. /\ taken'[d] = IF Exists(Listed[i]) THEN Append(taken[d], Info(Listed[i])) ELSE taken[d]
          /\ pending'[d] = pending[d] \ {i}
      BY <2>1, <2>3 DEF TypeOK
    <3>. QED BY <2>2, <3>1, <3>2
  <2>4. CASE d # c
    <3>1. taken'[d] = taken[d] /\ pending'[d] = pending[d]
      BY <2>1, <2>4 DEF TypeOK
    <3>. QED BY <1>0, <2>2, <3>1
  <2>. QED BY <2>3, <2>4
<1>4. ASSUME NEW c \in Callers, StoreInDB(c)
      PROVE  Made(files', taken'[d], pending'[d], pc'[d] # "idle" /\ calm'[d])
  <2>1. CASE d = c
    <3>1. taken'[d] = <<>> /\ pending'[d] \in SUBSET Places /\ pc'[d] = "idle"
      BY <1>4, <2>1 DEF StoreInDB, TypeOK
    <3>2. Made(files', taken'[d], pending'[d], FALSE)
      BY <3>1, MadeOfNone
    <3>. QED BY <3>1, <3>2
  <2>2. CASE d # c
    <3>1. taken'[d] = taken[d] /\ pending'[d] = pending[d] /\ pc'[d] = pc[d] /\ files' = files
      BY <1>4, <2>2 DEF StoreInDB, TypeOK
    <3>2. calm'[d] = calm[d]
      BY <1>4, PathsAssumption DEF StoreInDB, TypeOK
    <3>. QED BY <1>0, <3>1, <3>2
  <2>. QED BY <2>1, <2>2
<1>5. ASSUME NEW c \in Callers, LoadFromDB(c)
      PROVE  Made(files', taken'[d], pending'[d], pc'[d] # "idle" /\ calm'[d])
  <2>1. calm' \in [Callers \cup {"db"} -> BOOLEAN] /\ \A x \in Callers \ {c} : calm'[x] = calm[x]
    <3>1. calm["db"] \in BOOLEAN
      BY DEF TypeOK
    <3>. QED BY <1>5, <3>1 DEF LoadFromDB, TypeOK
  <2>. QED BY <1>1, <1>5, <2>1 DEF LoadFromDB
<1>6. ASSUME NEW c \in Callers, Verify(c)
      PROVE  Made(files', taken'[d], pending'[d], pc'[d] # "idle" /\ calm'[d])
  <2>1. files' = files /\ taken' = taken /\ pending' = pending /\ calm' = calm
    BY <1>6 DEF Verify
  <2>2. (pc'[d] # "idle") = (pc[d] # "idle")
    BY <1>6 DEF Verify, TypeOK
  <2>. QED BY <1>0, <2>1, <2>2
<1>9. ASSUME NEW c \in Callers, NoManifest(c)
      PROVE  Made(files', taken'[d], pending'[d], pc'[d] # "idle" /\ calm'[d])
  <2>1. files' = files /\ taken' = taken /\ pending' = pending
    BY <1>9 DEF NoManifest
  <2>2. CASE d = c
    <3>1. calm'[d] = FALSE
      BY <1>9, <2>2 DEF NoManifest, TypeOK
    <3>2. Made(files', taken[d], pending[d], FALSE)
      BY <1>0, MadeAnyway
    <3>. QED BY <2>1, <3>1, <3>2
  <2>3. CASE d # c
    <3>1. pc'[d] = pc[d] /\ calm'[d] = calm[d]
      BY <1>9, <2>3 DEF NoManifest, TypeOK
    <3>. QED BY <1>0, <2>1, <3>1
  <2>. QED BY <2>2, <2>3
<1>7. ASSUME NEW c \in Callers, Forget(c)
      PROVE  Made(files', taken'[d], pending'[d], pc'[d] # "idle" /\ calm'[d])
  <2>1. CASE d = c
    <3>1. taken'[d] = <<>> /\ pending'[d] \in SUBSET Places /\ pc'[d] = "idle"
      BY <1>7, <2>1 DEF Forget, TypeOK
    <3>2. Made(files', taken'[d], pending'[d], FALSE)
      BY <3>1, MadeOfNone
    <3>. QED BY <3>1, <3>2
  <2>2. CASE d # c
    <3>1. taken'[d] = taken[d] /\ pending' = pending /\ pc'[d] = pc[d] /\ files' = files /\ calm' = calm
      BY <1>7, <2>2 DEF Forget, TypeOK
    <3>. QED BY <1>0, <3>1
  <2>. QED BY <2>1, <2>2
<1>8. ASSUME NEW path \in Paths, Change(path)
      PROVE  Made(files', taken'[d], pending'[d], pc'[d] # "idle" /\ calm'[d])
  <2>1. taken' = taken /\ pending' = pending /\ calm'[d] = FALSE
    BY <1>8 DEF Change
  <2>2. Made(files', taken[d], pending[d], FALSE)
    BY <1>0, MadeAnyway
  <2>. QED BY <2>1, <2>2
<1>. QED BY <1>2, <1>3, <1>4, <1>5, <1>6, <1>7, <1>8, <1>9 DEF EgoNext, Panic, Return

LEMMA ManifestStep ==
  ASSUME EgoInv, EgoNext
  PROVE  ManifestInv'
<1>. USE DEF EgoInv
<1>0. Made(files, manifest.rows, {}, calm["db"])
  BY DEF ManifestInv
<1>. SUFFICES Made(files', manifest'.rows, {}, calm'["db"])
  BY DEF ManifestInv
<1>1. ASSUME files' = files, manifest' = manifest, calm'["db"] = calm["db"]
      PROVE  Made(files', manifest'.rows, {}, calm'["db"])
  BY <1>0, <1>1
<1>2. ASSUME NEW c \in Callers, Run(c) \/ LoadFromDB(c) \/ NoManifest(c)
      PROVE  Made(files', manifest'.rows, {}, calm'["db"])
  <2>1. calm'["db"] = calm["db"]
    BY <1>2, PathsAssumption DEF Run, LoadFromDB, NoManifest, TypeOK
  <2>. QED BY <1>1, <1>2, <2>1 DEF Run, LoadFromDB, NoManifest
<1>3. ASSUME NEW c \in Callers, StoreInDB(c)
      PROVE  Made(files', manifest'.rows, {}, calm'["db"])
  <2>1. CASE UNCHANGED <<manifest, calm>>
    BY <1>1, <1>3, <2>1 DEF StoreInDB
  <2>2. CASE manifest' = Manifest(TRUE, taken[c]) /\ calm' = [calm EXCEPT !["db"] = calm[c]]
    <3>1. manifest'.rows = taken[c] /\ calm'["db"] = calm[c] /\ files' = files
      BY <1>3, <2>2 DEF Manifest, StoreInDB, TypeOK
    <3>2. Made(files, taken[c], {}, pc[c] # "idle" /\ calm[c])
      BY <1>3 DEF TakenInv, StoreInDB
    <3>3. calm[c] => pc[c] # "idle" /\ calm[c]
      BY <1>3 DEF StoreInDB
    <3>. QED BY <3>1, <3>2, <3>3 DEF Made
  <2>. QED BY <1>3, <2>1, <2>2 DEF StoreInDB
<1>4. ASSUME NEW c \in Callers, HashFile(c) \/ Verify(c) \/ Forget(c)
      PROVE  Made(files', manifest'.rows, {}, calm'["db"])
  BY <1>1, <1>4 DEF HashFile, Verify, Forget
<1>5. ASSUME NEW path \in Paths, Change(path)
      PROVE  Made(files', manifest'.rows, {}, calm'["db"])
  <2>1. manifest' = manifest /\ calm'["db"] = FALSE
    BY <1>5 DEF Change
  <2>2. Made(files', manifest.rows, {}, FALSE)
    BY <1>0, MadeAnyway
  <2>. QED BY <2>1, <2>2
<1>. QED BY <1>2, <1>3, <1>4, <1>5 DEF EgoNext, Panic, Return

LEMMA StoredStep ==
  ASSUME EgoInv, EgoNext
  PROVE  StoredInv'
<1>. USE DEF EgoInv
<1>. DEFINE Goal(d) == Made(files', stored'[d], {}, pc'[d] \in {"verify", "told"} /\ calm'[d])
<1>. SUFFICES ASSUME NEW d \in Callers PROVE Goal(d)
  BY DEF StoredInv
<1>0. Made(files, stored[d], {}, pc[d] \in {"verify", "told"} /\ calm[d])
  BY DEF StoredInv
<1>1. ASSUME files' = files, stored'[d] = stored[d],
             pc'[d] \in {"verify", "told"} /\ calm'[d] => pc[d] \in {"verify", "told"} /\ calm[d]
      PROVE  Goal(d)
  BY <1>0, <1>1 DEF Made
<1>2. ASSUME NEW c \in Callers, Run(c) PROVE Goal(d)
  <2>1. files' = files /\ stored' = stored
    BY <1>2 DEF Run
  <2>2. pc'[d] \in {"verify", "told"} /\ calm'[d] => pc[d] \in {"verify", "told"} /\ calm[d]
    BY <1>2 DEF Run, Start, TypeOK
  <2>. QED BY <1>1, <2>1, <2>2
<1>3. ASSUME NEW c \in Callers, HashFile(c) PROVE Goal(d)
  BY <1>1, <1>3 DEF HashFile
<1>4. ASSUME NEW c \in Callers, StoreInDB(c) PROVE Goal(d)
  <2>1. files' = files /\ stored' = stored
    BY <1>4 DEF StoreInDB
  <2>2. pc'[d] \in {"verify", "told"} /\ calm'[d] => pc[d] \in {"verify", "told"} /\ calm[d]
    <3>1. calm'[d] = calm[d]
      BY <1>4, PathsAssumption DEF StoreInDB, TypeOK
    <3>2. pc'[d] \in {"verify", "told"} => pc[d] \in {"verify", "told"}
      BY <1>4 DEF StoreInDB, TypeOK
    <3>. QED BY <3>1, <3>2
  <2>. QED BY <1>1, <2>1, <2>2
<1>5. ASSUME NEW c \in Callers, LoadFromDB(c) PROVE Goal(d)
  <2>1. CASE d = c
    <3>1. stored'[d] = manifest.rows /\ calm'[d] = calm["db"] /\ files' = files
      BY <1>5, <2>1 DEF LoadFromDB, TypeOK
    <3>2. Made(files, manifest.rows, {}, calm["db"])
      BY DEF ManifestInv
    <3>. QED BY <3>1, <3>2 DEF Made
  <2>2. CASE d # c
    <3>1. files' = files /\ stored'[d] = stored[d] /\ pc'[d] = pc[d] /\ calm'[d] = calm[d]
      BY <1>5, <2>2 DEF LoadFromDB, Start, TypeOK
    <3>. QED BY <1>0, <3>1
  <2>. QED BY <2>1, <2>2
<1>6. ASSUME NEW c \in Callers, Verify(c) PROVE Goal(d)
  <2>1. files' = files /\ stored' = stored /\ calm' = calm
    BY <1>6 DEF Verify
  <2>2. pc'[d] \in {"verify", "told"} => pc[d] \in {"verify", "told"}
    BY <1>6 DEF Verify, TypeOK
  <2>. QED BY <1>1, <2>1, <2>2
<1>9. ASSUME NEW c \in Callers, NoManifest(c) PROVE Goal(d)
  <2>1. files' = files /\ stored' = stored
    BY <1>9 DEF NoManifest
  <2>2. pc'[d] \in {"verify", "told"} /\ calm'[d] => pc[d] \in {"verify", "told"} /\ calm[d]
    BY <1>9 DEF NoManifest, TypeOK
  <2>. QED BY <1>1, <2>1, <2>2
<1>7. ASSUME NEW c \in Callers, Forget(c) PROVE Goal(d)
  <2>1. CASE d = c
    <3>1. stored'[d] = <<>> /\ pc'[d] = "idle"
      BY <1>7, <2>1 DEF Forget, TypeOK
    <3>2. Made(files', <<>>, {}, FALSE)
      BY MadeOfNone
    <3>. QED BY <3>1, <3>2
  <2>2. CASE d # c
    <3>1. files' = files /\ stored'[d] = stored[d] /\ pc'[d] = pc[d] /\ calm' = calm
      BY <1>7, <2>2 DEF Forget, TypeOK
    <3>. QED BY <1>0, <3>1
  <2>. QED BY <2>1, <2>2
<1>8. ASSUME NEW path \in Paths, Change(path) PROVE Goal(d)
  <2>1. stored' = stored /\ calm'[d] = FALSE
    BY <1>8 DEF Change
  <2>2. Made(files', stored[d], {}, FALSE)
    BY <1>0, MadeAnyway
  <2>. QED BY <2>1, <2>2
<1>. HIDE DEF Goal
<1>. QED BY <1>2, <1>3, <1>4, <1>5, <1>6, <1>7, <1>8, <1>9 DEF EgoNext, Panic, Return

LEMMA ToldStep ==
  ASSUME EgoInv, EgoNext
  PROVE  IdleInv' /\ ToldInv'
<1>. USE DEF EgoInv, TypeOK
<1>. DEFINE Told(c) ==
       pc[c] = "told" =>
         \/ mismatch[c] /\ ~ calm[c]
         \/ mismatch[c] = (TotalHash(stored[c]) # TotalHash(taken[c]) \/ Strange(Loaded(c), taken[c]))
<1>. SUFFICES ASSUME NEW d \in Callers
              PROVE  (pc'[d] \in {"idle", "told"} => pending'[d] = {}) /\ Told(d)'
  BY DEF IdleInv, ToldInv
<1>0. (pc[d] \in {"idle", "told"} => pending[d] = {}) /\ Told(d)
  BY DEF IdleInv, ToldInv
<1>1. ASSUME pc'[d] = pc[d], pc[d] \in {"idle", "told"} => pending'[d] = {} /\ taken'[d] = taken[d],
             stored'[d] = stored[d], unread'[d] = unread[d], mismatch'[d] = mismatch[d], calm'[d] => calm[d]
      PROVE  (pc'[d] \in {"idle", "told"} => pending'[d] = {}) /\ Told(d)'
  <2>1. pc[d] = "told" => taken'[d] = taken[d]
    BY <1>1
  <2>2. Loaded(d)' = Loaded(d)
    BY <1>1 DEF Loaded
  <2>. QED BY <1>0, <1>1, <2>1, <2>2
<1>2. ASSUME NEW c \in Callers, Run(c) \/ LoadFromDB(c)
      PROVE  (pc'[d] \in {"idle", "told"} => pending'[d] = {}) /\ Told(d)'
  <2>1. CASE d = c
    <3>1. pc'[d] \in {"run", "verify"}
      BY <1>2, <2>1 DEF Run, LoadFromDB, Start
    <3>. QED BY <3>1
  <2>2. CASE d # c
    <3>1. /\ pc'[d] = pc[d] /\ pending'[d] = pending[d] /\ taken'[d] = taken[d]
          /\ stored'[d] = stored[d] /\ unread'[d] = unread[d] /\ mismatch'[d] = mismatch[d]
          /\ calm'[d] = calm[d]
      BY <1>2, <2>2 DEF Run, LoadFromDB, Start
    <3>. QED BY <1>0, <1>1, <3>1
  <2>. QED BY <2>1, <2>2
<1>3. ASSUME NEW c \in Callers, HashFile(c)
      PROVE  (pc'[d] \in {"idle", "told"} => pending'[d] = {}) /\ Told(d)'
  <2>1. UNCHANGED <<pc, stored, unread, mismatch, calm>>
    BY <1>3 DEF HashFile
  <2>2. pc[d] \in {"idle", "told"} => pending'[d] = {} /\ taken'[d] = taken[d]
    BY <1>0, <1>3 DEF HashFile
  <2>. QED BY <1>1, <2>1, <2>2
<1>7. ASSUME NEW c \in Callers, NoManifest(c)
      PROVE  (pc'[d] \in {"idle", "told"} => pending'[d] = {}) /\ Told(d)'
  <2>1. CASE d = c
    <3>1. pending'[d] = {} /\ mismatch'[d] = TRUE /\ calm'[d] = FALSE
      BY <1>0, <1>7, <2>1 DEF NoManifest
    <3>. QED BY <3>1
  <2>2. CASE d # c
    <3>1. /\ pc'[d] = pc[d] /\ mismatch'[d] = mismatch[d] /\ calm'[d] = calm[d]
          /\ UNCHANGED <<pending, taken, stored, unread>>
      BY <1>7, <2>2 DEF NoManifest
    <3>. QED BY <1>0, <1>1, <3>1
  <2>. QED BY <2>1, <2>2
<1>4. ASSUME NEW c \in Callers, StoreInDB(c) \/ Return(c) \/ Panic(c)
      PROVE  (pc'[d] \in {"idle", "told"} => pending'[d] = {}) /\ Told(d)'
  <2>1. CASE d = c
    BY <1>0, <1>4, <2>1 DEF StoreInDB, Return, Panic, Forget
  <2>2. CASE d # c
    <3>1. /\ pc'[d] = pc[d] /\ pending'[d] = pending[d] /\ taken'[d] = taken[d]
          /\ stored'[d] = stored[d] /\ unread'[d] = unread[d] /\ mismatch'[d] = mismatch[d]
      BY <1>4, <2>2 DEF StoreInDB, Return, Panic, Forget
    <3>2. calm'[d] = calm[d]
      BY <1>4, PathsAssumption DEF StoreInDB, Return, Panic, Forget
    <3>. QED BY <1>0, <1>1, <3>1, <3>2
  <2>. QED BY <2>1, <2>2
<1>5. ASSUME NEW c \in Callers, Verify(c)
      PROVE  (pc'[d] \in {"idle", "told"} => pending'[d] = {}) /\ Told(d)'
  <2>1. UNCHANGED <<stored, unread, taken, pending, calm>> /\ Loaded(d)' = Loaded(d)
    BY <1>5 DEF Verify, Loaded
  <2>2. CASE d = c
    <3>1. pending'[d] = {}
      BY <1>5, <2>1, <2>2 DEF Verify
    <3>2. mismatch'[d] = (TotalHash(stored[d]) # TotalHash(taken[d]) \/ Strange(Loaded(d), taken[d]))
      BY <1>5, <2>2 DEF Verify
    <3>. QED BY <2>1, <3>1, <3>2
  <2>3. CASE d # c
    <3>1. pc'[d] = pc[d] /\ mismatch'[d] = mismatch[d]
      BY <1>5, <2>3 DEF Verify
    <3>. QED BY <1>0, <1>1, <2>1, <3>1
  <2>. QED BY <2>2, <2>3
<1>6. ASSUME NEW path \in Paths, Change(path)
      PROVE  (pc'[d] \in {"idle", "told"} => pending'[d] = {}) /\ Told(d)'
  BY <1>0, <1>1, <1>6 DEF Change
<1>. HIDE DEF Told
<1>. QED BY <1>2, <1>3, <1>4, <1>5, <1>6, <1>7 DEF EgoNext

(* The manifest that is stored, the one that a Verify has loaded and those *)
(* that are being made follow the list, and are accurate while calm says   *)
(* that no file has changed: however the callers interleave.               *)
THEOREM ManifestsFollow == EgoSpec => []EgoInv
<1>1. EgoInit => EgoInv
  BY EgoInvHolds
<1>2. EgoInv /\ [EgoNext]_egoVars => EgoInv'
  <2>1. ASSUME EgoInv, EgoNext PROVE EgoInv'
    BY <2>1, TypeStep, TakenStep, ManifestStep, StoredStep, ToldStep DEF EgoInv
  <2>2. ASSUME EgoInv, UNCHANGED egoVars PROVE EgoInv'
    <3>1. TypeOK' /\ IdleInv'
      BY <2>2 DEF EgoInv, egoVars, TypeOK, IdleInv
    <3>3. ToldInv'
      <4>1. \A c \in Callers : Loaded(c)' = Loaded(c)
        BY <2>2 DEF egoVars, Loaded
      <4>. QED BY <2>2, <4>1 DEF EgoInv, egoVars, ToldInv
    <3>2. TakenInv' /\ ManifestInv' /\ StoredInv'
      BY <2>2 DEF EgoInv, egoVars, TakenInv, ManifestInv, StoredInv
    <3>. QED BY <3>1, <3>2, <3>3 DEF EgoInv
  <2>. QED BY <2>1, <2>2
<1>. QED BY <1>1, <1>2, PTL DEF EgoSpec

-----------------------------------------------------------------------------
LEMMA SameBound ==
  ASSUME NEW m \in Nat, NEW n \in Nat, 1 .. m = 1 .. n
  PROVE  m = n
<1>1. m < n => n \in 1 .. n /\ n \notin 1 .. m
  OBVIOUS
<1>2. n < m => m \in 1 .. m /\ m \notin 1 .. n
  OBVIOUS
<1>3. ~ m < n /\ ~ n < m
  BY <1>1, <1>2
<1>. QED BY <1>3

(* The rows of an order, with the hashes, are all of the manifest. *)
LEMMA SameRows ==
  ASSUME NEW r \in Seq(Row), NEW s \in Seq(Row), NEW e, NEW g, Follows(r, e), Follows(s, g),
         Len(r) = Len(s), e = g, \A k \in DOMAIN r : r[k].hash = s[k].hash
  PROVE  r = s
<1>1. DOMAIN r = 1 .. Len(r) /\ DOMAIN s = 1 .. Len(r)
  OBVIOUS
<1>2. ASSUME NEW k \in 1 .. Len(r) PROVE r[k] = s[k]
  <2>1. r[k] \in Row /\ s[k] \in Row
    BY <1>1
  <2>2. r[k].kind = s[k].kind /\ r[k].path = s[k].path /\ r[k].hash = s[k].hash
    BY <1>1 DEF Follows
  <2>. QED BY <2>1, <2>2 DEF Row
<1>. QED BY <1>1, <1>2

LEMMA FollowsOrder ==
  ASSUME NEW r \in Seq(Row), NEW e, Follows(r, e)
  PROVE  e \in [1 .. Len(r) -> Nat] /\ DOMAIN e = DOMAIN r /\ Increasing(e)
<1>1. DOMAIN r = 1 .. Len(r)
  OBVIOUS
<1>2. e \in [1 .. Len(r) -> Places]
  BY <1>1 DEF Follows
<1>3. \A k \in 1 .. Len(r) : e[k] \in Nat
  BY <1>2, ListedType
<1>. QED BY <1>1, <1>2, <1>3 DEF Increasing, Follows

(* Two accurate manifests of the same files are the same. *)
LEMMA AccurateSame ==
  ASSUME NEW fs, NEW r, NEW s, Made(fs, r, {}, TRUE), Made(fs, s, {}, TRUE)
  PROVE  r = s
<1>1. PICK e : Follows(r, e) /\ Accurate(fs, r, e, {})
  BY DEF Made
<1>2. PICK g : Follows(s, g) /\ Accurate(fs, s, g, {})
  BY DEF Made
<1>3. r \in Seq(Row) /\ s \in Seq(Row) /\ Len(r) \in Nat /\ Len(s) \in Nat
  BY DEF Made
<1>4. ASSUME NEW a, NEW x, a \in Seq(Row), Follows(a, x), Accurate(fs, a, x, {}),
             NEW b, NEW y, b \in Seq(Row), Follows(b, y), Accurate(fs, b, y, {})
      PROVE  Within(x, y)
  <2>1. DOMAIN x = DOMAIN a /\ DOMAIN y = DOMAIN b
    BY <1>4, FollowsOrder
  <2>2. ASSUME NEW k \in DOMAIN a PROVE \E l \in DOMAIN b : y[l] = x[k]
    <3>1. a[k] \in Row /\ x[k] \in Places
      BY <1>4 DEF Follows
    <3>2. fs[Listed[x[k]].path] = a[k].hash
      BY <1>4 DEF Follows, Accurate
    <3>3. a[k].hash # Missing
      BY <3>1, PathsAssumption DEF Row
    <3>. QED BY <1>4, <3>1, <3>2, <3>3 DEF Accurate
  <2>. QED BY <2>1, <2>2 DEF Within
<1>5. Within(e, g) /\ Within(g, e)
  BY <1>1, <1>2, <1>3, <1>4
<1>6. /\ e \in [1 .. Len(r) -> Nat] /\ Increasing(e)
      /\ g \in [1 .. Len(s) -> Nat] /\ Increasing(g)
  BY <1>1, <1>2, <1>3, FollowsOrder
<1>7. Len(r) = Len(s) /\ e = g
  BY <1>3, <1>5, <1>6, SamePlaces
<1>8. \A k \in DOMAIN r : r[k].hash = s[k].hash
  <2>1. DOMAIN r = DOMAIN s
    BY <1>3, <1>7
  <2>. QED BY <1>1, <1>2, <1>7, <2>1 DEF Accurate, Follows
<1>. QED BY <1>1, <1>2, <1>3, <1>7, <1>8, SameRows

(* As long as no file has changed since the Run of the manifest that a     *)
(* Verify loaded, whatever the files, however many callers there are and   *)
(* however they interleave, the manifest that it makes is the stored one:  *)
(* a mismatch is then for want of a source that the loading left out.      *)
THEOREM NoFalseAlarmHolds == EgoSpec => []NoFalseAlarm
<1>1. EgoInv => NoFalseAlarm
  <2>. SUFFICES ASSUME EgoInv, NEW c \in Callers, pc[c] = "told", calm[c], unread[c] = {} PROVE ~ mismatch[c]
    BY DEF NoFalseAlarm
  <2>1. Made(files, taken[c], {}, TRUE) /\ Made(files, stored[c], {}, TRUE)
    <3>1. pending[c] = {} /\ (pc[c] # "idle" /\ calm[c]) = TRUE
          /\ (pc[c] \in {"verify", "told"} /\ calm[c]) = TRUE
      BY DEF EgoInv, IdleInv, TypeOK
    <3>2. Made(files, taken[c], pending[c], pc[c] # "idle" /\ calm[c])
      BY DEF EgoInv, TakenInv
    <3>3. Made(files, stored[c], {}, pc[c] \in {"verify", "told"} /\ calm[c])
      BY DEF EgoInv, StoredInv
    <3>. QED BY <3>1, <3>2, <3>3 DEF Made
  <2>2. taken[c] = stored[c]
    BY <2>1, AccurateSame
  <2>3. TotalHash(stored[c]) = TotalHash(taken[c]) /\ ~ Strange(Loaded(c), taken[c])
    BY <2>2 DEF Strange, Loaded
  <2>. QED BY <2>3 DEF EgoInv, ToldInv
<1>. QED BY <1>1, ManifestsFollow, PTL

(* The files that Run is given are different ones.  UNIQUE(process_id,     *)
(* file_path) expects it: a manifest with a path twice is not stored.      *)
PathsDistinct == \A i, j \in Places : Listed[i].path = Listed[j].path => i = j

(* A Verify that finds no mismatch, with nothing of the stored manifest    *)
(* missing, has read every file with its stored hash and no other file.    *)
(* The total hash and the comparison of the sources say so of the          *)
(* databases too, because both manifests follow the list, and however much *)
(* of the manifest the loading left out, because the total hash is of all. *)
THEOREM SameIsSameHolds ==
  ASSUME PathsDistinct
  PROVE  EgoSpec => []SameIsSame
<1>1. EgoInv => SameIsSame
  <2>. SUFFICES ASSUME EgoInv, NEW c \in Callers, pc[c] = "told", ~ mismatch[c],
                       \A i \in DOMAIN stored[c] :
                         \E j \in DOMAIN taken[c] : taken[c][j].path = stored[c][i].path
                PROVE  taken[c] = stored[c]
    BY DEF SameIsSame
  <2>. DEFINE r == taken[c]
              s == stored[c]
  <2>1. TotalHash(s) = TotalHash(r)
    BY DEF EgoInv, ToldInv
  <2>2. /\ Made(files, r, pending[c], pc[c] # "idle" /\ calm[c])
        /\ Made(files, s, {}, pc[c] \in {"verify", "told"} /\ calm[c])
    BY DEF EgoInv, TakenInv, StoredInv
  <2>3. \A i \in DOMAIN s : \E j \in DOMAIN r : r[j].path = s[i].path
    OBVIOUS
  <2>. HIDE DEF r, s
  <2>4. r \in Seq(Row) /\ s \in Seq(Row)
    BY <2>2 DEF Made
  <2>5. PICK e : Follows(r, e)
    BY <2>2 DEF Made
  <2>6. PICK g : Follows(s, g)
    BY <2>2 DEF Made
  <2>7. DOMAIN r = DOMAIN s /\ \A k \in DOMAIN r : r[k].hash = s[k].hash
    <3>1. DOMAIN TotalHash(r) = DOMAIN r /\ DOMAIN TotalHash(s) = DOMAIN s
      BY DEF TotalHash
    <3>2. DOMAIN r = DOMAIN s
      BY <2>1, <3>1
    <3>3. ASSUME NEW k \in DOMAIN r PROVE r[k].hash = s[k].hash
      <4>1. TotalHash(r)[k] = r[k].hash /\ TotalHash(s)[k] = s[k].hash
        BY <3>2 DEF TotalHash
      <4>. QED BY <2>1, <4>1
    <3>. QED BY <3>2, <3>3
  <2>8. Len(r) = Len(s) /\ Len(r) \in Nat
    <3>1. DOMAIN r = 1 .. Len(r) /\ DOMAIN s = 1 .. Len(s) /\ Len(r) \in Nat /\ Len(s) \in Nat
      BY <2>4
    <3>2. 1 .. Len(r) = 1 .. Len(s)
      BY <2>7, <3>1
    <3>. QED BY <3>1, <3>2, SameBound
  <2>9. /\ e \in [1 .. Len(r) -> Nat] /\ Increasing(e) /\ DOMAIN e = DOMAIN r
        /\ g \in [1 .. Len(r) -> Nat] /\ Increasing(g) /\ DOMAIN g = DOMAIN s
    BY <2>4, <2>5, <2>6, <2>8, FollowsOrder
  <2>10. Within(g, e)
    <3>1. ASSUME NEW i \in DOMAIN s PROVE \E j \in DOMAIN r : e[j] = g[i]
      <4>1. PICK j \in DOMAIN r : r[j].path = s[i].path
        BY <2>3
      <4>2. Listed[e[j]].path = Listed[g[i]].path /\ e[j] \in Places /\ g[i] \in Places
        BY <2>5, <2>6, <4>1 DEF Follows
      <4>. QED BY <4>2 DEF PathsDistinct
    <3>. QED BY <2>9, <3>1 DEF Within
  <2>11. g = e
    BY <2>8, <2>9, <2>10, SameOrder
  <2>12. r = s
    BY <2>4, <2>5, <2>6, <2>7, <2>8, <2>11, SameRows
  <2>. QED BY <2>12 DEF r, s
<1>. QED BY <1>1, ManifestsFollow, PTL

=============================================================================
