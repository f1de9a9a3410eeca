-------------------------- MODULE RangeCreateProofs --------------------------
(***************************************************************************)
(* Creations of ranges for any number of processes, plans and files: that  *)
(* a range is in the tables as a whole or not at all, and refers to the    *)
(* files it names.                                                         *)
(***************************************************************************)
EXTENDS RangeCreate, SequenceTheorems, FiniteSetTheorems, TLAPS

-----------------------------------------------------------------------------
(* Types *)

LEMMA PlanType ==
  ASSUME NEW p \in Plans
  PROVE  /\ Len(p.files) \in Nat
         /\ p.files # <<>> => 1 \in 1..Len(p.files)
         /\ \A n \in 1..Len(p.files) : p.files[n].path \in Path /\ p.files[n].its \in Nat
<1>1. p.files \in Seq([path : Path, its : Nat])
  BY RangeCreateAssumption
<1>2. \A n \in 1..Len(p.files) : p.files[n] \in [path : Path, its : Nat]
  BY <1>1, ElementOfSeq
<1>3. Len(p.files) \in Nat /\ (p.files # <<>> => Len(p.files) \in Nat \ {0})
  BY <1>1, EmptySeq, LenProperties
<1> QED BY <1>2, <1>3

LEMMA NothingType ==
  /\ Nothing \in Tables
  /\ Nothing.names = {} /\ Nothing.files = {} /\ Nothing.junction = {} /\ Nothing.offsets = {}
  /\ DOMAIN Nothing = {"names", "files", "junction", "offsets"}
  BY DEF Nothing, Tables

LEMMA BothType ==
  ASSUME NEW s \in Tables, NEW t \in Tables
  PROVE  /\ Both(s, t) \in Tables
         /\ Both(s, t).names = s.names \cup t.names
         /\ Both(s, t).files = s.files \cup t.files
         /\ Both(s, t).junction = s.junction \cup t.junction
         /\ Both(s, t).offsets = s.offsets \cup t.offsets
<1> DEFINE names == {"names", "files", "junction", "offsets"}
<1>1. Both(s, t) = [x \in names |-> s[x] \cup t[x]]
  BY NothingType DEF Both
<1>2. /\ s.names \cup t.names \in SUBSET [id : Nat, name : {p.name : p \in Plans}, init : BOOLEAN]
      /\ s.files \cup t.files \in SUBSET [id : Nat, path : Path]
      /\ s.junction \cup t.junction \in SUBSET [range : Nat, file : Nat, path : Path]
      /\ s.offsets \cup t.offsets \in SUBSET [range : Nat, file : Nat, path : Path, k : Nat]
  BY DEF Tables
<1> QED BY <1>1, <1>2 DEF Tables

(* The statement of an open transaction adds one row to one of its tables. *)
LEMMA WriteForm ==
  ASSUME TypeOK, NEW c \in Client, open[c], NEW table \in DOMAIN Nothing, NEW row,
         Write(c, table, row)
  PROVE  /\ db' = db
         /\ txn'[c][table] = txn[c][table] \cup {row}
         /\ \A x \in DOMAIN Nothing \ {table} : txn'[c][x] = txn[c][x]
         /\ \A d \in Client \ {c} : txn'[d] = txn[d]
<1>1. txn \in [Client -> Tables]
  BY DEF TypeOK
<1>2. DOMAIN txn[c] = DOMAIN Nothing
  BY <1>1, NothingType DEF Tables
<1>3. txn' = [txn EXCEPT ![c][table] = @ \cup {row}] /\ db' = db
  BY DEF Write
<1> QED BY <1>1, <1>2, <1>3

LEMMA WriteType ==
  ASSUME TypeOK, NEW c \in Client, NEW table \in DOMAIN Nothing, NEW row,
         Write(c, table, row),
         \/ table = "names" /\ row \in [id : Nat, name : {p.name : p \in Plans}, init : BOOLEAN]
         \/ table = "files" /\ row \in [id : Nat, path : Path]
         \/ table = "junction" /\ row \in [range : Nat, file : Nat, path : Path]
         \/ table = "offsets" /\ row \in [range : Nat, file : Nat, path : Path, k : Nat]
  PROVE  /\ db' \in Tables /\ txn' \in [Client -> Tables]
         /\ \A d \in Client : ~open[d] => txn'[d] = Nothing
<1>1. txn \in [Client -> Tables] /\ db \in Tables
  BY DEF TypeOK
<1>2. ASSUME NEW t \in Tables PROVE [t EXCEPT ![table] = @ \cup {row}] \in Tables
  BY NothingType DEF Tables
<1>3. CASE open[c]
  <2>1. txn' = [txn EXCEPT ![c][table] = @ \cup {row}] /\ db' = db
    BY <1>3 DEF Write
  <2> QED BY <1>1, <1>2, <1>3, <2>1 DEF TypeOK
<1>4. CASE ~open[c]
  <2>1. db' = [db EXCEPT ![table] = @ \cup {row}] /\ txn' = txn
    BY <1>4 DEF Write
  <2> QED BY <1>1, <1>2, <2>1 DEF TypeOK
<1> QED BY <1>3, <1>4

LEMMA TypeInit == Init => TypeOK
<1> SUFFICES ASSUME Init PROVE TypeOK
  OBVIOUS
<1>1. PICK paths \in Stored : \E f \in [paths -> 1..Cardinality(paths)] :
          /\ db = [Nothing EXCEPT !.files = {[id |-> f[p], path |-> p] : p \in paths}]
          /\ nextId = [names |-> 1, files |-> Cardinality(paths) + 1]
  BY DEF Init
<1>2. PICK f \in [paths -> 1..Cardinality(paths)] :
          /\ db = [Nothing EXCEPT !.files = {[id |-> f[p], path |-> p] : p \in paths}]
          /\ nextId = [names |-> 1, files |-> Cardinality(paths) + 1]
  BY <1>1
<1>3. paths \subseteq Path /\ Cardinality(paths) \in Nat
  BY RangeCreateAssumption, FS_CardinalityType
<1>4. {[id |-> f[p], path |-> p] : p \in paths} \subseteq [id : Nat, path : Path]
  BY <1>3
<1>5. db \in Tables
  BY <1>2, <1>4 DEF Nothing, Tables
<1>6. nextId \in [names : Nat, files : Nat]
  BY <1>2, <1>3
<1>7. \A c \in Client : Len(plan[c].files) \in Nat
  BY PlanType DEF Init
<1>8. {i, k, rangeId, fileId} \subseteq [Client -> Nat] /\ known \in [Client -> SUBSET Path]
  BY DEF Init, NoId
<1> QED BY <1>5, <1>6, <1>7, <1>8, NothingType DEF Init, TypeOK, Location, Running

-----------------------------------------------------------------------------
(* The phases of a creation: what its transaction holds at each statement. *)

Filling == {"file", "select", "junction", "offset", "update", "commit"}
Ending  == {"fail", "inserted", "failed"}

PhasesInv ==
    \A c \in Client :
       /\ pc[c] \in {"start", "name"} =>
             txn[c] = Nothing /\ view[c] = {} /\ i[c] = 1 /\ rangeId[c] = NoId
       /\ pc[c] \in {"name", "file", "offset", "update", "commit"} => open[c]
       /\ pc[c] \in {"start", "inserted", "failed"} => ~open[c]
       /\ pc[c] \in {"file", "select", "junction", "offset"} => i[c] \in 1..Len(plan[c].files)
       /\ pc[c] = "offset" => k[c] # 0
       /\ pc[c] \in Filling \cup {"inserted"} => rangeId[c] # NoId

IdsInv ==
    /\ \A c \in Client : rangeId[c] < nextId.names
    /\ \A c, d \in Client : rangeId[c] = rangeId[d] /\ rangeId[c] # NoId => c = d

(* The files whose junction row the transaction has inserted.              *)
Inserted(c) ==
    CASE pc[c] \in {"file", "select", "junction"} -> 1 .. i[c] - 1
      [] pc[c] = "offset"                          -> 1 .. i[c]
      [] OTHER                                     -> 1 .. Len(plan[c].files)

PathsOf(rows) == {j.path : j \in rows}

PathsAt(p, S) == {p.files[n].path : n \in S}

FullTxn(c) ==
    /\ txn[c].names = {[id |-> rangeId[c], name |-> plan[c].name, init |-> pc[c] = "commit"]}
    /\ \A j \in txn[c].junction : j.range = rangeId[c]
    /\ PathsOf(txn[c].junction) = PathsAt(plan[c], Inserted(c))
    /\ \A o \in txn[c].offsets : \E j \in txn[c].junction :
          j.range = o.range /\ j.file = o.file /\ j.path = o.path
    /\ pc[c] = "offset" => \E j \in txn[c].junction :
          j.range = rangeId[c] /\ j.file = fileId[c] /\ j.path = File(c).path

TxnInv == \A c \in Client : open[c] /\ pc[c] \in Filling => FullTxn(c)

OfRange(rows, id) == PathsOf({j \in rows : j.range = id})

(* The committed rows are those of creations that are over.                *)
Complete(c) ==
    /\ pc[c] \in Ending /\ ~open[c] /\ rangeId[c] # NoId
    /\ OfRange(db.junction, rangeId[c]) = Paths(c)

RowsInv ==
    /\ \A r \in db.names : \E c \in Client :
          Complete(c) /\ r = [id |-> rangeId[c], name |-> plan[c].name, init |-> TRUE]
    /\ \A j \in db.junction \cup db.offsets : \E r \in db.names : r.id = j.range
    /\ \A o \in db.offsets : \E j \in db.junction :
          j.range = o.range /\ j.file = o.file /\ j.path = o.path
    /\ \A c \in Client : pc[c] = "inserted" => \E r \in db.names : r.id = rangeId[c]

(* Where the id of a file is certain, it is that of the file that is meant.*)
Certain(c, p) == p \in known[c] \/ \A d \in Client \ {c} : p \notin Paths(d)

HasId(rows, id, p) == \E f \in rows : f.id = id /\ f.path = p

(* What FilesInv says of one process.                                      *)
FilesOf(c) ==
    /\ \A f \in txn[c].files : f.path \in Paths(c)
    /\ Visible(c) \subseteq db.files
    /\ \A p \in known[c] : \E f \in Visible(c) : f.path = p
    /\ open[c] => \A f \in db.files :
          f.path \in known[c] \/ \E d \in Client \ {c} : f.path \in Paths(d)
    /\ open[c] /\ pc[c] = "select" /\ Certain(c, File(c).path) => File(c).path \in known[c]
    /\ open[c] /\ pc[c] = "junction" /\ Certain(c, File(c).path) =>
          HasId(db.files \cup txn[c].files, fileId[c], File(c).path)
    /\ \A j \in txn[c].junction : Certain(c, j.path) =>
          HasId(db.files \cup txn[c].files, j.file, j.path)

RightIds(e) ==
    \A j \in db.junction :
        rangeId[e] = j.range /\ Certain(e, j.path) => HasId(db.files, j.file, j.path)

FilesInv == \A c \in Client : FilesOf(c) /\ RightIds(c)

Inv == TypeOK /\ PhasesInv /\ IdsInv /\ TxnInv /\ RowsInv /\ FilesInv
-----------------------------------------------------------------------------
(* Types and phases *)

LEMMA PhasesInit == Init => PhasesInv
  BY DEF Init, PhasesInv, Filling, NoId

LEMMA FileType ==
  ASSUME TypeOK, NEW c \in Client, i[c] \in 1..Len(plan[c].files)
  PROVE  /\ File(c).path \in Path /\ File(c).its \in Nat
         /\ Len(plan[c].files) \in Nat /\ i[c] \in Nat
         /\ File(c).path \in Paths(c)
<1>1. plan[c] \in Plans /\ i[c] \in Nat
  BY DEF TypeOK
<1> QED BY <1>1, PlanType DEF File, Paths

LEMMA TurnType ==
  ASSUME TypeOK, NEW c \in Client, i[c] \in 1..Len(plan[c].files), plan' = plan,
         FileDone(c) \/ (UNCHANGED i /\ (UNCHANGED pc \/ Goto(c, "offset")))
  PROVE  /\ i' \in [Client -> Nat] /\ pc' \in [Client -> Location]
         /\ \A d \in Client : i'[d] \in 1 .. Len(plan'[d].files) + 1
<1>1. i \in [Client -> Nat] /\ pc \in [Client -> Location] /\ Len(plan[c].files) \in Nat
  BY PlanType DEF TypeOK
<1>2. \A d \in Client : i[d] \in 1 .. Len(plan[d].files) + 1
  BY DEF TypeOK
<1>3. CASE i[c] < Len(plan[c].files) /\ i' = [i EXCEPT ![c] = @ + 1] /\ Goto(c, "file")
  BY <1>1, <1>2, <1>3 DEF Goto, Location, Running
<1>4. CASE UNCHANGED i /\ (UNCHANGED pc \/ Goto(c, "offset") \/ Goto(c, "update"))
  BY <1>1, <1>2, <1>4 DEF Goto, Location, Running
<1> QED BY <1>3, <1>4 DEF FileDone

LEMMA TypeStep == TypeOK /\ PhasesInv /\ [Next]_vars => TypeOK'
<1> SUFFICES ASSUME TypeOK, PhasesInv, [Next]_vars PROVE TypeOK'
  OBVIOUS
<1> USE DEF server, local, Goto
<1>0. \A c \in Client : Len(plan[c].files) \in Nat
  BY PlanType DEF TypeOK
<1>b. ASSUME NEW c \in Client, Begin(c) PROVE TypeOK'
  <2>1. PICK any \in {NoId} \cup {r.id : r \in db.files} : fileId' = [fileId EXCEPT ![c] = any]
    BY <1>b DEF Begin
  <2>2. any \in Nat /\ {r.path : r \in db.files} \subseteq Path
    BY DEF TypeOK, Tables, NoId
  <2>3. /\ known' = [known EXCEPT ![c] = {r.path : r \in db.files}]
        /\ open' = [open EXCEPT ![c] = TRUE] /\ pc' = [pc EXCEPT ![c] = "name"]
        /\ UNCHANGED <<db, txn, view, nextId, plan, i, k, rangeId>>
    BY <1>b DEF Begin
  <2>4. {i, k, rangeId, fileId}' \subseteq [Client -> Nat] /\ known' \in [Client -> SUBSET Path]
    BY <2>1, <2>2, <2>3 DEF TypeOK
  <2> QED BY <2>3, <2>4 DEF TypeOK, Location, Running
<1>n. ASSUME NEW c \in Client, InsertName(c) PROVE TypeOK'
  <2> DEFINE row == [id |-> nextId.names, name |-> plan[c].name, init |-> FALSE]
  <2>1. row \in [id : Nat, name : {p.name : p \in Plans}, init : BOOLEAN]
    BY DEF TypeOK
  <2>2. Write(c, "names", row)
    BY <1>n DEF InsertName
  <2>3. /\ db' \in Tables /\ txn' \in [Client -> Tables]
        /\ \A d \in Client : ~open[d] => txn'[d] = Nothing
    <3> HIDE DEF row
    <3> QED BY <2>1, <2>2, WriteType, NothingType
  <2>4. /\ rangeId' = [rangeId EXCEPT ![c] = nextId.names]
        /\ nextId' = [nextId EXCEPT !.names = @ + 1]
        /\ pc' = [pc EXCEPT ![c] = IF plan[c].files = <<>> THEN "update" ELSE "file"]
        /\ UNCHANGED <<open, view, plan, i, k, fileId, known>>
    BY <1>n DEF InsertName
  <2>5. nextId' \in [names : Nat, files : Nat]
    <3>1. nextId \in [names : Nat, files : Nat]
      BY DEF TypeOK
    <3> QED BY <2>4, <3>1
  <2>6. rangeId' \in [Client -> Nat]
    BY <2>4 DEF TypeOK
  <2>7. pc' \in [Client -> Location]
    BY <2>4 DEF TypeOK, Location, Running
  <2> QED BY <2>3, <2>4, <2>5, <2>6, <2>7 DEF TypeOK
<1>r. ASSUME NEW c \in Client, NameRefused(c) PROVE TypeOK'
  BY <1>r DEF NameRefused, TypeOK, Location, Running
<1>f. ASSUME NEW c \in Client, InsertFile(c) PROVE TypeOK'
  <2> DEFINE row == [id |-> nextId.files, path |-> File(c).path]
  <2>0. i[c] \in 1..Len(plan[c].files)
    BY <1>f DEF InsertFile, PhasesInv
  <2>1. row \in [id : Nat, path : Path]
    BY <2>0, FileType DEF TypeOK
  <2>2. Write(c, "files", row)
    BY <1>f DEF InsertFile
  <2>3. /\ db' \in Tables /\ txn' \in [Client -> Tables]
        /\ \A d \in Client : ~open[d] => txn'[d] = Nothing
    <3> HIDE DEF row
    <3> QED BY <2>1, <2>2, WriteType, NothingType
  <2>4. /\ fileId' = [fileId EXCEPT ![c] = nextId.files]
        /\ nextId' = [nextId EXCEPT !.files = @ + 1]
        /\ pc' = [pc EXCEPT ![c] = "junction"]
        /\ UNCHANGED <<open, view, plan, i, k, rangeId, known>>
    BY <1>f DEF InsertFile
  <2>5. nextId' \in [names : Nat, files : Nat]
    <3>1. nextId \in [names : Nat, files : Nat]
      BY DEF TypeOK
    <3> QED BY <2>4, <3>1
  <2>6. fileId' \in [Client -> Nat]
    BY <2>4 DEF TypeOK
  <2>7. pc' \in [Client -> Location]
    BY <2>4 DEF TypeOK, Location, Running
  <2> QED BY <2>3, <2>4, <2>5, <2>6, <2>7 DEF TypeOK
<1>e. ASSUME NEW c \in Client, FileExists(c) PROVE TypeOK'
  BY <1>e DEF FileExists, TypeOK, Location, Running
<1>d. ASSUME NEW c \in Client, Deadlock(c) PROVE TypeOK'
  BY <1>d, NothingType DEF Deadlock, TypeOK, Location, Running
<1>s. ASSUME NEW c \in Client, SelectFile(c) PROVE TypeOK'
  <2>1. Visible(c) \in SUBSET [id : Nat, path : Path]
    BY DEF Visible, TypeOK, Tables
  <2>2. fileId' \in [Client -> Nat]
    BY <1>s, <2>1 DEF SelectFile, TypeOK
  <2>3. view' \in [Client -> SUBSET SUBSET [id : Nat, path : Path]]
    BY <1>s, <2>1 DEF SelectFile, TypeOK
  <2>4. pc' = [pc EXCEPT ![c] = "junction"] /\ UNCHANGED <<db, txn, open, nextId, plan, i, k, rangeId, known>>
    BY <1>s DEF SelectFile
  <2> QED BY <2>2, <2>3, <2>4 DEF TypeOK, Location, Running
<1>j. ASSUME NEW c \in Client, InsertJunction(c) PROVE TypeOK'
  <2> DEFINE row == [range |-> rangeId[c], file |-> fileId[c], path |-> File(c).path]
  <2>0. i[c] \in 1..Len(plan[c].files)
    BY <1>j DEF InsertJunction, PhasesInv
  <2>f. File(c).path \in Path /\ File(c).its \in Nat /\ i[c] \in Nat
    BY <2>0, FileType
  <2>1. row \in [range : Nat, file : Nat, path : Path]
    BY <2>f DEF TypeOK
  <2>2. Write(c, "junction", row)
    BY <1>j DEF InsertJunction
  <2>3. /\ db' \in Tables /\ txn' \in [Client -> Tables]
        /\ \A d \in Client : ~open[d] => txn'[d] = Nothing
    <3> HIDE DEF row
    <3> QED BY <2>1, <2>2, WriteType, NothingType
  <2>4. /\ k' = [k EXCEPT ![c] = File(c).its]
        /\ IF File(c).its > 0 THEN Goto(c, "offset") /\ UNCHANGED i ELSE FileDone(c)
        /\ UNCHANGED <<open, view, nextId, plan, rangeId, fileId, known>>
    BY <1>j DEF InsertJunction
  <2>5. k' \in [Client -> Nat]
    BY <2>f, <2>4 DEF TypeOK
  <2>6. /\ i' \in [Client -> Nat] /\ pc' \in [Client -> Location]
        /\ \A d \in Client : i'[d] \in 1 .. Len(plan[d].files) + 1
    BY <2>0, <2>4, TurnType
  <2> QED BY <2>3, <2>4, <2>5, <2>6 DEF TypeOK
<1>x. ASSUME NEW c \in Client, JunctionRefused(c) PROVE TypeOK'
  BY <1>x DEF JunctionRefused, TypeOK, Location, Running
<1>o. ASSUME NEW c \in Client, InsertOffset(c) PROVE TypeOK'
  <2> DEFINE row == [range |-> rangeId[c], file |-> fileId[c], path |-> File(c).path, k |-> k[c]]
  <2>0. i[c] \in 1..Len(plan[c].files) /\ k[c] # 0
    BY <1>o DEF InsertOffset, PhasesInv
  <2>f. File(c).path \in Path /\ i[c] \in Nat
    BY <2>0, FileType
  <2>1. row \in [range : Nat, file : Nat, path : Path, k : Nat]
    BY <2>f DEF TypeOK
  <2>2. Write(c, "offsets", row) \/ UNCHANGED <<db, txn>>
    BY <1>o DEF InsertOffset
  <2>3. /\ db' \in Tables /\ txn' \in [Client -> Tables]
        /\ \A d \in Client : ~open[d] => txn'[d] = Nothing
    <3> HIDE DEF row
    <3>1. CASE Write(c, "offsets", row)
      BY <2>1, <3>1, WriteType, NothingType
    <3>2. CASE UNCHANGED <<db, txn>>
      BY <3>2 DEF TypeOK
    <3> QED BY <2>2, <3>1, <3>2
  <2>4. /\ k' = [k EXCEPT ![c] = @ - 1]
        /\ IF k[c] > 1 THEN UNCHANGED <<i, pc>> ELSE FileDone(c)
        /\ UNCHANGED <<open, view, nextId, plan, rangeId, fileId, known>>
    BY <1>o DEF InsertOffset
  <2>5. k' \in [Client -> Nat]
    BY <2>0, <2>4 DEF TypeOK
  <2>6. /\ i' \in [Client -> Nat] /\ pc' \in [Client -> Location]
        /\ \A d \in Client : i'[d] \in 1 .. Len(plan[d].files) + 1
    BY <2>0, <2>4, TurnType
  <2> QED BY <2>3, <2>4, <2>5, <2>6 DEF TypeOK
<1>u. ASSUME NEW c \in Client, SetInit(c) PROVE TypeOK'
  <2>1. /\ txn' = [txn EXCEPT ![c].names =
                     {IF r.id = rangeId[c] THEN [r EXCEPT !.init = TRUE] ELSE r : r \in @}]
        /\ pc' = [pc EXCEPT ![c] = "commit"]
        /\ UNCHANGED <<db, open, view, nextId, local>>
    BY <1>u DEF SetInit
  <2>2. ASSUME NEW t \in Tables
        PROVE  [t EXCEPT !.names = {IF r.id = rangeId[c] THEN [r EXCEPT !.init = TRUE] ELSE r : r \in @}]
                  \in Tables
    <3> DEFINE R == [id : Nat, name : {p.name : p \in Plans}, init : BOOLEAN]
               S == {IF r.id = rangeId[c] THEN [r EXCEPT !.init = TRUE] ELSE r : r \in t.names}
    <3>1. \A r \in R : [r EXCEPT !.init = TRUE] \in R
      OBVIOUS
    <3>2. t.names \subseteq R
      BY DEF Tables
    <3>3. S \subseteq R
      BY <3>1, <3>2
    <3> HIDE DEF S
    <3>4. [t EXCEPT !.names = S] \in Tables
      BY <3>3 DEF Tables
    <3> QED BY <3>4 DEF S
  <2>3. txn' \in [Client -> Tables]
    BY <2>1, <2>2 DEF TypeOK
  <2>4. open[c]
    BY <1>u DEF SetInit, PhasesInv
  <2>5. \A d \in Client : ~open[d] => txn'[d] = Nothing
    BY <2>1, <2>4 DEF TypeOK
  <2> QED BY <2>1, <2>3, <2>5 DEF TypeOK, Location, Running
<1>c. ASSUME NEW c \in Client, Commit(c) PROVE TypeOK'
  <2>1. db' \in Tables
    BY <1>c, BothType DEF Commit, TypeOK
  <2> QED BY <1>c, <2>1, NothingType DEF Commit, Ended, TypeOK, Location
<1>k. ASSUME NEW c \in Client, Rollback(c) PROVE TypeOK'
  BY <1>k, NothingType DEF Rollback, Ended, TypeOK, Location
<1>l. ASSUME NEW c \in Client, Lose(c) PROVE TypeOK'
  <2>1. db' \in Tables
    BY <1>l, BothType DEF Lose, TypeOK
  <2> QED BY <1>l, <2>1, NothingType DEF Lose, Ended, TypeOK, Location
<1>y. CASE UNCHANGED vars
  BY <1>y DEF vars, TypeOK
<1> QED BY <1>b, <1>n, <1>r, <1>f, <1>e, <1>d, <1>s, <1>j, <1>x, <1>o, <1>u, <1>c, <1>k, <1>l, <1>y
        DEF Next, Step
(* After a deadlock the row of the range is gone, and the foreign key      *)
(* refuses what would go straight into the table (sql.c:457).              *)
LEMMA JunctionIsOpen ==
  ASSUME TypeOK, IdsInv, RowsInv, NEW c \in Client, InsertJunction(c)
  PROVE  open[c]
<1> SUFFICES ASSUME ~open[c] PROVE FALSE
  OBVIOUS
<1>1. txn[c].names = {}
  BY NothingType DEF TypeOK
<1>2. PICK r \in db.names : r.id = rangeId[c]
  BY <1>1 DEF InsertJunction, Referable
<1>3. PICK e \in Client : Complete(e) /\ r = [id |-> rangeId[e], name |-> plan[e].name, init |-> TRUE]
  BY DEF RowsInv
<1>4. e = c
  BY <1>2, <1>3 DEF Complete, IdsInv
<1> QED BY <1>3, <1>4 DEF Complete, Ending, InsertJunction

LEMMA PhasesStep == TypeOK /\ PhasesInv /\ IdsInv /\ RowsInv /\ [Next]_vars => PhasesInv'
<1> SUFFICES ASSUME TypeOK, PhasesInv, IdsInv, RowsInv, [Next]_vars PROVE PhasesInv'
  OBVIOUS
<1> USE DEF server, local, Goto, Filling
<1>b. ASSUME NEW c \in Client, Begin(c) PROVE PhasesInv'
  BY <1>b DEF Begin, PhasesInv, TypeOK
<1>n. ASSUME NEW c \in Client, InsertName(c) PROVE PhasesInv'
  <2>1. /\ pc[c] = "name" /\ rangeId' = [rangeId EXCEPT ![c] = nextId.names]
        /\ pc' = [pc EXCEPT ![c] = IF plan[c].files = <<>> THEN "update" ELSE "file"]
        /\ UNCHANGED <<open, view, plan, i, k, fileId, known>>
        /\ \A d \in Client \ {c} : txn'[d] = txn[d]
    BY <1>n DEF InsertName, Write, TypeOK
  <2>2. nextId.names # NoId
    BY DEF IdsInv, TypeOK, NoId
  <2>3. plan[c].files # <<>> => 1 \in 1..Len(plan[c].files)
    BY PlanType DEF TypeOK
  <2> QED BY <2>1, <2>2, <2>3 DEF PhasesInv, TypeOK
<1>r. ASSUME NEW c \in Client, NameRefused(c) PROVE PhasesInv'
  BY <1>r DEF NameRefused, PhasesInv, TypeOK
<1>f. ASSUME NEW c \in Client, InsertFile(c) PROVE PhasesInv'
  BY <1>f DEF InsertFile, Write, PhasesInv, TypeOK
<1>e. ASSUME NEW c \in Client, FileExists(c) PROVE PhasesInv'
  BY <1>e DEF FileExists, PhasesInv, TypeOK
<1>d. ASSUME NEW c \in Client, Deadlock(c) PROVE PhasesInv'
  BY <1>d DEF Deadlock, PhasesInv, TypeOK
<1>s. ASSUME NEW c \in Client, SelectFile(c) PROVE PhasesInv'
  BY <1>s DEF SelectFile, PhasesInv, TypeOK
<1>x. ASSUME NEW c \in Client, JunctionRefused(c) PROVE PhasesInv'
  BY <1>x DEF JunctionRefused, PhasesInv, TypeOK
<1>o. ASSUME NEW c \in Client, InsertOffset(c) \/ InsertJunction(c) PROVE PhasesInv'
  <2>1. /\ pc[c] \in {"junction", "offset"} /\ open[c] /\ i[c] \in 1..Len(plan[c].files)
        /\ UNCHANGED <<open, view, plan, rangeId>>
        /\ \A d \in Client \ {c} : txn'[d] = txn[d]
    BY <1>o, JunctionIsOpen DEF InsertOffset, InsertJunction, Write, PhasesInv, TypeOK
  <2>2. i[c] \in Nat /\ k[c] \in Nat /\ Len(plan[c].files) \in Nat /\ File(c).its \in Nat
    BY <2>1, FileType DEF TypeOK
  <2>3. /\ \A d \in Client \ {c} : pc'[d] = pc[d] /\ i'[d] = i[d] /\ k'[d] = k[d]
        /\ \/ pc'[c] = "offset" /\ i'[c] = i[c] /\ k'[c] # 0
           \/ pc'[c] = "file" /\ i'[c] \in 1..Len(plan[c].files)
           \/ pc'[c] = "update"
    <3>1. CASE InsertOffset(c)
      BY <2>1, <2>2, <3>1 DEF InsertOffset, FileDone, TypeOK
    <3>2. CASE InsertJunction(c)
      BY <2>1, <2>2, <3>2 DEF InsertJunction, FileDone, TypeOK
    <3> QED BY <1>o, <3>1, <3>2
  <2> QED BY <2>1, <2>3 DEF PhasesInv
<1>u. ASSUME NEW c \in Client, SetInit(c) PROVE PhasesInv'
  BY <1>u DEF SetInit, PhasesInv, TypeOK
<1>c. ASSUME NEW c \in Client, Commit(c) \/ Rollback(c) \/ Lose(c) PROVE PhasesInv'
  BY <1>c DEF Commit, Rollback, Lose, Ended, PhasesInv, TypeOK
<1>y. CASE UNCHANGED vars
  BY <1>y DEF vars, PhasesInv
<1> QED BY <1>b, <1>n, <1>r, <1>f, <1>e, <1>d, <1>s, <1>x, <1>o, <1>u, <1>c, <1>y
        DEF Next, Step

-----------------------------------------------------------------------------
(* The other processes are where they were after a step of c, and so are   *)
(* their transactions.                                                     *)
Actor(c) == Begin(c) \/ Step(c) \/ Lose(c)

LEMMA OthersStay ==
  ASSUME TypeOK, NEW c \in Client, Actor(c)
  PROVE  /\ plan' = plan
         /\ \A d \in Client \ {c} :
               /\ pc'[d] = pc[d] /\ i'[d] = i[d] /\ rangeId'[d] = rangeId[d]
               /\ fileId'[d] = fileId[d] /\ known'[d] = known[d]
               /\ txn'[d] = txn[d] /\ open'[d] = open[d] /\ view'[d] = view[d]
<1> USE DEF server, local, Goto
<1>b. CASE Begin(c)
  BY <1>b DEF Begin, TypeOK
<1>n. CASE InsertName(c)
  BY <1>n DEF InsertName, Write, TypeOK
<1>r. CASE NameRefused(c) \/ FileExists(c) \/ JunctionRefused(c)
  BY <1>r DEF NameRefused, FileExists, JunctionRefused, TypeOK
<1>f. CASE InsertFile(c)
  BY <1>f DEF InsertFile, Write, TypeOK
<1>d. CASE Deadlock(c)
  BY <1>d DEF Deadlock, TypeOK
<1>s. CASE SelectFile(c)
  BY <1>s DEF SelectFile, TypeOK
<1>j. CASE InsertJunction(c)
  BY <1>j DEF InsertJunction, Write, FileDone, TypeOK
<1>o. CASE InsertOffset(c)
  BY <1>o DEF InsertOffset, Write, FileDone, TypeOK
<1>u. CASE SetInit(c)
  BY <1>u DEF SetInit, TypeOK
<1>c. CASE Commit(c) \/ Rollback(c) \/ Lose(c)
  BY <1>c DEF Commit, Rollback, Lose, Ended, TypeOK
<1> QED BY <1>b, <1>n, <1>r, <1>f, <1>d, <1>s, <1>j, <1>o, <1>u, <1>c DEF Actor, Step

LEMMA IdsStep == TypeOK /\ PhasesInv /\ IdsInv /\ [Next]_vars => IdsInv'
<1> SUFFICES ASSUME TypeOK, PhasesInv, IdsInv, [Next]_vars PROVE IdsInv'
  OBVIOUS
<1>1. ASSUME NEW c \in Client, InsertName(c) PROVE IdsInv'
  <2>1. rangeId' = [rangeId EXCEPT ![c] = nextId.names] /\ nextId'.names = nextId.names + 1
    BY <1>1 DEF InsertName, TypeOK
  <2>2. nextId.names \in Nat /\ rangeId \in [Client -> Nat]
    BY DEF TypeOK
  <2> QED BY <2>1, <2>2 DEF IdsInv
<1>2. ASSUME NEW c \in Client, Begin(c) \/ Lose(c) \/ Step(c), ~InsertName(c)
      PROVE  rangeId' = rangeId /\ nextId'.names = nextId.names
  <2> USE DEF server, local
  <2>1. CASE Begin(c) \/ NameRefused(c) \/ FileExists(c) \/ JunctionRefused(c) \/ Deadlock(c) \/ SelectFile(c)
    BY <2>1 DEF Begin, NameRefused, FileExists, JunctionRefused, Deadlock, SelectFile
  <2>2. CASE InsertFile(c)
    BY <2>2 DEF InsertFile, TypeOK
  <2>3. CASE InsertJunction(c) \/ InsertOffset(c) \/ SetInit(c)
    BY <2>3 DEF InsertJunction, InsertOffset, SetInit
  <2>4. CASE Commit(c) \/ Rollback(c) \/ Lose(c)
    BY <2>4 DEF Commit, Rollback, Lose
  <2> QED BY <1>2, <2>1, <2>2, <2>3, <2>4 DEF Step
<1>3. CASE UNCHANGED vars
  BY <1>3 DEF vars, server, local, IdsInv
<1>4. CASE rangeId' = rangeId /\ nextId'.names = nextId.names
  BY <1>4 DEF IdsInv
<1> QED BY <1>1, <1>2, <1>3, <1>4 DEF Next
-----------------------------------------------------------------------------
(* The open transactions *)

LEMMA FullStays ==
  ASSUME NEW d \in Client, FullTxn(d),
         plan' = plan, pc'[d] = pc[d], i'[d] = i[d], rangeId'[d] = rangeId[d],
         fileId'[d] = fileId[d], txn'[d] = txn[d]
  PROVE  FullTxn(d)'
<1>1. Inserted(d)' = Inserted(d) /\ File(d)' = File(d)
  BY DEF Inserted, File
<1> QED BY <1>1 DEF FullTxn

LEMMA NameFills ==
  ASSUME TypeOK, PhasesInv, NEW c \in Client, InsertName(c)
  PROVE  FullTxn(c)'
<1>1. /\ txn[c] = Nothing /\ i[c] = 1 /\ open[c]
      /\ rangeId'[c] = nextId.names /\ i' = i /\ plan' = plan
      /\ pc'[c] = IF plan[c].files = <<>> THEN "update" ELSE "file"
  BY DEF InsertName, PhasesInv, TypeOK, Goto
<1>2. /\ txn'[c].names = {[id |-> nextId.names, name |-> plan[c].name, init |-> FALSE]}
      /\ txn'[c].junction = {} /\ txn'[c].offsets = {}
  <2> DEFINE row == [id |-> nextId.names, name |-> plan[c].name, init |-> FALSE]
  <2>1. Write(c, "names", row)
    BY DEF InsertName
  <2> HIDE DEF row
  <2>2. txn'[c].names = {row} /\ txn'[c].junction = {} /\ txn'[c].offsets = {}
    BY <1>1, <2>1, NothingType, WriteForm
  <2> QED BY <2>2 DEF row
<1>3. Inserted(c)' = {}
  BY <1>1, EmptySeq DEF Inserted
<1>4. pc'[c] # "commit" /\ pc'[c] # "offset"
  BY <1>1
<1>5. /\ txn'[c].names = {[id |-> rangeId'[c], name |-> plan'[c].name, init |-> pc'[c] = "commit"]}
  BY <1>1, <1>2, <1>4
<1>6. PathsOf({}) = {} /\ PathsAt(plan'[c], {}) = {}
  BY DEF PathsOf, PathsAt
<1> QED BY <1>2, <1>3, <1>4, <1>5, <1>6 DEF FullTxn

LEMMA JunctionFills ==
  ASSUME TypeOK, PhasesInv, NEW c \in Client, InsertJunction(c), open[c], FullTxn(c)
  PROVE  FullTxn(c)'
<1> DEFINE row == [range |-> rangeId[c], file |-> fileId[c], path |-> File(c).path]
<1>1. /\ pc[c] = "junction" /\ i[c] \in 1..Len(plan[c].files)
      /\ UNCHANGED <<plan, rangeId, fileId>>
  BY DEF InsertJunction, PhasesInv
<1>2. i[c] \in Nat /\ Len(plan[c].files) \in Nat /\ File(c).its \in Nat
  BY <1>1, FileType
<1>3. /\ txn'[c].names = txn[c].names /\ txn'[c].offsets = txn[c].offsets
      /\ txn'[c].junction = txn[c].junction \cup {row}
  <2>1. Write(c, "junction", row)
    BY DEF InsertJunction
  <2> HIDE DEF row
  <2> QED BY <2>1, NothingType, WriteForm
<1>4. /\ \/ pc'[c] = "offset" /\ i'[c] = i[c]
         \/ pc'[c] = "file" /\ i'[c] = i[c] + 1
         \/ pc'[c] = "update" /\ i[c] = Len(plan[c].files)
      /\ pc'[c] # "commit"
  BY <1>1, <1>2 DEF InsertJunction, FileDone, Goto, TypeOK
<1>5. Inserted(c)' = 1 .. i[c] /\ Inserted(c) = 1 .. i[c] - 1
  BY <1>1, <1>2, <1>4 DEF Inserted
<1>6. row.path = plan[c].files[i[c]].path /\ row.range = rangeId[c] /\ row.file = fileId[c]
  BY DEF File
<1>8. PathsOf(txn'[c].junction) = PathsAt(plan'[c], Inserted(c)')
  <2>1. 1 .. i[c] = (1 .. i[c] - 1) \cup {i[c]}
    BY <1>1, <1>2
  <2>2. PathsOf(txn[c].junction) = PathsAt(plan[c], 1 .. i[c] - 1)
    BY <1>5 DEF FullTxn
  <2> HIDE DEF row
  <2>3. PathsOf(txn'[c].junction) = PathsOf(txn[c].junction) \cup {row.path}
    BY <1>3 DEF PathsOf
  <2>4. PathsAt(plan[c], 1 .. i[c]) = PathsAt(plan[c], 1 .. i[c] - 1) \cup {plan[c].files[i[c]].path}
    BY <2>1 DEF PathsAt
  <2> QED BY <1>1, <1>5, <1>6, <2>2, <2>3, <2>4
<1>9. txn'[c].names = {[id |-> rangeId'[c], name |-> plan'[c].name, init |-> pc'[c] = "commit"]}
  <2>1. txn[c].names = {[id |-> rangeId[c], name |-> plan[c].name, init |-> FALSE]}
    BY <1>1 DEF FullTxn
  <2> QED BY <1>1, <1>3, <1>4, <2>1
<1>10. pc'[c] = "offset" => File(c)' = File(c)
  BY <1>1, <1>4 DEF File
<1> HIDE DEF row
<1>11. /\ \A j \in txn'[c].junction : j.range = rangeId'[c]
       /\ \A o \in txn'[c].offsets : \E j \in txn'[c].junction :
             j.range = o.range /\ j.file = o.file /\ j.path = o.path
  BY <1>1, <1>3, <1>6 DEF FullTxn
<1>12. pc'[c] = "offset" => \E j \in txn'[c].junction :
          j.range = rangeId'[c] /\ j.file = fileId'[c] /\ j.path = File(c)'.path
  BY <1>1, <1>3, <1>6, <1>10 DEF row
<1> QED BY <1>8, <1>9, <1>11, <1>12 DEF FullTxn

LEMMA OffsetFills ==
  ASSUME TypeOK, PhasesInv, NEW c \in Client, InsertOffset(c), FullTxn(c)
  PROVE  FullTxn(c)'
<1> DEFINE row == [range |-> rangeId[c], file |-> fileId[c], path |-> File(c).path, k |-> k[c]]
<1>1. /\ pc[c] = "offset" /\ i[c] \in 1..Len(plan[c].files) /\ open[c]
      /\ UNCHANGED <<plan, rangeId, fileId>>
  BY DEF InsertOffset, PhasesInv
<1>2. i[c] \in Nat /\ Len(plan[c].files) \in Nat
  BY <1>1, FileType
<1>3. /\ txn'[c].names = txn[c].names /\ txn'[c].junction = txn[c].junction
      /\ txn'[c].offsets \subseteq txn[c].offsets \cup {row}
  <2>1. Write(c, "offsets", row) \/ UNCHANGED <<db, txn>>
    BY DEF InsertOffset
  <2> HIDE DEF row
  <2>2. CASE Write(c, "offsets", row)
    BY <1>1, <2>2, NothingType, WriteForm
  <2> QED BY <2>1, <2>2
<1>4. /\ \/ pc'[c] = "offset" /\ i'[c] = i[c]
         \/ pc'[c] = "file" /\ i'[c] = i[c] + 1
         \/ pc'[c] = "update" /\ i[c] = Len(plan[c].files)
      /\ pc'[c] # "commit"
  BY <1>1, <1>2 DEF InsertOffset, FileDone, Goto, TypeOK
<1>5. Inserted(c)' = Inserted(c)
  BY <1>1, <1>2, <1>4 DEF Inserted
<1>6. pc'[c] = "offset" => File(c)' = File(c)
  BY <1>1, <1>4 DEF File
<1>7. txn'[c].names = {[id |-> rangeId'[c], name |-> plan'[c].name, init |-> pc'[c] = "commit"]}
  <2>1. txn[c].names = {[id |-> rangeId[c], name |-> plan[c].name, init |-> FALSE]}
    BY <1>1 DEF FullTxn
  <2> QED BY <1>1, <1>3, <1>4, <2>1
<1>8. row.range = rangeId[c] /\ row.file = fileId[c] /\ row.path = File(c).path
  OBVIOUS
<1> HIDE DEF row
<1>9. \A o \in txn'[c].offsets : \E j \in txn'[c].junction :
         j.range = o.range /\ j.file = o.file /\ j.path = o.path
  <2>1. \E j \in txn[c].junction :
           j.range = rangeId[c] /\ j.file = fileId[c] /\ j.path = File(c).path
    BY <1>1 DEF FullTxn
  <2> QED BY <1>3, <1>8, <2>1 DEF FullTxn
<1> QED BY <1>1, <1>3, <1>5, <1>6, <1>7, <1>9 DEF FullTxn

LEMMA InitFills ==
  ASSUME TypeOK, PhasesInv, NEW c \in Client, SetInit(c), FullTxn(c)
  PROVE  FullTxn(c)'
<1> DEFINE new(r) == IF r.id = rangeId[c] THEN [r EXCEPT !.init = TRUE] ELSE r
           r0 == [id |-> rangeId[c], name |-> plan[c].name, init |-> FALSE]
<1>1. /\ pc[c] = "update" /\ pc'[c] = "commit"
      /\ UNCHANGED <<plan, rangeId, fileId, i>>
  BY DEF SetInit, local, Goto, TypeOK
<1>2. /\ txn'[c].names = {new(r) : r \in txn[c].names}
      /\ txn'[c].junction = txn[c].junction /\ txn'[c].offsets = txn[c].offsets
  BY NothingType DEF SetInit, TypeOK, Tables
<1>3. txn[c].names = {r0}
  BY <1>1 DEF FullTxn
<1>4. new(r0) = [id |-> rangeId[c], name |-> plan[c].name, init |-> TRUE]
  OBVIOUS
<1> HIDE DEF new, r0
<1>5. txn'[c].names = {new(r0)}
  BY <1>2, <1>3
<1>6. txn'[c].names = {[id |-> rangeId'[c], name |-> plan'[c].name, init |-> pc'[c] = "commit"]}
  BY <1>1, <1>4, <1>5
<1>7. Inserted(c)' = Inserted(c)
  BY <1>1 DEF Inserted
<1> QED BY <1>1, <1>2, <1>6, <1>7 DEF FullTxn

LEMMA TxnStep ==
  TypeOK /\ PhasesInv /\ IdsInv /\ RowsInv /\ TxnInv /\ [Next]_vars => TxnInv'
<1> SUFFICES ASSUME TypeOK, PhasesInv, IdsInv, RowsInv, TxnInv, NEW c \in Client, Actor(c)
             PROVE  TxnInv'
  <2>1. CASE UNCHANGED vars
    <3>1. \A d \in Client : FullTxn(d) => FullTxn(d)'
      BY <2>1, FullStays DEF vars, server, local
    <3> QED BY <2>1, <3>1 DEF vars, server, TxnInv
  <2> QED BY <2>1 DEF Next, Actor
<1>1. ASSUME NEW d \in Client \ {c}, open'[d], pc'[d] \in Filling PROVE FullTxn(d)'
  BY <1>1, OthersStay, FullStays DEF TxnInv
<1>2. ASSUME open'[c], pc'[c] \in Filling PROVE FullTxn(c)'
  <2> USE DEF server, local, Goto, Filling
  <2>n. CASE InsertName(c)
    BY <2>n, NameFills
  <2>j. CASE InsertJunction(c)
    <3>1. open[c]
      BY <2>j, JunctionIsOpen
    <3> QED BY <2>j, <3>1, JunctionFills DEF TxnInv, InsertJunction
  <2>o. CASE InsertOffset(c)
    BY <2>o, OffsetFills DEF TxnInv, PhasesInv, InsertOffset
  <2>u. CASE SetInit(c)
    BY <2>u, InitFills DEF TxnInv, PhasesInv, SetInit
  <2>f. CASE InsertFile(c)
    <3>1. /\ open[c] /\ pc[c] = "file" /\ pc'[c] = "junction"
          /\ UNCHANGED <<plan, rangeId, i>>
      BY <2>f DEF InsertFile, PhasesInv, TypeOK
    <3>2. txn'[c].names = txn[c].names /\ txn'[c].offsets = txn[c].offsets
          /\ txn'[c].junction = txn[c].junction
      <4> DEFINE row == [id |-> nextId.files, path |-> File(c).path]
      <4>1. Write(c, "files", row)
        BY <2>f DEF InsertFile
      <4> HIDE DEF row
      <4> QED BY <3>1, <4>1, NothingType, WriteForm
    <3>3. Inserted(c)' = Inserted(c) /\ FullTxn(c)
      BY <3>1 DEF Inserted, TxnInv
    <3> QED BY <3>1, <3>2, <3>3 DEF FullTxn
  <2>e. CASE FileExists(c) \/ SelectFile(c)
    <3>1. /\ open[c] /\ pc[c] \in {"file", "select"} /\ pc'[c] \in {"select", "junction"}
          /\ UNCHANGED <<plan, rangeId, i, txn>>
      BY <1>2, <2>e DEF FileExists, SelectFile, TypeOK
    <3>3. Inserted(c)' = Inserted(c) /\ FullTxn(c)
      BY <3>1 DEF Inserted, TxnInv
    <3> QED BY <3>1, <3>3 DEF FullTxn
  <2>x. CASE Begin(c) \/ NameRefused(c) \/ Deadlock(c) \/ JunctionRefused(c) \/ Commit(c) \/ Rollback(c) \/ Lose(c)
    BY <1>2, <2>x DEF Begin, NameRefused, Deadlock, JunctionRefused, Commit, Rollback, Lose, Ended, TypeOK
  <2> QED BY <2>n, <2>j, <2>o, <2>u, <2>f, <2>e, <2>x DEF Actor, Step
<1> QED BY <1>1, <1>2 DEF TxnInv
-----------------------------------------------------------------------------
(* The committed rows change when a whole transaction is committed, by its *)
(* COMMIT or by one whose answer is lost.                                  *)

Committed(c) ==
    /\ pc[c] = "commit" /\ open[c] /\ FullTxn(c)
    /\ db' = Both(db, txn[c])
    /\ pc'[c] \in {"fail", "inserted"} /\ ~open'[c] /\ txn'[c] = Nothing
    /\ UNCHANGED <<rangeId, plan, known>>

Uncommitted(c) ==
    /\ db' = db /\ pc'[c] # "inserted"
    /\ pc[c] \in Ending /\ ~open[c] => pc'[c] \in Ending /\ ~open'[c] /\ rangeId'[c] = rangeId[c]

LEMMA CommitOrNot ==
  ASSUME TypeOK, PhasesInv, IdsInv, RowsInv, TxnInv, NEW c \in Client, Actor(c)
  PROVE  Committed(c) \/ Uncommitted(c)
<1> USE DEF server, local, Goto, Ending
<1>c. CASE Commit(c)
  BY <1>c DEF Commit, Ended, Committed, PhasesInv, TxnInv, Filling, TypeOK
<1>l. CASE Lose(c)
  BY <1>l DEF Lose, Ended, Committed, Uncommitted, PhasesInv, TxnInv, Filling, Running, TypeOK
<1>k. CASE Rollback(c)
  BY <1>k DEF Rollback, Ended, Uncommitted, TypeOK
<1>w. CASE InsertName(c) \/ InsertFile(c) \/ InsertOffset(c)
  <2>1. open[c] /\ pc[c] \notin Ending
    BY <1>w DEF InsertName, InsertFile, InsertOffset, PhasesInv
  <2>2. db' = db
    BY <1>w, <2>1 DEF InsertName, InsertFile, InsertOffset, Write
  <2>3. pc'[c] # "inserted"
    BY <1>w, <2>1 DEF InsertName, InsertFile, InsertOffset, FileDone, TypeOK
  <2> QED BY <2>1, <2>2, <2>3 DEF Uncommitted
<1>j. CASE InsertJunction(c)
  <2>1. open[c] /\ pc[c] \notin Ending
    BY <1>j, JunctionIsOpen DEF InsertJunction
  <2>2. db' = db
    BY <1>j, <2>1 DEF InsertJunction, Write
  <2>3. pc'[c] # "inserted"
    BY <1>j, <2>1 DEF InsertJunction, FileDone, TypeOK
  <2> QED BY <2>1, <2>2, <2>3 DEF Uncommitted
<1>x. CASE Begin(c) \/ NameRefused(c) \/ FileExists(c) \/ Deadlock(c)
  BY <1>x DEF Begin, NameRefused, FileExists, Deadlock, Uncommitted, TypeOK
<1>y. CASE SelectFile(c) \/ JunctionRefused(c) \/ SetInit(c)
  BY <1>y DEF SelectFile, JunctionRefused, SetInit, Uncommitted, TypeOK
<1> QED BY <1>c, <1>l, <1>k, <1>w, <1>j, <1>x, <1>y DEF Actor, Step

(* No committed row refers to the range of a creation that is not over.    *)
LEMMA FreshRange ==
  ASSUME IdsInv, RowsInv, NEW c \in Client, pc[c] \notin Ending \/ open[c], rangeId[c] # NoId
  PROVE  /\ \A r \in db.names : r.id # rangeId[c]
         /\ \A j \in db.junction \cup db.offsets : j.range # rangeId[c]
<1>1. ASSUME NEW r \in db.names, r.id = rangeId[c] PROVE FALSE
  <2>1. PICK e \in Client : Complete(e) /\ r = [id |-> rangeId[e], name |-> plan[e].name, init |-> TRUE]
    BY DEF RowsInv
  <2>2. e = c
    BY <1>1, <2>1 DEF Complete, IdsInv
  <2> QED BY <2>1, <2>2 DEF Complete
<1> QED BY <1>1 DEF RowsInv

LEMMA RowsStep ==
  TypeOK /\ PhasesInv /\ IdsInv /\ RowsInv /\ TxnInv /\ [Next]_vars => RowsInv'
<1> SUFFICES ASSUME TypeOK, PhasesInv, IdsInv, RowsInv, TxnInv, NEW c \in Client, Actor(c)
             PROVE  RowsInv'
  <2>1. CASE UNCHANGED vars
    <3>1. \A e \in Client : Paths(e)' = Paths(e)
      BY <2>1 DEF vars, local, Paths
    <3> QED BY <2>1, <3>1 DEF vars, server, local, RowsInv, Complete
  <2> QED BY <2>1 DEF Next, Actor
<1> DEFINE Row(e) == [id |-> rangeId[e], name |-> plan[e].name, init |-> TRUE]
<1>0. /\ plan' = plan /\ \A e \in Client : Paths(e)' = Paths(e)
      /\ \A d \in Client \ {c} : pc'[d] = pc[d] /\ open'[d] = open[d] /\ rangeId'[d] = rangeId[d]
  BY OthersStay DEF Paths
<1>1. CASE Uncommitted(c)
  <2>1. \A e \in Client : Complete(e) => Complete(e)' /\ rangeId'[e] = rangeId[e]
    BY <1>0, <1>1 DEF Uncommitted, Complete
  <2>2. db' = db /\ \A e \in Client : pc'[e] = "inserted" => pc[e] = "inserted" /\ rangeId'[e] = rangeId[e]
    BY <1>1, <1>0 DEF Uncommitted
  <2> QED BY <1>0, <2>1, <2>2 DEF RowsInv
<1>2. CASE Committed(c)
  <2>1. /\ db'.names = db.names \cup txn[c].names
        /\ db'.junction = db.junction \cup txn[c].junction
        /\ db'.offsets = db.offsets \cup txn[c].offsets
    BY <1>2, BothType DEF Committed, TypeOK
  <2>2. /\ txn[c].names = {Row(c)}
        /\ \A j \in txn[c].junction : j.range = rangeId[c]
        /\ PathsOf(txn[c].junction) = Paths(c)
        /\ \A o \in txn[c].offsets : \E j \in txn[c].junction :
              j.range = o.range /\ j.file = o.file /\ j.path = o.path
    BY <1>2 DEF Committed, FullTxn, Inserted, Paths, PathsAt
  <2>3. rangeId[c] # NoId
    BY <1>2 DEF Committed, PhasesInv, Filling
  <2>4. \A j \in db.junction \cup db.offsets : j.range # rangeId[c]
    BY <1>2, <2>3, FreshRange DEF Committed
  <2>5. OfRange(db'.junction, rangeId[c]) = Paths(c)
    <3>1. {j \in db'.junction : j.range = rangeId[c]} = txn[c].junction
      BY <2>1, <2>2, <2>4
    <3> QED BY <2>2, <3>1 DEF OfRange
  <2>6. ASSUME NEW e \in Client, Complete(e)
        PROVE  OfRange(db'.junction, rangeId[e]) = Paths(e) /\ e # c
    <3>1. e # c
      BY <1>2, <2>6 DEF Complete, Committed
    <3>2. rangeId[e] # rangeId[c]
      BY <2>3, <3>1 DEF IdsInv
    <3>3. {j \in db'.junction : j.range = rangeId[e]} = {j \in db.junction : j.range = rangeId[e]}
      BY <2>1, <2>2, <3>2
    <3> QED BY <2>6, <3>1, <3>3 DEF Complete, OfRange
  <2>7. rangeId' = rangeId /\ pc'[c] \in Ending /\ ~open'[c]
    BY <1>2 DEF Committed, Ending
  <2>8. Complete(c)' /\ \A e \in Client : Complete(e) => Complete(e)'
    BY <1>0, <2>3, <2>5, <2>6, <2>7 DEF Complete
  <2>9. /\ \A e \in Client : Row(e)' = Row(e)
        /\ Row(c).id = rangeId[c]
    BY <1>0, <2>7
  <2>a. \A r \in db.names : \E e \in Client : Complete(e) /\ r = Row(e)
    BY DEF RowsInv
  <2> HIDE DEF Row
  <2>10. \A r \in db'.names : \E e \in Client : Complete(e)' /\ r = Row(e)'
    BY <2>1, <2>2, <2>8, <2>9, <2>a
  <2>11. \A j \in db'.junction \cup db'.offsets : \E r \in db'.names : r.id = j.range
    BY <2>1, <2>2, <2>9 DEF RowsInv
  <2>12. \A o \in db'.offsets : \E j \in db'.junction :
            j.range = o.range /\ j.file = o.file /\ j.path = o.path
    BY <2>1, <2>2 DEF RowsInv
  <2>13. \A e \in Client : pc'[e] = "inserted" => \E r \in db'.names : r.id = rangeId'[e]
    BY <1>0, <2>1, <2>2, <2>7, <2>9 DEF RowsInv
  <2> QED BY <2>10, <2>11, <2>12, <2>13 DEF RowsInv, Row
<1> QED BY <1>1, <1>2, CommitOrNot
-----------------------------------------------------------------------------
(* The ids of the files *)

LEMMA MoreIds ==
  ASSUME NEW S, NEW T, S \subseteq T, NEW id, NEW p, HasId(S, id, p)
  PROVE  HasId(T, id, p)
  BY DEF HasId

LEMMA FilesInit == Init => FilesInv
<1> SUFFICES ASSUME Init PROVE FilesInv
  OBVIOUS
<1>1. db.junction = {}
  BY DEF Init, Nothing
<1>2. \A c \in Client : txn[c].files = {} /\ txn[c].junction = {} /\ ~open[c] /\ known[c] = {}
  BY NothingType DEF Init
<1> QED BY <1>1, <1>2 DEF FilesInv, FilesOf, RightIds, Visible

(* Of what c does the others see at most that table File has grown.        *)
LEMMA OthersFiles ==
  ASSUME TypeOK, PhasesInv, IdsInv, RowsInv, TxnInv, FilesInv,
         NEW c \in Client, Actor(c), NEW d \in Client, d # c
  PROVE  FilesOf(d)'
<1>1. /\ plan' = plan /\ pc'[d] = pc[d] /\ i'[d] = i[d] /\ fileId'[d] = fileId[d]
      /\ known'[d] = known[d] /\ txn'[d] = txn[d] /\ open'[d] = open[d] /\ view'[d] = view[d]
  BY OthersStay
<1>2. /\ \A e \in Client : Paths(e)' = Paths(e)
      /\ File(d)' = File(d) /\ \A p : Certain(d, p)' <=> Certain(d, p)
  BY <1>1 DEF Paths, File, Certain
<1>3. /\ db.files \subseteq db'.files
      /\ \A f \in db'.files \ db.files : f.path \in Paths(c)
  <2>1. CASE Committed(c)
    <3>1. db'.files = db.files \cup txn[c].files
      BY <2>1, BothType DEF Committed, TypeOK
    <3> QED BY <3>1 DEF FilesInv, FilesOf
  <2>2. CASE Uncommitted(c)
    BY <2>2 DEF Uncommitted
  <2> QED BY <2>1, <2>2, CommitOrNot
<1>4. FilesOf(d)
  BY DEF FilesInv
<1>5. Visible(d)' \subseteq db'.files /\ Visible(d) \subseteq Visible(d)'
  BY <1>1, <1>3, <1>4 DEF Visible, FilesOf
<1>6. \A p \in known'[d] : \E f \in Visible(d)' : f.path = p
  BY <1>1, <1>4, <1>5 DEF FilesOf
<1>7. open'[d] => \A f \in db'.files :
         f.path \in known'[d] \/ \E e \in Client \ {d} : f.path \in Paths(e)'
  BY <1>1, <1>2, <1>3, <1>4 DEF FilesOf
<1>8. db.files \cup txn[d].files \subseteq db'.files \cup txn'[d].files
  BY <1>1, <1>3
<1>9. open'[d] /\ pc'[d] = "junction" /\ Certain(d, File(d).path)' =>
         HasId(db'.files \cup txn'[d].files, fileId'[d], File(d)'.path)
  BY <1>1, <1>2, <1>4, <1>8, MoreIds DEF FilesOf
<1>10. \A j \in txn'[d].junction : Certain(d, j.path)' =>
          HasId(db'.files \cup txn'[d].files, j.file, j.path)
  BY <1>1, <1>2, <1>4, <1>8, MoreIds DEF FilesOf
<1> QED BY <1>1, <1>2, <1>4, <1>5, <1>6, <1>7, <1>9, <1>10 DEF FilesOf

(* Only a file that was known, or that another process creates, can turn   *)
(* out to exist.                                                           *)
LEMMA ExistingIsKnown ==
  ASSUME TypeOK, PhasesInv, FilesInv, NEW c \in Client, FileExists(c),
         Certain(c, File(c).path)
  PROVE  File(c).path \in known[c]
<1> SUFFICES ASSUME \A d \in Client \ {c} : File(c).path \notin Paths(d), File(c).path \notin known[c]
             PROVE  FALSE
  BY DEF Certain
<1>1. open[c] /\ pc[c] = "file"
  BY DEF FileExists, PhasesInv
<1>2. CASE Holders(c) # {}
  <2>1. PICK d \in Client \ {c} : \E r \in txn[d].files : r.path = File(c).path
    BY <1>1, <1>2 DEF Holders
  <2> QED BY <2>1 DEF FilesInv, FilesOf
<1>3. CASE \E r \in db.files : r.path = File(c).path
  BY <1>1, <1>3 DEF FilesInv, FilesOf
<1> QED BY <1>2, <1>3 DEF FileExists

LEMMA OwnFiles ==
  ASSUME TypeOK, PhasesInv, IdsInv, RowsInv, FilesInv,
         NEW c \in Client, Begin(c) \/ Step(c) \/ Lose(c)
  PROVE  FilesOf(c)'
<1> USE DEF server, local, Goto
<1>0. FilesOf(c)
  BY DEF FilesInv
<1>p. plan' = plan /\ \A e \in Client : Paths(e)' = Paths(e)
  BY OthersStay DEF Paths, Actor
<1>1. CASE ~open'[c] /\ txn'[c] = Nothing /\ known'[c] = known[c] /\ db.files \subseteq db'.files
  <2>1. Visible(c)' = db'.files
    BY <1>1 DEF Visible
  <2>2. \A p \in known'[c] : \E f \in Visible(c)' : f.path = p
    BY <1>0, <1>1, <2>1 DEF FilesOf
  <2> QED BY <1>1, <2>1, <2>2, NothingType DEF FilesOf
<1>e. CASE Deadlock(c) \/ Commit(c) \/ Rollback(c) \/ Lose(c)
  <2>1. db.files \subseteq db'.files
    BY <1>e, BothType DEF Deadlock, Commit, Rollback, Lose, TypeOK
  <2>2. ~open'[c] /\ txn'[c] = Nothing /\ known' = known
    BY <1>e DEF Deadlock, Commit, Rollback, Lose, Ended, TypeOK
  <2> QED BY <1>1, <2>1, <2>2
<1>b. CASE Begin(c)
  <2>1. /\ txn'[c] = Nothing /\ view'[c] = {} /\ db' = db /\ pc'[c] = "name" /\ open'[c]
        /\ known'[c] = {r.path : r \in db.files}
    BY <1>b DEF Begin, PhasesInv, TypeOK
  <2>2. Visible(c)' = db.files
    BY <2>1 DEF Visible
  <2> QED BY <2>1, <2>2, NothingType DEF FilesOf
(* No step below ends or begins a transaction.                             *)
<1>2. ASSUME db' = db, UNCHANGED <<known, open>>, Visible(c)' = Visible(c),
             txn'[c].files = txn[c].files, txn'[c].junction = txn[c].junction,
             ~(open[c] /\ pc'[c] \in {"select", "junction"})
      PROVE  FilesOf(c)'
  <2>1. \A p : Certain(c, p)' <=> Certain(c, p)
    BY <1>p, <1>2 DEF Certain
  <2>2. \A f \in txn'[c].files : f.path \in Paths(c)'
    BY <1>0, <1>p, <1>2 DEF FilesOf
  <2>3. open'[c] => \A f \in db'.files :
           f.path \in known'[c] \/ \E d \in Client \ {c} : f.path \in Paths(d)'
    BY <1>0, <1>p, <1>2 DEF FilesOf
  <2>4. \A j \in txn'[c].junction : Certain(c, j.path)' =>
           HasId(db'.files \cup txn'[c].files, j.file, j.path)
    BY <1>0, <1>2, <2>1 DEF FilesOf
  <2> QED BY <1>0, <1>2, <2>2, <2>3, <2>4 DEF FilesOf
<1>n. CASE InsertName(c)
  <2>1. /\ open[c] /\ db' = db /\ UNCHANGED <<known, open, view>> /\ pc'[c] \in {"file", "update"}
    BY <1>n DEF InsertName, Write, PhasesInv, TypeOK
  <2>2. txn'[c].files = txn[c].files /\ txn'[c].junction = txn[c].junction
    <3> DEFINE row == [id |-> nextId.names, name |-> plan[c].name, init |-> FALSE]
    <3>1. Write(c, "names", row)
      BY <1>n DEF InsertName
    <3> HIDE DEF row
    <3> QED BY <2>1, <3>1, NothingType, WriteForm
  <2>3. Visible(c)' = Visible(c)
    BY <2>1 DEF Visible
  <2> QED BY <1>2, <2>1, <2>2, <2>3
<1>x. CASE NameRefused(c) \/ JunctionRefused(c) \/ SetInit(c)
  <2>1. /\ db' = db /\ UNCHANGED <<known, open, view>> /\ pc'[c] \in {"fail", "commit"}
    BY <1>x DEF NameRefused, JunctionRefused, SetInit, TypeOK
  <2>2. txn'[c].files = txn[c].files /\ txn'[c].junction = txn[c].junction
    BY <1>x DEF NameRefused, JunctionRefused, SetInit, TypeOK, Tables
  <2>3. Visible(c)' = Visible(c)
    BY <2>1 DEF Visible
  <2> QED BY <1>2, <2>1, <2>2, <2>3
<1>o. CASE InsertOffset(c)
  <2>1. /\ open[c] /\ pc[c] = "offset" /\ UNCHANGED <<known, open, view>>
        /\ pc'[c] \in {"offset", "file", "update"}
    BY <1>o DEF InsertOffset, FileDone, PhasesInv, TypeOK
  <2>2. db' = db /\ txn'[c].files = txn[c].files /\ txn'[c].junction = txn[c].junction
    <3> DEFINE row == [range |-> rangeId[c], file |-> fileId[c], path |-> File(c).path, k |-> k[c]]
    <3>1. Write(c, "offsets", row) \/ UNCHANGED <<db, txn>>
      BY <1>o DEF InsertOffset
    <3> HIDE DEF row
    <3> QED BY <2>1, <3>1, NothingType, WriteForm
  <2>3. Visible(c)' = Visible(c)
    BY <2>1, <2>2 DEF Visible
  <2> QED BY <1>2, <2>1, <2>2, <2>3
<1>f. CASE InsertFile(c)
  <2> DEFINE row == [id |-> nextId.files, path |-> File(c).path]
  <2>1. /\ open[c] /\ pc[c] = "file" /\ pc'[c] = "junction" /\ UNCHANGED <<known, open, view, i>>
        /\ fileId'[c] = nextId.files /\ i[c] \in 1..Len(plan[c].files)
    BY <1>f DEF InsertFile, PhasesInv, TypeOK
  <2>2. Write(c, "files", row)
    BY <1>f DEF InsertFile
  <2>3. row.id = nextId.files /\ row.path = File(c).path /\ File(c).path \in Paths(c)
    BY <2>1, FileType
  <2> HIDE DEF row
  <2>4. db' = db /\ txn'[c].files = txn[c].files \cup {row} /\ txn'[c].junction = txn[c].junction
    BY <2>1, <2>2, NothingType, WriteForm
  <2>5. Visible(c)' = Visible(c) /\ File(c)' = File(c) /\ \A p : Certain(c, p)' <=> Certain(c, p)
    BY <1>p, <2>1, <2>4 DEF Visible, File, Certain
  <2>6. \A f \in txn'[c].files : f.path \in Paths(c)'
    BY <1>0, <1>p, <2>3, <2>4 DEF FilesOf
  <2>7. open'[c] => \A f \in db'.files :
           f.path \in known'[c] \/ \E d \in Client \ {c} : f.path \in Paths(d)'
    BY <1>0, <1>p, <2>1, <2>4 DEF FilesOf
  <2>8. HasId(db'.files \cup txn'[c].files, fileId'[c], File(c)'.path)
    BY <2>1, <2>3, <2>4, <2>5 DEF HasId
  <2>9. \A j \in txn'[c].junction : Certain(c, j.path)' =>
           HasId(db'.files \cup txn'[c].files, j.file, j.path)
    <3>1. db.files \cup txn[c].files \subseteq db'.files \cup txn'[c].files
      BY <2>4
    <3> QED BY <1>0, <2>4, <2>5, <3>1, MoreIds DEF FilesOf
  <2> QED BY <1>0, <2>1, <2>4, <2>5, <2>6, <2>7, <2>8, <2>9 DEF FilesOf
<1>g. CASE FileExists(c)
  <2>1. /\ pc'[c] = "select" /\ UNCHANGED <<db, txn, open, view, known, i>>
    BY <1>g DEF FileExists, TypeOK
  <2>2. Visible(c)' = Visible(c) /\ File(c)' = File(c) /\ \A p : Certain(c, p)' <=> Certain(c, p)
    BY <1>p, <2>1 DEF Visible, File, Certain
  <2>3. Certain(c, File(c).path) => File(c).path \in known[c]
    BY <1>g, ExistingIsKnown
  <2> QED BY <1>0, <1>p, <2>1, <2>2, <2>3 DEF FilesOf
<1>s. CASE SelectFile(c)
  <2>1. /\ pc[c] = "select" /\ pc'[c] = "junction" /\ UNCHANGED <<db, txn, open, known, i>>
        /\ view'[c] = IF open[c] THEN {Visible(c)} ELSE {}
        /\ \/ \E r \in Visible(c) : r.path = File(c).path /\ fileId'[c] = r.id
           \/ \A r \in Visible(c) : r.path # File(c).path
    BY <1>s DEF SelectFile, TypeOK
  <2>2. Visible(c)' = Visible(c)
    BY <2>1 DEF Visible
  <2>3. File(c)' = File(c) /\ \A p : Certain(c, p)' <=> Certain(c, p)
    BY <1>p, <2>1 DEF File, Certain
  <2>4. open[c] /\ Certain(c, File(c).path) => HasId(db.files \cup txn[c].files, fileId'[c], File(c).path)
    BY <1>0, <2>1 DEF FilesOf, HasId
  <2> QED BY <1>0, <1>p, <2>1, <2>2, <2>3, <2>4 DEF FilesOf
<1>j. CASE InsertJunction(c)
  <2> DEFINE row == [range |-> rangeId[c], file |-> fileId[c], path |-> File(c).path]
  <2>1. /\ open[c] /\ pc[c] = "junction" /\ UNCHANGED <<known, open, view>>
        /\ pc'[c] \in {"offset", "file", "update"}
    BY <1>j, JunctionIsOpen DEF InsertJunction, FileDone, TypeOK
  <2>2. Write(c, "junction", row)
    BY <1>j DEF InsertJunction
  <2>3. row.file = fileId[c] /\ row.path = File(c).path
    OBVIOUS
  <2> HIDE DEF row
  <2>4. db' = db /\ txn'[c].files = txn[c].files /\ txn'[c].junction = txn[c].junction \cup {row}
    BY <2>1, <2>2, NothingType, WriteForm
  <2>5. Visible(c)' = Visible(c) /\ \A p : Certain(c, p)' <=> Certain(c, p)
    BY <1>p, <2>1, <2>4 DEF Visible, Certain
  <2>6. \A f \in txn'[c].files : f.path \in Paths(c)'
    BY <1>0, <1>p, <2>4 DEF FilesOf
  <2>7. open'[c] => \A f \in db'.files :
           f.path \in known'[c] \/ \E d \in Client \ {c} : f.path \in Paths(d)'
    BY <1>0, <1>p, <2>1, <2>4 DEF FilesOf
  <2>8. \A j \in txn'[c].junction : Certain(c, j.path)' =>
           HasId(db'.files \cup txn'[c].files, j.file, j.path)
    BY <1>0, <2>1, <2>3, <2>4, <2>5 DEF FilesOf
  <2> QED BY <1>0, <2>1, <2>4, <2>5, <2>6, <2>7, <2>8 DEF FilesOf
<1> QED BY <1>e, <1>b, <1>n, <1>x, <1>o, <1>f, <1>g, <1>s, <1>j DEF Step

LEMMA RightStep ==
  ASSUME TypeOK, PhasesInv, IdsInv, RowsInv, TxnInv, FilesInv,
         NEW c \in Client, Actor(c), NEW e \in Client
  PROVE  RightIds(e)'
<1>1. /\ plan' = plan
      /\ \A d \in Client \ {c} : rangeId'[d] = rangeId[d] /\ known'[d] = known[d]
  BY OthersStay
<1>2. \A d \in Client : Paths(d)' = Paths(d)
  BY <1>1 DEF Paths
<1>3. CASE Committed(c)
  <2>1. UNCHANGED <<rangeId, known>> /\ FullTxn(c) /\ FilesOf(c)
    BY <1>3 DEF Committed, FilesInv
  <2>2. db'.files = db.files \cup txn[c].files /\ db'.junction = db.junction \cup txn[c].junction
    BY <1>3, BothType DEF Committed, TypeOK
  <2>3. \A p : Certain(e, p)' <=> Certain(e, p)
    BY <1>2, <2>1 DEF Certain
  <2>4. ASSUME NEW j \in db.junction, rangeId[e] = j.range, Certain(e, j.path)
        PROVE  HasId(db'.files, j.file, j.path)
    BY <2>2, <2>4, MoreIds DEF FilesInv, RightIds
  <2>5. ASSUME NEW j \in txn[c].junction, rangeId[e] = j.range, Certain(e, j.path)
        PROVE  HasId(db'.files, j.file, j.path)
    <3>1. e = c
      <4>1. j.range = rangeId[c] /\ rangeId[c] # NoId
        BY <1>3, <2>1 DEF FullTxn, Committed, PhasesInv, Filling
      <4> QED BY <2>5, <4>1 DEF IdsInv
    <3> QED BY <2>1, <2>2, <2>5, <3>1 DEF FilesOf
  <2> QED BY <2>1, <2>2, <2>3, <2>4, <2>5 DEF RightIds
<1>4. CASE Uncommitted(c)
  <2>1. db' = db
    BY <1>4 DEF Uncommitted
  <2>2. CASE rangeId'[e] = rangeId[e] /\ known'[e] = known[e]
    <3>1. \A p : Certain(e, p)' <=> Certain(e, p)
      BY <1>2, <2>2 DEF Certain
    <3> QED BY <2>1, <2>2, <3>1 DEF FilesInv, RightIds
  (* The range is new, or is still to be made: no row refers to it.        *)
  <2>3. CASE Begin(c) /\ e = c
    <3>1. rangeId'[e] = NoId
      BY <2>3 DEF Begin, PhasesInv
    <3>2. \A j \in db.junction : j.range # NoId
      BY DEF RowsInv, Complete
    <3> QED BY <2>1, <3>1, <3>2 DEF RightIds
  <2>4. CASE InsertName(c) /\ e = c
    <3>1. rangeId'[e] = nextId.names
      BY <2>4 DEF InsertName, TypeOK
    <3>2. \A r \in db.names : r.id # nextId.names
      BY DEF RowsInv, IdsInv, TypeOK
    <3> QED BY <2>1, <3>1, <3>2 DEF RightIds, RowsInv
  <2>5. CASE ~Begin(c) /\ ~InsertName(c)
    <3>1. UNCHANGED <<rangeId, known>>
      <4> USE DEF server, local
      <4>1. CASE NameRefused(c) \/ FileExists(c) \/ JunctionRefused(c) \/ Deadlock(c) \/ SelectFile(c)
        BY <4>1 DEF NameRefused, FileExists, JunctionRefused, Deadlock, SelectFile
      <4>2. CASE InsertFile(c) \/ InsertJunction(c) \/ InsertOffset(c) \/ SetInit(c)
        BY <4>2 DEF InsertFile, InsertJunction, InsertOffset, SetInit
      <4>3. CASE Commit(c) \/ Rollback(c) \/ Lose(c)
        BY <4>3 DEF Commit, Rollback, Lose
      <4> QED BY <2>5, <4>1, <4>2, <4>3 DEF Actor, Step
    <3> QED BY <2>2, <3>1
  <2>6. CASE e # c
    BY <1>1, <2>2, <2>6
  <2> QED BY <2>3, <2>4, <2>5, <2>6
<1> QED BY <1>3, <1>4, CommitOrNot

LEMMA FilesStep ==
  TypeOK /\ PhasesInv /\ IdsInv /\ RowsInv /\ TxnInv /\ FilesInv /\ [Next]_vars => FilesInv'
<1> SUFFICES ASSUME TypeOK, PhasesInv, IdsInv, RowsInv, TxnInv, FilesInv, [Next]_vars PROVE FilesInv'
  OBVIOUS
<1>1. CASE UNCHANGED vars
  <2>1. \A c \in Client : /\ Paths(c)' = Paths(c) /\ Visible(c)' = Visible(c) /\ File(c)' = File(c)
                          /\ \A p : Certain(c, p)' <=> Certain(c, p)
    BY <1>1 DEF vars, server, local, Paths, Visible, File, Certain
  <2>2. UNCHANGED <<db, txn, open, known, pc, fileId, rangeId>>
    BY <1>1 DEF vars, server, local
  <2>3. ASSUME NEW c \in Client, FilesOf(c) PROVE FilesOf(c)'
    <3>1. /\ Visible(c)' = Visible(c) /\ File(c)' = File(c)
          /\ \A p : Certain(c, p)' <=> Certain(c, p)
      BY <2>1
    <3>2. open'[c] => \A f \in db'.files :
             f.path \in known'[c] \/ \E d \in Client \ {c} : f.path \in Paths(d)'
      BY <2>1, <2>2, <2>3 DEF FilesOf
    <3>3. \A f \in txn'[c].files : f.path \in Paths(c)'
      BY <2>1, <2>2, <2>3 DEF FilesOf
    <3>4. \A j \in txn'[c].junction : Certain(c, j.path)' =>
             HasId(db'.files \cup txn'[c].files, j.file, j.path)
      BY <2>2, <2>3, <3>1 DEF FilesOf
    <3>5. open'[c] /\ pc'[c] = "junction" /\ Certain(c, File(c).path)' =>
             HasId(db'.files \cup txn'[c].files, fileId'[c], File(c)'.path)
      BY <2>2, <2>3, <3>1 DEF FilesOf
    <3> QED BY <2>2, <2>3, <3>1, <3>2, <3>3, <3>4, <3>5 DEF FilesOf
  <2>4. \A c \in Client : RightIds(c) => RightIds(c)'
    BY <2>1, <2>2 DEF RightIds
  <2> QED BY <2>3, <2>4 DEF FilesInv
<1>2. ASSUME NEW c \in Client, Actor(c) PROVE FilesInv'
  <2>1. FilesOf(c)'
    BY <1>2, OwnFiles DEF Actor
  <2>2. \A d \in Client \ {c} : FilesOf(d)'
    BY <1>2, OthersFiles
  <2>3. \A e \in Client : RightIds(e)'
    BY <1>2, RightStep
  <2> QED BY <2>1, <2>2, <2>3 DEF FilesInv
<1> QED BY <1>1, <1>2 DEF Next, Actor

-----------------------------------------------------------------------------
(* The theorems *)

LEMMA InvInit == Init => Inv
<1> SUFFICES ASSUME Init PROVE Inv
  OBVIOUS
<1>1. IdsInv
  <2>1. nextId.names = 1
    BY DEF Init
  <2> QED BY <2>1 DEF Init, IdsInv, NoId
<1>2. TxnInv
  BY DEF Init, TxnInv
<1>3. RowsInv
  <2>1. db.names = {} /\ db.junction = {} /\ db.offsets = {}
    BY DEF Init, Nothing
  <2>2. \A c \in Client : pc[c] = "start"
    BY DEF Init
  <2> QED BY <2>1, <2>2 DEF RowsInv
<1> QED BY <1>1, <1>2, <1>3, TypeInit, PhasesInit, FilesInit DEF Inv

LEMMA Invariant == Spec => []Inv
<1>1. Inv /\ [Next]_vars => Inv'
  BY TypeStep, PhasesStep, IdsStep, TxnStep, RowsStep, FilesStep DEF Inv
<1> QED BY <1>1, InvInit, PTL DEF Spec

(* Every local of query_insert_named_range (sql.c:398-477) and every row it *)
(* inserts has its type, and no transaction that is over has a row left.   *)
THEOREM TypeCorrect == Spec => []TypeOK
  BY Invariant, PTL DEF Inv

(* A range is in the tables with all of its files and marked complete, or  *)
(* not at all, wherever a creation fails, is rolled back by a deadlock, or *)
(* dies, and in whichever order the statements of the others come.         *)
THEOREM CreationsAreAtomic == Spec => []CreationIsAtomic
<1>1. Inv => CreationIsAtomic
  <2> SUFFICES ASSUME Inv PROVE CreationIsAtomic
    OBVIOUS
  <2>1. ASSUME NEW r \in db.names
        PROVE  \E c \in Client :
                  /\ r.init /\ r.id = rangeId[c] /\ r.name = plan[c].name
                  /\ {j.path : j \in {j \in db.junction : j.range = r.id}} = Paths(c)
    <3>1. PICK c \in Client : Complete(c) /\ r = [id |-> rangeId[c], name |-> plan[c].name, init |-> TRUE]
      BY DEF Inv, RowsInv
    <3>2. r.init /\ r.id = rangeId[c] /\ r.name = plan[c].name
      BY <3>1
    <3>3. {j.path : j \in {j \in db.junction : j.range = r.id}} = OfRange(db.junction, rangeId[c])
      BY <3>2 DEF OfRange, PathsOf
    <3> QED BY <3>1, <3>2, <3>3 DEF Complete
  <2>2. /\ \A j \in db.junction \cup db.offsets : \E r \in db.names : r.id = j.range
        /\ \A o \in db.offsets : \E j \in db.junction :
              j.range = o.range /\ j.file = o.file /\ j.path = o.path
        /\ \A c \in Client : pc[c] = "inserted" => \E r \in db.names : r.id = rangeId[c]
    BY DEF Inv, RowsInv
  <2> QED BY <2>1, <2>2 DEF CreationIsAtomic
<1> QED BY <1>1, Invariant, PTL

(* "file already exists; grab its id" (sql.c:441): the id is that of the   *)
(* file, for every file that was there at first or that nobody else makes. *)
THEOREM FilesAreRight == Spec => []RightFiles
<1>1. Inv => RightFiles
  <2> SUFFICES ASSUME Inv, NEW j \in db.junction, NEW c \in Client,
                      rangeId[c] = j.range, Certain(c, j.path)
               PROVE  \E f \in db.files : f.id = j.file /\ f.path = j.path
    BY DEF RightFiles, Certain
  <2> QED BY DEF Inv, FilesInv, RightIds, HasId
<1> QED BY <1>1, Invariant, PTL
=============================================================================
