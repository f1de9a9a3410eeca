----------------------------- MODULE RangeCreate ------------------------------
(***************************************************************************)
(* Processes that create ranges (yacet -g) at the same time:               *)
(* query_insert_named_range (sql.c) statement by statement, on a server    *)
(* with the tables of sql.h, their UNIQUE and FOREIGN KEY constraints, and *)
(* the default isolation level REPEATABLE READ.                            *)
(*                                                                         *)
(* The server.  An INSERT whose key another open transaction has inserted  *)
(* waits for that transaction to end, until the lock wait times out: then  *)
(* the statement alone fails.  When transactions wait for one another, one *)
(* of them is rolled back, and what its connection sends afterwards is     *)
(* outside of any transaction.  A plain SELECT sees the rows committed     *)
(* when the transaction made its first one.                                *)
(***************************************************************************)
EXTENDS Integers, Sequences, FiniteSets

CONSTANTS
    Client,      \* the processes
    Path,        \* the files
    Plans,       \* what one may create: [name, files], files in order, each
                 \* [path, its] with its number of intervals
    Stored       \* sets of paths that table File may hold at first

ASSUME RangeCreateAssumption ==
    /\ \A p \in Plans :
          /\ p.files \in Seq([path : Path, its : Nat])
          /\ \A m, n \in 1..Len(p.files) :          \* range_add_new_file
                p.files[m].path = p.files[n].path => m = n
    /\ \A paths \in Stored : paths \subseteq Path /\ IsFiniteSet(paths)

VARIABLES
    plan,        \* what each process was asked to create
    db,          \* the committed rows
    txn,         \* the rows each open transaction has inserted
    open,        \* whose transaction is open
    view,        \* {files} for the snapshot of table File, {} before it is made
    nextId,      \* AUTO_INCREMENT of RangeName and File
    pc, i, k,    \* the statement, the file and the intervals left to insert
    rangeId, fileId,
    known        \* history: the paths in File when the transaction started

server == <<db, txn, open, view, nextId>>
local  == <<plan, i, k, rangeId, fileId, known>>
vars   == <<server, local, pc>>

Tables == [names    : SUBSET [id : Nat, name : {p.name : p \in Plans}, init : BOOLEAN],
           files    : SUBSET [id : Nat, path : Path],
           junction : SUBSET [range : Nat, file : Nat, path : Path],
           offsets  : SUBSET [range : Nat, file : Nat, path : Path, k : Nat]]

Nothing == [names |-> {}, files |-> {}, junction |-> {}, offsets |-> {}]
Both(s, t) == [x \in DOMAIN Nothing |-> s[x] \cup t[x]]

NoId == 0
Running  == {"name", "file", "select", "junction", "offset", "update", "commit"}
Location == Running \cup {"start", "fail", "inserted", "failed"}

File(c) == plan[c].files[i[c]]
Goto(c, l) == pc' = [pc EXCEPT ![c] = l]

(* A row goes into the open transaction, or straight into the table.       *)
Write(c, table, row) ==
    IF open[c] THEN /\ txn' = [txn EXCEPT ![c][table] = @ \cup {row}]
                    /\ UNCHANGED db
    ELSE db' = [db EXCEPT ![table] = @ \cup {row}] /\ UNCHANGED txn

(* The others that have inserted the same key and are still open.          *)
Holders(c) ==
    {d \in Client \ {c} :
        \/ pc[c] = "name" /\ \E r \in txn[d].names : r.name = plan[c].name
        \/ pc[c] = "file" /\ \E r \in txn[d].files : r.path = File(c).path}

Deadlocked(c) ==
    \E S \in SUBSET Client : c \in S /\ UNION {Holders(d) : d \in S} = S

-----------------------------------------------------------------------------
Init ==
    /\ plan \in [Client -> Plans]
    /\ \E paths \in Stored : \E f \in [paths -> 1..Cardinality(paths)] :
          /\ \A p, q \in paths : f[p] = f[q] => p = q
          /\ db = [Nothing EXCEPT !.files = {[id |-> f[p], path |-> p] : p \in paths}]
          /\ nextId = [names |-> 1, files |-> Cardinality(paths) + 1]
    /\ txn = [c \in Client |-> Nothing] /\ open = [c \in Client |-> FALSE]
    /\ view = [c \in Client |-> {}]
    /\ pc = [c \in Client |-> "start"]
    /\ i = [c \in Client |-> 1] /\ k = [c \in Client |-> 0]
    /\ rangeId = [c \in Client |-> NoId] /\ fileId = [c \in Client |-> NoId]
    /\ known = [c \in Client |-> {}]

(* START TRANSACTION; rangeId and fileId are not initialised: fileId is    *)
(* that of a file, or of none.                                             *)
Begin(c) ==
    /\ pc[c] = "start"
    /\ open' = [open EXCEPT ![c] = TRUE]
    /\ \E any \in {NoId} \cup {r.id : r \in db.files} : fileId' = [fileId EXCEPT ![c] = any]
    /\ known' = [known EXCEPT ![c] = {r.path : r \in db.files}]
    /\ Goto(c, "name")
    /\ UNCHANGED <<db, txn, view, nextId, plan, i, k, rangeId>>

InsertName(c) ==
    /\ pc[c] = "name" /\ Holders(c) = {}
    /\ \A r \in db.names : r.name # plan[c].name
    /\ Write(c, "names", [id |-> nextId.names, name |-> plan[c].name, init |-> FALSE])
    /\ rangeId' = [rangeId EXCEPT ![c] = nextId.names]
    /\ nextId' = [nextId EXCEPT !.names = @ + 1]
    /\ Goto(c, IF plan[c].files = <<>> THEN "update" ELSE "file")
    /\ UNCHANGED <<open, view, plan, i, k, fileId, known>>

(* The name is taken, or the wait for it times out. *)
NameRefused(c) ==
    /\ pc[c] = "name"
    /\ Holders(c) # {} \/ \E r \in db.names : r.name = plan[c].name
    /\ Goto(c, "fail")
    /\ UNCHANGED <<server, local>>

InsertFileKeepsId(c) ==      \* fault: the id of the new row is not fetched
    /\ pc[c] = "file" /\ Holders(c) = {}
    /\ \A r \in db.files : r.path # File(c).path
    /\ Write(c, "files", [id |-> nextId.files, path |-> File(c).path])
    /\ nextId' = [nextId EXCEPT !.files = @ + 1]
    /\ Goto(c, "junction")
    /\ UNCHANGED <<open, view, plan, i, k, rangeId, fileId, known>>

InsertFile(c) ==
    /\ pc[c] = "file" /\ Holders(c) = {}
    /\ \A r \in db.files : r.path # File(c).path
    /\ Write(c, "files", [id |-> nextId.files, path |-> File(c).path])
    /\ fileId' = [fileId EXCEPT ![c] = nextId.files]
    /\ nextId' = [nextId EXCEPT !.files = @ + 1]
    /\ Goto(c, "junction")
    /\ UNCHANGED <<open, view, plan, i, k, rangeId, known>>

(* Any failure gives -1 for the affected rows and is taken for a file that *)
(* exists: it does, or the wait for it timed out.                          *)
FileExists(c) ==
    /\ pc[c] = "file"
    /\ Holders(c) # {} \/ \E r \in db.files : r.path = File(c).path
    /\ Goto(c, "select")
    /\ UNCHANGED <<server, local>>

(* The same, when the whole transaction was rolled back. *)
Deadlock(c) ==
    /\ pc[c] = "file" /\ Deadlocked(c)
    /\ txn' = [txn EXCEPT ![c] = Nothing]
    /\ open' = [open EXCEPT ![c] = FALSE]
    /\ Goto(c, "select")
    /\ UNCHANGED <<db, view, nextId, local>>

(* What SELECT sees of table File. *)
Visible(c) ==
    IF open[c] /\ view[c] # {} THEN UNION view[c] ELSE db.files

SelectRetries(c) ==          \* fault: inserts again until the row is there
    /\ pc[c] = "select"
    /\ view' = [view EXCEPT ![c] = IF open[c] THEN {Visible(c)} ELSE {}]
    /\ \/ \E r \in Visible(c) : r.path = File(c).path /\ fileId' = [fileId EXCEPT ![c] = r.id]
                                /\ Goto(c, "junction")
       \/ /\ \A r \in Visible(c) : r.path # File(c).path
          /\ UNCHANGED fileId /\ Goto(c, "file")
    /\ UNCHANGED <<db, txn, open, nextId, plan, i, k, rangeId, known>>

(* Without a row fileId keeps its value. *)
SelectFile(c) ==
    /\ pc[c] = "select"
    /\ view' = [view EXCEPT ![c] = IF open[c] THEN {Visible(c)} ELSE {}]
    /\ \/ \E r \in Visible(c) : r.path = File(c).path /\ fileId' = [fileId EXCEPT ![c] = r.id]
       \/ (\A r \in Visible(c) : r.path # File(c).path) /\ UNCHANGED fileId
    /\ Goto(c, "junction")
    /\ UNCHANGED <<db, txn, open, nextId, plan, i, k, rangeId, known>>

(* The rows that the foreign keys of a new row may refer to. *)
Referable(c, table) == {r.id : r \in db[table] \cup txn[c][table]}

(* What comes after the last interval of a file. *)
FileDone(c) ==
    IF i[c] < Len(plan[c].files)
    THEN i' = [i EXCEPT ![c] = @ + 1] /\ Goto(c, "file")
    ELSE Goto(c, "update") /\ UNCHANGED i

JunctionUnchecked(c) ==      \* fault: no foreign keys
    /\ pc[c] = "junction"
    /\ Write(c, "junction", [range |-> rangeId[c], file |-> fileId[c], path |-> File(c).path])
    /\ k' = [k EXCEPT ![c] = File(c).its]
    /\ IF File(c).its > 0 THEN Goto(c, "offset") /\ UNCHANGED i ELSE FileDone(c)
    /\ UNCHANGED <<open, view, nextId, plan, rangeId, fileId, known>>

(* path is history: the file that was meant. *)
InsertJunction(c) ==
    /\ pc[c] = "junction"
    /\ rangeId[c] \in Referable(c, "names") /\ fileId[c] \in Referable(c, "files")
    /\ Write(c, "junction", [range |-> rangeId[c], file |-> fileId[c], path |-> File(c).path])
    /\ k' = [k EXCEPT ![c] = File(c).its]
    /\ IF File(c).its > 0 THEN Goto(c, "offset") /\ UNCHANGED i ELSE FileDone(c)
    /\ UNCHANGED <<open, view, nextId, plan, rangeId, fileId, known>>

JunctionRefused(c) ==
    /\ pc[c] = "junction"
    /\ rangeId[c] \notin Referable(c, "names") \/ fileId[c] \notin Referable(c, "files")
    /\ Goto(c, "fail")
    /\ UNCHANGED <<server, local>>

OffsetOneMore(c) ==          \* fault: one turn too many
    /\ pc[c] = "offset"
    /\ UNCHANGED <<db, txn>>
    /\ k' = [k EXCEPT ![c] = @ - 1]
    /\ IF k[c] >= 0 THEN UNCHANGED <<i, pc>> ELSE FileDone(c)
    /\ UNCHANGED <<open, view, nextId, plan, rangeId, fileId, known>>

(* An interval that cannot be inserted is only reported. *)
InsertOffset(c) ==
    /\ pc[c] = "offset"
    /\ \/ Write(c, "offsets", [range |-> rangeId[c], file |-> fileId[c], path |-> File(c).path, k |-> k[c]])
       \/ UNCHANGED <<db, txn>>
    /\ k' = [k EXCEPT ![c] = @ - 1]
    /\ IF k[c] > 1 THEN UNCHANGED <<i, pc>> ELSE FileDone(c)
    /\ UNCHANGED <<open, view, nextId, plan, rangeId, fileId, known>>

(* UPDATE ... SET Init = TRUE; no row is no error. *)
SetInit(c) ==
    /\ pc[c] = "update"
    /\ txn' = [txn EXCEPT ![c].names =
                  {IF r.id = rangeId[c] THEN [r EXCEPT !.init = TRUE] ELSE r : r \in @}]
    /\ Goto(c, "commit")
    /\ UNCHANGED <<db, open, view, nextId, local>>

Ended(c) ==
    /\ txn' = [txn EXCEPT ![c] = Nothing]
    /\ open' = [open EXCEPT ![c] = FALSE]
    /\ view' = [view EXCEPT ![c] = {}]

Commit(c) ==
    /\ pc[c] = "commit"
    /\ db' = Both(db, txn[c])
    /\ Ended(c)
    /\ Goto(c, "inserted")
    /\ UNCHANGED <<nextId, local>>

Rollback(c) ==
    /\ pc[c] = "fail"
    /\ Ended(c)
    /\ Goto(c, "failed")
    /\ UNCHANGED <<db, nextId, local>>

(* The connection or the process is lost: the server rolls back, and the   *)
(* next statement whose result is tested fails.  COMMIT may be lost after  *)
(* the server has done it.                                                 *)
Lose(c) ==
    /\ pc[c] \in Running
    /\ db' \in {db} \cup {Both(db, txn[d]) : d \in {c} \cap {e \in Client : pc[e] = "commit"}}
    /\ Ended(c)
    /\ Goto(c, "fail")
    /\ UNCHANGED <<nextId, local>>

Step(c) ==
    \/ InsertName(c) \/ NameRefused(c) \/ InsertFile(c) \/ FileExists(c) \/ Deadlock(c)
    \/ SelectFile(c) \/ InsertJunction(c) \/ JunctionRefused(c) \/ InsertOffset(c)
    \/ SetInit(c) \/ Commit(c) \/ Rollback(c)

Next == \E c \in Client : Begin(c) \/ Step(c) \/ Lose(c)

Spec == Init /\ [][Next]_vars

(* The server and the processes that talk to it go on.                     *)
FairSpec == Spec /\ \A c \in Client : WF_vars(Step(c))

-----------------------------------------------------------------------------
(* Properties *)

TypeOK ==
    /\ db \in Tables /\ txn \in [Client -> Tables]
    /\ view \in [Client -> SUBSET SUBSET [id : Nat, path : Path]]
    /\ nextId \in [names : Nat, files : Nat]
    /\ plan \in [Client -> Plans]
    /\ pc \in [Client -> Location] /\ open \in [Client -> BOOLEAN]
    /\ {i, k, rangeId, fileId} \subseteq [Client -> Nat]
    /\ known \in [Client -> SUBSET Path]
    /\ \A c \in Client : i[c] \in 1 .. Len(plan[c].files) + 1
    /\ \A c \in Client : ~open[c] => txn[c] = Nothing

Paths(c) == {plan[c].files[n].path : n \in 1..Len(plan[c].files)}

(* "Range %s inserted successfully" (main.c:196) or nothing: every range in *)
(* the tables is complete and marked so, one that is reported as inserted  *)
(* is there, and no row of one that is not is left, whoever fails, is      *)
(* rolled back or dies where.                                              *)
CreationIsAtomic ==
    /\ \A j \in db.junction \cup db.offsets : \E r \in db.names : r.id = j.range
    /\ \A r \in db.names : \E c \in Client :
          /\ r.init /\ r.id = rangeId[c] /\ r.name = plan[c].name
          /\ {j.path : j \in {j \in db.junction : j.range = r.id}} = Paths(c)
    /\ \A o \in db.offsets : \E j \in db.junction :
          j.range = o.range /\ j.file = o.file /\ j.path = o.path
    /\ \A c \in Client : pc[c] = "inserted" => \E r \in db.names : r.id = rangeId[c]

(* sql.c:441, "file already exists; grab its id": a range gets the id of   *)
(* another file than the one it names only if that file was not known when *)
(* the creation began and another process was creating it, too.            *)
RightFiles ==
    \A j \in db.junction : \A c \in Client :
        /\ rangeId[c] = j.range
        /\ j.path \in known[c] \/ \A d \in Client \ {c} : j.path \notin Paths(d)
        => \E f \in db.files : f.id = j.file /\ f.path = j.path

(* Nobody waits for ever: not on a key that another creation holds, not in *)
(* a circle, not for the id of a file.                                     *)
CreationEnds ==
    \A c \in Client : pc[c] \notin {"start", "inserted", "failed"} ~> pc[c] \in {"inserted", "failed"}
=============================================================================
