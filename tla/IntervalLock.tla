---------------------------- MODULE IntervalLock -----------------------------
(***************************************************************************)
(* How clients share one file: the offsets of its intervals in table       *)
(* Offset (sql.c), the interval locks in the folder <file>/interval of     *)
(* ZooKeeper (zkclient.c), and the places where the bytes of the intervals *)
(* really are in the file.                                                 *)
(*                                                                         *)
(* A client is one yacet process that opens one range with -r or -w:       *)
(*   1. query_select_named_range reads the rows of the range under share   *)
(*      locks, and range_file_add_it merges rows that touch;               *)
(*   2. zk_lock_intervals asks for one interval after the other: create    *)
(*      <id>-<seq>, list the children, read the offsets of the file, and   *)
(*      keep the lock if no conflicting interval has an older znode;       *)
(*   3. pull_swap_file copies the bytes at the positions read in step 1;   *)
(*   4. query_resize_file locks the rows FOR UPDATE, deletes the interval  *)
(*      locks, shifts the rows, rewrites the file and commits.             *)
(* Query 2 runs on the connection of step 1, and its START TRANSACTION     *)
(* commits step 1 and drops the share locks.                               *)
(*                                                                         *)
(* The master lock and the bytes themselves are not here: the file is      *)
(* written in one step, as a whole or in part, and the row of an interval  *)
(* in "file" is where its bytes are, until a failure has torn the file and *)
(* the table apart (torn).  Lost calls are in MasterLock, whose            *)
(* zk_acquire_lock is this one.                                            *)
(***************************************************************************)
EXTENDS RangeList, FiniteSets

CONSTANTS
    Client,      \* the processes that open a range of the file
    OffsetId,    \* the rows of the file in table Offset
    Wants,       \* Wants[c]: the ranges that c may open, as sets of rows
    Starts,      \* what the table may be at first: s[i] is [base, bound) of row i
    NewSizes,    \* the sizes an edit may give an interval
    CrashAt,     \* the locations at which a process may die
    NoClient     \* not a client

ASSUME IntervalLockAssumption ==
    /\ OffsetId \subseteq Nat
    /\ NoClient \notin Client
    /\ Wants \in [Client -> SUBSET SUBSET OffsetId]
    /\ Starts \subseteq [OffsetId -> [base : Nat, bound : Nat]]
    /\ \A s \in Starts, i \in OffsetId : s[i].base < s[i].bound
    /\ NewSizes \subseteq Nat

Attempts == 3    \* the "count < 3" of zk_acquire_lock

NoSeq == -1

VARIABLES
    off,         \* table Offset, committed
    txn,         \* table Offset as the open query_resize_file sees it, or off
    file,        \* where the bytes of each interval are in the file
    xlock,       \* who holds the rows FOR UPDATE, or NoClient
    slock,       \* whose first SELECT still holds its share locks
    znodes,      \* the children of <file>/interval
    nextSeq,     \* the sequence number of the next child
    pc,          \* where each client is
    mem,         \* its list of intervals: rf->it
    locked,      \* the ids of the list whose lock it holds
    lock_name,   \* lock_name[c][i]: its latest znode for i
    count,       \* the counter of the loop in zk_acquire_lock
    snap,        \* the children it listed last
    target,      \* the predecessor it is about to test
    todo,        \* the ids whose row it has not resized yet
    start,       \* history: the table at first
    crossed,     \* history: a resize was committed between the create of a
                 \* client's znode and its look at the offsets
    torn         \* history: a file was rewritten in part, or without COMMIT

db      == <<off, txn, file, xlock>>
zk      == <<znodes, nextSeq>>
request == <<lock_name, count, snap, target>>
history == <<start, crossed, torn>>
vars    == <<db, slock, zk, pc, mem, locked, request, todo, history>>

Locking  == {"create", "children", "query", "exists"}
Resizing == {"unlock", "update", "write", "commit"}
Location == Locking \cup Resizing \cup {"start", "pull", "edit", "close", "done", "closed"}

Interval == [base : Int, bound : Int]
Znode    == [seq : Nat, id : OffsetId, owner : Client]
ListNode == [id : OffsetId, base : Int, bound : Int]

-----------------------------------------------------------------------------
(* Helpers *)

Goto(c, l) == pc' = [pc EXCEPT ![c] = l]

ListIds(c) == {n.id : n \in mem[c]}

(* The first node, in list order, among those with an id in S; nodes of    *)
(* the same base come in the order of their keys.                          *)
Ahead(m, l) == m.base < l.base \/ (m.base = l.base /\ m.id <= l.id)

First(c, S) ==
    {n.id : n \in {m \in mem[c] : m.id \in S /\ \A l \in mem[c] : l.id \in S => Ahead(m, l)}}

Current(c) == First(c, ListIds(c) \ locked[c])

Exists(s) == \E z \in znodes : z.seq = s

(* _get_sorted_shifted_relevant_intervals: the listed znodes of the rows   *)
(* that conflict with row i in the table, now.                             *)
Relevant(c, i) == {z \in snap[c] : Conflict(off[i], off[z.id])}

AnyOf(S) == S            \* fault: older znodes are not looked for

Oldest(S) == {z \in S : \A y \in S : z.seq <= y.seq}

Predecessor(S, s) ==
    {z.seq : z \in {y \in S : y.seq < s /\ \A x \in S : x.seq < s => x.seq <= y.seq}}

-----------------------------------------------------------------------------
Init ==
    /\ start \in Starts /\ crossed = FALSE /\ torn = FALSE
    /\ off = start /\ txn = start /\ file = start
    /\ xlock = NoClient /\ slock = {}
    /\ znodes = {} /\ nextSeq = 0
    /\ pc = [c \in Client |-> "start"]
    /\ mem = [c \in Client |-> {}]
    /\ locked = [c \in Client |-> {}]
    /\ lock_name = [c \in Client |-> [i \in OffsetId |-> NoSeq]]
    /\ count = [c \in Client |-> 0]
    /\ snap = [c \in Client |-> {}]
    /\ target = [c \in Client |-> NoSeq]
    /\ todo = [c \in Client |-> {}]

-----------------------------------------------------------------------------
(* query_select_named_range and zk_lock_intervals *)

(* SELECT ... LOCK IN SHARE MODE waits for a writer of the rows. *)
Select(c) ==
    /\ pc[c] = "start"
    /\ xlock = NoClient
    /\ \E rows \in Wants[c] :
          /\ mem' = [mem EXCEPT ![c] = MergedList(off, rows)]
          /\ Goto(c, IF rows = {} THEN "pull" ELSE "create")
    /\ slock' = slock \cup {c}
    /\ UNCHANGED <<db, zk, locked, request, todo, history>>

CreateNode(c) ==
    /\ pc[c] = "create"
    /\ \E i \in Current(c) :
          /\ znodes' = znodes \cup {[seq |-> nextSeq, id |-> i, owner |-> c]}
          /\ lock_name' = [lock_name EXCEPT ![c][i] = nextSeq]
    /\ nextSeq' = nextSeq + 1
    /\ Goto(c, "children")
    /\ UNCHANGED <<db, slock, mem, locked, count, snap, target, todo, history>>

GetChildren(c) ==
    /\ pc[c] = "children"
    /\ snap' = [snap EXCEPT ![c] = znodes]
    /\ Goto(c, "query")
    /\ UNCHANGED <<db, slock, zk, mem, locked, lock_name, count, target, todo, history>>

(* The attempt failed: try again with a new znode, or give the range up.   *)
(* The process ends; the locks it has are left to its session.             *)
RetryCountsDown(c) ==    \* fault: the counter runs the wrong way
    /\ count' = [count EXCEPT ![c] = @ - 1]
    /\ Goto(c, "create")
    /\ UNCHANGED locked

Retry(c) ==
    IF count[c] + 1 < Attempts
    THEN /\ count' = [count EXCEPT ![c] = @ + 1]
         /\ Goto(c, "create")
         /\ UNCHANGED locked
    ELSE /\ Goto(c, "done")
         /\ locked' = [locked EXCEPT ![c] = {}]
         /\ UNCHANGED count

(* query_select_file_intervals waits for a writer of the rows, and its     *)
(* START TRANSACTION ends the transaction of Select.                       *)
CanQuery(c) == pc[c] = "query" /\ xlock = NoClient

QueryFrame(c) ==
    /\ slock' = slock \ {c}
    /\ snap' = [snap EXCEPT ![c] = {}]
    /\ UNCHANGED <<db, zk, mem, lock_name, todo, history>>

(* The list of relevant intervals is empty. *)
QueryEmpty(c) ==
    /\ CanQuery(c)
    /\ \E i \in Current(c) : Relevant(c, i) = {}
    /\ Retry(c)
    /\ UNCHANGED target
    /\ QueryFrame(c)

(* relevant_intervals.array[0]->sequence == cur_sequence *)
QueryGranted(c) ==
    /\ CanQuery(c)
    /\ \E i \in Current(c) :
          /\ \E z \in Oldest(Relevant(c, i)) : z.seq = lock_name[c][i]
          /\ locked' = [locked EXCEPT ![c] = @ \cup {i}]
          /\ Goto(c, IF ListIds(c) \subseteq locked[c] \cup {i} THEN "pull" ELSE "create")
    /\ count' = [count EXCEPT ![c] = 0]
    /\ UNCHANGED target
    /\ QueryFrame(c)

(* bsearch finds the own znode, and the one before it is to be tested.     *)
QueryBehind(c) ==
    /\ CanQuery(c)
    /\ \E i \in Current(c) :
          /\ \E z \in Relevant(c, i) : z.seq = lock_name[c][i]
          /\ \E s \in Predecessor(Relevant(c, i), lock_name[c][i]) :
                target' = [target EXCEPT ![c] = s]
    /\ Goto(c, "exists")
    /\ UNCHANGED <<locked, count>>
    /\ QueryFrame(c)

(* The own interval is not in a list that is not empty: bsearch returns    *)
(* NULL, and found_interval-- then dereferences an address below NULL.     *)
QueryDies(c) ==
    /\ CanQuery(c)
    /\ \E i \in Current(c) :
          /\ Relevant(c, i) # {}
          /\ \A z \in Relevant(c, i) : z.seq # lock_name[c][i]
    /\ locked' = [locked EXCEPT ![c] = {}]
    /\ Goto(c, "done")
    /\ UNCHANGED <<count, target>>
    /\ QueryFrame(c)

WaitForPredecessor(c) == \* fault: waits while the predecessor exists
    /\ pc[c] = "exists"
    /\ ~Exists(target[c]) /\ Retry(c)
    /\ target' = [target EXCEPT ![c] = NoSeq]
    /\ UNCHANGED <<db, slock, zk, mem, lock_name, snap, todo, history>>

(* zoo_exists on the predecessor: while it exists the interval is in use   *)
(* and the whole range is refused; when it is gone the attempt failed.     *)
TestPredecessor(c) ==
    /\ pc[c] = "exists"
    /\ \/ /\ Exists(target[c])
          /\ locked' = [locked EXCEPT ![c] = {}]
          /\ Goto(c, "done")
          /\ UNCHANGED count
       \/ ~Exists(target[c]) /\ Retry(c)
    /\ target' = [target EXCEPT ![c] = NoSeq]
    /\ UNCHANGED <<db, slock, zk, mem, lock_name, snap, todo, history>>

-----------------------------------------------------------------------------
(* The thread of the file *)

(* pull_swap_file, or a thread that fails before or in it and unlocks.     *)
Pull(c) ==
    /\ pc[c] = "pull"
    /\ Goto(c, "edit") \/ Goto(c, "close")
    /\ slock' = slock \ {c}
    /\ UNCHANGED <<db, zk, mem, locked, request, todo, history>>

(* zk_unlock_intervals deletes the znodes one by one. *)
Unlock(c, i) ==
    /\ i \in locked[c]
    /\ znodes' = {z \in znodes : z.seq # lock_name[c][i]}
    /\ locked' = [locked EXCEPT ![c] = @ \ {i}]
    /\ UNCHANGED nextSeq

(* Read mode, an editor that failed, or a resize that fails before it has  *)
(* locked the rows: the thread only unlocks.                               *)
Close(c) ==
    /\ pc[c] = "edit"
    /\ Goto(c, "close")
    /\ UNCHANGED <<db, slock, zk, mem, locked, request, todo, history>>

CloseUnlock(c) ==
    /\ pc[c] = "close"
    /\ \/ (\E i \in locked[c] : Unlock(c, i)) /\ UNCHANGED pc
       \/ locked[c] = {} /\ Goto(c, "done") /\ UNCHANGED <<zk, locked>>
    /\ UNCHANGED <<db, slock, mem, request, todo, history>>

(* START TRANSACTION; SELECT ... FOR UPDATE *)
BeginResize(c) ==
    /\ pc[c] = "edit"
    /\ xlock = NoClient /\ slock = {}
    /\ xlock' = c
    /\ txn' = off
    /\ todo' = [todo EXCEPT ![c] = ListIds(c)]
    /\ Goto(c, "unlock")
    /\ UNCHANGED <<off, file, slock, zk, mem, locked, request, history>>

(* zk_unlock_intervals, before the first UPDATE. *)
ResizeUnlock(c) ==
    /\ pc[c] = "unlock"
    /\ \/ (\E i \in locked[c] : Unlock(c, i)) /\ UNCHANGED pc
       \/ locked[c] = {} /\ Goto(c, "update") /\ UNCHANGED <<zk, locked>>
    /\ UNCHANGED <<db, slock, mem, request, todo, history>>

(* One turn of it_foreach: the UPDATE for the next interval of the list.   *)
Update(c) ==
    /\ pc[c] = "update"
    /\ \/ /\ \E i \in First(c, todo[c]), ns \in NewSizes :
                /\ txn' = [j \in OffsetId |-> Moved(txn[j], txn[i], j # i, ns)]
                /\ todo' = [todo EXCEPT ![c] = @ \ {i}]
          /\ UNCHANGED pc
       \/ todo[c] = {} /\ Goto(c, "write") /\ UNCHANGED <<txn, todo>>
    /\ UNCHANGED <<off, file, xlock, slock, zk, mem, locked, request, history>>

(* A statement fails (a deadlock, a lost connection), or write_offset_     *)
(* update does before it has touched the file: no master lock, no file to  *)
(* open.  push_swap_file reports success all the same.                     *)
RollBackForgotten(c) ==  \* fault: the transaction stays open
    /\ pc[c] \in {"update", "write"}
    /\ Goto(c, "done")
    /\ UNCHANGED <<db, slock, zk, mem, locked, request, todo, history>>

Abandon(c) ==
    /\ xlock' = NoClient
    /\ txn' = off
    /\ todo' = [todo EXCEPT ![c] = {}]
    /\ Goto(c, "done")

RollBack(c) ==
    /\ pc[c] \in {"update", "write"}
    /\ Abandon(c)
    /\ UNCHANGED <<off, file, slock, zk, mem, locked, request, history>>

(* Where the bytes are in a torn file is not followed any further.         *)
Nowhere == [i \in OffsetId |-> [base |-> 0, bound |-> 0]]

(* write_offset_update rewrites the file. *)
WriteFile(c) ==
    /\ pc[c] = "write"
    /\ file' = IF torn THEN Nowhere ELSE txn
    /\ Goto(c, "commit")
    /\ UNCHANGED <<off, txn, xlock, slock, zk, mem, locked, request, todo, history>>

(* Behind the point of no return only some of the bytes are written.  A    *)
(* sendfile that stops short passes for a success; one that fails rolls    *)
(* the rows back, not the file.                                            *)
WriteInPart(c) ==
    /\ pc[c] = "write"
    /\ file' = Nowhere
    /\ torn' = TRUE
    /\ \/ Goto(c, "commit") /\ UNCHANGED <<xlock, txn, todo>>
       \/ Abandon(c)
    /\ UNCHANGED <<off, slock, zk, mem, locked, request, start, crossed>>

CommitLost(c) ==         \* fault: ROLLBACK where COMMIT is due
    /\ pc[c] = "commit"
    /\ Abandon(c)
    /\ UNCHANGED <<off, file, slock, zk, mem, locked, request, history>>

Commit(c) ==
    /\ pc[c] = "commit"
    /\ off' = txn
    /\ xlock' = NoClient
    /\ crossed' = (crossed \/ \E d \in Client : pc[d] \in {"children", "query"})
    /\ Goto(c, "done")
    /\ UNCHANGED <<txn, file, slock, zk, mem, locked, request, todo, start, torn>>

(* COMMIT fails and the rows are rolled back; the file has been rewritten. *)
CommitFails(c) ==
    /\ pc[c] = "commit"
    /\ torn' = TRUE
    /\ Abandon(c)
    /\ UNCHANGED <<off, file, slock, zk, mem, locked, request, start, crossed>>

-----------------------------------------------------------------------------
(* The process dies: its transactions are rolled back, its znodes stay.    *)
Crash(c) ==
    /\ pc[c] \in CrashAt \ {"done", "closed"}
    /\ \/ xlock = c /\ Abandon(c)
       \/ xlock # c /\ Goto(c, "done") /\ UNCHANGED <<xlock, txn, todo>>
    /\ slock' = slock \ {c}
    /\ locked' = [locked EXCEPT ![c] = {}]
    /\ torn' = (torn \/ pc[c] = "commit")
    /\ UNCHANGED <<off, file, zk, mem, request, start, crossed>>

(* ZooKeeper ends the session of a process that is over. *)
SessionEnd(c) ==
    /\ pc[c] = "done"
    /\ znodes' = {z \in znodes : z.owner # c}
    /\ Goto(c, "closed")
    /\ UNCHANGED <<db, slock, nextSeq, mem, locked, request, todo, history>>

-----------------------------------------------------------------------------
(* What a process does on its own; the user decides when the editor ends.  *)
Step(c) ==
    \/ Select(c) \/ CreateNode(c) \/ GetChildren(c)
    \/ QueryEmpty(c) \/ QueryGranted(c) \/ QueryBehind(c) \/ QueryDies(c)
    \/ TestPredecessor(c) \/ Pull(c) \/ CloseUnlock(c)
    \/ ResizeUnlock(c) \/ Update(c) \/ RollBack(c)
    \/ WriteFile(c) \/ WriteInPart(c) \/ Commit(c) \/ CommitFails(c)

Next ==
    \E c \in Client : Step(c) \/ Close(c) \/ BeginResize(c) \/ Crash(c) \/ SessionEnd(c)

Spec == Init /\ [][Next]_vars

FairSpec == Spec /\ \A c \in Client : WF_vars(Step(c))

-----------------------------------------------------------------------------
(* Properties *)

TypeOK ==
    /\ off \in [OffsetId -> Interval] /\ txn \in [OffsetId -> Interval]
    /\ file \in [OffsetId -> Interval]
    /\ xlock \in Client \cup {NoClient} /\ slock \subseteq Client
    /\ znodes \subseteq Znode /\ nextSeq \in Nat
    /\ pc \in [Client -> Location]
    /\ mem \in [Client -> SUBSET ListNode]
    /\ locked \in [Client -> SUBSET OffsetId]
    /\ lock_name \in [Client -> [OffsetId -> Nat \cup {NoSeq}]]
    /\ count \in [Client -> Nat] /\ crossed \in BOOLEAN /\ torn \in BOOLEAN
    /\ start \in [OffsetId -> Interval]
    /\ snap \in [Client -> SUBSET Znode]
    /\ target \in [Client -> Nat \cup {NoSeq}]
    /\ todo \in [Client -> SUBSET OffsetId]

(* Intervals of the file that have no byte in common.                      *)
AllApart == \A i, j \in OffsetId : i # j => ~Conflict(start[i], start[j])

(* zkclient.c:462, "there are no conflicting locks - client has lock":     *)
(* nobody else has a lock on the same row, and the locks held at any time, *)
(* by different clients or on different rows, are on disjoint parts of the *)
(* file as the committed offsets describe it.  The latter is asked of a    *)
(* file whose intervals were disjoint when they were created, and of any   *)
(* file as long as no resize was committed between a client's znode and    *)
(* its look at the offsets: the znodes are ranked by age, which says       *)
(* nothing of rows that began to overlap after they were made.             *)
LocksExclude ==
    /\ \A c, d \in Client : c # d => locked[c] \cap locked[d] = {}
    /\ AllApart \/ ~crossed =>
          \A c, d \in Client : \A i \in locked[c], j \in locked[d] :
             <<c, i>> # <<d, j>> => ~Conflict(off[i], off[j])

(* Nobody else can stretch, shrink or empty an interval under the client   *)
(* that has it locked: as long as the locks exclude one another, a locked  *)
(* interval keeps its size until its own client resizes it.                *)
LockedKeepsSize ==
    [][AllApart \/ ~crossed =>
          \A c \in Client : \A i \in locked[c] \cap locked'[c] :
             off'[i].bound - off'[i].base = off[i].bound - off[i].base]_vars

(* The committed offsets point at the bytes of the intervals whenever no   *)
(* transaction is open on them, whatever resizes were rolled back, after   *)
(* any of their UPDATEs, and whoever has died.  The file is not part of    *)
(* the transaction: this is not asked after a process died between writing *)
(* the file and COMMIT, or COMMIT failed there, or the file was written in *)
(* part only.  The code cannot undo any of these, and does not notice.     *)
RowsMatchFile == xlock = NoClient /\ ~torn => off = file

(* Every request for the locks of a range is answered: it never waits for  *)
(* ever on a transaction, on another process or on its own old znodes.     *)
RequestEnds == \A c \in Client : pc[c] \in Locking ~> pc[c] \notin Locking

(* A resize that has started ends and frees the rows of the file.          *)
ResizeEnds == xlock # NoClient ~> xlock = NoClient

(* help.h:14-18, "Open specified range": the bytes that a client copies    *)
(* between its oracles are those of the intervals of its range, in a file  *)
(* that no failure has torn.                                               *)
PullsItsIntervals ==
    [][\A c \in Client : pc[c] = "pull" /\ pc'[c] = "edit" /\ ~torn =>
          \A n \in mem[c] : n.base = file[n.id].base]_vars
=============================================================================
