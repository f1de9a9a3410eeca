-------------------------- MODULE IntervalLockProofs --------------------------
(***************************************************************************)
(* What the interval locks guarantee, for any clients, any ranges and any  *)
(* table of offsets.                                                       *)
(***************************************************************************)
EXTENDS IntervalLock, TLAPS

-----------------------------------------------------------------------------
(* What the UPDATE of QUERY_RESIZE_FILE (sql.c:119-132) does to one row or *)
(* to two.                                                                 *)

(* A row beside the edited one moves as a whole or not at all.             *)
LEMMA BesideMovesWhole ==
  ASSUME NEW r, NEW e, NEW ns \in Nat,
         r.base \in Int, r.bound \in Int, e.base \in Int, e.bound \in Int,
         r.base < r.bound, e.base < e.bound, ~Conflict(r, e)
  PROVE  LET m == Moved(r, e, TRUE, ns) IN
         \/ r.bound <= e.base /\ m.base = r.base /\ m.bound = r.bound
         \/ /\ r.base >= e.bound
            /\ m.base = r.base + Change(e, ns) /\ m.bound = r.bound + Change(e, ns)
  BY DEF Conflict, Moved, NewBase, NewBound, Change

(* Two rows that overlap neither one another nor the edited one stay apart *)
(* and keep their sizes.                                                   *)
LEMMA BesideStayApart ==
  ASSUME NEW r, NEW s, NEW e, NEW ns \in Nat,
         r.base \in Int, r.bound \in Int, s.base \in Int, s.bound \in Int,
         e.base \in Int, e.bound \in Int,
         r.base < r.bound, s.base < s.bound, e.base < e.bound,
         ~Conflict(r, e), ~Conflict(s, e), ~Conflict(r, s)
  PROVE  LET m == Moved(r, e, TRUE, ns)
             n == Moved(s, e, TRUE, ns) IN
         m.bound - m.base = r.bound - r.base /\ ~Conflict(m, n)
  BY DEF Conflict, Moved, NewBase, NewBound, Change

(* Rows that lie one after the other, perhaps empty, stay in this order,   *)
(* if the edited one is one of them or lies beside both.                   *)
LEMMA OrderStays ==
  ASSUME NEW r, NEW s, NEW e, NEW o \in BOOLEAN, NEW p \in BOOLEAN, NEW ns \in Nat,
         r.base \in Int, r.bound \in Int, s.base \in Int, s.bound \in Int,
         e.base \in Int, e.bound \in Int, e.base < e.bound,
         r.base <= r.bound, r.bound <= s.base, s.base <= s.bound,
         IF o THEN r.bound <= e.base \/ e.bound <= r.base ELSE r = e,
         IF p THEN s.bound <= e.base \/ e.bound <= s.base ELSE s = e
  PROVE  Moved(r, e, o, ns).bound <= Moved(s, e, p, ns).base
  BY DEF Moved, NewBase, NewBound, Change

(* No row is turned inside out.                                            *)
LEMMA MovedUpright ==
  ASSUME NEW r, NEW e, NEW o \in BOOLEAN, NEW ns \in Nat,
         r.base \in Int, r.bound \in Int, e.base \in Int, e.bound \in Int,
         r.base <= r.bound, e.base < e.bound,
         IF o THEN r.bound <= e.base \/ e.bound <= r.base ELSE r = e
  PROVE  Moved(r, e, o, ns).base <= Moved(r, e, o, ns).bound
  BY DEF Moved, NewBase, NewBound, Change

-----------------------------------------------------------------------------
(* Facts about the operators of the module *)

LEMMA ListType ==
  ASSUME NEW rows \in SUBSET OffsetId, off \in [OffsetId -> Interval]
  PROVE  MergedList(off, rows) \in SUBSET ListNode
<1>1. ASSUME NEW i \in OffsetId PROVE off[i].base \in Int /\ off[i].bound \in Int
  BY DEF Interval
<1> QED BY <1>1 DEF MergedList, Lead, ListNode

LEMMA FirstAmong ==
  ASSUME NEW c, NEW S PROVE First(c, S) \subseteq S
  BY DEF First

LEMMA CurrentType ==
  ASSUME NEW c PROVE Current(c) \subseteq ListIds(c) /\ Current(c) \cap locked[c] = {}
  BY DEF Current, First, ListIds

LEMMA MovedType ==
  ASSUME NEW r \in Interval, NEW e \in Interval, NEW other \in BOOLEAN, NEW ns \in Nat
  PROVE  Moved(r, e, other, ns) \in Interval
  BY DEF Interval, Moved, NewBase, NewBound, Change

LEMMA ListIdsType ==
  ASSUME TypeOK, NEW c \in Client PROVE ListIds(c) \subseteq OffsetId
  BY DEF TypeOK, ListIds, ListNode

-----------------------------------------------------------------------------
LEMMA TypeInit == Init => TypeOK
<1> SUFFICES ASSUME Init PROVE TypeOK
  OBVIOUS
<1>1. start \in [OffsetId -> Interval]
  BY IntervalLockAssumption DEF Init, Interval
<1> QED BY <1>1 DEF Init, TypeOK, Location, NoSeq

(* What the locking protocol of one client does to the types.              *)
LEMMA RetryType ==
  ASSUME TypeOK, NEW c \in Client, Retry(c)
  PROVE  /\ pc' \in [Client -> Location] /\ count' \in [Client -> Nat]
         /\ locked' \in [Client -> SUBSET OffsetId]
<1>1. CASE count[c] + 1 < Attempts
  <2>1. count[c] + 1 \in Nat
    BY DEF TypeOK
  <2>2. count' = [count EXCEPT ![c] = count[c] + 1] /\ Goto(c, "create") /\ locked' = locked
    BY <1>1 DEF Retry
  <2> HIDE <1>1
  <2> QED BY <2>1, <2>2 DEF TypeOK, Goto, Location, Locking
<1>2. CASE ~(count[c] + 1 < Attempts)
  BY <1>2 DEF TypeOK, Retry, Goto, Location
<1> QED BY <1>1, <1>2

LEMMA UnlockType ==
  ASSUME TypeOK, NEW c \in Client, NEW i, Unlock(c, i)
  PROVE  /\ znodes' \subseteq Znode /\ nextSeq' \in Nat
         /\ locked' \in [Client -> SUBSET OffsetId]
  BY DEF TypeOK, Unlock

LEMMA TypeStep == TypeOK /\ [Next]_vars => TypeOK'
<1> SUFFICES ASSUME TypeOK, [Next]_vars PROVE TypeOK'
  OBVIOUS
<1> USE DEF db, zk, request, history, Goto, Location, Locking, Resizing
<1>s. ASSUME NEW c \in Client, Select(c) PROVE TypeOK'
  <2>1. PICK rows \in Wants[c] :
           /\ mem' = [mem EXCEPT ![c] = MergedList(off, rows)]
           /\ Goto(c, IF rows = {} THEN "pull" ELSE "create")
    BY <1>s DEF Select
  <2>2. rows \in SUBSET OffsetId
    BY IntervalLockAssumption
  <2>3. mem' \in [Client -> SUBSET ListNode] /\ pc' \in [Client -> Location]
    BY <2>1, <2>2, ListType DEF TypeOK
  <2> QED BY <1>s, <2>3 DEF Select, TypeOK
<1>c. ASSUME NEW c \in Client, CreateNode(c) PROVE TypeOK'
  <2>1. PICK i \in Current(c) :
           /\ znodes' = znodes \cup {[seq |-> nextSeq, id |-> i, owner |-> c]}
           /\ lock_name' = [lock_name EXCEPT ![c][i] = nextSeq]
    BY <1>c DEF CreateNode
  <2>2. i \in OffsetId
    BY CurrentType, ListIdsType
  <2>3. /\ znodes' \subseteq Znode
        /\ lock_name' \in [Client -> [OffsetId -> Nat \cup {NoSeq}]]
    BY <2>1, <2>2 DEF TypeOK, Znode
  <2> QED BY <1>c, <2>3 DEF CreateNode, TypeOK
<1>g. ASSUME NEW c \in Client, GetChildren(c) PROVE TypeOK'
  BY <1>g DEF GetChildren, TypeOK
<1>e. ASSUME NEW c \in Client, QueryEmpty(c) PROVE TypeOK'
  BY <1>e, RetryType DEF QueryEmpty, QueryFrame, TypeOK
<1>a. ASSUME NEW c \in Client, QueryGranted(c) PROVE TypeOK'
  <2>1. PICK i \in Current(c) :
          /\ locked' = [locked EXCEPT ![c] = @ \cup {i}]
          /\ Goto(c, IF ListIds(c) \subseteq locked[c] \cup {i} THEN "pull" ELSE "create")
    BY <1>a DEF QueryGranted
  <2>2. i \in OffsetId
    BY CurrentType, ListIdsType
  <2>3. locked' \in [Client -> SUBSET OffsetId] /\ pc' \in [Client -> Location]
    BY <2>1, <2>2 DEF TypeOK
  <2> QED BY <1>a, <2>3 DEF QueryGranted, QueryFrame, TypeOK
<1>b. ASSUME NEW c \in Client, QueryBehind(c) PROVE TypeOK'
  <2>1. PICK i \in Current(c) :
          \E s \in Predecessor(Relevant(c, i), lock_name[c][i]) : target' = [target EXCEPT ![c] = s]
    BY <1>b DEF QueryBehind
  <2>2. PICK z \in Relevant(c, i) : target' = [target EXCEPT ![c] = z.seq]
    BY <2>1 DEF Predecessor
  <2>3. z.seq \in Nat
    BY <2>2 DEF Relevant, TypeOK, Znode
  <2> QED BY <1>b, <2>2, <2>3 DEF QueryBehind, QueryFrame, TypeOK
<1>d. ASSUME NEW c \in Client, QueryDies(c) PROVE TypeOK'
  BY <1>d DEF QueryDies, QueryFrame, TypeOK
<1>t. ASSUME NEW c \in Client, TestPredecessor(c) PROVE TypeOK'
  <2>1. /\ pc' \in [Client -> Location] /\ count' \in [Client -> Nat]
        /\ locked' \in [Client -> SUBSET OffsetId]
    BY <1>t, RetryType DEF TestPredecessor, TypeOK
  <2> QED BY <1>t, <2>1 DEF TestPredecessor, TypeOK
<1>p. ASSUME NEW c \in Client, Pull(c) PROVE TypeOK'
  BY <1>p DEF Pull, TypeOK
<1>x. ASSUME NEW c \in Client, CloseUnlock(c) PROVE TypeOK'
  <2>1. /\ znodes' \subseteq Znode /\ nextSeq' \in Nat
        /\ locked' \in [Client -> SUBSET OffsetId]
    BY <1>x, UnlockType DEF CloseUnlock, TypeOK
  <2> QED BY <1>x, <2>1 DEF CloseUnlock, TypeOK
<1>r. ASSUME NEW c \in Client, ResizeUnlock(c) PROVE TypeOK'
  <2>1. /\ znodes' \subseteq Znode /\ nextSeq' \in Nat
        /\ locked' \in [Client -> SUBSET OffsetId]
    BY <1>r, UnlockType DEF ResizeUnlock, TypeOK
  <2> QED BY <1>r, <2>1 DEF ResizeUnlock, TypeOK
<1>u. ASSUME NEW c \in Client, Update(c) PROVE TypeOK'
  <2>1. CASE \E i \in First(c, todo[c]), ns \in NewSizes :
                /\ txn' = [j \in OffsetId |-> Moved(txn[j], txn[i], j # i, ns)]
                /\ todo' = [todo EXCEPT ![c] = @ \ {i}]
    <3>1. PICK i \in First(c, todo[c]), ns \in NewSizes :
                /\ txn' = [j \in OffsetId |-> Moved(txn[j], txn[i], j # i, ns)]
                /\ todo' = [todo EXCEPT ![c] = @ \ {i}]
      BY <2>1
    <3>2. i \in OffsetId /\ ns \in Nat
      BY FirstAmong, IntervalLockAssumption DEF TypeOK
    <3>3. ASSUME NEW j \in OffsetId PROVE Moved(txn[j], txn[i], j # i, ns) \in Interval
      BY <3>2, MovedType DEF TypeOK
    <3>4. txn' \in [OffsetId -> Interval]
      BY <3>1, <3>3
    <3>5. todo' \in [Client -> SUBSET OffsetId] /\ pc' \in [Client -> Location]
      BY <1>u, <3>1 DEF Update, TypeOK
    <3> QED BY <1>u, <3>4, <3>5 DEF Update, TypeOK
  <2>2. CASE todo[c] = {} /\ Goto(c, "write") /\ UNCHANGED <<txn, todo>>
    BY <1>u, <2>2 DEF Update, TypeOK
  <2> QED BY <1>u, <2>1, <2>2 DEF Update
<1>f. Nowhere \in [OffsetId -> Interval]
  BY DEF Nowhere, Interval
<1>k. ASSUME NEW c \in Client, RollBack(c) PROVE TypeOK'
  BY <1>k DEF RollBack, Abandon, TypeOK
<1>w. ASSUME NEW c \in Client, WriteFile(c) PROVE TypeOK'
  BY <1>f, <1>w DEF WriteFile, TypeOK
<1>v. ASSUME NEW c \in Client, WriteInPart(c) PROVE TypeOK'
  BY <1>f, <1>v DEF WriteInPart, Abandon, TypeOK
<1>o. ASSUME NEW c \in Client, CommitFails(c) PROVE TypeOK'
  BY <1>o DEF CommitFails, Abandon, TypeOK
<1>m. ASSUME NEW c \in Client, Commit(c) PROVE TypeOK'
  BY <1>m DEF Commit, TypeOK
<1>l. ASSUME NEW c \in Client, Close(c) PROVE TypeOK'
  BY <1>l DEF Close, TypeOK
<1>z. ASSUME NEW c \in Client, BeginResize(c) PROVE TypeOK'
  BY <1>z, ListIdsType DEF BeginResize, TypeOK
<1>h. ASSUME NEW c \in Client, Crash(c) PROVE TypeOK'
  BY <1>h DEF Crash, Abandon, TypeOK
<1>n. ASSUME NEW c \in Client, SessionEnd(c) PROVE TypeOK'
  BY <1>n DEF SessionEnd, TypeOK
<1>y. CASE UNCHANGED vars
  BY <1>y DEF vars, TypeOK
<1> QED BY <1>s, <1>c, <1>g, <1>e, <1>a, <1>b, <1>d, <1>t, <1>p, <1>x, <1>r, <1>u, <1>k, <1>w,
           <1>v, <1>m, <1>o, <1>l, <1>z, <1>h, <1>n, <1>y DEF Next, Step

(* Every variable of the protocol keeps its form (zkclient.c:172-335,      *)
(* 446-630, sql.c:479-558).                                                *)
THEOREM TypeCorrect == Spec => []TypeOK
  BY TypeInit, TypeStep, PTL DEF Spec

-----------------------------------------------------------------------------
(* The phases of a client: what it has locked, and that the rows of the    *)
(* file are locked FOR UPDATE as long as it resizes, by nobody else.       *)

PhasesInv ==
    /\ \A c \in Client :
          /\ pc[c] \in {"start", "update", "write", "commit", "done", "closed"} => locked[c] = {}
          /\ pc[c] \in {"pull", "edit"} => ListIds(c) \subseteq locked[c]
          /\ pc[c] \in Resizing => xlock = c
    /\ xlock # NoClient => xlock \in Client /\ pc[xlock] \in Resizing

LEMMA PhasesInit == Init => PhasesInv
  BY DEF Init, PhasesInv, Resizing

(* What a failed attempt does: the client tries again, or is over.         *)
LEMMA RetryEnds ==
  ASSUME NEW c, Retry(c)
  PROVE  \/ Goto(c, "create") /\ locked' = locked
         \/ Goto(c, "done") /\ locked' = [locked EXCEPT ![c] = {}]
  BY DEF Retry

LEMMA PhasesStep == TypeOK /\ PhasesInv /\ [Next]_vars => PhasesInv'
<1> SUFFICES ASSUME TypeOK, PhasesInv, [Next]_vars PROVE PhasesInv'
  OBVIOUS
<1> USE IntervalLockAssumption DEF db, zk, request, Goto, Resizing
<1>s. ASSUME NEW c \in Client, Select(c) PROVE PhasesInv'
  <2>1. PICK rows \in Wants[c] :
           /\ mem' = [mem EXCEPT ![c] = MergedList(off, rows)]
           /\ Goto(c, IF rows = {} THEN "pull" ELSE "create")
    BY <1>s DEF Select
  <2>2. rows = {} => ListIds(c)' = {}
    BY <2>1 DEF TypeOK, ListIds, MergedList, Lead
  <2>3. ASSUME NEW d \in Client, d # c PROVE ListIds(d)' = ListIds(d)
    BY <2>1, <2>3 DEF TypeOK, ListIds
  <2>4. pc[c] = "start" /\ locked' = locked /\ xlock = NoClient /\ xlock' = NoClient
    BY <1>s DEF Select
  <2>5. pc' = [pc EXCEPT ![c] = IF rows = {} THEN "pull" ELSE "create"]
    BY <2>1
  <2> QED BY <2>2, <2>3, <2>4, <2>5 DEF PhasesInv, TypeOK
<1>c. ASSUME NEW c \in Client, CreateNode(c) PROVE PhasesInv'
  BY <1>c DEF CreateNode, PhasesInv, TypeOK, ListIds
<1>g. ASSUME NEW c \in Client, GetChildren(c) PROVE PhasesInv'
  BY <1>g DEF GetChildren, PhasesInv, TypeOK, ListIds
<1>e. ASSUME NEW c \in Client, QueryEmpty(c) PROVE PhasesInv'
  <2>1. \/ Goto(c, "create") /\ locked' = locked
        \/ Goto(c, "done") /\ locked' = [locked EXCEPT ![c] = {}]
    BY <1>e, RetryEnds DEF QueryEmpty
  <2> QED BY <1>e, <2>1 DEF QueryEmpty, PhasesInv, TypeOK, ListIds, QueryFrame, CanQuery
<1>a. ASSUME NEW c \in Client, QueryGranted(c) PROVE PhasesInv'
  BY <1>a DEF QueryGranted, PhasesInv, TypeOK, ListIds, QueryFrame, CanQuery
<1>b. ASSUME NEW c \in Client, QueryBehind(c) PROVE PhasesInv'
  BY <1>b DEF QueryBehind, PhasesInv, TypeOK, ListIds, QueryFrame, CanQuery
<1>d. ASSUME NEW c \in Client, QueryDies(c) PROVE PhasesInv'
  BY <1>d DEF QueryDies, PhasesInv, TypeOK, ListIds, QueryFrame, CanQuery
<1>t. ASSUME NEW c \in Client, TestPredecessor(c) PROVE PhasesInv'
  <2>1. \/ Goto(c, "create") /\ locked' = locked
        \/ Goto(c, "done") /\ locked' = [locked EXCEPT ![c] = {}]
    BY <1>t, RetryEnds DEF TestPredecessor
  <2> QED BY <1>t, <2>1 DEF TestPredecessor, PhasesInv, TypeOK, ListIds
<1>p. ASSUME NEW c \in Client, Pull(c) PROVE PhasesInv'
  BY <1>p DEF Pull, PhasesInv, TypeOK, ListIds
<1>x. ASSUME NEW c \in Client, CloseUnlock(c) PROVE PhasesInv'
  <2>1. CASE locked[c] = {} /\ Goto(c, "done") /\ UNCHANGED <<zk, locked>>
    BY <1>x, <2>1 DEF CloseUnlock, PhasesInv, TypeOK, ListIds
  <2>2. CASE (\E i \in locked[c] : Unlock(c, i)) /\ UNCHANGED pc
    BY <1>x, <2>2 DEF CloseUnlock, Unlock, PhasesInv, TypeOK, ListIds
  <2> QED BY <1>x, <2>1, <2>2 DEF CloseUnlock
<1>r. ASSUME NEW c \in Client, ResizeUnlock(c) PROVE PhasesInv'
  <2>1. CASE locked[c] = {} /\ Goto(c, "update") /\ UNCHANGED <<zk, locked>>
    BY <1>r, <2>1 DEF ResizeUnlock, PhasesInv, TypeOK, ListIds
  <2>2. CASE (\E i \in locked[c] : Unlock(c, i)) /\ UNCHANGED pc
    BY <1>r, <2>2 DEF ResizeUnlock, Unlock, PhasesInv, TypeOK, ListIds
  <2> QED BY <1>r, <2>1, <2>2 DEF ResizeUnlock
<1>u. ASSUME NEW c \in Client, Update(c) PROVE PhasesInv'
  BY <1>u DEF Update, PhasesInv, TypeOK, ListIds
<1>k. ASSUME NEW c \in Client, RollBack(c) PROVE PhasesInv'
  BY <1>k DEF RollBack, Abandon, PhasesInv, TypeOK, ListIds
<1>v. ASSUME NEW c \in Client, WriteInPart(c) PROVE PhasesInv'
  BY <1>v DEF WriteInPart, Abandon, PhasesInv, TypeOK, ListIds
<1>o. ASSUME NEW c \in Client, CommitFails(c) PROVE PhasesInv'
  BY <1>o DEF CommitFails, Abandon, PhasesInv, TypeOK, ListIds
<1>w. ASSUME NEW c \in Client, WriteFile(c) PROVE PhasesInv'
  BY <1>w DEF WriteFile, PhasesInv, TypeOK, ListIds
<1>m. ASSUME NEW c \in Client, Commit(c) PROVE PhasesInv'
  BY <1>m DEF Commit, PhasesInv, TypeOK, ListIds
<1>l. ASSUME NEW c \in Client, Close(c) PROVE PhasesInv'
  BY <1>l DEF Close, PhasesInv, TypeOK, ListIds
<1>z. ASSUME NEW c \in Client, BeginResize(c) PROVE PhasesInv'
  BY <1>z DEF BeginResize, PhasesInv, TypeOK, ListIds
<1>h. ASSUME NEW c \in Client, Crash(c) PROVE PhasesInv'
  BY <1>h DEF Crash, Abandon, PhasesInv, TypeOK, ListIds
<1>n. ASSUME NEW c \in Client, SessionEnd(c) PROVE PhasesInv'
  BY <1>n DEF SessionEnd, PhasesInv, TypeOK, ListIds
<1>y. CASE UNCHANGED vars
  BY <1>y DEF vars, PhasesInv, ListIds
<1> QED BY <1>s, <1>c, <1>g, <1>e, <1>a, <1>b, <1>d, <1>t, <1>p, <1>x, <1>r, <1>u, <1>k, <1>w,
           <1>v, <1>m, <1>o, <1>l, <1>z, <1>h, <1>n, <1>y DEF Next, Step

-----------------------------------------------------------------------------
(* The table and the file.  While a client resizes, the committed rows     *)
(* describe the file until it is written, and its own rows do from then    *)
(* on; all this until the file is torn.                                    *)

TableInv ==
    ~torn =>
       /\ xlock = NoClient => off = file
       /\ \A c \in Client :
             /\ pc[c] \in {"unlock", "update", "write"} => off = file
             /\ pc[c] = "commit" => file = txn

LEMMA TableInit == Init => TableInv
  BY DEF Init, TableInv

LEMMA TableStep ==
  ASSUME TypeOK, PhasesInv, TableInv, [Next]_vars
  PROVE  TableInv'
<1> USE IntervalLockAssumption DEF db, zk, request, history, Goto, Resizing
<1>s. ASSUME NEW c \in Client, Select(c) PROVE TableInv'
  BY <1>s DEF Select, TableInv, PhasesInv, TypeOK
<1>c. ASSUME NEW c \in Client, CreateNode(c) PROVE TableInv'
  BY <1>c DEF CreateNode, TableInv, PhasesInv, TypeOK
<1>g. ASSUME NEW c \in Client, GetChildren(c) PROVE TableInv'
  BY <1>g DEF GetChildren, TableInv, PhasesInv, TypeOK
<1>e. ASSUME NEW c \in Client, QueryEmpty(c) PROVE TableInv'
  BY <1>e, RetryEnds DEF QueryEmpty, TableInv, PhasesInv, TypeOK, QueryFrame, CanQuery
<1>a. ASSUME NEW c \in Client, QueryGranted(c) PROVE TableInv'
  BY <1>a DEF QueryGranted, TableInv, PhasesInv, TypeOK, QueryFrame, CanQuery
<1>b. ASSUME NEW c \in Client, QueryBehind(c) PROVE TableInv'
  BY <1>b DEF QueryBehind, TableInv, PhasesInv, TypeOK, QueryFrame, CanQuery
<1>d. ASSUME NEW c \in Client, QueryDies(c) PROVE TableInv'
  BY <1>d DEF QueryDies, TableInv, PhasesInv, TypeOK, QueryFrame, CanQuery
<1>t. ASSUME NEW c \in Client, TestPredecessor(c) PROVE TableInv'
  BY <1>t, RetryEnds DEF TestPredecessor, TableInv, PhasesInv, TypeOK
<1>p. ASSUME NEW c \in Client, Pull(c) PROVE TableInv'
  BY <1>p DEF Pull, TableInv, PhasesInv, TypeOK
<1>x. ASSUME NEW c \in Client, CloseUnlock(c) PROVE TableInv'
  BY <1>x DEF CloseUnlock, TableInv, PhasesInv, TypeOK
<1>r. ASSUME NEW c \in Client, ResizeUnlock(c) PROVE TableInv'
  BY <1>r DEF ResizeUnlock, TableInv, PhasesInv, TypeOK
<1>u. ASSUME NEW c \in Client, Update(c) PROVE TableInv'
  BY <1>u DEF Update, TableInv, PhasesInv, TypeOK
<1>k. ASSUME NEW c \in Client, RollBack(c) PROVE TableInv'
  BY <1>k DEF RollBack, Abandon, TableInv, PhasesInv, TypeOK
<1>v. ASSUME NEW c \in Client, WriteInPart(c) PROVE TableInv'
  BY <1>v DEF WriteInPart, TableInv
<1>o. ASSUME NEW c \in Client, CommitFails(c) PROVE TableInv'
  BY <1>o DEF CommitFails, TableInv
<1>w. ASSUME NEW c \in Client, WriteFile(c) PROVE TableInv'
  BY <1>w DEF WriteFile, TableInv, PhasesInv, TypeOK
<1>m. ASSUME NEW c \in Client, Commit(c) PROVE TableInv'
  BY <1>m DEF Commit, TableInv, PhasesInv, TypeOK
<1>l. ASSUME NEW c \in Client, Close(c) PROVE TableInv'
  BY <1>l DEF Close, TableInv, PhasesInv, TypeOK
<1>z. ASSUME NEW c \in Client, BeginResize(c) PROVE TableInv'
  BY <1>z DEF BeginResize, TableInv, PhasesInv, TypeOK
<1>h. ASSUME NEW c \in Client, Crash(c) PROVE TableInv'
  BY <1>h DEF Crash, Abandon, TableInv, PhasesInv, TypeOK
<1>n. ASSUME NEW c \in Client, SessionEnd(c) PROVE TableInv'
  BY <1>n DEF SessionEnd, TableInv, PhasesInv, TypeOK
<1>y. CASE UNCHANGED vars
  BY <1>y DEF vars, TableInv
<1> QED BY <1>s, <1>c, <1>g, <1>e, <1>a, <1>b, <1>d, <1>t, <1>p, <1>x, <1>r, <1>u, <1>k, <1>w,
           <1>v, <1>m, <1>o, <1>l, <1>z, <1>h, <1>n, <1>y DEF Next, Step

(* The committed offsets describe the file whenever no transaction is      *)
(* rewriting it (sql.c:479-558), until a file has been written in part, or *)
(* as a whole without the COMMIT of its rows (file.c:381, sql.c:543-548).  *)
THEOREM RowsDescribeFile == Spec => []RowsMatchFile
<1>1. Init => TypeOK /\ PhasesInv /\ TableInv
  BY TypeInit, PhasesInit, TableInit
<1>2. TypeOK /\ PhasesInv /\ TableInv /\ [Next]_vars => (TypeOK /\ PhasesInv /\ TableInv)'
  BY TypeStep, PhasesStep, TableStep
<1>3. TableInv => RowsMatchFile
  BY DEF TableInv, RowsMatchFile
<1> QED BY <1>1, <1>2, <1>3, PTL DEF Spec

-----------------------------------------------------------------------------
(* The lock protocol.  A lock is a znode, and the znodes of a file are     *)
(* ranked by their sequence numbers.                                       *)

Own(c, i) == [seq |-> lock_name[c][i], id |-> i, owner |-> c]

(* c has made a znode for row i and is to be told whether it has the lock. *)
Asks(c, i) == pc[c] \in {"children", "query"} /\ i \in Current(c)

(* A listing has every znode that still exists and is older than one in it.*)
ZnodesInv ==
    /\ \A z \in znodes : z.seq < nextSeq
    /\ \A y, z \in znodes : y.seq = z.seq => y = z
    /\ \A c \in Client : \A y \in snap[c] :
          /\ y.seq < nextSeq
          /\ \A z \in znodes : z.seq = y.seq => z = y
          /\ \A z \in znodes : z.seq < y.seq => z \in snap[c]

(* The znode of a lock, and of a request, is there.                        *)
OwnInv ==
    \A c \in Client, i \in OffsetId : i \in locked[c] \/ Asks(c, i) => Own(c, i) \in znodes

(* A row has one holder, whose znode is older than that of any request.    *)
HolderInv ==
    /\ \A c, d \in Client : c # d => locked[c] \cap locked[d] = {}
    /\ \A c, d \in Client, i \in OffsetId :
          Asks(c, i) /\ i \in locked[d] => lock_name[d][i] < lock_name[c][i]

LockInv == ZnodesInv /\ OwnInv /\ HolderInv

LEMMA LockInit == Init => LockInv
  BY DEF Init, LockInv, ZnodesInv, OwnInv, HolderInv, Asks

(* At most one interval is asked for at a time.                            *)
LEMMA OneCurrent ==
  ASSUME TypeOK, NEW c \in Client, NEW i \in Current(c), NEW j \in Current(c)
  PROVE  i = j
<1>1. PICK m \in mem[c] : m.id = i /\ \A l \in mem[c] : l.id \in ListIds(c) \ locked[c] => Ahead(m, l)
  BY DEF Current, First
<1>2. PICK n \in mem[c] : n.id = j /\ \A l \in mem[c] : l.id \in ListIds(c) \ locked[c] => Ahead(n, l)
  BY DEF Current, First
<1>3. i \in ListIds(c) \ locked[c] /\ j \in ListIds(c) \ locked[c]
  BY CurrentType
<1>4. Ahead(m, n) /\ Ahead(n, m)
  BY <1>1, <1>2, <1>3
<1>5. m \in ListNode /\ n \in ListNode
  BY DEF TypeOK
<1>6. m.id \in Nat /\ n.id \in Nat /\ m.base \in Int /\ n.base \in Int
  BY <1>5, IntervalLockAssumption DEF ListNode
<1> QED BY <1>1, <1>2, <1>4, <1>6 DEF Ahead

LEMMA ConflictSymmetric == ASSUME NEW p, NEW q PROVE Conflict(p, q) <=> Conflict(q, p)
  BY DEF Conflict

(* The znode of a lock that is granted is the oldest of all the znodes     *)
(* that exist for rows that conflict with it.                              *)
LEMMA GrantIsFirst ==
  ASSUME TypeOK, ZnodesInv, OwnInv, NEW c \in Client, NEW i \in Current(c),
         pc[c] = "query", NEW z \in Oldest(Relevant(c, i)), z.seq = lock_name[c][i]
  PROVE  /\ i \in OffsetId /\ Asks(c, i)
         /\ Own(c, i) \in znodes /\ Conflict(off[i], off[i])
         /\ \A y \in znodes : Conflict(off[i], off[y.id]) => lock_name[c][i] <= y.seq
<1>1. i \in OffsetId /\ Asks(c, i)
  BY CurrentType, ListIdsType DEF Asks
<1>2. Own(c, i) \in znodes
  BY <1>1 DEF OwnInv
<1>3. z \in snap[c] /\ Conflict(off[i], off[z.id]) /\ \A y \in Relevant(c, i) : z.seq <= y.seq
  BY DEF Oldest, Relevant
<1>4. z = Own(c, i)
  BY <1>2, <1>3 DEF ZnodesInv, Own
<1>5. Conflict(off[i], off[i])
  BY <1>3, <1>4 DEF Own
<1>6. ASSUME NEW y \in znodes, Conflict(off[i], off[y.id]), ~(lock_name[c][i] <= y.seq)
      PROVE  FALSE
  <2>1. y.seq \in Nat /\ z.seq \in Nat
    BY <1>3 DEF TypeOK, Znode
  <2>2. y \in snap[c]
    BY <1>3, <1>6, <2>1 DEF ZnodesInv
  <2>3. y \in Relevant(c, i)
    BY <1>6, <2>2 DEF Relevant
  <2> QED BY <1>3, <1>6, <2>3
<1> QED BY <1>1, <1>2, <1>5, <1>6

(* What the steps do to the locks that neither make a znode nor list them  *)
(* nor grant a lock: locks and requests may only end.                      *)
LocksShrink ==
    /\ UNCHANGED <<nextSeq, lock_name>>
    /\ znodes' \subseteq znodes
    /\ \A c \in Client :
          /\ locked'[c] \subseteq locked[c]
          /\ snap'[c] = snap[c] \/ snap'[c] = {}
          /\ \A i \in OffsetId :
                /\ Asks(c, i)' => Asks(c, i)
                /\ i \in locked'[c] \/ Asks(c, i)' => (Own(c, i) \in znodes => Own(c, i) \in znodes')

LEMMA ShrinkKeepsLock == LockInv /\ LocksShrink => LockInv'
<1> SUFFICES ASSUME LockInv, LocksShrink PROVE LockInv'
  OBVIOUS
<1>0. \A c, i : Own(c, i)' = Own(c, i)
  BY DEF Own, LocksShrink
<1>1. ZnodesInv'
  BY DEF LockInv, ZnodesInv, LocksShrink
<1>2. OwnInv'
  BY <1>0 DEF LockInv, OwnInv, LocksShrink
<1>3. HolderInv'
  BY DEF LockInv, HolderInv, LocksShrink
<1> QED BY <1>1, <1>2, <1>3 DEF LockInv

LEMMA CreateKeepsLock ==
  ASSUME TypeOK, LockInv, NEW c \in Client, CreateNode(c)
  PROVE  LockInv'
<1>1. PICK i \in Current(c) :
         /\ znodes' = znodes \cup {[seq |-> nextSeq, id |-> i, owner |-> c]}
         /\ lock_name' = [lock_name EXCEPT ![c][i] = nextSeq]
  BY DEF CreateNode
<1>2. /\ nextSeq' = nextSeq + 1 /\ nextSeq \in Nat
      /\ mem' = mem /\ locked' = locked /\ snap' = snap
      /\ pc' = [pc EXCEPT ![c] = "children"] /\ pc[c] = "create"
  BY DEF CreateNode, Goto, TypeOK
<1>3. i \in OffsetId /\ i \notin locked[c]
  BY CurrentType, ListIdsType
<1>4. \A d \in Client : Current(d)' = Current(d)
  BY <1>2 DEF Current, First, ListIds
<1>5. ASSUME NEW d \in Client, NEW j \in OffsetId, Asks(d, j)'
      PROVE  (d # c /\ Asks(d, j)) \/ (d = c /\ j = i)
  <2>1. CASE d = c
    BY <1>4, <1>5, <2>1, OneCurrent DEF Asks
  <2>2. CASE d # c
    BY <1>2, <1>4, <1>5, <2>2 DEF Asks, TypeOK
  <2> QED BY <2>1, <2>2
<1>6. /\ Own(c, i)' = [seq |-> nextSeq, id |-> i, owner |-> c]
      /\ \A d \in Client, j \in OffsetId : <<d, j>> # <<c, i>> => Own(d, j)' = Own(d, j)
  BY <1>1, <1>3 DEF Own, TypeOK
<1>7. ZnodesInv'
  <2>1. \A z \in znodes : z.seq \in Nat /\ z.seq < nextSeq
    BY DEF LockInv, ZnodesInv, TypeOK, Znode
  <2>2. \A d \in Client : \A y \in snap[d] : y.seq \in Nat /\ y.seq < nextSeq
    BY DEF LockInv, ZnodesInv, TypeOK, Znode
  <2> DEFINE new == [seq |-> nextSeq, id |-> i, owner |-> c]
  <2>3. new.seq = nextSeq
    OBVIOUS
  <2> HIDE DEF new
  <2>4. znodes' = znodes \cup {new}
    BY <1>1 DEF new
  <2> QED BY <1>2, <2>1, <2>2, <2>3, <2>4 DEF LockInv, ZnodesInv
<1>8. OwnInv'
  BY <1>1, <1>2, <1>3, <1>5, <1>6 DEF LockInv, OwnInv
<1>9. HolderInv'
  <2>1. \A d, e \in Client : d # e => locked'[d] \cap locked'[e] = {}
    BY <1>2 DEF LockInv, HolderInv
  <2>2. ASSUME NEW d \in Client, NEW e \in Client, NEW j \in OffsetId, Asks(d, j)', j \in locked'[e]
        PROVE  lock_name'[e][j] < lock_name'[d][j]
    <3>1. <<e, j>> # <<c, i>>
      BY <1>2, <1>3, <2>2
    <3>2. lock_name'[e][j] = lock_name[e][j]
      BY <1>1, <1>3, <3>1 DEF TypeOK
    <3>3. CASE Asks(d, j) /\ d # c
      BY <1>1, <1>2, <2>2, <3>2, <3>3 DEF LockInv, HolderInv, TypeOK
    <3>4. CASE d = c /\ j = i
      <4>1. Own(e, j) \in znodes
        BY <1>2, <2>2 DEF LockInv, OwnInv
      <4>2. lock_name[e][j] < nextSeq
        BY <4>1 DEF LockInv, ZnodesInv, Own
      <4>3. lock_name'[d][j] = nextSeq
        BY <1>1, <1>3, <3>4 DEF TypeOK
      <4> QED BY <3>2, <4>2, <4>3
    <3> QED BY <1>5, <2>2, <3>3, <3>4
  <2> QED BY <2>1, <2>2 DEF HolderInv
<1> QED BY <1>7, <1>8, <1>9 DEF LockInv

LEMMA ListKeepsLock ==
  ASSUME TypeOK, LockInv, NEW c \in Client, GetChildren(c)
  PROVE  LockInv'
<1>1. /\ UNCHANGED <<znodes, nextSeq, lock_name, mem, locked>>
      /\ snap' = [snap EXCEPT ![c] = znodes]
      /\ pc' = [pc EXCEPT ![c] = "query"] /\ pc[c] = "children"
  BY DEF GetChildren, Goto, zk
<1>2. \A d \in Client : Current(d)' = Current(d)
  BY <1>1 DEF Current, First, ListIds
<1>3. \A d \in Client, j \in OffsetId : Asks(d, j)' <=> Asks(d, j)
  BY <1>1, <1>2 DEF Asks, TypeOK
<1>4. \A d, j : Own(d, j)' = Own(d, j)
  BY <1>1 DEF Own
<1>5. ZnodesInv'
  BY <1>1 DEF LockInv, ZnodesInv, TypeOK
<1>6. OwnInv' /\ HolderInv'
  BY <1>1, <1>3, <1>4 DEF LockInv, OwnInv, HolderInv
<1> QED BY <1>5, <1>6 DEF LockInv

(* The form of a step that grants a lock.                                  *)
LEMMA GrantForm ==
  ASSUME TypeOK, LockInv, NEW c \in Client, QueryGranted(c)
  PROVE  \E i \in OffsetId :
            /\ Asks(c, i) /\ i \notin locked[c]
            /\ Own(c, i) \in znodes /\ Conflict(off[i], off[i])
            /\ \A y \in znodes : Conflict(off[i], off[y.id]) => lock_name[c][i] <= y.seq
            /\ locked' = [locked EXCEPT ![c] = @ \cup {i}]
            /\ UNCHANGED <<db, zk, mem, lock_name, todo, start, crossed>>
            /\ snap' = [snap EXCEPT ![c] = {}]
            /\ xlock = NoClient
            /\ \A j : ~Asks(c, j)'
            /\ \A d \in Client \ {c}, j \in OffsetId : Asks(d, j)' <=> Asks(d, j)
<1>1. PICK i \in Current(c) :
          /\ \E z \in Oldest(Relevant(c, i)) : z.seq = lock_name[c][i]
          /\ locked' = [locked EXCEPT ![c] = @ \cup {i}]
          /\ Goto(c, IF ListIds(c) \subseteq locked[c] \cup {i} THEN "pull" ELSE "create")
  BY DEF QueryGranted
<1>2. /\ i \in OffsetId /\ Asks(c, i) /\ i \notin locked[c]
      /\ Own(c, i) \in znodes /\ Conflict(off[i], off[i])
      /\ \A y \in znodes : Conflict(off[i], off[y.id]) => lock_name[c][i] <= y.seq
  BY <1>1, GrantIsFirst, CurrentType DEF LockInv, QueryGranted, CanQuery
<1>3. /\ UNCHANGED <<db, zk, mem, lock_name, todo, start, crossed>>
      /\ snap' = [snap EXCEPT ![c] = {}]
      /\ xlock = NoClient
  BY DEF QueryGranted, QueryFrame, CanQuery, history
<1>4. \A j : ~Asks(c, j)'
  BY <1>1 DEF Asks, Goto, TypeOK
<1>5. ASSUME NEW d \in Client \ {c}, NEW j \in OffsetId PROVE Asks(d, j)' <=> Asks(d, j)
  <2>1. mem'[d] = mem[d] /\ locked'[d] = locked[d] /\ pc'[d] = pc[d]
    BY <1>1, <1>3 DEF Goto, TypeOK
  <2> QED BY <2>1 DEF Asks, Current, First, ListIds
<1> QED BY <1>1, <1>2, <1>3, <1>4, <1>5

LEMMA GrantKeepsLock ==
  ASSUME TypeOK, LockInv, NEW c \in Client, QueryGranted(c)
  PROVE  LockInv'
<1>1. PICK i \in OffsetId :
            /\ Asks(c, i) /\ i \notin locked[c]
            /\ Own(c, i) \in znodes /\ Conflict(off[i], off[i])
            /\ \A y \in znodes : Conflict(off[i], off[y.id]) => lock_name[c][i] <= y.seq
            /\ locked' = [locked EXCEPT ![c] = @ \cup {i}]
            /\ UNCHANGED <<db, zk, mem, lock_name, todo, start, crossed>>
            /\ snap' = [snap EXCEPT ![c] = {}]
            /\ xlock = NoClient
            /\ \A j : ~Asks(c, j)'
            /\ \A d \in Client \ {c}, j \in OffsetId : Asks(d, j)' <=> Asks(d, j)
  BY GrantForm
<1>2. \A d, j : Own(d, j)' = Own(d, j)
  BY <1>1 DEF Own
<1>3. /\ znodes' = znodes /\ nextSeq' = nextSeq /\ lock_name' = lock_name
      /\ \A d \in Client : locked'[d] = IF d = c THEN locked[d] \cup {i} ELSE locked[d]
      /\ \A d \in Client : snap'[d] = IF d = c THEN {} ELSE snap[d]
  BY <1>1 DEF zk, TypeOK
<1>4. ZnodesInv'
  BY <1>3 DEF LockInv, ZnodesInv
<1>5. OwnInv'
  BY <1>1, <1>2, <1>3 DEF LockInv, OwnInv
<1>6. ASSUME NEW d \in Client, d # c, Own(d, i) \in znodes
      PROVE  lock_name[c][i] < lock_name[d][i]
  <2>1. lock_name[c][i] <= lock_name[d][i]
    BY <1>1, <1>6 DEF Own
  <2>2. lock_name[c][i] # lock_name[d][i]
    BY <1>1, <1>6 DEF Own, LockInv, ZnodesInv
  <2>3. lock_name[c][i] \in Int /\ lock_name[d][i] \in Int
    BY DEF TypeOK, NoSeq
  <2> QED BY <2>1, <2>2, <2>3
<1>7. ASSUME NEW d \in Client, d # c PROVE i \notin locked[d]
  <2> SUFFICES ASSUME i \in locked[d] PROVE FALSE
    OBVIOUS
  <2>1. Own(d, i) \in znodes /\ lock_name[d][i] < lock_name[c][i]
    BY <1>1 DEF LockInv, OwnInv, HolderInv
  <2>2. lock_name[c][i] \in Int /\ lock_name[d][i] \in Int
    BY DEF TypeOK, NoSeq
  <2> QED BY <1>6, <1>7, <2>1, <2>2
<1>8. \A d, e \in Client : d # e => locked'[d] \cap locked'[e] = {}
  <2> SUFFICES ASSUME NEW d \in Client, NEW e \in Client, d # e, NEW j \in locked'[d] \cap locked'[e]
               PROVE  FALSE
    OBVIOUS
  <2>1. locked[d] \cap locked[e] = {}
    BY DEF LockInv, HolderInv
  <2>2. CASE d # c /\ e # c
    BY <1>3, <2>1, <2>2
  <2>3. CASE d = c
    BY <1>3, <1>7, <2>1, <2>3
  <2>4. CASE e = c
    BY <1>3, <1>7, <2>1, <2>4
  <2> QED BY <2>2, <2>3, <2>4
<1>9. ASSUME NEW d \in Client, NEW e \in Client, NEW j \in OffsetId, Asks(d, j)', j \in locked'[e]
      PROVE  lock_name'[e][j] < lock_name'[d][j]
  <2>1. d # c /\ Asks(d, j)
    BY <1>1, <1>9
  <2>2. CASE j \in locked[e]
    BY <1>3, <2>1, <2>2 DEF LockInv, HolderInv
  <2>3. CASE e = c /\ j = i
    BY <1>3, <1>6, <2>1, <2>3 DEF LockInv, OwnInv
  <2> QED BY <1>3, <1>9, <2>2, <2>3
<1> QED BY <1>4, <1>5, <1>8, <1>9 DEF LockInv, HolderInv

(* The same, of a step of one client c.                                    *)
ClientShrinks(c) ==
    /\ UNCHANGED <<nextSeq, lock_name>>
    /\ \A d \in Client \ {c} :
          pc'[d] = pc[d] /\ mem'[d] = mem[d] /\ locked'[d] = locked[d] /\ snap'[d] = snap[d]
    /\ pc'[c] \notin {"children", "query"}
    /\ locked'[c] \subseteq locked[c]
    /\ snap'[c] = snap[c] \/ snap'[c] = {}
    /\ \/ znodes' = znodes
       \/ \E i \in locked[c] \ locked'[c] : znodes' = {z \in znodes : z.seq # lock_name[c][i]}
       \/ locked'[c] = {} /\ znodes' = {z \in znodes : z.owner # c}

LEMMA ClientShrinksLocks ==
  ASSUME TypeOK, LockInv, NEW c \in Client, ClientShrinks(c)
  PROVE  LocksShrink
<1>1. ASSUME NEW d \in Client, NEW j \in OffsetId, Asks(d, j)'
      PROVE  d # c /\ Asks(d, j)
  BY <1>1 DEF Asks, ClientShrinks, Current, First, ListIds
<1>2. ASSUME NEW d \in Client, NEW j \in OffsetId,
             j \in locked'[d] \/ Asks(d, j)', Own(d, j) \in znodes
      PROVE  Own(d, j) \in znodes'
  <2>1. CASE \E i \in locked[c] \ locked'[c] : znodes' = {z \in znodes : z.seq # lock_name[c][i]}
    <3>1. PICK i \in locked[c] \ locked'[c] : znodes' = {z \in znodes : z.seq # lock_name[c][i]}
      BY <2>1
    <3>2. i \in OffsetId /\ Own(c, i) \in znodes
      BY DEF LockInv, OwnInv, TypeOK
    <3>3. d # c \/ j # i
      BY <1>1, <1>2
    <3>4. Own(d, j) # Own(c, i)
      BY <3>3 DEF Own
    <3>5. Own(d, j).seq # lock_name[c][i]
      BY <1>2, <3>2, <3>4 DEF LockInv, ZnodesInv, Own
    <3> QED BY <1>2, <3>1, <3>5
  <2>2. CASE locked'[c] = {} /\ znodes' = {z \in znodes : z.owner # c}
    <3>1. d # c
      BY <1>1, <1>2, <2>2
    <3> QED BY <1>2, <2>2, <3>1 DEF Own
  <2> QED BY <1>2, <2>1, <2>2 DEF ClientShrinks
<1>3. \A d \in Client : locked'[d] \subseteq locked[d] /\ (snap'[d] = snap[d] \/ snap'[d] = {})
  BY DEF ClientShrinks
<1>4. znodes' \subseteq znodes /\ UNCHANGED <<nextSeq, lock_name>>
  BY DEF ClientShrinks
<1> QED BY <1>1, <1>2, <1>3, <1>4 DEF LocksShrink

LEMMA ShrinkSteps ==
  ASSUME TypeOK, PhasesInv, LockInv, [Next]_vars,
         \A c \in Client : ~CreateNode(c) /\ ~GetChildren(c) /\ ~QueryGranted(c)
  PROVE  LocksShrink
<1> USE DEF db, zk, request, Goto
<1> SUFFICES ASSUME ~UNCHANGED vars PROVE \E c \in Client : ClientShrinks(c)
  <2>1. CASE UNCHANGED vars
    BY <2>1 DEF vars, LocksShrink, Asks, Current, First, ListIds
  <2> QED BY <2>1, ClientShrinksLocks
<1>s. ASSUME NEW c \in Client, Select(c) PROVE ClientShrinks(c)
  BY <1>s DEF Select, ClientShrinks, TypeOK
<1>e. ASSUME NEW c \in Client, QueryEmpty(c) PROVE ClientShrinks(c)
  BY <1>e, RetryEnds, SMTT(40) DEF QueryEmpty, ClientShrinks, TypeOK, QueryFrame, CanQuery
<1>b. ASSUME NEW c \in Client, QueryBehind(c) PROVE ClientShrinks(c)
  BY <1>b DEF QueryBehind, ClientShrinks, TypeOK, QueryFrame, CanQuery
<1>d. ASSUME NEW c \in Client, QueryDies(c) PROVE ClientShrinks(c)
  BY <1>d DEF QueryDies, ClientShrinks, TypeOK, QueryFrame, CanQuery
<1>t. ASSUME NEW c \in Client, TestPredecessor(c) PROVE ClientShrinks(c)
  BY <1>t, RetryEnds DEF TestPredecessor, ClientShrinks, TypeOK
<1>p. ASSUME NEW c \in Client, Pull(c) PROVE ClientShrinks(c)
  BY <1>p DEF Pull, ClientShrinks, TypeOK
<1>x. ASSUME NEW c \in Client, CloseUnlock(c) PROVE ClientShrinks(c)
  BY <1>x DEF CloseUnlock, ClientShrinks, TypeOK, Unlock
<1>r. ASSUME NEW c \in Client, ResizeUnlock(c) PROVE ClientShrinks(c)
  BY <1>r DEF ResizeUnlock, ClientShrinks, TypeOK, Unlock
<1>u. ASSUME NEW c \in Client, Update(c) PROVE ClientShrinks(c)
  BY <1>u DEF Update, ClientShrinks, TypeOK
<1>k. ASSUME NEW c \in Client, RollBack(c) PROVE ClientShrinks(c)
  BY <1>k DEF RollBack, Abandon, ClientShrinks, TypeOK
<1>v. ASSUME NEW c \in Client, WriteInPart(c) PROVE ClientShrinks(c)
  BY <1>v DEF WriteInPart, Abandon, ClientShrinks, TypeOK
<1>o. ASSUME NEW c \in Client, CommitFails(c) PROVE ClientShrinks(c)
  BY <1>o DEF CommitFails, Abandon, ClientShrinks, TypeOK
<1>w. ASSUME NEW c \in Client, WriteFile(c) PROVE ClientShrinks(c)
  BY <1>w DEF WriteFile, ClientShrinks, TypeOK
<1>m. ASSUME NEW c \in Client, Commit(c) PROVE ClientShrinks(c)
  BY <1>m DEF Commit, ClientShrinks, TypeOK
<1>l. ASSUME NEW c \in Client, Close(c) PROVE ClientShrinks(c)
  BY <1>l DEF Close, ClientShrinks, TypeOK
<1>z. ASSUME NEW c \in Client, BeginResize(c) PROVE ClientShrinks(c)
  BY <1>z DEF BeginResize, ClientShrinks, TypeOK, PhasesInv
<1>h. ASSUME NEW c \in Client, Crash(c) PROVE ClientShrinks(c)
  BY <1>h DEF Crash, Abandon, ClientShrinks, TypeOK
<1>n. ASSUME NEW c \in Client, SessionEnd(c) PROVE ClientShrinks(c)
  BY <1>n DEF SessionEnd, ClientShrinks, TypeOK, PhasesInv
<1> QED BY <1>s, <1>e, <1>b, <1>d, <1>t, <1>p, <1>x, <1>r, <1>u, <1>k, <1>w,
           <1>v, <1>m, <1>o, <1>l, <1>z, <1>h, <1>n DEF Next, Step

LEMMA LockStep == TypeOK /\ PhasesInv /\ LockInv /\ [Next]_vars => LockInv'
  BY ShrinkSteps, ShrinkKeepsLock, CreateKeepsLock, ListKeepsLock, GrantKeepsLock

-----------------------------------------------------------------------------
(* The table under the edits.  Rows that were apart at first stay in their *)
(* order; rows that are locked, or are about to be resized by the client   *)
(* that has unlocked them, are apart as long as the locks exclude.         *)

Safe == AllApart \/ ~crossed

Held == UNION {locked[c] : c \in Client}

HeldByOthers(g) == UNION {locked[d] : d \in Client \ {g}}

Unresized(g) == IF pc[g] \in {"unlock", "update"} THEN todo[g] ELSE {}

OrderedIn(t) ==
    /\ \A i \in OffsetId : t[i].base <= t[i].bound
    /\ \A i, j \in OffsetId : start[i].bound <= start[j].base => t[i].bound <= t[j].base

ApartIn(t, S) ==
    \A i \in S : t[i].base < t[i].bound /\ \A j \in S : i # j => ~Conflict(t[i], t[j])

OrderInv ==
    /\ start \in Starts
    /\ AllApart => OrderedIn(off) /\ OrderedIn(txn)

TodoInv == \A g \in Client : Unresized(g) \cap HeldByOthers(g) = {}

(* The third part: what a client asks for with an older znode than that of *)
(* a lock does not conflict with it.                                       *)
SafeInv ==
    Safe =>
       /\ ApartIn(off, Held)
       /\ \A g \in Client : pc[g] \in Resizing =>
             /\ ApartIn(txn, Unresized(g) \cup HeldByOthers(g))
             /\ \A i \in HeldByOthers(g) :
                   txn[i].bound - txn[i].base = off[i].bound - off[i].base
       /\ \A c, d \in Client : \A i \in OffsetId, j \in locked[d] :
             Asks(c, i) /\ lock_name[c][i] < lock_name[d][j] => ~Conflict(off[i], off[j])

LEMMA EditInit == Init => OrderInv /\ TodoInv /\ SafeInv
<1> SUFFICES ASSUME Init PROVE OrderInv /\ TodoInv /\ SafeInv
  OBVIOUS
<1>1. start \in Starts /\ start \in [OffsetId -> [base : Nat, bound : Nat]]
  BY IntervalLockAssumption DEF Init
<1>2. \A i \in OffsetId : start[i].base \in Nat /\ start[i].bound \in Nat /\ start[i].base < start[i].bound
  BY <1>1, IntervalLockAssumption
<1>3. OrderInv
  BY <1>1, <1>2 DEF Init, OrderInv, OrderedIn
<1>4. TodoInv
  BY DEF Init, TodoInv, Unresized
<1>5. SafeInv
  BY DEF Init, SafeInv, ApartIn, Held, HeldByOthers, Unresized, Resizing, Asks
<1> QED BY <1>3, <1>4, <1>5

LEMMA OrderedApart ==
  ASSUME OrderInv, AllApart, NEW t \in [OffsetId -> Interval], OrderedIn(t),
         NEW i \in OffsetId, NEW j \in OffsetId, i # j
  PROVE  /\ t[i].bound <= t[j].base \/ t[j].bound <= t[i].base
         /\ ~Conflict(t[i], t[j])
<1>1. start \in [OffsetId -> [base : Nat, bound : Nat]]
  BY IntervalLockAssumption DEF OrderInv
<1>2. /\ start[i].base \in Nat /\ start[i].bound \in Nat
      /\ start[j].base \in Nat /\ start[j].bound \in Nat
  BY <1>1
<1>3. start[i].bound <= start[j].base \/ start[j].bound <= start[i].base
  BY <1>2 DEF AllApart, Conflict
<1>4. /\ t[i].base \in Int /\ t[i].bound \in Int /\ t[j].base \in Int /\ t[j].bound \in Int
  BY DEF Interval
<1>5. t[i].bound <= t[j].base \/ t[j].bound <= t[i].base
  BY <1>3 DEF OrderedIn
<1> QED BY <1>4, <1>5 DEF Conflict

(* What the steps do to the table that neither begin a resize nor edit a   *)
(* row nor commit: at most the edits are thrown away, and no resize is     *)
(* left then.                                                              *)
TableStays ==
    /\ UNCHANGED <<off, start, crossed>>
    /\ txn' = txn \/ (txn' = off /\ \A g \in Client : pc'[g] \notin Resizing)
    /\ \A g \in Client :
          /\ pc'[g] \in Resizing => pc[g] \in Resizing
          /\ pc'[g] \in {"unlock", "update"} => pc[g] \in {"unlock", "update"} /\ todo'[g] = todo[g]

(* One turn of the loop over the intervals.                                *)
Resizes(c, i, ns) ==
    /\ pc[c] = "update" /\ i \in todo[c] /\ i \in OffsetId /\ ns \in Nat
    /\ txn' = [j \in OffsetId |-> Moved(txn[j], txn[i], j # i, ns)]
    /\ todo' = [todo EXCEPT ![c] = @ \ {i}]
    /\ UNCHANGED <<off, pc, mem, locked, lock_name, start, crossed>>

LEMMA AbandonStays ==
  ASSUME TypeOK, PhasesInv, NEW c \in Client, pc[c] \in Resizing, Abandon(c),
         UNCHANGED <<off, start, crossed>>
  PROVE  TableStays
<1>1. \A g \in Client \ {c} : pc[g] \notin Resizing
  BY DEF PhasesInv
<1>2. \A g \in Client : pc'[g] \notin Resizing
  BY <1>1 DEF Abandon, Goto, TypeOK, Resizing
<1> QED BY <1>2 DEF TableStays, Abandon, Resizing

LEMMA TableSteps ==
  ASSUME TypeOK, PhasesInv, [Next]_vars,
         \A c \in Client : ~BeginResize(c) /\ ~Commit(c)
  PROVE  TableStays \/ \E c \in Client, i \in OffsetId, ns \in Nat : Resizes(c, i, ns)
<1> USE DEF db, zk, request, history, Goto, Resizing
<1>s. ASSUME NEW c \in Client, Select(c) PROVE TableStays
  BY <1>s DEF Select, TableStays, TypeOK
<1>c. ASSUME NEW c \in Client, CreateNode(c) PROVE TableStays
  BY <1>c DEF CreateNode, TableStays, TypeOK
<1>g. ASSUME NEW c \in Client, GetChildren(c) PROVE TableStays
  BY <1>g DEF GetChildren, TableStays, TypeOK
<1>e. ASSUME NEW c \in Client, QueryEmpty(c) PROVE TableStays
  BY <1>e, RetryEnds DEF QueryEmpty, TableStays, TypeOK, QueryFrame, CanQuery
<1>a. ASSUME NEW c \in Client, QueryGranted(c) PROVE TableStays
  BY <1>a DEF QueryGranted, TableStays, TypeOK, QueryFrame, CanQuery
<1>b. ASSUME NEW c \in Client, QueryBehind(c) PROVE TableStays
  BY <1>b DEF QueryBehind, TableStays, TypeOK, QueryFrame, CanQuery
<1>d. ASSUME NEW c \in Client, QueryDies(c) PROVE TableStays
  BY <1>d DEF QueryDies, TableStays, TypeOK, QueryFrame, CanQuery
<1>t. ASSUME NEW c \in Client, TestPredecessor(c) PROVE TableStays
  BY <1>t, RetryEnds DEF TestPredecessor, TableStays, TypeOK
<1>p. ASSUME NEW c \in Client, Pull(c) PROVE TableStays
  BY <1>p DEF Pull, TableStays, TypeOK
<1>x. ASSUME NEW c \in Client, CloseUnlock(c) PROVE TableStays
  BY <1>x DEF CloseUnlock, TableStays, TypeOK
<1>r. ASSUME NEW c \in Client, ResizeUnlock(c) PROVE TableStays
  BY <1>r DEF ResizeUnlock, TableStays, TypeOK
<1>u. ASSUME NEW c \in Client, Update(c)
      PROVE  TableStays \/ \E i \in OffsetId, ns \in Nat : Resizes(c, i, ns)
  <2>1. CASE \E i \in First(c, todo[c]), ns \in NewSizes :
                /\ txn' = [j \in OffsetId |-> Moved(txn[j], txn[i], j # i, ns)]
                /\ todo' = [todo EXCEPT ![c] = @ \ {i}]
    <3>1. PICK i \in First(c, todo[c]), ns \in NewSizes :
                /\ txn' = [j \in OffsetId |-> Moved(txn[j], txn[i], j # i, ns)]
                /\ todo' = [todo EXCEPT ![c] = @ \ {i}]
      BY <2>1
    <3>2. i \in todo[c] /\ i \in OffsetId /\ ns \in Nat
      BY FirstAmong, IntervalLockAssumption DEF TypeOK
    <3>3. UNCHANGED pc
      BY <1>u, <2>1, <3>1, <3>2 DEF Update, TypeOK
    <3> QED BY <1>u, <3>1, <3>2, <3>3 DEF Update, Resizes
  <2>2. CASE todo[c] = {} /\ Goto(c, "write") /\ UNCHANGED <<txn, todo>>
    BY <1>u, <2>2 DEF Update, TableStays, TypeOK
  <2> QED BY <1>u, <2>1, <2>2 DEF Update
<1>k. ASSUME NEW c \in Client, RollBack(c) PROVE TableStays
  BY <1>k, AbandonStays DEF RollBack
<1>v. ASSUME NEW c \in Client, WriteInPart(c) PROVE TableStays
  <2>1. CASE Abandon(c)
    BY <1>v, <2>1, AbandonStays DEF WriteInPart
  <2>2. CASE Goto(c, "commit") /\ UNCHANGED <<xlock, txn, todo>>
    BY <1>v, <2>2 DEF WriteInPart, TableStays, TypeOK
  <2> QED BY <1>v, <2>1, <2>2 DEF WriteInPart
<1>o. ASSUME NEW c \in Client, CommitFails(c) PROVE TableStays
  BY <1>o, AbandonStays DEF CommitFails
<1>w. ASSUME NEW c \in Client, WriteFile(c) PROVE TableStays
  BY <1>w DEF WriteFile, TableStays, TypeOK
<1>l. ASSUME NEW c \in Client, Close(c) PROVE TableStays
  BY <1>l DEF Close, TableStays, TypeOK
<1>h. ASSUME NEW c \in Client, Crash(c) PROVE TableStays
  <2>1. CASE xlock = c /\ Abandon(c)
    <3>1. pc[c] \in Resizing
      BY <2>1, IntervalLockAssumption DEF PhasesInv
    <3> QED BY <1>h, <2>1, <3>1, AbandonStays DEF Crash
  <2>2. CASE xlock # c /\ Goto(c, "done") /\ UNCHANGED <<xlock, txn, todo>>
    BY <1>h, <2>2 DEF Crash, TableStays, TypeOK
  <2> QED BY <1>h, <2>1, <2>2 DEF Crash
<1>n. ASSUME NEW c \in Client, SessionEnd(c) PROVE TableStays
  BY <1>n DEF SessionEnd, TableStays, TypeOK
<1>y. CASE UNCHANGED vars
  BY <1>y DEF vars, TableStays
<1> QED BY <1>s, <1>c, <1>g, <1>e, <1>a, <1>b, <1>d, <1>t, <1>p, <1>x, <1>r, <1>u, <1>k, <1>w,
           <1>v, <1>o, <1>l, <1>h, <1>n, <1>y DEF Next, Step

(* The edit of a row that is not empty keeps all rows in order.            *)
LEMMA EditKeepsOrder ==
  ASSUME TypeOK, OrderInv, AllApart, NEW c \in Client, NEW e \in OffsetId, NEW ns \in Nat,
         Resizes(c, e, ns), txn[e].base < txn[e].bound
  PROVE  OrderedIn(txn)'
<1>1. /\ txn \in [OffsetId -> Interval] /\ OrderedIn(txn)
      /\ start' = start /\ \A j \in OffsetId : txn'[j] = Moved(txn[j], txn[e], j # e, ns)
  BY DEF TypeOK, OrderInv, Resizes
<1>2. \A j \in OffsetId : txn[j].base \in Int /\ txn[j].bound \in Int
  BY <1>1 DEF Interval
<1>3. ASSUME NEW j \in OffsetId
      PROVE  IF j # e THEN txn[j].bound <= txn[e].base \/ txn[e].bound <= txn[j].base
             ELSE txn[j] = txn[e]
  BY <1>1, OrderedApart
<1>4. ASSUME NEW j \in OffsetId PROVE txn'[j].base <= txn'[j].bound
  <2>1. txn[j].base <= txn[j].bound
    BY <1>1 DEF OrderedIn
  <2>2. Moved(txn[j], txn[e], j # e, ns).base <= Moved(txn[j], txn[e], j # e, ns).bound
    BY <1>2, <1>3, <2>1, MovedUpright
  <2> QED BY <1>1, <2>2
<1>5. ASSUME NEW i \in OffsetId, NEW j \in OffsetId, start[i].bound <= start[j].base
      PROVE  txn'[i].bound <= txn'[j].base
  <2>1. txn[i].base <= txn[i].bound /\ txn[i].bound <= txn[j].base /\ txn[j].base <= txn[j].bound
    BY <1>1, <1>5 DEF OrderedIn
  <2>2. Moved(txn[i], txn[e], i # e, ns).bound <= Moved(txn[j], txn[e], j # e, ns).base
    BY <1>2, <1>3, <2>1, OrderStays
  <2> QED BY <1>1, <2>2
<1> QED BY <1>1, <1>4, <1>5 DEF OrderedIn

(* The edit of one of a set of rows that are apart leaves the others as    *)
(* large as they are, and apart.                                           *)
LEMMA EditKeepsApart ==
  ASSUME TypeOK, NEW c \in Client, NEW e \in OffsetId, NEW ns \in Nat, Resizes(c, e, ns),
         NEW S \in SUBSET OffsetId, e \in S, ApartIn(txn, S),
         NEW i \in S \ {e}
  PROVE  /\ txn'[i].bound - txn'[i].base = txn[i].bound - txn[i].base
         /\ txn'[i].base < txn'[i].bound
         /\ \A j \in S \ {e} : i # j => ~Conflict(txn'[i], txn'[j])
<1>1. \A j \in OffsetId : txn'[j] = Moved(txn[j], txn[e], j # e, ns)
  BY DEF Resizes
<1>2. \A j \in OffsetId : txn[j].base \in Int /\ txn[j].bound \in Int
  BY DEF TypeOK, Interval
<1>3. \A j \in S \ {e} : txn[j].base < txn[j].bound /\ ~Conflict(txn[j], txn[e])
  BY DEF ApartIn
<1>4. txn[e].base < txn[e].bound /\ i \in OffsetId
  BY DEF ApartIn
<1>5. txn'[i] = Moved(txn[i], txn[e], TRUE, ns)
  BY <1>1, <1>4
<1> DEFINE m == Moved(txn[i], txn[e], TRUE, ns)
           d == Change(txn[e], ns)
<1>6. /\ txn[i].base \in Int /\ txn[i].bound \in Int /\ txn[e].base \in Int /\ txn[e].bound \in Int
      /\ txn[i].base < txn[i].bound /\ ~Conflict(txn[i], txn[e])
  BY <1>2, <1>3, <1>4
<1>7. /\ d \in Int
      /\ \/ m.base = txn[i].base /\ m.bound = txn[i].bound
         \/ m.base = txn[i].base + d /\ m.bound = txn[i].bound + d
  <2>1. d \in Int
    BY <1>6 DEF Change
  <2>2. \/ txn[i].bound <= txn[e].base /\ m.base = txn[i].base /\ m.bound = txn[i].bound
        \/ /\ txn[i].base >= txn[e].bound
           /\ m.base = txn[i].base + d /\ m.bound = txn[i].bound + d
    BY <1>4, <1>6, BesideMovesWhole, ZenonT(60)
  <2> QED BY <2>1, <2>2
<1>8. /\ txn'[i].bound - txn'[i].base = txn[i].bound - txn[i].base
      /\ txn'[i].base < txn'[i].bound
  <2> HIDE DEF m, d
  <2>1. txn'[i] = m
    BY <1>5 DEF m
  <2> QED BY <1>6, <1>7, <2>1
<1>9. ASSUME NEW j \in S \ {e}, i # j PROVE ~Conflict(txn'[i], txn'[j])
  <2>1. ~Conflict(txn[i], txn[j]) /\ j \in OffsetId
    BY <1>9 DEF ApartIn
  <2>2. txn'[j] = Moved(txn[j], txn[e], TRUE, ns)
    BY <1>1, <2>1
  <2>3. ~Conflict(Moved(txn[i], txn[e], TRUE, ns), Moved(txn[j], txn[e], TRUE, ns))
    BY <1>2, <1>3, <1>4, <2>1, BesideStayApart
  <2> QED BY <1>5, <2>2, <2>3
<1> QED BY <1>8, <1>9

LEMMA BeginForm ==
  ASSUME TypeOK, PhasesInv, NEW c \in Client, BeginResize(c)
  PROVE  /\ UNCHANGED <<off, locked, start, crossed>> /\ txn' = off
         /\ pc' = [pc EXCEPT ![c] = "unlock"] /\ todo' = [todo EXCEPT ![c] = ListIds(c)]
         /\ ListIds(c) \subseteq locked[c]
         /\ \A g \in Client : pc[g] \notin Resizing
  BY IntervalLockAssumption DEF BeginResize, Goto, history, PhasesInv

LEMMA CommitForm ==
  ASSUME TypeOK, PhasesInv, NEW c \in Client, Commit(c)
  PROVE  /\ UNCHANGED <<txn, locked, lock_name, todo, start>> /\ off' = txn
         /\ pc' = [pc EXCEPT ![c] = "done"] /\ pc[c] = "commit" /\ locked[c] = {}
         /\ \A g \in Client \ {c} : pc[g] \notin Resizing
         /\ crossed' = (crossed \/ \E d \in Client : pc[d] \in {"children", "query"})
  BY DEF Commit, Goto, request, PhasesInv, Resizing

LEMMA OrderStep == TypeOK /\ PhasesInv /\ OrderInv /\ SafeInv /\ [Next]_vars => OrderInv'
<1> SUFFICES ASSUME TypeOK, PhasesInv, OrderInv, SafeInv, [Next]_vars PROVE OrderInv'
  OBVIOUS
<1>1. CASE TableStays
  BY <1>1 DEF TableStays, OrderInv, AllApart, OrderedIn
<1>2. ASSUME NEW c \in Client, BeginResize(c) PROVE OrderInv'
  BY <1>2, BeginForm DEF OrderInv, AllApart, OrderedIn
<1>3. ASSUME NEW c \in Client, Commit(c) PROVE OrderInv'
  BY <1>3, CommitForm DEF OrderInv, AllApart, OrderedIn
<1>4. ASSUME NEW c \in Client, NEW e \in OffsetId, NEW ns \in Nat, Resizes(c, e, ns) PROVE OrderInv'
  <2>1. CASE AllApart
    <3>1. txn[e].base < txn[e].bound
      BY <1>4, <2>1 DEF SafeInv, Safe, ApartIn, Resizes, Unresized, Resizing
    <3>2. OrderedIn(txn)'
      BY <1>4, <2>1, <3>1, EditKeepsOrder
    <3> QED BY <1>4, <2>1, <3>2 DEF OrderInv, OrderedIn, Resizes
  <2>2. CASE ~AllApart
    BY <1>4, <2>2 DEF OrderInv, AllApart, Resizes
  <2> QED BY <2>1, <2>2
<1> QED BY <1>1, <1>2, <1>3, <1>4, TableSteps

LEMMA FewerApart == ASSUME NEW t, NEW S, NEW T \in SUBSET S, ApartIn(t, S) PROVE ApartIn(t, T)
  BY DEF ApartIn

LEMMA HeldType ==
  ASSUME TypeOK
  PROVE  Held \subseteq OffsetId /\ \A g \in Client : HeldByOthers(g) \subseteq Held
  BY DEF TypeOK, Held, HeldByOthers

LEMMA HeldShrinks ==
  ASSUME \A c \in Client : locked'[c] \subseteq locked[c]
  PROVE  Held' \subseteq Held /\ \A g \in Client : HeldByOthers(g)' \subseteq HeldByOthers(g)
  BY DEF Held, HeldByOthers

LEMMA NotGrantedShrinks ==
  ASSUME TypeOK, PhasesInv, LockInv, [Next]_vars, \A c \in Client : ~QueryGranted(c)
  PROVE  \A c \in Client : locked'[c] \subseteq locked[c]
<1>1. CASE \E c \in Client : CreateNode(c) \/ GetChildren(c)
  BY <1>1 DEF CreateNode, GetChildren
<1>2. CASE ~\E c \in Client : CreateNode(c) \/ GetChildren(c)
  BY <1>2, ShrinkSteps DEF LocksShrink
<1> QED BY <1>1, <1>2

LEMMA TodoStep ==
  TypeOK /\ PhasesInv /\ LockInv /\ TodoInv /\ [Next]_vars => TodoInv'
<1> SUFFICES ASSUME TypeOK, PhasesInv, LockInv, TodoInv, [Next]_vars PROVE TodoInv'
  OBVIOUS
<1>1. ASSUME NEW c \in Client, QueryGranted(c) PROVE TodoInv'
  <2>1. xlock = NoClient
    BY <1>1 DEF QueryGranted, CanQuery
  <2>2. \A g \in Client : pc[g] \notin Resizing
    BY <2>1, IntervalLockAssumption DEF PhasesInv
  <2>3. \A g \in Client : pc'[g] \notin {"unlock", "update"}
    BY <1>1, <2>2 DEF QueryGranted, Goto, TypeOK, Resizing
  <2> QED BY <2>3 DEF TodoInv, Unresized
<1>2. CASE \A c \in Client : ~QueryGranted(c)
  <2>1. \A g \in Client : HeldByOthers(g)' \subseteq HeldByOthers(g)
    BY <1>2, NotGrantedShrinks, HeldShrinks
  <2>2. SUFFICES ASSUME NEW g \in Client, ~(Unresized(g)' \subseteq Unresized(g))
                 PROVE  Unresized(g)' \cap HeldByOthers(g)' = {}
    BY <2>1 DEF TodoInv
  <2>3. PICK c \in Client : BeginResize(c)
    <3>1. ~TableStays
      BY <2>2 DEF TableStays, Unresized
    <3>2. ASSUME NEW c \in Client, NEW e \in OffsetId, NEW ns \in Nat, Resizes(c, e, ns) PROVE FALSE
      <4>1. pc' = pc /\ todo'[g] \subseteq todo[g]
        BY <3>2 DEF Resizes, TypeOK
      <4> QED BY <2>2, <4>1 DEF Unresized
    <3>3. ASSUME NEW c \in Client, Commit(c) PROVE FALSE
      <4>1. /\ pc' = [pc EXCEPT ![c] = "done"]
            /\ \A d \in Client \ {c} : pc[d] \notin Resizing
        BY <3>3, CommitForm
      <4>2. CASE g = c
        BY <2>2, <4>1, <4>2 DEF TypeOK, Unresized
      <4>3. CASE g # c
        BY <2>2, <4>1, <4>3 DEF TypeOK, Unresized, Resizing
      <4> QED BY <4>2, <4>3
    <3> QED BY <3>1, <3>2, <3>3, TableSteps
  <2>4. g = c /\ Unresized(g)' = ListIds(c) /\ ListIds(c) \subseteq locked[c]
    BY <2>2, <2>3, BeginForm DEF Unresized, TypeOK, Resizing
  <2>5. locked[c] \cap HeldByOthers(c) = {}
    BY DEF LockInv, HolderInv, HeldByOthers
  <2> QED BY <2>1, <2>4, <2>5
<1> QED BY <1>1, <1>2

-----------------------------------------------------------------------------
(* The steps and SafeInv, one case for each kind of step.                  *)

LEMMA GrantKeepsSafe ==
  ASSUME TypeOK, PhasesInv, LockInv, SafeInv, NEW c \in Client, QueryGranted(c)
  PROVE  SafeInv'
<1>1. PICK i \in OffsetId :
            /\ Asks(c, i) /\ i \notin locked[c]
            /\ Own(c, i) \in znodes /\ Conflict(off[i], off[i])
            /\ \A y \in znodes : Conflict(off[i], off[y.id]) => lock_name[c][i] <= y.seq
            /\ locked' = [locked EXCEPT ![c] = @ \cup {i}]
            /\ UNCHANGED <<db, zk, mem, lock_name, todo, start, crossed>>
            /\ snap' = [snap EXCEPT ![c] = {}]
            /\ xlock = NoClient
            /\ \A j : ~Asks(c, j)'
            /\ \A d \in Client \ {c}, j \in OffsetId : Asks(d, j)' <=> Asks(d, j)
  BY GrantForm
<1>2. off' = off /\ lock_name' = lock_name /\ start' = start /\ crossed' = crossed
  BY <1>1 DEF db
<1> SUFFICES ASSUME Safe PROVE
       /\ ApartIn(off, Held')
       /\ \A g \in Client : pc'[g] \notin Resizing
       /\ \A d, e \in Client : \A k \in OffsetId, j \in locked'[e] :
             Asks(d, k)' /\ lock_name[d][k] < lock_name[e][j] => ~Conflict(off[k], off[j])
  BY <1>2 DEF SafeInv, Safe, AllApart, ApartIn
<1>3. \A d \in Client : locked'[d] = IF d = c THEN locked[d] \cup {i} ELSE locked[d]
  BY <1>1 DEF TypeOK
<1>4. ASSUME NEW d \in Client, NEW j \in locked[d] PROVE ~Conflict(off[i], off[j])
  <2>1. j \in OffsetId /\ Own(d, j) \in znodes
    BY DEF TypeOK, LockInv, OwnInv
  <2>2. <<d, j>> # <<c, i>>
    BY <1>1
  <2>3. Own(d, j) # Own(c, i)
    BY <2>2 DEF Own
  <2>4. lock_name[d][j] # lock_name[c][i]
    BY <1>1, <2>1, <2>3 DEF LockInv, ZnodesInv, Own
  <2>5. lock_name[d][j] \in Int /\ lock_name[c][i] \in Int
    BY <2>1 DEF TypeOK, NoSeq
  <2>6. CASE lock_name[c][i] < lock_name[d][j]
    BY <1>1, <2>6 DEF SafeInv
  <2>7. CASE lock_name[d][j] < lock_name[c][i]
    <3>1. Conflict(off[i], off[j]) => lock_name[c][i] <= lock_name[d][j]
      BY <1>1, <2>1 DEF Own
    <3> QED BY <2>5, <2>7, <3>1
  <2> QED BY <2>4, <2>5, <2>6, <2>7
<1>5. ApartIn(off, Held')
  <2>1. Held' \subseteq Held \cup {i}
    BY <1>3 DEF Held
  <2>2. \A j \in Held : ~Conflict(off[i], off[j]) /\ ~Conflict(off[j], off[i])
    BY <1>4, ConflictSymmetric DEF Held
  <2>3. off[i].base < off[i].bound
    BY <1>1 DEF Conflict
  <2>4. ApartIn(off, Held)
    BY DEF SafeInv
  <2> QED BY <2>1, <2>2, <2>3, <2>4 DEF ApartIn
<1>6. ASSUME NEW g \in Client PROVE pc'[g] \notin Resizing
  <2>1. pc[g] \notin Resizing
    BY <1>1, IntervalLockAssumption DEF PhasesInv
  <2> QED BY <2>1 DEF QueryGranted, Goto, TypeOK, Resizing
<1>7. ASSUME NEW d \in Client, NEW e \in Client, NEW k \in OffsetId, NEW j \in locked'[e],
             Asks(d, k)', lock_name[d][k] < lock_name[e][j]
      PROVE  ~Conflict(off[k], off[j])
  <2>1. d # c /\ Asks(d, k)
    BY <1>1, <1>7
  <2>2. CASE j \in locked[e]
    BY <1>7, <2>1, <2>2 DEF SafeInv
  <2>3. CASE e = c /\ j = i
    <3>1. Own(d, k) \in znodes
      BY <2>1 DEF LockInv, OwnInv
    <3>2. Conflict(off[i], off[k]) => lock_name[c][i] <= lock_name[d][k]
      BY <1>1, <3>1 DEF Own
    <3>3. lock_name[d][k] \in Int /\ lock_name[c][i] \in Int
      BY DEF TypeOK, NoSeq
    <3> QED BY <1>7, <2>3, <3>2, <3>3, ConflictSymmetric
  <2> QED BY <1>3, <1>7, <2>2, <2>3
<1> QED BY <1>5, <1>6, <1>7

(* A step that grants nothing, asks for nothing older and leaves the table *)
(* alone.                                                                  *)
QuietStep ==
    /\ TableStays
    /\ \A d \in Client : locked'[d] \subseteq locked[d]
    /\ \A d, e \in Client, i \in OffsetId : \A j \in locked'[e] :
          Asks(d, i)' /\ lock_name'[d][i] < lock_name'[e][j]
             => Asks(d, i) /\ lock_name[d][i] < lock_name[e][j]

LEMMA QuietKeepsSafe ==
  ASSUME SafeInv, QuietStep PROVE SafeInv'
<1>1. /\ off' = off /\ start' = start /\ crossed' = crossed
      /\ (\E g \in Client : pc'[g] \in Resizing) => txn' = txn
      /\ Safe' <=> Safe
  BY DEF QuietStep, TableStays, Safe, AllApart
<1>2. Held' \subseteq Held /\ \A g \in Client : HeldByOthers(g)' \subseteq HeldByOthers(g)
  BY HeldShrinks DEF QuietStep
<1> SUFFICES ASSUME Safe PROVE
       /\ ApartIn(off, Held')
       /\ \A g \in Client : pc'[g] \in Resizing =>
             /\ ApartIn(txn, Unresized(g)' \cup HeldByOthers(g)')
             /\ \A i \in HeldByOthers(g)' :
                   txn[i].bound - txn[i].base = off[i].bound - off[i].base
       /\ \A c, d \in Client : \A i \in OffsetId, j \in locked'[d] :
             Asks(c, i)' /\ lock_name'[c][i] < lock_name'[d][j] => ~Conflict(off[i], off[j])
  BY <1>1 DEF SafeInv, ApartIn
<1>3. ApartIn(off, Held')
  BY <1>2, FewerApart DEF SafeInv
<1>4. ASSUME NEW g \in Client, pc'[g] \in Resizing
      PROVE  /\ ApartIn(txn, Unresized(g)' \cup HeldByOthers(g)')
             /\ \A i \in HeldByOthers(g)' :
                   txn[i].bound - txn[i].base = off[i].bound - off[i].base
  <2>1. pc[g] \in Resizing /\ Unresized(g)' \subseteq Unresized(g)
    BY <1>4 DEF QuietStep, TableStays, Unresized
  <2>2. Unresized(g)' \cup HeldByOthers(g)' \subseteq Unresized(g) \cup HeldByOthers(g)
    BY <1>2, <2>1
  <2> QED BY <1>2, <2>1, <2>2, FewerApart DEF SafeInv
<1>5. ASSUME NEW c \in Client, NEW d \in Client, NEW i \in OffsetId, NEW j \in locked'[d],
             Asks(c, i)', lock_name'[c][i] < lock_name'[d][j]
      PROVE  ~Conflict(off[i], off[j])
  <2>1. j \in locked[d] /\ Asks(c, i) /\ lock_name[c][i] < lock_name[d][j]
    BY <1>5 DEF QuietStep
  <2> QED BY <2>1 DEF SafeInv
<1> QED BY <1>3, <1>4, <1>5

LEMMA QuietSteps ==
  ASSUME TypeOK, PhasesInv, LockInv, [Next]_vars, TableStays, \A c \in Client : ~QueryGranted(c)
  PROVE  QuietStep
<1>1. \A d \in Client : locked'[d] \subseteq locked[d]
  BY NotGrantedShrinks
<1> SUFFICES ASSUME NEW d \in Client, NEW e \in Client, NEW i \in OffsetId, NEW j \in locked'[e],
                    Asks(d, i)', lock_name'[d][i] < lock_name'[e][j]
             PROVE  Asks(d, i) /\ lock_name[d][i] < lock_name[e][j]
  BY <1>1 DEF QuietStep
<1>2. j \in locked[e] /\ j \in OffsetId
  BY <1>1 DEF TypeOK
<1>3. ASSUME NEW c \in Client, CreateNode(c)
      PROVE  Asks(d, i) /\ lock_name[d][i] < lock_name[e][j]
  <2>1. PICK k \in Current(c) :
             /\ lock_name' = [lock_name EXCEPT ![c][k] = nextSeq]
             /\ pc' = [pc EXCEPT ![c] = "children"] /\ UNCHANGED <<mem, locked>>
    BY <1>3 DEF CreateNode, Goto
  <2>2. k \in OffsetId /\ k \notin locked[c]
    BY CurrentType, ListIdsType
  <2>3. Current(d)' = Current(d)
    BY <2>1 DEF Current, First, ListIds
  <2>4. lock_name'[e][j] = lock_name[e][j]
    BY <1>2, <2>1, <2>2 DEF TypeOK
  <2>5. lock_name[e][j] < nextSeq
    <3>1. Own(e, j) \in znodes
      BY <1>2 DEF LockInv, OwnInv
    <3> QED BY <3>1 DEF LockInv, ZnodesInv, Own
  <2>6. lock_name[e][j] \in Int /\ nextSeq \in Int
    BY <1>2 DEF TypeOK, NoSeq
  <2>7. d # c \/ i # k
    <3> SUFFICES ASSUME d = c, i = k PROVE FALSE
      OBVIOUS
    <3>1. lock_name'[d][i] = nextSeq
      BY <2>1, <2>2 DEF TypeOK
    <3> QED BY <2>4, <2>5, <2>6, <3>1
  <2>8. d # c
    <3> SUFFICES ASSUME d = c PROVE i = k
      BY <2>7
    <3>1. i \in Current(c)
      BY <2>3 DEF Asks
    <3> QED BY <2>1, <3>1, OneCurrent
  <2>9. Asks(d, i) /\ lock_name'[d][i] = lock_name[d][i]
    BY <2>1, <2>3, <2>8 DEF TypeOK, Asks
  <2> QED BY <2>4, <2>9
<1>4. ASSUME NEW c \in Client, GetChildren(c)
      PROVE  Asks(d, i) /\ lock_name[d][i] < lock_name[e][j]
  <2>1. /\ pc[c] = "children" /\ pc' = [pc EXCEPT ![c] = "query"]
        /\ UNCHANGED <<mem, locked, lock_name>>
    BY <1>4 DEF GetChildren, Goto
  <2>2. Current(d)' = Current(d)
    BY <2>1 DEF Current, First, ListIds
  <2>3. Asks(d, i)
    BY <2>1, <2>2 DEF TypeOK, Asks
  <2> QED BY <2>1, <2>3
<1>5. CASE \A c \in Client : ~CreateNode(c) /\ ~GetChildren(c)
  <2>1. LocksShrink
    BY <1>5, ShrinkSteps
  <2> QED BY <2>1 DEF LocksShrink
<1> QED BY <1>3, <1>4, <1>5

LEMMA BeginKeepsSafe ==
  ASSUME TypeOK, PhasesInv, LockInv, SafeInv, NEW c \in Client, BeginResize(c)
  PROVE  SafeInv'
<1>1. /\ UNCHANGED <<off, locked, start, crossed>> /\ txn' = off
      /\ pc' = [pc EXCEPT ![c] = "unlock"] /\ todo' = [todo EXCEPT ![c] = ListIds(c)]
      /\ ListIds(c) \subseteq locked[c]
      /\ \A g \in Client : pc[g] \notin Resizing
  BY BeginForm
<1>2. Held' = Held /\ \A g \in Client : HeldByOthers(g)' = HeldByOthers(g)
  BY <1>1 DEF Held, HeldByOthers
<1>3. UNCHANGED <<mem, lock_name>>
  BY DEF BeginResize, request
<1> SUFFICES ASSUME Safe PROVE
       /\ ApartIn(off, Held)
       /\ \A g \in Client : pc'[g] \in Resizing =>
             /\ ApartIn(off, Unresized(g)' \cup HeldByOthers(g))
             /\ \A i \in HeldByOthers(g) :
                   off[i].bound - off[i].base = off[i].bound - off[i].base
       /\ \A b, d \in Client : \A i \in OffsetId, j \in locked[d] :
             Asks(b, i)' /\ lock_name[b][i] < lock_name[d][j] => ~Conflict(off[i], off[j])
  BY <1>1, <1>2, <1>3 DEF SafeInv, Safe, AllApart, ApartIn
<1>4. ASSUME NEW g \in Client, pc'[g] \in Resizing
      PROVE  ApartIn(off, Unresized(g)' \cup HeldByOthers(g))
  <2>1. g = c
    BY <1>1, <1>4 DEF TypeOK
  <2>2. Unresized(g)' \subseteq locked[c]
    BY <1>1, <2>1 DEF TypeOK, Unresized
  <2>3. Unresized(g)' \cup HeldByOthers(g) \subseteq Held
    BY <2>2 DEF Held, HeldByOthers
  <2> QED BY <2>3, FewerApart DEF SafeInv
<1>5. ASSUME NEW b \in Client, NEW i \in OffsetId, Asks(b, i)' PROVE Asks(b, i)
  BY <1>1, <1>3, <1>5 DEF TypeOK, Asks, Current, First, ListIds
<1> QED BY <1>4, <1>5 DEF SafeInv

LEMMA CommitKeepsSafe ==
  ASSUME TypeOK, PhasesInv, LockInv, OrderInv, SafeInv, NEW c \in Client, Commit(c)
  PROVE  SafeInv'
<1>1. /\ UNCHANGED <<txn, locked, lock_name, todo, start>> /\ off' = txn
      /\ pc' = [pc EXCEPT ![c] = "done"] /\ pc[c] = "commit" /\ locked[c] = {}
      /\ \A g \in Client \ {c} : pc[g] \notin Resizing
      /\ crossed' = (crossed \/ \E d \in Client : pc[d] \in {"children", "query"})
  BY CommitForm
<1>2. Safe' => Safe
  BY <1>1 DEF Safe, AllApart
<1>3. Held' = HeldByOthers(c)
  BY <1>1 DEF Held, HeldByOthers
<1>4. mem' = mem
  BY DEF Commit
<1> SUFFICES ASSUME Safe, Safe' PROVE
       /\ ApartIn(txn, HeldByOthers(c))
       /\ \A g \in Client : pc'[g] \notin Resizing
       /\ \A b, d \in Client : \A i \in OffsetId, j \in locked[d] :
             Asks(b, i)' /\ lock_name[b][i] < lock_name[d][j] => ~Conflict(txn[i], txn[j])
  BY <1>1, <1>2, <1>3 DEF SafeInv, ApartIn
<1>5. ApartIn(txn, HeldByOthers(c))
  <2>1. ApartIn(txn, Unresized(c) \cup HeldByOthers(c))
    BY <1>1 DEF SafeInv, Resizing
  <2> QED BY <2>1, FewerApart
<1>6. \A g \in Client : pc'[g] \notin Resizing
  BY <1>1 DEF TypeOK, Resizing
<1>7. ASSUME NEW b \in Client, NEW d \in Client, NEW i \in OffsetId, NEW j \in locked[d],
             Asks(b, i)', lock_name[b][i] < lock_name[d][j]
      PROVE  ~Conflict(txn[i], txn[j])
  <2>1. Asks(b, i) /\ pc[b] \in {"children", "query"}
    BY <1>1, <1>4, <1>7 DEF TypeOK, Asks, Current, First, ListIds
  <2>2. AllApart
    BY <1>1, <2>1 DEF Safe, AllApart
  <2>3. j \in OffsetId /\ i # j
    <3>1. lock_name[b][i] \in Int /\ lock_name[d][j] \in Int /\ j \in OffsetId
      BY DEF TypeOK, NoSeq
    <3>2. i = j => lock_name[d][j] < lock_name[b][i]
      BY <2>1 DEF LockInv, HolderInv
    <3> QED BY <1>7, <3>1, <3>2
  <2>4. txn \in [OffsetId -> Interval] /\ OrderedIn(txn)
    BY <2>2 DEF TypeOK, OrderInv
  <2> QED BY <2>2, <2>3, <2>4, OrderedApart
<1> QED BY <1>5, <1>6, <1>7

LEMMA ResizeKeepsSafe ==
  ASSUME TypeOK, PhasesInv, LockInv, TodoInv, SafeInv,
         NEW c \in Client, NEW e \in OffsetId, NEW ns \in Nat, Resizes(c, e, ns)
  PROVE  SafeInv'
<1>1. /\ pc[c] = "update" /\ e \in todo[c]
      /\ todo' = [todo EXCEPT ![c] = @ \ {e}]
      /\ UNCHANGED <<off, pc, mem, locked, lock_name, start, crossed>>
  BY DEF Resizes
<1>2. Held' = Held /\ \A g \in Client : HeldByOthers(g)' = HeldByOthers(g)
  BY <1>1 DEF Held, HeldByOthers
<1>3. \A b \in Client, i \in OffsetId : Asks(b, i)' <=> Asks(b, i)
  BY <1>1 DEF Asks, Current, First, ListIds
<1>4. \A g \in Client : pc[g] \in Resizing => g = c
  BY <1>1 DEF PhasesInv, Resizing
<1> SUFFICES ASSUME Safe PROVE
       /\ ApartIn(txn', Unresized(c)' \cup HeldByOthers(c))
       /\ \A i \in HeldByOthers(c) : txn'[i].bound - txn'[i].base = off[i].bound - off[i].base
  BY <1>1, <1>2, <1>3, <1>4 DEF SafeInv, Safe, AllApart, ApartIn
<1> DEFINE S == Unresized(c) \cup HeldByOthers(c)
<1>5. /\ ApartIn(txn, S) /\ S \in SUBSET OffsetId /\ e \in S
      /\ \A i \in HeldByOthers(c) : txn[i].bound - txn[i].base = off[i].bound - off[i].base
  <2>1. pc[c] \in Resizing
    BY <1>1 DEF Resizing
  <2>2. S \subseteq OffsetId
    BY HeldType DEF TypeOK, Unresized
  <2> QED BY <1>1, <2>1, <2>2 DEF SafeInv, Unresized
<1>6. Unresized(c)' \cup HeldByOthers(c) \subseteq S \ {e}
  <2>1. Unresized(c)' = Unresized(c) \ {e}
    BY <1>1 DEF Unresized, TypeOK
  <2>2. e \notin HeldByOthers(c)
    BY <1>1 DEF TodoInv, Unresized
  <2> QED BY <2>1, <2>2
<1> HIDE DEF S
<1>7. \A i \in S \ {e} :
         /\ txn'[i].bound - txn'[i].base = txn[i].bound - txn[i].base
         /\ txn'[i].base < txn'[i].bound
         /\ \A j \in S \ {e} : i # j => ~Conflict(txn'[i], txn'[j])
  BY <1>5, EditKeepsApart
<1>8. ApartIn(txn', S \ {e})
  BY <1>7 DEF ApartIn
<1> QED BY <1>5, <1>6, <1>7, <1>8, FewerApart

LEMMA SafeStep ==
  TypeOK /\ PhasesInv /\ LockInv /\ OrderInv /\ TodoInv /\ SafeInv /\ [Next]_vars => SafeInv'
<1> SUFFICES ASSUME TypeOK, PhasesInv, LockInv, OrderInv, TodoInv, SafeInv, [Next]_vars
             PROVE  SafeInv'
  OBVIOUS
<1>1. CASE \E c \in Client : QueryGranted(c) \/ BeginResize(c) \/ Commit(c)
  BY <1>1, GrantKeepsSafe, BeginKeepsSafe, CommitKeepsSafe
<1>2. CASE \A c \in Client : ~QueryGranted(c) /\ ~BeginResize(c) /\ ~Commit(c)
  <2>1. CASE TableStays
    BY <1>2, <2>1, QuietSteps, QuietKeepsSafe
  <2>2. CASE \E c \in Client, e \in OffsetId, ns \in Nat : Resizes(c, e, ns)
    BY <2>2, ResizeKeepsSafe
  <2> QED BY <1>2, <2>1, <2>2, TableSteps
<1> QED BY <1>1, <1>2

-----------------------------------------------------------------------------
(* What the locks are for.                                                 *)

SharingInv == TypeOK /\ PhasesInv /\ LockInv /\ OrderInv /\ TodoInv /\ SafeInv

LEMMA SharingInvariant == Spec => []SharingInv
<1>1. Init => SharingInv
  BY TypeInit, PhasesInit, LockInit, EditInit DEF SharingInv
<1>2. SharingInv /\ [Next]_vars => SharingInv'
  BY TypeStep, PhasesStep, LockStep, OrderStep, TodoStep, SafeStep DEF SharingInv
<1> QED BY <1>1, <1>2, PTL DEF Spec

(* "there are no conflicting locks - client has lock" (zkclient.c:462):    *)
(* nobody else has a lock on the same row, and, in a file whose rows were  *)
(* apart at first or as long as no resize was committed in the middle of a *)
(* request, locks that are held together are on disjoint parts of the      *)
(* file, whatever the clients want, edit and lose by crashing.             *)
THEOREM LocksAreExclusive == Spec => []LocksExclude
<1>1. SharingInv => LocksExclude
  <2> SUFFICES ASSUME SharingInv PROVE LocksExclude
    OBVIOUS
  <2>1. \A c, d \in Client : c # d => locked[c] \cap locked[d] = {}
    BY DEF SharingInv, LockInv, HolderInv
  <2>2. ASSUME Safe, NEW c \in Client, NEW d \in Client,
               NEW i \in locked[c], NEW j \in locked[d], <<c, i>> # <<d, j>>
        PROVE  ~Conflict(off[i], off[j])
    <3>1. i # j
      BY <2>1, <2>2
    <3>2. i \in Held /\ j \in Held
      BY DEF Held
    <3> QED BY <2>2, <3>1, <3>2 DEF SharingInv, SafeInv, ApartIn
  <2> QED BY <2>1, <2>2 DEF LocksExclude, Safe
<1> QED BY <1>1, SharingInvariant, PTL

(* QUERY_RESIZE_FILE (sql.c:119-132): what a client has locked keeps its   *)
(* size under the edits of the other clients, whatever else they shift.    *)
THEOREM EditsKeepLockedSizes == Spec => LockedKeepsSize
<1>1. ASSUME SharingInv, [Next]_vars
      PROVE  [AllApart \/ ~crossed =>
                \A c \in Client : \A i \in locked[c] \cap locked'[c] :
                   off'[i].bound - off'[i].base = off[i].bound - off[i].base]_vars
  <2> SUFFICES ASSUME Safe, NEW c \in Client, NEW i \in locked[c] \cap locked'[c]
               PROVE  off'[i].bound - off'[i].base = off[i].bound - off[i].base
    BY DEF Safe
  <2>1. CASE off' = off
    BY <2>1
  <2>t. TypeOK /\ PhasesInv /\ SafeInv
    BY <1>1 DEF SharingInv
  <2>2. ASSUME NEW g \in Client, Commit(g)
        PROVE  off'[i].bound - off'[i].base = off[i].bound - off[i].base
    <3>1. off' = txn /\ pc[g] \in Resizing /\ locked[g] = {}
      BY <2>2, <2>t, CommitForm DEF Resizing
    <3>2. i \in HeldByOthers(g)
      BY <3>1 DEF HeldByOthers
    <3> QED BY <2>t, <3>1, <3>2 DEF SafeInv
  <2>3. CASE \A g \in Client : ~Commit(g)
    <3>1. CASE \E g \in Client : BeginResize(g)
      BY <2>1, <2>t, <3>1, BeginForm
    <3>2. CASE \A g \in Client : ~BeginResize(g)
      BY <1>1, <2>1, <2>t, <2>3, <3>2, TableSteps DEF TableStays, Resizes
    <3> QED BY <3>1, <3>2
  <2> QED BY <2>2, <2>3
<1> QED BY <1>1, SharingInvariant, PTL DEF Spec, LockedKeepsSize
=============================================================================
