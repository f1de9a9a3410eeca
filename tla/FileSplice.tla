----------------------------- MODULE FileSplice ------------------------------
(***************************************************************************)
(* What a session does to the bytes of a file (file.c, query_resize_file): *)
(* add_oracles copies the file and marks the intervals of the range, the   *)
(* user edits the copy, push_swap_file finds the marks again, the UPDATE   *)
(* of each interval is executed, and write_offset_update splices the new   *)
(* texts into the file.  Sessions follow one another: what the locks are   *)
(* for is in MasterLock and IntervalLock.                                  *)
(*                                                                         *)
(* A file is a sequence of bytes; each byte of the first file is a number  *)
(* of its own and a byte that the user types is 0, so that it can be seen  *)
(* where a byte ends up.  Offsets count from 0, as in the code.            *)
(***************************************************************************)
EXTENDS RangeList, Sequences, SequencesExt

CONSTANTS
    OffsetId,    \* the rows of the file
    Ranges,      \* the ranges: each is the set of its rows
    Starts,      \* the layouts that the rows may have at first
    Length,      \* the length of the first file
    MaxLength,   \* bound on the length of the file and on positions
    Texts,       \* what the user may type in the place of an interval
    ShortAt      \* bound: where a sendfile may stop short

Byte == 0..Length

(* A row belongs to one range (RangeId of table Offset).                   *)
ASSUME FileSpliceAssumption ==
    /\ OffsetId \subseteq Nat /\ IsFiniteSet(OffsetId)
    /\ Ranges \subseteq SUBSET OffsetId
    /\ \A S, T \in Ranges : S # T => S \cap T = {}
    /\ Starts \subseteq [OffsetId -> [base : Nat, bound : Nat]]
    /\ Length \in Nat /\ MaxLength \in Nat
    /\ Texts \subseteq Seq(Byte) /\ ShortAt \subseteq Nat

Open  == -1      \* o->oracle[0]
Close == -2      \* o->oracle[1], as bytes that occur nowhere else

VARIABLES
    backing,     \* the bytes of the file
    rows,        \* its rows in table Offset
    txn,         \* the rows as the transaction of query_resize_file has them
    pc,          \* "idle", "edit", "search" or "resize"
    list,        \* rf->it
    left,        \* the bytes of a swap file that nobody has removed
    swp,         \* the bytes of the swap file
    tail,        \* the last of them, which Pull has not overwritten
    n,           \* the interval that the loop has reached
    o_close,     \* the closing oracle found last
    delta,       \* how much the intervals before it have grown
    ou,          \* the offset updates computed so far
    gaps,        \* history: the texts outside the oracles, as pulled
    texts        \* history: the texts the user has left inside them

session == <<list, swp, tail, n, o_close, delta, ou, gaps, texts>>
vars    == <<backing, rows, txn, left, pc, session>>

-----------------------------------------------------------------------------
(* Helpers *)

AtMost(a, b) == IF a <= b THEN a ELSE b

(* sendfile of k bytes from offset p: fewer at the end of the file, and    *)
(* none for a negative count, which is an error.                           *)
Copy(s, p, k) == SubSeq(s, p + 1, AtMost(p + k, Len(s)))

TextOf(s, r) == Copy(s, r.base, r.bound - r.base)

(* The gap before interval k of l, or after the last one.                  *)
GapBefore(s, l, k) ==
    LET from == IF k = 1 THEN 0 ELSE l[k - 1].bound
        to   == IF k > Len(l) THEN Len(s) ELSE l[k].base
    IN  Copy(s, from, to - from)

(* add_oracles breaks off after an interval that starts beyond the end.    *)
Marked(s, l) ==
    SelectInSeq(l, LAMBDA p : p.base > Len(s))

MarkedPrefix(s, l) == IF Marked(s, l) = 0 THEN l ELSE SubSeq(l, 1, Marked(s, l))

(* Gaps and texts in turn, each text between the bytes o and c: the two    *)
(* oracles in a swap file, nothing in the file itself.                     *)
Pieces(g, t, o, c) == [k \in 1..Len(t) |-> g[k] \o o \o t[k] \o c]

Woven(g, t, o, c) == FlattenSeq(Pieces(g, t, o, c)) \o g[Len(t) + 1]

SwapFile(g, t) == Woven(g, t, <<Open>>, <<Close>>)

PlainFile(g, t) == Woven(g, t, <<>>, <<>>)

(* The nodes in the order of their Base. *)
InOrder(nodes) ==
    {l \in [1..Cardinality(nodes) -> nodes] :
        \A j, k \in 1..Cardinality(nodes) : j < k => l[j].base < l[k].base}

(* The swap file is opened without O_TRUNC and written from its start.     *)
Remainder(new) == SubSeq(left, Len(new) + 1, Len(left))

(* oracle_search: the offset of a mark at or after offset p, or -1.        *)
Search(mark, p) ==
    LET found == {i \in 1..Len(swp) : i > p /\ swp[i] = mark}
    IN  IF found = {} THEN -1 ELSE (CHOOSE i \in found : \A j \in found : i <= j) - 1

-----------------------------------------------------------------------------
FirstFile == [i \in 1..Length |-> i]

Init ==
    /\ backing = FirstFile
    /\ \E s \in Starts :
          rows = [i \in OffsetId |->
                    [base |-> s[i].base, bound |-> s[i].bound, conflict |-> FALSE]]
    /\ txn = rows
    /\ pc = "idle"
    /\ left = <<>> /\ tail = <<>>
    /\ list = <<>> /\ swp = <<>> /\ gaps = <<>> /\ texts = <<>>
    /\ n = 1 /\ o_close = 0 /\ delta = 0 /\ ou = <<>>

(* The variables of a session end with its functions. *)
EndSession ==
    /\ pc' = "idle"
    /\ list' = <<>> /\ swp' = <<>> /\ tail' = <<>> /\ gaps' = <<>> /\ texts' = <<>>
    /\ n' = 1 /\ o_close' = 0 /\ delta' = 0 /\ ou' = <<>>

(* query_select_named_range, with the interval lock of every node: an      *)
(* interval is locked only if it conflicts with itself.  Then add_oracles. *)
Pull(S) ==
    /\ pc = "idle"
    /\ Range(backing) \cap {Open, Close} = {}     \* bound: no oracle occurs in the file
    /\ list' \in InOrder(MergedList(rows, S))
    /\ \A k \in 1..Len(list') : Conflict(rows[list'[k].id], rows[list'[k].id])
    /\ LET l == MarkedPrefix(backing, list') IN
          /\ gaps' = [k \in 1 .. Len(l) + 1 |-> GapBefore(backing, l, k)]
          /\ texts' = [k \in 1..Len(l) |-> TextOf(backing, l[k])]
    /\ LET new == SwapFile(gaps', texts') IN
          tail' = Remainder(new) /\ swp' = new \o tail'
    /\ pc' = "edit"
    /\ left' = <<>>
    /\ UNCHANGED <<backing, rows, txn, n, o_close, delta, ou>>

(* The editor ends well.  The user has replaced the texts of some          *)
(* intervals, perhaps typed something above the first oracle, and perhaps  *)
(* lost one oracle.  What he does not know, the tail, stays.               *)
Save ==
    /\ pc = "edit"
    /\ \E new \in {t \in [1..Len(texts) -> Texts \cup Range(texts)] :
                      \A k \in 1..Len(texts) : t[k] \in Texts \cup {texts[k]}},
          above \in {<<>>, <<0>>} :
          LET all == above \o SwapFile(gaps, new)
          IN  /\ Len(PlainFile(gaps, new)) <= MaxLength
              /\ texts' = new
              /\ \/ swp' = all \o tail
                 \/ \E i \in {j \in 1..Len(all) : all[j] \in {Open, Close}} :
                       swp' = RemoveAt(all, i) \o tail
    /\ pc' = "search" /\ n' = 1 /\ o_close' = -1
    /\ UNCHANGED <<backing, rows, txn, left, list, tail, delta, ou, gaps>>

(* Mode read, or with -E the editor failed: the swap file is removed.      *)
Quit ==
    /\ pc = "edit"
    /\ EndSession
    /\ UNCHANGED <<backing, rows, txn, left>>

(* With -e the editor failed, or the process died and its transaction is   *)
(* rolled back: the swap file stays.  Bound: once in a row, and while the  *)
(* file is as it was at first.                                             *)
Abandon ==
    /\ pc # "idle" /\ tail = <<>> /\ backing = FirstFile
    /\ left' = swp
    /\ EndSession
    /\ txn' = rows
    /\ UNCHANGED <<backing, rows>>

-----------------------------------------------------------------------------
(* push_swap_file: one turn of its loop, and the editor again if an oracle *)
(* is missing.  The position in the swap file replaces that in the file.   *)
\* fault: the result of the search for the closing oracle is not looked at
MissingOpening(open, close) == open < 0

Missing(open, close) == open < 0 \/ close < 0

FindOracles ==
    LET open  == Search(Open, o_close + 1)
        close == Search(Close, open + 1)
    IN  /\ pc = "search" /\ n <= Len(list)
        /\ \/ /\ Missing(open, close)
              /\ pc' = "edit"
              /\ UNCHANGED <<list, n, o_close>>
           \/ /\ ~Missing(open, close)
              /\ list' = [list EXCEPT ![n].base = open + 1, ![n].bound = close]
              /\ n' = n + 1
              /\ o_close' = close
              /\ UNCHANGED pc
        /\ UNCHANGED <<backing, rows, txn, left, swp, tail, delta, ou, gaps, texts>>

(* query_resize_file: START TRANSACTION.                                   *)
BeginResize ==
    /\ pc = "search" /\ n > Len(list)
    /\ txn' = rows
    /\ n' = 1 /\ delta' = 0 /\ ou' = <<>>
    /\ pc' = "resize"
    /\ UNCHANGED <<backing, rows, left, list, swp, tail, o_close, gaps, texts>>

NotShifted(p) == p       \* fault: the updates before it are forgotten

SwpStart(node) == node.base

InFile(p) == p - delta

(* One turn of its loop: the row as the UPDATEs so far have left it, less  *)
(* what they have added, is where the interval still is in the file.       *)
Resize ==
    LET node   == list[n]
        row    == txn[node.id]
        new_sz == node.bound - node.base
    IN  /\ pc = "resize" /\ n <= Len(list)
        /\ ou' = Append(ou, [backing_start |-> InFile(row.base),
                             backing_end   |-> InFile(row.bound),
                             swp_start     |-> SwpStart(node),
                             swp_end       |-> node.bound])
        /\ txn' = Resized(txn, node.id, new_sz)
        /\ delta' = delta + new_sz - (row.bound - row.base)
        /\ n' = n + 1
        /\ UNCHANGED <<backing, rows, left, pc, list, swp, tail, o_close, gaps, texts>>

(* write_offset_update: where the loop has come in the old file before     *)
(* update k, and what it writes to tmp.                                    *)
Reached(k) == IF k = 1 THEN 0 ELSE ou[k - 1].backing_end

Replaced(k) ==
    Copy(backing, Reached(k), ou[k].backing_start - Reached(k))
        \o Copy(swp, ou[k].swp_start, ou[k].swp_end - ou[k].swp_start)

Spliced ==
    LET end == Reached(Len(ou) + 1)
    IN  FlattenSeq([k \in 1..Len(ou) |-> Replaced(k)]) \o Copy(backing, end, Len(backing) - end)

EndPush == pc = "resize" /\ n > Len(list) /\ EndSession /\ UNCHANGED left

Committed  == rows' = txn /\ UNCHANGED txn
RolledBack == txn' = rows /\ UNCHANGED rows

(* ... and COMMIT. *)
WriteFile ==
    /\ EndPush
    /\ backing' = Spliced
    /\ Committed

(* ROLLBACK.  push_swap_file does not look at the result and returns 0.    *)
WriteFails ==
    /\ EndPush
    /\ UNCHANGED backing
    /\ RolledBack

(* COMMIT fails, with the file written.  Bound: this and WriteInPart       *)
(* happen only while the file is as it was at first.                       *)
CommitFails ==
    /\ EndPush /\ backing = FirstFile
    /\ backing' = Spliced
    /\ RolledBack

(* A sendfile may stop short of what it is asked for, and only an error of *)
(* the last one is looked at.  tmp has got no more than t of its bytes,    *)
(* and the file no more than m of these; ftruncate then cuts the file to   *)
(* the length of tmp, or fills it up with zeros.                           *)
Short(t, m) ==
    [k \in 1..t |-> IF k <= m THEN Spliced[k]
                    ELSE IF k <= Len(backing) THEN backing[k] ELSE 0]

WriteInPart ==
    /\ EndPush /\ backing = FirstFile
    /\ \E t, m \in ShortAt \cup {Len(Spliced)} :
          m <= t /\ t <= Len(Spliced) /\ m < Len(Spliced) /\ backing' = Short(t, m)
    /\ Committed \/ RolledBack

Next ==
    \/ \E S \in Ranges : Pull(S)
    \/ Save \/ Quit \/ Abandon \/ FindOracles \/ BeginResize \/ Resize
    \/ WriteFile \/ WriteFails \/ CommitFails \/ WriteInPart

Spec == Init /\ [][Next]_vars

-----------------------------------------------------------------------------
(* Properties *)

TypeOK ==
    /\ backing \in Seq(Byte \cup {Open, Close})
    /\ {rows, txn} \subseteq [OffsetId -> [base : Nat, bound : Nat, conflict : BOOLEAN]]
    /\ pc \in {"idle", "edit", "search", "resize"}
    /\ list \in Seq([id : OffsetId, base : Nat, bound : Nat])
    /\ {left, swp, tail} \subseteq Seq(Byte \cup {Open, Close})
    /\ n \in Nat /\ o_close \in Int /\ delta \in Int
    /\ ou \in Seq([backing_start : Int, backing_end : Int, swp_start : Int, swp_end : Int])
    /\ gaps \in Seq(Seq(Byte)) /\ texts \in Seq(Seq(Byte))

Edited == {list[k].id : k \in 1..Len(list)}

(* Every node of the list is one row: no rows of the range met.            *)
Unmerged == Edited \in Ranges

Marks(m, s) == Cardinality({i \in 1..Len(s) : s[i] = m})

(* The user has kept the oracles of all intervals. *)
OraclesKept == \A m \in {Open, Close} : Marks(m, swp) - Marks(m, tail) = Len(list)

(* The swap file ends with oracles of an earlier session, which            *)
(* push_swap_file would take for one that the user has lost.               *)
StaleOracles == \E m \in {Open, Close} : Marks(m, tail) > 0

Pushed == WriteFile /\ Unmerged /\ (StaleOracles => OraclesKept)

(* The bytes of the file change in the intervals of the range and nowhere  *)
(* else, and there to what the user left between the oracles, whatever he  *)
(* typed outside them and whatever an earlier session has left in the swap *)
(* file (push_swap_file, query_resize_file and write_offset_update         *)
(* together).                                                              *)
SpliceIsExact == [][Pushed => backing' = PlainFile(gaps, texts)]_vars

(* After a push every row still describes its bytes: a row of the range    *)
(* the text it was given, and a row that no edited row overlaps the same   *)
(* bytes as before, wherever they have moved.  (A row that a conflict has  *)
(* left beyond the end of the file has no bytes to describe.)              *)
RowsFollowBytes ==
    [][Pushed /\ (\A j \in Edited : rows[j].base <= Len(backing)) =>
          /\ \A k \in 1..Len(list) : TextOf(backing', rows'[list[k].id]) = texts[k]
          /\ \A i \in OffsetId \ Edited :
                (\A j \in Edited : ~Conflict(rows[i], rows[j])) /\ rows[i].base < rows[i].bound
                   => TextOf(backing', rows'[i]) = TextOf(backing, rows[i])]_vars

(* Without all its oracles a swap file is never pushed: the user gets the  *)
(* editor again.                                                           *)
MarksNeeded == pc = "resize" /\ ~StaleOracles => OraclesKept
=============================================================================
