---------------------------- MODULE OffsetUpdate -----------------------------
(***************************************************************************)
(* The rows of table Offset that belong to one file, and the UPDATE of     *)
(* QUERY_RESIZE_FILE (sql.c) that a client runs for each interval it has   *)
(* edited.  A row is the interval [base, bound) of bytes of the file and   *)
(* the flag that tells its owner that somebody else edited inside it.      *)
(***************************************************************************)
EXTENDS Intervals

(* @ns - (@ob - @b) *)
Change(e, ns) == ns - (e.bound - e.base)

(* SET Base = ..., Bound = ... for row r when row e of the same file gets  *)
(* the new size ns; "other" says that r and e are different rows.          *)
BaseBeyond(r, e, other, ns) ==      \* fault: > for >=
    IF other /\ r.base > e.bound THEN r.base + Change(e, ns) ELSE r.base

BaseAlways(r, e, other, ns) ==      \* fault: the test of Base is missing
    IF other THEN r.base + Change(e, ns) ELSE r.base

BaseNever(r, e, other, ns) ==       \* fault: Base is not shifted
    r.base

NewBase(r, e, other, ns) ==
    IF other /\ r.base >= e.bound THEN r.base + Change(e, ns) ELSE r.base

BoundAlways(r, e, ns) ==            \* fault: the test of Bound is missing
    r.bound + Change(e, ns)

BoundBeyond(r, e, ns) ==            \* fault: > for >=
    IF r.bound > e.bound THEN r.bound + Change(e, ns) ELSE r.bound

NewBound(r, e, ns) ==
    IF r.bound >= e.bound THEN r.bound + Change(e, ns) ELSE r.bound

Moved(r, e, other, ns) ==
    [base |-> NewBase(r, e, other, ns), bound |-> NewBound(r, e, ns)]

(* The condition of the CASE for Conflict.  MySQL assigns from left to     *)
(* right, so it tests the new Base and Bound of r against the old @b, @ob. *)
TouchesEnds(r, e) ==                \* fault: a covered row is forgotten
    \/ e.base < r.base /\ e.bound < r.bound /\ e.bound > r.base
    \/ e.base > r.base /\ e.base < r.bound /\ e.bound > r.bound

Touches(r, e) ==
    \/ e.base < r.base /\ e.bound < r.bound /\ e.bound > r.base
    \/ e.base <= r.base /\ e.bound >= r.bound
    \/ e.base > r.base /\ e.base < r.bound /\ e.bound > r.bound

(* UPDATE Offset SET ... WHERE FileId = ?, for the edit of row oid.        *)
Resized(rows, oid, ns) ==
    [i \in DOMAIN rows |->
        LET m == Moved(rows[i], rows[oid], i # oid, ns) IN
        [base     |-> m.base,
         bound    |-> m.bound,
         conflict |-> i # oid /\ (rows[i].conflict \/ Touches(m, rows[oid]))]]
=============================================================================
