------------------------------ MODULE RangeList ------------------------------
(***************************************************************************)
(* The list of intervals that query_select_named_range builds for one file *)
(* of a range: range_file_add_it on its rows in the order of Base.  Rows   *)
(* that meet become one node, with the id of the first of them.  This is   *)
(* what IntervalList computes for input in that order.  A row that edits   *)
(* have turned around is left as it is, or joined to the row that it meets;*)
(* that is what the loop does in a range of two rows, while in one of three*)
(* it may join such a row to the union of the other two.                   *)
(***************************************************************************)
EXTENDS OffsetUpdate

(* ORDER BY Offset.Base; ties come in the order of the keys. *)
Prior(rows, i, j) ==
    rows[i].base < rows[j].base \/ (rows[i].base = rows[j].base /\ i < j)

(* The rows that start a node: none of the earlier ones reaches them.      *)
Lead(rows, S) ==
    {i \in S : \A j \in S : Prior(rows, j, i) => ~Intersect(rows[i], rows[j])}

Group(rows, S, i) ==
    {j \in S : /\ ~Prior(rows, j, i)
               /\ \A k \in Lead(rows, S) : Prior(rows, i, k) => Prior(rows, j, k)}

MergedList(rows, S) ==
    {[id |-> p[1], base |-> rows[p[1]].base, bound |-> p[2]] :
        p \in {q \in Lead(rows, S) \X {rows[j].bound : j \in S} :
                  /\ \E j \in Group(rows, S, q[1]) : q[2] = rows[j].bound
                  /\ \A j \in Group(rows, S, q[1]) : rows[j].bound <= q[2]}}
=============================================================================
