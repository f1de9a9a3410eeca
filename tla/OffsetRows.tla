----------------------------- MODULE OffsetRows ------------------------------
(***************************************************************************)
(* The offsets of one file under any sequence of edits.  Each step is the  *)
(* transaction of query_resize_file for one interval of one range.         *)
(***************************************************************************)
EXTENDS OffsetUpdate

CONSTANTS
    OffsetId,   \* the rows of the file
    MaxPos,     \* bound on positions in the file
    MaxSize     \* bound on the size an edit gives an interval

ASSUME OffsetRowsAssumption == MaxPos \in Nat /\ MaxSize \in Nat

VARIABLES
    rows,       \* the table: OffsetId -> Row
    edited      \* history: the row of the last edit, or NoRow

NoRow == 0

ASSUME NoRowAssumption == NoRow \notin OffsetId

vars == <<rows, edited>>

Row == [base : Nat, bound : Nat, conflict : BOOLEAN]

(* query_insert_named_range, after get_range has refused empty regions.    *)
Init ==
    /\ rows \in [OffsetId -> {r \in [base : 0..MaxPos, bound : 0..MaxPos, conflict : {FALSE}] :
                                  r.base < r.bound}]
    /\ edited = NoRow

(* The interval lock is granted only to an interval that conflicts with    *)
(* itself.  push_swap_file accepts any text between the oracles, so the    *)
(* new size may be 0.                                                      *)
Edit(oid, ns) ==
    /\ Conflict(rows[oid], rows[oid])
    /\ rows' = Resized(rows, oid, ns)
    /\ edited' = oid
    /\ \A i \in OffsetId : rows'[i].bound <= MaxPos

Next == \E oid \in OffsetId, ns \in 0..MaxSize : Edit(oid, ns)

Spec == Init /\ [][Next]_vars

-----------------------------------------------------------------------------
TypeOK == rows \in [OffsetId -> Row] /\ edited \in OffsetId \cup {NoRow}

(* The edited interval as it was, in an action property.                   *)
Old == rows[edited']

Others == OffsetId \ {edited'}

IsInterval(r) == r.base < r.bound

(* Intervals in different parts of the file stay apart, in the same order, *)
(* whichever of them is edited and whatever is edited elsewhere without    *)
(* overlapping them: only the gap between them may shrink to nothing.      *)
OrderKept ==
    [][\A i, j \in OffsetId :
          /\ IsInterval(rows[i]) /\ IsInterval(rows[j]) /\ rows[i].bound <= rows[j].base
          /\ \A k \in {i, j} \ {edited'} : ~Conflict(rows[k], Old)
          => /\ rows'[i].base <= rows'[i].bound
             /\ rows'[i].bound <= rows'[j].base
             /\ rows'[j].base <= rows'[j].bound]_vars

(* An interval that does not reach into the edited one keeps its size.     *)
SizeKept ==
    [][\A i \in Others :
          IsInterval(rows[i]) /\ ~Conflict(rows[i], Old) =>
             rows'[i].bound - rows'[i].base = rows[i].bound - rows[i].base]_vars

EndsInside(r, e) == \E x \in {r.base, r.bound} : e.base < x /\ x < e.bound

Grown == rows'[edited'].bound > Old.bound

(* An edit never goes unnoticed by an interval that starts or ends inside  *)
(* the edited text, in spite of the assignments that come before the test. *)
(* The interval of a shared range with the same two ends is told of every  *)
(* edit that does not make the text longer.                                *)
(*                                                                         *)
(* This is less than the cases 1, 2 and 4 of the comment before            *)
(* QUERY_RESIZE_FILE (sql.c:78-110) promise.  The test sees the new Bound: *)
(* an interval with the same ends is not told of an edit that makes the    *)
(* text longer; one that starts earlier and ends with it is told only if   *)
(* the edit makes the text shorter and leaves something of it; one that    *)
(* starts with it and ends behind it is told only if the edit pulls its    *)
(* end back to where the edited one ended, or further.                     *)
ConflictNoticed ==
    [][\A i \in Others : LET r == rows[i] IN
          /\ IsInterval(r)
          /\ EndsInside(r, Old) \/ (r.base = Old.base /\ r.bound = Old.bound /\ ~Grown)
          => rows'[i].conflict]_vars
=============================================================================
