---------------------------- MODULE IntervalList -----------------------------
(***************************************************************************)
(* The list of intervals of one struct range_file (range.c), built by      *)
(* it_insert_new (interval_tree.c): range_file_add_it is called for each   *)
(* INTERVAL argument of -g, in the order of the command line, and for each *)
(* row of a range, in the order of Base.  One step is one turn of the loop *)
(* of it_insert_new.                                                       *)
(*                                                                         *)
(* The linked list is a sequence of nodes; a node that was freed stays in  *)
(* the sequence, because nothing ever unlinks it.                          *)
(***************************************************************************)
EXTENDS Intervals, Sequences

CONSTANTS
    MaxPos,        \* bound on positions in the file
    MaxInserts     \* bound on the number of intervals

ASSUME IntervalListAssumption == MaxPos \in Nat /\ MaxInserts \in Nat

VARIABLES
    list,          \* rf->it
    num_it,        \* rf->num_it
    pc,            \* "idle", "loop", "insert" or "dead"
    f,             \* the interval to insert
    p_itn,         \* the position the loop has reached
    p_f,           \* the position of the base node, 0 while it is f itself
    save,          \* the position to insert after
    inserted       \* history: the intervals given so far, in order

loop == <<p_itn, p_f, save>>
vars == <<list, num_it, pc, f, loop, inserted>>

(* get_range refuses empty regions; a row of the table may be empty.  Rows *)
(* that edits of overlapping rows have turned around, base above bound (see*)
(* OffsetRows), are not given here.                                        *)
Input == {r \in [base : 0..MaxPos, bound : 0..MaxPos] : r.base <= r.bound}

Init ==
    /\ list = <<>> /\ num_it = 0 /\ inserted = <<>>
    /\ pc = "idle"
    /\ f = [base |-> 0, bound |-> 0] /\ p_itn = 1 /\ p_f = 0 /\ save = 0

(* range_file_add_it *)
Add(r) ==
    /\ pc = "idle"
    /\ Len(inserted) < MaxInserts
    /\ f' = r
    /\ inserted' = Append(inserted, r)
    /\ p_itn' = 1 /\ p_f' = 0 /\ save' = 0
    /\ pc' = "loop"
    /\ UNCHANGED <<list, num_it>>

(* The node under the cursor, and what it is compared with.                *)
Here == list[p_itn]

Probe == IF p_f = 0 THEN f ELSE list[p_f]

AtNode == pc = "loop" /\ p_itn <= Len(list) /\ ~Here.freed

MeetingKeepsBound ==     \* fault: the bound of the node is not extended
    /\ AtNode /\ p_f = 0 /\ Intersect(f, Here)
    /\ list' = [list EXCEPT ![p_itn].base = Smaller(@, f.base)]
    /\ p_f' = p_itn
    /\ p_itn' = p_itn + 1
    /\ UNCHANGED <<num_it, pc, f, save, inserted>>

MeetingTakesId ==        \* fault: the node takes the id of the new interval
    /\ AtNode /\ p_f = 0 /\ Intersect(f, Here)
    /\ list' = [list EXCEPT ![p_itn].base = Smaller(@, f.base),
                            ![p_itn].bound = Larger(@, f.bound),
                            ![p_itn].id = Len(inserted)]
    /\ p_f' = p_itn
    /\ p_itn' = p_itn + 1
    /\ UNCHANGED <<num_it, pc, f, save, inserted>>

(* The first node that meets f takes its bounds.                           *)
FirstMeeting ==
    /\ AtNode /\ p_f = 0 /\ Intersect(f, Here)
    /\ list' = [list EXCEPT ![p_itn].base = Smaller(@, f.base),
                            ![p_itn].bound = Larger(@, f.bound)]
    /\ p_f' = p_itn
    /\ p_itn' = p_itn + 1
    /\ UNCHANGED <<num_it, pc, f, save, inserted>>

(* A further one is absorbed and freed.  p_f->ls.next is set to the node   *)
(* itself and not to its successor, so the next turn is at the same node.  *)
Absorb ==
    /\ AtNode /\ p_f # 0 /\ Intersect(Probe, Here)
    /\ list' = [list EXCEPT ![p_f].bound = Larger(@, Here.bound),
                            ![p_itn].freed = TRUE]
    /\ UNCHANGED <<num_it, pc, f, loop, inserted>>

(* The freed node still has its base and bound, and is freed again.        *)
FreedTwice ==
    /\ pc = "loop" /\ p_itn <= Len(list) /\ Here.freed
    /\ pc' = "dead"
    /\ UNCHANGED <<list, num_it, f, loop, inserted>>

PassTooFar ==            \* fault: the node after the one passed is saved
    /\ AtNode /\ ~Intersect(Probe, Here) /\ Here.base < Probe.base
    /\ save' = p_itn + 1
    /\ p_itn' = p_itn + 1
    /\ UNCHANGED <<list, num_it, pc, f, p_f, inserted>>

PassBy ==
    /\ AtNode /\ ~Intersect(Probe, Here) /\ Here.base < Probe.base
    /\ save' = p_itn
    /\ p_itn' = p_itn + 1
    /\ UNCHANGED <<list, num_it, pc, f, p_f, inserted>>

Beyond ==
    /\ pc = "loop"
    /\ p_itn <= Len(list) => AtNode /\ ~Intersect(Probe, Here) /\ Here.base >= Probe.base
    /\ pc' = IF p_f = 0 THEN "insert" ELSE "idle"
    /\ UNCHANGED <<list, num_it, f, loop, inserted>>

(* l_list_add_after(save, ...), and num_it is incremented for a new node.  *)
InsertNew ==
    /\ pc = "insert"
    /\ list' = SubSeq(list, 1, save)
                 \o <<[base |-> f.base, bound |-> f.bound, id |-> Len(inserted),
                       freed |-> FALSE]>>
                 \o SubSeq(list, save + 1, Len(list))
    /\ num_it' = num_it + 1
    /\ pc' = "idle"
    /\ UNCHANGED <<f, loop, inserted>>

Next ==
    \/ \E r \in Input : Add(r)
    \/ FirstMeeting \/ Absorb \/ FreedTwice \/ PassBy \/ Beyond \/ InsertNew

Spec == Init /\ [][Next]_vars

-----------------------------------------------------------------------------
(* Properties *)

Node == [base : Nat, bound : Nat, id : Nat, freed : BOOLEAN]

TypeOK ==
    /\ list \in Seq(Node) /\ num_it \in Nat
    /\ pc \in {"idle", "loop", "insert", "dead"}
    /\ f \in Input /\ p_itn \in 1 .. Len(list) + 1
    /\ p_f \in 0..Len(list) /\ save \in 0..Len(list)
    /\ inserted \in Seq(Input)

(* The positions and the half positions between them that intervals cover: *)
(* two intervals meet when the sets they cover do.                         *)
Covered(s) == UNION {(2 * s[i].base) .. (2 * s[i].bound) : i \in 1..Len(s)}

(* Between calls the list covers what was inserted, no more and no less,   *)
(* its nodes are in order and do not meet, and num_it counts them: the     *)
(* offset_update array and the oracles rely on all three.                  *)
ListIsUnion ==
    pc = "idle" =>
        /\ Covered(list) = Covered(inserted)
        /\ \A i \in 1 .. Len(list) - 1 : list[i].bound < list[i + 1].base
        /\ num_it = Len(list)

(* A node has the id of the first of the rows it is the union of: the row  *)
(* that is locked and resized in the name of all of them.                  *)
IdOfFirstRow ==
    pc = "idle" =>
        \A i \in 1..Len(list) :
            LET n == list[i] IN
            /\ Intersect(inserted[n.id], n)
            /\ \A k \in 1 .. n.id - 1 : ~Intersect(inserted[k], n)

(* Rows that come in the order of their Base, as the query returns them,   *)
(* never make the loop absorb a second node.                               *)
OrderedRowsAreSafe ==
    (\A i, j \in 1..Len(inserted) : i < j => inserted[i].base <= inserted[j].base)
        => pc # "dead" /\ \A i \in 1..Len(list) : ~list[i].freed
=============================================================================
