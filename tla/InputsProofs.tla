---------------------------- MODULE InputsProofs ------------------------------
(***************************************************************************)
(* What people write for yacet, of any length.                             *)
(*                                                                         *)
(* The list of intervals of a range: as long as no node was absorbed, what *)
(* the loop of it_insert_new leaves is the union of what it was given, in  *)
(* order, and each node has the id of its first row.                       *)
(*                                                                         *)
(* ~/.oraclerc, the arguments of -g, -r, -w and -p, and marked texts: each *)
(* is read by a loop.  The loop is a series of states, what is true of the *)
(* state after k items is kept by every step, and what the help says       *)
(* follows of the last state.                                              *)
(***************************************************************************)
EXTENDS MCInputs, SequenceTheorems, FiniteSetTheorems, WellFoundedInduction, TLAPS

(* The interval in hand has no node yet.                                   *)
InHand == pc = "insert" \/ (pc = "loop" /\ p_f = 0)

Housed == 1 .. (IF InHand THEN Len(inserted) - 1 ELSE Len(inserted))

Live == pc # "dead" /\ \A k \in 1..Len(list) : ~list[k].freed

Includes(p, r) == p.base <= r.base /\ r.bound <= p.bound

(* Where the loop is.  The nodes before the cursor end before the interval *)
(* in hand; once a node has taken it in, the cursor is right behind it.    *)
LoopInv ==
    /\ num_it = Len(list)
    /\ Live \/ pc = "dead" \/ (pc = "loop" /\ p_itn <= Len(list) /\ Here.freed)
    /\ pc \in {"loop", "insert"} => Len(inserted) > 0 /\ f = inserted[Len(inserted)]
    /\ pc = "insert" => p_f = 0 /\ \A k \in p_itn..Len(list) : f.bound < list[k].base
    /\ InHand => save = p_itn - 1 /\ \A k \in 1..save : list[k].bound < f.base
    /\ Live /\ pc = "loop" /\ p_f # 0 =>
          /\ p_itn = p_f + 1 /\ list[p_f].base <= f.base
          /\ \A k \in p_itn..Len(list) : f.base < list[k].base

OrderInv ==
    Live => /\ \A k \in 1..Len(list) : list[k].base <= list[k].bound
            /\ \A j, k \in 1..Len(list) :
                  j < k => list[j].bound < list[k].base \/ (pc = "loop" /\ j = p_f)

(* Every interval given is within a node, and a node that took the id of a *)
(* later one is not the only node with those given before.                 *)
HomesInv ==
    Live => \A k \in Housed : \E m \in 1..Len(list) : Includes(list[m], inserted[k])

IdsInv ==
    Live => \A m \in 1..Len(list) :
                /\ list[m].id \in Housed
                /\ Includes(list[m], inserted[list[m].id])
                /\ \A k \in 1 .. list[m].id - 1 :
                      \E l \in 1..Len(list) : l # m /\ Includes(list[l], inserted[k])

Span(r) == (2 * r.base) .. (2 * r.bound)

CoverInv == Live => Covered(list) \cup (IF InHand THEN Span(f) ELSE {}) = Covered(inserted)

Inv == TypeOK /\ LoopInv /\ OrderInv /\ HomesInv /\ IdsInv /\ CoverInv /\ OrderedRowsAreSafe

-----------------------------------------------------------------------------
(* Intervals                                                               *)

(* The regions that are inserted.                                          *)
LEMMA InputType ==
  \A r \in Input : r.base \in Nat /\ r.bound \in Nat /\ r.base <= r.bound
  BY IntervalListAssumption DEF Input

LEMMA Bounds ==
  ASSUME NEW a \in Nat, NEW b \in Nat
  PROVE  /\ Smaller(a, b) \in Nat /\ Smaller(a, b) <= a /\ Smaller(a, b) <= b
         /\ Larger(a, b) \in Nat /\ a <= Larger(a, b) /\ b <= Larger(a, b)
         /\ Smaller(a, b) \in {a, b} /\ Larger(a, b) \in {a, b}
  BY DEF Smaller, Larger

(* Two intervals that meet cover what their hull covers.                   *)
LEMMA Hull ==
  ASSUME NEW p, NEW r, NEW h, Intersect(p, r),
         p.base \in Nat, p.bound \in Nat, p.base <= p.bound,
         r.base \in Nat, r.bound \in Nat, r.base <= r.bound,
         h.base = Smaller(r.base, p.base), h.bound = Larger(r.bound, p.bound)
  PROVE  Span(h) = Span(r) \cup Span(p)
<1> DEFINE a == p.base
           b == p.bound
           c == r.base
           d == r.bound
<1>1. a \in Nat /\ b \in Nat /\ c \in Nat /\ d \in Nat /\ a <= b /\ c <= d /\ a <= d /\ c <= b
  BY DEF Intersect
<1>2. h.base = Smaller(c, a) /\ h.bound = Larger(d, b)
  OBVIOUS
<1> HIDE DEF a, b, c, d
<1>3. \A x \in Int : 2 * h.base <= x /\ x <= 2 * h.bound <=>
          (2 * c <= x /\ x <= 2 * d) \/ (2 * a <= x /\ x <= 2 * b)
  BY <1>1, <1>2 DEF Smaller, Larger
<1>4. Span(p) = (2 * a) .. (2 * b) /\ Span(r) = (2 * c) .. (2 * d)
  BY DEF Span, a, b, c, d
<1>5. h.base \in Nat /\ h.bound \in Nat
  BY <1>1, <1>2, Bounds
<1>6. Span(h) = (2 * h.base) .. (2 * h.bound)
  BY DEF Span
<1>7. \A x : /\ x \in (2 * h.base) .. (2 * h.bound) <=> x \in Int /\ 2 * h.base <= x /\ x <= 2 * h.bound
             /\ x \in (2 * a) .. (2 * b) <=> x \in Int /\ 2 * a <= x /\ x <= 2 * b
             /\ x \in (2 * c) .. (2 * d) <=> x \in Int /\ 2 * c <= x /\ x <= 2 * d
  BY <1>1, <1>5
<1>8. \A x : x \in Span(h) <=> x \in Span(r) \/ x \in Span(p)
  BY <1>3, <1>4, <1>6, <1>7
<1> QED BY <1>8

LEMMA CoveredSpans ==
  ASSUME NEW s
  PROVE  \A x : x \in Covered(s) <=> \E k \in 1..Len(s) : x \in Span(s[k])
  BY DEF Covered, Span

-----------------------------------------------------------------------------
(* What the steps do to the list                                           *)

LEMMA ListType ==
  ASSUME TypeOK
  PROVE  /\ Len(list) \in Nat /\ Len(inserted) \in Nat
         /\ f.base \in Nat /\ f.bound \in Nat /\ f.base <= f.bound
         /\ \A k \in 1..Len(list) : /\ list[k] \in Node
                                    /\ list[k].base \in Nat /\ list[k].bound \in Nat
                                    /\ list[k].id \in Nat /\ list[k].freed \in BOOLEAN
         /\ \A k \in 1..Len(inserted) :
               /\ inserted[k] \in Input
               /\ inserted[k].base \in Nat /\ inserted[k].bound \in Nat
               /\ inserted[k].base <= inserted[k].bound
<1>1. Len(list) \in Nat /\ Len(inserted) \in Nat
  BY LenProperties DEF TypeOK
<1>2. \A k \in 1..Len(list) : list[k] \in Node
  BY ElementOfSeq DEF TypeOK
<1>3. \A k \in 1..Len(inserted) : inserted[k] \in Input
  BY ElementOfSeq DEF TypeOK
<1>4. f \in Input
  BY DEF TypeOK
<1> QED BY <1>1, <1>2, <1>3, <1>4, InputType DEF Node

LEMMA FirstMeetingList ==
  ASSUME TypeOK, FirstMeeting
  PROVE  /\ p_itn \in 1..Len(list) /\ list' \in Seq(Node) /\ Len(list') = Len(list)
         /\ \A k \in 1..Len(list) : k # p_itn => list'[k] = list[k]
         /\ list'[p_itn].base = Smaller(Here.base, f.base)
         /\ list'[p_itn].bound = Larger(Here.bound, f.bound)
         /\ list'[p_itn].id = Here.id /\ list'[p_itn].freed = Here.freed
<1> DEFINE new == [Here EXCEPT !.base = Smaller(@, f.base), !.bound = Larger(@, f.bound)]
<1>1. p_itn \in 1..Len(list)
  BY ListType DEF FirstMeeting, AtNode, TypeOK
<1>2. Here \in Node
  BY <1>1, ListType DEF Here
<1>3. Here.base \in Nat /\ Here.bound \in Nat
  BY <1>2 DEF Node
<1>4. Smaller(Here.base, f.base) \in Nat /\ Larger(Here.bound, f.bound) \in Nat
  BY <1>3, ListType, Bounds
<1>5. /\ new \in Node /\ new.base = Smaller(Here.base, f.base)
      /\ new.bound = Larger(Here.bound, f.bound) /\ new.id = Here.id /\ new.freed = Here.freed
  BY <1>2, <1>4 DEF Node
<1>6. list \in Seq(Node)
  BY DEF TypeOK
<1>7. list' = [list EXCEPT ![p_itn] = new]
  BY <1>1, <1>6 DEF FirstMeeting, Here
<1> HIDE DEF new
<1>8. /\ list' \in Seq(Node) /\ Len(list') = Len(list)
      /\ \A k \in 1..Len(list) : list'[k] = IF k = p_itn THEN new ELSE list[k]
  BY <1>1, <1>5, <1>6, <1>7, ExceptSeq
<1> QED BY <1>1, <1>5, <1>8

LEMMA AbsorbList ==
  ASSUME TypeOK, Absorb
  PROVE  /\ p_itn \in 1..Len(list) /\ list' \in Seq(Node) /\ Len(list') = Len(list)
         /\ list'[p_itn].freed = TRUE
<1>1. p_itn \in 1..Len(list) /\ p_f \in 1..Len(list)
  BY ListType DEF Absorb, AtNode, TypeOK
<1>2. list \in Seq(Node)
  BY DEF TypeOK
<1> DEFINE wide == [list[p_f] EXCEPT !.bound = Larger(@, Here.bound)]
           mid  == [list EXCEPT ![p_f] = wide]
           gone == [mid[p_itn] EXCEPT !.freed = TRUE]
<1>3. Larger(list[p_f].bound, Here.bound) \in Nat
  BY <1>1, ListType, Bounds DEF Here
<1>4. wide \in Node
  BY <1>1, <1>3, ListType DEF Node
<1> HIDE DEF wide
<1>5. mid \in Seq(Node) /\ Len(mid) = Len(list)
  BY <1>1, <1>2, <1>4, ExceptSeq
<1> HIDE DEF mid
<1>6. mid[p_itn] \in Node
  BY <1>1, <1>5, ElementOfSeq
<1>7. gone \in Node /\ gone.freed = TRUE
  BY <1>6 DEF Node
<1>8. list' = [mid EXCEPT ![p_itn] = gone]
  BY <1>1, <1>2 DEF Absorb, mid, wide, Here
<1> HIDE DEF gone
<1> QED BY <1>1, <1>5, <1>7, <1>8, ExceptSeq

InsertedAt(q, at, x) == SubSeq(q, 1, at) \o <<x>> \o SubSeq(q, at + 1, Len(q))

LEMMA InsertedNode ==
  ASSUME NEW S, NEW q \in Seq(S), NEW at \in 0..Len(q), NEW x \in S
  PROVE  /\ InsertedAt(q, at, x) \in Seq(S) /\ Len(InsertedAt(q, at, x)) = Len(q) + 1
         /\ \A k \in 1..at : InsertedAt(q, at, x)[k] = q[k]
         /\ InsertedAt(q, at, x)[at + 1] = x
         /\ \A k \in at + 1..Len(q) : InsertedAt(q, at, x)[k + 1] = q[k]
<1> DEFINE new == InsertedAt(q, at, x)
           n == Len(q)
           a == SubSeq(q, 1, at)
           b == SubSeq(q, at + 1, n)
<1>1. n \in Nat /\ at \in Nat /\ at <= n
  BY LenProperties
<1>2. \A k \in 1..n : q[k] \in S
  BY ElementOfSeq
<1>3. /\ a \in Seq(S) /\ Len(a) = IF 1 <= at THEN at - 1 + 1 ELSE 0
      /\ \A k \in 1 .. at - 1 + 1 : a[k] = q[1 + k - 1]
  BY <1>1, <1>2, SubSeqProperties
<1>4. /\ b \in Seq(S) /\ Len(b) = IF at + 1 <= n THEN n - (at + 1) + 1 ELSE 0
      /\ \A k \in 1 .. n - (at + 1) + 1 : b[k] = q[at + 1 + k - 1]
  BY <1>1, <1>2, SubSeqProperties
<1>5. new = (a \o <<x>>) \o b /\ n = Len(q)
  BY DEF InsertedAt
<1> HIDE DEF new, n, a, b
<1>6. Len(a) = at /\ \A k \in 1..at : a[k] = q[k]
  BY <1>1, <1>3
<1>7. Len(b) = n - at /\ \A k \in 1 .. n - at : b[k] = q[at + k]
  BY <1>1, <1>4
<1>8. <<x>> \in Seq(S) /\ Len(<<x>>) = 1 /\ <<x>>[1] = x
  OBVIOUS
<1> DEFINE c == a \o <<x>>
<1>9. /\ c \in Seq(S) /\ Len(c) = at + 1
      /\ \A k \in 1 .. at + 1 : c[k] = IF k <= at THEN a[k] ELSE <<x>>[k - at]
  BY <1>1, <1>3, <1>6, <1>8, ConcatProperties
<1>10. new = c \o b
  BY <1>5
<1> HIDE DEF c
<1>11. /\ new \in Seq(S) /\ Len(new) = n + 1
       /\ \A k \in 1 .. n + 1 : new[k] = IF k <= at + 1 THEN c[k] ELSE b[k - (at + 1)]
  <2>1. b \in Seq(S) /\ c \in Seq(S)
    BY <1>4, <1>9
  <2>2. /\ c \o b \in Seq(S) /\ Len(c \o b) = Len(c) + Len(b)
        /\ \A k \in 1 .. Len(c) + Len(b) : (c \o b)[k] = IF k <= Len(c) THEN c[k] ELSE b[k - Len(c)]
    BY <2>1, ConcatProperties
  <2>3. Len(c) + Len(b) = n + 1 /\ Len(c) = at + 1
    BY <1>1, <1>7, <1>9
  <2> QED BY <1>10, <2>2, <2>3
<1>12. \A k \in 1..at : new[k] = q[k]
  BY <1>1, <1>6, <1>9, <1>11
<1>13. new[at + 1] = x
  <2>1. at + 1 \in 1 .. n + 1 /\ at + 1 \in 1 .. at + 1 /\ ~(at + 1 <= at) /\ at + 1 - at = 1
    BY <1>1
  <2>2. new[at + 1] = c[at + 1] /\ c[at + 1] = <<x>>[1]
    BY <1>9, <1>11, <2>1
  <2> QED BY <1>8, <2>2
<1>14. \A k \in at + 1..n : new[k + 1] = q[k]
  <2> SUFFICES ASSUME NEW k \in at + 1..n PROVE new[k + 1] = q[k]
    OBVIOUS
  <2>1. new[k + 1] = b[k + 1 - (at + 1)]
    <3>1. k + 1 \in 1 .. n + 1 /\ ~(k + 1 <= at + 1)
      BY <1>1
    <3> QED BY <1>11, <3>1
  <2>2. k + 1 - (at + 1) \in 1 .. n - at /\ at + (k + 1 - (at + 1)) = k
    BY <1>1
  <2> QED BY <1>7, <2>1, <2>2
<1> QED BY <1>5, <1>11, <1>12, <1>13, <1>14 DEF new

-----------------------------------------------------------------------------
(* Every step keeps the invariant                                          *)

LEMMA CoveredAppend ==
  ASSUME NEW S, NEW s \in Seq(S), NEW r \in S
  PROVE  Covered(Append(s, r)) = Covered(s) \cup Span(r)
<1> DEFINE t == Append(s, r)
<1>1. /\ Len(s) \in Nat /\ Len(t) = Len(s) + 1 /\ t[Len(s) + 1] = r
      /\ \A k \in 1..Len(s) : t[k] = s[k]
  BY LenProperties
<1> HIDE DEF t
<1>2. 1..Len(t) = 1..Len(s) \cup {Len(s) + 1}
  BY <1>1
<1>3. \A x : x \in Covered(t) <=> \E k \in 1..Len(t) : x \in Span(t[k])
  BY CoveredSpans
<1>4. \A x : x \in Covered(s) <=> \E k \in 1..Len(s) : x \in Span(s[k])
  BY CoveredSpans
<1>5. \A x : x \in Covered(t) <=> x \in Covered(s) \/ x \in Span(r)
  BY <1>1, <1>2, <1>3, <1>4
<1> QED BY <1>5 DEF t

LEMMA AddKeeps == ASSUME Inv, NEW r \in Input, Add(r) PROVE Inv'
<1> DEFINE L == Len(inserted)
<1>1. inserted \in Seq(Input) /\ L \in Nat /\ pc = "idle" /\ ~InHand /\ Len(list) \in Nat
  BY LenProperties DEF Inv, TypeOK, Add, InHand
<1>2. /\ inserted' \in Seq(Input) /\ Len(inserted') = L + 1 /\ inserted'[L + 1] = r
      /\ \A k \in 1..L : inserted'[k] = inserted[k]
  BY <1>1 DEF Add
<1>3. InHand' /\ Housed' = Housed /\ Housed = 1..L
  BY <1>1, <1>2 DEF Add, InHand, Housed
<1>4. Live /\ Live' /\ UNCHANGED <<list, num_it>>
  BY <1>1 DEF Add, Inv, LoopInv, Live
<1>5. TypeOK'
  <2>1. 1 \in 1 .. Len(list) + 1 /\ 0 \in 0..Len(list)
    BY <1>1
  <2> QED BY <1>2, <1>4, <2>1 DEF Add, Inv, TypeOK
<1>6. LoopInv'
  BY <1>1, <1>2, <1>3, <1>4 DEF Add, Inv, LoopInv
<1>7. OrderInv'
  BY <1>1, <1>4 DEF Inv, OrderInv
<1>8. HomesInv' /\ IdsInv'
  <2>1. \A k \in 1..L : inserted'[k] = inserted[k]
    BY <1>2
  <2>2. ASSUME NEW k \in 1..L PROVE \E m \in 1..Len(list) : Includes(list[m], inserted'[k])
    BY <1>3, <1>4, <2>1 DEF Inv, HomesInv
  <2>3. ASSUME NEW m \in 1..Len(list)
        PROVE  /\ list[m].id \in 1..L
               /\ Includes(list[m], inserted'[list[m].id])
               /\ \A k \in 1 .. list[m].id - 1 :
                     \E l \in 1..Len(list) : l # m /\ Includes(list[l], inserted'[k])
    <3>1. /\ list[m].id \in 1..L
          /\ Includes(list[m], inserted[list[m].id])
          /\ \A k \in 1 .. list[m].id - 1 :
                \E l \in 1..Len(list) : l # m /\ Includes(list[l], inserted[k])
      BY <1>3, <1>4 DEF Inv, IdsInv
    <3>2. \A k \in 1 .. list[m].id - 1 : inserted'[k] = inserted[k]
      BY <1>1, <2>1, <3>1
    <3> QED BY <2>1, <3>1, <3>2
  <2>4. HomesInv'
    BY <1>3, <1>4, <2>2 DEF HomesInv
  <2>5. IdsInv'
    BY <1>3, <1>4, <2>3 DEF IdsInv
  <2> QED BY <2>4, <2>5
<1>9. CoverInv'
  <2>1. Covered(list) = Covered(inserted)
    BY <1>1, <1>4 DEF Inv, CoverInv
  <2>2. Covered(inserted') = Covered(inserted) \cup Span(r)
    BY <1>1, CoveredAppend DEF Add
  <2>3. Covered(list') = Covered(list) /\ f' = r
    BY <1>4 DEF Add
  <2> QED BY <1>3, <2>1, <2>2, <2>3 DEF CoverInv
<1>10. OrderedRowsAreSafe'
  BY <1>4 DEF OrderedRowsAreSafe, Live
<1> QED BY <1>5, <1>6, <1>7, <1>8, <1>9, <1>10 DEF Inv

LEMMA FirstMeetingKeeps == ASSUME Inv, FirstMeeting PROVE Inv'
<1> DEFINE L == Len(inserted)
<1>1. /\ Len(list) \in Nat /\ L \in Nat /\ L > 0 /\ f = inserted[L]
      /\ f.base \in Nat /\ f.bound \in Nat /\ f.base <= f.bound
      /\ \A k \in 1..Len(list) : list[k].base \in Nat /\ list[k].bound \in Nat
  BY ListType DEF Inv, LoopInv, FirstMeeting, AtNode
<1>2. /\ p_itn \in 1..Len(list) /\ list' \in Seq(Node) /\ Len(list') = Len(list)
      /\ \A k \in 1..Len(list) : k # p_itn => list'[k] = list[k]
      /\ list'[p_itn].base = Smaller(list[p_itn].base, f.base)
      /\ list'[p_itn].bound = Larger(list[p_itn].bound, f.bound)
      /\ list'[p_itn].id = list[p_itn].id /\ list'[p_itn].freed = list[p_itn].freed
  BY FirstMeetingList DEF Inv, Here
<1>3. /\ pc = "loop" /\ pc' = "loop" /\ p_f = 0 /\ p_f' = p_itn /\ p_itn' = p_itn + 1
      /\ UNCHANGED <<num_it, f, save, inserted>> /\ ~list[p_itn].freed
      /\ f.base <= list[p_itn].bound /\ list[p_itn].base <= f.bound
  BY DEF FirstMeeting, AtNode, Here, Intersect
<1>4. InHand /\ ~InHand' /\ Housed = 1 .. L - 1 /\ Housed' = 1..L
  BY <1>2, <1>3 DEF InHand, Housed
<1>5. Live /\ Live'
  <2>1. Live
    BY <1>3 DEF Inv, LoopInv, Here
  <2> QED BY <1>2, <1>3, <2>1 DEF Live
<1>6. \A j, k \in 1..Len(list) : j < k => list[j].bound < list[k].base
  BY <1>3, <1>5 DEF Inv, OrderInv
<1>7. \A k \in 1..Len(list) : k < p_itn => list[k].bound < f.base
  BY <1>2, <1>3, <1>4 DEF Inv, TypeOK, LoopInv
<1>8. /\ list'[p_itn].base \in Nat /\ list'[p_itn].base <= list[p_itn].base
      /\ list'[p_itn].base <= f.base /\ list'[p_itn].base \in {list[p_itn].base, f.base}
      /\ list'[p_itn].bound \in Nat /\ list[p_itn].bound <= list'[p_itn].bound
      /\ f.bound <= list'[p_itn].bound
  BY <1>1, <1>2, Bounds
<1>9. \A k \in 1..Len(list) : /\ list'[k].base <= list[k].base /\ list[k].bound <= list'[k].bound
                              /\ list'[k].base \in Nat /\ list'[k].bound \in Nat
                              /\ list'[k].id = list[k].id
  BY <1>1, <1>2, <1>8
<1>10. TypeOK'
  <2>1. p_itn' \in 1 .. Len(list') + 1 /\ p_f' \in 0..Len(list')
    BY <1>1, <1>2, <1>3
  <2> QED BY <1>2, <1>3, <2>1 DEF Inv, TypeOK
<1>11. LoopInv'
  <2>1. ASSUME NEW k \in p_itn + 1..Len(list) PROVE f.base < list'[k].base
    <3>1. k \in 1..Len(list) /\ p_itn < k
      BY <1>1, <1>2
    <3>2. list'[k] = list[k] /\ list[p_itn].bound < list[k].base
      BY <1>2, <1>6, <3>1
    <3> QED BY <1>1, <1>2, <1>3, <3>1, <3>2
  <2>2. num_it = Len(list)
    BY DEF Inv, LoopInv
  <2> QED BY <1>1, <1>2, <1>3, <1>4, <1>5, <1>8, <2>1, <2>2 DEF LoopInv
<1>12. OrderInv'
  <2>1. \A k \in 1..Len(list) : list'[k].base <= list'[k].bound
    <3>1. \A k \in 1..Len(list) : list[k].base <= list[k].bound
      BY <1>5 DEF Inv, OrderInv
    <3> QED BY <1>1, <1>9, <3>1, SMTT(30)
  <2>2. ASSUME NEW j \in 1..Len(list), NEW k \in 1..Len(list), j < k, j # p_itn
        PROVE  list'[j].bound < list'[k].base
    BY <1>1, <1>2, <1>6, <1>7, <1>8, <2>2
  <2> QED BY <1>2, <1>3, <2>1, <2>2 DEF OrderInv
<1>13. \A m \in 1..Len(list), k \in 1 .. L - 1 :
           Includes(list[m], inserted[k]) => Includes(list'[m], inserted[k])
  <2>1. \A k \in 1 .. L - 1 : inserted[k].base \in Nat /\ inserted[k].bound \in Nat
    BY <1>1, ListType DEF Inv
  <2> QED BY <1>1, <1>9, <2>1, SMTT(30) DEF Includes
<1>14. HomesInv'
  <2>1. Includes(list'[p_itn], inserted[L])
    BY <1>1, <1>8 DEF Includes
  <2>2. \A k \in 1 .. L - 1 : \E m \in 1..Len(list) : Includes(list'[m], inserted[k])
    BY <1>4, <1>5, <1>13 DEF Inv, HomesInv
  <2>3. 1..L = 1 .. L - 1 \cup {L}
    BY <1>1
  <2> QED BY <1>2, <1>3, <1>4, <2>1, <2>2, <2>3 DEF HomesInv
<1>15. IdsInv'
  <2> SUFFICES ASSUME NEW m \in 1..Len(list)
               PROVE  /\ list[m].id \in 1..L
                      /\ Includes(list'[m], inserted[list[m].id])
                      /\ \A k \in 1 .. list[m].id - 1 :
                            \E l \in 1..Len(list) : l # m /\ Includes(list'[l], inserted[k])
    BY <1>2, <1>3, <1>4, <1>9 DEF IdsInv
  <2>1. /\ list[m].id \in 1 .. L - 1
        /\ Includes(list[m], inserted[list[m].id])
        /\ \A k \in 1 .. list[m].id - 1 :
              \E l \in 1..Len(list) : l # m /\ Includes(list[l], inserted[k])
    BY <1>4, <1>5 DEF Inv, IdsInv
  <2>2. \A k \in 1 .. list[m].id - 1 : k \in 1 .. L - 1
    BY <1>1, <2>1
  <2>3. list'[m].id = list[m].id /\ 1 .. L - 1 \subseteq 1..L
    BY <1>1, <1>9
  <2>4. Includes(list'[m], inserted[list[m].id])
    BY <1>13, <2>1
  <2>5. \A k \in 1 .. list[m].id - 1 :
           \E l \in 1..Len(list) : l # m /\ Includes(list'[l], inserted[k])
    BY <1>13, <2>1, <2>2
  <2> QED BY <2>1, <2>3, <2>4, <2>5
<1>16. CoverInv'
  <2>1. Span(list'[p_itn]) = Span(list[p_itn]) \cup Span(f)
    <3>1. Intersect(f, list[p_itn])
      BY DEF FirstMeeting, Here
    <3>2. list[p_itn].base <= list[p_itn].bound
      BY <1>2, <1>5 DEF Inv, OrderInv
    <3> QED BY <1>1, <1>2, <3>1, <3>2, Hull
  <2>2. \A x : (\E k \in 1..Len(list') : x \in Span(list'[k])) <=>
                 (\E k \in 1..Len(list) : x \in Span(list[k])) \/ x \in Span(f)
    BY <1>2, <2>1
  <2>3. Covered(list') = Covered(list) \cup Span(f)
    <3>1. \A x : x \in Covered(list) <=> \E k \in 1..Len(list) : x \in Span(list[k])
      BY CoveredSpans
    <3>2. \A x : x \in Covered(list') <=> \E k \in 1..Len(list') : x \in Span(list'[k])
      BY CoveredSpans
    <3> QED BY <2>2, <3>1, <3>2
  <2>4. Covered(list) \cup Span(f) = Covered(inserted)
    BY <1>4, <1>5 DEF Inv, CoverInv
  <2> QED BY <1>3, <1>4, <2>3, <2>4 DEF CoverInv
<1>17. OrderedRowsAreSafe'
  BY <1>5 DEF OrderedRowsAreSafe, Live
<1> QED BY <1>10, <1>11, <1>12, <1>14, <1>15, <1>16, <1>17 DEF Inv

(* A second node is never absorbed when the rows come in order: it would   *)
(* begin before the row in hand.                                           *)
LEMMA AbsorbKeeps == ASSUME Inv, Absorb PROVE Inv'
<1>1. /\ p_itn \in 1..Len(list) /\ list' \in Seq(Node) /\ Len(list') = Len(list)
      /\ list'[p_itn].freed = TRUE
  BY AbsorbList DEF Inv
<1>2. pc = "loop" /\ p_f # 0 /\ ~list[p_itn].freed /\ UNCHANGED <<num_it, pc, f, loop, inserted>>
  BY DEF Absorb, AtNode, Here
<1>3. ~Live' /\ ~InHand /\ ~InHand'
  BY <1>1, <1>2 DEF Live, InHand, loop
<1>4. TypeOK'
  BY <1>1, <1>2 DEF Inv, TypeOK, loop
<1>5. LoopInv'
  <2>1. p_itn' <= Len(list') /\ Here'.freed
    BY <1>1, <1>2, ListType DEF Inv, Here, loop
  <2>2. num_it' = Len(list') /\ Len(inserted) > 0 /\ f = inserted[Len(inserted)]
    BY <1>1, <1>2 DEF Inv, LoopInv
  <2> QED BY <1>2, <1>3, <2>1, <2>2 DEF LoopInv
<1>6. OrderedRowsAreSafe'
  <2> SUFFICES ASSUME \A i, j \in 1..Len(inserted) : i < j => inserted[i].base <= inserted[j].base
               PROVE  FALSE
    BY <1>2 DEF OrderedRowsAreSafe
  <2> DEFINE L == Len(inserted)
             k == list[p_itn].id
  <2>1. Live
    BY DEF Inv, OrderedRowsAreSafe, Live
  <2>2. L \in Nat /\ Len(list) \in Nat /\ Housed = 1..L /\ f = inserted[L] /\ L > 0
    BY <1>2, <1>3, ListType DEF Inv, LoopInv, Housed
  <2>3. f.base < list[p_itn].base
    BY <1>1, <1>2, <2>1, <2>2 DEF Inv, LoopInv
  <2>4. k \in 1..L /\ list[p_itn].base <= inserted[k].base
    BY <1>1, <2>1, <2>2 DEF Inv, IdsInv, Includes
  <2>5. inserted[k].base \in Nat /\ f.base \in Nat /\ list[p_itn].base \in Nat
    BY <1>1, <2>2, <2>4, ListType DEF Inv
  <2>6. inserted[k].base <= f.base
    <3> HIDE DEF k, L
    <3>1. CASE k = L
      BY <2>2, <2>5, <3>1
    <3>2. CASE k < L
      BY <2>2, <2>4, <3>2 DEF L
    <3> QED BY <2>2, <2>4, <3>1, <3>2
  <2> QED BY <2>3, <2>4, <2>5, <2>6
<1> QED BY <1>3, <1>4, <1>5, <1>6 DEF Inv, OrderInv, HomesInv, IdsInv, CoverInv

LEMMA FreedTwiceKeeps == ASSUME Inv, FreedTwice PROVE Inv'
<1>1. pc' = "dead" /\ UNCHANGED <<list, num_it, f, loop, inserted>> /\ pc = "loop"
  BY DEF FreedTwice
<1>2. ~Live /\ ~Live' /\ ~InHand'
  <2>1. p_itn \in 1..Len(list)
    BY ListType DEF Inv, FreedTwice, TypeOK
  <2> QED BY <1>1, <2>1 DEF Live, InHand, FreedTwice, Here
<1>3. TypeOK' /\ LoopInv'
  BY <1>1, <1>2 DEF Inv, TypeOK, LoopInv, loop
<1>4. OrderedRowsAreSafe'
  BY <1>1, <1>2 DEF Inv, OrderedRowsAreSafe, Live
<1> QED BY <1>2, <1>3, <1>4 DEF Inv, OrderInv, HomesInv, IdsInv, CoverInv

(* The cursor passes a node only on its way to the first one that meets.   *)
LEMMA PassByKeeps == ASSUME Inv, PassBy PROVE Inv'
<1>1. /\ Len(list) \in Nat /\ p_itn \in 1..Len(list) /\ pc = "loop"
      /\ f.base \in Nat /\ f.bound \in Nat /\ f.base <= f.bound
      /\ \A k \in 1..Len(list) : list[k].base \in Nat /\ list[k].bound \in Nat
      /\ UNCHANGED <<list, num_it, pc, f, p_f, inserted>> /\ save' = p_itn /\ p_itn' = p_itn + 1
  <2>1. /\ Len(list) \in Nat /\ f.base \in Nat /\ f.bound \in Nat /\ f.base <= f.bound
        /\ \A k \in 1..Len(list) : list[k].base \in Nat /\ list[k].bound \in Nat
    BY ListType DEF Inv
  <2>2. /\ pc = "loop" /\ p_itn \in 1 .. Len(list) + 1 /\ p_itn <= Len(list)
        /\ UNCHANGED <<list, num_it, pc, f, p_f, inserted>> /\ save' = p_itn /\ p_itn' = p_itn + 1
    BY DEF Inv, TypeOK, PassBy, AtNode
  <2> QED BY <2>1, <2>2
<1>2. Live
  BY DEF Inv, LoopInv, PassBy, AtNode
<1>3. p_f = 0
  <2> SUFFICES ASSUME p_f # 0 PROVE FALSE
    OBVIOUS
  <2>1. p_f \in 1..Len(list) /\ list[p_itn].base < list[p_f].base
    BY <1>1 DEF Inv, TypeOK, PassBy, Here, Probe
  <2>2. list[p_f].base <= f.base /\ f.base < list[p_itn].base
    BY <1>1, <1>2 DEF Inv, LoopInv
  <2> QED BY <1>1, <2>1, <2>2
<1>4. list[p_itn].bound < f.base
  <2>1. list[p_itn].base < f.base /\ ~Intersect(f, list[p_itn])
    BY <1>3 DEF PassBy, Here, Probe
  <2> QED BY <1>1, <2>1 DEF Intersect
<1>5. InHand /\ InHand' /\ Housed' = Housed /\ Live'
  BY <1>1, <1>2, <1>3 DEF InHand, Housed, Live
<1>6. TypeOK'
  <2>1. p_itn' \in 1 .. Len(list') + 1 /\ save' \in 0..Len(list')
    BY <1>1
  <2> QED BY <1>1, <2>1 DEF Inv, TypeOK
<1>7. LoopInv'
  <2>1. \A k \in 1..p_itn : list[k].bound < f.base
    BY <1>1, <1>4, <1>5 DEF Inv, LoopInv
  <2>2. num_it = Len(list) /\ Len(inserted) > 0 /\ f = inserted[Len(inserted)]
    BY <1>1 DEF Inv, LoopInv
  <2> QED BY <1>1, <1>3, <1>5, <2>1, <2>2 DEF LoopInv
<1>8. OrderInv'
  BY <1>1, <1>2 DEF Inv, OrderInv
<1>9. HomesInv' /\ IdsInv'
  BY <1>1, <1>2, <1>5 DEF Inv, HomesInv, IdsInv
<1>10. CoverInv'
  BY <1>1, <1>2, <1>5 DEF Inv, CoverInv
<1>11. OrderedRowsAreSafe'
  BY <1>5 DEF OrderedRowsAreSafe, Live
<1> QED BY <1>6, <1>7, <1>8, <1>9, <1>10, <1>11 DEF Inv

LEMMA BeyondKeeps == ASSUME Inv, Beyond PROVE Inv'
<1> DEFINE r == IF p_f = 0 THEN f ELSE list[p_f]
<1>1. /\ Len(list) \in Nat /\ pc = "loop" /\ p_itn \in 1 .. Len(list) + 1 /\ p_f \in 0..Len(list)
      /\ f.base \in Nat /\ f.bound \in Nat /\ f.base <= f.bound
      /\ \A k \in 1..Len(list) : list[k].base \in Nat /\ list[k].bound \in Nat
      /\ UNCHANGED <<list, num_it, f, p_itn, p_f, save, inserted>>
      /\ pc' = IF p_f = 0 THEN "insert" ELSE "idle"
  BY ListType DEF Inv, TypeOK, Beyond, loop
<1>2. Live /\ Live'
  BY <1>1 DEF Inv, LoopInv, Beyond, AtNode, Live
<1>3. InHand' = InHand /\ Housed' = Housed
  BY <1>1 DEF InHand, Housed
<1>4. \A k \in 1..Len(list) : list[k].base <= list[k].bound
  BY <1>2 DEF Inv, OrderInv
<1>5. r.base \in Nat /\ r.bound \in Nat /\ r.base <= r.bound
  BY <1>1, <1>4
<1>6. p_itn <= Len(list) => r.bound < list[p_itn].base
  <2> SUFFICES ASSUME p_itn <= Len(list) PROVE r.bound < list[p_itn].base
    OBVIOUS
  <2>1. ~Intersect(r, list[p_itn]) /\ list[p_itn].base >= r.base
    BY DEF Beyond, Here, Probe
  <2>2. p_itn \in 1..Len(list)
    BY <1>1
  <2> HIDE DEF r
  <2> QED BY <1>1, <1>4, <1>5, <2>1, <2>2 DEF Intersect
<1>7. \A k \in p_itn..Len(list) : r.bound < list[k].base
  <2> SUFFICES ASSUME NEW k \in p_itn..Len(list) PROVE r.bound < list[k].base
    OBVIOUS
  <2>1. k \in 1..Len(list) /\ p_itn \in 1..Len(list) /\ p_itn <= k
    BY <1>1
  <2>2. p_itn # p_f
    BY <1>1, <1>2, <2>1 DEF Inv, LoopInv
  <2>3. k # p_itn => list[p_itn].bound < list[k].base
    BY <1>2, <2>1, <2>2 DEF Inv, OrderInv
  <2> HIDE DEF r
  <2> QED BY <1>1, <1>4, <1>5, <1>6, <2>1, <2>3
<1>8. TypeOK'
  BY <1>1 DEF Inv, TypeOK
<1>9. LoopInv'
  <2>1. num_it = Len(list) /\ Len(inserted) > 0 /\ f = inserted[Len(inserted)]
    BY <1>1 DEF Inv, LoopInv
  <2>2. p_f = 0 => \A k \in p_itn..Len(list) : f.bound < list[k].base
    BY <1>7
  <2>3. InHand => save = p_itn - 1 /\ \A k \in 1..save : list[k].bound < f.base
    BY DEF Inv, LoopInv
  <2> QED BY <1>1, <1>2, <1>3, <2>1, <2>2, <2>3 DEF LoopInv
<1>10. OrderInv'
  <2>1. ASSUME NEW j \in 1..Len(list), NEW k \in 1..Len(list), j < k
        PROVE  list[j].bound < list[k].base
    <3>1. CASE j = p_f
      <4>1. p_itn = p_f + 1
        BY <1>1, <1>2, <3>1 DEF Inv, LoopInv
      <4> QED BY <1>1, <1>7, <2>1, <3>1, <4>1
    <3>2. CASE j # p_f
      BY <1>2, <2>1, <3>2 DEF Inv, OrderInv
    <3> QED BY <3>1, <3>2
  <2> QED BY <1>1, <1>4, <2>1 DEF OrderInv
<1>11. HomesInv' /\ IdsInv'
  BY <1>1, <1>2, <1>3 DEF Inv, HomesInv, IdsInv
<1>12. CoverInv'
  BY <1>1, <1>2, <1>3 DEF Inv, CoverInv
<1>13. OrderedRowsAreSafe'
  BY <1>2 DEF OrderedRowsAreSafe, Live
<1> QED BY <1>8, <1>9, <1>10, <1>11, <1>12, <1>13 DEF Inv

(* The new node goes behind the nodes that were passed.                    *)
LEMMA InsertNewKeeps == ASSUME Inv, InsertNew PROVE Inv'
<1> DEFINE L == Len(inserted)
           N == Len(list)
           fresh == [base |-> f.base, bound |-> f.bound, id |-> L, freed |-> FALSE]
           Sh(k) == IF k <= save THEN k ELSE k + 1
<1>1. /\ N \in Nat /\ L \in Nat /\ L > 0 /\ f = inserted[L] /\ num_it = N
      /\ f.base \in Nat /\ f.bound \in Nat /\ f.base <= f.bound
      /\ \A k \in 1..N : list[k].base \in Nat /\ list[k].bound \in Nat
      /\ pc = "insert" /\ p_f = 0 /\ save = p_itn - 1 /\ save \in 0..N /\ p_itn \in 1 .. N + 1
      /\ \A k \in 1..save : list[k].bound < f.base
      /\ \A k \in p_itn..N : f.bound < list[k].base
  BY ListType DEF Inv, TypeOK, LoopInv, InsertNew, InHand
<1>2. pc' = "idle" /\ num_it' = num_it + 1 /\ UNCHANGED <<f, p_itn, p_f, save, inserted>>
  BY DEF InsertNew, loop
<1>3. /\ list' \in Seq(Node) /\ Len(list') = N + 1
      /\ \A k \in 1..save : list'[k] = list[k]
      /\ list'[save + 1] = fresh
      /\ \A k \in save + 1..N : list'[k + 1] = list[k]
  <2>1. fresh \in Node /\ list \in Seq(Node) /\ save \in 0..N
    BY <1>1 DEF Node, Inv, TypeOK
  <2>2. list' = InsertedAt(list, save, fresh)
    BY DEF InsertNew, InsertedAt
  <2> HIDE DEF fresh, N
  <2>3. save \in 0..Len(list)
    BY <2>1 DEF N
  <2>4. list' \in Seq(Node) /\ Len(list') = Len(list) + 1
    BY <2>1, <2>2, <2>3, InsertedNode
  <2>5. \A k \in 1..save : list'[k] = list[k]
    BY <2>1, <2>2, <2>3, InsertedNode
  <2>6. list'[save + 1] = fresh
    BY <2>1, <2>2, <2>3, InsertedNode
  <2>7. \A k \in save + 1..Len(list) : list'[k + 1] = list[k]
    BY <2>1, <2>2, <2>3, InsertedNode, SMTT(40)
  <2> QED BY <2>4, <2>5, <2>6, <2>7 DEF N
<1>4. Live /\ InHand /\ ~InHand' /\ Housed = 1 .. L - 1 /\ Housed' = 1..L
  BY <1>1, <1>2 DEF Inv, LoopInv, InHand, Housed
<1> HIDE DEF fresh
<1>5. /\ fresh.base = f.base /\ fresh.bound = f.bound /\ fresh.id = L /\ fresh.freed = FALSE
  BY DEF fresh
<1>6. \A k \in 1..N : /\ Sh(k) \in 1 .. N + 1 /\ Sh(k) # save + 1 /\ list'[Sh(k)] = list[k]
  <2> SUFFICES ASSUME NEW k \in 1..N
               PROVE  Sh(k) \in 1 .. N + 1 /\ Sh(k) # save + 1 /\ list'[Sh(k)] = list[k]
    OBVIOUS
  <2>1. CASE k <= save
    BY <1>1, <1>3, <2>1
  <2>2. CASE k > save
    BY <1>1, <1>3, <2>2
  <2> QED BY <1>1, <2>1, <2>2
<1>7. \A m \in 1 .. N + 1 : m = save + 1 \/ \E k \in 1..N : m = Sh(k)
  <2> SUFFICES ASSUME NEW m \in 1 .. N + 1, m # save + 1 PROVE \E k \in 1..N : m = Sh(k)
    OBVIOUS
  <2>1. CASE m <= save
    BY <1>1, <2>1
  <2>2. CASE m > save
    <3>1. m - 1 \in 1..N /\ ~(m - 1 <= save) /\ m - 1 + 1 = m
      BY <1>1, <2>2
    <3> QED BY <3>1
  <2> QED BY <1>1, <2>1, <2>2
<1>8. \A j, k \in 1..N : Sh(j) < Sh(k) => j < k
  BY <1>1
<1>9. \A k \in 1..N : IF Sh(k) < save + 1 THEN k \in 1..save ELSE k \in p_itn..N
  BY <1>1
<1>10. save + 1 \in 1 .. N + 1
  BY <1>1
<1> HIDE DEF Sh, N, L
<1>11. Live'
  <2>1. \A m \in 1 .. N + 1 : ~list'[m].freed
    BY <1>3, <1>4, <1>5, <1>6, <1>7 DEF Live, N
  <2> QED BY <1>2, <1>3, <2>1 DEF Live
<1>12. TypeOK'
  <2>1. N + 1 \in Nat /\ p_itn \in 1 .. N + 1 + 1 /\ p_f \in 0 .. N + 1 /\ save \in 0 .. N + 1
    BY <1>1
  <2> QED BY <1>1, <1>2, <1>3, <2>1 DEF Inv, TypeOK
<1>13. LoopInv'
  BY <1>1, <1>2, <1>3, <1>4, <1>11 DEF LoopInv
<1>14. OrderInv'
  <2>1. \A k \in 1..N : list[k].base <= list[k].bound
    BY <1>4 DEF Inv, OrderInv, N
  <2>2. \A j, k \in 1..N : j < k => list[j].bound < list[k].base
    BY <1>1, <1>4 DEF Inv, OrderInv, N
  <2>3. \A m \in 1 .. N + 1 : list'[m].base <= list'[m].bound
    BY <1>1, <1>3, <1>5, <1>6, <1>7, <2>1
  <2>4. ASSUME NEW j \in 1 .. N + 1, NEW k \in 1 .. N + 1, j < k
        PROVE  list'[j].bound < list'[k].base
    <3>1. CASE j = save + 1
      <4>1. PICK m \in 1..N : k = Sh(m)
        BY <1>1, <1>7, <2>4, <3>1
      <4>2. ~(Sh(m) < save + 1)
        BY <1>1, <2>4, <3>1, <4>1
      <4>3. m \in p_itn..N
        BY <1>9, <4>2
      <4> QED BY <1>1, <1>3, <1>5, <1>6, <3>1, <4>1, <4>3
    <3>2. CASE k = save + 1
      <4>1. PICK m \in 1..N : j = Sh(m)
        BY <1>1, <1>7, <2>4, <3>2
      <4>2. m \in 1..save
        BY <1>9, <2>4, <3>2, <4>1
      <4> QED BY <1>1, <1>3, <1>5, <1>6, <3>2, <4>1, <4>2
    <3>3. CASE j # save + 1 /\ k # save + 1
      <4>1. PICK m \in 1..N, n \in 1..N : j = Sh(m) /\ k = Sh(n)
        BY <1>7, <3>3
      <4> QED BY <1>6, <1>8, <2>2, <2>4, <4>1
    <3> QED BY <3>1, <3>2, <3>3
  <2> QED BY <1>3, <2>3, <2>4 DEF OrderInv
<1>15. Includes(list'[save + 1], inserted[L])
  BY <1>1, <1>3, <1>5 DEF Includes
<1>16. ASSUME NEW k \in 1 .. L - 1
       PROVE  \E m \in 1 .. N + 1 : m # save + 1 /\ Includes(list'[m], inserted[k])
  <2>1. PICK m \in 1..N : Includes(list[m], inserted[k])
    BY <1>4 DEF Inv, HomesInv, N
  <2> QED BY <1>6, <2>1
<1>17. HomesInv'
  <2>1. 1..L = 1 .. L - 1 \cup {L}
    BY <1>1
  <2>2. \A k \in 1..L : \E m \in 1 .. N + 1 : Includes(list'[m], inserted[k])
    BY <1>10, <1>15, <1>16, <2>1
  <2> QED BY <1>2, <1>3, <1>4, <2>2 DEF HomesInv
<1>18. IdsInv'
  <2> DEFINE Good(m) == /\ list'[m].id \in 1..L
                        /\ Includes(list'[m], inserted[list'[m].id])
                        /\ \A k \in 1 .. list'[m].id - 1 :
                              \E l \in 1 .. N + 1 : l # m /\ Includes(list'[l], inserted[k])
  <2>1. Good(save + 1)
    <3>1. list'[save + 1].id = L /\ L \in 1..L
      BY <1>1, <1>3, <1>5
    <3> QED BY <1>15, <1>16, <3>1
  <2>2. ASSUME NEW n \in 1..N PROVE Good(Sh(n))
    <3>1. /\ list[n].id \in 1 .. L - 1
          /\ Includes(list[n], inserted[list[n].id])
          /\ \A k \in 1 .. list[n].id - 1 :
                \E l \in 1..N : l # n /\ Includes(list[l], inserted[k])
      BY <1>4 DEF Inv, IdsInv, N
    <3>2. list'[Sh(n)] = list[n] /\ 1 .. L - 1 \subseteq 1..L
      BY <1>1, <1>6
    <3>3. ASSUME NEW k \in 1 .. list[n].id - 1
          PROVE  \E l \in 1 .. N + 1 : l # Sh(n) /\ Includes(list'[l], inserted[k])
      <4>1. PICK l \in 1..N : l # n /\ Includes(list[l], inserted[k])
        BY <3>1
      <4>2. Sh(l) # Sh(n)
        BY <1>1, <4>1 DEF Sh
      <4> QED BY <1>6, <4>1, <4>2
    <3> QED BY <3>1, <3>2, <3>3
  <2>3. \A m \in 1 .. N + 1 : Good(m)
    BY <1>7, <2>1, <2>2
  <2> QED BY <1>2, <1>3, <1>4, <2>3 DEF IdsInv
<1>19. CoverInv'
  <2>1. Span(list'[save + 1]) = Span(f)
    BY <1>3, <1>5 DEF Span
  <2>2. \A y : y \in Covered(list) <=> \E k \in 1..N : y \in Span(list[k])
    BY CoveredSpans DEF N
  <2>3. \A y : y \in Covered(list') <=> \E k \in 1 .. N + 1 : y \in Span(list'[k])
    BY <1>3, CoveredSpans
  <2>4. \A y : (\E k \in 1 .. N + 1 : y \in Span(list'[k])) <=>
                 (\E k \in 1..N : y \in Span(list[k])) \/ y \in Span(f)
    BY <1>6, <1>7, <1>10, <2>1
  <2>5. Covered(list') = Covered(list) \cup Span(f)
    BY <2>2, <2>3, <2>4
  <2>6. Covered(list) \cup Span(f) = Covered(inserted)
    BY <1>4 DEF Inv, CoverInv
  <2> QED BY <1>2, <1>4, <2>5, <2>6 DEF CoverInv
<1>20. OrderedRowsAreSafe'
  BY <1>11 DEF OrderedRowsAreSafe, Live
<1> QED BY <1>12, <1>13, <1>14, <1>17, <1>18, <1>19, <1>20 DEF Inv

-----------------------------------------------------------------------------
LEMMA InvInit == ASSUME Init PROVE Inv
<1>1. /\ list = <<>> /\ inserted = <<>> /\ Len(list) = 0 /\ Len(inserted) = 0
      /\ list \in Seq(Node) /\ inserted \in Seq(Input)
      /\ pc = "idle" /\ num_it = 0 /\ p_itn = 1 /\ p_f = 0 /\ save = 0
      /\ f = [base |-> 0, bound |-> 0]
  BY DEF Init
<1>2. f \in Input
  BY <1>1, IntervalListAssumption DEF Input
<1>3. TypeOK
  BY <1>1, <1>2 DEF TypeOK
<1>4. ~InHand /\ Housed = {} /\ Live
  BY <1>1 DEF InHand, Housed, Live
<1>5. LoopInv /\ OrderInv /\ HomesInv /\ IdsInv
  BY <1>1, <1>4 DEF LoopInv, OrderInv, HomesInv, IdsInv
<1>6. CoverInv
  BY <1>1, <1>4 DEF CoverInv
<1>7. OrderedRowsAreSafe
  BY <1>4 DEF OrderedRowsAreSafe, Live
<1> QED BY <1>3, <1>5, <1>6, <1>7 DEF Inv

LEMMA InvHolds == Spec => []Inv
<1>1. Init => Inv
  BY InvInit
<1>2. ASSUME Inv, UNCHANGED vars PROVE Inv'
  <2>1. UNCHANGED <<list, num_it, pc, f, p_itn, p_f, save, inserted>>
    BY <1>2 DEF vars, loop
  <2>2. TypeOK'
    BY <1>2, <2>1 DEF Inv, TypeOK
  <2>3. Live' = Live /\ InHand' = InHand /\ Housed' = Housed /\ Here' = Here
    BY <2>1 DEF Live, InHand, Housed, Here
  <2>4. LoopInv' /\ OrderInv'
    BY <1>2, <2>1, <2>3 DEF Inv, LoopInv, OrderInv
  <2>5. HomesInv' /\ IdsInv'
    BY <1>2, <2>1, <2>3 DEF Inv, HomesInv, IdsInv
  <2>6. CoverInv' /\ OrderedRowsAreSafe'
    BY <1>2, <2>1, <2>3 DEF Inv, CoverInv, OrderedRowsAreSafe, Covered
  <2> QED BY <2>2, <2>4, <2>5, <2>6 DEF Inv
<1>3. Inv /\ [Next]_vars => Inv'
  BY <1>2, AddKeeps, FirstMeetingKeeps, AbsorbKeeps, FreedTwiceKeeps, PassByKeeps, BeyondKeeps,
     InsertNewKeeps DEF Next
<1> QED BY <1>1, <1>3, PTL DEF Spec

(* The cursors of it_insert_new stay on the list, and what it makes of the *)
(* nodes are nodes (interval_tree.c:32-82).                                *)
THEOREM TypeCorrect == Spec => []TypeOK
<1>1. Inv => TypeOK
  BY DEF Inv
<1> QED BY <1>1, InvHolds, PTL

(* Between calls the list is the union of what was inserted, in order and  *)
(* without two nodes that meet, and num_it is its length: of every         *)
(* sequence of intervals that does not end in a double free.               *)
THEOREM ListIsTheUnion == Spec => []ListIsUnion
<1>1. ASSUME Inv PROVE ListIsUnion
  <2> SUFFICES ASSUME pc = "idle"
               PROVE  /\ Covered(list) = Covered(inserted)
                      /\ \A i \in 1 .. Len(list) - 1 : list[i].bound < list[i + 1].base
                      /\ num_it = Len(list)
    BY DEF ListIsUnion
  <2>1. Live /\ ~InHand /\ num_it = Len(list) /\ Len(list) \in Nat
    BY <1>1, ListType DEF Inv, LoopInv, InHand
  <2>2. Covered(list) = Covered(inserted)
    BY <1>1, <2>1 DEF Inv, CoverInv
  <2>3. \A i \in 1 .. Len(list) - 1 : i \in 1..Len(list) /\ i + 1 \in 1..Len(list) /\ i < i + 1
    BY <2>1
  <2>4. \A i \in 1 .. Len(list) - 1 : list[i].bound < list[i + 1].base
    BY <1>1, <2>1, <2>3 DEF Inv, OrderInv
  <2> QED BY <2>1, <2>2, <2>4
<1> QED BY <1>1, InvHolds, PTL

(* The row that is locked and resized in the name of a node is the first   *)
(* of the rows that the node is the union of.                              *)
THEOREM IdIsOfFirstRow == Spec => []IdOfFirstRow
<1>1. ASSUME Inv PROVE IdOfFirstRow
  <2> SUFFICES ASSUME pc = "idle", NEW m \in 1..Len(list)
               PROVE  /\ Intersect(inserted[list[m].id], list[m])
                      /\ \A k \in 1 .. list[m].id - 1 : ~Intersect(inserted[k], list[m])
    BY DEF IdOfFirstRow
  <2>1. Live /\ Housed = 1..Len(inserted) /\ Len(inserted) \in Nat /\ Len(list) \in Nat
    BY <1>1, ListType DEF Inv, LoopInv, InHand, Housed
  <2>2. /\ list[m].id \in 1..Len(inserted)
        /\ Includes(list[m], inserted[list[m].id])
        /\ \A k \in 1 .. list[m].id - 1 :
              \E l \in 1..Len(list) : l # m /\ Includes(list[l], inserted[k])
    BY <1>1, <2>1 DEF Inv, IdsInv
  <2>3. \A k \in 1..Len(list) : list[k].base \in Nat /\ list[k].bound \in Nat
    BY <1>1, ListType DEF Inv
  <2>4. \A k \in 1..Len(inserted) : /\ inserted[k].base \in Nat /\ inserted[k].bound \in Nat
                                    /\ inserted[k].base <= inserted[k].bound
    BY <1>1, ListType DEF Inv
  <2>5. Intersect(inserted[list[m].id], list[m])
    BY <2>2, <2>3, <2>4 DEF Includes, Intersect
  <2>6. ASSUME NEW k \in 1 .. list[m].id - 1 PROVE ~Intersect(inserted[k], list[m])
    <3>1. PICK l \in 1..Len(list) : l # m /\ Includes(list[l], inserted[k])
      BY <2>2
    <3>2. list[l].bound < list[m].base \/ list[m].bound < list[l].base
      BY <1>1, <2>1, <3>1 DEF Inv, OrderInv
    <3>3. k \in 1..Len(inserted)
      BY <2>1, <2>2
    <3> QED BY <2>3, <2>4, <3>1, <3>2, <3>3 DEF Includes, Intersect
  <2> QED BY <2>5, <2>6
<1> QED BY <1>1, InvHolds, PTL

(* Rows in the order of their Base, as query_select_named_range inserts    *)
(* them, never make it_insert_new absorb or free a node.                   *)
THEOREM OrderedRowsNeverAbsorb == Spec => []OrderedRowsAreSafe
<1>1. Inv => OrderedRowsAreSafe
  BY DEF Inv
<1> QED BY <1>1, InvHolds, PTL

-----------------------------------------------------------------------------
(* Numbers                                                                 *)

(* A set of numbers has a least one.                                       *)
LEMMA Least ==
  ASSUME NEW T, T \subseteq Nat, T # {}
  PROVE  \E x \in T : \A y \in T : x <= y
<1>1. IsWellFoundedOn(OpToRel(<, Nat), Nat)
  BY NatLessThanWellFounded
<1>2. PICK x \in T : \A y \in T : ~(<<y, x>> \in OpToRel(<, Nat))
  BY <1>1, WFMin
<1>3. \A y \in T : <<y, x>> \in OpToRel(<, Nat) <=> y < x
  BY DEF OpToRel
<1>4. ASSUME NEW y \in T PROVE x <= y
  <2>1. ~(<<y, x>> \in OpToRel(<, Nat))
    BY <1>2
  <2>2. ~(y < x)
    BY <2>1, <1>3
  <2> QED BY <2>2
<1> QED BY <1>4

(* What holds of 0 and passes to the next number holds of them all.        *)
LEMMA UpTo ==
  ASSUME NEW m \in Nat, NEW T, 0 \in T, \A k \in 0 .. m - 1 : k \in T => k + 1 \in T
  PROVE  0..m \subseteq T
<1> SUFFICES ASSUME (0..m) \ T # {} PROVE FALSE
  OBVIOUS
<1> DEFINE U == (0..m) \ T
<1>0. U \subseteq Nat /\ U # {}
  OBVIOUS
<1> HIDE DEF U
<1>1. PICK x \in U : \A y \in U : x <= y
  BY <1>0, Least
<1> USE DEF U
<1>2. x - 1 \in 0 .. m - 1 /\ x - 1 \in T
  BY <1>1
<1> QED BY <1>1, <1>2

(* A function on 1..m is a sequence of length m.                           *)
LEMMA FunctionIsText ==
  ASSUME NEW S, NEW m \in Nat, NEW fcn \in [1..m -> S]
  PROVE  fcn \in Seq(S) /\ Len(fcn) = m
<1>1. fcn \in Seq(S)
  BY SeqDef
<1>2. DOMAIN fcn = 1..m /\ DOMAIN fcn = 1..Len(fcn) /\ Len(fcn) \in Nat
  BY <1>1, LenProperties
<1> QED BY <1>1, <1>2

(* The largest of some numbers up to m + 1. *)
LEMMA MaxOfPrefix ==
  ASSUME NEW k \in Nat, k # 0
  PROVE  Max(1..k) = k
<1> DEFINE P(x) == x \in 1..k /\ \A y \in 1..k : x >= y
<1>1. P(k)
  OBVIOUS
<1>2. \A x : P(x) => x = k
  OBVIOUS
<1> QED BY <1>1, <1>2 DEF Max

(* The last of some places is the largest.                                 *)
LEMMA MaxWithLast ==
  ASSUME NEW m \in Nat, NEW T, T \subseteq 1 .. m + 1, m + 1 \in T
  PROVE  Max(T) = m + 1
<1>1. \A x \in T : (\A y \in T : x >= y) <=> x = m + 1
  OBVIOUS
<1> QED BY <1>1 DEF Max

(* A set of places has a largest one.                                      *)
LEMMA MaxIsIn ==
  ASSUME NEW m \in Nat, NEW T, T \subseteq 1..m, T # {}
  PROVE  Max(T) \in T
<1> DEFINE U == {m - x : x \in T}
<1>1. U \subseteq Nat /\ U # {}
  OBVIOUS
<1>2. PICK u \in U : \A v \in U : u <= v
  BY <1>1, Least
<1>3. PICK x \in T : u = m - x
  BY <1>2
<1>4. \A y \in T : x >= y
  <2> TAKE y \in T
  <2>1. m - y \in U /\ x \in Nat /\ y \in Nat
    OBVIOUS
  <2> HIDE DEF U
  <2>2. m - x <= m - y
    BY <1>2, <1>3, <2>1
  <2> QED BY <2>1, <2>2
<1>5. \E z \in T : \A y \in T : z >= y
  BY <1>4
<1> QED BY <1>5 DEF Max

-----------------------------------------------------------------------------
(* Loops.  Each fold of the inputs is one of the loops p, and what is true *)
(* of a loop is shown once for all of them.                                *)
Step(p, st, x) ==
    CASE p[1] = "line" -> ReadLine(p[2], st, x)
      [] p[1] = "arg"  -> NewRangeArg(st, x)
      [] p[1] = "char" -> ReadChar(st, x)
      [] p[1] = "file" -> Bo(st, <<"file", x>>, p[2][x])
      [] p[1] = "name" -> DropName(p[2], st, x)
      [] p[1] = "word" -> PrintArg(st, x)
      [] p[1] = "region" -> ItInsertNew(st, Interval(x))

(* Which step is that of which loop.                                       *)
LEMMA Steps ==
  /\ \A folder, st, x : Step(<<"line", folder>>, st, x) = ReadLine(folder, st, x)
  /\ \A st, x : Step(<<"arg">>, st, x) = NewRangeArg(st, x)
  /\ \A st, x : Step(<<"char">>, st, x) = ReadChar(st, x)
  /\ \A texts, st, x : Step(<<"file", texts>>, st, x) = Bo(st, <<"file", x>>, texts[x])
  /\ \A names, st, x : Step(<<"name", names>>, st, x) = DropName(names, st, x)
  /\ \A st, x : Step(<<"word">>, st, x) = PrintArg(st, x)
  /\ \A st, x : Step(<<"region">>, st, x) = ItInsertNew(st, Interval(x))
<1>1. \A w, y : <<w, y>>[1] = w /\ <<w, y>>[2] = y
  OBVIOUS
<1>2. \A w : <<w>>[1] = w
  OBVIOUS
<1>3. \A folder, st, x : Step(<<"line", folder>>, st, x) = ReadLine(folder, st, x)
  BY <1>1 DEF Step
<1>4. \A st, x : Step(<<"arg">>, st, x) = NewRangeArg(st, x)
  BY <1>2 DEF Step
<1>5. \A st, x : Step(<<"char">>, st, x) = ReadChar(st, x)
  BY <1>2 DEF Step
<1>6. \A texts, st, x : Step(<<"file", texts>>, st, x) = Bo(st, <<"file", x>>, texts[x])
  BY <1>1 DEF Step
<1>7. \A names, st, x : Step(<<"name", names>>, st, x) = DropName(names, st, x)
  BY <1>1 DEF Step
<1>8. \A st, x : Step(<<"word">>, st, x) = PrintArg(st, x)
  BY <1>2 DEF Step
<1>9. \A st, x : Step(<<"region">>, st, x) = ItInsertNew(st, Interval(x))
  BY <1>2 DEF Step
<1> QED BY <1>3, <1>4, <1>5, <1>6, <1>7, <1>8, <1>9

(* What FoldLeft computes, on sets of places up to m.                      *)
FoldsTo(p, base, s, m, h) ==
    h = [T \in SUBSET (1..m) |->
           IF T = {} THEN base ELSE Step(p, h[T \ {Max(T)}], s[Max(T)])]

(* The recursive function of a fold exists, so that CHOOSE finds it.       *)
LEMMA FoldExists ==
  ASSUME NEW p, NEW base, NEW s, NEW m \in Nat
  PROVE  \E h : FoldsTo(p, base, s, m, h)
<1> DEFINE K == {k \in 0..m : \E h : FoldsTo(p, base, s, k, h)}
<1>1. 0 \in K
  <2> DEFINE h == [T \in SUBSET (1..0) |-> base]
  <2>1. SUBSET (1..0) = {{}}
    OBVIOUS
  <2>2. FoldsTo(p, base, s, 0, h)
    BY <2>1 DEF FoldsTo
  <2> QED BY <2>2
<1>2. ASSUME NEW k \in 0 .. m - 1, k \in K PROVE k + 1 \in K
  <2>0. k \in Nat
    BY <1>2
  <2>1. PICK h : FoldsTo(p, base, s, k, h)
    BY <1>2
  <2> DEFINE g == [T \in SUBSET (1 .. k + 1) |->
                    IF k + 1 \in T THEN Step(p, h[T \ {k + 1}], s[k + 1]) ELSE h[T]]
  <2>2. ASSUME NEW T \in SUBSET (1 .. k + 1)
        PROVE  g[T] = IF T = {} THEN base ELSE Step(p, g[T \ {Max(T)}], s[Max(T)])
    <3>1. CASE k + 1 \in T
      <4>1. Max(T) = k + 1 /\ T # {}
        BY <2>0, <3>1, MaxWithLast
      <4>2. T \ {k + 1} \in SUBSET (1 .. k + 1) /\ k + 1 \notin T \ {k + 1}
        OBVIOUS
      <4>3. g[T \ {k + 1}] = h[T \ {k + 1}]
        BY <4>2
      <4> QED BY <3>1, <4>1, <4>3
    <3>2. CASE k + 1 \notin T
      <4>1. T \in SUBSET (1..k)
        BY <1>2, <3>2
      <4>2. g[T] = h[T]
        BY <3>2
      <4>3. CASE T = {}
        <5>1. h[T] = base
          BY <2>1, <4>1, <4>3 DEF FoldsTo
        <5> QED BY <4>2, <4>3, <5>1
      <4>4. CASE T # {}
        <5>1. Max(T) \in T
          BY <2>0, <4>1, <4>4, MaxIsIn
        <5>2. T \ {Max(T)} \in SUBSET (1 .. k + 1) /\ k + 1 \notin T \ {Max(T)}
          BY <3>2
        <5>3. g[T \ {Max(T)}] = h[T \ {Max(T)}]
          BY <5>2
        <5>4. h[T] = Step(p, h[T \ {Max(T)}], s[Max(T)])
          BY <2>1, <4>1, <4>4 DEF FoldsTo
        <5> QED BY <4>2, <4>4, <5>3, <5>4
      <4> QED BY <4>3, <4>4
    <3> QED BY <3>1, <3>2
  <2> HIDE DEF g
  <2>3. g = [T \in SUBSET (1 .. k + 1) |-> g[T]]
    BY DEF g
  <2>4. FoldsTo(p, base, s, k + 1, g)
    BY <2>2, <2>3 DEF FoldsTo
  <2> QED BY <1>2, <2>4
<1> HIDE DEF K
<1>3. 0..m \subseteq K
  BY <1>1, <1>2, UpTo
<1>4. m \in K
  BY <1>3
<1> QED BY <1>4 DEF K

(* The states of a loop, one after the other ...                           *)
Runs(p, base, s, m, r) ==
    /\ r = [k \in 0..m |-> r[k]]
    /\ r[0] = base
    /\ \A k \in 1..m : r[k] = Step(p, r[k - 1], s[k])

(* ... are what the fold gives for the first items, ...                    *)
LEMMA FoldRuns ==
  ASSUME NEW p, NEW base, NEW s, NEW m \in Nat, NEW h, FoldsTo(p, base, s, m, h)
  PROVE  Runs(p, base, s, m, [k \in 0..m |-> h[1..k]])
<1> DEFINE r == [k \in 0..m |-> h[1..k]]
<1>1. r[0] = base
  <2>1. 1..0 = {} /\ 1..0 \in SUBSET (1..m) /\ 0 \in 0..m
    OBVIOUS
  <2>2. h[1..0] = base
    BY <2>1 DEF FoldsTo
  <2> QED BY <2>1, <2>2
<1>2. ASSUME NEW k \in 1..m PROVE r[k] = Step(p, r[k - 1], s[k])
  <2>1. k \in 0..m /\ k - 1 \in 0..m /\ 1..k # {} /\ 1..k \in SUBSET (1..m)
    OBVIOUS
  <2>2. Max(1..k) = k /\ (1..k) \ {k} = 1 .. k - 1
    BY MaxOfPrefix
  <2>3. h[1..k] = Step(p, h[1 .. k - 1], s[k])
    BY <2>1, <2>2 DEF FoldsTo
  <2> QED BY <2>1, <2>3
<1> QED BY <1>1, <1>2 DEF Runs

(* ... and there is only one such series.                                  *)
LEMMA RunsOnce ==
  ASSUME NEW p, NEW base, NEW s, NEW m \in Nat, NEW q, Runs(p, base, s, m, q),
         NEW r, NEW n \in Nat, n <= m, NEW t, Runs(p, base, t, n, r), \A k \in 1..n : s[k] = t[k]
  PROVE  \A k \in 0..n : q[k] = r[k]
<1> DEFINE K == {k \in 0..n : q[k] = r[k]}
<1>1. 0 \in K
  BY DEF Runs
<1>2. ASSUME NEW k \in 0 .. n - 1, k \in K PROVE k + 1 \in K
  <2>1. k + 1 \in 1..n /\ k + 1 \in 1..m /\ (k + 1) - 1 = k
    OBVIOUS
  <2>2. q[k + 1] = Step(p, q[k], s[k + 1]) /\ r[k + 1] = Step(p, r[k], t[k + 1])
    BY <2>1 DEF Runs
  <2>3. s[k + 1] = t[k + 1] /\ q[k] = r[k]
    BY <1>2, <2>1
  <2> QED BY <2>1, <2>2, <2>3
<1> HIDE DEF K
<1>3. 0..n \subseteq K
  BY <1>1, <1>2, UpTo
<1> QED BY <1>3 DEF K

(* Two series of the same items end in the same state.                     *)
LEMMA RunsMeet ==
  ASSUME NEW p, NEW base, NEW s, NEW m \in Nat, NEW q, Runs(p, base, s, m, q),
         NEW r, NEW n \in Nat, n <= m, NEW t, Runs(p, base, t, n, r), \A k \in 1..n : s[k] = t[k]
  PROVE  q[n] = r[n]
<1>1. \A k \in 0..n : q[k] = r[k]
  BY RunsOnce
<1> QED BY <1>1

(* The state after all items.                                              *)
Loop(p, base, s) == (CHOOSE r : Runs(p, base, s, Len(s), r))[Len(s)]

(* What a loop ends with is the last state of a series.                    *)
LEMMA LoopRuns ==
  ASSUME NEW p, NEW base, NEW S, NEW s \in Seq(S)
  PROVE  \E r : Runs(p, base, s, Len(s), r) /\ Loop(p, base, s) = r[Len(s)]
<1>1. Len(s) \in Nat
  BY LenProperties
<1>2. \E r : Runs(p, base, s, Len(s), r)
  BY <1>1, FoldExists, FoldRuns
<1> QED BY <1>2 DEF Loop

(* A fold computes what its loop ends with.                                *)
LEMMA LoopIs ==
  ASSUME NEW p, NEW base, NEW S, NEW s \in Seq(S), NEW h, FoldsTo(p, base, s, Len(s), h)
  PROVE  h[1..Len(s)] = Loop(p, base, s)
<1> DEFINE q == [k \in 0..Len(s) |-> h[1..k]]
<1>1. Len(s) \in Nat
  BY LenProperties
<1>2. Runs(p, base, s, Len(s), q)
  BY <1>1, FoldRuns
<1>3. PICK r : Runs(p, base, s, Len(s), r) /\ Loop(p, base, s) = r[Len(s)]
  BY LoopRuns
<1> HIDE DEF q
<1>4. q[Len(s)] = r[Len(s)]
  BY <1>1, <1>2, <1>3, RunsOnce
<1> QED BY <1>1, <1>3, <1>4 DEF q

(* A loop without items ends as it starts.                                 *)
LEMMA LoopEmpty ==
  ASSUME NEW p, NEW base
  PROVE  Loop(p, base, <<>>) = base
<1>1. <<>> \in Seq({}) /\ Len(<<>>) = 0
  OBVIOUS
<1>2. PICK r : Runs(p, base, <<>>, Len(<<>>), r) /\ Loop(p, base, <<>>) = r[Len(<<>>)]
  BY <1>1, LoopRuns
<1>3. r[0] = base
  BY <1>2 DEF Runs
<1> QED BY <1>1, <1>2, <1>3

(* One more item is one more step.                                         *)
LEMMA LoopAppend ==
  ASSUME NEW p, NEW base, NEW S, NEW s \in Seq(S), NEW x \in S
  PROVE  Loop(p, base, Append(s, x)) = Step(p, Loop(p, base, s), x)
<1> DEFINE g == Append(s, x)
<1>1. /\ Len(s) \in Nat /\ g \in Seq(S) /\ Len(g) = Len(s) + 1 /\ g[Len(s) + 1] = x
      /\ \A k \in 1..Len(s) : g[k] = s[k]
  BY AppendProperties, LenProperties
<1> HIDE DEF g
<1>2. PICK r : Runs(p, base, s, Len(s), r) /\ Loop(p, base, s) = r[Len(s)]
  BY LoopRuns
<1>3. PICK q : Runs(p, base, g, Len(g), q) /\ Loop(p, base, g) = q[Len(g)]
  BY <1>1, LoopRuns
<1>4. Len(g) \in Nat /\ Len(s) <= Len(g) /\ Len(s) \in 0..Len(s) /\ Len(g) \in 1..Len(g) /\ Len(g) - 1 = Len(s)
  BY <1>1
<1>5. q[Len(s)] = r[Len(s)]
  <2>1. Runs(p, base, g, Len(g), q) /\ Runs(p, base, s, Len(s), r)
    BY <1>2, <1>3
  <2>2. Len(g) \in Nat /\ Len(s) \in Nat /\ Len(s) <= Len(g) /\ \A k \in 1..Len(s) : g[k] = s[k]
    BY <1>1, <1>4
  <2> HIDE DEF g
  <2>3. q[Len(s)] = r[Len(s)]
    BY <2>1, <2>2, RunsMeet
  <2> QED BY <2>3
<1>6. q[Len(g)] = Step(p, q[Len(s)], g[Len(g)])
  BY <1>3, <1>4 DEF Runs
<1> QED BY <1>1, <1>2, <1>3, <1>5, <1>6 DEF g

-----------------------------------------------------------------------------
(* The nodes for the regions of a file                                     *)

(* What the list holds once the regions s were given.                      *)
ListOf(s) == Loop(<<"region">>, {}, s)

Sound(t) == t[2] \in Nat /\ t[3] \in Nat /\ t[2] < t[3]

UnionTo(it, s, k) ==
    /\ \A n \in it : n.base \in Nat /\ n.bound \in Nat /\ n.base <= n.bound
    /\ \A x : x \in Extents(s, k) <=> \E n \in it : x \in Span(n)
    /\ \A m, n \in it : Intersect(m, n) => m = n

(* One more region.                                                        *)
LEMMA ListAppend ==
  ASSUME NEW S, NEW s \in Seq(S), NEW x \in S
  PROVE  ListOf(Append(s, x)) = ItInsertNew(ListOf(s), Interval(x))
BY LoopAppend, Steps DEF ListOf

(* No region.                                                              *)
LEMMA ListEmpty == ListOf(<<>>) = {}
BY LoopEmpty DEF ListOf

(* What the regions cover, and whether one bridges a gap, depends on those *)
(* before only.                                                            *)
LEMMA SamePrefix ==
  ASSUME NEW s, NEW t, NEW m \in Nat, \A i \in 1..m : s[i] = t[i], NEW k \in 0..m
  PROVE  Extents(s, k) = Extents(t, k) /\ (k # 0 => (Bridges(s, k) <=> Bridges(t, k)))
<1>1. \A j \in 0..m : Extents(s, j) = Extents(t, j)
  <2> TAKE j \in 0..m
  <2>1. \A i \in 1..j : s[i] = t[i]
    OBVIOUS
  <2>2. {Extent(s[i]) : i \in 1..j} = {Extent(t[i]) : i \in 1..j}
    BY <2>1
  <2> QED BY <2>2 DEF Extents
<1>2. k # 0 => k - 1 \in 0..m /\ s[k] = t[k]
  OBVIOUS
<1> QED BY <1>1, <1>2 DEF Bridges

(* What one more region covers.                                            *)
LEMMA ExtentsGrow ==
  ASSUME NEW s, NEW k \in Nat
  PROVE  /\ \A x : x \in Extents(s, k + 1) <=> x \in Extents(s, k) \/ x \in Extent(s[k + 1])
         /\ Extents(s, 0) = {}
<1>1. 1 .. k + 1 = (1..k) \cup {k + 1} /\ 1..0 = {}
  OBVIOUS
<1>2. \A j, x : x \in Extents(s, j) <=> \E i \in 1..j : x \in Extent(s[i])
  BY DEF Extents
<1> QED BY <1>1, <1>2

(* Two nodes that an interval meets have a gap between them.               *)
LEMMA NoGap ==
  ASSUME NEW it, NEW s, NEW k \in Nat, UnionTo(it, s, k), Sound(s[k + 1]), ~Bridges(s, k + 1)
  PROVE  ~FreesTwice(it, Interval(s[k + 1]))
<1> DEFINE a == s[k + 1][2]
           b == s[k + 1][3]
           r == Interval(s[k + 1])
<1>1. a \in Nat /\ b \in Nat /\ a < b /\ r.base = a /\ r.bound = b
  BY DEF Sound, Interval
<1>2. Extent(s[k + 1]) = (2 * a) .. (2 * b) /\ (k + 1) - 1 = k
  BY DEF Extent
<1> HIDE DEF a, b, r
<1>3. ASSUME NEW m \in it, NEW n \in it, Intersect(m, r), Intersect(n, r), m.bound < n.base PROVE FALSE
  <2> DEFINE c == m.base
             d == m.bound
             e == n.base
             f1 == n.bound
  <2>1. c \in Nat /\ d \in Nat /\ e \in Nat /\ f1 \in Nat /\ c <= d /\ e <= f1 /\ d < e /\ a <= d /\ e <= b
    BY <1>1, <1>3 DEF UnionTo, Intersect
  <2>2. Span(m) = (2 * c) .. (2 * d) /\ Span(n) = (2 * e) .. (2 * f1)
    BY DEF Span
  <2>3. 2 * d + 1 \notin Extents(s, k)
    <3> SUFFICES ASSUME NEW q \in it, 2 * d + 1 \in Span(q) PROVE FALSE
      BY DEF UnionTo
    <3>1. q.base \in Nat /\ q.bound \in Nat /\ 2 * q.base <= 2 * d + 1 /\ 2 * d + 1 <= 2 * q.bound
      BY DEF UnionTo, Span
    <3>2. q.base <= d /\ d < q.bound
      BY <2>1, <3>1
    <3>3. Intersect(q, m)
      BY <2>1, <3>1, <3>2 DEF Intersect
    <3>4. q = m
      BY <3>3 DEF UnionTo
    <3> QED BY <2>1, <3>2, <3>4
  <2> HIDE DEF c, d, e, f1
  <2>4. 2 * d \in Extents(s, k) /\ 2 * e \in Extents(s, k)
    <3>1. 2 * d \in Span(m) /\ 2 * e \in Span(n)
      BY <2>1, <2>2
    <3> QED BY <3>1 DEF UnionTo
  <2>5. 2 * d \in Extent(s[k + 1]) /\ 2 * e \in Extent(s[k + 1]) /\ 2 * d + 1 \in (2 * d) .. (2 * e)
    BY <1>1, <1>2, <2>1
  <2> QED BY <1>2, <2>3, <2>4, <2>5 DEF Bridges
<1>4. ASSUME NEW m \in Meeting(it, r), NEW n \in Meeting(it, r), m # n PROVE FALSE
  <2>1. m \in it /\ n \in it /\ Intersect(m, r) /\ Intersect(n, r) /\ ~Intersect(m, n)
    BY <1>4 DEF Meeting, UnionTo
  <2>2. m.bound < n.base \/ n.bound < m.base
    BY <2>1 DEF UnionTo, Intersect
  <2> QED BY <1>3, <2>1, <2>2
<1> QED BY <1>4 DEF FreesTwice, r

(* An interval that meets at most one node joins it, or is a node itself.  *)
LEMMA UnionGoes ==
  ASSUME NEW it, NEW s, NEW k \in Nat, UnionTo(it, s, k), Sound(s[k + 1]), ~Bridges(s, k + 1)
  PROVE  UnionTo(ItInsertNew(it, Interval(s[k + 1])), s, k + 1)
<1> DEFINE r == Interval(s[k + 1])
           new == ItInsertNew(it, r)
<1>1. r.base \in Nat /\ r.bound \in Nat /\ r.base < r.bound /\ Span(r) = Extent(s[k + 1])
  BY DEF Sound, Interval, Span, Extent
<1>2. ~FreesTwice(it, r)
  BY NoGap
<1>3. \A x : x \in Extents(s, k + 1) <=> x \in Extents(s, k) \/ x \in Span(r)
  BY <1>1, ExtentsGrow
<1>4. /\ \A n \in it : n.base \in Nat /\ n.bound \in Nat /\ n.base <= n.bound
      /\ \A x : x \in Extents(s, k) <=> \E n \in it : x \in Span(n)
      /\ \A m, n \in it : Intersect(m, n) => m = n
  BY DEF UnionTo
<1> HIDE DEF r
<1>5. CASE Meeting(it, r) = {}
  <2>1. new = it \cup {r} /\ \A n \in it : ~Intersect(n, r)
    BY <1>5 DEF ItInsertNew, Meeting
  <2>2. \A n \in it : ~Intersect(r, n)
    BY <2>1 DEF Intersect
  <2> HIDE DEF new
  <2>3. \A n \in new : n.base \in Nat /\ n.bound \in Nat /\ n.base <= n.bound
    BY <1>1, <1>4, <2>1
  <2>4. \A x : x \in Extents(s, k + 1) <=> \E n \in new : x \in Span(n)
    BY <1>3, <1>4, <2>1, Zenon
  <2>5. \A m, n \in new : Intersect(m, n) => m = n
    BY <1>4, <2>1, <2>2
  <2> QED BY <2>3, <2>4, <2>5 DEF UnionTo, new, r
<1>6. CASE Meeting(it, r) # {}
  <2>1. PICK c \in Meeting(it, r) : TRUE
    BY <1>6
  <2> DEFINE h == [base |-> Smaller(r.base, c.base), bound |-> Larger(r.bound, c.bound)]
  <2>2. Meeting(it, r) = {c} /\ c \in it /\ Intersect(c, r) /\ \A n \in it : Intersect(n, r) => n = c
    BY <1>2, <2>1 DEF FreesTwice, Meeting
  <2>3. new = (it \ {c}) \cup {h}
    BY <2>2 DEF ItInsertNew
  <2>4. c.base \in Nat /\ c.bound \in Nat /\ c.base <= c.bound /\ r.base <= r.bound
    BY <1>1, <1>4, <2>2
  <2>5. h.base = Smaller(r.base, c.base) /\ h.bound = Larger(r.bound, c.bound)
    OBVIOUS
  <2> HIDE DEF h, new
  <2>6. Span(h) = Span(r) \cup Span(c)
    BY <1>1, <2>2, <2>4, <2>5, Hull
  <2>7. h.base \in Nat /\ h.bound \in Nat /\ h.base <= h.bound
    BY <1>1, <2>4, <2>5 DEF Smaller, Larger
  <2>8. \A n \in new : n.base \in Nat /\ n.bound \in Nat /\ n.base <= n.bound
    BY <1>4, <2>3, <2>7
  <2>9. \A x : x \in Extents(s, k + 1) <=> \E n \in new : x \in Span(n)
    <3> TAKE x
    <3>1. x \in Extents(s, k + 1) <=> (\E n \in it : x \in Span(n)) \/ x \in Span(r)
      BY <1>3, <1>4
    <3>2. (\E n \in it : x \in Span(n)) <=> (\E n \in it \ {c} : x \in Span(n)) \/ x \in Span(c)
      BY <2>2
    <3>3. (\E n \in new : x \in Span(n)) <=> (\E n \in it \ {c} : x \in Span(n)) \/ x \in Span(h)
      BY <2>3
    <3> QED BY <2>6, <3>1, <3>2, <3>3
  <2>10. ASSUME NEW n \in it, n # c PROVE ~Intersect(n, h) /\ ~Intersect(h, n)
    <3>1. ~Intersect(n, c) /\ ~Intersect(n, r) /\ n.base \in Nat /\ n.bound \in Nat /\ n.base <= n.bound
      BY <1>4, <2>2, <2>10
    <3> QED BY <1>1, <2>2, <2>4, <2>5, <3>1 DEF Intersect, Smaller, Larger
  <2>11. \A m, n \in new : Intersect(m, n) => m = n
    BY <1>4, <2>3, <2>10
  <2> QED BY <2>8, <2>9, <2>11 DEF UnionTo, new, r
<1> QED BY <1>5, <1>6

(* All regions.                                                            *)
LEMMA ListUnion ==
  ASSUME NEW S, NEW s \in Seq(S), \A i \in 1..Len(s) : Sound(s[i]) /\ ~Bridges(s, i)
  PROVE  UnionTo(ListOf(s), s, Len(s))
<1> DEFINE N == Len(s)
<1>0. N \in Nat
  BY LenProperties
<1>1. PICK q : Runs(<<"region">>, {}, s, N, q) /\ ListOf(s) = q[N]
  BY LoopRuns DEF ListOf
<1>2. q[0] = {} /\ \A i \in 1..N : q[i] = ItInsertNew(q[i - 1], Interval(s[i]))
  BY <1>1, Steps DEF Runs
<1> DEFINE K == {i \in 0..N : UnionTo(q[i], s, i)}
<1> HIDE DEF N
<1>3. 0 \in K
  BY <1>0, <1>2, ExtentsGrow DEF UnionTo
<1>4. ASSUME NEW i \in 0 .. N - 1, i \in K PROVE i + 1 \in K
  <2>1. i \in Nat /\ i + 1 \in 1..N /\ (i + 1) - 1 = i /\ i + 1 \in 0..N
    BY <1>0
  <2>2. q[i + 1] = ItInsertNew(q[i], Interval(s[i + 1])) /\ Sound(s[i + 1]) /\ ~Bridges(s, i + 1) /\ UnionTo(q[i], s, i)
    BY <1>2, <1>4, <2>1 DEF N
  <2>3. UnionTo(q[i + 1], s, i + 1)
    BY <2>1, <2>2, UnionGoes
  <2> QED BY <2>1, <2>3
<1> HIDE DEF K
<1>5. N \in K
  <2>1. \A i \in 0 .. N - 1 : i \in K => i + 1 \in K
    BY <1>4
  <2>2. 0..N \subseteq K
    BY <1>0, <1>3, <2>1, UpTo
  <2> QED BY <1>0, <2>2
<1> QED BY <1>1, <1>5 DEF K, N

(* What a list that is the union of its regions is.                        *)
LEMMA UnionIs ==
  ASSUME NEW it, NEW s, UnionTo(it, s, Len(s))
  PROVE  IsUnion(it, s)
<1>1. \A x : x \in UNION {(2 * n.base) .. (2 * n.bound) : n \in it} <=> x \in Extents(s, Len(s))
  BY DEF UnionTo, Span
<1> QED BY <1>1 DEF UnionTo, IsUnion

(* No node is freed for the last region.                                   *)
LEMMA LastFits ==
  ASSUME NEW S, NEW s \in Seq(S), NEW x \in S,
         \A i \in 1..Len(Append(s, x)) : Sound(Append(s, x)[i]) /\ ~Bridges(Append(s, x), i)
  PROVE  ~FreesTwice(ListOf(s), Interval(x))
<1> DEFINE t == Append(s, x)
           m == Len(s)
<1>1. /\ m \in Nat /\ Len(t) = m + 1 /\ t[m + 1] = x /\ \A i \in 1..m : s[i] = t[i]
  BY AppendProperties, LenProperties
<1>2. \A i \in 1 .. m + 1 : Sound(t[i]) /\ ~Bridges(t, i)
  BY <1>1
<1> HIDE DEF t, m
<1>3. \A i \in 1..m : Sound(s[i]) /\ ~Bridges(s, i)
  <2> TAKE i \in 1..m
  <2>1. i \in 1 .. m + 1 /\ i \in 0..m /\ i # 0
    BY <1>1
  <2> QED BY <1>1, <1>2, <2>1, SamePrefix
<1>4. UnionTo(ListOf(s), s, m)
  BY <1>3, ListUnion DEF m
<1>5. UnionTo(ListOf(s), t, m)
  <2>1. m \in 0..m /\ m \in Nat
    BY <1>1
  <2>2. Extents(s, m) = Extents(t, m)
    BY <1>1, <2>1, SamePrefix
  <2> QED BY <1>4, <2>2 DEF UnionTo
<1>6. m + 1 \in 1 .. m + 1
  BY <1>1
<1> QED BY <1>1, <1>2, <1>5, <1>6, NoGap

-----------------------------------------------------------------------------
(* The lines of ~/.oraclerc                                                *)

FirstState == [level |-> 0, target |-> <<>>]

(* The fold of Target is the loop over the lines.                          *)
LEMMA TargetIs ==
  ASSUME NEW folder, NEW S, NEW lines \in Seq(S)
  PROVE  Target(folder, lines) = Loop(<<"line", folder>>, FirstState, lines).target
<1>0. Len(lines) \in Nat /\ DOMAIN lines = 1..Len(lines)
  BY LenProperties
<1> DEFINE D == DOMAIN lines
           P(h) == h = [T \in SUBSET D |->
                    IF T = {} THEN FirstState
                    ELSE ReadLine(folder, h[T \ {Max(T)}], lines[Max(T)])]
           d == CHOOSE h : P(h)
<1>1. Target(folder, lines) = d[D].target
  BY DEF Target, FoldLeft, MapThenFoldSet, FirstState
<1>2. \A h : P(h) <=> FoldsTo(<<"line", folder>>, FirstState, lines, Len(lines), h)
  <2> TAKE h
  <2> DEFINE F == [T \in SUBSET D |->
                     IF T = {} THEN FirstState
                     ELSE ReadLine(folder, h[T \ {Max(T)}], lines[Max(T)])]
             G == [T \in SUBSET (1..Len(lines)) |->
                     IF T = {} THEN FirstState
                     ELSE Step(<<"line", folder>>, h[T \ {Max(T)}], lines[Max(T)])]
  <2>1. \A st, x : Step(<<"line", folder>>, st, x) = ReadLine(folder, st, x)
    BY Steps
  <2>2. \A T \in SUBSET D : F[T] = G[T]
    BY <1>0, <2>1
  <2>3. F = G
    BY <1>0, <2>2
  <2> HIDE DEF F, G
  <2>4. P(h) <=> h = F
    BY DEF F
  <2>5. FoldsTo(<<"line", folder>>, FirstState, lines, Len(lines), h) <=> h = G
    BY DEF FoldsTo, G
  <2> QED BY <2>3, <2>4, <2>5
<1> HIDE DEF P
<1>3. \E h : P(h)
  BY <1>0, <1>2, FoldExists
<1>4. P(d)
  BY <1>3
<1> HIDE DEF d
<1>5. d[1..Len(lines)] = Loop(<<"line", folder>>, FirstState, lines)
  BY <1>2, <1>4, LoopIs
<1> QED BY <1>0, <1>1, <1>5

(* What a line can be for a file. *)
Forms == {{}, {"ext"}, {"name"}, {"path"}, {"name", "path"}}

IsLine(line) == line.name \in {"ext", "name", "path", "other"}

(* What a line can match.                                                  *)
LEMMA MatchForms ==
  ASSUME NEW folder \in BOOLEAN, NEW line, IsLine(line)
  PROVE  Matches(folder, line) \in Forms
<1>1. CASE line.name \in {"name", "path"} /\ ~folder
  <2>1. line.name # "other"
    BY <1>1
  <2> QED BY <1>1, <2>1 DEF Matches, Forms
<1>2. CASE line.name = "other"
  BY <1>2 DEF Matches, Forms
<1>3. CASE ~(line.name \in {"name", "path"} /\ ~folder) /\ line.name # "other"
  <2>1. Matches(folder, line) = {line.name}
    BY <1>3 DEF Matches
  <2> QED BY <2>1, <1>3 DEF Forms, IsLine
<1> QED BY <1>1, <1>2, <1>3

(* How far one line raises the level. *)
Raised(level, M) ==
    CASE level = 0 -> IF M = {} THEN 0 ELSE IF M = {"name", "path"} THEN 2 ELSE 1
      [] level = 1 -> IF M \in {{}, {"ext"}} THEN 1 ELSE IF M = {"name", "path"} THEN 3 ELSE 2
      [] level = 2 -> IF "path" \in M THEN 3 ELSE 2
      [] OTHER     -> level

(* The sizes of small sets.                                                *)
LEMMA SmallSets ==
  /\ Cardinality({}) = 0
  /\ \A x : Cardinality({x}) = 1
  /\ \A x, y : x # y => Cardinality({x, y}) = 2
<1>1. Cardinality({}) = 0
  BY FS_EmptySet
<1>2. ASSUME NEW x PROVE Cardinality({x}) = 1
  BY FS_Singleton
<1>3. ASSUME NEW x, NEW y, x # y PROVE Cardinality({x, y}) = 2
  <2>1. IsFiniteSet({x}) /\ {x} \cup {y} = {x, y} /\ y \notin {x}
    BY <1>3, FS_Singleton
  <2>2. Cardinality({x} \cup {y}) = Cardinality({x}) + 1
    BY <2>1, FS_AddElement
  <2> QED BY <2>1, <2>2, <1>2
<1> QED BY <1>1, <1>2, <1>3

(* How much a line counts.                                                 *)
LEMMA FormSizes ==
  ASSUME NEW M \in Forms
  PROVE  Cardinality(M) = IF M = {} THEN 0 ELSE IF M = {"name", "path"} THEN 2 ELSE 1
<1>1. CASE M = {}
  BY <1>1, SmallSets
<1>2. CASE M = {"name", "path"}
  <2>1. Cardinality({"name", "path"}) = 2
    BY SmallSets
  <2> QED BY <1>2, <2>1
<1>3. CASE M \in {{"ext"}, {"name"}, {"path"}}
  <2>1. \E x : M = {x}
    BY <1>3
  <2>2. M # {"name", "path"} /\ M # {}
    BY <1>3
  <2> QED BY <2>1, <2>2, SmallSets
<1> QED BY <1>1, <1>2, <1>3 DEF Forms

(* A line raises the level as Raised says.                                 *)
LEMMA LineRaises ==
  ASSUME NEW M \in Forms, NEW level \in 0..3
  PROVE  level + Cardinality(M \cap Tested(level)) = Raised(level, M)
<1> DEFINE X == M \cap Tested(level)
<1>1. CASE level = 0
  <2>1. Tested(level) = {"ext", "name", "path"}
    BY <1>1 DEF Tested
  <2>2. X = M
    BY <2>1 DEF Forms
  <2>3. Cardinality(M) = IF M = {} THEN 0 ELSE IF M = {"name", "path"} THEN 2 ELSE 1
    BY FormSizes
  <2> QED BY <1>1, <2>2, <2>3 DEF Raised
<1>2. CASE level = 1
  <2>1. Tested(level) = {"name", "path"}
    BY <1>2 DEF Tested
  <2>2. X = IF M \in {{}, {"ext"}} THEN {} ELSE M
    BY <2>1 DEF Forms
  <2>3. Cardinality(X) = IF M \in {{}, {"ext"}} THEN 0 ELSE IF M = {"name", "path"} THEN 2 ELSE 1
    BY <2>2, FormSizes, SmallSets DEF Forms
  <2> QED BY <1>2, <2>3 DEF Raised
<1>3. CASE level = 2
  <2>1. Tested(level) = {"path"}
    BY <1>3 DEF Tested
  <2>2. X = IF "path" \in M THEN {"path"} ELSE {}
    BY <2>1 DEF Forms
  <2>3. Cardinality(X) = IF "path" \in M THEN 1 ELSE 0
    BY <2>2, SmallSets
  <2> QED BY <1>3, <2>3 DEF Raised
<1>4. CASE level = 3
  <2>1. Tested(level) = {}
    BY <1>4 DEF Tested
  <2>2. Cardinality(X) = 0
    BY <2>1, SmallSets
  <2> QED BY <1>4, <2>2 DEF Raised
<1> QED BY <1>1, <1>2, <1>3, <1>4

(* What the loop knows after k lines. *)
TargetAt(folder, lines, k, level, j) ==
    LET For(i) == Matches(folder, lines[i]) IN
    /\ For(j) = {"ext"} => level = 1 /\ \A i \in 1..k : For(i) \subseteq {"ext"}
    /\ For(j) = {"name"} => level <= 2 /\ \A i \in j + 1 .. k : For(i) # {"path"}

LoopKnows(folder, lines, k, st) ==
    /\ st.level \in 0..3
    /\ st.target = <<>> <=> st.level = 0
    /\ st.level = 0 <=> \A i \in 1..k : Matches(folder, lines[i]) = {}
    /\ st.level # 0 => \E j \in 1..k : st.target = <<lines[j]>> /\ TargetAt(folder, lines, k, st.level, j)

(* Before the first line there is no target.                               *)
LEMMA LoopStarts ==
  ASSUME NEW folder, NEW lines
  PROVE  LoopKnows(folder, lines, 0, FirstState)
BY DEF LoopKnows, FirstState

(* One more line.                                                          *)
LEMMA LoopGoesOn ==
  ASSUME NEW folder \in BOOLEAN, NEW lines, NEW k \in Nat \ {0}, IsLine(lines[k]),
         NEW st, LoopKnows(folder, lines, k - 1, st)
  PROVE  LoopKnows(folder, lines, k, ReadLine(folder, st, lines[k]))
<1> DEFINE M == Matches(folder, lines[k])
           level == Raised(st.level, M)
           next == ReadLine(folder, st, lines[k])
<1>1. M \in Forms
  BY MatchForms
<1>2. st.level \in 0..3
  BY DEF LoopKnows
<1>3. st.level + Cardinality(M \cap Tested(st.level)) = level
  BY <1>1, <1>2, LineRaises
<1>4. next = IF level > st.level THEN [level |-> level, target |-> <<lines[k]>>] ELSE st
  BY <1>3 DEF ReadLine
<1>5. 1..k = (1 .. k - 1) \cup {k}
  OBVIOUS
<1> HIDE DEF M, next
<1>6. CASE level > st.level
  <2>1. next.level = level /\ next.target = <<lines[k]>>
    BY <1>4, <1>6
  <2>2. level \in 1..3 /\ M # {}
    BY <1>1, <1>2, <1>6 DEF Raised, Forms
  <2>3. M = {"ext"} => st.level = 0 /\ level = 1
    BY <1>1, <1>2, <1>6 DEF Raised
  <2>4. M = {"name"} => level <= 2
    BY <1>1, <1>2, <1>6 DEF Raised
  <2>5. st.level = 0 => \A i \in 1 .. k - 1 : Matches(folder, lines[i]) = {}
    BY DEF LoopKnows
  <2>6. TargetAt(folder, lines, k, level, k)
    <3>1. M = {"ext"} => level = 1 /\ \A i \in 1..k : Matches(folder, lines[i]) \subseteq {"ext"}
      BY <1>5, <2>3, <2>5 DEF M
    <3>2. \A i \in k + 1 .. k : FALSE
      OBVIOUS
    <3> QED BY <2>4, <3>1, <3>2 DEF TargetAt, M
  <2>7. <<lines[k]>> # <<>>
    OBVIOUS
  <2> HIDE DEF level
  <2>8. k \in 1..k
    OBVIOUS
  <2>9. \E i \in 1..k : Matches(folder, lines[i]) # {}
    BY <2>2, <2>8 DEF M
  <2>10. next.level \in 0..3 /\ next.level # 0 /\ next.target # <<>>
    BY <2>1, <2>2, <2>7
  <2>11. LoopKnows(folder, lines, k, next)
    BY <2>1, <2>6, <2>8, <2>9, <2>10 DEF LoopKnows
  <2> QED BY <2>11 DEF next
<1>7. CASE ~(level > st.level)
  <2>1. next = st
    BY <1>4, <1>7
  <2>2. st.level = 0 => M = {}
    BY <1>1, <1>7 DEF Raised
  <2>3. st.level = 1 => M \subseteq {"ext"}
    BY <1>1, <1>7 DEF Raised, Forms
  <2>4. st.level \in {1, 2} => M # {"path"}
    BY <1>1, <1>7 DEF Raised, Forms
  <2>5. ASSUME NEW j \in 1 .. k - 1, st.level # 0, TargetAt(folder, lines, k - 1, st.level, j)
        PROVE  TargetAt(folder, lines, k, st.level, j)
    <3>1. Matches(folder, lines[j]) = {"ext"} => \A i \in 1..k : Matches(folder, lines[i]) \subseteq {"ext"}
      BY <1>5, <2>3, <2>5 DEF TargetAt, M
    <3>2. Matches(folder, lines[j]) = {"name"} => \A i \in j + 1 .. k : Matches(folder, lines[i]) # {"path"}
      <4>1. \A i \in j + 1 .. k : i \in j + 1 .. k - 1 \/ i = k
        OBVIOUS
      <4> QED BY <1>2, <4>1, <2>4, <2>5 DEF TargetAt, M
    <3> QED BY <2>5, <3>1, <3>2 DEF TargetAt
  <2>6. st.level = 0 <=> \A i \in 1..k : Matches(folder, lines[i]) = {}
    BY <1>5, <2>2 DEF LoopKnows, M
  <2>7. st.level # 0 => \E j \in 1..k : st.target = <<lines[j]>> /\ TargetAt(folder, lines, k, st.level, j)
    BY <1>5, <2>5 DEF LoopKnows
  <2>8. LoopKnows(folder, lines, k, st)
    BY <2>6, <2>7 DEF LoopKnows
  <2> QED BY <2>1, <2>8 DEF next
<1> QED BY <1>6, <1>7

(* The target is that of the last state, of which LoopKnows holds.         *)
LEMMA LoopEnds ==
  ASSUME NEW folder \in BOOLEAN, NEW S, NEW lines \in Seq(S), \A line \in S : IsLine(line)
  PROVE  \E st : LoopKnows(folder, lines, Len(lines), st) /\ Target(folder, lines) = st.target
<1>0. Len(lines) \in Nat /\ \A k \in 1..Len(lines) : IsLine(lines[k])
  BY LenProperties, ElementOfSeq
<1> DEFINE p == <<"line", folder>>
<1>1. PICK r : Runs(p, FirstState, lines, Len(lines), r) /\ Target(folder, lines) = r[Len(lines)].target
  BY TargetIs, LoopRuns
<1> DEFINE K == {k \in 0..Len(lines) : LoopKnows(folder, lines, k, r[k])}
<1>2. 0 \in K
  BY <1>0, <1>1, LoopStarts DEF Runs
<1>3. ASSUME NEW k \in 0 .. Len(lines) - 1, k \in K PROVE k + 1 \in K
  <2>1. k + 1 \in Nat \ {0} /\ (k + 1) - 1 = k /\ k + 1 \in 1..Len(lines) /\ IsLine(lines[k + 1])
    BY <1>0
  <2>2. LoopKnows(folder, lines, k, r[k])
    BY <1>3
  <2>3. LoopKnows(folder, lines, k + 1, ReadLine(folder, r[k], lines[k + 1]))
    BY <2>1, <2>2, LoopGoesOn
  <2>4. r[k + 1] = ReadLine(folder, r[k], lines[k + 1])
    <3>1. r[k + 1] = Step(p, r[k], lines[k + 1])
      BY <1>1, <2>1 DEF Runs
    <3> QED BY <3>1, Steps
  <2> QED BY <2>1, <2>3, <2>4
<1> HIDE DEF K
<1>4. Len(lines) \in K
  <2> DEFINE m == Len(lines)
  <2>1. m \in Nat /\ 0 \in K /\ \A k \in 0 .. m - 1 : k \in K => k + 1 \in K
    BY <1>0, <1>2, <1>3
  <2> HIDE DEF m
  <2>2. 0..m \subseteq K
    BY <2>1, UpTo
  <2>3. m \in K
    BY <2>1, <2>2
  <2> QED BY <2>3 DEF m
<1> QED BY <1>1, <1>4 DEF K

(* options.h: the line that is taken, for any number of lines.             *)
LEMMA Precedence ==
  ASSUME NEW folder \in BOOLEAN, NEW S, NEW lines \in Seq(S), \A line \in S : IsLine(line)
  PROVE  LET For(i) == Matches(folder, lines[i])
             target == Target(folder, lines) IN
         /\ target = <<>> <=> \A i \in 1..Len(lines) : For(i) = {}
         /\ target # <<>> => \E k \in 1..Len(lines) :
               /\ lines[k] = target[1]
               /\ For(k) = {"ext"} => \A i \in 1..Len(lines) : For(i) \subseteq {"ext"}
               /\ For(k) = {"name"} => \A i \in k + 1 .. Len(lines) : For(i) # {"path"}
<1>1. PICK st : LoopKnows(folder, lines, Len(lines), st) /\ Target(folder, lines) = st.target
  BY LoopEnds
<1>2. Target(folder, lines) = <<>> <=> \A i \in 1..Len(lines) : Matches(folder, lines[i]) = {}
  BY <1>1 DEF LoopKnows
<1>3. ASSUME Target(folder, lines) # <<>>
      PROVE  \E k \in 1..Len(lines) :
               /\ lines[k] = Target(folder, lines)[1]
               /\ Matches(folder, lines[k]) = {"ext"} =>
                     \A i \in 1..Len(lines) : Matches(folder, lines[i]) \subseteq {"ext"}
               /\ Matches(folder, lines[k]) = {"name"} =>
                     \A i \in k + 1 .. Len(lines) : Matches(folder, lines[i]) # {"path"}
  <2>1. PICK j \in 1..Len(lines) : st.target = <<lines[j]>> /\ TargetAt(folder, lines, Len(lines), st.level, j)
    BY <1>1, <1>3 DEF LoopKnows
  <2>2. lines[j] = Target(folder, lines)[1]
    BY <1>1, <2>1
  <2> QED BY <2>1, <2>2 DEF TargetAt
<1> QED BY <1>2, <1>3

(* Only oracles that fit their buffer are copied.                          *)
LEMMA OraclesFit ==
  ASSUME NEW folder, NEW lines
  PROVE  LET oracles == GetOracles(folder, lines) IN
         oracles[1] = "words" => oracles[2] <= ORACLE_LEN_MAX /\ oracles[3] <= ORACLE_LEN_MAX
<1> DEFINE target == Target(folder, lines)
<1>1. CASE target # <<>> /\ GetAnOracle(target[1], 1) /\ GetAnOracle(target[1], 2)
  <2>1. GetOracles(folder, lines) = <<"words", target[1].words[1], target[1].words[2]>>
    BY <1>1 DEF GetOracles
  <2>2. /\ target[1].words[1] \in ORACLE_LEN_MIN .. ORACLE_LEN_MAX
        /\ target[1].words[2] \in ORACLE_LEN_MIN .. ORACLE_LEN_MAX
    BY <1>1 DEF GetAnOracle
  <2> QED BY <2>1, <2>2, SMTT(30) DEF ORACLE_LEN_MIN, ORACLE_LEN_MAX
<1>2. CASE ~(target # <<>> /\ GetAnOracle(target[1], 1) /\ GetAnOracle(target[1], 2))
  <2>1. GetOracles(folder, lines) \in {<<"default">>, <<"undefined">>}
    BY <1>2 DEF GetOracles
  <2> QED BY <2>1
<1> QED BY <1>1, <1>2

InputTyped == kind = "oraclerc" => input \in [folder : BOOLEAN, lines : Seq(Lines)]

(* ~/.oraclerc is a sequence of lines.                                     *)
LEMMA InputIsTyped == MCSpec => []InputTyped
<1>1. MCInit => InputTyped
  BY EmptySeq DEF MCInit, InputTyped
<1>2. InputTyped /\ [MCNext]_<<kind, input, vars>> => InputTyped'
  <2> SUFFICES ASSUME InputTyped, [MCNext]_<<kind, input, vars>>, kind' = "oraclerc"
               PROVE  input' \in [folder : BOOLEAN, lines : Seq(Lines)]
    BY DEF InputTyped
  <2>1. CASE GrowLines
    BY <2>1, AppendProperties DEF InputTyped, GrowLines, GrowsTo
  <2>2. CASE InsertRegions \/ UNCHANGED <<kind, input, vars>>
    BY <2>2 DEF InputTyped, InsertRegions
  <2>3. CASE GrowNew \/ GrowOpen \/ GrowPrint \/ GrowText
    BY <2>3 DEF GrowNew, GrowOpen, GrowPrint, GrowText, GrowsTo
  <2> QED BY <2>1, <2>2, <2>3 DEF MCNext
<1> QED BY <1>1, <1>2, PTL DEF MCSpec

(* options.h, help.h:62: for any number of lines in ~/.oraclerc, the line  *)
(* whose oracles are taken is for the file, it is for the extension only   *)
(* if no other line is for the file, and for the name only if no line for  *)
(* the path follows it; and the oracles fit their buffers.                 *)
THEOREM OraclesAreChosen == MCSpec => []OraclePrecedence
<1>1. \A line \in Lines : IsLine(line)
  BY DEF Lines, IsLine
<1>2. InputTyped => OraclePrecedence
  BY <1>1, Precedence, OraclesFit, ZenonT(60) DEF InputTyped, OraclePrecedence
<1> QED BY <1>2, InputIsTyped, PTL

-----------------------------------------------------------------------------
(* Sets of places as lists                                                 *)

(* e lists the numbers of T from the least to the largest. *)
Lists(e, T) ==
    /\ e \in Seq(T)
    /\ \A i, j \in 1..Len(e) : i < j => e[i] < e[j]
    /\ \A x \in T : \E i \in 1..Len(e) : e[i] = x

(* Every finite set of places can be listed.                               *)
LEMMA SomeList ==
  ASSUME NEW m \in Nat, NEW S, S \subseteq 1..m
  PROVE  \E e : Lists(e, S)
<1> DEFINE Low(k) == S \cap (1..k)
           K == {k \in 0..m : \E e : Lists(e, Low(k))}
<1>1. 0 \in K
  <2>1. Low(0) = {}
    OBVIOUS
  <2>2. Lists(<<>>, {})
    BY EmptySeq DEF Lists
  <2> QED BY <2>1, <2>2
<1>2. ASSUME NEW k \in 0 .. m - 1, k \in K PROVE k + 1 \in K
  <2>0. k \in Nat /\ k + 1 \in 0..m
    BY <1>2
  <2>1. PICK e : Lists(e, Low(k))
    BY <1>2
  <2>2. CASE k + 1 \notin S
    <3>1. Low(k + 1) = Low(k)
      BY <2>0, <2>2
    <3> QED BY <2>0, <2>1, <3>1
  <2>3. CASE k + 1 \in S
    <3> DEFINE T == Low(k + 1)
               g == Append(e, k + 1)
    <3>1. T = Low(k) \cup {k + 1}
      BY <2>0, <2>3
    <3>2. e \in Seq(Low(k)) /\ Len(e) \in Nat /\ \A i \in 1..Len(e) : e[i] \in Low(k)
      BY <2>1, LenProperties, ElementOfSeq DEF Lists
    <3>3. e \in Seq(T)
      <4>1. \A i \in 1..Len(e) : e[i] \in T
        BY <3>1, <3>2
      <4>2. e = [i \in 1..Len(e) |-> e[i]]
        BY <3>2, LenProperties
      <4> HIDE DEF T
      <4>3. e \in [1..Len(e) -> T]
        BY <4>1, <4>2
      <4> QED BY <3>2, <4>3, SeqDef
    <3>4. k + 1 \in T
      BY <3>1
    <3> HIDE DEF T
    <3>5. /\ g \in Seq(T) /\ Len(g) = Len(e) + 1 /\ g[Len(e) + 1] = k + 1
          /\ \A i \in 1..Len(e) : g[i] = e[i]
      BY <3>3, <3>4, AppendProperties
    <3> HIDE DEF g
    <3>6. ASSUME NEW i \in 1..Len(g), NEW j \in 1..Len(g), i < j PROVE g[i] < g[j]
      <4>1. CASE j = Len(e) + 1
        <5>1. i \in 1..Len(e)
          BY <3>2, <3>5, <3>6, <4>1
        <5>2. g[i] \in Low(k)
          BY <3>2, <3>5, <5>1
        <5> QED BY <2>0, <3>5, <4>1, <5>2
      <4>2. CASE j # Len(e) + 1
        <5>1. i \in 1..Len(e) /\ j \in 1..Len(e)
          BY <3>2, <3>5, <3>6, <4>2, SMTT(30)
        <5>2. e[i] < e[j]
          BY <2>1, <3>6, <5>1 DEF Lists
        <5> QED BY <3>5, <5>1, <5>2
      <4> QED BY <4>1, <4>2
    <3>7. ASSUME NEW x \in T PROVE \E i \in 1..Len(g) : g[i] = x
      <4>1. CASE x = k + 1
        BY <3>2, <3>5, <4>1
      <4>2. CASE x # k + 1
        <5>1. x \in Low(k)
          BY <3>1, <3>7, <4>2
        <5>2. PICK i \in 1..Len(e) : e[i] = x
          BY <2>1, <5>1 DEF Lists
        <5> QED BY <3>2, <3>5, <5>2
      <4> QED BY <4>1, <4>2
    <3>8. Lists(g, T)
      BY <3>5, <3>6, <3>7 DEF Lists
    <3> QED BY <2>0, <3>8 DEF T
  <2> QED BY <2>2, <2>3
<1>3. Low(m) = S
  OBVIOUS
<1> HIDE DEF K
<1>4. m \in K
  BY <1>1, <1>2, UpTo
<1>5. \E e : Lists(e, Low(m))
  BY <1>4 DEF K
<1> QED BY <1>3, <1>5

(* The numbers of a list are those of the set, each one once.              *)
LEMMA ListedType ==
  ASSUME NEW T, T \subseteq Nat, NEW e, Lists(e, T)
  PROVE  /\ Len(e) \in Nat /\ DOMAIN e = 1..Len(e) /\ e \in [1..Len(e) -> T]
         /\ \A i \in 1..Len(e) : e[i] \in T /\ e[i] \in Nat
         /\ \A i, j \in 1..Len(e) : e[i] = e[j] => i = j
         /\ \A i, j \in 1..Len(e) : e[i] < e[j] => i < j
<1>1. Len(e) \in Nat /\ DOMAIN e = 1..Len(e) /\ \A i \in 1..Len(e) : e[i] \in T /\ e[i] \in Nat
  BY LenProperties, ElementOfSeq DEF Lists
<1>2. e = [i \in 1..Len(e) |-> e[i]]
  BY <1>1, LenProperties DEF Lists
<1>3. \A i, j \in 1..Len(e) : i < j => e[i] < e[j]
  BY DEF Lists
<1>4. \A i, j \in 1..Len(e) : i < j \/ i = j \/ j < i
  BY <1>1
<1>5. \A i, j \in 1..Len(e) : e[i] = e[j] => i = j
  BY <1>1, <1>3, <1>4
<1>6. \A i, j \in 1..Len(e) : e[i] < e[j] => i < j
  BY <1>1, <1>3, <1>4
<1> QED BY <1>1, <1>2, <1>5, <1>6

(* A list is as long as its set has numbers.                               *)
LEMMA ListedLength ==
  ASSUME NEW T, T \subseteq Nat, NEW e, Lists(e, T)
  PROVE  Cardinality(T) = Len(e) /\ IsFiniteSet(T)
<1>1. e \in Bijection(1..Len(e), T)
  BY ListedType DEF Bijection, Injection, Surjection, IsInjective, Lists
<1>2. ExistsBijection(1..Len(e), T) /\ Len(e) \in Nat
  BY <1>1, ListedType DEF ExistsBijection
<1> QED BY <1>2, FS_CountingElements, FS_NatBijection

(* Only one sequence lists a set. *)
LEMMA ListedOnce ==
  ASSUME NEW T, T \subseteq Nat, NEW e, Lists(e, T), NEW g, Lists(g, T)
  PROVE  e = g
<1> DEFINE n == Len(e)
<1>1. n \in Nat /\ Len(g) = n
  BY ListedLength, ListedType
<1>11. \A i, j \in 1..n : e[i] = e[j] => i = j
  BY ListedType
<1>12. \A i, j \in 1..n : g[i] = g[j] => i = j
  BY <1>1, ListedType
<1>2. ASSUME NEW k \in 1..n, \A j \in 1 .. k - 1 : e[j] = g[j] PROVE e[k] = g[k]
  <2>1. PICK i \in 1..n : g[i] = e[k]
    BY <1>1, ListedType DEF Lists
  <2>2. PICK j \in 1..n : e[j] = g[k]
    BY <1>1, ListedType DEF Lists
  <2>3. ~(i < k)
    <3>1. i < k => e[i] = e[k]
      BY <1>2, <2>1, <1>1
    <3> QED BY <3>1, <1>1, <1>11
  <2>4. ~(j < k)
    <3>1. j < k => g[j] = g[k]
      BY <1>2, <2>2, <1>1
    <3> QED BY <3>1, <1>1, <1>12
  <2>5. i = k \/ k < i
    BY <1>1, <2>3
  <2>6. j = k \/ k < j
    BY <1>1, <2>4
  <2>7. k < i => g[k] < g[i]
    BY <1>1 DEF Lists
  <2>8. k < j => e[k] < e[j]
    BY <1>1 DEF Lists
  <2>9. e[k] \in Nat /\ g[k] \in Nat
    BY <1>1, ListedType
  <2> QED BY <2>1, <2>2, <2>5, <2>6, <2>7, <2>8, <2>9
<1> DEFINE K == {k \in 0..n : \A j \in 1..k : e[j] = g[j]}
<1>3. 0 \in K
  BY <1>1
<1>4. ASSUME NEW k \in 0 .. n - 1, k \in K PROVE k + 1 \in K
  <2>1. k + 1 \in 1..n /\ (k + 1) - 1 = k
    BY <1>1
  <2>2. e[k + 1] = g[k + 1]
    BY <1>2, <1>4, <2>1
  <2>3. \A j \in 1 .. k + 1 : j \in 1..k \/ j = k + 1
    BY <2>1
  <2> QED BY <1>4, <2>1, <2>2, <2>3
<1> HIDE DEF K
<1>5. n \in K
  BY <1>1, <1>3, <1>4, UpTo
<1>6. \A j \in 1..n : e[j] = g[j]
  BY <1>5 DEF K
<1>7. e \in [1..n -> T] /\ g \in [1..n -> T]
  BY <1>1, ListedType
<1> QED BY <1>6, <1>7

(* Below its k-th number a set has k - 1 numbers. *)
LEMMA ListedBelow ==
  ASSUME NEW T, T \subseteq Nat, NEW e, Lists(e, T), NEW k \in 1..Len(e)
  PROVE  Cardinality({y \in T : y < e[k]}) = k - 1
<1> DEFINE B == {y \in T : y < e[k]}
           g == [i \in 1 .. k - 1 |-> e[i]]
<1>1. Len(e) \in Nat /\ k - 1 \in Nat /\ \A i \in 1 .. k - 1 : i \in 1..Len(e) /\ i < k
  BY ListedType
<1>2. \A i \in 1 .. k - 1 : e[i] \in B
  BY <1>1, ListedType DEF Lists
<1>3. \A i, j \in 1 .. k - 1 : g[i] = g[j] => i = j
  BY <1>1, ListedType
<1>4. ASSUME NEW y \in B PROVE \E i \in 1 .. k - 1 : g[i] = y
  <2>1. PICK i \in 1..Len(e) : e[i] = y
    BY DEF Lists
  <2>2. i < k
    BY <2>1, ListedType
  <2> QED BY <1>1, <2>1, <2>2
<1> HIDE DEF B
<1>5. g \in [1 .. k - 1 -> B]
  BY <1>2
<1> HIDE DEF g
<1>6. g \in Bijection(1 .. k - 1, B)
  BY <1>3, <1>4, <1>5 DEF Bijection, Injection, Surjection, IsInjective
<1>7. ExistsBijection(1 .. k - 1, B)
  BY <1>6 DEF ExistsBijection
<1> QED BY <1>1, <1>7, FS_CountingElements DEF B

(* Ascending is the list of a set ...                                      *)
LEMMA AscendingIs ==
  ASSUME NEW T, T \subseteq Nat, NEW e, Lists(e, T)
  PROVE  Ascending(T) = e
<1>1. /\ Len(e) \in Nat /\ e \in [1..Len(e) -> T] /\ Cardinality(T) = Len(e)
      /\ \A i \in 1..Len(e) : e[i] \in T
  BY ListedType, ListedLength
<1> DEFINE P(x, k) == Cardinality({y \in T : y < x}) = k - 1
<1>2. ASSUME NEW k \in 1..Len(e) PROVE (CHOOSE x \in T : P(x, k)) = e[k]
  <2>1. e[k] \in T /\ P(e[k], k)
    BY <1>1, ListedBelow, ZenonT(30)
  <2>2. ASSUME NEW x \in T, P(x, k) PROVE x = e[k]
    <3>1. PICK i \in 1..Len(e) : e[i] = x
      BY DEF Lists
    <3>2. Cardinality({y \in T : y < e[i]}) = i - 1
      BY ListedBelow
    <3> HIDE DEF P
    <3>3. i - 1 = k - 1
      BY <2>2, <3>1, <3>2 DEF P
    <3> QED BY <1>1, <3>1, <3>3
  <2> HIDE DEF P
  <2> QED BY <2>1, <2>2
<1>3. Ascending(T) = [k \in 1..Len(e) |-> CHOOSE x \in T : P(x, k)]
  BY <1>1 DEF Ascending
<1> HIDE DEF P
<1> QED BY <1>1, <1>2, <1>3

(* ... and every finite set of places has one.                             *)
LEMMA AscendingLists ==
  ASSUME NEW m \in Nat, NEW S, S \subseteq 1..m
  PROVE  Lists(Ascending(S), S)
<1>1. PICK e : Lists(e, S)
  BY SomeList
<1>2. S \subseteq Nat
  OBVIOUS
<1> QED BY <1>1, <1>2, AscendingIs

(* Two sets, one before the other, are listed one after the other.         *)
LEMMA ListsJoin ==
  ASSUME NEW S, NEW T, S \subseteq Nat, T \subseteq Nat, \A x \in S, y \in T : x < y,
         NEW d, Lists(d, S), NEW e, Lists(e, T)
  PROVE  Lists(d \o e, S \cup T)
<1> DEFINE U == S \cup T
           g == d \o e
<1>1. /\ Len(d) \in Nat /\ Len(e) \in Nat
      /\ \A i \in 1..Len(d) : d[i] \in S /\ d[i] \in Nat
      /\ \A i \in 1..Len(e) : e[i] \in T /\ e[i] \in Nat
      /\ d \in [1..Len(d) -> S] /\ e \in [1..Len(e) -> T]
  BY ListedType
<1>2. d \in Seq(U) /\ e \in Seq(U)
  <2>1. d \in [1..Len(d) -> U] /\ e \in [1..Len(e) -> U]
    BY <1>1
  <2> HIDE DEF U
  <2> QED BY <1>1, <2>1, FunctionIsText
<1>3. /\ g \in Seq(U) /\ Len(g) = Len(d) + Len(e)
      /\ \A i \in 1 .. Len(d) + Len(e) : g[i] = IF i <= Len(d) THEN d[i] ELSE e[i - Len(d)]
  BY <1>2, ConcatProperties
<1> HIDE DEF g
<1>4. ASSUME NEW i \in 1..Len(g), NEW j \in 1..Len(g), i < j PROVE g[i] < g[j]
  <2>1. CASE j <= Len(d)
    <3>1. g[i] = d[i] /\ g[j] = d[j] /\ i \in 1..Len(d) /\ j \in 1..Len(d)
      BY <1>1, <1>3, <1>4, <2>1
    <3> QED BY <1>4, <3>1 DEF Lists
  <2>2. CASE i > Len(d)
    <3>1. /\ g[i] = e[i - Len(d)] /\ g[j] = e[j - Len(d)]
          /\ i - Len(d) \in 1..Len(e) /\ j - Len(d) \in 1..Len(e) /\ i - Len(d) < j - Len(d)
      BY <1>1, <1>3, <1>4, <2>2
    <3> QED BY <3>1 DEF Lists
  <2>3. CASE i <= Len(d) /\ j > Len(d)
    <3>1. g[i] = d[i] /\ g[j] = e[j - Len(d)] /\ i \in 1..Len(d) /\ j - Len(d) \in 1..Len(e)
      BY <1>1, <1>3, <1>4, <2>3
    <3> QED BY <1>1, <3>1
  <2> QED BY <1>1, <2>1, <2>2, <2>3
<1>5. ASSUME NEW x \in U PROVE \E i \in 1..Len(g) : g[i] = x
  <2>1. CASE x \in S
    <3>1. PICK i \in 1..Len(d) : d[i] = x
      BY <2>1 DEF Lists
    <3> QED BY <1>1, <1>3, <3>1, SMTT(30)
  <2>2. CASE x \in T
    <3>1. PICK i \in 1..Len(e) : e[i] = x
      BY <2>2 DEF Lists
    <3>2. Len(d) + i \in 1..Len(g) /\ ~(Len(d) + i <= Len(d)) /\ (Len(d) + i) - Len(d) = i
      BY <1>1, <1>3
    <3>3. g[Len(d) + i] = x
      BY <1>3, <3>1, <3>2
    <3> QED BY <3>2, <3>3
  <2> QED BY <2>1, <2>2
<1>6. Lists(g, U)
  BY <1>3, <1>4, <1>5 DEF Lists
<1> QED BY <1>6 DEF g

(* The same for Ascending.                                                 *)
LEMMA AscendingJoin ==
  ASSUME NEW m \in Nat, NEW S, NEW T, S \subseteq 1..m, T \subseteq 1..m, \A x \in S, y \in T : x < y
  PROVE  Ascending(S \cup T) = Ascending(S) \o Ascending(T)
<1>1. S \subseteq Nat /\ T \subseteq Nat
  OBVIOUS
<1>2. Lists(Ascending(S), S) /\ Lists(Ascending(T), T)
  BY AscendingLists
<1>3. Lists(Ascending(S) \o Ascending(T), S \cup T)
  BY <1>1, <1>2, ListsJoin
<1>4. S \cup T \subseteq Nat
  BY <1>1
<1> QED BY <1>3, <1>4, AscendingIs

(* The list of one number.                                                 *)
LEMMA AscendingOne ==
  ASSUME NEW x \in Nat
  PROVE  Ascending({x}) = <<x>>
<1>1. <<x>> \in Seq({x}) /\ Len(<<x>>) = 1 /\ <<x>>[1] = x
  OBVIOUS
<1>2. Lists(<<x>>, {x})
  BY <1>1 DEF Lists
<1>3. {x} \subseteq Nat
  OBVIOUS
<1> QED BY <1>2, <1>3, AscendingIs

(* The list of none.                                                       *)
LEMMA AscendingNone == Ascending({}) = <<>>
<1>1. Lists(<<>>, {})
  BY EmptySeq DEF Lists
<1> QED BY <1>1, AscendingIs

(* What Ascending of some places is.                                       *)
LEMMA AscendingType ==
  ASSUME NEW m \in Nat, NEW S, S \subseteq 1..m
  PROVE  /\ Ascending(S) \in Seq(S) /\ Len(Ascending(S)) \in Nat /\ Len(Ascending(S)) = Cardinality(S)
         /\ \A i \in 1..Len(Ascending(S)) : Ascending(S)[i] \in S /\ Ascending(S)[i] \in 1..m
         /\ \A i, j \in 1..Len(Ascending(S)) : i < j => Ascending(S)[i] < Ascending(S)[j]
         /\ \A x \in S : \E i \in 1..Len(Ascending(S)) : Ascending(S)[i] = x
         /\ S = {} <=> Ascending(S) = <<>>
         /\ IsFiniteSet(S)
<1>1. S \subseteq Nat /\ Lists(Ascending(S), S)
  <2>1. Lists(Ascending(S), S)
    BY AscendingLists
  <2> QED BY <2>1
<1> DEFINE e == Ascending(S)
<1> HIDE DEF e
<1>2. e \in Seq(S) /\ Len(e) \in Nat /\ Len(e) = Cardinality(S) /\ IsFiniteSet(S)
  BY <1>1, ListedType, ListedLength DEF e, Lists
<1>3. \A i \in 1..Len(e) : e[i] \in S /\ e[i] \in 1..m
  BY <1>1, ListedType DEF e
<1>4. \A i, j \in 1..Len(e) : i < j => e[i] < e[j]
  BY <1>1 DEF Lists, e
<1>5. \A x \in S : \E i \in 1..Len(e) : e[i] = x
  BY <1>1 DEF Lists, e
<1>6. S = {} => e = <<>>
  BY AscendingNone DEF e
<1>7. e = <<>> => S = {}
  <2>1. Len(<<>>) = 0
    OBVIOUS
  <2> QED BY <1>5, <2>1
<1> QED BY <1>2, <1>3, <1>4, <1>5, <1>6, <1>7 DEF e

(* The words of argv at the places in T. *)
Words(argv, T) == [k \in 1..Len(Ascending(T)) |-> argv[Ascending(T)[k]]]

(* The k-th of the words.                                                  *)
LEMMA WordAt ==
  \A argv, T : \A k \in 1..Len(Ascending(T)) : Words(argv, T)[k] = argv[Ascending(T)[k]]
BY DEF Words

(* The words at some places are words.                                     *)
LEMMA WordsType ==
  ASSUME NEW A, NEW argv \in Seq(A), NEW T, T \subseteq 1..Len(argv)
  PROVE  Words(argv, T) \in Seq(A) /\ Len(Words(argv, T)) = Len(Ascending(T))
<1> DEFINE e == Ascending(T)
           w == [k \in 1..Len(e) |-> argv[e[k]]]
<1>1. Len(argv) \in Nat
  BY LenProperties
<1>2. Len(e) \in Nat /\ \A i \in 1..Len(e) : e[i] \in 1..Len(argv)
  BY <1>1, AscendingType
<1> HIDE DEF e
<1>3. w \in [1..Len(e) -> A]
  BY <1>2, ElementOfSeq
<1>4. w \in Seq(A) /\ Len(w) = Len(e)
  BY <1>2, <1>3, SeqDef, LenProperties
<1> QED BY <1>4 DEF Words, e

(* The words at earlier places come before those at later places.          *)
LEMMA WordsJoin ==
  ASSUME NEW A, NEW argv \in Seq(A), NEW S, NEW T, S \subseteq 1..Len(argv), T \subseteq 1..Len(argv),
         \A x \in S, y \in T : x < y
  PROVE  Words(argv, S \cup T) = Words(argv, S) \o Words(argv, T)
<1> DEFINE d == Ascending(S)
           e == Ascending(T)
           u == Words(argv, S)
           v == Words(argv, T)
           w == Words(argv, S \cup T)
<1>1. Len(argv) \in Nat /\ S \cup T \subseteq 1..Len(argv)
  BY LenProperties
<1>2. Ascending(S \cup T) = d \o e
  BY <1>1, AscendingJoin, ZenonT(60)
<1>3. d \in Seq(Nat) /\ e \in Seq(Nat)
  <2>0. S \subseteq Nat /\ T \subseteq Nat
    OBVIOUS
  <2>1. d \in Seq(S) /\ e \in Seq(T)
    BY <1>1, AscendingType
  <2> HIDE DEF d, e
  <2>2. d \in [1..Len(d) -> Nat] /\ e \in [1..Len(e) -> Nat] /\ Len(d) \in Nat /\ Len(e) \in Nat
    BY <2>0, <2>1, LenProperties
  <2> QED BY <2>2, FunctionIsText
<1>4. /\ u \in Seq(A) /\ Len(u) = Len(d) /\ \A k \in 1..Len(d) : u[k] = argv[d[k]]
      /\ v \in Seq(A) /\ Len(v) = Len(e) /\ \A k \in 1..Len(e) : v[k] = argv[e[k]]
      /\ w \in Seq(A) /\ Len(w) = Len(d \o e) /\ \A k \in 1..Len(d \o e) : w[k] = argv[(d \o e)[k]]
  <2>1. \A X \in SUBSET (1..Len(argv)) :
           /\ Words(argv, X) \in Seq(A) /\ Len(Words(argv, X)) = Len(Ascending(X))
           /\ \A k \in 1..Len(Ascending(X)) : Words(argv, X)[k] = argv[Ascending(X)[k]]
    <3> TAKE X \in SUBSET (1..Len(argv))
    <3>1. X \subseteq 1..Len(argv)
      OBVIOUS
    <3>2. Words(argv, X) \in Seq(A) /\ Len(Words(argv, X)) = Len(Ascending(X))
      BY <3>1, WordsType
    <3>3. \A k \in 1..Len(Ascending(X)) : Words(argv, X)[k] = argv[Ascending(X)[k]]
      BY WordAt
    <3> QED BY <3>2, <3>3
  <2>2. S \in SUBSET (1..Len(argv)) /\ T \in SUBSET (1..Len(argv)) /\ S \cup T \in SUBSET (1..Len(argv))
    OBVIOUS
  <2>3. /\ u \in Seq(A) /\ Len(u) = Len(d) /\ \A k \in 1..Len(d) : u[k] = argv[d[k]]
        /\ v \in Seq(A) /\ Len(v) = Len(e) /\ \A k \in 1..Len(e) : v[k] = argv[e[k]]
    BY <2>1, <2>2
  <2>4. w \in Seq(A) /\ Len(w) = Len(d \o e) /\ \A k \in 1..Len(d \o e) : w[k] = argv[(d \o e)[k]]
    BY <1>2, <2>1, <2>2
  <2> QED BY <2>3, <2>4
<1> HIDE DEF d, e, u, v, w
<1>5. /\ Len(d) \in Nat /\ Len(e) \in Nat /\ Len(d \o e) = Len(d) + Len(e)
      /\ \A i \in 1 .. Len(d) + Len(e) : (d \o e)[i] = IF i <= Len(d) THEN d[i] ELSE e[i - Len(d)]
  BY <1>3, ConcatProperties, LenProperties
<1>6. /\ u \o v \in Seq(A) /\ Len(u \o v) = Len(d) + Len(e)
      /\ \A i \in 1 .. Len(d) + Len(e) : (u \o v)[i] = IF i <= Len(d) THEN u[i] ELSE v[i - Len(d)]
  <2>1. u \in Seq(A) /\ v \in Seq(A) /\ Len(u) = Len(d) /\ Len(v) = Len(e)
    BY <1>4
  <2>2. /\ u \o v \in Seq(A) /\ Len(u \o v) = Len(u) + Len(v)
        /\ \A i \in 1 .. Len(u) + Len(v) : (u \o v)[i] = IF i <= Len(u) THEN u[i] ELSE v[i - Len(u)]
    BY <2>1, ConcatProperties
  <2> QED BY <2>1, <2>2
<1>7. ASSUME NEW i \in 1 .. Len(d) + Len(e) PROVE w[i] = (u \o v)[i]
  <2>1. CASE i <= Len(d)
    BY <1>4, <1>5, <1>6, <2>1
  <2>2. CASE ~(i <= Len(d))
    <3>1. i - Len(d) \in 1..Len(e)
      BY <1>5, <2>2
    <3> QED BY <1>4, <1>5, <1>6, <2>2, <3>1
  <2> QED BY <2>1, <2>2
<1>8. w = u \o v
  BY <1>4, <1>5, <1>6, <1>7, SeqEqual
<1> QED BY <1>8 DEF u, v, w

FirstArg == [at |-> "-f", fs |-> <<>>, files |-> <<>>, i |-> 0]

(* The fold of ReadNewRange is the loop over the arguments.                *)
LEMMA ReadNewRangeIs ==
  ASSUME NEW A, NEW argv \in Seq(A)
  PROVE  ReadNewRange(argv) = Loop(<<"arg">>, FirstArg, argv)
<1>0. Len(argv) \in Nat /\ DOMAIN argv = 1..Len(argv)
  BY LenProperties
<1> DEFINE D == DOMAIN argv
           F(h) == [T \in SUBSET D |->
                      IF T = {} THEN FirstArg ELSE NewRangeArg(h[T \ {Max(T)}], argv[Max(T)])]
           G(h) == [T \in SUBSET (1..Len(argv)) |->
                      IF T = {} THEN FirstArg ELSE Step(<<"arg">>, h[T \ {Max(T)}], argv[Max(T)])]
           P(h) == h = F(h)
           d == CHOOSE h : P(h)
<1>1. ReadNewRange(argv) = d[D]
  BY DEF ReadNewRange, FoldLeft, MapThenFoldSet, FirstArg
<1>2. ASSUME NEW h PROVE P(h) <=> FoldsTo(<<"arg">>, FirstArg, argv, Len(argv), h)
  <2>1. \A T \in SUBSET D : F(h)[T] = G(h)[T]
    BY <1>0, Steps
  <2>2. F(h) = G(h)
    BY <1>0, <2>1
  <2> HIDE DEF F
  <2> QED BY <2>2 DEF FoldsTo
<1> HIDE DEF P
<1>3. \E h : P(h)
  BY <1>0, <1>2, FoldExists
<1>4. P(d)
  BY <1>3
<1> HIDE DEF d
<1>5. d[1..Len(argv)] = Loop(<<"arg">>, FirstArg, argv)
  BY <1>2, <1>4, LoopIs
<1> QED BY <1>0, <1>1, <1>5

(* The fold of Bo is the loop over the characters.                         *)
LEMMA BoIs ==
  ASSUME NEW A, NEW text \in Seq(A), NEW lines, NEW fp
  PROVE  Bo(lines, fp, text) = Loop(<<"char">>, ReadLines(lines, fp), text).lines
<1>0. Len(text) \in Nat /\ DOMAIN text = 1..Len(text)
  BY LenProperties
<1> DEFINE D == DOMAIN text
           F(h) == [T \in SUBSET D |->
                      IF T = {} THEN ReadLines(lines, fp) ELSE ReadChar(h[T \ {Max(T)}], text[Max(T)])]
           G(h) == [T \in SUBSET (1..Len(text)) |->
                      IF T = {} THEN ReadLines(lines, fp) ELSE Step(<<"char">>, h[T \ {Max(T)}], text[Max(T)])]
           P(h) == h = F(h)
           d == CHOOSE h : P(h)
<1>1. Bo(lines, fp, text) = d[D].lines
  BY DEF Bo, WriteLines, FoldLeft, MapThenFoldSet
<1>2. ASSUME NEW h PROVE P(h) <=> FoldsTo(<<"char">>, ReadLines(lines, fp), text, Len(text), h)
  <2>1. \A T \in SUBSET D : F(h)[T] = G(h)[T]
    BY <1>0, Steps
  <2>2. F(h) = G(h)
    BY <1>0, <2>1
  <2> HIDE DEF F
  <2> QED BY <2>2 DEF FoldsTo
<1> HIDE DEF P
<1>3. \E h : P(h)
  BY <1>0, <1>2, FoldExists
<1>4. P(d)
  BY <1>3
<1> HIDE DEF d
<1>5. d[1..Len(text)] = Loop(<<"char">>, ReadLines(lines, fp), text)
  BY <1>2, <1>4, LoopIs
<1> QED BY <1>0, <1>1, <1>5

-----------------------------------------------------------------------------
(* The arguments of -g                                                     *)

(* What the help wants of two neighbouring words. *)
IsWord(t, w) == t[1] = w

Goes(s, t) ==
    /\ s = Flag("-f") => IsWord(t, "file")
    /\ IsWord(s, "file") => IsWord(t, "file") \/ t = Flag("-r")
    /\ s = Flag("-r") => IsWord(t, "region")
    /\ IsWord(s, "region") => IsWord(t, "region") \/ t = Flag("-f")

IsNewArg(t) == t \in {Flag("-f"), Flag("-r")} \/ IsWord(t, "file") \/ IsWord(t, "region")

WellFormed(argv) ==
    /\ Len(argv) > 0 /\ argv[1] = Flag("-f") /\ IsWord(argv[Len(argv)], "region")
    /\ \A k \in 1..Len(argv) : IsNewArg(argv[k])
    /\ \A k \in 1 .. Len(argv) - 1 : Goes(argv[k], argv[k + 1])

(* The two flags of -g differ.                                             *)
LEMMA Flags ==
  /\ Flag("-f")[1] = "flag" /\ Flag("-r")[1] = "flag" /\ Flag("-f") # Flag("-r")
  /\ IsFlag(Flag("-f")) /\ IsFlag(Flag("-r"))
BY DEF Flag, IsFlag

(* A flag is the last flag, any other word has the last flag of the word   *)
(* before it.                                                              *)
LEMMA LastFlag ==
  ASSUME NEW argv, NEW k \in Nat
  PROVE  /\ IsFlag(argv[k + 1]) => FlagAt(argv, k + 1) = argv[k + 1]
         /\ ~IsFlag(argv[k + 1]) => FlagAt(argv, k + 1) = FlagAt(argv, k)
<1>1. ASSUME IsFlag(argv[k + 1]) PROVE FlagAt(argv, k + 1) = argv[k + 1]
  <2> DEFINE T == {j \in 1 .. k + 1 : IsFlag(argv[j])}
  <2>1. T \subseteq 1 .. k + 1 /\ k + 1 \in T
    BY <1>1
  <2> HIDE DEF T
  <2>2. Max(T) = k + 1
    BY <2>1, MaxWithLast
  <2> QED BY <2>2 DEF FlagAt, T
<1>2. ASSUME ~IsFlag(argv[k + 1]) PROVE FlagAt(argv, k + 1) = FlagAt(argv, k)
  <2>1. {j \in 1 .. k + 1 : IsFlag(argv[j])} = {j \in 1..k : IsFlag(argv[j])}
    BY <1>2
  <2> QED BY <2>1 DEF FlagAt
<1> QED BY <1>1, <1>2

(* What the help asks for, from word to word.                              *)
LEMMA DocumentedForm ==
  ASSUME NEW A, NEW argv \in Seq(A), DocumentedNew(argv)
  PROVE  WellFormed(argv)
<1> DEFINE N == Len(argv)
<1>1. N \in Nat /\ N > 0
  <2>1. N \in Nat /\ (N = 0 => argv = <<>>)
    BY LenProperties, EmptySeq
  <2> QED BY <2>1 DEF DocumentedNew
<1> HIDE DEF N
<1>2. /\ argv[1] = Flag("-f") /\ FlagAt(argv, N) = Flag("-r")
      /\ \A i \in 1..N : IsFlag(argv[i]) => i < N /\ ~IsFlag(argv[i + 1])
  BY DEF DocumentedNew, N
<1>3. \A i \in 1..N :
         CASE argv[i] = Flag("-f") -> i = 1 \/ FlagAt(argv, i - 1) = Flag("-r")
           [] argv[i] = Flag("-r") -> FlagAt(argv, i - 1) = Flag("-f")
           [] OTHER -> argv[i][1] = IF FlagAt(argv, i) = Flag("-f") THEN "file" ELSE "region"
  BY DEF DocumentedNew, N
<1>4. ASSUME NEW i \in 1..N
      PROVE  /\ argv[i] = Flag("-f") => i = 1 \/ FlagAt(argv, i - 1) = Flag("-r")
             /\ argv[i] = Flag("-r") => FlagAt(argv, i - 1) = Flag("-f")
             /\ argv[i] \notin {Flag("-f"), Flag("-r")} =>
                   argv[i][1] = IF FlagAt(argv, i) = Flag("-f") THEN "file" ELSE "region"
  BY <1>3, Flags
<1>5. ASSUME NEW i \in 1..N
      PROVE  /\ IsNewArg(argv[i])
             /\ IsFlag(argv[i]) <=> argv[i] \in {Flag("-f"), Flag("-r")}
             /\ FlagAt(argv, i) = Flag("-f") /\ ~IsFlag(argv[i]) => IsWord(argv[i], "file")
             /\ FlagAt(argv, i) # Flag("-f") /\ ~IsFlag(argv[i]) => IsWord(argv[i], "region")
             /\ IsWord(argv[i], "file") => FlagAt(argv, i) = Flag("-f") /\ ~IsFlag(argv[i])
             /\ IsWord(argv[i], "region") => FlagAt(argv, i) # Flag("-f") /\ ~IsFlag(argv[i])
  BY <1>4, Flags DEF IsNewArg, IsFlag, IsWord
<1>6. ASSUME NEW k \in 1 .. N - 1 PROVE Goes(argv[k], argv[k + 1])
  <2>1. k \in 1..N /\ k + 1 \in 1..N /\ k \in Nat /\ (k + 1) - 1 = k /\ k + 1 # 1 /\ k - 1 \in Nat /\ (k - 1) + 1 = k
    BY <1>1
  <2>2. IsFlag(argv[k]) => ~IsFlag(argv[k + 1])
    BY <1>2, <2>1
  <2>3. IsFlag(argv[k]) => FlagAt(argv, k) = argv[k]
    BY <2>1, LastFlag
  <2>4. ~IsFlag(argv[k + 1]) => FlagAt(argv, k + 1) = FlagAt(argv, k)
    BY <2>1, LastFlag
  <2>5. argv[k + 1] = Flag("-f") => FlagAt(argv, k) = Flag("-r") /\ ~IsFlag(argv[k])
    BY <1>4, <2>1, <2>2, Flags
  <2>6. argv[k + 1] = Flag("-r") => FlagAt(argv, k) = Flag("-f") /\ ~IsFlag(argv[k])
    BY <1>4, <2>1, <2>2, Flags
  <2>7. argv[k] = Flag("-f") => IsWord(argv[k + 1], "file")
    BY <1>5, <2>1, <2>2, <2>3, <2>4, Flags
  <2>8. argv[k] = Flag("-r") => IsWord(argv[k + 1], "region")
    BY <1>5, <2>1, <2>2, <2>3, <2>4, Flags
  <2>9. IsWord(argv[k], "file") => IsWord(argv[k + 1], "file") \/ argv[k + 1] = Flag("-r")
    BY <1>5, <2>1, <2>4, <2>5, Flags
  <2>10. IsWord(argv[k], "region") => IsWord(argv[k + 1], "region") \/ argv[k + 1] = Flag("-f")
    BY <1>5, <2>1, <2>4, <2>6, Flags
  <2> QED BY <2>7, <2>8, <2>9, <2>10 DEF Goes
<1>7. IsWord(argv[N], "region")
  BY <1>1, <1>2, <1>5, Flags
<1> QED BY <1>1, <1>2, <1>5, <1>6, <1>7 DEF WellFormed, N

-----------------------------------------------------------------------------
(* What opts has understood after k words. *)
FilesTo(argv, k) == {i \in 1..k : IsWord(argv[i], "file")}

Cut(argv, i, k) == \E j \in i..k : argv[j] = Flag("-f")

Old(argv, k) == {i \in FilesTo(argv, k) : Cut(argv, i, k)}
Cur(argv, k) == {i \in FilesTo(argv, k) : ~Cut(argv, i, k)}

RegionsOf(argv, p, k) ==
    {q \in 1..k : IsWord(argv[q], "region") /\ q > p /\ \A j \in p..q : argv[j] # Flag("-f")}

Entry(argv, p, k) == [file |-> argv[p], it |-> ListOf(Words(argv, RegionsOf(argv, p, k)))]

Table(argv, k) == [p \in 1..Len(argv) |-> Entry(argv, p, k)]

Entries(argv, T, k) == Words(Table(argv, k), T)

Proper(argv, T, k) ==
    /\ \A q \in 1..k : IsWord(argv[q], "region") => argv[q][2] < argv[q][3]
    /\ \A p, q \in T : p # q => argv[p] # argv[q]

(* Regions from one byte to another, none of which bridges a gap.          *)
Regular(argv) ==
    /\ \A q \in 1..Len(argv) : IsWord(argv[q], "region") => argv[q][2] \in Nat /\ argv[q][3] \in Nat
    /\ \A p \in FilesTo(argv, Len(argv)) :
          LET s == Words(argv, RegionsOf(argv, p, Len(argv))) IN \A i \in 1..Len(s) : ~Bridges(s, i)

State(at, fs, files, i) == [at |-> at, fs |-> fs, files |-> files, i |-> i]

Understood(argv, k, st) ==
    \E fs, i :
       LET w == argv[k]
           done == Entries(argv, Old(argv, k), k)
           all  == Entries(argv, FilesTo(argv, k), k) IN
       /\ i \in Nat
       /\ w = Flag("-f") => /\ st = State("first", fs, done, i)
                            /\ Proper(argv, Old(argv, k), k)
       /\ w # Flag("-f") => i # 0 /\ fs = Words(argv, Cur(argv, k))
       /\ IsWord(w, "file") \/ w = Flag("-r") =>
             /\ st = State(IF w = Flag("-r") THEN "apply" ELSE "files", fs, done, i)
             /\ Proper(argv, Old(argv, k), k)
             /\ \A p \in Cur(argv, k) : RegionsOf(argv, p, k) = {}
       /\ IsWord(w, "region") => /\ st = State("regions", fs, all, i)
                                 /\ Proper(argv, FilesTo(argv, k), k)

Reading(argv, k, st) ==
    \/ st.at = "err" /\ ~Proper(argv, FilesTo(argv, Len(argv)), Len(argv))
    \/ Understood(argv, k, st)

(* A word is a flag, a file or a region.                                   *)
LEMMA WordForms ==
  ASSUME NEW t
  PROVE  /\ IsWord(t, "file") => t # Flag("-f") /\ t # Flag("-r") /\ ~IsWord(t, "region") /\ ~IsFlag(t)
         /\ IsWord(t, "region") => t # Flag("-f") /\ t # Flag("-r") /\ ~IsFlag(t)
BY Flags DEF IsWord, IsFlag

(* Old and current files.                                                  *)
LEMMA PlacesBasics ==
  ASSUME NEW argv, NEW k \in Nat
  PROVE  /\ FilesTo(argv, k) = Old(argv, k) \cup Cur(argv, k)
         /\ Old(argv, k) \subseteq FilesTo(argv, k) /\ Cur(argv, k) \subseteq FilesTo(argv, k)
         /\ FilesTo(argv, k) \subseteq 1..k
         /\ \A x \in Old(argv, k), y \in Cur(argv, k) : x < y
         /\ argv[k] = Flag("-f") => Cur(argv, k) = {} /\ Old(argv, k) = FilesTo(argv, k)
         /\ \A p : RegionsOf(argv, p, k) \subseteq 1..k
<1>1. ASSUME NEW x \in Old(argv, k), NEW y \in Cur(argv, k) PROVE x < y
  <2>1. x \in 1..k /\ y \in 1..k
    BY DEF Old, Cur, FilesTo
  <2>2. PICK j \in x..k : argv[j] = Flag("-f")
    BY DEF Old, Cut
  <2>3. ~(j \in y..k)
    BY <2>2 DEF Cur, Cut
  <2> QED BY <2>1, <2>2, <2>3
<1>2. ASSUME argv[k] = Flag("-f") PROVE Cur(argv, k) = {} /\ Old(argv, k) = FilesTo(argv, k)
  <2>1. \A i \in FilesTo(argv, k) : Cut(argv, i, k)
    BY <1>2 DEF Cut, FilesTo
  <2> QED BY <2>1 DEF Cur, Old
<1>3. /\ FilesTo(argv, k) = Old(argv, k) \cup Cur(argv, k)
      /\ Old(argv, k) \subseteq FilesTo(argv, k) /\ Cur(argv, k) \subseteq FilesTo(argv, k)
      /\ FilesTo(argv, k) \subseteq 1..k
  BY DEF Old, Cur, FilesTo
<1>4. \A p : RegionsOf(argv, p, k) \subseteq 1..k
  BY DEF RegionsOf
<1> QED BY <1>1, <1>2, <1>3, <1>4

(* How one more word changes these.                                        *)
LEMMA PlacesGrow ==
  ASSUME NEW argv, NEW k \in Nat
  PROVE  /\ argv[k + 1] = Flag("-f") => /\ Old(argv, k + 1) = FilesTo(argv, k)
                                        /\ Cur(argv, k + 1) = {}
         /\ argv[k + 1] # Flag("-f") => /\ Old(argv, k + 1) = Old(argv, k)
                                        /\ Cur(argv, k + 1) = IF IsWord(argv[k + 1], "file")
                                                              THEN Cur(argv, k) \cup {k + 1}
                                                              ELSE Cur(argv, k)
         /\ FilesTo(argv, k + 1) = IF IsWord(argv[k + 1], "file") THEN FilesTo(argv, k) \cup {k + 1}
                                   ELSE FilesTo(argv, k)
<1>1. FilesTo(argv, k + 1) = IF IsWord(argv[k + 1], "file") THEN FilesTo(argv, k) \cup {k + 1}
                             ELSE FilesTo(argv, k)
  BY DEF FilesTo
<1>2. ASSUME argv[k + 1] = Flag("-f")
      PROVE  Old(argv, k + 1) = FilesTo(argv, k) /\ Cur(argv, k + 1) = {}
  <2>1. FilesTo(argv, k + 1) = FilesTo(argv, k)
    BY <1>1, <1>2, WordForms
  <2> QED BY <1>2, <2>1, PlacesBasics
<1>3. ASSUME argv[k + 1] # Flag("-f")
      PROVE  /\ Old(argv, k + 1) = Old(argv, k)
             /\ Cur(argv, k + 1) = IF IsWord(argv[k + 1], "file") THEN Cur(argv, k) \cup {k + 1} ELSE Cur(argv, k)
  <2>1. \A i \in 1..k : Cut(argv, i, k + 1) <=> Cut(argv, i, k)
    <3> TAKE i \in 1..k
    <3>1. \A j : j \in i .. k + 1 <=> j \in i..k \/ j = k + 1
      OBVIOUS
    <3> QED BY <1>3, <3>1 DEF Cut
  <2>2. ~Cut(argv, k + 1, k + 1)
    BY <1>3 DEF Cut
  <2>3. FilesTo(argv, k) \subseteq 1..k
    BY DEF FilesTo
  <2>4. CASE IsWord(argv[k + 1], "file")
    BY <1>1, <2>1, <2>2, <2>3, <2>4 DEF Old, Cur
  <2>5. CASE ~IsWord(argv[k + 1], "file")
    BY <1>1, <2>1, <2>3, <2>5 DEF Old, Cur
  <2> QED BY <2>4, <2>5
<1> QED BY <1>1, <1>2, <1>3

(* A region is one more for the files of its own pair of flags only.       *)
LEMMA RegionsGrow ==
  ASSUME NEW argv, NEW k \in Nat, NEW p \in 1..k
  PROVE  /\ ~IsWord(argv[k + 1], "region") => RegionsOf(argv, p, k + 1) = RegionsOf(argv, p, k)
         /\ Cut(argv, p, k) => RegionsOf(argv, p, k + 1) = RegionsOf(argv, p, k)
         /\ ~Cut(argv, p, k) /\ IsWord(argv[k + 1], "region") =>
               RegionsOf(argv, p, k + 1) = RegionsOf(argv, p, k) \cup {k + 1}
<1> DEFINE In(q) == IsWord(argv[q], "region") /\ q > p /\ \A j \in p..q : argv[j] # Flag("-f")
<1>1. RegionsOf(argv, p, k + 1) = IF In(k + 1) THEN RegionsOf(argv, p, k) \cup {k + 1} ELSE RegionsOf(argv, p, k)
  BY DEF RegionsOf
<1>2. ~IsWord(argv[k + 1], "region") => ~In(k + 1)
  OBVIOUS
<1>3. Cut(argv, p, k) => ~In(k + 1)
  BY DEF Cut
<1>4. ~Cut(argv, p, k) /\ IsWord(argv[k + 1], "region") => In(k + 1)
  <2>1. \A j : j \in p .. k + 1 => j \in p..k \/ j = k + 1
    OBVIOUS
  <2> QED BY <2>1, WordForms DEF Cut
<1> QED BY <1>1, <1>2, <1>3, <1>4

(* The entries of all places are a sequence.                               *)
LEMMA TableType ==
  ASSUME NEW argv, Len(argv) \in Nat, NEW k
  PROVE  LET S == {Entry(argv, p, k) : p \in 1..Len(argv)} IN
         Table(argv, k) \in Seq(S) /\ Len(Table(argv, k)) = Len(argv)
<1> DEFINE S == {Entry(argv, p, k) : p \in 1..Len(argv)}
<1>1. Table(argv, k) \in [1..Len(argv) -> S]
  BY DEF Table
<1> HIDE DEF S
<1>2. Table(argv, k) \in Seq(S) /\ Len(Table(argv, k)) = Len(argv)
  BY <1>1, FunctionIsText
<1> QED BY <1>2 DEF S

(* Entries depend on the regions of their files only.                      *)
LEMMA EntriesSame ==
  ASSUME NEW argv, NEW k, NEW l, Len(argv) \in Nat, NEW T, T \subseteq 1..Len(argv),
         \A p \in T : RegionsOf(argv, p, k) = RegionsOf(argv, p, l)
  PROVE  Entries(argv, T, k) = Entries(argv, T, l)
<1> DEFINE e == Ascending(T)
<1>1. Len(e) \in Nat /\ \A i \in 1..Len(e) : e[i] \in T
  BY AscendingType
<1> HIDE DEF e
<1>2. \A i \in 1..Len(e) : Table(argv, k)[e[i]] = Table(argv, l)[e[i]]
  <2> TAKE i \in 1..Len(e)
  <2>1. e[i] \in T /\ e[i] \in 1..Len(argv)
    BY <1>1
  <2>2. Entry(argv, e[i], k) = Entry(argv, e[i], l)
    BY <2>1 DEF Entry
  <2> QED BY <2>1, <2>2 DEF Table
<1>3. Entries(argv, T, k) = [i \in 1..Len(e) |-> Table(argv, k)[e[i]]]
  BY DEF Entries, Words, e
<1>4. Entries(argv, T, l) = [i \in 1..Len(e) |-> Table(argv, l)[e[i]]]
  BY DEF Entries, Words, e
<1> QED BY <1>2, <1>3, <1>4

(* The entries of earlier files come before those of later files.          *)
LEMMA EntriesJoin ==
  ASSUME NEW argv, NEW k, Len(argv) \in Nat, NEW S, NEW T, S \subseteq 1..Len(argv), T \subseteq 1..Len(argv),
         \A x \in S, y \in T : x < y
  PROVE  Entries(argv, S \cup T, k) = Entries(argv, S, k) \o Entries(argv, T, k)
<1>1. \E X : Table(argv, k) \in Seq(X) /\ Len(Table(argv, k)) = Len(argv)
  BY TableType
<1> QED BY <1>1, WordsJoin DEF Entries

(* There is one entry for each file.                                       *)
LEMMA EntriesLen ==
  ASSUME NEW argv, NEW k, Len(argv) \in Nat, NEW T, T \subseteq 1..Len(argv)
  PROVE  /\ Len(Entries(argv, T, k)) = Len(Ascending(T)) /\ Len(Ascending(T)) \in Nat
         /\ \A i \in 1..Len(Ascending(T)) : Entries(argv, T, k)[i] = Entry(argv, Ascending(T)[i], k)
         /\ \E X : Entries(argv, T, k) \in Seq(X)
<1>1. PICK X : Table(argv, k) \in Seq(X) /\ Len(Table(argv, k)) = Len(argv)
  BY TableType
<1>2. Entries(argv, T, k) \in Seq(X) /\ Len(Entries(argv, T, k)) = Len(Ascending(T))
  BY <1>1, WordsType DEF Entries
<1>3. Len(Ascending(T)) \in Nat /\ \A i \in 1..Len(Ascending(T)) : Ascending(T)[i] \in 1..Len(argv)
  BY AscendingType
<1>4. \A i \in 1..Len(Ascending(T)) : Entries(argv, T, k)[i] = Table(argv, k)[Ascending(T)[i]]
  BY WordAt DEF Entries
<1>5. \A p \in 1..Len(argv) : Table(argv, k)[p] = Entry(argv, p, k)
  BY DEF Table
<1> QED BY <1>2, <1>3, <1>4, <1>5

(* One word.                                                               *)
LEMMA WordsOne ==
  ASSUME NEW argv, NEW x \in Nat
  PROVE  Words(argv, {x}) = <<argv[x]>>
<1>1. Ascending({x}) = <<x>>
  BY AscendingOne
<1>2. Words(argv, {x}) = [k \in 1..Len(<<x>>) |-> argv[<<x>>[k]]]
  BY <1>1 DEF Words
<1> QED BY <1>2

(* No word.                                                                *)
LEMMA WordsNone ==
  ASSUME NEW argv
  PROVE  Words(argv, {}) = <<>>
<1>1. Words(argv, {}) = [k \in 1..Len(<<>>) |-> argv[<<>>[k]]]
  BY AscendingNone DEF Words
<1> QED BY <1>1

(* One more word, after the others.                                        *)
LEMMA WordsAppend ==
  ASSUME NEW A, NEW argv \in Seq(A), NEW x \in 1..Len(argv), NEW S, S \subseteq 1 .. x - 1
  PROVE  Words(argv, S \cup {x}) = Append(Words(argv, S), argv[x])
<1>1. Len(argv) \in Nat /\ x \in Nat
  BY LenProperties
<1>2. S \subseteq 1..Len(argv) /\ {x} \subseteq 1..Len(argv) /\ \A y \in S, z \in {x} : y < z
  BY <1>1
<1>3. Words(argv, S \cup {x}) = Words(argv, S) \o Words(argv, {x})
  BY <1>2, WordsJoin
<1>4. Words(argv, {x}) = <<argv[x]>>
  BY <1>1, WordsOne
<1>5. Words(argv, S) \in Seq(A) /\ argv[x] \in A
  BY <1>2, WordsType, ElementOfSeq
<1> QED BY <1>3, <1>4, <1>5, AppendIsConcat

(* The regions of a file up to any word are as the help has them.          *)
LEMMA RegularTo ==
  ASSUME NEW A, NEW argv \in Seq(A), Regular(argv), NEW k \in 1..Len(argv), NEW p \in FilesTo(argv, k),
         \A q \in 1..k : IsWord(argv[q], "region") => argv[q][2] < argv[q][3]
  PROVE  LET s == Words(argv, RegionsOf(argv, p, k)) IN
         s \in Seq(A) /\ \A i \in 1..Len(s) : Sound(s[i]) /\ ~Bridges(s, i)
<1> DEFINE N == Len(argv)
           R == RegionsOf(argv, p, k)
           L == {q \in RegionsOf(argv, p, N) : q > k}
           s == Words(argv, R)
           g == Words(argv, RegionsOf(argv, p, N))
<1>0. N \in Nat /\ k \in 1..N /\ p \in FilesTo(argv, N) /\ k \in Nat
  BY LenProperties DEF FilesTo
<1>1. RegionsOf(argv, p, N) = R \cup L /\ R \subseteq 1..k /\ R \subseteq 1..N /\ L \subseteq 1..N
      /\ \A x \in R, y \in L : x < y
  BY <1>0 DEF RegionsOf
<1>2. g = s \o Words(argv, L)
  <2>1. \A S, T : S = R /\ T = L => Words(argv, S \cup T) = Words(argv, S) \o Words(argv, T)
    <3> SUFFICES ASSUME NEW S, NEW T, S = R, T = L
                 PROVE  Words(argv, S \cup T) = Words(argv, S) \o Words(argv, T)
      OBVIOUS
    <3>1. S \subseteq 1..N /\ T \subseteq 1..N /\ \A x \in S, y \in T : x < y
      BY <1>1
    <3> QED BY <3>1, WordsJoin
  <2> QED BY <1>1, <2>1
<1>3. s \in Seq(A) /\ Words(argv, L) \in Seq(A)
  BY <1>1, WordsType
<1>4. /\ Len(s) \in Nat /\ Len(s) = Len(Ascending(R))
      /\ \A i \in 1..Len(s) : Ascending(R)[i] \in R /\ s[i] = argv[Ascending(R)[i]]
  <2>1. Len(s) = Len(Ascending(R))
    BY <1>1, WordsType
  <2>2. Len(Ascending(R)) \in Nat /\ \A i \in 1..Len(Ascending(R)) : Ascending(R)[i] \in R
    BY <1>0, <1>1, AscendingType
  <2>3. \A i \in 1..Len(Ascending(R)) : s[i] = argv[Ascending(R)[i]]
    BY WordAt
  <2> QED BY <2>1, <2>2, <2>3
<1>5. \A i \in 1..Len(g) : ~Bridges(g, i)
  BY <1>0 DEF Regular
<1> HIDE DEF s, g, R, L, N
<1>6. Len(s) <= Len(g) /\ Len(g) \in Nat /\ \A i \in 1..Len(s) : s[i] = g[i]
  BY <1>2, <1>3, <1>4, ConcatProperties, LenProperties
<1>7. ASSUME NEW i \in 1..Len(s) PROVE Sound(s[i]) /\ ~Bridges(s, i)
  <2>1. Ascending(R)[i] \in RegionsOf(argv, p, k) /\ s[i] = argv[Ascending(R)[i]]
    BY <1>4 DEF R
  <2>2. Ascending(R)[i] \in 1..k /\ Ascending(R)[i] \in 1..Len(argv) /\ IsWord(argv[Ascending(R)[i]], "region")
    BY <1>0, <2>1 DEF RegionsOf, N
  <2>3. Sound(s[i])
    BY <2>1, <2>2 DEF Sound, Regular
  <2>4. i \in 1..Len(g) /\ i \in 0..Len(s) /\ i # 0
    BY <1>4, <1>6
  <2>5. Bridges(s, i) <=> Bridges(g, i)
    BY <1>4, <1>6, <2>4, SamePrefix
  <2> QED BY <1>5, <2>3, <2>4, <2>5
<1> QED BY <1>3, <1>7 DEF s, R

(* AddRegion gives the region to the files of this pair and to no others.  *)
LEMMA RegionAdded ==
  ASSUME NEW A, NEW argv \in Seq(A), NEW k \in 1 .. Len(argv) - 1, IsWord(argv[k + 1], "region"),
         Regular(argv), \A q \in 1 .. k + 1 : IsWord(argv[q], "region") => argv[q][2] < argv[q][3],
         NEW at, NEW i
  PROVE  AddRegion(State(at, Words(argv, Cur(argv, k)), Entries(argv, FilesTo(argv, k), k), i), argv[k + 1])
           = State(at, Words(argv, Cur(argv, k)), Entries(argv, FilesTo(argv, k + 1), k + 1), i)
<1> DEFINE fs == Words(argv, Cur(argv, k))
           F == Entries(argv, FilesTo(argv, k), k)
           G == Entries(argv, FilesTo(argv, k + 1), k + 1)
           d == Ascending(Old(argv, k))
           e == Ascending(Cur(argv, k))
           a == Ascending(FilesTo(argv, k))
           st == State(at, fs, F, i)
           t == argv[k + 1]
<1>0. Len(argv) \in Nat /\ k \in Nat /\ k + 1 \in 1..Len(argv) /\ t \in A
  BY LenProperties, ElementOfSeq
<1>1. /\ Old(argv, k) \subseteq 1..k /\ Cur(argv, k) \subseteq 1..k /\ FilesTo(argv, k) \subseteq 1..k
      /\ FilesTo(argv, k) = Old(argv, k) \cup Cur(argv, k)
      /\ \A x \in Old(argv, k), y \in Cur(argv, k) : x < y
  BY <1>0, PlacesBasics
<1>2. Old(argv, k) \subseteq 1..Len(argv) /\ Cur(argv, k) \subseteq 1..Len(argv) /\ FilesTo(argv, k) \subseteq 1..Len(argv)
  BY <1>0, <1>1
<1>3. FilesTo(argv, k + 1) = FilesTo(argv, k)
  BY <1>0, PlacesGrow, WordForms
<1>4. a = d \o e
  BY <1>0, <1>1, AscendingJoin, ZenonT(60)
<1>5. /\ Len(d) \in Nat /\ \A j \in 1..Len(d) : d[j] \in Old(argv, k)
      /\ Len(e) \in Nat /\ \A j \in 1..Len(e) : e[j] \in Cur(argv, k)
      /\ d \in Seq(Old(argv, k)) /\ e \in Seq(Cur(argv, k))
  BY <1>0, <1>1, AscendingType
<1>6. Len(fs) = Len(e)
  BY <1>2, WordsType
<1>7. /\ Len(F) = Len(a) /\ \A j \in 1..Len(a) : F[j] = Entry(argv, a[j], k)
      /\ Len(G) = Len(a) /\ \A j \in 1..Len(a) : G[j] = Entry(argv, a[j], k + 1)
  BY <1>0, <1>2, <1>3, EntriesLen
<1>8. G = [j \in 1..Len(a) |-> G[j]]
  <2>1. G = [j \in 1..Len(a) |-> Table(argv, k + 1)[a[j]]]
    BY <1>3 DEF Entries, Words
  <2> QED BY <2>1
<1> HIDE DEF d, e, a
<1>9. /\ Len(a) = Len(d) + Len(e) /\ \A j \in 1..Len(a) : j <= Len(d) => a[j] = d[j]
      /\ \A j \in 1..Len(a) : j > Len(d) => a[j] = e[j - Len(d)]
  <2>1. d \in [1..Len(d) -> 1..k] /\ e \in [1..Len(e) -> 1..k]
    BY <1>1, <1>5
  <2>2. d \in Seq(1..k) /\ e \in Seq(1..k)
    BY <1>5, <2>1, FunctionIsText
  <2> QED BY <1>4, <1>5, <2>2, ConcatProperties
<1>10. ASSUME NEW j \in 1..Len(a)
       PROVE  /\ G[j] = IF j > Len(F) - Len(fs) THEN WithRegion(F[j], t) ELSE F[j]
              /\ j > Len(F) - Len(fs) => ~FreesTwice(F[j].it, Interval(t))
  <2>1. CASE j <= Len(d)
    <3>1. a[j] \in Old(argv, k) /\ a[j] \in 1..k
      <4>1. j \in 1..Len(d) /\ a[j] = d[j]
        BY <1>5, <1>9, <2>1
      <4>2. d[j] \in Old(argv, k)
        BY <1>5, <4>1
      <4> QED BY <1>1, <4>1, <4>2
    <3>2. RegionsOf(argv, a[j], k + 1) = RegionsOf(argv, a[j], k)
      BY <1>0, <3>1, RegionsGrow DEF Old
    <3>3. Entry(argv, a[j], k + 1) = Entry(argv, a[j], k)
      BY <3>2 DEF Entry
    <3>4. ~(j > Len(F) - Len(fs))
      BY <1>5, <1>6, <1>7, <1>9, <2>1
    <3> QED BY <1>7, <3>3, <3>4
  <2>2. CASE j > Len(d)
    <3>1. j - Len(d) \in 1..Len(e)
      BY <1>5, <1>9, <2>2
    <3>2. a[j] \in Cur(argv, k) /\ a[j] \in 1..k
      BY <1>1, <1>5, <1>9, <2>2, <3>1
    <3>3. RegionsOf(argv, a[j], k + 1) = RegionsOf(argv, a[j], k) \cup {k + 1}
      BY <1>0, <3>2, RegionsGrow DEF Cur
    <3>4. RegionsOf(argv, a[j], k) \subseteq 1 .. (k + 1) - 1
      BY <1>0, PlacesBasics
    <3>5. Words(argv, RegionsOf(argv, a[j], k + 1)) = Append(Words(argv, RegionsOf(argv, a[j], k)), t)
      BY <1>0, <3>3, <3>4, WordsAppend
    <3>6. j > Len(F) - Len(fs)
      BY <1>5, <1>6, <1>7, <1>9, <2>2
    <3> DEFINE s == Words(argv, RegionsOf(argv, a[j], k))
    <3>7. s \in Seq(A) /\ Append(s, t) = Words(argv, RegionsOf(argv, a[j], k + 1))
      <4>1. RegionsOf(argv, a[j], k) \subseteq 1..Len(argv)
        BY <1>0, <3>4
      <4> QED BY <3>5, <4>1, WordsType
    <3>8. \A n \in 1..Len(Append(s, t)) : Sound(Append(s, t)[n]) /\ ~Bridges(Append(s, t), n)
      <4>1. a[j] \in FilesTo(argv, k + 1)
        BY <1>1, <1>3, <3>2
      <4> HIDE DEF s
      <4>2. LET g == Words(argv, RegionsOf(argv, a[j], k + 1)) IN
            \A n \in 1..Len(g) : Sound(g[n]) /\ ~Bridges(g, n)
        BY <1>0, <4>1, RegularTo
      <4> QED BY <3>7, <4>2
    <3> HIDE DEF s
    <3>9. ~FreesTwice(ListOf(s), Interval(t)) /\ ListOf(Append(s, t)) = ItInsertNew(ListOf(s), Interval(t))
      BY <1>0, <3>7, <3>8, LastFits, ListAppend
    <3>10. Entry(argv, a[j], k) = [file |-> argv[a[j]], it |-> ListOf(s)]
      BY DEF Entry, s
    <3>11. Entry(argv, a[j], k + 1) = [file |-> argv[a[j]], it |-> ItInsertNew(ListOf(s), Interval(t))]
      BY <3>7, <3>9 DEF Entry
    <3>12. WithRegion(Entry(argv, a[j], k), t) = Entry(argv, a[j], k + 1)
      <4>1. \A x, y, u : [[file |-> x, it |-> y] EXCEPT !.it = u] = [file |-> x, it |-> u]
        OBVIOUS
      <4>2. \A x, y : WithRegion([file |-> x, it |-> y], t) = [file |-> x, it |-> ItInsertNew(y, Interval(t))]
        BY <4>1 DEF WithRegion
      <4> QED BY <3>10, <3>11, <4>2
    <3>13. F[j].it = ListOf(s)
      BY <1>7, <3>10
    <3> QED BY <1>7, <3>6, <3>9, <3>12, <3>13
  <2> QED BY <1>5, <1>9, <2>1, <2>2
<1> HIDE DEF F, G, fs
<1>11. G = [j \in 1..Len(F) |-> IF j > Len(F) - Len(fs) THEN WithRegion(F[j], t) ELSE F[j]]
  BY <1>7, <1>8, <1>10
<1>12. st.files = F /\ st.fs = fs
  BY DEF State
<1>13. AddRegion(st, t) = [st EXCEPT !.files =
         [j \in 1..Len(F) |-> IF j > Len(F) - Len(fs) THEN WithRegion(F[j], t) ELSE F[j]]]
  <2> DEFINE H(x, P) == [j \in 1..Len(x) |-> IF j \in P THEN WithRegion(x[j], t) ELSE x[j]]
             pair == Len(F) - Len(fs) + 1 .. Len(F)
  <2>0. OfThisPair(st) = pair
    BY <1>12 DEF OfThisPair
  <2>1. \A j : j \in pair <=> j \in 1..Len(F) /\ j > Len(F) - Len(fs)
    BY <1>5, <1>6, <1>7, <1>9
  <2> HIDE DEF pair, st
  <2>2. ~\E j \in OfThisPair(st) : FreesTwice(st.files[j].it, Interval(t))
    BY <1>7, <1>10, <1>12, <2>0, <2>1
  <2>3. AddRegion(st, t) = [st EXCEPT !.files = H(st.files, OfThisPair(st))]
    BY <2>2 DEF AddRegion
  <2> HIDE DEF H
  <2>4. AddRegion(st, t) = [st EXCEPT !.files = H(F, pair)]
    BY <1>12, <2>0, <2>3
  <2>5. H(F, pair) = [j \in 1..Len(F) |-> IF j > Len(F) - Len(fs) THEN WithRegion(F[j], t) ELSE F[j]]
    BY <2>1 DEF H
  <2> QED BY <2>4, <2>5
<1>14. AddRegion(st, t) = State(at, fs, G, i)
  BY <1>11, <1>13 DEF State
<1> QED BY <1>14 DEF F, G, fs

(* AddFiles takes the files of this pair in, unless one is named twice.    *)
LEMMA FilesAdded ==
  ASSUME NEW A, NEW argv \in Seq(A), NEW k \in 1..Len(argv), NEW at, NEW i, NEW next,
         \A p \in Cur(argv, k) : RegionsOf(argv, p, k) = {},
         Len(Ascending(FilesTo(argv, Len(argv)))) <= A_LIST_INIT_LEN
  PROVE  LET fs == Words(argv, Cur(argv, k))
             all == Entries(argv, FilesTo(argv, k), k)
             twice == \E p, q \in FilesTo(argv, k) : p # q /\ argv[p] = argv[q] IN
         AddFiles(State(at, fs, Entries(argv, Old(argv, k), k), i), next)
           = IF twice THEN State("err", fs, Entries(argv, Old(argv, k), k), i)
             ELSE State(next, fs, all, i + 1)
<1> DEFINE fs == Words(argv, Cur(argv, k))
           old == Entries(argv, Old(argv, k), k)
           all == Entries(argv, FilesTo(argv, k), k)
           twice == \E p, q \in FilesTo(argv, k) : p # q /\ argv[p] = argv[q]
           a == Ascending(FilesTo(argv, k))
           e == Ascending(Cur(argv, k))
           st == State(at, fs, old, i)
           new == [n \in 1..Len(fs) |-> NewFile(fs[n])]
<1>0. Len(argv) \in Nat /\ k \in Nat
  BY LenProperties
<1>1. /\ Old(argv, k) \subseteq 1..k /\ Cur(argv, k) \subseteq 1..k /\ FilesTo(argv, k) \subseteq 1..k
      /\ FilesTo(argv, k) = Old(argv, k) \cup Cur(argv, k)
      /\ \A x \in Old(argv, k), y \in Cur(argv, k) : x < y
  BY <1>0, PlacesBasics
<1>2. Old(argv, k) \subseteq 1..Len(argv) /\ Cur(argv, k) \subseteq 1..Len(argv) /\ FilesTo(argv, k) \subseteq 1..Len(argv)
  BY <1>0, <1>1
<1>3. new = Entries(argv, Cur(argv, k), k)
  <2>1. Len(e) \in Nat /\ \A n \in 1..Len(e) : e[n] \in Cur(argv, k) /\ e[n] \in 1..Len(argv)
    BY <1>0, <1>2, AscendingType
  <2>2. Len(fs) = Len(e) /\ \A n \in 1..Len(e) : fs[n] = argv[e[n]]
    BY <1>2, WordsType, WordAt
  <2>3. Entries(argv, Cur(argv, k), k) = [n \in 1..Len(e) |-> Table(argv, k)[e[n]]]
    BY DEF Entries, Words
  <2> HIDE DEF e, fs
  <2>4. ASSUME NEW n \in 1..Len(e) PROVE Table(argv, k)[e[n]] = NewFile(fs[n])
    <3>1. Table(argv, k)[e[n]] = Entry(argv, e[n], k)
      BY <2>1 DEF Table
    <3>2. Entry(argv, e[n], k) = [file |-> argv[e[n]], it |-> {}]
      BY <2>1, WordsNone, ListEmpty DEF Entry
    <3> QED BY <2>2, <3>1, <3>2 DEF NewFile
  <2> QED BY <2>2, <2>3, <2>4
<1>4. old \o new = all
  <2>1. Entries(argv, Old(argv, k) \cup Cur(argv, k), k) = old \o Entries(argv, Cur(argv, k), k)
    <3>1. \A S, T : (S = Old(argv, k) /\ T = Cur(argv, k)) =>
             Entries(argv, S \cup T, k) = Entries(argv, S, k) \o Entries(argv, T, k)
      <4> SUFFICES ASSUME NEW S, NEW T, S = Old(argv, k), T = Cur(argv, k)
                   PROVE  Entries(argv, S \cup T, k) = Entries(argv, S, k) \o Entries(argv, T, k)
        OBVIOUS
      <4>1. S \subseteq 1..Len(argv) /\ T \subseteq 1..Len(argv) /\ \A x \in S, y \in T : x < y
        BY <1>1, <1>2
      <4> QED BY <1>0, <4>1, EntriesJoin, ZenonT(60)
    <3> QED BY <3>1
  <2> QED BY <1>1, <1>3, <2>1
<1>5. /\ Len(all) = Len(a) /\ Len(a) \in Nat /\ \A n \in 1..Len(a) : all[n] = Entry(argv, a[n], k)
  BY <1>0, <1>2, EntriesLen
<1>6. /\ \A n \in 1..Len(a) : a[n] \in FilesTo(argv, k)
      /\ \A m, n \in 1..Len(a) : m < n => a[m] < a[n]
      /\ \A x \in FilesTo(argv, k) : \E n \in 1..Len(a) : a[n] = x
  BY <1>0, <1>1, AscendingType
<1>7. Repeated(all) <=> twice
  <2>1. \A n \in 1..Len(a) : all[n].file = argv[a[n]]
    <3>1. \A p : Entry(argv, p, k).file = argv[p]
      BY DEF Entry
    <3> QED BY <1>5, <3>1
  <2> HIDE DEF a, all
  <2>2. ASSUME Repeated(all) PROVE twice
    <3>1. PICK m \in 1..Len(a), n \in 1..Len(a) : m < n /\ all[m].file = all[n].file
      BY <1>5, <2>2 DEF Repeated
    <3>2. a[m] < a[n] /\ a[m] \in FilesTo(argv, k) /\ a[n] \in FilesTo(argv, k)
      BY <1>6, <3>1
    <3>3. a[m] # a[n]
      BY <1>1, <3>2
    <3> QED BY <2>1, <3>1, <3>2, <3>3
  <2>3. ASSUME twice PROVE Repeated(all)
    <3>1. PICK p \in FilesTo(argv, k), q \in FilesTo(argv, k) : p # q /\ argv[p] = argv[q]
      BY <2>3
    <3>2. PICK m \in 1..Len(a) : a[m] = p
      BY <1>6
    <3>3. PICK n \in 1..Len(a) : a[n] = q
      BY <1>6
    <3>4. m # n /\ all[m].file = all[n].file
      BY <2>1, <3>1, <3>2, <3>3
    <3>5. m < n \/ n < m
      BY <1>5, <3>4
    <3> QED BY <1>5, <3>4, <3>5 DEF Repeated
  <2> QED BY <2>2, <2>3
<1>8. ~Outgrown(all)
  <2>1. FilesTo(argv, k) \subseteq FilesTo(argv, Len(argv)) /\ FilesTo(argv, Len(argv)) \subseteq 1..Len(argv)
    BY <1>0 DEF FilesTo
  <2>2. Cardinality(FilesTo(argv, k)) <= Cardinality(FilesTo(argv, Len(argv)))
    <3>1. IsFiniteSet(FilesTo(argv, Len(argv)))
      BY <1>0, <2>1, AscendingType
    <3> QED BY <2>1, <3>1, FS_Subset
  <2>3. Len(a) = Cardinality(FilesTo(argv, k))
    BY <1>0, <1>2, AscendingType
  <2>4. Len(Ascending(FilesTo(argv, Len(argv)))) = Cardinality(FilesTo(argv, Len(argv)))
        /\ Len(Ascending(FilesTo(argv, Len(argv)))) \in Nat
    BY <1>0, <2>1, AscendingType
  <2> QED BY <1>5, <2>2, <2>3, <2>4, CommandLineAssumption DEF Outgrown
<1> HIDE DEF twice, all, new, fs, old
<1>9. st.fs = fs /\ st.files = old /\ st.i = i
  BY DEF State
<1>10. AddFiles(st, next) = IF Repeated(all) THEN [st EXCEPT !.at = "err"]
                            ELSE [st EXCEPT !.files = all, !.at = next, !.i = @ + 1]
  BY <1>4, <1>8, <1>9 DEF AddFiles, new
<1>11. AddFiles(st, next) = IF twice THEN State("err", fs, old, i) ELSE State(next, fs, all, i + 1)
  BY <1>7, <1>10 DEF State
<1> QED BY <1>11 DEF twice, all, fs, old

(* The fields of a state of opts.                                          *)
LEMMA StateParts ==
  ASSUME NEW at, NEW fs, NEW files, NEW i
  PROVE  /\ State(at, fs, files, i).at = at
         /\ State(at, fs, files, i).fs = fs
         /\ State(at, fs, files, i).files = files
         /\ State(at, fs, files, i).i = i
         /\ \A b : [State(at, fs, files, i) EXCEPT !.at = b] = State(b, fs, files, i)
BY DEF State

(* A proper region keeps a proper beginning proper.                        *)
LEMMA ProperGrows ==
  ASSUME NEW argv, NEW T, NEW k \in Nat, Proper(argv, T, k),
         IsWord(argv[k + 1], "region") => argv[k + 1][2] < argv[k + 1][3]
  PROVE  Proper(argv, T, k + 1)
<1>1. \A q \in 1 .. k + 1 : q \in 1..k \/ q = k + 1
  OBVIOUS
<1> QED BY <1>1 DEF Proper

(* What is proper to the end is proper up to any word.                     *)
LEMMA ProperEnds ==
  ASSUME NEW argv, Len(argv) \in Nat, NEW k \in 1..Len(argv),
         Proper(argv, FilesTo(argv, Len(argv)), Len(argv))
  PROVE  Proper(argv, FilesTo(argv, k), k)
<1>1. FilesTo(argv, k) \subseteq FilesTo(argv, Len(argv)) /\ 1..k \subseteq 1..Len(argv)
  BY DEF FilesTo
<1> QED BY <1>1 DEF Proper

(* A region where one may stand.                                           *)
LEMMA RegionStep ==
  ASSUME NEW A, NEW argv \in Seq(A), Regular(argv), NEW k \in 1 .. Len(argv) - 1, IsWord(argv[k + 1], "region"),
         NEW i \in Nat \ {0}, Proper(argv, FilesTo(argv, k), k)
  PROVE  Reading(argv, k + 1,
            RegionOrFlag(State("regions", Words(argv, Cur(argv, k)), Entries(argv, FilesTo(argv, k), k), i), argv[k + 1]))
<1> DEFINE fs == Words(argv, Cur(argv, k))
           all == Entries(argv, FilesTo(argv, k), k)
           st == State("regions", fs, all, i)
           t == argv[k + 1]
           new == RegionOrFlag(st, t)
<1>0. Len(argv) \in Nat /\ k \in Nat /\ k + 1 \in 1..Len(argv)
  BY LenProperties
<1>1. t # Flag("-f") /\ t # Flag("-r") /\ ~IsFlag(t) /\ ~IsWord(t, "file")
  BY WordForms
<1>2. new = IF t[2] < t[3] THEN AddRegion(st, t) ELSE [st EXCEPT !.at = "err"]
  BY <1>1 DEF RegionOrFlag, GoodRegion, IsWord
<1>3. CASE t[2] < t[3]
  <2>0. \A q \in 1 .. k + 1 : IsWord(argv[q], "region") => argv[q][2] < argv[q][3]
    <3>1. \A q \in 1 .. k + 1 : q \in 1..k \/ q = k + 1
      BY <1>0
    <3> QED BY <1>3, <3>1 DEF Proper
  <2>1. new = State("regions", fs, Entries(argv, FilesTo(argv, k + 1), k + 1), i)
    BY <1>2, <1>3, <2>0, RegionAdded
  <2>2. FilesTo(argv, k + 1) = FilesTo(argv, k) /\ Cur(argv, k + 1) = Cur(argv, k)
    BY <1>0, <1>1, PlacesGrow
  <2>3. Proper(argv, FilesTo(argv, k + 1), k + 1)
    BY <1>0, <1>3, <2>2, ProperGrows
  <2>4. fs = Words(argv, Cur(argv, k + 1))
    BY <2>2
  <2> HIDE DEF new, fs
  <2>5. Understood(argv, k + 1, new)
    BY <1>1, <2>1, <2>3, <2>4 DEF Understood
  <2> QED BY <2>5 DEF Reading, new, fs
<1>4. CASE ~(t[2] < t[3])
  <2>1. new.at = "err"
    <3>1. new = [st EXCEPT !.at = "err"]
      BY <1>2, <1>4
    <3>2. new = State("err", fs, all, i)
      BY <3>1, StateParts
    <3> HIDE DEF new, fs, all
    <3> QED BY <3>2, StateParts
  <2>2. ~Proper(argv, FilesTo(argv, Len(argv)), Len(argv))
    BY <1>0, <1>4 DEF Proper
  <2> QED BY <2>1, <2>2 DEF Reading
<1> QED BY <1>3, <1>4

(* One more word, whatever is expected.                                    *)
LEMMA ReadingGoes ==
  ASSUME NEW A, NEW argv \in Seq(A), WellFormed(argv), Regular(argv),
         Len(Ascending(FilesTo(argv, Len(argv)))) <= A_LIST_INIT_LEN,
         NEW k \in 1 .. Len(argv) - 1, NEW st, Reading(argv, k, st)
  PROVE  Reading(argv, k + 1, NewRangeArg(st, argv[k + 1]))
<1> DEFINE w == argv[k]
           t == argv[k + 1]
           done == Entries(argv, Old(argv, k), k)
           all == Entries(argv, FilesTo(argv, k), k)
           new == NewRangeArg(st, t)
<1>0. /\ Len(argv) \in Nat /\ k \in Nat /\ k + 1 \in 1..Len(argv) /\ k \in 1..Len(argv) /\ k + 1 \in Nat
      /\ Goes(w, t) /\ IsNewArg(w) /\ IsNewArg(t)
  BY LenProperties DEF WellFormed
<1>1. CASE st.at = "err" /\ ~Proper(argv, FilesTo(argv, Len(argv)), Len(argv))
  <2>1. new = st
    BY <1>1 DEF NewRangeArg
  <2> QED BY <1>1, <2>1 DEF Reading
<1>2. CASE Understood(argv, k, st)
  <2>1. PICK fs, i :
       /\ i \in Nat
       /\ w = Flag("-f") => /\ st = State("first", fs, done, i)
                            /\ Proper(argv, Old(argv, k), k)
       /\ w # Flag("-f") => i # 0 /\ fs = Words(argv, Cur(argv, k))
       /\ IsWord(w, "file") \/ w = Flag("-r") =>
             /\ st = State(IF w = Flag("-r") THEN "apply" ELSE "files", fs, done, i)
             /\ Proper(argv, Old(argv, k), k)
             /\ \A p \in Cur(argv, k) : RegionsOf(argv, p, k) = {}
       /\ IsWord(w, "region") => /\ st = State("regions", fs, all, i)
                                 /\ Proper(argv, FilesTo(argv, k), k)
    BY <1>2 DEF Understood
  <2>2. /\ Old(argv, k) \subseteq 1..k /\ Cur(argv, k) \subseteq 1..k /\ FilesTo(argv, k) \subseteq 1..k
        /\ w = Flag("-f") => Cur(argv, k) = {}
    BY <1>0, PlacesBasics
  <2>3. ~IsWord(t, "region") => \A p \in 1..k : RegionsOf(argv, p, k + 1) = RegionsOf(argv, p, k)
    BY <1>0, RegionsGrow
  <2>4. ~IsWord(t, "region") => /\ Entries(argv, Old(argv, k), k + 1) = done
                                /\ Entries(argv, FilesTo(argv, k), k + 1) = all
    <3>1. Old(argv, k) \subseteq 1..Len(argv) /\ FilesTo(argv, k) \subseteq 1..Len(argv)
      BY <1>0, <2>2
    <3> SUFFICES ASSUME ~IsWord(t, "region")
                 PROVE  /\ Entries(argv, Old(argv, k), k + 1) = done
                        /\ Entries(argv, FilesTo(argv, k), k + 1) = all
      OBVIOUS
    <3>2. Entries(argv, Old(argv, k), k + 1) = done
      <4>1. \A p \in Old(argv, k) : RegionsOf(argv, p, k + 1) = RegionsOf(argv, p, k)
        BY <2>2, <2>3
      <4> QED BY <1>0, <3>1, <4>1, EntriesSame
    <3>3. Entries(argv, FilesTo(argv, k), k + 1) = all
      <4>1. \A p \in FilesTo(argv, k) : RegionsOf(argv, p, k + 1) = RegionsOf(argv, p, k)
        BY <2>2, <2>3
      <4> QED BY <1>0, <3>1, <4>1, EntriesSame
    <3> QED BY <3>2, <3>3
  <2>5. \A T : ~IsWord(t, "region") /\ Proper(argv, T, k) => Proper(argv, T, k + 1)
    BY <1>0, ProperGrows
  <2> HIDE DEF done, all, new
  <2>6. CASE t = Flag("-f")
    <3>1. IsWord(w, "region") /\ ~IsWord(t, "region") /\ IsFlag(t) /\ ~IsWord(t, "file") /\ t # Flag("-r")
      BY <1>0, <2>6, Flags, WordForms DEF Goes, IsNewArg
    <3>2. st = State("regions", fs, all, i) /\ Proper(argv, FilesTo(argv, k), k)
      BY <2>1, <3>1
    <3>3. new = State("first", fs, all, i)
      <4>1. st.at = "regions"
        BY <3>2, StateParts
      <4>2. new = Expect(st, "-f", t, "first")
        BY <3>1, <4>1 DEF NewRangeArg, RegionOrFlag, new
      <4>3. new = [st EXCEPT !.at = "first"]
        BY <2>6, <4>2 DEF Expect
      <4> QED BY <3>2, <4>3, StateParts
    <3>4. Old(argv, k + 1) = FilesTo(argv, k)
      BY <1>0, <2>6, PlacesGrow
    <3>5. all = Entries(argv, Old(argv, k + 1), k + 1) /\ Proper(argv, Old(argv, k + 1), k + 1)
      BY <2>4, <2>5, <3>1, <3>2, <3>4
    <3>6. Understood(argv, k + 1, new)
      BY <2>1, <2>6, <3>1, <3>3, <3>5 DEF Understood
    <3> QED BY <3>6 DEF Reading, new
  <2>7. CASE IsWord(t, "file")
    <3>1. (w = Flag("-f") \/ IsWord(w, "file")) /\ ~IsFlag(t) /\ t # Flag("-f") /\ t # Flag("-r") /\ ~IsWord(t, "region")
      BY <1>0, <2>7, WordForms DEF Goes, IsNewArg
    <3>2. Old(argv, k + 1) = Old(argv, k) /\ Cur(argv, k + 1) = Cur(argv, k) \cup {k + 1}
      BY <1>0, <2>7, <3>1, PlacesGrow
    <3>3. Proper(argv, Old(argv, k), k)
      BY <2>1, <3>1
    <3>4. done = Entries(argv, Old(argv, k + 1), k + 1) /\ Proper(argv, Old(argv, k + 1), k + 1)
      BY <2>4, <2>5, <3>1, <3>2, <3>3
    <3>5. RegionsOf(argv, k + 1, k + 1) = {}
      BY <1>0 DEF RegionsOf
    <3>6. ASSUME NEW p \in Cur(argv, k + 1) PROVE RegionsOf(argv, p, k + 1) = {}
      <4>1. CASE p = k + 1
        BY <3>5, <4>1
      <4>2. CASE p # k + 1
        <5>1. p \in Cur(argv, k) /\ p \in 1..k
          BY <2>2, <3>2, <3>6, <4>2
        <5>2. w # Flag("-f")
          BY <2>2, <5>1
        <5>3. RegionsOf(argv, p, k) = {}
          BY <2>1, <3>1, <5>1, <5>2
        <5> QED BY <2>3, <3>1, <5>1, <5>3
      <4> QED BY <4>1, <4>2
    <3>7. \E j \in Nat \ {0} : new = State("files", Words(argv, Cur(argv, k + 1)), done, j)
      <4>1. CASE w = Flag("-f")
        <5>1. st = State("first", fs, done, i)
          BY <2>1, <4>1
        <5>2. new = [st EXCEPT !.fs = <<t>>, !.at = "files", !.i = @ + 1]
          BY <3>1, <5>1, StateParts DEF NewRangeArg, new
        <5>3. new = State("files", <<t>>, done, i + 1)
          BY <5>1, <5>2 DEF State
        <5>4. Cur(argv, k + 1) = {k + 1}
          BY <2>2, <3>2, <4>1
        <5>5. Words(argv, Cur(argv, k + 1)) = <<t>>
          BY <1>0, <5>4, WordsOne
        <5> QED BY <2>1, <5>3, <5>5
      <4>2. CASE IsWord(w, "file")
        <5>1. w # Flag("-f") /\ w # Flag("-r")
          BY <4>2, WordForms
        <5>2. st = State("files", fs, done, i) /\ fs = Words(argv, Cur(argv, k)) /\ i # 0
          BY <2>1, <4>2, <5>1
        <5>3. new = [st EXCEPT !.fs = Append(@, t)]
          BY <3>1, <5>2, StateParts DEF NewRangeArg, new
        <5>4. new = State("files", Append(fs, t), done, i)
          BY <5>2, <5>3 DEF State
        <5>5. Cur(argv, k) \subseteq 1 .. (k + 1) - 1
          BY <1>0, <2>2
        <5>6. Words(argv, Cur(argv, k + 1)) = Append(fs, t)
          BY <1>0, <3>2, <5>2, <5>5, WordsAppend
        <5> QED BY <2>1, <5>2, <5>4, <5>6
      <4> QED BY <3>1, <4>1, <4>2
    <3>8. PICK j \in Nat \ {0} : new = State("files", Words(argv, Cur(argv, k + 1)), done, j)
      BY <3>7
    <3>9. Understood(argv, k + 1, new)
      BY <2>7, <3>1, <3>4, <3>6, <3>8 DEF Understood
    <3> QED BY <3>9 DEF Reading, new
  <2>8. CASE t = Flag("-r")
    <3>1. IsWord(w, "file") /\ w # Flag("-f") /\ w # Flag("-r") /\ IsFlag(t) /\ t # Flag("-f")
          /\ ~IsWord(t, "region") /\ ~IsWord(t, "file")
      BY <1>0, <2>8, Flags, WordForms DEF Goes, IsNewArg
    <3>2. st = State("files", fs, done, i) /\ fs = Words(argv, Cur(argv, k)) /\ i # 0 /\ Proper(argv, Old(argv, k), k)
          /\ \A p \in Cur(argv, k) : RegionsOf(argv, p, k) = {}
      BY <2>1, <3>1
    <3>3. new = State("apply", fs, done, i)
      <4>1. st.at = "files"
        BY <3>2, StateParts
      <4>2. new = Expect(st, "-r", t, "apply")
        BY <3>1, <4>1 DEF NewRangeArg, new
      <4>3. new = [st EXCEPT !.at = "apply"]
        BY <2>8, <4>2 DEF Expect
      <4> QED BY <3>2, <4>3, StateParts
    <3>4. Old(argv, k + 1) = Old(argv, k) /\ Cur(argv, k + 1) = Cur(argv, k)
      BY <1>0, <3>1, PlacesGrow
    <3>5. done = Entries(argv, Old(argv, k + 1), k + 1) /\ Proper(argv, Old(argv, k + 1), k + 1)
      BY <2>4, <2>5, <3>1, <3>2, <3>4
    <3>6. \A p \in Cur(argv, k + 1) : RegionsOf(argv, p, k + 1) = {}
      BY <2>2, <2>3, <3>1, <3>2, <3>4
    <3>7. fs = Words(argv, Cur(argv, k + 1))
      BY <3>2, <3>4
    <3>8. Understood(argv, k + 1, new)
      BY <2>1, <2>8, <3>1, <3>2, <3>3, <3>5, <3>6, <3>7 DEF Understood
    <3> QED BY <3>8 DEF Reading, new
  <2>9. CASE IsWord(t, "region")
    <3>1. (w = Flag("-r") \/ IsWord(w, "region")) /\ w # Flag("-f")
      BY <1>0, <2>9, Flags, WordForms DEF Goes, IsNewArg
    <3>2. fs = Words(argv, Cur(argv, k)) /\ i # 0
      BY <2>1, <3>1
    <3>3. CASE IsWord(w, "region")
      <4>1. st = State("regions", fs, all, i) /\ Proper(argv, FilesTo(argv, k), k)
        BY <2>1, <3>3
      <4>2. new = RegionOrFlag(st, t)
        BY <4>1, StateParts DEF NewRangeArg, new
      <4> QED BY <2>1, <2>9, <3>2, <4>1, <4>2, RegionStep DEF all, new
    <3>4. CASE w = Flag("-r")
      <4>1. st = State("apply", fs, done, i) /\ Proper(argv, Old(argv, k), k)
            /\ \A p \in Cur(argv, k) : RegionsOf(argv, p, k) = {}
        BY <2>1, <3>4
      <4> DEFINE twice == \E p, q \in FilesTo(argv, k) : p # q /\ argv[p] = argv[q]
                 added == AddFiles(st, "regions")
      <4>2. added = IF twice THEN State("err", fs, done, i) ELSE State("regions", fs, all, i + 1)
        BY <1>0, <3>2, <4>1, FilesAdded DEF done, all
      <4>3. st.at = "apply"
        BY <4>1, StateParts
      <4>4. new = IF added.at = "regions" THEN RegionOrFlag(added, t) ELSE added
        BY <4>3 DEF NewRangeArg, new
      <4> HIDE DEF added
      <4>5. CASE twice
        <5>1. added.at = "err"
          BY <4>2, <4>5, StateParts
        <5>2. new.at = "err"
          BY <4>4, <5>1
        <5>3. ~Proper(argv, FilesTo(argv, k), k)
          BY <4>5 DEF Proper
        <5>4. ~Proper(argv, FilesTo(argv, Len(argv)), Len(argv))
          BY <1>0, <5>3, ProperEnds
        <5> QED BY <5>2, <5>4 DEF Reading, new
      <4>6. CASE ~twice
        <5>1. added = State("regions", fs, all, i + 1)
          BY <4>2, <4>6
        <5>2. new = RegionOrFlag(added, t)
          BY <4>4, <5>1, StateParts
        <5>3. Proper(argv, FilesTo(argv, k), k)
          BY <4>1, <4>6 DEF Proper
        <5>4. i + 1 \in Nat \ {0}
          BY <2>1
        <5> HIDE DEF twice
        <5> QED BY <2>9, <3>2, <5>1, <5>2, <5>3, <5>4, RegionStep DEF all, new
      <4> QED BY <4>5, <4>6
    <3> QED BY <3>1, <3>3, <3>4
  <2> QED BY <1>0, <2>6, <2>7, <2>8, <2>9 DEF IsNewArg
<1> QED BY <1>1, <1>2 DEF Reading

(* The first word.                                                         *)
LEMMA ReadingStarts ==
  ASSUME NEW argv, argv[1] = Flag("-f")
  PROVE  Reading(argv, 1, NewRangeArg(FirstArg, argv[1]))
<1>1. ~IsWord(argv[1], "file") /\ ~IsWord(argv[1], "region") /\ argv[1] # Flag("-r")
  BY WordForms, Flags
<1>2. Old(argv, 1) = {}
  BY <1>1 DEF Old, FilesTo
<1>3. Entries(argv, Old(argv, 1), 1) = <<>>
  BY <1>2, WordsNone DEF Entries
<1>4. NewRangeArg(FirstArg, argv[1]) = State("first", <<>>, <<>>, 0)
  BY DEF NewRangeArg, FirstArg, Expect, State
<1>5. Proper(argv, Old(argv, 1), 1)
  BY <1>1, <1>2 DEF Proper
<1>6. Understood(argv, 1, NewRangeArg(FirstArg, argv[1]))
  <2> HIDE DEF NewRangeArg
  <2> QED BY <1>1, <1>3, <1>4, <1>5 DEF Understood
<1> QED BY <1>6 DEF Reading

(* All words.                                                              *)
LEMMA ReadingEnds ==
  ASSUME NEW A, NEW argv \in Seq(A), WellFormed(argv), Regular(argv),
         Len(Ascending(FilesTo(argv, Len(argv)))) <= A_LIST_INIT_LEN
  PROVE  Reading(argv, Len(argv), ReadNewRange(argv))
<1> DEFINE N == Len(argv)
<1>0. N \in Nat /\ N > 0 /\ argv[1] = Flag("-f")
  BY LenProperties DEF WellFormed
<1>1. PICK r : Runs(<<"arg">>, FirstArg, argv, N, r) /\ ReadNewRange(argv) = r[N]
  BY ReadNewRangeIs, LoopRuns
<1>2. \A k \in 1..N : r[k] = NewRangeArg(r[k - 1], argv[k])
  BY <1>1, Steps DEF Runs
<1>3. r[0] = FirstArg
  BY <1>1 DEF Runs
<1> DEFINE K == {k \in 0 .. N - 1 : Reading(argv, k + 1, r[k + 1])}
<1> HIDE DEF N
<1>4. 0 \in K
  <2>1. 1 \in 1..N /\ 0 \in 0 .. N - 1 /\ 0 + 1 = 1 /\ 1 - 1 = 0
    BY <1>0
  <2>2. r[1] = NewRangeArg(FirstArg, argv[1])
    BY <1>2, <1>3, <2>1
  <2>3. Reading(argv, 1, r[1])
    BY <1>0, <2>2, ReadingStarts
  <2> QED BY <2>1, <2>3
<1>5. ASSUME NEW k \in 0 .. (N - 1) - 1, k \in K PROVE k + 1 \in K
  <2>1. k + 1 \in 1 .. N - 1 /\ (k + 1) + 1 \in 1..N /\ ((k + 1) + 1) - 1 = k + 1 /\ k + 1 \in 0 .. N - 1
    BY <1>0
  <2>2. Reading(argv, k + 1, r[k + 1])
    BY <1>5
  <2>3. Reading(argv, (k + 1) + 1, NewRangeArg(r[k + 1], argv[(k + 1) + 1]))
    BY <2>1, <2>2, ReadingGoes DEF N
  <2>4. r[(k + 1) + 1] = NewRangeArg(r[k + 1], argv[(k + 1) + 1])
    BY <1>2, <2>1
  <2> QED BY <2>1, <2>3, <2>4
<1> HIDE DEF K
<1>6. 0 .. N - 1 \subseteq K
  <2> DEFINE m == N - 1
  <2>1. m \in Nat /\ 0 \in K
    BY <1>0, <1>4
  <2>2. \A k \in 0 .. m - 1 : k \in K => k + 1 \in K
    BY <1>5
  <2> HIDE DEF m
  <2>3. 0..m \subseteq K
    BY <2>1, <2>2, UpTo
  <2> QED BY <2>3 DEF m
<1>7. N - 1 \in K /\ (N - 1) + 1 = N
  BY <1>0, <1>6
<1> QED BY <1>1, <1>7 DEF K, N

(* The range that is sent, from what is understood at the end.             *)
LEMMA NewRangeIs ==
  ASSUME NEW A, NEW argv \in Seq(A), DocumentedNew(argv), Regular(argv),
         Len(Ascending(FilesTo(argv, Len(argv)))) <= A_LIST_INIT_LEN
  PROVE  LET N == Len(argv) IN
         NewRange(argv) = IF ~Proper(argv, FilesTo(argv, N), N) THEN [end |-> "err", files |-> <<>>]
                          ELSE [end |-> "insert", files |-> Entries(argv, FilesTo(argv, N), N)]
<1> DEFINE N == Len(argv)
           st == ReadNewRange(argv)
           all == Entries(argv, FilesTo(argv, N), N)
<1>1. WellFormed(argv) /\ Reading(argv, N, st)
  BY DocumentedForm, ReadingEnds
<1>2. IsWord(argv[N], "region") /\ argv[N] # Flag("-f")
  BY <1>1, WordForms DEF WellFormed
<1>3. NewRange(argv) = IF st.at \in {"err", "undefined"} THEN [end |-> st.at, files |-> <<>>]
                       ELSE IF st.i = 0 THEN [end |-> "err", files |-> <<>>]
                       ELSE [end |-> "insert", files |-> st.files]
  BY DEF NewRange
<1> HIDE DEF st, all
<1>4. CASE st.at = "err" /\ ~Proper(argv, FilesTo(argv, N), N)
  BY <1>3, <1>4
<1>5. CASE Understood(argv, N, st)
  <2>1. PICK fs, i : i # 0 /\ st = State("regions", fs, all, i) /\ Proper(argv, FilesTo(argv, N), N)
    BY <1>2, <1>5 DEF Understood, all
  <2>2. st.at = "regions" /\ st.files = all /\ st.i = i
    BY <2>1, StateParts
  <2> QED BY <1>3, <2>1, <2>2 DEF all
<1> QED BY <1>1, <1>4, <1>5 DEF Reading

ArgsTyped == kind = "-g" => input \in Seq(NewArgs)

(* The arguments of -g.                                                    *)
LEMMA ArgsAreTyped == MCSpec => []ArgsTyped
<1>1. MCInit => ArgsTyped
  BY EmptySeq DEF MCInit, ArgsTyped
<1>2. ArgsTyped /\ [MCNext]_<<kind, input, vars>> => ArgsTyped'
  <2> SUFFICES ASSUME ArgsTyped, [MCNext]_<<kind, input, vars>>, kind' = "-g"
               PROVE  input' \in Seq(NewArgs)
    BY DEF ArgsTyped
  <2>1. CASE GrowNew
    BY <2>1, AppendProperties DEF ArgsTyped, GrowNew, GrowsTo
  <2>2. CASE InsertRegions \/ UNCHANGED <<kind, input, vars>>
    BY <2>2 DEF ArgsTyped, InsertRegions
  <2>3. CASE GrowLines \/ GrowOpen \/ GrowPrint \/ GrowText
    BY <2>3 DEF GrowLines, GrowOpen, GrowPrint, GrowText, GrowsTo
  <2> QED BY <2>1, <2>2, <2>3 DEF MCNext
<1> QED BY <1>1, <1>2, PTL DEF MCSpec

(* help.h:24-29: for any number of arguments that follow the documented    *)
(* form, in any order of files and flags, with regions from one byte to    *)
(* another of which none bridges a gap between earlier ones, the range     *)
(* that is sent has exactly the files that the help promises, and of each  *)
(* exactly the bytes.                                                      *)
THEOREM NewRangesAreDocumented == MCSpec => []NewRangeAsDocumented
<1>1. ArgsTyped => NewRangeAsDocumented
  <2> DEFINE N == Len(input)
             Of(w) == {i \in 1..N : input[i][1] = w}
             Given(p) == LET q == Ascending({q \in Of("region") : q > p /\ \A j \in p..q : input[j] # Flag("-f")}) IN
                         [k \in 1..Len(q) |-> input[q[k]]]
             files == Ascending(Of("file"))
             proper == /\ \A q \in Of("region") : input[q][2] < input[q][3]
                       /\ \A p, q \in Of("file") : p # q => input[p] # input[q]
             range == NewRange(input)
             asked == /\ Len(files) <= A_LIST_INIT_LEN
                      /\ \A q \in Of("region") : input[q][3] # NoBound
                      /\ \A p \in Of("file") : \A k \in 1..Len(Given(p)) : ~Bridges(Given(p), k)
             documented == IF ~proper THEN range = [end |-> "err", files |-> <<>>]
                           ELSE /\ range.end = "insert" /\ Len(range.files) = Len(files)
                                /\ \A n \in 1..Len(files) :
                                      /\ range.files[n].file = input[files[n]]
                                      /\ IsUnion(range.files[n].it, Given(files[n]))
  <2> SUFFICES ASSUME ArgsTyped, kind = "-g", DocumentedNew(input)
               PROVE  asked => documented
    BY DEF NewRangeAsDocumented
  <2>1. input \in Seq(NewArgs) /\ N \in Nat
    BY LenProperties DEF ArgsTyped
  <2>2. Of("file") = FilesTo(input, N) /\ FilesTo(input, N) \subseteq 1..N
    BY DEF FilesTo, IsWord
  <2>3. \A p : Given(p) = Words(input, RegionsOf(input, p, N))
    <3> TAKE p
    <3>1. {q \in Of("region") : q > p /\ \A j \in p..q : input[j] # Flag("-f")} = RegionsOf(input, p, N)
      BY DEF RegionsOf, IsWord
    <3> QED BY <3>1 DEF Words
  <2>4. proper <=> Proper(input, FilesTo(input, N), N)
    BY <2>2 DEF Proper, IsWord
  <2> HIDE DEF Given
  <2>5. ASSUME asked PROVE documented
    <3>1. Len(Ascending(FilesTo(input, N))) <= A_LIST_INIT_LEN
      BY <2>2, <2>5
    <3>2. Regular(input)
      <4>1. ASSUME NEW q \in 1..N, IsWord(input[q], "region")
            PROVE  input[q][2] \in Nat /\ input[q][3] \in Nat
        <5>1. input[q] \in NewArgs /\ input[q][1] = "region" /\ input[q][3] # NoBound
          BY <2>1, <2>5, <4>1, ElementOfSeq DEF IsWord
        <5>2. input[q] \in {Region(0, 2), Region(2, 4), Region(4, 5), Region(2, 2)}
          <6>1. Flag("-f")[1] # "region" /\ Flag("-r")[1] # "region" /\ Flag("-e")[1] # "region"
            BY DEF Flag
          <6>2. File(1)[1] # "region" /\ File(2)[1] # "region" /\ File(3)[1] # "region"
            BY DEF File
          <6>3. Region(1, NoBound)[3] = NoBound
            BY DEF Region
          <6> QED BY <5>1, <6>1, <6>2, <6>3 DEF NewArgs
        <5>3. \A a, b : Region(a, b)[2] = a /\ Region(a, b)[3] = b
          BY DEF Region
        <5> QED BY <5>2, <5>3
      <4>2. ASSUME NEW p \in FilesTo(input, N)
            PROVE  LET s == Words(input, RegionsOf(input, p, N)) IN \A i \in 1..Len(s) : ~Bridges(s, i)
        <5>1. \A i \in 1..Len(Given(p)) : ~Bridges(Given(p), i)
          BY <2>2, <2>5, <4>2
        <5> QED BY <2>3, <5>1
      <4> QED BY <4>1, <4>2 DEF Regular
    <3> DEFINE all == Entries(input, FilesTo(input, N), N)
    <3>3. range = IF ~Proper(input, FilesTo(input, N), N) THEN [end |-> "err", files |-> <<>>]
                  ELSE [end |-> "insert", files |-> all]
      <4> HIDE DEF range
      <4> QED BY <2>1, <3>1, <3>2, NewRangeIs DEF range
    <3>4. CASE ~proper
      BY <2>4, <3>3, <3>4
    <3>5. CASE proper
      <4>1. range.end = "insert" /\ range.files = all
        <5>1. Proper(input, FilesTo(input, N), N)
          BY <2>4, <3>5
        <5> HIDE DEF all, range, proper, N
        <5>2. range = [end |-> "insert", files |-> all]
          BY <3>3, <5>1
        <5> QED BY <5>2
      <4>2. files = Ascending(FilesTo(input, N))
        BY <2>2
      <4>3. Len(all) = Len(files) /\ \A n \in 1..Len(files) : all[n] = Entry(input, files[n], N)
        <5>1. \A U, k : U \subseteq 1..Len(input) =>
                 /\ Len(Entries(input, U, k)) = Len(Ascending(U))
                 /\ \A n \in 1..Len(Ascending(U)) : Entries(input, U, k)[n] = Entry(input, Ascending(U)[n], k)
          <6> SUFFICES ASSUME NEW U, NEW k, U \subseteq 1..Len(input)
                       PROVE  /\ Len(Entries(input, U, k)) = Len(Ascending(U))
                              /\ \A n \in 1..Len(Ascending(U)) : Entries(input, U, k)[n] = Entry(input, Ascending(U)[n], k)
            OBVIOUS
          <6> QED BY <2>1, EntriesLen
        <5>2. FilesTo(input, N) \subseteq 1..Len(input)
          BY <2>2
        <5> HIDE DEF files
        <5> QED BY <4>2, <5>1, <5>2
      <4>4. \A n \in 1..Len(files) : files[n] \in FilesTo(input, N)
        <5>1. \A n \in 1..Len(Ascending(FilesTo(input, N))) : Ascending(FilesTo(input, N))[n] \in FilesTo(input, N)
          BY <2>1, <2>2, AscendingType
        <5> HIDE DEF files
        <5> QED BY <4>2, <5>1
      <4> HIDE DEF files, all, range
      <4>5. ASSUME NEW n \in 1..Len(files)
            PROVE  all[n].file = input[files[n]] /\ IsUnion(all[n].it, Given(files[n]))
        <5> DEFINE s == Words(input, RegionsOf(input, files[n], N))
        <5>1. all[n] = [file |-> input[files[n]], it |-> ListOf(s)]
          BY <4>3 DEF Entry
        <5>2. files[n] \in FilesTo(input, N) /\ N \in 1..N /\ N = Len(input)
          <6>1. files[n] \in FilesTo(input, N) /\ files[n] \in 1..N
            BY <2>2, <4>4
          <6> QED BY <2>1, <6>1
        <5>3. \A q \in 1..N : IsWord(input[q], "region") => input[q][2] < input[q][3]
          BY <2>4, <3>5 DEF Proper
        <5>4. s \in Seq(NewArgs) /\ \A i \in 1..Len(s) : Sound(s[i]) /\ ~Bridges(s, i)
          <6> HIDE DEF s
          <6>1. LET g == Words(input, RegionsOf(input, files[n], N)) IN
                g \in Seq(NewArgs) /\ \A i \in 1..Len(g) : Sound(g[i]) /\ ~Bridges(g, i)
            BY <2>1, <3>2, <5>2, <5>3, RegularTo
          <6> QED BY <6>1 DEF s
        <5> HIDE DEF s
        <5>5. IsUnion(ListOf(s), s)
          BY <5>4, ListUnion, UnionIs
        <5>6. s = Given(files[n])
          BY <2>3 DEF s
        <5> QED BY <5>1, <5>5, <5>6
      <4> QED BY <3>5, <4>1, <4>3, <4>5 DEF files, all, range
    <3> QED BY <3>4, <3>5
  <2> QED BY <2>5
<1> QED BY <1>1, ArgsAreTyped, PTL

-----------------------------------------------------------------------------
(* Marked texts                                                            *)

(* The places of mark w among the first i characters of a text, the bytes  *)
(* that are written for these, and the regions that w has closed in them.  *)
PlacesTo(text, w, i) == {j \in 1..i : text[j] = w}

OutTo(text, i) == Cardinality({j \in 1..i : text[j] = "o"})

Marks(text, w, i) == Ascending(PlacesTo(text, w, i))

SpansTo(text, w, i) ==
    LET places == Marks(text, w, i) IN
    [k \in 1 .. Len(places) \div 2 |->
        Region(OutTo(text, places[2 * k - 1]), OutTo(text, places[2 * k]))]

Regions == {Region(a, b) : a \in Nat, b \in Nat}

AllProper(spans) == \A k \in 1..Len(spans) : spans[k][2] < spans[k][3]

Chars == Mark \cup {CR, "o"}

(* A sequence of some values is one of more values.                        *)
LEMMA SeqWider ==
  ASSUME NEW X, NEW Y, X \subseteq Y, NEW s \in Seq(X)
  PROVE  s \in Seq(Y)
<1>1. Len(s) \in Nat /\ s = [i \in 1..Len(s) |-> s[i]] /\ \A i \in 1..Len(s) : s[i] \in Y
  BY LenProperties, ElementOfSeq
<1>2. s \in [1..Len(s) -> Y]
  BY <1>1
<1> QED BY <1>1, <1>2, SeqDef

(* Appending, place by place.                                              *)
LEMMA AppendIs ==
  ASSUME NEW S, NEW s \in Seq(S), NEW x \in S
  PROVE  /\ Append(s, x) \in Seq(S) /\ Len(Append(s, x)) = Len(s) + 1
         /\ \A k \in 1 .. Len(s) + 1 : Append(s, x)[k] = IF k = Len(s) + 1 THEN x ELSE s[k]
BY AppendProperties, LenProperties

(* One more character is one more byte, if it is written.                  *)
LEMMA OutType ==
  ASSUME NEW text, NEW i \in Nat
  PROVE  /\ OutTo(text, i) \in Nat
         /\ OutTo(text, i + 1) = OutTo(text, i) + (IF text[i + 1] = "o" THEN 1 ELSE 0)
<1> DEFINE B == {j \in 1..i : text[j] = "o"}
<1>1. B \subseteq 1..i /\ IsFiniteSet(1..i)
  BY FS_Interval
<1>2. IsFiniteSet(B) /\ Cardinality(B) \in Nat /\ i + 1 \notin B
  BY <1>1, FS_Subset, FS_CardinalityType
<1>3. {j \in 1 .. i + 1 : text[j] = "o"} = IF text[i + 1] = "o" THEN B \cup {i + 1} ELSE B
  OBVIOUS
<1> HIDE DEF B
<1>4. Cardinality(B \cup {i + 1}) = Cardinality(B) + 1
  BY <1>2, FS_AddElement
<1> QED BY <1>2, <1>3, <1>4 DEF OutTo, B

(* One more character is one more mark, or none.                           *)
LEMMA PlacesStep ==
  ASSUME NEW text, NEW w, NEW i \in Nat
  PROVE  /\ text[i + 1] # w => PlacesTo(text, w, i + 1) = PlacesTo(text, w, i)
         /\ text[i + 1] # w => Marks(text, w, i + 1) = Marks(text, w, i)
         /\ text[i + 1] = w => Marks(text, w, i + 1) = Append(Marks(text, w, i), i + 1)
<1> DEFINE P == PlacesTo(text, w, i)
<1>1. P \subseteq 1..i /\ P \subseteq 1 .. i + 1 /\ {i + 1} \subseteq 1 .. i + 1 /\ \A x \in P, y \in {i + 1} : x < y
  BY DEF PlacesTo
<1>2. PlacesTo(text, w, i + 1) = IF text[i + 1] = w THEN P \cup {i + 1} ELSE P
  BY DEF PlacesTo
<1> HIDE DEF P
<1>3. Ascending(P \cup {i + 1}) = Ascending(P) \o Ascending({i + 1})
  <2>1. \A T : T = {i + 1} => Ascending(P \cup T) = Ascending(P) \o Ascending(T)
    <3> SUFFICES ASSUME NEW T, T = {i + 1}
                 PROVE  Ascending(P \cup T) = Ascending(P) \o Ascending(T)
      OBVIOUS
    <3>1. i + 1 \in Nat /\ P \subseteq 1 .. i + 1 /\ T \subseteq 1 .. i + 1 /\ \A x \in P, y \in T : x < y
      BY <1>1
    <3> QED BY <3>1, AscendingJoin, ZenonT(60)
  <2> QED BY <2>1
<1>4. Ascending({i + 1}) = <<i + 1>>
  BY AscendingOne
<1>5. Ascending(P) \in Seq(P)
  BY <1>1, AscendingType
<1>6. Ascending(P) \o <<i + 1>> = Append(Ascending(P), i + 1)
  <2>1. P \subseteq Nat
    BY <1>1
  <2>2. Ascending(P) \in Seq(Nat)
    BY <1>5, <2>1, SeqWider
  <2> QED BY <2>2
<1> QED BY <1>2, <1>3, <1>4, <1>6 DEF P, Marks

(* Marks come in pairs.                                                    *)
LEMMA Halves ==
  ASSUME NEW n \in Nat
  PROVE  /\ n \div 2 \in Nat /\ (n % 2 = 0 \/ n % 2 = 1)
         /\ n % 2 = 0 => n = 2 * (n \div 2) /\ (n + 1) \div 2 = n \div 2 /\ (n + 1) % 2 = 1
         /\ n % 2 = 1 => n = 2 * (n \div 2) + 1 /\ (n + 1) \div 2 = n \div 2 + 1 /\ (n + 1) % 2 = 0
OBVIOUS

(* The places of a mark.                                                   *)
LEMMA MarksType ==
  ASSUME NEW text, NEW w, NEW i \in Nat
  PROVE  /\ Marks(text, w, i) \in Seq(Nat) /\ Len(Marks(text, w, i)) \in Nat
         /\ \A k \in 1..Len(Marks(text, w, i)) : Marks(text, w, i)[k] \in Nat
         /\ Marks(text, w, i) = <<>> <=> PlacesTo(text, w, i) = {}
<1> DEFINE P == PlacesTo(text, w, i)
<1>1. P \subseteq 1..i
  BY DEF PlacesTo
<1> HIDE DEF P
<1>2. /\ Ascending(P) \in Seq(P) /\ Len(Ascending(P)) \in Nat /\ (P = {} <=> Ascending(P) = <<>>)
      /\ \A k \in 1..Len(Ascending(P)) : Ascending(P)[k] \in 1..i
  BY <1>1, AscendingType
<1>3. P \subseteq Nat
  BY <1>1
<1>4. Ascending(P) \in Seq(Nat)
  BY <1>2, <1>3, SeqWider
<1>5. \A k \in 1..Len(Ascending(P)) : Ascending(P)[k] \in Nat
  BY <1>2
<1> QED BY <1>2, <1>4, <1>5 DEF P, Marks

(* There is a region for each pair of marks.                               *)
LEMMA SpansType ==
  ASSUME NEW text, NEW w, NEW i \in Nat
  PROVE  SpansTo(text, w, i) \in Seq(Regions) /\ Len(SpansTo(text, w, i)) = Len(Marks(text, w, i)) \div 2
<1> DEFINE p == Marks(text, w, i)
           spans == SpansTo(text, w, i)
           m == Len(p) \div 2
<1>1. Len(p) \in Nat /\ \A k \in 1..Len(p) : p[k] \in Nat
  BY MarksType
<1>2. spans = [k \in 1..m |-> Region(OutTo(text, p[2 * k - 1]), OutTo(text, p[2 * k]))]
  BY DEF SpansTo
<1> HIDE DEF p
<1>3. m \in Nat /\ \A k \in 1..m : 2 * k - 1 \in 1..Len(p) /\ 2 * k \in 1..Len(p)
  BY <1>1
<1>4. \A k \in 1..m : Region(OutTo(text, p[2 * k - 1]), OutTo(text, p[2 * k])) \in Regions
  <2> TAKE k \in 1..m
  <2>1. p[2 * k - 1] \in Nat /\ p[2 * k] \in Nat
    BY <1>1, <1>3
  <2>2. OutTo(text, p[2 * k - 1]) \in Nat /\ OutTo(text, p[2 * k]) \in Nat
    BY <2>1, OutType
  <2> QED BY <2>2 DEF Regions
<1> HIDE DEF spans, m
<1>5. spans \in [1..m -> Regions]
  BY <1>2, <1>4
<1>6. spans \in Seq(Regions) /\ Len(spans) = m
  BY <1>3, <1>5, FunctionIsText
<1> QED BY <1>6 DEF p, spans, m

(* The second mark of a pair closes a region, the first one does not.      *)
LEMMA SpansStep ==
  ASSUME NEW text, NEW w, NEW i \in Nat
  PROVE  LET p == Marks(text, w, i)
             spans == SpansTo(text, w, i) IN
         /\ text[i + 1] # w => SpansTo(text, w, i + 1) = spans
         /\ text[i + 1] = w /\ Len(p) % 2 = 0 => SpansTo(text, w, i + 1) = spans
         /\ text[i + 1] = w /\ Len(p) % 2 = 1 =>
               SpansTo(text, w, i + 1) = Append(spans, Region(OutTo(text, p[Len(p)]), OutTo(text, i + 1)))
<1> DEFINE p == Marks(text, w, i)
           q == Marks(text, w, i + 1)
           n == Len(p)
           new == Region(OutTo(text, p[n]), OutTo(text, i + 1))
<1>1. /\ n \in Nat /\ p \in Seq(Nat)
      /\ SpansTo(text, w, i) \in Seq(Regions) /\ Len(SpansTo(text, w, i)) = n \div 2
      /\ SpansTo(text, w, i + 1) \in Seq(Regions) /\ Len(SpansTo(text, w, i + 1)) = Len(q) \div 2
  <2>1. i \in Nat /\ i + 1 \in Nat
    OBVIOUS
  <2> QED BY <2>1, SpansType, MarksType
<1>2. text[i + 1] # w => SpansTo(text, w, i + 1) = SpansTo(text, w, i)
  BY PlacesStep DEF SpansTo
<1>3. ASSUME text[i + 1] = w
      PROVE  /\ n % 2 = 0 => SpansTo(text, w, i + 1) = SpansTo(text, w, i)
             /\ n % 2 = 1 => SpansTo(text, w, i + 1) = Append(SpansTo(text, w, i), new)
  <2>1. q = Append(p, i + 1)
    BY <1>3, PlacesStep
  <2> DEFINE R(r, k) == Region(OutTo(text, r[2 * k - 1]), OutTo(text, r[2 * k]))
  <2>2. SpansTo(text, w, i + 1) = [k \in 1 .. Len(q) \div 2 |-> R(q, k)]
    BY DEF SpansTo
  <2>3. SpansTo(text, w, i) = [k \in 1 .. n \div 2 |-> R(p, k)]
    BY DEF SpansTo
  <2> HIDE DEF p, q
  <2>4. Len(q) = n + 1 /\ q[n + 1] = i + 1 /\ \A k \in 1..n : q[k] = p[k]
    BY <1>1, <2>1, AppendProperties
  <2>5. \A k \in 1 .. n \div 2 : R(q, k) = R(p, k)
    <3> TAKE k \in 1 .. n \div 2
    <3>1. 2 * k - 1 \in 1..n /\ 2 * k \in 1..n
      BY <1>1
    <3> QED BY <2>4, <3>1
  <2>6. CASE n % 2 = 0
    <3>1. Len(q) \div 2 = n \div 2 /\ ~(n % 2 = 1)
      BY <1>1, <2>4, <2>6, Halves
    <3> HIDE DEF R
    <3> QED BY <2>2, <2>3, <2>5, <3>1
  <2>7. CASE n % 2 = 1
    <3> DEFINE m == n \div 2
               a == SpansTo(text, w, i)
               b == SpansTo(text, w, i + 1)
    <3>1. Len(q) \div 2 = m + 1 /\ ~(n % 2 = 0) /\ 2 * (m + 1) - 1 = n /\ 2 * (m + 1) = n + 1 /\ m \in Nat /\ n \in 1..n
      <4>1. n \in Nat /\ Len(q) = n + 1 /\ n % 2 = 1
        BY <1>1, <2>4, <2>7
      <4> HIDE DEF n
      <4> QED BY <4>1, Halves
    <3>2. R(q, m + 1) = new
      BY <2>4, <3>1
    <3> HIDE DEF R, m, n, new
    <3>3. b = [k \in 1 .. m + 1 |-> R(q, k)]
      BY <2>2, <3>1
    <3>5. \A k \in 1 .. m + 1 : R(q, k) = IF k = m + 1 THEN new ELSE a[k]
      <4> TAKE k \in 1 .. m + 1
      <4>1. CASE k = m + 1
        BY <3>2, <4>1
      <4>2. CASE k # m + 1
        <5>1. k \in 1..m
          BY <3>1, <4>2
        <5> QED BY <2>3, <2>5, <4>2, <5>1 DEF m
      <4> QED BY <4>1, <4>2
    <3>4. a \in Seq(Regions) /\ b \in Seq(Regions) /\ new \in Regions /\ Len(a) = m /\ Len(b) = m + 1
      <4>1. i + 1 \in Nat /\ p[n] \in Nat
        BY <1>1, <3>1 DEF n
      <4>2. OutTo(text, p[n]) \in Nat /\ OutTo(text, i + 1) \in Nat
        BY <4>1, OutType
      <4>3. new \in Regions
        BY <4>2 DEF new, Regions
      <4> QED BY <1>1, <3>1, <4>3 DEF m, n
    <3>6. b = Append(a, new)
      <4> HIDE DEF a, b
      <4>1. /\ Append(a, new) \in Seq(Regions) /\ Len(Append(a, new)) = m + 1
            /\ \A k \in 1 .. m + 1 : Append(a, new)[k] = IF k = m + 1 THEN new ELSE a[k]
        BY <3>4, AppendIs
      <4>2. \A k \in 1 .. m + 1 : b[k] = Append(a, new)[k]
        BY <3>3, <3>5, <4>1
      <4> QED BY <3>4, <4>1, <4>2, SeqEqual
    <3> QED BY <3>1, <3>6
  <2>8. n % 2 = 0 \/ n % 2 = 1
    BY <1>1
  <2> QED BY <2>6, <2>7, <2>8
<1> QED BY <1>2, <1>3

(* More characters hold no fewer bytes.                                    *)
LEMMA OutGrows ==
  ASSUME NEW text, NEW i \in Nat, NEW j \in Nat, i <= j
  PROVE  OutTo(text, i) <= OutTo(text, j)
<1> DEFINE B == {m \in 1..i : text[m] = "o"}
           C == {m \in 1..j : text[m] = "o"}
<1>1. B \subseteq C /\ C \subseteq 1..j /\ IsFiniteSet(1..j)
  BY FS_Interval
<1> HIDE DEF B, C
<1>2. IsFiniteSet(C)
  BY <1>1, FS_Subset
<1>3. Cardinality(B) <= Cardinality(C)
  BY <1>1, <1>2, FS_Subset
<1> QED BY <1>3 DEF OutTo, B, C

(* The regions follow each other in the file.                              *)
LEMMA SpansAscend ==
  ASSUME NEW text, NEW w, NEW i \in Nat,
         NEW a \in 1..Len(SpansTo(text, w, i)), NEW b \in 1..Len(SpansTo(text, w, i)), a < b
  PROVE  SpansTo(text, w, i)[a][3] <= SpansTo(text, w, i)[b][2]
<1> DEFINE p == Marks(text, w, i)
           m == Len(p) \div 2
<1>1. Len(p) \in Nat /\ \A k \in 1..Len(p) : p[k] \in Nat
  BY MarksType
<1>2. Len(SpansTo(text, w, i)) = m
  BY SpansType
<1>3. SpansTo(text, w, i) = [k \in 1..m |-> Region(OutTo(text, p[2 * k - 1]), OutTo(text, p[2 * k]))]
  BY DEF SpansTo
<1>4. \A k, l \in 1..Len(p) : k < l => p[k] < p[l]
  <2> DEFINE P == PlacesTo(text, w, i)
  <2>1. P \subseteq 1..i
    BY DEF PlacesTo
  <2> HIDE DEF P
  <2>2. \A k, l \in 1..Len(Ascending(P)) : k < l => Ascending(P)[k] < Ascending(P)[l]
    BY <2>1, AscendingType
  <2> QED BY <2>2 DEF P, Marks
<1> HIDE DEF p
<1>5. 2 * a \in 1..Len(p) /\ 2 * b - 1 \in 1..Len(p) /\ 2 * a < 2 * b - 1 /\ a \in 1..m /\ b \in 1..m
  BY <1>1, <1>2
<1>6. p[2 * a] < p[2 * b - 1] /\ p[2 * a] \in Nat /\ p[2 * b - 1] \in Nat
  BY <1>1, <1>4, <1>5
<1>7. OutTo(text, p[2 * a]) <= OutTo(text, p[2 * b - 1])
  BY <1>6, OutGrows
<1>8. \A x, y : Region(x, y)[2] = x /\ Region(x, y)[3] = y
  BY DEF Region
<1> HIDE DEF m
<1> QED BY <1>3, <1>5, <1>7, <1>8

(* A region that starts no earlier than the others end bridges no gap.     *)
LEMMA NoBridge ==
  ASSUME NEW s, NEW k \in Nat \ {0}, \A j \in 1..k : s[j][2] \in Nat /\ s[j][3] \in Nat,
         \A j \in 1 .. k - 1 : s[j][3] <= s[k][2]
  PROVE  ~Bridges(s, k)
<1> SUFFICES ASSUME NEW x \in Extent(s[k]) \cap Extents(s, k - 1), NEW z \in Extent(s[k]) \cap Extents(s, k - 1),
                    NEW y \in x..z, y \notin Extents(s, k - 1)
             PROVE  FALSE
  BY DEF Bridges
<1>1. \A u \in Extents(s, k - 1) : u \in Int /\ u <= 2 * s[k][2]
  <2> SUFFICES ASSUME NEW j \in 1 .. k - 1, NEW u \in Extent(s[j])
               PROVE  u \in Int /\ u <= 2 * s[k][2]
    BY DEF Extents
  <2>1. s[j][2] \in Nat /\ s[j][3] \in Nat /\ s[k][2] \in Nat /\ s[j][3] <= s[k][2]
    OBVIOUS
  <2> QED BY <2>1 DEF Extent
<1>2. s[k][2] \in Nat /\ s[k][3] \in Nat
  OBVIOUS
<1>3. 2 * s[k][2] <= x /\ 2 * s[k][2] <= z
  BY <1>2 DEF Extent
<1>4. x = y
  BY <1>1, <1>2, <1>3
<1> QED BY <1>4

(* The regions between the marks are regions as the help has them.         *)
LEMMA SpansFit ==
  ASSUME NEW text, NEW w, NEW i \in Nat, AllProper(SpansTo(text, w, i)), NEW k \in 1..Len(SpansTo(text, w, i))
  PROVE  Sound(SpansTo(text, w, i)[k]) /\ ~Bridges(SpansTo(text, w, i), k)
<1> DEFINE spans == SpansTo(text, w, i)
<1>1. spans \in Seq(Regions) /\ Len(spans) \in Nat
  BY SpansType, LenProperties
<1>2. \A a, b \in 1..Len(spans) : a < b => spans[a][3] <= spans[b][2]
  BY SpansAscend
<1>3. \A j \in 1..Len(spans) : spans[j][2] < spans[j][3]
  BY DEF AllProper
<1> HIDE DEF spans
<1>4. \A j \in 1..Len(spans) : spans[j][2] \in Nat /\ spans[j][3] \in Nat
  <2> TAKE j \in 1..Len(spans)
  <2>1. spans[j] \in Regions
    BY <1>1, ElementOfSeq
  <2> QED BY <2>1 DEF Regions, Region
<1>5. k \in 1..Len(spans)
  BY DEF spans
<1>6. Sound(spans[k])
  BY <1>3, <1>4, <1>5 DEF Sound
<1>7. ~Bridges(spans, k)
  <2>1. k \in Nat \ {0}
    BY <1>1, <1>5
  <2>2. \A j \in 1..k : spans[j][2] \in Nat /\ spans[j][3] \in Nat
    BY <1>1, <1>4, <1>5
  <2>3. \A j \in 1 .. k - 1 : spans[j][3] <= spans[k][2]
    BY <1>1, <1>2, <1>5
  <2> QED BY <2>1, <2>2, <2>3, NoBridge
<1> QED BY <1>6, <1>7 DEF spans

Args == {Flag("-f"), Flag("-r")} \cup {File(k) : k \in Nat} \cup {Region(a, b) : a \in Nat, b \in Nat}

Reader(argv) == Loop(<<"arg">>, FirstArg, argv)

Fits(files, fp) == ~Repeated(Append(files, NewFile(fp))) /\ ~Outgrown(Append(files, NewFile(fp)))

(* yacet -g reads one more argument.                                       *)
LEMMA ReaderAppends ==
  ASSUME NEW line \in Seq(Args), NEW x \in Args
  PROVE  Reader(Append(line, x)) = NewRangeArg(Reader(line), x)
<1> HIDE DEF Args
<1> QED BY LoopAppend, Steps DEF Reader

(* Three arguments, one after the other.                                   *)
LEMMA Threefold ==
  ASSUME NEW S, NEW s \in Seq(S), NEW a \in S, NEW b \in S, NEW c \in S
  PROVE  s \o <<a, b, c>> = Append(Append(Append(s, a), b), c) /\ s \o <<a, b, c>> \in Seq(S)
<1> DEFINE t == s \o <<a, b, c>>
           u == Append(Append(Append(s, a), b), c)
<1>1. t \in Seq(S) /\ u \in Seq(S) /\ Len(s) \in Nat /\ Len(t) = Len(s) + 3 /\ Len(u) = Len(s) + 3
  OBVIOUS
<1>2. \A i \in 1 .. Len(s) + 3 : t[i] = u[i]
  OBVIOUS
<1> HIDE DEF t, u
<1>3. t = u
  BY <1>1, <1>2, SeqEqual
<1> QED BY <1>1, <1>3 DEF t, u

(* yacet -g reads -f FILE -r.                                              *)
LEMMA ReaderOpens ==
  ASSUME NEW line \in Seq(Args), NEW at \in {"-f", "regions"}, NEW fs, NEW files, NEW i \in Nat, NEW k \in Nat,
         Reader(line) = State(at, fs, files, i)
  PROVE  Reader(line \o <<Flag("-f"), File(k), Flag("-r")>>) = State("apply", <<File(k)>>, files, i + 1)
<1> DEFINE fp == File(k)
           one == Append(line, Flag("-f"))
           two == Append(one, fp)
           longer == line \o <<Flag("-f"), fp, Flag("-r")>>
<1>1. Flag("-f") \in Args /\ fp \in Args /\ Flag("-r") \in Args
  BY DEF Args
<1>2. IsWord(fp, "file") /\ ~IsFlag(fp)
  BY WordForms DEF File, IsWord
<1> HIDE DEF fp, Args
<1>3. one \in Seq(Args) /\ two \in Seq(Args) /\ longer \in Seq(Args) /\ longer = Append(two, Flag("-r"))
  BY <1>1, AppendProperties, Threefold
<1>4. Reader(one) = State("first", fs, files, i)
  <2>1. Reader(one) = NewRangeArg(State(at, fs, files, i), Flag("-f"))
    BY <1>1, ReaderAppends
  <2>2. NewRangeArg(State(at, fs, files, i), Flag("-f")) = Expect(State(at, fs, files, i), "-f", Flag("-f"), "first")
    BY StateParts, Flags DEF NewRangeArg, RegionOrFlag
  <2>3. Expect(State(at, fs, files, i), "-f", Flag("-f"), "first") = State("first", fs, files, i)
    BY StateParts DEF Expect
  <2> QED BY <2>1, <2>2, <2>3
<1>5. Reader(two) = State("files", <<fp>>, files, i + 1)
  <2>1. Reader(two) = NewRangeArg(State("first", fs, files, i), fp)
    BY <1>1, <1>3, <1>4, ReaderAppends
  <2>2. NewRangeArg(State("first", fs, files, i), fp)
          = [State("first", fs, files, i) EXCEPT !.fs = <<fp>>, !.at = "files", !.i = @ + 1]
    BY <1>2, StateParts DEF NewRangeArg
  <2> QED BY <2>1, <2>2 DEF State
<1>6. Reader(longer) = State("apply", <<fp>>, files, i + 1)
  <2> DEFINE st == State("files", <<fp>>, files, i + 1)
  <2>1. Reader(longer) = NewRangeArg(st, Flag("-r"))
    BY <1>1, <1>3, <1>5, ReaderAppends
  <2>2. NewRangeArg(st, Flag("-r")) = Expect(st, "-r", Flag("-r"), "apply")
    BY StateParts, Flags DEF NewRangeArg
  <2>3. Expect(st, "-r", Flag("-r"), "apply") = State("apply", <<fp>>, files, i + 1)
    BY StateParts DEF Expect
  <2> QED BY <2>1, <2>2, <2>3
<1> QED BY <1>6 DEF fp

(* A region after -r, and one after another region. *)
LEMMA ReaderAdds ==
  ASSUME NEW X, NEW files \in Seq(X), NEW fp, NEW i, NEW at, NEW it, NEW r,
         IsWord(r, "region"), r[2] < r[3], ~FreesTwice(it, Interval(r))
  PROVE  RegionOrFlag(State(at, <<fp>>, Append(files, [file |-> fp, it |-> it]), i), r)
           = State(at, <<fp>>, Append(files, [file |-> fp, it |-> ItInsertNew(it, Interval(r))]), i)
<1> DEFINE rf == [file |-> fp, it |-> it]
           all == Append(files, rf)
           rg == [file |-> fp, it |-> ItInsertNew(it, Interval(r))]
           new == Append(files, rg)
           st == State(at, <<fp>>, all, i)
           Y == X \cup {rf, rg}
           m == Len(files) + 1
           H(P) == [n \in 1..m |-> IF n \in P THEN WithRegion(all[n], r) ELSE all[n]]
<1>1. ~IsFlag(r)
  BY WordForms
<1>2. RegionOrFlag(st, r) = AddRegion(st, r)
  BY <1>1 DEF RegionOrFlag, GoodRegion, IsWord
<1>3. st.files = all /\ st.fs = <<fp>>
  <2> HIDE DEF all
  <2> QED BY StateParts
<1>4. WithRegion(rf, r) = rg /\ rf.it = it
  BY DEF WithRegion
<1>5. files \in Seq(Y) /\ rf \in Y /\ rg \in Y
  BY SeqWider
<1> HIDE DEF rf, rg, Y
<1>6. /\ all \in Seq(Y) /\ m \in Nat \ {0} /\ Len(all) = m
      /\ \A n \in 1..m : all[n] = IF n = m THEN rf ELSE files[n]
  BY <1>5, AppendProperties, LenProperties
<1>7. /\ new \in Seq(Y) /\ Len(new) = m
      /\ \A n \in 1..m : new[n] = IF n = m THEN rg ELSE files[n]
  BY <1>5, AppendProperties, LenProperties
<1> HIDE DEF all, new, m, st
<1>8. OfThisPair(st) = {m}
  <2>1. Len(all) - Len(<<fp>>) + 1 = m
    BY <1>6
  <2>2. m..m = {m}
    BY <1>6
  <2> QED BY <1>3, <1>6, <2>1, <2>2 DEF OfThisPair
<1>9. ~\E n \in OfThisPair(st) : FreesTwice(st.files[n].it, Interval(r))
  <2>1. m \in 1..m /\ all[m] = rf
    BY <1>6
  <2> QED BY <1>3, <1>4, <1>8, <2>1
<1>10. AddRegion(st, r) = [st EXCEPT !.files = H({m})]
  <2>1. AddRegion(st, r) = [st EXCEPT !.files = [n \in 1..Len(st.files) |->
            IF n \in OfThisPair(st) THEN WithRegion(st.files[n], r) ELSE st.files[n]]]
    <3>1. AddRegion(st, r) = [st EXCEPT !.files = [n \in 1..Len(@) |->
            IF n \in OfThisPair(st) THEN WithRegion(@[n], r) ELSE @[n]]]
      BY <1>9 DEF AddRegion
    <3> QED BY <3>1
  <2>2. [n \in 1..Len(st.files) |-> IF n \in OfThisPair(st) THEN WithRegion(st.files[n], r) ELSE st.files[n]] = H({m})
    BY <1>3, <1>6, <1>8
  <2> HIDE DEF H
  <2> QED BY <2>1, <2>2
<1>11. H({m}) = new
  <2>1. \A n \in 1..m : H({m})[n] = new[n]
    BY <1>4, <1>6, <1>7
  <2>2. new = [n \in 1..m |-> new[n]]
    BY <1>7
  <2> QED BY <2>1, <2>2
<1> HIDE DEF H
<1>12. [st EXCEPT !.files = new] = State(at, <<fp>>, new, i)
  BY DEF State, st
<1>13. AddRegion(st, r) = State(at, <<fp>>, new, i)
  BY <1>10, <1>11, <1>12
<1> QED BY <1>2, <1>13 DEF st, all, rf, new, rg

(* The first region after -r brings the file in.                           *)
LEMMA ReaderApplies ==
  ASSUME NEW X, NEW files \in Seq(X), NEW fp, NEW i \in Nat, Fits(files, fp), NEW r,
         IsWord(r, "region"), r[2] < r[3]
  PROVE  NewRangeArg(State("apply", <<fp>>, files, i), r)
           = State("regions", <<fp>>, Append(files, [file |-> fp, it |-> ItInsertNew({}, Interval(r))]), i + 1)
<1> DEFINE st == State("apply", <<fp>>, files, i)
           all == Append(files, NewFile(fp))
           added == AddFiles(st, "regions")
<1>1. st.at = "apply" /\ st.fs = <<fp>> /\ st.files = files
  BY StateParts
<1>2. st.files \o [n \in 1..Len(st.fs) |-> NewFile(st.fs[n])] = all
  <2>1. [n \in 1..Len(<<fp>>) |-> NewFile(<<fp>>[n])] = <<NewFile(fp)>>
    <3>1. Len(<<fp>>) = 1 /\ <<fp>>[1] = fp
      OBVIOUS
    <3>2. [n \in 1..1 |-> NewFile(<<fp>>[n])] = <<NewFile(fp)>>
      BY <3>1
    <3> QED BY <3>1, <3>2
  <2> DEFINE nf == NewFile(fp)
  <2>2. files \o <<nf>> = Append(files, nf)
    <3>1. files \in Seq(X \cup {nf}) /\ nf \in X \cup {nf}
      BY SeqWider
    <3> HIDE DEF nf
    <3> QED BY <3>1
  <2> QED BY <1>1, <2>1, <2>2
<1>3. added = [st EXCEPT !.files = all, !.at = "regions", !.i = @ + 1]
  <2> HIDE DEF st, all
  <2> QED BY <1>2 DEF AddFiles, Fits, all
<1>4. added = State("regions", <<fp>>, all, i + 1)
  <2> HIDE DEF all
  <2> QED BY <1>3 DEF State
<1>5. NewRangeArg(st, r) = RegionOrFlag(added, r)
  <2>1. added.at = "regions"
    BY <1>4, StateParts
  <2> HIDE DEF st, added
  <2>2. NewRangeArg(st, r) = IF added.at = "regions" THEN RegionOrFlag(added, r) ELSE added
    BY <1>1 DEF NewRangeArg, added
  <2> QED BY <2>1, <2>2
<1>6. ~FreesTwice({}, Interval(r))
  BY DEF FreesTwice, Meeting
<1>7. RegionOrFlag(State("regions", <<fp>>, Append(files, [file |-> fp, it |-> {}]), i + 1), r)
        = State("regions", <<fp>>, Append(files, [file |-> fp, it |-> ItInsertNew({}, Interval(r))]), i + 1)
  <2> DEFINE it == {}
  <2>0. ~FreesTwice(it, Interval(r))
    BY <1>6
  <2> HIDE DEF it
  <2>1. RegionOrFlag(State("regions", <<fp>>, Append(files, [file |-> fp, it |-> it]), i + 1), r)
          = State("regions", <<fp>>, Append(files, [file |-> fp, it |-> ItInsertNew(it, Interval(r))]), i + 1)
    BY <2>0, ReaderAdds
  <2> QED BY <2>1 DEF it
<1>8. all = Append(files, [file |-> fp, it |-> {}])
  BY DEF NewFile
<1> HIDE DEF added, all
<1>9. RegionOrFlag(added, r)
        = State("regions", <<fp>>, Append(files, [file |-> fp, it |-> ItInsertNew({}, Interval(r))]), i + 1)
  BY <1>4, <1>7, <1>8
<1> QED BY <1>5, <1>9

(* What yacet -g understands once it has read a file and these regions.    *)
Stage(files, fp, i, spans) ==
    IF spans = <<>> THEN State("apply", <<fp>>, files, i + 1)
    ELSE State("regions", <<fp>>, Append(files, [file |-> fp, it |-> ListOf(spans)]), i + 2)

(* One more region of this file.                                           *)
LEMMA StageGoes ==
  ASSUME NEW X, NEW files \in Seq(X), NEW fp, NEW i \in Nat, Fits(files, fp), NEW R, NEW spans \in Seq(R), NEW r \in R,
         IsWord(r, "region"), r[2] < r[3], ~FreesTwice(ListOf(spans), Interval(r))
  PROVE  NewRangeArg(Stage(files, fp, i, spans), r) = Stage(files, fp, i, Append(spans, r))
<1> DEFINE more == Append(spans, r)
           it == ItInsertNew(ListOf(spans), Interval(r))
           all == Append(files, [file |-> fp, it |-> it])
<1>0. more # <<>>
  <2>1. Len(more) = Len(spans) + 1 /\ Len(spans) \in Nat /\ Len(<<>>) = 0
    BY AppendProperties, LenProperties
  <2> HIDE DEF more
  <2> QED BY <2>1
<1>1. Stage(files, fp, i, more) = State("regions", <<fp>>, all, i + 2)
  <2>1. ListOf(more) = it
    BY ListAppend
  <2> HIDE DEF more, it
  <2> QED BY <1>0, <2>1 DEF Stage
<1> HIDE DEF more
<1>2. CASE spans = <<>>
  <2>1. it = ItInsertNew({}, Interval(r))
    BY <1>2, ListEmpty
  <2>2. Stage(files, fp, i, spans) = State("apply", <<fp>>, files, i + 1)
    BY <1>2 DEF Stage
  <2>3. i + 1 \in Nat /\ (i + 1) + 1 = i + 2
    OBVIOUS
  <2>4. NewRangeArg(State("apply", <<fp>>, files, i + 1), r)
          = State("regions", <<fp>>, Append(files, [file |-> fp, it |-> ItInsertNew({}, Interval(r))]), (i + 1) + 1)
    BY <2>3, ReaderApplies
  <2> HIDE DEF it
  <2>5. NewRangeArg(Stage(files, fp, i, spans), r) = State("regions", <<fp>>, all, i + 2)
    BY <2>1, <2>2, <2>3, <2>4
  <2> QED BY <1>1, <2>5 DEF more, it
<1>3. CASE spans # <<>>
  <2> DEFINE st == Stage(files, fp, i, spans)
             old == Append(files, [file |-> fp, it |-> ListOf(spans)])
  <2>1. st = State("regions", <<fp>>, old, i + 2)
    BY <1>3 DEF Stage
  <2>2. NewRangeArg(st, r) = RegionOrFlag(st, r)
    <3>1. st.at = "regions"
      <4> HIDE DEF old, st
      <4> QED BY <2>1, StateParts
    <3> HIDE DEF st
    <3> QED BY <3>1 DEF NewRangeArg
  <2> HIDE DEF st
  <2>3. RegionOrFlag(State("regions", <<fp>>, old, i + 2), r) = State("regions", <<fp>>, all, i + 2)
    BY ReaderAdds
  <2> HIDE DEF all, old
  <2> QED BY <1>1, <2>1, <2>2, <2>3 DEF st, more
<1> QED BY <1>2, <1>3

(* The variables of bo, with the bytes that it has written. *)
BoType(fp, c) ==
    [lines : [Mark -> Seq(Args)], fp : {fp}, c : {c}, add_file : SUBSET Mark,
     interval_v : [Mark -> Nat \cup {Closed}]]

AddedLine(k, st, x) ==
    IF x \in st.add_file THEN st.lines[x] ELSE st.lines[x] \o <<Flag("-f"), File(k), Flag("-r")>>

AddedRange(k, c, st, x) ==
    [lines      |-> [st.lines EXCEPT ![x] = IF st.interval_v[x] = Closed THEN AddedLine(k, st, x)
                                            ELSE Append(AddedLine(k, st, x), Region(st.interval_v[x], c))],
     fp         |-> File(k),
     c          |-> c,
     add_file   |-> st.add_file \cup {x},
     interval_v |-> [st.interval_v EXCEPT ![x] = IF @ = Closed THEN c ELSE Closed]]

(* What AddRange does.                                                     *)
LEMMA AddRangeIs ==
  ASSUME NEW k \in Nat, NEW c \in Nat, NEW st \in BoType(File(k), c), NEW x \in Mark
  PROVE  AddRange(st, x) \in BoType(File(k), c) /\ AddRange(st, x) = AddedRange(k, c, st, x)
<1> DEFINE line == IF x \in st.add_file THEN st.lines[x]
                   ELSE st.lines[x] \o <<Flag("-f"), File(k), Flag("-r")>>
           opened == st.interval_v[x]
           last == IF opened = Closed THEN line ELSE Append(line, Region(opened, c))
           next == IF opened = Closed THEN c ELSE Closed
           new == AddRange(st, x)
<1>1. /\ st.lines \in [Mark -> Seq(Args)] /\ st.fp = File(k) /\ st.c = c /\ st.add_file \subseteq Mark
      /\ st.interval_v \in [Mark -> Nat \cup {Closed}]
      /\ st = [lines |-> st.lines, fp |-> File(k), c |-> c, add_file |-> st.add_file, interval_v |-> st.interval_v]
  BY DEF BoType
<1>2. line \in Seq(Args)
  <2>1. Flag("-f") \in Args /\ File(k) \in Args /\ Flag("-r") \in Args
    BY DEF Args
  <2>2. st.lines[x] \in Seq(Args)
    BY <1>1
  <2> HIDE DEF Args
  <2> QED BY <2>1, <2>2, Threefold
<1>3. last \in Seq(Args)
  <2>1. opened # Closed => Region(opened, c) \in Args
    BY <1>1 DEF Args
  <2> HIDE DEF line, opened, Args
  <2> QED BY <1>2, <2>1, AppendProperties
<1>4. next \in Nat \cup {Closed}
  OBVIOUS
<1>5. new = [st EXCEPT !.add_file = @ \cup {x}, !.lines[x] = last, !.interval_v[x] = next]
  BY <1>1 DEF AddRange, Region
<1> HIDE DEF line, opened, last, next, new, Args
<1>6. new = [lines |-> [st.lines EXCEPT ![x] = last], fp |-> File(k), c |-> c,
             add_file |-> st.add_file \cup {x}, interval_v |-> [st.interval_v EXCEPT ![x] = next]]
  BY <1>1, <1>5
<1>7. new \in BoType(File(k), c)
  BY <1>1, <1>3, <1>4, <1>6 DEF BoType
<1>8. new = AddedRange(k, c, st, x)
  <2>1. last = IF st.interval_v[x] = Closed THEN AddedLine(k, st, x)
               ELSE Append(AddedLine(k, st, x), Region(st.interval_v[x], c))
    BY DEF last, line, opened, AddedLine
  <2>2. [st.interval_v EXCEPT ![x] = IF @ = Closed THEN c ELSE Closed] = [st.interval_v EXCEPT ![x] = next]
    BY <1>1 DEF next, opened
  <2> QED BY <1>6, <2>1, <2>2 DEF AddedRange
<1> QED BY <1>7, <1>8 DEF new

(* What bo knows of mark w after i characters of the k-th file.            *)
Marked(text, k, w, line, files, n, i, st) ==
    LET p == Marks(text, w, i)
        spans == SpansTo(text, w, i) IN
    /\ st \in BoType(File(k), OutTo(text, i))
    /\ w \in st.add_file <=> p # <<>>
    /\ st.interval_v[w] = IF Len(p) % 2 = 0 THEN Closed ELSE OutTo(text, p[Len(p)])
    /\ p = <<>> => st.lines[w] = line
    /\ p # <<>> /\ AllProper(spans) /\ Fits(files, File(k)) =>
          Reader(st.lines[w]) = Stage(files, File(k), n, spans)

(* A character that is not the mark.                                       *)
LEMMA OtherChar ==
  ASSUME NEW text, NEW k \in Nat, NEW w \in Mark, NEW line, NEW files, NEW n, NEW i \in Nat, NEW st,
         Marked(text, k, w, line, files, n, i, st), text[i + 1] \in Chars, text[i + 1] # w
  PROVE  Marked(text, k, w, line, files, n, i + 1, ReadChar(st, text[i + 1]))
<1> DEFINE x == text[i + 1]
           new == ReadChar(st, x)
           p == Marks(text, w, i)
           c == OutTo(text, i)
<1>1. Marks(text, w, i + 1) = p /\ SpansTo(text, w, i + 1) = SpansTo(text, w, i)
  BY PlacesStep, SpansStep
<1>2. c \in Nat /\ OutTo(text, i + 1) = c + (IF x = "o" THEN 1 ELSE 0)
  BY OutType
<1>3. st \in BoType(File(k), c)
  BY DEF Marked
<1>4. /\ new \in BoType(File(k), OutTo(text, i + 1))
      /\ w \in new.add_file <=> w \in st.add_file
      /\ new.interval_v[w] = st.interval_v[w] /\ new.lines[w] = st.lines[w]
  <2>1. CASE x \in Mark
    <3>1. new = AddRange(st, x) /\ OutTo(text, i + 1) = c
      BY <1>2, <2>1, ImporterAssumption, OtherAssumption DEF ReadChar
    <3> HIDE DEF new, x, c
    <3>2. AddRange(st, x) \in BoType(File(k), c) /\ AddRange(st, x) = AddedRange(k, c, st, x)
      BY <1>2, <1>3, <2>1, AddRangeIs
    <3>3. w \in Mark \ {x}
      BY DEF x
    <3>4. st.lines \in [Mark -> Seq(Args)] /\ st.interval_v \in [Mark -> Nat \cup {Closed}]
      BY <1>3 DEF BoType
    <3>5. /\ new.add_file = st.add_file \cup {x}
          /\ new.lines[w] = st.lines[w] /\ new.interval_v[w] = st.interval_v[w]
      BY <3>1, <3>2, <3>3, <3>4 DEF AddedRange
    <3> QED BY <3>1, <3>2, <3>3, <3>5
  <2>2. CASE x = CR
    <3>1. new = st /\ OutTo(text, i + 1) = c
      BY <1>2, <2>2, ImporterAssumption, OtherAssumption DEF ReadChar
    <3> QED BY <1>3, <3>1
  <2>3. CASE x = "o"
    <3>1. new = [st EXCEPT !.c = @ + 1]
      BY <2>3, OtherAssumption DEF ReadChar
    <3>2. OutTo(text, i + 1) = c + 1
      BY <1>2, <2>3
    <3> HIDE DEF new, c, x
    <3>3. /\ st.lines \in [Mark -> Seq(Args)] /\ st.fp = File(k) /\ st.c = c /\ st.add_file \subseteq Mark
          /\ st.interval_v \in [Mark -> Nat \cup {Closed}]
          /\ new = [lines |-> st.lines, fp |-> File(k), c |-> c + 1, add_file |-> st.add_file, interval_v |-> st.interval_v]
      BY <1>3, <3>1 DEF BoType
    <3>4. new \in BoType(File(k), c + 1)
      BY <3>3 DEF BoType
    <3> QED BY <3>2, <3>3, <3>4
  <2> QED BY <2>1, <2>2, <2>3 DEF Chars
<1> HIDE DEF new
<1> QED BY <1>1, <1>4 DEF Marked, new

(* The mark: it opens a region, or closes it.                              *)
LEMMA MarkChar ==
  ASSUME NEW text, NEW k \in Nat, NEW w \in Mark, NEW line \in Seq(Args), NEW X, NEW files \in Seq(X), NEW n \in Nat,
         NEW at \in {"-f", "regions"}, NEW fs, Reader(line) = State(at, fs, files, n),
         NEW i \in Nat, NEW st, Marked(text, k, w, line, files, n, i, st), text[i + 1] = w
  PROVE  Marked(text, k, w, line, files, n, i + 1, ReadChar(st, w))
<1> DEFINE fp == File(k)
           new == ReadChar(st, w)
           p == Marks(text, w, i)
           q == Marks(text, w, i + 1)
           spans == SpansTo(text, w, i)
           more == SpansTo(text, w, i + 1)
           c == OutTo(text, i)
           opened == st.interval_v[w]
           longer == st.lines[w] \o <<Flag("-f"), fp, Flag("-r")>>
<1>1. /\ st \in BoType(fp, c)
      /\ w \in st.add_file <=> p # <<>>
      /\ opened = IF Len(p) % 2 = 0 THEN Closed ELSE OutTo(text, p[Len(p)])
      /\ p = <<>> => st.lines[w] = line
      /\ p # <<>> /\ AllProper(spans) /\ Fits(files, fp) => Reader(st.lines[w]) = Stage(files, fp, n, spans)
  BY DEF Marked
<1>2. c \in Nat /\ OutTo(text, i + 1) = c
  <2>1. text[i + 1] # "o"
    BY OtherAssumption
  <2> QED BY <2>1, OutType
<1>3. new = AddRange(st, w)
  BY ImporterAssumption DEF ReadChar
<1>4. /\ new \in BoType(fp, c) /\ w \in new.add_file
      /\ new.lines[w] = LET added == IF w \in st.add_file THEN st.lines[w] ELSE longer IN
                        IF opened = Closed THEN added ELSE Append(added, Region(opened, c))
      /\ new.interval_v[w] = IF opened = Closed THEN c ELSE Closed
  <2> HIDE DEF new, c
  <2>1. new \in BoType(fp, c) /\ new = AddedRange(k, c, st, w)
    BY <1>1, <1>2, <1>3, AddRangeIs
  <2>2. st.lines \in [Mark -> Seq(Args)] /\ st.interval_v \in [Mark -> Nat \cup {Closed}]
    BY <1>1 DEF BoType
  <2> QED BY <2>1, <2>2 DEF AddedRange, AddedLine
<1>5. /\ Len(p) \in Nat /\ p \in Seq(Nat) /\ \A j \in 1..Len(p) : p[j] \in Nat
      /\ spans \in Seq(Regions) /\ Len(spans) = Len(p) \div 2
  BY MarksType, SpansType
<1>6. q = Append(p, i + 1)
  BY PlacesStep
<1>7. /\ Len(p) % 2 = 0 => more = spans
      /\ Len(p) % 2 = 1 => more = Append(spans, Region(OutTo(text, p[Len(p)]), OutTo(text, i + 1)))
  BY SpansStep
<1> HIDE DEF new, p, q, spans, more, c, fp
<1>8. q # <<>> /\ Len(q) = Len(p) + 1 /\ q[Len(q)] = i + 1
  <2>1. p \in Seq(Nat) /\ i + 1 \in Nat
    BY <1>5
  <2>2. Len(q) = Len(p) + 1 /\ q[Len(p) + 1] = i + 1
    BY <1>6, <2>1, AppendProperties
  <2>3. q # <<>>
    <3>1. Len(q) # 0 /\ Len(<<>>) = 0
      BY <1>5, <2>2
    <3> QED BY <3>1
  <2> QED BY <2>2, <2>3
<1>9. /\ (Len(p) % 2 = 0 \/ Len(p) % 2 = 1)
      /\ Len(p) % 2 = 0 => Len(q) % 2 = 1
      /\ Len(p) % 2 = 1 => Len(q) % 2 = 0
  BY <1>5, <1>8, Halves
<1>10. CASE Len(p) % 2 = 0
  <2>1. opened = Closed /\ more = spans
    BY <1>1, <1>7, <1>10
  <2>2. new.interval_v[w] = OutTo(text, q[Len(q)]) /\ Len(q) % 2 # 0
    BY <1>2, <1>4, <1>8, <1>9, <1>10, <2>1
  <2>3. ASSUME AllProper(more), Fits(files, fp) PROVE Reader(new.lines[w]) = Stage(files, fp, n, more)
    <3>1. CASE p = <<>>
      <4>1. new.lines[w] = line \o <<Flag("-f"), fp, Flag("-r")>>
        BY <1>1, <1>4, <2>1, <3>1
      <4>2. Reader(new.lines[w]) = State("apply", <<fp>>, files, n + 1)
        <5>1. Reader(line \o <<Flag("-f"), File(k), Flag("-r")>>) = State("apply", <<File(k)>>, files, n + 1)
          BY ReaderOpens
        <5> QED BY <4>1, <5>1 DEF fp
      <4>3. spans = <<>>
        <5>1. Len(p) = 0 /\ 0 \div 2 = 0
          BY <3>1
        <5>2. Len(spans) = 0
          BY <1>5, <5>1
        <5> QED BY <1>5, <5>2, EmptySeq
      <4> QED BY <2>1, <4>2, <4>3 DEF Stage
    <3>2. CASE p # <<>>
      BY <1>1, <1>4, <2>1, <2>3, <3>2
    <3> QED BY <3>1, <3>2
  <2>4. Marked(text, k, w, line, files, n, i + 1, new)
    BY <1>2, <1>4, <1>8, <2>2, <2>3 DEF Marked, q, more, fp
  <2> QED BY <2>4 DEF new
<1>11. CASE Len(p) % 2 = 1
  <2> DEFINE r == Region(opened, c)
  <2>1. opened = OutTo(text, p[Len(p)])
    BY <1>1, <1>11
  <2>2. opened \in Nat /\ opened # Closed
    <3>1. Len(p) \in 1..Len(p)
      BY <1>5, <1>11
    <3>2. p[Len(p)] \in Nat
      BY <1>5, <3>1
    <3> QED BY <2>1, <3>2, OutType DEF Closed
  <2>3. p # <<>>
    <3>1. Len(<<>>) = 0 /\ 0 % 2 = 0
      OBVIOUS
    <3> QED BY <1>11, <3>1
  <2>4. new.lines[w] = Append(st.lines[w], r) /\ new.interval_v[w] = Closed /\ Len(q) % 2 = 0
    BY <1>1, <1>4, <1>9, <1>11, <2>2, <2>3
  <2>5. more = Append(spans, r) /\ r \in Regions
    BY <1>2, <1>7, <1>11, <2>1, <2>2 DEF Regions
  <2>6. ASSUME AllProper(more), Fits(files, fp) PROVE Reader(new.lines[w]) = Stage(files, fp, n, more)
    <3>1. /\ Len(more) = Len(spans) + 1 /\ Len(spans) \in Nat /\ more[Len(spans) + 1] = r
          /\ \A j \in 1..Len(spans) : more[j] = spans[j]
      <4> HIDE DEF r
      <4> QED BY <1>5, <2>5, AppendProperties, LenProperties
    <3>2. AllProper(spans) /\ r[2] < r[3]
      <4> HIDE DEF r
      <4>1. \A j \in 1..Len(spans) : j \in 1..Len(more)
        BY <3>1
      <4>2. Len(spans) + 1 \in 1..Len(more)
        BY <3>1
      <4> QED BY <2>6, <3>1, <4>1, <4>2 DEF AllProper
    <3>3. IsWord(r, "region") /\ r \in Args
      BY <1>2, <2>2 DEF Region, IsWord, Args
    <3>4. st.lines[w] \in Seq(Args)
      BY <1>1 DEF BoType
    <3> HIDE DEF r
    <3>5. Reader(new.lines[w]) = NewRangeArg(Reader(st.lines[w]), r)
      BY <2>4, <3>3, <3>4, ReaderAppends
    <3>6. Reader(st.lines[w]) = Stage(files, fp, n, spans)
      BY <1>1, <2>3, <2>6, <3>2
    <3>8. ~FreesTwice(ListOf(spans), Interval(r))
      <4>1. \A j \in 1..Len(more) : Sound(more[j]) /\ ~Bridges(more, j)
        BY <2>6, SpansFit DEF more
      <4>2. \A j \in 1..Len(Append(spans, r)) : Sound(Append(spans, r)[j]) /\ ~Bridges(Append(spans, r), j)
        BY <2>5, <4>1
      <4> QED BY <1>5, <2>5, <4>2, LastFits
    <3>7. NewRangeArg(Stage(files, fp, n, spans), r) = Stage(files, fp, n, Append(spans, r))
      BY <1>5, <2>5, <2>6, <3>2, <3>3, <3>8, StageGoes
    <3> QED BY <2>5, <3>5, <3>6, <3>7
  <2>7. Marked(text, k, w, line, files, n, i + 1, new)
    BY <1>2, <1>4, <1>8, <2>4, <2>6 DEF Marked, q, more, fp
  <2> QED BY <2>7 DEF new
<1> QED BY <1>9, <1>10, <1>11

(* Before the first character.                                             *)
LEMMA MarkStarts ==
  ASSUME NEW text, NEW k \in Nat, NEW w \in Mark, NEW lines \in [Mark -> Seq(Args)], NEW files, NEW n
  PROVE  Marked(text, k, w, lines[w], files, n, 0, ReadLines(lines, File(k)))
<1> DEFINE st == ReadLines(lines, File(k))
<1>1. PlacesTo(text, w, 0) = {} /\ {j \in 1..0 : text[j] = "o"} = {}
  BY DEF PlacesTo
<1>2. OutTo(text, 0) = 0
  BY <1>1, FS_EmptySet DEF OutTo
<1>3. Marks(text, w, 0) = <<>>
  BY <1>1, AscendingNone DEF Marks
<1>4. st \in BoType(File(k), 0)
  BY DEF ReadLines, BoType
<1>5. st.add_file = {} /\ st.interval_v[w] = Closed /\ st.lines = lines
  BY DEF ReadLines
<1>6. Len(<<>>) % 2 = 0
  OBVIOUS
<1> HIDE DEF st
<1> QED BY <1>2, <1>3, <1>4, <1>5, <1>6 DEF Marked, st

(* After the last character.                                               *)
LEMMA BoEnds ==
  ASSUME NEW text \in Seq(Chars), NEW k \in Nat, NEW w \in Mark, NEW lines \in [Mark -> Seq(Args)],
         NEW X, NEW files \in Seq(X), NEW n \in Nat,
         NEW at \in {"-f", "regions"}, NEW fs, Reader(lines[w]) = State(at, fs, files, n)
  PROVE  \E st : Bo(lines, File(k), text) = st.lines /\ Marked(text, k, w, lines[w], files, n, Len(text), st)
<1> DEFINE N == Len(text)
           base == ReadLines(lines, File(k))
<1>0. N \in Nat
  BY LenProperties
<1>1. PICK r : Runs(<<"char">>, base, text, N, r) /\ Bo(lines, File(k), text) = r[N].lines
  <2>1. Bo(lines, File(k), text) = Loop(<<"char">>, base, text).lines
    BY BoIs
  <2> HIDE DEF base
  <2>2. \E r : Runs(<<"char">>, base, text, N, r) /\ Loop(<<"char">>, base, text) = r[N]
    BY LoopRuns
  <2> QED BY <2>1, <2>2
<1>2. r[0] = base /\ \A i \in 1..N : r[i] = ReadChar(r[i - 1], text[i])
  BY <1>1, Steps DEF Runs
<1> DEFINE K == {i \in 0..N : Marked(text, k, w, lines[w], files, n, i, r[i])}
<1>3. \A i \in 1..N : text[i] \in Chars
  BY ElementOfSeq
<1> HIDE DEF N, base
<1>4. 0 \in K
  <2>1. Marked(text, k, w, lines[w], files, n, 0, base)
    BY MarkStarts DEF base
  <2> QED BY <1>0, <1>2, <2>1
<1>5. ASSUME NEW i \in 0 .. N - 1, i \in K PROVE i + 1 \in K
  <2>1. i \in Nat /\ i + 1 \in 1..N /\ (i + 1) - 1 = i /\ i + 1 \in 0..N
    BY <1>0
  <2>2. Marked(text, k, w, lines[w], files, n, i, r[i])
    BY <1>5
  <2>3. r[i + 1] = ReadChar(r[i], text[i + 1]) /\ text[i + 1] \in Chars
    BY <1>2, <1>3, <2>1
  <2>4. lines[w] \in Seq(Args)
    OBVIOUS
  <2>5. Marked(text, k, w, lines[w], files, n, i + 1, ReadChar(r[i], text[i + 1]))
    <3>1. CASE text[i + 1] = w
      BY <2>1, <2>2, <2>4, <3>1, MarkChar
    <3>2. CASE text[i + 1] # w
      BY <2>1, <2>2, <2>3, <3>2, OtherChar
    <3> QED BY <3>1, <3>2
  <2> QED BY <2>1, <2>3, <2>5
<1> HIDE DEF K
<1>6. N \in K
  <2>1. \A i \in 0 .. N - 1 : i \in K => i + 1 \in K
    BY <1>5
  <2>2. 0..N \subseteq K
    BY <1>0, <1>4, <2>1, UpTo
  <2> QED BY <1>0, <2>2
<1>7. Marked(text, k, w, lines[w], files, n, N, r[N])
  BY <1>6 DEF K
<1> QED BY <1>1, <1>7 DEF N

NoLines == [w \in Mark |-> <<>>]

(* The fold of Import is the loop over the files.                          *)
LEMMA ImportIs ==
  ASSUME NEW A, NEW texts \in Seq(A)
  PROVE  Import(texts) = Loop(<<"file", texts>>, NoLines, [i \in 1..Len(texts) |-> i])
<1> DEFINE s == [i \in 1..Len(texts) |-> i]
<1>0. Len(texts) \in Nat /\ DOMAIN texts = 1..Len(texts)
  BY LenProperties
<1>01. s \in Seq(Nat) /\ Len(s) = Len(texts) /\ DOMAIN s = 1..Len(s)
  <2>1. s \in [1..Len(texts) -> Nat]
    OBVIOUS
  <2> QED BY <1>0, <2>1, FunctionIsText
<1> DEFINE D == DOMAIN s
           F(h) == [T \in SUBSET D |->
                      IF T = {} THEN NoLines
                      ELSE Bo(h[T \ {Max(T)}], <<"file", s[Max(T)]>>, texts[s[Max(T)]])]
           G(h) == [T \in SUBSET (1..Len(s)) |->
                      IF T = {} THEN NoLines ELSE Step(<<"file", texts>>, h[T \ {Max(T)}], s[Max(T)])]
           P(h) == h = F(h)
           d == CHOOSE h : P(h)
<1>1. Import(texts) = d[D]
  BY <1>0 DEF Import, FoldLeftDomain, FoldLeft, MapThenFoldSet, NoLines
<1> HIDE DEF s
<1>2. ASSUME NEW h PROVE P(h) <=> FoldsTo(<<"file", texts>>, NoLines, s, Len(s), h)
  <2>1. \A T \in SUBSET D : F(h)[T] = G(h)[T]
    BY <1>01, Steps
  <2>2. F(h) = G(h)
    BY <1>01, <2>1
  <2> HIDE DEF F
  <2> QED BY <2>2 DEF FoldsTo
<1> HIDE DEF P
<1>3. \E h : P(h)
  BY <1>0, <1>01, <1>2, FoldExists
<1>4. P(d)
  BY <1>3
<1> HIDE DEF d
<1>5. d[1..Len(s)] = Loop(<<"file", texts>>, NoLines, s)
  BY <1>01, <1>2, <1>4, LoopIs
<1> QED BY <1>01, <1>1, <1>5 DEF s

(* The files that have mark w among the first n, and what the help         *)
(* promises of them.                                                       *)
MarkedFiles(texts, w, n) == {i \in 1..n : PlacesTo(texts[i], w, Len(texts[i])) # {}}

FileTable(texts, w) ==
    [i \in 1..Len(texts) |-> [file |-> File(i), it |-> ListOf(SpansTo(texts[i], w, Len(texts[i])))]]

Ranges(texts, w, n) == Words(FileTable(texts, w), MarkedFiles(texts, w, n))

AllClosed(texts, w) ==
    \A i \in 1..Len(texts) : /\ Len(Marks(texts[i], w, Len(texts[i]))) % 2 = 0
                             /\ AllProper(SpansTo(texts[i], w, Len(texts[i])))

Imported(texts, w, n, lines) ==
    /\ lines \in [Mark -> Seq(Args)]
    /\ \E fs, i : IF MarkedFiles(texts, w, n) = {} THEN Reader(lines[w]) = State("-f", fs, <<>>, 0)
                  ELSE /\ i \in Nat \ {0}
                       /\ Reader(lines[w]) = State("regions", fs, Ranges(texts, w, n), i)

(* Every file has an entry.                                                *)
LEMMA FileTableType ==
  ASSUME NEW texts, Len(texts) \in Nat, NEW w
  PROVE  \E X : FileTable(texts, w) \in Seq(X) /\ Len(FileTable(texts, w)) = Len(texts)
<1> DEFINE g == FileTable(texts, w)
           X == {g[i] : i \in 1..Len(texts)}
<1>1. g \in [1..Len(texts) -> X]
  BY DEF FileTable
<1> HIDE DEF g, X
<1>2. g \in Seq(X) /\ Len(g) = Len(texts)
  BY <1>1, FunctionIsText
<1> QED BY <1>2 DEF g

(* Before the first file.                                                  *)
LEMMA ImportStarts ==
  ASSUME NEW texts, NEW w \in Mark
  PROVE  Imported(texts, w, 0, NoLines)
<1>1. MarkedFiles(texts, w, 0) = {}
  BY DEF MarkedFiles
<1>2. NoLines \in [Mark -> Seq(Args)] /\ NoLines[w] = <<>>
  BY EmptySeq DEF NoLines
<1>3. Reader(<<>>) = State("-f", <<>>, <<>>, 0)
  BY LoopEmpty DEF Reader, FirstArg, State
<1> QED BY <1>1, <1>2, <1>3 DEF Imported

(* What is promised has an entry for each marked file, in their order.     *)
LEMMA RangesType ==
  ASSUME NEW texts, Len(texts) \in Nat, NEW w, NEW n \in 0..Len(texts)
  PROVE  LET T == MarkedFiles(texts, w, n)
             rows == Ranges(texts, w, n) IN
         /\ T \subseteq 1..n
         /\ Len(rows) \in Nat /\ Len(rows) = Cardinality(T)
         /\ \E X : rows \in Seq(X)
         /\ \A j \in 1..Len(rows) : \E i \in 1..n : rows[j].file = File(i) /\ i = Ascending(T)[j]
         /\ \A i, j \in 1..Len(rows) : i < j => Ascending(T)[i] < Ascending(T)[j]
<1> DEFINE T == MarkedFiles(texts, w, n)
           e == Ascending(T)
           rows == Ranges(texts, w, n)
           g == FileTable(texts, w)
<1>1. T \subseteq 1..n /\ T \subseteq 1..Len(texts)
  BY DEF MarkedFiles
<1> HIDE DEF T
<1>2. /\ Len(e) \in Nat /\ Len(e) = Cardinality(T)
      /\ \A i \in 1..Len(e) : e[i] \in T
      /\ \A i, j \in 1..Len(e) : i < j => e[i] < e[j]
  BY <1>1, AscendingType
<1>3. PICK X : g \in Seq(X) /\ Len(g) = Len(texts)
  BY FileTableType
<1> HIDE DEF e, g, rows
<1>4. rows \in Seq(X) /\ Len(rows) = Len(e)
  BY <1>1, <1>3, WordsType DEF rows, e, g, T, Ranges
<1>5. \A j \in 1..Len(e) : rows[j] = g[e[j]]
  BY WordAt DEF rows, e, g, T, Ranges
<1>6. \A j \in 1..Len(e) : e[j] \in 1..n /\ rows[j].file = File(e[j])
  <2> TAKE j \in 1..Len(e)
  <2>1. e[j] \in 1..n /\ e[j] \in 1..Len(texts)
    BY <1>1, <1>2
  <2>2. g[e[j]].file = File(e[j])
    BY <2>1 DEF g, FileTable
  <2> QED BY <1>5, <2>1, <2>2
<1> QED BY <1>1, <1>2, <1>4, <1>6 DEF T, e, rows

(* The next file has not been named, and the array has room for it.        *)
LEMMA NextFits ==
  ASSUME NEW texts, Len(texts) \in Nat, NEW w, NEW n \in 0 .. Len(texts) - 1, n + 1 \in MarkedFiles(texts, w, n + 1),
         Len(Ascending(MarkedFiles(texts, w, Len(texts)))) <= A_LIST_INIT_LEN
  PROVE  Fits(Ranges(texts, w, n), File(n + 1))
<1> DEFINE T == MarkedFiles(texts, w, n)
           U == MarkedFiles(texts, w, Len(texts))
           rows == Ranges(texts, w, n)
           nf == NewFile(File(n + 1))
           all == Append(rows, nf)
           e == Ascending(T)
<1>0. n \in Nat /\ n \in 0..Len(texts) /\ n + 1 \in 1..Len(texts)
  OBVIOUS
<1>1. /\ T \subseteq 1..n /\ Len(rows) \in Nat /\ Len(rows) = Cardinality(T)
      /\ \E X : rows \in Seq(X)
      /\ \A j \in 1..Len(rows) : \E i \in 1..n : rows[j].file = File(i) /\ i = e[j]
      /\ \A i, j \in 1..Len(rows) : i < j => e[i] < e[j]
  BY <1>0, RangesType
<1>2. PICK X : rows \in Seq(X)
  BY <1>1
<1>3. nf.file = File(n + 1)
  BY DEF NewFile
<1>4. \A i, j \in Nat : File(i) = File(j) => i = j
  BY DEF File
<1>5. U \subseteq 1..Len(texts) /\ T \cup {n + 1} \subseteq U
  BY <1>0 DEF MarkedFiles
<1> HIDE DEF T, U, rows, nf, e
<1>6. /\ Len(all) = Len(rows) + 1
      /\ \A j \in 1 .. Len(rows) + 1 : all[j] = IF j = Len(rows) + 1 THEN nf ELSE rows[j]
  <2>1. rows \in Seq(X \cup {nf}) /\ nf \in X \cup {nf}
    BY <1>2, SeqWider
  <2> QED BY <2>1, AppendIs
<1> HIDE DEF all
<1>7. ~Repeated(all)
  <2> SUFFICES ASSUME NEW i \in 1 .. Len(rows) + 1, NEW j \in 1 .. Len(rows) + 1, i < j, all[i].file = all[j].file
               PROVE  FALSE
    BY <1>6 DEF Repeated
  <2>1. i \in 1..Len(rows) /\ all[i] = rows[i]
    BY <1>1, <1>6
  <2>2. PICK a \in 1..n : rows[i].file = File(a) /\ a = e[i]
    BY <1>1, <2>1
  <2>3. CASE j = Len(rows) + 1
    <3>1. File(a) = File(n + 1)
      BY <1>3, <1>6, <2>1, <2>2, <2>3
    <3> QED BY <1>0, <1>4, <3>1
  <2>4. CASE j # Len(rows) + 1
    <3>1. j \in 1..Len(rows) /\ all[j] = rows[j]
      BY <1>1, <1>6, <2>4
    <3>2. PICK b \in 1..n : rows[j].file = File(b) /\ b = e[j]
      BY <1>1, <3>1
    <3>3. a = b
      BY <1>4, <2>1, <2>2, <3>1, <3>2
    <3>4. e[i] < e[j]
      BY <1>1, <2>1, <3>1
    <3> QED BY <2>2, <3>2, <3>3, <3>4
  <2> QED BY <2>3, <2>4
<1>8. ~Outgrown(all)
  <2>1. IsFiniteSet(1..n) /\ IsFiniteSet(1..Len(texts))
    BY <1>0, FS_Interval
  <2>2. IsFiniteSet(T) /\ IsFiniteSet(U) /\ n + 1 \notin T
    <3>1. IsFiniteSet(T)
      BY <1>1, <2>1, FS_Subset
    <3>2. IsFiniteSet(U)
      BY <1>5, <2>1, FS_Subset
    <3>3. n + 1 \notin T
      BY <1>0, <1>1
    <3> QED BY <3>1, <3>2, <3>3
  <2>3. Cardinality(T \cup {n + 1}) = Cardinality(T) + 1
    BY <2>2, FS_AddElement
  <2>4. Cardinality(T \cup {n + 1}) <= Cardinality(U)
    BY <1>5, <2>2, FS_Subset
  <2>5. Len(Ascending(U)) = Cardinality(U) /\ Cardinality(U) \in Nat
    <3>1. Len(Ascending(U)) = Cardinality(U) /\ Len(Ascending(U)) \in Nat
      BY <1>5, AscendingType
    <3> QED BY <3>1
  <2>6. Cardinality(U) <= A_LIST_INIT_LEN
    BY <2>5 DEF U
  <2> QED BY <1>1, <1>6, <2>3, <2>4, <2>5, <2>6, CommandLineAssumption DEF Outgrown
<1> QED BY <1>7, <1>8 DEF Fits, all, nf, rows

(* One more file.                                                          *)
LEMMA ImportGoes ==
  ASSUME NEW texts \in Seq(Seq(Chars)), NEW w \in Mark, AllClosed(texts, w),
         Len(Ascending(MarkedFiles(texts, w, Len(texts)))) <= A_LIST_INIT_LEN,
         NEW n \in 0 .. Len(texts) - 1, NEW lines, Imported(texts, w, n, lines)
  PROVE  Imported(texts, w, n + 1, Bo(lines, File(n + 1), texts[n + 1]))
<1> DEFINE k == n + 1
           text == texts[k]
           N == Len(text)
           new == Bo(lines, File(k), text)
           p == Marks(text, w, N)
           spans == SpansTo(text, w, N)
           T == MarkedFiles(texts, w, n)
           rows == Ranges(texts, w, n)
<1>0. Len(texts) \in Nat /\ n \in Nat /\ k \in Nat /\ k \in 1..Len(texts) /\ text \in Seq(Chars) /\ N \in Nat /\ n \in 0..Len(texts)
  <2>1. Len(texts) \in Nat /\ k \in 1..Len(texts) /\ n \in Nat /\ k \in Nat
    BY LenProperties
  <2>2. text \in Seq(Chars)
    BY <2>1, ElementOfSeq
  <2> QED BY <2>1, <2>2, LenProperties
<1>1. lines \in [Mark -> Seq(Args)]
  BY DEF Imported
<1>2. PICK fs, i : IF T = {} THEN Reader(lines[w]) = State("-f", fs, <<>>, 0)
                   ELSE i \in Nat \ {0} /\ Reader(lines[w]) = State("regions", fs, rows, i)
  BY DEF Imported
<1>3. T = {} => rows = <<>>
  BY WordsNone DEF Ranges
<1>4. \E at \in {"-f", "regions"}, m \in Nat : Reader(lines[w]) = State(at, fs, rows, m)
  <2> HIDE DEF T, rows
  <2> QED BY <1>2, <1>3
<1>5. PICK at \in {"-f", "regions"}, m \in Nat : Reader(lines[w]) = State(at, fs, rows, m)
  BY <1>4
<1>6. PICK X : rows \in Seq(X)
  BY <1>0, RangesType
<1>7. MarkedFiles(texts, w, k) = IF p = <<>> THEN T ELSE T \cup {k}
  <2>1. p = <<>> <=> PlacesTo(text, w, N) = {}
    BY <1>0, MarksType
  <2>2. MarkedFiles(texts, w, k) = IF PlacesTo(texts[k], w, Len(texts[k])) = {} THEN T ELSE T \cup {k}
    BY <1>0, SMTT(30) DEF MarkedFiles
  <2> QED BY <2>1, <2>2
<1>8. Len(p) % 2 = 0 /\ AllProper(spans)
  BY <1>0 DEF AllClosed
<1>9. T \subseteq 1..n
  BY DEF MarkedFiles
<1> HIDE DEF k, text, N, rows, T, new
<1>10. PICK st : new = st.lines /\ Marked(text, k, w, lines[w], rows, m, N, st)
  BY <1>0, <1>1, <1>5, <1>6, BoEnds, ZenonT(60) DEF new, N
<1>11. /\ st \in BoType(File(k), OutTo(text, N))
       /\ p = <<>> => st.lines[w] = lines[w]
       /\ p # <<>> /\ Fits(rows, File(k)) => Reader(st.lines[w]) = Stage(rows, File(k), m, spans)
  BY <1>8, <1>10 DEF Marked
<1>12. new \in [Mark -> Seq(Args)]
  BY <1>10, <1>11 DEF BoType
<1>13. CASE p = <<>>
  <2>1. MarkedFiles(texts, w, k) = T /\ new[w] = lines[w]
    BY <1>7, <1>10, <1>11, <1>13
  <2>2. Ranges(texts, w, k) = rows
    BY <2>1 DEF Ranges, rows, T
  <2>3. Imported(texts, w, k, new)
    BY <1>2, <1>12, <2>1, <2>2 DEF Imported
  <2> QED BY <2>3 DEF k, new, text
<1>14. CASE p # <<>>
  <2>1. MarkedFiles(texts, w, k) = T \cup {k} /\ MarkedFiles(texts, w, k) # {}
    BY <1>7, <1>14
  <2>2. Fits(rows, File(k))
    <3>1. n + 1 \in MarkedFiles(texts, w, n + 1)
      BY <2>1 DEF k
    <3> QED BY <1>0, <3>1, NextFits DEF rows, k
  <2>3. spans # <<>>
    <3>1. Len(p) \in Nat /\ p \in Seq(Nat) /\ Len(spans) = Len(p) \div 2
      BY <1>0, MarksType, SpansType
    <3>2. Len(p) # 0
      BY <1>14, <3>1, EmptySeq
    <3> HIDE DEF p, spans
    <3>3. Len(p) = 2 * (Len(p) \div 2) /\ Len(p) \div 2 \in Nat
      BY <1>8, <3>1, Halves
    <3>4. Len(spans) # 0 /\ Len(<<>>) = 0
      BY <3>1, <3>2, <3>3
    <3> QED BY <3>4
  <2>4. Reader(new[w]) = State("regions", <<File(k)>>, Append(rows, [file |-> File(k), it |-> ListOf(spans)]), m + 2)
    <3> HIDE DEF spans
    <3>1. Reader(new[w]) = Stage(rows, File(k), m, spans)
      BY <1>10, <1>11, <1>14, <2>2
    <3> QED BY <2>3, <3>1 DEF Stage
  <2>5. Ranges(texts, w, k) = Append(rows, [file |-> File(k), it |-> ListOf(spans)])
    <3> DEFINE g == FileTable(texts, w)
    <3>1. PICK Y : g \in Seq(Y) /\ Len(g) = Len(texts)
      BY <1>0, FileTableType
    <3>2. g[k] = [file |-> File(k), it |-> ListOf(spans)]
      BY <1>0 DEF FileTable, text, N
    <3> HIDE DEF g
    <3>3. T \subseteq 1 .. k - 1 /\ k \in 1..Len(g)
      BY <1>0, <1>9, <3>1 DEF k
    <3>4. Words(g, T \cup {k}) = Append(Words(g, T), g[k])
      BY <3>1, <3>3, WordsAppend
    <3> HIDE DEF spans
    <3> QED BY <2>1, <3>2, <3>4 DEF Ranges, rows, T, g
  <2>6. m + 2 \in Nat \ {0}
    OBVIOUS
  <2> HIDE DEF spans
  <2>7. Reader(new[w]) = State("regions", <<File(k)>>, Ranges(texts, w, k), m + 2)
    BY <2>4, <2>5
  <2>8. Imported(texts, w, k, new)
    BY <1>12, <2>1, <2>6, <2>7 DEF Imported
  <2> QED BY <2>8 DEF k, new, text
<1> QED BY <1>13, <1>14

(* All files.                                                              *)
LEMMA ImportEnds ==
  ASSUME NEW texts \in Seq(Seq(Chars)), NEW w \in Mark, AllClosed(texts, w),
         Len(Ascending(MarkedFiles(texts, w, Len(texts)))) <= A_LIST_INIT_LEN,
         MarkedFiles(texts, w, Len(texts)) # {}
  PROVE  NewRange(Import(texts)[w]) = [end |-> "insert", files |-> Ranges(texts, w, Len(texts))]
<1> DEFINE N == Len(texts)
           s == [i \in 1..N |-> i]
           p == <<"file", texts>>
           line == Import(texts)[w]
<1>0. N \in Nat
  BY LenProperties
<1>1. s \in Seq(Nat) /\ Len(s) = N
  <2>1. s \in [1..N -> Nat]
    OBVIOUS
  <2> QED BY <1>0, <2>1, FunctionIsText
<1>2. Import(texts) = Loop(p, NoLines, s)
  BY ImportIs
<1>3. \A i \in 1..N : s[i] = i
  OBVIOUS
<1>4. \A lines, i : Step(p, lines, i) = Bo(lines, File(i), texts[i])
  <2> TAKE lines, i
  <2>1. Step(p, lines, i) = Bo(lines, <<"file", i>>, texts[i])
    BY Steps, Zenon
  <2>2. File(i) = <<"file", i>>
    BY DEF File
  <2> QED BY <2>1, <2>2
<1> HIDE DEF N, s, p
<1>5. PICK r : Runs(p, NoLines, s, N, r) /\ Import(texts) = r[N]
  BY <1>1, <1>2, LoopRuns
<1>6. r[0] = NoLines /\ \A i \in 1..N : r[i] = Bo(r[i - 1], File(i), texts[i])
  BY <1>3, <1>4, <1>5 DEF Runs
<1> DEFINE K == {n \in 0..N : Imported(texts, w, n, r[n])}
<1>7. 0 \in K
  BY <1>0, <1>6, ImportStarts
<1>8. ASSUME NEW n \in 0 .. N - 1, n \in K PROVE n + 1 \in K
  <2>1. n + 1 \in 1..N /\ n + 1 \in 0..N /\ (n + 1) - 1 = n
    BY <1>0
  <2>2. Imported(texts, w, n, r[n])
    BY <1>8
  <2>3. Imported(texts, w, n + 1, Bo(r[n], File(n + 1), texts[n + 1]))
    BY <2>2, ImportGoes DEF N
  <2>4. r[n + 1] = Bo(r[n], File(n + 1), texts[n + 1])
    BY <1>6, <2>1
  <2> QED BY <2>1, <2>3, <2>4
<1> HIDE DEF K
<1>9. N \in K
  <2>1. \A n \in 0 .. N - 1 : n \in K => n + 1 \in K
    BY <1>8
  <2>2. 0..N \subseteq K
    BY <1>0, <1>7, <2>1, UpTo
  <2> QED BY <1>0, <2>2
<1>10. Imported(texts, w, N, r[N])
  BY <1>9 DEF K
<1>11. line \in Seq(Args)
  BY <1>5, <1>10 DEF Imported
<1>12. PICK fs, i : i \in Nat \ {0} /\ Reader(line) = State("regions", fs, Ranges(texts, w, N), i)
  BY <1>5, <1>10 DEF Imported, N
<1> HIDE DEF line
<1>13. ReadNewRange(line) = State("regions", fs, Ranges(texts, w, N), i)
  BY <1>11, <1>12, ReadNewRangeIs DEF Reader
<1> DEFINE rows == Ranges(texts, w, N)
           st == ReadNewRange(line)
<1> HIDE DEF rows
<1>14. st.at = "regions" /\ st.i = i /\ st.files = rows
  BY <1>13, StateParts DEF rows
<1>15. NewRange(line) = IF st.at \in {"err", "undefined"} THEN [end |-> st.at, files |-> <<>>]
                        ELSE IF st.i = 0 THEN [end |-> "err", files |-> <<>>]
                        ELSE [end |-> "insert", files |-> st.files]
  BY DEF NewRange
<1> HIDE DEF st
<1> QED BY <1>12, <1>14, <1>15 DEF rows, line, N

TextsTyped == kind = "marked" => input \in Seq(Seq(Chars))

(* The marked texts.                                                       *)
LEMMA TextsAreTyped == MCSpec => []TextsTyped
<1>1. MCInit => TextsTyped
  <2> SUFFICES ASSUME MCInit, kind = "marked" PROVE input \in Seq(Seq(Chars))
    BY DEF TextsTyped
  <2>1. input = <<<<>>>>
    BY DEF MCInit
  <2>2. <<>> \in Seq(Chars)
    BY EmptySeq
  <2> QED BY <2>1, <2>2
<1>2. TextsTyped /\ [MCNext]_<<kind, input, vars>> => TextsTyped'
  <2> SUFFICES ASSUME TextsTyped, [MCNext]_<<kind, input, vars>>, kind' = "marked"
               PROVE  input' \in Seq(Seq(Chars))
    BY DEF TextsTyped
  <2>1. CASE GrowText
    <3>1. input \in Seq(Seq(Chars))
      BY <2>1 DEF TextsTyped, GrowText
    <3>2. \/ \E ch \in Chars : input' = [input EXCEPT ![Len(input)] = Append(@, ch)]
          \/ input' = Append(input, <<>>)
      BY <2>1 DEF GrowText, GrowsTo, Chars
    <3>3. CASE input' = Append(input, <<>>)
      <4>1. <<>> \in Seq(Chars)
        BY EmptySeq
      <4> QED BY <3>1, <3>3, <4>1, AppendProperties
    <3>4. CASE \E ch \in Chars : input' = [input EXCEPT ![Len(input)] = Append(@, ch)]
      <4>1. PICK ch \in Chars : input' = [input EXCEPT ![Len(input)] = Append(@, ch)]
        BY <3>4
      <4>2. \A i \in 1..Len(input) : input[i] \in Seq(Chars) /\ Append(input[i], ch) \in Seq(Chars)
        BY <3>1, ElementOfSeq, AppendProperties
      <4>3. input = [i \in 1..Len(input) |-> input[i]] /\ Len(input) \in Nat
        BY <3>1, LenProperties
      <4>4. input' = [i \in 1..Len(input) |-> IF i = Len(input) THEN Append(input[i], ch) ELSE input[i]]
        BY <4>1, <4>3
      <4>5. input' \in [1..Len(input) -> Seq(Chars)]
        BY <4>2, <4>4
      <4> QED BY <4>3, <4>5, FunctionIsText
    <3> QED BY <3>2, <3>3, <3>4
  <2>2. CASE InsertRegions \/ UNCHANGED <<kind, input, vars>>
    BY <2>2 DEF TextsTyped, InsertRegions
  <2>3. CASE GrowNew \/ GrowOpen \/ GrowPrint \/ GrowLines
    BY <2>3 DEF GrowNew, GrowOpen, GrowPrint, GrowLines, GrowsTo
  <2> QED BY <2>1, <2>2, <2>3 DEF MCNext
<1> QED BY <1>1, <1>2, PTL DEF MCSpec

(* nosql/bo.c and Makefile: for any number of files and marks, texts of any *)
(* length and any set of marks, the arguments that bo writes for a mark make *)
(* yacet -g create the range of exactly the bytes between the marks of each *)
(* pair, where these are in the file without marks.                        *)
THEOREM ImportsAreExact == MCSpec => []ImportIsExact
<1>1. TextsTyped => ImportIsExact
  <2> SUFFICES ASSUME TextsTyped, kind = "marked", NEW w \in Mark
               PROVE  LET Places(fp) == Ascending({i \in 1..Len(input[fp]) : input[fp][i] = w})
                          Out(fp, i) == Cardinality({j \in 1..i : input[fp][j] = "o"})
                          Spans(fp) == [k \in 1 .. Len(Places(fp)) \div 2 |->
                              Region(Out(fp, Places(fp)[2 * k - 1]), Out(fp, Places(fp)[2 * k]))]
                          marked == Ascending({fp \in 1..Len(input) : Places(fp) # <<>>})
                          closed == \A fp \in ToSet(marked) :
                              /\ Len(Places(fp)) % 2 = 0
                              /\ \A k \in 1..Len(Spans(fp)) : Spans(fp)[k][2] < Spans(fp)[k][3] IN
                      closed /\ marked # <<>> /\ Len(marked) <= A_LIST_INIT_LEN =>
                          LET range == NewRange(Import(input)[w]) IN
                          /\ range.end = "insert" /\ Len(range.files) = Len(marked)
                          /\ \A n \in 1..Len(marked) :
                                /\ range.files[n].file = File(marked[n])
                                /\ IsUnion(range.files[n].it, Spans(marked[n]))
    BY ZenonT(60) DEF ImportIsExact
  <2> DEFINE N == Len(input)
             Places(fp) == Ascending({i \in 1..Len(input[fp]) : input[fp][i] = w})
             Out(fp, i) == Cardinality({j \in 1..i : input[fp][j] = "o"})
             Spans(fp) == [k \in 1 .. Len(Places(fp)) \div 2 |->
                 Region(Out(fp, Places(fp)[2 * k - 1]), Out(fp, Places(fp)[2 * k]))]
             marked == Ascending({fp \in 1..N : Places(fp) # <<>>})
             closed == \A fp \in ToSet(marked) :
                 /\ Len(Places(fp)) % 2 = 0
                 /\ \A k \in 1..Len(Spans(fp)) : Spans(fp)[k][2] < Spans(fp)[k][3]
             range == NewRange(Import(input)[w])
             imported == /\ range.end = "insert" /\ Len(range.files) = Len(marked)
                         /\ \A n \in 1..Len(marked) :
                               /\ range.files[n].file = File(marked[n])
                               /\ IsUnion(range.files[n].it, Spans(marked[n]))
             T == MarkedFiles(input, w, N)
  <2>1. input \in Seq(Seq(Chars)) /\ N \in Nat /\ \A i \in 1..N : input[i] \in Seq(Chars) /\ Len(input[i]) \in Nat
    <3>1. input \in Seq(Seq(Chars))
      BY DEF TextsTyped
    <3>2. N \in Nat /\ \A i \in 1..N : input[i] \in Seq(Chars)
      BY <3>1, LenProperties, ElementOfSeq
    <3> QED BY <3>1, <3>2, LenProperties
  <2>2. \A fp : Places(fp) = Marks(input[fp], w, Len(input[fp]))
    BY DEF Marks, PlacesTo
  <2>3. \A fp, i : Out(fp, i) = OutTo(input[fp], i)
    BY DEF OutTo
  <2>4. \A fp : Spans(fp) = SpansTo(input[fp], w, Len(input[fp]))
    <3> TAKE fp
    <3> HIDE DEF Places, Out
    <3> QED BY <2>2, <2>3 DEF SpansTo
  <2> HIDE DEF Places, Out, Spans
  <2>5. {fp \in 1..N : Places(fp) # <<>>} = T
    <3>1. \A fp \in 1..N : Places(fp) # <<>> <=> PlacesTo(input[fp], w, Len(input[fp])) # {}
      BY <2>1, <2>2, MarksType
    <3> QED BY <3>1 DEF MarkedFiles
  <2>6. marked = Ascending(T) /\ T \subseteq 1..N
    BY <2>5 DEF MarkedFiles
  <2> HIDE DEF T
  <2>7. /\ marked \in Seq(T) /\ Len(marked) \in Nat
        /\ \A i \in 1..Len(marked) : marked[i] \in 1..N
        /\ \A x \in T : \E i \in 1..Len(marked) : marked[i] = x
        /\ marked # <<>> => T # {}
    <3> DEFINE e == Ascending(T)
    <3>1. /\ e \in Seq(T) /\ Len(e) \in Nat
          /\ \A i \in 1..Len(e) : e[i] \in 1..N
          /\ \A x \in T : \E i \in 1..Len(e) : e[i] = x
          /\ (T = {} <=> e = <<>>)
      BY <2>1, <2>6, AscendingType
    <3> HIDE DEF marked, e
    <3> QED BY <2>6, <3>1 DEF e
  <2> HIDE DEF marked, N
  <2>8. ASSUME closed PROVE AllClosed(input, w)
    <3> SUFFICES ASSUME NEW fp \in 1..N
                 PROVE  /\ Len(Marks(input[fp], w, Len(input[fp]))) % 2 = 0
                        /\ AllProper(SpansTo(input[fp], w, Len(input[fp])))
      BY DEF AllClosed, N
    <3>1. CASE fp \in T
      <4>1. PICK i \in 1..Len(marked) : marked[i] = fp
        BY <2>7, <3>1
      <4>2. DOMAIN marked = 1..Len(marked)
        BY <2>7, LenProperties
      <4>3. fp \in ToSet(marked)
        BY <4>1, <4>2 DEF ToSet
      <4> QED BY <2>2, <2>4, <2>8, <4>3 DEF AllProper
    <3>2. CASE fp \notin T
      <4>1. Places(fp) = <<>>
        BY <2>5, <3>2
      <4>2. Marks(input[fp], w, Len(input[fp])) = <<>> /\ Len(<<>>) = 0 /\ 0 % 2 = 0 /\ 0 \div 2 = 0
        BY <2>2, <4>1
      <4>3. Len(SpansTo(input[fp], w, Len(input[fp]))) = 0
        BY <2>1, <4>2, SpansType
      <4> QED BY <4>2, <4>3 DEF AllProper
    <3> QED BY <3>1, <3>2
  <2>9. /\ Len(Ranges(input, w, N)) = Len(marked)
        /\ \A n \in 1..Len(marked) :
              Ranges(input, w, N)[n] = [file |-> File(marked[n]), it |-> ListOf(Spans(marked[n]))]
    <3>1. \A n \in 1..Len(marked) :
             [file |-> File(marked[n]), it |-> ListOf(Spans(marked[n]))] = FileTable(input, w)[marked[n]]
      BY <2>4, <2>7 DEF FileTable, N
    <3>2. Ranges(input, w, N) = [n \in 1..Len(marked) |-> FileTable(input, w)[marked[n]]]
      BY <2>6 DEF Ranges, Words, T
    <3>3. \A n \in 1..Len(marked) : Ranges(input, w, N)[n] = FileTable(input, w)[marked[n]]
      BY <3>2
    <3>4. Len(Ranges(input, w, N)) = Len(marked)
      BY <2>7, <3>2
    <3> QED BY <3>1, <3>3, <3>4
  <2>10. ASSUME closed, marked # <<>>, Len(marked) <= A_LIST_INIT_LEN PROVE imported
    <3>1. T # {} /\ Len(Ascending(T)) <= A_LIST_INIT_LEN
      BY <2>6, <2>7, <2>10
    <3>2. AllClosed(input, w)
      BY <2>8, <2>10
    <3>3. NewRange(Import(input)[w]) = [end |-> "insert", files |-> Ranges(input, w, N)]
      BY <2>1, <3>1, <3>2, ImportEnds DEF T, N
    <3>4. range.end = "insert" /\ range.files = Ranges(input, w, N)
      <4> DEFINE rows == Ranges(input, w, N)
      <4> HIDE DEF rows, range
      <4>1. range = [end |-> "insert", files |-> rows]
        BY <3>3 DEF rows, range
      <4> QED BY <4>1 DEF rows
    <3>5. ASSUME NEW n \in 1..Len(marked) PROVE IsUnion(ListOf(Spans(marked[n])), Spans(marked[n]))
      <4> DEFINE text == input[marked[n]]
                 m == Len(text)
                 s == SpansTo(text, w, m)
      <4>1. marked[n] \in 1..N /\ m \in Nat /\ Spans(marked[n]) = s
        BY <2>1, <2>4, <2>7
      <4>2. s \in Seq(Regions)
        BY <4>1, SpansType
      <4>3. AllProper(s)
        BY <3>2, <4>1 DEF AllClosed, N
      <4>4. \A k \in 1..Len(s) : Sound(s[k]) /\ ~Bridges(s, k)
        BY <4>1, <4>3, SpansFit
      <4> HIDE DEF s
      <4>5. IsUnion(ListOf(s), s)
        BY <4>2, <4>4, ListUnion, UnionIs
      <4> QED BY <4>1, <4>5
    <3> HIDE DEF range
    <3>6. \A n \in 1..Len(marked) :
             /\ range.files[n].file = File(marked[n])
             /\ range.files[n].it = ListOf(Spans(marked[n]))
      <4> TAKE n \in 1..Len(marked)
      <4>1. range.files[n] = [file |-> File(marked[n]), it |-> ListOf(Spans(marked[n]))]
        BY <2>9, <3>4
      <4> QED BY <4>1
    <3>7. Len(range.files) = Len(marked)
      BY <2>9, <3>4
    <3> QED BY <3>4, <3>5, <3>6, <3>7
  <2> QED BY <2>10 DEF closed, marked, imported, range, Places, Spans, Out, N
<1> QED BY <1>1, TextsAreTyped, PTL

-----------------------------------------------------------------------------
(* The files of -r and -w                                                  *)

(* 1..m has m numbers.                                                     *)
LEMMA UpToSize ==
  ASSUME NEW m \in Nat
  PROVE  IsFiniteSet(1..m) /\ Cardinality(1..m) = m
<1>1. IsFiniteSet(1..m) /\ Cardinality(1..m) = m
  BY FS_Interval
<1> QED BY <1>1

(* A larger set of places counts for more.                                 *)
LEMMA CountGrows ==
  ASSUME NEW m \in Nat, NEW S, NEW T, S \subseteq T, T \subseteq 1..m
  PROVE  /\ Cardinality(S) \in Nat /\ Cardinality(T) \in Nat /\ Cardinality(S) <= Cardinality(T)
         /\ Cardinality(T) <= m
         /\ S # T => Cardinality(S) < Cardinality(T)
<1>1. IsFiniteSet(1..m) /\ Cardinality(1..m) = m
  BY UpToSize
<1>2. IsFiniteSet(T) /\ Cardinality(T) <= m
  BY <1>1, FS_Subset
<1>3. IsFiniteSet(S) /\ Cardinality(S) <= Cardinality(T) /\ (Cardinality(S) = Cardinality(T) => S = T)
  BY <1>2, FS_Subset
<1>4. Cardinality(S) \in Nat /\ Cardinality(T) \in Nat
  BY <1>2, <1>3, FS_CardinalityType
<1> QED BY <1>2, <1>3, <1>4

Below(names, v) == Cardinality({i \in 1..Len(names) : names[i] < v})
NotAbove(names, v) == Cardinality({i \in 1..Len(names) : names[i] <= v})

(* How many names are below v and not above v.                             *)
LEMMA Counts ==
  ASSUME NEW names \in Seq(Nat), NEW u \in Nat, NEW v \in Nat
  PROVE  /\ Below(names, v) \in Nat /\ NotAbove(names, v) \in 0..Len(names)
         /\ u < v => NotAbove(names, u) <= Below(names, v)
         /\ v \in ToSet(names) => Below(names, v) < NotAbove(names, v)
<1>0. Len(names) \in Nat /\ \A i \in 1..Len(names) : names[i] \in Nat
  BY LenProperties, ElementOfSeq
<1> DEFINE N == Len(names)
           L(x) == {i \in 1..N : names[i] < x}
           M(x) == {i \in 1..N : names[i] <= x}
<1>1. Below(names, v) = Cardinality(L(v)) /\ NotAbove(names, v) = Cardinality(M(v)) /\ NotAbove(names, u) = Cardinality(M(u))
  BY DEF Below, NotAbove
<1>2. L(v) \subseteq M(v) /\ M(v) \subseteq 1..N /\ L(v) \subseteq 1..N
  BY <1>0
<1>3. u < v => M(u) \subseteq L(v)
  BY <1>0
<1>4. v \in ToSet(names) => L(v) # M(v)
  <2> SUFFICES ASSUME v \in ToSet(names) PROVE L(v) # M(v)
    OBVIOUS
  <2>1. PICK i \in 1..N : names[i] = v
    BY LenProperties DEF ToSet
  <2>2. i \in M(v) /\ i \notin L(v)
    BY <1>0, <2>1
  <2> QED BY <2>2
<1> HIDE DEF L, M
<1>5. Cardinality(L(v)) \in Nat /\ Cardinality(M(v)) \in Nat /\ Cardinality(M(v)) <= N
  BY <1>0, <1>2, CountGrows
<1>6. u < v => Cardinality(M(u)) <= Cardinality(L(v))
  BY <1>0, <1>2, <1>3, CountGrows
<1>7. v \in ToSet(names) => Cardinality(L(v)) < Cardinality(M(v))
  BY <1>0, <1>2, <1>4, CountGrows
<1> QED BY <1>0, <1>1, <1>5, <1>6, <1>7

(* The n-th name in order. *)
Ranks(names, n, v) == v \in ToSet(names) /\ Below(names, v) < n /\ NotAbove(names, v) >= n

(* There is an n-th name ...                                               *)
LEMMA RankExists ==
  ASSUME NEW names \in Seq(Nat), NEW n \in 1..Len(names)
  PROVE  \E v \in ToSet(names) : Ranks(names, n, v)
<1>0. /\ Len(names) \in Nat /\ \A i \in 1..Len(names) : names[i] \in Nat
      /\ ToSet(names) = {names[i] : i \in 1..Len(names)}
  BY LenProperties, ElementOfSeq DEF ToSet
<1> DEFINE N == Len(names)
           T == {v \in ToSet(names) : NotAbove(names, v) >= n}
<1>1. T \subseteq Nat
  BY <1>0
<1>2. T # {}
  <2> DEFINE K == {k \in 0..N : k = 0 \/ \E i \in 1..k : \A j \in 1..k : names[j] <= names[i]}
  <2>1. 0 \in K
    BY <1>0
  <2>2. ASSUME NEW k \in 0 .. N - 1, k \in K PROVE k + 1 \in K
    <3>1. k + 1 \in 1..N /\ \A j \in 1 .. k + 1 : j \in 1..k \/ j = k + 1
      BY <1>0
    <3>2. CASE k = 0
      <4>1. \A j \in 1 .. k + 1 : names[j] <= names[k + 1]
        BY <1>0, <3>1, <3>2
      <4> QED BY <3>1, <4>1
    <3>3. CASE k # 0
      <4>1. PICK i \in 1..k : \A j \in 1..k : names[j] <= names[i]
        BY <2>2, <3>3
      <4>2. \A j \in 1 .. k + 1 : j \in 1..N
        BY <1>0
      <4>3. i \in 1 .. k + 1 /\ k + 1 \in 1 .. k + 1
        BY <1>0
      <4>4. CASE names[k + 1] <= names[i]
        <5>1. \A j \in 1 .. k + 1 : names[j] <= names[i]
          BY <3>1, <4>1, <4>4
        <5> QED BY <3>1, <4>3, <5>1
      <4>5. CASE ~(names[k + 1] <= names[i])
        <5>1. \A j \in 1 .. k + 1 : names[j] <= names[k + 1]
          BY <1>0, <3>1, <4>1, <4>2, <4>3, <4>5
        <5> QED BY <3>1, <4>3, <5>1
      <4> QED BY <4>4, <4>5
    <3> QED BY <3>2, <3>3
  <2> HIDE DEF K, N
  <2>20. N \in Nat
    BY <1>0 DEF N
  <2>21. 0..N \subseteq K
    BY <2>20, <2>1, <2>2, UpTo
  <2>3. N \in K
    BY <2>20, <2>21
  <2>4. PICK i \in 1..N : \A j \in 1..N : names[j] <= names[i]
    <3>1. N # 0
      BY <1>0 DEF N
    <3> QED BY <2>3, <3>1 DEF K
  <2>5. {j \in 1..N : names[j] <= names[i]} = 1..N
    BY <2>4
  <2>6. NotAbove(names, names[i]) = N
    <3>1. NotAbove(names, names[i]) = Cardinality({j \in 1..N : names[j] <= names[i]})
      BY DEF NotAbove, N
    <3> QED BY <2>20, <2>5, <3>1, UpToSize
  <2>7. names[i] \in ToSet(names)
    BY <1>0 DEF N
  <2> QED BY <1>0, <2>6, <2>7 DEF N
<1> HIDE DEF T
<1>3. PICK v \in T : \A y \in T : v <= y
  BY <1>1, <1>2, Least
<1>4. v \in ToSet(names) /\ NotAbove(names, v) >= n /\ v \in Nat
  BY <1>1 DEF T
<1>5. Below(names, v) < n
  <2> DEFINE L == {i \in 1..N : names[i] < v}
  <2>0. Below(names, v) = Cardinality(L)
    BY DEF Below
  <2>1. CASE L = {}
    <3>1. Cardinality(L) = 0
      BY <2>1, FS_EmptySet
    <3> HIDE DEF L
    <3> QED BY <2>0, <3>1
  <2>2. CASE L # {}
    <3> DEFINE U == {v - names[i] : i \in L}
    <3>1. U \subseteq Nat /\ U # {}
      <4>1. \A i \in L : v - names[i] \in Nat
        BY <1>0, <1>4
      <4> HIDE DEF L
      <4> QED BY <4>1, <2>2
    <3> HIDE DEF U
    <3>2. PICK d \in U : \A y \in U : d <= y
      BY <3>1, Least
    <3> USE DEF U
    <3>3. PICK i \in L : d = v - names[i]
      BY <3>2
    <3>4. \A j \in L : v - names[i] <= v - names[j]
      <4> HIDE DEF L
      <4> QED BY <3>2, <3>3
    <3> HIDE DEF U
    <3>5. L \subseteq {j \in 1..N : names[j] <= names[i]}
      <4>1. ASSUME NEW j \in L PROVE names[j] <= names[i]
        <5>1. names[j] \in Nat /\ names[i] \in Nat /\ v - names[i] <= v - names[j]
          BY <1>0, <3>3, <3>4
        <5> QED BY <1>4, <5>1
      <4> QED BY <4>1
    <3>6. names[i] \in ToSet(names) /\ names[i] \in Nat /\ names[i] < v
      BY <1>0, <3>3
    <3>7. ~(NotAbove(names, names[i]) >= n)
      <4>1. names[i] \notin T
        BY <1>3, <1>4, <3>6
      <4> QED BY <3>6, <4>1 DEF T
    <3>8. /\ Cardinality(L) <= NotAbove(names, names[i]) /\ Cardinality(L) \in Nat
          /\ NotAbove(names, names[i]) \in Nat
      <4>1. {j \in 1..N : names[j] <= names[i]} \subseteq 1..N
        OBVIOUS
      <4> HIDE DEF L
      <4> QED BY <1>0, <3>5, <4>1, CountGrows DEF NotAbove
    <3> QED BY <2>0, <3>7, <3>8
  <2> QED BY <2>1, <2>2
<1> QED BY <1>4, <1>5 DEF Ranks

(* ... and only one; names do not descend.                                 *)
LEMMA RankOnce ==
  ASSUME NEW names \in Seq(Nat), NEW m \in Nat, NEW n \in Nat, m <= n,
         NEW u, Ranks(names, m, u), NEW v, Ranks(names, n, v)
  PROVE  u \in Nat /\ v \in Nat /\ u <= v
<1>1. u \in Nat /\ v \in Nat
  BY LenProperties, ElementOfSeq DEF Ranks, ToSet
<1>2. v < u => NotAbove(names, v) <= Below(names, u)
  BY <1>1, Counts
<1>3. Below(names, u) \in Nat /\ NotAbove(names, v) \in Nat
  BY <1>1, Counts, LenProperties
<1> QED BY <1>1, <1>2, <1>3 DEF Ranks

(* What qsort makes of the names: s is in order and has the same names.    *)
Ordered(names, s) ==
    /\ s = [n \in 1..Len(names) |-> s[n]]
    /\ Len(s) = Len(names)
    /\ \A i, j \in 1..Len(names) : i <= j => s[i] <= s[j]
    /\ {s[i] : i \in 1..Len(names)} = ToSet(names)

(* qsort leaves the same names, in order.                                  *)
LEMMA SortedIsOrdered ==
  ASSUME NEW names \in Seq(Nat)
  PROVE  Sorted(names) \in Seq(ToSet(names)) /\ Ordered(names, Sorted(names))
<1> DEFINE N == Len(names)
           s == [n \in 1..N |-> CHOOSE v \in ToSet(names) : Ranks(names, n, v)]
<1>0. N \in Nat /\ ToSet(names) = {names[i] : i \in 1..N} /\ \A i \in 1..N : names[i] \in Nat
  BY LenProperties, ElementOfSeq DEF ToSet
<1>1. Sorted(names) = s
  <2> DEFINE R(n, v) == /\ Cardinality({i \in 1..N : names[i] < v}) < n
                        /\ Cardinality({i \in 1..N : names[i] <= v}) >= n
  <2>1. Sorted(names) = [n \in 1..N |-> CHOOSE v \in ToSet(names) : R(n, v)]
    BY DEF Sorted
  <2>2. \A n : \A v \in ToSet(names) : R(n, v) <=> Ranks(names, n, v)
    BY DEF Ranks, Below, NotAbove
  <2> HIDE DEF R
  <2>3. \A n : (CHOOSE v \in ToSet(names) : R(n, v)) = (CHOOSE v \in ToSet(names) : Ranks(names, n, v))
    BY <2>2
  <2> QED BY <2>1, <2>3
<1>2. \A n \in 1..N : s[n] \in ToSet(names) /\ Ranks(names, n, s[n])
  BY RankExists
<1>3. s = [n \in 1..N |-> s[n]]
  OBVIOUS
<1> HIDE DEF s, N
<1>4. s \in [1..N -> ToSet(names)]
  BY <1>2, <1>3
<1>5. s \in Seq(ToSet(names)) /\ Len(s) = N
  BY <1>0, <1>4, FunctionIsText
<1>6. \A i, j \in 1..N : i <= j => s[i] <= s[j]
  BY <1>0, <1>2, RankOnce
<1>7. ASSUME NEW v \in ToSet(names) PROVE \E n \in 1..N : s[n] = v
  <2> DEFINE n == NotAbove(names, v)
  <2>1. v \in Nat
    BY <1>0
  <2>2. n \in 0..N /\ Below(names, v) \in Nat /\ Below(names, v) < n
    BY <2>1, Counts DEF N
  <2> HIDE DEF n
  <2>3. n \in 1..N /\ n \in Nat
    BY <1>0, <2>2
  <2>4. Ranks(names, n, v)
    BY <2>2, <2>3 DEF Ranks, n
  <2>5. s[n] <= v /\ v <= s[n] /\ s[n] \in Nat
    BY <1>2, <2>3, <2>4, RankOnce
  <2> QED BY <2>1, <2>3, <2>5
<1>8. {s[i] : i \in 1..N} = ToSet(names)
  BY <1>2, <1>7
<1> QED BY <1>1, <1>3, <1>5, <1>6, <1>8 DEF Ordered, N

(* Names that differ are all different when sorted. *)
LEMMA SortedDiffer ==
  ASSUME NEW names \in Seq(Nat), NEW s, Ordered(names, s), Cardinality(ToSet(names)) = Len(names)
  PROVE  \A i, j \in 1..Len(names) : s[i] = s[j] => i = j
<1> DEFINE N == Len(names)
<1>1. N \in Nat /\ IsFiniteSet(1..N) /\ Cardinality(1..N) = N
  BY LenProperties, UpToSize
<1>2. s \in [1..N -> ToSet(names)]
  BY DEF Ordered
<1>3. s \in Surjection(1..N, ToSet(names))
  BY <1>2 DEF Surjection, Ordered
<1>4. s \in Injection(1..N, ToSet(names))
  BY <1>1, <1>3, FS_SurjSameCardinalityImpliesInj
<1> QED BY <1>4 DEF Injection, IsInjective

NoNames == [kept |-> <<>>, fits |-> TRUE]

(* The fold of DropRepeated is the loop over the sorted names.             *)
LEMMA DropIs ==
  ASSUME NEW A, NEW names \in Seq(A)
  PROVE  DropRepeated(names) = Loop(<<"name", names>>, NoNames, [i \in 1..Len(names) |-> i])
<1> DEFINE s == [i \in 1..Len(names) |-> i]
<1>0. Len(names) \in Nat /\ DOMAIN names = 1..Len(names)
  BY LenProperties
<1>01. s \in Seq(Nat) /\ Len(s) = Len(names) /\ DOMAIN s = 1..Len(s)
  <2>1. s \in [1..Len(names) -> Nat]
    OBVIOUS
  <2> QED BY <1>0, <2>1, FunctionIsText
<1> DEFINE D == DOMAIN s
           F(h) == [T \in SUBSET D |->
                      IF T = {} THEN NoNames
                      ELSE DropName(names, h[T \ {Max(T)}], s[Max(T)])]
           G(h) == [T \in SUBSET (1..Len(s)) |->
                      IF T = {} THEN NoNames ELSE Step(<<"name", names>>, h[T \ {Max(T)}], s[Max(T)])]
           P(h) == h = F(h)
           d == CHOOSE h : P(h)
<1>1. DropRepeated(names) = d[D]
  BY <1>0 DEF DropRepeated, FoldLeftDomain, FoldLeft, MapThenFoldSet, NoNames
<1> HIDE DEF s
<1>2. ASSUME NEW h PROVE P(h) <=> FoldsTo(<<"name", names>>, NoNames, s, Len(s), h)
  <2>1. \A T \in SUBSET D : F(h)[T] = G(h)[T]
    BY <1>01, Steps
  <2>2. F(h) = G(h)
    BY <1>01, <2>1
  <2> HIDE DEF F
  <2> QED BY <2>2 DEF FoldsTo
<1> HIDE DEF P
<1>3. \E h : P(h)
  BY <1>0, <1>01, <1>2, FoldExists
<1>4. P(d)
  BY <1>3
<1> HIDE DEF d
<1>5. d[1..Len(s)] = Loop(<<"name", names>>, NoNames, s)
  BY <1>01, <1>2, <1>4, LoopIs
<1> QED BY <1>01, <1>1, <1>5 DEF s

(* Each name once: the names in order, no longer one after a repeated one. *)
Upwards(s) ==
    /\ \A i \in 1..Len(s) : s[i] \in Nat /\ NameLen[s[i]] \in Nat
    /\ \A i, j \in 1..Len(s) : i <= j => s[i] <= s[j]

Different(s) == \A i, j \in 1..Len(s) : s[i] = s[j] => i = j

Shorter(s) == \A i, j \in 1..Len(s) : s[i] < s[j] => NameLen[s[j]] <= NameLen[s[i]]

NamesTo(s, j) == {s[i] : i \in 1..j}

Kept(s, j, st) ==
    /\ st = [kept |-> st.kept, fits |-> TRUE]
    /\ Lists(st.kept, NamesTo(s, j))
    /\ Len(st.kept) \in 1..j /\ st.kept[Len(st.kept)] = s[j]
    /\ Different(s) => Len(st.kept) = j

(* The first name.                                                         *)
LEMMA KeptStarts ==
  ASSUME NEW s, Len(s) \in Nat \ {0}
  PROVE  Kept(s, 1, DropName(s, NoNames, 1))
<1> DEFINE k == <<s[1]>>
<1>1. DropName(s, NoNames, 1) = [kept |-> k, fits |-> TRUE]
  BY DEF DropName, NoNames
<1>2. NamesTo(s, 1) = {s[1]}
  BY DEF NamesTo
<1>3. Len(k) = 1 /\ k[1] = s[1] /\ k \in Seq({s[1]})
  OBVIOUS
<1> HIDE DEF k
<1>4. Lists(k, NamesTo(s, 1))
  BY <1>2, <1>3 DEF Lists
<1>5. [kept |-> k, fits |-> TRUE].kept = k
  OBVIOUS
<1>6. 1 \in 1..1
  OBVIOUS
<1> QED BY <1>1, <1>3, <1>4, <1>5, <1>6 DEF Kept

(* One more name: it is new, or it is the last one again.                  *)
LEMMA KeptGoes ==
  ASSUME NEW s, Len(s) \in Nat, Upwards(s), Different(s) \/ Shorter(s),
         NEW j \in 1 .. Len(s) - 1, NEW st, Kept(s, j, st)
  PROVE  Kept(s, j + 1, DropName(s, st, j + 1))
<1> DEFINE k == st.kept
           x == s[j + 1]
<1>1. /\ j + 1 \in 1..Len(s) /\ j \in 1..Len(s) /\ j \in Nat /\ j + 1 # 1
      /\ \A i \in 1..j : i \in 1..Len(s) /\ i <= j /\ i <= j + 1 /\ i # j + 1
      /\ \A i \in 1 .. j + 1 : i \in 1..j \/ i = j + 1
  OBVIOUS
<1>2. s[j] \in Nat /\ x \in Nat /\ s[j] <= x /\ \A i \in 1..j : s[i] \in Nat /\ s[i] <= s[j]
  BY <1>1 DEF Upwards
<1>3. NamesTo(s, j + 1) = NamesTo(s, j) \cup {x}
  <2>1. \A v : v \in NamesTo(s, j + 1) <=> \E i \in 1 .. j + 1 : v = s[i]
    BY DEF NamesTo
  <2>2. \A v : v \in NamesTo(s, j) <=> \E i \in 1..j : v = s[i]
    BY DEF NamesTo
  <2>3. \A i \in 1..j : i \in 1 .. j + 1
    OBVIOUS
  <2>4. j + 1 \in 1 .. j + 1
    OBVIOUS
  <2> QED BY <1>1, <2>1, <2>2, <2>3, <2>4
<1>4. /\ st = [kept |-> k, fits |-> TRUE] /\ Lists(k, NamesTo(s, j)) /\ Len(k) \in 1..j /\ k[Len(k)] = s[j]
      /\ Different(s) => Len(k) = j
  BY DEF Kept
<1>5. DropName(s, st, j + 1) = IF k[Len(k)] = x THEN st
                               ELSE [kept |-> Append(k, x),
                                     fits |-> st.fits /\ NameLen[x] <= NameLen[s[Len(k) + 1]]]
  BY <1>1 DEF DropName, Last
<1>6. NamesTo(s, j) \subseteq Nat /\ \A v \in NamesTo(s, j) : v <= s[j]
  BY <1>2 DEF NamesTo
<1> HIDE DEF k, x
<1>7. CASE s[j] = x
  <2>1. DropName(s, st, j + 1) = st
    BY <1>4, <1>5, <1>7
  <2>2. s[j] \in NamesTo(s, j)
    BY <1>1 DEF NamesTo
  <2>3. NamesTo(s, j + 1) = NamesTo(s, j)
    BY <1>3, <1>7, <2>2
  <2>4. ~Different(s)
    BY <1>1, <1>7 DEF Different, x
  <2>5. Len(k) \in 1 .. j + 1
    BY <1>4
  <2>6. Kept(s, j + 1, st)
    BY <1>4, <1>7, <2>3, <2>4, <2>5 DEF Kept, k, x
  <2> QED BY <2>1, <2>6
<1>8. CASE s[j] # x
  <2> DEFINE p == Len(k) + 1
             g == Append(k, x)
  <2>1. p \in 1 .. j + 1 /\ p \in 1..Len(s) /\ p <= j + 1
    BY <1>4, <1>1
  <2>2. NameLen[x] <= NameLen[s[p]]
    <3>1. NameLen[x] \in Nat /\ s[p] \in Nat /\ NameLen[s[p]] \in Nat /\ s[p] <= x
      BY <1>1, <2>1 DEF Upwards, x
    <3>2. CASE Different(s)
      <4>1. s[p] = x
        BY <1>4, <3>2 DEF x
      <4> QED BY <3>1, <4>1
    <3>3. CASE Shorter(s)
      <4>1. s[p] = x \/ s[p] < x
        BY <1>2, <3>1
      <4>2. s[p] < x => NameLen[x] <= NameLen[s[p]]
        BY <1>1, <2>1, <3>3 DEF Shorter, x
      <4> QED BY <3>1, <4>1, <4>2
    <3> QED BY <3>2, <3>3
  <2>3. (st.fits /\ NameLen[x] <= NameLen[s[p]]) = TRUE
    BY <1>4, <2>2
  <2>4. DropName(s, st, j + 1) = [kept |-> g, fits |-> TRUE]
    BY <1>4, <1>5, <1>8, <2>3
  <2>5. Lists(<<x>>, {x}) /\ {x} \subseteq Nat
    <3>1. <<x>> \in Seq({x}) /\ Len(<<x>>) = 1 /\ <<x>>[1] = x
      OBVIOUS
    <3> QED BY <1>2, <3>1 DEF Lists
  <2>6. \A v \in NamesTo(s, j), y \in {x} : v < y
    BY <1>2, <1>6, <1>8
  <2>7. Lists(k \o <<x>>, NamesTo(s, j + 1))
    BY <1>3, <1>4, <1>6, <2>5, <2>6, ListsJoin
  <2>8. k \in Seq(Nat) /\ Len(k) \in Nat
    <3>1. Len(k) \in Nat /\ k \in [1..Len(k) -> NamesTo(s, j)]
      BY <1>4, <1>6, ListedType
    <3>2. k \in [1..Len(k) -> Nat]
      BY <1>6, <3>1
    <3> QED BY <3>1, <3>2, FunctionIsText
  <2>9. g = k \o <<x>>
    BY <1>2, <2>8, AppendIsConcat
  <2>10. Len(g) = p /\ g[p] = x
    BY <1>2, <2>8, AppendProperties
  <2>11. Different(s) => p = j + 1
    BY <1>4
  <2> HIDE DEF g, p
  <2>12. [kept |-> g, fits |-> TRUE].kept = g
    OBVIOUS
  <2>13. Kept(s, j + 1, [kept |-> g, fits |-> TRUE])
    BY <2>1, <2>7, <2>9, <2>10, <2>11, <2>12 DEF Kept, x
  <2> QED BY <2>4, <2>13
<1> QED BY <1>7, <1>8

(* All names.                                                              *)
LEMMA KeptEnds ==
  ASSUME NEW s \in Seq(Nat), Len(s) # 0, Upwards(s), Different(s) \/ Shorter(s)
  PROVE  DropRepeated(s) = [kept |-> Ascending({s[i] : i \in 1..Len(s)}), fits |-> TRUE]
<1> DEFINE N == Len(s)
           places == [i \in 1..N |-> i]
           p == <<"name", s>>
<1>0. N \in Nat /\ N > 0
  BY LenProperties
<1>1. places \in Seq(Nat) /\ Len(places) = N
  <2>1. places \in [1..N -> Nat]
    OBVIOUS
  <2> QED BY <1>0, <2>1, FunctionIsText
<1>2. DropRepeated(s) = Loop(p, NoNames, places)
  BY DropIs
<1>3. \A k \in 1..N : places[k] = k
  OBVIOUS
<1> HIDE DEF places
<1>4. PICK r : Runs(p, NoNames, places, N, r) /\ DropRepeated(s) = r[N]
  BY <1>1, <1>2, LoopRuns
<1>5. r[0] = NoNames /\ \A k \in 1..N : r[k] = DropName(s, r[k - 1], k)
  <2>1. r[0] = NoNames /\ \A k \in 1..N : r[k] = Step(p, r[k - 1], places[k])
    BY <1>4 DEF Runs
  <2> QED BY <1>3, <2>1, Steps
<1> DEFINE K == {k \in 0 .. N - 1 : Kept(s, k + 1, r[k + 1])}
<1> HIDE DEF N
<1>6. 0 \in K
  <2>1. 1 \in 1..N /\ 0 \in 0 .. N - 1 /\ 0 + 1 = 1 /\ 1 - 1 = 0
    BY <1>0
  <2>2. r[1] = DropName(s, NoNames, 1)
    BY <1>5, <2>1
  <2>3. Kept(s, 1, r[1])
    BY <1>0, <2>2, KeptStarts DEF N
  <2> QED BY <2>1, <2>3
<1>7. ASSUME NEW k \in 0 .. (N - 1) - 1, k \in K PROVE k + 1 \in K
  <2>1. k + 1 \in 1 .. N - 1 /\ (k + 1) + 1 \in 1..N /\ ((k + 1) + 1) - 1 = k + 1 /\ k + 1 \in 0 .. N - 1
    BY <1>0
  <2>2. Kept(s, k + 1, r[k + 1])
    BY <1>7
  <2>3. Kept(s, (k + 1) + 1, DropName(s, r[k + 1], (k + 1) + 1))
    BY <1>0, <2>1, <2>2, KeptGoes DEF N
  <2>4. r[(k + 1) + 1] = DropName(s, r[k + 1], (k + 1) + 1)
    BY <1>5, <2>1
  <2> QED BY <2>1, <2>3, <2>4
<1> HIDE DEF K
<1>8. 0 .. N - 1 \subseteq K
  <2> DEFINE m == N - 1
  <2>1. m \in Nat /\ 0 \in K
    BY <1>0, <1>6
  <2>2. \A k \in 0 .. m - 1 : k \in K => k + 1 \in K
    BY <1>7
  <2> HIDE DEF m
  <2>3. 0..m \subseteq K
    BY <2>1, <2>2, UpTo
  <2> QED BY <2>3 DEF m
<1>9. N - 1 \in K /\ (N - 1) + 1 = N
  BY <1>0, <1>8
<1>10. Kept(s, N, r[N])
  BY <1>9 DEF K
<1>11. r[N] = [kept |-> r[N].kept, fits |-> TRUE] /\ Lists(r[N].kept, NamesTo(s, N))
  BY <1>10 DEF Kept
<1>12. NamesTo(s, N) \subseteq Nat
  BY <1>0 DEF NamesTo, Upwards, N
<1>13. r[N].kept = Ascending(NamesTo(s, N))
  BY <1>11, <1>12, AscendingIs
<1> QED BY <1>4, <1>11, <1>13 DEF NamesTo, N

(* The least of some places.                                               *)
LEMMA MinIs ==
  ASSUME NEW S, S \subseteq Nat, NEW x \in S, \A y \in S : x <= y
  PROVE  Min(S) = x
<1>1. \A z \in S : (\A y \in S : z <= y) <=> z = x
  OBVIOUS
<1> QED BY <1>1 DEF Min

(* Where a search stops that has a hit.                                    *)
LEMMA FirstIs ==
  ASSUME NEW argv, Len(argv) \in Nat, NEW H, NEW x \in H, H \subseteq x..Len(argv), x \in Nat
  PROVE  FirstOf(argv, H) = x
<1>1. H \subseteq Nat /\ \A y \in H : x <= y
  OBVIOUS
<1>2. Min(H) = x
  BY <1>1, MinIs
<1> QED BY <1>2 DEF FirstOf

(* The words of -r and -w.                                                 *)
LEMMA OpenFlags ==
  /\ Flag("-f") # Flag("-e") /\ Flag("-f") # Flag("-E") /\ Flag("-e") # Flag("-E")
  /\ IsFlag(Flag("-f")) /\ IsFlag(Flag("-e")) /\ IsFlag(Flag("-E")) /\ IsFlag(Flag("-p"))
  /\ \A n : ~IsFlag(File(n)) /\ File(n)[2] = n
  /\ \A t \in OpenArgs : ~IsFlag(t) => t[2] \in 1..3
<1>1. /\ Flag("-f") # Flag("-e") /\ Flag("-f") # Flag("-E") /\ Flag("-e") # Flag("-E")
      /\ IsFlag(Flag("-f")) /\ IsFlag(Flag("-e")) /\ IsFlag(Flag("-E")) /\ IsFlag(Flag("-p"))
  BY DEF Flag, IsFlag
<1>2. \A n : ~IsFlag(File(n)) /\ File(n)[2] = n
  BY DEF File, IsFlag
<1>3. \A t \in OpenArgs : t \in {Flag("-f"), Flag("-e"), Flag("-E"), Flag("-p")} \/ \E n \in 1..3 : t = File(n)
  BY DEF OpenArgs
<1> QED BY <1>1, <1>2, <1>3

(* The parts of -r FILE... -e EXE... *)
Opening(argv, first, e) ==
    /\ first = (IF argv[1] = Flag("-f") THEN 2 ELSE 1) /\ first < e
    /\ e \in 2 .. Len(argv) - 1
    /\ argv[e] \in {Flag("-e"), Flag("-E")}
    /\ \A i \in first .. e - 1 : ~IsFlag(argv[i])

Named(argv, first, e) == {argv[i][2] : i \in first .. e - 1}

(* Where the searches of -r and -w stop.                                   *)
LEMMA OpeningParts ==
  ASSUME NEW argv \in Seq(OpenArgs), NEW first, NEW e, Opening(argv, first, e)
  PROVE  /\ FirstOf(argv, {i \in 1..Len(argv) : argv[i] # Flag("-f")}) = first
         /\ FirstOf(argv, {i \in first..Len(argv) : IsFlag(argv[i])}) = e
         /\ FirstOf(argv, {i \in e..Len(argv) : argv[i] \in {Flag("-e"), Flag("-E")}}) = e
<1> DEFINE N == Len(argv)
           H1 == {i \in 1..N : argv[i] # Flag("-f")}
           H2 == {i \in first..N : IsFlag(argv[i])}
           H3 == {i \in e..N : argv[i] \in {Flag("-e"), Flag("-E")}}
<1>0. /\ N \in Nat /\ first \in {1, 2} /\ first < e /\ e \in 2 .. N - 1 /\ first \in 1..N /\ first \in first .. e - 1
      /\ e \in first..N /\ e \in e..N /\ first \in Nat /\ e \in Nat
  BY LenProperties DEF Opening
<1>1. first \in H1 /\ H1 \subseteq first..N
  <2>1. ~IsFlag(argv[first])
    BY <1>0 DEF Opening
  <2>2. argv[first] # Flag("-f")
    BY <2>1, OpenFlags
  <2>3. ASSUME NEW i \in H1 PROVE i \in first..N
    <3>1. first = 2 => argv[1] = Flag("-f")
      BY DEF Opening
    <3>2. first = 2 => i # 1
      BY <3>1
    <3> QED BY <1>0, <3>2
  <2> QED BY <1>0, <2>2, <2>3
<1>2. e \in H2 /\ H2 \subseteq e..N
  <2>1. IsFlag(argv[e])
    BY OpenFlags DEF Opening
  <2>2. ASSUME NEW i \in H2 PROVE i \in e..N
    <3>1. ~(i \in first .. e - 1)
      BY DEF Opening
    <3> QED BY <1>0, <3>1
  <2> QED BY <1>0, <2>1, <2>2
<1>3. e \in H3 /\ H3 \subseteq e..N
  BY <1>0 DEF Opening
<1> HIDE DEF H1, H2, H3
<1>4. FirstOf(argv, H1) = first /\ FirstOf(argv, H2) = e /\ FirstOf(argv, H3) = e
  BY <1>0, <1>1, <1>2, <1>3, FirstIs
<1> QED BY <1>4 DEF H1, H2, H3

(* What -r and -w do with words of the documented form.                    *)
LEMMA OpenIs ==
  ASSUME NEW argv \in Seq(OpenArgs), NEW first, NEW e, Opening(argv, first, e),
         \/ Cardinality(Named(argv, first, e)) = e - first
         \/ \A i, j \in Named(argv, first, e) : i < j => NameLen[j] <= NameLen[i]
  PROVE  OpenRange(argv) = [end |-> "open",
                            files |-> Ascending(Named(argv, first, e)),
                            multiple |-> argv[e] = Flag("-E"),
                            exe |-> SubSeq(argv, e + 1, Len(argv))]
<1> DEFINE N == Len(argv)
           named == Named(argv, first, e)
           names == [i \in 1 .. e - first |-> argv[first + i - 1][2]]
           s == Sorted(names)
           exe == [i \in 1 .. N - e |-> IF e = first /\ e + i = first + 1 THEN <<"null">> ELSE argv[e + i]]
           tail == SubSeq(argv, e + 1, N)
<1>0. /\ N \in Nat /\ first \in {1, 2} /\ first < e /\ e \in 2 .. N - 1 /\ e - first \in Nat \ {0}
      /\ first \in Nat /\ e \in Nat
  BY LenProperties DEF Opening
<1>1. ASSUME NEW i \in first .. e - 1 PROVE argv[i][2] \in 1..3
  <2>1. i \in 1..N /\ ~IsFlag(argv[i])
    BY <1>0 DEF Opening
  <2>2. argv[i] \in OpenArgs
    BY <2>1, ElementOfSeq
  <2> QED BY <2>1, <2>2, OpenFlags
<1>2. names \in Seq(Nat) /\ Len(names) = e - first
  <2>1. \A i \in 1 .. e - first : first + i - 1 \in first .. e - 1
    BY <1>0
  <2>2. names \in [1 .. e - first -> Nat]
    BY <1>1, <2>1
  <2> HIDE DEF names
  <2> QED BY <1>0, <2>2, FunctionIsText
<1>3. ToSet(names) = named
  <2>1. \A i \in 1 .. e - first : first + i - 1 \in first .. e - 1
    BY <1>0
  <2>2. \A j \in first .. e - 1 : j - first + 1 \in 1 .. e - first /\ first + (j - first + 1) - 1 = j
    BY <1>0
  <2>3. ToSet(names) = {argv[first + i - 1][2] : i \in 1 .. e - first}
    BY DEF ToSet
  <2> HIDE DEF names
  <2>4. ASSUME NEW v \in named PROVE v \in ToSet(names)
    <3>1. PICK j \in first .. e - 1 : v = argv[j][2]
      BY <2>4 DEF Named
    <3>2. v = argv[first + (j - first + 1) - 1][2]
      BY <2>2, <3>1
    <3> QED BY <2>2, <2>3, <3>2
  <2>5. ASSUME NEW v \in ToSet(names) PROVE v \in named
    <3>1. PICK i \in 1 .. e - first : v = argv[first + i - 1][2]
      BY <2>3, <2>5
    <3> QED BY <2>1, <3>1 DEF Named
  <2> QED BY <2>4, <2>5
<1>4. named \subseteq 1..3
  BY <1>1 DEF Named
<1> HIDE DEF names
<1>5. s \in Seq(named) /\ Ordered(names, s)
  BY <1>2, <1>3, SortedIsOrdered
<1> HIDE DEF s
<1>6. Len(s) = e - first /\ {s[i] : i \in 1..Len(s)} = named /\ \A i \in 1..Len(s) : s[i] \in named
  BY <1>2, <1>3, <1>5 DEF Ordered
<1>7. s \in Seq(Nat)
  <2>0. 1..3 \subseteq Nat
    OBVIOUS
  <2>1. named \subseteq Nat
    <3> HIDE DEF named
    <3> QED BY <1>4, <2>0
  <2> HIDE DEF named
  <2> QED BY <1>5, <2>1, SeqWider
<1>8. Upwards(s)
  <2>1. \A v \in 1..3 : NameLen[v] \in Nat
    BY CommandLineAssumption, LengthsAssumption
  <2>2. \A i \in 1..Len(s) : s[i] \in 1..3
    BY <1>4, <1>6
  <2>3. \A i, j \in 1..Len(s) : i <= j => s[i] <= s[j]
    BY <1>2, <1>5, <1>6 DEF Ordered
  <2>4. \A i \in 1..Len(s) : s[i] \in Nat /\ NameLen[s[i]] \in Nat
    <3> TAKE i \in 1..Len(s)
    <3>1. s[i] \in 1..3
      BY <2>2
    <3> QED BY <2>1, <3>1
  <2> QED BY <2>3, <2>4 DEF Upwards
<1>9. Different(s) \/ Shorter(s)
  <2>1. CASE Cardinality(named) = e - first
    <3>1. Cardinality(ToSet(names)) = Len(names)
      BY <1>2, <1>3, <2>1
    <3>2. \A i, j \in 1..Len(names) : s[i] = s[j] => i = j
      BY <1>2, <1>5, <3>1, SortedDiffer
    <3> QED BY <1>2, <1>6, <3>2 DEF Different
  <2>2. CASE \A i, j \in named : i < j => NameLen[j] <= NameLen[i]
    BY <1>6, <2>2 DEF Shorter
  <2> QED BY <2>1, <2>2
<1>10. DropRepeated(s) = [kept |-> Ascending(named), fits |-> TRUE]
  <2>1. Len(s) # 0
    BY <1>0, <1>6
  <2>2. DropRepeated(s) = [kept |-> Ascending({s[i] : i \in 1..Len(s)}), fits |-> TRUE]
    BY <1>7, <1>8, <1>9, <2>1, KeptEnds
  <2> QED BY <1>6, <2>2
<1>11. exe = tail
  <2>1. tail = [i \in 1 .. N - e |-> argv[e + i]]
    <3>1. tail = [i \in 1 .. N - (e + 1) + 1 |-> argv[(e + 1) + i - 1]]
      <4>1. Len(tail) = N - (e + 1) + 1 /\ tail \in Seq(OpenArgs) /\ \A i \in 1 .. N - (e + 1) + 1 : tail[i] = argv[(e + 1) + i - 1]
        BY <1>0, SubSeqProperties
      <4> QED BY <4>1, LenProperties
    <3>2. N - (e + 1) + 1 = N - e /\ \A i \in 1 .. N - e : (e + 1) + i - 1 = e + i
      BY <1>0
    <3> QED BY <3>1, <3>2
  <2>2. e # first
    BY <1>0
  <2> QED BY <2>1, <2>2
<1>12. OpenRange(argv) = [end |-> "open", files |-> DropRepeated(s).kept,
                          multiple |-> argv[e] = Flag("-E"), exe |-> exe]
  <2>1. ~(first > N) /\ ~(e >= N)
    BY <1>0
  <2>2. DropRepeated(s).fits
    BY <1>10
  <2>3. /\ FirstOf(argv, {i \in 1..N : argv[i] # Flag("-f")}) = first
        /\ FirstOf(argv, {i \in first..N : IsFlag(argv[i])}) = e
        /\ FirstOf(argv, {i \in e..N : argv[i] \in {Flag("-e"), Flag("-E")}}) = e
    BY OpeningParts
  <2> QED BY <2>1, <2>2, <2>3 DEF OpenRange, s, names
<1> HIDE DEF exe, tail, named
<1>13. DropRepeated(s).kept = Ascending(named)
  BY <1>10
<1>14. OpenRange(argv) = [end |-> "open", files |-> Ascending(named), multiple |-> argv[e] = Flag("-E"), exe |-> tail]
  BY <1>11, <1>12, <1>13
<1> QED BY <1>14 DEF named, tail

-----------------------------------------------------------------------------
(* The threads of -p                                                       *)

(* What -p has started after k words.                                      *)
NoThreads == [at |-> "option", thds |-> <<>>]

(* The fold of PrintThreads is the loop over the words.                    *)
LEMMA PrintThreadsIs ==
  ASSUME NEW A, NEW argv \in Seq(A)
  PROVE  PrintThreads(argv) = Loop(<<"word">>, NoThreads, argv).thds
<1>0. Len(argv) \in Nat /\ DOMAIN argv = 1..Len(argv)
  BY LenProperties
<1> DEFINE D == DOMAIN argv
           F(h) == [T \in SUBSET D |->
                      IF T = {} THEN NoThreads ELSE PrintArg(h[T \ {Max(T)}], argv[Max(T)])]
           G(h) == [T \in SUBSET (1..Len(argv)) |->
                      IF T = {} THEN NoThreads ELSE Step(<<"word">>, h[T \ {Max(T)}], argv[Max(T)])]
           P(h) == h = F(h)
           d == CHOOSE h : P(h)
<1>1. PrintThreads(argv) = d[D].thds
  BY DEF PrintThreads, FoldLeft, MapThenFoldSet, NoThreads
<1>2. ASSUME NEW h PROVE P(h) <=> FoldsTo(<<"word">>, NoThreads, argv, Len(argv), h)
  <2>1. \A T \in SUBSET D : F(h)[T] = G(h)[T]
    BY <1>0, Steps
  <2>2. F(h) = G(h)
    BY <1>0, <2>1
  <2> HIDE DEF F
  <2> QED BY <2>2 DEF FoldsTo
<1> HIDE DEF P
<1>3. \E h : P(h)
  BY <1>0, <1>2, FoldExists
<1>4. P(d)
  BY <1>3
<1> HIDE DEF d
<1>5. d[1..Len(argv)] = Loop(<<"word">>, NoThreads, argv)
  BY <1>2, <1>4, LoopIs
<1> QED BY <1>0, <1>1, <1>5

Thread(argv, i) == <<IF FlagAt(argv, i) = Flag("-f") THEN "thd_pfile" ELSE "thd_prange", argv[i]>>

Threads(argv) == [i \in 1..Len(argv) |-> Thread(argv, i)]

PlainTo(argv, k) == {i \in 1..k : ~IsFlag(argv[i])}

Starting(argv, k, st) ==
    /\ st = [at |-> st.at, thds |-> Words(Threads(argv), PlainTo(argv, k))]
    /\ st.at = IF k = 0 THEN "option"
               ELSE IF FlagAt(argv, k) = Flag("-f") THEN "thd_pfile" ELSE "thd_prange"

(* The words of -p.                                                        *)
LEMMA PrintWords ==
  \A t \in PrintArgs : /\ IsFlag(t) <=> t \in {Flag("-f"), Flag("-g"), Flag("-r"), Flag("-p")}
                       /\ Flag("-f") # Flag("-g") /\ Flag("-f") # Flag("-r")
BY DEF PrintArgs, Flag, File, IsFlag

(* One more word.                                                          *)
LEMMA StartingGoes ==
  ASSUME NEW argv \in Seq(PrintArgs), NEW k \in 0 .. Len(argv) - 1,
         IsFlag(argv[1]), argv[k + 1] # Flag("-p"), NEW st, Starting(argv, k, st)
  PROVE  Starting(argv, k + 1, PrintArg(st, argv[k + 1]))
<1> DEFINE x == k + 1
           t == argv[x]
           T == PlainTo(argv, k)
           thds == Words(Threads(argv), T)
           next == PrintArg(st, t)
<1>0. Len(argv) \in Nat /\ x \in 1..Len(argv) /\ t \in PrintArgs /\ k \in Nat /\ x # 0
  BY LenProperties, ElementOfSeq
<1>1. /\ IsFlag(t) => FlagAt(argv, x) = t
      /\ ~IsFlag(t) => FlagAt(argv, x) = FlagAt(argv, k)
  BY LastFlag
<1>2. PlainTo(argv, x) = IF IsFlag(t) THEN T ELSE T \cup {x}
  <2>1. \A i : i \in 1..x <=> i \in 1..k \/ i = x
    BY <1>0
  <2> HIDE DEF x
  <2> QED BY <2>1 DEF PlainTo
<1>3. /\ st = [at |-> st.at, thds |-> thds]
      /\ st.at = IF k = 0 THEN "option"
                 ELSE IF FlagAt(argv, k) = Flag("-f") THEN "thd_pfile" ELSE "thd_prange"
  BY DEF Starting
<1>4. st.thds = thds
  BY <1>3
<1>5. ~IsFlag(t) => k # 0
  <2>1. k = 0 => x = 1
    OBVIOUS
  <2> QED BY <2>1
<1>6. t # Flag("-p")
  OBVIOUS
<1> HIDE DEF x, t, T, thds
<1>7. CASE IsFlag(t)
  <2>1. t = Flag("-f") \/ t \in {Flag("-g"), Flag("-r")}
    BY <1>0, <1>6, <1>7, PrintWords
  <2>2. t \in {Flag("-g"), Flag("-r")} => t # Flag("-f")
    BY <1>0, PrintWords
  <2>3. st.at # "end"
    BY <1>3
  <2>4. next = [at |-> IF t = Flag("-f") THEN "thd_pfile" ELSE "thd_prange", thds |-> thds]
    <3>1. t = Flag("-f") => next = [st EXCEPT !.at = "thd_pfile"]
      BY <2>3 DEF PrintArg
    <3>2. t # Flag("-f") => next = [st EXCEPT !.at = "thd_prange"]
      BY <2>1, <2>3 DEF PrintArg
    <3>3. \A b : [st EXCEPT !.at = b] = [at |-> b, thds |-> thds]
      BY <1>3
    <3> QED BY <3>1, <3>2, <3>3
  <2>5. Words(Threads(argv), PlainTo(argv, x)) = thds /\ FlagAt(argv, x) = t
    BY <1>1, <1>2, <1>7 DEF thds
  <2> HIDE DEF next
  <2>6. next.at = IF t = Flag("-f") THEN "thd_pfile" ELSE "thd_prange"
    BY <2>4
  <2>7. Starting(argv, x, next)
    BY <1>0, <2>4, <2>5, <2>6 DEF Starting
  <2> QED BY <2>7 DEF next, x, t
<1>8. CASE ~IsFlag(t)
  <2>1. t # Flag("-f") /\ t # Flag("-g") /\ t # Flag("-r")
    BY <1>0, <1>8, PrintWords
  <2>2. st.at # "end" /\ st.at # "option"
    BY <1>3, <1>5, <1>8
  <2>3. next = [st EXCEPT !.thds = Append(@, <<st.at, t>>)]
    BY <1>8, <2>1, <2>2 DEF PrintArg
  <2>4. FlagAt(argv, x) = FlagAt(argv, k) /\ PlainTo(argv, x) = T \cup {x}
    BY <1>1, <1>2, <1>8
  <2>5. st.at = IF FlagAt(argv, x) = Flag("-f") THEN "thd_pfile" ELSE "thd_prange"
    BY <1>3, <1>5, <1>8, <2>4
  <2>6. Threads(argv)[x] = <<st.at, t>>
    BY <1>0, <2>5 DEF Threads, Thread, t
  <2>7. Words(Threads(argv), T \cup {x}) = Append(thds, <<st.at, t>>)
    <3> DEFINE S == {Thread(argv, i) : i \in 1..Len(argv)}
               tab == Threads(argv)
    <3>1. tab \in [1..Len(argv) -> S]
      BY DEF Threads
    <3> HIDE DEF S, tab
    <3>2. tab \in Seq(S) /\ Len(tab) = Len(argv)
      BY <1>0, <3>1, FunctionIsText
    <3>3. T \subseteq 1 .. x - 1
      BY <1>0 DEF T, PlainTo, x
    <3>4. x \in 1..Len(tab)
      BY <1>0, <3>2
    <3>5. Words(tab, T \cup {x}) = Append(Words(tab, T), tab[x])
      BY <3>2, <3>3, <3>4, WordsAppend
    <3> QED BY <2>6, <3>5 DEF tab, thds
  <2>8. next = [at |-> st.at, thds |-> Words(Threads(argv), PlainTo(argv, x))]
    <3>1. [st EXCEPT !.thds = Append(@, <<st.at, t>>)] = [at |-> st.at, thds |-> Append(thds, <<st.at, t>>)]
      <4> DEFINE more == Append(st.thds, <<st.at, t>>)
      <4>1. [st EXCEPT !.thds = Append(@, <<st.at, t>>)] = [st EXCEPT !.thds = more]
        OBVIOUS
      <4> HIDE DEF more
      <4>2. [st EXCEPT !.thds = more] = [at |-> st.at, thds |-> more]
        BY <1>3
      <4> QED BY <1>4, <4>1, <4>2 DEF more
    <3> HIDE DEF next
    <3> QED BY <2>3, <2>4, <2>7, <3>1
  <2> HIDE DEF next
  <2>9. next.at = st.at
    BY <2>8
  <2>10. Starting(argv, x, next)
    BY <1>0, <2>5, <2>8, <2>9 DEF Starting
  <2> QED BY <2>10 DEF next, x, t
<1> QED BY <1>7, <1>8

(* All words.                                                              *)
LEMMA StartingEnds ==
  ASSUME NEW argv \in Seq(PrintArgs), Len(argv) > 0 => IsFlag(argv[1]),
         \A i \in 1..Len(argv) : argv[i] # Flag("-p")
  PROVE  PrintThreads(argv) = Words(Threads(argv), PlainTo(argv, Len(argv)))
<1> DEFINE N == Len(argv)
<1>0. N \in Nat
  BY LenProperties
<1>1. PICK r : Runs(<<"word">>, NoThreads, argv, N, r) /\ PrintThreads(argv) = r[N].thds
  BY PrintThreadsIs, LoopRuns
<1>2. r[0] = NoThreads /\ \A k \in 1..N : r[k] = PrintArg(r[k - 1], argv[k])
  BY <1>1, Steps DEF Runs
<1> DEFINE K == {k \in 0..N : Starting(argv, k, r[k])}
<1> HIDE DEF N
<1>3. 0 \in K
  <2>1. PlainTo(argv, 0) = {}
    BY DEF PlainTo
  <2>2. Words(Threads(argv), PlainTo(argv, 0)) = <<>>
    BY <2>1, WordsNone
  <2>3. Starting(argv, 0, r[0])
    BY <1>2, <2>2 DEF Starting, NoThreads
  <2> QED BY <1>0, <2>3
<1>4. ASSUME NEW k \in 0 .. N - 1, k \in K PROVE k + 1 \in K
  <2>1. k + 1 \in 1..N /\ k + 1 \in 0..N /\ (k + 1) - 1 = k /\ N > 0
    BY <1>0
  <2>2. Starting(argv, k, r[k]) /\ IsFlag(argv[1]) /\ argv[k + 1] # Flag("-p")
    BY <1>4, <2>1 DEF N
  <2>3. Starting(argv, k + 1, PrintArg(r[k], argv[k + 1]))
    BY <2>2, StartingGoes DEF N
  <2>4. r[k + 1] = PrintArg(r[k], argv[k + 1])
    BY <1>2, <2>1
  <2> QED BY <2>1, <2>3, <2>4
<1> HIDE DEF K
<1>5. N \in K
  <2>1. 0..N \subseteq K
    BY <1>0, <1>3, <1>4, UpTo
  <2> QED BY <1>0, <2>1
<1>6. r[N] = [at |-> r[N].at, thds |-> Words(Threads(argv), PlainTo(argv, N))]
  BY <1>5 DEF K, Starting
<1> QED BY <1>1, <1>6 DEF N

ModesTyped ==
    /\ kind = "-r" => input \in Seq(OpenArgs)
    /\ kind = "-p" => input \in Seq(PrintArgs)

(* The arguments of -r, -w and -p.                                         *)
LEMMA ModesAreTyped == MCSpec => []ModesTyped
<1>1. MCInit => ModesTyped
  BY EmptySeq DEF MCInit, ModesTyped
<1>2. ModesTyped /\ [MCNext]_<<kind, input, vars>> => ModesTyped'
  <2> SUFFICES ASSUME ModesTyped, [MCNext]_<<kind, input, vars>>
               PROVE  ModesTyped'
    OBVIOUS
  <2>1. CASE GrowOpen
    BY <2>1, AppendProperties DEF ModesTyped, GrowOpen, GrowsTo
  <2>2. CASE GrowPrint
    BY <2>2, AppendProperties DEF ModesTyped, GrowPrint, GrowsTo
  <2>3. CASE InsertRegions \/ UNCHANGED <<kind, input, vars>>
    BY <2>3 DEF ModesTyped, InsertRegions
  <2>4. CASE GrowLines \/ GrowNew \/ GrowText
    BY <2>4 DEF ModesTyped, GrowLines, GrowNew, GrowText, GrowsTo
  <2> QED BY <2>1, <2>2, <2>3, <2>4 DEF MCNext
<1> QED BY <1>1, <1>2, PTL DEF MCSpec

(* help.h:13-20 and 32-38: for any number of files and options, -r and -w  *)
(* open each named file once, in the order of the names, and run EXE_PATH  *)
(* with its options as they were given; -p starts one thread for each word,*)
(* of the kind that the last flag before it says.                          *)
THEOREM ModesAreDocumented == MCSpec => []ModesAsDocumented
<1>1. ModesTyped => ModesAsDocumented
  <2>1. ASSUME ModesTyped, kind = "-r", input # <<>>, NEW e \in 2 .. Len(input) - 1
        PROVE  LET first == IF input[1] = Flag("-f") THEN 2 ELSE 1
                   named == {input[i][2] : i \in first .. e - 1} IN
               /\ first < e /\ input[e] \in {Flag("-e"), Flag("-E")}
               /\ \A i \in first .. e - 1 : ~IsFlag(input[i])
               /\ \/ Cardinality(named) = e - first
                  \/ \A i, j \in named : i < j => NameLen[j] <= NameLen[i]
               => OpenRange(input) = [end |-> "open",
                                      files |-> Ascending(named),
                                      multiple |-> input[e] = Flag("-E"),
                                      exe |-> SubSeq(input, e + 1, Len(input))]
    <3>1. input \in Seq(OpenArgs)
      BY <2>1 DEF ModesTyped
    <3> DEFINE first == IF input[1] = Flag("-f") THEN 2 ELSE 1
               named == {input[i][2] : i \in first .. e - 1}
    <3> SUFFICES ASSUME first < e, input[e] \in {Flag("-e"), Flag("-E")},
                        \A i \in first .. e - 1 : ~IsFlag(input[i]),
                        \/ Cardinality(named) = e - first
                        \/ \A i, j \in named : i < j => NameLen[j] <= NameLen[i]
                 PROVE  OpenRange(input) = [end |-> "open", files |-> Ascending(named),
                                            multiple |-> input[e] = Flag("-E"),
                                            exe |-> SubSeq(input, e + 1, Len(input))]
      OBVIOUS
    <3>2. Opening(input, first, e)
      BY <2>1 DEF Opening
    <3> HIDE DEF first
    <3>3. OpenRange(input) = [end |-> "open", files |-> Ascending(named),
                              multiple |-> input[e] = Flag("-E"), exe |-> SubSeq(input, e + 1, Len(input))]
      <4>1. named = Named(input, first, e)
        BY DEF Named
      <4> HIDE DEF named
      <4>2. \/ Cardinality(Named(input, first, e)) = e - first
            \/ \A i, j \in Named(input, first, e) : i < j => NameLen[j] <= NameLen[i]
        BY <4>1
      <4> QED BY <3>1, <3>2, <4>1, <4>2, OpenIs
    <3> QED BY <3>3
  <2>2. ASSUME ModesTyped, kind = "-p", input # <<>>
        PROVE  LET words == Ascending({i \in 1..Len(input) : ~IsFlag(input[i])}) IN
               IsFlag(input[1]) /\ (\A i \in 1..Len(input) : input[i] # Flag("-p"))
               => PrintThreads(input) =
                     [n \in 1..Len(words) |->
                         <<IF FlagAt(input, words[n]) = Flag("-f") THEN "thd_pfile" ELSE "thd_prange",
                           input[words[n]]>>]
    <3>1. input \in Seq(PrintArgs) /\ Len(input) \in Nat
      BY <2>2, LenProperties DEF ModesTyped
    <3> DEFINE words == Ascending({i \in 1..Len(input) : ~IsFlag(input[i])})
    <3> SUFFICES ASSUME IsFlag(input[1]), \A i \in 1..Len(input) : input[i] # Flag("-p")
                 PROVE  PrintThreads(input) = [n \in 1..Len(words) |-> Thread(input, words[n])]
      BY DEF Thread
    <3>2. PrintThreads(input) = Words(Threads(input), PlainTo(input, Len(input)))
      BY <3>1, StartingEnds
    <3>3. words = Ascending(PlainTo(input, Len(input)))
      BY DEF PlainTo
    <3> HIDE DEF words
    <3>4. \A n \in 1..Len(words) : words[n] \in 1..Len(input)
      <4>1. PlainTo(input, Len(input)) \subseteq 1..Len(input)
        BY DEF PlainTo
      <4> QED BY <3>1, <3>3, <4>1, AscendingType
    <3>5. \A n \in 1..Len(words) : Threads(input)[words[n]] = Thread(input, words[n])
      BY <3>4 DEF Threads
    <3> QED BY <3>2, <3>3, <3>5 DEF Words
  <2> QED BY <2>1, <2>2 DEF ModesAsDocumented
<1> QED BY <1>1, ModesAreTyped, PTL
=============================================================================
