-------------------------- MODULE OffsetRowsProofs ---------------------------
(***************************************************************************)
(* What one UPDATE of QUERY_RESIZE_FILE does to the other rows of the      *)
(* file, for any number of rows and any positions and sizes.               *)
(***************************************************************************)
EXTENDS OffsetRows, TLAPS

-----------------------------------------------------------------------------
(* What the UPDATE of QUERY_RESIZE_FILE (sql.c:119-132) does to one row or *)
(* to two.                                                                 *)

(* A row beside the edited one moves as a whole or not at all.             *)
LEMMA BesideMovesWhole ==
  ASSUME NEW r, NEW e, NEW ns \in Nat,
         r.base \in Int, r.bound \in Int, e.base \in Int, e.bound \in Int,
         r.base < r.bound, e.base < e.bound, ~Conflict(r, e)
  PROVE  LET m == Moved(r, e, TRUE, ns) IN
         \/ r.bound <= e.base /\ m.base = r.base /\ m.bound = r.bound
         \/ /\ r.base >= e.bound
            /\ m.base = r.base + Change(e, ns) /\ m.bound = r.bound + Change(e, ns)
  BY DEF Conflict, Moved, NewBase, NewBound, Change

(* No row moves below the start of the file: it moves only if it starts or *)
(* ends beyond the edited one, which loses at most its own size.           *)
LEMMA MovedIsRow ==
  ASSUME NEW r, NEW e, NEW other \in BOOLEAN, NEW ns \in Nat,
         r.base \in Nat, r.bound \in Nat, e.base \in Nat, e.bound \in Nat
  PROVE  Moved(r, e, other, ns).base \in Nat /\ Moved(r, e, other, ns).bound \in Nat
  BY DEF Moved, NewBase, NewBound, Change

(* The edited row keeps its base and takes the new size.                   *)
LEMMA EditedTakesSize ==
  ASSUME NEW e, NEW ns \in Nat, e.base \in Int, e.bound \in Int, e.base < e.bound
  PROVE  LET m == Moved(e, e, FALSE, ns) IN
         m.base = e.base /\ m.bound = e.base + ns
  BY DEF Moved, NewBase, NewBound, Change

-----------------------------------------------------------------------------
LEMMA TypeStep == TypeOK /\ [Next]_vars => TypeOK'
<1> SUFFICES ASSUME TypeOK, [Next]_vars PROVE TypeOK'
  OBVIOUS
<1>1. ASSUME NEW oid \in OffsetId, NEW ns \in 0..MaxSize, Edit(oid, ns) PROVE TypeOK'
  <2>1. ASSUME NEW i \in OffsetId PROVE rows'[i] \in Row
    <3> DEFINE m == Moved(rows[i], rows[oid], i # oid, ns)
               f == i # oid /\ (rows[i].conflict \/ Touches(m, rows[oid]))
    <3>1. ns \in Nat
      BY OffsetRowsAssumption
    <3>2. m.base \in Nat /\ m.bound \in Nat
      BY <3>1, MovedIsRow DEF TypeOK, Row
    <3>3. f \in BOOLEAN
      BY Zenon
    <3>4. rows'[i] = [base |-> m.base, bound |-> m.bound, conflict |-> f]
      BY <1>1 DEF Edit, Resized, TypeOK
    <3> HIDE DEF m, f
    <3> QED BY <3>2, <3>3, <3>4 DEF Row
  <2>2. DOMAIN rows' = OffsetId /\ rows' = [i \in OffsetId |-> rows'[i]]
    BY <1>1 DEF Edit, Resized, TypeOK
  <2> QED BY <1>1, <2>1, <2>2 DEF Edit, TypeOK
<1>2. CASE UNCHANGED vars
  BY <1>2 DEF vars, TypeOK
<1> QED BY <1>1, <1>2 DEF Next

(* Every row of the table keeps its form (sql.c:119-132).                  *)
THEOREM TypeCorrect == Spec => []TypeOK
<1>1. Init => TypeOK
  <2> SUFFICES ASSUME Init PROVE TypeOK
    OBVIOUS
  <2>1. ASSUME NEW i \in OffsetId PROVE rows[i] \in Row
    <3>1. rows[i] \in [base : 0..MaxPos, bound : 0..MaxPos, conflict : {FALSE}]
      BY DEF Init
    <3>2. /\ rows[i].base \in 0..MaxPos /\ rows[i].bound \in 0..MaxPos
          /\ rows[i].conflict \in {FALSE}
      BY <3>1
    <3>3. rows[i].base \in Nat /\ rows[i].bound \in Nat
      BY <3>2, OffsetRowsAssumption
    <3>5. rows[i].conflict \in BOOLEAN
      BY <3>2, Zenon
    <3>4. rows[i] = [base |-> rows[i].base, bound |-> rows[i].bound,
                     conflict |-> rows[i].conflict]
      BY <3>1
    <3> QED BY <3>3, <3>4, <3>5 DEF Row
  <2>2. rows = [i \in OffsetId |-> rows[i]]
    BY DEF Init
  <2> QED BY <2>1, <2>2 DEF Init, TypeOK
<1> QED BY <1>1, TypeStep, PTL DEF Spec

-----------------------------------------------------------------------------
(* The form of a step, for the action properties.                          *)
LEMMA StepForm ==
  ASSUME TypeOK, Next
  PROVE  /\ edited' \in OffsetId /\ IsInterval(Old)
         /\ \E ns \in Nat : \A i \in OffsetId :
               /\ rows'[i].base = Moved(rows[i], Old, i # edited', ns).base
               /\ rows'[i].bound = Moved(rows[i], Old, i # edited', ns).bound
               /\ rows'[i].conflict =
                    (i # edited' /\ (rows[i].conflict
                                     \/ Touches(Moved(rows[i], Old, i # edited', ns), Old)))
<1>1. PICK oid \in OffsetId, ns \in 0..MaxSize : Edit(oid, ns)
  BY DEF Next
<1>2. ns \in Nat
  BY OffsetRowsAssumption
<1>3. edited' = oid /\ Old = rows[oid]
  BY <1>1 DEF Edit, Old
<1>4. IsInterval(Old)
  BY <1>1, <1>3 DEF Edit, Conflict, IsInterval
<1>5. ASSUME NEW i \in OffsetId
      PROVE  rows'[i] =
        LET m == Moved(rows[i], rows[oid], i # oid, ns) IN
        [base |-> m.base, bound |-> m.bound,
         conflict |-> i # oid /\ (rows[i].conflict \/ Touches(m, rows[oid]))]
  BY <1>1 DEF Edit, Resized, TypeOK
<1>6. ASSUME NEW i \in OffsetId
      PROVE  /\ rows'[i].base = Moved(rows[i], Old, i # edited', ns).base
             /\ rows'[i].bound = Moved(rows[i], Old, i # edited', ns).bound
             /\ rows'[i].conflict =
                  (i # edited' /\ (rows[i].conflict
                                   \/ Touches(Moved(rows[i], Old, i # edited', ns), Old)))
  <2> DEFINE m == Moved(rows[i], rows[oid], i # oid, ns)
             f == i # oid /\ (rows[i].conflict \/ Touches(m, rows[oid]))
  <2>1. rows'[i] = [base |-> m.base, bound |-> m.bound, conflict |-> f]
    BY <1>5, <1>6
  <2> HIDE DEF m, f
  <2>2. rows'[i].base = m.base /\ rows'[i].bound = m.bound /\ rows'[i].conflict = f
    BY <2>1
  <2> QED BY <1>3, <2>2 DEF m, f
<1> QED BY <1>2, <1>3, <1>4, <1>6

LEMMA RowIsPair ==
  ASSUME TypeOK, NEW i \in OffsetId PROVE rows[i].base \in Int /\ rows[i].bound \in Int
  BY DEF TypeOK, Row

(* Rows in different parts of the file stay apart and in order             *)
(* (sql.c:119-125, Cases 0 and 5).                                         *)
THEOREM OrderIsKept == Spec => OrderKept
<1>1. ASSUME TypeOK, Next,
             NEW i \in OffsetId, NEW j \in OffsetId,
             IsInterval(rows[i]), IsInterval(rows[j]), rows[i].bound <= rows[j].base,
             \A k \in {i, j} \ {edited'} : ~Conflict(rows[k], Old)
      PROVE  /\ rows'[i].base <= rows'[i].bound
             /\ rows'[i].bound <= rows'[j].base
             /\ rows'[j].base <= rows'[j].bound
  <2>1. PICK ns \in Nat : \A k \in OffsetId :
               /\ rows'[k].base = Moved(rows[k], Old, k # edited', ns).base
               /\ rows'[k].bound = Moved(rows[k], Old, k # edited', ns).bound
    BY <1>1, StepForm
  <2>2. edited' \in OffsetId /\ IsInterval(Old) /\ Old.base \in Int /\ Old.bound \in Int
    BY <1>1, StepForm, RowIsPair DEF Old
  <2>3. /\ rows[i].base \in Int /\ rows[i].bound \in Int
        /\ rows[j].base \in Int /\ rows[j].bound \in Int
    BY <1>1, RowIsPair
  <2> DEFINE d == Change(Old, ns)
  <2>a. d \in Int /\ d = ns - (Old.bound - Old.base)
    BY <2>2 DEF Change
  <2>b. ASSUME NEW k \in {i, j}, k # edited'
        PROVE  \/ /\ rows[k].bound <= Old.base
                  /\ rows'[k].base = rows[k].base /\ rows'[k].bound = rows[k].bound
               \/ /\ rows[k].base >= Old.bound
                  /\ rows'[k].base = rows[k].base + d /\ rows'[k].bound = rows[k].bound + d
    <3>1. k \in OffsetId /\ IsInterval(rows[k]) /\ ~Conflict(rows[k], Old)
      BY <1>1, <2>b
    <3>2. rows[k].base \in Int /\ rows[k].bound \in Int
      BY <2>3, <2>b
    <3>3. LET m == Moved(rows[k], Old, TRUE, ns) IN
         \/ rows[k].bound <= Old.base /\ m.base = rows[k].base /\ m.bound = rows[k].bound
         \/ /\ rows[k].base >= Old.bound
            /\ m.base = rows[k].base + d /\ m.bound = rows[k].bound + d
      BY <2>2, <3>1, <3>2, BesideMovesWhole DEF IsInterval
    <3>4. /\ rows'[k].base = Moved(rows[k], Old, TRUE, ns).base
          /\ rows'[k].bound = Moved(rows[k], Old, TRUE, ns).bound
      <4>1. (k # edited') = TRUE
        BY <2>b
      <4> QED BY <2>1, <3>1, <4>1
    <3> QED BY <3>3, <3>4, Zenon
  <2>c. ASSUME NEW k \in {i, j}, k = edited'
        PROVE  rows'[k].base = rows[k].base /\ rows'[k].bound = rows[k].base + ns
    <3>1. rows[k] = Old /\ k \in OffsetId
      BY <2>2, <2>c DEF Old
    <3>2. /\ rows'[k].base = Moved(Old, Old, FALSE, ns).base
          /\ rows'[k].bound = Moved(Old, Old, FALSE, ns).bound
      <4>1. (k # edited') = FALSE
        BY <2>c
      <4> QED BY <2>1, <3>1, <4>1
    <3> QED BY <2>2, <3>1, <3>2, EditedTakesSize DEF IsInterval
  <2> HIDE DEF d
  <2>4. CASE i # edited' /\ j # edited'
    BY <1>1, <2>a, <2>b, <2>2, <2>3, <2>4 DEF IsInterval
  <2>5. CASE i = edited' /\ j # edited'
    <3>1. Old = rows[i]
      BY <2>5 DEF Old
    <3> QED BY <1>1, <2>a, <2>b, <2>c, <2>2, <2>3, <2>5, <3>1 DEF IsInterval
  <2>6. CASE i # edited' /\ j = edited'
    <3>1. Old = rows[j]
      BY <2>6 DEF Old
    <3> QED BY <1>1, <2>a, <2>b, <2>c, <2>2, <2>3, <2>6, <3>1 DEF IsInterval
  <2>7. CASE i = edited' /\ j = edited'
    BY <1>1, <2>3, <2>7 DEF IsInterval
  <2> QED BY <2>4, <2>5, <2>6, <2>7
<1>2. TypeOK /\ [Next]_vars =>
        [\A i, j \in OffsetId :
          /\ IsInterval(rows[i]) /\ IsInterval(rows[j]) /\ rows[i].bound <= rows[j].base
          /\ \A k \in {i, j} \ {edited'} : ~Conflict(rows[k], Old)
          => /\ rows'[i].base <= rows'[i].bound
             /\ rows'[i].bound <= rows'[j].base
             /\ rows'[j].base <= rows'[j].bound]_vars
  BY <1>1
<1> QED BY <1>2, TypeCorrect, PTL DEF Spec, OrderKept

(* An edit beside an interval leaves its size alone (sql.c:119-125).       *)
THEOREM SizeIsKept == Spec => SizeKept
<1>1. ASSUME TypeOK, Next, NEW i \in Others, IsInterval(rows[i]), ~Conflict(rows[i], Old)
      PROVE  rows'[i].bound - rows'[i].base = rows[i].bound - rows[i].base
  <2>0. i \in OffsetId /\ i # edited'
    BY <1>1 DEF Others
  <2>1. PICK ns \in Nat :
               /\ rows'[i].base = Moved(rows[i], Old, TRUE, ns).base
               /\ rows'[i].bound = Moved(rows[i], Old, TRUE, ns).bound
    BY <1>1, <2>0, StepForm
  <2>2. /\ IsInterval(Old) /\ Old.base \in Int /\ Old.bound \in Int
        /\ rows[i].base \in Int /\ rows[i].bound \in Int
    BY <1>1, <2>0, StepForm, RowIsPair DEF Old
  <2> DEFINE d == Change(Old, ns)
             m == Moved(rows[i], Old, TRUE, ns)
  <2>3. d \in Int
    BY <2>2 DEF Change
  <2>4. \/ m.base = rows[i].base /\ m.bound = rows[i].bound
        \/ m.base = rows[i].base + d /\ m.bound = rows[i].bound + d
    BY <1>1, <2>2, BesideMovesWhole DEF IsInterval
  <2>5. rows'[i].base = m.base /\ rows'[i].bound = m.bound
    BY <2>1
  <2> HIDE DEF d, m
  <2> QED BY <2>2, <2>3, <2>4, <2>5
<1>2. TypeOK /\ [Next]_vars =>
        [\A i \in Others :
          IsInterval(rows[i]) /\ ~Conflict(rows[i], Old) =>
             rows'[i].bound - rows'[i].base = rows[i].bound - rows[i].base]_vars
  BY <1>1
<1> QED BY <1>2, TypeCorrect, PTL DEF Spec, SizeKept

(* Every interval with an end inside the edited text is flagged, and one   *)
(* with the same ends if the text does not get longer, in spite of the     *)
(* assignments that come before the test (sql.c:119-131).                  *)
THEOREM ConflictIsNoticed == Spec => ConflictNoticed
<1>1. ASSUME TypeOK, Next, NEW i \in Others, IsInterval(rows[i]),
             \/ EndsInside(rows[i], Old)
             \/ rows[i].base = Old.base /\ rows[i].bound = Old.bound /\ ~Grown
      PROVE  rows'[i].conflict
  <2>0. i \in OffsetId /\ i # edited' /\ edited' \in OffsetId
    BY <1>1, StepForm DEF Others
  <2>1. PICK ns \in Nat :
          /\ rows'[edited'].bound = Moved(rows[edited'], Old, edited' # edited', ns).bound
          /\ rows'[i].conflict =
               (i # edited' /\ (rows[i].conflict
                                \/ Touches(Moved(rows[i], Old, i # edited', ns), Old)))
    BY <1>1, <2>0, StepForm
  <2>2. /\ IsInterval(Old) /\ Old.base \in Int /\ Old.bound \in Int
        /\ rows[i].base \in Int /\ rows[i].bound \in Int
    BY <1>1, <2>0, StepForm, RowIsPair DEF Old
  <2>3. CASE EndsInside(rows[i], Old)
    <3>1. Touches(Moved(rows[i], Old, i # edited', ns), Old)
      BY <1>1, <2>0, <2>2, <2>3
         DEF Touches, Moved, NewBase, NewBound, Change, EndsInside, IsInterval
    <3> QED BY <2>0, <2>1, <3>1, Zenon
  <2>4. CASE rows[i].base = Old.base /\ rows[i].bound = Old.bound /\ ~Grown
    <3>1. rows'[edited'].bound = Old.base + ns
      BY <2>1, <2>2, EditedTakesSize DEF Old, IsInterval
    <3>2. Old.base + ns <= Old.bound
      BY <2>2, <2>4, <3>1 DEF Grown
    <3>3. Touches(Moved(rows[i], Old, i # edited', ns), Old)
      BY <2>0, <2>2, <2>4, <3>2
         DEF Touches, Moved, NewBase, NewBound, Change, IsInterval
    <3> QED BY <2>0, <2>1, <3>3, Zenon
  <2> QED BY <1>1, <2>3, <2>4
<1>2. TypeOK /\ [Next]_vars =>
        [\A i \in Others : LET r == rows[i] IN
          /\ IsInterval(r)
          /\ EndsInside(r, Old) \/ (r.base = Old.base /\ r.bound = Old.bound /\ ~Grown)
          => rows'[i].conflict]_vars
  BY <1>1
<1> QED BY <1>2, TypeCorrect, PTL DEF Spec, ConflictNoticed
=============================================================================
