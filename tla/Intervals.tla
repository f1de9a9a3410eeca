------------------------------ MODULE Intervals -------------------------------
(***************************************************************************)
(* How two intervals lie to each other (interval_tree.c).  An interval is  *)
(* a record with the positions base and bound: the bytes from base up to   *)
(* and not including bound.                                                *)
(***************************************************************************)
EXTENDS Integers

MeetsHalfOpen(p, q) == p.base <= q.bound /\ q.base < p.bound   \* fault: < for <=

(* it_intersect: they have a byte in common or touch.                      *)
Intersect(p, q) == p.base <= q.bound /\ q.base <= p.bound

(* it_conflict: they have a byte in common.                                *)
Conflict(p, q) == p.base < q.bound /\ q.base < p.bound

Smaller(a, b) == IF a <= b THEN a ELSE b
Larger(a, b)  == IF a <= b THEN b ELSE a
=============================================================================
