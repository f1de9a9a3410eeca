--------------------------- MODULE MCIntervalLock ----------------------------
(***************************************************************************)
(* Small instances of IntervalLock: which clients open which rows, and     *)
(* where the rows start.                                                   *)
(***************************************************************************)
EXTENDS IntervalLock, TLC

CONSTANTS c1, c2, c3

Iv(b, e) == [base |-> b, bound |-> e]

Opens(s1, s2, s3) ==
    [c \in Client |-> CASE c = c1 -> s1 [] c = c2 -> s2 [] c = c3 -> s3]

(* Three separate intervals.  c1 opens the range of rows 1 and 3, c2 that  *)
(* of row 2, which lies between them.                                      *)
ApartWants == Opens({{1, 3}}, {{2}}, {})
ApartStarts == {<<Iv(0, 2), Iv(3, 4), Iv(5, 6)>>}

(* Row 3 lies inside row 2 or begins where it ends, row 1 lies before and  *)
(* row 4 behind them.  c1 opens the range of row 2, c2 that of rows 1 and  *)
(* 3, and c3 the range of row 3 or that of row 4.                          *)
MixedWants == Opens({{2}}, {{1, 3}}, {{3}, {4}})
MixedStarts == {
    <<Iv(0, 1), Iv(2, 6), Iv(3, 5), Iv(7, 8)>>,
    <<Iv(0, 1), Iv(2, 3), Iv(3, 4), Iv(7, 8)>> }
=============================================================================
