---------------------------- MODULE MCFileSplice -----------------------------
(* Small instances of FileSplice: layouts of the rows of a short file.     *)
EXTENDS FileSplice

Iv(b, e) == [base |-> b, bound |-> e]

(* Rows 1 and 3 are one range, row 2 is another: between them, across an   *)
(* end of one of them, inside one, around one, or beyond the end.  Bytes   *)
(* that no row covers keep rows 1 and 3 apart, but for the last layout,    *)
(* where emptying row 2 makes them touch.                                  *)
Layouts == {
    <<Iv(0, 1), Iv(2, 3), Iv(4, 5)>>,
    <<Iv(1, 2), Iv(0, 1), Iv(3, 4)>>,
    <<Iv(0, 2), Iv(1, 3), Iv(4, 5)>>,
    <<Iv(0, 2), Iv(1, 2), Iv(3, 5)>>,
    <<Iv(1, 2), Iv(0, 2), Iv(4, 9)>>,
    <<Iv(0, 1), Iv(3, 5), Iv(2, 9)>>,
    <<Iv(0, 2), Iv(2, 3), Iv(3, 5)>> }

TwoRanges == {{1, 3}, {2}}

Typed == {<<>>, <<0, 0>>}
=============================================================================
