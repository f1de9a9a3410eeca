---------------------------- MODULE MCRangeCreate -----------------------------
(***************************************************************************)
(* Small instances of RangeCreate.  The plans name the same files in       *)
(* opposite orders, so that creations wait for one another in a circle; a  *)
(* plan of one of these files commits it while another is at work; and two *)
(* plans are for the same name.                                            *)
(***************************************************************************)
EXTENDS RangeCreate

F(p, n) == [path |-> p, its |-> n]

SomePlans == {
    [name |-> "n1", files |-> <<F("a", 1), F("b", 0)>>],
    [name |-> "n2", files |-> <<F("b", 0), F("a", 0)>>],
    [name |-> "n2", files |-> <<F("b", 1)>>] }

SomeStored == {{}, {"a"}, {"b"}}
=============================================================================
