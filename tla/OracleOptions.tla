---------------------------- MODULE OracleOptions -----------------------------
(***************************************************************************)
(* How the two oracles of a file are chosen from ~/.oraclerc (options.h).  *)
(* A line is [name, indented, words]: what its first word names, whether   *)
(* blanks precede it, and the lengths of its further words, quoted or not. *)
(* name is "ext" for "*" and the ending of the file, "name" for the name   *)
(* of the file without its folder, "path" for the path as it was given, or *)
(* "other".                                                                *)
(***************************************************************************)
EXTENDS Integers, Sequences, FiniteSets, SequencesExt

ORACLE_LEN_MIN == 8
ORACLE_LEN_MAX == 255

(* A file that is given without a folder has its name for path.            *)
Matches(folder, line) ==
    CASE line.name \in {"name", "path"} /\ ~folder -> {"name", "path"}
      [] line.name = "other"                       -> {}
      [] OTHER                                     -> {line.name}

(* The tests of the switch, from the level reached so far downwards: no    *)
(* case ends with a break.                                                 *)
TestedOnce(level) == {<<"ext", "name", "path", "none">>[level + 1]}   \* fault: a break

Tested(level) ==
    CASE level = 0 -> {"ext", "name", "path"}
      [] level = 1 -> {"name", "path"}
      [] level = 2 -> {"path"}
      [] OTHER     -> {}

(* One line of the loop: every test that succeeds raises the level, and a  *)
(* line that raises it becomes the target.  Above level 2 the loop stops.  *)
ReadLine(folder, st, line) ==
    LET level == st.level + Cardinality(Matches(folder, line) \cap Tested(st.level)) IN
    IF level > st.level THEN [level |-> level, target |-> <<line>>] ELSE st

Target(folder, lines) ==
    FoldLeft(LAMBDA st, line : ReadLine(folder, st, line),
             [level |-> 0, target |-> <<>>], lines).target

(* get_an_oracle: the k-th word after the name.  Of an indented line the   *)
(* pointer tp is inside the name, where no word is found.                  *)
GetAnOracle(line, k) ==
    ~line.indented /\ k <= Len(line.words)
        /\ line.words[k] \in ORACLE_LEN_MIN .. ORACLE_LEN_MAX

(* get_oracles.  A missing oracle is copied all the same, from a null or a *)
(* freed pointer.                                                          *)
GetOracles(folder, lines) ==
    LET target == Target(folder, lines) IN
    IF target = <<>> THEN <<"default">>
    ELSE IF GetAnOracle(target[1], 1) /\ GetAnOracle(target[1], 2)
         THEN <<"words", target[1].words[1], target[1].words[2]>> ELSE <<"undefined">>
=============================================================================
