------------------------------ MODULE Importer --------------------------------
(***************************************************************************)
(* bo (nosql/bo.c), which make parse runs on one file after the other.  It *)
(* takes the marks out of a file, and adds to the list of ranges, one line *)
(* for each mark, the places where they were.  A text is a sequence of     *)
(* characters: the marks in Mark, carriage returns and others.  A line is  *)
(* the sequence of arguments that follows its name: make test hands it to  *)
(* yacet -g.                                                               *)
(***************************************************************************)
EXTENDS CommandLine

CONSTANTS Mark, CR

ASSUME ImporterAssumption == CR \notin Mark

Closed == -1

(* add_range: the file is named at its first mark, every second mark adds  *)
(* the region that the one before it has opened.                           *)
AddRange(st, w) ==
    LET line == IF w \in st.add_file THEN st.lines[w]
                ELSE st.lines[w] \o <<Flag("-f"), st.fp, Flag("-r")>>
        opened == st.interval_v[w] IN
    [st EXCEPT !.add_file = @ \cup {w},
               !.lines[w] = IF opened = Closed THEN line
                            ELSE Append(line, <<"region", opened, st.c>>),
               !.interval_v[w] = IF opened = Closed THEN st.c ELSE Closed]

(* One turn of the loop of main: c counts the bytes that were written.     *)
EveryByte(st, char) ==     \* fault: carriage returns are counted as well
    IF char \in Mark THEN AddRange(st, char) ELSE [st EXCEPT !.c = @ + 1]

ReadChar(st, char) ==
    CASE char \in Mark -> AddRange(st, char)
      [] char = CR     -> st
      [] OTHER         -> [st EXCEPT !.c = @ + 1]

(* read_lines: the lines of the list, and every mark closed. *)
ReadLines(lines, fp) ==
    [lines |-> lines, fp |-> fp, c |-> 0, add_file |-> {}, interval_v |-> [w \in Mark |-> Closed]]

(* write_lines: a mark that is not closed is only reported. *)
WriteLines(st) == st.lines

Bo(lines, fp, text) == WriteLines(FoldLeft(ReadChar, ReadLines(lines, fp), text))

(* make parse: texts[i] is that of the i-th file. *)
Import(texts) ==
    FoldLeftDomain(LAMBDA lines, i : Bo(lines, <<"file", i>>, texts[i]),
                   [w \in Mark |-> <<>>], texts)
=============================================================================
