------------------------------ MODULE MCInputs --------------------------------
(***************************************************************************)
(* What people write for yacet, grown one item at a time: the regions of a *)
(* file (IntervalList), the lines of ~/.oraclerc, the arguments of -g, of  *)
(* -r or -w and of -p, and marked texts for the importer.  kind says which *)
(* of them a behaviour grows; input is that text so far.                   *)
(***************************************************************************)
EXTENDS IntervalList, OracleOptions, Importer

CONSTANTS
    MaxLines,    \* bound on the lines of ~/.oraclerc
    MaxNew,      \* bound on the arguments of -g
    MaxArgs,     \* bound on the arguments of -r, -w and -p
    MaxChars     \* bound on the characters of the texts, ends included

(* Any other character, as the texts below have it. *)
ASSUME OtherAssumption == "o" \notin Mark \cup {CR}

(* The lengths of the names that the arguments below have. *)
ASSUME LengthsAssumption == 1..3 \subseteq DOMAIN NameLen

VARIABLES kind, input

Lengths == <<5, 5, 6>>      \* for NameLen

File(k) == <<"file", k>>
Region(a, b) == <<"region", a, b>>

Lines == [name : {"ext", "name", "path", "other"}, indented : BOOLEAN,
          words : {<<>>, <<8>>, <<8, 255>>, <<7, 8>>, <<8, 256>>}]

NewArgs == {Flag("-f"), Flag("-r"), Flag("-e"), File(1), File(2), File(3),
            Region(0, 2), Region(2, 4), Region(4, 5), Region(2, 2), Region(1, NoBound)}
OpenArgs  == {Flag("-f"), Flag("-e"), Flag("-E"), Flag("-p"), File(1), File(2), File(3)}
PrintArgs == {Flag("-f"), Flag("-g"), Flag("-r"), Flag("-p"), File(1), File(2)}

MCInit ==
    /\ Init
    /\ \/ kind \in {"regions", "-g", "-r", "-p"} /\ input = <<>>
       \/ kind = "oraclerc" /\ input \in [folder : BOOLEAN, lines : {<<>>}]
       \/ kind = "marked" /\ input = <<<<>>>>

GrowsTo(longer) == input' \in longer /\ UNCHANGED <<kind, vars>>

(* Arguments after the loop has ended change nothing.                      *)
GrowNew ==
    /\ kind = "-g" /\ Len(input) < MaxNew
    /\ ReadNewRange(input).at \notin {"end", "err", "undefined"}
    /\ GrowsTo({Append(input, t) : t \in NewArgs})

GrowOpen ==
    /\ kind = "-r" /\ Len(input) < MaxArgs
    /\ GrowsTo({Append(input, t) : t \in OpenArgs})

GrowPrint ==
    /\ kind = "-p" /\ Len(input) < MaxArgs
    /\ GrowsTo({Append(input, t) : t \in PrintArgs})

GrowLines ==
    /\ kind = "oraclerc" /\ Len(input.lines) < MaxLines
    /\ GrowsTo({[input EXCEPT !.lines = Append(@, l)] : l \in Lines})

(* Another character of the last text, or another text.                    *)
GrowText ==
    /\ kind = "marked" /\ Len(FlattenSeq(input)) + Len(input) < MaxChars
    /\ GrowsTo({[input EXCEPT ![Len(input)] = Append(@, ch)] : ch \in Mark \cup {CR, "o"}}
                  \cup {Append(input, <<>>)})

InsertRegions == kind = "regions" /\ Next /\ UNCHANGED <<kind, input>>

MCNext == InsertRegions \/ GrowNew \/ GrowOpen \/ GrowPrint \/ GrowLines \/ GrowText

MCSpec == MCInit /\ [][MCNext]_<<kind, input, vars>>

-----------------------------------------------------------------------------
(* Properties *)

(* help.h:62, "NAME may be a path, a file name (without a path), or an     *)
(* extension.  Matching precedence is taken in that order": a line for an  *)
(* extension is taken only if no other line is for the file, a line for a  *)
(* name only if no line for its path follows (a line for the path that     *)
(* precedes it is passed over, though).  And no oracle is copied that does *)
(* not fit its buffer.                                                     *)
OraclePrecedence ==
    kind = "oraclerc" =>
        LET lines == input.lines
            For(i) == Matches(input.folder, lines[i])
            target == Target(input.folder, lines)
            oracles == GetOracles(input.folder, lines) IN
        /\ target = <<>> <=> \A i \in 1..Len(lines) : For(i) = {}
        /\ target # <<>> => \E k \in 1..Len(lines) :
              /\ lines[k] = target[1]
              /\ For(k) = {"ext"} => \A i \in 1..Len(lines) : For(i) \subseteq {"ext"}
              /\ For(k) = {"name"} => \A i \in k + 1 .. Len(lines) : For(i) # {"path"}
        /\ oracles[1] = "words" => oracles[2] <= ORACLE_LEN_MAX /\ oracles[3] <= ORACLE_LEN_MAX

(* The last flag at or before position i. *)
FlagAt(argv, i) == argv[Max({j \in 1..i : IsFlag(argv[j])})]

(* The numbers of S in order: the k-th has k - 1 below it. *)
Ascending(S) ==
    [k \in 1..Cardinality(S) |-> CHOOSE x \in S : Cardinality({y \in S : y < x}) = k - 1]

(* help.h:21, RANGE_NAME (-f (FILE_PATH)+ -r (INTERVAL)+)+ *)
DocumentedNew(argv) ==
    /\ argv # <<>> /\ argv[1] = Flag("-f") /\ FlagAt(argv, Len(argv)) = Flag("-r")
    /\ \A i \in 1..Len(argv) :
          CASE argv[i] = Flag("-f") -> i = 1 \/ FlagAt(argv, i - 1) = Flag("-r")
            [] argv[i] = Flag("-r") -> FlagAt(argv, i - 1) = Flag("-f")
            [] OTHER -> argv[i][1] = IF FlagAt(argv, i) = Flag("-f") THEN "file" ELSE "region"
    /\ \A i \in 1..Len(argv) : IsFlag(argv[i]) => i < Len(argv) /\ ~IsFlag(argv[i + 1])

(* The positions, and the half positions between them, that a region and   *)
(* the first k regions of a sequence cover.                                *)
Extent(t) == (2 * t[2]) .. (2 * t[3])

Extents(s, k) == UNION {Extent(s[i]) : i \in 1..k}

(* The nodes of it cover what the regions s do and do not meet each other. *)
IsUnion(it, s) ==
    /\ UNION {(2 * n.base) .. (2 * n.bound) : n \in it} = Extents(s, Len(s))
    /\ \A m, n \in it : Intersect(m, n) => m = n

(* Region k of s reaches over a gap that the ones before it have left: the *)
(* case in which it_insert_new frees a node twice.                         *)
Bridges(s, k) ==
    \E x, z \in Extent(s[k]) \cap Extents(s, k - 1) : \E y \in x..z : y \notin Extents(s, k - 1)

(* help.h:24-29: each interval is applied to the files of its own pair of  *)
(* flags and to all of these, from byte A to before byte B; and nothing is *)
(* created if a region is empty or a file is named twice.  Asked of as     *)
(* many files as the array of a new range holds, of intervals A,B (help.h  *)
(* allows "A," too, which get_range refuses) and where no interval bridges *)
(* a gap between earlier ones (where the program is undefined).            *)
NewRangeAsDocumented ==
    kind = "-g" /\ input # <<>> /\ DocumentedNew(input) =>
        LET Of(w) == {i \in 1..Len(input) : input[i][1] = w}
            Given(p) == LET q == Ascending({q \in Of("region") : q > p /\ \A j \in p..q : input[j] # Flag("-f")}) IN
                        [k \in 1..Len(q) |-> input[q[k]]]
            files == Ascending(Of("file"))
            proper == /\ \A q \in Of("region") : input[q][2] < input[q][3]
                      /\ \A p, q \in Of("file") : p # q => input[p] # input[q]
            range == NewRange(input) IN
        /\ Len(files) <= A_LIST_INIT_LEN
        /\ \A q \in Of("region") : input[q][3] # NoBound
        /\ \A p \in Of("file") : \A k \in 1..Len(Given(p)) : ~Bridges(Given(p), k)
        => IF ~proper THEN range = [end |-> "err", files |-> <<>>]
           ELSE /\ range.end = "insert" /\ Len(range.files) = Len(files)
                /\ \A n \in 1..Len(files) :
                      /\ range.files[n].file = input[files[n]]
                      /\ IsUnion(range.files[n].it, Given(files[n]))

(* help.h:13-20 and 32-37.  -r and -w open each named file once and run    *)
(* EXE_PATH with its options, whatever these are, provided that no longer  *)
(* name follows a repeated one; -p starts one thread for each word, of the *)
(* kind that the flag before it says.  Not asked of -p alone: for that     *)
(* help.h:38 promises to print all ranges, and the code prints nothing.    *)
ModesAsDocumented ==
    /\ kind = "-r" /\ input # <<>> =>
          \A e \in 2 .. Len(input) - 1 :
              LET first == IF input[1] = Flag("-f") THEN 2 ELSE 1
                  named == {input[i][2] : i \in first .. e - 1} IN
              /\ first < e /\ input[e] \in {Flag("-e"), Flag("-E")}
              /\ \A i \in first .. e - 1 : ~IsFlag(input[i])
              /\ \/ Cardinality(named) = e - first
                 \/ \A i, j \in named : i < j => NameLen[j] <= NameLen[i]
              => OpenRange(input) = [end |-> "open",
                                     files |-> Ascending(named),
                                     multiple |-> input[e] = Flag("-E"),
                                     exe |-> SubSeq(input, e + 1, Len(input))]
    /\ kind = "-p" /\ input # <<>> =>
          LET words == Ascending({i \in 1..Len(input) : ~IsFlag(input[i])}) IN
          IsFlag(input[1]) /\ (\A i \in 1..Len(input) : input[i] # Flag("-p"))
          => PrintThreads(input) =
                [n \in 1..Len(words) |->
                    <<IF FlagAt(input, words[n]) = Flag("-f") THEN "thd_pfile" ELSE "thd_prange",
                      input[words[n]]>>]

(* nosql/Makefile: make parse, then make test CMD=-g.  The arguments that  *)
(* bo writes for a mark make yacet -g create the range of exactly the      *)
(* bytes between the marks of each pair, where they are in the file        *)
(* without marks, if every mark is closed and encloses something.          *)
ImportIsExact ==
    kind = "marked" =>
        \A w \in Mark :
            LET Places(fp) == Ascending({i \in 1..Len(input[fp]) : input[fp][i] = w})
                Out(fp, i) == Cardinality({j \in 1..i : input[fp][j] = "o"})
                Spans(fp) == [k \in 1 .. Len(Places(fp)) \div 2 |->
                    Region(Out(fp, Places(fp)[2 * k - 1]), Out(fp, Places(fp)[2 * k]))]
                marked == Ascending({fp \in 1..Len(input) : Places(fp) # <<>>})
                closed == \A fp \in ToSet(marked) :
                    /\ Len(Places(fp)) % 2 = 0
                    /\ \A k \in 1..Len(Spans(fp)) : Spans(fp)[k][2] < Spans(fp)[k][3] IN
            closed /\ marked # <<>> /\ Len(marked) <= A_LIST_INIT_LEN =>
                LET range == NewRange(Import(input)[w]) IN
                /\ range.end = "insert" /\ Len(range.files) = Len(marked)
                /\ \A n \in 1..Len(marked) :
                      /\ range.files[n].file = File(marked[n])
                      /\ IsUnion(range.files[n].it, Spans(marked[n]))
=============================================================================
