----------------------------- MODULE CommandLine ------------------------------
(***************************************************************************)
(* What opts (main.c) makes of the arguments that follow -g RANGE_NAME,    *)
(* -r or -w RANGE_NAME, and -p.  An argument is a flag, a file or a region,*)
(* <<"flag", "-f">>, <<"file", f>> or <<"region", base, bound>>, where f   *)
(* is the place of the name in the order of strcmp and bound is NoBound    *)
(* for "A" and "A,".  Flags and their arguments are separate words.        *)
(* FoldLeft reads the arguments from left to right as getopt and           *)
(* foreach_optarg do, and "at" is what is expected next.                   *)
(***************************************************************************)
EXTENDS Intervals, Sequences, FiniteSets, SequencesExt

CONSTANTS
    A_LIST_INIT_LEN,   \* the length of a new a_list
    NameLen            \* NameLen[f]: the length of the name of file f

ASSUME CommandLineAssumption ==
    A_LIST_INIT_LEN \in Nat \ {0} /\ \A f \in DOMAIN NameLen : NameLen[f] \in Nat

NoBound == -1

IsFlag(t) == t[1] = "flag"
Flag(s)   == <<"flag", s>>

-----------------------------------------------------------------------------
(* -g RANGE_NAME (-f FILE... -r REGION...)...                              *)

(* get_range exits on anything but "A,B" with A < B. *)
GoodRegion(t) == t[1] = "region" /\ t[2] < t[3]

(* range_add_file: the file has no regions yet. *)
NewFile(f) == [file |-> f, it |-> {}]

(* range_add_new_file refuses the second mention of a file. *)
Repeated(files) == \E i, j \in 1..Len(files) : i < j /\ files[i].file = files[j].file

(* a_list_add: entries beyond the first ones are not cleared, and pointers *)
(* to the first ones are lost when the array grows.                        *)
Outgrown(files) == Len(files) > A_LIST_INIT_LEN

(* The files after -f join the range. *)
AddFiles(st, next) ==
    LET files == st.files \o [n \in 1..Len(st.fs) |-> NewFile(st.fs[n])] IN
    IF Repeated(files) THEN [st EXCEPT !.at = "err"]
    ELSE IF Outgrown(files) THEN [st EXCEPT !.at = "undefined"]
    ELSE [st EXCEPT !.files = files, !.at = next, !.i = @ + 1]

(* The nodes of a list that an interval meets.                             *)
Meeting(it, r) == {n \in it : Intersect(n, r)}

(* it_insert_new (step by step in IntervalList) frees the second of two    *)
(* nodes that the interval meets, and frees it again on its next turn.     *)
FreesTwice(it, r) == \E m, n \in Meeting(it, r) : m # n

(* Otherwise the one node that it meets takes it in, or it is a new one.   *)
ItInsertNew(it, r) ==
    IF Meeting(it, r) = {} THEN it \cup {r}
    ELSE (it \ Meeting(it, r)) \cup
            {[base  |-> Smaller(r.base, n.base),
              bound |-> Larger(r.bound, n.bound)] : n \in Meeting(it, r)}

(* range_file_add_it *)
Interval(t) == [base |-> t[2], bound |-> t[3]]

WithRegion(rf, t) == [rf EXCEPT !.it = ItInsertNew(@, Interval(t))]

AddRegionToAll(st, t) ==   \* fault: to the files of the earlier pairs too
    [st EXCEPT !.files = [i \in 1..Len(@) |-> WithRegion(@[i], t)]]

(* For the files of this pair only. *)
OfThisPair(st) == Len(st.files) - Len(st.fs) + 1 .. Len(st.files)

AddRegion(st, t) ==
    IF \E i \in OfThisPair(st) : FreesTwice(st.files[i].it, Interval(t))
    THEN [st EXCEPT !.at = "undefined"]
    ELSE [st EXCEPT !.files = [i \in 1..Len(@) |->
            IF i \in OfThisPair(st) THEN WithRegion(@[i], t) ELSE @[i]]]

(* getopt takes only the flag that is due; any other word ends the loop.   *)
Expect(st, flag, t, next) == [st EXCEPT !.at = IF t = Flag(flag) THEN next ELSE "end"]

(* A word where a region may stand: the next flag, or a region.            *)
RegionOrFlag(st, t) ==
    IF IsFlag(t) THEN Expect(st, "-f", t, "first")
    ELSE IF GoodRegion(t) THEN AddRegion(st, t) ELSE [st EXCEPT !.at = "err"]

(* "first" and "apply" are the places right after -f and -r: getopt fails  *)
(* there when no word follows, and what the flag stands for is not done.   *)
NewRangeArg(st, t) ==
    CASE st.at = "-f"      -> Expect(st, "-f", t, "first")
      [] st.at = "first"   -> IF IsFlag(t) THEN [st EXCEPT !.at = "err"]
                              ELSE [st EXCEPT !.fs = <<t>>, !.at = "files", !.i = @ + 1]
      [] st.at = "files"   -> IF IsFlag(t) THEN Expect(st, "-r", t, "apply")
                              ELSE [st EXCEPT !.fs = Append(@, t)]
      [] st.at = "apply"   -> LET added == AddFiles(st, "regions") IN
                              IF added.at = "regions" THEN RegionOrFlag(added, t) ELSE added
      [] st.at = "regions" -> RegionOrFlag(st, t)
      [] OTHER             -> st

ReadNewRange(argv) ==
    FoldLeft(NewRangeArg, [at |-> "-f", fs |-> <<>>, files |-> <<>>, i |-> 0], argv)

(* The range that is sent to the database, or why there is none.           *)
NewRange(argv) ==
    LET st == ReadNewRange(argv) IN
    IF st.at \in {"err", "undefined"} THEN [end |-> st.at, files |-> <<>>]
    ELSE IF st.i = 0 THEN [end |-> "err", files |-> <<>>]
    ELSE [end |-> "insert", files |-> st.files]

-----------------------------------------------------------------------------
(* -r RANGE_NAME (-f)? FILE... (-e|-E) EXE...                              *)

(* qsort: the n-th of the sorted names has fewer than n names before it,   *)
(* and at least n up to it.                                                *)
Sorted(names) ==
    [n \in 1..Len(names) |->
        CHOOSE v \in ToSet(names) :
            /\ Cardinality({i \in 1..Len(names) : names[i] < v}) < n
            /\ Cardinality({i \in 1..Len(names) : names[i] <= v}) >= n]

NeverRepeated(names) == [kept |-> names, fits |-> TRUE]   \* fault: repetitions stay

(* strcmp on sorted names: a name is copied down over the place of one     *)
(* that was dropped, and must not be longer than that one was.             *)
DropName(names, st, j) ==
    IF j = 1 THEN [st EXCEPT !.kept = <<names[1]>>]
    ELSE IF Last(st.kept) = names[j] THEN st
    ELSE [kept |-> Append(st.kept, names[j]),
          fits |-> st.fits /\ NameLen[names[j]] <= NameLen[names[Len(st.kept) + 1]]]

DropRepeated(names) ==
    FoldLeftDomain(LAMBDA st, j : DropName(names, st, j), [kept |-> <<>>, fits |-> TRUE], names)

(* Where a search stops: at the first hit, or at the end.                  *)
FirstOf(argv, hits) == IF hits = {} THEN Len(argv) + 1 ELSE Min(hits)

(* With no file argv[k + 1] is set to NULL after p_exe_path was set to it. *)
OpenRange(argv) ==
    LET k == FirstOf(argv, {i \in 1..Len(argv) : argv[i] # Flag("-f")})
        l == FirstOf(argv, {i \in k..Len(argv) : IsFlag(argv[i])})
        e == FirstOf(argv, {i \in l..Len(argv) : argv[i] \in {Flag("-e"), Flag("-E")}})
        dropped == DropRepeated(Sorted([i \in 1 .. l - k |-> argv[k + i - 1][2]])) IN
    IF k > Len(argv) \/ e >= Len(argv) THEN [end |-> "err"]
    ELSE IF ~dropped.fits THEN [end |-> "undefined"]
    ELSE [end      |-> "open",
          files    |-> dropped.kept,
          multiple |-> argv[e] = Flag("-E"),
          exe      |-> [i \in 1 .. Len(argv) - e |->
                          IF l = k /\ e + i = k + 1 THEN <<"null">> ELSE argv[e + i]]]

-----------------------------------------------------------------------------
(* -p (-g|-r RANGE...)... (-f FILE...)...: one thread for each word.       *)

PrintArg(st, t) ==
    IF st.at = "end" THEN st
    ELSE IF t = Flag("-f") THEN [st EXCEPT !.at = "thd_pfile"]
    ELSE IF t \in {Flag("-g"), Flag("-r")} THEN [st EXCEPT !.at = "thd_prange"]
    ELSE IF IsFlag(t) \/ st.at = "option" THEN [st EXCEPT !.at = "end"]
    ELSE [st EXCEPT !.thds = Append(@, <<st.at, t>>)]

PrintThreads(argv) == FoldLeft(PrintArg, [at |-> "option", thds |-> <<>>], argv).thds
=============================================================================
