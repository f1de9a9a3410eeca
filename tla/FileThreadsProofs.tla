-------------------------- MODULE FileThreadsProofs --------------------------
(***************************************************************************)
(* The threads of a process for any number of files: main counts every     *)
(* thread once, frees nothing under a thread that runs its own editor, and *)
(* edits again only what a thread will push.                               *)
(***************************************************************************)
EXTENDS FileThreads, SequenceTheorems, FiniteSetTheorems, TLAPS

-----------------------------------------------------------------------------
(* The queues *)

Elems(q) == {q[n] : n \in 1..Len(q)}

LEMMA PushElems ==
  ASSUME NEW S, NEW q \in Seq(S), NEW x \in S
  PROVE  /\ Push(q, x) \in Seq(S) /\ Len(Push(q, x)) = Len(q) + 1
         /\ Elems(Push(q, x)) = Elems(q) \cup {x}
<1>1. /\ Push(q, x) \in Seq(S) /\ Len(Push(q, x)) = Len(q) + 1 /\ Len(q) \in Nat
      /\ \A n \in 1..Len(q) : Push(q, x)[n] = q[n]
      /\ Push(q, x)[Len(q) + 1] = x
  BY DEF Push
<1>2. 1..(Len(q) + 1) = 1..Len(q) \cup {Len(q) + 1}
  BY <1>1
<1> HIDE DEF Push
<1> QED BY <1>1, <1>2 DEF Elems

LEMMA PopElems ==
  ASSUME NEW S, NEW q \in Seq(S), q # <<>>
  PROVE  /\ Pop(q) \in Seq(S) /\ Len(Pop(q)) = Len(q) - 1 /\ Len(q) \in Nat \ {0}
         /\ Top(q) \in S
         /\ Elems(q) = Elems(Pop(q)) \cup {Top(q)}
<1>1. Len(q) \in Nat \ {0}
  BY EmptySeq
<1>2. \A n \in 1..Len(q) : q[n] \in S
  BY ElementOfSeq
<1>3. /\ Pop(q) \in Seq(S) /\ Len(Pop(q)) = Len(q) - 1
      /\ \A n \in 1..Len(q) - 1 : Pop(q)[n] = q[n]
  <2>1. \A n \in 1..Len(q) - 1 : q[n] \in S
    BY <1>1, <1>2
  <2> DEFINE n == Len(q)
             p == SubSeq(q, 1, n - 1)
  <2>2. /\ p \in Seq(S)
        /\ Len(p) = IF 1 <= n - 1 THEN n - 1 - 1 + 1 ELSE 0
        /\ \A k \in 1..(n - 1 - 1 + 1) : p[k] = q[1 + k - 1]
    BY <1>1, <2>1, SubSeqProperties
  <2>3. Pop(q) = p /\ n \in Nat \ {0}
    BY <1>1 DEF Pop
  <2> HIDE DEF n, p
  <2>4. Len(p) = n - 1
    BY <2>2, <2>3
  <2>5. \A k \in 1..n - 1 : p[k] = q[k]
    BY <2>2, <2>3
  <2> QED BY <2>2, <2>3, <2>4, <2>5 DEF n
<1>4. 1..Len(q) = 1..(Len(q) - 1) \cup {Len(q)}
  BY <1>1
<1> HIDE DEF Pop
<1> QED BY <1>1, <1>2, <1>3, <1>4 DEF Elems, Top

LEMMA NoElems == ASSUME NEW S, NEW q \in Seq(S), Len(q) = 0 PROVE q = <<>> /\ Elems(q) = {}
  BY EmptySeq DEF Elems

LEMMA FilesCount == num_files \in Nat
  BY FileThreadsAssumption, FS_CardinalityType DEF num_files

(* What main and the threads do to the queues.                             *)
LEMMA PushQc ==
  ASSUME TypeOK, ~Full(qc), NEW f \in File
  PROVE  /\ Push(qc, f) \in Seq(File) /\ Len(Push(qc, f)) <= num_files
         /\ Len(Push(qc, f)) = Len(qc) + 1 /\ Elems(Push(qc, f)) = Elems(qc) \cup {f}
<1>1. qc \in Seq(File) /\ Len(qc) \in Nat /\ Len(qc) <= num_files /\ Len(qc) # num_files
  BY LenProperties DEF TypeOK, Full
<1>2. /\ Push(qc, f) \in Seq(File) /\ Len(Push(qc, f)) = Len(qc) + 1
      /\ Elems(Push(qc, f)) = Elems(qc) \cup {f}
  BY <1>1, PushElems
<1> QED BY <1>1, <1>2, FilesCount

LEMMA PushQp ==
  ASSUME TypeOK, ~Full(qp), NEW b \in BOOLEAN
  PROVE  /\ Push(qp, b) \in Seq(BOOLEAN) /\ Len(Push(qp, b)) <= num_files
         /\ Elems(Push(qp, b)) = Elems(qp) \cup {b}
<1>1. qp \in Seq(BOOLEAN) /\ Len(qp) \in Nat /\ Len(qp) <= num_files /\ Len(qp) # num_files
  BY LenProperties DEF TypeOK, Full
<1>2. /\ Push(qp, b) \in Seq(BOOLEAN) /\ Len(Push(qp, b)) = Len(qp) + 1
      /\ Elems(Push(qp, b)) = Elems(qp) \cup {b}
  BY <1>1, PushElems
<1> QED BY <1>1, <1>2, FilesCount

LEMMA PopQc ==
  ASSUME TypeOK, qc # <<>>
  PROVE  /\ Pop(qc) \in Seq(File) /\ Len(Pop(qc)) <= num_files
         /\ Len(Pop(qc)) = Len(qc) - 1 /\ Top(qc) \in File
         /\ Elems(qc) = Elems(Pop(qc)) \cup {Top(qc)}
<1>1. qc \in Seq(File) /\ Len(qc) <= num_files
  BY DEF TypeOK
<1>2. /\ Pop(qc) \in Seq(File) /\ Len(Pop(qc)) = Len(qc) - 1 /\ Len(qc) \in Nat \ {0}
      /\ Top(qc) \in File /\ Elems(qc) = Elems(Pop(qc)) \cup {Top(qc)}
  BY <1>1, PopElems
<1> QED BY <1>1, <1>2, FilesCount

LEMMA PopQp ==
  ASSUME TypeOK, qp # <<>>
  PROVE  /\ Pop(qp) \in Seq(BOOLEAN) /\ Len(Pop(qp)) <= num_files /\ Top(qp) \in BOOLEAN
         /\ Elems(qp) = Elems(Pop(qp)) \cup {Top(qp)}
<1>1. qp \in Seq(BOOLEAN) /\ Len(qp) <= num_files
  BY DEF TypeOK
<1>2. /\ Pop(qp) \in Seq(BOOLEAN) /\ Len(Pop(qp)) = Len(qp) - 1 /\ Len(qp) \in Nat \ {0}
      /\ Top(qp) \in BOOLEAN /\ Elems(qp) = Elems(Pop(qp)) \cup {Top(qp)}
  BY <1>1, PopElems
<1> QED BY <1>1, <1>2, FilesCount

(* What the user saves.                                                    *)
LEMMA SavedType ==
  ASSUME TypeOK, NEW S \in SUBSET File, Saved(S)
  PROVE  /\ bad' \in 0..MaxBad
         /\ swap' \in [File -> {"none", "pulled", "saved", "bad", "pushed"}]
         /\ \A f \in File : IF f \in S THEN swap'[f] \in {"saved", "bad"} ELSE swap'[f] = swap[f]
<1>1. PICK B \in SUBSET S :
         /\ bad + Cardinality(B) <= MaxBad
         /\ bad' = bad + Cardinality(B)
         /\ swap' = [f \in File |-> IF f \in B THEN "bad" ELSE IF f \in S THEN "saved" ELSE swap[f]]
  BY DEF Saved
<1>2. Cardinality(B) \in Nat
  BY FileThreadsAssumption, FS_Subset, FS_CardinalityType
<1>3. bad' \in 0..MaxBad
  BY <1>1, <1>2, FileThreadsAssumption DEF TypeOK
<1> QED BY <1>1, <1>3 DEF TypeOK

-----------------------------------------------------------------------------
(* Every thread reports once before main has counted them all.             *)

Pending ==
    {f \in File : \/ tpc[f] = "none" /\ mpc = "create" /\ f \notin seen
                  \/ tpc[f] \in {"pull", "ready", "quit"}}

Popped(f) == f \notin Pending /\ f \notin Elems(qc)

Counting == {"create", "collect", "join"}

(* No thread has been sent a token yet, and none has a result.             *)
Unasked ==
    /\ qp = <<>>
    /\ \A f \in File : tpc[f] # "report" /\ (multiple_mode => tpc[f] # "push")

CountInv ==
    /\ mpc = "create" => /\ i = 0 /\ num_thds = 0
                         /\ \A f \in File : ~Popped(f) /\ (f \notin seen => tpc[f] = "none")
    /\ mpc \in Counting => i + Len(qc) + Cardinality(Pending) = num_files /\ num_thds <= i
    /\ mpc \in Counting => Unasked
    /\ mpc \notin Counting => Pending = {}
    /\ mpc \notin {"create", "joinall", "free", "exit", "stuck"} => seen = {}
    /\ ~multiple_mode => /\ mpc \in Counting \cup {"joinall", "free", "exit", "stuck"}
                         /\ mpc \notin Counting => qc = <<>>

(* What the state of a thread says of where it is.                         *)
GivenUp == (mpc = "tokens" /\ ~succ) \/ mpc \in {"joinall", "free", "exit", "stuck"}

FileState(f) ==
    /\ tpc[f] \in {"none", "pull"} => thd_state[f] = "FAILED" /\ swap[f] = "none"
    /\ tpc[f] = "quit" => thd_state[f] = "TERMINATED"
    /\ thd_state[f] = "FAILED" => tpc[f] \in {"none", "pull"}
    /\ thd_state[f] = "TERMINATED" => tpc[f] \in {"quit", "fail", "end", "killed"}
    /\ thd_state[f] = "RETRY" =>
          /\ multiple_mode
          /\ tpc[f] \in {"ready", "wait", "push", "report", "fail", "end", "killed"}
          /\ tpc[f] \in {"fail", "end", "killed"} => GivenUp
    /\ swap[f] = "pushed" => thd_state[f] = "OK"
    /\ tpc[f] = "killed" => mpc = "exit"

StateInv ==
    /\ \A f \in File : FileState(f)
    /\ FALSE \in Elems(qp) => GivenUp

(* With -e: who has been joined, and whether anybody is left to be.        *)
JoinInv ==
    ~multiple_mode =>
       /\ \A f \in File : Popped(f) =>
             /\ thd_state[f] = "TERMINATED" => Over(f) \/ (mpc = "join" /\ retval = f)
             /\ thd_state[f] = "OK" => num_thds > 0
       /\ mpc = "joinall" => \A f \in seen : thd_state[f] = "OK" => Over(f)
       /\ mpc = "free" => \A f \in File : tpc[f] \in {"none", "end"}

Inv == TypeOK /\ CountInv /\ StateInv /\ JoinInv

LEMMA TypeStep ==
  ASSUME TypeOK, CountInv, [Next]_vars PROVE TypeOK'
<1>1. ASSUME NEW f \in File, CreateThread(f), UNCHANGED multiple_mode PROVE TypeOK'
  <2>1. qc' \in Seq(File) /\ Len(qc') <= num_files
    BY <1>1, PushQc DEF CreateThread, TypeOK
  <2>2. /\ tpc' \in [File -> ThreadAt]
        /\ tpc' # tpc => tpc' = [tpc EXCEPT ![f] = "pull"]
        /\ thd_state' \in [File -> {"OK", "FAILED", "TERMINATED", "RETRY"}]
        /\ seen' \subseteq File
    BY <1>1 DEF CreateThread, TypeOK, ThreadAt
  <2> QED BY <1>1, <2>1, <2>2 DEF CreateThread, TypeOK
<1>2. ASSUME NEW f \in File, JoinOrPass(f), UNCHANGED multiple_mode PROVE TypeOK'
  BY <1>2, FilesCount DEF JoinOrPass, TypeOK, ThreadAt, main, threads
<1>3. CASE OpenFilesReturns /\ UNCHANGED multiple_mode
  BY <1>3, FilesCount DEF OpenFilesReturns, TypeOK, ThreadAt, main, threads
<1>4. CASE Collect /\ UNCHANGED multiple_mode
  BY <1>4, FilesCount, PopQc DEF Collect, TypeOK, ThreadAt, main, threads, CountInv, Counting
<1>5. CASE Collected /\ UNCHANGED multiple_mode
  BY <1>5, FilesCount DEF Collected, TypeOK, ThreadAt, main, threads
<1>6. CASE Join /\ UNCHANGED multiple_mode
  BY <1>6, FilesCount DEF Join, TypeOK, ThreadAt, main, threads
<1>7. CASE RunEditor /\ UNCHANGED multiple_mode
  <2>1. Retried \in SUBSET File
    BY DEF Retried
  <2>2. bad' \in 0..MaxBad /\ swap' \in [File -> {"none", "pulled", "saved", "bad", "pushed"}]
    BY <1>7, <2>1, SavedType DEF RunEditor, TypeOK
  <2>3. succ' \in BOOLEAN
    BY <1>7 DEF RunEditor
  <2>4. i' \in 0..num_files /\ mpc' = "tokens"
    BY <1>7, FilesCount DEF RunEditor
  <2> QED BY <1>7, <2>2, <2>3, <2>4 DEF RunEditor, TypeOK, threads
<1>8. CASE SendToken /\ UNCHANGED multiple_mode
  <2>1. qp' \in Seq(BOOLEAN) /\ Len(qp') <= num_files
    BY <1>8, PushQp DEF SendToken, TypeOK
  <2>2. i' \in 0..num_files
    BY <1>8, FilesCount DEF SendToken, TypeOK
  <2> QED BY <1>8, <2>1, <2>2 DEF SendToken, TypeOK, threads
<1>9. CASE TokensSent /\ UNCHANGED multiple_mode
  <2>1. succ' \in BOOLEAN
    BY <1>9 DEF TokensSent
  <2>2. i' \in 0..num_files /\ mpc' \in {"results", "joinall"}
    <3>1. CASE succ
      BY <1>9, <3>1, FilesCount DEF TokensSent, TypeOK
    <3>2. CASE ~succ
      BY <1>9, <3>2, FilesCount DEF TokensSent, TypeOK
    <3> QED BY <3>1, <3>2
  <2> QED BY <1>9, <2>1, <2>2 DEF TokensSent, TypeOK, threads
<1>10. CASE Result /\ UNCHANGED multiple_mode
  <2>1. i' \in 0..num_files /\ num_thds' \in 0..num_files /\ mpc' \in {"results", "joinresult"}
    BY <1>10, FilesCount DEF Result, TypeOK
  <2>3. succ' \in BOOLEAN
    BY <1>10 DEF Result, TypeOK
  <2>2. retval' \in File /\ qc' \in Seq(File) /\ Len(qc') <= num_files
    BY <1>10, PopQc DEF Result
  <2> QED BY <1>10, <2>1, <2>2, <2>3 DEF Result, TypeOK, threads
<1>11. CASE ResultsDone /\ UNCHANGED multiple_mode
  BY <1>11, FilesCount DEF ResultsDone, TypeOK, ThreadAt, main, threads
<1>12. CASE AllJoined /\ UNCHANGED multiple_mode
  BY <1>12, FilesCount DEF AllJoined, TypeOK, ThreadAt, main, threads
<1>13. CASE Exit /\ UNCHANGED multiple_mode
  BY <1>13, FilesCount DEF Exit, TypeOK, ThreadAt, main, threads
<1>23. CASE Hang /\ UNCHANGED multiple_mode
  BY <1>23, FilesCount, EmptySeq DEF Hang, TypeOK, threads
<1>14. ASSUME NEW f \in File, PullFile(f) PROVE TypeOK'
  BY <1>14, FilesCount DEF PullFile, TypeOK, ThreadAt, main, threads, SetState, PulledState, Goto
<1>15. ASSUME NEW f \in File, ReportReady(f) PROVE TypeOK'
  <2>1. qc' \in Seq(File) /\ Len(qc') <= num_files
    BY <1>15, PushQc DEF ReportReady, Report
  <2>2. /\ tpc' \in [File -> ThreadAt]
        /\ \A g \in File : tpc'[g] \notin IF multiple_mode THEN {"editor"} ELSE {"wait", "report"}
    BY <1>15 DEF ReportReady, Report, Goto, TypeOK, ThreadAt
  <2> QED BY <1>15, <2>1, <2>2 DEF ReportReady, Report, TypeOK, main
<1>16. ASSUME NEW f \in File, ReportQuit(f) PROVE TypeOK'
  <2>1. qc' \in Seq(File) /\ Len(qc') <= num_files
    BY <1>16, PushQc DEF ReportQuit, Report
  <2>2. /\ tpc' \in [File -> ThreadAt]
        /\ \A g \in File : tpc'[g] \notin IF multiple_mode THEN {"editor"} ELSE {"wait", "report"}
    BY <1>16 DEF ReportQuit, Report, Goto, TypeOK, ThreadAt
  <2> QED BY <1>16, <2>1, <2>2 DEF ReportQuit, Report, TypeOK, main
<1>17. ASSUME NEW f \in File, ReportResult(f) PROVE TypeOK'
  <2>1. qc' \in Seq(File) /\ Len(qc') <= num_files
    BY <1>17, PushQc DEF ReportResult, Report
  <2>2. /\ tpc' \in [File -> ThreadAt]
        /\ \A g \in File : tpc'[g] \notin IF multiple_mode THEN {"editor"} ELSE {"wait", "report"}
    BY <1>17 DEF ReportResult, Report, Goto, TypeOK, ThreadAt
  <2> QED BY <1>17, <2>1, <2>2 DEF ReportResult, Report, TypeOK, main
<1>18. ASSUME NEW f \in File, TakeToken(f) PROVE TypeOK'
  BY <1>18, FilesCount, PopQp DEF TakeToken, TypeOK, ThreadAt, main, threads, Goto
<1>19. ASSUME NEW f \in File, OwnEditor(f) PROVE TypeOK'
  BY <1>19, FilesCount, SavedType, SMTT(40) DEF OwnEditor, TypeOK, ThreadAt, main, threads, Goto
<1>20. ASSUME NEW f \in File, PushFile(f) PROVE TypeOK'
  BY <1>20, FilesCount DEF PushFile, TypeOK, ThreadAt, main, threads, SetPushed, SetState, Goto
<1>21. ASSUME NEW f \in File, EndThread(f) PROVE TypeOK'
  BY <1>21, FilesCount DEF EndThread, TypeOK, ThreadAt, main, threads, Goto
<1>22. CASE UNCHANGED vars
  BY <1>22 DEF vars, main, threads, TypeOK
<1> QED BY <1>1, <1>2, <1>3, <1>4, <1>5, <1>6, <1>7, <1>8, <1>9, <1>10, <1>11, <1>12, <1>13, <1>14, <1>15, <1>16, <1>17, <1>18, <1>19, <1>20, <1>21, <1>22, <1>23 DEF Next, MainStep, ThreadStep

(* How a step counts: a report takes a thread from those that have one due *)
(* to those whose report is in the queue.                                  *)
LEMMA PendingCount ==
  /\ Cardinality(Pending) \in Nat
  /\ \A f \in Pending : Cardinality(Pending \ {f}) = Cardinality(Pending) - 1
  /\ Cardinality(Pending) = 0 => Pending = {}
<1>1. IsFiniteSet(Pending)
  BY FileThreadsAssumption, FS_Subset DEF Pending
<1> QED BY <1>1, FS_CardinalityType, FS_RemoveElement, FS_EmptySet


LEMMA CountStep ==
  ASSUME TypeOK, CountInv, [Next]_vars PROVE CountInv'
<1>1. ASSUME NEW f \in File, CreateThread(f), UNCHANGED multiple_mode PROVE CountInv'
  <2>1. f \in Pending /\ tpc[f] = "none" /\ Len(qc) \in Nat
    BY <1>1, LenProperties DEF CreateThread, CountInv, Pending, TypeOK
  <2>2. CASE ~Full(qc) /\ qc' = Push(qc, f) /\ UNCHANGED tpc
    <3>1. Pending' = Pending \ {f} /\ Elems(qc') = Elems(qc) \cup {f} /\ Len(qc') = Len(qc) + 1
      BY <1>1, <2>1, <2>2, PushQc DEF CreateThread, Pending
    <3>2. i' + Len(qc') + Cardinality(Pending') = num_files
      BY <1>1, <2>1, <3>1, PendingCount, FilesCount DEF CreateThread, CountInv, Counting
    <3> QED BY <1>1, <2>1, <2>2, <3>1, <3>2 DEF CreateThread, CountInv, Counting, Popped, Unasked, TypeOK
  <2>3. CASE tpc' = [tpc EXCEPT ![f] = "pull"] /\ UNCHANGED <<qc, thd_state>>
    <3>1. Pending' = Pending /\ Elems(qc') = Elems(qc)
      BY <1>1, <2>1, <2>3 DEF CreateThread, Pending, TypeOK, Elems
    <3>2. \A g \in File : g \notin seen' => tpc'[g] = "none"
      BY <1>1, <2>3 DEF CreateThread, CountInv, TypeOK
    <3> QED BY <1>1, <2>3, <3>1, <3>2 DEF CreateThread, CountInv, Counting, Popped, Unasked, TypeOK
  <2> QED BY <1>1, <2>2, <2>3 DEF CreateThread
<1>2. ASSUME NEW f \in File, JoinOrPass(f), UNCHANGED multiple_mode PROVE CountInv'
  <2>1. Pending' = Pending
    BY <1>2 DEF JoinOrPass, Pending, threads
  <2> QED BY <1>2, <2>1 DEF JoinOrPass, CountInv, Counting, Popped, Unasked, threads
<1>3. CASE OpenFilesReturns /\ UNCHANGED multiple_mode
  <2>1. Pending' = Pending
    BY <1>3 DEF OpenFilesReturns, Pending, threads
  <2> QED BY <1>3, <2>1 DEF OpenFilesReturns, CountInv, Counting, Unasked, threads
<1>4. CASE Collect /\ UNCHANGED multiple_mode
  <2>1. Pending' = Pending
    BY <1>4 DEF Collect, Pending, threads
  <2>2. Len(qc') = Len(qc) - 1 /\ Len(qc) \in Nat
    BY <1>4, PopQc, LenProperties DEF Collect, TypeOK
  <2>3. i' = i + 1 /\ num_thds' \in {num_thds, num_thds + 1} /\ mpc' \in {"collect", "join"}
    BY <1>4 DEF Collect
  <2>4. i' + Len(qc') + Cardinality(Pending') = num_files /\ num_thds' <= i'
    BY <1>4, <2>1, <2>2, <2>3, PendingCount, FilesCount DEF Collect, CountInv, Counting, TypeOK
  <2> QED BY <1>4, <2>3, <2>4 DEF Collect, CountInv, Counting, Unasked, threads
<1>5. CASE Collected /\ UNCHANGED multiple_mode
  <2>1. Len(qc) = 0 /\ Cardinality(Pending) = 0
    BY <1>5, PendingCount, LenProperties DEF Collected, CountInv, Counting, TypeOK
  <2>2. qc = <<>> /\ Pending = {}
    BY <2>1, PendingCount, EmptySeq DEF TypeOK
  <2>3. Pending' = Pending
    BY <1>5 DEF Collected, Pending, threads
  <2> QED BY <1>5, <2>2, <2>3 DEF Collected, CountInv, Counting
<1>6. CASE Join /\ UNCHANGED multiple_mode
  <2>1. Pending' = Pending
    BY <1>6 DEF Join, Pending, threads
  <2> QED BY <1>6, <2>1 DEF Join, CountInv, Counting, Popped, Unasked, threads
<1>7. CASE RunEditor /\ UNCHANGED multiple_mode
  <2>1. Pending' = Pending
    BY <1>7 DEF RunEditor, Pending, threads
  <2> QED BY <1>7, <2>1 DEF RunEditor, CountInv, Counting, Popped, Unasked, threads
<1>8. CASE SendToken /\ UNCHANGED multiple_mode
  <2>1. Pending' = Pending
    BY <1>8 DEF SendToken, Pending, threads
  <2> QED BY <1>8, <2>1 DEF SendToken, CountInv, Counting, Popped, Unasked, threads
<1>9. CASE TokensSent /\ UNCHANGED multiple_mode
  <2>1. Pending' = Pending
    BY <1>9 DEF TokensSent, Pending, threads
  <2> QED BY <1>9, <2>1 DEF TokensSent, CountInv, Counting, Popped, Unasked, threads
<1>10. CASE Result /\ UNCHANGED multiple_mode
  <2>1. Pending' = Pending
    BY <1>10 DEF Result, Pending, threads
  <2> QED BY <1>10, <2>1 DEF Result, CountInv, Counting, Popped, Unasked, threads
<1>11. CASE ResultsDone /\ UNCHANGED multiple_mode
  <2>1. Pending' = Pending
    BY <1>11 DEF ResultsDone, Pending, threads
  <2> QED BY <1>11, <2>1 DEF ResultsDone, CountInv, Counting, Popped, Unasked, threads
<1>12. CASE AllJoined /\ UNCHANGED multiple_mode
  <2>1. Pending' = Pending
    BY <1>12 DEF AllJoined, Pending, threads
  <2> QED BY <1>12, <2>1 DEF AllJoined, CountInv, Counting, Popped, Unasked, threads
<1>13. CASE Exit /\ UNCHANGED multiple_mode
  <2>1. Pending' = Pending
    BY <1>13 DEF Exit, CountInv, Counting, Pending, TypeOK
  <2> QED BY <1>13, <2>1 DEF Exit, CountInv, Counting, Popped
<1>23. CASE Hang /\ UNCHANGED multiple_mode
  <2>1. Pending' = Pending
    BY <1>23 DEF Hang, CountInv, Counting, Pending, threads
  <2> QED BY <1>23, <2>1 DEF Hang, CountInv, Counting, Popped
<1>14. ASSUME NEW f \in File, PullFile(f) PROVE CountInv'
  <2>1. Pending' = Pending
    BY <1>14 DEF PullFile, SetState, Goto, Pending, TypeOK, main
  <2>2. mpc = "create" => \A g \in File : g \notin seen => tpc'[g] = "none"
    BY <1>14 DEF PullFile, SetState, Goto, CountInv, TypeOK
  <2>3. mpc \in Counting => Unasked'
    BY <1>14 DEF PullFile, SetState, Goto, CountInv, Unasked, TypeOK, main
  <2> QED BY <1>14, <2>1, <2>2, <2>3 DEF PullFile, CountInv, Counting, Popped, Elems, main
<1>15. ASSUME NEW f \in File, ReportReady(f) PROVE CountInv'
  <2>1. f \in Pending /\ Pending' = Pending \ {f}
    BY <1>15 DEF ReportReady, Report, Goto, Pending, TypeOK, main
  <2>2. Elems(qc') = Elems(qc) \cup {f} /\ Len(qc') = Len(qc) + 1 /\ Len(qc) \in Nat
    BY <1>15, PushQc, LenProperties DEF ReportReady, Report, TypeOK
  <2>3. mpc \in Counting
    BY <2>1 DEF CountInv
  <2>4. i' + Len(qc') + Cardinality(Pending') = num_files
    BY <1>15, <2>1, <2>2, <2>3, PendingCount, FilesCount DEF ReportReady, Report, CountInv, TypeOK, main
  <2>5. mpc = "create" => \A g \in File : g \notin seen => tpc'[g] = "none"
    BY <1>15 DEF ReportReady, Report, Goto, CountInv, TypeOK
  <2>6. Unasked'
    BY <1>15, <2>3 DEF ReportReady, Report, Goto, CountInv, Unasked, TypeOK, main
  <2> QED BY <1>15, <2>1, <2>2, <2>3, <2>4, <2>5, <2>6 DEF ReportReady, Report, CountInv, Counting, Popped, main
<1>16. ASSUME NEW f \in File, ReportQuit(f) PROVE CountInv'
  <2>1. f \in Pending /\ Pending' = Pending \ {f}
    BY <1>16 DEF ReportQuit, Report, Goto, Pending, TypeOK, main
  <2>2. Elems(qc') = Elems(qc) \cup {f} /\ Len(qc') = Len(qc) + 1 /\ Len(qc) \in Nat
    BY <1>16, PushQc, LenProperties DEF ReportQuit, Report, TypeOK
  <2>3. mpc \in Counting
    BY <2>1 DEF CountInv
  <2>4. i' + Len(qc') + Cardinality(Pending') = num_files
    BY <1>16, <2>1, <2>2, <2>3, PendingCount, FilesCount DEF ReportQuit, Report, CountInv, TypeOK, main
  <2>5. mpc = "create" => \A g \in File : g \notin seen => tpc'[g] = "none"
    BY <1>16 DEF ReportQuit, Report, Goto, CountInv, TypeOK
  <2>6. Unasked'
    BY <1>16, <2>3 DEF ReportQuit, Report, Goto, CountInv, Unasked, TypeOK, main
  <2> QED BY <1>16, <2>1, <2>2, <2>3, <2>4, <2>5, <2>6 DEF ReportQuit, Report, CountInv, Counting, Popped, main
<1>17. ASSUME NEW f \in File, ReportResult(f) PROVE CountInv'
  <2>1. mpc \notin Counting /\ multiple_mode
    BY <1>17 DEF ReportResult, Report, CountInv, Unasked, TypeOK
  <2>2. Pending' = Pending
    BY <1>17 DEF ReportResult, Report, Goto, Pending, TypeOK, main
  <2> QED BY <1>17, <2>1, <2>2 DEF ReportResult, Report, CountInv, Counting, main
<1>18. ASSUME NEW f \in File, TakeToken(f) PROVE CountInv'
  <2>1. Pending' = Pending
    BY <1>18 DEF TakeToken, Goto, Pending, TypeOK, main
  <2>2. mpc = "create" => \A g \in File : g \notin seen => tpc'[g] = "none"
    BY <1>18 DEF TakeToken, Goto, CountInv, TypeOK
  <2>3. mpc \in Counting => Unasked'
    BY <1>18 DEF TakeToken, Goto, CountInv, Unasked, TypeOK, main
  <2> QED BY <1>18, <2>1, <2>2, <2>3 DEF TakeToken, CountInv, Counting, Popped, Elems, main
<1>19. ASSUME NEW f \in File, OwnEditor(f) PROVE CountInv'
  <2>1. Pending' = Pending
    BY <1>19 DEF OwnEditor, Goto, Pending, TypeOK, main
  <2>2. mpc = "create" => \A g \in File : g \notin seen => tpc'[g] = "none"
    BY <1>19 DEF OwnEditor, Goto, CountInv, TypeOK
  <2>3. mpc \in Counting => Unasked'
    BY <1>19 DEF OwnEditor, Goto, CountInv, Unasked, TypeOK, main
  <2> QED BY <1>19, <2>1, <2>2, <2>3 DEF OwnEditor, CountInv, Counting, Popped, Elems, main
<1>20. ASSUME NEW f \in File, PushFile(f) PROVE CountInv'
  <2>1. Pending' = Pending
    BY <1>20 DEF PushFile, SetPushed, SetState, Goto, Pending, TypeOK, main
  <2>2. mpc = "create" => \A g \in File : g \notin seen => tpc'[g] = "none"
    BY <1>20 DEF PushFile, SetPushed, SetState, Goto, CountInv, TypeOK
  <2>3. mpc \in Counting => Unasked'
    BY <1>20 DEF PushFile, SetPushed, SetState, Goto, CountInv, Unasked, TypeOK, main
  <2> QED BY <1>20, <2>1, <2>2, <2>3 DEF PushFile, CountInv, Counting, Popped, Elems, main
<1>21. ASSUME NEW f \in File, EndThread(f) PROVE CountInv'
  <2>1. Pending' = Pending
    BY <1>21 DEF EndThread, Goto, Pending, TypeOK, main
  <2>2. mpc = "create" => \A g \in File : g \notin seen => tpc'[g] = "none"
    BY <1>21 DEF EndThread, Goto, CountInv, TypeOK
  <2>3. mpc \in Counting => Unasked'
    BY <1>21 DEF EndThread, Goto, CountInv, Unasked, TypeOK, main
  <2> QED BY <1>21, <2>1, <2>2, <2>3 DEF EndThread, CountInv, Counting, Popped, Elems, main
<1>22. CASE UNCHANGED vars
  BY <1>22 DEF vars, main, threads, CountInv, Pending, Popped, Unasked, Elems
<1> QED BY <1>1, <1>2, <1>3, <1>4, <1>5, <1>6, <1>7, <1>8, <1>9, <1>10, <1>11, <1>12, <1>13, <1>14, <1>15, <1>16, <1>17, <1>18, <1>19, <1>20, <1>21, <1>22, <1>23 DEF Next, MainStep, ThreadStep

(* What the state of a thread says is kept.                                *)
LEMMA StateStep ==
  ASSUME TypeOK, CountInv, StateInv, [Next]_vars PROVE StateInv'
<1>1. ASSUME NEW f \in File, CreateThread(f), UNCHANGED multiple_mode PROVE StateInv'
  <2>1. \A g \in File \ {f} : tpc'[g] = tpc[g] /\ thd_state'[g] = thd_state[g] /\ swap'[g] = swap[g]
    BY <1>1 DEF CreateThread, main, TypeOK, threads
  <2>2. tpc[f] = "none" /\ FileState(f) /\ thd_state'[f] = "FAILED" /\ swap'[f] = "none"
        /\ tpc'[f] \in {"none", "pull"}
    BY <1>1 DEF CreateThread, CountInv, StateInv, FileState, TypeOK
  <2> QED BY <1>1, <2>1, <2>2, ZenonT(60) DEF CreateThread, StateInv, FileState, GivenUp
<1>2. ASSUME NEW f \in File, JoinOrPass(f), UNCHANGED multiple_mode PROVE StateInv'
  BY <1>2 DEF JoinOrPass, StateInv, FileState, GivenUp, TypeOK, threads
<1>3. CASE OpenFilesReturns /\ UNCHANGED multiple_mode
  BY <1>3 DEF OpenFilesReturns, StateInv, FileState, GivenUp, TypeOK, threads
<1>4. CASE Collect /\ UNCHANGED multiple_mode
  BY <1>4 DEF Collect, StateInv, FileState, GivenUp, TypeOK, threads
<1>5. CASE Collected /\ UNCHANGED multiple_mode
  BY <1>5 DEF Collected, StateInv, FileState, GivenUp, TypeOK, threads
<1>6. CASE Join /\ UNCHANGED multiple_mode
  BY <1>6 DEF Join, StateInv, FileState, GivenUp, TypeOK, threads
<1>7. CASE RunEditor /\ UNCHANGED multiple_mode
  <2>1. Retried \in SUBSET File
    BY DEF Retried
  <2>2. CASE succ' = TRUE /\ Saved(Retried)
    <3>1. \A f \in File : IF f \in Retried THEN swap'[f] \in {"saved", "bad"} ELSE swap'[f] = swap[f]
      BY <2>1, <2>2, SavedType
    <3> QED BY <1>7, <2>2, <3>1 DEF RunEditor, Retried, StateInv, FileState, GivenUp, TypeOK, threads
  <2>3. CASE succ' = FALSE /\ UNCHANGED <<swap, bad>>
    BY <1>7, <2>3 DEF RunEditor, StateInv, FileState, GivenUp, TypeOK, threads
  <2> QED BY <1>7, <2>2, <2>3 DEF RunEditor
<1>8. CASE SendToken /\ UNCHANGED multiple_mode
  BY <1>8, PushQp DEF SendToken, StateInv, FileState, GivenUp, TypeOK, threads
<1>9. CASE TokensSent /\ UNCHANGED multiple_mode
  BY <1>9 DEF TokensSent, StateInv, FileState, GivenUp, TypeOK, threads
<1>10. CASE Result /\ UNCHANGED multiple_mode
  BY <1>10 DEF Result, StateInv, FileState, GivenUp, TypeOK, threads
<1>11. CASE ResultsDone /\ UNCHANGED multiple_mode
  BY <1>11 DEF ResultsDone, StateInv, FileState, GivenUp, TypeOK, threads
<1>12. CASE AllJoined /\ UNCHANGED multiple_mode
  BY <1>12 DEF AllJoined, StateInv, FileState, GivenUp, TypeOK, threads
<1>13. CASE Exit /\ UNCHANGED multiple_mode
  <2>1. \A f \in File : tpc'[f] \in {tpc[f], "killed"} /\ (tpc[f] = "none" => tpc'[f] = "none")
        /\ (tpc[f] # "none" => tpc'[f] \in {"end", "killed"})
    BY <1>13 DEF Exit, TypeOK
  <2>2. GivenUp'
    BY <1>13 DEF Exit, GivenUp
  <2>3. \A f \in File : tpc[f] \notin {"pull", "quit", "ready"}
    BY <1>13 DEF Exit, CountInv, Counting, Pending
  <2>4. ASSUME NEW f \in File PROVE FileState(f)'
    BY <1>13, <2>1, <2>2, <2>3 DEF Exit, StateInv, FileState
  <2> QED BY <2>2, <2>4 DEF StateInv
<1>23. CASE Hang /\ UNCHANGED multiple_mode
  BY <1>23 DEF Hang, StateInv, FileState, GivenUp, TypeOK, threads
<1>14. ASSUME NEW f \in File, PullFile(f) PROVE StateInv'
  <2>1. \A g \in File \ {f} : tpc'[g] = tpc[g] /\ thd_state'[g] = thd_state[g] /\ swap'[g] = swap[g]
    BY <1>14 DEF PullFile, SetState, Goto, TypeOK, threads
  <2>2. \/ tpc'[f] = "ready" /\ thd_state'[f] = PulledState /\ swap'[f] = "pulled"
        \/ tpc'[f] = "quit" /\ thd_state'[f] = "TERMINATED" /\ swap'[f] = "none"
    BY <1>14 DEF PullFile, SetState, Goto, StateInv, FileState, TypeOK
  <2>3. GivenUp' = GivenUp /\ UNCHANGED <<mpc, multiple_mode>>
    BY <1>14 DEF PullFile, GivenUp, main
  <2>4. FileState(f) /\ tpc'[f] \in ThreadAt
    BY <1>14 DEF PullFile, StateInv, Goto, TypeOK, ThreadAt
  <2>5. FileState(f)'
    BY <1>14, <2>2, <2>3 DEF FileState, PulledState
  <2> QED BY <1>14, <2>1, <2>3, <2>5, ZenonT(60) DEF PullFile, StateInv, FileState
<1>15. ASSUME NEW f \in File, ReportReady(f) PROVE StateInv'
  BY <1>15 DEF ReportReady, Report, Goto, StateInv, FileState, GivenUp, TypeOK, main
<1>16. ASSUME NEW f \in File, ReportQuit(f) PROVE StateInv'
  BY <1>16 DEF ReportQuit, Report, Goto, StateInv, FileState, GivenUp, TypeOK, main
<1>17. ASSUME NEW f \in File, ReportResult(f) PROVE StateInv'
  BY <1>17 DEF ReportResult, Report, Goto, StateInv, FileState, GivenUp, TypeOK, main
<1>18. ASSUME NEW f \in File, TakeToken(f) PROVE StateInv'
  <2>1. \A g \in File \ {f} : tpc'[g] = tpc[g] /\ thd_state'[g] = thd_state[g] /\ swap'[g] = swap[g]
    BY <1>18 DEF TakeToken, Goto, TypeOK, threads
  <2>2. /\ thd_state' = thd_state
        /\ \/ tpc'[f] = "push" /\ swap'[f] = swap[f]
           \/ tpc'[f] = "fail" /\ swap'[f] = "none" /\ Top(qp) = FALSE
    BY <1>18, PopQp DEF TakeToken, Goto, TypeOK, threads
  <2>3. GivenUp' = GivenUp /\ UNCHANGED <<mpc, multiple_mode>>
    BY <1>18 DEF TakeToken, GivenUp, main
  <2>4. FileState(f) /\ tpc'[f] \in ThreadAt
    BY <1>18 DEF TakeToken, StateInv, Goto, TypeOK, ThreadAt
  <2>5. Elems(qp) = Elems(qp') \cup {Top(qp)}
    BY <1>18, PopQp DEF TakeToken
  <2>6. tpc'[f] = "fail" => GivenUp
    BY <2>2, <2>5 DEF StateInv
  <2>7. FileState(f)'
    BY <1>18, <2>2, <2>3, <2>4, <2>6 DEF FileState, TakeToken
  <2>8. FALSE \in Elems(qp') => GivenUp'
    BY <2>3, <2>5 DEF StateInv
  <2> QED BY <2>1, <2>3, <2>7, <2>8, ZenonT(60) DEF StateInv, FileState
<1>19. ASSUME NEW f \in File, OwnEditor(f) PROVE StateInv'
  <2>1. CASE Saved({f})
    <3>1. \A g \in File : IF g \in {f} THEN swap'[g] \in {"saved", "bad"} ELSE swap'[g] = swap[g]
      BY <1>19, <2>1, SavedType
    <3>2. tpc'[f] \in {"push", "fail"} /\ \A g \in File \ {f} : tpc'[g] = tpc[g]
      BY <1>19, <2>1 DEF OwnEditor, Goto, TypeOK
    <3>3. FileState(f)' /\ \A g \in File \ {f} : FileState(g)'
      BY <1>19, <3>1, <3>2 DEF OwnEditor, StateInv, FileState, GivenUp, main
    <3> QED BY <1>19, <3>3 DEF OwnEditor, StateInv, GivenUp, main
  <2>2. CASE UNCHANGED <<swap, bad>>
    BY <1>19, <2>2, ZenonT(60) DEF OwnEditor, Goto, StateInv, FileState, GivenUp, TypeOK, main
  <2> QED BY <1>19, <2>1, <2>2 DEF OwnEditor
<1>20. ASSUME NEW f \in File, PushFile(f) PROVE StateInv'
  <2>1. \A g \in File \ {f} : tpc'[g] = tpc[g] /\ thd_state'[g] = thd_state[g] /\ swap'[g] = swap[g]
    BY <1>20 DEF PushFile, SetPushed, SetState, Goto, TypeOK, threads
  <2>2. /\ tpc'[f] = IF multiple_mode THEN "report" ELSE IF swap[f] # "bad" THEN "fail" ELSE "editor"
        /\ \/ swap'[f] = "pushed" /\ thd_state'[f] = "OK"
           \/ swap'[f] = swap[f] /\ thd_state'[f] = thd_state[f]
    BY <1>20 DEF PushFile, SetPushed, SetState, Goto, TypeOK
  <2>3. GivenUp' = GivenUp /\ UNCHANGED <<mpc, multiple_mode>>
    BY <1>20 DEF PushFile, GivenUp, main
  <2>4. FileState(f) /\ tpc'[f] \in ThreadAt
    BY <1>20 DEF PushFile, StateInv, Goto, TypeOK, ThreadAt
  <2>5. FileState(f)'
    BY <1>20, <2>2, <2>3, <2>4 DEF FileState, PushFile
  <2> QED BY <1>20, <2>1, <2>3, <2>5, ZenonT(60) DEF PushFile, StateInv, FileState
<1>21. ASSUME NEW f \in File, EndThread(f) PROVE StateInv'
  BY <1>21 DEF EndThread, Goto, StateInv, FileState, GivenUp, TypeOK, main
<1>22. CASE UNCHANGED vars
  BY <1>22 DEF vars, main, threads, StateInv, FileState, GivenUp
<1> QED BY <1>1, <1>2, <1>3, <1>4, <1>5, <1>6, <1>7, <1>8, <1>9, <1>10, <1>11, <1>12, <1>13, <1>14, <1>15, <1>16, <1>17, <1>18, <1>19, <1>20, <1>21, <1>22, <1>23 DEF Next, MainStep, ThreadStep

(* Main loses sight of no thread that runs its own editor.                 *)
LEMMA JoinStep ==
  ASSUME TypeOK, CountInv, StateInv, JoinInv, [Next]_vars PROVE JoinInv'
<1>0. CountInv'
  BY CountStep
<1>1. ASSUME NEW f \in File, CreateThread(f), UNCHANGED multiple_mode PROVE JoinInv'
  BY <1>1, <1>0 DEF CreateThread, CountInv, JoinInv
<1>2. ASSUME NEW f \in File, JoinOrPass(f), UNCHANGED multiple_mode PROVE JoinInv'
  <2>1. Pending' = Pending /\ Elems(qc') = Elems(qc)
    BY <1>2 DEF JoinOrPass, Pending, threads
  <2> QED BY <1>2, <2>1 DEF JoinOrPass, JoinInv, Popped, Over, threads
<1>3. CASE OpenFilesReturns /\ UNCHANGED multiple_mode
  <2>1. Pending' = Pending /\ Elems(qc') = Elems(qc)
    BY <1>3 DEF OpenFilesReturns, Pending, threads
  <2> QED BY <1>3, <2>1 DEF OpenFilesReturns, CountInv, JoinInv, Popped
<1>4. CASE Collect /\ UNCHANGED multiple_mode
  <2>1. Pending' = Pending /\ Elems(qc) = Elems(qc') \cup {Top(qc)} /\ Top(qc) \in File
    BY <1>4, PopQc DEF Collect, Pending, threads
  <2>2. num_thds \in Nat /\ UNCHANGED threads /\ mpc = "collect" /\ mpc' \in {"collect", "join"}
    BY <1>4, FilesCount DEF Collect, TypeOK
  <2>3. /\ num_thds' \in Nat /\ num_thds' >= num_thds
        /\ thd_state[Top(qc)] = "OK" => num_thds' > 0
        /\ thd_state[Top(qc)] = "TERMINATED" => mpc' = "join" /\ retval' = Top(qc)
    BY <1>4, <2>2 DEF Collect
  <2>4. ASSUME ~multiple_mode, NEW f \in File, Popped(f)', thd_state'[f] = "TERMINATED"
        PROVE  Over(f)' \/ (mpc' = "join" /\ retval' = f)
    BY <1>4, <2>1, <2>2, <2>3, <2>4 DEF JoinInv, Popped, Over, threads
  <2>5. ASSUME ~multiple_mode, NEW f \in File, Popped(f)', thd_state'[f] = "OK" PROVE num_thds' > 0
    <3>1. CASE f = Top(qc)
      BY <2>2, <2>3, <2>5, <3>1 DEF threads
    <3>2. CASE f # Top(qc)
      BY <2>1, <2>2, <2>3, <2>5, <3>2 DEF JoinInv, Popped, threads
    <3> QED BY <3>1, <3>2
  <2> QED BY <1>4, <2>2, <2>4, <2>5 DEF JoinInv
<1>5. CASE Collected /\ UNCHANGED multiple_mode
  <2>1. Pending = {} /\ qc = <<>> /\ Pending' = Pending /\ qc' = qc
    <3>1. Len(qc) = 0 /\ Cardinality(Pending) = 0
      BY <1>5, PendingCount, LenProperties DEF Collected, CountInv, Counting, TypeOK
    <3> QED BY <1>5, <3>1, PendingCount, EmptySeq DEF Collected, TypeOK, Pending, threads
  <2>2. \A f \in File : Popped(f) /\ (tpc[f] # "none" => tpc[f] \notin {"pull", "ready", "quit"})
    BY <2>1 DEF Popped, Pending, Elems
  <2>3. ASSUME ~multiple_mode, num_thds = 0, NEW f \in File PROVE tpc[f] \in {"none", "end"}
    <3>1. thd_state[f] \in {"FAILED", "TERMINATED"}
      BY <1>5, <2>2, <2>3 DEF JoinInv, StateInv, FileState, TypeOK
    <3> QED BY <1>5, <2>2, <2>3, <3>1 DEF Collected, JoinInv, Over, StateInv, FileState, Pending, Popped
  <2> QED BY <1>5, <2>1, <2>2, <2>3 DEF Collected, JoinInv, CountInv, Counting, Popped, Over, threads
<1>6. CASE Join /\ UNCHANGED multiple_mode
  <2>1. Pending' = Pending /\ Elems(qc') = Elems(qc)
    BY <1>6 DEF Join, Pending, threads
  <2> QED BY <1>6, <2>1 DEF Join, JoinInv, Popped, Over, threads
<1>7. CASE RunEditor /\ UNCHANGED multiple_mode
  BY <1>7 DEF RunEditor, CountInv, Counting, JoinInv
<1>8. CASE SendToken /\ UNCHANGED multiple_mode
  BY <1>8 DEF SendToken, CountInv, Counting, JoinInv
<1>9. CASE TokensSent /\ UNCHANGED multiple_mode
  BY <1>9 DEF TokensSent, CountInv, Counting, JoinInv
<1>10. CASE Result /\ UNCHANGED multiple_mode
  BY <1>10 DEF Result, CountInv, Counting, JoinInv
<1>11. CASE ResultsDone /\ UNCHANGED multiple_mode
  BY <1>11 DEF ResultsDone, CountInv, Counting, JoinInv
<1>12. CASE AllJoined /\ UNCHANGED multiple_mode
  <2>1. Pending' = Pending /\ Pending = {} /\ qc' = qc
    BY <1>12 DEF AllJoined, CountInv, Counting, Pending, threads
  <2>2. ASSUME ~multiple_mode, NEW f \in File PROVE tpc[f] \in {"none", "end"}
    <3>1. qc = <<>> /\ Popped(f)
      BY <1>12, <2>1, <2>2 DEF AllJoined, CountInv, Counting, Popped, Elems
    <3> QED BY <1>12, <2>1, <2>2, <3>1 DEF AllJoined, JoinInv, Over, StateInv, FileState, Pending, TypeOK
  <2> QED BY <1>12, <2>1, <2>2 DEF AllJoined, JoinInv, Popped, Over, threads
<1>13. CASE Exit /\ UNCHANGED multiple_mode
  <2>1. Pending = {} /\ Elems(qc') = Elems(qc)
    BY <1>13 DEF Exit, CountInv, Counting
  <2>2. \A f \in File : Over(f) => Over(f)'
    BY <1>13 DEF Exit, Over, TypeOK
  <2> QED BY <1>13, <2>1, <2>2 DEF Exit, JoinInv, Popped
<1>23. CASE Hang /\ UNCHANGED multiple_mode
  <2>1. Pending' = Pending /\ Elems(qc') = Elems(qc)
    BY <1>23 DEF Hang, CountInv, Counting, Pending, threads
  <2> QED BY <1>23, <2>1 DEF Hang, JoinInv, Popped, Over, threads
<1>14. ASSUME NEW f \in File, PullFile(f) PROVE JoinInv'
  <2>1. /\ UNCHANGED <<multiple_mode, mpc, num_thds, seen, retval>>
        /\ \A g \in File \ {f} : tpc'[g] = tpc[g] /\ thd_state'[g] = thd_state[g]
    BY <1>14 DEF PullFile, SetState, PulledState, Goto, TypeOK, main, threads
  <2>2. \A g \in File : Popped(g)' => Popped(g)
    BY <1>14, PushQc DEF PullFile, SetState, PulledState, Goto, Popped, Pending, TypeOK, main
  <2>3. ~Over(f) /\ tpc[f] # "none" /\ FileState(f)
    BY <1>14 DEF PullFile, Report, Over, StateInv
  <2>4. ~Popped(f)' /\ f \in Pending
    BY <1>14 DEF PullFile, Goto, Popped, Pending, TypeOK
  <2>5. mpc \notin {"joinall", "free"}
    BY <2>4 DEF CountInv, Counting
  <2> QED BY <2>1, <2>2, <2>4, <2>5 DEF JoinInv, Over
<1>15. ASSUME NEW f \in File, ReportReady(f) PROVE JoinInv'
  <2>1. /\ UNCHANGED <<multiple_mode, mpc, num_thds, seen, retval>>
        /\ \A g \in File \ {f} : tpc'[g] = tpc[g] /\ thd_state'[g] = thd_state[g]
    BY <1>15 DEF ReportReady, Report, Goto, TypeOK, main, threads
  <2>2. \A g \in File : Popped(g)' => Popped(g)
    BY <1>15, PushQc DEF ReportReady, Report, Goto, Popped, Pending, TypeOK, main
  <2>3. ~Over(f) /\ tpc[f] # "none" /\ FileState(f)
    BY <1>15 DEF ReportReady, Report, Over, StateInv
  <2>4. ~Popped(f)' /\ f \in Pending
    BY <1>15, PushQc DEF ReportReady, Report, Popped, Pending
  <2>5. mpc \notin {"joinall", "free"}
    BY <2>4 DEF CountInv, Counting
  <2> QED BY <2>1, <2>2, <2>4, <2>5 DEF JoinInv, Over
<1>16. ASSUME NEW f \in File, ReportQuit(f) PROVE JoinInv'
  <2>1. /\ UNCHANGED <<multiple_mode, mpc, num_thds, seen, retval>>
        /\ \A g \in File \ {f} : tpc'[g] = tpc[g] /\ thd_state'[g] = thd_state[g]
    BY <1>16 DEF ReportQuit, Report, Goto, TypeOK, main, threads
  <2>2. \A g \in File : Popped(g)' => Popped(g)
    BY <1>16, PushQc DEF ReportQuit, Report, Goto, Popped, Pending, TypeOK, main
  <2>3. ~Over(f) /\ tpc[f] # "none" /\ FileState(f)
    BY <1>16 DEF ReportQuit, Report, Over, StateInv
  <2>4. ~Popped(f)' /\ f \in Pending
    BY <1>16, PushQc DEF ReportQuit, Report, Popped, Pending
  <2>5. mpc \notin {"joinall", "free"}
    BY <2>4 DEF CountInv, Counting
  <2> QED BY <2>1, <2>2, <2>4, <2>5 DEF JoinInv, Over
<1>17. ASSUME NEW f \in File, ReportResult(f) PROVE JoinInv'
  BY <1>17 DEF ReportResult, Report, TypeOK, JoinInv, main
<1>18. ASSUME NEW f \in File, TakeToken(f) PROVE JoinInv'
  BY <1>18 DEF TakeToken, Goto, TypeOK, JoinInv, main
<1>19. ASSUME NEW f \in File, OwnEditor(f) PROVE JoinInv'
  <2>1. /\ UNCHANGED <<multiple_mode, mpc, num_thds, seen, retval>>
        /\ \A g \in File \ {f} : tpc'[g] = tpc[g] /\ thd_state'[g] = thd_state[g]
    BY <1>19 DEF OwnEditor, Goto, TypeOK, main, threads
  <2>2. \A g \in File : Popped(g)' => Popped(g)
    BY <1>19, PushQc DEF OwnEditor, Goto, Popped, Pending, TypeOK, main
  <2>3. ~Over(f) /\ tpc[f] # "none" /\ FileState(f)
    BY <1>19 DEF OwnEditor, Report, Over, StateInv
  <2>4. thd_state'[f] = thd_state[f] /\ thd_state[f] # "TERMINATED"
    BY <1>19, <2>3 DEF OwnEditor, FileState
  <2>5. ASSUME ~multiple_mode, NEW g \in File, Popped(g)'
        PROVE  /\ thd_state'[g] = "TERMINATED" => Over(g)' \/ (mpc' = "join" /\ retval' = g)
               /\ thd_state'[g] = "OK" => num_thds' > 0
    BY <2>1, <2>2, <2>3, <2>4, <2>5 DEF JoinInv, Over
  <2>6. ASSUME ~multiple_mode, mpc' = "joinall", NEW g \in seen', thd_state'[g] = "OK" PROVE Over(g)'
    <3>1. g \in File
      BY <2>1, <2>6 DEF TypeOK
    <3> QED BY <2>1, <2>3, <2>4, <2>6, <3>1 DEF JoinInv, Over
  <2>7. ~multiple_mode => mpc # "free"
    BY <2>3 DEF JoinInv, Over
  <2> QED BY <2>1, <2>5, <2>6, <2>7 DEF JoinInv
<1>20. ASSUME NEW f \in File, PushFile(f) PROVE JoinInv'
  <2>1. /\ UNCHANGED <<multiple_mode, mpc, num_thds, seen, retval>>
        /\ \A g \in File \ {f} : tpc'[g] = tpc[g] /\ thd_state'[g] = thd_state[g]
    BY <1>20 DEF PushFile, SetPushed, SetState, Goto, TypeOK, main, threads
  <2>2. \A g \in File : Popped(g)' => Popped(g)
    BY <1>20, PushQc DEF PushFile, SetPushed, SetState, Goto, Popped, Pending, TypeOK, main
  <2>3. ~Over(f) /\ tpc[f] # "none" /\ FileState(f)
    BY <1>20 DEF PushFile, Report, Over, StateInv
  <2>4. ~multiple_mode => thd_state'[f] = "OK" /\ thd_state[f] = "OK"
    BY <1>20, <2>3 DEF PushFile, SetPushed, SetState, FileState, TypeOK
  <2>5. ASSUME ~multiple_mode, NEW g \in File, Popped(g)'
        PROVE  /\ thd_state'[g] = "TERMINATED" => Over(g)' \/ (mpc' = "join" /\ retval' = g)
               /\ thd_state'[g] = "OK" => num_thds' > 0
    BY <2>1, <2>2, <2>3, <2>4, <2>5 DEF JoinInv, Over
  <2>6. ASSUME ~multiple_mode, mpc' = "joinall", NEW g \in seen', thd_state'[g] = "OK" PROVE Over(g)'
    <3>1. g \in File
      BY <2>1, <2>6 DEF TypeOK
    <3> QED BY <2>1, <2>3, <2>4, <2>6, <3>1 DEF JoinInv, Over
  <2>7. ~multiple_mode => mpc # "free"
    BY <2>3 DEF JoinInv, Over
  <2> QED BY <2>1, <2>5, <2>6, <2>7 DEF JoinInv
<1>21. ASSUME NEW f \in File, EndThread(f) PROVE JoinInv'
  <2>1. /\ UNCHANGED <<multiple_mode, mpc, num_thds, seen, retval>>
        /\ \A g \in File \ {f} : tpc'[g] = tpc[g] /\ thd_state'[g] = thd_state[g]
    BY <1>21 DEF EndThread, Goto, TypeOK, main, threads
  <2>2. \A g \in File : Popped(g)' => Popped(g)
    BY <1>21, PushQc DEF EndThread, Goto, Popped, Pending, TypeOK, main
  <2>3. ~Over(f) /\ tpc[f] # "none" /\ FileState(f)
    BY <1>21 DEF EndThread, Report, Over, StateInv
  <2>4. tpc[f] = "fail" /\ tpc'[f] = "end" /\ thd_state' = thd_state
    BY <1>21 DEF EndThread, Goto, TypeOK
  <2>5. ASSUME ~multiple_mode, NEW g \in File, Popped(g)'
        PROVE  /\ thd_state'[g] = "TERMINATED" => Over(g)' \/ (mpc' = "join" /\ retval' = g)
               /\ thd_state'[g] = "OK" => num_thds' > 0
    BY <2>1, <2>2, <2>3, <2>4, <2>5 DEF JoinInv, Over
  <2>6. ASSUME ~multiple_mode, mpc' = "joinall", NEW g \in seen', thd_state'[g] = "OK" PROVE Over(g)'
    <3>1. g \in File
      BY <2>1, <2>6 DEF TypeOK
    <3> QED BY <2>1, <2>3, <2>4, <2>6, <3>1 DEF JoinInv, Over
  <2>7. ~multiple_mode => mpc # "free"
    BY <2>3 DEF JoinInv, Over
  <2> QED BY <2>1, <2>5, <2>6, <2>7 DEF JoinInv
<1>22. CASE UNCHANGED vars
  BY <1>22 DEF vars, main, threads, JoinInv, Popped, Pending, Over
<1> QED BY <1>1, <1>2, <1>3, <1>4, <1>5, <1>6, <1>7, <1>8, <1>9, <1>10, <1>11, <1>12, <1>13, <1>14, <1>15, <1>16, <1>17, <1>18, <1>19, <1>20, <1>21, <1>22, <1>23 DEF Next, MainStep, ThreadStep

-----------------------------------------------------------------------------
LEMMA InvInit == ASSUME Init PROVE Inv
<1>1. num_files \in Nat /\ Cardinality({}) = 0 /\ <<>> \in Seq(File) /\ <<>> \in Seq(BOOLEAN)
  BY FilesCount, FS_EmptySet, EmptySeq
<1>2. Len(<<>>) = 0 /\ Elems(<<>>) = {}
  BY DEF Elems
<1>3. Pending = File
  BY DEF Init, Pending
<1>4. TypeOK
  <2>1. succ \in BOOLEAN /\ multiple_mode \in BOOLEAN
    BY DEF Init
  <2>2. bad \in 0..MaxBad /\ i \in 0..num_files /\ num_thds \in 0..num_files
    BY <1>1, FileThreadsAssumption DEF Init
  <2>3. tpc \in [File -> ThreadAt] /\ \A f \in File : tpc[f] = "none"
    BY DEF Init, ThreadAt
  <2> QED BY <1>1, <1>2, <2>1, <2>2, <2>3 DEF Init, TypeOK
<1>5. CountInv
  BY <1>1, <1>2, <1>3 DEF Init, CountInv, Counting, Popped, Unasked, num_files
<1>6. StateInv
  BY <1>2 DEF Init, StateInv, FileState
<1>7. JoinInv
  BY <1>3 DEF Init, JoinInv, Popped
<1> QED BY <1>4, <1>5, <1>6, <1>7 DEF Inv

LEMMA InvHolds == Spec => []Inv
<1>1. Init => Inv
  BY InvInit
<1>2. Inv /\ [Next]_vars => Inv'
  BY TypeStep, CountStep, StateStep, JoinStep DEF Inv
<1> QED BY <1>1, <1>2, PTL DEF Spec

(* The counters of main stay within the number of files, no queue ever     *)
(* holds more than its size, and in neither mode is a thread where only    *)
(* the other mode takes it (file.c:211-349).                      *)
THEOREM TypeCorrect == Spec => []TypeOK
<1>1. Inv => TypeOK
  BY DEF Inv
<1> QED BY <1>1, InvHolds, PTL

(* With -e the array of threads and the queues outlive every thread that   *)
(* was created: main frees them when each has returned (file.c:337-345).   *)
THEOREM ThreadsAreJoined == Spec => []JoinedBeforeFree
<1>1. Inv => JoinedBeforeFree
  BY DEF Inv, JoinInv, JoinedBeforeFree
<1> QED BY <1>1, InvHolds, PTL

(* With -E main opens the editor only on swap files that a thread will     *)
(* push: none of those threads has ended (file.c:309-336).                 *)
THEOREM EditedFilesArePushed == Spec => []EditorHasThreads
<1>1. Inv => EditorHasThreads
  BY DEF Inv, CountInv, Counting, Pending, StateInv, FileState, GivenUp, EditorHasThreads, Retried
<1> QED BY <1>1, InvHolds, PTL
=============================================================================
