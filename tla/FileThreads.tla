---------------------------- MODULE FileThreads ------------------------------
(***************************************************************************)
(* The threads of one yacet process that has a range open (file.c): main   *)
(* in prepare_file_threads, one thread per file in thd_open_files, and the *)
(* two queues between them, global_qp (tokens for the threads) and         *)
(* global_qc (reports to main).  With -e every thread runs the editor on   *)
(* its own swap file; with -E main runs one editor on the swap files of    *)
(* all threads, tells the threads to push, and runs it again for those     *)
(* whose swap file has lost an oracle.                                     *)
(*                                                                         *)
(* A queue is a stack (Pcq shows what its monitor does): enqueue waits     *)
(* while it is full and dequeue while it is empty.  What a push does to    *)
(* the file is in FileSplice, how it takes locks in the lock modules.      *)
(***************************************************************************)
EXTENDS Integers, Sequences, FiniteSets

CONSTANTS
    File,            \* the files of the range
    NoFile,          \* not a file
    MaxBad           \* bound on how often the user loses an oracle

ASSUME FileThreadsAssumption ==
    /\ IsFiniteSet(File) /\ File # {} /\ NoFile \notin File
    /\ MaxBad \in Nat

VARIABLES
    multiple_mode,  \* -E rather than -e
    mpc,         \* where main is
    i,           \* its loop counter
    num_thds,    \* the threads it counts on
    succ,        \* whether the editor went well, then the retry flag
    seen,        \* the entries of thds[] that the loop over them is done with
    retval,      \* the thread whose report main is handling
    qp, qc,      \* the queues, top last
    tpc,         \* where each thread is
    thd_state,   \* oft->thd_state
    swap,        \* the swap file of each thread
    bad          \* how often the user has lost an oracle

main    == <<multiple_mode, mpc, i, num_thds, succ, seen, retval>>
threads == <<tpc, thd_state>>
vars    == <<main, qp, qc, threads, swap, bad>>

num_files == Cardinality(File)

Push(q, x) == Append(q, x)
Top(q)     == q[Len(q)]
Pop(q)     == SubSeq(q, 1, Len(q) - 1)
Full(q)    == Len(q) = num_files

(* none: not created.  pull: before and in pull_swap_file.  ready: pulled, *)
(* its first report due.  wait: in pcq_dequeue(&global_qp).  editor: in    *)
(* exec_editor.  push: in push_swap_file.  report: a result due.  quit:    *)
(* TERMINATED, its report due.  fail: releasing its interval locks.  end:  *)
(* returned.  killed: the process has exited.                              *)
ThreadAt == {"none", "pull", "ready", "wait", "editor", "push", "report",
             "quit", "fail", "end", "killed"}

Over(f) == tpc[f] \in {"end", "killed"}

-----------------------------------------------------------------------------
Init ==
    /\ multiple_mode \in BOOLEAN
    /\ mpc = "create" /\ i = 0 /\ num_thds = 0 /\ succ = FALSE
    /\ seen = {} /\ retval = NoFile
    /\ qp = <<>> /\ qc = <<>>
    /\ tpc = [f \in File |-> "none"]
    /\ thd_state = [f \in File |-> "FAILED"]
    /\ swap = [f \in File |-> "none"]
    /\ bad = 0

-----------------------------------------------------------------------------
(* main *)

(* One turn of open_files: pthread_create, or FAILED and a report.         *)
CreateThread(f) ==
    /\ mpc = "create" /\ f \notin seen
    /\ seen' = seen \cup {f}
    /\ \/ tpc' = [tpc EXCEPT ![f] = "pull"] /\ UNCHANGED <<qc, thd_state>>
       \/ /\ ~Full(qc)
          /\ qc' = Push(qc, f)
          /\ thd_state' = [thd_state EXCEPT ![f] = "FAILED"]
          /\ UNCHANGED tpc
    /\ UNCHANGED <<mpc, i, num_thds, succ, retval, qp, swap, bad>>

OpenFilesReturns ==
    /\ mpc = "create" /\ seen = File
    /\ mpc' = "collect" /\ i' = 0 /\ num_thds' = 0 /\ seen' = {}
    /\ UNCHANGED <<succ, retval, qp, qc, threads, swap, bad>>

(* The first report of every thread: join it, forget it or count on it.    *)
Collect ==
    /\ mpc = "collect" /\ i < num_files /\ qc # <<>>
    /\ retval' = Top(qc)
    /\ qc' = Pop(qc)
    /\ i' = i + 1
    /\ CASE thd_state[Top(qc)] = "TERMINATED" -> mpc' = "join" /\ UNCHANGED num_thds
         [] thd_state[Top(qc)] = "FAILED"     -> UNCHANGED <<mpc, num_thds>>
         [] OTHER -> num_thds' = num_thds + 1 /\ UNCHANGED mpc
    /\ UNCHANGED <<succ, seen, qp, threads, swap, bad>>

Collected ==
    /\ mpc = "collect" /\ i = num_files
    /\ mpc' = IF num_thds = 0 THEN "free" ELSE IF multiple_mode THEN "editor" ELSE "joinall"
    /\ UNCHANGED <<i, num_thds, succ, seen, retval, qp, qc, threads, swap, bad>>

(* pthread_join of a terminated thread, in either loop.                    *)
Join ==
    /\ mpc \in {"join", "joinresult"}
    /\ Over(retval)
    /\ mpc' = IF mpc = "join" THEN "collect" ELSE "results"
    /\ UNCHANGED <<i, num_thds, succ, seen, retval, qp, qc, threads, swap, bad>>

(* The user saves a swap file with its oracles or without one.             *)
Saved(F) ==
    \E B \in SUBSET F :
        /\ bad + Cardinality(B) <= MaxBad
        /\ bad' = bad + Cardinality(B)
        /\ swap' = [f \in File |-> IF f \in B THEN "bad" ELSE IF f \in F THEN "saved" ELSE swap[f]]

Retried == {f \in File : thd_state[f] = "RETRY"}

(* exec_editor on the files of the threads in state RETRY.                 *)
RunEditor ==
    /\ mpc = "editor"
    /\ \/ succ' = TRUE /\ Saved(Retried)
       \/ succ' = FALSE /\ UNCHANGED <<swap, bad>>
    /\ mpc' = "tokens" /\ i' = 0
    /\ UNCHANGED <<num_thds, seen, retval, qp, qc, threads>>

SendToken ==
    /\ mpc = "tokens" /\ i < num_thds /\ ~Full(qp)
    /\ qp' = Push(qp, succ)
    /\ i' = i + 1
    /\ UNCHANGED <<mpc, num_thds, succ, seen, retval, qc, threads, swap, bad>>

TokensSent ==
    /\ mpc = "tokens" /\ i = num_thds
    /\ IF succ THEN mpc' = "results" /\ i' = 0 ELSE mpc' = "joinall" /\ UNCHANGED i
    /\ succ' = FALSE
    /\ UNCHANGED <<num_thds, seen, retval, qp, qc, threads, swap, bad>>

(* A result.  The loop runs while i < num_thds, and num_thds shrinks.      *)
Result ==
    /\ mpc = "results" /\ i < num_thds /\ qc # <<>>
    /\ retval' = Top(qc)
    /\ qc' = Pop(qc)
    /\ i' = i + 1
    /\ CASE thd_state[Top(qc)] = "RETRY" -> succ' = TRUE /\ UNCHANGED <<mpc, num_thds>>
         [] thd_state[Top(qc)] = "TERMINATED" ->
              mpc' = "joinresult" /\ num_thds' = num_thds - 1 /\ UNCHANGED succ
         [] OTHER -> num_thds' = num_thds - 1 /\ UNCHANGED <<mpc, succ>>
    /\ UNCHANGED <<seen, qp, threads, swap, bad>>

ResultsDone ==
    /\ mpc = "results" /\ i >= num_thds
    /\ mpc' = IF succ THEN "editor" ELSE "joinall"
    /\ UNCHANGED <<i, num_thds, succ, seen, retval, qp, qc, threads, swap, bad>>

(* One turn of the last loop: a thread in state OK is joined, another one  *)
(* is passed by.                                                           *)
JoinOrPass(f) ==
    /\ mpc = "joinall" /\ f \notin seen
    /\ thd_state[f] = "OK" => Over(f)
    /\ seen' = seen \cup {f}
    /\ UNCHANGED <<mpc, i, num_thds, succ, retval, qp, qc, threads, swap, bad>>

AllJoined ==
    /\ mpc = "joinall" /\ seen = File
    /\ mpc' = "free"
    /\ UNCHANGED <<i, num_thds, succ, seen, retval, qp, qc, threads, swap, bad>>

(* A thread inside a queue that main destroys.                             *)
Inside(f) == tpc[f] = "wait" \/ (tpc[f] = "report" /\ Full(qc))

(* free(thds), pcq_deinit, and main returns to exit.  A thread that is     *)
(* still there works on freed memory until the process is gone.            *)
Exit ==
    /\ mpc = "free"
    /\ mpc' = "exit"
    /\ tpc' = [f \in File |-> IF tpc[f] \in {"none", "end"} THEN tpc[f] ELSE "killed"]
    /\ UNCHANGED <<i, num_thds, succ, seen, retval, qp, qc, thd_state, swap, bad>>

(* pcq_deinit empties the queue and destroys its conditions.  What it does *)
(* to one that a thread waits on is undefined: Exit, or pthread_cond_      *)
(* destroy waits for the waiter, whom nobody wakes.  The others go on.     *)
Hang ==
    /\ mpc = "free"
    /\ \E f \in File : Inside(f)
    /\ mpc' = "stuck"
    /\ qp' = <<>>
    /\ UNCHANGED <<i, num_thds, succ, seen, retval, qc, threads, swap, bad>>

-----------------------------------------------------------------------------
(* thd_open_files *)

Goto(f, l) == tpc' = [tpc EXCEPT ![f] = l]

SetState(f, s) == thd_state' = [thd_state EXCEPT ![f] = s]

AlwaysRetry == "RETRY"   \* fault: the mode is not looked at

PulledState == IF multiple_mode THEN "RETRY" ELSE "OK"

(* sql_init and pull_swap_file.                                            *)
PullFile(f) ==
    /\ tpc[f] = "pull"
    /\ \/ /\ swap' = [swap EXCEPT ![f] = "pulled"]
          /\ SetState(f, PulledState)
          /\ Goto(f, "ready")
       \/ /\ SetState(f, "TERMINATED")
          /\ Goto(f, "quit")
          /\ UNCHANGED swap
    /\ UNCHANGED <<main, qp, qc, bad>>

(* pcq_enqueue(&global_qc, oft), from each place that reports.             *)
Report(f, from, to) ==
    /\ tpc[f] = from /\ ~Full(qc)
    /\ qc' = Push(qc, f)
    /\ Goto(f, to)
    /\ UNCHANGED <<main, qp, thd_state, swap, bad>>

\* fault: the thread waits for a token in either mode
ReadyToWait(f) == Report(f, "ready", "wait")

ReportReady(f) == Report(f, "ready", IF multiple_mode THEN "wait" ELSE "editor")
\* fault: the thread ends without its report
QuitSilently(f) == tpc[f] = "quit" /\ Goto(f, "fail") /\ UNCHANGED <<main, qp, qc, thd_state, swap, bad>>

ReportQuit(f) == Report(f, "quit", "fail")
ReportResult(f) == Report(f, "report", IF swap[f] = "pushed" THEN "fail" ELSE "wait")

(* A token: push the swap file, or unlink it and end.                      *)
TakeToken(f) ==
    /\ tpc[f] = "wait" /\ qp # <<>>
    /\ qp' = Pop(qp)
    /\ IF Top(qp) THEN Goto(f, "push") /\ UNCHANGED swap
       ELSE Goto(f, "fail") /\ swap' = [swap EXCEPT ![f] = "none"]
    /\ UNCHANGED <<main, qc, thd_state, bad>>

(* -e: exec_editor in the thread.                                          *)
OwnEditor(f) ==
    /\ tpc[f] = "editor"
    /\ \/ Saved({f}) /\ Goto(f, "push")
       \/ Goto(f, "fail") /\ UNCHANGED <<swap, bad>>
    /\ UNCHANGED <<main, qp, qc, thd_state>>

SetNothing(f) == UNCHANGED thd_state    \* fault: the state is not set

SetPushed(f) == SetState(f, "OK")

(* push_swap_file returns 0, or -2 when an oracle is missing.  With -e the *)
(* state is OK from the start.                                             *)
PushFile(f) ==
    /\ tpc[f] = "push"
    /\ IF swap[f] # "bad"
       THEN /\ swap' = [swap EXCEPT ![f] = "pushed"]
            /\ SetPushed(f)
            /\ Goto(f, IF multiple_mode THEN "report" ELSE "fail")
       ELSE /\ Goto(f, IF multiple_mode THEN "report" ELSE "editor")
            /\ UNCHANGED <<swap, thd_state>>
    /\ UNCHANGED <<main, qp, qc, bad>>

(* sql_deinit, zk_unlock_intervals and return.                             *)
EndThread(f) ==
    /\ tpc[f] = "fail"
    /\ Goto(f, "end")
    /\ UNCHANGED <<main, qp, qc, thd_state, swap, bad>>

-----------------------------------------------------------------------------
MainStep ==
    /\ \/ \E f \in File : CreateThread(f) \/ JoinOrPass(f)
       \/ OpenFilesReturns \/ Collect \/ Collected \/ Join \/ RunEditor
       \/ SendToken \/ TokensSent \/ Result \/ ResultsDone \/ AllJoined \/ Exit \/ Hang
    /\ UNCHANGED multiple_mode

ThreadStep(f) ==
    \/ PullFile(f) \/ ReportReady(f) \/ ReportQuit(f) \/ ReportResult(f)
    \/ TakeToken(f) \/ OwnEditor(f) \/ PushFile(f) \/ EndThread(f)

Next == MainStep \/ \E f \in File : ThreadStep(f)

Spec == Init /\ [][Next]_vars

(* The threads are scheduled, calls return, and the user leaves the editor.*)
FairSpec == Spec /\ WF_vars(MainStep) /\ \A f \in File : WF_vars(ThreadStep(f))

-----------------------------------------------------------------------------
(* Properties *)

TypeOK ==
    /\ multiple_mode \in BOOLEAN
    /\ mpc \in {"create", "collect", "join", "editor", "tokens", "results",
                "joinresult", "joinall", "free", "exit", "stuck"}
    /\ i \in 0..num_files /\ num_thds \in 0..num_files /\ succ \in BOOLEAN
    /\ seen \subseteq File /\ retval \in File \cup {NoFile}
    /\ qp \in Seq(BOOLEAN) /\ Len(qp) <= num_files
    /\ qc \in Seq(File) /\ Len(qc) <= num_files
    /\ tpc \in [File -> ThreadAt]
    /\ \A f \in File : tpc[f] \notin IF multiple_mode THEN {"editor"} ELSE {"wait", "report"}
    /\ thd_state \in [File -> {"OK", "FAILED", "TERMINATED", "RETRY"}]
    /\ swap \in [File -> {"none", "pulled", "saved", "bad", "pushed"}]
    /\ bad \in 0..MaxBad

(* main never waits for ever for a report, for room in a queue or for a    *)
(* thread that has nobody to wake it: the process ends once the user does. *)
(* With -E main may instead come to destroy a queue under a thread that    *)
(* waits for a token, and wait there; with -e this cannot happen.          *)
ProcessEnds == <>(mpc = "exit" \/ (multiple_mode /\ mpc = "stuck"))

(* With -e the array of threads and the queues outlive every thread that   *)
(* uses them, and no push is cut short by the end of the process.          *)
JoinedBeforeFree == ~multiple_mode /\ mpc = "free" => \A f \in File : tpc[f] \in {"none", "end"}

(* A swap file that main gives to the editor has a thread that will push   *)
(* it: no report read late makes main reopen the file of a thread that has *)
(* ended.                                                                  *)
EditorHasThreads ==
    mpc = "editor" => \A f \in Retried : tpc[f] \in {"wait", "push", "report"}

(* help.h:18, "Changes within the range will be persisted": when the       *)
(* editor has gone well, every file that it saved with its oracles has     *)
(* been pushed by the time the process ends.                               *)
AllPushed ==
    mpc = "exit" => \A f \in File : swap[f] # "saved"
=============================================================================
