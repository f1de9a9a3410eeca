# yacet: a verification project

yacet lets several people edit overlapping parts of the same files. A *range* is a
named set of byte intervals of one or more files; it is kept in MySQL. A process
opens a range with `-r` or `-w`: it locks the intervals in ZooKeeper, copies every
file to a swap file in which the intervals are enclosed by two marks (*oracles*),
runs an editor on the swap files, finds the marks again, shifts the offsets in the
database and splices the new texts into the files. This directory holds TLA+ models
of that program, the TLC runs that check them and, for eight of them, TLAPS proofs of what
matters most.

All names in the models are those of the source where TLA+ allows it. A comment
`\* fault:` marks an operator that is used by no model: it is a plausible mistake in
the definition after it, and shows that a property can fail.

## 1. Inventory

| Component | Source | State | Operations | Module |
|---|---|---|---|---|
| Master lock of a file | `zkclient.c` 18-314, 337-444; `file.c` 79-117, 351-395 | children of `<file>/master`, watches; per request `lock_name`, `lock_acquired`, `pmutex` | acquire (with retries), release, deletion watcher | `MasterLock`, `LockQueue` |
| Interval locks | `zkclient.c` 172-335, 446-630; `sql.c` 199-396, 479-558 | children of `<file>/interval`, row locks of MySQL, `rf->it` | open a range, lock its intervals, pull, unlock, resize | `IntervalLock` |
| Table Offset | `sql.c` 64-134, `sql.h` | rows `Base`, `Bound`, `Conflict` | the UPDATE of `QUERY_RESIZE_FILE` | `OffsetUpdate`, `OffsetRows`, `Intervals` |
| Interval list | `interval_tree.c`, `range.c` 42-80 | linked list `rf->it`, `num_it` | `range_file_add_it` | `IntervalList`, `RangeList`, `Intervals` |
| Swap files and splice | `file.c` 27-161, 351-395; `sql.c` 505-550 | bytes of the file and of the swap file, `offset_update[]` | `pull_swap_file`, `push_swap_file`, `write_offset_update` | `FileSplice` |
| Threads | `file.c` 163-349 | `thds[]`, `thd_state`, `num_thds`, two queues | `prepare_file_threads`, `thd_open_files`, `exec_editor` | `FileThreads` |
| Bounded queue | `pcq.h` | array, `cap`, mutex, two condition variables | `pcq_enqueue`, `pcq_dequeue` | `Pcq`, `TaskStack` |
| ZooKeeper session | `zkclient.c` 18-66 | `zh`, `zkconnected`, `myid` | connect, expiry | not modelled |
| Creation of ranges | `sql.c` 45-62, 398-477, `sql.h` 20-47 | tables RangeName, File, RangeFileJunction, Offset; an open transaction and its snapshot | `query_insert_named_range` | `RangeCreate` |
| Command line | `main.c`, `range.c` 42-71, `list.h` 56-63 | the range being built | `opts` for `-g`, `-r`, `-w`, `-p`; `get_range`, `range_add_new_file` | `CommandLine` |
| Oracle options | `options.h` | none shared | `get_oracles`, `get_an_oracle` | `OracleOptions` |
| Importer | `nosql/bo.c`, `nosql/Makefile` 57-70 | the list of ranges, open marks | `bo`, `make parse` | `Importer` |
| Printing, memory of lists | `main.c` 42-78, `range.h`, `list.h` | none shared | output, memory | not modelled |
| rest of `nosql/`, `test_sql/`, `graveyard`, `tests.c` | | | stubs, an older copy, scrapped code | not modelled |

How they interact. Main opens the range (`query_select_named_range`): it reads the
rows under share locks, merges rows that touch into the list `rf->it`, asks for one
interval lock after another (each request reads the table again on the same
connection), and starts one thread per file. A thread takes the master read lock,
copies the file, waits for the editor, and pushes: `query_resize_file` locks the
rows of the file FOR UPDATE, deletes the interval locks, executes one UPDATE per
interval, takes the master write lock, rewrites the file and commits. Main and the
threads talk through two queues. The ZooKeeper library calls `watcher` on a thread
of its own. Before all that, ranges come into being: `opts` reads files and regions from
the arguments of `-g` (which `bo` may have written), and `query_insert_named_range`
puts them into four tables in one transaction; the two marks come from `~/.oraclerc`.

What is hard here: two lock services (ZooKeeper and MySQL row locks) with no common
transaction; offsets that other clients shift while one holds a copy of them; lost
calls and retries that make new znodes; a callback that races the thread whose lock
it grants; a file that is rewritten before the commit; the order of the results of
several threads. PROJECT.json lists each hazard at its line, with the property that
would notice it.

What makes each component correct:

- Master lock: one writer at a time, no writer while an earlier reader copies, a flag
  that tells the truth, requests that end.
- Interval locks: locks held at once are disjoint, a locked interval keeps its size,
  requests and resizes end, rows and file agree as far as the code can see to it.
- Offset table: intervals keep their order and size under edits elsewhere; a row that
  starts or ends inside an edited text is flagged.
- Interval list: the sorted union of what was inserted.
- Splice: exactly the texts of the range change, and each row follows its bytes.
- Threads: nothing is freed under a running thread, every file given to the editor
  has a thread, the process ends, every saved file is pushed (the last is refuted).
- Queue: no lost wakeup; an atomic bounded stack.
- Creation of ranges: all or nothing, under the right files, and it ends.
- Command line, options, importer: the range that the help promises, the marks that
  it promises, and exactly the marked bytes.

## 2. Modules and correspondence

**MasterLock** (abstract: `LockQueue`). A client is one thread working on one file.
`pc` walks through `pull_swap_file`, the editor and `write_offset_update`; one action
is one ZooKeeper call with what is decided on its answer, since other clients act
between two calls. `znodes`, `nextSeq`, `watches` and `parent` are the server;
`fired` and `rewatch` are deletion events on their way to `watcher` and watcher calls
between `zoo_get_children` and `zoo_wexists`. A failed attempt repeats the whole
`*_lock_operation` with a new znode (`Retry`, `zkclient.c:221`), and the znodes of
earlier attempts stay, as in the code. A lost call may or may not have reached the
server. `FullPaths` says in which form ZooKeeper returns children. The code of the
master lock assumes full paths (`strrchr(child, '/')` and `zoo_wexists(child)`), the
code of the interval lock bare names. ZooKeeper returns bare names, so
`FullPaths = FALSE` is the program as it runs and `TRUE` the program as it was meant.
After a failed acquisition the callers release all the same: `GiveUp` leads to the same
delete, with its lost calls and retries, as `Leave` does (`Deleting`).

LockQueue is what the lock promises: all requests for a file, also forgotten ones and
those of dead processes, stand in one line in the order of their numbers; a writer is
let in only as the first of the line as it is at that moment; and a request may be
withdrawn by its own client only, and not while that client is at work. It is more than
mutual exclusion: a writer must not overtake an older reader or an older znode of its own,
and a delete that is lost and repeated must not hit a request that somebody works under.
Readers may be let in anywhere, which is what the code does (`MasterLock_reader`).

**Intervals** has `it_intersect`, `it_conflict` and the two comparisons of
`it_insert_new`, for all modules about intervals.

**OffsetUpdate, OffsetRows.** `Resized` is the UPDATE for one edited row, column by
column in the order of assignment, which is what MySQL does: the test for `Conflict`
sees the new `Base` and `Bound`. OffsetRows is the table under any sequence of edits, with the inverted rows that edits of
overlapping ranges lead to.

**IntervalList, RangeList.** IntervalList is `it_insert_new`, one step per turn of its
loop; a node that was freed stays in the sequence with a flag, because the code never
unlinks it. `MergedList` of RangeList is what that loop computes for rows in the order
of `Base` (which `OrderedRowsAreSafe` shows never reaches the faulty branch), as an
expression for IntervalLock and FileSplice. Its inputs are regions and rows with base at
or below bound; rows that edits have inverted come back from the table, too, but what
`it_insert_new` makes of them is not in IntervalList. IntervalLock has such rows in its table;
`MergedList` does with them what the loop does in ranges of up to two rows, as its run has
them, while in a range of three rows the loop may join an inverted row to the union of the
other two and `MergedList` does not.

**IntervalLock.** A client is one process that opens one range of one file. `off` is
the committed table, `txn` what an open transaction sees, `xlock` and `slock` the
holders of row locks FOR UPDATE and of the share locks of the first SELECT, `file`
where the bytes of each interval are. The steps are: SELECT, create, list the
children, read the offsets and decide, test the predecessor, pull, unlock, UPDATE,
write, commit. A statement may fail (`RollBack`), the file may be written in part, with or
without an error that the code notices (`WriteInPart`), and COMMIT may fail when the file
is written already (`CommitFails`). The last two and a crash between the two tear rows and
file apart; the history variable `torn` says so, and where the bytes of a torn file are is
not followed any further (`Nowhere`). Every SELECT of a request is a transaction of its own that ends before
the next step, so it only waits and is one step. A deadlock that InnoDB would detect
between row locks of different statements is not modelled: it ends one of the
transactions like a failed write.

**FileSplice.** One file of bytes, each with its own number, so that it can be seen
where a byte ends up; the user types zeros. Sessions follow one another, since the
locks are the subject of the other modules. A session may end without removing its
swap file (`Abandon`: with `-e` the editor fails, or the process dies); the next `Pull`
overwrites its beginning and keeps the rest (`tail`), as an `open` without O_TRUNC
does. `Pull`, `FindOracles` (one turn of the
loop of `push_swap_file`), `Resize` (one turn of the loop of `query_resize_file`) and
`WriteFile` are the steps; a mark is one byte that occurs nowhere else. `Pieces` and
`Woven` say how gaps and texts alternate, in a swap file with marks between them
(`SwapFile`), in the file without (`PlainFile`); `Spliced` is what the loop of
`write_offset_update` writes, one `Replaced` per interval. A push ends in one of four ways:
`WriteFile` (file and rows), `WriteFails` (neither), `CommitFails` (the file only), and
`WriteInPart`: some `sendfile` stops short; only an error of the last one is looked at, so
the rows are committed or not, and the file is a mixture of the new text, the old end and
zeros (`Short`). Later sessions go on from whatever file and rows are there. That `Spliced` and
`PlainFile` agree, although one comes from positions in two files and the other from the texts themselves, is
`SpliceIsExact`.

**FileThreads** and **Pcq** (abstract: `TaskStack`). FileThreads has the main thread
and the file threads, with queues as atomic stacks; `multiple_mode` is chosen once, as
by `-e` or `-E` on the command line. Pcq is the monitor that
implements such a stack, with wait sets, signals and spurious wakeups. Threads that
are killed by the end of the process are in state "killed". When main comes to destroy the
queues while a thread is inside one of them (`Inside`), what follows is undefined: `Exit`, or
`Hang`, main waiting in `pthread_cond_destroy` for a thread that nobody will wake (what
current glibc does).

**RangeCreate.** A client is one `yacet -g`. One action is one statement of
`query_insert_named_range` with what is decided on its result. The server is modelled
as far as the code depends on it: `txn` are the rows an open transaction has inserted,
`view` its snapshot of table File (made by its first plain SELECT), `Holders` the
transactions whose keys an INSERT waits for. A wait ends with the transaction, with a
lock-wait timeout (the statement fails) or with a deadlock (the whole transaction is
rolled back and what follows is committed row by row). The code tells none of these
from a key that exists: `FileExists` and `Deadlock` go on with the SELECT. `fileId` is
not initialised and keeps its value when the SELECT finds nothing.

**OracleOptions, CommandLine, Importer** are pure functions, folds over lines, words
and characters that follow the loops of `get_oracles`, `opts` and `bo` item by item;
each has the result of the code, "err" where it exits, and "undefined" where the code
reads or writes what it does not own. A word is what it names (flag, file, region), a
line of `~/.oraclerc` what its first word names and how long the others are. The regions of
a file go through `ItInsertNew`, which is `it_insert_new` as one expression: a region that
meets one node is joined with it, and one that meets two ends in the double free of the
loop (`FreesTwice`, "undefined"). `MCInputs`
grows inputs one item at a time, in any order, so that every input within the bounds
is a state, and states what the help says of the result, in another form than the
code computes it.

## 3. Runs

The runs named "pass" in PROJECT.json check without error.

| Run | Properties | Instance |
|---|---|---|
| `MasterLock_locks` | `TypeOK`, `WriterExclusion`, `PrecedingReadersDrained`, `PullLeavesNothing`, `QueueSpec` (refinement) | 2 symmetric clients, bare names, 3 losses |
| `MasterLock_watch` | `FlagSound`, `AttemptEnds` | 2 clients, full paths, 1 loss, fair |
| `OffsetRows_edits` | `TypeOK`, `OrderKept`, `SizeKept`, `ConflictNoticed` | 3 rows, positions 0..5, sizes 0..3 |
| `IntervalLock_clients` | `TypeOK`, `LocksExclude`, `LockedKeepsSize`, `RowsMatchFile`, `RequestEnds`, `ResizeEnds` | 3 clients, 4 intervals in two layouts (two nested or touching, one before and one behind them), empty new texts, crashes in the editor and before COMMIT, failing statements, writes and COMMITs, fair |
| `Inputs_written` | `TypeOK`, `ListIsUnion`, `IdOfFirstRow`, `OrderedRowsAreSafe` (IntervalList), `OraclePrecedence`, `NewRangeAsDocumented`, `ModesAsDocumented`, `ImportIsExact` | 3 regions in 0..6; 3 lines; 8 words of `-g`, of which regions may touch or bridge others; 5 words of `-r`, `-p`; 8 characters |
| `RangeCreate_together` | `TypeOK`, `CreationIsAtomic`, `RightFiles`, `CreationEnds` | 2 processes, 3 plans, 2 files of which one may exist, fair |
| `FileSplice_sessions` | `TypeOK`, `MarksNeeded`, `SpliceIsExact`, `RowsFollowBytes` | 7 layouts, file of 5 bytes, at most 6, one swap file left over, COMMIT that fails, writes short at byte 2 |
| `FileThreads_ends` | `TypeOK`, `JoinedBeforeFree`, `EditorHasThreads`, `ProcessEnds` | 3 files, `-e` and `-E`, 2 lost oracles, fair |
| `Pcq_wakeups` | `TypeOK`, `WakeupsSuffice`, `IsStack`, no deadlock | 3 producers, 3 consumers, 2 places |

Runs that TLC refutes, each against a comment or a help text of the repository
(quoted in PROJECT.json under "findings"):

| Run | Property | What happens |
|---|---|---|
| `MasterLock_reader` | `ReaderWaitsForWriter` | a reader never sees a write lock and copies a file that is being rewritten |
| `IntervalLock_stale` | `PullsItsIntervals` | the file is copied with offsets another client has shifted |
| `FileThreads_pushed` | `AllPushed` | main stops reading results and exits before a push |

The models show more places where the code does not do what its comments say. They
are kept in the models as the code has them, and bound what the passing runs can
claim:

- `zkclient.c:100`: with full paths `zk_acquire_master_lock` returns without the lock,
  because the mutex it means to block on is unlocked at first (`Return`).
- `zkclient.c:229`: a retry forgets the znode of the attempt before it, and that one
  stays until the session ends (`Retry`, `CreateLost`).
- `sql.c:126-130`: the CASE for `Conflict` sees columns that were just assigned, so a
  row beside the edited one may be flagged (`Touches`, `Resized`), and the cases 1, 2 and 4 of the comment
  before it (`sql.c:78-110`, "Conflict = True") do not hold as they are written there.
  Case 2: a row with the same two ends, a range that two people share, is not flagged when
  the edit makes the text longer, because the new `Bound` is beyond the old one. Case 1: a row with
  the same start that ends behind the edited one is flagged only if the edit pulls its end
  back to where the edited one ended, or further. Case 4: a row that starts before the edited one and ends with it is flagged
  only if the edit makes the text shorter and leaves something of it. `ConflictNoticed` is what holds: a row with an
  end inside the edited text is flagged, and an identical one when the text does not grow. Overlapping
  rows may end before they start.
- `file.c:144`: nothing between two oracles gives an empty interval. It conflicts with
  no row, not even itself, and is never locked again (`QueryEmpty`); one that is
  inverted is not found by `bsearch`, and the process dies (`QueryDies`).
- `zkclient.c:462`, `sql.c:331`: two clients can hold locks on overlapping intervals. A
  lock is granted when no conflicting interval has an *older* znode, and which ones
  conflict is looked up after the znode was made. If a resize commits between the two,
  rows that begin to overlap only then are ranked by znodes from before. The share locks
  of the first SELECT would keep the resize out, but the first query of
  `query_select_file_intervals` drops them, so the second interval of a range and every
  retry are exposed. An example: the rows are [0,1), [2,6), [3,5), [7,8); one client has
  row 2 open, one has locked row 1 and made its znode for row 3, and one has then locked
  row 4. The first empties row 2: row 4 moves to [3,4), row 3 stays, and the second
  client, whose znode is the older one, gets row 3 as well. `LocksExclude` and
  `LockedKeepsSize` therefore speak of files whose rows are apart at first (`AllApart`),
  where this cannot happen, and of all files as long as no resize was committed at such
  a moment (the history variable `crossed`); both cases are proved. Without the proviso
  TLC finds the example on the instance of `IntervalLock_clients`.
- `interval_tree.c:56`: an insertion that meets two nodes meets a freed node again
  (`Absorb`, `FreedTwice`); rows in the order of `Base` never get there.
- `main.c:173`: a region of `-g` that reaches over a gap between earlier ones of its file, as
  in `-r 0,2 5,7 1,6`, is such an insertion (`FreesTwice`; `Bridges` in `NewRangeAsDocumented`).
- `sql.c:533`: rows of one range that have come to touch are one node; only the first
  row is resized and the bytes of the others are duplicated (`Unmerged` in
  `SpliceIsExact`).
- `file.c:149`: a push whose write failed is rolled back, returns 0 and removes the
  swap file (`WriteFails`).
- `sql.c:543`, `file.c:372-382`: the file is written before COMMIT, and it is not part of the
  transaction. If COMMIT fails (`CommitFails`), the rows are rolled back (line 548) and the
  file stays rewritten; if a `sendfile` stops short the file has some of the new text and the
  rows are committed, and if the last one fails they are not (`WriteInPart`). Nobody notices.
- `file.c:96`: a swap file that was left over keeps its end. If that holds an old oracle
  and the user loses one, the old one is taken and the file gets the wrong text
  (`StaleOracles`).
- `sql.c:441-447`: when two processes create a range of the same new file at once, the
  one that waited in vain, or whose snapshot is older, finds no row and uses the id of
  another file (`SelectFile`; `RightFiles` is about all other cases).
- `sql.c:460`: an interval that cannot be inserted is only reported (`InsertOffset`).
- `help.h:62`: "Matching precedence is taken in that order" (path, name, extension) is
  not so for a line of the path that stands above one of the name: the later line wins
  (`Tested`, `ReadLine`). A chosen line without two good oracles copies from a null or a freed pointer
  (`GetOracles`: "undefined").
- `help.h:31` allows a region `A,` up to the end of the file; `get_range` refuses it
  (`GoodRegion`, `main.c:36-39`): it sets the bound and falls into the error. `NewRangeAsDocumented`
  is about regions `A,B` only.
- `help.h:38`: "If no argument is specified, all ranges are printed"; `-p` alone starts no
  thread and prints nothing (`PrintThreads`, `main.c:223`). `ModesAsDocumented` is about `-p` with
  arguments.
- `file.c:346`, `pcq.h:32`: with `-E` main may destroy the queues while a thread that has lost an
  oracle waits for its next token (of two files, one result is read, `file.c:317`): undefined, and in
  current glibc main waits for ever (`Hang`). `ProcessEnds` allows for that with `-E`, and
  only with `-E`.
- `main.c:155`: `-f FILE -r` at the end of the line drops the files silently, since
  getopt misses the argument of `-r` (`NewRangeArg`, "apply").
- `list.h:57`: from the fifth file of a range on, pointers into the array are stale and
  its new entries are not cleared (`Outgrown`).
- `main.c:121-130`: without files, EXE_PATH itself is overwritten with NULL (`OpenRange`),
  and a longer name that follows a repeated one is copied over its neighbour
  (`DropRepeated`).
- `bo.c:82`: a mark that is not closed is only reported; its file is in the list, without
  the region (`WriteLines`).

Bounds and why they are enough. Two clients suffice for a race on a master lock (the
proofs cover any number) and three for a client that is overtaken while a second one
retries. Each request has three attempts, so three losses can exhaust one request or
hit several. Three rows are an edited row, one beside it and one that overlaps either;
six positions leave a gap between three intervals, and let one be inside another. In
IntervalLock two clients of the same range and one of another show both "in use" and a
shift from outside; of the four rows two are nested in one layout, so that removing a
text empties the one and leaves or inverts the other, and touch in the other; one lies
before and one behind them, so that a client has a second interval to ask for and a
locked row is shifted. New texts are empty there, the case that moves rows most: the
proofs cover any sizes.
Two creations suffice for a circle of waits and for a snapshot that is older than the
other's COMMIT. Eight words of `-g` hold two pairs of `-f` and `-r`, or one pair with
several files and regions; `A_LIST_INIT_LEN` is 2 there (4 in the code), so that the array can
overflow. Three regions [0,2), [2,4), [4,5), in any order, can touch, be joined and bridge a gap. Three lines of `~/.oraclerc` can name extension, name and path in any order,
and eight characters hold two pairs of marks over two files. Five bytes with three rows are the smallest file in which a gap lies between
two rows of a range. Three threads show a retry, a success and a failure at once.

A swap file is left over at most once in a row and while the file is as at first: that
gives every tail the first sessions can leave behind, and keeps the instance small.
Sessions stop when an oracle has got into the file (see `StaleOracles`). A COMMIT fails, or
a write stops half way, only while the file is as at first: the sessions that follow
then meet every mixture of file and rows that one such failure can leave. A short write
stops at byte 2 (`ShortAt`), which lies before, at or inside a row, depending on the layout;
the proofs have any place.

Deadlock checking is off where a model ends because the program ends (all processes
over, or the bound on positions or inputs reached); Pcq runs with it.

Fairness. `MasterLock!FairSpec` and `IntervalLock!FairSpec` assume that a thread that
can go on does so (the scheduler) and that ZooKeeper delivers events.
`FileThreads!FairSpec` also assumes that the user leaves the editor, which main waits
for without a timeout. `RangeCreate!FairSpec` assumes that the server and the processes
that talk to it go on; InnoDB ends every circle and every wait by itself. Nothing is assumed about crashes, pushes, the end of a session
or failures, and in IntervalLock the user may edit for ever.

What `RowsMatchFile` does not ask: it speaks of the states in which nothing has torn rows
and file apart (`~torn`). The runs and the proof have the tearing steps all the same, that is
a crash between the write and COMMIT, a COMMIT that fails, and a write in part; what the property says
is that there are no others, among all interleavings, failing statements and crashes. The
other properties of IntervalLock about rows and locks hold before and after such a step; `PullsItsIntervals`,
which is refuted, is about files that are not torn. `RangeCreate` takes the foreign keys of the schema as they
are meant: the comment in `sql.h` refers to a table Range that is called RangeName.

## 4. Proofs

`MasterLockProofs` proves, for every set of clients and every number of lost calls,
`TypeCorrect` and `FlagIsSound` for both forms of child names, and for bare names
(`~FullPaths`, an explicit assumption of the theorems) `WritersExclude`,
`ReadersDrainFirst` and `ImplementsQueue`, the refinement of `LockQueue`. With full
paths the last three are false: a client gets inside without the lock.

The argument. `WriterExclusion` alone is not inductive: it says nothing about clients
that are about to go inside. `IInv` adds that the server never reuses a number and
every `lock_name` is below `nextSeq` (`Numbering`), that a name a client holds is that of its own
znode if the znode exists, so that no release deletes another client's lock
(`NameOwner`), that from creation to release the znode of the request exists
(`OwnNode`), and that a client told it has the lock is still first (`FlagSound`).
`FlagSound` is preserved because new znodes get larger numbers and other
znodes only disappear. With bare names no watch is ever set and nobody gets past the test without the flag
(`NoWatchOnBareNames`). Two writers inside would both be first among the same znodes,
hence have the same number, hence be the same client.

For `ImplementsQueue` a step of MasterLock is a step of the line, or leaves it alone. `InLine`
says that the request of a client that is at work is still the znode it was made as; a writer
that returns from the acquisition is first at that moment (`QueueEnter`), although it decided on a listing that
may be old; and a delete, or the end of a session, takes only znodes of its own client, which
is not at work (`NameOwner`, since names are never used again).

`PullsLeaveNothing` is about bare names and runs in which no call is lost, and needs an
invariant of its own, `PullInv`: a reader has at most the one znode that it will release,
because with bare names it never has to try again.

`OffsetRowsProofs` proves for any number of rows, any positions and any sizes that the
UPDATE keeps every row a pair of natural numbers (`TypeCorrect`), keeps the order
of separate intervals (`OrderIsKept`) and the size of an interval beside the edited
one (`SizeIsKept`), and flags every row that starts or ends inside the edited text, and an
identical one if the text does not grow (`ConflictIsNoticed`). What the UPDATE does to one row are the lemmas `BesideMovesWhole`
and `EditedTakesSize`, which `IntervalLockProofs` and `FileSpliceProofs` have in the form
they need; `StepForm` brings a step of the specification to that form.

`IntervalLockProofs` is about any clients, any ranges, any table and any sizes.
`LocksAreExclusive` and `EditsKeepLockedSizes` depend on each other: locks exclude
because locked rows keep their sizes and stay apart under the edits of others, and rows
keep their sizes because those who edit them have excluded others. `SharingInv` has both,
in parts that stand for the steps of the argument:

- `PhasesInv`: what a client holds at each location; only one is in a resize.
- `LockInv` is about znodes alone. Sequence numbers are unique and a listing has every
  older znode that still exists (`ZnodesInv`); the znode of a lock or a request is there
  (`OwnInv`); a row has one holder, whose znode is older than that of any request for the
  row (`HolderInv`). This gives the first conjunct of `LocksExclude`, without a proviso.
- `OrderInv`: rows that were apart at first stay in order, in the table and in the open
  transaction.
- `TodoInv`: what a resize has still to edit is locked by nobody else, although its
  own locks are gone already (`sql.c:511`): the row locks keep others out.
- `SafeInv`: under the proviso, the locked rows are apart in the table, and with those
  still to be edited in the transaction; rows locked by others have their old size there;
  and whoever asks with an *older* znode than that of a lock asks for a row that does not
  conflict with it. The last conjunct is the one that a resize breaks when it is
  committed between a znode and the look at the offsets; finding it was what showed that
  an earlier form of `LocksExclude` was false (section 3).

`RowsDescribeFile` has no assumption on `CrashAt`: `TableInv` follows rows and file through
a resize, until a step sets `torn`.

`PcqProofs` proves for any numbers of producers and consumers and any size that no
wakeup is lost (`NoLostWakeup`; `WakeupsSuffice` is inductive as it stands) and that the
monitor implements the stack `TaskStack` (`PcqImplementsStack`), which is what entitles
FileThreads to its atomic queues.

`RangeCreateProofs` proves for any number of processes, plans and files that a range is
in the tables as a whole or not at all (`CreationsAreAtomic`) and under the right files
(`FilesAreRight`). The invariant says what an open transaction has inserted at each
statement (`TxnInv`), that every committed row is of a creation that is over and complete
(`RowsInv`), and where `fileId` and the snapshot come from (`FilesInv`). The hard case is
a deadlock: the transaction is rolled back and the code goes on in autocommit. What
saves it is that the row of the range is gone, so that the foreign key refuses the next
junction row (`JunctionIsOpen`); the proofs thus rest on the foreign keys of the schema,
as the model does.

`InputsProofs` proves all that the run of `MCInputs` checks, for inputs of any length.

Of the interval list: for files of any length and any number of intervals the list is
the sorted union of what was inserted (`ListIsTheUnion`), a node has the id of its first
row (`IdIsOfFirstRow`), and rows in the order of `Base` never reach the branch that frees
a node (`OrderedRowsNeverAbsorb`). The invariant says where the cursor is (`LoopInv`),
that live nodes are in order (`OrderInv`), and that the list covers what was given, with
the interval in hand added as long as it has no node (`CoverInv`). A call that has freed
a node never returns: it meets the node again and dies, so the first two theorems are
about all calls that return.

Of the functions on lines, words and characters: `OraclesAreChosen`,
`NewRangesAreDocumented`, `ModesAreDocumented`, `ImportsAreExact`. Each function is a fold,
that is a recursive function on sets of places chosen by its equation. `FoldExists`
shows once for all folds that it exists, and `LoopIs` that what it computes is the last of
a series of states (`Runs`), one `Step` for each item. The library's induction theorems
take an operator and cannot be used, so the loops are an argument of `Step` (`p`), and
`UpTo`, an induction principle about sets, carries an invariant along the series. Each
loop has its own, and that is where its theorem is:

- `LoopKnows` (lines of `~/.oraclerc`): at level 1 a line for the extension is the target
  only if all lines so far are for it, and at level 2 at most a line for the name, which
  no line for the path has followed.
- `Understood` (arguments of `-g`): after a word the old pairs of `-f` and `-r` have all
  their regions, and the files of the pair at hand (`Cur`) wait in `fs`, or have joined
  with the list of the regions read so far (`ListOf`). `Proper` is what the error exits have
  tested by then, `Regular` that no region bridges a gap, which keeps `FreesTwice` away.
- `Marked` (characters of a text) and `Imported` (files): what `yacet -g` would have
  understood if bo stopped here. The reading of `-g` is thus an argument of the
  invariant of `bo`, and the two programs are proved together.
- `UnionTo` (regions of a file): what the list covers so far, and that its nodes do not meet.
  `NoGap` is the step: a region that meets two nodes reaches over a byte that neither covers, so
  it bridges a gap. `ListUnion` gives the union for regions that never do, and the importer's do not, because
  they ascend (`SpansAscend`, `NoBridge`).
- `Kept` (sorted names): what is kept is the list of the names so far. Whether a name
  fits the place it is copied to depends on how many were dropped.
- `Starting` (words of `-p`): one thread for each word, of the kind of the last flag.

The reference definitions select places and sort them (`Ascending`). `Lists` says what a
sorted list of a set is; such lists exist, are unique, and are joined when one set lies
before the other (`ListsJoin`), which is how a step of a loop appears in them. `Sorted`
(qsort) is defined by ranks; that they exist, and that the result is in order with the
same names, is `SortedIsOrdered`. The assumptions are that the marks are neither CR nor
the other character of the model (`bo.c`, TOKENS) and that every name has a length.
The proof about `-p` found two alternatives of `PrintArg` that overlapped in a CASE,
where TLC takes the first and the language either; it is a chain of IFs now, as the
switch in the code.

`FileThreadsProofs` proves for any number of files that with `-e` nothing is freed under
a thread (`ThreadsAreJoined`) and that with `-E` every file given to the editor has a
thread that will push it (`EditedFilesArePushed`). Both rest on a count: until main has
counted all threads, what it has taken, what is in the queue and what is still due make
up the number of files (`CountInv`); `StateInv` says what `thd_state` tells of a thread
and `JoinInv` who has been joined.

`FileSpliceProofs` proves for a file of any length, any rows, any texts and any number of
intervals all that the run checks: `SplicedTyped`, `NoMarkMissed` (no swap file is pushed
with an oracle missing), `SpliceExact` (the file gets the texts that were left between the
oracles and nothing else) and `RowsFollowed` (every row still describes its bytes). None
of them can be seen from the last step alone, which knows positions only. `IInv` carries
from the pull to the push what the positions stand for:

- `Listed`: the nodes are in order, each is one row longer than nothing, and rows of
  different nodes do not meet (rows that do are merged by `MergedList`, or not locked).
  This is what makes `InFile(p) == p - delta` the place in the old file: no edit before
  an interval is anywhere but wholly before it.
- `GapsPulled`: the texts outside the oracles are those of the file between the rows.
- `Saved`: the swap file is what was pulled with new texts, perhaps with a character
  above it, perhaps without one mark, and with the tail of an earlier session behind it.
- `Found`: the oracles found so far are marks of the right kind, one interval behind the
  other. Without this part `MarksNeeded` is not inductive: n pairs found are only n marks
  of each kind because they are at n different places.
- `Placed`: if all oracles were kept, each was found where the weaving put it. The marks
  are counted for that: what `Search` finds first is the k-th mark of its kind, and gaps
  and texts have none.
- `Updates`: each update holds the old place of its interval and the place of its text,
  and the rows still to come are shifted by `delta` in the transaction.
- `RowsFollow`: in the transaction, the rows already edited, and those beside them, are
  where `PlainFile` has their bytes.

The sequences are handled without the induction theorems of the library, which need an
operator as a parameter. `Least` (a set of numbers has a least one) and `UpTo` are an
induction principle about sets; with them `FlattenSeq` is unrolled once
(`FlatUnrolls`), which gives the length of a prefix of the woven text and the place of each
gap, text and mark in it (`WovenAt`), and the number of marks (`Marks`). From there on all is
positions. The assumptions on the constants are those of `FileSpliceAssumption`; one
of them, that two ranges share no row, holds because a row of table Offset has one
`RangeId` (`sql.h`).

Assumed: the named ASSUMEs of the modules (constants are what they are meant to be),
which TLC evaluates in the runs. The inductive invariants of IntervalLock, IntervalList,
RangeCreate, FileThreads and FileSplice were checked by TLC on instances like those of the
runs before they were proved.

Only model-checked: all liveness (`AttemptEnds`, `RequestEnds`, `ResizeEnds`,
`ProcessEnds`, `CreationEnds`), which needs ENABLED and so is beyond the prover. Every
other property of a passing run is a theorem. The refuted properties are shown by TLC
alone.

## 5. Not modelled

- Expiry of a session inside a living process (`zkclient.c:60-64`): the znodes of all
  its locks go while its threads work on, and `watcher` tells none of them. None of the
  exclusion properties survives it, so the sessions of the models end after their
  processes.
- A range of several files in IntervalLock: files are locked one after the other by
  the same loop and share no rows and no znodes.
- Oracle texts that occur in the file, and files of the same name in two folders, which
  share a swap file.
- The modes `-h` and `-n` (the latter reads its arguments and then does nothing), and
  printing, which changes no state: its threads are started as `PrintThreads` says.
- Words as characters, and the memory management of `a_list` beyond the length up to
  which it is sound.
- A NUL byte in a text given to `bo`, which `strchr` finds at the end of TOKENS
  (`bo.c:143`); failures of reading or writing its list.
- The build without MySQL (`nosql/sql.c`), `test_sql/`, `graveyard`, `tests.c`.

## 6. Plan

Done, in this order: MasterLock with its proofs, OffsetUpdate and OffsetRows with
theirs, IntervalLock, IntervalList, FileSplice, Pcq, FileThreads, RangeCreate,
OracleOptions, CommandLine, Importer, the swap files left over in FileSplice, the proofs
of IntervalLock, Pcq, RangeCreate, IntervalList, FileThreads and FileSplice, and of the
functions of `MCInputs`.

Next, model:

1. `Yacet`: MasterLock, IntervalLock and FileSplice composed on one file with two
   clients: bytes, rows and locks together, with a crash between write and commit.
2. Marks that occur in texts, swap files shared by name (extension of FileSplice).
3. An abstract specification of the interval locks that IntervalLock implements.
4. Inverted rows in IntervalList, and in `MergedList` for ranges of three rows.

Then, prove:

1. That IntervalLock implements the abstract specification of item 3 above.
