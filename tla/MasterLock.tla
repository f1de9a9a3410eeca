----------------------------- MODULE MasterLock ------------------------------
(***************************************************************************)
(* The ZooKeeper master lock of one backing file (zkclient.c), as its two  *)
(* callers use it: a client pulls the file under a read lock               *)
(* (pull_swap_file), the user edits, and the client pushes the edit under  *)
(* a write lock (write_offset_update).                                     *)
(*                                                                         *)
(* A client is one thread of one yacet process working on the file.  Its   *)
(* lock request is an EPHEMERAL|SEQUENCE znode <kind>-<seq> of the folder  *)
(* <file>/master; the request is granted when no other relevant znode has  *)
(* a smaller sequence number, and otherwise the client asks ZooKeeper to   *)
(* watch its predecessor.  A failed attempt is repeated with a NEW znode,  *)
(* up to Attempts times; the znodes of the earlier attempts stay until the *)
(* session of the process ends.                                            *)
(*                                                                         *)
(* Two facts about ZooKeeper decide how the code behaves and are           *)
(* parameters here, because zkclient.c contradicts itself about the first: *)
(*  - FullPaths: whether zoo_get_children returns children as full paths,  *)
(*    as the master lock code assumes (strrchr(child, '/'), and the child  *)
(*    given to zoo_wexists as a path), or as bare names, as the interval   *)
(*    lock code assumes (sscanf of "%lu-%d") and as ZooKeeper does;        *)
(*  - MaxLoss: how many calls may end in ZCONNECTIONLOSS.  A lost call may *)
(*    or may not have taken effect on the server.                          *)
(*                                                                         *)
(* The folders above the lock are one znode, the path of the file; the     *)
(* last folder, /master, needs no model since its creator tolerates a race.*)
(* A zoo_wexists that loses its connection is repeated in place and leaves *)
(* nothing behind; with fewer than four losses it is no step of its own.   *)
(***************************************************************************)
EXTENDS Integers, FiniteSets

CONSTANTS
    Client,        \* threads working on the file, each in its own session
    FullPaths,     \* children of a znode come as full paths
    MaxLoss        \* bound on the number of calls answered ZCONNECTIONLOSS

ASSUME FullPathsAssumption == FullPaths \in BOOLEAN
ASSUME MaxLossAssumption   == MaxLoss \in Nat

Attempts == 3      \* the "count < 3" of every retry loop

NoSeq == -1        \* no znode: a NULL or never assigned lock_name

Kind == {"read", "write"}

VARIABLES
    znodes,        \* server: the children of <file>/master
    nextSeq,       \* server: the sequence number of the next child
    parent,        \* server: whether the znode of the file path exists
    watches,       \* server: watches left on children by zoo_wexists
    fired,         \* deletion events on their way to a watcher call
    rewatch,       \* watcher calls between get_children and wexists
    losses,        \* calls lost so far
    pc,            \* where each client is
    kind,          \* the lock type of its current request
    count,         \* the counter of its current retry loop
    lock_name,     \* the sequence number in context->lock_name
    lock_acquired, \* context->lock_acquired
    pmutex,        \* whether context->pmutex is locked
    target         \* the predecessor it is about to watch

server == <<znodes, nextSeq, parent, watches>>
events == <<fired, rewatch>>
client == <<pc, kind, count, lock_name, lock_acquired, pmutex, target>>
vars   == <<server, events, losses, client>>

(***************************************************************************)
(* start: pull not begun.  exists, mkpath: inside retry_create.  create,   *)
(* children, watch: inside a *_lock_operation.  check: the request is in,  *)
(* lock_acquired is about to be tested.  inside: reading or writing the    *)
(* file.  release: in zk_release_lock.  failed: zk_acquire_master_lock     *)
(* returned -1.  withdraw: in zk_release_lock after that.  edit: pulled,   *)
(* the editor runs.  done: the process is over or dead, its session        *)
(* lingers.  closed: the session is gone.                                  *)
(***************************************************************************)
Acquiring == {"exists", "mkpath", "create", "children", "watch", "check"}
Location  == Acquiring \cup
             {"start", "inside", "release", "failed", "withdraw", "edit", "done", "closed"}

(* The znode contexts of a client are stack variables of the two callers:  *)
(* they exist from the call of zk_acquire_master_lock to the return.       *)
ContextLive(c, k) ==
    kind[c] = k /\ pc[c] \in Acquiring \cup {"inside", "release", "failed", "withdraw"}

Znode == [seq : Nat, kind : Kind, owner : Client]
Watch == [client : Client, kind : Kind, seq : Nat]

-----------------------------------------------------------------------------
(* Helpers *)

OwnedBy(c) == {z \in znodes : z.owner = c}

Exists(s) == \E z \in znodes : z.seq = s

(* The children that the eligibility test of a request looks at: a writer  *)
(* takes the sequence number of every child; a reader keeps the children   *)
(* whose name has a '/' that is followed by "write", so it sees no child   *)
(* at all when children come as bare names.                                *)
SeenByNoWriter(k) ==     \* fault: the writer's test filters like the reader's
    {z \in znodes : FullPaths /\ z.kind = "write"}

SeenWritesOnly(k) ==     \* fault: the writer's test keeps write locks only
    {z \in znodes : z.kind = "write" /\ (k = "write" \/ FullPaths)}

Seen(k) ==
    IF k = "write" THEN znodes
    ELSE {z \in znodes : FullPaths /\ z.kind = "write"}

(* currentSeq == minSeq *)
Eligible(c) == \A z \in Seen(kind[c]) : z.seq >= lock_name[c]

(* nextSmallestLock: the search starts from 0 with a strict comparison, so *)
(* a predecessor with sequence number 0 is never found.                    *)
Smaller(c) == {z \in Seen(kind[c]) : z.seq > 0 /\ z.seq < lock_name[c]}

NextSmallestSeq(c) ==      \* at most one number
    {z.seq : z \in {y \in Smaller(c) : \A x \in Smaller(c) : x.seq <= y.seq}}

(* Deleting a znode fires the watches that were left on it. *)
Deleted(s) == {w \in watches : w.seq = s}

DeleteNode(s) ==
    /\ znodes' = {z \in znodes : z.seq # s}
    /\ watches' = watches \ Deleted(s)
    /\ fired' = fired \cup Deleted(s)

Lose == losses < MaxLoss /\ losses' = losses + 1

-----------------------------------------------------------------------------
Init ==
    /\ znodes = {} /\ nextSeq = 0 /\ parent = FALSE
    /\ watches = {} /\ fired = {} /\ rewatch = {}
    /\ losses = 0
    /\ pc = [c \in Client |-> "start"]
    /\ kind = [c \in Client |-> "read"]
    /\ count = [c \in Client |-> 0]
    /\ lock_name = [c \in Client |-> NoSeq]
    /\ lock_acquired = [c \in Client |-> FALSE]
    /\ pmutex = [c \in Client |-> FALSE]
    /\ target = [c \in Client |-> NoSeq]

-----------------------------------------------------------------------------
(* zk_acquire_master_lock *)

Goto(c, l) == pc' = [pc EXCEPT ![c] = l]

(* A fresh context: pmutex is initialised unlocked, lock_name is unset.    *)
(* lock_acquired is not initialised; it keeps whatever the stack held.     *)
BeginLocked(c, k) ==     \* fault: pmutex starts locked, so that only the watcher can let go
    /\ Goto(c, "exists")
    /\ kind' = [kind EXCEPT ![c] = k]
    /\ count' = [count EXCEPT ![c] = 0]
    /\ lock_name' = [lock_name EXCEPT ![c] = NoSeq]
    /\ pmutex' = [pmutex EXCEPT ![c] = TRUE]
    /\ UNCHANGED <<server, events, losses, lock_acquired, target>>

Begin(c, k) ==
    /\ Goto(c, "exists")
    /\ kind' = [kind EXCEPT ![c] = k]
    /\ count' = [count EXCEPT ![c] = 0]
    /\ lock_name' = [lock_name EXCEPT ![c] = NoSeq]
    /\ pmutex' = [pmutex EXCEPT ![c] = FALSE]
    /\ UNCHANGED <<server, events, losses, lock_acquired, target>>

BeginPull(c) == pc[c] = "start" /\ Begin(c, "read")

BeginPush(c) == pc[c] = "edit" /\ Begin(c, "write")

(* The next round of a retry loop at location l, or the end of the loop.   *)
RetryCountsDown(c, l) == \* fault: the counter runs the wrong way
    /\ count' = [count EXCEPT ![c] = @ - 1]
    /\ Goto(c, IF count[c] - 1 < Attempts THEN l ELSE "failed")

Retry(c, l) ==
    /\ count' = [count EXCEPT ![c] = @ + 1]
    /\ Goto(c, IF count[c] + 1 < Attempts THEN l ELSE "failed")

(* retry_create: the loop runs while the last answer is ZNONODE or         *)
(* ZCONNECTIONLOSS and count < 3.                                          *)
PathRound(c, l) ==
    IF count[c] < Attempts
    THEN Goto(c, l) /\ count' = [count EXCEPT ![c] = @ + 1]
    ELSE Goto(c, "failed") /\ UNCHANGED count

PathExists(c) ==
    /\ pc[c] = "exists"
    /\ \/ /\ parent
          /\ Goto(c, "create")
          /\ count' = [count EXCEPT ![c] = 0]
          /\ UNCHANGED losses
       \/ ~parent /\ PathRound(c, "mkpath") /\ UNCHANGED losses
       \/ Lose /\ PathRound(c, "exists")
    /\ UNCHANGED <<server, events, kind, lock_name, lock_acquired, pmutex, target>>

(* zoo_create of the path: another client may have created it since the    *)
(* test, and then the answer ZNODEEXISTS ends the whole acquisition.       *)
PathCreate(c) ==
    /\ pc[c] = "mkpath"
    /\ \/ /\ ~parent
          /\ parent' = TRUE
          /\ Goto(c, "create")
          /\ count' = [count EXCEPT ![c] = 0]
          /\ UNCHANGED losses
       \/ parent /\ Goto(c, "failed") /\ UNCHANGED <<parent, count, losses>>
       \/ Lose /\ parent' \in {parent, TRUE} /\ PathRound(c, "exists")
    /\ UNCHANGED <<znodes, nextSeq, watches, events, kind, lock_name,
                   lock_acquired, pmutex, target>>

(* zoo_create(EPHEMERAL|SEQUENCE) of one attempt. *)
NewNode(c) ==
    /\ znodes' = znodes \cup {[seq |-> nextSeq, kind |-> kind[c], owner |-> c]}
    /\ nextSeq' = nextSeq + 1

CreateNode(c) ==
    /\ pc[c] = "create"
    /\ NewNode(c)
    /\ lock_name' = [lock_name EXCEPT ![c] = nextSeq]
    /\ Goto(c, "children")
    /\ UNCHANGED <<parent, watches, events, losses, kind, count,
                   lock_acquired, pmutex, target>>

(* The answer is lost: the znode may exist, and the client has no name     *)
(* for it.                                                                 *)
CreateLost(c) ==
    /\ pc[c] = "create"
    /\ Lose
    /\ NewNode(c) \/ UNCHANGED <<znodes, nextSeq>>
    /\ Retry(c, "create")
    /\ UNCHANGED <<parent, watches, events, kind, lock_name, lock_acquired,
                   pmutex, target>>

(* zoo_get_children and the decision taken on that snapshot. *)
GetChildren(c) ==
    /\ pc[c] = "children"
    /\ lock_acquired' = [lock_acquired EXCEPT ![c] = Eligible(c)]
    /\ \/ /\ Eligible(c)
          /\ Goto(c, "check")
          /\ UNCHANGED target
       \/ /\ ~Eligible(c)
          /\ Goto(c, "watch")
          /\ \E s \in IF Smaller(c) = {} THEN {NoSeq} ELSE NextSmallestSeq(c) :
                target' = [target EXCEPT ![c] = s]
    /\ UNCHANGED <<server, events, losses, kind, count, lock_name, pmutex>>

GetChildrenIgnored(c) == \* fault: a lost answer falls through to the return
    /\ pc[c] = "children"
    /\ Lose
    /\ Goto(c, "check")
    /\ UNCHANGED <<server, events, kind, count, lock_name, lock_acquired, pmutex, target>>

GetChildrenLost(c) ==
    /\ pc[c] = "children"
    /\ Lose
    /\ Retry(c, "create")
    /\ UNCHANGED <<server, events, kind, lock_name, lock_acquired, pmutex, target>>

(* zoo_wexists on the predecessor: a bare name and NULL are bad arguments, *)
(* a znode that is gone is ZNONODE; both make the caller start over with a *)
(* new znode.                                                              *)
Watchable(s) == FullPaths /\ Exists(s)

WatchPredecessor(c) ==
    /\ pc[c] = "watch"
    /\ \/ /\ Watchable(target[c])
          /\ watches' = watches \cup
                {[client |-> c, kind |-> kind[c], seq |-> target[c]]}
          /\ Goto(c, "check")
          /\ UNCHANGED count
       \/ ~Watchable(target[c]) /\ Retry(c, "create") /\ UNCHANGED watches
    /\ target' = [target EXCEPT ![c] = NoSeq]
    /\ UNCHANGED <<znodes, nextSeq, parent, events, losses, kind, lock_name,
                   lock_acquired, pmutex>>

(* if (!lock_acquired) pthread_mutex_lock(&pmutex); return 0; *)
Return(c) ==
    /\ pc[c] = "check"
    /\ \/ lock_acquired[c] /\ UNCHANGED pmutex
       \/ /\ ~lock_acquired[c]
          /\ ~pmutex[c]
          /\ pmutex' = [pmutex EXCEPT ![c] = TRUE]
    /\ Goto(c, "inside")
    /\ UNCHANGED <<server, events, losses, kind, count, lock_name,
                   lock_acquired, target>>

-----------------------------------------------------------------------------
(* zk_release_lock, from both callers *)

Deleting == {"release", "withdraw"}

AfterRelease(c) == IF pc[c] = "release" /\ kind[c] = "read" THEN "edit" ELSE "done"

Leave(c) ==
    /\ pc[c] = "inside"
    /\ Goto(c, "release")
    /\ count' = [count EXCEPT ![c] = 0]
    /\ UNCHANGED <<server, events, losses, kind, lock_name, lock_acquired,
                   pmutex, target>>

ReleaseKeepsNode(c) ==   \* fault: the znode is not deleted
    /\ pc[c] \in Deleting
    /\ Goto(c, AfterRelease(c))
    /\ UNCHANGED <<server, events, losses, kind, count, lock_name,
                   lock_acquired, pmutex, target>>

Release(c) ==
    /\ pc[c] \in Deleting
    /\ DeleteNode(lock_name[c])
    /\ Goto(c, AfterRelease(c))
    /\ UNCHANGED <<nextSeq, parent, rewatch, losses, kind, count, lock_name,
                   lock_acquired, pmutex, target>>

(* The delete loses its connection: repeated up to three times, then given *)
(* up.                                                                     *)
ReleaseLost(c) ==
    /\ pc[c] \in Deleting
    /\ Lose
    /\ DeleteNode(lock_name[c]) \/ UNCHANGED <<znodes, watches, fired>>
    /\ count' = [count EXCEPT ![c] = @ + 1]
    /\ Goto(c, IF count[c] + 1 < Attempts THEN pc[c] ELSE AfterRelease(c))
    /\ UNCHANGED <<nextSeq, parent, rewatch, kind, lock_name, lock_acquired,
                   pmutex, target>>

(* Acquisition failed.  Both callers release all the same: the znode of    *)
(* the last attempt is deleted like that of a lock, and with no name yet   *)
(* the uninitialised context is read, which ends the process or does       *)
(* nothing.  Either way the thread is over.                                *)
GiveUp(c) ==
    /\ pc[c] = "failed"
    /\ Goto(c, IF lock_name[c] = NoSeq THEN "done" ELSE "withdraw")
    /\ count' = [count EXCEPT ![c] = 0]
    /\ UNCHANGED <<server, events, losses, kind, lock_name, lock_acquired,
                   pmutex, target>>

(* Read mode, a failed editor, or no push: the thread ends after its pull. *)
Quit(c) ==
    /\ pc[c] = "edit"
    /\ Goto(c, "done")
    /\ UNCHANGED <<server, events, losses, kind, count, lock_name,
                   lock_acquired, pmutex, target>>

(* The process dies at any point. *)
Crash(c) ==
    /\ pc[c] \notin {"done", "closed"}
    /\ Goto(c, "done")
    /\ UNCHANGED <<server, events, losses, kind, count, lock_name,
                   lock_acquired, pmutex, target>>

(* ZooKeeper ends the session of a process that is over: its ephemeral     *)
(* znodes go, and so do its watches and the calls on their way to it.      *)
SessionEnd(c) ==
    /\ pc[c] = "done"
    /\ znodes' = znodes \ OwnedBy(c)
    /\ LET hit == {w \in watches : \E z \in OwnedBy(c) : z.seq = w.seq}
       IN  /\ watches' = {w \in watches \ hit : w.client # c}
           /\ fired' = {w \in fired \cup hit : w.client # c}
    /\ rewatch' = {w \in rewatch : w.client # c}
    /\ Goto(c, "closed")
    /\ UNCHANGED <<nextSeq, parent, losses, kind, count, lock_name,
                   lock_acquired, pmutex, target>>

-----------------------------------------------------------------------------
(* watcher: the callback of a deletion event, on the ZooKeeper thread *)

Idle(c) == \A w \in rewatch : w.client # c

(* The event of a context that is gone reads a dead stack frame, and       *)
(* touches no znode.                                                       *)
WatcherDangling(w) ==
    /\ Idle(w.client)
    /\ ~ContextLive(w.client, w.kind)
    /\ fired' = fired \ {w}
    /\ UNCHANGED <<server, rewatch, losses, client>>

WatcherTrusts(w) ==      \* fault: the event alone is taken for the lock
    /\ Idle(w.client)
    /\ ContextLive(w.client, w.kind)
    /\ fired' = fired \ {w}
    /\ lock_acquired' = [lock_acquired EXCEPT ![w.client] = TRUE]
    /\ pmutex' = [pmutex EXCEPT ![w.client] = FALSE]
    /\ UNCHANGED <<server, rewatch, losses, pc, kind, count, lock_name, target>>

(* The eligibility test again, on the znode that lock_name now names.      *)
WatcherChildren(w) ==
    LET c == w.client IN
    /\ Idle(c)
    /\ ContextLive(c, w.kind)
    /\ fired' = fired \ {w}
    /\ lock_acquired' = [lock_acquired EXCEPT ![c] = Eligible(c)]
    /\ \/ /\ Eligible(c)
          /\ pmutex' = [pmutex EXCEPT ![c] = FALSE]
          /\ UNCHANGED rewatch
       \/ /\ ~Eligible(c)
          /\ rewatch' = rewatch \cup
                {[client |-> c, kind |-> w.kind, seq |-> s] : s \in NextSmallestSeq(c)}
          /\ UNCHANGED pmutex
    /\ UNCHANGED <<server, losses, pc, kind, count, lock_name, target>>

(* get_children fails: nobody watches for this request any more. *)
WatcherLost(w) ==
    /\ Idle(w.client)
    /\ ContextLive(w.client, w.kind)
    /\ Lose
    /\ fired' = fired \ {w}
    /\ pmutex' = [pmutex EXCEPT ![w.client] = @ /\ ~lock_acquired[w.client]]
    /\ UNCHANGED <<server, rewatch, pc, kind, count, lock_name, lock_acquired, target>>

(* zoo_wexists on the new predecessor; its failure is ignored. *)
WatcherWexists(w) ==
    /\ rewatch' = rewatch \ {w}
    /\ watches' = IF Watchable(w.seq) THEN watches \cup {w} ELSE watches
    /\ UNCHANGED <<znodes, nextSeq, parent, fired, losses, client>>

-----------------------------------------------------------------------------
(* A step of the thread itself, which the thread will take if it can.      *)
ThreadStep(c) ==
    \/ BeginPull(c) \/ PathExists(c) \/ PathCreate(c)
    \/ CreateNode(c) \/ CreateLost(c) \/ GetChildren(c) \/ GetChildrenLost(c)
    \/ WatchPredecessor(c) \/ Return(c)
    \/ Leave(c) \/ Release(c) \/ ReleaseLost(c) \/ GiveUp(c)

(* What the user and the environment may do.                               *)
Environment(c) == BeginPush(c) \/ Quit(c) \/ Crash(c) \/ SessionEnd(c)

Watcher ==
    \/ \E w \in fired : WatcherDangling(w) \/ WatcherChildren(w) \/ WatcherLost(w)
    \/ \E w \in rewatch : WatcherWexists(w)

Next ==
    \/ \E c \in Client : ThreadStep(c) \/ Environment(c)
    \/ Watcher

Spec == Init /\ [][Next]_vars

(* Threads are scheduled and ZooKeeper delivers events; neither the user   *)
(* nor a crash is under any obligation.                                    *)
Fairness == WF_vars(Watcher) /\ \A c \in Client : WF_vars(ThreadStep(c))

FairSpec == Spec /\ Fairness

-----------------------------------------------------------------------------
(* Properties *)

TypeOK ==
    /\ znodes \subseteq Znode /\ nextSeq \in Nat /\ parent \in BOOLEAN
    /\ watches \subseteq Watch /\ fired \subseteq Watch /\ rewatch \subseteq Watch
    /\ losses \in Nat
    /\ pc \in [Client -> Location]
    /\ kind \in [Client -> Kind]
    /\ count \in [Client -> Nat]
    /\ lock_name \in [Client -> Nat \cup {NoSeq}]
    /\ lock_acquired \in [Client -> BOOLEAN]
    /\ pmutex \in [Client -> BOOLEAN]
    /\ target \in [Client -> Nat \cup {NoSeq}]

Inside(k) == {c \in Client : pc[c] = "inside" /\ kind[c] = k}

(* No two clients rewrite the file at once (write_offset_update between    *)
(* acquire and release), whatever calls are lost and whoever crashes.      *)
WriterExclusion == \A c, d \in Inside("write") : c = d

(* A writer never runs while a client that asked for the read lock before  *)
(* it asked for the write lock is still copying the file.                  *)
PrecedingReadersDrained ==
    \A w \in Inside("write"), r \in Inside("read") : lock_name[w] < lock_name[r]

(* lock_acquired tells the truth about the queue: a client told that it    *)
(* has the lock is first among the znodes that its lock type must wait for *)
(* and stays so until it releases.                                         *)
FlagSound ==
    \A c \in Client :
        pc[c] \in {"watch", "check", "inside"} /\ lock_acquired[c] => Eligible(c)

(* A pull that met no lost call leaves no znode behind: its first attempt  *)
(* is granted and its release deletes that znode.                          *)
PullLeavesNothing ==
    \A c \in Client : pc[c] = "edit" /\ losses = 0 /\ ~FullPaths => OwnedBy(c) = {}

(* Every acquisition ends, in the file or in failure: retries are bounded  *)
(* and no client waits for ever on another one's znode or on its own.      *)
AttemptEnds ==
    \A c \in Client : pc[c] \in Acquiring ~> pc[c] \notin Acquiring

(* The request of a client that has the lock.                              *)
Request(c) == [seq |-> lock_name[c], kind |-> kind[c], owner |-> c]

(* The znodes are the line of LockQueue.  Between the listing on which a   *)
(* writer decides and its entry the queue may change in any way, and calls *)
(* may be lost: still a writer enters only as the first of all requests    *)
(* that exist when it enters, forgotten ones included, and no release,     *)
(* retried or not, deletes the znode of somebody who is inside.            *)
Queue == INSTANCE LockQueue WITH
    line <- znodes, number <- nextSeq,
    inside <- {Request(c) : c \in {d \in Client : pc[d] = "inside"}}

QueueSpec == Queue!Spec

(* zkclient.c:354-376 filters "write locks" and grants a read lock only if *)
(* no write lock has a smaller sequence number, so that no reader copies   *)
(* the file while a writer that came first rewrites it.                    *)
ReaderWaitsForWriter ==
    \A r \in Inside("read"), w \in Inside("write") : ~(lock_name[w] < lock_name[r])
=============================================================================
