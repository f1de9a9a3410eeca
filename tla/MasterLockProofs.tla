-------------------------- MODULE MasterLockProofs ---------------------------
(***************************************************************************)
(* Proofs about the master lock, for every set of clients, every bound on  *)
(* lost calls, and both forms of child names where nothing else is said.   *)
(***************************************************************************)
EXTENDS MasterLock, TLAPS

(* The server numbers children in order and never reuses a number.         *)
Numbering ==
    /\ \A z \in znodes : z.seq < nextSeq
    /\ \A y, z \in znodes : y.seq = z.seq => y = z
    /\ \A c \in Client : lock_name[c] < nextSeq

(* The name in a context is the name of a znode of its own thread, if the  *)
(* znode still exists; so no release deletes the znode of another client.  *)
NameOwner ==
    \A c \in Client : \A z \in znodes : z.seq = lock_name[c] => z.owner = c

(* From its creation to its release the znode of the request exists.       *)
Named == {"children", "watch", "check", "inside"}

OwnNode ==
    \A c \in Client : pc[c] \in Named =>
        \E z \in znodes : z.owner = c /\ z.seq = lock_name[c] /\ z.kind = kind[c]

(* With bare names no watch is ever set, so nobody gets past the           *)
(* eligibility test but by passing it.                                     *)
NoWatchOnBareNames ==
    ~FullPaths =>
        /\ watches = {} /\ fired = {} /\ rewatch = {}
        /\ \A c \in Client : pc[c] \in {"check", "inside"} => lock_acquired[c]

IInv == TypeOK /\ Numbering /\ NameOwner /\ OwnNode /\ FlagSound /\ NoWatchOnBareNames

-----------------------------------------------------------------------------
(* The state variables keep their types: every step of a client, of the    *)
(* server and of the watcher of zkclient.c.                                *)
LEMMA TypeInit == Init => TypeOK
<1> SUFFICES ASSUME Init PROVE TypeOK
  OBVIOUS
<1>1. lock_acquired \in [Client -> BOOLEAN] /\ pmutex \in [Client -> BOOLEAN]
      /\ parent \in BOOLEAN
  BY Zenon DEF Init
<1> QED
  BY <1>1 DEF Init, TypeOK, Kind, Location, Acquiring, NoSeq

LEMMA TypeStep == TypeOK /\ [Next]_vars => TypeOK'
<1> SUFFICES ASSUME TypeOK, [Next]_vars PROVE TypeOK'
  OBVIOUS
<1> USE DEF TypeOK, Kind, Location, Acquiring, Znode, Watch, Attempts, NoSeq, Goto,
            server, events, client
<1>1. ASSUME NEW c \in Client, BeginPull(c) \/ BeginPush(c) PROVE TypeOK'
  <2>1. pmutex' \in [Client -> BOOLEAN]
    BY <1>1, Zenon DEF BeginPull, BeginPush, Begin
  <2> QED BY <1>1, <2>1 DEF BeginPull, BeginPush, Begin
<1>2. ASSUME NEW c \in Client, PathExists(c) PROVE TypeOK'
  BY <1>2, MaxLossAssumption DEF PathExists, PathRound, Lose
<1>3. ASSUME NEW c \in Client, PathCreate(c) PROVE TypeOK'
  <2>1. parent' \in BOOLEAN
    BY <1>3, Zenon DEF PathCreate
  <2>2. PathRound(c, "exists") => pc' \in [Client -> Location] /\ count' \in [Client -> Nat]
    BY DEF PathRound
  <2>3. Lose => losses' \in Nat
    BY MaxLossAssumption DEF Lose
  <2>4. pc' \in [Client -> Location] /\ count' \in [Client -> Nat] /\ losses' \in Nat
    <3>1. CASE Goto(c, "create") /\ count' = [count EXCEPT ![c] = 0] /\ UNCHANGED losses
      BY <3>1
    <3>2. CASE Goto(c, "failed") /\ UNCHANGED <<count, losses>>
      BY <3>2
    <3>3. CASE Lose /\ PathRound(c, "exists")
      BY <3>3, <2>2, <2>3
    <3> QED BY <1>3, <3>1, <3>2, <3>3, Zenon DEF PathCreate
  <2> QED BY <1>3, <2>1, <2>4 DEF PathCreate
<1>4. ASSUME NEW c \in Client, CreateNode(c) PROVE TypeOK'
  BY <1>4 DEF CreateNode, NewNode
<1>5. ASSUME NEW c \in Client, CreateLost(c) PROVE TypeOK'
  BY <1>5, MaxLossAssumption DEF CreateLost, NewNode, Lose, Retry
<1>6. ASSUME NEW c \in Client, GetChildren(c) PROVE TypeOK'
  <2>1. NextSmallestSeq(c) \subseteq Nat
    BY DEF NextSmallestSeq, Smaller, Seen
  <2>2. Eligible(c) \in BOOLEAN
    BY DEF Eligible
  <2> QED BY <1>6, <2>1, <2>2 DEF GetChildren
<1>7. ASSUME NEW c \in Client, GetChildrenLost(c) PROVE TypeOK'
  BY <1>7, MaxLossAssumption DEF GetChildrenLost, Lose, Retry
<1>8. ASSUME NEW c \in Client, WatchPredecessor(c) PROVE TypeOK'
  <2>1. Watchable(target[c]) => target[c] \in Nat
    BY DEF Watchable, Exists
  <2> QED BY <1>8, <2>1 DEF WatchPredecessor, Retry
<1>9. ASSUME NEW c \in Client, Return(c) \/ Leave(c) \/ Quit(c) \/ Crash(c) PROVE TypeOK'
  <2>1. pmutex' \in [Client -> BOOLEAN]
    BY <1>9, Zenon DEF Return, Leave, Quit, Crash
  <2> QED BY <1>9, <2>1 DEF Return, Leave, Quit, Crash
<1>10. ASSUME NEW c \in Client, Release(c) \/ GiveUp(c) PROVE TypeOK'
  BY <1>10 DEF Release, Deleting, GiveUp, DeleteNode, Deleted, AfterRelease
<1>11. ASSUME NEW c \in Client, ReleaseLost(c) PROVE TypeOK'
  BY <1>11, MaxLossAssumption DEF ReleaseLost, Deleting, DeleteNode, Deleted, AfterRelease, Lose
<1>12. ASSUME NEW c \in Client, SessionEnd(c) PROVE TypeOK'
  BY <1>12 DEF SessionEnd, OwnedBy
<1>13. ASSUME NEW w \in fired, WatcherDangling(w) PROVE TypeOK'
  BY <1>13 DEF WatcherDangling
<1>14. ASSUME NEW w \in fired, WatcherChildren(w) PROVE TypeOK'
  <2> DEFINE c == w.client
  <2>1. c \in Client /\ w.kind \in Kind
    OBVIOUS
  <2>2. NextSmallestSeq(c) \subseteq Nat
    BY DEF NextSmallestSeq, Smaller, Seen
  <2>3. {[client |-> c, kind |-> w.kind, seq |-> s] : s \in NextSmallestSeq(c)} \subseteq Watch
    BY <2>1, <2>2
  <2>4. Eligible(c) \in BOOLEAN
    BY DEF Eligible
  <2> QED BY <1>14, <2>1, <2>3, <2>4 DEF WatcherChildren
<1>15. ASSUME NEW w \in fired, WatcherLost(w) PROVE TypeOK'
  BY <1>15, MaxLossAssumption DEF WatcherLost, Lose
<1>16. ASSUME NEW w \in rewatch, WatcherWexists(w) PROVE TypeOK'
  BY <1>16 DEF WatcherWexists
<1>17. ASSUME UNCHANGED vars PROVE TypeOK'
  BY <1>17 DEF vars
<1> QED
  BY <1>1, <1>2, <1>3, <1>4, <1>5, <1>6, <1>7, <1>8, <1>9, <1>10, <1>11, <1>12,
     <1>13, <1>14, <1>15, <1>16, <1>17
     DEF Next, ThreadStep, Environment, Watcher

-----------------------------------------------------------------------------
LEMMA IndInit == Init => IInv
  BY TypeInit DEF Init, IInv, Numbering, NameOwner, OwnNode, Named, FlagSound,
                  NoWatchOnBareNames, NoSeq

LEMMA NumberingStep == IInv /\ [Next]_vars => Numbering'
<1> SUFFICES ASSUME IInv, [Next]_vars PROVE Numbering'
  OBVIOUS
<1> USE DEF IInv, TypeOK, Numbering, NameOwner, Numbering, Znode, Watch, Goto, NoSeq,
            server, events, client
<1>1. ASSUME NEW c \in Client, BeginPull(c) \/ BeginPush(c) PROVE Numbering'
  BY <1>1 DEF BeginPull, BeginPush, Begin
<1>2. ASSUME NEW c \in Client, PathExists(c) PROVE Numbering'
  BY <1>2 DEF PathExists, PathRound, Lose
<1>3. ASSUME NEW c \in Client, PathCreate(c) PROVE Numbering'
  BY <1>3 DEF PathCreate, PathRound, Lose
<1>4. ASSUME NEW c \in Client, CreateNode(c) PROVE Numbering'
  BY <1>4 DEF CreateNode, NewNode
<1>5. ASSUME NEW c \in Client, CreateLost(c) PROVE Numbering'
  BY <1>5 DEF CreateLost, NewNode, Retry
<1>6. ASSUME NEW c \in Client, GetChildren(c) PROVE Numbering'
  BY <1>6 DEF GetChildren
<1>7. ASSUME NEW c \in Client, GetChildrenLost(c) PROVE Numbering'
  BY <1>7 DEF GetChildrenLost, Retry
<1>8. ASSUME NEW c \in Client, WatchPredecessor(c) PROVE Numbering'
  BY <1>8 DEF WatchPredecessor, Retry, Watchable
<1>9. ASSUME NEW c \in Client, Return(c) \/ Leave(c) \/ Quit(c) \/ Crash(c) PROVE Numbering'
  BY <1>9 DEF Return, Leave, Quit, Crash
<1>10. ASSUME NEW c \in Client, Release(c) \/ GiveUp(c) PROVE Numbering'
  BY <1>10 DEF Release, Deleting, GiveUp, DeleteNode, Deleted, AfterRelease
<1>11. ASSUME NEW c \in Client, ReleaseLost(c) PROVE Numbering'
  BY <1>11 DEF ReleaseLost, Deleting, DeleteNode, Deleted, AfterRelease
<1>12. ASSUME NEW c \in Client, SessionEnd(c) PROVE Numbering'
  BY <1>12 DEF SessionEnd, OwnedBy
<1>13. ASSUME NEW w \in fired, WatcherDangling(w) PROVE Numbering'
  BY <1>13 DEF WatcherDangling
<1>14. ASSUME NEW w \in fired, WatcherChildren(w) PROVE Numbering'
  BY <1>14 DEF WatcherChildren
<1>15. ASSUME NEW w \in fired, WatcherLost(w) PROVE Numbering'
  BY <1>15 DEF WatcherLost
<1>16. ASSUME NEW w \in rewatch, WatcherWexists(w) PROVE Numbering'
  BY <1>16 DEF WatcherWexists
<1>17. ASSUME UNCHANGED vars PROVE Numbering'
  BY <1>17 DEF vars
<1> QED
  BY <1>1, <1>2, <1>3, <1>4, <1>5, <1>6, <1>7, <1>8, <1>9, <1>10, <1>11, <1>12,
     <1>13, <1>14, <1>15, <1>16, <1>17
     DEF Next, ThreadStep, Environment, Watcher

LEMMA NameOwnerStep == IInv /\ [Next]_vars => NameOwner'
<1> SUFFICES ASSUME IInv, [Next]_vars PROVE NameOwner'
  OBVIOUS
<1> USE DEF IInv, TypeOK, Numbering, NameOwner, NameOwner, Znode, Watch, Goto, NoSeq,
            server, events, client
<1>1. ASSUME NEW c \in Client, BeginPull(c) \/ BeginPush(c) PROVE NameOwner'
  BY <1>1 DEF BeginPull, BeginPush, Begin
<1>2. ASSUME NEW c \in Client, PathExists(c) PROVE NameOwner'
  BY <1>2 DEF PathExists, PathRound, Lose
<1>3. ASSUME NEW c \in Client, PathCreate(c) PROVE NameOwner'
  BY <1>3 DEF PathCreate, PathRound, Lose
<1>4. ASSUME NEW c \in Client, CreateNode(c) PROVE NameOwner'
  BY <1>4 DEF CreateNode, NewNode
<1>5. ASSUME NEW c \in Client, CreateLost(c) PROVE NameOwner'
  BY <1>5 DEF CreateLost, NewNode, Retry
<1>6. ASSUME NEW c \in Client, GetChildren(c) PROVE NameOwner'
  BY <1>6 DEF GetChildren
<1>7. ASSUME NEW c \in Client, GetChildrenLost(c) PROVE NameOwner'
  BY <1>7 DEF GetChildrenLost, Retry
<1>8. ASSUME NEW c \in Client, WatchPredecessor(c) PROVE NameOwner'
  BY <1>8 DEF WatchPredecessor, Retry, Watchable
<1>9. ASSUME NEW c \in Client, Return(c) \/ Leave(c) \/ Quit(c) \/ Crash(c) PROVE NameOwner'
  BY <1>9 DEF Return, Leave, Quit, Crash
<1>10. ASSUME NEW c \in Client, Release(c) \/ GiveUp(c) PROVE NameOwner'
  BY <1>10 DEF Release, Deleting, GiveUp, DeleteNode, Deleted, AfterRelease
<1>11. ASSUME NEW c \in Client, ReleaseLost(c) PROVE NameOwner'
  BY <1>11 DEF ReleaseLost, Deleting, DeleteNode, Deleted, AfterRelease
<1>12. ASSUME NEW c \in Client, SessionEnd(c) PROVE NameOwner'
  BY <1>12 DEF SessionEnd, OwnedBy
<1>13. ASSUME NEW w \in fired, WatcherDangling(w) PROVE NameOwner'
  BY <1>13 DEF WatcherDangling
<1>14. ASSUME NEW w \in fired, WatcherChildren(w) PROVE NameOwner'
  BY <1>14 DEF WatcherChildren
<1>15. ASSUME NEW w \in fired, WatcherLost(w) PROVE NameOwner'
  BY <1>15 DEF WatcherLost
<1>16. ASSUME NEW w \in rewatch, WatcherWexists(w) PROVE NameOwner'
  BY <1>16 DEF WatcherWexists
<1>17. ASSUME UNCHANGED vars PROVE NameOwner'
  BY <1>17 DEF vars
<1> QED
  BY <1>1, <1>2, <1>3, <1>4, <1>5, <1>6, <1>7, <1>8, <1>9, <1>10, <1>11, <1>12,
     <1>13, <1>14, <1>15, <1>16, <1>17
     DEF Next, ThreadStep, Environment, Watcher

LEMMA OwnNodeStep == IInv /\ [Next]_vars => OwnNode'
<1> SUFFICES ASSUME IInv, [Next]_vars PROVE OwnNode'
  OBVIOUS
<1> USE DEF IInv, TypeOK, Numbering, NameOwner, OwnNode, Named, Znode, Watch, Goto, NoSeq,
            server, events, client
<1>1. ASSUME NEW c \in Client, BeginPull(c) \/ BeginPush(c) PROVE OwnNode'
  BY <1>1 DEF BeginPull, BeginPush, Begin
<1>2. ASSUME NEW c \in Client, PathExists(c) PROVE OwnNode'
  BY <1>2 DEF PathExists, PathRound, Lose
<1>3. ASSUME NEW c \in Client, PathCreate(c) PROVE OwnNode'
  BY <1>3, ZenonT(60) DEF PathCreate, PathRound, Lose
<1>4. ASSUME NEW c \in Client, CreateNode(c) PROVE OwnNode'
  <2> DEFINE new == [seq |-> nextSeq, kind |-> kind[c], owner |-> c]
  <2>1. new \in znodes' /\ new.owner = c /\ new.seq = lock_name'[c] /\ new.kind = kind'[c]
    BY <1>4 DEF CreateNode, NewNode
  <2>2. ASSUME NEW d \in Client, d # c, pc'[d] \in Named
        PROVE  \E z \in znodes' : z.owner = d /\ z.seq = lock_name'[d] /\ z.kind = kind'[d]
    BY <1>4, <2>2 DEF CreateNode, NewNode
  <2> HIDE DEF new
  <2> QED BY <2>1, <2>2
<1>5. ASSUME NEW c \in Client, CreateLost(c) PROVE OwnNode'
  BY <1>5 DEF CreateLost, NewNode, Retry
<1>6. ASSUME NEW c \in Client, GetChildren(c) PROVE OwnNode'
  BY <1>6 DEF GetChildren
<1>7. ASSUME NEW c \in Client, GetChildrenLost(c) PROVE OwnNode'
  BY <1>7 DEF GetChildrenLost, Retry
<1>8. ASSUME NEW c \in Client, WatchPredecessor(c) PROVE OwnNode'
  BY <1>8 DEF WatchPredecessor, Retry, Watchable
<1>9. ASSUME NEW c \in Client, Return(c) \/ Leave(c) \/ Quit(c) \/ Crash(c) PROVE OwnNode'
  BY <1>9 DEF Return, Leave, Quit, Crash
<1>10. ASSUME NEW c \in Client, Release(c) \/ GiveUp(c) PROVE OwnNode'
  BY <1>10 DEF Release, Deleting, GiveUp, DeleteNode, Deleted, AfterRelease
<1>11. ASSUME NEW c \in Client, ReleaseLost(c) PROVE OwnNode'
  BY <1>11 DEF ReleaseLost, Deleting, DeleteNode, Deleted, AfterRelease
<1>12. ASSUME NEW c \in Client, SessionEnd(c) PROVE OwnNode'
  BY <1>12 DEF SessionEnd, OwnedBy
<1>13. ASSUME NEW w \in fired, WatcherDangling(w) PROVE OwnNode'
  BY <1>13 DEF WatcherDangling
<1>14. ASSUME NEW w \in fired, WatcherChildren(w) PROVE OwnNode'
  BY <1>14 DEF WatcherChildren
<1>15. ASSUME NEW w \in fired, WatcherLost(w) PROVE OwnNode'
  BY <1>15 DEF WatcherLost
<1>16. ASSUME NEW w \in rewatch, WatcherWexists(w) PROVE OwnNode'
  BY <1>16 DEF WatcherWexists
<1>17. ASSUME UNCHANGED vars PROVE OwnNode'
  BY <1>17 DEF vars
<1> QED
  BY <1>1, <1>2, <1>3, <1>4, <1>5, <1>6, <1>7, <1>8, <1>9, <1>10, <1>11, <1>12,
     <1>13, <1>14, <1>15, <1>16, <1>17
     DEF Next, ThreadStep, Environment, Watcher

LEMMA FlagSoundStep == IInv /\ [Next]_vars => FlagSound'
<1> SUFFICES ASSUME IInv, [Next]_vars PROVE FlagSound'
  OBVIOUS
<1> USE DEF IInv, TypeOK, Numbering, NameOwner, FlagSound, Eligible, Seen, Znode, Watch, Goto, NoSeq,
            server, events, client
<1>1. ASSUME NEW c \in Client, BeginPull(c) \/ BeginPush(c) PROVE FlagSound'
  BY <1>1 DEF BeginPull, BeginPush, Begin
<1>2. ASSUME NEW c \in Client, PathExists(c) PROVE FlagSound'
  BY <1>2 DEF PathExists, PathRound, Lose
<1>3. ASSUME NEW c \in Client, PathCreate(c) PROVE FlagSound'
  BY <1>3 DEF PathCreate, PathRound, Lose
<1>4. ASSUME NEW c \in Client, CreateNode(c) PROVE FlagSound'
  BY <1>4 DEF CreateNode, NewNode
<1>5. ASSUME NEW c \in Client, CreateLost(c) PROVE FlagSound'
  BY <1>5 DEF CreateLost, NewNode, Retry
<1>6. ASSUME NEW c \in Client, GetChildren(c) PROVE FlagSound'
  BY <1>6 DEF GetChildren
<1>7. ASSUME NEW c \in Client, GetChildrenLost(c) PROVE FlagSound'
  BY <1>7 DEF GetChildrenLost, Retry
<1>8. ASSUME NEW c \in Client, WatchPredecessor(c) PROVE FlagSound'
  BY <1>8 DEF WatchPredecessor, Retry, Watchable
<1>9. ASSUME NEW c \in Client, Return(c) \/ Leave(c) \/ Quit(c) \/ Crash(c) PROVE FlagSound'
  BY <1>9 DEF Return, Leave, Quit, Crash
<1>10. ASSUME NEW c \in Client, Release(c) \/ GiveUp(c) PROVE FlagSound'
  BY <1>10 DEF Release, Deleting, GiveUp, DeleteNode, Deleted, AfterRelease
<1>11. ASSUME NEW c \in Client, ReleaseLost(c) PROVE FlagSound'
  BY <1>11 DEF ReleaseLost, Deleting, DeleteNode, Deleted, AfterRelease
<1>12. ASSUME NEW c \in Client, SessionEnd(c) PROVE FlagSound'
  BY <1>12 DEF SessionEnd, OwnedBy
<1>13. ASSUME NEW w \in fired, WatcherDangling(w) PROVE FlagSound'
  BY <1>13 DEF WatcherDangling
<1>14. ASSUME NEW w \in fired, WatcherChildren(w) PROVE FlagSound'
  BY <1>14 DEF WatcherChildren
<1>15. ASSUME NEW w \in fired, WatcherLost(w) PROVE FlagSound'
  BY <1>15 DEF WatcherLost
<1>16. ASSUME NEW w \in rewatch, WatcherWexists(w) PROVE FlagSound'
  BY <1>16 DEF WatcherWexists
<1>17. ASSUME UNCHANGED vars PROVE FlagSound'
  BY <1>17 DEF vars
<1> QED
  BY <1>1, <1>2, <1>3, <1>4, <1>5, <1>6, <1>7, <1>8, <1>9, <1>10, <1>11, <1>12,
     <1>13, <1>14, <1>15, <1>16, <1>17
     DEF Next, ThreadStep, Environment, Watcher

LEMMA NoWatchOnBareNamesStep == IInv /\ [Next]_vars => NoWatchOnBareNames'
<1> SUFFICES ASSUME IInv, [Next]_vars PROVE NoWatchOnBareNames'
  OBVIOUS
<1> USE DEF IInv, TypeOK, Numbering, NameOwner, NoWatchOnBareNames, Znode, Watch, Goto, NoSeq,
            server, events, client
<1>1. ASSUME NEW c \in Client, BeginPull(c) \/ BeginPush(c) PROVE NoWatchOnBareNames'
  BY <1>1 DEF BeginPull, BeginPush, Begin
<1>2. ASSUME NEW c \in Client, PathExists(c) PROVE NoWatchOnBareNames'
  BY <1>2 DEF PathExists, PathRound, Lose
<1>3. ASSUME NEW c \in Client, PathCreate(c) PROVE NoWatchOnBareNames'
  BY <1>3 DEF PathCreate, PathRound, Lose
<1>4. ASSUME NEW c \in Client, CreateNode(c) PROVE NoWatchOnBareNames'
  BY <1>4 DEF CreateNode, NewNode
<1>5. ASSUME NEW c \in Client, CreateLost(c) PROVE NoWatchOnBareNames'
  BY <1>5 DEF CreateLost, NewNode, Retry
<1>6. ASSUME NEW c \in Client, GetChildren(c) PROVE NoWatchOnBareNames'
  BY <1>6 DEF GetChildren
<1>7. ASSUME NEW c \in Client, GetChildrenLost(c) PROVE NoWatchOnBareNames'
  BY <1>7 DEF GetChildrenLost, Retry
<1>8. ASSUME NEW c \in Client, WatchPredecessor(c) PROVE NoWatchOnBareNames'
  BY <1>8 DEF WatchPredecessor, Retry, Watchable
<1>9. ASSUME NEW c \in Client, Return(c) \/ Leave(c) \/ Quit(c) \/ Crash(c) PROVE NoWatchOnBareNames'
  BY <1>9 DEF Return, Leave, Quit, Crash
<1>10. ASSUME NEW c \in Client, Release(c) \/ GiveUp(c) PROVE NoWatchOnBareNames'
  BY <1>10 DEF Release, Deleting, GiveUp, DeleteNode, Deleted, AfterRelease
<1>11. ASSUME NEW c \in Client, ReleaseLost(c) PROVE NoWatchOnBareNames'
  BY <1>11 DEF ReleaseLost, Deleting, DeleteNode, Deleted, AfterRelease
<1>12. ASSUME NEW c \in Client, SessionEnd(c) PROVE NoWatchOnBareNames'
  BY <1>12 DEF SessionEnd, OwnedBy
<1>13. ASSUME NEW w \in fired, WatcherDangling(w) PROVE NoWatchOnBareNames'
  BY <1>13 DEF WatcherDangling
<1>14. ASSUME NEW w \in fired, WatcherChildren(w) PROVE NoWatchOnBareNames'
  BY <1>14 DEF WatcherChildren
<1>15. ASSUME NEW w \in fired, WatcherLost(w) PROVE NoWatchOnBareNames'
  BY <1>15 DEF WatcherLost
<1>16. ASSUME NEW w \in rewatch, WatcherWexists(w) PROVE NoWatchOnBareNames'
  BY <1>16 DEF WatcherWexists
<1>17. ASSUME UNCHANGED vars PROVE NoWatchOnBareNames'
  BY <1>17 DEF vars
<1> QED
  BY <1>1, <1>2, <1>3, <1>4, <1>5, <1>6, <1>7, <1>8, <1>9, <1>10, <1>11, <1>12,
     <1>13, <1>14, <1>15, <1>16, <1>17
     DEF Next, ThreadStep, Environment, Watcher

LEMMA Inductive == Spec => []IInv
<1>1. IInv /\ [Next]_vars => IInv'
  BY TypeStep, NumberingStep, NameOwnerStep, OwnNodeStep, FlagSoundStep,
     NoWatchOnBareNamesStep DEF IInv
<1> QED BY IndInit, <1>1, PTL DEF Spec

(* Type correctness of the master lock (zkclient.c:47-444).                *)
THEOREM TypeCorrect == Spec => []TypeOK
<1>1. IInv => TypeOK
  BY DEF IInv
<1> QED BY Inductive, <1>1, PTL

(* lock_acquired never lies, with either form of child names and whatever  *)
(* calls are lost (the eligibility tests of zkclient.c:337-444 and the     *)
(* watcher that repeats them).                                             *)
THEOREM FlagIsSound == Spec => []FlagSound
<1>1. IInv => FlagSound
  BY DEF IInv
<1> QED BY Inductive, <1>1, PTL

(* Two requests that are both first in line are the same request.          *)
LEMMA FirstIsUnique ==
  ASSUME IInv, ~FullPaths,
         NEW c \in Client, NEW d \in Client, c \in Inside("write"), pc[d] = "inside", c # d
  PROVE  lock_name[c] < lock_name[d] /\ kind[d] = "read"
<1>1. PICK y \in znodes : y.owner = c /\ y.seq = lock_name[c]
  BY DEF IInv, OwnNode, Named, Inside
<1>2. PICK z \in znodes : z.owner = d /\ z.seq = lock_name[d]
  BY DEF IInv, OwnNode, Named
<1>3. y.seq \in Nat /\ z.seq \in Nat
  BY DEF IInv, TypeOK, Znode
<1>4. lock_name[c] <= lock_name[d]
  BY <1>2, <1>3 DEF IInv, NoWatchOnBareNames, FlagSound, Inside, Eligible, Seen
<1>5. lock_name[c] # lock_name[d]
  BY <1>1, <1>2 DEF IInv, NameOwner
<1>6. kind[d] = "write" => lock_name[d] <= lock_name[c]
  BY <1>1, <1>3 DEF IInv, NoWatchOnBareNames, FlagSound, Eligible, Seen
<1>7. kind[d] \in Kind
  BY DEF IInv, TypeOK
<1> QED BY <1>1, <1>2, <1>3, <1>4, <1>5, <1>6, <1>7 DEF Kind

LEMMA Exclusion == IInv /\ ~FullPaths => WriterExclusion
  BY FirstIsUnique DEF WriterExclusion, Inside

(* Two clients never rewrite the file at once, with the names that         *)
(* ZooKeeper really returns.                                               *)
THEOREM WritersExclude == ASSUME ~FullPaths PROVE Spec => []WriterExclusion
<1>1. IInv => WriterExclusion
  BY Exclusion
<1> QED BY Inductive, <1>1, PTL

(* A writer never overtakes a reader that asked before it.                 *)
THEOREM ReadersDrainFirst == ASSUME ~FullPaths PROVE Spec => []PrecedingReadersDrained
<1>1. IInv => PrecedingReadersDrained
  BY FirstIsUnique DEF PrecedingReadersDrained, Inside
<1> QED BY Inductive, <1>1, PTL

-----------------------------------------------------------------------------
(* A pull that meets no lost call.                                         *)

(* Its request is granted at once, and its znode has the name that the     *)
(* release deletes.                                                        *)
Pulling == {"start", "exists", "mkpath", "create", "edit"}

PullInv ==
    ~FullPaths /\ losses = 0 =>
        \A c \in Client :
            /\ pc[c] \in {"start", "edit"} => kind[c] = "read"
            /\ kind[c] = "read" /\ pc[c] \in Pulling => OwnedBy(c) = {}
            /\ kind[c] = "read" /\ pc[c] \in {"children", "check", "inside", "release"} =>
                   \A z \in OwnedBy(c) : z.seq = lock_name[c]
            /\ kind[c] = "read" => pc[c] # "watch"

LEMMA PullStep ==
  ASSUME IInv, PullInv, [Next]_vars PROVE PullInv'
<1> USE DEF IInv, TypeOK, Znode, Watch, Goto, PullInv, Pulling, OwnedBy, server, events, client
<1>0. losses \in Nat /\ losses + 1 # 0
  OBVIOUS
<1>1. ASSUME NEW c \in Client, BeginPull(c) \/ BeginPush(c) PROVE PullInv'
  BY <1>0, <1>1 DEF BeginPull, BeginPush, Begin
<1>2. ASSUME NEW c \in Client, PathExists(c) PROVE PullInv'
  BY <1>0, <1>2 DEF PathExists, PathRound, Lose
<1>3. ASSUME NEW c \in Client, PathCreate(c) PROVE PullInv'
  BY <1>0, <1>3, ZenonT(60) DEF PathCreate, PathRound, Lose
<1>4. ASSUME NEW c \in Client, CreateNode(c) PROVE PullInv'
  BY <1>0, <1>4 DEF CreateNode, NewNode
<1>5. ASSUME NEW c \in Client, CreateLost(c) PROVE PullInv'
  BY <1>0, <1>5 DEF CreateLost, Lose
<1>6. ASSUME NEW c \in Client, GetChildren(c) PROVE PullInv'
  BY <1>0, <1>6 DEF GetChildren, Eligible, Seen
<1>7. ASSUME NEW c \in Client, GetChildrenLost(c) PROVE PullInv'
  BY <1>0, <1>7 DEF GetChildrenLost, Lose
<1>8. ASSUME NEW c \in Client, WatchPredecessor(c) PROVE PullInv'
  BY <1>0, <1>8 DEF WatchPredecessor, Retry
<1>9. ASSUME NEW c \in Client, Return(c) \/ Leave(c) \/ Quit(c) \/ Crash(c) PROVE PullInv'
  BY <1>0, <1>9 DEF Return, Leave, Quit, Crash
<1>10. ASSUME NEW c \in Client, Release(c) \/ GiveUp(c) PROVE PullInv'
  BY <1>0, <1>10 DEF Release, Deleting, GiveUp, DeleteNode, AfterRelease
<1>11. ASSUME NEW c \in Client, ReleaseLost(c) PROVE PullInv'
  BY <1>0, <1>11 DEF ReleaseLost, Deleting, Lose
<1>12. ASSUME NEW c \in Client, SessionEnd(c) PROVE PullInv'
  BY <1>0, <1>12 DEF SessionEnd
<1>13. ASSUME NEW w \in fired, WatcherDangling(w) PROVE PullInv'
  BY <1>0, <1>13 DEF WatcherDangling
<1>14. ASSUME NEW w \in fired, WatcherChildren(w) PROVE PullInv'
  BY <1>0, <1>14 DEF WatcherChildren
<1>15. ASSUME NEW w \in fired, WatcherLost(w) PROVE PullInv'
  BY <1>0, <1>15 DEF WatcherLost, Lose
<1>16. ASSUME NEW w \in rewatch, WatcherWexists(w) PROVE PullInv'
  BY <1>0, <1>16 DEF WatcherWexists
<1>17. ASSUME UNCHANGED vars PROVE PullInv'
  BY <1>17 DEF vars
<1> QED
  BY <1>1, <1>2, <1>3, <1>4, <1>5, <1>6, <1>7, <1>8, <1>9, <1>10, <1>11, <1>12,
     <1>13, <1>14, <1>15, <1>16, <1>17
     DEF Next, ThreadStep, Environment, Watcher

(* With the names that ZooKeeper returns, a pull that met no lost call     *)
(* leaves nothing for its later push to wait for (zkclient.c:337-397, 489).*)
THEOREM PullsLeaveNothing == Spec => []PullLeavesNothing
<1>1. Init => PullInv
  BY DEF Init, PullInv, OwnedBy
<1>2. IInv /\ PullInv /\ [Next]_vars => PullInv'
  BY PullStep
<1>3. PullInv => PullLeavesNothing
  BY DEF PullInv, Pulling, PullLeavesNothing
<1> QED BY Inductive, <1>1, <1>2, <1>3, PTL DEF Spec

-----------------------------------------------------------------------------
(* The line of LockQueue.                                                  *)

Working == {Request(c) : c \in {d \in Client : pc[d] = "inside"}}

(* From its creation on the request is in the line as it was made.         *)
LEMMA InLine ==
  ASSUME IInv, NEW c \in Client, pc[c] \in Named
  PROVE  Request(c) \in znodes
<1>1. PICK z \in znodes : z.owner = c /\ z.seq = lock_name[c] /\ z.kind = kind[c]
  BY DEF IInv, OwnNode
<1>2. z = Request(c)
  BY <1>1 DEF IInv, TypeOK, Znode, Request
<1> QED BY <1>2

(* What a step must leave alone to leave alone who is at work.             *)
LEMMA WorkingKept ==
  ASSUME \A d \in Client : pc'[d] = "inside" <=> pc[d] = "inside",
         \A d \in Client : pc[d] = "inside" =>
             lock_name'[d] = lock_name[d] /\ kind'[d] = kind[d]
  PROVE  Working' = Working
<1>1. \A d \in Client : pc[d] = "inside" => Request(d)' = Request(d)
  BY DEF Request
<1> QED BY <1>1 DEF Working

(* Only Return lets a client in, and a writer only as the first in line.   *)
LEMMA QueueEnter ==
  ASSUME IInv, ~FullPaths, NEW c \in Client, Return(c)
  PROVE  \E q \in znodes : Queue!Enter(q)
<1> USE DEF IInv, TypeOK, Goto
<1>1. pc[c] = "check" /\ pc' = [pc EXCEPT ![c] = "inside"]
      /\ UNCHANGED <<znodes, nextSeq, lock_name, kind>>
  BY DEF Return, server
<1>2. Request(c) \in znodes
  BY <1>1, InLine DEF Named
<1>3. Request(c) \notin Working
  BY <1>1 DEF Working, Request
<1>4. Working' = Working \cup {Request(c)}
  <2>1. \A d \in Client : Request(d)' = Request(d)
    BY <1>1 DEF Request
  <2>2. \A d \in Client : pc'[d] = "inside" <=> pc[d] = "inside" \/ d = c
    BY <1>1
  <2> QED BY <2>1, <2>2 DEF Working
<1>5. kind[c] = "write" => \A z \in znodes : lock_name[c] <= z.seq
  BY <1>1 DEF NoWatchOnBareNames, FlagSound, Eligible, Seen, Znode
<1>6. Request(c).kind = "write" => \A z \in znodes : Request(c).seq <= z.seq
  BY <1>5 DEF Request
<1> QED BY <1>1, <1>2, <1>3, <1>4, <1>6 DEF Queue!Enter, Queue!FirstInLine, Working

LEMMA QueueLeave ==
  ASSUME IInv, NEW c \in Client, Leave(c) \/ Crash(c)
  PROVE  Working' = Working \/ \E q \in znodes : Queue!Leave(q)
<1> USE DEF IInv, TypeOK, Goto
<1>1. UNCHANGED <<znodes, nextSeq, lock_name, kind>>
      /\ \E l \in {"release", "done"} : pc' = [pc EXCEPT ![c] = l]
  BY DEF Leave, Crash, server
<1>2. CASE pc[c] = "inside"
  <2>1. Request(c) \in znodes /\ Request(c) \in Working
    BY <1>2, InLine DEF Named, Working
  <2>2. Working' = Working \ {Request(c)}
    <3>1. \A d \in Client : Request(d)' = Request(d)
      BY <1>1 DEF Request
    <3>2. \A d \in Client : pc'[d] = "inside" <=> pc[d] = "inside" /\ d # c
      BY <1>1
    <3>3. \A d \in Client : Request(d) = Request(c) => d = c
      BY DEF Request
    <3> QED BY <3>1, <3>2, <3>3 DEF Working
  <2> QED BY <1>1, <2>1, <2>2 DEF Queue!Leave, Working
<1>3. CASE pc[c] # "inside"
  BY <1>1, <1>3, WorkingKept
<1> QED BY <1>2, <1>3

(* A client deletes requests of its own only, and none while it is inside. *)
LEMMA QueueWithdraw ==
  ASSUME IInv, NEW c \in Client, pc[c] # "inside",
         NEW some \in SUBSET znodes, \A z \in some : z.owner = c,
         znodes' = znodes \ some, nextSeq' = nextSeq, Working' = Working
  PROVE  Queue!Withdraw(c, some)
<1>1. \A q \in Working : q.owner # c
  BY DEF Working, Request
<1> QED BY <1>1 DEF Queue!Withdraw, Working

LEMMA QueueStep ==
  ASSUME IInv, ~FullPaths, [Next]_vars
  PROVE  [Queue!Next]_(Queue!vars)
<1> USE DEF IInv, TypeOK, Goto, Kind
<1> DEFINE Same == znodes' = znodes /\ nextSeq' = nextSeq /\ Working' = Working
<1>1. ASSUME NEW c \in Client, Return(c) PROVE Queue!Next
  BY <1>1, QueueEnter DEF Queue!Next
<1>2. ASSUME NEW c \in Client, Leave(c) \/ Crash(c) PROVE Same \/ Queue!Next
  BY <1>2, QueueLeave DEF Queue!Next, Leave, Crash, server
<1>3. ASSUME NEW c \in Client, BeginPull(c) \/ BeginPush(c) PROVE Same
  BY <1>3, WorkingKept DEF BeginPull, BeginPush, Begin, server
<1>4. ASSUME NEW c \in Client, PathExists(c) \/ PathCreate(c) PROVE Same
  BY <1>4, WorkingKept DEF PathExists, PathCreate, PathRound, server
<1>5. ASSUME NEW c \in Client, CreateNode(c) \/ CreateLost(c) PROVE Same \/ Queue!Next
  <2>1. Working' = Working
    BY <1>5, WorkingKept DEF CreateNode, CreateLost, Retry
  <2>2. NewNode(c) => Queue!Join(c, kind[c])
    BY <2>1 DEF NewNode, Queue!Join, Working
  <2> QED BY <1>5, <2>1, <2>2 DEF CreateNode, CreateLost, Queue!Next
<1>6. ASSUME NEW c \in Client, GetChildren(c) \/ GetChildrenLost(c) PROVE Same
  BY <1>6, WorkingKept DEF GetChildren, GetChildrenLost, Retry, server
<1>7. ASSUME NEW c \in Client, WatchPredecessor(c) PROVE Same
  BY <1>7, WorkingKept DEF WatchPredecessor, Retry
<1>8. ASSUME NEW c \in Client, Release(c) \/ ReleaseLost(c) PROVE Same \/ Queue!Next
  <2> DEFINE some == {z \in znodes : z.seq = lock_name[c]}
  <2>1. pc[c] # "inside"
    BY <1>8 DEF Release, ReleaseLost, Deleting
  <2>2. Working' = Working
    BY <1>8, WorkingKept DEF Release, ReleaseLost, Deleting, AfterRelease
  <2>3. \A z \in some : z.owner = c
    BY DEF NameOwner
  <2>4. nextSeq' = nextSeq /\ (znodes' = znodes \/ znodes' = znodes \ some)
    BY <1>8 DEF Release, ReleaseLost, DeleteNode
  <2> HIDE DEF some
  <2>5. some \in SUBSET znodes
    BY DEF some
  <2> QED BY <2>1, <2>2, <2>3, <2>4, <2>5, QueueWithdraw DEF Queue!Next
<1>9. ASSUME NEW c \in Client, GiveUp(c) \/ Quit(c) PROVE Same
  BY <1>9, WorkingKept DEF GiveUp, Quit, server
<1>10. ASSUME NEW c \in Client, SessionEnd(c) PROVE Queue!Next
  <2>1. pc[c] # "inside" /\ znodes' = znodes \ OwnedBy(c) /\ nextSeq' = nextSeq
    BY <1>10 DEF SessionEnd
  <2>2. Working' = Working
    BY <1>10, WorkingKept DEF SessionEnd
  <2>3. OwnedBy(c) \in SUBSET znodes /\ \A z \in OwnedBy(c) : z.owner = c
    BY DEF OwnedBy
  <2> QED BY <2>1, <2>2, <2>3, QueueWithdraw DEF Queue!Next
<1>11. ASSUME Watcher PROVE Same
  BY <1>11, WorkingKept
     DEF Watcher, WatcherDangling, WatcherChildren, WatcherLost, WatcherWexists,
         server, client
<1>12. ASSUME UNCHANGED vars PROVE Same
  BY <1>12, WorkingKept DEF vars, server, client
<1>13. Same \/ Queue!Next
  BY <1>1, <1>2, <1>3, <1>4, <1>5, <1>6, <1>7, <1>8, <1>9, <1>10, <1>11, <1>12
     DEF Next, ThreadStep, Environment
<1> QED BY <1>13 DEF Queue!vars, Working

(* The master lock implements the line of LockQueue: a writer is let in    *)
(* only as the first of all requests there are, and nobody's request is    *)
(* deleted while it is inside (zkclient.c:91-149, 394-429).                *)
THEOREM ImplementsQueue == ASSUME ~FullPaths PROVE Spec => QueueSpec
<1>1. Init => Queue!Init
  BY DEF Init, Queue!Init
<1>2. IInv /\ [Next]_vars => [Queue!Next]_(Queue!vars)
  BY QueueStep
<1> QED BY Inductive, <1>1, <1>2, PTL DEF Spec, QueueSpec, Queue!Spec
=============================================================================
