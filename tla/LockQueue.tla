------------------------------ MODULE LockQueue ------------------------------
(***************************************************************************)
(* The abstract promise of the master lock of one file: the requests stand *)
(* in one line, in the order in which they joined it.  A request to write  *)
(* is granted only to the first in the line, whatever the others are about *)
(* and whether they have been granted or wait.  Nobody is taken out of the *)
(* line while it works on the file, and nobody by another client.          *)
(*                                                                         *)
(* A request to read may be granted anywhere in the line: zkclient.c grants*)
(* it at once (see ReaderWaitsForWriter in MasterLock).                    *)
(***************************************************************************)
EXTENDS Naturals

CONSTANT Client    \* the clients that may open the file

VARIABLES
    line,          \* the requests: number, "read" or "write", and client
    number,        \* what the next request is numbered with
    inside         \* those of them whose clients are at work on the file

vars == <<line, number, inside>>

Init == line = {} /\ number = 0 /\ inside = {}

Join(c, k) ==
    /\ line' = line \cup {[seq |-> number, kind |-> k, owner |-> c]}
    /\ number' = number + 1
    /\ UNCHANGED inside

FirstInLine(r) == \A q \in line : r.seq <= q.seq

Enter(r) ==
    /\ r \in line \ inside
    /\ r.kind = "write" => FirstInLine(r)
    /\ inside' = inside \cup {r}
    /\ UNCHANGED <<line, number>>

(* The request stays in the line until its client withdraws it. *)
Leave(r) ==
    /\ r \in inside
    /\ inside' = inside \ {r}
    /\ UNCHANGED <<line, number>>

Withdraw(c, some) ==
    /\ \A r \in some : r.owner = c /\ r \notin inside
    /\ line' = line \ some
    /\ UNCHANGED <<number, inside>>

Next ==
    \/ \E c \in Client, k \in {"read", "write"} : Join(c, k)
    \/ \E r \in line : Enter(r) \/ Leave(r)
    \/ \E c \in Client, some \in SUBSET line : Withdraw(c, some)

Spec == Init /\ [][Next]_vars
=============================================================================
