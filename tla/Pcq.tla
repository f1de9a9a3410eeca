--------------------------------- MODULE Pcq ---------------------------------
(***************************************************************************)
(* struct pcq (pcq.h): an array used as a stack, a mutex and two condition *)
(* variables.  A step is what a thread does while it holds the mutex: from *)
(* pthread_mutex_lock or the return of pthread_cond_wait, which holds it   *)
(* again, to the next wait or to the unlock.  pthread_cond_wait may return *)
(* without a signal; main and the threads of file.c are the users.         *)
(***************************************************************************)
EXTENDS Integers, Sequences, FiniteSets

CONSTANTS
    Producer,    \* threads that call pcq_enqueue
    Consumer,    \* threads that call pcq_dequeue
    sz           \* q->sz

ASSUME PcqAssumption ==
    /\ sz \in Nat \ {0}
    /\ IsFiniteSet(Producer) /\ IsFiniteSet(Consumer)
    /\ Producer \cap Consumer = {}

VARIABLES
    q,           \* the array, as far as it is used
    cap,         \* q->cap
    full,        \* the producers in pthread_cond_wait(&q->full)
    empty,       \* the consumers in pthread_cond_wait(&q->empty)
    awake        \* the threads between call and return that do not wait

vars == <<q, cap, full, empty, awake>>

Init == q = <<>> /\ cap = 0 /\ full = {} /\ empty = {} /\ awake = {}

(* pthread_cond_signal: one of the waiting threads, if any, wakes up.      *)
Woken(W) == IF W = {} THEN {{}} ELSE {{t} : t \in W}

Call(t) ==
    /\ t \notin awake \cup full \cup empty
    /\ awake' = awake \cup {t}
    /\ UNCHANGED <<q, cap, full, empty>>

(* while (q->cap == q->sz) *)
\* fault: one more than there is room for
OneTooMany == cap = sz + 1

MustWaitFull == cap = sz

EnqueueWaits(p) ==
    /\ p \in awake \cap Producer
    /\ MustWaitFull
    /\ full' = full \cup {p}
    /\ awake' = awake \ {p}
    /\ UNCHANGED <<q, cap, empty>>

\* fault: a signal only when the queue was empty
SignalWhenEmpty == IF cap = 0 THEN Woken(empty) ELSE {{}}

SignalEmpty == Woken(empty)

Enqueue(p) ==
    /\ p \in awake \cap Producer
    /\ ~MustWaitFull
    /\ q' = Append(q, p)
    /\ cap' = cap + 1
    /\ \E W \in SignalEmpty :
          /\ empty' = empty \ W
          /\ awake' = (awake \ {p}) \cup W
    /\ UNCHANGED full

\* fault: the queue is not looked at again after a wakeup
NoWait == FALSE

(* while (q->cap == 0) *)
MustWaitEmpty == cap = 0

DequeueWaits(c) ==
    /\ c \in awake \cap Consumer
    /\ MustWaitEmpty
    /\ empty' = empty \cup {c}
    /\ awake' = awake \ {c}
    /\ UNCHANGED <<q, cap, full>>

Dequeue(c) ==
    /\ c \in awake \cap Consumer
    /\ ~MustWaitEmpty
    /\ cap' = cap - 1
    /\ q' = SubSeq(q, 1, cap - 1)
    /\ \E W \in Woken(full) :
          /\ full' = full \ W
          /\ awake' = (awake \ {c}) \cup W
    /\ UNCHANGED empty

SpuriousWakeup(t) ==
    /\ t \in full \cup empty
    /\ full' = full \ {t} /\ empty' = empty \ {t}
    /\ awake' = awake \cup {t}
    /\ UNCHANGED <<q, cap>>

Run(t) == EnqueueWaits(t) \/ Enqueue(t) \/ DequeueWaits(t) \/ Dequeue(t)

Next ==
    \E t \in Producer \cup Consumer : Call(t) \/ Run(t) \/ SpuriousWakeup(t)

Spec == Init /\ [][Next]_vars

-----------------------------------------------------------------------------
(* Properties *)

TypeOK ==
    /\ q \in Seq(Producer) /\ cap \in 0..sz /\ cap = Len(q)
    /\ full \subseteq Producer /\ empty \subseteq Consumer
    /\ awake \subseteq Producer \cup Consumer
    /\ awake \cap (full \cup empty) = {}

(* No wakeup is lost: while a consumer waits, there is a consumer awake    *)
(* for every element of the queue, and while a producer waits, there is a  *)
(* producer awake for every free place.                                    *)
WakeupsSuffice ==
    /\ empty # {} => cap <= Cardinality(awake \cap Consumer)
    /\ full # {} => sz - cap <= Cardinality(awake \cap Producer)

(* The monitor implements the stack that FileThreads works with.           *)
Stack == INSTANCE TaskStack WITH Element <- Producer, stack <- q

IsStack == Stack!Spec
=============================================================================
