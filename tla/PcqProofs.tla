------------------------------ MODULE PcqProofs ------------------------------
(***************************************************************************)
(* The bounded queue of pcq.h for any numbers of producers and consumers   *)
(* and any size: no wakeup is lost, and its users see a stack.             *)
(***************************************************************************)
EXTENDS Pcq, FiniteSetTheorems, SequenceTheorems, TLAPS

-----------------------------------------------------------------------------
(* A signal takes at most one thread from the waiting ones.                *)
LEMMA WokenOne ==
  ASSUME NEW S, NEW W \in Woken(S)
  PROVE  /\ W \subseteq S
         /\ S # {} => \E t \in S : W = {t}
  BY DEF Woken

LEMMA TypeInit == Init => TypeOK
<1>1. <<>> \in Seq(Producer) /\ Len(<<>>) = 0
  BY EmptySeq
<1> QED BY <1>1, PcqAssumption DEF Init, TypeOK

LEMMA TypeStep == TypeOK /\ [Next]_vars => TypeOK'
<1> SUFFICES ASSUME TypeOK, [Next]_vars PROVE TypeOK'
  OBVIOUS
<1>s. sz \in Nat /\ cap \in Nat /\ cap <= sz
  BY PcqAssumption DEF TypeOK
<1>l. ASSUME NEW t \in Producer \cup Consumer, Call(t) PROVE TypeOK'
  BY <1>l DEF Call, TypeOK
<1>p. ASSUME NEW t \in Producer \cup Consumer, EnqueueWaits(t) PROVE TypeOK'
  BY <1>p, PcqAssumption DEF EnqueueWaits, TypeOK
<1>e. ASSUME NEW t \in Producer \cup Consumer, Enqueue(t) PROVE TypeOK'
  <2>1. PICK W \in Woken(empty) :
           /\ empty' = empty \ W /\ awake' = (awake \ {t}) \cup W
    BY <1>e DEF Enqueue, SignalEmpty
  <2>2. W \subseteq empty
    BY WokenOne
  <2>3. /\ q' = Append(q, t) /\ cap' = cap + 1 /\ full' = full /\ t \in Producer /\ cap # sz
    BY <1>e DEF Enqueue, MustWaitFull
  <2>4. q' \in Seq(Producer) /\ Len(q') = Len(q) + 1
    BY <2>3 DEF TypeOK
  <2>5. cap' \in 0..sz
    BY <1>s, <2>3
  <2>6. awake' \cap (full' \cup empty') = {}
    BY <2>1, <2>2, <2>3, PcqAssumption DEF TypeOK
  <2> QED BY <2>1, <2>2, <2>3, <2>4, <2>5, <2>6 DEF TypeOK
<1>c. ASSUME NEW t \in Producer \cup Consumer, DequeueWaits(t) PROVE TypeOK'
  BY <1>c, PcqAssumption DEF DequeueWaits, TypeOK
<1>d. ASSUME NEW t \in Producer \cup Consumer, Dequeue(t) PROVE TypeOK'
  <2>1. PICK W \in Woken(full) :
           /\ full' = full \ W /\ awake' = (awake \ {t}) \cup W
    BY <1>d DEF Dequeue
  <2>2. W \subseteq full
    BY WokenOne
  <2>3. /\ q' = SubSeq(q, 1, cap - 1) /\ cap' = cap - 1 /\ empty' = empty /\ cap # 0
    BY <1>d DEF Dequeue, MustWaitEmpty
  <2>4. cap' \in 0..sz
    BY <1>s, <2>3
  <2>5. q' \in Seq(Producer) /\ Len(q') = cap'
    <3>1. \A j \in 1 .. cap - 1 : q[j] \in Producer
      BY <1>s, ElementOfSeq DEF TypeOK
    <3>2. /\ SubSeq(q, 1, cap - 1) \in Seq(Producer)
          /\ Len(SubSeq(q, 1, cap - 1)) = IF 1 <= cap - 1 THEN cap - 1 - 1 + 1 ELSE 0
      BY <1>s, <3>1, SubSeqProperties
    <3> QED BY <1>s, <2>3, <3>2
  <2>6. awake' \cap (full' \cup empty') = {}
    BY <2>1, <2>2, <2>3, PcqAssumption DEF TypeOK
  <2> QED BY <2>1, <2>2, <2>3, <2>4, <2>5, <2>6 DEF TypeOK
<1>w. ASSUME NEW t \in Producer \cup Consumer, SpuriousWakeup(t) PROVE TypeOK'
  BY <1>w DEF SpuriousWakeup, TypeOK
<1>y. CASE UNCHANGED vars
  BY <1>y DEF vars, TypeOK
<1> QED BY <1>l, <1>p, <1>e, <1>c, <1>d, <1>w, <1>y DEF Next, Run

(* The counter of pcq.h is the length of its array and stays in bounds.    *)
THEOREM TypeCorrect == Spec => []TypeOK
  BY TypeInit, TypeStep, PTL DEF Spec

-----------------------------------------------------------------------------
(* WakeupsSuffice is inductive by itself: the threads that it counts are   *)
(* those that a signal has made runnable and those that have not yet       *)
(* looked at the queue.                                                    *)

LEMMA AwakeFinite ==
  ASSUME TypeOK
  PROVE  /\ IsFiniteSet(awake \cap Consumer) /\ Cardinality(awake \cap Consumer) \in Nat
         /\ IsFiniteSet(awake \cap Producer) /\ Cardinality(awake \cap Producer) \in Nat
  BY PcqAssumption, FS_Subset, FS_CardinalityType

LEMMA MoreAwake ==
  ASSUME TypeOK, TypeOK', awake \subseteq awake'
  PROVE  /\ Cardinality(awake \cap Consumer) <= Cardinality(awake' \cap Consumer)
         /\ Cardinality(awake \cap Producer) <= Cardinality(awake' \cap Producer)
<1>1. IsFiniteSet(awake' \cap Consumer) /\ IsFiniteSet(awake' \cap Producer)
  BY PcqAssumption, FS_Subset
<1>2. /\ awake \cap Consumer \subseteq awake' \cap Consumer
      /\ awake \cap Producer \subseteq awake' \cap Producer
  OBVIOUS
<1> QED BY <1>1, <1>2, FS_Subset

LEMMA WakeupsInit == Init => WakeupsSuffice
  BY DEF Init, WakeupsSuffice

LEMMA WakeupsStep == TypeOK /\ WakeupsSuffice /\ [Next]_vars => WakeupsSuffice'
<1> SUFFICES ASSUME TypeOK, WakeupsSuffice, [Next]_vars PROVE WakeupsSuffice'
  OBVIOUS
<1>t. TypeOK'
  BY TypeStep
<1>s. sz \in Nat /\ cap \in Nat /\ cap <= sz
  BY PcqAssumption DEF TypeOK
<1>f. /\ IsFiniteSet(awake \cap Consumer) /\ Cardinality(awake \cap Consumer) \in Nat
      /\ IsFiniteSet(awake \cap Producer) /\ Cardinality(awake \cap Producer) \in Nat
      /\ Cardinality(awake' \cap Consumer) \in Nat /\ Cardinality(awake' \cap Producer) \in Nat
  <2>1. IsFiniteSet(awake' \cap Consumer) /\ IsFiniteSet(awake' \cap Producer)
    BY PcqAssumption, FS_Subset
  <2> QED BY <2>1, AwakeFinite, FS_CardinalityType
<1>l. ASSUME NEW t \in Producer \cup Consumer, Call(t) \/ SpuriousWakeup(t) PROVE WakeupsSuffice'
  <2>1. /\ awake \subseteq awake' /\ cap' = cap
        /\ full' \subseteq full /\ empty' \subseteq empty
    BY <1>l DEF Call, SpuriousWakeup
  <2>2. /\ Cardinality(awake \cap Consumer) <= Cardinality(awake' \cap Consumer)
        /\ Cardinality(awake \cap Producer) <= Cardinality(awake' \cap Producer)
    BY <1>t, <2>1, MoreAwake
  <2>3. empty' # {} => empty # {}
    BY <2>1
  <2>4. full' # {} => full # {}
    BY <2>1
  <2> QED BY <1>s, <1>f, <2>1, <2>2, <2>3, <2>4 DEF WakeupsSuffice
<1>p. ASSUME NEW t \in Producer \cup Consumer, EnqueueWaits(t) PROVE WakeupsSuffice'
  <2>1. cap = sz /\ cap' = cap /\ empty' = empty
    BY <1>p DEF EnqueueWaits, MustWaitFull
  <2>2. awake' \cap Consumer = awake \cap Consumer
    BY <1>p, PcqAssumption DEF EnqueueWaits
  <2> QED BY <1>s, <1>f, <2>1, <2>2 DEF WakeupsSuffice
<1>c. ASSUME NEW t \in Producer \cup Consumer, DequeueWaits(t) PROVE WakeupsSuffice'
  <2>1. cap = 0 /\ cap' = cap /\ full' = full
    BY <1>c DEF DequeueWaits, MustWaitEmpty
  <2>2. awake' \cap Producer = awake \cap Producer
    BY <1>c, PcqAssumption DEF DequeueWaits
  <2> QED BY <1>s, <1>f, <2>1, <2>2 DEF WakeupsSuffice
<1>e. ASSUME NEW t \in Producer \cup Consumer, Enqueue(t) PROVE WakeupsSuffice'
  <2>1. PICK W \in Woken(empty) :
           /\ empty' = empty \ W /\ awake' = (awake \ {t}) \cup W
    BY <1>e DEF Enqueue, SignalEmpty
  <2>2. cap' = cap + 1 /\ full' = full /\ t \in awake /\ t \in Producer
    BY <1>e DEF Enqueue
  <2>3. W \subseteq empty /\ W \subseteq Consumer
    BY WokenOne DEF TypeOK
  <2>4. ASSUME empty' # {} PROVE cap' <= Cardinality(awake' \cap Consumer)
    <3>1. PICK u \in empty : W = {u}
      BY <2>1, <2>4, WokenOne
    <3>2. u \in Consumer /\ u \notin awake
      BY DEF TypeOK
    <3>3. awake' \cap Consumer = (awake \cap Consumer) \cup {u}
      BY <2>1, <2>2, <3>1, <3>2, PcqAssumption
    <3>4. Cardinality(awake' \cap Consumer) = Cardinality(awake \cap Consumer) + 1
      BY <1>f, <3>2, <3>3, FS_AddElement
    <3>5. cap <= Cardinality(awake \cap Consumer)
      BY DEF WakeupsSuffice
    <3> QED BY <1>s, <1>f, <2>2, <3>4, <3>5
  <2>5. ASSUME full' # {} PROVE sz - cap' <= Cardinality(awake' \cap Producer)
    <3>1. awake' \cap Producer = (awake \cap Producer) \ {t}
      BY <2>1, <2>2, <2>3, PcqAssumption
    <3>2. Cardinality(awake' \cap Producer) = Cardinality(awake \cap Producer) - 1
      BY <1>f, <2>2, <3>1, FS_RemoveElement
    <3>3. sz - cap <= Cardinality(awake \cap Producer)
      BY <2>2, <2>5 DEF WakeupsSuffice
    <3> QED BY <1>s, <1>f, <2>2, <3>2, <3>3
  <2> QED BY <2>4, <2>5 DEF WakeupsSuffice
<1>d. ASSUME NEW t \in Producer \cup Consumer, Dequeue(t) PROVE WakeupsSuffice'
  <2>1. PICK W \in Woken(full) :
           /\ full' = full \ W /\ awake' = (awake \ {t}) \cup W
    BY <1>d DEF Dequeue
  <2>2. cap' = cap - 1 /\ empty' = empty /\ t \in awake /\ t \in Consumer
    BY <1>d DEF Dequeue
  <2>3. W \subseteq full /\ W \subseteq Producer
    BY WokenOne DEF TypeOK
  <2>4. ASSUME full' # {} PROVE sz - cap' <= Cardinality(awake' \cap Producer)
    <3>1. PICK u \in full : W = {u}
      BY <2>1, <2>4, WokenOne
    <3>2. u \in Producer /\ u \notin awake
      BY DEF TypeOK
    <3>3. awake' \cap Producer = (awake \cap Producer) \cup {u}
      BY <2>1, <2>2, <3>1, <3>2, PcqAssumption
    <3>4. Cardinality(awake' \cap Producer) = Cardinality(awake \cap Producer) + 1
      BY <1>f, <3>2, <3>3, FS_AddElement
    <3>5. sz - cap <= Cardinality(awake \cap Producer)
      BY DEF WakeupsSuffice
    <3> QED BY <1>s, <1>f, <2>2, <3>4, <3>5
  <2>5. ASSUME empty' # {} PROVE cap' <= Cardinality(awake' \cap Consumer)
    <3>1. awake' \cap Consumer = (awake \cap Consumer) \ {t}
      BY <2>1, <2>2, <2>3, PcqAssumption
    <3>2. Cardinality(awake' \cap Consumer) = Cardinality(awake \cap Consumer) - 1
      BY <1>f, <2>2, <3>1, FS_RemoveElement
    <3>3. cap <= Cardinality(awake \cap Consumer)
      BY <2>2, <2>5 DEF WakeupsSuffice
    <3> QED BY <1>s, <1>f, <2>2, <3>2, <3>3
  <2> QED BY <2>4, <2>5 DEF WakeupsSuffice
<1>y. CASE UNCHANGED vars
  BY <1>y DEF vars, WakeupsSuffice
<1> QED BY <1>l, <1>p, <1>e, <1>c, <1>d, <1>y DEF Next, Run

(* pthread_cond_signal instead of broadcast is enough (pcq.h:41-55): no    *)
(* thread sleeps on a condition that holds unless one awake will see to it.*)
THEOREM NoLostWakeup == Spec => []WakeupsSuffice
<1>1. Init => TypeOK /\ WakeupsSuffice
  BY TypeInit, WakeupsInit
<1>2. TypeOK /\ WakeupsSuffice /\ [Next]_vars => (TypeOK /\ WakeupsSuffice)'
  BY TypeStep, WakeupsStep
<1> QED BY <1>1, <1>2, PTL DEF Spec

-----------------------------------------------------------------------------
(* Each critical section of the monitor is a push, a pop or nothing.       *)
LEMMA StackStep == TypeOK /\ [Next]_vars => [Stack!Next]_q
<1> SUFFICES ASSUME TypeOK, [Next]_vars PROVE [Stack!Next]_q
  OBVIOUS
<1>s. sz \in Nat /\ cap \in Nat /\ cap <= sz /\ cap = Len(q)
  BY PcqAssumption DEF TypeOK
<1>l. ASSUME NEW t \in Producer \cup Consumer,
             Call(t) \/ SpuriousWakeup(t) \/ EnqueueWaits(t) \/ DequeueWaits(t)
      PROVE  q' = q
  BY <1>l DEF Call, SpuriousWakeup, EnqueueWaits, DequeueWaits
<1>e. ASSUME NEW t \in Producer \cup Consumer, Enqueue(t) PROVE Stack!Push(t) /\ t \in Producer
  <2>1. t \in Producer /\ cap # sz /\ q' = Append(q, t)
    BY <1>e DEF Enqueue, MustWaitFull
  <2> QED BY <1>s, <2>1 DEF Stack!Push
<1>d. ASSUME NEW t \in Producer \cup Consumer, Dequeue(t) PROVE Stack!Pop
  <2>1. cap # 0 /\ q' = SubSeq(q, 1, cap - 1)
    BY <1>d DEF Dequeue, MustWaitEmpty
  <2> QED BY <1>s, <2>1 DEF Stack!Pop
<1>y. CASE UNCHANGED vars
  BY <1>y DEF vars
<1> QED BY <1>l, <1>e, <1>d, <1>y DEF Next, Run, Stack!Next

(* The threads of file.c may take global_qp and global_qc for stacks whose *)
(* operations are atomic, as FileThreads does.                             *)
THEOREM PcqImplementsStack == Spec => IsStack
<1>1. Init => Stack!Init
  BY DEF Init, Stack!Init
<1> QED BY <1>1, StackStep, TypeCorrect, PTL DEF Spec, IsStack, Stack!Spec
=============================================================================
