--------------------------- MODULE FileSpliceProofs ---------------------------
(***************************************************************************)
(* What a push does to the bytes of a file, for any file, any rows and any *)
(* texts: it changes the intervals of its range and nothing else, and      *)
(* every row still describes its bytes.                                    *)
(***************************************************************************)
EXTENDS FileSplice, SequenceTheorems, FiniteSetTheorems, WellFoundedInduction, TLAPS

-----------------------------------------------------------------------------
(* Induction over data, as facts about sets of numbers                     *)

(* A set of numbers has a least one.                                       *)
LEMMA Least ==
  ASSUME NEW T, T \subseteq Nat, T # {}
  PROVE  \E x \in T : \A y \in T : x <= y
<1>1. IsWellFoundedOn(OpToRel(<, Nat), Nat)
  BY NatLessThanWellFounded
<1>2. PICK x \in T : \A y \in T : ~(<<y, x>> \in OpToRel(<, Nat))
  BY <1>1, WFMin
<1>3. \A y \in T : <<y, x>> \in OpToRel(<, Nat) <=> y < x
  BY DEF OpToRel
<1>4. ASSUME NEW y \in T PROVE x <= y
  <2>1. ~(<<y, x>> \in OpToRel(<, Nat))
    BY <1>2
  <2>2. ~(y < x)
    BY <2>1, <1>3
  <2> QED BY <2>2
<1> QED BY <1>4

(* What holds of 0 and passes to the next number holds of them all.        *)
LEMMA UpTo ==
  ASSUME NEW m \in Nat, NEW T, 0 \in T, \A k \in 0 .. m - 1 : k \in T => k + 1 \in T
  PROVE  0..m \subseteq T
<1> SUFFICES ASSUME (0..m) \ T # {} PROVE FALSE
  OBVIOUS
<1> DEFINE U == (0..m) \ T
<1>0. U \subseteq Nat /\ U # {}
  OBVIOUS
<1> HIDE DEF U
<1>1. PICK x \in U : \A y \in U : x <= y
  BY <1>0, Least
<1> USE DEF U
<1>2. x - 1 \in 0 .. m - 1 /\ x - 1 \in T
  BY <1>1
<1> QED BY <1>1, <1>2

-----------------------------------------------------------------------------
(* Texts joined one after the other                                        *)

(* What FlattenSeq computes, up to piece m.                                *)
Unrolled(s, f, m) ==
    f = [i \in 1..m |-> IF i = 1 THEN s[i] ELSE f[i - 1] \o s[i]]

(* A function on 1..m is a sequence of length m.                           *)
LEMMA FunctionIsText ==
  ASSUME NEW S, NEW m \in Nat, NEW f \in [1..m -> S]
  PROVE  f \in Seq(S) /\ Len(f) = m
<1>1. f \in Seq(S)
  BY SeqDef
<1>2. DOMAIN f = 1..m /\ DOMAIN f = 1..Len(f) /\ Len(f) \in Nat
  BY <1>1, LenProperties
<1> QED BY <1>1, <1>2

(* There is such a function ...                                            *)
LEMMA FlatUnrolls ==
  ASSUME NEW S, NEW s \in Seq(Seq(S)), NEW m \in 1..Len(s)
  PROVE  \E f \in [1..m -> Seq(S)] : Unrolled(s, f, m)
<1> DEFINE T == {0} \cup {k \in 1..Len(s) : \E f \in [1..k -> Seq(S)] : Unrolled(s, f, k)}
<1>0. Len(s) \in Nat
  BY LenProperties
<1>1. ASSUME NEW k \in 0 .. Len(s) - 1, k \in T PROVE k + 1 \in T
  <2>0. k + 1 \in 1..Len(s) /\ s[k + 1] \in Seq(S)
    BY <1>0, <1>1, ElementOfSeq
  <2>1. CASE k = 0
    <3> DEFINE g == [i \in 1..1 |-> s[1]]
    <3>1. g \in [1..1 -> Seq(S)] /\ Unrolled(s, g, 1)
      BY <2>0, <2>1 DEF Unrolled
    <3> QED BY <2>0, <2>1, <3>1
  <2>2. CASE k # 0
    <3>1. PICK f \in [1..k -> Seq(S)] : Unrolled(s, f, k)
      BY <1>1, <2>2
    <3> DEFINE g == [i \in 1 .. k + 1 |-> IF i = k + 1 THEN f[k] \o s[k + 1] ELSE f[i]]
    <3>2. f[k] \o s[k + 1] \in Seq(S)
      BY <2>0, <2>2, <3>1, ConcatProperties
    <3>3. g \in [1 .. k + 1 -> Seq(S)]
      BY <1>1, <2>2, <3>1, <3>2
    <3>4. ASSUME NEW i \in 1 .. k + 1 PROVE g[i] = IF i = 1 THEN s[i] ELSE g[i - 1] \o s[i]
      <4>1. CASE i = k + 1
        <5>1. i # 1 /\ i - 1 = k /\ k \in 1 .. k + 1 /\ k # k + 1
          BY <1>1, <2>2, <4>1
        <5> QED BY <4>1, <5>1
      <4>2. CASE i # k + 1
        <5>1. i \in 1..k /\ g[i] = f[i]
          BY <4>2
        <5>2. i # 1 => i - 1 \in 1 .. k + 1 /\ i - 1 # k + 1
          BY <5>1
        <5>3. i # 1 => g[i - 1] = f[i - 1]
          BY <5>2
        <5>4. f[i] = IF i = 1 THEN s[i] ELSE f[i - 1] \o s[i]
          BY <3>1, <5>1 DEF Unrolled
        <5> QED BY <5>1, <5>3, <5>4
      <4> QED BY <4>1, <4>2
    <3>5. Unrolled(s, g, k + 1)
      BY <3>4 DEF Unrolled
    <3> QED BY <2>0, <3>3, <3>5
  <2> QED BY <2>1, <2>2
<1>2. 0 \in T
  OBVIOUS
<1> HIDE DEF T
<1>3. 0..Len(s) \subseteq T
  BY <1>0, <1>1, <1>2, UpTo
<1>4. m \in T /\ m # 0
  BY <1>0, <1>3, SMTT(40)
<1> QED BY <1>4 DEF T

(* ... and only one ...                                                    *)
LEMMA UnrolledOnce ==
  ASSUME NEW s, NEW m \in Nat, NEW f, NEW g, Unrolled(s, f, m), Unrolled(s, g, m)
  PROVE  f = g
<1> DEFINE T == {0} \cup {k \in 1..m : f[k] = g[k]}
<1>1. ASSUME NEW k \in 0 .. m - 1, k \in T PROVE k + 1 \in T
  <2>1. k + 1 \in 1..m /\ (k + 1) - 1 = k
    BY <1>1
  <2>2. /\ f[k + 1] = IF k + 1 = 1 THEN s[k + 1] ELSE f[k] \o s[k + 1]
        /\ g[k + 1] = IF k + 1 = 1 THEN s[k + 1] ELSE g[k] \o s[k + 1]
    BY <2>1 DEF Unrolled
  <2>3. k + 1 = 1 \/ f[k] = g[k]
    BY <1>1
  <2> QED BY <2>1, <2>2, <2>3
<1>2. 0 \in T
  OBVIOUS
<1> HIDE DEF T
<1>3. 0..m \subseteq T
  BY <1>1, <1>2, UpTo
<1>4. \A k \in 1..m : f[k] = g[k]
  BY <1>3 DEF T
<1>5. \A k \in 1..m : k - 1 \in 1..m \/ k = 1
  OBVIOUS
<1> QED BY <1>4, <1>5 DEF Unrolled

(* ... and FlattenSeq is its last value.                                   *)
LEMMA FlatIs ==
  ASSUME NEW S, NEW s \in Seq(Seq(S)), NEW f, Len(s) # 0, Unrolled(s, f, Len(s))
  PROVE  FlattenSeq(s) = f[Len(s)]
<1> DEFINE c == CHOOSE h : h = [i \in 1..Len(s) |-> IF i = 1 THEN s[i] ELSE h[i - 1] \o s[i]]
<1>1. FlattenSeq(s) = c[Len(s)]
  BY DEF FlattenSeq
<1>2. Unrolled(s, c, Len(s))
  BY DEF Unrolled
<1>3. Len(s) \in Nat
  BY LenProperties
<1> HIDE DEF c
<1>4. c = f
  BY <1>2, <1>3, UnrolledOnce
<1> QED BY <1>1, <1>4

(* No pieces, no text.                                                     *)
LEMMA FlatEmpty == FlattenSeq(<<>>) = <<>>
  BY DEF FlattenSeq

(* The joined text of the first k pieces.                                  *)
Joined(s, k) == FlattenSeq(SubSeq(s, 1, k))

(* The first k elements of a sequence.                                     *)
LEMMA Beginning ==
  ASSUME NEW S, NEW s \in Seq(S), NEW k \in 0..Len(s)
  PROVE  /\ SubSeq(s, 1, k) \in Seq(S) /\ Len(SubSeq(s, 1, k)) = k
         /\ \A i \in 1..k : SubSeq(s, 1, k)[i] = s[i]
<1>1. Len(s) \in Nat /\ \A i \in 1..k : s[i] \in S
  BY LenProperties, ElementOfSeq
<1> QED BY <1>1, SubSeqProperties

(* The function joins the pieces one by one.                               *)
LEMMA JoinedUnrolls ==
  ASSUME NEW S, NEW s \in Seq(Seq(S)), NEW f \in [1..Len(s) -> Seq(S)],
         Unrolled(s, f, Len(s)), NEW k \in 1..Len(s)
  PROVE  Joined(s, k) = f[k]
<1> DEFINE p == SubSeq(s, 1, k)
<1> DEFINE h == [i \in 1..k |-> f[i]]
<1>0. Len(s) \in Nat /\ k \in 0..Len(s)
  BY LenProperties
<1>1. p \in Seq(Seq(S)) /\ Len(p) = k /\ \A i \in 1..k : p[i] = s[i]
  <2> DEFINE Text == Seq(S)
  <2> HIDE DEF Text, h
  <2>1. s \in Seq(Text)
    BY DEF Text
  <2>2. p \in Seq(Text) /\ Len(p) = k /\ \A i \in 1..k : p[i] = s[i]
    BY <1>0, <2>1, Beginning
  <2> QED BY <2>2 DEF Text
<1> HIDE DEF p
<1>2. ASSUME NEW i \in 1..k PROVE h[i] = IF i = 1 THEN p[i] ELSE h[i - 1] \o p[i]
  <2>1. i \in 1..Len(s) /\ (i # 1 => i - 1 \in 1..k)
    BY <1>0
  <2>2. f[i] = IF i = 1 THEN s[i] ELSE f[i - 1] \o s[i]
    BY <2>1 DEF Unrolled
  <2> QED BY <1>1, <2>1, <2>2
<1>3. Unrolled(p, h, k)
  BY <1>2 DEF Unrolled
<1>4. FlattenSeq(p) = h[k]
  <2>1. Len(p) # 0 /\ Unrolled(p, h, Len(p))
    BY <1>1, <1>3
  <2> HIDE DEF h
  <2> QED BY <1>1, <2>1, FlatIs
<1> QED BY <1>4 DEF Joined, p

(* Joined is built piece by piece, up to the whole text.                   *)
LEMMA JoinedStep ==
  ASSUME NEW S, NEW s \in Seq(Seq(S))
  PROVE  /\ Joined(s, 0) = <<>>
         /\ \A k \in 1..Len(s) : Joined(s, k) = Joined(s, k - 1) \o s[k]
         /\ \A k \in 0..Len(s) : Joined(s, k) \in Seq(S)
         /\ FlattenSeq(s) = Joined(s, Len(s))
<1>0. Len(s) \in Nat
  BY LenProperties
<1>1. Joined(s, 0) = <<>>
  <2>1. SubSeq(s, 1, 0) = <<>>
    BY SubSeqEmpty
  <2> QED BY <2>1, FlatEmpty DEF Joined
<1>2. FlattenSeq(s) = Joined(s, Len(s))
  BY SubSeqFull DEF Joined
<1>3. CASE Len(s) = 0
  <2>1. \A k \in 0..Len(s) : k = 0
    BY <1>3
  <2>2. 1..Len(s) = {} /\ <<>> \in Seq(S)
    BY <1>3
  <2> QED BY <1>1, <1>2, <2>1, <2>2
<1>4. CASE Len(s) # 0
  <2>0. Len(s) \in 1..Len(s)
    BY <1>0, <1>4
  <2>1. PICK f \in [1..Len(s) -> Seq(S)] : Unrolled(s, f, Len(s))
    BY <2>0, FlatUnrolls
  <2>2. \A k \in 1..Len(s) : Joined(s, k) = f[k]
    BY <2>1, JoinedUnrolls
  <2>3. ASSUME NEW k \in 1..Len(s) PROVE Joined(s, k) = Joined(s, k - 1) \o s[k]
    <3>1. CASE k = 1
      <4>1. s[k] \in Seq(S) /\ f[k] = s[k]
        BY <2>1, <3>1, ElementOfSeq DEF Unrolled
      <4>2. Joined(s, k - 1) = <<>>
        BY <1>1, <3>1
      <4> QED BY <2>2, <4>1, <4>2, ConcatEmptySeq
    <3>2. CASE k # 1
      <4>0. k - 1 \in 1..Len(s)
        BY <1>0, <3>2
      <4>1. f[k] = f[k - 1] \o s[k]
        BY <2>1, <3>2 DEF Unrolled
      <4> QED BY <2>2, <4>0, <4>1
    <3> QED BY <3>1, <3>2
  <2>4. ASSUME NEW k \in 0..Len(s) PROVE Joined(s, k) \in Seq(S)
    <3>1. CASE k = 0
      BY <1>1, <3>1, EmptySeq
    <3>2. CASE k # 0
      <4>1. k \in 1..Len(s)
        BY <1>0, <3>2
      <4> QED BY <2>1, <2>2, <4>1
    <3> QED BY <3>1, <3>2
  <2> QED BY <1>1, <1>2, <2>3, <2>4
<1> QED BY <1>3, <1>4

(* Text a stands in w, from offset d on.                                   *)
Stands(a, w, d) ==
    d + Len(a) <= Len(w) /\ \A i \in 1..Len(a) : w[d + i] = a[i]

(* What stands in a part stands in the whole.                              *)
LEMMA StandsWithin ==
  ASSUME NEW S, NEW a \in Seq(S), NEW q \in Seq(S), NEW w \in Seq(S),
         NEW d \in Nat, NEW e \in Nat, Stands(a, q, d), Stands(q, w, e)
  PROVE  Stands(a, w, e + d)
<1>1. Len(a) \in Nat /\ Len(q) \in Nat /\ Len(w) \in Nat
  BY LenProperties
<1>2. (e + d) + Len(a) <= Len(w)
  BY <1>1 DEF Stands
<1>3. ASSUME NEW i \in 1..Len(a) PROVE w[(e + d) + i] = a[i]
  <2>1. d + i \in 1..Len(q) /\ (e + d) + i = e + (d + i)
    BY <1>1 DEF Stands
  <2>2. q[d + i] = a[i] /\ w[e + (d + i)] = q[d + i]
    BY <2>1 DEF Stands
  <2> QED BY <2>1, <2>2
<1> QED BY <1>2, <1>3 DEF Stands

(* Both parts stand in their concatenation.                                *)
LEMMA ConcatStands ==
  ASSUME NEW S, NEW s \in Seq(S), NEW t \in Seq(S)
  PROVE  /\ s \o t \in Seq(S) /\ Len(s \o t) = Len(s) + Len(t)
         /\ Len(s) \in Nat /\ Len(t) \in Nat
         /\ Stands(s, s \o t, 0) /\ Stands(t, s \o t, Len(s))
<1> DEFINE c == s \o t
<1>1. Len(s) \in Nat /\ Len(t) \in Nat
  BY LenProperties
<1>2. /\ c \in Seq(S) /\ Len(c) = Len(s) + Len(t)
      /\ \A i \in 1 .. Len(s) + Len(t) : c[i] = IF i <= Len(s) THEN s[i] ELSE t[i - Len(s)]
  BY ConcatProperties
<1> HIDE DEF c
<1>3. Stands(s, c, 0)
  <2>1. ASSUME NEW i \in 1..Len(s) PROVE c[0 + i] = s[i]
    <3>1. 0 + i = i /\ i \in 1 .. Len(s) + Len(t) /\ i <= Len(s)
      BY <1>1
    <3> QED BY <1>2, <3>1
  <2> QED BY <1>1, <1>2, <2>1 DEF Stands
<1>4. Stands(t, c, Len(s))
  <2>1. ASSUME NEW i \in 1..Len(t) PROVE c[Len(s) + i] = t[i]
    <3>1. Len(s) + i \in 1 .. Len(s) + Len(t) /\ ~(Len(s) + i <= Len(s)) /\ (Len(s) + i) - Len(s) = i
      BY <1>1
    <3> QED BY <1>2, <3>1
  <2> QED BY <1>1, <1>2, <2>1 DEF Stands
<1> QED BY <1>1, <1>2, <1>3, <1>4 DEF c

(* A text stands in itself.                                                *)
LEMMA StandsSame ==
  ASSUME NEW S, NEW s \in Seq(S)
  PROVE  Stands(s, s, 0)
  BY LenProperties DEF Stands

(* Pieces that are joined later change nothing of what is there.           *)
LEMMA JoinedStands ==
  ASSUME NEW S, NEW s \in Seq(Seq(S)), NEW m \in 0..Len(s), NEW k \in 0..m
  PROVE  Stands(Joined(s, k), Joined(s, m), 0)
<1> DEFINE J(j) == Joined(s, j)
<1> DEFINE T == {d \in 0 .. m - k : Stands(J(k), J(k + d), 0)}
<1>0. Len(s) \in Nat
  BY LenProperties
<1>1. /\ \A j \in 0..Len(s) : J(j) \in Seq(S)
      /\ \A j \in 1..Len(s) : J(j) = J(j - 1) \o s[j] /\ s[j] \in Seq(S)
  BY JoinedStep, ElementOfSeq
<1> HIDE DEF J
<1>2. ASSUME NEW d \in 0 .. (m - k) - 1, d \in T PROVE d + 1 \in T
  <2>1. /\ k + d \in 0..Len(s) /\ (k + d) + 1 \in 1..Len(s) /\ k \in 0..Len(s)
        /\ d + 1 \in 0 .. m - k /\ k + (d + 1) = (k + d) + 1 /\ ((k + d) + 1) - 1 = k + d
        /\ (k + d) + 1 \in 0..Len(s)
    BY <1>0
  <2>2. /\ J((k + d) + 1) = J(k + d) \o s[(k + d) + 1]
        /\ J(k) \in Seq(S) /\ J(k + d) \in Seq(S) /\ s[(k + d) + 1] \in Seq(S) /\ J((k + d) + 1) \in Seq(S)
    BY <1>1, <2>1
  <2>3. Stands(J(k + d), J(k + d) \o s[(k + d) + 1], 0)
    BY <2>2, ConcatStands
  <2>4. Stands(J(k + d), J((k + d) + 1), 0)
    BY <2>2, <2>3
  <2>5. Stands(J(k), J((k + d) + 1), 0 + 0)
    BY <1>2, <2>2, <2>4, StandsWithin
  <2> QED BY <2>1, <2>5
<1>3. 0 \in T
  <2>1. k + 0 = k /\ k \in 0..Len(s) /\ 0 \in 0 .. m - k
    BY <1>0
  <2> QED BY <1>1, <2>1, StandsSame
<1>4. m - k \in Nat
  OBVIOUS
<1> HIDE DEF T
<1>5. m - k \in T
  <2>1. 0 .. m - k \subseteq T
    BY <1>2, <1>3, <1>4, UpTo
  <2> QED BY <1>4, <2>1
<1>6. k + (m - k) = m
  BY <1>0
<1> QED BY <1>5, <1>6 DEF T, J

(* Where piece k is found.                                                 *)
LEMMA PieceStandsIn ==
  ASSUME NEW S, NEW s \in Seq(Seq(S)), NEW k \in 1..Len(s)
  PROVE  /\ Len(Joined(s, k - 1)) \in Nat
         /\ Len(Joined(s, k)) = Len(Joined(s, k - 1)) + Len(s[k])
         /\ Stands(s[k], FlattenSeq(s), Len(Joined(s, k - 1)))
<1>0. Len(s) \in Nat /\ k - 1 \in 0..Len(s) /\ k \in 0..Len(s) /\ Len(s) \in 0..Len(s)
  BY LenProperties
<1>1. /\ Joined(s, k) = Joined(s, k - 1) \o s[k]
      /\ Joined(s, k - 1) \in Seq(S) /\ s[k] \in Seq(S) /\ Joined(s, k) \in Seq(S)
      /\ FlattenSeq(s) = Joined(s, Len(s)) /\ FlattenSeq(s) \in Seq(S)
  BY <1>0, JoinedStep, ElementOfSeq
<1> DEFINE a == Joined(s, k - 1)
<1> DEFINE b == Joined(s, k)
<1>2. /\ Len(a \o s[k]) = Len(a) + Len(s[k]) /\ Len(a) \in Nat
      /\ Stands(s[k], a \o s[k], Len(a))
  BY <1>1, ConcatStands
<1>3. Stands(b, FlattenSeq(s), 0)
  BY <1>0, <1>1, JoinedStands
<1>4. Stands(s[k], b, Len(a)) /\ Len(b) = Len(a) + Len(s[k])
  BY <1>1, <1>2
<1>5. Stands(s[k], FlattenSeq(s), 0 + Len(a))
  <2> HIDE DEF a, b
  <2> QED BY <1>1, <1>2, <1>3, <1>4, StandsWithin DEF b
<1> QED BY <1>2, <1>4, <1>5

-----------------------------------------------------------------------------
(* sendfile *)

(* What sendfile copies, byte by byte (file.c, write_offset_update and     *)
(* add_oracles).                                                           *)
LEMMA CopyIs ==
  ASSUME NEW S, NEW s \in Seq(S), NEW p \in Nat, NEW k \in Int
  PROVE  /\ Copy(s, p, k) \in Seq(S)
         /\ Len(Copy(s, p, k)) =
               IF p + 1 <= AtMost(p + k, Len(s)) THEN AtMost(p + k, Len(s)) - p ELSE 0
         /\ \A i \in 1 .. AtMost(p + k, Len(s)) - p :
               p + i \in 1..Len(s) /\ Copy(s, p, k)[i] = s[p + i]
<1> DEFINE e == AtMost(p + k, Len(s))
<1>1. Len(s) \in Nat
  BY LenProperties
<1>2. e \in Int /\ e <= Len(s) /\ e <= p + k
  BY <1>1 DEF AtMost
<1> HIDE DEF e
<1>3. \A i \in p + 1 .. e : s[i] \in S
  <2>1. \A i \in p + 1 .. e : i \in 1..Len(s)
    BY <1>1, <1>2
  <2> QED BY <2>1, ElementOfSeq
<1>4. /\ SubSeq(s, p + 1, e) \in Seq(S)
      /\ Len(SubSeq(s, p + 1, e)) = IF p + 1 <= e THEN e - (p + 1) + 1 ELSE 0
      /\ \A i \in 1 .. e - (p + 1) + 1 : SubSeq(s, p + 1, e)[i] = s[(p + 1) + i - 1]
  BY <1>2, <1>3, SubSeqProperties
<1>5. e - (p + 1) + 1 = e - p /\ \A i \in Int : (p + 1) + i - 1 = p + i
  BY <1>2
<1>6. \A i \in 1 .. e - p : p + i \in 1..Len(s)
  BY <1>1, <1>2
<1>7. Copy(s, p, k) = SubSeq(s, p + 1, e)
  BY DEF Copy, e
<1>8. Len(SubSeq(s, p + 1, e)) = IF p + 1 <= e THEN e - p ELSE 0
  BY <1>2, <1>4, <1>5
<1>9. \A i \in 1 .. e - p : SubSeq(s, p + 1, e)[i] = s[p + i]
  BY <1>2, <1>4, <1>5
<1> QED BY <1>4, <1>6, <1>7, <1>8, <1>9 DEF e

-----------------------------------------------------------------------------
(* A text that stands in a file is what sendfile copies from there.        *)
LEMMA CopyStands ==
  ASSUME NEW S, NEW s \in Seq(S), NEW p \in Nat, NEW t \in Seq(S), Stands(t, s, p)
  PROVE  Copy(s, p, Len(t)) = t
<1> DEFINE k == Len(t)
<1>0. k \in Nat /\ Len(s) \in Nat
  BY LenProperties
<1>1. AtMost(p + k, Len(s)) = p + k
  BY <1>0 DEF AtMost, Stands
<1> HIDE DEF k
<1>6. k \in Int
  BY <1>0
<1>2. /\ Copy(s, p, k) \in Seq(S)
      /\ Len(Copy(s, p, k)) =
            IF p + 1 <= AtMost(p + k, Len(s)) THEN AtMost(p + k, Len(s)) - p ELSE 0
  BY <1>6, CopyIs
<1>3. \A i \in 1 .. AtMost(p + k, Len(s)) - p : Copy(s, p, k)[i] = s[p + i]
  BY <1>6, CopyIs
<1>4. (p + k) - p = k /\ Len(Copy(s, p, k)) = k
  BY <1>0, <1>1, <1>2
<1>5. \A i \in 1..k : Copy(s, p, k)[i] = t[i]
  BY <1>1, <1>3, <1>4 DEF Stands, k
<1> QED BY <1>2, <1>4, <1>5, SeqEqual DEF k

(* Counting marks *)

Positions(m, s) == {i \in 1..Len(s) : s[i] = m}

(* The marks of a text are counted by their positions.                     *)
LEMMA PositionsFinite ==
  ASSUME NEW S, NEW s \in Seq(S), NEW m
  PROVE  IsFiniteSet(Positions(m, s)) /\ Marks(m, s) = Cardinality(Positions(m, s)) /\ Marks(m, s) \in Nat
<1>1. IsFiniteSet(1..Len(s))
  BY LenProperties, FS_Interval
<1>2. IsFiniteSet(Positions(m, s))
  BY <1>1, FS_Subset DEF Positions
<1> QED BY <1>2, FS_CardinalityType DEF Marks, Positions

(* Marks add up when texts are joined.                                     *)
LEMMA MarksConcat ==
  ASSUME NEW S, NEW s \in Seq(S), NEW t \in Seq(S), NEW m
  PROVE  Marks(m, s \o t) = Marks(m, s) + Marks(m, t)
<1> DEFINE A == Positions(m, s)
<1> DEFINE B == Positions(m, t)
<1> DEFINE C == Positions(m, s \o t)
<1> DEFINE D == C \ A
<1> DEFINE f == [i \in B |-> i + Len(s)]
<1>1. Len(s) \in Nat /\ Len(t) \in Nat
  BY LenProperties
<1>2. /\ s \o t \in Seq(S)
      /\ Len(s \o t) = Len(s) + Len(t)
      /\ \A i \in 1 .. Len(s) + Len(t) :
            (s \o t)[i] = IF i <= Len(s) THEN s[i] ELSE t[i - Len(s)]
  BY ConcatProperties
<1>3. A \subseteq C
  BY <1>1, <1>2 DEF Positions
<1>4. \A i \in D : i - Len(s) \in B /\ i \in Int
  BY <1>1, <1>2 DEF Positions
<1>5. \A i \in B : i + Len(s) \in D /\ i \in Int
  <2> SUFFICES ASSUME NEW i \in B PROVE i + Len(s) \in D /\ i \in Int
    OBVIOUS
  <2>1. i \in 1..Len(t) /\ t[i] = m
    BY DEF Positions
  <2>2. /\ i + Len(s) \in 1 .. Len(s) + Len(t) /\ ~(i + Len(s) <= Len(s))
        /\ (i + Len(s)) - Len(s) = i /\ i + Len(s) \notin 1..Len(s)
    BY <1>1, <2>1
  <2>3. (s \o t)[i + Len(s)] = m
    BY <1>2, <2>1, <2>2
  <2> QED BY <1>2, <2>1, <2>2, <2>3 DEF Positions
<1>6. IsFiniteSet(A) /\ IsFiniteSet(B) /\ IsFiniteSet(C)
  BY <1>2, PositionsFinite
<1> HIDE DEF A, B, C
<1>7. f \in Bijection(B, D)
  <2>1. f \in [B -> D]
    BY <1>5
  <2>2. \A x, y \in B : f[x] = f[y] => x = y
    BY <1>1, <1>5
  <2>3. ASSUME NEW y \in D PROVE \E x \in B : f[x] = y
    <3>1. y - Len(s) \in B /\ (y - Len(s)) + Len(s) = y
      BY <1>1, <1>4
    <3> QED BY <3>1
  <2> HIDE DEF f
  <2> QED BY <2>1, <2>2, <2>3 DEF Bijection, Injection, Surjection, IsInjective
<1>8. IsFiniteSet(D) /\ Cardinality(D) = Cardinality(B)
  <2>1. ExistsBijection(B, D)
    BY <1>7 DEF ExistsBijection
  <2> HIDE DEF D
  <2> QED BY <1>6, <2>1, FS_Bijection
<1>9. Cardinality(C) = Cardinality(A) + Cardinality(D)
  <2>1. A \cup D = C /\ A \cap D = {}
    BY <1>3
  <2> HIDE DEF D
  <2>2. Cardinality(A \cup D) = Cardinality(A) + Cardinality(D) - Cardinality(A \cap D)
    BY <1>6, <1>8, FS_Union
  <2>3. Cardinality(A \cap D) = 0 /\ Cardinality(A) \in Nat /\ Cardinality(D) \in Nat
    BY <1>6, <1>8, <2>1, FS_EmptySet, FS_CardinalityType
  <2>4. Cardinality(A \cup D) = Cardinality(C)
    BY <2>1
  <2>5. Cardinality(A) + Cardinality(D) - Cardinality(A \cap D) = Cardinality(A) + Cardinality(D)
    BY <2>3
  <2> QED BY <2>2, <2>4, <2>5
<1> QED BY <1>2, <1>8, <1>9, PositionsFinite DEF A, B, C

(* A text of bytes that are not m has no mark m.                           *)
LEMMA NoMarks ==
  ASSUME NEW S, NEW s \in Seq(S), NEW m, m \notin S
  PROVE  Marks(m, s) = 0
<1>1. {i \in 1..Len(s) : s[i] = m} = {}
  BY ElementOfSeq
<1> QED BY <1>1, FS_EmptySet DEF Marks

(* A text of one byte has the mark that this byte is.                      *)
LEMMA OneByte ==
  ASSUME NEW b, NEW m
  PROVE  Marks(m, <<b>>) = IF b = m THEN 1 ELSE 0
<1>1. Len(<<b>>) = 1 /\ <<b>>[1] = b /\ 1..1 = {1}
  OBVIOUS
<1>2. CASE b = m
  <2>1. {i \in 1..Len(<<b>>) : <<b>>[i] = m} = {1}
    BY <1>1, <1>2
  <2> QED BY <1>2, <2>1, FS_Singleton DEF Marks
<1>3. CASE b # m
  <2>1. {i \in 1..Len(<<b>>) : <<b>>[i] = m} = {}
    BY <1>1, <1>3
  <2> QED BY <1>3, <2>1, FS_EmptySet DEF Marks
<1> QED BY <1>2, <1>3

(* What a user loses who removes one byte.                                 *)
LEMMA OneRemoved ==
  ASSUME NEW S, NEW s \in Seq(S), NEW i \in 1..Len(s), NEW m
  PROVE  /\ RemoveAt(s, i) \in Seq(S)
         /\ s[i] = m => Marks(m, s) = Marks(m, RemoveAt(s, i)) + 1
         /\ s[i] # m => Marks(m, s) = Marks(m, RemoveAt(s, i))
<1> DEFINE a == SubSeq(s, 1, i - 1)
<1> DEFINE b == SubSeq(s, i, i)
<1> DEFINE c == SubSeq(s, i + 1, Len(s))
<1>1. Len(s) \in Nat /\ \A j \in 1..Len(s) : s[j] \in S
  BY LenProperties, ElementOfSeq
<1>2. a \in Seq(S) /\ b \in Seq(S) /\ c \in Seq(S)
  <2>1. /\ \A j \in 1 .. i - 1 : s[j] \in S
        /\ \A j \in i..i : s[j] \in S
        /\ \A j \in i + 1 .. Len(s) : s[j] \in S
    BY <1>1
  <2> QED BY <1>1, <2>1, SubSeqProperties
<1>3. s = (a \o b) \o c
  <2>1. a \o b = SubSeq(s, 1, i)
    <3>1. 1 \in 1 .. Len(s) + 1 /\ i - 1 \in 1 - 1 .. Len(s) /\ i \in i - 1 .. Len(s) /\ (i - 1) + 1 = i
      BY <1>1
    <3> QED BY <3>1, ConcatAdjacentSubSeq
  <2>2. SubSeq(s, 1, i) \o c = SubSeq(s, 1, Len(s))
    <3>1. 1 \in 1 .. Len(s) + 1 /\ i \in 1 - 1 .. Len(s) /\ Len(s) \in i .. Len(s)
      BY <1>1
    <3> QED BY <3>1, ConcatAdjacentSubSeq
  <2> QED BY <2>1, <2>2, SubSeqFull
<1>4. b = <<s[i]>>
  <2>1. Len(b) = 1 /\ b[1] = s[i]
    <3>1. Len(b) = IF i <= i THEN i - i + 1 ELSE 0
      BY <1>1, SubSeqProperties
    <3>2. \A j \in 1 .. i - i + 1 : b[j] = s[i + j - 1]
      BY <1>1, SubSeqProperties
    <3>3. i - i + 1 = 1 /\ i + 1 - 1 = i /\ 1 \in 1..1
      OBVIOUS
    <3> QED BY <3>1, <3>2, <3>3
  <2>2. <<s[i]>> \in Seq(S) /\ Len(<<s[i]>>) = 1 /\ <<s[i]>>[1] = s[i]
    BY <1>1
  <2> HIDE DEF b
  <2>3. \A j \in 1..Len(b) : b[j] = <<s[i]>>[j]
    BY <2>1, <2>2
  <2> QED BY <1>2, <2>1, <2>2, <2>3, SeqEqual
<1>5. RemoveAt(s, i) = a \o c
  BY DEF RemoveAt
<1> HIDE DEF a, b, c
<1>6. a \o c \in Seq(S) /\ a \o b \in Seq(S)
  BY <1>2, ConcatProperties
<1>7. /\ Marks(m, s) = Marks(m, a \o b) + Marks(m, c)
      /\ Marks(m, a \o b) = Marks(m, a) + Marks(m, b)
      /\ Marks(m, a \o c) = Marks(m, a) + Marks(m, c)
  BY <1>2, <1>3, <1>6, MarksConcat
<1>8. Marks(m, a) \in Nat /\ Marks(m, b) \in Nat /\ Marks(m, c) \in Nat
  BY <1>2, PositionsFinite
<1>9. Marks(m, b) = IF s[i] = m THEN 1 ELSE 0
  BY <1>4, OneByte
<1> QED BY <1>5, <1>6, <1>7, <1>8, <1>9

Mark == {Open, Close}
Char == Byte \cup Mark

(* No oracle is a byte of the file.                                        *)
LEMMA ByteIsNoMark ==
  /\ Byte \subseteq Char /\ Mark \subseteq Char
  /\ \A m \in Mark : m \notin Byte
  /\ Open \in Mark /\ Close \in Mark /\ Open # Close
  BY FileSpliceAssumption DEF Byte, Char, Mark, Open, Close

(* The texts of the file are texts of a swap file, too.                    *)
LEMMA BytesAreChars == Seq(Byte) \subseteq Seq(Char)
<1>1. ASSUME NEW s \in Seq(Byte) PROVE s \in Seq(Char)
  BY ByteIsNoMark, SeqMonotonic
<1> QED BY <1>1

(* The oracles of a text that is not marked.                               *)
LEMMA NoText == <<>> \in Seq(Char) /\ Len(<<>>) = 0 /\ \A m : Marks(m, <<>>) = 0
<1>1. <<>> \in Seq(Char) /\ Len(<<>>) = 0
  OBVIOUS
<1>2. ASSUME NEW m PROVE Marks(m, <<>>) = 0
  <2>1. {i \in 1..Len(<<>>) : <<>>[i] = m} = {}
    BY <1>1
  <2> QED BY <2>1, FS_EmptySet DEF Marks
<1> QED BY <1>1, <1>2

(* The gaps and the texts of a session.                                    *)
Fits(g, t) == g \in Seq(Seq(Byte)) /\ t \in Seq(Seq(Byte)) /\ Len(g) = Len(t) + 1

(* The types of the gaps and texts, one by one.                            *)
LEMMA FitsIs ==
  ASSUME NEW g, NEW t, Fits(g, t)
  PROVE  /\ Len(t) \in Nat
         /\ \A k \in 1 .. Len(t) + 1 : g[k] \in Seq(Byte) /\ g[k] \in Seq(Char) /\ Len(g[k]) \in Nat
         /\ \A k \in 1..Len(t) : t[k] \in Seq(Byte) /\ t[k] \in Seq(Char) /\ Len(t[k]) \in Nat
<1>1. Len(t) \in Nat
  BY LenProperties DEF Fits
<1>2. \A k \in 1 .. Len(t) + 1 : g[k] \in Seq(Byte)
  BY ElementOfSeq DEF Fits
<1>3. \A k \in 1..Len(t) : t[k] \in Seq(Byte)
  BY ElementOfSeq DEF Fits
<1> QED BY <1>1, <1>2, <1>3, LenProperties, BytesAreChars

(* Gap a, and text b between the texts o and c, stand in w from d on.      *)
PieceStands(a, b, o, c, w, d) ==
    /\ Stands(a, w, d)
    /\ Stands(o, w, d + Len(a))
    /\ Stands(b, w, d + Len(a) + Len(o))
    /\ Stands(c, w, d + Len(a) + Len(o) + Len(b))

PieceLen(a, b, o, c) == Len(a) + Len(o) + Len(b) + Len(c)

Piece(a, b, o, c) == a \o o \o b \o c

(* The four parts of a piece stand in it.                                  *)
LEMMA PieceIs ==
  ASSUME NEW a \in Seq(Char), NEW b \in Seq(Char), NEW o \in Seq(Char), NEW c \in Seq(Char),
         NEW x, x = Piece(a, b, o, c)
  PROVE  /\ x \in Seq(Char) /\ Len(x) = PieceLen(a, b, o, c)
         /\ PieceStands(a, b, o, c, x, 0)
         /\ \A m : Marks(m, x) = Marks(m, a) + Marks(m, o) + Marks(m, b) + Marks(m, c)
<1> DEFINE p == a \o o
<1> DEFINE q == p \o b
<1>1. x = q \o c
  BY DEF Piece
<1>2. /\ p \in Seq(Char) /\ Len(p) = Len(a) + Len(o) /\ Len(a) \in Nat /\ Len(o) \in Nat
      /\ Stands(a, p, 0) /\ Stands(o, p, Len(a))
  BY ConcatStands
<1>3. \A m : Marks(m, p) = Marks(m, a) + Marks(m, o)
  BY MarksConcat
<1> HIDE DEF p
<1>4. /\ q \in Seq(Char) /\ Len(q) = Len(p) + Len(b) /\ Len(p) \in Nat /\ Len(b) \in Nat
      /\ Stands(p, q, 0) /\ Stands(b, q, Len(p))
  BY <1>2, ConcatStands
<1>5. \A m : Marks(m, q) = Marks(m, p) + Marks(m, b)
  BY <1>2, MarksConcat
<1> HIDE DEF q
<1>6. /\ x \in Seq(Char) /\ Len(x) = Len(q) + Len(c) /\ Len(q) \in Nat /\ Len(c) \in Nat
      /\ Stands(q, x, 0) /\ Stands(c, x, Len(q))
  <2>1. /\ q \o c \in Seq(Char) /\ Len(q \o c) = Len(q) + Len(c) /\ Len(q) \in Nat /\ Len(c) \in Nat
        /\ Stands(q, q \o c, 0) /\ Stands(c, q \o c, Len(q))
    BY <1>4, ConcatStands
  <2> QED BY <1>1, <2>1
<1>7. \A m : Marks(m, x) = Marks(m, q) + Marks(m, c)
  BY <1>1, <1>4, MarksConcat
<1>8. Stands(p, x, 0 + 0) /\ Stands(b, x, 0 + Len(p))
  BY <1>2, <1>4, <1>6, StandsWithin
<1>9. Stands(p, x, 0)
  BY <1>8
<1>10. Stands(a, x, 0 + 0) /\ Stands(o, x, 0 + Len(a))
  BY <1>2, <1>6, <1>9, StandsWithin
<1>11. PieceStands(a, b, o, c, x, 0)
  <2>1. /\ 0 + 0 = 0 /\ 0 + Len(p) = 0 + Len(a) + Len(o) /\ Len(q) = 0 + Len(a) + Len(o) + Len(b)
    BY <1>2, <1>4
  <2> QED BY <1>6, <1>8, <1>10, <2>1 DEF PieceStands
<1>12. Len(x) = PieceLen(a, b, o, c)
  BY <1>2, <1>4, <1>6 DEF PieceLen
<1>13. \A m : Marks(m, x) = Marks(m, a) + Marks(m, o) + Marks(m, b) + Marks(m, c)
  BY <1>3, <1>5, <1>7
<1> QED BY <1>6, <1>11, <1>12, <1>13

(* A piece that stands in a part stands in the whole.                      *)
LEMMA PieceWithin ==
  ASSUME NEW a \in Seq(Char), NEW b \in Seq(Char), NEW o \in Seq(Char), NEW c \in Seq(Char),
         NEW q \in Seq(Char), NEW w \in Seq(Char), NEW d \in Nat, NEW e \in Nat,
         PieceStands(a, b, o, c, q, d), Stands(q, w, e)
  PROVE  PieceStands(a, b, o, c, w, e + d)
<1>1. Len(a) \in Nat /\ Len(b) \in Nat /\ Len(o) \in Nat
  BY LenProperties
<1>2. d + Len(a) \in Nat /\ d + Len(a) + Len(o) \in Nat /\ d + Len(a) + Len(o) + Len(b) \in Nat
  BY <1>1
<1>3. /\ Stands(a, w, e + d)
      /\ Stands(o, w, e + (d + Len(a)))
      /\ Stands(b, w, e + (d + Len(a) + Len(o)))
      /\ Stands(c, w, e + (d + Len(a) + Len(o) + Len(b)))
  BY <1>2, StandsWithin DEF PieceStands
<1>4. /\ e + (d + Len(a)) = (e + d) + Len(a)
      /\ e + (d + Len(a) + Len(o)) = (e + d) + Len(a) + Len(o)
      /\ e + (d + Len(a) + Len(o) + Len(b)) = (e + d) + Len(a) + Len(o) + Len(b)
  BY <1>1
<1> QED BY <1>3, <1>4 DEF PieceStands

IsPiece(x, a, b, o, c) ==
    /\ x \in Seq(Char) /\ Len(x) = PieceLen(a, b, o, c)
    /\ PieceStands(a, b, o, c, x, 0)
    /\ \A m \in Mark : Marks(m, x) = Marks(m, o) + Marks(m, c)

(* Each piece consists of its gap, its text and the oracles around it.     *)
LEMMA PiecesAre ==
  ASSUME NEW g, NEW t, Fits(g, t), NEW o \in Seq(Char), NEW c \in Seq(Char),
         NEW p, p = Pieces(g, t, o, c)
  PROVE  /\ p \in Seq(Seq(Char)) /\ Len(p) = Len(t)
         /\ \A k \in 1..Len(t) : IsPiece(p[k], g[k], t[k], o, c)
<1>1. /\ Len(t) \in Nat
      /\ \A k \in 1..Len(t) : /\ g[k] \in Seq(Byte) /\ g[k] \in Seq(Char)
                              /\ t[k] \in Seq(Byte) /\ t[k] \in Seq(Char)
  BY FitsIs
<1>2. ASSUME NEW k \in 1..Len(t)
      PROVE  IsPiece(p[k], g[k], t[k], o, c)
  <2> DEFINE x == p[k]
  <2>1. x = Piece(g[k], t[k], o, c)
    BY DEF Pieces, Piece
  <2>2. g[k] \in Seq(Char) /\ t[k] \in Seq(Char)
    BY <1>1
  <2> HIDE DEF x
  <2>3. x \in Seq(Char) /\ Len(x) = PieceLen(g[k], t[k], o, c) /\ PieceStands(g[k], t[k], o, c, x, 0)
    BY <2>1, <2>2, PieceIs
  <2>4. ASSUME NEW m \in Mark PROVE Marks(m, x) = Marks(m, o) + Marks(m, c)
    <3>1. Marks(m, x) = Marks(m, g[k]) + Marks(m, o) + Marks(m, t[k]) + Marks(m, c)
      BY <2>1, <2>2, PieceIs
    <3>2. Marks(m, g[k]) = 0 /\ Marks(m, t[k]) = 0
      BY <1>1, NoMarks, ByteIsNoMark
    <3>3. Marks(m, o) \in Nat /\ Marks(m, c) \in Nat
      BY PositionsFinite
    <3> QED BY <3>1, <3>2, <3>3
  <2> QED BY <2>3, <2>4 DEF IsPiece, x
<1>3. p \in Seq(Seq(Char)) /\ Len(p) = Len(t)
  <2> DEFINE q(k) == g[k] \o o \o t[k] \o c
  <2>1. p = [k \in 1..Len(t) |-> q(k)]
    BY DEF Pieces
  <2>2. \A k \in 1..Len(t) : q(k) \in Seq(Char)
    BY <1>2, <2>1 DEF IsPiece
  <2> HIDE DEF q
  <2>3. [k \in 1..Len(t) |-> q(k)] \in Seq(Seq(Char))
    BY <1>1, <2>2, IsASeq
  <2>4. p \in Seq(Seq(Char))
    BY <2>1, <2>3
  <2>5. DOMAIN p = 1..Len(t) /\ DOMAIN p = 1..Len(p) /\ Len(p) \in Nat
    BY <2>1, <2>4, LenProperties
  <2>6. Len(p) = Len(t)
    BY <1>1, <2>5
  <2> QED BY <2>4, <2>6
<1> QED BY <1>2, <1>3

(* How far the pieces before piece k reach.                                *)
LengthTo(g, t, o, c, k) == Len(Joined(Pieces(g, t, o, c), k))

WovenAt(g, t, o, c, w, k) ==
    /\ LengthTo(g, t, o, c, k - 1) \in Nat
    /\ LengthTo(g, t, o, c, k) = LengthTo(g, t, o, c, k - 1) + PieceLen(g[k], t[k], o, c)
    /\ PieceStands(g[k], t[k], o, c, w, LengthTo(g, t, o, c, k - 1))

WovenEnds(g, t, o, c, w) ==
    /\ LengthTo(g, t, o, c, Len(t)) \in Nat
    /\ Len(w) = LengthTo(g, t, o, c, Len(t)) + Len(g[Len(t) + 1])
    /\ Stands(g[Len(t) + 1], w, LengthTo(g, t, o, c, Len(t)))

(* Where the pieces and the last gap stand, and how many marks there are.  *)
LEMMA WovenIs ==
  ASSUME NEW g, NEW t, Fits(g, t), NEW o \in Seq(Char), NEW c \in Seq(Char),
         NEW w, w = Woven(g, t, o, c)
  PROVE  /\ w \in Seq(Char)
         /\ LengthTo(g, t, o, c, 0) = 0 /\ WovenEnds(g, t, o, c, w)
         /\ \A k \in 1..Len(t) : WovenAt(g, t, o, c, w, k)
         /\ \A m \in Mark : Marks(m, o) + Marks(m, c) = 1 => Marks(m, w) = Len(t)
<1> DEFINE p == Pieces(g, t, o, c)
<1> DEFINE f == FlattenSeq(p)
<1> DEFINE d(k) == LengthTo(g, t, o, c, k)
<1> DEFINE last == g[Len(t) + 1]
<1>1. /\ Len(t) \in Nat /\ last \in Seq(Char) /\ last \in Seq(Byte)
      /\ \A k \in 1..Len(t) : g[k] \in Seq(Char) /\ t[k] \in Seq(Char)
  BY FitsIs
<1>0. p = Pieces(g, t, o, c)
  OBVIOUS
<1> HIDE DEF p
<1>2. p \in Seq(Seq(Char)) /\ Len(p) = Len(t)
  <2>1. p \in Seq(Seq(Char))
    BY <1>0, PiecesAre
  <2>2. Len(p) = Len(t)
    BY <1>0, PiecesAre
  <2> QED BY <2>1, <2>2
<1>3. ASSUME NEW k \in 1..Len(t)
      PROVE  /\ p[k] \in Seq(Char) /\ Len(p[k]) = PieceLen(g[k], t[k], o, c)
             /\ PieceStands(g[k], t[k], o, c, p[k], 0)
             /\ \A m \in Mark : Marks(m, p[k]) = Marks(m, o) + Marks(m, c)
  <2>1. IsPiece(p[k], g[k], t[k], o, c)
    BY <1>0, PiecesAre
  <2> QED BY <2>1 DEF IsPiece
<1>4. w = f \o last
  BY <1>0 DEF Woven
<1>5. \A k \in 0..Len(t) : d(k) = Len(Joined(p, k))
  BY <1>0 DEF LengthTo
<1> HIDE DEF d, last
<1>6. /\ Joined(p, 0) = <<>>
      /\ \A k \in 1..Len(t) : Joined(p, k) = Joined(p, k - 1) \o p[k]
      /\ \A k \in 0..Len(t) : Joined(p, k) \in Seq(Char)
      /\ f = Joined(p, Len(t))
  BY <1>2, JoinedStep
<1> HIDE DEF f
<1>7. f \in Seq(Char) /\ Len(f) = d(Len(t)) /\ d(Len(t)) \in Nat
  <2>1. Len(t) \in 0..Len(t)
    BY <1>1
  <2> QED BY <1>5, <1>6, <2>1, LenProperties
<1>8. w \in Seq(Char) /\ Len(w) = Len(f) + Len(last) /\ Stands(f, w, 0) /\ Stands(last, w, Len(f))
  BY <1>1, <1>4, <1>7, ConcatStands
<1>9. d(0) = 0
  <2>1. 0 \in 0..Len(t)
    BY <1>1
  <2> QED BY <1>5, <1>6, <2>1, EmptySeq
<1>10. ASSUME NEW k \in 1..Len(t)
       PROVE  /\ d(k - 1) \in Nat
              /\ d(k) = d(k - 1) + PieceLen(g[k], t[k], o, c)
              /\ PieceStands(g[k], t[k], o, c, w, d(k - 1))
  <2>1. k \in 0..Len(t) /\ k - 1 \in 0..Len(t) /\ k \in 1..Len(p)
    BY <1>1, <1>2
  <2>2. /\ Len(Joined(p, k - 1)) \in Nat
        /\ Len(Joined(p, k)) = Len(Joined(p, k - 1)) + Len(p[k])
        /\ Stands(p[k], FlattenSeq(p), Len(Joined(p, k - 1)))
    BY <1>2, <2>1, PieceStandsIn
  <2>3. d(k - 1) \in Nat /\ d(k) = d(k - 1) + Len(p[k]) /\ Stands(p[k], f, d(k - 1))
    BY <1>5, <2>1, <2>2 DEF f
  <2>4. Stands(p[k], w, 0 + d(k - 1))
    BY <1>3, <1>7, <1>8, <2>3, StandsWithin
  <2>5. PieceStands(g[k], t[k], o, c, w, (0 + d(k - 1)) + 0)
    <3>1. 0 + d(k - 1) \in Nat
      BY <2>3
    <3> QED BY <1>1, <1>3, <1>8, <2>4, <3>1, PieceWithin
  <2>6. (0 + d(k - 1)) + 0 = d(k - 1)
    BY <2>3
  <2> QED BY <1>3, <2>3, <2>5, <2>6
<1>11. ASSUME NEW m \in Mark, Marks(m, o) + Marks(m, c) = 1 PROVE Marks(m, w) = Len(t)
  <2> DEFINE T == {k \in 0..Len(t) : Marks(m, Joined(p, k)) = k}
  <2>1. 0 \in T
    <3>1. 0 \in 0..Len(t)
      BY <1>1
    <3> QED BY <1>6, <3>1, NoText
  <2>2. ASSUME NEW k \in 0 .. Len(t) - 1, k \in T PROVE k + 1 \in T
    <3>1. k + 1 \in 1..Len(t) /\ k \in 0..Len(t) /\ k + 1 \in 0..Len(t) /\ (k + 1) - 1 = k
      BY <1>1
    <3>2. Joined(p, k + 1) = Joined(p, k) \o p[k + 1]
      BY <1>6, <3>1
    <3>3. Joined(p, k) \in Seq(Char) /\ p[k + 1] \in Seq(Char) /\ Marks(m, p[k + 1]) = 1
      BY <1>3, <1>6, <1>11, <3>1
    <3>4. Marks(m, Joined(p, k) \o p[k + 1]) = Marks(m, Joined(p, k)) + Marks(m, p[k + 1])
      BY <3>3, MarksConcat
    <3> QED BY <2>2, <3>1, <3>2, <3>3, <3>4
  <2> HIDE DEF T
  <2>3. 0..Len(t) \subseteq T
    BY <1>1, <2>1, <2>2, UpTo
  <2>4. Len(t) \in T
    BY <1>1, <2>3
  <2>5. Marks(m, f) = Len(t)
    BY <1>6, <2>4 DEF T
  <2>6. Marks(m, f \o last) = Marks(m, f) + Marks(m, last)
    BY <1>1, <1>7, MarksConcat
  <2>7. Marks(m, last) = 0
    BY <1>1, NoMarks, ByteIsNoMark
  <2>8. Marks(m, f \o last) = Len(t) + 0
    BY <2>5, <2>6, <2>7
  <2> QED BY <1>1, <1>4, <2>8
<1>12. \A k \in 1..Len(t) : WovenAt(g, t, o, c, w, k)
  BY <1>10 DEF d, WovenAt
<1>13. WovenEnds(g, t, o, c, w)
  BY <1>7, <1>8 DEF d, last, WovenEnds
<1> QED BY <1>8, <1>9, <1>11, <1>12, <1>13 DEF d

(* The file itself has no oracles.                                         *)
LEMMA PlainIsBytes ==
  ASSUME NEW g, NEW t, Fits(g, t)
  PROVE  PlainFile(g, t) \in Seq(Byte)
<1> DEFINE p == Pieces(g, t, <<>>, <<>>)
<1>1. /\ Len(t) \in Nat /\ g[Len(t) + 1] \in Seq(Byte)
      /\ \A k \in 1..Len(t) : g[k] \in Seq(Byte) /\ t[k] \in Seq(Byte)
  BY FitsIs
<1> DEFINE q(k) == g[k] \o <<>> \o t[k] \o <<>>
<1>2. \A k \in 1..Len(t) : q(k) \in Seq(Byte)
  <2> SUFFICES ASSUME NEW k \in 1..Len(t) PROVE q(k) \in Seq(Byte)
    OBVIOUS
  <2>1. <<>> \in Seq(Byte) /\ g[k] \in Seq(Byte) /\ t[k] \in Seq(Byte)
    BY <1>1
  <2>2. g[k] \o <<>> \in Seq(Byte)
    BY <2>1, ConcatProperties
  <2>3. g[k] \o <<>> \o t[k] \in Seq(Byte)
    BY <2>1, <2>2, ConcatProperties
  <2> QED BY <2>1, <2>3, ConcatProperties
<1>3. p = [k \in 1..Len(t) |-> q(k)]
  BY DEF Pieces
<1> HIDE DEF q, p
<1>4. p \in Seq(Seq(Byte))
  <2>1. [k \in 1..Len(t) |-> q(k)] \in Seq(Seq(Byte))
    BY <1>1, <1>2, IsASeq
  <2> QED BY <1>3, <2>1
<1>5. Len(p) \in 0..Len(p)
  <2>1. Len(p) \in Nat
    BY <1>4, LenProperties
  <2> QED BY <2>1
<1>6. FlattenSeq(p) \in Seq(Byte)
  <2>1. FlattenSeq(p) = Joined(p, Len(p))
    BY <1>4, JoinedStep
  <2>2. Joined(p, Len(p)) \in Seq(Byte)
    BY <1>4, <1>5, JoinedStep
  <2> QED BY <2>1, <2>2
<1> QED BY <1>1, <1>6, ConcatProperties DEF PlainFile, Woven, p

(* Each pair of oracles has one mark of either kind.                       *)
LEMMA OraclesMark ==
  /\ <<Open>> \in Seq(Char) /\ <<Close>> \in Seq(Char)
  /\ Len(<<Open>>) = 1 /\ Len(<<Close>>) = 1
  /\ <<Open>>[1] = Open /\ <<Close>>[1] = Close
  /\ \A m \in Mark : Marks(m, <<Open>>) + Marks(m, <<Close>>) = 1
<1>1. ASSUME NEW m \in Mark PROVE Marks(m, <<Open>>) + Marks(m, <<Close>>) = 1
  <2>1. Marks(m, <<Open>>) = IF Open = m THEN 1 ELSE 0
    BY OneByte
  <2>2. Marks(m, <<Close>>) = IF Close = m THEN 1 ELSE 0
    BY OneByte
  <2> QED BY <2>1, <2>2, ByteIsNoMark DEF Mark
<1>2. Open \in Char /\ Close \in Char
  BY ByteIsNoMark
<1>3. <<Open>> \in Seq(Char) /\ <<Close>> \in Seq(Char)
  BY <1>2
<1>4. /\ Len(<<Open>>) = 1 /\ Len(<<Close>>) = 1
      /\ <<Open>>[1] = Open /\ <<Close>>[1] = Close
  OBVIOUS
<1> QED BY <1>1, <1>3, <1>4

(* oracle_search *)
LEMMA SearchIs ==
  ASSUME NEW m, NEW p \in Int, swp \in Seq(Char)
  PROVE  LET q == Search(m, p) IN
         /\ q \in Int
         /\ q >= 0 => q >= p /\ q < Len(swp) /\ swp[q + 1] = m
         /\ \A i \in 1..Len(swp) : i > p /\ swp[i] = m => q >= 0 /\ q + 1 <= i
<1> DEFINE found == {i \in 1..Len(swp) : i > p /\ swp[i] = m}
<1>1. Len(swp) \in Nat
  BY LenProperties
<1>2. CASE found = {}
  BY <1>2 DEF Search
<1>3. CASE found # {}
  <2> DEFINE c == CHOOSE i \in found : \A j \in found : i <= j
  <2>1. found \subseteq Nat
    BY <1>1
  <2>2. \E i \in found : \A j \in found : i <= j
    <3> HIDE DEF found
    <3> QED BY <1>3, <2>1, Least
  <2>3. c \in found /\ \A j \in found : c <= j
    <3> HIDE DEF found
    <3> QED BY <2>2
  <2>4. Search(m, p) = c - 1
    BY <1>3 DEF Search
  <2> HIDE DEF c
  <2> QED BY <1>1, <2>3, <2>4
<1> QED BY <1>2, <1>3

(* add_oracles marks the first intervals of the list, in their order.      *)
LEMMA MarkedIs ==
  ASSUME NEW S, NEW l \in Seq(S), NEW s
  PROVE  /\ MarkedPrefix(s, l) \in Seq(S) /\ Len(MarkedPrefix(s, l)) \in 0..Len(l)
         /\ \A k \in 1..Len(MarkedPrefix(s, l)) : MarkedPrefix(s, l)[k] = l[k]
<1> DEFINE I == {i \in 1..Len(l) : l[i].base > Len(s)}
<1>0. Len(l) \in Nat
  BY LenProperties
<1>1. Marked(s, l) = IF I # {} THEN Min(I) ELSE 0
  BY DEF Marked, SelectInSeq
<1>2. CASE I = {}
  <2>1. MarkedPrefix(s, l) = l
    BY <1>1, <1>2 DEF MarkedPrefix
  <2> QED BY <1>0, <2>1
<1>3. CASE I # {}
  <2>1. \E i \in I : \A j \in I : i <= j
    <3>1. I \subseteq Nat
      BY <1>0
    <3> HIDE DEF I
    <3> QED BY <1>3, <3>1, Least
  <2>2. Min(I) \in I
    <3> HIDE DEF I
    <3> QED BY <2>1 DEF Min
  <2>3. Marked(s, l) \in 1..Len(l)
    BY <1>1, <1>3, <2>2
  <2>4. MarkedPrefix(s, l) = SubSeq(l, 1, Marked(s, l)) /\ Marked(s, l) \in 0..Len(l)
    BY <1>0, <2>3 DEF MarkedPrefix
  <2> HIDE DEF I
  <2> QED BY <1>0, <2>4, Beginning
<1> QED BY <1>2, <1>3

(* The list of a range: rows in order, none of which reaches the next.     *)
LEMMA NodesFinite ==
  ASSUME NEW r \in [OffsetId -> [base : Nat, bound : Nat, conflict : BOOLEAN]], NEW S \in SUBSET OffsetId
  PROVE  IsFiniteSet(MergedList(r, S))
<1> DEFINE B == {r[j].bound : j \in S}
<1> DEFINE Q == {q \in Lead(r, S) \X B :
                  /\ \E j \in Group(r, S, q[1]) : q[2] = r[j].bound
                  /\ \A j \in Group(r, S, q[1]) : r[j].bound <= q[2]}
<1> DEFINE N(p) == [id |-> p[1], base |-> r[p[1]].base, bound |-> p[2]]
<1> DEFINE M == {N(p) : p \in Q}
<1>0. MergedList(r, S) = M
  BY DEF MergedList
<1>1. IsFiniteSet(S) /\ IsFiniteSet(Lead(r, S))
  <2>1. Lead(r, S) \subseteq S
    BY DEF Lead
  <2> QED BY <2>1, FileSpliceAssumption, FS_Subset
<1>2. IsFiniteSet(B)
  <2> DEFINE f == [j \in S |-> r[j].bound]
  <2>1. f \in Surjection(S, B)
    BY DEF Surjection
  <2> HIDE DEF f, B
  <2> QED BY <1>1, <2>1, FS_Surjection
<1> HIDE DEF B
<1>3. IsFiniteSet(Q)
  <2>1. IsFiniteSet(Lead(r, S) \X B)
    BY <1>1, <1>2, FS_Product
  <2>2. Q \subseteq Lead(r, S) \X B
    OBVIOUS
  <2> HIDE DEF Q
  <2> QED BY <2>1, <2>2, FS_Subset
<1> HIDE DEF Q, N
<1>4. IsFiniteSet(M)
  <2> DEFINE f == [p \in Q |-> N(p)]
  <2>1. f \in Surjection(Q, M)
    BY DEF Surjection
  <2> HIDE DEF f, M
  <2> QED BY <1>3, <2>1, FS_Surjection
<1> QED BY <1>0, <1>4

(* A node takes its id and its base from one row, its bound from another.  *)
LEMMA NodeIs ==
  ASSUME NEW r \in [OffsetId -> [base : Nat, bound : Nat, conflict : BOOLEAN]],
         NEW S \in SUBSET OffsetId, NEW p \in MergedList(r, S)
  PROVE  /\ p \in [id : OffsetId, base : Nat, bound : Nat]
         /\ p.id \in Lead(r, S) /\ p.id \in S /\ p.base = r[p.id].base
         /\ \E j \in Group(r, S, p.id) : p.bound = r[j].bound
<1>1. PICK q \in Lead(r, S) \X {r[j].bound : j \in S} :
         /\ \E j \in Group(r, S, q[1]) : q[2] = r[j].bound
         /\ p = [id |-> q[1], base |-> r[q[1]].base, bound |-> q[2]]
  BY DEF MergedList
<1>2. q[1] \in Lead(r, S) /\ q[1] \in S /\ q[1] \in OffsetId
  BY <1>1 DEF Lead
<1>3. q[2] \in Nat
  BY <1>1
<1>4. r[q[1]].base \in Nat
  BY <1>2
<1>5. p.id = q[1] /\ p.base = r[q[1]].base /\ p.bound = q[2]
  BY <1>1
<1>6. p \in [id : OffsetId, base : Nat, bound : Nat]
  BY <1>1, <1>2, <1>3, <1>4
<1> QED BY <1>1, <1>2, <1>5, <1>6

(* The list is in order, and where every node is one row it has its bound. *)
LEMMA ListIs ==
  ASSUME NEW r \in [OffsetId -> [base : Nat, bound : Nat, conflict : BOOLEAN]],
         NEW S \in Ranges, NEW l \in InOrder(MergedList(r, S)),
         \A k \in 1..Len(l) : Conflict(r[l[k].id], r[l[k].id])
  PROVE  /\ l \in Seq([id : OffsetId, base : Nat, bound : Nat])
         /\ \A k \in 1..Len(l) : /\ l[k].base = r[l[k].id].base
                                 /\ r[l[k].id].base < r[l[k].id].bound
         /\ \A j, k \in 1..Len(l) : j < k => r[l[j].id].bound < r[l[k].id].base
         /\ {l[k].id : k \in 1..Len(l)} \in Ranges =>
               \A k \in 1..Len(l) : l[k].bound = r[l[k].id].bound
<1> DEFINE M == MergedList(r, S)
<1> DEFINE N == Cardinality(M)
<1> DEFINE Node == [id : OffsetId, base : Nat, bound : Nat]
<1>0. S \in SUBSET OffsetId /\ OffsetId \subseteq Nat
  BY FileSpliceAssumption
<1>1. N \in Nat
  BY <1>0, NodesFinite, FS_CardinalityType
<1>2. l \in [1..N -> M] /\ \A j, k \in 1..N : j < k => l[j].base < l[k].base
  BY DEF InOrder
<1>3. \A p \in M : /\ p \in Node
                   /\ p.id \in Lead(r, S) /\ p.id \in S /\ p.base = r[p.id].base
                   /\ \E j \in Group(r, S, p.id) : p.bound = r[j].bound
  BY <1>0, NodeIs
<1> HIDE DEF N, M, Node
<1>4. Len(l) = N /\ l \in Seq(Node)
  <2>1. l \in [1..N -> Node]
    BY <1>2, <1>3
  <2>2. l \in Seq(Node)
    BY <1>1, <2>1, SeqDef
  <2>3. DOMAIN l = 1..N /\ DOMAIN l = 1..Len(l) /\ Len(l) \in Nat
    BY <1>2, <2>2, LenProperties
  <2> QED BY <1>1, <2>2, <2>3
<1>5. \A k \in 1..N : /\ l[k] \in Node /\ l[k].id \in Lead(r, S) /\ l[k].id \in S
                      /\ l[k].base = r[l[k].id].base
                      /\ \E j \in Group(r, S, l[k].id) : l[k].bound = r[j].bound
  BY <1>2, <1>3
<1>6. \A k \in 1..N : /\ l[k].id \in OffsetId
                      /\ r[l[k].id].base \in Nat /\ r[l[k].id].bound \in Nat
                      /\ r[l[k].id].base < r[l[k].id].bound
  <2> SUFFICES ASSUME NEW k \in 1..N
               PROVE  /\ l[k].id \in OffsetId
                      /\ r[l[k].id].base \in Nat /\ r[l[k].id].bound \in Nat
                      /\ r[l[k].id].base < r[l[k].id].bound
    OBVIOUS
  <2>1. l[k].id \in OffsetId
    BY <1>0, <1>5
  <2>2. Conflict(r[l[k].id], r[l[k].id])
    BY <1>4
  <2> QED BY <2>1, <2>2 DEF Conflict
<1>7. ASSUME NEW j \in 1..N, NEW k \in 1..N, j < k PROVE r[l[j].id].bound < r[l[k].id].base
  <2>1. r[l[j].id].base < r[l[k].id].base
    BY <1>2, <1>5, <1>7
  <2>2. ~Intersect(r[l[k].id], r[l[j].id])
    BY <1>5, <2>1 DEF Lead, Prior
  <2> QED BY <1>6, <2>1, <2>2 DEF Intersect
<1>8. ASSUME {l[k].id : k \in 1..N} \in Ranges, NEW k \in 1..N PROVE l[k].bound = r[l[k].id].bound
  <2> DEFINE E == {l[j].id : j \in 1..N}
  <2> DEFINE i == l[k].id
  <2>1. E \subseteq S /\ i \in E
    BY <1>5
  <2>2. E = S
    <3>1. E \in Ranges /\ i \in E \cap S
      BY <1>8, <2>1
    <3> HIDE DEF E, i
    <3>2. E # S => E \cap S = {}
      BY <3>1, FileSpliceAssumption
    <3> QED BY <3>1, <3>2
  <2>3. S \subseteq Lead(r, S)
    BY <1>5, <2>2
  <2>4. PICK j \in Group(r, S, i) : l[k].bound = r[j].bound
    BY <1>5
  <2>5. j \in S /\ i \in S /\ ~Prior(r, j, i) /\ (Prior(r, i, j) => Prior(r, j, j))
    BY <2>1, <2>3, <2>4 DEF Group
  <2>6. j \in Nat /\ i \in Nat /\ r[i].base \in Nat /\ r[j].base \in Nat
    BY <1>0, <2>5
  <2>7. j = i
    BY <2>5, <2>6 DEF Prior
  <2> QED BY <2>4, <2>7
<1> QED BY <1>4, <1>5, <1>6, <1>7, <1>8 DEF Node

RowType == [base : Nat, bound : Nat, conflict : BOOLEAN]
Node    == [id : OffsetId, base : Nat, bound : Nat]
Update  == [backing_start : Int, backing_end : Int, swp_start : Int, swp_end : Int]

(* TypeOK, conjunct by conjunct.                                           *)
Typed ==
    /\ backing \in Seq(Char)
    /\ rows \in [OffsetId -> RowType] /\ txn \in [OffsetId -> RowType]
    /\ pc \in {"idle", "edit", "search", "resize"}
    /\ list \in Seq(Node)
    /\ left \in Seq(Char) /\ swp \in Seq(Char) /\ tail \in Seq(Char)
    /\ n \in Nat /\ o_close \in Int /\ delta \in Int
    /\ ou \in Seq(Update)
    /\ gaps \in Seq(Seq(Byte)) /\ texts \in Seq(Seq(Byte))

(* TypeOK in these words ...                                               *)
LEMMA TypedIs == Typed <=> TypeOK
  BY DEF Typed, TypeOK, RowType, Node, Update, Char, Mark

-----------------------------------------------------------------------------
(* The inductive invariant                                                 *)

Row(k)  == rows[list[k].id]
From(k) == IF k = 1 THEN 0 ELSE Row(k - 1).bound
To(k)   == IF k > Len(list) THEN Len(backing) ELSE Row(k).base

Listed ==
    /\ Len(texts) <= Len(list) /\ Len(gaps) = Len(texts) + 1
    /\ \A k \in 1..Len(list) : Row(k).base < Row(k).bound
    /\ \A j, k \in 1..Len(list) : j < k => Row(j).bound < Row(k).base

GapsPulled ==
    Unmerged /\ Len(texts) = Len(list) =>
        \A k \in 1 .. Len(list) + 1 : gaps[k] = Copy(backing, From(k), To(k) - From(k))

(* What a user leaves of the swap file.                                    *)
Above == {<<>>, <<0>>}

Whole(above) == swp = (above \o SwapFile(gaps, texts)) \o tail

OneLost(above) ==
    LET all == above \o SwapFile(gaps, texts) IN
    \E i \in {j \in 1..Len(all) : all[j] \in {Open, Close}} : swp = RemoveAt(all, i) \o tail

Saved == \E above \in Above : Whole(above) \/ OneLost(above)

(* The intervals whose oracles have been found.                            *)
FoundUpTo == IF pc = "search" THEN n - 1 ELSE Len(list)

IsFound(k) ==
    /\ 1 <= list[k].base /\ list[k].base <= list[k].bound /\ list[k].bound < Len(swp)
    /\ swp[list[k].base] = Open /\ swp[list[k].bound + 1] = Close

Found ==
    /\ n \in 1 .. Len(list) + 1
    /\ \A k \in 1..FoundUpTo : IsFound(k)
    /\ \A j, k \in 1..FoundUpTo : j < k => list[j].bound < list[k].base
    /\ pc = "search" => o_close = IF n = 1 THEN -1 ELSE list[n - 1].bound

SwapLen(k) == LengthTo(gaps, texts, <<Open>>, <<Close>>, k)

PlacedAt(above) ==
    \A k \in 1..FoundUpTo :
        /\ list[k].base = Len(above) + SwapLen(k - 1) + Len(gaps[k]) + 1
        /\ list[k].bound = list[k].base + Len(texts[k])

Placed == OraclesKept => \E above \in Above : Whole(above) /\ PlacedAt(above)

(* The updates of the intervals before n, and the rows of the others.      *)
UpdateOf(k) ==
    [backing_start |-> Row(k).base, backing_end |-> Row(k).bound,
     swp_start |-> list[k].base, swp_end |-> list[k].bound]

Updates ==
    /\ Len(ou) = n - 1
    /\ \A k \in 1 .. n - 1 : ou[k] = UpdateOf(k)
    /\ \A k \in n..Len(list) :
          /\ txn[list[k].id].base = Row(k).base + delta
          /\ txn[list[k].id].bound = Row(k).bound + delta

PlainLen(k) == LengthTo(gaps, texts, <<>>, <<>>, k)

NewEnd == From(n) + delta

EditedFollow ==
    /\ NewEnd = PlainLen(n - 1)
    /\ \A k \in 1 .. n - 1 :
          /\ txn[list[k].id].base = PlainLen(k - 1) + Len(gaps[k])
          /\ txn[list[k].id].bound = txn[list[k].id].base + Len(texts[k])
          /\ txn[list[k].id].bound <= NewEnd

Beside(i) ==
    /\ i \in OffsetId \ Edited /\ rows[i].base < rows[i].bound
    /\ \A j \in Edited : ~Conflict(rows[i], rows[j])

InGap(i, k) ==
    From(k) <= rows[i].base /\ (k <= Len(list) => rows[i].bound <= Row(k).base)

OtherFollows(i) ==
    /\ rows[i].base >= From(n) =>
          txn[i].base = rows[i].base + delta /\ txn[i].bound = rows[i].bound + delta
    /\ \A k \in 1 .. n - 1 : InGap(i, k) =>
          /\ txn[i].base = PlainLen(k - 1) + (rows[i].base - From(k))
          /\ txn[i].bound = PlainLen(k - 1) + (rows[i].bound - From(k))
          /\ txn[i].bound <= NewEnd

WithinFile == \A j \in Edited : rows[j].base <= Len(backing)

RowsFollow ==
    Unmerged /\ OraclesKept /\ WithinFile =>
        EditedFollow /\ \A i \in OffsetId : Beside(i) => OtherFollows(i)

IInv ==
    /\ TypeOK
    /\ pc # "idle" => Listed /\ GapsPulled
    /\ pc \in {"search", "resize"} => Saved /\ Found /\ Placed
    /\ pc = "resize" => Updates /\ RowsFollow

-----------------------------------------------------------------------------
(* The bytes w are all and then tl, or all but one mark.                   *)
AllOrAllButOne(w, all, tl) ==
    \/ w = all \o tl
    \/ \E i \in {j \in 1..Len(all) : all[j] \in {Open, Close}} : w = RemoveAt(all, i) \o tl

IsAll(w, all, tl) == w = all \o tl

NoneLost(w, tl, t) == \A m \in Mark : Marks(m, w) - Marks(m, tl) >= Len(t)

(* The marks that a saved swap file has, and what it is if none is lost.   *)
LEMMA SavedIs ==
  ASSUME NEW g, NEW t, Fits(g, t), NEW tl \in Seq(Char), NEW w, NEW above \in Above,
         NEW all, all = above \o SwapFile(g, t),
         AllOrAllButOne(w, all, tl)
  PROVE  /\ w \in Seq(Char) /\ all \in Seq(Char)
         /\ \A m \in Mark : Marks(m, w) - Marks(m, tl) <= Len(t)
         /\ NoneLost(w, tl, t) => IsAll(w, all, tl)
<1>1. above \in Seq(Byte) /\ above \in Seq(Char)
  <2>1. 0 \in Byte
    BY FileSpliceAssumption DEF Byte
  <2>2. <<0>> \in Seq(Byte) /\ <<>> \in Seq(Byte)
    BY <2>1
  <2> QED BY <2>2, BytesAreChars DEF Above
<1> DEFINE f == SwapFile(g, t)
<1>2. f \in Seq(Char) /\ \A m \in Mark : Marks(m, f) = Len(t)
  <2> DEFINE o == <<Open>>
  <2> DEFINE c == <<Close>>
  <2>1. /\ o \in Seq(Char) /\ c \in Seq(Char) /\ f = Woven(g, t, o, c)
        /\ \A m \in Mark : Marks(m, o) + Marks(m, c) = 1
    BY OraclesMark DEF SwapFile
  <2> HIDE DEF o, c, f
  <2>2. f \in Seq(Char)
    BY <2>1, WovenIs
  <2>3. \A m \in Mark : Marks(m, f) = Len(t)
    BY <2>1, WovenIs
  <2> QED BY <2>2, <2>3
<1> HIDE DEF f
<1>3. all \in Seq(Char) /\ \A m \in Mark : Marks(m, all) = Len(t)
  <2>1. above \o f \in Seq(Char) /\ all = above \o f
    BY <1>1, <1>2, ConcatProperties DEF f
  <2>2. ASSUME NEW m \in Mark PROVE Marks(m, above \o f) = Len(t)
    <3>1. Marks(m, above \o f) = Marks(m, above) + Marks(m, f)
      BY <1>1, <1>2, MarksConcat
    <3>2. Marks(m, above) = 0
      BY <1>1, NoMarks, ByteIsNoMark
    <3>3. Len(t) \in Nat
      BY FitsIs
    <3> QED BY <1>2, <3>1, <3>2, <3>3
  <2> QED BY <2>1, <2>2
<1>4. \A m \in Mark : Marks(m, tl) \in Nat
  BY PositionsFinite
<1>5. Len(t) \in Nat
  BY FitsIs
<1>6. CASE w = all \o tl
  <2>1. w \in Seq(Char)
    BY <1>3, <1>6, ConcatProperties
  <2>2. ASSUME NEW m \in Mark PROVE Marks(m, w) = Len(t) + Marks(m, tl)
    <3>1. Marks(m, all \o tl) = Marks(m, all) + Marks(m, tl)
      BY <1>3, MarksConcat
    <3> QED BY <1>3, <1>6, <3>1
  <2> QED BY <1>3, <1>4, <1>5, <1>6, <2>1, <2>2 DEF IsAll
<1>7. ASSUME NEW i \in 1..Len(all), all[i] \in {Open, Close}, w = RemoveAt(all, i) \o tl
      PROVE  /\ w \in Seq(Char)
             /\ \A m \in Mark : Marks(m, w) - Marks(m, tl) <= Len(t)
             /\ ~NoneLost(w, tl, t)
  <2> DEFINE r == RemoveAt(all, i)
  <2>1. r \in Seq(Char)
    BY <1>3, OneRemoved
  <2>2. ASSUME NEW m \in Mark PROVE Len(t) = Marks(m, r) + (IF all[i] = m THEN 1 ELSE 0)
    <3>1. all[i] = m => Marks(m, all) = Marks(m, r) + 1
      BY <1>3, OneRemoved
    <3>2. all[i] # m => Marks(m, all) = Marks(m, r)
      BY <1>3, OneRemoved
    <3>3. Marks(m, r) \in Nat /\ Marks(m, all) = Len(t)
      BY <1>3, <2>1, PositionsFinite
    <3> HIDE DEF r
    <3> QED BY <3>1, <3>2, <3>3
  <2> HIDE DEF r
  <2>3. w = r \o tl
    BY <1>7 DEF r
  <2>4. w \in Seq(Char)
    BY <2>1, <2>3, ConcatProperties
  <2>5. ASSUME NEW m \in Mark PROVE Marks(m, w) = Marks(m, r) + Marks(m, tl) /\ Marks(m, r) \in Nat
    BY <2>1, <2>3, MarksConcat, PositionsFinite
  <2>6. all[i] \in Mark
    BY <1>7 DEF Mark
  <2>7. \A m \in Mark : Marks(m, w) - Marks(m, tl) <= Len(t)
    BY <1>4, <1>5, <2>2, <2>5
  <2>8. Marks(all[i], w) - Marks(all[i], tl) < Len(t)
    <3>1. Len(t) = Marks(all[i], r) + 1
      BY <2>2, <2>6
    <3> QED BY <1>4, <1>5, <2>5, <2>6, <3>1
  <2>9. Marks(all[i], w) \in Nat
    BY <2>4, PositionsFinite
  <2>10. ~NoneLost(w, tl, t)
    BY <1>4, <1>5, <2>6, <2>8, <2>9 DEF NoneLost
  <2> QED BY <2>4, <2>7, <2>10
<1>8. CASE \E i \in {j \in 1..Len(all) : all[j] \in {Open, Close}} : w = RemoveAt(all, i) \o tl
  <2>1. PICK i \in 1..Len(all) : all[i] \in {Open, Close} /\ w = RemoveAt(all, i) \o tl
    BY <1>8
  <2>2. /\ w \in Seq(Char)
        /\ \A m \in Mark : Marks(m, w) - Marks(m, tl) <= Len(t)
        /\ ~NoneLost(w, tl, t)
    BY <1>7, <2>1
  <2> QED BY <1>3, <2>2
<1> QED BY <1>6, <1>8 DEF AllOrAllButOne

(* ... and of the next state.                                              *)
LEMMA TypedNext == Typed' => TypeOK'
  BY DEF Typed, TypeOK, RowType, Node, Update, Char, Mark

(* What Listed and GapsPulled depend on.                                   *)
LEMMA ListedKept ==
  ASSUME Listed, GapsPulled, rows' = rows, backing' = backing, gaps' = gaps,
         Len(texts') = Len(texts), Len(list') = Len(list), Len(list) \in Nat,
         \A k \in 1..Len(list) : list'[k].id = list[k].id
  PROVE  /\ Listed' /\ GapsPulled'
         /\ \A k \in 1..Len(list) : Row(k)' = Row(k)
         /\ \A k \in 1 .. Len(list) + 1 : From(k)' = From(k) /\ To(k)' = To(k)
         /\ Edited' = Edited
<1>1. \A k \in 1..Len(list) : Row(k)' = Row(k)
  BY DEF Row
<1>2. Edited' = Edited
  BY DEF Edited
<1>3. ASSUME NEW k \in 1 .. Len(list) + 1 PROVE From(k)' = From(k)
  <2>1. CASE k = 1
    BY <2>1 DEF From
  <2>2. CASE k # 1
    <3>1. k - 1 \in 1..Len(list)
      BY <2>2
    <3>2. Row(k - 1)' = Row(k - 1)
      BY <1>1, <3>1
    <3> QED BY <2>2, <3>2 DEF From
  <2> QED BY <2>1, <2>2
<1>4. ASSUME NEW k \in 1 .. Len(list) + 1 PROVE To(k)' = To(k)
  <2>1. CASE k > Len(list)
    BY <2>1 DEF To
  <2>2. CASE ~(k > Len(list))
    <3>1. k \in 1..Len(list)
      BY <2>2
    <3>2. Row(k)' = Row(k)
      BY <1>1, <3>1
    <3> QED BY <2>2, <3>2 DEF To
  <2> QED BY <2>1, <2>2
<1>5. Listed'
  BY <1>1 DEF Listed
<1>6. GapsPulled'
  BY <1>2, <1>3, <1>4 DEF GapsPulled, Unmerged
<1> QED BY <1>1, <1>2, <1>3, <1>4, <1>5, <1>6

-----------------------------------------------------------------------------
(* Pull *)

(* Pull (add_oracles) starts a session in which the gaps are those of the  *)
(* file.                                                                   *)
LEMMA PullStep ==
  ASSUME IInv, NEW S \in Ranges, Pull(S)
  PROVE  IInv'
<1> DEFINE l == MarkedPrefix(backing, list')
<1>0. Typed
  BY TypedIs DEF IInv
<1>1. /\ list' \in Seq(Node)
      /\ \A k \in 1..Len(list') : /\ list'[k].base = rows[list'[k].id].base
                                  /\ rows[list'[k].id].base < rows[list'[k].id].bound
      /\ \A j, k \in 1..Len(list') : j < k => rows[list'[j].id].bound < rows[list'[k].id].base
      /\ {list'[k].id : k \in 1..Len(list')} \in Ranges =>
               \A k \in 1..Len(list') : list'[k].bound = rows[list'[k].id].bound
  <2>1. rows \in [OffsetId -> [base : Nat, bound : Nat, conflict : BOOLEAN]]
    BY <1>0 DEF Typed, RowType
  <2>2. /\ list' \in InOrder(MergedList(rows, S))
        /\ \A k \in 1..Len(list') : Conflict(rows[list'[k].id], rows[list'[k].id])
    BY DEF Pull
  <2> DEFINE ll == list'
  <2> HIDE DEF ll
  <2>3. /\ ll \in InOrder(MergedList(rows, S))
        /\ \A k \in 1..Len(ll) : Conflict(rows[ll[k].id], rows[ll[k].id])
    BY <2>2 DEF ll
  <2>4. ll \in Seq([id : OffsetId, base : Nat, bound : Nat])
    BY <2>1, <2>3, ListIs
  <2>5. \A k \in 1..Len(ll) : /\ ll[k].base = rows[ll[k].id].base
                              /\ rows[ll[k].id].base < rows[ll[k].id].bound
    BY <2>1, <2>3, ListIs
  <2>6. \A j, k \in 1..Len(ll) : j < k => rows[ll[j].id].bound < rows[ll[k].id].base
    BY <2>1, <2>3, ListIs
  <2>7. {ll[k].id : k \in 1..Len(ll)} \in Ranges =>
               \A k \in 1..Len(ll) : ll[k].bound = rows[ll[k].id].bound
    BY <2>1, <2>3, ListIs
  <2> QED BY <2>4, <2>5, <2>6, <2>7 DEF ll, Node
<1>2. backing \in Seq(Byte)
  <2>1. Range(backing) \cap {Open, Close} = {}
    BY DEF Pull
  <2>2. backing \in Seq(Char) /\ backing \in [1..Len(backing) -> Char] /\ Len(backing) \in Nat
    BY <1>0, LenProperties DEF Typed
  <2>3. \A k \in 1..Len(backing) : backing[k] \in Byte
    BY <2>1, <2>2 DEF Range, Char, Mark
  <2>4. backing \in [1..Len(backing) -> Byte]
    BY <2>2, <2>3
  <2> QED BY <2>2, <2>4, SeqDef
<1>3. /\ l \in Seq(Node) /\ Len(l) \in 0..Len(list') /\ Len(list') \in Nat
      /\ \A k \in 1..Len(l) : l[k] = list'[k] /\ l[k].base \in Nat /\ l[k].bound \in Nat
  <2>1. l \in Seq(Node) /\ Len(l) \in 0..Len(list') /\ \A k \in 1..Len(l) : l[k] = list'[k]
    BY <1>1, MarkedIs
  <2> HIDE DEF l
  <2>2. \A k \in 1..Len(l) : l[k] \in Node
    BY <2>1, ElementOfSeq
  <2> QED BY <1>1, <2>1, <2>2, LenProperties DEF Node
<1>4. /\ gaps' = [k \in 1 .. Len(l) + 1 |-> GapBefore(backing, l, k)]
      /\ texts' = [k \in 1..Len(l) |-> TextOf(backing, l[k])]
  BY DEF Pull
<1>5. rows' = rows /\ backing' = backing /\ txn' = txn /\ left' = <<>> /\ pc' = "edit"
      /\ n' = n /\ o_close' = o_close /\ delta' = delta /\ ou' = ou
  BY DEF Pull
<1>6. tail' = Remainder(SwapFile(gaps', texts')) /\ swp' = SwapFile(gaps', texts') \o tail'
  BY DEF Pull
<1> HIDE DEF l
<1>7. \A k \in 1 .. Len(l) + 1 : GapBefore(backing, l, k) \in Seq(Byte)
  <2> SUFFICES ASSUME NEW k \in 1 .. Len(l) + 1 PROVE GapBefore(backing, l, k) \in Seq(Byte)
    OBVIOUS
  <2> DEFINE from == IF k = 1 THEN 0 ELSE l[k - 1].bound
  <2> DEFINE to == IF k > Len(l) THEN Len(backing) ELSE l[k].base
  <2>1. from \in Nat
    <3>1. CASE k = 1
      BY <3>1
    <3>2. CASE k # 1
      <4>1. k - 1 \in 1..Len(l)
        BY <1>3, <3>2
      <4> QED BY <1>3, <3>2, <4>1
    <3> QED BY <3>1, <3>2
  <2>2. to \in Nat
    <3>1. CASE k > Len(l)
      BY <1>2, <3>1, LenProperties
    <3>2. CASE ~(k > Len(l))
      <4>1. k \in 1..Len(l)
        BY <1>3, <3>2
      <4> QED BY <1>3, <3>2, <4>1
    <3> QED BY <3>1, <3>2
  <2>3. GapBefore(backing, l, k) = Copy(backing, from, to - from)
    BY DEF GapBefore
  <2> HIDE DEF from, to
  <2>4. to - from \in Int
    BY <2>1, <2>2
  <2> QED BY <1>2, <2>1, <2>3, <2>4, CopyIs
<1>8. \A k \in 1..Len(l) : TextOf(backing, l[k]) \in Seq(Byte)
  <2> SUFFICES ASSUME NEW k \in 1..Len(l) PROVE TextOf(backing, l[k]) \in Seq(Byte)
    OBVIOUS
  <2>1. l[k].base \in Nat /\ l[k].bound - l[k].base \in Int
    BY <1>3
  <2> QED BY <1>2, <2>1, CopyIs DEF TextOf
<1>9. gaps' \in Seq(Seq(Byte)) /\ Len(gaps') = Len(l) + 1 /\ texts' \in Seq(Seq(Byte)) /\ Len(texts') = Len(l)
  <2>1. Len(l) \in Nat /\ Len(l) + 1 \in Nat
    BY <1>3
  <2>2. gaps' \in [1 .. Len(l) + 1 -> Seq(Byte)]
    BY <1>4, <1>7
  <2>3. texts' \in [1..Len(l) -> Seq(Byte)]
    BY <1>4, <1>8
  <2>4. gaps' \in Seq(Seq(Byte)) /\ Len(gaps') = Len(l) + 1
    BY <2>1, <2>2, FunctionIsText
  <2>5. texts' \in Seq(Seq(Byte)) /\ Len(texts') = Len(l)
    BY <2>1, <2>3, FunctionIsText
  <2> QED BY <2>4, <2>5
<1>10. swp' \in Seq(Char) /\ tail' \in Seq(Char)
  <2> DEFINE f == SwapFile(gaps', texts')
  <2>1. Fits(gaps', texts')
    BY <1>9 DEF Fits
  <2>2. f \in Seq(Char)
    <3> DEFINE o == <<Open>>
    <3> DEFINE c == <<Close>>
    <3>1. o \in Seq(Char) /\ c \in Seq(Char) /\ f = Woven(gaps', texts', o, c)
      BY OraclesMark DEF SwapFile
    <3> HIDE DEF o, c, f
    <3> QED BY <2>1, <3>1, WovenIs
  <2> HIDE DEF f
  <2>3. tail' \in Seq(Char)
    <3>1. left \in Seq(Char) /\ Len(left) \in Nat /\ Len(f) \in Nat
      BY <1>0, <2>2, LenProperties DEF Typed
    <3>2. \A i \in Len(f) + 1 .. Len(left) : left[i] \in Char
      <4>1. \A i \in Len(f) + 1 .. Len(left) : i \in 1..Len(left)
        BY <3>1
      <4> QED BY <3>1, <4>1, ElementOfSeq
    <3>3. SubSeq(left, Len(f) + 1, Len(left)) \in Seq(Char)
      BY <3>1, <3>2, SubSeqProperties
    <3> QED BY <1>6, <3>3 DEF Remainder, f
  <2>4. swp' = f \o tail'
    BY <1>6 DEF f
  <2> QED BY <2>2, <2>3, <2>4, ConcatProperties
<1>11. TypeOK'
  <2>1. <<>> \in Seq(Char)
    OBVIOUS
  <2> QED BY <1>0, <1>1, <1>5, <1>9, <1>10, <2>1, TypedNext DEF Typed
<1>12. Listed'
  BY <1>1, <1>3, <1>5, <1>9 DEF Listed, Row
<1>13. GapsPulled'
  <2> SUFFICES ASSUME Edited' \in Ranges, Len(texts') = Len(list'), NEW k \in 1 .. Len(list') + 1
               PROVE  gaps'[k] = Copy(backing', From(k)', To(k)' - From(k)')
    BY DEF GapsPulled, Unmerged
  <2>1. \A j \in 1..Len(list') : list'[j].bound = rows[list'[j].id].bound
    BY <1>1 DEF Edited
  <2>2. Len(l) = Len(list') /\ \A j \in 1..Len(list') : l[j] = list'[j]
    BY <1>3, <1>9
  <2>3. gaps'[k] = GapBefore(backing, l, k)
    BY <1>4, <2>2
  <2>4. From(k)' = IF k = 1 THEN 0 ELSE l[k - 1].bound
    <3>1. CASE k = 1
      BY <3>1 DEF From
    <3>2. CASE k # 1
      <4>1. k - 1 \in 1..Len(list')
        BY <1>3, <3>2
      <4> QED BY <1>5, <2>1, <2>2, <3>2, <4>1 DEF From, Row
    <3> QED BY <3>1, <3>2
  <2>5. To(k)' = IF k > Len(l) THEN Len(backing) ELSE l[k].base
    <3>1. CASE k > Len(l)
      BY <1>5, <2>2, <3>1 DEF To
    <3>2. CASE ~(k > Len(l))
      <4>1. k \in 1..Len(list')
        BY <1>3, <2>2, <3>2
      <4> QED BY <1>1, <1>5, <2>2, <3>2, <4>1 DEF To, Row
    <3> QED BY <3>1, <3>2
  <2> QED BY <1>5, <2>3, <2>4, <2>5 DEF GapBefore
<1> QED BY <1>5, <1>11, <1>12, <1>13 DEF IInv

(* The types of what a session has in hand.                                *)
LEMMA InSession ==
  ASSUME IInv, pc # "idle"
  PROVE  /\ Typed /\ Listed /\ GapsPulled /\ Fits(gaps, texts)
         /\ Len(list) \in Nat /\ Len(texts) \in Nat /\ Len(texts) <= Len(list)
         /\ \A k \in 1..Len(list) : /\ list[k].id \in OffsetId
                                    /\ list[k].base \in Nat /\ list[k].bound \in Nat
                                    /\ Row(k) \in RowType
                                    /\ Row(k).base \in Nat /\ Row(k).bound \in Nat
<1>1. Typed /\ Listed /\ GapsPulled
  BY TypedIs DEF IInv
<1>2. Fits(gaps, texts)
  BY <1>1 DEF Typed, Listed, Fits
<1>3. Len(list) \in Nat /\ Len(texts) \in Nat /\ Len(texts) <= Len(list)
  BY <1>1, LenProperties DEF Typed, Listed
<1>4. ASSUME NEW k \in 1..Len(list)
      PROVE  /\ list[k].id \in OffsetId /\ list[k].base \in Nat /\ list[k].bound \in Nat
             /\ Row(k) \in RowType /\ Row(k).base \in Nat /\ Row(k).bound \in Nat
  <2>1. list[k] \in Node
    BY <1>1, ElementOfSeq DEF Typed
  <2>2. list[k].id \in OffsetId /\ list[k].base \in Nat /\ list[k].bound \in Nat
    BY <2>1 DEF Node
  <2>3. Row(k) \in RowType
    BY <1>1, <2>2 DEF Row, Typed
  <2> QED BY <2>2, <2>3 DEF RowType
<1> QED BY <1>1, <1>2, <1>3, <1>4

-----------------------------------------------------------------------------
(* Save *)

(* Save (the editor) loses at most one mark.                               *)
LEMMA SaveStep ==
  ASSUME IInv, Save
  PROVE  IInv'
<1>0. pc = "edit"
  BY DEF Save
<1>1. /\ Typed /\ Listed /\ GapsPulled /\ Fits(gaps, texts)
      /\ Len(list) \in Nat /\ Len(texts) \in Nat /\ Len(texts) <= Len(list)
  BY <1>0, InSession
<1>2. PICK new \in {t \in [1..Len(texts) -> Texts \cup Range(texts)] :
                      \A k \in 1..Len(texts) : t[k] \in Texts \cup {texts[k]}},
           above \in Above :
         /\ texts' = new
         /\ \/ swp' = (above \o SwapFile(gaps, new)) \o tail
            \/ \E i \in {j \in 1..Len(above \o SwapFile(gaps, new)) :
                            (above \o SwapFile(gaps, new))[j] \in {Open, Close}} :
                  swp' = RemoveAt(above \o SwapFile(gaps, new), i) \o tail
  BY DEF Save, Above
<1>3. /\ pc' = "search" /\ n' = 1 /\ o_close' = -1
      /\ backing' = backing /\ rows' = rows /\ txn' = txn /\ left' = left /\ list' = list
      /\ tail' = tail /\ delta' = delta /\ ou' = ou /\ gaps' = gaps
  BY DEF Save
<1>4. new \in Seq(Seq(Byte)) /\ Len(new) = Len(texts)
  <2>1. \A k \in 1..Len(texts) : texts[k] \in Seq(Byte)
    BY <1>1, ElementOfSeq DEF Typed
  <2>2. Texts \subseteq Seq(Byte)
    BY FileSpliceAssumption
  <2>3. \A k \in 1..Len(texts) : new[k] \in Texts \cup {texts[k]}
    BY <1>2
  <2>4. \A k \in 1..Len(texts) : new[k] \in Seq(Byte)
    BY <2>1, <2>2, <2>3
  <2>5. new \in [1..Len(texts) -> Texts \cup Range(texts)]
    BY <1>2
  <2>6. new \in [1..Len(texts) -> Seq(Byte)]
    BY <2>4, <2>5
  <2> QED BY <1>1, <2>6, FunctionIsText
<1>5. Fits(gaps, new) /\ tail \in Seq(Char)
  BY <1>1, <1>4 DEF Fits, Typed
<1> DEFINE all == above \o SwapFile(gaps, new)
<1>6. \/ swp' = all \o tail
      \/ \E i \in {j \in 1..Len(all) : all[j] \in {Open, Close}} : swp' = RemoveAt(all, i) \o tail
  BY <1>2
<1>7. /\ swp' \in Seq(Char)
      /\ NoneLost(swp', tail, new) => swp' = all \o tail
  <2> DEFINE w == swp'
  <2>1. all = above \o SwapFile(gaps, new)
    OBVIOUS
  <2>2. AllOrAllButOne(w, all, tail)
    BY <1>6 DEF AllOrAllButOne
  <2> HIDE DEF all, w
  <2>3. w \in Seq(Char)
    BY <1>2, <1>5, <2>1, <2>2, SavedIs
  <2>4. NoneLost(w, tail, new) => w = all \o tail
    <3>1. NoneLost(w, tail, new) => IsAll(w, all, tail)
      BY <1>2, <1>5, <2>1, <2>2, SavedIs
    <3> QED BY <3>1 DEF IsAll
  <2> QED BY <2>3, <2>4 DEF w
<1>8. TypeOK'
  BY <1>1, <1>2, <1>3, <1>4, <1>7, TypedNext DEF Typed
<1>9. Listed' /\ GapsPulled'
  BY <1>1, <1>2, <1>3, <1>4, ListedKept
<1>10. Saved'
  <2>1. Whole(above)' \/ OneLost(above)'
    BY <1>2, <1>3 DEF Whole, OneLost
  <2> QED BY <2>1 DEF Saved
<1>11. FoundUpTo' = 0
  BY <1>3 DEF FoundUpTo
<1>12. Found'
  BY <1>1, <1>3, <1>11 DEF Found
<1>13. Placed'
  <2> SUFFICES ASSUME OraclesKept' PROVE \E a \in Above : Whole(a)' /\ PlacedAt(a)'
    BY DEF Placed
  <2>1. \A m \in Mark : Marks(m, swp') - Marks(m, tail) = Len(list)
    BY <1>3 DEF OraclesKept, Mark
  <2>2. NoneLost(swp', tail, new)
    BY <1>1, <1>4, <2>1 DEF NoneLost
  <2>3. Whole(above)'
    BY <1>2, <1>3, <1>7, <2>2 DEF Whole
  <2>4. PlacedAt(above)'
    BY <1>11 DEF PlacedAt
  <2> QED BY <2>3, <2>4
<1> QED BY <1>3, <1>8, <1>9, <1>10, <1>12, <1>13 DEF IInv

-----------------------------------------------------------------------------
(* FindOracles *)

(* A node gets both its ends.                                              *)
LEMMA NodeChanged ==
  ASSUME NEW x \in Node, NEW b, NEW c
  PROVE  [[x EXCEPT !.base = b] EXCEPT !.bound = c] = [id |-> x.id, base |-> b, bound |-> c]
<1> DEFINE y == [x EXCEPT !.base = b]
<1>1. y = [id |-> x.id, base |-> b, bound |-> x.bound]
  BY DEF Node
<1> HIDE DEF y
<1>2. [y EXCEPT !.bound = c] = [id |-> x.id, base |-> b, bound |-> c]
  BY <1>1
<1> QED BY <1>2 DEF y

(* What a turn of push_swap_file does that finds both oracles.             *)
LEMMA FoundNext ==
  ASSUME IInv, FindOracles, ~Missing(Search(Open, o_close + 1), Search(Close, Search(Open, o_close + 1) + 1))
  PROVE  LET open  == Search(Open, o_close + 1)
             close == Search(Close, open + 1) IN
         /\ pc = "search" /\ pc' = "search" /\ n \in 1..Len(list) /\ n' = n + 1 /\ o_close' = close
         /\ backing' = backing /\ rows' = rows /\ txn' = txn /\ left' = left /\ swp' = swp
         /\ tail' = tail /\ delta' = delta /\ ou' = ou /\ gaps' = gaps /\ texts' = texts
         /\ list' \in Seq(Node) /\ Len(list') = Len(list)
         /\ \A k \in 1..Len(list) : list'[k].id = list[k].id
         /\ \A k \in 1..Len(list) : k # n => list'[k] = list[k]
         /\ list'[n].base = open + 1 /\ list'[n].bound = close
         /\ open \in Nat /\ close \in Nat /\ o_close + 1 <= open /\ open + 1 <= close /\ close < Len(swp)
         /\ swp[open + 1] = Open /\ swp[close + 1] = Close
<1> DEFINE open  == Search(Open, o_close + 1)
<1> DEFINE close == Search(Close, open + 1)
<1>0. pc = "search" /\ n <= Len(list)
  BY DEF FindOracles
<1>1. /\ Typed /\ Found /\ Len(list) \in Nat
      /\ \A k \in 1..Len(list) : list[k].id \in OffsetId
  BY <1>0, InSession DEF IInv
<1>2. n \in 1..Len(list)
  BY <1>0, <1>1 DEF Found
<1>3. swp \in Seq(Char) /\ o_close + 1 \in Int
  BY <1>1 DEF Typed
<1>4. open \in Int /\ (open >= 0 => open >= o_close + 1 /\ open < Len(swp) /\ swp[open + 1] = Open)
  BY <1>3, SearchIs
<1>5. open + 1 \in Int
  BY <1>4
<1> HIDE DEF open
<1>6. close \in Int /\ (close >= 0 => close >= open + 1 /\ close < Len(swp) /\ swp[close + 1] = Close)
  BY <1>3, <1>5, SearchIs
<1> HIDE DEF close
<1>7. open >= 0 /\ close >= 0
  <2>1. ~Missing(open, close)
    BY DEF open, close
  <2> QED BY <1>4, <1>6, <2>1 DEF Missing
<1>8. /\ pc' = pc /\ n' = n + 1 /\ o_close' = close
      /\ list' = [list EXCEPT ![n].base = open + 1, ![n].bound = close]
      /\ backing' = backing /\ rows' = rows /\ txn' = txn /\ left' = left /\ swp' = swp
      /\ tail' = tail /\ delta' = delta /\ ou' = ou /\ gaps' = gaps /\ texts' = texts
  BY DEF FindOracles, open, close
<1>9. list \in Seq(Node) /\ list \in [1..Len(list) -> Node]
  BY <1>1, LenProperties DEF Typed
<1> DEFINE node == [id |-> list[n].id, base |-> open + 1, bound |-> close]
<1>11. node \in Node
  BY <1>1, <1>2, <1>4, <1>6, <1>7 DEF Node
<1>10. list' \in [1..Len(list) -> Node] /\ \A k \in 1..Len(list) : list'[k] = IF k = n THEN node ELSE list[k]
  <2>1. /\ DOMAIN list' = DOMAIN list
        /\ \A k \in 1..Len(list) : k # n => list'[k] = list[k]
        /\ list'[n] = [[list[n] EXCEPT !.base = open + 1] EXCEPT !.bound = close]
    BY <1>2, <1>8, <1>9
  <2>2. list[n] \in Node
    BY <1>2, <1>9
  <2>3. [[list[n] EXCEPT !.base = open + 1] EXCEPT !.bound = close] = node
    <3>1. node = [id |-> list[n].id, base |-> open + 1, bound |-> close]
      OBVIOUS
    <3> HIDE DEF node
    <3> QED BY <2>2, <3>1, NodeChanged
  <2>4. list' = [k \in 1..Len(list) |-> list'[k]]
    BY <1>8, <1>9
  <2>5. \A k \in 1..Len(list) : list'[k] = IF k = n THEN node ELSE list[k]
    BY <2>1, <2>3
  <2> HIDE DEF node
  <2>6. \A k \in 1..Len(list) : list'[k] \in Node
    BY <1>9, <1>11, <2>5
  <2> QED BY <2>4, <2>5, <2>6
<1>12. /\ list' \in Seq(Node) /\ Len(list') = Len(list)
       /\ \A k \in 1..Len(list) : list'[k] = IF k = n THEN node ELSE list[k]
  <2> HIDE DEF node
  <2> QED BY <1>1, <1>10, FunctionIsText
<1>13. /\ \A k \in 1..Len(list) : list'[k].id = list[k].id
       /\ \A k \in 1..Len(list) : k # n => list'[k] = list[k]
       /\ list'[n].base = open + 1 /\ list'[n].bound = close
  BY <1>2, <1>12
<1> HIDE DEF node
<1> QED BY <1>0, <1>2, <1>4, <1>6, <1>7, <1>8, <1>12, <1>13 DEF open, close

(* The first mark from offset p on is at offset q.                         *)
LEMMA SearchFinds ==
  ASSUME NEW m, NEW p \in Nat, NEW q \in Nat, swp \in Seq(Char),
         p <= q, q < Len(swp), swp[q + 1] = m, \A i \in p + 1 .. q : swp[i] # m
  PROVE  Search(m, p) = q
<1> DEFINE f == Search(m, p)
<1>1. Len(swp) \in Nat /\ p \in Int
  BY LenProperties
<1>2. /\ f \in Int
      /\ f >= 0 => f >= p /\ f < Len(swp) /\ swp[f + 1] = m
      /\ \A i \in 1..Len(swp) : i > p /\ swp[i] = m => f >= 0 /\ f + 1 <= i
  BY <1>1, SearchIs
<1> HIDE DEF f
<1>3. q + 1 \in 1..Len(swp) /\ q + 1 > p
  BY <1>1
<1>4. f >= 0 /\ f + 1 <= q + 1
  BY <1>2, <1>3
<1>5. f + 1 \notin p + 1 .. q
  BY <1>2, <1>4
<1>6. f = q
  BY <1>1, <1>2, <1>4, <1>5
<1> QED BY <1>6 DEF f

(* Gap a, and text b between the two oracles, stand in w from d on.        *)
OraclesStand(a, b, w, d) ==
    /\ d + Len(a) + Len(b) + 2 <= Len(w)
    /\ \A i \in 1..Len(a) : w[d + i] = a[i]
    /\ w[d + Len(a) + 1] = Open
    /\ \A i \in 1..Len(b) : w[d + Len(a) + 1 + i] = b[i]
    /\ w[d + Len(a) + Len(b) + 2] = Close

(* Where the parts of a piece with its two oracles stand.                  *)
LEMMA OraclesStandIs ==
  ASSUME NEW a \in Seq(Char), NEW b \in Seq(Char), NEW o \in Seq(Char), NEW c \in Seq(Char),
         NEW w \in Seq(Char), NEW d \in Nat, Len(o) = 1, Len(c) = 1, o[1] = Open, c[1] = Close,
         PieceStands(a, b, o, c, w, d)
  PROVE  OraclesStand(a, b, w, d)
<1>1. Len(a) \in Nat /\ Len(b) \in Nat /\ Len(w) \in Nat
  BY LenProperties
<1>2. Stands(a, w, d) /\ Stands(o, w, d + Len(a)) /\ Stands(b, w, d + Len(a) + 1)
      /\ Stands(c, w, d + Len(a) + 1 + Len(b))
  BY DEF PieceStands
<1>3. \A i \in 1..Len(a) : w[d + i] = a[i]
  BY <1>2 DEF Stands
<1>4. w[d + Len(a) + 1] = Open
  <2>1. \A i \in 1..Len(o) : w[(d + Len(a)) + i] = o[i]
    BY <1>2 DEF Stands
  <2>2. 1 \in 1..Len(o)
    OBVIOUS
  <2> QED BY <2>1, <2>2
<1>5. \A i \in 1..Len(b) : w[d + Len(a) + 1 + i] = b[i]
  BY <1>2 DEF Stands
<1>6. w[d + Len(a) + Len(b) + 2] = Close /\ d + Len(a) + Len(b) + 2 <= Len(w)
  <2>1. /\ \A i \in 1..Len(c) : w[(d + Len(a) + 1 + Len(b)) + i] = c[i]
        /\ d + Len(a) + 1 + Len(b) + Len(c) <= Len(w)
    BY <1>2 DEF Stands
  <2>2. 1 \in 1..Len(c)
    OBVIOUS
  <2>3. w[(d + Len(a) + 1 + Len(b)) + 1] = Close
    BY <2>1, <2>2
  <2>4. (d + Len(a) + 1 + Len(b)) + 1 = d + Len(a) + Len(b) + 2
    BY <1>1
  <2> QED BY <1>1, <2>1, <2>3, <2>4
<1> QED BY <1>3, <1>4, <1>5, <1>6 DEF OraclesStand

(* The length of a piece with its two oracles.                             *)
LEMMA MarkedLen ==
  ASSUME NEW a \in Seq(Char), NEW b \in Seq(Char), NEW o \in Seq(Char), NEW c \in Seq(Char),
         Len(o) = 1, Len(c) = 1, NEW d \in Nat, NEW e, e = d + PieceLen(a, b, o, c)
  PROVE  e = d + Len(a) + Len(b) + 2
<1>1. Len(a) \in Nat /\ Len(b) \in Nat
  BY LenProperties
<1> QED BY <1>1 DEF PieceLen

(* Where the oracles are in a swap file that has them all.                 *)
OraclesTo(g, t, k) == LengthTo(g, t, <<Open>>, <<Close>>, k)

OracleAt(g, t, w, above, k) ==
    /\ OraclesTo(g, t, k - 1) \in Nat
    /\ OraclesTo(g, t, k) = OraclesTo(g, t, k - 1) + Len(g[k]) + Len(t[k]) + 2
    /\ OraclesStand(g[k], t[k], w, Len(above) + OraclesTo(g, t, k - 1))

(* Every piece of a swap file that has lost no mark stands in it.          *)
LEMMA KeptStands ==
  ASSUME NEW g, NEW t, Fits(g, t), NEW above \in Above, NEW tl \in Seq(Char),
         NEW w, w = (above \o SwapFile(g, t)) \o tl
  PROVE  /\ w \in Seq(Char) /\ Len(above) \in Nat /\ OraclesTo(g, t, 0) = 0
         /\ \A i \in 1..Len(above) : w[i] \in Byte
         /\ \A k \in 1..Len(t) : OracleAt(g, t, w, above, k)
<1> DEFINE o == <<Open>>
<1> DEFINE c == <<Close>>
<1> DEFINE f == SwapFile(g, t)
<1>1. above \in Seq(Byte) /\ above \in Seq(Char)
  <2>1. 0 \in Byte
    BY FileSpliceAssumption DEF Byte
  <2>2. <<0>> \in Seq(Byte) /\ <<>> \in Seq(Byte)
    BY <2>1
  <2> QED BY <2>2, BytesAreChars DEF Above
<1>2. o \in Seq(Char) /\ c \in Seq(Char) /\ Len(o) = 1 /\ Len(c) = 1 /\ o[1] = Open /\ c[1] = Close
  BY OraclesMark
<1>3. f = Woven(g, t, o, c) /\ \A k : OraclesTo(g, t, k) = LengthTo(g, t, o, c, k)
  BY DEF SwapFile, OraclesTo
<1> HIDE DEF o, c, f
<1>4. f \in Seq(Char) /\ OraclesTo(g, t, 0) = 0
  BY <1>2, <1>3, WovenIs
<1>5. ASSUME NEW k \in 1..Len(t)
      PROVE  /\ OraclesTo(g, t, k - 1) \in Nat
             /\ OraclesTo(g, t, k) = OraclesTo(g, t, k - 1) + PieceLen(g[k], t[k], o, c)
             /\ PieceStands(g[k], t[k], o, c, f, OraclesTo(g, t, k - 1))
  <2>1. WovenAt(g, t, o, c, f, k)
    BY <1>2, <1>3, WovenIs
  <2> QED BY <1>3, <2>1 DEF WovenAt
<1>6. /\ above \o f \in Seq(Char) /\ Len(above \o f) = Len(above) + Len(f)
      /\ Stands(above, above \o f, 0) /\ Stands(f, above \o f, Len(above))
      /\ Len(above) \in Nat /\ Len(f) \in Nat
  BY <1>1, <1>4, ConcatStands
<1>7. (above \o f) \o tl \in Seq(Char) /\ Stands(above \o f, (above \o f) \o tl, 0)
  BY <1>6, ConcatStands
<1>8. w \in Seq(Char) /\ Stands(above \o f, w, 0)
  BY <1>7 DEF f
<1>9. Stands(above, w, 0 + 0) /\ Stands(f, w, 0 + Len(above))
  BY <1>1, <1>4, <1>6, <1>8, StandsWithin
<1>10. ASSUME NEW i \in 1..Len(above) PROVE w[i] \in Byte
  <2>1. w[0 + i] = above[i]
    BY <1>9 DEF Stands
  <2>2. above[i] \in Byte
    BY <1>1, ElementOfSeq
  <2> QED BY <1>6, <2>1, <2>2
<1>11. ASSUME NEW k \in 1..Len(t)
       PROVE  /\ OraclesTo(g, t, k) = OraclesTo(g, t, k - 1) + Len(g[k]) + Len(t[k]) + 2
              /\ OraclesStand(g[k], t[k], w, Len(above) + OraclesTo(g, t, k - 1))
  <2> DEFINE d == OraclesTo(g, t, k - 1)
  <2>1. g[k] \in Seq(Char) /\ t[k] \in Seq(Char) /\ Len(g[k]) \in Nat /\ Len(t[k]) \in Nat
    <3>1. k \in 1 .. Len(t) + 1
      BY FitsIs
    <3> QED BY <3>1, FitsIs
  <2>2. d \in Nat /\ PieceStands(g[k], t[k], o, c, f, d)
    BY <1>5
  <2>3. OraclesTo(g, t, k) = d + Len(g[k]) + Len(t[k]) + 2
    <3> DEFINE e == OraclesTo(g, t, k)
    <3>1. d \in Nat /\ e = d + PieceLen(g[k], t[k], o, c)
      BY <1>5
    <3>2. Len(o) = 1 /\ Len(c) = 1 /\ o \in Seq(Char) /\ c \in Seq(Char)
      BY <1>2
    <3> DEFINE a == g[k]
    <3> DEFINE b == t[k]
    <3>3. a \in Seq(Char) /\ b \in Seq(Char) /\ e = d + PieceLen(a, b, o, c)
      BY <2>1, <3>1
    <3> HIDE DEF a, b, d, e
    <3>4. e = d + Len(a) + Len(b) + 2
      BY <3>1, <3>2, <3>3, MarkedLen
    <3> QED BY <3>4 DEF a, b, e
  <2> HIDE DEF d
  <2>4. 0 + Len(above) = Len(above) /\ Len(above) + d \in Nat
    BY <1>6, <2>2
  <2>5. PieceStands(g[k], t[k], o, c, w, Len(above) + d)
    BY <1>2, <1>4, <1>6, <1>8, <1>9, <2>1, <2>2, <2>4, PieceWithin
  <2>6. OraclesStand(g[k], t[k], w, Len(above) + d)
    BY <1>2, <1>8, <2>1, <2>4, <2>5, OraclesStandIs
  <2> QED BY <2>3, <2>6 DEF d
<1>12. \A k \in 1..Len(t) : OracleAt(g, t, w, above, k)
  BY <1>5, <1>11 DEF OracleAt
<1> QED BY <1>4, <1>6, <1>8, <1>10, <1>12

(* Where a swap file has all its oracles it has those of every node.       *)
LEMMA KeptAll ==
  ASSUME IInv, pc \in {"search", "resize"}, OraclesKept
  PROVE  /\ Len(texts) = Len(list)
         /\ \E above \in Above : Whole(above) /\ PlacedAt(above)
<1>1. /\ Typed /\ Listed /\ Fits(gaps, texts) /\ Saved /\ Placed
      /\ Len(list) \in Nat /\ Len(texts) \in Nat /\ Len(texts) <= Len(list)
  BY InSession DEF IInv
<1>2. PICK above \in Above : Whole(above) /\ PlacedAt(above)
  BY <1>1 DEF Placed
<1> DEFINE all == above \o SwapFile(gaps, texts)
<1>3. swp = all \o tail /\ AllOrAllButOne(swp, all, tail) /\ tail \in Seq(Char)
  BY <1>1, <1>2 DEF Whole, AllOrAllButOne, Typed
<1>4. \A m \in Mark : Marks(m, swp) - Marks(m, tail) <= Len(texts)
  <2>1. all = above \o SwapFile(gaps, texts)
    OBVIOUS
  <2> HIDE DEF all
  <2> QED BY <1>1, <1>3, <2>1, SavedIs
<1>5. Marks(Open, swp) - Marks(Open, tail) <= Len(texts)
  BY <1>4, ByteIsNoMark
<1>6. Marks(Open, swp) - Marks(Open, tail) = Len(list)
  BY DEF OraclesKept
<1>7. Len(list) <= Len(texts)
  BY <1>5, <1>6
<1>8. Len(texts) = Len(list)
  BY <1>1, <1>7
<1> QED BY <1>2, <1>8

-----------------------------------------------------------------------------
(* The oracles that push_swap_file finds next are those of interval n.     *)
LEMMA NextOracles ==
  ASSUME IInv, pc = "search", OraclesKept, n \in 1..Len(list),
         NEW above \in Above, Whole(above), PlacedAt(above), Len(texts) = Len(list)
  PROVE  LET base == Len(above) + OraclesTo(gaps, texts, n - 1) + Len(gaps[n]) + 1 IN
         /\ base \in Nat /\ base >= 1 /\ Len(texts[n]) \in Nat
         /\ Search(Open, o_close + 1) = base - 1
         /\ Search(Close, base) = base + Len(texts[n])
<1>1. /\ Typed /\ Fits(gaps, texts) /\ Found /\ Len(list) \in Nat
  BY InSession DEF IInv
<1>2. swp = (above \o SwapFile(gaps, texts)) \o tail /\ tail \in Seq(Char)
  BY <1>1 DEF Whole, Typed
<1>3. /\ swp \in Seq(Char) /\ Len(above) \in Nat /\ OraclesTo(gaps, texts, 0) = 0
      /\ \A i \in 1..Len(above) : swp[i] \in Byte
  BY <1>1, <1>2, KeptStands
<1>4. ASSUME NEW k \in 1..Len(texts)
      PROVE
         /\ OraclesTo(gaps, texts, k - 1) \in Nat
         /\ OraclesTo(gaps, texts, k) = OraclesTo(gaps, texts, k - 1) + Len(gaps[k]) + Len(texts[k]) + 2
         /\ OraclesStand(gaps[k], texts[k], swp, Len(above) + OraclesTo(gaps, texts, k - 1))
  <2>1. OracleAt(gaps, texts, swp, above, k)
    BY <1>1, <1>2, KeptStands
  <2> QED BY <2>1 DEF OracleAt
<1>5. \A k \in 1..Len(texts) : /\ gaps[k] \in Seq(Byte) /\ Len(gaps[k]) \in Nat
                               /\ texts[k] \in Seq(Byte) /\ Len(texts[k]) \in Nat
  <2>1. \A k \in 1..Len(texts) : k \in 1 .. Len(texts) + 1
    BY <1>1
  <2> QED BY <1>1, <2>1, FitsIs
<1> DEFINE d == Len(above) + OraclesTo(gaps, texts, n - 1)
<1> DEFINE a == gaps[n]
<1> DEFINE b == texts[n]
<1>6. d \in Nat /\ OraclesStand(a, b, swp, d)
  BY <1>3, <1>4
<1>7. a \in Seq(Byte) /\ Len(a) \in Nat /\ b \in Seq(Byte) /\ Len(b) \in Nat
  BY <1>5
<1> DEFINE p == o_close + 1
<1>8. p \in Nat /\ p <= d /\ (n = 1 => p = 0 /\ d = Len(above)) /\ (n # 1 => p = d)
  <2>1. CASE n = 1
    <3>1. p = 0
      BY <1>1, <2>1 DEF Found
    <3>2. d = Len(above)
      BY <1>3, <2>1
    <3> QED BY <1>3, <2>1, <3>1, <3>2
  <2>2. CASE n # 1
    <3> DEFINE m == n - 1
    <3>1. m \in 1..Len(texts) /\ m \in 1..FoundUpTo
      BY <1>1, <2>2 DEF FoundUpTo
    <3>2. o_close = list[m].bound
      BY <1>1, <2>2 DEF Found
    <3>3. /\ list[m].base = Len(above) + OraclesTo(gaps, texts, m - 1) + Len(gaps[m]) + 1
          /\ list[m].bound = list[m].base + Len(texts[m])
      BY <3>1 DEF PlacedAt, SwapLen, OraclesTo
    <3>4. /\ OraclesTo(gaps, texts, m - 1) \in Nat
          /\ OraclesTo(gaps, texts, m) = OraclesTo(gaps, texts, m - 1) + Len(gaps[m]) + Len(texts[m]) + 2
          /\ Len(gaps[m]) \in Nat /\ Len(texts[m]) \in Nat
      BY <1>4, <1>5, <3>1
    <3>5. d = Len(above) + OraclesTo(gaps, texts, m)
      OBVIOUS
    <3> DEFINE x == OraclesTo(gaps, texts, m - 1)
    <3> DEFINE y == OraclesTo(gaps, texts, m)
    <3> HIDE DEF d, m, x, y
    <3>6. p = d
      BY <1>3, <3>2, <3>3, <3>4, <3>5, SMTT(40) DEF x, y
    <3> QED BY <1>6, <2>2, <3>6
  <2> QED BY <2>1, <2>2
<1> DEFINE base == d + Len(a) + 1
<1>9. swp[d + Len(a) + 1] = Open /\ d + Len(a) + Len(b) + 2 <= Len(swp)
      /\ swp[d + Len(a) + Len(b) + 2] = Close
  BY <1>6 DEF OraclesStand
<1>10. \A i \in 1..Len(a) : swp[d + i] \in Byte
  BY <1>6, <1>7, ElementOfSeq DEF OraclesStand
<1>11. \A i \in 1..Len(b) : swp[base + i] \in Byte
  BY <1>6, <1>7, ElementOfSeq DEF OraclesStand
<1>12. Len(swp) \in Nat
  BY <1>3, LenProperties
<1> HIDE DEF d, a, b, p
<1>13. Search(Open, p) = base - 1
  <2>1. ASSUME NEW i \in p + 1 .. base - 1 PROVE swp[i] # Open
    <3>1. CASE i <= d
      <4>1. i \in 1..Len(above)
        BY <1>3, <1>6, <1>7, <1>8, <3>1
      <4>2. swp[i] \in Byte
        BY <1>3, <4>1
      <4> QED BY <4>2, ByteIsNoMark
    <3>2. CASE i > d
      <4>1. i - d \in 1..Len(a) /\ d + (i - d) = i
        BY <1>6, <1>7, <1>8, <3>2
      <4>2. swp[d + (i - d)] \in Byte
        BY <1>10, <4>1
      <4>3. swp[i] \in Byte
        BY <4>1, <4>2
      <4> QED BY <4>3, ByteIsNoMark
    <3> QED BY <1>6, <1>8, <3>1, <3>2
  <2>2. base - 1 \in Nat /\ p <= base - 1 /\ base - 1 < Len(swp) /\ (base - 1) + 1 = d + Len(a) + 1
    BY <1>6, <1>7, <1>8, <1>9, <1>12
  <2>3. swp[(base - 1) + 1] = Open
    BY <1>9, <2>2
  <2> DEFINE q == base - 1
  <2> HIDE DEF base
  <2> HIDE DEF q
  <2>4. q \in Nat /\ p <= q /\ q < Len(swp) /\ swp[q + 1] = Open /\ \A i \in p + 1 .. q : swp[i] # Open
    BY <2>1, <2>2, <2>3 DEF q
  <2>5. Search(Open, p) = q
    BY <1>3, <1>8, <2>4, SearchFinds
  <2> QED BY <2>5 DEF q
<1>14. Search(Close, base) = base + Len(b)
  <2> DEFINE q == base + Len(b)
  <2>1. base \in Nat /\ q \in Nat /\ base <= q /\ q < Len(swp) /\ q + 1 = d + Len(a) + Len(b) + 2
    BY <1>6, <1>7, <1>9, <1>12
  <2>2. ASSUME NEW i \in base + 1 .. q PROVE swp[i] # Close
    <3>1. i - base \in 1..Len(b) /\ base + (i - base) = i
      BY <1>6, <1>7, <2>1
    <3>2. swp[base + (i - base)] \in Byte
      BY <1>11, <3>1
    <3>3. swp[i] \in Byte
      BY <3>1, <3>2
    <3> QED BY <3>3, ByteIsNoMark
  <2>3. swp[q + 1] = Close
    BY <1>9, <2>1
  <2> HIDE DEF base, q
  <2>4. Search(Close, base) = q
    BY <1>3, <2>1, <2>2, <2>3, SearchFinds
  <2> QED BY <2>4 DEF q
<1>15. base \in Nat /\ base >= 1
  BY <1>6, <1>7
<1> QED BY <1>7, <1>13, <1>14, <1>15 DEF a, b, d, p

(* FindOracles (one turn of push_swap_file) keeps the invariant.           *)
LEMMA FindStep ==
  ASSUME IInv, FindOracles
  PROVE  IInv'
<1> DEFINE open  == Search(Open, o_close + 1)
<1> DEFINE close == Search(Close, open + 1)
<1>0. pc = "search"
  BY DEF FindOracles
<1>1. /\ Typed /\ Listed /\ GapsPulled /\ Saved /\ Found /\ Placed
      /\ Len(list) \in Nat /\ Len(texts) \in Nat
  BY <1>0, InSession DEF IInv
<1>2. /\ backing' = backing /\ rows' = rows /\ txn' = txn /\ left' = left /\ swp' = swp
      /\ tail' = tail /\ delta' = delta /\ ou' = ou /\ gaps' = gaps /\ texts' = texts
  BY DEF FindOracles
<1>3. CASE Missing(open, close)
  <2>1. pc' = "edit" /\ list' = list /\ n' = n /\ o_close' = o_close
    BY <1>3 DEF FindOracles
  <2>2. TypeOK'
    BY <1>1, <1>2, <2>1, TypedNext DEF Typed
  <2>3. Listed' /\ GapsPulled'
    BY <1>1, <1>2, <2>1, ListedKept
  <2> QED BY <2>1, <2>2, <2>3 DEF IInv
<1>4. CASE ~Missing(open, close)
  <2>1. /\ pc' = "search" /\ n \in 1..Len(list) /\ n' = n + 1 /\ o_close' = close
        /\ list' \in Seq(Node) /\ Len(list') = Len(list)
        /\ \A k \in 1..Len(list) : list'[k].id = list[k].id
        /\ \A k \in 1..Len(list) : k # n => list'[k] = list[k]
        /\ list'[n].base = open + 1 /\ list'[n].bound = close
        /\ open \in Nat /\ close \in Nat /\ o_close + 1 <= open /\ open + 1 <= close /\ close < Len(swp)
        /\ swp[open + 1] = Open /\ swp[close + 1] = Close
    BY <1>4, FoundNext
  <2> HIDE DEF open, close
  <2>2. TypeOK'
    BY <1>1, <1>2, <2>1, TypedNext DEF Typed
  <2>3. Listed' /\ GapsPulled'
    BY <1>1, <1>2, <2>1, ListedKept
  <2>4. Saved'
    BY <1>1, <1>2 DEF Saved, Whole, OneLost
  <2>5. FoundUpTo = n - 1 /\ FoundUpTo' = n
    BY <1>0, <2>1 DEF FoundUpTo
  <2>6. \A k \in 1 .. n - 1 : k \in 1..Len(list) /\ list'[k] = list[k]
    BY <1>1, <2>1, SMTT(40)
  <2>7. Found'
    <3>1. ASSUME NEW k \in 1..n PROVE IsFound(k)'
      <4>1. CASE k = n
        BY <1>2, <2>1, <4>1 DEF IsFound
      <4>2. CASE k # n
        <5>1. k \in 1 .. n - 1
          BY <2>1, <4>2
        <5>2. IsFound(k)
          BY <1>1, <2>5, <5>1 DEF Found
        <5> QED BY <1>2, <2>6, <5>1, <5>2 DEF IsFound
      <4> QED BY <4>1, <4>2
    <3>2. ASSUME NEW j \in 1..n, NEW k \in 1..n, j < k PROVE list'[j].bound < list'[k].base
      <4>1. j \in 1 .. n - 1 /\ list'[j].bound = list[j].bound /\ list[j].bound \in Nat
        <5>1. j \in 1 .. n - 1
          BY <2>1, <3>2
        <5>2. j \in 1..Len(list)
          BY <2>6, <5>1
        <5> QED BY <1>0, <2>6, <5>1, <5>2, InSession
      <4>2. CASE k # n
        <5>1. k \in 1 .. n - 1
          BY <2>1, <4>2
        <5>2. list[j].bound < list[k].base
          BY <1>1, <2>5, <3>2, <4>1, <5>1 DEF Found
        <5> QED BY <2>6, <4>1, <5>1, <5>2
      <4>3. CASE k = n
        <5> DEFINE m == n - 1
        <5>1. m \in 1 .. n - 1 /\ n # 1
          BY <2>1, <3>2, <4>1, <4>3, SMTT(40)
        <5>2. o_close = list[m].bound
          BY <1>0, <1>1, <5>1 DEF Found
        <5>3. list[m].bound \in Nat
          BY <1>0, <2>6, <5>1, InSession
        <5>4. list[j].bound <= list[m].bound
          <6>1. CASE j = m
            BY <5>3, <6>1
          <6>2. CASE j # m
            <7>1. j < m
              BY <2>1, <4>1, <6>2
            <7>2. list[j].bound < list[m].base
              BY <1>1, <2>5, <4>1, <5>1, <7>1 DEF Found
            <7>3. list[m].base <= list[m].bound /\ list[m].base \in Nat
              BY <1>0, <1>1, <2>5, <2>6, <5>1, InSession DEF Found, IsFound
            <7> QED BY <4>1, <5>3, <7>2, <7>3
          <6> QED BY <6>1, <6>2
        <5> HIDE DEF m
        <5> QED BY <2>1, <4>1, <4>3, <5>2, <5>3, <5>4
      <4> QED BY <4>2, <4>3
    <3>3. n' \in 1 .. Len(list') + 1
      BY <1>1, <2>1
    <3>4. o_close' = IF n' = 1 THEN -1 ELSE list'[n' - 1].bound
      <4>1. n' # 1 /\ n' - 1 = n
        BY <1>1, <2>1
      <4> QED BY <2>1, <4>1
    <3> QED BY <2>5, <3>1, <3>2, <3>3, <3>4 DEF Found
  <2>8. Placed'
    <3> SUFFICES ASSUME OraclesKept' PROVE \E a \in Above : Whole(a)' /\ PlacedAt(a)'
      BY DEF Placed
    <3>1. OraclesKept
      BY <1>2, <2>1 DEF OraclesKept
    <3>2. PICK above \in Above : Whole(above) /\ PlacedAt(above)
      BY <1>0, <3>1, KeptAll
    <3>3. Len(texts) = Len(list)
      BY <1>0, <3>1, KeptAll
    <3>4. Whole(above)'
      BY <1>2, <3>2 DEF Whole
    <3> DEFINE base == Len(above) + OraclesTo(gaps, texts, n - 1) + Len(gaps[n]) + 1
    <3>5. base \in Nat /\ Search(Open, o_close + 1) = base - 1
          /\ Search(Close, base) = base + Len(texts[n]) /\ Len(texts[n]) \in Nat
      BY <1>0, <2>1, <3>1, <3>2, <3>3, NextOracles
    <3>6. list'[n].base = base /\ list'[n].bound = base + Len(texts[n])
      <4> HIDE DEF base
      <4>1. open + 1 = base
        BY <3>5 DEF open
      <4>2. close = base + Len(texts[n])
        BY <3>5, <4>1 DEF close
      <4> QED BY <2>1, <4>1, <4>2
    <3>7. ASSUME NEW k \in 1..n
          PROVE  /\ list'[k].base = Len(above) + SwapLen(k - 1)' + Len(gaps'[k]) + 1
                 /\ list'[k].bound = list'[k].base + Len(texts'[k])
      <4>1. SwapLen(k - 1)' = SwapLen(k - 1) /\ gaps'[k] = gaps[k] /\ texts'[k] = texts[k]
        BY <1>2 DEF SwapLen
      <4>2. CASE k = n
        BY <3>6, <4>1, <4>2 DEF SwapLen, OraclesTo
      <4>3. CASE k # n
        <5>1. k \in 1 .. n - 1
          BY <2>1, <4>3
        <5> QED BY <2>5, <2>6, <3>2, <4>1, <5>1 DEF PlacedAt
      <4> QED BY <4>2, <4>3
    <3>8. PlacedAt(above)'
      BY <2>5, <3>7 DEF PlacedAt
    <3> QED BY <3>4, <3>8
  <2> QED BY <2>1, <2>2, <2>3, <2>4, <2>7, <2>8 DEF IInv
<1> QED BY <1>3, <1>4

(* The lengths of the pieces of the new file.                              *)
LEMMA PlainLenIs ==
  ASSUME Fits(gaps, texts)
  PROVE  /\ PlainLen(0) = 0
         /\ \A k \in 1..Len(texts) :
               PlainLen(k - 1) \in Nat /\ PlainLen(k) = PlainLen(k - 1) + Len(gaps[k]) + Len(texts[k])
<1> DEFINE o == <<>>
<1>1. o \in Seq(Char) /\ Len(o) = 0
  BY NoText
<1>2. \A k : PlainLen(k) = LengthTo(gaps, texts, o, o, k)
  BY DEF PlainLen
<1> HIDE DEF o
<1> DEFINE w == Woven(gaps, texts, o, o)
<1>3. w = Woven(gaps, texts, o, o)
  OBVIOUS
<1> HIDE DEF w
<1>4. PlainLen(0) = 0
  BY <1>1, <1>2, <1>3, WovenIs
<1>5. ASSUME NEW k \in 1..Len(texts)
      PROVE  PlainLen(k - 1) \in Nat /\ PlainLen(k) = PlainLen(k - 1) + Len(gaps[k]) + Len(texts[k])
  <2>1. PlainLen(k - 1) \in Nat /\ PlainLen(k) = PlainLen(k - 1) + PieceLen(gaps[k], texts[k], o, o)
    <3>1. /\ LengthTo(gaps, texts, o, o, k - 1) \in Nat
          /\ LengthTo(gaps, texts, o, o, k) =
                LengthTo(gaps, texts, o, o, k - 1) + PieceLen(gaps[k], texts[k], o, o)
          /\ PieceStands(gaps[k], texts[k], o, o, w, LengthTo(gaps, texts, o, o, k - 1))
      <4>1. WovenAt(gaps, texts, o, o, w, k)
        BY <1>1, <1>3, WovenIs
      <4> QED BY <4>1 DEF WovenAt
    <3> QED BY <1>2, <3>1
  <2>2. Len(gaps[k]) \in Nat /\ Len(texts[k]) \in Nat
    <3>1. k \in 1 .. Len(texts) + 1
      BY FitsIs
    <3> QED BY <3>1, FitsIs
  <2> DEFINE a == gaps[k]
  <2> DEFINE b == texts[k]
  <2> DEFINE d == PlainLen(k - 1)
  <2> DEFINE e == PlainLen(k)
  <2>3. d \in Nat /\ e = d + PieceLen(a, b, o, o) /\ Len(a) \in Nat /\ Len(b) \in Nat
    BY <2>1, <2>2
  <2> HIDE DEF a, b, d, e
  <2>4. e = d + Len(a) + Len(b)
    BY <1>1, <2>3 DEF PieceLen
  <2> QED BY <2>3, <2>4 DEF a, b, d, e
<1> QED BY <1>4, <1>5

-----------------------------------------------------------------------------
(* BeginResize *)

(* BeginResize (START TRANSACTION) keeps the invariant.                    *)
LEMMA BeginStep ==
  ASSUME IInv, BeginResize
  PROVE  IInv'
<1>0. pc = "search" /\ n > Len(list)
  BY DEF BeginResize
<1>1. /\ Typed /\ Listed /\ GapsPulled /\ Fits(gaps, texts) /\ Saved /\ Found /\ Placed
      /\ Len(list) \in Nat /\ Len(texts) \in Nat
  BY <1>0, InSession DEF IInv
<1>2. /\ txn' = rows /\ n' = 1 /\ delta' = 0 /\ ou' = <<>> /\ pc' = "resize"
      /\ backing' = backing /\ rows' = rows /\ left' = left /\ list' = list /\ swp' = swp
      /\ tail' = tail /\ o_close' = o_close /\ gaps' = gaps /\ texts' = texts
  BY DEF BeginResize
<1>3. n = Len(list) + 1 /\ FoundUpTo = Len(list) /\ FoundUpTo' = Len(list)
  BY <1>0, <1>1, <1>2 DEF Found, FoundUpTo
<1>4. TypeOK'
  <2>1. <<>> \in Seq(Update)
    OBVIOUS
  <2> QED BY <1>1, <1>2, <2>1, TypedNext DEF Typed
<1>5. /\ Listed' /\ GapsPulled'
      /\ \A k \in 1..Len(list) : Row(k)' = Row(k)
  BY <1>1, <1>2, ListedKept
<1>6. Saved'
  BY <1>1, <1>2 DEF Saved, Whole, OneLost
<1>7. Found'
  BY <1>1, <1>2, <1>3 DEF Found, IsFound
<1>8. Placed'
  <2>1. \A k : SwapLen(k)' = SwapLen(k)
    BY <1>2 DEF SwapLen
  <2>2. \A a \in Above : Whole(a) /\ PlacedAt(a) => Whole(a)' /\ PlacedAt(a)'
    BY <1>2, <1>3, <2>1 DEF Whole, PlacedAt
  <2>3. OraclesKept' => OraclesKept
    BY <1>2 DEF OraclesKept
  <2> QED BY <1>1, <2>2, <2>3 DEF Placed
<1>9. Updates'
  <2>1. Len(ou') = n' - 1
    BY <1>2
  <2>2. ASSUME NEW k \in 1..Len(list)
        PROVE  /\ txn'[list'[k].id].base = Row(k)'.base + delta'
               /\ txn'[list'[k].id].bound = Row(k)'.bound + delta'
    <3>1. Row(k).base \in Nat /\ Row(k).bound \in Nat
      BY <1>0, InSession
    <3> QED BY <1>2, <1>5, <3>1 DEF Row
  <2> QED BY <1>2, <2>1, <2>2 DEF Updates
<1>10. RowsFollow'
  <2>1. Fits(gaps', texts')
    BY <1>1, <1>2
  <2>2. PlainLen(0)' = 0 /\ From(1)' = 0
    BY <1>1, <1>2, PlainLenIs DEF From, PlainLen
  <2>3. EditedFollow'
    BY <1>2, <2>2 DEF EditedFollow, NewEnd
  <2>4. ASSUME NEW i \in OffsetId PROVE OtherFollows(i)'
    <3>1. txn'[i].base = rows'[i].base + delta' /\ txn'[i].bound = rows'[i].bound + delta'
      <4>1. rows[i].base \in Nat /\ rows[i].bound \in Nat
        BY <1>1 DEF Typed, RowType
      <4> QED BY <1>2, <4>1
    <3> QED BY <1>2, <3>1 DEF OtherFollows
  <2> QED BY <2>3, <2>4 DEF RowsFollow
<1> QED BY <1>2, <1>4, <1>5, <1>6, <1>7, <1>8, <1>9, <1>10 DEF IInv

-----------------------------------------------------------------------------
(* The UPDATE of one row, on all rows of the file.                         *)
RowMoves(t, u, oid, ns, i) ==
    /\ t[i].base >= t[oid].bound /\ t[i].bound >= t[oid].bound =>
          /\ u[i].base = t[i].base + (ns - (t[oid].bound - t[oid].base))
          /\ u[i].bound = t[i].bound + (ns - (t[oid].bound - t[oid].base))
    /\ t[i].base < t[oid].bound /\ t[i].bound < t[oid].bound =>
          u[i].base = t[i].base /\ u[i].bound = t[i].bound

(* The edited row takes its new size; the rows beside it move or stay.     *)
LEMMA ResizedIs ==
  ASSUME NEW t \in [OffsetId -> RowType], NEW oid \in OffsetId, NEW ns \in Nat,
         t[oid].base < t[oid].bound, NEW u, u = Resized(t, oid, ns)
  PROVE  /\ u \in [OffsetId -> RowType]
         /\ u[oid].base = t[oid].base /\ u[oid].bound = t[oid].base + ns
         /\ \A i \in OffsetId \ {oid} : RowMoves(t, u, oid, ns, i)
<1> DEFINE m(i) == Moved(t[i], t[oid], i # oid, ns)
<1>1. \A i \in OffsetId : t[i].base \in Nat /\ t[i].bound \in Nat /\ t[i].conflict \in BOOLEAN
  BY DEF RowType
<1>2. u = [i \in OffsetId |->
             [base |-> m(i).base, bound |-> m(i).bound,
              conflict |-> i # oid /\ (t[i].conflict \/ Touches(m(i), t[oid]))]]
  <2>1. DOMAIN t = OffsetId
    OBVIOUS
  <2> QED BY <2>1 DEF Resized
<1>3. \A i \in OffsetId : u[i].base = m(i).base /\ u[i].bound = m(i).bound
  BY <1>2
<1>4. ASSUME NEW i \in OffsetId PROVE m(i).base \in Nat /\ m(i).bound \in Nat
  BY <1>1 DEF Moved, NewBase, NewBound, Change
<1>5. u \in [OffsetId -> RowType]
  <2> DEFINE x(i) == i # oid /\ (t[i].conflict \/ Touches(m(i), t[oid]))
  <2>1. \A i \in OffsetId : x(i) \in BOOLEAN
    OBVIOUS
  <2>2. u = [i \in OffsetId |-> [base |-> m(i).base, bound |-> m(i).bound, conflict |-> x(i)]]
    BY <1>2
  <2> HIDE DEF x, m
  <2> QED BY <1>4, <2>1, <2>2 DEF RowType
<1>6. u[oid].base = t[oid].base /\ u[oid].bound = t[oid].base + ns
  BY <1>1, <1>3 DEF Moved, NewBase, NewBound, Change
<1>7. ASSUME NEW i \in OffsetId \ {oid}, t[i].base >= t[oid].bound, t[i].bound >= t[oid].bound
      PROVE  /\ u[i].base = t[i].base + (ns - (t[oid].bound - t[oid].base))
             /\ u[i].bound = t[i].bound + (ns - (t[oid].bound - t[oid].base))
  BY <1>1, <1>3, <1>7 DEF Moved, NewBase, NewBound, Change
<1>8. ASSUME NEW i \in OffsetId \ {oid}, t[i].base < t[oid].bound, t[i].bound < t[oid].bound
      PROVE  u[i].base = t[i].base /\ u[i].bound = t[i].bound
  BY <1>1, <1>3, <1>8 DEF Moved, NewBase, NewBound, Change
<1>9. \A i \in OffsetId \ {oid} : RowMoves(t, u, oid, ns, i)
  BY <1>7, <1>8 DEF RowMoves
<1> QED BY <1>5, <1>6, <1>9

(* What one turn of the loop of query_resize_file does.                    *)
LEMMA Turn ==
  ASSUME IInv, Resize
  PROVE  LET ns   == list[n].bound - list[n].base
             size == Row(n).bound - Row(n).base IN
         /\ pc = "resize" /\ pc' = "resize" /\ n \in 1..Len(list) /\ n' = n + 1
         /\ backing' = backing /\ rows' = rows /\ left' = left /\ list' = list /\ swp' = swp
         /\ tail' = tail /\ o_close' = o_close /\ gaps' = gaps /\ texts' = texts
         /\ ns \in Nat /\ delta' = delta + (ns - size) /\ ou' = Append(ou, UpdateOf(n))
         /\ txn[list[n].id].base = Row(n).base + delta /\ txn[list[n].id].bound = Row(n).bound + delta
         /\ txn' = Resized(txn, list[n].id, ns)
<1> DEFINE ns == list[n].bound - list[n].base
<1> DEFINE row == txn[list[n].id]
<1>0. pc = "resize" /\ n <= Len(list)
  BY DEF Resize
<1>1. /\ Typed /\ Found /\ Updates /\ Len(list) \in Nat
      /\ \A k \in 1..Len(list) : /\ list[k].id \in OffsetId
                                 /\ list[k].base \in Nat /\ list[k].bound \in Nat
                                 /\ Row(k).base \in Nat /\ Row(k).bound \in Nat
  BY <1>0, InSession DEF IInv
<1>2. n \in 1..Len(list) /\ n \in n..Len(list)
  BY <1>0, <1>1 DEF Found
<1>3. IsFound(n)
  BY <1>0, <1>1, <1>2 DEF Found, FoundUpTo
<1>4. ns \in Nat
  BY <1>1, <1>2, <1>3 DEF IsFound
<1>5. row.base = Row(n).base + delta /\ row.bound = Row(n).bound + delta
  BY <1>1, <1>2 DEF Updates
<1>6. /\ backing' = backing /\ rows' = rows /\ left' = left /\ list' = list /\ swp' = swp
      /\ tail' = tail /\ o_close' = o_close /\ gaps' = gaps /\ texts' = texts
      /\ pc' = pc /\ n' = n + 1 /\ txn' = Resized(txn, list[n].id, ns)
      /\ delta' = delta + ns - (row.bound - row.base)
      /\ ou' = Append(ou, [backing_start |-> row.base - delta, backing_end |-> row.bound - delta,
                           swp_start |-> list[n].base, swp_end |-> list[n].bound])
  BY DEF Resize, InFile, SwpStart
<1>7. delta \in Int /\ Row(n).base \in Nat /\ Row(n).bound \in Nat
  BY <1>1, <1>2 DEF Typed
<1>8. row.base - delta = Row(n).base /\ row.bound - delta = Row(n).bound
  BY <1>5, <1>7
<1>9. ou' = Append(ou, UpdateOf(n))
  BY <1>6, <1>8 DEF UpdateOf
<1> HIDE DEF ns, row
<1>10. delta' = delta + (ns - (Row(n).bound - Row(n).base))
  BY <1>4, <1>5, <1>6, <1>7
<1> QED BY <1>0, <1>2, <1>4, <1>5, <1>6, <1>9, <1>10 DEF ns, row

(* Resize (one turn of query_resize_file) keeps the invariant.             *)
LEMMA ResizeStep ==
  ASSUME IInv, Resize
  PROVE  IInv'
<1> DEFINE ns == list[n].bound - list[n].base
<1> DEFINE id == list[n].id
<1> DEFINE b == Row(n).base
<1> DEFINE e == Row(n).bound
<1>1. /\ pc = "resize" /\ pc' = "resize" /\ n \in 1..Len(list) /\ n' = n + 1
      /\ backing' = backing /\ rows' = rows /\ left' = left /\ list' = list /\ swp' = swp
      /\ tail' = tail /\ o_close' = o_close /\ gaps' = gaps /\ texts' = texts
      /\ ns \in Nat /\ delta' = delta + (ns - (e - b)) /\ ou' = Append(ou, UpdateOf(n))
      /\ txn[id].base = b + delta /\ txn[id].bound = e + delta
      /\ txn' = Resized(txn, id, ns)
  BY Turn
<1>2. /\ Typed /\ Listed /\ GapsPulled /\ Fits(gaps, texts) /\ Saved /\ Found /\ Placed
      /\ Updates /\ RowsFollow
      /\ Len(list) \in Nat /\ Len(texts) \in Nat
      /\ \A k \in 1..Len(list) : /\ list[k].id \in OffsetId
                                 /\ list[k].base \in Nat /\ list[k].bound \in Nat
                                 /\ Row(k).base \in Nat /\ Row(k).bound \in Nat
  BY <1>1, InSession DEF IInv
<1>3. b \in Nat /\ e \in Nat /\ b < e /\ id \in OffsetId /\ delta \in Int
  BY <1>1, <1>2 DEF Listed, Typed
<1> DEFINE grown == ns - (e - b)
<1>17. txn[id].base = b + delta /\ txn[id].bound = e + delta /\ txn' = Resized(txn, id, ns) /\ ns \in Nat
       /\ txn \in [OffsetId -> RowType]
  BY <1>1, <1>2 DEF Typed
<1>18. delta' = delta + grown
  BY <1>1
<1> DEFINE B == b + delta
<1> DEFINE E == e + delta
<1>4. /\ txn' \in [OffsetId -> RowType]
      /\ txn'[id].base = B /\ txn'[id].bound = B + ns
      /\ \A i \in OffsetId \ {id} :
            /\ txn[i].base >= E /\ txn[i].bound >= E =>
                  txn'[i].base = txn[i].base + grown /\ txn'[i].bound = txn[i].bound + grown
            /\ txn[i].base < E /\ txn[i].bound < E =>
                  txn'[i].base = txn[i].base /\ txn'[i].bound = txn[i].bound
  <2> DEFINE u == txn'
  <2> HIDE DEF ns, id, b, e, u
  <2>1. txn[id].base < txn[id].bound /\ txn[id].bound - txn[id].base = e - b
    BY <1>3, <1>17
  <2>2. u = Resized(txn, id, ns)
    BY <1>17 DEF u
  <2>3. /\ u \in [OffsetId -> RowType]
        /\ u[id].base = txn[id].base /\ u[id].bound = txn[id].base + ns
    BY <1>3, <1>17, <2>1, <2>2, ResizedIs
  <2>4. ASSUME NEW i \in OffsetId \ {id}
        PROVE  /\ txn[i].base >= E /\ txn[i].bound >= E =>
                     u[i].base = txn[i].base + grown /\ u[i].bound = txn[i].bound + grown
               /\ txn[i].base < E /\ txn[i].bound < E =>
                     u[i].base = txn[i].base /\ u[i].bound = txn[i].bound
    <3>1. RowMoves(txn, u, id, ns, i)
      BY <1>3, <1>17, <2>1, <2>2, ResizedIs
    <3> QED BY <1>17, <2>1, <3>1 DEF RowMoves
  <2> QED BY <1>17, <2>3, <2>4 DEF u
<1>5. \A i \in OffsetId : txn[i].base \in Nat /\ txn[i].bound \in Nat
                          /\ rows[i].base \in Nat /\ rows[i].bound \in Nat
  BY <1>2 DEF Typed, RowType
<1>6. /\ Listed' /\ GapsPulled' /\ Edited' = Edited
      /\ \A k \in 1..Len(list) : Row(k)' = Row(k)
      /\ \A k \in 1 .. Len(list) + 1 : From(k)' = From(k)
  BY <1>1, <1>2, ListedKept
<1>19. UpdateOf(n) \in Update
  <2>1. Row(n).base \in Int /\ Row(n).bound \in Int /\ list[n].base \in Int /\ list[n].bound \in Int
    BY <1>1, <1>2
  <2> QED BY <2>1 DEF UpdateOf, Update
<1>7. TypeOK'
  <2>2. ou' \in Seq(Update)
    BY <1>1, <1>2, <1>19, AppendProperties DEF Typed
  <2>3. delta' \in Int /\ n' \in Nat
    BY <1>1, <1>2, <1>3 DEF Typed
  <2> QED BY <1>1, <1>2, <1>4, <2>2, <2>3, TypedNext DEF Typed
<1>8. Saved'
  BY <1>1, <1>2 DEF Saved, Whole, OneLost
<1>9. Found'
  <2>1. FoundUpTo = Len(list) /\ FoundUpTo' = Len(list)
    BY <1>1 DEF FoundUpTo
  <2>2. n' \in 1 .. Len(list') + 1
    BY <1>1, <1>2
  <2> QED BY <1>1, <1>2, <2>1, <2>2 DEF Found, IsFound
<1>10. Placed'
  <2>1. \A k : SwapLen(k)' = SwapLen(k)
    BY <1>1 DEF SwapLen
  <2>2. FoundUpTo' = FoundUpTo
    BY <1>1 DEF FoundUpTo
  <2>3. \A a \in Above : Whole(a) /\ PlacedAt(a) => Whole(a)' /\ PlacedAt(a)'
    BY <1>1, <2>1, <2>2 DEF Whole, PlacedAt
  <2>4. OraclesKept' => OraclesKept
    BY <1>1 DEF OraclesKept
  <2> QED BY <1>2, <2>3, <2>4 DEF Placed
\* the rows of the other intervals of the list
<1>11. ASSUME NEW k \in 1..Len(list), k # n PROVE list[k].id # id
  <2>1. Row(k).base < Row(k).bound
    BY <1>2 DEF Listed
  <2>2. Row(k).bound < b \/ e < Row(k).base
    BY <1>1, <1>2, <1>11 DEF Listed
  <2>3. Row(k).base # b
    BY <1>2, <1>3, <2>1, <2>2
  <2> QED BY <2>3 DEF Row
<1>12. Updates'
  <2>1. ou \in Seq(Update) /\ Len(ou) = n - 1
    BY <1>2 DEF Typed, Updates
  <2>2. Len(ou') = n /\ ou'[n] = UpdateOf(n) /\ \A k \in 1 .. n - 1 : ou'[k] = ou[k]
    <3>2. /\ Len(Append(ou, UpdateOf(n))) = Len(ou) + 1
          /\ \A k \in 1..Len(ou) : Append(ou, UpdateOf(n))[k] = ou[k]
          /\ Append(ou, UpdateOf(n))[Len(ou) + 1] = UpdateOf(n)
      BY <1>19, <2>1, AppendProperties
    <3> QED BY <1>1, <2>1, <3>2
  <2>3. ASSUME NEW k \in 1..n PROVE ou'[k] = UpdateOf(k)'
    <3>1. k \in 1..Len(list)
      BY <1>1, <1>2
    <3>2. UpdateOf(k)' = UpdateOf(k)
      BY <1>1, <1>6, <3>1 DEF UpdateOf
    <3>3. ou'[k] = UpdateOf(k)
      <4>1. CASE k = n
        BY <2>2, <4>1
      <4>2. CASE k # n
        <5>1. k \in 1 .. n - 1
          BY <1>1, <4>2
        <5> QED BY <1>2, <2>2, <5>1 DEF Updates
      <4> QED BY <4>1, <4>2
    <3> QED BY <3>2, <3>3
  <2>4. ASSUME NEW k \in n + 1 .. Len(list)
        PROVE  /\ txn'[list'[k].id].base = Row(k)'.base + delta'
               /\ txn'[list'[k].id].bound = Row(k)'.bound + delta'
    <3>1. k \in 1..Len(list) /\ k \in n..Len(list) /\ k # n /\ n < k
      BY <1>1, <1>2, SMTT(40)
    <3> DEFINE i == list[k].id
    <3> DEFINE x == Row(k).base
    <3> DEFINE y == Row(k).bound
    <3>2. i \in OffsetId \ {id} /\ txn[i].base = x + delta /\ txn[i].bound = y + delta
      BY <1>2, <1>11, <3>1 DEF Updates
    <3>3. e < x /\ x < y /\ x \in Nat /\ y \in Nat
      BY <1>1, <1>2, <3>1 DEF Listed
    <3>4. Row(k)' = Row(k) /\ list'[k].id = i
      BY <1>1, <1>6, <3>1
    <3> HIDE DEF i, x, y, b, e, ns, id
    <3>5. txn[i].base >= E /\ txn[i].bound >= E
      BY <1>3, <3>2, <3>3
    <3>6. grown \in Int
      BY <1>3, <1>17
    <3> HIDE DEF E, grown
    <3>8. txn'[i].base = txn[i].base + grown /\ txn'[i].bound = txn[i].bound + grown
      BY <1>4, <3>2, <3>5
    <3>7. txn'[i].base = x + delta' /\ txn'[i].bound = y + delta'
      BY <1>3, <1>18, <3>2, <3>3, <3>6, <3>8
    <3> QED BY <3>4, <3>7 DEF x, y
  <2>5. n' - 1 = n
    BY <1>1, <1>2
  <2> QED BY <1>1, <2>2, <2>3, <2>4, <2>5 DEF Updates
<1>13. RowsFollow'
  <2> SUFFICES ASSUME Unmerged, OraclesKept, WithinFile
               PROVE  EditedFollow' /\ \A i \in OffsetId : Beside(i) => OtherFollows(i)'
    <3>1. /\ Unmerged' = Unmerged /\ OraclesKept' = OraclesKept /\ WithinFile' = WithinFile
          /\ \A i : Beside(i)' = Beside(i)
      BY <1>1, <1>6 DEF Unmerged, OraclesKept, WithinFile, Beside
    <3> QED BY <3>1 DEF RowsFollow
  <2>1. EditedFollow /\ \A i \in OffsetId : Beside(i) => OtherFollows(i)
    BY <1>2 DEF RowsFollow
  <2>2. Len(texts) = Len(list)
    BY <1>1, KeptAll
  <2>3. ns = Len(texts[n]) /\ Len(texts[n]) \in Nat /\ Len(gaps[n]) \in Nat
    <3>1. PICK above \in Above : PlacedAt(above)
      BY <1>1, KeptAll
    <3>2. list[n].bound = list[n].base + Len(texts[n])
      BY <1>1, <3>1 DEF PlacedAt, FoundUpTo
    <3>3. Len(texts[n]) \in Nat /\ Len(gaps[n]) \in Nat
      <4>1. n \in 1 .. Len(texts) + 1 /\ n \in 1..Len(texts)
        BY <1>1, <2>2
      <4> QED BY <1>2, <4>1, FitsIs
    <3>4. list[n].base \in Nat
      BY <1>1, <1>2
    <3> QED BY <3>2, <3>3, <3>4
  <2>4. From(n) \in Nat /\ From(n) <= b /\ (n # 1 => From(n) < b)
    <3>1. CASE n = 1
      BY <1>3, <3>1 DEF From
    <3>2. CASE n # 1
      <4>1. n - 1 \in 1..Len(list) /\ n - 1 < n
        BY <1>1, <1>2, <3>2
      <4>2. From(n) = Row(n - 1).bound /\ Row(n - 1).bound < b /\ Row(n - 1).bound \in Nat
        BY <1>1, <1>2, <3>2, <4>1 DEF From, Listed
      <4> QED BY <1>3, <4>2
    <3> QED BY <3>1, <3>2
  <2>5. Len(gaps[n]) = b - From(n)
    <3>1. n \in 1 .. Len(list) + 1
      BY <1>1, <1>2
    <3>2. To(n) = b
      BY <1>1, <1>2 DEF To
    <3>3. gaps[n] = Copy(backing, From(n), b - From(n))
      BY <1>2, <2>2, <3>1, <3>2 DEF GapsPulled
    <3>4. b <= Len(backing)
      <4>1. id \in Edited
        BY <1>1 DEF Edited
      <4> QED BY <4>1 DEF WithinFile, Row
    <3> DEFINE f == From(n)
    <3>5. backing \in Seq(Char) /\ Len(backing) \in Nat
      BY <1>2, LenProperties DEF Typed
    <3> HIDE DEF f, b
    <3>6. f \in Nat /\ b - f \in Int /\ b \in Nat /\ f <= b
      BY <1>3, <2>4 DEF f
    <3>7. Len(Copy(backing, f, b - f)) =
               IF f + 1 <= AtMost(f + (b - f), Len(backing)) THEN AtMost(f + (b - f), Len(backing)) - f ELSE 0
      BY <3>5, <3>6, CopyIs
    <3>8. AtMost(f + (b - f), Len(backing)) = b
      BY <3>4, <3>5, <3>6 DEF AtMost
    <3>9. Len(Copy(backing, f, b - f)) = b - f
      BY <3>6, <3>7, <3>8
    <3> QED BY <3>3, <3>9 DEF f
  <2> DEFINE f == From(n)
  <2> DEFINE d == PlainLen(n - 1)
  <2>6. /\ d \in Nat /\ PlainLen(n) = d + Len(gaps[n]) + Len(texts[n])
        /\ f + delta = d
    <3>1. n \in 1..Len(texts)
      BY <1>1, <2>2
    <3> QED BY <1>2, <2>1, <3>1, PlainLenIs DEF EditedFollow, NewEnd
  <2>7. From(n)' = e
    <3>1. n' # 1 /\ n' - 1 = n
      BY <1>1, <1>2
    <3>2. From(n)' = rows'[list'[n' - 1].id].bound
      BY <3>1 DEF From, Row
    <3> QED BY <1>1, <3>1, <3>2 DEF Row
  <2>8. \A k : PlainLen(k)' = PlainLen(k)
    BY <1>1 DEF PlainLen
  <2> DEFINE F == f + delta
  <2> DEFINE end == B + ns
  <2>9. NewEnd' = end /\ end = PlainLen(n) /\ PlainLen(n - 1)' = PlainLen(n)
    <3>1. NewEnd' = e + delta'
      BY <2>7 DEF NewEnd
    <3>4. n' - 1 = n
      BY <1>1, <1>2
    <3>5. PlainLen(n - 1)' = PlainLen(n)
      BY <1>1, <3>4 DEF PlainLen
    <3> DEFINE p == PlainLen(n)
    <3> DEFINE t == Len(texts[n])
    <3> DEFINE g == Len(gaps[n])
    <3>6. p = d + g + t /\ f + delta = d /\ g = b - f /\ ns = t /\ f \in Nat /\ d \in Nat /\ t \in Nat
      BY <2>3, <2>4, <2>5, <2>6
    <3> HIDE DEF b, e, ns, id, f, d, p, t, g
    <3>2. e + delta' = end
      BY <1>3, <1>17, <1>18
    <3>3. end = p
      BY <1>3, <1>17, <3>6
    <3> QED BY <3>1, <3>2, <3>3, <3>5 DEF p
  <2>10. /\ B = d + Len(gaps[n]) /\ F \in Int /\ B \in Nat /\ E \in Int /\ end \in Int
         /\ F <= B /\ B < E /\ B <= end /\ F = d
    <3> DEFINE g == Len(gaps[n])
    <3>1. f \in Nat /\ f <= b /\ g = b - f /\ g \in Nat /\ d \in Nat /\ f + delta = d
      BY <2>3, <2>4, <2>5, <2>6
    <3> HIDE DEF b, e, ns, id, d, f, g
    <3>2. B = d + g /\ F \in Int /\ B \in Nat /\ E \in Int /\ end \in Int
          /\ F <= B /\ B < E /\ B <= end /\ F = d
      BY <1>3, <1>17, <3>1
    <3> QED BY <3>2 DEF g
  <2>11. EditedFollow'
    <3>1. ASSUME NEW k \in 1..n
          PROVE  /\ txn'[list[k].id].base = PlainLen(k - 1) + Len(gaps[k])
                 /\ txn'[list[k].id].bound = txn'[list[k].id].base + Len(texts[k])
                 /\ txn'[list[k].id].bound <= end
      <4>1. CASE k = n
        <5> HIDE DEF b, e, f
        <5>1. txn'[id].base = d + Len(gaps[n]) /\ txn'[id].bound = txn'[id].base + Len(texts[n])
              /\ txn'[id].bound <= end
          <6>1. txn'[id].base = B /\ txn'[id].bound = B + ns
            BY <1>4
          <6>2. ns = Len(texts[n]) /\ B = d + Len(gaps[n])
            BY <2>3, <2>10
          <6>3. end \in Int
            BY <2>10
          <6> HIDE DEF ns, id, d, B
          <6> QED BY <6>1, <6>2, <6>3
        <5> QED BY <4>1, <5>1
      <4>2. CASE k # n
        <5> DEFINE i == list[k].id
        <5>1. k \in 1 .. n - 1 /\ k \in 1..Len(list)
          BY <1>1, <1>2, <4>2
        <5>2. /\ txn[i].base = PlainLen(k - 1) + Len(gaps[k])
              /\ txn[i].bound = txn[i].base + Len(texts[k])
              /\ txn[i].bound <= F
          BY <2>1, <5>1 DEF EditedFollow, NewEnd
        <5>3. i \in OffsetId \ {id}
          BY <1>2, <1>11, <4>2, <5>1
        <5>4. Len(texts[k]) \in Nat
          <6>1. k \in 1..Len(texts)
            BY <2>2, <5>1
          <6> QED BY <1>2, <6>1, FitsIs
        <5> HIDE DEF i, b, e, ns, id, f, d
        <5>5. txn[i].base \in Nat /\ txn[i].bound \in Nat /\ txn[i].base <= txn[i].bound
          BY <1>5, <5>2, <5>3, <5>4
        <5> HIDE DEF B, E, F, end
        <5>7. txn[i].base < E /\ txn[i].bound < E /\ txn[i].bound <= end
          BY <2>10, <5>2, <5>5
        <5>8. txn'[i].base = txn[i].base /\ txn'[i].bound = txn[i].bound
          BY <1>4, <5>3, <5>7
        <5> QED BY <5>2, <5>7, <5>8 DEF i
      <4> QED BY <4>1, <4>2
    <3>2. NewEnd' = PlainLen(n - 1)'
      BY <2>9
    <3>3. n' - 1 = n
      BY <1>1, <1>2
    <3> HIDE DEF end
    <3> QED BY <1>1, <2>8, <2>9, <3>1, <3>2, <3>3 DEF EditedFollow
  <2>12. ASSUME NEW i \in OffsetId, Beside(i)
         PROVE  OtherFollows(i)'
    <3>1. OtherFollows(i)
      BY <2>1, <2>12
    <3>2. i \in OffsetId \ {id} /\ rows[i].base < rows[i].bound
          /\ rows[i].base \in Nat /\ rows[i].bound \in Nat
      <4>1. id \in Edited
        BY <1>1 DEF Edited
      <4> QED BY <1>5, <2>12, <4>1 DEF Beside
    <3>3. ASSUME rows[i].base >= e
          PROVE  txn'[i].base = rows[i].base + delta' /\ txn'[i].bound = rows[i].bound + delta'
      <4> DEFINE x == rows[i].base
      <4> DEFINE y == rows[i].bound
      <4> HIDE DEF b, e, ns, id, d
      <4>1. x >= f
        BY <1>3, <2>4, <3>2, <3>3
      <4>2. txn[i].base = x + delta /\ txn[i].bound = y + delta
        BY <3>1, <4>1 DEF OtherFollows
      <4> HIDE DEF f
      <4>3. x \in Nat /\ y \in Nat /\ x < y /\ x >= e
        BY <3>2, <3>3
      <4> HIDE DEF x, y
      <4>4. txn[i].base >= E /\ txn[i].bound >= E
        BY <1>3, <4>2, <4>3
      <4>7. grown \in Int
        BY <1>3, <1>17
      <4> HIDE DEF E, grown
      <4>5. txn'[i].base = txn[i].base + grown /\ txn'[i].bound = txn[i].bound + grown
        BY <1>4, <3>2, <4>4
      <4>6. txn'[i].base = x + delta' /\ txn'[i].bound = y + delta'
        BY <1>3, <1>18, <4>2, <4>3, <4>5, <4>7
      <4> QED BY <4>6 DEF x, y
    <3>4. ASSUME NEW k \in 1..n, InGap(i, k)
          PROVE  /\ txn'[i].base = PlainLen(k - 1) + (rows[i].base - From(k))
                 /\ txn'[i].bound = PlainLen(k - 1) + (rows[i].bound - From(k))
                 /\ txn'[i].bound <= end
      <4>1. /\ txn[i].base = PlainLen(k - 1) + (rows[i].base - From(k))
            /\ txn[i].bound = PlainLen(k - 1) + (rows[i].bound - From(k))
            /\ txn[i].bound <= B
        <5>1. CASE k # n
          <6>1. k \in 1 .. n - 1
            BY <1>1, <5>1
          <6>2. /\ txn[i].base = PlainLen(k - 1) + (rows[i].base - From(k))
                /\ txn[i].bound = PlainLen(k - 1) + (rows[i].bound - From(k))
                /\ txn[i].bound <= F
            BY <3>1, <3>4, <6>1 DEF OtherFollows, NewEnd
          <6>3. txn[i].bound \in Nat
            BY <1>5
          <6> HIDE DEF B, F
          <6> QED BY <2>10, <6>2, <6>3
        <5>2. CASE k = n
          <6>1. f <= rows[i].base /\ rows[i].bound <= b
            BY <1>1, <1>2, <3>4, <5>2 DEF InGap
          <6>2. txn[i].base = rows[i].base + delta /\ txn[i].bound = rows[i].bound + delta
            BY <2>4, <3>1, <3>2, <6>1 DEF OtherFollows
          <6>3. f \in Nat /\ b \in Nat /\ d \in Nat
            BY <1>3, <2>4, <2>6
          <6>4. /\ txn[i].base = d + (rows[i].base - f)
                /\ txn[i].bound = d + (rows[i].bound - f)
                /\ txn[i].bound <= B
            <7> DEFINE x == rows[i].base
            <7> DEFINE y == rows[i].bound
            <7>1. f <= x /\ y <= b /\ x \in Nat /\ y \in Nat /\ f + delta = d
                  /\ txn[i].base = x + delta /\ txn[i].bound = y + delta
              BY <2>6, <3>2, <6>1, <6>2
            <7> HIDE DEF b, f, d, x, y
            <7>2. /\ txn[i].base = d + (x - f) /\ txn[i].bound = d + (y - f)
                  /\ txn[i].bound <= B
              BY <1>3, <6>3, <7>1
            <7> QED BY <7>2 DEF x, y
          <6> QED BY <5>2, <6>4
        <5> QED BY <5>1, <5>2
      <4> DEFINE p == PlainLen(k - 1)
      <4> DEFINE q == From(k)
      <4> DEFINE x == rows[i].base
      <4> DEFINE y == rows[i].bound
      <4>2. p \in Nat
        <5>1. k \in 1..Len(texts)
          BY <1>1, <2>2
        <5> QED BY <1>2, <5>1, PlainLenIs
      <4>3. q \in Nat
        <5>1. CASE k = 1
          BY <5>1 DEF From
        <5>2. CASE k # 1
          <6>1. k - 1 \in 1..Len(list)
            BY <1>1, <1>2, <5>2
          <6> QED BY <1>2, <5>2, <6>1 DEF From
        <5> QED BY <5>1, <5>2
      <4> HIDE DEF p, q, x, y, b, e, ns, id, f, d
      <4>4. /\ txn[i].base = p + (x - q) /\ txn[i].bound = p + (y - q)
            /\ txn[i].bound <= B /\ x \in Nat /\ y \in Nat /\ x < y
        BY <3>2, <4>1 DEF p, q, x, y
      <4> HIDE DEF B, E, F, end
      <4>5. txn[i].base < E /\ txn[i].bound < E /\ txn[i].bound <= end
        BY <2>10, <4>2, <4>3, <4>4
      <4>6. txn'[i].base = txn[i].base /\ txn'[i].bound = txn[i].bound
        BY <1>4, <3>2, <4>5
      <4> QED BY <4>4, <4>5, <4>6 DEF p, q, x, y
    <3>5. ASSUME NEW k \in 1..n, InGap(i, k)'
          PROVE  InGap(i, k)
      <4>1. k \in 1..Len(list) /\ k \in 1 .. Len(list) + 1
        BY <1>1, <1>2
      <4> QED BY <1>1, <1>6, <3>5, <4>1 DEF InGap
    <3>6. \A k \in 1..n : From(k)' = From(k)
      <4>1. \A k \in 1..n : k \in 1 .. Len(list) + 1
        BY <1>1, <1>2
      <4> QED BY <1>6, <4>1
    <3>7. n' - 1 = n
      BY <1>1, <1>2
    <3>8. /\ rows'[i].base >= From(n)' =>
                txn'[i].base = rows'[i].base + delta' /\ txn'[i].bound = rows'[i].bound + delta'
      BY <1>1, <2>7, <3>3
    <3> HIDE DEF e, b, ns, id, f, d, end, B, E, F
    <3>9. ASSUME NEW k \in 1..n, InGap(i, k)'
          PROVE  /\ txn'[i].base = PlainLen(k - 1)' + (rows'[i].base - From(k)')
                 /\ txn'[i].bound = PlainLen(k - 1)' + (rows'[i].bound - From(k)')
                 /\ txn'[i].bound <= NewEnd'
      BY <1>1, <2>8, <2>9, <3>4, <3>5, <3>6, <3>9
    <3> QED BY <3>7, <3>8, <3>9 DEF OtherFollows
  <2> QED BY <2>11, <2>12
<1> QED BY <1>1, <1>6, <1>7, <1>8, <1>9, <1>10, <1>12, <1>13 DEF IInv

(* The old file between the updates, and their texts.                      *)
LEMMA ReplacedIs ==
  ASSUME IInv, pc = "resize", n > Len(list)
  PROVE  /\ Len(ou) = Len(list) /\ Len(list) \in Nat
         /\ \A k \in 1..Len(list) :
               /\ Replaced(k) = Copy(backing, From(k), Row(k).base - From(k))
                                   \o Copy(swp, list[k].base, list[k].bound - list[k].base)
               /\ Replaced(k) \in Seq(Char)
         /\ Reached(Len(ou) + 1) = From(Len(list) + 1)
         /\ From(Len(list) + 1) \in Nat
<1>1. /\ Typed /\ Found /\ Updates /\ Len(list) \in Nat
      /\ \A k \in 1..Len(list) : /\ list[k].base \in Nat /\ list[k].bound \in Nat
                                 /\ Row(k).base \in Nat /\ Row(k).bound \in Nat
  BY InSession DEF IInv
<1>2. n = Len(list) + 1
  BY <1>1 DEF Found
<1>3. /\ Len(ou) = Len(list)
      /\ \A k \in 1..Len(list) : ou[k] = UpdateOf(k)
  BY <1>1, <1>2 DEF Updates
<1>4. ASSUME NEW k \in 1 .. Len(list) + 1 PROVE Reached(k) = From(k) /\ From(k) \in Nat
  <2>1. CASE k = 1
    BY <2>1 DEF Reached, From
  <2>2. CASE k # 1
    <3>1. k - 1 \in 1..Len(list)
      BY <1>1, <2>2
    <3>2. ou[k - 1] = UpdateOf(k - 1) /\ Row(k - 1).bound \in Nat
      BY <1>1, <1>3, <3>1
    <3> QED BY <2>2, <3>2 DEF Reached, From, UpdateOf
  <2> QED BY <2>1, <2>2
<1>5. ASSUME NEW k \in 1..Len(list)
      PROVE  /\ Replaced(k) = Copy(backing, From(k), Row(k).base - From(k))
                                 \o Copy(swp, list[k].base, list[k].bound - list[k].base)
             /\ Replaced(k) \in Seq(Char)
  <2> DEFINE c == Copy(backing, From(k), Row(k).base - From(k))
  <2> DEFINE d == Copy(swp, list[k].base, list[k].bound - list[k].base)
  <2>1. Reached(k) = From(k) /\ From(k) \in Nat
    <3>1. k \in 1 .. Len(list) + 1
      BY <1>1
    <3> QED BY <1>4, <3>1
  <2>2. ou[k] = UpdateOf(k)
    BY <1>3
  <2>3. Replaced(k) = c \o d
    BY <2>1, <2>2 DEF Replaced, UpdateOf
  <2>4. c \in Seq(Char)
    <3> DEFINE q == Row(k).base - From(k)
    <3>1. q \in Int /\ backing \in Seq(Char)
      BY <1>1, <2>1 DEF Typed
    <3> HIDE DEF q
    <3> QED BY <2>1, <3>1, CopyIs DEF q
  <2>5. d \in Seq(Char)
    <3> DEFINE q == list[k].bound - list[k].base
    <3>1. q \in Int /\ swp \in Seq(Char) /\ list[k].base \in Nat
      BY <1>1 DEF Typed
    <3> HIDE DEF q
    <3> QED BY <3>1, CopyIs DEF q
  <2> HIDE DEF c, d
  <2>6. c \o d \in Seq(Char)
    BY <2>4, <2>5, ConcatProperties
  <2> QED BY <2>3, <2>6 DEF c, d
<1>6. Reached(Len(ou) + 1) = From(Len(list) + 1) /\ From(Len(list) + 1) \in Nat
  <2>1. Len(list) + 1 \in 1 .. Len(list) + 1
    BY <1>1
  <2> QED BY <1>3, <1>4, <2>1
<1> QED BY <1>1, <1>3, <1>5, <1>6

(* write_offset_update writes a text, whatever the updates are.            *)
LEMMA SplicedIsText ==
  ASSUME IInv, pc = "resize", n > Len(list)
  PROVE  Spliced \in Seq(Char)
<1> DEFINE p == [k \in 1..Len(ou) |-> Replaced(k)]
<1> DEFINE end == From(Len(list) + 1)
<1> DEFINE c == Copy(backing, end, Len(backing) - end)
<1>1. /\ Len(ou) = Len(list) /\ Len(list) \in Nat
      /\ \A k \in 1..Len(list) : Replaced(k) \in Seq(Char)
      /\ Reached(Len(ou) + 1) = end /\ end \in Nat
  BY ReplacedIs
<1>2. p \in Seq(Seq(Char))
  <2>1. p \in [1..Len(list) -> Seq(Char)]
    BY <1>1
  <2> HIDE DEF p
  <2> QED BY <1>1, <2>1, FunctionIsText
<1>3. Spliced = FlattenSeq(p) \o c
  BY <1>1 DEF Spliced
<1> HIDE DEF p, end
<1>4. c \in Seq(Char)
  <2>1. backing \in Seq(Char) /\ Len(backing) - end \in Int
    BY <1>1, InSession, LenProperties DEF Typed
  <2> QED BY <1>1, <2>1, CopyIs
<1> HIDE DEF c
<1>5. FlattenSeq(p) \in Seq(Char)
  <2>1. FlattenSeq(p) = Joined(p, Len(p)) /\ \A k \in 0..Len(p) : Joined(p, k) \in Seq(Char)
    BY <1>2, JoinedStep
  <2>2. Len(p) \in 0..Len(p)
    BY <1>2, LenProperties
  <2> QED BY <2>1, <2>2
<1>6. FlattenSeq(p) \o c \in Seq(Char)
  BY <1>4, <1>5, ConcatProperties
<1> QED BY <1>3, <1>6

-----------------------------------------------------------------------------
(* The ends of a session                                                   *)

(* The end of a session, whatever it leaves of the file and its rows.      *)
LEMMA EndStep ==
  ASSUME IInv, EndSession, backing' \in Seq(Char), rows' \in [OffsetId -> RowType],
         txn' \in [OffsetId -> RowType], left' \in Seq(Char)
  PROVE  IInv'
<1>1. /\ pc' = "idle"
      /\ list' = <<>> /\ swp' = <<>> /\ tail' = <<>> /\ gaps' = <<>> /\ texts' = <<>>
      /\ n' = 1 /\ o_close' = 0 /\ delta' = 0 /\ ou' = <<>>
  BY DEF EndSession
<1>2. /\ <<>> \in Seq(Char) /\ <<>> \in Seq(Node) /\ <<>> \in Seq(Update) /\ <<>> \in Seq(Seq(Byte))
  OBVIOUS
<1>3. TypeOK'
  BY <1>1, <1>2, TypedNext DEF Typed
<1> QED BY <1>1, <1>3 DEF IInv

(* What a write in part leaves is a text.                                  *)
LEMMA ShortIsText ==
  ASSUME Typed, Spliced \in Seq(Char), NEW t \in Nat, NEW m, t <= Len(Spliced)
  PROVE  Short(t, m) \in Seq(Char)
<1>1. ASSUME NEW k \in 1..t
      PROVE  (IF k <= m THEN Spliced[k] ELSE IF k <= Len(backing) THEN backing[k] ELSE 0) \in Char
  <2>1. Spliced[k] \in Char
    BY <1>1
  <2>2. k <= Len(backing) => backing[k] \in Char
    BY <1>1 DEF Typed
  <2>3. 0 \in Char
    BY FileSpliceAssumption DEF Byte, Char
  <2> QED BY <2>1, <2>2, <2>3
<1>2. Short(t, m) \in [1..t -> Char]
  BY <1>1 DEF Short
<1> QED BY <1>2, FunctionIsText

(* Quit, Abandon and what query_resize_file ends with end a session.       *)
LEMMA QuitStep ==
  ASSUME IInv, Quit \/ Abandon \/ WriteFile \/ WriteFails \/ CommitFails \/ WriteInPart
  PROVE  IInv'
<1>1. Typed
  BY TypedIs DEF IInv
<1>2. CASE Quit \/ Abandon
  BY <1>1, <1>2, EndStep DEF Quit, Abandon, Typed
<1>3. ASSUME EndPush, Committed \/ RolledBack, backing' \in Seq(Char) PROVE IInv'
  <2>1. rows' \in [OffsetId -> RowType] /\ txn' \in [OffsetId -> RowType]
    BY <1>1, <1>3 DEF Committed, RolledBack, Typed
  <2>2. EndSession /\ left' \in Seq(Char)
    BY <1>1, <1>3 DEF EndPush, Typed
  <2> QED BY <1>3, <2>1, <2>2, EndStep
<1>4. EndPush => Spliced \in Seq(Char)
  BY SplicedIsText DEF EndPush
<1>5. CASE WriteFile \/ CommitFails
  BY <1>3, <1>4, <1>5 DEF WriteFile, CommitFails
<1>6. CASE WriteFails
  BY <1>1, <1>3, <1>6 DEF WriteFails, Typed
<1>7. CASE WriteInPart
  <2>1. PICK t \in ShortAt \cup {Len(Spliced)}, m \in ShortAt \cup {Len(Spliced)} :
          t <= Len(Spliced) /\ backing' = Short(t, m)
    BY <1>7 DEF WriteInPart
  <2>2. EndPush /\ (Committed \/ RolledBack)
    BY <1>7 DEF WriteInPart
  <2>3. t \in Nat
    BY <1>4, <2>2, FileSpliceAssumption
  <2>4. backing' \in Seq(Char)
    BY <1>1, <1>4, <2>1, <2>2, <2>3, ShortIsText
  <2> QED BY <1>3, <2>2, <2>4
<1> QED BY <1>2, <1>5, <1>6, <1>7

(* Before the first session.                                               *)
LEMMA InitOK == Init => IInv
<1> SUFFICES ASSUME Init PROVE IInv
  OBVIOUS
<1>1. backing \in Seq(Char)
  <2>1. Length \in Nat /\ \A i \in 1..Length : i \in Char
    BY FileSpliceAssumption DEF Byte, Char
  <2>2. backing \in [1..Length -> Char]
    BY <2>1 DEF Init, FirstFile
  <2> QED BY <2>1, <2>2, FunctionIsText
<1>2. rows \in [OffsetId -> RowType]
  <2>1. PICK s \in Starts : rows = [i \in OffsetId |->
                    [base |-> s[i].base, bound |-> s[i].bound, conflict |-> FALSE]]
    BY DEF Init
  <2>2. s \in [OffsetId -> [base : Nat, bound : Nat]]
    BY <2>1, FileSpliceAssumption
  <2> QED BY <2>1, <2>2 DEF RowType
<1>3. /\ <<>> \in Seq(Char) /\ <<>> \in Seq(Node) /\ <<>> \in Seq(Update) /\ <<>> \in Seq(Seq(Byte))
  OBVIOUS
<1>4. Typed
  BY <1>1, <1>2, <1>3 DEF Init, Typed
<1> QED BY <1>4, TypedIs DEF Init, IInv

(* A step that changes nothing keeps the invariant.                        *)
LEMMA StutterStep ==
  ASSUME IInv, UNCHANGED vars
  PROVE  IInv'
<1> USE DEF vars, session
<1>1. /\ backing' = backing /\ rows' = rows /\ txn' = txn /\ left' = left /\ pc' = pc
      /\ list' = list /\ swp' = swp /\ tail' = tail /\ n' = n /\ o_close' = o_close
      /\ delta' = delta /\ ou' = ou /\ gaps' = gaps /\ texts' = texts
  OBVIOUS
<1>2. TypeOK'
  BY <1>1, TypedIs, TypedNext DEF IInv, Typed
<1>3. Listed' = Listed /\ GapsPulled' = GapsPulled
  BY <1>1 DEF Listed, GapsPulled, Unmerged, Edited, Row, From, To
<1>4. Saved' = Saved /\ Found' = Found
  BY <1>1 DEF Saved, Whole, OneLost, Found, IsFound, FoundUpTo
<1>5. Placed' = Placed
  BY <1>1 DEF Placed, OraclesKept, Whole, PlacedAt, FoundUpTo, SwapLen
<1>6. Updates' = Updates
  BY <1>1 DEF Updates, UpdateOf, Row
<1>7. RowsFollow' = RowsFollow
  <2>1. EditedFollow' = EditedFollow
    BY <1>1 DEF EditedFollow, NewEnd, PlainLen, From, Row
  <2>2. \A i \in OffsetId : Beside(i)' = Beside(i) /\ OtherFollows(i)' = OtherFollows(i)
    BY <1>1 DEF Beside, Edited, OtherFollows, InGap, NewEnd, PlainLen, From, Row
  <2>3. Unmerged' = Unmerged /\ OraclesKept' = OraclesKept /\ WithinFile' = WithinFile
    BY <1>1 DEF Unmerged, Edited, OraclesKept, WithinFile
  <2> QED BY <2>1, <2>2, <2>3 DEF RowsFollow
<1> QED BY <1>1, <1>2, <1>3, <1>4, <1>5, <1>6, <1>7 DEF IInv

(* The invariant holds in every state of every behaviour: Pull, Save,      *)
(* push_swap_file's search and query_resize_file's loop all keep it.       *)
THEOREM Invariance == Spec => []IInv
<1>1. IInv /\ [Next]_vars => IInv'
  <2> SUFFICES ASSUME IInv, [Next]_vars PROVE IInv'
    OBVIOUS
  <2>1. CASE \E S \in Ranges : Pull(S)
    BY <2>1, PullStep
  <2>2. CASE Save
    BY <2>2, SaveStep
  <2>3. CASE Quit \/ Abandon \/ WriteFile \/ WriteFails \/ CommitFails \/ WriteInPart
    BY <2>3, QuitStep
  <2>4. CASE FindOracles
    BY <2>4, FindStep
  <2>5. CASE BeginResize
    BY <2>5, BeginStep
  <2>6. CASE Resize
    BY <2>6, ResizeStep
  <2>7. CASE UNCHANGED vars
    BY <2>7, StutterStep
  <2> QED BY <2>1, <2>2, <2>3, <2>4, <2>5, <2>6, <2>7 DEF Next
<1> QED BY <1>1, InitOK, PTL DEF Spec

-----------------------------------------------------------------------------
(* MarksNeeded *)

(* As many marks as increasing positions where one stands.                 *)
LEMMA MarksAtLeast ==
  ASSUME NEW m, NEW w \in Seq(Char), NEW k \in Nat, NEW f \in [1..k -> Positions(m, w)],
         \A i, j \in 1..k : i < j => f[i] < f[j]
  PROVE  Marks(m, w) >= k
<1>1. IsFiniteSet(Positions(m, w)) /\ Marks(m, w) = Cardinality(Positions(m, w)) /\ Marks(m, w) \in Nat
  BY PositionsFinite
<1>2. \A i \in 1..k : f[i] \in Int
  BY LenProperties DEF Positions
<1>3. \A i, j \in 1..k : f[i] = f[j] => i = j
  BY <1>2
<1>4. f \in Injection(1..k, Positions(m, w))
  BY <1>3 DEF Injection, IsInjective
<1>5. Cardinality(1..k) <= Cardinality(Positions(m, w))
  BY <1>1, <1>4, FS_Injection
<1>6. Cardinality(1..k) = k
  <2>1. Cardinality(1..k) = IF 1 > k THEN 0 ELSE k - 1 + 1
    BY FS_Interval
  <2> QED BY <2>1
<1> QED BY <1>1, <1>5, <1>6

(* If all oracles were found, none is missing.                             *)
LEMMA AllFound ==
  ASSUME IInv, pc = "resize", ~StaleOracles
  PROVE  OraclesKept
<1>1. /\ Typed /\ Listed /\ Fits(gaps, texts) /\ Saved /\ Found
      /\ Len(list) \in Nat /\ Len(texts) \in Nat /\ Len(texts) <= Len(list)
      /\ \A k \in 1..Len(list) : list[k].base \in Nat /\ list[k].bound \in Nat
  BY InSession DEF IInv
<1>2. swp \in Seq(Char) /\ tail \in Seq(Char) /\ Len(swp) \in Nat
  BY <1>1, LenProperties DEF Typed
<1>3. FoundUpTo = Len(list)
  BY DEF FoundUpTo
<1>4. \A k \in 1..Len(list) :
         /\ 1 <= list[k].base /\ list[k].base <= list[k].bound /\ list[k].bound < Len(swp)
         /\ swp[list[k].base] = Open /\ swp[list[k].bound + 1] = Close
  BY <1>1, <1>3 DEF Found, IsFound
<1>5. \A j, k \in 1..Len(list) : j < k => list[j].bound < list[k].base
  BY <1>1, <1>3 DEF Found
<1>6. Marks(Open, swp) >= Len(list)
  <2> DEFINE f == [k \in 1..Len(list) |-> list[k].base]
  <2>1. f \in [1..Len(list) -> Positions(Open, swp)]
    BY <1>1, <1>2, <1>4 DEF Positions
  <2>2. \A i, j \in 1..Len(list) : i < j => f[i] < f[j]
    BY <1>1, <1>4, <1>5
  <2> HIDE DEF f
  <2> QED BY <1>1, <1>2, <2>1, <2>2, MarksAtLeast
<1>7. Marks(Close, swp) >= Len(list)
  <2> DEFINE f == [k \in 1..Len(list) |-> list[k].bound + 1]
  <2>1. f \in [1..Len(list) -> Positions(Close, swp)]
    BY <1>1, <1>2, <1>4 DEF Positions
  <2>2. \A i, j \in 1..Len(list) : i < j => f[i] < f[j]
    BY <1>1, <1>4, <1>5
  <2> HIDE DEF f
  <2> QED BY <1>1, <1>2, <2>1, <2>2, MarksAtLeast
<1>8. \A m \in Mark : Marks(m, tail) = 0 /\ Marks(m, swp) \in Nat
  <2>1. \A m \in Mark : Marks(m, tail) \in Nat /\ Marks(m, swp) \in Nat
    BY <1>2, PositionsFinite
  <2> QED BY <2>1 DEF StaleOracles, Mark
<1>9. ASSUME NEW m \in Mark PROVE Marks(m, swp) - Marks(m, tail) <= Len(texts)
  <2>1. PICK above \in Above : Whole(above) \/ OneLost(above)
    BY <1>1 DEF Saved
  <2> DEFINE all == above \o SwapFile(gaps, texts)
  <2>2. all = above \o SwapFile(gaps, texts) /\ AllOrAllButOne(swp, all, tail)
    BY <2>1 DEF Whole, OneLost, AllOrAllButOne
  <2> HIDE DEF all
  <2> QED BY <1>1, <1>2, <2>2, SavedIs
<1>10. \A m \in Mark : Marks(m, swp) - Marks(m, tail) = Len(list)
  <2> SUFFICES ASSUME NEW m \in Mark PROVE Marks(m, swp) - Marks(m, tail) = Len(list)
    OBVIOUS
  <2>1. Marks(m, swp) >= Len(list)
    BY <1>6, <1>7 DEF Mark
  <2> QED BY <1>1, <1>8, <1>9, <2>1
<1> QED BY <1>10 DEF OraclesKept, Mark

(* The files, the rows, the nodes and the updates have their types: no row *)
(* of any session is moved below the start of the file.                    *)
THEOREM SplicedTyped == Spec => []TypeOK
<1>1. IInv => TypeOK
  BY DEF IInv
<1> QED BY <1>1, Invariance, PTL

(* MarksNeeded: push_swap_file reaches query_resize_file only with all the *)
(* oracles, unless an earlier session has left some at the end of the swap *)
(* file.                                                                   *)
THEOREM NoMarkMissed == Spec => []MarksNeeded
<1>1. IInv => MarksNeeded
  BY AllFound DEF MarksNeeded
<1> QED BY <1>1, Invariance, PTL

-----------------------------------------------------------------------------
(* SpliceIsExact *)

(* What a push has to write.                                               *)
Ready ==
    /\ IInv /\ pc = "resize" /\ n > Len(list) /\ Unmerged /\ OraclesKept

(* A push that the properties are about is ready in this sense.            *)
LEMMA PushedReady ==
  ASSUME IInv, Pushed
  PROVE  Ready
<1>1. pc = "resize" /\ n > Len(list) /\ Unmerged
  BY DEF Pushed, WriteFile, EndPush
<1>2. OraclesKept
  BY <1>1, AllFound DEF Pushed
<1> QED BY <1>1, <1>2 DEF Ready

(* The text between two oracles stands where the node says.                *)
LEMMA TextFound ==
  ASSUME Ready, NEW k \in 1..Len(list)
  PROVE  Copy(swp, list[k].base, list[k].bound - list[k].base) = texts[k]
<1>1. /\ Typed /\ Fits(gaps, texts) /\ Len(list) \in Nat /\ Len(texts) = Len(list)
      /\ list[k].base \in Nat
  BY InSession, KeptAll DEF Ready
<1>2. PICK above \in Above : Whole(above) /\ PlacedAt(above)
  BY KeptAll DEF Ready
<1>3. swp = (above \o SwapFile(gaps, texts)) \o tail /\ tail \in Seq(Char)
  BY <1>1, <1>2 DEF Whole, Typed
<1>4. swp \in Seq(Char) /\ Len(above) \in Nat
  BY <1>1, <1>3, KeptStands
<1>5. OracleAt(gaps, texts, swp, above, k)
  BY <1>1, <1>3, KeptStands
<1> DEFINE a == gaps[k]
<1> DEFINE b == texts[k]
<1> DEFINE d == Len(above) + OraclesTo(gaps, texts, k - 1)
<1> DEFINE x == list[k].base
<1>6. a \in Seq(Char) /\ Len(a) \in Nat /\ b \in Seq(Char) /\ Len(b) \in Nat
  <2>1. k \in 1 .. Len(texts) + 1 /\ k \in 1..Len(texts)
    BY <1>1
  <2> QED BY <1>1, <2>1, FitsIs
<1>7. d \in Nat /\ OraclesStand(a, b, swp, d)
  BY <1>4, <1>5 DEF OracleAt
<1>8. x = d + Len(a) + 1 /\ list[k].bound = x + Len(b) /\ x \in Nat
  BY <1>1, <1>2 DEF PlacedAt, FoundUpTo, SwapLen, OraclesTo, Ready
<1> HIDE DEF a, b, d, x
<1>9. Stands(b, swp, x)
  <2>1. x + Len(b) <= Len(swp)
    BY <1>4, <1>6, <1>7, <1>8, LenProperties DEF OraclesStand
  <2>2. \A i \in 1..Len(b) : swp[x + i] = b[i]
    BY <1>7, <1>8 DEF OraclesStand
  <2> QED BY <2>1, <2>2 DEF Stands
<1>10. Copy(swp, x, Len(b)) = b
  BY <1>4, <1>6, <1>8, <1>9, CopyStands
<1>11. list[k].bound - x = Len(b)
  BY <1>6, <1>8
<1> QED BY <1>10, <1>11 DEF b, x

(* What write_offset_update writes: the gaps of the old file and the new   *)
(* texts.                                                                  *)
LEMMA SplicedIs ==
  ASSUME Ready
  PROVE  Spliced = PlainFile(gaps, texts)
<1> DEFINE p == [k \in 1..Len(ou) |-> Replaced(k)]
<1> DEFINE end == From(Len(list) + 1)
<1>1. /\ Typed /\ GapsPulled /\ Fits(gaps, texts) /\ Len(list) \in Nat /\ Len(texts) = Len(list)
      /\ Unmerged
  BY InSession, KeptAll DEF Ready
<1>2. /\ Len(ou) = Len(list)
      /\ \A k \in 1..Len(list) :
            Replaced(k) = Copy(backing, From(k), Row(k).base - From(k))
                             \o Copy(swp, list[k].base, list[k].bound - list[k].base)
      /\ Reached(Len(ou) + 1) = end
  BY ReplacedIs DEF Ready
<1>3. \A k \in 1 .. Len(list) + 1 : gaps[k] = Copy(backing, From(k), To(k) - From(k))
  BY <1>1 DEF GapsPulled
<1>4. Spliced = FlattenSeq(p) \o Copy(backing, end, Len(backing) - end)
  BY <1>2 DEF Spliced
<1>5. Copy(backing, end, Len(backing) - end) = gaps[Len(texts) + 1]
  <2>1. Len(list) + 1 \in 1 .. Len(list) + 1 /\ Len(list) + 1 > Len(list)
    BY <1>1
  <2>2. To(Len(list) + 1) = Len(backing)
    BY <2>1 DEF To
  <2> QED BY <1>1, <1>3, <2>1, <2>2
<1>6. p = Pieces(gaps, texts, <<>>, <<>>)
  <2>1. ASSUME NEW k \in 1..Len(list)
        PROVE  Replaced(k) = gaps[k] \o <<>> \o texts[k] \o <<>>
    <3> DEFINE a == gaps[k]
    <3> DEFINE b == texts[k]
    <3>1. a \in Seq(Char) /\ b \in Seq(Char)
      <4>1. k \in 1 .. Len(texts) + 1 /\ k \in 1..Len(texts)
        BY <1>1
      <4> QED BY <1>1, <4>1, FitsIs
    <3>2. Copy(backing, From(k), Row(k).base - From(k)) = a
      <4>1. k \in 1 .. Len(list) + 1 /\ ~(k > Len(list))
        BY <1>1
      <4>2. To(k) = Row(k).base
        BY <4>1 DEF To
      <4> QED BY <1>3, <4>1, <4>2
    <3>3. Copy(swp, list[k].base, list[k].bound - list[k].base) = b
      BY TextFound
    <3>4. Replaced(k) = a \o b
      BY <1>2, <3>2, <3>3
    <3> HIDE DEF a, b
    <3>5. a \o <<>> = a /\ a \o b \in Seq(Char)
      BY <3>1, ConcatEmptySeq, ConcatProperties
    <3>6. (a \o b) \o <<>> = a \o b
      BY <3>5, ConcatEmptySeq
    <3>7. a \o <<>> \o b \o <<>> = a \o b
      BY <3>5, <3>6
    <3> QED BY <3>4, <3>7 DEF a, b
  <2> QED BY <1>1, <1>2, <2>1 DEF Pieces
<1> HIDE DEF p, end
<1> QED BY <1>4, <1>5, <1>6 DEF PlainFile, Woven

(* SpliceIsExact: write_offset_update changes the intervals of the range,  *)
(* to what the user left between the oracles, and no other byte.           *)
THEOREM SpliceExact == Spec => SpliceIsExact
<1>1. IInv /\ [Next]_vars => (Pushed => backing' = PlainFile(gaps, texts))
  <2> SUFFICES ASSUME IInv, Pushed PROVE backing' = PlainFile(gaps, texts)
    OBVIOUS
  <2>1. Spliced = PlainFile(gaps, texts)
    BY PushedReady, SplicedIs
  <2> QED BY <2>1 DEF Pushed, WriteFile
<1>2. IInv /\ [Next]_vars => [Pushed => backing' = PlainFile(gaps, texts)]_vars
  BY <1>1
<1> QED BY <1>2, Invariance, PTL DEF Spec, SpliceIsExact

-----------------------------------------------------------------------------
(* RowsFollowBytes                                                         *)

(* Text c is what sendfile copies of the bytes of s from p up to q.        *)
IsCopy(c, s, p, q) ==
    /\ c \in Seq(Char)
    /\ Len(c) = IF p + 1 <= AtMost(q, Len(s)) THEN AtMost(q, Len(s)) - p ELSE 0
    /\ \A i \in 1 .. AtMost(q, Len(s)) - p : c[i] = s[p + i]

(* Copy, from an offset to another.                                        *)
LEMMA CopyIsCopy ==
  ASSUME NEW s \in Seq(Char), NEW p \in Nat, NEW q \in Int, NEW k \in Int, k = q - p,
         NEW c, c = Copy(s, p, k)
  PROVE  IsCopy(c, s, p, q)
<1>1. /\ Copy(s, p, k) \in Seq(Char)
      /\ Len(Copy(s, p, k)) =
            IF p + 1 <= AtMost(p + k, Len(s)) THEN AtMost(p + k, Len(s)) - p ELSE 0
      /\ \A i \in 1 .. AtMost(p + k, Len(s)) - p : Copy(s, p, k)[i] = s[p + i]
  BY CopyIs
<1>2. p + k = q
  OBVIOUS
<1> QED BY <1>1, <1>2 DEF IsCopy

(* Bytes of a text that stands in the new file, from the old one: either   *)
(* they end where the text does, or both files end there.                  *)
LEMMA SameText ==
  ASSUME NEW old \in Seq(Char), NEW new \in Seq(Char), NEW a \in Seq(Char),
         NEW s, NEW t, NEW from \in Nat, NEW to \in Nat,
         NEW x \in Nat, NEW y \in Nat, NEW p \in Nat, NEW q \in Nat, NEW r \in Nat,
         from <= x, x < y, q = p + (x - from), r = p + (y - from),
         IsCopy(a, old, from, to), IsCopy(s, old, x, y), IsCopy(t, new, q, r),
         Stands(a, new, p),
         (y <= to /\ to <= Len(old)) \/ (to = Len(old) /\ Len(new) = p + Len(a))
  PROVE  t = s
<1> DEFINE e == AtMost(y, Len(old))
<1> DEFINE h == AtMost(r, Len(new))
<1> DEFINE g == AtMost(to, Len(old))
<1>1. Len(old) \in Nat /\ Len(new) \in Nat
  BY LenProperties
<1>2. /\ s \in Seq(Char) /\ Len(s) = IF x + 1 <= e THEN e - x ELSE 0
      /\ \A i \in 1 .. e - x : s[i] = old[x + i]
  BY DEF IsCopy
<1>3. /\ t \in Seq(Char) /\ Len(t) = IF q + 1 <= h THEN h - q ELSE 0
      /\ \A i \in 1 .. h - q : t[i] = new[q + i]
  BY DEF IsCopy
<1>4. /\ Len(a) = IF from + 1 <= g THEN g - from ELSE 0
      /\ \A i \in 1 .. g - from : a[i] = old[from + i]
  BY DEF IsCopy
<1>5. p + Len(a) <= Len(new) /\ \A i \in 1..Len(a) : new[p + i] = a[i]
  BY DEF Stands
<1> DEFINE la == Len(a)
<1> DEFINE lo == Len(old)
<1> DEFINE ln == Len(new)
<1> DEFINE ls == Len(s)
<1> DEFINE lt == Len(t)
<1>6. /\ lo \in Nat /\ ln \in Nat /\ p + la <= ln
      /\ e = (IF y <= lo THEN y ELSE lo) /\ h = (IF r <= ln THEN r ELSE ln)
      /\ g = (IF to <= lo THEN to ELSE lo)
      /\ la = (IF from + 1 <= g THEN g - from ELSE 0)
      /\ ls = (IF x + 1 <= e THEN e - x ELSE 0) /\ lt = (IF q + 1 <= h THEN h - q ELSE 0)
      /\ ((y <= to /\ to <= lo) \/ (to = lo /\ ln = p + la))
  <2>1. e = (IF y <= lo THEN y ELSE lo) /\ h = (IF r <= ln THEN r ELSE ln)
        /\ g = (IF to <= lo THEN to ELSE lo)
    BY DEF AtMost
  <2>2. (y <= to /\ to <= lo) \/ (to = lo /\ ln = p + la)
    OBVIOUS
  <2>3. lo \in Nat /\ ln \in Nat /\ p + la <= ln
    BY <1>1, <1>5
  <2>4. la = (IF from + 1 <= g THEN g - from ELSE 0)
    BY <1>4
  <2>5. ls = (IF x + 1 <= e THEN e - x ELSE 0)
    BY <1>2
  <2>6. lt = (IF q + 1 <= h THEN h - q ELSE 0)
    BY <1>3
  <2> HIDE DEF e, h, g, la, lo, ln, ls, lt
  <2> QED BY <2>1, <2>2, <2>3, <2>4, <2>5, <2>6
<1>7. s \in Seq(Char) /\ t \in Seq(Char)
  BY <1>2, <1>3
<1> HIDE DEF e, h, g, la, lo, ln, ls, lt
<1>8. ls = lt /\ h - q \in Int /\ e - x \in Int /\ g - from \in Int
  BY <1>6
<1>9. ASSUME NEW i \in 1..ls PROVE s[i] = t[i]
  <2> DEFINE j == (x - from) + i
  <2>1. /\ i \in 1 .. e - x /\ i \in 1 .. h - q /\ j \in 1 .. g - from /\ j \in 1..la
        /\ from + j = x + i /\ p + j = q + i
    BY <1>6, <1>8
  <2>2. s[i] = old[x + i] /\ t[i] = new[q + i]
    BY <1>2, <1>3, <2>1
  <2>3. a[j] = old[from + j]
    BY <1>4, <2>1
  <2>4. new[p + j] = a[j]
    BY <1>5, <2>1 DEF la
  <2> HIDE DEF j
  <2> QED BY <2>1, <2>2, <2>3, <2>4
<1> QED BY <1>7, <1>8, <1>9, SeqEqual DEF ls, lt

-----------------------------------------------------------------------------
(* A row beside those of the range lies in one of the gaps.                *)
LEMMA RowInGap ==
  ASSUME Ready, NEW i \in OffsetId, Beside(i)
  PROVE  \E k \in 1 .. Len(list) + 1 : InGap(i, k)
<1> DEFINE x == rows[i].base
<1> DEFINE y == rows[i].bound
<1> DEFINE T == {k \in 1..Len(list) : y <= Row(k).base}
<1>1. /\ Typed /\ Listed /\ Len(list) \in Nat
      /\ \A k \in 1..Len(list) : Row(k).base \in Nat /\ Row(k).bound \in Nat
  BY InSession DEF Ready
<1>2. x \in Nat /\ y \in Nat /\ x < y
  BY <1>1 DEF Typed, RowType, Beside
<1>3. \A k \in 1..Len(list) : y <= Row(k).base \/ Row(k).bound <= x
  <2> SUFFICES ASSUME NEW k \in 1..Len(list) PROVE y <= Row(k).base \/ Row(k).bound <= x
    OBVIOUS
  <2>1. list[k].id \in Edited
    BY DEF Edited
  <2>2. ~Conflict(rows[i], Row(k))
    BY <2>1 DEF Beside, Row
  <2> QED BY <1>1, <1>2, <2>2 DEF Conflict
<1>4. ASSUME NEW k \in 1 .. Len(list) + 1, k # 1 => k - 1 \notin T
      PROVE  From(k) <= x
  <2>1. CASE k = 1
    BY <1>2, <2>1 DEF From
  <2>2. CASE k # 1
    <3>1. k - 1 \in 1..Len(list)
      BY <1>1, <2>2
    <3>2. Row(k - 1).bound <= x
      BY <1>3, <1>4, <2>2, <3>1
    <3> QED BY <2>2, <3>2 DEF From
  <2> QED BY <2>1, <2>2
<1>5. CASE T = {}
  <2>1. InGap(i, Len(list) + 1)
    <3>1. Len(list) + 1 \in 1 .. Len(list) + 1 /\ ~(Len(list) + 1 <= Len(list))
      BY <1>1
    <3>2. From(Len(list) + 1) <= x
      BY <1>4, <1>5, <3>1
    <3> QED BY <3>1, <3>2 DEF InGap
  <2>2. Len(list) + 1 \in 1 .. Len(list) + 1
    BY <1>1
  <2> QED BY <2>1, <2>2
<1>6. CASE T # {}
  <2>1. T \subseteq Nat
    BY <1>1
  <2> HIDE DEF T
  <2>2. PICK k \in T : \A j \in T : k <= j
    BY <1>6, <2>1, Least
  <2>3. k \in 1..Len(list) /\ k \in 1 .. Len(list) + 1 /\ y <= Row(k).base
    BY <1>1 DEF T
  <2>4. k - 1 \notin T
    BY <1>1, <2>2, <2>3
  <2>5. From(k) <= x
    BY <1>4, <2>3, <2>4
  <2> QED BY <2>3, <2>5 DEF InGap
<1> QED BY <1>5, <1>6

(* Where gap k and text k stand in the new file.                           *)
LEMMA PlainStands ==
  ASSUME Ready, NEW w, w = PlainFile(gaps, texts)
  PROVE  /\ w \in Seq(Char)
         /\ \A k \in 1..Len(list) :
               /\ PlainLen(k - 1) \in Nat /\ Len(gaps[k]) \in Nat
               /\ Stands(gaps[k], w, PlainLen(k - 1))
               /\ Stands(texts[k], w, PlainLen(k - 1) + Len(gaps[k]))
         /\ PlainLen(Len(list)) \in Nat
         /\ Stands(gaps[Len(list) + 1], w, PlainLen(Len(list)))
         /\ Len(w) = PlainLen(Len(list)) + Len(gaps[Len(list) + 1])
<1> DEFINE o == <<>>
<1>1. Fits(gaps, texts) /\ Len(list) \in Nat /\ Len(texts) = Len(list)
  BY InSession, KeptAll DEF Ready
<1>2. o \in Seq(Char) /\ Len(o) = 0
  BY NoText
<1>3. w = Woven(gaps, texts, o, o) /\ \A k : PlainLen(k) = LengthTo(gaps, texts, o, o, k)
  BY DEF PlainFile, PlainLen
<1> HIDE DEF o
<1>4. w \in Seq(Char) /\ WovenEnds(gaps, texts, o, o, w)
  BY <1>1, <1>2, <1>3, WovenIs
<1>5. /\ PlainLen(Len(list)) \in Nat
      /\ Stands(gaps[Len(list) + 1], w, PlainLen(Len(list)))
      /\ Len(w) = PlainLen(Len(list)) + Len(gaps[Len(list) + 1])
  BY <1>1, <1>3, <1>4 DEF WovenEnds
<1>6. ASSUME NEW k \in 1..Len(list)
      PROVE  /\ PlainLen(k - 1) \in Nat /\ Len(gaps[k]) \in Nat
             /\ Stands(gaps[k], w, PlainLen(k - 1))
             /\ Stands(texts[k], w, PlainLen(k - 1) + Len(gaps[k]))
  <2>1. k \in 1..Len(texts) /\ k \in 1 .. Len(texts) + 1
    BY <1>1
  <2>2. WovenAt(gaps, texts, o, o, w, k)
    BY <1>1, <1>2, <1>3, <2>1, WovenIs
  <2>3. PlainLen(k - 1) \in Nat /\ PieceStands(gaps[k], texts[k], o, o, w, PlainLen(k - 1))
    BY <1>3, <2>2 DEF WovenAt
  <2>4. Len(gaps[k]) \in Nat
    BY <1>1, <2>1, FitsIs
  <2> DEFINE d == PlainLen(k - 1)
  <2> DEFINE a == gaps[k]
  <2>5. d \in Nat /\ Len(a) \in Nat /\ PieceStands(a, texts[k], o, o, w, d)
    BY <2>3, <2>4
  <2> HIDE DEF d, a
  <2>6. Stands(a, w, d) /\ Stands(texts[k], w, d + Len(a) + Len(o))
    BY <2>5 DEF PieceStands
  <2>7. d + Len(a) + Len(o) = d + Len(a)
    BY <1>2, <2>5
  <2>8. Stands(a, w, d) /\ Stands(texts[k], w, d + Len(a))
    BY <2>6, <2>7
  <2> QED BY <2>5, <2>8 DEF a, d
<1> QED BY <1>4, <1>5, <1>6

(* The rows of the transaction describe the bytes of the file it writes.   *)
LEMMA RowsFollowPush ==
  ASSUME Ready, WithinFile, NEW w, w = PlainFile(gaps, texts)
  PROVE  /\ \A k \in 1..Len(list) : TextOf(w, txn[list[k].id]) = texts[k]
         /\ \A i \in OffsetId : Beside(i) => TextOf(w, txn[i]) = TextOf(backing, rows[i])
<1>1. /\ Typed /\ Listed /\ GapsPulled /\ Fits(gaps, texts) /\ Found /\ RowsFollow
      /\ Len(list) \in Nat /\ Len(texts) = Len(list)
      /\ \A k \in 1..Len(list) : Row(k).base \in Nat /\ Row(k).bound \in Nat
  BY InSession, KeptAll DEF Ready, IInv
<1>2. n = Len(list) + 1 /\ n - 1 = Len(list)
  BY <1>1 DEF Found, Ready
<1>3. EditedFollow /\ \A i \in OffsetId : Beside(i) => OtherFollows(i)
  BY <1>1 DEF Ready, RowsFollow
<1>4. \A k \in 1 .. Len(list) + 1 : gaps[k] = Copy(backing, From(k), To(k) - From(k))
  BY <1>1 DEF GapsPulled, Ready
<1>5. w \in Seq(Char)
  BY PlainStands
<1>6. ASSUME NEW k \in 1..Len(list)
      PROVE  /\ PlainLen(k - 1) \in Nat /\ Len(gaps[k]) \in Nat
             /\ Stands(gaps[k], w, PlainLen(k - 1))
             /\ Stands(texts[k], w, PlainLen(k - 1) + Len(gaps[k]))
  BY PlainStands
<1>7. /\ PlainLen(Len(list)) \in Nat
      /\ Stands(gaps[Len(list) + 1], w, PlainLen(Len(list)))
      /\ Len(w) = PlainLen(Len(list)) + Len(gaps[Len(list) + 1])
  BY PlainStands
<1>8. ASSUME NEW k \in 1..Len(list)
      PROVE  TextOf(w, txn[list[k].id]) = texts[k]
  <2> DEFINE p == PlainLen(k - 1) + Len(gaps[k])
  <2> DEFINE b == texts[k]
  <2> DEFINE r == txn[list[k].id]
  <2>1. r.base = p /\ r.bound = r.base + Len(b)
    BY <1>2, <1>3 DEF EditedFollow
  <2>2. p \in Nat /\ Stands(b, w, p)
    BY <1>6
  <2>3. b \in Seq(Char) /\ Len(b) \in Nat
    <3>1. k \in 1..Len(texts)
      BY <1>1
    <3> QED BY <1>1, <3>1, FitsIs
  <2> HIDE DEF p, b, r
  <2>4. Copy(w, p, Len(b)) = b
    BY <1>5, <2>2, <2>3, CopyStands
  <2>5. r.bound - r.base = Len(b)
    BY <2>1, <2>2, <2>3
  <2>6. TextOf(w, r) = b
    BY <2>1, <2>4, <2>5 DEF TextOf
  <2> QED BY <2>6 DEF b, r
<1>9. ASSUME NEW i \in OffsetId, Beside(i)
      PROVE  TextOf(w, txn[i]) = TextOf(backing, rows[i])
  <2> DEFINE x == rows[i].base
  <2> DEFINE y == rows[i].bound
  <2>1. x \in Nat /\ y \in Nat /\ x < y /\ delta \in Int
    BY <1>1, <1>9 DEF Typed, RowType, Beside
  <2>2. PICK k \in 1 .. Len(list) + 1 : InGap(i, k)
    BY <1>9, RowInGap
  <2> DEFINE a == gaps[k]
  <2> DEFINE f == From(k)
  <2> DEFINE to == To(k)
  <2> DEFINE p == PlainLen(k - 1)
  <2> DEFINE u == txn[i]
  <2>3. f \in Nat
    <3>1. CASE k = 1
      BY <3>1 DEF From
    <3>2. CASE k # 1
      <4>1. k - 1 \in 1..Len(list)
        BY <1>1, <3>2
      <4> QED BY <1>1, <3>2, <4>1 DEF From
    <3> QED BY <3>1, <3>2
  <2>4. f <= x /\ a = Copy(backing, f, to - f)
    BY <1>4, <2>2 DEF InGap
  <2>5. backing \in Seq(Char) /\ Len(backing) \in Nat
    BY <1>1, LenProperties DEF Typed
  <2>6. /\ p \in Nat /\ Stands(a, w, p) /\ to \in Nat
        /\ u.base = p + (x - f) /\ u.bound = p + (y - f)
        /\ \/ y <= to /\ to <= Len(backing)
           \/ to = Len(backing) /\ Len(w) = p + Len(a)
    <3>1. CASE k \in 1..Len(list)
      <4>1. to = Row(k).base
        BY <1>1, <3>1 DEF To
      <4>2. to <= Len(backing)
        <5>1. list[k].id \in Edited
          BY <3>1 DEF Edited
        <5> QED BY <4>1, <5>1 DEF WithinFile, Row
      <4>3. y <= to
        BY <1>1, <2>2, <3>1, <4>1 DEF InGap
      <4>4. u.base = p + (x - f) /\ u.bound = p + (y - f)
        BY <1>2, <1>3, <1>9, <2>2, <3>1 DEF OtherFollows
      <4>5. p \in Nat /\ Stands(a, w, p) /\ to \in Nat
        BY <1>1, <1>6, <3>1, <4>1
      <4> QED BY <4>2, <4>3, <4>4, <4>5
    <3>2. CASE k \notin 1..Len(list)
      <4>1. k = Len(list) + 1 /\ k = n /\ k - 1 = Len(list) /\ k > Len(list)
        BY <1>1, <1>2, <3>2
      <4>2. to = Len(backing)
        BY <4>1 DEF To
      <4>3. p \in Nat /\ Stands(a, w, p) /\ Len(w) = p + Len(a)
        BY <1>7, <4>1
      <4>4. u.base = x + delta /\ u.bound = y + delta
        BY <1>3, <1>9, <2>4, <4>1 DEF OtherFollows
      <4>5. f + delta = p
        BY <1>3, <4>1 DEF EditedFollow, NewEnd
      <4> HIDE DEF f, p, x, y, u
      <4>6. u.base = p + (x - f) /\ u.bound = p + (y - f)
        BY <2>1, <2>3, <4>3, <4>4, <4>5
      <4> QED BY <2>5, <4>2, <4>3, <4>6
    <3> QED BY <3>1, <3>2
  <2>10. a \in Seq(Char)
    BY <1>1, FitsIs
  <2> HIDE DEF a, f, to, p, x, y, u
  <2> DEFINE old == backing
  <2> DEFINE ub == u.base
  <2> DEFINE ue == u.bound
  <2> DEFINE k1 == to - f
  <2> DEFINE k2 == y - x
  <2> DEFINE k3 == ue - ub
  <2>7. /\ old \in Seq(Char) /\ ub = p + (x - f) /\ ue = p + (y - f) /\ ub \in Nat /\ ue \in Nat
        /\ k1 \in Int /\ k2 \in Int /\ k3 \in Int
    BY <2>1, <2>3, <2>4, <2>5, <2>6
  <2>8. a = Copy(old, f, k1)
    BY <2>4
  <2>9. (y <= to /\ to <= Len(old)) \/ (to = Len(old) /\ Len(w) = p + Len(a))
    BY <2>6
  <2>11. k1 = to - f /\ k2 = y - x /\ k3 = ue - ub
    OBVIOUS
  <2>12. TextOf(w, u) = Copy(w, ub, k3) /\ TextOf(backing, rows[i]) = Copy(old, x, k2)
    BY DEF TextOf, x, y
  <2> DEFINE s == TextOf(backing, rows[i])
  <2> DEFINE t == TextOf(w, u)
  <2> HIDE DEF old, ub, ue, k1, k2, k3, s, t
  <2>13. IsCopy(a, old, f, to)
    BY <2>3, <2>6, <2>7, <2>8, <2>11, CopyIsCopy
  <2>14. s = Copy(old, x, k2) /\ t = Copy(w, ub, k3)
    BY <2>12 DEF s, t
  <2>15. IsCopy(s, old, x, y)
    BY <2>1, <2>7, <2>11, <2>14, CopyIsCopy
  <2>16. IsCopy(t, w, ub, ue)
    BY <1>5, <2>7, <2>11, <2>14, CopyIsCopy
  <2>17. f <= x /\ x < y /\ Stands(a, w, p)
    BY <2>1, <2>4, <2>6
  <2>18. f \in Nat /\ to \in Nat /\ x \in Nat /\ y \in Nat /\ p \in Nat
    BY <2>1, <2>3, <2>6
  <2>19. t = s
    BY <1>5, <2>7, <2>9, <2>10, <2>13, <2>15, <2>16, <2>17, <2>18, SameText
  <2> QED BY <2>19 DEF s, t, u
<1> QED BY <1>8, <1>9

(* RowsFollowBytes: after the COMMIT every row of the range describes the  *)
(* text it was given, and every row beside them the bytes it described.    *)
THEOREM RowsFollowed == Spec => RowsFollowBytes
<1> DEFINE Follow ==
      Pushed /\ (\A j \in Edited : rows[j].base <= Len(backing)) =>
          /\ \A k \in 1..Len(list) : TextOf(backing', rows'[list[k].id]) = texts[k]
          /\ \A i \in OffsetId \ Edited :
                (\A j \in Edited : ~Conflict(rows[i], rows[j])) /\ rows[i].base < rows[i].bound
                   => TextOf(backing', rows'[i]) = TextOf(backing, rows[i])
<1>1. IInv /\ [Next]_vars => Follow
  <2> SUFFICES ASSUME IInv, Pushed, \A j \in Edited : rows[j].base <= Len(backing)
               PROVE  /\ \A k \in 1..Len(list) : TextOf(backing', rows'[list[k].id]) = texts[k]
                      /\ \A i \in OffsetId \ Edited :
                            (\A j \in Edited : ~Conflict(rows[i], rows[j])) /\ rows[i].base < rows[i].bound
                               => TextOf(backing', rows'[i]) = TextOf(backing, rows[i])
    OBVIOUS
  <2>1. Ready /\ WithinFile
    BY PushedReady DEF WithinFile
  <2>2. backing' = PlainFile(gaps, texts) /\ rows' = txn
    BY <2>1, SplicedIs DEF Pushed, WriteFile, Committed
  <2> DEFINE w == PlainFile(gaps, texts)
  <2> HIDE DEF w
  <2>3. /\ \A k \in 1..Len(list) : TextOf(w, txn[list[k].id]) = texts[k]
        /\ \A i \in OffsetId : Beside(i) => TextOf(w, txn[i]) = TextOf(backing, rows[i])
    BY <2>1, RowsFollowPush DEF w
  <2>4. backing' = w
    BY <2>2 DEF w
  <2> QED BY <2>2, <2>3, <2>4 DEF Beside
<1> HIDE DEF Follow
<1>2. IInv /\ [Next]_vars => [Follow]_vars
  BY <1>1
<1> QED BY <1>2, Invariance, PTL DEF Spec, RowsFollowBytes, Follow
=============================================================================
