---------------------------- MODULE SequenceLemmas ----------------------------
(***************************************************************************)
(* Facts about sequences the proofs share: induction over numbers and over *)
(* sequences, stated for the set of those that have a property; folds of   *)
(* an operator Op, by which a replay adds up a journal; the flattening of  *)
(* batches.  A module about folds instantiates this one with its operator; *)
(* for the others Op is any operator.                                      *)
(***************************************************************************)
EXTENDS SequencesExt, SequenceTheorems, WellFoundedInduction, TLAPS

CONSTANT Op(_, _)

(* A set of natural numbers that is not empty has a least member. *)
LEMMA LeastNumber ==
  ASSUME NEW T \in SUBSET Nat, T # {}
  PROVE  \E x \in T : \A y \in T : x <= y
<1> DEFINE R == {p \in Nat \X Nat : p[1] < p[2]}
<1>1. IsWellFoundedOn(OpToRel(<, Nat), Nat)
  BY NatLessThanWellFounded
<1>2. R = OpToRel(<, Nat)
  BY DEF OpToRel
<1>3. IsWellFoundedOn(R, Nat)
  BY <1>1, <1>2
<1>4. PICK x \in T : \A y \in T : <<y, x>> \notin R
  <2> HIDE DEF R
  <2> QED BY <1>3, WFMin
<1>5. ASSUME NEW y \in T PROVE x <= y
  <2>1. <<y, x>> \notin R /\ x \in Nat /\ y \in Nat
    BY <1>4
  <2>2. ~(y < x)
    BY <2>1
  <2> QED BY <2>1, <2>2
<1> QED BY <1>5

(* A set of natural numbers that has 0 and with n also n + 1 has them all. *)
LEMMA SetInduction ==
  ASSUME NEW P \in SUBSET Nat, 0 \in P, \A n \in P : n + 1 \in P
  PROVE  P = Nat
<1> SUFFICES ASSUME Nat \ P # {} PROVE FALSE
  OBVIOUS
<1>1. PICK x \in Nat \ P : \A y \in Nat \ P : x <= y
  BY LeastNumber
<1>2. x # 0 /\ x - 1 \in Nat
  BY <1>1
<1>3. (x - 1) + 1 \in P
  BY <1>1, <1>2
<1> QED BY <1>1, <1>3

(* A set of sequences over S that has the empty one and with a sequence also
   the sequence with an element more has them all. *)
LEMMA SeqInduction ==
  ASSUME NEW S, NEW P \in SUBSET Seq(S), <<>> \in P,
         \A q \in P : \A e \in S : Append(q, e) \in P
  PROVE  P = Seq(S)
<1> DEFINE N == {n \in Nat : \A q \in Seq(S) : Len(q) = n => q \in P}
<1>1. 0 \in N
  BY EmptySeq
<1>2. ASSUME NEW n \in N PROVE n + 1 \in N
  <2>1. ASSUME NEW q \in Seq(S), Len(q) = n + 1 PROVE q \in P
    <3>1. q # <<>> /\ n \in Nat
      BY <2>1, EmptySeq
    <3>2. PICK p \in Seq(S), e \in S : q = Append(p, e)
      <4> DEFINE p == [i \in 1 .. n |-> q[i]]
      <4>1. \A i \in 1 .. n + 1 : q[i] \in S
        BY <2>1, ElementOfSeq
      <4>2. p \in Seq(S) /\ Len(p) = n /\ n + 1 \in 1 .. n + 1
        BY <3>1, <4>1, IsASeq
      <4>3. PICK r : r = Append(p, q[n + 1])
        OBVIOUS
      <4>5. q[n + 1] \in S
        BY <4>1, <4>2
      <4>6. r \in Seq(S) /\ Len(r) = n + 1 /\ r[n + 1] = q[n + 1] /\ \A i \in 1 .. n : r[i] = p[i]
        BY <4>2, <4>3, <4>5, AppendProperties
      <4>7. \A i \in 1 .. n + 1 : i \in 1 .. n \/ i = n + 1
        BY <3>1
      <4>8. \A i \in 1 .. n + 1 : r[i] = q[i]
        BY <4>6, <4>7
      <4>9. r = q
        BY <2>1, <4>6, <4>8, SeqEqual
      <4> QED BY <4>2, <4>3, <4>5, <4>9
    <3>3. Len(p) = n
      <4>1. Len(q) = Len(p) + 1 /\ Len(p) \in Nat
        BY <3>2, AppendProperties
      <4> QED BY <4>1, <3>1, <2>1
    <3> QED BY <3>2, <3>3
  <2> QED BY <2>1
<1>3. N = Nat
  <2> HIDE DEF N
  <2> QED BY <1>1, <1>2, SetInduction, N \in SUBSET Nat DEF N
<1>4. \A q \in Seq(S) : Len(q) \in N /\ q \in P
  <2> SUFFICES ASSUME NEW q \in Seq(S) PROVE q \in P
    BY <1>3, LenProperties
  <2>1. Len(q) \in N
    BY <1>3, LenProperties
  <2> QED BY <2>1
<1> QED BY <1>4

----------------------------------------------------------------------------
(* f is the function FlattenSeq defines for the first n batches of q. *)
Flattens(f, q, n) == f = [i \in 1 .. n |-> IF i = 1 THEN q[i] ELSE f[i - 1] \o q[i]]

(* There is such a function ... *)
LEMMA FlattensExists ==
  ASSUME NEW q, NEW n \in Nat
  PROVE  \E f : Flattens(f, q, n)
<1> DEFINE P == {m \in Nat : \E f : Flattens(f, q, m)}
<1>1. 0 \in P
  <2>1. Flattens([i \in 1 .. 0 |-> q[i]], q, 0)
    BY DEF Flattens
  <2> QED BY <2>1
<1>2. ASSUME NEW m \in P PROVE m + 1 \in P
  <2>1. PICK f : Flattens(f, q, m)
    OBVIOUS
  <2> DEFINE g == [i \in 1 .. m + 1 |-> IF i = 1 THEN q[i] ELSE f[i - 1] \o q[i]]
  <2>2. ASSUME NEW i \in 1 .. m + 1, i # 1 PROVE g[i - 1] = f[i - 1]
    <3>1. i - 1 \in 1 .. m /\ i - 1 \in 1 .. m + 1
      BY <2>2
    <3> QED BY <2>1, <3>1 DEF Flattens
  <2>3. Flattens(g, q, m + 1)
    BY <2>2 DEF Flattens
  <2> QED BY <2>3
<1>3. P = Nat
  <2> HIDE DEF P
  <2> QED BY <1>1, <1>2, SetInduction, P \in SUBSET Nat DEF P
<1> QED BY <1>3

(* ... and a value of it depends on the batches up to there only. *)
LEMMA FlattensAgree ==
  ASSUME NEW q, NEW r, NEW m \in Nat, NEW n \in Nat, NEW f, NEW g,
         Flattens(f, q, m), Flattens(g, r, n),
         m <= n, \A i \in 1 .. m : q[i] = r[i]
  PROVE  \A i \in 1 .. m : f[i] = g[i]
<1> DEFINE P == {i \in Nat : i \in 1 .. m => f[i] = g[i]}
<1>1. 0 \in P
  OBVIOUS
<1>2. ASSUME NEW i \in P PROVE i + 1 \in P
  <2> SUFFICES ASSUME i + 1 \in 1 .. m PROVE f[i + 1] = g[i + 1]
    OBVIOUS
  <2>1. /\ f[i + 1] = IF i + 1 = 1 THEN q[i + 1] ELSE f[(i + 1) - 1] \o q[i + 1]
        /\ g[i + 1] = IF i + 1 = 1 THEN r[i + 1] ELSE g[(i + 1) - 1] \o r[i + 1]
    <3>1. i + 1 \in 1 .. m /\ i + 1 \in 1 .. n
      OBVIOUS
    <3> QED BY <3>1 DEF Flattens
  <2>2. i = 0 \/ (i \in 1 .. m /\ (i + 1) - 1 = i)
    OBVIOUS
  <2> QED BY <2>1, <2>2
<1>3. P = Nat
  <2> HIDE DEF P
  <2> QED BY <1>1, <1>2, SetInduction, P \in SUBSET Nat DEF P
<1> QED BY <1>3

(* The flattening of no batch, and of some. *)
LEMMA FlattenIs ==
  ASSUME NEW S, NEW q \in Seq(Seq(S))
  PROVE  IF q = <<>> THEN FlattenSeq(q) = <<>>
         ELSE \E f : Flattens(f, q, Len(q)) /\ FlattenSeq(q) = f[Len(q)]
<1>1. Len(q) \in Nat /\ (q = <<>> <=> Len(q) = 0)
  BY EmptySeq, LenProperties
<1>2. CASE q = <<>>
  BY <1>1, <1>2 DEF FlattenSeq
<1>3. CASE q # <<>>
  <2> DEFINE f == CHOOSE f : f = [i \in 1 .. Len(q) |-> IF i = 1 THEN q[i] ELSE f[i - 1] \o q[i]]
  <2>1. FlattenSeq(q) = f[Len(q)]
    BY <1>1, <1>3 DEF FlattenSeq
  <2>2. Flattens(f, q, Len(q))
    BY <1>1, FlattensExists DEF Flattens
  <2> HIDE DEF f
  <2> QED BY <1>3, <2>1, <2>2
<1> QED BY <1>2, <1>3

(* What is flattened is a sequence of the batches' elements. *)
LEMMA FlattenType ==
  ASSUME NEW S, NEW q \in Seq(Seq(S))
  PROVE  FlattenSeq(q) \in Seq(S)
<1>1. CASE q = <<>>
  BY <1>1, FlattenIs, EmptySeq
<1>2. CASE q # <<>>
  <2>1. PICK f : Flattens(f, q, Len(q)) /\ FlattenSeq(q) = f[Len(q)]
    BY <1>2, FlattenIs
  <2>2. Len(q) \in Nat /\ Len(q) # 0
    BY <1>2, EmptySeq
  <2> DEFINE P == {i \in Nat : i \in 1 .. Len(q) => f[i] \in Seq(S)}
  <2>3. 0 \in P
    OBVIOUS
  <2>4. ASSUME NEW i \in P PROVE i + 1 \in P
    <3> SUFFICES ASSUME i + 1 \in 1 .. Len(q) PROVE f[i + 1] \in Seq(S)
      OBVIOUS
    <3>1. f[i + 1] = IF i + 1 = 1 THEN q[i + 1] ELSE f[(i + 1) - 1] \o q[i + 1]
      BY <2>1 DEF Flattens
    <3>2. q[i + 1] \in Seq(S)
      BY ElementOfSeq
    <3>3. i = 0 \/ (i \in 1 .. Len(q) /\ (i + 1) - 1 = i /\ f[i] \in Seq(S))
      BY <2>2
    <3> QED BY <3>1, <3>2, <3>3, ConcatProperties
  <2>5. P = Nat
    <3> HIDE DEF P
    <3> QED BY <2>3, <2>4, SetInduction, P \in SUBSET Nat DEF P
  <2> QED BY <2>1, <2>2, <2>5
<1> QED BY <1>1, <1>2

(* With one batch more, the last value grows by that batch. *)
GrowsBy(f, g, r, n) == g[n + 1] = f[n] \o r[n + 1]

LEMMA FlattensGrows ==
  ASSUME NEW q, NEW r, NEW n \in Nat \ {0}, NEW f, NEW g,
         Flattens(f, q, n), Flattens(g, r, n + 1), \A i \in 1 .. n : q[i] = r[i]
  PROVE  GrowsBy(f, g, r, n)
<1>1. n + 1 \in Nat /\ n <= n + 1 /\ n \in 1 .. n /\ n + 1 \in 1 .. n + 1
  OBVIOUS
<1>2. \A i \in 1 .. n : f[i] = g[i]
  <2> HIDE DEF Flattens
  <2> QED BY <1>1, FlattensAgree
<1>3. g[n + 1] = IF n + 1 = 1 THEN r[n + 1] ELSE g[(n + 1) - 1] \o r[n + 1]
  BY <1>1 DEF Flattens
<1>4. n + 1 # 1 /\ (n + 1) - 1 = n
  OBVIOUS
<1> QED BY <1>1, <1>2, <1>3, <1>4 DEF GrowsBy

(* A sequence with one batch more flattens to one with its elements more. *)
LEMMA FlattenLonger ==
  ASSUME NEW S, NEW q \in Seq(Seq(S)), NEW r \in Seq(Seq(S)), Len(r) = Len(q) + 1,
         \A i \in 1 .. Len(q) : q[i] = r[i]
  PROVE  FlattenSeq(r) = FlattenSeq(q) \o r[Len(q) + 1]
<1>1. PICK n \in Nat : Len(q) = n
  BY LenProperties
<1>2. r # <<>> /\ Len(r) = n + 1
  BY <1>1, EmptySeq
<1>3. PICK g : Flattens(g, r, n + 1) /\ FlattenSeq(r) = g[n + 1]
  BY <1>2, FlattenIs
<1>4. CASE n = 0
  <2>1. q = <<>> /\ FlattenSeq(q) = <<>>
    BY <1>1, <1>4, FlattenIs, EmptySeq
  <2>2. g[1] = r[1] /\ r[1] \in Seq(S)
    <3>1. 1 \in 1 .. Len(r)
      BY <1>2, <1>4
    <3> QED BY <1>3, <1>4, <3>1, ElementOfSeq DEF Flattens
  <2> QED BY <1>1, <1>3, <1>4, <2>1, <2>2, ConcatEmptySeq
<1>5. CASE n # 0
  <2>1. n \in Nat \ {0} /\ q # <<>>
    BY <1>1, <1>5, EmptySeq
  <2>2. PICK f : Flattens(f, q, n) /\ FlattenSeq(q) = f[n]
    BY <1>1, <2>1, FlattenIs
  <2>3. \A i \in 1 .. n : q[i] = r[i]
    BY <1>1
  <2>4. GrowsBy(f, g, r, n)
    BY <1>3, <2>1, <2>2, <2>3, FlattensGrows
  <2> QED BY <1>1, <1>3, <2>2, <2>4 DEF GrowsBy
<1> QED BY <1>4, <1>5

(* Appending a batch appends its elements. *)
LEMMA FlattenAppend ==
  ASSUME NEW S, NEW q \in Seq(Seq(S)), NEW b \in Seq(S)
  PROVE  FlattenSeq(Append(q, b)) = FlattenSeq(q) \o b
<1>1. /\ Append(q, b) \in Seq(Seq(S)) /\ Len(Append(q, b)) = Len(q) + 1
      /\ \A i \in 1 .. Len(q) : q[i] = Append(q, b)[i]
      /\ Append(q, b)[Len(q) + 1] = b
  BY AppendProperties
<1> QED BY <1>1, FlattenLonger

(* The elements of a sequence over S are members of S. *)
LEMMA ToSetOfSeq ==
  ASSUME NEW S, NEW q \in Seq(S)
  PROVE  ToSet(q) \in SUBSET S
  BY DEF ToSet

(* The elements of a sequence, by their places. *)
LEMMA ElementOf ==
  ASSUME NEW S, NEW q \in Seq(S), NEW n \in Nat, Len(q) = n
  PROVE  \A x : x \in ToSet(q) <=> \E i \in 1 .. n : x = q[i]
<1>1. DOMAIN q = 1 .. n
  BY LenProperties
<1> QED BY <1>1 DEF ToSet

(* The elements of a concatenation are those of its two parts. *)
LEMMA ToSetOfConcat ==
  ASSUME NEW S, NEW p \in Seq(S), NEW q \in Seq(S)
  PROVE  ToSet(p \o q) = ToSet(p) \cup ToSet(q)
<1>1. PICK m \in Nat, n \in Nat : Len(p) = m /\ Len(q) = n
  BY LenProperties
<1>2. /\ Len(p \o q) = m + n
      /\ \A i \in 1 .. m + n : (p \o q)[i] = IF i <= m THEN p[i] ELSE q[i - m]
  BY <1>1, ConcatProperties
<1>0. \A x : x \in ToSet(p \o q) <=> \E i \in 1 .. m + n : x = (p \o q)[i]
  <2>1. m + n \in Nat /\ p \o q \in Seq(S)
    BY ConcatProperties
  <2> QED BY <1>2, <2>1, ElementOf
<1>3. ASSUME NEW x \in ToSet(p \o q) PROVE x \in ToSet(p) \cup ToSet(q)
  <2>1. PICK i \in 1 .. m + n : x = (p \o q)[i]
    BY <1>2 DEF ToSet
  <2>2. CASE i <= m
    BY <1>1, <1>2, <2>1, <2>2 DEF ToSet
  <2>3. CASE i > m
    <3>1. i - m \in 1 .. n /\ x = q[i - m]
      BY <1>2, <2>1, <2>3
    <3> QED BY <1>1, <3>1 DEF ToSet
  <2> QED BY <2>2, <2>3
<1>4. ASSUME NEW x \in ToSet(p) PROVE x \in ToSet(p \o q)
  <2>1. PICK i \in 1 .. m : x = p[i]
    BY <1>1 DEF ToSet
  <2>2. i \in 1 .. m + n /\ (p \o q)[i] = x
    BY <1>2, <2>1
  <2> QED BY <1>2, <2>2 DEF ToSet
<1>5. ASSUME NEW x \in ToSet(q) PROVE x \in ToSet(p \o q)
  <2>1. PICK i \in 1 .. n : x = q[i]
    BY <1>1 DEF ToSet
  <2>2. i + m \in 1 .. m + n /\ (p \o q)[i + m] = q[(i + m) - m] /\ (i + m) - m = i
    BY <1>2
  <2>3. ~(i + m <= m) /\ (p \o q)[i + m] = x
    BY <1>2, <2>1, <2>2
  <2> QED BY <1>0, <2>2, <2>3
<1> QED BY <1>3, <1>4, <1>5

(* The elements of a sequence and of the one with an element more. *)
LEMMA ToSetOfAppend ==
  ASSUME NEW S, NEW q \in Seq(S), NEW e \in S
  PROVE  ToSet(Append(q, e)) = ToSet(q) \cup {e}
<1>1. PICK n \in Nat : Len(q) = n
  BY LenProperties
<1>2. PICK r : r = Append(q, e)
  OBVIOUS
<1>3. Len(r) = n + 1 /\ (\A i \in 1 .. n : r[i] = q[i]) /\ r[n + 1] = e
  BY <1>1, <1>2, AppendProperties
<1>4. \A i \in 1 .. n + 1 : i \in 1 .. n \/ i = n + 1
  OBVIOUS
<1>5. ToSet(r) = {r[i] : i \in 1 .. n + 1} /\ ToSet(q) = {q[i] : i \in 1 .. n}
  BY <1>1, <1>3 DEF ToSet
<1>6. 1 .. n \subseteq 1 .. n + 1 /\ n + 1 \in 1 .. n + 1
  OBVIOUS
<1>7. {r[i] : i \in 1 .. n + 1} = {q[i] : i \in 1 .. n} \cup {e}
  BY <1>3, <1>4, <1>6
<1> QED BY <1>2, <1>5, <1>7

(* A non-empty sequence is its head followed by its tail. *)
LEMMA ToSetOfTail ==
  ASSUME NEW S, NEW q \in Seq(S), q # <<>>
  PROVE  ToSet(q) = ToSet(Tail(q)) \cup {Head(q)}
<1>1. PICK n \in Nat : Len(q) = n /\ n >= 1
  BY EmptySeq
<1>2. PICK r, h : r = Tail(q) /\ h = Head(q)
  OBVIOUS
<1>3. Len(r) = n - 1 /\ h = q[1] /\ \A i \in 1 .. n - 1 : r[i] = q[i + 1]
  BY <1>1, <1>2, HeadTailProperties
<1>4. ToSet(r) = {r[i] : i \in 1 .. n - 1} /\ ToSet(q) = {q[i] : i \in 1 .. n}
  BY <1>1, <1>3 DEF ToSet
<1>5. \A i \in 1 .. n : i = 1 \/ (i - 1 \in 1 .. n - 1 /\ (i - 1) + 1 = i)
  OBVIOUS
<1>6. \A i \in 1 .. n - 1 : i + 1 \in 1 .. n
  OBVIOUS
<1>7. ASSUME NEW i \in 1 .. n PROVE q[i] \in {r[k] : k \in 1 .. n - 1} \cup {h}
  <2>1. CASE i = 1
    BY <1>3, <2>1
  <2>2. CASE i # 1
    <3>1. i - 1 \in 1 .. n - 1 /\ r[i - 1] = q[(i - 1) + 1] /\ (i - 1) + 1 = i
      BY <1>3, <2>2
    <3> QED BY <3>1
  <2> QED BY <2>1, <2>2
<1>8. \A i \in 1 .. n - 1 : r[i] \in {q[k] : k \in 1 .. n}
  BY <1>3, <1>6
<1>9. h \in {q[k] : k \in 1 .. n}
  BY <1>1, <1>3
<1> QED BY <1>2, <1>4, <1>7, <1>8, <1>9

(* Handing the first element of one queue to the end of another. *)
LEMMA HandOver ==
  ASSUME NEW S, NEW p \in Seq(S), NEW q \in Seq(S), q # <<>>
  PROVE  Append(p, Head(q)) \o Tail(q) = p \o q
<1>1. PICK m \in Nat, n \in Nat : Len(p) = m /\ Len(q) = n /\ n >= 1
  BY LenProperties, EmptySeq
<1>2. Head(q) \in S /\ Tail(q) \in Seq(S) /\ Len(Tail(q)) = n - 1 /\ Head(q) = q[1]
      /\ \A i \in 1 .. n - 1 : Tail(q)[i] = q[i + 1]
  BY <1>1, HeadTailProperties
<1>3. /\ Append(p, Head(q)) \in Seq(S) /\ Len(Append(p, Head(q))) = m + 1
      /\ \A i \in 1 .. m : Append(p, Head(q))[i] = p[i]
      /\ Append(p, Head(q))[m + 1] = q[1]
  BY <1>1, <1>2, AppendProperties
<1>4. /\ Append(p, Head(q)) \o Tail(q) \in Seq(S)
      /\ Len(Append(p, Head(q)) \o Tail(q)) = m + n
      /\ \A i \in 1 .. m + n : (Append(p, Head(q)) \o Tail(q))[i]
           = IF i <= m + 1 THEN Append(p, Head(q))[i] ELSE Tail(q)[i - (m + 1)]
  <2>1. (m + 1) + (n - 1) = m + n
    OBVIOUS
  <2>2. PICK a, b : a = Append(p, Head(q)) /\ b = Tail(q)
    OBVIOUS
  <2>3. a \in Seq(S) /\ b \in Seq(S) /\ Len(a) = m + 1 /\ Len(b) = n - 1
    BY <1>2, <1>3, <2>2
  <2>4. /\ a \o b \in Seq(S) /\ Len(a \o b) = Len(a) + Len(b)
        /\ \A i \in 1 .. Len(a) + Len(b) : (a \o b)[i] = IF i <= Len(a) THEN a[i] ELSE b[i - Len(a)]
    BY <2>3, ConcatProperties
  <2> QED BY <2>1, <2>2, <2>3, <2>4
<1>5. /\ p \o q \in Seq(S) /\ Len(p \o q) = m + n
      /\ \A i \in 1 .. m + n : (p \o q)[i] = IF i <= m THEN p[i] ELSE q[i - m]
  BY <1>1, ConcatProperties
<1>6. ASSUME NEW i \in 1 .. m + n PROVE (Append(p, Head(q)) \o Tail(q))[i] = (p \o q)[i]
  <2>1. CASE i <= m
    BY <1>3, <1>4, <1>5, <2>1
  <2>2. CASE i = m + 1
    <3>1. i - m = 1 /\ ~(i <= m) /\ i <= m + 1
      BY <2>2
    <3>2. (p \o q)[i] = q[1]
      BY <1>5, <3>1
    <3>3. (Append(p, Head(q)) \o Tail(q))[i] = Append(p, Head(q))[m + 1]
      BY <1>4, <2>2, <3>1
    <3> QED BY <1>3, <3>2, <3>3
  <2>3. CASE i > m + 1
    <3>1. i - (m + 1) \in 1 .. n - 1 /\ (i - (m + 1)) + 1 = i - m /\ ~(i <= m) /\ ~(i <= m + 1)
      BY <2>3
    <3> QED BY <1>2, <1>4, <1>5, <3>1
  <2>4. i <= m \/ i = m + 1 \/ i > m + 1
    OBVIOUS
  <2> QED BY <2>1, <2>2, <2>3, <2>4
<1> QED BY <1>4, <1>5, <1>6, SeqEqual

(* An element appended to the second of two queues is appended to both. *)
LEMMA ConcatAppend ==
  ASSUME NEW S, NEW p \in Seq(S), NEW q \in Seq(S), NEW e \in S
  PROVE  p \o Append(q, e) = Append(p \o q, e)
<1>1. <<e>> \in Seq(S) /\ p \o q \in Seq(S)
  BY ConcatProperties
<1> QED BY <1>1, AppendIsConcat, ConcatAssociative

----------------------------------------------------------------------------
(* Ascending sequences of numbers.                                         *)

Ascending(q) == \A i, j \in 1 .. Len(q) : i < j => q[i] < q[j]

(* A larger number may follow. *)
LEMMA AscendingAppend ==
  ASSUME NEW S \in SUBSET Int, NEW q \in Seq(S), NEW e \in S,
         Ascending(q), \A x \in ToSet(q) : x < e
  PROVE  Ascending(Append(q, e))
<1>1. PICK n \in Nat : Len(q) = n
  BY LenProperties
<1>2. PICK r : r = Append(q, e)
  OBVIOUS
<1>3. Len(r) = n + 1 /\ (\A i \in 1 .. n : r[i] = q[i]) /\ r[n + 1] = e
  BY <1>1, <1>2, AppendProperties
<1>4. \A i \in 1 .. n : q[i] < e
  BY <1>1, ElementOf
<1>5. ASSUME NEW i \in 1 .. n + 1, NEW j \in 1 .. n + 1, i < j PROVE r[i] < r[j]
  <2>1. i \in 1 .. n
    BY <1>5
  <2>2. CASE j = n + 1
    BY <1>3, <1>4, <2>1, <2>2
  <2>3. CASE j # n + 1
    <3>1. j \in 1 .. n
      BY <2>3
    <3>2. q[i] < q[j]
      BY <1>1, <1>5, <2>1, <3>1 DEF Ascending
    <3> QED BY <1>3, <2>1, <3>1, <3>2
  <2> QED BY <2>2, <2>3
<1> QED BY <1>2, <1>3, <1>5 DEF Ascending

(* The first part of an ascending sequence ascends and shares no element
   with the rest. *)
LEMMA AscendingParts ==
  ASSUME NEW S \in SUBSET Int, NEW p \in Seq(S), NEW q \in Seq(S), Ascending(p \o q)
  PROVE  Ascending(p) /\ ToSet(p) \cap ToSet(q) = {}
<1>1. PICK m \in Nat, n \in Nat : Len(p) = m /\ Len(q) = n
  BY LenProperties
<1>2. PICK r : r = p \o q
  OBVIOUS
<1>3. Len(r) = m + n /\ \A i \in 1 .. m + n : r[i] = IF i <= m THEN p[i] ELSE q[i - m]
  BY <1>1, <1>2, ConcatProperties
<1>4. \A i, j \in 1 .. m + n : i < j => r[i] < r[j]
  BY <1>2, <1>3 DEF Ascending
<1>5. \A i \in 1 .. m : i \in 1 .. m + n /\ r[i] = p[i]
  BY <1>3
<1>6. ASSUME NEW i \in 1 .. n PROVE m + i \in 1 .. m + n /\ r[m + i] = q[i]
  <2>1. m + i \in 1 .. m + n /\ ~(m + i <= m) /\ (m + i) - m = i
    OBVIOUS
  <2> QED BY <1>3, <2>1
<1>7. Ascending(p)
  BY <1>1, <1>4, <1>5 DEF Ascending
<1>8. ASSUME NEW i \in 1 .. m, NEW j \in 1 .. n PROVE p[i] # q[j]
  <2>1. r[i] < r[m + j]
    BY <1>4, <1>5, <1>6
  <2>2. p[i] < q[j] /\ p[i] \in Int /\ q[j] \in Int
    BY <1>1, <1>5, <1>6, <2>1, ElementOfSeq
  <2> QED BY <2>2
<1>9. ToSet(p) \cap ToSet(q) = {}
  <2>1. (\A x : x \in ToSet(p) <=> \E i \in 1 .. m : x = p[i])
        /\ (\A x : x \in ToSet(q) <=> \E i \in 1 .. n : x = q[i])
    BY <1>1, ElementOf
  <2> QED BY <1>8, <2>1
<1> QED BY <1>7, <1>9

----------------------------------------------------------------------------
(* What RemoveAt leaves: the elements before k, and those after it one     *)
(* place further to the front.                                             *)
LEMMA RemoveAtIs ==
  ASSUME NEW T, NEW s \in Seq(T), NEW n \in Nat, n = Len(s), NEW k \in 1 .. n
  PROVE  /\ RemoveAt(s, k) \in Seq(T) /\ Len(RemoveAt(s, k)) = n - 1
         /\ \A i \in 1 .. n - 1 : RemoveAt(s, k)[i] = IF i < k THEN s[i] ELSE s[i + 1]
<1> DEFINE a == SubSeq(s, 1, k - 1)
           b == SubSeq(s, k + 1, Len(s))
<1>1. /\ a \in Seq(T) /\ Len(a) = k - 1
      /\ \A i \in 1 .. k - 1 : a[i] = s[i]
  <2>1. \A i \in 1 .. k - 1 : s[i] \in T
    OBVIOUS
  <2> QED BY <2>1, SubSeqProperties
<1>2. /\ b \in Seq(T) /\ Len(b) = n - k
      /\ \A i \in 1 .. n - k : b[i] = s[k + i]
  <2>1. \A i \in k + 1 .. n : s[i] \in T
    OBVIOUS
  <2>2. k + 1 \in Int /\ n \in Int
    OBVIOUS
  <2>3. /\ b \in Seq(T)
        /\ Len(b) = IF k + 1 <= n THEN n - (k + 1) + 1 ELSE 0
        /\ \A i \in 1 .. n - (k + 1) + 1 : b[i] = s[k + 1 + i - 1]
    BY <2>1, <2>2, SubSeqProperties
  <2> QED BY <2>3
<1>3. RemoveAt(s, k) = a \o b
  BY DEF RemoveAt
<1> HIDE DEF a, b
<1>4. /\ a \o b \in Seq(T) /\ Len(a \o b) = Len(a) + Len(b)
      /\ \A i \in 1 .. Len(a) + Len(b) :
            (a \o b)[i] = IF i <= Len(a) THEN a[i] ELSE b[i - Len(a)]
  BY <1>1, <1>2, ConcatProperties
<1>5. Len(a) + Len(b) = n - 1
  BY <1>1, <1>2
<1>6. ASSUME NEW i \in 1 .. n - 1 PROVE (a \o b)[i] = IF i < k THEN s[i] ELSE s[i + 1]
  <2>1. (a \o b)[i] = IF i <= k - 1 THEN a[i] ELSE b[i - (k - 1)]
    BY <1>1, <1>4, <1>5
  <2>2. CASE i < k
    <3>1. i \in 1 .. k - 1 /\ i <= k - 1
      BY <2>2
    <3> QED BY <1>1, <2>1, <2>2, <3>1
  <2>3. CASE ~(i < k)
    <3>1. i - (k - 1) \in 1 .. n - k /\ k + (i - (k - 1)) = i + 1 /\ ~(i <= k - 1)
      BY <2>3
    <3>2. b[i - (k - 1)] = s[k + (i - (k - 1))]
      BY <1>2, <3>1
    <3> QED BY <2>1, <2>3, <3>1, <3>2
  <2> QED BY <2>2, <2>3
<1> QED BY <1>3, <1>4, <1>5, <1>6

----------------------------------------------------------------------------
(* Folds: of no element, of one more, of two sequences one after the other. *)

(* f is the function FoldLeft defines for the first n elements of q. *)
Folds(f, b, q, n) ==
  f = [s \in SUBSET (1 .. n) |-> IF s = {} THEN b ELSE Op(f[s \ {Max(s)}], q[Max(s)])]

(* The largest of a set of numbers that has its bound. *)
LEMMA MaxOfBounded ==
  ASSUME NEW n \in Nat, NEW s \in SUBSET (1 .. n + 1), n + 1 \in s
  PROVE  Max(s) = n + 1
<1>1. \A y \in s : n + 1 >= y /\ y \in Int
  OBVIOUS
<1>2. PICK m : m = Max(s) /\ m \in s /\ \A y \in s : m >= y
  <2>1. \E x \in s : \A y \in s : x >= y
    BY <1>1
  <2> QED BY <2>1 DEF Max
<1>3. m >= n + 1 /\ n + 1 >= m /\ m \in Int
  BY <1>1, <1>2
<1> QED BY <1>2, <1>3

(* There is such a function ... *)
LEMMA FoldsExists ==
  ASSUME NEW b, NEW q, NEW n \in Nat
  PROVE  \E f : Folds(f, b, q, n)
<1> DEFINE P == {m \in Nat : \E f : Folds(f, b, q, m)}
<1>1. 0 \in P
  <2>1. \A s \in SUBSET (1 .. 0) : s = {}
    OBVIOUS
  <2>2. Folds([s \in SUBSET (1 .. 0) |-> b], b, q, 0)
    BY <2>1 DEF Folds
  <2> QED BY <2>2
<1>2. ASSUME NEW m \in P PROVE m + 1 \in P
  <2>1. PICK f : Folds(f, b, q, m)
    OBVIOUS
  <2> DEFINE g == [s \in SUBSET (1 .. m + 1) |->
                     IF m + 1 \in s THEN Op(f[s \ {m + 1}], q[m + 1]) ELSE f[s]]
  <2>2. ASSUME NEW s \in SUBSET (1 .. m + 1)
        PROVE  g[s] = IF s = {} THEN b ELSE Op(g[s \ {Max(s)}], q[Max(s)])
    <3>1. CASE m + 1 \in s
      <4>1. Max(s) = m + 1
        BY <3>1, MaxOfBounded
      <4>2. s \ {m + 1} \in SUBSET (1 .. m + 1) /\ m + 1 \notin s \ {m + 1} /\ s # {}
        BY <3>1
      <4>3. g[s \ {m + 1}] = f[s \ {m + 1}]
        BY <4>2
      <4> QED BY <3>1, <4>1, <4>2, <4>3
    <3>2. CASE m + 1 \notin s
      <4>1. s \in SUBSET (1 .. m)
        BY <3>2
      <4>2. f[s] = IF s = {} THEN b ELSE Op(f[s \ {Max(s)}], q[Max(s)])
        BY <2>1, <4>1 DEF Folds
      <4>3. s \ {Max(s)} \in SUBSET (1 .. m + 1) /\ m + 1 \notin s \ {Max(s)}
        BY <3>2
      <4>4. g[s \ {Max(s)}] = f[s \ {Max(s)}]
        BY <4>3
      <4>5. g[s] = f[s]
        BY <3>2
      <4> QED BY <4>2, <4>4, <4>5
    <3> QED BY <3>1, <3>2
  <2>3. Folds(g, b, q, m + 1)
    BY <2>2 DEF Folds
  <2> QED BY <2>3
<1>3. P = Nat
  <2> HIDE DEF P
  <2> QED BY <1>1, <1>2, SetInduction, P \in SUBSET Nat DEF P
<1> QED BY <1>3

(* v holds the values of a fold of b and q, after 0, 1, 2 ... n elements. *)
Folding(v, b, q, n) ==
  /\ v[0] = b
  /\ \A k \in 1 .. n : v[k] = Op(v[k - 1], q[k])

(* The fold itself. *)
Fold(b, q) == FoldLeft(Op, b, q)

(* A fold is the last of its values. *)
LEMMA FoldLeftIs ==
  ASSUME NEW S, NEW b, NEW q \in Seq(S), NEW n \in Nat, Len(q) = n
  PROVE  \E v : Folding(v, b, q, n) /\ Fold(b, q) = v[n]
<1>1. DOMAIN q = 1 .. n
  BY LenProperties
<1> DEFINE f == CHOOSE f : f = [s \in SUBSET DOMAIN q |->
                                  IF s = {} THEN b ELSE Op(f[s \ {Max(s)}], q[Max(s)])]
<1>2. Fold(b, q) = f[DOMAIN q]
  BY DEF Fold, FoldLeft, MapThenFoldSet
<1>3. f = [s \in SUBSET DOMAIN q |-> IF s = {} THEN b ELSE Op(f[s \ {Max(s)}], q[Max(s)])]
  <2>1. \E g : Folds(g, b, q, n)
    BY FoldsExists
  <2>2. \E g : g = [s \in SUBSET DOMAIN q |->
                      IF s = {} THEN b ELSE Op(g[s \ {Max(s)}], q[Max(s)])]
    BY <1>1, <2>1 DEF Folds
  <2> QED BY <2>2, Zenon
<1> HIDE DEF f
<1> DEFINE v == [k \in 0 .. n |-> f[1 .. k]]
<1>4. v[0] = b
  <2>1. 1 .. 0 \in SUBSET (1 .. n) /\ 1 .. 0 = {} /\ 0 \in 0 .. n
    OBVIOUS
  <2>2. f[1 .. 0] = b
    BY <1>1, <1>3, <2>1
  <2> QED BY <2>1, <2>2, Zenon
<1>5. ASSUME NEW k \in 1 .. n PROVE v[k] = Op(v[k - 1], q[k])
  <2>1. PICK j \in Nat : k = j + 1
    <3>1. k - 1 \in Nat /\ k = (k - 1) + 1
      OBVIOUS
    <3> QED BY <3>1
  <2>2. 1 .. k \in SUBSET (1 .. n) /\ k \in 1 .. k /\ k \in 0 .. n /\ k - 1 \in 0 .. n
    OBVIOUS
  <2>3. Max(1 .. k) = k
    BY <2>1, <2>2, MaxOfBounded
  <2>4. (1 .. k) \ {k} = 1 .. (k - 1) /\ 1 .. k # {}
    <3>1. \A i \in Int : (i \in 1 .. k /\ i # k) <=> i \in 1 .. (k - 1)
      OBVIOUS
    <3>2. 1 .. k \subseteq Int /\ 1 .. (k - 1) \subseteq Int
      OBVIOUS
    <3> QED BY <2>2, <3>1, <3>2
  <2>5. f[1 .. k] = Op(f[(1 .. k) \ {Max(1 .. k)}], q[Max(1 .. k)])
    BY <1>1, <1>3, <2>2, <2>4, Zenon
  <2>6. v[k] = f[1 .. k] /\ v[k - 1] = f[1 .. (k - 1)]
    BY <2>2
  <2> QED BY <2>3, <2>4, <2>5, <2>6
<1>6. Folding(v, b, q, n)
  BY <1>4, <1>5 DEF Folding
<1>7. v[n] = f[1 .. n]
  OBVIOUS
<1> HIDE DEF v
<1> QED BY <1>1, <1>2, <1>6, <1>7

(* Of nothing. *)
LEMMA FoldEmpty ==
  ASSUME NEW b
  PROVE  Fold(b, <<>>) = b
<1>1. ASSUME NEW S, NEW q \in Seq(S), NEW n \in Nat, Len(q) = n, n = 0 PROVE Fold(b, q) = b
  <2>1. PICK v : Folding(v, b, q, n) /\ Fold(b, q) = v[n]
    <3> HIDE <1>1
    <3> QED BY Len(q) = n, FoldLeftIs
  <2> QED BY <1>1, <2>1 DEF Folding
<1>2. <<>> \in Seq({b}) /\ Len(<<>>) = 0 /\ 0 \in Nat
  BY EmptySeq
<1> QED BY <1>1, <1>2

(* The values of the folds of q and of q with an element more. *)
LEMMA FoldsAgree ==
  ASSUME NEW b, NEW q, NEW r, NEW n \in Nat, NEW v, NEW w,
         Folding(v, b, q, n), Folding(w, b, r, n + 1), \A i \in 1 .. n : q[i] = r[i]
  PROVE  v[n] = w[n]
<1> DEFINE P == {k \in Nat : k <= n => v[k] = w[k]}
<1>1. 0 \in P
  BY DEF Folding
<1>2. ASSUME NEW k \in P PROVE k + 1 \in P
  <2> SUFFICES ASSUME k + 1 <= n PROVE v[k + 1] = w[k + 1]
    OBVIOUS
  <2>1. k + 1 \in 1 .. n /\ k + 1 \in 1 .. n + 1 /\ (k + 1) - 1 = k /\ k <= n
    OBVIOUS
  <2>2. v[k + 1] = Op(v[(k + 1) - 1], q[k + 1])
    BY <2>1 DEF Folding
  <2>3. w[k + 1] = Op(w[(k + 1) - 1], r[k + 1])
    BY <2>1 DEF Folding
  <2>4. v[k] = w[k] /\ q[k + 1] = r[k + 1]
    BY <2>1
  <2> QED BY <2>1, <2>2, <2>3, <2>4
<1>3. P = Nat
  <2> HIDE DEF P
  <2> QED BY <1>1, <1>2, SetInduction, P \in SUBSET Nat DEF P
<1> QED BY <1>3

(* Of one element more. *)
LEMMA FoldAppend ==
  ASSUME NEW S, NEW b, NEW q \in Seq(S), NEW e \in S
  PROVE  Fold(b, Append(q, e)) = Op(Fold(b, q), e)
<1>1. PICK n \in Nat : Len(q) = n
  BY LenProperties
<1>2. PICK r : r = Append(q, e)
  OBVIOUS
<1>3. /\ r \in Seq(S) /\ Len(r) = n + 1 /\ n + 1 \in Nat
      /\ \A i \in 1 .. n : q[i] = r[i]
      /\ r[n + 1] = e
  BY <1>1, <1>2, AppendProperties
<1>4. PICK v : Folding(v, b, q, n) /\ Fold(b, q) = v[n]
  BY <1>1, FoldLeftIs
<1>5. PICK w : Folding(w, b, r, n + 1) /\ Fold(b, r) = w[n + 1]
  BY <1>3, FoldLeftIs
<1>6. v[n] = w[n]
  BY <1>3, <1>4, <1>5, FoldsAgree
<1>7. w[n + 1] = Op(w[n], r[n + 1])
  <2>1. n + 1 \in 1 .. n + 1 /\ (n + 1) - 1 = n
    OBVIOUS
  <2>2. w[n + 1] = Op(w[(n + 1) - 1], r[n + 1])
    BY <1>5, <2>1 DEF Folding
  <2> QED BY <2>1, <2>2
<1> QED BY <1>2, <1>3, <1>4, <1>5, <1>6, <1>7

(* Of one element. *)
LEMMA FoldOne ==
  ASSUME NEW b, NEW e
  PROVE  Fold(b, <<e>>) = Op(b, e)
<1>1. \A q \in Seq({e}) : Fold(b, Append(q, e)) = Op(Fold(b, q), e)
  BY FoldAppend
<1>2. <<>> \in Seq({e})
  BY EmptySeq
<1>3. Fold(b, Append(<<>>, e)) = Op(Fold(b, <<>>), e)
  BY <1>1, <1>2, Zenon
<1> QED BY <1>3, FoldEmpty

(* A fold stays in what its operator stays in. *)
LEMMA FoldType ==
  ASSUME NEW S, NEW T, NEW b \in T, \A t \in T, e \in S : Op(t, e) \in T,
         NEW q \in Seq(S)
  PROVE  Fold(b, q) \in T
<1> DEFINE P == {p \in Seq(S) : Fold(b, p) \in T}
<1>1. <<>> \in P
  BY FoldEmpty, EmptySeq
<1>2. ASSUME NEW p \in P, NEW e \in S PROVE Append(p, e) \in P
  <2>1. Fold(b, Append(p, e)) = Op(Fold(b, p), e)
    BY FoldAppend
  <2> QED BY <2>1, AppendProperties
<1>3. P = Seq(S)
  <2> HIDE DEF P
  <2> QED BY <1>1, <1>2, SeqInduction, P \in SUBSET Seq(S) DEF P
<1> QED BY <1>3

(* Of two sequences, the second goes on from what the first came to. *)
LEMMA FoldConcat ==
  ASSUME NEW S, NEW b, NEW p \in Seq(S), NEW q \in Seq(S)
  PROVE  Fold(b, p \o q) = Fold(Fold(b, p), q)
<1> DEFINE P == {r \in Seq(S) : Fold(b, p \o r) = Fold(Fold(b, p), r)}
<1>1. <<>> \in P
  BY FoldEmpty, EmptySeq, ConcatEmptySeq
<1>2. ASSUME NEW r \in P, NEW e \in S PROVE Append(r, e) \in P
  <2>0. p \o Append(r, e) = Append(p \o r, e) /\ p \o r \in Seq(S)
    BY ConcatAppend, ConcatProperties
  <2>1. PICK x \in Seq(S) : x = p \o r /\ p \o Append(r, e) = Append(x, e)
    BY <2>0
  <2>2. Fold(b, Append(x, e)) = Op(Fold(b, x), e)
    BY FoldAppend
  <2>3. Fold(Fold(b, p), Append(r, e)) = Op(Fold(Fold(b, p), r), e)
    BY FoldAppend
  <2> QED BY <2>1, <2>2, <2>3, AppendProperties
<1>3. P = Seq(S)
  <2> HIDE DEF P
  <2> QED BY <1>1, <1>2, SeqInduction, P \in SUBSET Seq(S) DEF P
<1> QED BY <1>3

=============================================================================
