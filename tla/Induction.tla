----------------------------- MODULE Induction -----------------------------
(***************************************************************************)
(* Induction over the naturals and over sequences, and what the proofs     *)
(* need of sequences.                                                      *)
(***************************************************************************)
EXTENDS Integers, SequencesExt, SequenceTheorems, TLAPS

\* Module Folding with any step: what it says of the naturals.
Steps == INSTANCE Folding WITH Step <- Append

\* A set of naturals that is not empty has a least element.
LEMMA LeastNatural ==
  ASSUME NEW T \in SUBSET Nat, T # {}
  PROVE  \E x \in T : \A y \in T : x <= y
  BY Steps!LeastNatural

\* Induction: from 0, and from n to n + 1.
LEMMA SetInduction ==
  ASSUME NEW S, 0 \in S, \A n \in Nat : n \in S => n + 1 \in S
  PROVE  Nat \subseteq S
  BY Steps!SetInduction

\* Induction up to n.
LEMMA UpInduction ==
  ASSUME NEW n \in Nat, NEW K, 0 \in K, \A k \in 0 .. n - 1 : k \in K => k + 1 \in K
  PROVE  \A k \in 0 .. n : k \in K
  BY Steps!UpInduction

\* Max of FiniteSetsExt is the greatest element.
LEMMA MaxFacts ==
  ASSUME NEW n \in Nat, NEW S \in SUBSET (1 .. n), S # {}
  PROVE  Max(S) \in S /\ \A y \in S : y <= Max(S)
  BY Steps!MaxFacts DEF Max, Steps!Max

\* A whole range, by its last element.
LEMMA RangeLast ==
  ASSUME NEW k \in Nat
  PROVE  Max(1 .. k + 1) = k + 1 /\ (1 .. k + 1) \ {k + 1} = 1 .. k /\ 1 .. k + 1 # {}
  BY Steps!RangeLast DEF Max, Steps!Max

-----------------------------------------------------------------------------
(***************************************************************************)
(* The folds of SequencesExt: what they choose exists.                     *)
(***************************************************************************)
\* it is the fold of F over every subset of 1 .. k, from its least element up.
FoldTo(k, base, F, it) ==
  \A S \in SUBSET (1 .. k) :
    it[S] = IF S = {} THEN base ELSE F[<<it[S \ {Max(S)}], Max(S)>>]

\* A fold exists over any sequence, with F as a function on the states and the elements.
LEMMA FoldExists ==
  ASSUME NEW n \in Nat, NEW St, NEW base \in St, NEW F \in [St \X (1 .. n) -> St]
  PROVE  \E it \in [SUBSET (1 .. n) -> St] : FoldTo(n, base, F, it)
  <1>1. PICK it \in [SUBSET (1 .. n) -> St] : Steps!FoldTo(n, base, F, it)
    BY Steps!FoldExists
  <1>2. FoldTo(n, base, F, it)
    BY <1>1, Zenon DEF FoldTo, Steps!FoldTo, Max, Steps!Max
  <1> QED
    BY <1>2

\* r runs over the first k elements from base by F.
RunTo(k, base, F, r) == r[0] = base /\ \A i \in 0 .. k - 1 : r[i + 1] = F[<<r[i], i + 1>>]

\* A run exists, with F as a function on the states and the positions.
LEMMA RunExists ==
  ASSUME NEW n \in Nat, NEW St, NEW base \in St, NEW F \in [St \X (1 .. n) -> St]
  PROVE  \E r \in [0 .. n -> St] : RunTo(n, base, F, r)
  <1>1. PICK r \in [0 .. n -> St] : Steps!RunTo(n, base, F, r)
    BY Steps!RunExists
  <1>2. RunTo(n, base, F, r)
    BY <1>1, Zenon DEF RunTo, Steps!RunTo
  <1> QED
    BY <1>2

\* it folds by F: where its values are states, at the least.
Folds(n, St, base, F, it) ==
  /\ it[{}] = base
  /\ \A S \in SUBSET (1 .. n) :
       S # {} /\ it[S \ {Max(S)}] \in St => it[S] = F[<<it[S \ {Max(S)}], Max(S)>>]

RunOf(n, base, F, it, r) == RunTo(n, base, F, r) /\ r[n] = it[1 .. n]

\* Its values over the first elements are a run.
LEMMA FoldRun ==
  ASSUME NEW n \in Nat, NEW St, NEW base \in St, NEW F \in [St \X (1 .. n) -> St],
         NEW it, Folds(n, St, base, F, it)
  PROVE  \E r \in [0 .. n -> St] : RunOf(n, base, F, it, r)
  <1>1. Steps!Folds(n, St, base, F, it)
    BY Zenon DEF Folds, Steps!Folds, Max, Steps!Max
  <1>2. PICK r \in [0 .. n -> St] : Steps!RunOf(n, base, F, it, r)
    BY <1>1, Steps!FoldRun
  <1>3. RunOf(n, base, F, it, r)
    BY <1>2, Zenon DEF RunOf, Steps!RunOf, RunTo, Steps!RunTo
  <1> QED
    BY <1>3

-----------------------------------------------------------------------------
(***************************************************************************)
(* Sequences.                                                              *)
(***************************************************************************)
\* what FlattenSeq chooses
Flattens(ss, f) == f = [i \in 1 .. Len(ss) |-> IF i = 1 THEN ss[i] ELSE f[i - 1] \o ss[i]]

\* FlattenSeq is such a function at the last sequence.
LEMMA FlattenIs ==
  ASSUME NEW ss
  PROVE  FlattenSeq(ss) = IF Len(ss) = 0 THEN ss ELSE (CHOOSE f : Flattens(ss, f))[Len(ss)]
  BY DEF FlattenSeq, Flattens

\* r has what the first 0, 1, ... sequences make together.
FlatRun(ss, r) == r[0] = <<>> /\ \A i \in 0 .. Len(ss) - 1 : r[i + 1] = r[i] \o ss[i + 1]

\* The sequences joined one by one.
LEMMA FlattenRun ==
  ASSUME NEW X, NEW ss \in Seq(Seq(X))
  PROVE  \E r \in [0 .. Len(ss) -> Seq(X)] : FlatRun(ss, r) /\ FlattenSeq(ss) = r[Len(ss)]
  <1>1. PICK n : n = Len(ss) /\ n \in Nat /\ DOMAIN ss = 1 .. n /\ ss \in [1 .. n -> Seq(X)]
    BY LenProperties
  <1> DEFINE F == [p \in Seq(X) \X (1 .. n) |-> p[1] \o ss[p[2]]]
  <1>2. F \in [Seq(X) \X (1 .. n) -> Seq(X)]
    BY <1>1
  <1>3. <<>> \in Seq(X)
    OBVIOUS
  <1>4. PICK r \in [0 .. n -> Seq(X)] : RunTo(n, <<>>, F, r)
    <2> HIDE DEF F
    <2> QED
      BY <1>1, <1>2, <1>3, RunExists
  <1>5. r[0] = <<>> /\ \A i \in 0 .. n - 1 : r[i + 1] = r[i] \o ss[i + 1]
    <2>1. ASSUME NEW i \in 0 .. n - 1 PROVE r[i + 1] = r[i] \o ss[i + 1]
      <3>0. i \in 0 .. n /\ i + 1 \in 1 .. n
        BY <1>1
      <3>1. <<r[i], i + 1>> \in Seq(X) \X (1 .. n)
        BY <1>4, <3>0
      <3>2. F[<<r[i], i + 1>>] = r[i] \o ss[i + 1]
        BY <3>1
      <3> QED
        BY <1>4, <3>2 DEF RunTo
    <2> QED
      BY <1>4, <2>1 DEF RunTo
  <1>6. FlattenSeq(ss) = r[n]
    <2>1. CASE n = 0
      BY <1>1, <1>5, <2>1, FlattenIs
    <2>2. CASE n # 0
      <3> DEFINE g == [i \in 1 .. n |-> r[i]]
      <3>1. ASSUME NEW i \in 1 .. n PROVE g[i] = IF i = 1 THEN ss[i] ELSE g[i - 1] \o ss[i]
        <4>1. i - 1 \in 0 .. n - 1 /\ (i - 1) + 1 = i
          BY <1>1
        <4>2. r[i] = r[i - 1] \o ss[i] /\ ss[i] \in Seq(X)
          BY <1>1, <1>5, <4>1
        <4>3. CASE i = 1
          <5>1. r[i - 1] = <<>>
            BY <1>5, <4>3
          <5>2. <<>> \o ss[i] = ss[i]
            BY <4>2, ConcatEmptySeq
          <5> QED
            BY <4>2, <4>3, <5>1, <5>2, Zenon
        <4>4. CASE i # 1
          <5>1. i - 1 \in 1 .. n
            BY <1>1, <4>4
          <5> QED
            BY <4>2, <4>4, <5>1
        <4> QED
          BY <4>3, <4>4
      <3>2. Flattens(ss, g)
        BY <1>1, <3>1 DEF Flattens
      <3>3. PICK f : f = CHOOSE h : Flattens(ss, h)
        OBVIOUS
      <3>4. f = [i \in 1 .. n |-> IF i = 1 THEN ss[i] ELSE f[i - 1] \o ss[i]]
        BY <1>1, <3>2, <3>3 DEF Flattens
      <3>5. \A i \in 1 .. n : f[i] = IF i = 1 THEN ss[i] ELSE f[i - 1] \o ss[i]
        BY <3>4, Zenon
      <3> DEFINE K == {k \in 0 .. n : k = 0 \/ f[k] = r[k]}
      <3>6. 0 \in K
        BY <1>1
      <3>7. ASSUME NEW k \in 0 .. n - 1, k \in K PROVE k + 1 \in K
        <4>1. k + 1 \in 1 .. n /\ (k + 1) - 1 = k
          BY <1>1
        <4>2. r[k + 1] = r[k] \o ss[k + 1]
          BY <1>5
        <4>3. f[k + 1] = IF k + 1 = 1 THEN ss[k + 1] ELSE f[k] \o ss[k + 1]
          BY <3>5, <4>1
        <4>4. ASSUME k = 0 PROVE f[k + 1] = r[k + 1]
          <5>1. <<>> \o ss[k + 1] = ss[k + 1]
            BY <1>1, <4>1, ConcatEmptySeq
          <5>2. r[k] = <<>> /\ k + 1 = 1
            BY <1>5, <4>4
          <5> QED
            BY <4>2, <4>3, <5>1, <5>2, Zenon
        <4>5. ASSUME k # 0 PROVE f[k + 1] = r[k + 1]
          <5>1. f[k] = r[k] /\ k + 1 # 1
            BY <3>7, <4>5
          <5> QED
            BY <4>2, <4>3, <5>1, Zenon
        <4>6. f[k + 1] = r[k + 1]
          BY <4>4, <4>5
        <4>7. k + 1 \in 0 .. n
          BY <4>1
        <4> QED
          BY <4>6, <4>7
      <3> HIDE DEF K
      <3>8. n \in K
        <4>1. n \in Nat /\ n \in 0 .. n
          BY <1>1
        <4>2. \A k \in 0 .. n : k \in K
          BY <3>6, <3>7, <4>1, UpInduction
        <4> QED
          BY <4>1, <4>2
      <3> QED
        BY <1>1, <2>2, <3>3, <3>8, FlattenIs DEF K
    <2> QED
      BY <2>1, <2>2
  <1> QED
    BY <1>1, <1>4, <1>5, <1>6 DEF FlatRun

\* One more sequence at the end.
LEMMA FlattenAppend ==
  ASSUME NEW X, NEW ss \in Seq(Seq(X)), NEW x \in Seq(X)
  PROVE  /\ FlattenSeq(ss) \in Seq(X)
         /\ FlattenSeq(Append(ss, x)) = FlattenSeq(ss) \o x
         /\ FlattenSeq(<<>>) = <<>>
  <1>1. PICK t, n : t = Append(ss, x) /\ n = Len(ss)
    OBVIOUS
  <1>2. /\ n \in Nat /\ t \in Seq(Seq(X)) /\ Len(t) = n + 1
        /\ t[n + 1] = x /\ \A i \in 1 .. n : t[i] = ss[i]
    BY <1>1, AppendProperties, LenProperties
  <1>3. PICK r \in [0 .. n -> Seq(X)] : FlatRun(ss, r) /\ FlattenSeq(ss) = r[n]
    BY <1>1, FlattenRun
  <1>4. PICK q \in [0 .. n + 1 -> Seq(X)] : FlatRun(t, q) /\ FlattenSeq(t) = q[n + 1]
    BY <1>2, FlattenRun
  <1> DEFINE K == {k \in 0 .. n : q[k] = r[k]}
  <1>5. 0 \in K
    BY <1>2, <1>3, <1>4 DEF FlatRun
  <1>6. ASSUME NEW k \in 0 .. n - 1, k \in K PROVE k + 1 \in K
    <2>1. k + 1 \in 1 .. n /\ k \in 0 .. (n + 1) - 1
      BY <1>2, SMTT(30)
    <2>2. r[k + 1] = r[k] \o ss[k + 1]
      BY <1>1, <1>3 DEF FlatRun
    <2>3. q[k + 1] = q[k] \o t[k + 1]
      BY <1>2, <1>4, <2>1 DEF FlatRun
    <2>4. q[k] = r[k] /\ t[k + 1] = ss[k + 1] /\ k + 1 \in 0 .. n
      BY <1>2, <1>6, <2>1
    <2>5. q[k + 1] = r[k + 1]
      BY <2>2, <2>3, <2>4, Zenon
    <2> QED
      BY <2>4, <2>5
  <1> HIDE DEF K
  <1>7. n \in K
    <2>1. n \in Nat /\ n \in 0 .. n
      BY <1>2
    <2>2. \A k \in 0 .. n : k \in K
      BY <1>5, <1>6, <2>1, UpInduction
    <2> QED
      BY <2>1, <2>2
  <1>8. q[n] = r[n] /\ q[n + 1] = q[n] \o t[n + 1]
    <2>1. n \in 0 .. (n + 1) - 1
      BY <1>2
    <2> QED
      BY <1>2, <1>4, <1>7, <2>1 DEF K, FlatRun
  <1>9. FlattenSeq(<<>>) = <<>>
    BY FlattenIs
  <1> QED
    BY <1>1, <1>2, <1>3, <1>4, <1>8, <1>9

\* An element at the end of a concatenation is one at the end of its second part.
LEMMA ConcatAppend ==
  ASSUME NEW X, NEW s \in Seq(X), NEW t \in Seq(X), NEW x \in X
  PROVE  s \o Append(t, x) = Append(s \o t, x)
  <1>1. PICK u : u = <<x>>
    OBVIOUS
  <1>2. u \in Seq(X)
    BY <1>1
  <1>3. Append(t, x) = t \o u
    BY <1>1, AppendIsConcat
  <1>4. s \o t \in Seq(X)
    BY ConcatProperties
  <1>5. Append(s \o t, x) = (s \o t) \o u
    BY <1>1, <1>4, AppendIsConcat
  <1>6. (s \o t) \o u = s \o (t \o u)
    BY <1>2, ConcatAssociative
  <1> QED
    BY <1>3, <1>5, <1>6, Zenon

\* The elements of a sequence with one more in front.
LEMMA ConsFacts ==
  ASSUME NEW X, NEW c \in X, NEW t \in Seq(X)
  PROVE  /\ <<c>> \o t \in Seq(X) /\ Len(<<c>> \o t) = Len(t) + 1 /\ Len(t) \in Nat
         /\ (<<c>> \o t)[1] = c /\ \A i \in 1 .. Len(t) : (<<c>> \o t)[i + 1] = t[i]
  <1>1. PICK p, s, n : p = <<c>> /\ s = p \o t /\ n = Len(t)
    OBVIOUS
  <1>2. p \in Seq(X) /\ Len(p) = 1 /\ p[1] = c /\ n \in Nat
    BY <1>1, LenProperties
  <1>3. s \in Seq(X) /\ Len(s) = 1 + n
          /\ \A i \in 1 .. 1 + n : s[i] = IF i <= 1 THEN p[i] ELSE t[i - 1]
    BY <1>1, <1>2, ConcatProperties
  <1>4. s[1] = c
    BY <1>2, <1>3
  <1>5. ASSUME NEW i \in 1 .. n PROVE s[i + 1] = t[i]
    <2>1. i + 1 \in 1 .. 1 + n /\ ~(i + 1 <= 1) /\ (i + 1) - 1 = i
      BY <1>2
    <2> QED
      BY <1>3, <2>1
  <1>6. 1 + n = n + 1
    BY <1>2
  <1> QED
    BY <1>1, <1>2, <1>3, <1>4, <1>5, <1>6, Zenon

\* The elements of a part.
LEMMA PartFacts ==
  ASSUME NEW X, NEW t \in Seq(X), NEW a \in Nat \ {0}, NEW b \in 0 .. Len(t)
  PROVE  /\ SubSeq(t, a, b) \in Seq(X) /\ DOMAIN SubSeq(t, a, b) = 1 .. Len(SubSeq(t, a, b))
         /\ Len(SubSeq(t, a, b)) = IF a <= b THEN b - a + 1 ELSE 0
         /\ \A i \in 1 .. b - a + 1 : SubSeq(t, a, b)[i] = t[a + i - 1]
         /\ \A k \in a .. b : k - a + 1 \in DOMAIN SubSeq(t, a, b)
              /\ SubSeq(t, a, b)[k - a + 1] = t[k]
  <1>1. Len(t) \in Nat
    BY LenProperties
  <1>2. \A i \in a .. b : t[i] \in X
    <2>1. \A i \in a .. b : i \in 1 .. Len(t)
      BY <1>1
    <2> QED
      BY <2>1, ElementOfSeq
  <1>3. a \in Int /\ b \in Int
    BY <1>1
  <1>4. PICK p : p = SubSeq(t, a, b)
    OBVIOUS
  <1>5. /\ p \in Seq(X) /\ Len(p) = IF a <= b THEN b - a + 1 ELSE 0
        /\ \A i \in 1 .. b - a + 1 : p[i] = t[a + i - 1]
    BY <1>2, <1>3, <1>4, SubSeqProperties
  <1>6. DOMAIN p = 1 .. Len(p)
    BY <1>5, LenProperties
  <1>7. ASSUME NEW k \in a .. b PROVE k - a + 1 \in DOMAIN p /\ p[k - a + 1] = t[k]
    <2>1. k - a + 1 \in 1 .. b - a + 1 /\ a + (k - a + 1) - 1 = k /\ a <= b
      BY <1>1
    <2> QED
      BY <1>5, <1>6, <2>1
  <1> QED
    BY <1>4, <1>5, <1>6, <1>7, Zenon

\* A sequence of some elements of a set is one over that set.
LEMMA SeqWithin ==
  ASSUME NEW X, NEW T, NEW s \in Seq(X), \A i \in 1 .. Len(s) : s[i] \in T
  PROVE  s \in Seq(T)
  <1>1. DOMAIN s = 1 .. Len(s) /\ s \in [1 .. Len(s) -> X] /\ Len(s) \in Nat
    BY LenProperties
  <1>2. s \in [1 .. Len(s) -> T]
    BY <1>1
  <1> QED
    BY <1>1, <1>2, SeqDef

\* Induction over sequences, from the empty one by elements at the end.
LEMMA SeqAppendInduction ==
  ASSUME NEW X, NEW K, <<>> \in K, \A t \in Seq(X) : \A x \in X : t \in K => Append(t, x) \in K
  PROVE  \A s \in Seq(X) : s \in K
  <1> DEFINE N == {n \in Nat : \A s \in Seq(X) : Len(s) = n => s \in K}
  <1>1. 0 \in N
    <2>1. ASSUME NEW s \in Seq(X), Len(s) = 0 PROVE s \in K
      <3>1. s = <<>>
        BY <2>1, EmptySeq
      <3> QED
        BY <3>1
    <2> QED
      BY <2>1
  <1>2. ASSUME NEW n \in Nat, n \in N PROVE n + 1 \in N
    <2>1. ASSUME NEW s \in Seq(X), Len(s) = n + 1 PROVE s \in K
      <3>1. s # <<>>
        BY <2>1, EmptySeq
      <3>2. PICK t \in Seq(X), x \in X : s = Append(t, x)
        BY <3>1, SequenceEmptyOrAppend
      <3>3. Len(t) = n
        BY <2>1, <3>2, AppendProperties, LenProperties
      <3>4. t \in K
        BY <1>2, <3>3
      <3> QED
        BY <3>2, <3>4
    <2>2. n + 1 \in Nat
      OBVIOUS
    <2> QED
      BY <2>1, <2>2
  <1> HIDE DEF N
  <1>3. Nat \subseteq N
    BY <1>1, <1>2, SetInduction
  <1> QED
    BY <1>3, LenProperties DEF N

\* i is the last place of x in t, 0 if there is none.
LastIs(t, x, i) ==
  /\ i = 0 => \A k \in 1 .. Len(t) : t[k] # x
  /\ i # 0 => i \in 1 .. Len(t) /\ t[i] = x /\ \A k \in i + 1 .. Len(t) : t[k] # x
LastPlace(t, x) ==
  LET I == {i \in 1 .. Len(t) : t[i] = x}
  IN IF I # {} THEN Max(I) ELSE 0

\* LastPlace is the last place, or 0.
LEMMA LastPlaceFacts ==
  ASSUME NEW X, NEW t \in Seq(X), NEW x
  PROVE  LastIs(t, x, LastPlace(t, x)) /\ LastPlace(t, x) \in Nat
  <1>1. PICK n, I : n = Len(t) /\ n \in Nat /\ I = {i \in 1 .. n : t[i] = x}
    BY LenProperties
  <1>2. LastPlace(t, x) = IF I # {} THEN Max(I) ELSE 0
    BY <1>1 DEF LastPlace
  <1>3. CASE I = {}
    BY <1>1, <1>2, <1>3 DEF LastIs
  <1>4. CASE I # {}
    <2>1. I \in SUBSET (1 .. n)
      BY <1>1
    <2>2. PICK i : i = Max(I) /\ i \in I /\ \A y \in I : y <= i
      BY <1>1, <1>4, <2>1, MaxFacts
    <2>3. i \in 1 .. n /\ t[i] = x /\ i # 0 /\ i \in Nat
      BY <1>1, <2>2
    <2>4. \A k \in i + 1 .. n : t[k] # x
      <3>1. ASSUME NEW k \in i + 1 .. n, t[k] = x PROVE FALSE
        <4>1. k \in I
          BY <1>1, <2>3, <3>1
        <4>2. k <= i
          BY <2>2, <4>1
        <4> QED
          BY <2>3, <4>2
      <3> QED
        BY <3>1
    <2>5. LastPlace(t, x) = i
      BY <1>2, <1>4, <2>2
    <2> QED
      BY <1>1, <2>3, <2>4, <2>5 DEF LastIs
  <1> QED
    BY <1>3, <1>4
=============================================================================
