------------------------------ MODULE Folding ------------------------------
(***************************************************************************)
(* What FoldLeft of the community modules chooses, with any step: it goes  *)
(* through the sequence element by element.  A module that folds by an     *)
(* operator of its own instantiates this one with it.  The proof rests on  *)
(* induction over the naturals, stated with a set instead of a predicate:  *)
(* a set that has 0, and with n also n + 1, has them all.                  *)
(***************************************************************************)
EXTENDS Integers, Sequences, FiniteSetsExt, WellFoundedInduction, TLAPS

CONSTANT Step(_, _)

\* A set of naturals that is not empty has a least element.
LEMMA LeastNatural ==
  ASSUME NEW T \in SUBSET Nat, T # {}
  PROVE  \E x \in T : \A y \in T : x <= y
  <1>1. PICK R : R = OpToRel(<, Nat)
    OBVIOUS
  <1>2. IsWellFoundedOn(R, Nat)
    BY <1>1, NatLessThanWellFounded
  <1>3. PICK x \in T : \A y \in T : ~(<<y, x>> \in R)
    BY <1>2, WFMin
  <1>4. \A y, z \in Nat : y < z => <<y, z>> \in R
    BY <1>1 DEF OpToRel
  <1>5. \A y \in T : x \in Nat /\ y \in Nat /\ ~(y < x)
    BY <1>3, <1>4
  <1>6. \A y \in T : x <= y
    BY <1>5
  <1> QED
    BY <1>6

\* Induction: from 0, and from n to n + 1.
LEMMA SetInduction ==
  ASSUME NEW S, 0 \in S, \A n \in Nat : n \in S => n + 1 \in S
  PROVE  Nat \subseteq S
  <1> SUFFICES ASSUME Nat \ S # {} PROVE FALSE
    OBVIOUS
  <1>1. PICK x \in Nat \ S : \A y \in Nat \ S : x <= y
    BY LeastNatural
  <1>2. x # 0 /\ x - 1 \in Nat /\ x - 1 \in S
    BY <1>1
  <1> QED
    BY <1>1, <1>2

\* Induction up to n.
LEMMA UpInduction ==
  ASSUME NEW n \in Nat, NEW K, 0 \in K, \A k \in 0 .. n - 1 : k \in K => k + 1 \in K
  PROVE  \A k \in 0 .. n : k \in K
  <1> DEFINE S == {k \in Nat : k <= n => k \in K}
  <1>1. 0 \in S
    OBVIOUS
  <1>2. ASSUME NEW k \in Nat, k \in S PROVE k + 1 \in S
    <2>1. SUFFICES ASSUME k + 1 <= n PROVE k + 1 \in K
      OBVIOUS
    <2>2. k \in 0 .. n - 1 /\ k \in K
      BY <1>2, <2>1
    <2> QED
      BY <2>2
  <1> HIDE DEF S
  <1>3. Nat \subseteq S
    BY <1>1, <1>2, SetInduction
  <1> QED
    BY <1>3 DEF S

\* Max of FiniteSetsExt is the greatest element.
LEMMA MaxFacts ==
  ASSUME NEW n \in Nat, NEW S \in SUBSET (1 .. n), S # {}
  PROVE  Max(S) \in S /\ \A y \in S : y <= Max(S)
  <1> DEFINE T == {n - x : x \in S}
  <1>0. \A y \in S : y \in Int /\ 1 <= y /\ y <= n
    OBVIOUS
  <1>1. T \in SUBSET Nat /\ T # {}
    <2>1. PICK x \in S : TRUE
      OBVIOUS
    <2>2. n - x \in T
      OBVIOUS
    <2>3. \A y \in S : n - y \in Nat
      BY <1>0
    <2> QED
      BY <2>2, <2>3
  <1>2. PICK m \in T : \A y \in T : m <= y
    <2> HIDE DEF T
    <2> QED
      BY <1>1, LeastNatural
  <1>3. PICK x \in S : m = n - x
    BY <1>2
  <1>4. ASSUME NEW y \in S PROVE x >= y
    <2>1. m <= n - y
      BY <1>2
    <2> QED
      BY <1>0, <1>3, <2>1
  <1>5. /\ Max(S) \in S /\ \A y \in S : Max(S) >= y
    BY <1>4 DEF Max
  <1>6. ASSUME NEW y \in S PROVE y <= Max(S)
    <2>1. Max(S) \in Int /\ y \in Int /\ Max(S) >= y
      BY <1>0, <1>5
    <2> QED
      BY <2>1
  <1> QED
    BY <1>5, <1>6

-----------------------------------------------------------------------------
(***************************************************************************)
(* The folds of SequencesExt: what they choose exists.                     *)
(***************************************************************************)
\* it is the fold of F over every subset of 1 .. k, from its least element up.
FoldTo(k, base, F, it) ==
  \A S \in SUBSET (1 .. k) :
    it[S] = IF S = {} THEN base ELSE F[<<it[S \ {Max(S)}], Max(S)>>]

\* There is such a fold over the first k of n elements.
HasFold(n, k, St, base, F) ==
  k <= n => \E it \in [SUBSET (1 .. n) -> St] : FoldTo(k, base, F, it)

\* A fold exists over any sequence, with F as a function on the states and the elements.
LEMMA FoldExists ==
  ASSUME NEW n \in Nat, NEW St, NEW base \in St, NEW F \in [St \X (1 .. n) -> St]
  PROVE  \E it \in [SUBSET (1 .. n) -> St] : FoldTo(n, base, F, it)
  <1> DEFINE K == {k \in Nat : HasFold(n, k, St, base, F)}
  <1>1. 0 \in K
    <2> DEFINE z == [S \in SUBSET (1 .. n) |-> base]
    <2>1. ASSUME NEW S \in SUBSET (1 .. 0) PROVE S = {} /\ z[S] = base
      OBVIOUS
    <2>2. FoldTo(0, base, F, z)
      BY <2>1 DEF FoldTo
    <2>3. z \in [SUBSET (1 .. n) -> St]
      OBVIOUS
    <2>4. HasFold(n, 0, St, base, F)
      BY <2>2, <2>3 DEF HasFold
    <2> QED
      BY <2>4
  <1>2. ASSUME NEW k \in Nat, k \in K PROVE k + 1 \in K
    <2>0. SUFFICES ASSUME k + 1 <= n
                   PROVE  \E it \in [SUBSET (1 .. n) -> St] : FoldTo(k + 1, base, F, it)
      <3>1. HasFold(n, k + 1, St, base, F)
        BY DEF HasFold
      <3> QED
        BY <3>1
    <2>1. PICK g \in [SUBSET (1 .. n) -> St] : FoldTo(k, base, F, g)
      <3>1. k <= n /\ HasFold(n, k, St, base, F)
        BY <1>2, <2>0
      <3> QED
        BY <3>1 DEF HasFold
    <2> DEFINE h == [S \in SUBSET (1 .. n) |->
                       IF k + 1 \in S THEN F[<<g[S \ {k + 1}], k + 1>>] ELSE g[S]]
    <2>2. k + 1 \in 1 .. n
      BY <2>0
    <2>3. h \in [SUBSET (1 .. n) -> St]
      <3>1. ASSUME NEW S \in SUBSET (1 .. n)
            PROVE  g[S] \in St /\ F[<<g[S \ {k + 1}], k + 1>>] \in St
        <4>1. S \ {k + 1} \in SUBSET (1 .. n)
          OBVIOUS
        <4>2. g[S] \in St /\ g[S \ {k + 1}] \in St
          BY <4>1
        <4>3. <<g[S \ {k + 1}], k + 1>> \in St \X (1 .. n)
          BY <2>2, <4>2
        <4> QED
          BY <4>2, <4>3
      <3> QED
        BY <3>1
    <2>4. ASSUME NEW S \in SUBSET (1 .. k + 1)
          PROVE  h[S] = IF S = {} THEN base ELSE F[<<h[S \ {Max(S)}], Max(S)>>]
      <3>0. S \in SUBSET (1 .. n)
        BY <2>0
      <3>1. CASE k + 1 \in S
        <4>0. S # {} /\ k + 1 \in Nat
          BY <3>1
        <4>1. Max(S) \in S /\ k + 1 <= Max(S)
          BY <3>1, <4>0, MaxFacts
        <4>2. Max(S) = k + 1
          <5>1. Max(S) \in 1 .. k + 1
            BY <4>1
          <5> QED
            BY <4>1, <5>1
        <4>3. S \ {k + 1} \in SUBSET (1 .. n) /\ k + 1 \notin S \ {k + 1}
          BY <3>0
        <4>4. h[S \ {k + 1}] = g[S \ {k + 1}]
          BY <4>3
        <4> QED
          BY <3>0, <3>1, <4>2, <4>4
      <3>2. CASE k + 1 \notin S
        <4>1. S \in SUBSET (1 .. k)
          BY <3>2
        <4>2. g[S] = IF S = {} THEN base ELSE F[<<g[S \ {Max(S)}], Max(S)>>]
          BY <2>1, <4>1 DEF FoldTo
        <4>3. S \ {Max(S)} \in SUBSET (1 .. n) /\ k + 1 \notin S \ {Max(S)}
          BY <3>0, <3>2
        <4>4. h[S] = g[S] /\ h[S \ {Max(S)}] = g[S \ {Max(S)}]
          BY <3>0, <3>2, <4>3
        <4> QED
          BY <4>2, <4>4
      <3> QED
        BY <3>1, <3>2
    <2>5. FoldTo(k + 1, base, F, h)
      BY <2>4 DEF FoldTo
    <2> QED
      BY <2>3, <2>5
  <1> HIDE DEF K
  <1>3. Nat \subseteq K
    BY <1>1, <1>2, SetInduction
  <1>4. HasFold(n, n, St, base, F) /\ n <= n
    BY <1>3 DEF K
  <1> QED
    BY <1>4 DEF HasFold

\* A whole range, by its last element.
LEMMA RangeLast ==
  ASSUME NEW k \in Nat
  PROVE  Max(1 .. k + 1) = k + 1 /\ (1 .. k + 1) \ {k + 1} = 1 .. k /\ 1 .. k + 1 # {}
  <1>1. k + 1 \in 1 .. k + 1
    OBVIOUS
  <1>2. Max(1 .. k + 1) \in 1 .. k + 1 /\ k + 1 <= Max(1 .. k + 1)
    <2>1. 1 .. k + 1 \in SUBSET (1 .. k + 1) /\ 1 .. k + 1 # {} /\ k + 1 \in Nat
      BY <1>1
    <2> QED
      BY <1>1, <2>1, MaxFacts
  <1>3. Max(1 .. k + 1) = k + 1
    BY <1>2
  <1>4. (1 .. k + 1) \ {k + 1} = 1 .. k
    OBVIOUS
  <1> QED
    BY <1>1, <1>3, <1>4

\* r runs over the first k elements from base by F.
RunTo(k, base, F, r) == r[0] = base /\ \A i \in 0 .. k - 1 : r[i + 1] = F[<<r[i], i + 1>>]

\* A run exists, with F as a function on the states and the positions.
LEMMA RunExists ==
  ASSUME NEW n \in Nat, NEW St, NEW base \in St, NEW F \in [St \X (1 .. n) -> St]
  PROVE  \E r \in [0 .. n -> St] : RunTo(n, base, F, r)
  <1> DEFINE K == {k \in 0 .. n : \E r \in [0 .. n -> St] : RunTo(k, base, F, r)}
  <1>1. 0 \in K
    <2> DEFINE z == [i \in 0 .. n |-> base]
    <2>1. z \in [0 .. n -> St] /\ RunTo(0, base, F, z)
      BY DEF RunTo
    <2> QED
      BY <2>1
  <1>2. ASSUME NEW k \in 0 .. n - 1, k \in K PROVE k + 1 \in K
    <2>1. PICK g \in [0 .. n -> St] : RunTo(k, base, F, g)
      BY <1>2
    <2>2. k \in 0 .. n /\ k + 1 \in 1 .. n /\ k + 1 \in 0 .. n
      OBVIOUS
    <2>3. <<g[k], k + 1>> \in St \X (1 .. n)
      BY <2>2
    <2>4. PICK x \in St : x = F[<<g[k], k + 1>>]
      BY <2>3
    <2> DEFINE h == [g EXCEPT ![k + 1] = x]
    <2>5. h \in [0 .. n -> St] /\ h[k + 1] = x /\ \A i \in 0 .. k : h[i] = g[i]
      BY <2>2
    <2> HIDE DEF h
    <2>6. ASSUME NEW i \in 0 .. (k + 1) - 1 PROVE h[i + 1] = F[<<h[i], i + 1>>]
      <3>1. CASE i = k
        <4>1. h[k] = g[k]
          BY <2>2, <2>5
        <4>2. h[k + 1] = F[<<h[k], k + 1>>]
          BY <2>4, <2>5, <4>1, Zenon
        <4> QED
          BY <3>1, <4>2, Zenon
      <3>2. CASE i # k
        <4>1. i \in 0 .. k - 1 /\ i \in 0 .. k /\ i + 1 \in 0 .. k
          BY <3>2
        <4> QED
          BY <2>1, <2>5, <4>1 DEF RunTo
      <3> QED
        BY <3>1, <3>2
    <2>7. h[0] = base
      BY <2>1, <2>5 DEF RunTo
    <2>8. RunTo(k + 1, base, F, h)
      BY <2>6, <2>7 DEF RunTo
    <2> QED
      BY <2>2, <2>5, <2>8
  <1> HIDE DEF K
  <1>3. n \in K
    BY <1>1, <1>2, UpInduction
  <1> QED
    BY <1>3 DEF K

\* it folds by F: where its values are states, at the least.
Folds(n, St, base, F, it) ==
  /\ it[{}] = base
  /\ \A S \in SUBSET (1 .. n) :
       S # {} /\ it[S \ {Max(S)}] \in St => it[S] = F[<<it[S \ {Max(S)}], Max(S)>>]

RunOf(n, base, F, it, r) == RunTo(n, base, F, r) /\ r[n] = it[1 .. n]

\* Its values over the first elements are a run.
LEMMA FoldRun ==
  ASSUME NEW n \in Nat, NEW St, NEW base \in St, NEW F \in [St \X (1 .. n) -> St],
         NEW it, Folds(n, St, base, F, it)
  PROVE  \E r \in [0 .. n -> St] : RunOf(n, base, F, it, r)
  <1> DEFINE r == [k \in 0 .. n |-> it[1 .. k]]
  <1>1. r[0] = base
    <2>1. 1 .. 0 = {} /\ 0 \in 0 .. n
      OBVIOUS
    <2> QED
      BY <2>1 DEF Folds
  <1>2. ASSUME NEW k \in 0 .. n - 1, r[k] \in St
        PROVE  r[k + 1] = F[<<r[k], k + 1>>] /\ r[k + 1] \in St
    <2>1. /\ 1 .. k + 1 \in SUBSET (1 .. n) /\ k \in Nat /\ k \in 0 .. n /\ k + 1 \in 0 .. n
          /\ k + 1 \in 1 .. n
      OBVIOUS
    <2>2. Max(1 .. k + 1) = k + 1 /\ (1 .. k + 1) \ {k + 1} = 1 .. k /\ 1 .. k + 1 # {}
      BY <2>1, RangeLast
    <2>3. r[k] = it[1 .. k] /\ r[k + 1] = it[1 .. k + 1]
      BY <2>1, Zenon
    <2>4. it[1 .. k + 1] = F[<<it[1 .. k], k + 1>>]
      BY <1>2, <2>1, <2>2, <2>3, Zenon DEF Folds
    <2>5. <<r[k], k + 1>> \in St \X (1 .. n)
      BY <1>2, <2>1
    <2> HIDE DEF r
    <2> QED
      BY <2>3, <2>4, <2>5
  <1>3. r = [k \in 0 .. n |-> r[k]] /\ \A k \in 0 .. n : r[k] = it[1 .. k]
    BY Zenon
  <1> HIDE DEF r
  <1> DEFINE K == {k \in Nat : r[k] \in St}
  <1>4. 0 \in K /\ \A k \in 0 .. n - 1 : k \in K => k + 1 \in K
    <2>1. \A k \in 0 .. n - 1 : k + 1 \in Nat
      OBVIOUS
    <2> QED
      BY <1>1, <1>2, <2>1, Zenon
  <1> HIDE DEF K
  <1>5. \A k \in 0 .. n : k \in K
    BY <1>4, UpInduction
  <1>6. \A k \in 0 .. n : r[k] \in St
    BY <1>5 DEF K
  <1>7. r \in [0 .. n -> St]
    BY <1>3, <1>6, Zenon
  <1>8. RunTo(n, base, F, r)
    <2>1. \A k \in 0 .. n - 1 : k \in 0 .. n
      OBVIOUS
    <2> QED
      BY <1>1, <1>2, <1>6, <2>1, Zenon DEF RunTo
  <1>9. n \in 0 .. n
    OBVIOUS
  <1> QED
    BY <1>3, <1>7, <1>8, <1>9, Zenon DEF RunOf

-----------------------------------------------------------------------------
(***************************************************************************)
(* The steps.                                                              *)
(***************************************************************************)
\* Steps lead from states to states.
Closed(St, X) == \A a \in St : \A x \in X : Step(a, x) \in St

\* The definition of FoldLeft, expanded: a value for every set of positions.
Iter(base, s, it) ==
  it = [S \in SUBSET DOMAIN s |->
          IF S = {} THEN base ELSE Step(it[S \ {Max(S)}], s[Max(S)])]

Value(base, s) == (CHOOSE it : Iter(base, s, it))[DOMAIN s]

\* r has the states before, between and after the elements.
Runs(base, s, r) == r[0] = base /\ \A k \in 0 .. Len(s) - 1 : r[k + 1] = Step(r[k], s[k + 1])

\* There are such states, and the last one is the value of the fold.
LEMMA FoldRuns ==
  ASSUME NEW X, NEW St, NEW base \in St, Closed(St, X), NEW s \in Seq(X)
  PROVE  \E r \in [0 .. Len(s) -> St] : Runs(base, s, r) /\ Value(base, s) = r[Len(s)]
  <1>1. PICK n : n = Len(s) /\ n \in Nat /\ DOMAIN s = 1 .. n
    OBVIOUS
  <1>2. base \in St /\ \A a \in St : \A i \in 1 .. n : Step(a, s[i]) \in St
    BY <1>1 DEF Closed
  <1> DEFINE F == [p \in St \X (1 .. n) |-> Step(p[1], s[p[2]])]
  <1>3. F \in [St \X (1 .. n) -> St]
    BY <1>2
  <1>4. \A a \in St : \A i \in 1 .. n : F[<<a, i>>] = Step(a, s[i])
    OBVIOUS
  <1> HIDE DEF F
  <1>5. PICK g \in [SUBSET (1 .. n) -> St] : FoldTo(n, base, F, g)
    BY <1>1, <1>2, <1>3, FoldExists
  <1>6. Iter(base, s, g)
    <2>1. ASSUME NEW S \in SUBSET (1 .. n)
          PROVE  g[S] = IF S = {} THEN base ELSE Step(g[S \ {Max(S)}], s[Max(S)])
      <3>1. CASE S = {}
        BY <1>5, <3>1 DEF FoldTo
      <3>2. CASE S # {}
        <4>1. Max(S) \in 1 .. n /\ S \ {Max(S)} \in SUBSET (1 .. n)
          BY <1>1, <3>2, MaxFacts
        <4>2. g[S] = F[<<g[S \ {Max(S)}], Max(S)>>]
          BY <1>5, <3>2 DEF FoldTo
        <4>3. g[S \ {Max(S)}] \in St
          BY <4>1
        <4> QED
          BY <1>4, <3>2, <4>1, <4>2, <4>3, Zenon
      <3> QED
        BY <3>1, <3>2
    <2>2. g = [S \in SUBSET (1 .. n) |->
                 IF S = {} THEN base ELSE Step(g[S \ {Max(S)}], s[Max(S)])]
      BY <2>1
    <2> QED
      BY <1>1, <2>2, Zenon DEF Iter
  <1>7. PICK it : it = CHOOSE h : Iter(base, s, h)
    OBVIOUS
  <1>8. Iter(base, s, it)
    BY <1>6, <1>7, Zenon
  <1>9. \A S \in SUBSET (1 .. n) :
          it[S] = IF S = {} THEN base ELSE Step(it[S \ {Max(S)}], s[Max(S)])
    <2>1. it = [S \in SUBSET (1 .. n) |->
                 IF S = {} THEN base ELSE Step(it[S \ {Max(S)}], s[Max(S)])]
      BY <1>1, <1>8, Zenon DEF Iter
    <2> QED
      BY <2>1, Zenon
  <1>10. Folds(n, St, base, F, it)
    <2>1. it[{}] = base
      BY <1>9
    <2>2. ASSUME NEW S \in SUBSET (1 .. n), S # {}, it[S \ {Max(S)}] \in St
          PROVE  it[S] = F[<<it[S \ {Max(S)}], Max(S)>>]
      <3>1. Max(S) \in 1 .. n
        BY <1>1, <2>2, MaxFacts
      <3> QED
        BY <1>4, <1>9, <2>2, <3>1, Zenon
    <2> QED
      BY <2>1, <2>2, Zenon DEF Folds
  <1>11. PICK r \in [0 .. n -> St] : RunTo(n, base, F, r) /\ r[n] = it[1 .. n]
    <2>1. \E r \in [0 .. n -> St] : RunOf(n, base, F, it, r)
      BY <1>1, <1>3, <1>10, FoldRun
    <2> QED
      BY <2>1, Zenon DEF RunOf
  <1>12. Runs(base, s, r)
    <2>1. \A k \in 0 .. n - 1 : r[k] \in St /\ k + 1 \in 1 .. n
      BY <1>1
    <2> QED
      BY <1>1, <1>4, <1>11, <2>1, Zenon DEF Runs, RunTo
  <1>13. Value(base, s) = it[1 .. n]
    BY <1>1, <1>7, Zenon DEF Value
  <1> QED
    BY <1>1, <1>11, <1>12, <1>13, Zenon

\* The fold over nothing is where it starts.
LEMMA FoldEmpty ==
  ASSUME NEW base
  PROVE  Value(base, <<>>) = base
  <1>1. PICK e, B, N : e = <<>> /\ B = {base} /\ N = {}
    OBVIOUS
  <1>2. e \in Seq(N) /\ base \in B /\ Closed(B, N)
    BY <1>1 DEF Closed
  <1>3. \A s \in Seq(N) :
          \E r \in [0 .. Len(s) -> B] : Runs(base, s, r) /\ Value(base, s) = r[Len(s)]
    BY <1>2, FoldRuns
  <1>4. PICK r \in [0 .. Len(e) -> B] : Runs(base, e, r) /\ Value(base, e) = r[Len(e)]
    BY <1>2, <1>3, Zenon
  <1>5. Len(e) = 0
    BY <1>1
  <1> QED
    BY <1>1, <1>4, <1>5, Zenon DEF Runs

\* The value of a fold is a state.
LEMMA FoldTyped ==
  ASSUME NEW X, NEW St, NEW base \in St, Closed(St, X), NEW s \in Seq(X)
  PROVE  Value(base, s) \in St
  <1>1. PICK n : n = Len(s) /\ n \in Nat
    OBVIOUS
  <1>2. PICK r \in [0 .. n -> St] : Value(base, s) = r[n]
    BY <1>1, FoldRuns
  <1> QED
    BY <1>1, <1>2

\* One element more is one step more.
LEMMA FoldAppend ==
  ASSUME NEW X, NEW St, NEW base \in St, Closed(St, X), NEW s \in Seq(X), NEW x \in X
  PROVE  Value(base, Append(s, x)) = Step(Value(base, s), x)
  <1>0. Len(s) \in Nat
    OBVIOUS
  <1>1. PICK n, t : n = Len(s) /\ n \in Nat /\ t = Append(s, x)
    BY <1>0, Zenon
  <1>2. /\ t \in Seq(X) /\ Len(t) = n + 1 /\ t[n + 1] = x
        /\ \A k \in 0 .. n - 1 : k + 1 \in 1 .. n /\ t[k + 1] = s[k + 1]
    BY <1>1
  <1>3. PICK r \in [0 .. n -> St] : Runs(base, s, r) /\ Value(base, s) = r[n]
    BY <1>1, FoldRuns
  <1>4. PICK q \in [0 .. n + 1 -> St] : Runs(base, t, q) /\ Value(base, t) = q[n + 1]
    BY <1>2, FoldRuns
  <1>5. r[0] = base /\ \A k \in 0 .. n - 1 : r[k + 1] = Step(r[k], s[k + 1])
    BY <1>1, <1>3, Zenon DEF Runs
  <1>6. q[0] = base /\ \A k \in 0 .. n : q[k + 1] = Step(q[k], t[k + 1])
    <2>1. (n + 1) - 1 = n
      BY <1>1
    <2> QED
      BY <1>2, <1>4, <2>1 DEF Runs
  <1> DEFINE K == {k \in Nat : r[k] = q[k]}
  <1>7. 0 \in K
    BY <1>5, <1>6
  <1>8. ASSUME NEW k \in 0 .. n - 1, k \in K PROVE k + 1 \in K
    <2>1. k \in 0 .. n /\ k + 1 \in Nat
      BY <1>1
    <2>2. r[k] = q[k] /\ r[k + 1] = Step(r[k], s[k + 1]) /\ q[k + 1] = Step(q[k], t[k + 1])
      BY <1>5, <1>6, <1>8, <2>1, Zenon
    <2>3. r[k + 1] = q[k + 1]
      BY <1>2, <2>2, Zenon
    <2> QED
      BY <2>1, <2>3
  <1> HIDE DEF K
  <1>9. n \in 0 .. n
    BY <1>1
  <1>10. n \in K
    BY <1>1, <1>7, <1>8, <1>9, UpInduction
  <1>11. r[n] = q[n]
    BY <1>10 DEF K
  <1> QED
    BY <1>1, <1>2, <1>3, <1>4, <1>6, <1>9, <1>11, Zenon
=============================================================================
