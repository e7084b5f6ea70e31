---------------------------- MODULE PathProofs ----------------------------
(***************************************************************************)
(* The reverses of a path and the blacklist of the points uploaders, for   *)
(* paths and patterns of any bytes and any length, and the rows of the     *)
(* index, for names of any number of parts of any length.                  *)
(***************************************************************************)
EXTENDS Parsing, SequenceTheorems, FiniteSetTheorems, Induction

-----------------------------------------------------------------------------
(***************************************************************************)
(* The parts of a path.                                                    *)
(***************************************************************************)
DotStep(parts, x) ==
  IF x = Dot THEN Append(parts, <<>>) ELSE [parts EXCEPT ![Len(parts)] = Append(@, x)]
DotParts == INSTANCE Folding WITH Step <- DotStep
PathParts(s) == Split(s, Dot)

PartStates(X) == Seq(Seq(X)) \ {<<>>}

\* Split is such a fold.
LEMMA PathPartsIs ==
  ASSUME NEW t
  PROVE  PathParts(t) = DotParts!Value(<< <<>> >>, t)
  BY DEF PathParts, Split, DotStep, DotParts!Value, DotParts!Iter, FoldLeft, MapThenFoldSet, Max,
         DotParts!Max

\* The last part of several.
LEMMA LastPart ==
  ASSUME NEW X, NEW ps \in PartStates(X)
  PROVE  \E Q \in Seq(Seq(X)) : \E v \in Seq(X) : ps = Append(Q, v)
  <1>1. PICK Y : Y = Seq(X)
    OBVIOUS
  <1>2. ps \in Seq(Y) /\ ps # <<>>
    BY <1>1 DEF PartStates
  <1>3. PICK Q \in Seq(Y), v \in Y : ps = Append(Q, v)
    BY <1>2, SequenceEmptyOrAppend
  <1> QED
    BY <1>1, <1>3, Zenon

\* A symbol more in the last part.
LEMMA LongerPart ==
  ASSUME NEW X, NEW Q \in Seq(Seq(X)), NEW v \in Seq(X), NEW x \in X
  PROVE  /\ Append(Q, v) \in PartStates(X) /\ Append(v, x) \in Seq(X)
         /\ DotStep(Append(Q, v), Dot) = Append(Append(Q, v), <<>>)
         /\ x # Dot => DotStep(Append(Q, v), x) = Append(Q, Append(v, x))
  <1>1. PICK Y, n, D, h : Y = Seq(X) /\ n = Len(Q) /\ D = Append(Q, v) /\ h = Append(v, x)
    OBVIOUS
  <1>0. PICK E : E = [D EXCEPT ![n + 1] = h]
    OBVIOUS
  <1>2. h \in Y
    BY <1>1, AppendProperties
  <1>3. /\ D \in Seq(Y) /\ Len(D) = n + 1 /\ D[n + 1] = v /\ n \in Nat /\ D # <<>>
        /\ \A k \in 1 .. n : D[k] = Q[k]
    BY <1>1, AppendProperties, LenProperties
  <1>4. x # Dot => DotStep(D, x) = E
    BY <1>0, <1>1, <1>3 DEF DotStep
  <1>5. E = Append(Q, h)
    <2>1. n + 1 \in 1 .. Len(D) /\ Q \in Seq(Y)
      BY <1>1, <1>3
    <2>2. E \in Seq(Y) /\ Len(E) = n + 1
            /\ \A k \in 1 .. n + 1 : E[k] = IF k = n + 1 THEN h ELSE D[k]
      BY <1>0, <1>2, <1>3, <2>1, ExceptSeq
    <2>3. /\ Append(Q, h) \in Seq(Y) /\ Len(Append(Q, h)) = n + 1
          /\ \A k \in 1 .. n : Append(Q, h)[k] = Q[k]
          /\ Append(Q, h)[n + 1] = h
      BY <1>1, <1>2, <2>1, AppendProperties
    <2>4. ASSUME NEW k \in 1 .. n + 1 PROVE E[k] = Append(Q, h)[k]
      <3>1. k = n + 1 \/ k \in 1 .. n
        BY <1>3
      <3>2. k \in 1 .. n => k # n + 1
        BY <1>3
      <3> QED
        BY <1>3, <2>2, <2>3, <3>1, <3>2, Zenon
    <2>5. PICK F : F = Append(Q, h)
      OBVIOUS
    <2>6. E = F
      BY <2>2, <2>3, <2>4, <2>5, SeqEqual
    <2> QED
      BY <2>5, <2>6, Zenon
  <1>6. DotStep(D, Dot) = Append(D, <<>>)
    BY Zenon DEF DotStep
  <1> QED
    BY <1>1, <1>2, <1>3, <1>4, <1>5, <1>6, Zenon DEF PartStates

\* A path has at least one part, and every byte of it is in the last part or ends it.
LEMMA PathStep ==
  ASSUME NEW X, NEW s \in Seq(X)
  PROVE  /\ PathParts(s) \in PartStates(X) /\ PathParts(<<>>) = << <<>> >>
         /\ \A x \in X : PathParts(Append(s, x)) = DotStep(PathParts(s), x)
  <1>1. PICK St : St = PartStates(X)
    OBVIOUS
  <1>2. << <<>> >> \in St
    BY <1>1 DEF PartStates
  <1>3. DotParts!Closed(St, X)
    <2>1. ASSUME NEW a \in St, NEW y \in X PROVE DotStep(a, y) \in St
      <3>1. PICK Q \in Seq(Seq(X)), v \in Seq(X) : a = Append(Q, v)
        BY <1>1, LastPart
      <3>2. PICK Y : Y = Seq(X)
        OBVIOUS
      <3>3. <<>> \in Y
        BY <3>2, EmptySeq, Zenon
      <3>4. a \in Seq(Y) /\ Q \in Seq(Y) /\ Append(v, y) \in Y
        BY <1>1, <3>2, LongerPart DEF PartStates
      <3>5. Append(a, <<>>) \in Seq(Y) /\ Append(a, <<>>) # <<>>
        BY <3>3, <3>4, AppendProperties
      <3>6. Append(Q, Append(v, y)) \in Seq(Y) /\ Append(Q, Append(v, y)) # <<>>
        <4>1. PICK h : h = Append(v, y)
          OBVIOUS
        <4>2. h \in Y /\ Q \in Seq(Y)
          BY <3>4, <4>1, Zenon
        <4>3. Append(Q, h) \in Seq(Y) /\ Append(Q, h) # <<>>
          BY <4>2, AppendProperties
        <4> QED
          BY <4>1, <4>3, Zenon
      <3>7. DotStep(a, y) \in {Append(a, <<>>), Append(Q, Append(v, y))}
        <4>1. CASE y = Dot
          BY <3>1, <4>1, LongerPart
        <4>2. CASE y # Dot
          BY <3>1, <4>2, LongerPart
        <4> QED
          BY <4>1, <4>2
      <3> QED
        BY <1>1, <3>2, <3>5, <3>6, <3>7, Zenon DEF PartStates
    <2> QED
      BY <2>1, Zenon DEF DotParts!Closed
  <1>4. /\ PathParts(s) = DotParts!Value(<< <<>> >>, s)
        /\ PathParts(<<>>) = DotParts!Value(<< <<>> >>, <<>>)
        /\ \A x \in X : PathParts(Append(s, x)) = DotParts!Value(<< <<>> >>, Append(s, x))
    BY PathPartsIs
  <1>5. DotParts!Value(<< <<>> >>, s) \in St
    BY <1>2, <1>3, DotParts!FoldTyped
  <1>6. \A x \in X : DotParts!Value(<< <<>> >>, Append(s, x)) =
            DotStep(DotParts!Value(<< <<>> >>, s), x)
    BY <1>2, <1>3, DotParts!FoldAppend
  <1>7. DotParts!Value(<< <<>> >>, <<>>) = << <<>> >>
    BY DotParts!FoldEmpty
  <1> QED
    BY <1>1, <1>4, <1>5, <1>6, <1>7, Zenon

NoDot(v) == \A i \in 1 .. Len(v) : v[i] # Dot

\* Such a part with one symbol more.
LEMMA NoDotMore ==
  ASSUME NEW X, NEW v \in Seq(X), NoDot(v), NEW x \in X, x # Dot
  PROVE  Append(v, x) \in Seq(X) /\ Len(Append(v, x)) = Len(v) + 1 /\ NoDot(Append(v, x))
  <1>1. PICK u, n : u = Append(v, x) /\ n = Len(v)
    OBVIOUS
  <1>2. /\ u \in Seq(X) /\ Len(u) = n + 1 /\ u[n + 1] = x /\ n \in Nat
        /\ \A i \in 1 .. n : u[i] = v[i]
    BY <1>1, AppendProperties, LenProperties
  <1>3. \A i \in 1 .. n : v[i] # Dot
    BY <1>1 DEF NoDot
  <1>4. \A i \in 1 .. n + 1 : u[i] # Dot
    BY <1>2, <1>3
  <1> QED
    BY <1>1, <1>2, <1>4, Zenon DEF NoDot
\* Two paths with a dot between them.
Dotted(a, b) == Append(a, Dot) \o b

\* They are a path, and so are three.
LEMMA DottedFacts ==
  ASSUME NEW X, Dot \in X, NEW a \in Seq(X), NEW b \in Seq(X)
  PROVE  /\ Dotted(a, b) \in Seq(X) /\ Dotted(a, <<>>) = Append(a, Dot)
         /\ \A x \in X : Dotted(a, Append(b, x)) = Append(Dotted(a, b), x)
         /\ \A c \in Seq(X) : Dotted(Dotted(a, b), c) = Dotted(a, Dotted(b, c))
  <1>1. PICK d : d = Append(a, Dot) /\ d \in Seq(X)
    BY AppendProperties
  <1>2. PICK e : e = d \o b /\ e \in Seq(X)
    BY <1>1, ConcatProperties
  <1>3. Dotted(a, <<>>) = d
    BY <1>1, ConcatEmptySeq DEF Dotted
  <1>4. ASSUME NEW x \in X PROVE Dotted(a, Append(b, x)) = Append(e, x)
    BY <1>1, <1>2, ConcatAppend DEF Dotted
  <1>5. ASSUME NEW c \in Seq(X) PROVE Dotted(e, c) = Dotted(a, Dotted(b, c))
    <2>1. PICK f : f = Append(b, Dot) /\ f \in Seq(X)
      BY AppendProperties
    <2>0. d \in Seq(X) /\ f \in Seq(X) /\ c \in Seq(X)
      BY <1>1, <1>5, <2>1
    <2>2. Append(e, Dot) = d \o f
      <3>1. d \o Append(b, Dot) = Append(d \o b, Dot)
        BY <2>0, ConcatAppend
      <3> QED
        BY <1>2, <2>1, <3>1, Zenon
    <2>3. (d \o f) \o c = d \o (f \o c)
      BY <2>0, ConcatAssociative, SMTT(30)
    <2> QED
      BY <1>1, <2>1, <2>2, <2>3, Zenon DEF Dotted
  <1> QED
    BY <1>1, <1>2, <1>3, <1>4, <1>5, Zenon DEF Dotted

\* A path without a dot is one part.
LEMMA PlainPath ==
  ASSUME NEW X, NEW v \in Seq(X), NoDot(v)
  PROVE  PathParts(v) = <<v>>
  <1> DEFINE K == {t \in Seq(X) : NoDot(t) => PathParts(t) = Append(<<>>, t)}
  <1>1. <<>> \in K
    <2>1. <<>> \in Seq(X)
      BY EmptySeq
    <2>2. PathParts(<<>>) = << <<>> >>
      BY <2>1, PathStep
    <2> QED
      BY <2>1, <2>2
  <1>2. ASSUME NEW t \in Seq(X), NEW x \in X, t \in K PROVE Append(t, x) \in K
    <2>1. PICK n, u : n = Len(t) /\ n \in Nat /\ u = Append(t, x)
      BY LenProperties
    <2>2. u \in Seq(X) /\ Len(u) = n + 1 /\ u[n + 1] = x /\ \A k \in 1 .. n : u[k] = t[k]
      BY <2>1, AppendProperties
    <2>3. ASSUME NoDot(u) PROVE PathParts(u) = Append(<<>>, u)
      <3>1. x # Dot /\ NoDot(t)
        BY <2>1, <2>2, <2>3 DEF NoDot
      <3>2. PathParts(t) = Append(<<>>, t)
        BY <1>2, <3>1
      <3>3. PathParts(u) = DotStep(PathParts(t), x)
        BY <2>1, PathStep
      <3>4. <<>> \in Seq(Seq(X))
        BY EmptySeq
      <3>5. DotStep(Append(<<>>, t), x) = Append(<<>>, Append(t, x))
        <4>1. PICK Q \in Seq(Seq(X)) : Q = <<>>
          BY <3>4
        <4>2. DotStep(Append(Q, t), x) = Append(Q, Append(t, x))
          BY <3>1, LongerPart
        <4> QED
          BY <4>1, <4>2, Zenon
      <3> QED
        BY <2>1, <3>2, <3>3, <3>5, Zenon
    <2> QED
      BY <2>1, <2>2, <2>3
  <1> HIDE DEF K
  <1>3. v \in K
    BY <1>1, <1>2, SeqAppendInduction
  <1>4. Append(<<>>, v) = <<v>>
    OBVIOUS
  <1> QED
    BY <1>3, <1>4 DEF K

\* The parts of two paths.
LEMMA PathDotted ==
  ASSUME NEW X, Dot \in X, NEW a \in Seq(X), NEW b \in Seq(X)
  PROVE  PathParts(Dotted(a, b)) = PathParts(a) \o PathParts(b)
  <1> DEFINE K == {t \in Seq(X) : PathParts(Dotted(a, t)) = PathParts(a) \o PathParts(t)}
  <1>0. PICK Y, A : Y = Seq(X) /\ A = PathParts(a) /\ A \in Seq(Y)
    BY PathStep DEF PartStates
  <1>1. <<>> \in K
    <2>1. <<>> \in Seq(X)
      BY EmptySeq
    <2>2. PathParts(<<>>) = << <<>> >> /\ Dotted(a, <<>>) = Append(a, Dot)
      BY <2>1, PathStep, DottedFacts
    <2>3. PathParts(Append(a, Dot)) = Append(A, <<>>)
      <3>1. PathParts(Append(a, Dot)) = DotStep(A, Dot)
        BY <1>0, PathStep
      <3> QED
        BY <3>1, Zenon DEF DotStep
    <2>4. Append(A, <<>>) = A \o << <<>> >>
      BY <1>0, <2>1, AppendIsConcat
    <2> QED
      BY <1>0, <2>1, <2>2, <2>3, <2>4
  <1>2. ASSUME NEW t \in Seq(X), NEW x \in X, t \in K PROVE Append(t, x) \in K
    <2>1. PICK u, w : u = Append(t, x) /\ u \in Seq(X) /\ w = Dotted(a, t) /\ w \in Seq(X)
      BY DottedFacts, AppendProperties, ZenonT(60)
    <2>2. Dotted(a, u) = Append(w, x)
      <3>1. \A y \in X : Dotted(a, Append(t, y)) = Append(Dotted(a, t), y)
        BY DottedFacts
      <3> QED
        BY <2>1, <3>1, Zenon
    <2>3. PICK Q \in Seq(Y), v \in Y : PathParts(t) = Append(Q, v)
      BY <1>0, PathStep, LastPart
    <2>4. PICK P : P = A \o Q /\ P \in Seq(Y)
      BY <1>0, <2>3, ConcatProperties
    <2>5. A \o Append(Q, v) = Append(P, v)
      <3>1. A \in Seq(Y)
        BY <1>0
      <3>2. A \o Append(Q, v) = Append(A \o Q, v)
        BY <3>1, ConcatAppend
      <3> QED
        BY <2>4, <3>2, Zenon
    <2>6. PathParts(w) = Append(P, v)
      BY <1>0, <1>2, <2>1, <2>3, <2>5, Zenon
    <2>7. PathParts(u) = DotStep(Append(Q, v), x)
            /\ PathParts(Append(w, x)) = DotStep(Append(P, v), x)
      BY <2>1, <2>3, <2>6, PathStep
    <2>8. CASE x = Dot
      <3>1. /\ DotStep(Append(Q, v), x) = Append(Append(Q, v), <<>>)
            /\ DotStep(Append(P, v), x) = Append(Append(P, v), <<>>)
        BY <1>0, <2>3, <2>4, <2>8, Zenon DEF DotStep
      <3>2. <<>> \in Y /\ Append(Q, v) \in Seq(Y)
        BY <1>0, <2>3, EmptySeq, AppendProperties
      <3>3. A \o Append(Append(Q, v), <<>>) = Append(A \o Append(Q, v), <<>>)
        BY <1>0, <3>2, ConcatAppend, SMTT(30)
      <3> QED
        BY <1>0, <2>1, <2>2, <2>5, <2>7, <3>1, <3>3, Zenon
    <2>9. CASE x # Dot
      <3>1. /\ DotStep(Append(Q, v), x) = Append(Q, Append(v, x)) /\ Append(v, x) \in Y
            /\ DotStep(Append(P, v), x) = Append(P, Append(v, x))
        <4>1. Q \in Seq(Seq(X)) /\ P \in Seq(Seq(X)) /\ v \in Seq(X)
          BY <1>0, <2>3, <2>4, Zenon
        <4>2. /\ Append(v, x) \in Seq(X)
              /\ x # Dot => DotStep(Append(Q, v), x) = Append(Q, Append(v, x))
          BY <4>1, LongerPart
        <4>3. x # Dot => DotStep(Append(P, v), x) = Append(P, Append(v, x))
          BY <4>1, LongerPart
        <4> QED
          BY <1>0, <2>9, <4>2, <4>3, Zenon
      <3>2. A \o Append(Q, Append(v, x)) = Append(P, Append(v, x))
        <4>1. PICK h \in Y : h = Append(v, x)
          BY <3>1
        <4>2. A \in Seq(Y)
          BY <1>0
        <4>3. A \o Append(Q, h) = Append(A \o Q, h)
          BY <4>2, ConcatAppend
        <4> QED
          BY <2>4, <4>1, <4>3, Zenon
      <3> QED
        BY <1>0, <2>1, <2>2, <2>7, <3>1, <3>2, Zenon
    <2> QED
      BY <2>8, <2>9
  <1> HIDE DEF K
  <1>3. b \in K
    BY <1>1, <1>2, SeqAppendInduction
  <1> QED
    BY <1>3 DEF K

\* Induction over paths, from one part by a part at the end.
LEMMA PathInduction ==
  ASSUME NEW X, Dot \in X, NEW K, \A v \in Seq(X) : NoDot(v) => v \in K,
         \A u, v \in Seq(X) : u \in K /\ NoDot(v) => Dotted(u, v) \in K
  PROVE  \A s \in Seq(X) : s \in K
  <1> DEFINE L == {t \in Seq(X) : NoDot(t) \/ \E u, v \in Seq(X) : u \in K /\ NoDot(v)
        /\ t = Dotted(u, v)}
  <1>1. <<>> \in Seq(X) /\ NoDot(<<>>)
    BY EmptySeq DEF NoDot
  <1>2. ASSUME NEW v \in Seq(X), NEW x \in X, NoDot(v), x # Dot PROVE NoDot(Append(v, x))
    BY <1>2, AppendProperties, LenProperties DEF NoDot
  <1>3. ASSUME NEW t \in L PROVE t \in K
    OBVIOUS
  <1>4. ASSUME NEW t \in Seq(X), NEW x \in X, t \in L PROVE Append(t, x) \in L
    <2>1. Append(t, x) \in Seq(X)
      BY AppendProperties
    <2>2. CASE x = Dot
      <3>1. t \in K
        BY <1>3, <1>4
      <3>2. Append(t, x) = Dotted(t, <<>>)
        BY <2>2, DottedFacts, <1>1
      <3> QED
        BY <1>1, <2>1, <3>1, <3>2
    <2>3. CASE x # Dot /\ NoDot(t)
      BY <1>2, <2>1, <2>3
    <2>4. CASE x # Dot /\ \E u, v \in Seq(X) : u \in K /\ NoDot(v) /\ t = Dotted(u, v)
      <3>1. PICK u \in Seq(X), v \in Seq(X) : u \in K /\ NoDot(v) /\ t = Dotted(u, v)
        BY <2>4
      <3>2. PICK w : w = Append(v, x) /\ w \in Seq(X) /\ NoDot(w)
        BY <1>2, <2>4, <3>1, AppendProperties
      <3>3. Append(t, x) = Dotted(u, w)
        <4>0. u \in Seq(X) /\ v \in Seq(X)
          BY <3>1
        <4>1. \A y \in X : Dotted(u, Append(v, y)) = Append(Dotted(u, v), y)
          BY <4>0, DottedFacts
        <4> QED
          BY <3>1, <3>2, <4>1, Zenon
      <3> QED
        BY <2>1, <3>1, <3>2, <3>3
    <2> QED
      BY <1>4, <2>2, <2>3, <2>4
  <1>5. <<>> \in L
    BY <1>1
  <1> HIDE DEF L
  <1>6. \A s \in Seq(X) : s \in L
    BY <1>4, <1>5, SeqAppendInduction
  <1> QED
    BY <1>3, <1>6

-----------------------------------------------------------------------------
(***************************************************************************)
(* Reverses of sequences.                                                  *)
(***************************************************************************)
\* The elements of a reverse.
LEMMA ReverseFacts ==
  ASSUME NEW X, NEW s \in Seq(X)
  PROVE  /\ Reverse(s) \in Seq(X) /\ Len(Reverse(s)) = Len(s) /\ Len(s) \in Nat
         /\ \A i \in 1 .. Len(s) : Reverse(s)[i] = s[Len(s) - i + 1]
  <1>1. PICK n : n = Len(s) /\ n \in Nat /\ s \in [1 .. n -> X]
    BY LenProperties
  <1>2. [i \in 1 .. n |-> s[(n - i) + 1]] \in [1 .. n -> X]
    BY <1>1
  <1>3. Reverse(s) = [i \in 1 .. n |-> s[(n - i) + 1]]
    BY <1>1 DEF Reverse
  <1>4. Reverse(s) \in Seq(X) /\ Len(Reverse(s)) = n
    BY <1>1, <1>2, <1>3
  <1> QED
    BY <1>1, <1>3, <1>4

\* The reverse of two sequences in a row.
LEMMA ReverseConcat ==
  ASSUME NEW X, NEW s \in Seq(X), NEW t \in Seq(X)
  PROVE  Reverse(s \o t) = Reverse(t) \o Reverse(s)
  <1>1. PICK m, n, u, a, b : /\ m = Len(s) /\ n = Len(t) /\ u = s \o t
                             /\ a = Reverse(s) /\ b = Reverse(t)
    OBVIOUS
  <1>2. /\ m \in Nat /\ n \in Nat /\ u \in Seq(X) /\ Len(u) = m + n
        /\ \A i \in 1 .. m + n : u[i] = IF i <= m THEN s[i] ELSE t[i - m]
    BY <1>1, LenProperties, ConcatProperties
  <1>3. a \in Seq(X) /\ Len(a) = m /\ \A i \in 1 .. m : a[i] = s[m - i + 1]
    BY <1>1, ReverseFacts
  <1>4. b \in Seq(X) /\ Len(b) = n /\ \A i \in 1 .. n : b[i] = t[n - i + 1]
    BY <1>1, ReverseFacts
  <1>5. PICK r : r = Reverse(u)
    OBVIOUS
  <1>6. r \in Seq(X) /\ Len(r) = m + n /\ \A i \in 1 .. m + n : r[i] = u[m + n - i + 1]
    <2>1. /\ r \in Seq(X) /\ Len(r) = Len(u) /\ \A i \in 1 .. Len(u) : r[i] = u[Len(u) - i + 1]
      BY <1>2, <1>5, ReverseFacts
    <2> QED
      BY <1>2, <2>1
  <1>7. PICK c : c = b \o a
    OBVIOUS
  <1>8. /\ c \in Seq(X) /\ Len(c) = n + m
        /\ \A i \in 1 .. n + m : c[i] = IF i <= n THEN b[i] ELSE a[i - n]
    <2>1. a \in Seq(X) /\ b \in Seq(X)
      BY <1>3, <1>4
    <2>2. /\ c \in Seq(X) /\ Len(c) = Len(b) + Len(a)
          /\ \A i \in 1 .. Len(b) + Len(a) : c[i] = IF i <= Len(b) THEN b[i] ELSE a[i - Len(b)]
      BY <1>7, <2>1, ConcatProperties
    <2> QED
      BY <1>3, <1>4, <2>2
  <1>9. ASSUME NEW i \in 1 .. m + n PROVE r[i] = c[i]
    <2>1. CASE i <= n
      <3>1. i \in 1 .. n /\ i \in 1 .. n + m /\ m + n - i + 1 \in 1 .. m + n
            /\ ~(m + n - i + 1 <= m) /\ (m + n - i + 1) - m = n - i + 1
        BY <1>2, <2>1
      <3> QED
        BY <1>2, <1>4, <1>6, <1>8, <2>1, <3>1, ZenonT(60)
    <2>2. CASE ~(i <= n)
      <3>1. i - n \in 1 .. m /\ i \in 1 .. n + m /\ m + n - i + 1 \in 1 .. m + n
            /\ m + n - i + 1 <= m /\ m - (i - n) + 1 = m + n - i + 1
        BY <1>2, <2>2
      <3> QED
        BY <1>2, <1>3, <1>6, <1>8, <2>2, <3>1, ZenonT(60)
    <2> QED
      BY <2>1, <2>2
  <1>10. m + n = n + m
    BY <1>2
  <1>11. r = c
    BY <1>6, <1>8, <1>9, <1>10, SeqEqual
  <1> QED
    BY <1>1, <1>5, <1>7, <1>11, Zenon

\* The reverse of the reverse is the sequence.
LEMMA ReverseTwice ==
  ASSUME NEW X, NEW s \in Seq(X)
  PROVE  Reverse(Reverse(s)) = s
  <1>1. PICK n, a : n = Len(s) /\ a = Reverse(s)
    OBVIOUS
  <1>2. n \in Nat /\ a \in Seq(X) /\ Len(a) = n /\ \A i \in 1 .. n : a[i] = s[n - i + 1]
    BY <1>1, ReverseFacts
  <1>3. PICK b : b = Reverse(a)
    OBVIOUS
  <1>4. b \in Seq(X) /\ Len(b) = Len(a) /\ \A i \in 1 .. Len(a) : b[i] = a[Len(a) - i + 1]
    BY <1>2, <1>3, ReverseFacts
  <1>5. ASSUME NEW i \in 1 .. Len(b) PROVE b[i] = s[i]
    <2>1. i \in 1 .. n /\ n - i + 1 \in 1 .. n /\ n - (n - i + 1) + 1 = i
      BY <1>2, <1>4
    <2> QED
      BY <1>2, <1>4, <2>1
  <1>6. Len(b) = Len(s)
    BY <1>1, <1>2, <1>4
  <1>7. b = s
    BY <1>4, <1>5, <1>6, SeqEqual
  <1> QED
    BY <1>1, <1>3, <1>7, Zenon

\* Of one element, and with one more.
LEMMA ReverseOne ==
  ASSUME NEW X, NEW v \in X
  PROVE  /\ <<v>> \in Seq(X) /\ Reverse(<<v>>) = <<v>>
         /\ \A s \in Seq(X) : Reverse(Append(s, v)) = <<v>> \o Reverse(s)
  <1>0. PICK o : o = <<v>>
    OBVIOUS
  <1>1. o = <<v>> /\ o \in Seq(X)
    BY <1>0
  <1>2. Reverse(o) = o
    <2>1. Len(o) = 1 /\ o[1] = v
      BY <1>1
    <2>2. PICK r : r = Reverse(o)
      OBVIOUS
    <2>3. r \in Seq(X) /\ Len(r) = 1 /\ \A i \in 1 .. 1 : r[i] = o[1 - i + 1]
      BY <1>1, <2>1, <2>2, ReverseFacts
    <2>4. \A i \in 1 .. Len(r) : r[i] = o[i]
      BY <2>3
    <2>5. r = o
      BY <1>1, <2>1, <2>3, <2>4, SeqEqual
    <2> QED
      BY <2>2, <2>5
  <1>3. ASSUME NEW s \in Seq(X) PROVE Reverse(Append(s, v)) = o \o Reverse(s)
    <2>1. Append(s, v) = s \o o
      BY <1>1, AppendIsConcat
    <2>2. Reverse(s \o o) = Reverse(o) \o Reverse(s)
      BY <1>1, ReverseConcat
    <2> QED
      BY <1>2, <2>1, <2>2, Zenon
  <1> QED
    BY <1>1, <1>2, <1>3, Zenon

Dots(P) == Join(P, <<Dot>>)

\* Join puts a dot before every further part.
LEMMA DotsAppend ==
  ASSUME NEW X, Dot \in X, NEW P \in Seq(Seq(X)), NEW v \in Seq(X)
  PROVE  /\ Dots(P) \in Seq(X) /\ Dots(<<v>>) = v
         /\ P # <<>> => Dots(Append(P, v)) = Dotted(Dots(P), v)
  <1>1. PICK Y, n, Q : Y = Seq(X) /\ n = Len(P) /\ Q = Append(P, v)
    OBVIOUS
  <1>2. /\ n \in Nat /\ P \in Seq(Y) /\ DOMAIN P = 1 .. n /\ \A i \in 1 .. n : P[i] \in Y
    BY <1>1, LenProperties
  <1>3. /\ Q \in Seq(Y) /\ DOMAIN Q = 1 .. n + 1 /\ Q[n + 1] = v /\ \A i \in 1 .. n : Q[i] = P[i]
    BY <1>1, <1>2, AppendProperties, LenProperties
  <1>0. PICK e : e = <<Dot>>
    OBVIOUS
  <1>4. e = <<Dot>> /\ e \in Seq(X)
    BY <1>0
  <1>5. \A y \in Y : e \o y \in Y
    BY <1>1, <1>4, ConcatProperties
  <1>6. PICK f : f = [i \in DOMAIN P |-> IF i = 1 THEN P[i] ELSE e \o P[i]]
    OBVIOUS
  <1>7. f \in Seq(Y) /\ Len(f) = n /\ \A i \in 1 .. n : f[i] = IF i = 1 THEN P[i] ELSE e \o P[i]
    <2>1. f \in [1 .. n -> Y]
      BY <1>2, <1>5, <1>6
    <2> QED
      BY <1>2, <1>6, <2>1
  <1>8. PICK h : h = [i \in DOMAIN Q |-> IF i = 1 THEN Q[i] ELSE e \o Q[i]]
    OBVIOUS
  <1>9. PICK w : w = e \o v /\ w \in Y
    BY <1>1, <1>5
  <1>10. ASSUME P # <<>> PROVE Dots(Append(P, v)) = Dotted(Dots(P), v)
    <2>1. n # 0
      BY <1>1, <1>2, <1>10, EmptySeq
    <2>2. h = Append(f, w)
      <3>1. /\ Append(f, w) \in Seq(Y) /\ Len(Append(f, w)) = n + 1
            /\ \A i \in 1 .. n : Append(f, w)[i] = f[i]
            /\ Append(f, w)[n + 1] = w
        BY <1>7, <1>9, AppendProperties
      <3>2. h \in Seq(Y) /\ Len(h) = n + 1
        <4>1. v \in Y /\ \A i \in 1 .. n + 1 : Q[i] \in Y
          BY <1>3, LenProperties, <1>1
        <4>2. h \in [1 .. n + 1 -> Y]
          BY <1>3, <1>5, <1>8, <4>1
        <4>3. n + 1 \in Nat
          BY <1>2
        <4> QED
          BY <4>2, <4>3
      <3>3. ASSUME NEW i \in 1 .. n + 1 PROVE h[i] = Append(f, w)[i]
        <4>1. h[i] = IF i = 1 THEN Q[i] ELSE e \o Q[i]
          BY <1>3, <1>8
        <4>2. CASE i = n + 1
          <5>1. i # 1
            BY <1>2, <2>1, <4>2
          <5> QED
            BY <1>3, <1>9, <3>1, <4>1, <4>2, <5>1, Zenon
        <4>3. CASE i \in 1 .. n
          BY <1>3, <1>7, <3>1, <4>1, <4>3, Zenon
        <4>4. i = n + 1 \/ i \in 1 .. n
          BY <1>2
        <4> QED
          BY <4>2, <4>3, <4>4
      <3>4. PICK g : g = Append(f, w)
        OBVIOUS
      <3>5. h = g
        BY <3>1, <3>2, <3>3, <3>4, SeqEqual
      <3> QED
        BY <3>4, <3>5, Zenon
    <2>3. PICK c : c = FlattenSeq(f) /\ c \in Seq(X) /\ FlattenSeq(Append(f, w)) = c \o w
      <3>1. f \in Seq(Seq(X)) /\ w \in Seq(X)
        BY <1>1, <1>7, <1>9
      <3> QED
        BY <3>1, FlattenAppend
    <2>4. c \o (e \o v) = Append(c, Dot) \o v
      <3>1. (c \o e) \o v = c \o (e \o v)
        BY <1>4, <2>3, ConcatAssociative
      <3>2. Append(c, Dot) = c \o e
        BY <1>4, <2>3, AppendIsConcat
      <3> QED
        BY <3>1, <3>2
    <2>5. Dots(P) = c /\ Dots(Q) = FlattenSeq(h)
      BY <1>4, <1>6, <1>8, <2>3, Zenon DEF Dots, Join
    <2> QED
      BY <1>1, <1>9, <2>2, <2>3, <2>4, <2>5, Zenon DEF Dotted
  <1>11. Dots(P) \in Seq(X)
    <2>1. f \in Seq(Seq(X))
      BY <1>1, <1>7
    <2>2. FlattenSeq(f) \in Seq(X)
      BY <2>1, FlattenAppend, EmptySeq
    <2> QED
      BY <1>4, <1>6, <2>2, Zenon DEF Dots, Join
  <1>12. Dots(<<v>>) = v
    <2>1. PICK o : o = <<v>>
      OBVIOUS
    <2>2. DOMAIN o = {1} /\ o[1] = v
      BY <2>1
    <2>3. [i \in DOMAIN o |-> IF i = 1 THEN o[i] ELSE e \o o[i]] = [i \in DOMAIN o |-> o[i]]
      BY <2>2
    <2>4. [i \in DOMAIN o |-> o[i]] = <<v>>
      BY <2>1
    <2>5. FlattenSeq(<<v>>) = v
      <3>1. PICK z \in Seq(Seq(X)) : z = <<>>
        BY EmptySeq
      <3>2. FlattenSeq(Append(z, v)) = FlattenSeq(z) \o v /\ FlattenSeq(<<>>) = <<>>
        BY <3>1, FlattenAppend
      <3>3. Append(z, v) = <<v>> /\ <<>> \o v = v
        BY <3>1, ConcatEmptySeq
      <3> QED
        BY <3>1, <3>2, <3>3, Zenon
    <2> QED
      BY <1>4, <2>1, <2>3, <2>4, <2>5, Zenon DEF Dots, Join
  <1> QED
    BY <1>10, <1>11, <1>12

\* Or after every part before the last.
LEMMA DotsCons ==
  ASSUME NEW X, Dot \in X, NEW v \in Seq(X), NEW P \in Seq(Seq(X)), P # <<>>
  PROVE  Dots(<<v>> \o P) = Dotted(v, Dots(P))
  <1>0. PICK Y, o : Y = Seq(X) /\ o = <<v>>
    OBVIOUS
  <1>1. Y = Seq(X) /\ o = <<v>> /\ o \in Seq(Y) /\ o # <<>>
    BY <1>0
  <1> DEFINE K == {t \in Seq(Y) : t = <<>> \/ Dots(o \o t) = Dotted(v, Dots(t))}
  <1>2. <<>> \in K
    BY EmptySeq
  <1>3. ASSUME NEW t \in Seq(Y), NEW q \in Y, t \in K PROVE Append(t, q) \in K
    <2>1. Append(t, q) \in Seq(Y) /\ t \in Seq(Seq(X)) /\ q \in Seq(X) /\ o \in Seq(Seq(X))
      BY <1>1, AppendProperties
    <2>2. CASE t = <<>>
      <3>1. Append(t, q) = <<q>> /\ o \o <<q>> = Append(o, q)
        BY <1>1, <2>2, AppendIsConcat
      <3>2. Dots(Append(o, q)) = Dotted(Dots(o), q) /\ Dots(<<q>>) = q
        BY <1>1, <2>1, DotsAppend
      <3>3. Dots(o) = v
        BY <1>1, <2>1, DotsAppend
      <3> QED
        BY <2>1, <3>1, <3>2, <3>3
    <2>3. CASE t # <<>>
      <3>1. PICK u : u = o \o t /\ u \in Seq(Y) /\ u # <<>> /\ o \o Append(t, q) = Append(u, q)
        <4>1. o \o t \in Seq(Y) /\ o \o t # <<>>
          BY <1>1, ConcatProperties, ConcatEqualIffEmpty
        <4>2. o \in Seq(Y) /\ t \in Seq(Y) /\ q \in Y
          BY <1>1
        <4>3. o \o Append(t, q) = Append(o \o t, q)
          BY <4>2, ConcatAppend
        <4> QED
          BY <4>1, <4>3
      <3>2. Dots(Append(u, q)) = Dotted(Dots(u), q)
        <4>1. u \in Seq(Seq(X)) /\ u # <<>> /\ q \in Seq(X)
          BY <1>1, <2>1, <3>1, Zenon
        <4> QED
          BY <4>1, DotsAppend
      <3>3. PICK d : d = Dots(t) /\ d \in Seq(X) /\ Dots(Append(t, q)) = Dotted(d, q)
        BY <2>1, <2>3, DotsAppend, ZenonT(60)
      <3>4. Dotted(Dotted(v, d), q) = Dotted(v, Dotted(d, q))
        BY <2>1, <3>3, DottedFacts
      <3>5. Dots(u) = Dotted(v, d)
        BY <1>3, <2>3, <3>1, <3>3
      <3>6. Dots(o \o Append(t, q)) = Dotted(v, Dots(Append(t, q)))
        BY <3>1, <3>2, <3>3, <3>4, <3>5, Zenon
      <3> QED
        BY <2>1, <3>6
    <2> QED
      BY <2>2, <2>3
  <1> HIDE DEF K
  <1>4. \A t \in Seq(Y) : t \in K
    BY <1>2, <1>3, SeqAppendInduction
  <1>5. P \in K
    BY <1>1, <1>4
  <1> QED
    BY <1>1, <1>5 DEF K

-----------------------------------------------------------------------------
(***************************************************************************)
(* The reverse of a path.                                                  *)
(***************************************************************************)
\* A reverse path is a path, and one part is its own.
LEMMA RevPlain ==
  ASSUME NEW X, Dot \in X, NEW s \in Seq(X)
  PROVE  /\ ReversePath(s) \in Seq(X) /\ ReversePath(s) = Dots(Reverse(PathParts(s)))
         /\ NoDot(s) => ReversePath(s) = s
  <1>1. PICK Y, P : Y = Seq(X) /\ P = PathParts(s)
    OBVIOUS
  <1>2. ReversePath(s) = Dots(Reverse(P))
    BY <1>1, Zenon DEF ReversePath, Dots, PathParts
  <1>3. P \in Seq(Y)
    BY <1>1, PathStep DEF PartStates
  <1>4. Reverse(P) \in Seq(Seq(X))
    BY <1>1, <1>3, ReverseFacts
  <1>5. Dots(Reverse(P)) \in Seq(X)
    BY <1>4, DotsAppend
  <1>6. ASSUME NoDot(s) PROVE Dots(Reverse(P)) = s
    <2>1. P = <<s>> /\ s \in Y
      BY <1>1, <1>6, PlainPath
    <2>2. Reverse(P) = <<s>>
      BY <2>1, ReverseOne
    <2>3. <<>> \in Seq(Seq(X))
      BY EmptySeq
    <2>4. Dots(<<s>>) = s
      BY <2>3, DotsAppend
    <2> QED
      BY <2>2, <2>4, Zenon
  <1> QED
    BY <1>1, <1>2, <1>5, <1>6

\* The last part comes first.
LEMMA RevLast ==
  ASSUME NEW X, Dot \in X, NEW s \in Seq(X), NEW v \in Seq(X), NoDot(v)
  PROVE  /\ ReversePath(Dotted(s, v)) = Dotted(v, ReversePath(s))
         /\ PathParts(Dotted(s, v)) = PathParts(s) \o <<v>>
         /\ Reverse(PathParts(Dotted(s, v))) = <<v>> \o Reverse(PathParts(s))
  <1>1. PICK Y, P, d : Y = Seq(X) /\ P = PathParts(s) /\ d = Dotted(s, v)
    OBVIOUS
  <1>2. P \in Seq(Y) /\ P # <<>> /\ d \in Seq(X)
    BY <1>1, PathStep, DottedFacts DEF PartStates
  <1>3. PathParts(d) = P \o <<v>>
    BY <1>1, PathDotted, PlainPath
  <1>4. PICK o : o = <<v>> /\ o \in Seq(Y) /\ Reverse(o) = o
    BY <1>1, ReverseOne
  <1>5. PICK R : R = Reverse(P) /\ R \in Seq(Y) /\ R # <<>>
    <2>1. Reverse(P) \in Seq(Y) /\ Len(Reverse(P)) = Len(P)
      BY <1>2, ReverseFacts
    <2> QED
      BY <1>2, <2>1, EmptySeq
  <1>6. Reverse(P \o o) = o \o R
    BY <1>2, <1>4, <1>5, ReverseConcat
  <1>7. Dots(<<v>> \o R) = Dotted(v, Dots(R))
    <2>1. R \in Seq(Seq(X)) /\ R # <<>>
      BY <1>1, <1>5
    <2> QED
      BY <2>1, DotsCons
  <1>8. ReversePath(s) = Dots(R) /\ ReversePath(d) = Dots(Reverse(PathParts(d)))
    BY <1>1, <1>2, <1>5, RevPlain
  <1> QED
    BY <1>1, <1>3, <1>4, <1>5, <1>6, <1>7, <1>8, Zenon

\* So it is with any end of a path, and the parts of the reverse are those of the path.
LEMMA RevDotted ==
  ASSUME NEW X, Dot \in X, NEW a \in Seq(X), NEW b \in Seq(X)
  PROVE  ReversePath(Dotted(a, b)) = Dotted(ReversePath(b), ReversePath(a))
  <1> DEFINE K == {t \in Seq(X) : ReversePath(Dotted(a, t)) =
          Dotted(ReversePath(t), ReversePath(a))}
  <1>1. ASSUME NEW v \in Seq(X), NoDot(v) PROVE v \in K
    <2>1. ReversePath(v) = v /\ ReversePath(Dotted(a, v)) = Dotted(v, ReversePath(a))
      BY <1>1, RevPlain, RevLast
    <2> QED
      BY <2>1
  <1>2. ASSUME NEW u \in Seq(X), NEW v \in Seq(X), u \in K, NoDot(v) PROVE Dotted(u, v) \in K
    <2>1. PICK p, q : p = ReversePath(a) /\ q = ReversePath(u)
      OBVIOUS
    <2>2. p \in Seq(X) /\ q \in Seq(X)
      BY <2>1, RevPlain
    <2>3. PICK w : w = Dotted(a, u) /\ w \in Seq(X) /\ Dotted(u, v) \in Seq(X)
      BY DottedFacts
    <2>4. Dotted(w, v) = Dotted(a, Dotted(u, v))
      BY <2>3, DottedFacts
    <2>5. ReversePath(Dotted(w, v)) = Dotted(v, ReversePath(w))
      BY <1>2, <2>3, RevLast
    <2>6. ReversePath(w) = Dotted(q, p)
      BY <1>2, <2>1, <2>3
    <2>7. Dotted(Dotted(v, q), p) = Dotted(v, Dotted(q, p))
      BY <2>2, DottedFacts
    <2>8. ReversePath(Dotted(u, v)) = Dotted(v, q)
      BY <1>2, <2>1, RevLast
    <2>9. ReversePath(Dotted(a, Dotted(u, v))) = Dotted(ReversePath(Dotted(u, v)), p)
      BY <2>4, <2>5, <2>6, <2>7, <2>8, Zenon
    <2> QED
      BY <2>1, <2>3, <2>9
  <1> HIDE DEF K
  <1>3. b \in K
    BY <1>1, <1>2, PathInduction
  <1> QED
    BY <1>3 DEF K

\* The parts of the reverse are those of the path in the opposite order.
LEMMA RevParts ==
  ASSUME NEW X, Dot \in X, NEW s \in Seq(X)
  PROVE  PathParts(ReversePath(s)) = Reverse(PathParts(s))
  <1> DEFINE K == {t \in Seq(X) : PathParts(ReversePath(t)) = Reverse(PathParts(t))}
  <1>1. ASSUME NEW v \in Seq(X), NoDot(v) PROVE v \in K
    <2>1. ReversePath(v) = v /\ PathParts(v) = <<v>>
      BY <1>1, RevPlain, PlainPath
    <2>2. Reverse(<<v>>) = <<v>>
      BY ReverseOne
    <2> QED
      BY <2>1, <2>2
  <1>2. ASSUME NEW u \in Seq(X), NEW v \in Seq(X), u \in K, NoDot(v) PROVE Dotted(u, v) \in K
    <2>1. PICK q : q = ReversePath(u) /\ q \in Seq(X)
      BY RevPlain
    <2>2. ReversePath(Dotted(u, v)) = Dotted(v, q) /\ Dotted(u, v) \in Seq(X)
      BY <1>2, <2>1, RevLast, DottedFacts
    <2>3. PathParts(Dotted(v, q)) = PathParts(v) \o PathParts(q)
      BY <2>1, PathDotted
    <2>4. PathParts(v) = <<v>>
      BY <1>2, PlainPath
    <2>5. PathParts(q) = Reverse(PathParts(u))
      BY <1>2, <2>1
    <2>6. Reverse(PathParts(Dotted(u, v))) = <<v>> \o Reverse(PathParts(u))
      BY <1>2, RevLast
    <2> QED
      BY <2>2, <2>3, <2>4, <2>5, <2>6
  <1> HIDE DEF K
  <1>3. s \in K
    BY <1>1, <1>2, PathInduction
  <1> QED
    BY <1>3 DEF K

\* All bytes backwards.
LEMMA ReverseDotted ==
  ASSUME NEW X, Dot \in X, NEW a \in Seq(X), NEW b \in Seq(X)
  PROVE  /\ Reverse(Dotted(a, b)) = Dotted(Reverse(b), Reverse(a))
         /\ NoDot(b) => NoDot(Reverse(b))
  <1>1. PICK d, p, q : d = Append(a, Dot) /\ p = Reverse(a) /\ q = Reverse(b)
    OBVIOUS
  <1>2. d \in Seq(X) /\ p \in Seq(X) /\ q \in Seq(X)
    BY <1>1, ReverseFacts, AppendProperties
  <1>3. Reverse(d \o b) = q \o Reverse(d)
    BY <1>1, <1>2, ReverseConcat
  <1>4. PICK e : e = <<Dot>> /\ e \in Seq(X) /\ Reverse(d) = e \o p
    BY <1>1, ReverseOne
  <1>5. (q \o e) \o p = q \o (e \o p)
    BY <1>2, <1>4, ConcatAssociative, SMTT(30)
  <1>6. Append(q, Dot) = q \o e
    BY <1>2, <1>4, AppendIsConcat
  <1>7. NoDot(b) => NoDot(q)
    <2>1. Len(q) = Len(b) /\ Len(b) \in Nat /\ \A i \in 1 .. Len(b) : q[i] = b[Len(b) - i + 1]
      BY <1>1, ReverseFacts
    <2> QED
      BY <2>1 DEF NoDot
  <1> QED
    BY <1>1, <1>3, <1>4, <1>5, <1>6, <1>7, Zenon DEF Dotted

-----------------------------------------------------------------------------
(***************************************************************************)
(* WriteReversePath.                                                       *)
(***************************************************************************)
\* A path in front of its last dot, and behind it.
LEMMA LastDot ==
  ASSUME NEW X, Dot \in X, NEW p \in Seq(X)
  PROVE  /\ LastIndex(p, Dot) \in 0 .. Len(p)
         /\ LastIndex(p, Dot) = 0 => NoDot(p)
         /\ LastIndex(p, Dot) # 0 =>
              /\ SubSeq(p, 1, LastIndex(p, Dot) - 1) \in Seq(X)
                   /\ After(p, LastIndex(p, Dot)) \in Seq(X)
              /\ p = Dotted(SubSeq(p, 1, LastIndex(p, Dot) - 1), After(p, LastIndex(p, Dot)))
              /\ NoDot(After(p, LastIndex(p, Dot)))
  <1>0. LastIndex(p, Dot) = LastPlace(p, Dot)
    BY LenProperties DEF LastIndex, SelectLastInSeq, LastPlace
  <1>1. PICK i, n : i = LastIndex(p, Dot) /\ i \in Nat /\ LastIs(p, Dot, i) /\ n = Len(p)
          /\ n \in Nat
    BY <1>0, LastPlaceFacts, LenProperties
  <1>2. i \in 0 .. n /\ (i = 0 => NoDot(p))
    BY <1>1 DEF LastIs, NoDot
  <1>3. CASE i # 0
    <2>1. i \in 1 .. n /\ p[i] = Dot /\ \A k \in i + 1 .. n : p[k] # Dot
      BY <1>1, <1>3 DEF LastIs
    <2>2. PICK u, w, v : u = SubSeq(p, 1, i - 1) /\ w = SubSeq(p, 1, i) /\ v = SubSeq(p, i + 1, n)
      OBVIOUS
    <2>3. /\ u \in Seq(X) /\ w \in Seq(X) /\ v \in Seq(X)
      <3>1. PICK a \in Nat \ {0}, b \in 0 .. Len(p) : a = i + 1 /\ b = i - 1
        BY <1>1, <2>1
      <3>2. 1 \in Nat \ {0} /\ i \in 0 .. Len(p) /\ n \in 0 .. Len(p)
        BY <1>1, <2>1
      <3> QED
        BY <2>2, <3>1, <3>2, PartFacts
    <2>4. NoDot(v)
      <3>1. PICK a \in Nat \ {0} : a = i + 1 /\ n \in 0 .. Len(p)
        BY <1>1, <2>1
      <3>2. /\ Len(v) = IF a <= n THEN n - a + 1 ELSE 0
            /\ \A k \in 1 .. n - a + 1 : v[k] = p[a + k - 1]
        BY <2>2, <3>1, PartFacts
      <3>3. ASSUME NEW k \in 1 .. Len(v) PROVE v[k] # Dot
        <4>1. k \in 1 .. n - a + 1 /\ a + k - 1 \in i + 1 .. n
          BY <1>1, <2>1, <3>1, <3>2
        <4> QED
          BY <2>1, <3>2, <4>1
      <3> QED
        BY <3>3 DEF NoDot
    <2>5. w = Append(u, Dot)
      <3>1. 1 \in 1 .. Len(p) /\ i \in 1 .. Len(p)
        BY <1>1, <2>1
      <3>2. SubSeq(p, 1, i) = SubSeq(p, 1, i - 1) \o <<p[i]>>
        BY <3>1, SubSeqRecursiveSecond
      <3>3. Append(u, Dot) = u \o <<Dot>>
        BY <2>3, AppendIsConcat
      <3> QED
        BY <2>1, <2>2, <3>2, <3>3, Zenon
    <2>6. p = w \o v
      <3>1. 1 \in 1 .. Len(p) + 1 /\ i \in 1 - 1 .. Len(p) /\ n \in i .. Len(p)
        BY <1>1, <2>1
      <3>2. SubSeq(p, 1, i) \o SubSeq(p, i + 1, n) = SubSeq(p, 1, n)
        BY <3>1, ConcatAdjacentSubSeq
      <3>3. SubSeq(p, 1, n) = p
        BY <1>1, SubSeqFull
      <3> QED
        BY <2>2, <3>2, <3>3, Zenon
    <2>7. p = Dotted(u, v) /\ v = After(p, i)
      BY <1>1, <2>2, <2>5, <2>6, Zenon DEF Dotted, After
    <2> QED
      BY <1>1, <1>2, <1>3, <2>2, <2>3, <2>4, <2>7, Zenon
  <1> QED
    BY <1>1, <1>2, <1>3, Zenon

\* Of the first n bytes of src, by the reverses f of shorter ones.
WriteRest(src, f, n) ==
  LET p == SubSeq(src, 1, n)
      i == LastIndex(p, Dot)
  IN IF i = 0 THEN p ELSE After(p, i) \o <<Dot>> \o f[i - 1]

\* WriteReversePath is the recursive function of its definition, at the end.
LEMMA WriteIs ==
  ASSUME NEW src
  PROVE  WriteReversePath(src) = (CHOOSE f : f =
             [n \in 0 .. Len(src) |-> WriteRest(src, f, n)])[Len(src)]
  BY DEF WriteReversePath, WriteRest, LastIndex

\* A prefix, by its last dot.
LEMMA RestStep ==
  ASSUME NEW X, Dot \in X, NEW src \in Seq(X), NEW n \in 0 .. Len(src), NEW f,
         \A k \in 0 .. n - 1 : f[k] = ReversePath(SubSeq(src, 1, k))
  PROVE  WriteRest(src, f, n) = ReversePath(SubSeq(src, 1, n))
  <1>1. PICK p, i : p = SubSeq(src, 1, n) /\ i = LastIndex(p, Dot)
    OBVIOUS
  <1>2. p \in Seq(X) /\ Len(p) = n /\ n \in Nat
    <2>1. 1 \in Nat \ {0} /\ n \in Nat /\ n - 1 + 1 = n
      BY LenProperties
    <2> QED
      BY <1>1, <2>1, PartFacts
  <1>3. i \in 0 .. n /\ (i = 0 => NoDot(p))
    BY <1>1, <1>2, LastDot
  <1>4. CASE i = 0
    BY <1>1, <1>2, <1>3, <1>4, RevPlain DEF WriteRest
  <1>5. CASE i # 0
    <2>1. PICK u, v : u = SubSeq(p, 1, i - 1) /\ v = After(p, i)
      OBVIOUS
    <2>2. u \in Seq(X) /\ v \in Seq(X) /\ p = Dotted(u, v) /\ NoDot(v)
      BY <1>1, <1>2, <1>5, <2>1, LastDot
    <2>3. ReversePath(p) = Dotted(v, ReversePath(u))
      BY <2>2, RevLast
    <2>4. u = SubSeq(src, 1, i - 1)
      <3>1. CASE i = 1
        <4>1. SubSeq(p, 1, 0) = <<>> /\ SubSeq(src, 1, 0) = <<>> /\ i - 1 = 0
          BY <3>1, SubSeqEmpty
        <4> QED
          BY <2>1, <4>1
      <3>2. CASE i # 1
        <4>1. PICK m : m = i - 1
          OBVIOUS
        <4>2. 1 \in 1 .. Len(src) /\ n \in 1 .. Len(src) /\ 1 \in 1 .. n - 1 + 1
                /\ m \in 1 .. n - 1 + 1
          BY <1>2, <1>3, <1>5, <3>2, <4>1, LenProperties
        <4>3. SubSeq(SubSeq(src, 1, n), 1, m) = SubSeq(src, 1 + 1 - 1, 1 + m - 1)
          BY <4>2, SubSeqOfSubSeq
        <4>4. 1 + 1 - 1 = 1 /\ 1 + m - 1 = m
          BY <4>2
        <4> QED
          BY <1>1, <2>1, <4>1, <4>3, <4>4, Zenon
      <3> QED
        BY <3>1, <3>2
    <2>5. f[i - 1] = ReversePath(u)
      <3>1. i - 1 \in 0 .. n - 1
        BY <1>2, <1>3, <1>5
      <3> QED
        BY <2>4, <3>1
    <2>6. (v \o <<Dot>>) \o f[i - 1] = Dotted(v, f[i - 1])
      <3>1. Append(v, Dot) = v \o <<Dot>>
        BY <2>2, AppendIsConcat
      <3> QED
        BY <3>1, Zenon DEF Dotted
    <2>7. WriteRest(src, f, n) = (v \o <<Dot>>) \o f[i - 1]
      BY <1>1, <1>5, <2>1, Zenon DEF WriteRest
    <2> QED
      BY <1>1, <2>3, <2>5, <2>6, <2>7, Zenon
  <1> QED
    BY <1>4, <1>5

\* WriteReversePath writes the parts from the last to the first.
LEMMA WriteExact ==
  ASSUME NEW X, Dot \in X, NEW src \in Seq(X)
  PROVE  WriteReversePath(src) = ReversePath(src)
  <1>1. PICK L : L = Len(src) /\ L \in Nat
    BY LenProperties
  <1>2. PICK h : h = [n \in 0 .. L |-> ReversePath(SubSeq(src, 1, n))]
    OBVIOUS
  <1>3. ASSUME NEW n \in 0 .. L PROVE WriteRest(src, h, n) = h[n]
    <2>1. \A k \in 0 .. n - 1 : h[k] = ReversePath(SubSeq(src, 1, k))
      BY <1>1, <1>2
    <2>2. WriteRest(src, h, n) = ReversePath(SubSeq(src, 1, n))
      BY <1>1, <2>1, RestStep
    <2> QED
      BY <1>2, <2>2
  <1>4. h = [n \in 0 .. L |-> WriteRest(src, h, n)]
    BY <1>2, <1>3
  <1>5. PICK g : g = CHOOSE f : f = [n \in 0 .. L |-> WriteRest(src, f, n)]
    OBVIOUS
  <1>6. g = [n \in 0 .. L |-> WriteRest(src, g, n)]
    BY <1>4, <1>5, Zenon
  <1> DEFINE K == {m \in Nat : \A k \in 0 .. m - 1 : k <= L => g[k] =
          ReversePath(SubSeq(src, 1, k))}
  <1>7. 0 \in K
    OBVIOUS
  <1>8. ASSUME NEW m \in 0 .. L, m \in K PROVE m + 1 \in K
    <2>1. \A k \in 0 .. m - 1 : g[k] = ReversePath(SubSeq(src, 1, k))
      BY <1>1, <1>8
    <2>2. WriteRest(src, g, m) = ReversePath(SubSeq(src, 1, m))
      BY <1>1, <2>1, RestStep
    <2>3. g[m] = ReversePath(SubSeq(src, 1, m))
      BY <1>6, <2>2
    <2>4. \A k \in 0 .. m + 1 - 1 : k = m \/ k \in 0 .. m - 1
      BY <1>1
    <2> QED
      BY <1>1, <2>1, <2>3, <2>4
  <1> HIDE DEF K
  <1>9. L + 1 \in K
    <2>1. PICK M : M = L + 1 /\ M \in Nat
      BY <1>1
    <2>2. \A k \in 0 .. M - 1 : k \in K => k + 1 \in K
      BY <1>1, <1>8, <2>1
    <2>3. \A k \in 0 .. M : k \in K
      BY <1>7, <2>1, <2>2, UpInduction
    <2> QED
      BY <2>1, <2>3
  <1>10. g[L] = ReversePath(SubSeq(src, 1, L))
    BY <1>1, <1>9 DEF K
  <1>11. SubSeq(src, 1, L) = src
    BY <1>1, SubSeqFull
  <1>12. WriteReversePath(src) = g[L]
    BY <1>1, <1>5, WriteIs, Zenon
  <1> QED
    BY <1>10, <1>11, <1>12, Zenon

-----------------------------------------------------------------------------
(***************************************************************************)
(* reverseMetricInplace.                                                   *)
(***************************************************************************)
\* A function on the first numbers is a sequence.
LEMMA FunctionSeq ==
  ASSUME NEW X, NEW n \in Nat, NEW s \in [1 .. n -> X]
  PROVE  s \in Seq(X) /\ Len(s) = n
  <1>1. [i \in 1 .. n |-> s[i]] \in Seq(X) /\ Len([i \in 1 .. n |-> s[i]]) = n
    OBVIOUS
  <1>2. s = [i \in 1 .. n |-> s[i]]
    OBVIOUS
  <1> QED
    BY <1>1, <1>2, Zenon

Mid(p, y, q) == p \o (y \o q)
InParts(p, y, q, s) ==
  /\ Len(p) \in Nat /\ Len(y) \in Nat /\ Len(q) \in Nat /\ Len(s) = Len(p) + Len(y) + Len(q)
  /\ \A i \in 1 .. Len(p) : s[i] = p[i]
  /\ \A i \in 1 .. Len(y) : s[Len(p) + i] = y[i]
  /\ \A i \in 1 .. Len(q) : s[Len(p) + Len(y) + i] = q[i]

\* Three sequences in a row, byte by byte.
LEMMA MidFacts ==
  ASSUME NEW X, NEW p \in Seq(X), NEW y \in Seq(X), NEW q \in Seq(X)
  PROVE  Mid(p, y, q) \in Seq(X) /\ InParts(p, y, q, Mid(p, y, q))
  <1>1. PICK a, b, c, d, e : /\ a = Len(p) /\ b = Len(y) /\ c = Len(q) /\ d = y \o q
                             /\ e = Mid(p, y, q)
    OBVIOUS
  <1>2. /\ a \in Nat /\ b \in Nat /\ c \in Nat /\ d \in Seq(X) /\ Len(d) = b + c
        /\ \A i \in 1 .. b + c : d[i] = IF i <= b THEN y[i] ELSE q[i - b]
    BY <1>1, LenProperties, ConcatProperties
  <1>3. /\ e \in Seq(X) /\ Len(e) = a + (b + c)
        /\ \A i \in 1 .. a + (b + c) : e[i] = IF i <= a THEN p[i] ELSE d[i - a]
    <2>1. e = p \o d
      BY <1>1 DEF Mid
    <2> QED
      BY <1>1, <1>2, <2>1, ConcatProperties
  <1>4. \A i \in 1 .. a : e[i] = p[i]
    BY <1>2, <1>3
  <1>5. ASSUME NEW i \in 1 .. b PROVE e[a + i] = y[i]
    <2>1. a + i \in 1 .. a + (b + c) /\ ~(a + i <= a) /\ (a + i) - a = i /\ i \in 1 .. b + c
      BY <1>2
    <2> QED
      BY <1>2, <1>3, <2>1
  <1>6. ASSUME NEW i \in 1 .. c PROVE e[a + b + i] = q[i]
    <2>1. /\ a + b + i \in 1 .. a + (b + c) /\ ~(a + b + i <= a) /\ (a + b + i) - a = b + i
          /\ b + i \in 1 .. b + c /\ ~(b + i <= b) /\ (b + i) - b = i
      BY <1>2
    <2> QED
      BY <1>2, <1>3, <2>1
  <1>7. Len(e) = a + b + c
    BY <1>2, <1>3
  <1> QED
    BY <1>1, <1>2, <1>3, <1>4, <1>5, <1>6, <1>7, Zenon DEF InParts

\* A sequence with their bytes is them.
LEMMA MidIs ==
  ASSUME NEW X, NEW p \in Seq(X), NEW y \in Seq(X), NEW q \in Seq(X), NEW s \in Seq(X),
         InParts(p, y, q, s)
  PROVE  s = Mid(p, y, q)
  <1>1. PICK a, b, c, e : a = Len(p) /\ b = Len(y) /\ c = Len(q) /\ e = Mid(p, y, q)
    OBVIOUS
  <1>2. /\ a \in Nat /\ b \in Nat /\ c \in Nat /\ e \in Seq(X) /\ Len(e) = a + b + c
        /\ \A i \in 1 .. a : e[i] = p[i]
        /\ \A i \in 1 .. b : e[a + i] = y[i]
        /\ \A i \in 1 .. c : e[a + b + i] = q[i]
    <2>1. Mid(p, y, q) \in Seq(X) /\ InParts(p, y, q, Mid(p, y, q))
      BY MidFacts
    <2> QED
      BY <1>1, <2>1, Zenon DEF InParts
  <1>3. /\ Len(s) = a + b + c
        /\ \A i \in 1 .. a : s[i] = p[i]
        /\ \A i \in 1 .. b : s[a + i] = y[i]
        /\ \A i \in 1 .. c : s[a + b + i] = q[i]
    BY <1>1, Zenon DEF InParts
  <1>4. ASSUME NEW i \in 1 .. a + b + c PROVE s[i] = e[i]
    <2>1. CASE i <= a
      <3>1. i \in 1 .. a
        BY <1>2, <2>1
      <3> QED
        BY <1>2, <1>3, <3>1
    <2>2. CASE i > a /\ i <= a + b
      <3>1. PICK j : j = i - a
        OBVIOUS
      <3>2. j \in 1 .. b /\ a + j = i
        BY <1>2, <2>2, <3>1
      <3>3. s[a + j] = y[j] /\ e[a + j] = y[j]
        BY <1>2, <1>3, <3>2
      <3> QED
        BY <3>2, <3>3, Zenon
    <2>3. CASE i > a + b
      <3>1. PICK j : j = i - (a + b)
        OBVIOUS
      <3>2. j \in 1 .. c /\ a + b + j = i
        BY <1>2, <2>3, <3>1
      <3>3. s[a + b + j] = q[j] /\ e[a + b + j] = q[j]
        BY <1>2, <1>3, <3>2
      <3> QED
        BY <3>2, <3>3, Zenon
    <2> QED
      BY <1>2, <2>1, <2>2, <2>3
  <1> QED
    BY <1>1, <1>2, <1>3, <1>4, SeqEqual

\* Reversing a part reverses it where it is.
LEMMA PartReversed ==
  ASSUME NEW X, NEW p \in Seq(X), NEW y \in Seq(X), NEW q \in Seq(X)
  PROVE  ReversePart(Mid(p, y, q), Len(p) + 1, Len(p) + Len(y)) = Mid(p, Reverse(y), q)
  <1>1. PICK a, b, c, e, r : /\ a = Len(p) /\ b = Len(y) /\ c = Len(q) /\ e = Mid(p, y, q)
                             /\ r = Reverse(y)
    OBVIOUS
  <1>2. /\ a \in Nat /\ b \in Nat /\ c \in Nat /\ e \in Seq(X) /\ Len(e) = a + b + c
        /\ \A i \in 1 .. a : e[i] = p[i]
        /\ \A i \in 1 .. b : e[a + i] = y[i]
        /\ \A i \in 1 .. c : e[a + b + i] = q[i]
    <2>1. Mid(p, y, q) \in Seq(X) /\ InParts(p, y, q, Mid(p, y, q))
      BY MidFacts
    <2> QED
      BY <1>1, <2>1, Zenon DEF InParts
  <1>3. r \in Seq(X) /\ Len(r) = b /\ \A i \in 1 .. b : r[i] = y[b - i + 1]
    BY <1>1, ReverseFacts
  <1>4. PICK s : s = ReversePart(e, a + 1, a + b)
    OBVIOUS
  <1>5. DOMAIN e = 1 .. a + b + c /\ \A i \in 1 .. a + b + c : e[i] \in X
    BY <1>2, LenProperties, ElementOfSeq
  <1>6. s = [i \in 1 .. a + b + c |-> IF i \in (a + 1) .. (a + b) THEN e[(a + 1) + (a + b) - i]
          ELSE e[i]]
    BY <1>4, <1>5 DEF ReversePart
  <1>7. s \in Seq(X) /\ Len(s) = a + b + c
    <2>1. PICK n : n = a + b + c /\ n \in Nat
      BY <1>2
    <2>2. \A i \in (a + 1) .. (a + b) : (a + 1) + (a + b) - i \in 1 .. n
      BY <1>2, <2>1
    <2>3. s \in [1 .. n -> X]
      BY <1>5, <1>6, <2>1, <2>2
    <2>4. s \in Seq(X) /\ Len(s) = n
      BY <2>1, <2>3, FunctionSeq
    <2> QED
      BY <2>1, <2>4, Zenon
  <1>8. ASSUME NEW i \in 1 .. a PROVE s[i] = p[i]
    BY <1>2, <1>6
  <1>9. ASSUME NEW i \in 1 .. b PROVE s[a + i] = r[i]
    <2>1. /\ a + i \in 1 .. a + b + c /\ a + i \in (a + 1) .. (a + b)
          /\ (a + 1) + (a + b) - (a + i) = a + (b - i + 1) /\ b - i + 1 \in 1 .. b
      BY <1>2
    <2> QED
      BY <1>2, <1>3, <1>6, <2>1
  <1>10. ASSUME NEW i \in 1 .. c PROVE s[a + b + i] = q[i]
    <2>1. a + b + i \in 1 .. a + b + c /\ ~(a + b + i \in (a + 1) .. (a + b))
      BY <1>2
    <2> QED
      BY <1>2, <1>6, <2>1
  <1>11. s = Mid(p, r, q)
    <2>1. r \in Seq(X) /\ s \in Seq(X) /\ InParts(p, r, q, s)
      BY <1>1, <1>2, <1>3, <1>7, <1>8, <1>9, <1>10, Zenon DEF InParts
    <2> QED
      BY <2>1, MidIs
  <1> QED
    BY <1>1, <1>4, <1>11, Zenon

\* Copying into a part replaces it.
LEMMA PartCopied ==
  ASSUME NEW X, NEW p \in Seq(X), NEW y \in Seq(X), NEW q \in Seq(X), NEW v \in Seq(X),
         Len(v) = Len(y)
  PROVE  CopyTo(Mid(p, y, q), Len(p) + 1, v) = Mid(p, v, q)
  <1>1. PICK a, b, c, e : a = Len(p) /\ b = Len(y) /\ c = Len(q) /\ e = Mid(p, y, q)
    OBVIOUS
  <1>2. /\ a \in Nat /\ b \in Nat /\ c \in Nat /\ e \in Seq(X) /\ Len(e) = a + b + c
        /\ \A i \in 1 .. a : e[i] = p[i]
        /\ \A i \in 1 .. c : e[a + b + i] = q[i]
    <2>1. Mid(p, y, q) \in Seq(X) /\ InParts(p, y, q, Mid(p, y, q))
      BY MidFacts
    <2> QED
      BY <1>1, <2>1, Zenon DEF InParts
  <1>4. PICK s : s = CopyTo(e, a + 1, v)
    OBVIOUS
  <1>5. DOMAIN e = 1 .. a + b + c /\ \A i \in 1 .. a + b + c : e[i] \in X
    BY <1>2, LenProperties, ElementOfSeq
  <1>3. Len(v) = b /\ \A i \in 1 .. b : v[i] \in X
    BY <1>1, ElementOfSeq
  <1>6. s = [i \in 1 .. a + b + c |-> IF i \in (a + 1) .. (a + b) THEN v[i - a] ELSE e[i]]
    <2>1. a + 1 + Len(v) - 1 = a + b /\ \A i \in Int : i - (a + 1) + 1 = i - a
      BY <1>2, <1>3
    <2> QED
      BY <1>4, <1>5, <2>1 DEF CopyTo
  <1>7. s \in Seq(X) /\ Len(s) = a + b + c
    <2>1. PICK n : n = a + b + c /\ n \in Nat
      BY <1>2
    <2>2. \A i \in (a + 1) .. (a + b) : i - a \in 1 .. b
      BY <1>2
    <2>3. s \in [1 .. n -> X]
      BY <1>3, <1>5, <1>6, <2>1, <2>2
    <2>4. s \in Seq(X) /\ Len(s) = n
      BY <2>1, <2>3, FunctionSeq
    <2> QED
      BY <2>1, <2>4, Zenon
  <1>8. ASSUME NEW i \in 1 .. a PROVE s[i] = p[i]
    BY <1>2, <1>6
  <1>9. ASSUME NEW i \in 1 .. b PROVE s[a + i] = v[i]
    BY <1>2, <1>3, <1>6, SMTT(30)
  <1>10. ASSUME NEW i \in 1 .. c PROVE s[a + b + i] = q[i]
    <2>1. a + b + i \in 1 .. a + b + c /\ ~(a + b + i \in (a + 1) .. (a + b))
      BY <1>2
    <2> QED
      BY <1>2, <1>6, <2>1
  <1>11. s = Mid(p, v, q)
    <2>1. v \in Seq(X) /\ s \in Seq(X) /\ InParts(p, v, q, s)
      BY <1>1, <1>2, <1>3, <1>7, <1>8, <1>9, <1>10, Zenon DEF InParts
    <2> QED
      BY <2>1, MidIs
  <1> QED
    BY <1>1, <1>4, <1>11, Zenon

\* A byte goes from one part to the next.
LEMMA MidMove ==
  ASSUME NEW X, NEW d \in Seq(X), NEW v \in Seq(X), NEW x \in X, NEW z \in Seq(X)
  PROVE  /\ Mid(d, v, <<x>> \o z) = Mid(d, Append(v, x), z)
         /\ Mid(d, v, <<x>> \o z) = Mid(Append(d \o v, x), <<>>, z)
         /\ Mid(d, v, <<>>) = d \o v /\ Mid(<<>>, v, z) = v \o z
  <1>1. PICK o, e : o = <<x>> /\ e = d \o v
    OBVIOUS
  <1>2. o \in Seq(X) /\ e \in Seq(X) /\ <<>> \in Seq(X)
    <2>1. e \in Seq(X)
      BY <1>1, ConcatProperties
    <2> QED
      BY <1>1, <2>1
  <1>3. Append(v, x) = v \o o /\ Append(e, x) = e \o o
    <2>1. Append(v, x) = v \o <<x>>
      BY AppendIsConcat
    <2>2. Append(e, x) = e \o <<x>>
      BY <1>2, AppendIsConcat
    <2> QED
      BY <1>1, <2>1, <2>2, Zenon
  <1>4. (v \o o) \o z = v \o (o \o z)
    <2>1. o \in Seq(X) /\ e \in Seq(X)
      BY <1>2
    <2> QED
      BY <2>1, ConcatAssociative, SMTT(30)
  <1>5. v \o o \in Seq(X) /\ o \o z \in Seq(X) /\ e \o o \in Seq(X) /\ v \o z \in Seq(X)
    BY <1>2, ConcatProperties
  <1>6. d \o (v \o (o \o z)) = e \o (o \o z)
    <2>1. PICK t : t = o \o z /\ t \in Seq(X)
      BY <1>5
    <2>2. (d \o v) \o t = d \o (v \o t)
      BY <2>1, ConcatAssociative, SMTT(30)
    <2> QED
      BY <1>1, <2>1, <2>2, Zenon
  <1>7. (e \o o) \o z = e \o (o \o z)
    <2>1. o \in Seq(X) /\ e \in Seq(X)
      BY <1>2
    <2> QED
      BY <2>1, ConcatAssociative, SMTT(30)
  <1>8. <<>> \o z = z /\ v \o <<>> = v /\ <<>> \o (v \o z) = v \o z
    BY <1>5, ConcatEmptySeq
  <1> QED
    BY <1>1, <1>3, <1>4, <1>6, <1>7, <1>8, Zenon DEF Mid

Positions(s) == [i \in DOMAIN s |-> i]

\* The positions of a sequence in order.
LEMMA PositionFacts ==
  ASSUME NEW X, NEW s \in Seq(X), NEW n, n = Len(s)
  PROVE  /\ n \in Nat /\ Positions(s) \in Seq(1 .. n) /\ Len(Positions(s)) = n
         /\ \A k \in 0 .. n - 1 : Positions(s)[k + 1] = k + 1
  <1>1. n \in Nat /\ DOMAIN s = 1 .. n
    BY LenProperties
  <1>2. Positions(s) = [i \in 1 .. n |-> i]
    BY <1>1 DEF Positions
  <1> QED
    BY <1>1, <1>2

EndParts == INSTANCE Folding WITH Step <- PartEnds
InplaceState(s) == FoldLeftDomain(PartEnds, [m |-> Reverse(s), a |-> 1], s)
EndStates(X, n) == [m : {t \in Seq(X) : Len(t) = n}, a : Nat \ {0}]
EndRun(w, r) == r[0] = [m |-> w, a |-> 1]
  /\ \A k \in 0 .. Len(w) - 1 : r[k + 1] = PartEnds(r[k], k + 1)

\* The loop of reverseMetricInplace is such a fold.
LEMMA InplaceIs ==
  ASSUME NEW s
  PROVE  InplaceState(s) = EndParts!Value([m |-> Reverse(s), a |-> 1], Positions(s))
  BY DEF InplaceState, Positions, FoldLeftDomain, EndParts!Value, EndParts!Iter, FoldLeft,
         MapThenFoldSet, Max, EndParts!Max

\* The bytes and the begin of the part, position by position.
LEMMA InplaceRun ==
  ASSUME NEW X, NEW s \in Seq(X)
  PROVE  \E r : EndRun(Reverse(s), r) /\ InplaceState(s) = r[Len(s)]
  <1>1. PICK n, w, base : n = Len(s) /\ w = Reverse(s) /\ base = [m |-> w, a |-> 1]
    OBVIOUS
  <1>2. n \in Nat /\ w \in Seq(X) /\ Len(w) = n
    BY <1>1, ReverseFacts
  <1>3. PICK St, N : St = EndStates(X, n) /\ N = 1 .. n
    OBVIOUS
  <1>4. base \in St
    BY <1>1, <1>2, <1>3 DEF EndStates
  <1>5. EndParts!Closed(St, N)
    <2>1. ASSUME NEW st \in St, NEW b \in N
          PROVE  PartEnds(st, b) \in St
      <3>1. PICK t, a : t = st.m /\ a = st.a
        OBVIOUS
      <3>2. t \in Seq(X) /\ Len(t) = n /\ a \in Nat \ {0} /\ b \in 1 .. n
        BY <1>3, <3>1 DEF EndStates
      <3>3. PICK h : h = ReversePart(t, a, b - 1)
        OBVIOUS
      <3>4. DOMAIN t = 1 .. n /\ \A i \in 1 .. n : t[i] \in X
        BY <3>2, LenProperties, ElementOfSeq
      <3>5. h = [i \in 1 .. n |-> IF i \in a .. b - 1 THEN t[a + (b - 1) - i] ELSE t[i]]
        BY <3>3, <3>4 DEF ReversePart
      <3>6. \A i \in a .. b - 1 : a + (b - 1) - i \in 1 .. n
        BY <1>2, <3>2
      <3>7. h \in [1 .. n -> X]
        BY <3>4, <3>5, <3>6
      <3>8. h \in Seq(X) /\ Len(h) = n
        BY <1>2, <3>7, FunctionSeq
      <3>9. b + 1 \in Nat \ {0}
        BY <1>2, <3>2
      <3>10. [m |-> h, a |-> b + 1] \in St
        BY <1>3, <3>8, <3>9 DEF EndStates
      <3>11. PartEnds(st, b) \in {st, [m |-> h, a |-> b + 1]}
        BY <3>1, <3>3 DEF PartEnds
      <3> QED
        BY <3>10, <3>11
    <2> QED
      BY <2>1, Zenon DEF EndParts!Closed
  <1>6. PICK id : id = Positions(s)
    OBVIOUS
  <1>7. id \in Seq(N) /\ Len(id) = n /\ \A k \in 0 .. n - 1 : id[k + 1] = k + 1
    BY <1>1, <1>3, <1>6, PositionFacts
  <1>8. PICK r \in [0 .. Len(id) -> St] :
          EndParts!Runs(base, id, r) /\ EndParts!Value(base, id) = r[Len(id)]
    BY <1>4, <1>5, <1>7, EndParts!FoldRuns
  <1>9. EndRun(w, r)
    BY <1>1, <1>2, <1>7, <1>8 DEF EndParts!Runs, EndRun
  <1>10. InplaceState(s) = r[n]
    BY <1>1, <1>6, <1>7, <1>8, InplaceIs, Zenon
  <1> QED
    BY <1>1, <1>9, <1>10, Zenon

\* e is d after reverseMetricInplace has been through it, the last dot with it.
Swapped(X, d, e) ==
  \/ d = <<>> /\ e = <<>>
  \/ \E u \in Seq(X) : d = Append(u, Dot) /\ e = Append(ReversePath(Reverse(u)), Dot)

\* With the part after it reversed, it is all of the reverse.
LEMMA SwappedPart ==
  ASSUME NEW X, Dot \in X, NEW d \in Seq(X), NEW e \in Seq(X), NEW v \in Seq(X), NoDot(v),
         Swapped(X, d, e)
  PROVE  ReversePath(Reverse(d \o v)) = e \o Reverse(v)
  <1>1. PICK r : r = Reverse(v) /\ r \in Seq(X) /\ NoDot(r)
    BY ReverseFacts, ReverseDotted
  <1>2. ReversePath(r) = r
    BY <1>1, RevPlain
  <1>3. CASE d = <<>> /\ e = <<>>
    <2>1. <<>> \o v = v /\ <<>> \o r = r
      BY <1>1, ConcatEmptySeq
    <2> QED
      BY <1>1, <1>2, <1>3, <2>1, Zenon
  <1>4. CASE \E u \in Seq(X) : d = Append(u, Dot) /\ e = Append(ReversePath(Reverse(u)), Dot)
    <2>1. PICK u \in Seq(X) : d = Append(u, Dot) /\ e = Append(ReversePath(Reverse(u)), Dot)
      BY <1>4
    <2>2. PICK q : q = Reverse(u) /\ q \in Seq(X)
      BY ReverseFacts
    <2>3. Reverse(Dotted(u, v)) = Dotted(r, q)
      BY <1>1, <2>2, ReverseDotted
    <2>4. ReversePath(Dotted(r, q)) = Dotted(ReversePath(q), ReversePath(r))
      BY <1>1, <2>2, RevDotted
    <2> QED
      BY <1>1, <1>2, <2>1, <2>2, <2>3, <2>4, Zenon DEF Dotted
  <1> QED
    BY <1>3, <1>4 DEF Swapped

\* After k positions: d is done, v is the part that k is in, z is to come.
EndParted(X, w, k, st, d, e, v, z) ==
  /\ d \in Seq(X) /\ e \in Seq(X) /\ v \in Seq(X) /\ z \in Seq(X)
  /\ w = Mid(d, v, z) /\ st = [m |-> Mid(e, v, z), a |-> Len(d) + 1]
  /\ Len(e) = Len(d) /\ k = Len(d) + Len(v) /\ NoDot(v) /\ Swapped(X, d, e)
EndInv(X, w, k, st) == \E d, e, v, z : EndParted(X, w, k, st, d, e, v, z)

HasNext(X, d, v, z) ==
  \E x \in X : \E y \in Seq(X) :
    /\ z = <<x>> \o y
    /\ \A e \in Seq(X) : Len(e) = Len(d) => Mid(e, v, z)[Len(d) + Len(v) + 1] = x

\* What is to come is not empty before the last position.
LEMMA NextOf ==
  ASSUME NEW X, NEW d \in Seq(X), NEW v \in Seq(X), NEW z \in Seq(X),
         Len(d) + Len(v) < Len(Mid(d, v, z))
  PROVE  HasNext(X, d, v, z)
  <1>1. PICK a, b, c : a = Len(d) /\ b = Len(v) /\ c = Len(z)
    OBVIOUS
  <1>2. a \in Nat /\ b \in Nat /\ c \in Nat /\ Len(Mid(d, v, z)) = a + b + c
    <2>1. InParts(d, v, z, Mid(d, v, z))
      BY MidFacts
    <2> QED
      BY <1>1, <2>1, Zenon DEF InParts
  <1>3. 1 \in 1 .. c
    BY <1>1, <1>2
  <1>4. z # <<>>
    BY <1>1, <1>3, LenProperties
  <1>5. z = <<Head(z)>> \o Tail(z) /\ Head(z) \in X /\ Tail(z) \in Seq(X) /\ Head(z) = z[1]
    BY <1>4, HeadTailProperties
  <1>6. ASSUME NEW e \in Seq(X), Len(e) = a PROVE Mid(e, v, z)[a + b + 1] = z[1]
    <2>1. InParts(e, v, z, Mid(e, v, z))
      BY MidFacts
    <2> QED
      BY <1>1, <1>3, <1>6, <2>1, Zenon DEF InParts
  <1> QED
    BY <1>1, <1>5, <1>6, Zenon DEF HasNext

\* One position more.
LEMMA EndKeep ==
  ASSUME NEW X, Dot \in X, NEW w \in Seq(X), NEW k \in Nat, k < Len(w), NEW st,
         EndInv(X, w, k, st)
  PROVE  EndInv(X, w, k + 1, PartEnds(st, k + 1))
  <1>1. PICK d, e, v, z : EndParted(X, w, k, st, d, e, v, z)
    BY DEF EndInv
  <1>2. /\ d \in Seq(X) /\ e \in Seq(X) /\ v \in Seq(X) /\ z \in Seq(X)
        /\ w = Mid(d, v, z) /\ st = [m |-> Mid(e, v, z), a |-> Len(d) + 1]
        /\ Len(e) = Len(d) /\ k = Len(d) + Len(v) /\ NoDot(v) /\ Swapped(X, d, e)
    BY <1>1 DEF EndParted
  <1>3. PICK x \in X, y \in Seq(X) :
          /\ z = <<x>> \o y
          /\ \A f \in Seq(X) : Len(f) = Len(d) => Mid(f, v, z)[Len(d) + Len(v) + 1] = x
    <2>1. Len(d) + Len(v) < Len(Mid(d, v, z))
      BY <1>2, Zenon
    <2>2. d \in Seq(X) /\ v \in Seq(X) /\ z \in Seq(X)
      BY <1>2
    <2>3. HasNext(X, d, v, z)
      BY <2>1, <2>2, NextOf
    <2> QED
      BY <2>3, Zenon DEF HasNext
  <1>4. PICK M : M = Mid(e, v, z)
    OBVIOUS
  <1>5. M[k + 1] = x /\ st.m = M /\ st.a = Len(d) + 1
    <2>1. st.m = M /\ st.a = Len(d) + 1
      BY <1>2, <1>4
    <2> QED
      BY <1>2, <1>3, <1>4, <2>1, Zenon
  <1>6. Len(d) \in Nat /\ Len(v) \in Nat
    BY <1>2, LenProperties
  <1>7. CASE x # Dot
    <2>1. PartEnds(st, k + 1) = st
      BY <1>5, <1>7, Zenon DEF PartEnds
    <2>2. PICK u : u = Append(v, x)
      OBVIOUS
    <2>3. u \in Seq(X) /\ Len(u) = Len(v) + 1 /\ NoDot(u)
      <3>1. v \in Seq(X) /\ NoDot(v) /\ x \in X
        BY <1>2, <1>3
      <3> QED
        BY <1>7, <2>2, <3>1, NoDotMore
    <2>4. Mid(d, v, z) = Mid(d, u, y)
      BY <1>2, <1>3, <2>2, MidMove
    <2>5. Mid(e, v, z) = Mid(e, u, y)
      BY <1>2, <1>3, <2>2, MidMove
    <2>6. k + 1 = Len(d) + Len(u)
      BY <1>2, <1>6, <2>3
    <2>7. EndParted(X, w, k + 1, st, d, e, u, y)
      BY <1>2, <1>3, <2>3, <2>4, <2>5, <2>6, Zenon DEF EndParted
    <2> QED
      BY <2>1, <2>7, Zenon DEF EndInv
  <1>8. CASE x = Dot
    <2>1. PICK h, b : h = ReversePart(M, Len(d) + 1, (k + 1) - 1) /\ b = (k + 1) + 1
      OBVIOUS
    <2>2. PartEnds(st, k + 1) = [m |-> h, a |-> b]
      BY <1>5, <1>8, <2>1, Zenon DEF PartEnds
    <2>3. PICK r : r = Reverse(v) /\ r \in Seq(X) /\ Len(r) = Len(v)
      BY <1>2, ReverseFacts
    <2>4. h = Mid(e, r, z)
      <3>1. ReversePart(Mid(e, v, z), Len(e) + 1, Len(e) + Len(v)) = Mid(e, Reverse(v), z)
        BY <1>2, PartReversed
      <3>2. (k + 1) - 1 = Len(e) + Len(v)
        BY <1>2, <1>6
      <3> QED
        BY <1>2, <1>4, <2>1, <2>3, <3>1, <3>2, Zenon
    <2>5. PICK p, q : p = d \o v /\ q = e \o r
      OBVIOUS
    <2>6. /\ p \in Seq(X) /\ q \in Seq(X) /\ Len(p) = Len(d) + Len(v)
          /\ Len(q) = Len(e) + Len(r)
      BY <1>2, <2>3, <2>5, ConcatProperties
    <2>7. PICK D, E : D = Append(p, Dot) /\ E = Append(q, Dot)
      OBVIOUS
    <2>8. D \in Seq(X) /\ E \in Seq(X) /\ Len(D) = Len(p) + 1 /\ Len(E) = Len(q) + 1
      BY <2>6, <2>7, AppendProperties
    <2>9. q = ReversePath(Reverse(p))
      <3>1. d \in Seq(X) /\ e \in Seq(X) /\ v \in Seq(X) /\ NoDot(v) /\ Swapped(X, d, e)
        BY <1>2
      <3>2. ReversePath(Reverse(d \o v)) = e \o Reverse(v)
        BY <3>1, SwappedPart
      <3> QED
        BY <2>3, <2>5, <3>2, Zenon
    <2>10. Swapped(X, D, E)
      BY <2>6, <2>7, <2>9, Zenon DEF Swapped
    <2>11. w = Mid(D, <<>>, y)
      <3>1. Mid(d, v, <<x>> \o y) = Mid(Append(d \o v, x), <<>>, y)
        BY <1>2, MidMove
      <3> QED
        BY <1>2, <1>3, <1>8, <2>5, <2>7, <3>1, Zenon
    <2>12. h = Mid(E, <<>>, y)
      <3>1. Mid(e, r, <<x>> \o y) = Mid(Append(e \o r, x), <<>>, y)
        BY <1>2, <2>3, MidMove
      <3> QED
        BY <1>2, <1>3, <1>8, <2>4, <2>5, <2>7, <3>1, Zenon
    <2>13. PICK o : o = <<>>
      OBVIOUS
    <2>14. o \in Seq(X) /\ Len(o) = 0 /\ NoDot(o)
      BY <2>13 DEF NoDot
    <2>15. Len(E) = Len(D) /\ k + 1 = Len(D) + Len(o) /\ b = Len(D) + 1
      BY <1>2, <1>6, <2>1, <2>3, <2>6, <2>8, <2>14
    <2>16. EndParted(X, w, k + 1, [m |-> h, a |-> b], D, E, o, y)
      BY <1>3, <2>8, <2>10, <2>11, <2>12, <2>13, <2>14, <2>15, Zenon DEF EndParted
    <2> QED
      BY <2>2, <2>16, Zenon DEF EndInv
  <1> QED
    BY <1>7, <1>8

\* reverseMetricInplace puts the parts in the opposite order.
LEMMA InplaceExact ==
  ASSUME NEW X, Dot \in X, NEW s \in Seq(X)
  PROVE  reverseMetricInplace(s) = ReversePath(s)
  <1>1. PICK n, w, r : n = Len(s) /\ w = Reverse(s) /\ EndRun(w, r) /\ InplaceState(s) = r[n]
    BY InplaceRun
  <1>2. n \in Nat /\ w \in Seq(X) /\ Len(w) = n
    BY <1>1, ReverseFacts
  <1>3. r[0] = [m |-> w, a |-> 1] /\ \A k \in 0 .. n - 1 : r[k + 1] = PartEnds(r[k], k + 1)
    BY <1>1, <1>2 DEF EndRun
  <1> DEFINE K == {k \in Nat : EndInv(X, w, k, r[k])}
  <1>4. 0 \in K
    <2>1. PICK o : o = <<>>
      OBVIOUS
    <2>2. o \in Seq(X) /\ Len(o) = 0 /\ NoDot(o) /\ Len(o) + 1 = 1 /\ 0 = Len(o) + Len(o)
      BY <2>1 DEF NoDot
    <2>3. Mid(o, o, w) = w
      <3>1. <<>> \o w = w
        BY <1>2, ConcatEmptySeq
      <3> QED
        BY <2>1, <3>1, Zenon DEF Mid
    <2>4. Swapped(X, o, o)
      BY <2>1 DEF Swapped
    <2>5. EndParted(X, w, 0, r[0], o, o, o, w)
      BY <1>2, <1>3, <2>2, <2>3, <2>4, Zenon DEF EndParted
    <2>6. EndInv(X, w, 0, r[0])
      BY <2>5, Zenon DEF EndInv
    <2> QED
      BY <2>6
  <1>5. ASSUME NEW k \in 0 .. n - 1, k \in K PROVE k + 1 \in K
    <2>1. k \in Nat /\ k < Len(w) /\ k + 1 \in Nat
      BY <1>2
    <2>2. EndInv(X, w, k + 1, PartEnds(r[k], k + 1))
      BY <1>2, <1>5, <2>1, EndKeep
    <2> QED
      BY <1>3, <2>1, <2>2
  <1> HIDE DEF K
  <1>6. n \in K
    <2>1. \A k \in 0 .. n : k \in K
      BY <1>2, <1>4, <1>5, UpInduction
    <2> QED
      BY <1>2, <2>1
  <1>7. PICK d, e, v, z : EndParted(X, w, n, r[n], d, e, v, z)
    BY <1>6 DEF K, EndInv
  <1>8. /\ d \in Seq(X) /\ e \in Seq(X) /\ v \in Seq(X) /\ z \in Seq(X)
        /\ w = Mid(d, v, z) /\ r[n] = [m |-> Mid(e, v, z), a |-> Len(d) + 1]
        /\ Len(e) = Len(d) /\ n = Len(d) + Len(v) /\ NoDot(v) /\ Swapped(X, d, e)
    BY <1>7 DEF EndParted
  <1>9. z = <<>>
    <2>1. InParts(d, v, z, Mid(d, v, z))
      BY <1>8, MidFacts
    <2>2. /\ Len(d) \in Nat /\ Len(v) \in Nat /\ Len(z) \in Nat
          /\ Len(w) = Len(d) + Len(v) + Len(z)
      BY <1>8, <2>1, Zenon DEF InParts
    <2>3. Len(z) = 0
      BY <1>2, <1>8, <2>2
    <2> QED
      BY <1>8, <2>3, EmptySeq
  <1>10. w = d \o v
    <2>1. Mid(d, v, <<>>) = d \o v
      <3>1. v \o <<>> = v
        BY <1>8, ConcatEmptySeq
      <3> QED
        BY <3>1, Zenon DEF Mid
    <2> QED
      BY <1>8, <1>9, <2>1, Zenon
  <1>11. PICK q : q = Reverse(v) /\ q \in Seq(X)
    BY <1>8, ReverseFacts
  <1>12. reverseMetricInplace(s) = e \o q
    <2>1. ReversePart(Mid(e, v, z), Len(e) + 1, Len(e) + Len(v)) = Mid(e, q, z)
      BY <1>8, <1>11, PartReversed, ZenonT(60)
    <2>2. Mid(e, q, <<>>) = e \o q
      <3>1. q \o <<>> = q
        BY <1>11, ConcatEmptySeq
      <3> QED
        BY <3>1, Zenon DEF Mid
    <2>3. r[n].m = Mid(e, v, z) /\ r[n].a = Len(d) + 1
      BY <1>8
    <2>4. reverseMetricInplace(s) = ReversePart(r[n].m, r[n].a, n)
      BY <1>1, Zenon DEF reverseMetricInplace, InplaceState
    <2> QED
      BY <1>8, <1>9, <2>1, <2>2, <2>3, <2>4, Zenon
  <1>13. ReversePath(Reverse(w)) = e \o q
    <2>1. d \in Seq(X) /\ e \in Seq(X) /\ v \in Seq(X) /\ NoDot(v) /\ Swapped(X, d, e)
      BY <1>8
    <2>2. ReversePath(Reverse(d \o v)) = e \o Reverse(v)
      BY <2>1, SwappedPart
    <2> QED
      BY <1>10, <1>11, <2>2, Zenon
  <1>14. Reverse(w) = s
    BY <1>1, ReverseTwice
  <1> QED
    BY <1>12, <1>13, <1>14, Zenon

-----------------------------------------------------------------------------
(***************************************************************************)
(* ReverseBytesTo.                                                         *)
(***************************************************************************)
CopyParts == INSTANCE Folding WITH Step <- CopyPart
CopyBase(s) == [src |-> s, dst |-> [i \in DOMAIN s |-> Stale], a |-> 1]
CopiedState(s) == FoldLeftDomain(CopyPart, CopyBase(s), s)
CopyStates(X, s) == [src : {s}, dst : {t \in Seq(X) : Len(t) = Len(s)}, a : Nat \ {0}]
CopyRun(s, r) == r[0] = CopyBase(s) /\ \A k \in 0 .. Len(s) - 1 : r[k + 1] = CopyPart(r[k], k + 1)

\* The loop of ReverseBytesTo is such a fold.
LEMMA CopiedIs ==
  ASSUME NEW s
  PROVE  CopiedState(s) = CopyParts!Value(CopyBase(s), Positions(s))
  BY DEF CopiedState, Positions, FoldLeftDomain, CopyParts!Value, CopyParts!Iter, FoldLeft,
         MapThenFoldSet, Max, CopyParts!Max

\* Copying does not change the length.
LEMMA CopyTyped ==
  ASSUME NEW X, NEW t \in Seq(X), NEW at \in Nat, NEW x \in Seq(X)
  PROVE  CopyTo(t, at, x) \in Seq(X) /\ Len(CopyTo(t, at, x)) = Len(t)
  <1>1. PICK n, l, h : n = Len(t) /\ l = Len(x) /\ h = CopyTo(t, at, x)
    OBVIOUS
  <1>2. /\ n \in Nat /\ l \in Nat /\ DOMAIN t = 1 .. n /\ \A i \in 1 .. n : t[i] \in X
        /\ \A i \in 1 .. l : x[i] \in X
    BY <1>1, LenProperties, ElementOfSeq
  <1>3. h = [i \in 1 .. n |-> IF i \in at .. at + l - 1 THEN x[i - at + 1] ELSE t[i]]
    BY <1>1, <1>2 DEF CopyTo
  <1>4. \A i \in at .. at + l - 1 : i - at + 1 \in 1 .. l
    BY <1>2
  <1>5. h \in [1 .. n -> X]
    BY <1>2, <1>3, <1>4
  <1>6. h \in Seq(X) /\ Len(h) = n
    BY <1>2, <1>5, FunctionSeq
  <1> QED
    BY <1>1, <1>6, Zenon

\* The buffer and the begin of the part, position by position.
LEMMA CopiedRun ==
  ASSUME NEW X, Dot \in X, Stale \in X, NEW s \in Seq(X)
  PROVE  \E r : CopyRun(s, r) /\ CopiedState(s) = r[Len(s)]
  <1>1. PICK n, base : n = Len(s) /\ base = CopyBase(s)
    OBVIOUS
  <1>2. n \in Nat /\ DOMAIN s = 1 .. n
    BY <1>1, LenProperties
  <1>3. PICK St, N : St = CopyStates(X, s) /\ N = 1 .. n
    OBVIOUS
  <1>4. base \in St
    <2>1. PICK t : t = [i \in 1 .. n |-> Stale]
      OBVIOUS
    <2>2. t \in [1 .. n -> X]
      BY <2>1
    <2>3. t \in Seq(X) /\ Len(t) = n
      BY <1>2, <2>2, FunctionSeq
    <2>4. base = [src |-> s, dst |-> t, a |-> 1]
      BY <1>1, <1>2, <2>1, Zenon DEF CopyBase
    <2> QED
      BY <1>1, <1>3, <2>3, <2>4 DEF CopyStates
  <1>5. CopyParts!Closed(St, N)
    <2>1. ASSUME NEW st \in St, NEW b \in N
          PROVE  CopyPart(st, b) \in St
      <3>1. PICK t, a, p, x : /\ t = st.dst /\ a = st.a /\ p = n - b + 1
                              /\ x = SubSeq(s, a, b - 1)
        OBVIOUS
      <3>2. /\ t \in Seq(X) /\ Len(t) = n /\ a \in Nat \ {0} /\ st.src = s /\ b \in 1 .. n
            /\ p \in Nat /\ p + 1 \in Nat /\ b - 1 \in 0 .. n
        BY <1>1, <1>2, <1>3, <3>1 DEF CopyStates
      <3>3. x \in Seq(X)
        <4>1. PICK c : c = b - 1
          OBVIOUS
        <4>2. c \in 0 .. Len(s)
          BY <1>1, <3>2, <4>1
        <4>3. SubSeq(s, a, c) \in Seq(X)
          BY <3>2, <4>2, PartFacts
        <4> QED
          BY <3>1, <4>1, <4>3, Zenon
      <3>4. PICK h : h = CopyTo(t, p + 1, x)
        OBVIOUS
      <3>5. h \in Seq(X) /\ Len(h) = n
        BY <3>2, <3>3, <3>4, CopyTyped
      <3>6. PICK o : o = <<Dot>>
        OBVIOUS
      <3>7. o \in Seq(X)
        BY <3>6
      <3>8. PICK g : g = CopyTo(h, p, o)
        OBVIOUS
      <3>9. g \in Seq(X) /\ Len(g) = n
        BY <3>2, <3>5, <3>7, <3>8, CopyTyped
      <3>10. b + 1 \in Nat \ {0}
        BY <1>2, <3>2
      <3>11. [src |-> s, dst |-> g, a |-> b + 1] \in St
        BY <1>1, <1>3, <3>9, <3>10 DEF CopyStates
      <3>12. CopyPart(st, b) = st \/ CopyPart(st, b) = [src |-> s, dst |-> g, a |-> b + 1]
        BY <1>1, <3>1, <3>2, <3>4, <3>6, <3>8, Zenon DEF CopyPart
      <3> QED
        BY <2>1, <3>11, <3>12, Zenon
    <2> QED
      BY <2>1, Zenon DEF CopyParts!Closed
  <1>6. PICK id : id = Positions(s)
    OBVIOUS
  <1>7. id \in Seq(N) /\ Len(id) = n /\ \A k \in 0 .. n - 1 : id[k + 1] = k + 1
    BY <1>1, <1>3, <1>6, PositionFacts
  <1>8. PICK r \in [0 .. Len(id) -> St] :
          CopyParts!Runs(base, id, r) /\ CopyParts!Value(base, id) = r[Len(id)]
    BY <1>4, <1>5, <1>7, CopyParts!FoldRuns
  <1>9. CopyRun(s, r)
    BY <1>1, <1>2, <1>7, <1>8 DEF CopyParts!Runs, CopyRun
  <1>10. CopiedState(s) = r[n]
    BY <1>1, <1>6, <1>7, <1>8, CopiedIs, Zenon
  <1> QED
    BY <1>1, <1>9, <1>10, Zenon

\* The dot with the second path.
LEMMA DotBetween ==
  ASSUME NEW X, Dot \in X, NEW v \in Seq(X), NEW q \in Seq(X)
  PROVE  v \o (<<Dot>> \o q) = Dotted(v, q)
  <1>1. PICK o : o = <<Dot>>
    OBVIOUS
  <1>2. o \in Seq(X)
    BY <1>1
  <1>3. (v \o o) \o q = v \o (o \o q)
    BY <1>2, ConcatAssociative, SMTT(30)
  <1>4. Append(v, Dot) = v \o <<Dot>>
    BY AppendIsConcat
  <1> QED
    BY <1>1, <1>3, <1>4, Zenon DEF Dotted

\* g is what ReverseBytesTo has written for d, the dot at its begin with it.
Turned(X, d, g) ==
  \/ d = <<>> /\ g = <<>>
  \/ \E u \in Seq(X) : d = Append(u, Dot) /\ g = <<Dot>> \o ReversePath(u)

\* With the part after it, it is the reverse of both.
LEMMA TurnedPart ==
  ASSUME NEW X, Dot \in X, NEW d \in Seq(X), NEW g \in Seq(X), NEW v \in Seq(X), NoDot(v),
         Turned(X, d, g)
  PROVE  ReversePath(d \o v) = v \o g
  <1>1. ReversePath(v) = v
    BY RevPlain
  <1>2. CASE d = <<>> /\ g = <<>>
    <2>1. <<>> \o v = v /\ v \o <<>> = v
      BY ConcatEmptySeq
    <2> QED
      BY <1>1, <1>2, <2>1, Zenon
  <1>3. CASE \E u \in Seq(X) : d = Append(u, Dot) /\ g = <<Dot>> \o ReversePath(u)
    <2>1. PICK u \in Seq(X) : d = Append(u, Dot) /\ g = <<Dot>> \o ReversePath(u)
      BY <1>3
    <2>2. PICK q : q = ReversePath(u) /\ q \in Seq(X)
      BY RevPlain
    <2>3. ReversePath(Dotted(u, v)) = Dotted(v, q)
      BY <2>2, RevLast
    <2>4. v \o (<<Dot>> \o q) = Dotted(v, q)
      BY <2>2, DotBetween
    <2> QED
      BY <2>1, <2>2, <2>3, <2>4, Zenon DEF Dotted
  <1> QED
    BY <1>2, <1>3 DEF Turned

\* After k positions: d is copied to g, v is the part that k is in, z is to come; of the
\* buffer, t is not written.
CopyParted(X, s, k, st, d, g, v, z, t) ==
  /\ d \in Seq(X) /\ g \in Seq(X) /\ v \in Seq(X) /\ z \in Seq(X) /\ t \in Seq(X)
  /\ s = Mid(d, v, z) /\ st = [src |-> s, dst |-> t \o g, a |-> Len(d) + 1]
  /\ Len(t) = Len(v) + Len(z) /\ k = Len(d) + Len(v) /\ NoDot(v) /\ Turned(X, d, g)
CopyInv(X, s, k, st) == \E d, g, v, z, t : CopyParted(X, s, k, st, d, g, v, z, t)

Divided(X, t, a, b) == \E p, q \in Seq(X) : t = p \o q /\ Len(p) = a /\ Len(q) = b

\* A sequence of a length that is a sum has two parts.
LEMMA TwoParts ==
  ASSUME NEW X, NEW t \in Seq(X), NEW a \in Nat, NEW b \in Nat, Len(t) = a + b
  PROVE  Divided(X, t, a, b)
  <1>1. PICK n : n = Len(t) /\ n \in Nat
    BY LenProperties
  <1>2. PICK p, q : p = [i \in 1 .. a |-> t[i]] /\ q = [i \in 1 .. b |-> t[a + i]]
    OBVIOUS
  <1>3. \A i \in 1 .. n : t[i] \in X
    BY <1>1, ElementOfSeq
  <1>4. p \in Seq(X) /\ Len(p) = a
    <2>1. p \in [1 .. a -> X]
      BY <1>1, <1>2, <1>3
    <2> QED
      BY <2>1, FunctionSeq
  <1>5. q \in Seq(X) /\ Len(q) = b
    <2>1. q \in [1 .. b -> X]
      BY <1>1, <1>2, <1>3
    <2> QED
      BY <2>1, FunctionSeq
  <1>6. PICK c : c = p \o q
    OBVIOUS
  <1>7. /\ c \in Seq(X) /\ Len(c) = Len(p) + Len(q)
        /\ \A i \in 1 .. Len(p) + Len(q) : c[i] = IF i <= Len(p) THEN p[i] ELSE q[i - Len(p)]
    <2>1. p \in Seq(X) /\ q \in Seq(X)
      BY <1>4, <1>5
    <2> QED
      BY <1>6, <2>1, ConcatProperties
  <1>8. ASSUME NEW i \in 1 .. n PROVE t[i] = c[i]
    <2>1. CASE i <= a
      <3>1. i \in 1 .. a /\ i \in 1 .. Len(p) + Len(q)
        BY <1>1, <1>4, <1>5, <2>1
      <3> QED
        BY <1>2, <1>4, <1>7, <2>1, <3>1
    <2>2. CASE ~(i <= a)
      <3>1. PICK j : j = i - a
        OBVIOUS
      <3>2. j \in 1 .. b /\ a + j = i /\ i \in 1 .. Len(p) + Len(q)
        BY <1>1, <1>4, <1>5, <2>2, <3>1
      <3> QED
        BY <1>2, <1>4, <1>7, <2>2, <3>1, <3>2
    <2> QED
      BY <2>1, <2>2
  <1>9. t = c
    BY <1>1, <1>4, <1>5, <1>7, <1>8, SeqEqual
  <1> QED
    BY <1>4, <1>5, <1>6, <1>9, Zenon DEF Divided

\* The part after a dot in the source is what is copied.
LEMMA PartTaken ==
  ASSUME NEW X, NEW d \in Seq(X), NEW v \in Seq(X), NEW z \in Seq(X)
  PROVE  SubSeq(Mid(d, v, z), Len(d) + 1, Len(d) + Len(v)) = v
  <1>1. PICK a, b, c, s : a = Len(d) /\ b = Len(v) /\ c = Len(z) /\ s = Mid(d, v, z)
    OBVIOUS
  <1>2. s \in Seq(X) /\ InParts(d, v, z, s)
    BY <1>1, MidFacts
  <1>3. /\ a \in Nat /\ b \in Nat /\ c \in Nat /\ Len(s) = a + b + c
        /\ \A i \in 1 .. b : s[a + i] = v[i]
    BY <1>1, <1>2, Zenon DEF InParts
  <1>4. PICK m, l : m = a + 1 /\ l = a + b
    OBVIOUS
  <1>5. m \in Nat \ {0} /\ l \in 0 .. Len(s)
    BY <1>3, <1>4
  <1>6. PICK h : h = SubSeq(s, m, l)
    OBVIOUS
  <1>7. /\ h \in Seq(X) /\ Len(h) = IF m <= l THEN l - m + 1 ELSE 0
        /\ \A i \in 1 .. l - m + 1 : h[i] = s[m + i - 1]
    BY <1>2, <1>5, <1>6, PartFacts
  <1>8. Len(h) = b
    BY <1>3, <1>4, <1>7
  <1>9. ASSUME NEW i \in 1 .. b PROVE h[i] = v[i]
    <2>1. i \in 1 .. l - m + 1 /\ m + i - 1 = a + i
      BY <1>3, <1>4
    <2> QED
      BY <1>3, <1>7, <2>1
  <1>10. h = v
    BY <1>1, <1>7, <1>8, <1>9, SeqEqual
  <1> QED
    BY <1>1, <1>4, <1>6, <1>10, Zenon

Assoc(p, q, r) == (p \o q) \o r = p \o (q \o r)

\* Concatenation is associative.
LEMMA ConcatAssoc ==
  ASSUME NEW X, NEW p \in Seq(X), NEW q \in Seq(X), NEW r \in Seq(X)
  PROVE  Assoc(p, q, r)
  <1>1. (p \o q) \o r = p \o (q \o r)
    BY ConcatAssociative, SMTT(30)
  <1> QED
    BY <1>1, Zenon DEF Assoc

Placed(X, h, a, c) == \E p \in Seq(X) : Len(p) = a /\ h = p \o (<<Dot>> \o c)

\* A dot copies the part before it, and itself, to the begin of what is written.
LEMMA DotCopied ==
  ASSUME NEW X, Dot \in X, NEW t \in Seq(X), NEW g \in Seq(X), NEW v \in Seq(X), NEW a \in Nat,
         Len(t) = Len(v) + (a + 1)
  PROVE  Placed(X, CopyTo(CopyTo(t \o g, (a + 1) + 1, v), a + 1, <<Dot>>), a, v \o g)
  <1>1. PICK l, o : l = Len(v) /\ l \in Nat /\ o = <<Dot>>
    BY LenProperties
  <1>2. PICK p, q \in Seq(X) : t = p \o q /\ Len(p) = a /\ Len(q) = 1 + l
    <2>1. PICK b : b = 1 + l /\ b \in Nat
      BY <1>1
    <2>2. Len(t) = a + b
      <3>1. Len(v) + (a + 1) = a + (1 + l)
        BY <1>1
      <3> QED
        BY <2>1, <3>1, Zenon
    <2>3. Divided(X, t, a, b)
      BY <2>1, <2>2, TwoParts
    <2> QED
      BY <2>1, <2>3, Zenon DEF Divided
  <1>3. PICK e, f \in Seq(X) : q = e \o f /\ Len(e) = 1 /\ Len(f) = l
    <2>1. q \in Seq(X) /\ 1 \in Nat /\ l \in Nat /\ Len(q) = 1 + l
      BY <1>1, <1>2
    <2>2. Divided(X, q, 1, l)
      BY <2>1, TwoParts
    <2> QED
      BY <2>2, Zenon DEF Divided
  <1>4. PICK h, c : h = p \o e /\ c = v \o g
    OBVIOUS
  <1>5. h \in Seq(X) /\ Len(h) = a + 1 /\ c \in Seq(X)
    BY <1>2, <1>3, <1>4, ConcatProperties
  <1>6. t \o g = Mid(h, f, g)
    <2>0. p \in Seq(X) /\ e \in Seq(X) /\ f \in Seq(X) /\ h \in Seq(X)
      BY <1>2, <1>3, <1>5
    <2>1. Assoc(p, e, f)
      BY <2>0, ConcatAssoc
    <2>2. Assoc(h, f, g)
      BY <2>0, ConcatAssoc
    <2> QED
      BY <1>2, <1>3, <1>4, <2>1, <2>2, Zenon DEF Mid, Assoc
  <1>7. CopyTo(Mid(h, f, g), Len(h) + 1, v) = Mid(h, v, g)
    BY <1>1, <1>3, <1>5, PartCopied
  <1>8. Mid(h, v, g) = Mid(p, e, c)
    <2>1. Assoc(p, e, c)
      <3>1. p \in Seq(X) /\ e \in Seq(X) /\ c \in Seq(X)
        BY <1>2, <1>3, <1>5
      <3> QED
        BY <3>1, ConcatAssoc
    <2> QED
      BY <1>4, <2>1, Zenon DEF Mid, Assoc
  <1>9. CopyTo(Mid(p, e, c), Len(p) + 1, o) = Mid(p, o, c)
    <2>1. o \in Seq(X) /\ Len(o) = Len(e)
      BY <1>1, <1>3
    <2> QED
      BY <1>2, <1>3, <1>5, <2>1, PartCopied
  <1>10. CopyTo(CopyTo(t \o g, (a + 1) + 1, v), a + 1, o) = p \o (o \o c)
    BY <1>2, <1>5, <1>6, <1>7, <1>8, <1>9, Zenon DEF Mid
  <1> QED
    BY <1>1, <1>2, <1>4, <1>10, Zenon DEF Placed

\* One position more.
LEMMA CopyKeep ==
  ASSUME NEW X, Dot \in X, NEW s \in Seq(X), NEW k \in Nat, k < Len(s), NEW st,
         CopyInv(X, s, k, st)
  PROVE  CopyInv(X, s, k + 1, CopyPart(st, k + 1))
  <1>1. PICK d, g, v, z, t : CopyParted(X, s, k, st, d, g, v, z, t)
    BY DEF CopyInv
  <1>2. /\ d \in Seq(X) /\ g \in Seq(X) /\ v \in Seq(X) /\ z \in Seq(X) /\ t \in Seq(X)
        /\ s = Mid(d, v, z) /\ st = [src |-> s, dst |-> t \o g, a |-> Len(d) + 1]
        /\ Len(t) = Len(v) + Len(z) /\ k = Len(d) + Len(v) /\ NoDot(v) /\ Turned(X, d, g)
    BY <1>1 DEF CopyParted
  <1>3. PICK x \in X, y \in Seq(X) :
          /\ z = <<x>> \o y
          /\ \A f \in Seq(X) : Len(f) = Len(d) => Mid(f, v, z)[Len(d) + Len(v) + 1] = x
    <2>1. Len(d) + Len(v) < Len(Mid(d, v, z))
      BY <1>2, Zenon
    <2>2. d \in Seq(X) /\ v \in Seq(X) /\ z \in Seq(X)
      BY <1>2
    <2>3. HasNext(X, d, v, z)
      BY <2>1, <2>2, NextOf
    <2> QED
      BY <2>3, Zenon DEF HasNext
  <1>4. s[k + 1] = x /\ st.src = s /\ st.dst = t \o g /\ st.a = Len(d) + 1
    <2>1. st.src = s /\ st.dst = t \o g /\ st.a = Len(d) + 1
      BY <1>2
    <2> QED
      BY <1>2, <1>3, <2>1, Zenon
  <1>5. PICK a : a = Len(y)
    OBVIOUS
  <1>6. Len(d) \in Nat /\ Len(v) \in Nat /\ a \in Nat /\ Len(z) = a + 1
    BY <1>2, <1>3, <1>5, LenProperties, ConsFacts
  <1>7. CASE x # Dot
    <2>1. CopyPart(st, k + 1) = st
      BY <1>4, <1>7, Zenon DEF CopyPart
    <2>2. PICK u : u = Append(v, x)
      OBVIOUS
    <2>3. u \in Seq(X) /\ Len(u) = Len(v) + 1 /\ NoDot(u)
      <3>1. v \in Seq(X) /\ NoDot(v) /\ x \in X
        BY <1>2, <1>3
      <3> QED
        BY <1>7, <2>2, <3>1, NoDotMore
    <2>4. Mid(d, v, z) = Mid(d, u, y)
      BY <1>2, <1>3, <2>2, MidMove
    <2>5. k + 1 = Len(d) + Len(u) /\ Len(t) = Len(u) + Len(y)
      BY <1>2, <1>5, <1>6, <2>3
    <2>6. CopyParted(X, s, k + 1, st, d, g, u, y, t)
      BY <1>2, <1>3, <2>3, <2>4, <2>5, Zenon DEF CopyParted
    <2> QED
      BY <2>1, <2>6, Zenon DEF CopyInv
  <1>8. CASE x = Dot
    <2>1. PICK b, h : /\ b = (k + 1) + 1
                      /\ h = CopyTo(CopyTo(t \o g, (a + 1) + 1, v), a + 1, <<Dot>>)
      OBVIOUS
    <2>2. CopyPart(st, k + 1) = [src |-> s, dst |-> h, a |-> b]
      <3>1. Len(s) - (k + 1) + 1 = a + 1
        <4>1. InParts(d, v, z, s)
          BY <1>2, MidFacts
        <4>2. Len(s) = Len(d) + Len(v) + Len(z)
          BY <4>1 DEF InParts
        <4> QED
          BY <1>2, <1>6, <4>2
      <3>2. SubSeq(s, Len(d) + 1, (k + 1) - 1) = v
        <4>1. SubSeq(Mid(d, v, z), Len(d) + 1, Len(d) + Len(v)) = v
          BY <1>2, PartTaken
        <4>2. (k + 1) - 1 = Len(d) + Len(v)
          BY <1>2, <1>6
        <4> QED
          BY <1>2, <4>1, <4>2, Zenon
      <3> QED
        BY <1>4, <1>8, <2>1, <3>1, <3>2, Zenon DEF CopyPart
    <2>3. PICK p \in Seq(X) : Len(p) = a /\ h = p \o (<<Dot>> \o (v \o g))
      <3>1. Len(t) = Len(v) + (a + 1)
        BY <1>2, <1>6, Zenon
      <3> QED
        <4>1. /\ t \in Seq(X) /\ g \in Seq(X) /\ v \in Seq(X) /\ a \in Nat
              /\ Len(t) = Len(v) + (a + 1)
          BY <1>2, <1>6, <3>1
        <4>2. Placed(X, CopyTo(CopyTo(t \o g, (a + 1) + 1, v), a + 1, <<Dot>>), a, v \o g)
          BY <4>1, DotCopied
        <4> QED
          BY <2>1, <4>2, Zenon DEF Placed
    <2>4. PICK e, c, D, G : /\ e = d \o v /\ c = v \o g /\ D = Append(e, Dot)
                            /\ G = <<Dot>> \o c
      OBVIOUS
    <2>5. e \in Seq(X) /\ c \in Seq(X) /\ Len(e) = Len(d) + Len(v)
      BY <1>2, <2>4, ConcatProperties
    <2>6. D \in Seq(X) /\ Len(D) = Len(e) + 1
      BY <2>4, <2>5, AppendProperties
    <2>7. G \in Seq(X)
      BY <2>4, <2>5, ConsFacts
    <2>8. ReversePath(e) = c
      <3>1. d \in Seq(X) /\ g \in Seq(X) /\ v \in Seq(X) /\ NoDot(v) /\ Turned(X, d, g)
        BY <1>2
      <3>2. ReversePath(d \o v) = v \o g
        BY <3>1, TurnedPart
      <3> QED
        BY <2>4, <3>2, Zenon
    <2>9. Turned(X, D, G)
      BY <2>4, <2>5, <2>8, Zenon DEF Turned
    <2>10. s = Mid(D, <<>>, y)
      <3>1. Mid(d, v, <<x>> \o y) = Mid(Append(d \o v, x), <<>>, y)
        BY <1>2, MidMove
      <3> QED
        BY <1>2, <1>3, <1>8, <2>4, <3>1, Zenon
    <2>11. PICK o : o = <<>>
      OBVIOUS
    <2>12. o \in Seq(X) /\ Len(o) = 0 /\ NoDot(o)
      BY <2>11 DEF NoDot
    <2>13. Len(p) = Len(o) + Len(y) /\ k + 1 = Len(D) + Len(o) /\ b = Len(D) + 1
      BY <1>2, <1>5, <1>6, <2>1, <2>3, <2>5, <2>6, <2>12
    <2>14. [src |-> s, dst |-> h, a |-> b] = [src |-> s, dst |-> p \o G, a |-> Len(D) + 1]
      BY <2>3, <2>4, <2>13, Zenon
    <2>15. CopyParted(X, s, k + 1, [src |-> s, dst |-> h, a |-> b], D, G, o, y, p)
      BY <1>3, <2>3, <2>6, <2>7, <2>9, <2>10, <2>11, <2>12, <2>13, <2>14, Zenon DEF CopyParted
    <2> QED
      BY <2>2, <2>15, Zenon DEF CopyInv
  <1> QED
    BY <1>7, <1>8

\* ReverseBytesTo puts the parts in the opposite order, whatever the buffer held.
LEMMA CopyExact ==
  ASSUME NEW X, Dot \in X, Stale \in X, NEW s \in Seq(X)
  PROVE  ReverseBytesTo(s) = ReversePath(s)
  <1>1. PICK n, r : n = Len(s) /\ CopyRun(s, r) /\ CopiedState(s) = r[n]
    BY CopiedRun
  <1>2. n \in Nat /\ DOMAIN s = 1 .. n
    BY <1>1, LenProperties
  <1>3. r[0] = CopyBase(s) /\ \A k \in 0 .. n - 1 : r[k + 1] = CopyPart(r[k], k + 1)
    BY <1>1, <1>2 DEF CopyRun
  <1> DEFINE K == {k \in Nat : CopyInv(X, s, k, r[k])}
  <1>4. 0 \in K
    <2>1. PICK o, t : o = <<>> /\ t = [i \in DOMAIN s |-> Stale]
      OBVIOUS
    <2>2. o \in Seq(X) /\ Len(o) = 0 /\ NoDot(o) /\ Len(o) + 1 = 1 /\ 0 = Len(o) + Len(o)
      BY <2>1 DEF NoDot
    <2>3. t \in Seq(X) /\ Len(t) = n
      <3>1. t \in [1 .. n -> X]
        BY <1>2, <2>1
      <3> QED
        BY <1>2, <3>1, FunctionSeq
    <2>4. Mid(o, o, s) = s
      <3>1. <<>> \o s = s
        BY ConcatEmptySeq
      <3> QED
        BY <2>1, <3>1, Zenon DEF Mid
    <2>5. t \o o = t
      <3>1. t \o <<>> = t
        BY <2>3, ConcatEmptySeq
      <3> QED
        BY <2>1, <3>1, Zenon
    <2>6. Turned(X, o, o)
      BY <2>1 DEF Turned
    <2>7. r[0] = [src |-> s, dst |-> t \o o, a |-> Len(o) + 1]
      BY <1>3, <2>1, <2>2, <2>5, Zenon DEF CopyBase
    <2>8. Len(t) = Len(o) + Len(s)
      BY <1>1, <1>2, <2>2, <2>3
    <2>9. CopyParted(X, s, 0, r[0], o, o, o, s, t)
      BY <2>2, <2>3, <2>4, <2>6, <2>7, <2>8, Zenon DEF CopyParted
    <2>10. CopyInv(X, s, 0, r[0])
      BY <2>9, Zenon DEF CopyInv
    <2> QED
      BY <2>10
  <1>5. ASSUME NEW k \in 0 .. n - 1, k \in K PROVE k + 1 \in K
    <2>1. k \in Nat /\ k < Len(s) /\ k + 1 \in Nat
      BY <1>1, <1>2
    <2>2. CopyInv(X, s, k + 1, CopyPart(r[k], k + 1))
      BY <1>5, <2>1, CopyKeep
    <2> QED
      BY <1>3, <2>1, <2>2
  <1> HIDE DEF K
  <1>6. n \in K
    <2>1. \A k \in 0 .. n : k \in K
      BY <1>2, <1>4, <1>5, UpInduction
    <2> QED
      BY <1>2, <2>1
  <1>7. PICK d, g, v, z, t : CopyParted(X, s, n, r[n], d, g, v, z, t)
    BY <1>6 DEF K, CopyInv
  <1>8. /\ d \in Seq(X) /\ g \in Seq(X) /\ v \in Seq(X) /\ z \in Seq(X) /\ t \in Seq(X)
        /\ s = Mid(d, v, z) /\ r[n] = [src |-> s, dst |-> t \o g, a |-> Len(d) + 1]
        /\ Len(t) = Len(v) + Len(z) /\ n = Len(d) + Len(v) /\ NoDot(v) /\ Turned(X, d, g)
    BY <1>7 DEF CopyParted
  <1>9. z = <<>> /\ Len(d) \in Nat /\ Len(v) \in Nat /\ Len(t) = Len(v)
    <2>1. InParts(d, v, z, Mid(d, v, z))
      BY <1>8, MidFacts
    <2>2. /\ Len(d) \in Nat /\ Len(v) \in Nat /\ Len(z) \in Nat
          /\ Len(s) = Len(d) + Len(v) + Len(z)
      BY <1>8, <2>1, Zenon DEF InParts
    <2>3. Len(z) = 0
      BY <1>1, <1>8, <2>2
    <2>4. z = <<>>
      BY <1>8, <2>3, EmptySeq
    <2> QED
      BY <1>8, <2>2, <2>3, <2>4
  <1>10. s = d \o v
    <2>1. v \o <<>> = v
      BY <1>8, ConcatEmptySeq
    <2> QED
      BY <1>8, <1>9, <2>1, Zenon DEF Mid
  <1>11. ReversePath(s) = v \o g
    <2>1. d \in Seq(X) /\ g \in Seq(X) /\ v \in Seq(X) /\ NoDot(v) /\ Turned(X, d, g)
      BY <1>8
    <2>2. ReversePath(d \o v) = v \o g
      BY <2>1, TurnedPart
    <2> QED
      BY <1>10, <2>2, Zenon
  <1>12. CopyTo(t \o g, 1, v) = v \o g
    <2>1. PICK o : o = <<>> /\ o \in Seq(X) /\ Len(o) + 1 = 1
      <3>1. PICK o : o = <<>>
        OBVIOUS
      <3>2. o \in Seq(X) /\ Len(o) + 1 = 1
        BY <3>1
      <3> QED
        BY <3>1, <3>2
    <2>2. CopyTo(Mid(o, t, g), Len(o) + 1, v) = Mid(o, v, g)
      <3>1. /\ o \in Seq(X) /\ t \in Seq(X) /\ g \in Seq(X) /\ v \in Seq(X)
            /\ Len(v) = Len(t)
        BY <1>8, <1>9, <2>1
      <3> QED
        BY <3>1, PartCopied
    <2>3. t \o g \in Seq(X) /\ v \o g \in Seq(X)
      BY <1>8, ConcatProperties
    <2>4. <<>> \o (t \o g) = t \o g /\ <<>> \o (v \o g) = v \o g
      BY <2>3, ConcatEmptySeq
    <2> QED
      BY <2>1, <2>2, <2>4, Zenon DEF Mid
  <1>13. SubSeq(s, Len(d) + 1, n) = v
    <2>1. SubSeq(Mid(d, v, z), Len(d) + 1, Len(d) + Len(v)) = v
      BY <1>8, PartTaken
    <2> QED
      BY <1>8, <2>1, Zenon
  <1>14. Len(d) + 1 = 1 => s = v
    <2>1. ASSUME Len(d) + 1 = 1 PROVE s = v
      <3>1. d = <<>>
        BY <1>8, <1>9, <2>1, EmptySeq
      <3>2. <<>> \o v = v
        BY <1>8, ConcatEmptySeq
      <3> QED
        BY <1>10, <3>1, <3>2, Zenon
    <2> QED
      BY <2>1
  <1>15. r[n].dst = t \o g /\ r[n].a = Len(d) + 1
    BY <1>8
  <1>16. ReverseBytesTo(s) = IF r[n].a = 1 THEN CopyTo(r[n].dst, 1, s)
                             ELSE CopyTo(r[n].dst, 1, SubSeq(s, r[n].a, n))
    BY <1>1, Zenon DEF ReverseBytesTo, CopiedState, CopyBase
  <1> QED
    BY <1>11, <1>12, <1>13, <1>14, <1>15, <1>16, Zenon

-----------------------------------------------------------------------------
(***************************************************************************)
(* The blacklist.                                                          *)
(***************************************************************************)
\* A pattern of the blacklist, as its parts, and a path of as many parts.
Matches(p, path) == \A i \in DOMAIN path : p[i] \in {path[i], Wild}
\* It begins with the node, and matches after it.
Under(p, node, path) ==
  /\ node = SubSeq(p, 1, Len(node))
  /\ \A i \in Len(node) + 1 .. Len(path) : p[i] \in {path[i], Wild}
SomeUnder(S, node, path) == \E p \in S : Under(p, node, path)
InTree(tree, path, f, node) ==
  \/ Len(node) = Len(path)
  \/ \E n \in Turns(tree, path, node) : f[n]

\* containsInner is the recursive function of its definition, at the root.
LEMMA TreeIs ==
  ASSUME NEW tree, NEW path
  PROVE  containsInner(tree, path) =
           (CHOOSE f : f = [node \in tree |-> InTree(tree, path, f, node)])[<<>>]
  BY DEF containsInner, InTree

\* A beginning that is one element longer.
LEMMA LongerPrefix ==
  ASSUME NEW Y, NEW p \in Seq(Y), NEW k \in Nat, k < Len(p)
  PROVE  /\ SubSeq(p, 1, k + 1) = Append(SubSeq(p, 1, k), p[k + 1])
         /\ SubSeq(p, 1, k) \in Seq(Y) /\ Len(SubSeq(p, 1, k)) = k /\ p[k + 1] \in Y
  <1>1. PICK n, m : n = Len(p) /\ m = k + 1
    OBVIOUS
  <1>2. n \in Nat /\ m \in 1 .. Len(p) /\ 1 \in 1 .. Len(p) /\ m \in 1 .. m /\ k \in 0 .. Len(p)
        /\ 1 \in Nat \ {0}
    BY <1>1, LenProperties
  <1>3. PICK b : b = SubSeq(p, 1, k)
    OBVIOUS
  <1>4. b \in Seq(Y) /\ Len(b) = k
    <2>1. SubSeq(p, 1, k) \in Seq(Y) /\ Len(SubSeq(p, 1, k)) = IF 1 <= k THEN k - 1 + 1 ELSE 0
      BY <1>2, PartFacts
    <2> QED
      BY <1>3, <2>1
  <1>5. p[m] \in Y
    BY <1>2, ElementOfSeq
  <1>6. SubSeq(p, 1, m) = SubSeq(p, 1, m - 1) \o <<p[m]>>
    <2>1. m \in 1 .. Len(p) /\ 1 \in 1 .. Len(p) /\ m \in 1 .. Len(p)
      BY <1>2
    <2> QED
      BY <2>1, SubSeqRecursiveSecond
  <1>7. m - 1 = k
    BY <1>1
  <1>8. Append(b, p[m]) = b \o <<p[m]>>
    BY <1>4, <1>5, AppendIsConcat
  <1> QED
    BY <1>1, <1>3, <1>4, <1>5, <1>6, <1>7, <1>8, Zenon

\* The nodes of a tree.
LEMMA NodeFacts ==
  ASSUME NEW Y, NEW S \in SUBSET Seq(Y), NEW N \in Nat, \A p \in S : Len(p) = N
  PROVE  /\ \A p \in S : \A l \in 0 .. N : SubSeq(p, 1, l) \in Prefixed(S)
         /\ \A node \in Prefixed(S) : /\ node \in Seq(Y) /\ Len(node) \in 0 .. N
                                      /\ \E p \in S : node = SubSeq(p, 1, Len(node))
  <1>1. ASSUME NEW p \in S, NEW l \in 0 .. N PROVE SubSeq(p, 1, l) \in Prefixed(S)
    <2>1. Len(p) = N
      BY <1>1
    <2> QED
      BY <1>1, <2>1 DEF Prefixed
  <1>2. ASSUME NEW node \in Prefixed(S)
        PROVE  /\ node \in Seq(Y) /\ Len(node) \in 0 .. N
               /\ \E p \in S : node = SubSeq(p, 1, Len(node))
    <2>1. PICK p \in S : \E l \in 0 .. Len(p) : node = SubSeq(p, 1, l)
      BY <1>2 DEF Prefixed
    <2>2. PICK l \in 0 .. Len(p) : node = SubSeq(p, 1, l)
      BY <2>1
    <2>3. p \in Seq(Y) /\ Len(p) = N /\ l \in 0 .. N
      <3>1. Len(p) = N
        BY <2>1
      <3> QED
        BY <2>1, <2>2, <3>1
    <2>4. node \in Seq(Y) /\ Len(node) = l
      <3>1. 1 \in Nat \ {0} /\ l \in 0 .. Len(p) /\ p \in Seq(Y) /\ l \in Nat
        BY <2>2, <2>3
      <3>2. SubSeq(p, 1, l) \in Seq(Y) /\ Len(SubSeq(p, 1, l)) = IF 1 <= l THEN l - 1 + 1 ELSE 0
        BY <3>1, PartFacts
      <3> QED
        BY <2>2, <3>1, <3>2
    <2> QED
      BY <2>2, <2>3, <2>4
  <1> QED
    BY <1>1, <1>2

\* What is found under a node, by what is found under the nodes after it.
LEMMA NodeStep ==
  ASSUME NEW Y, Wild \in Y, NEW S \in SUBSET Seq(Y), NEW path \in Seq(Y),
         \A p \in S : Len(p) = Len(path), NEW f, NEW node \in Prefixed(S),
         \A n \in Prefixed(S) : Len(n) = Len(node) + 1 => (f[n] <=> SomeUnder(S, n, path))
  PROVE  InTree(Prefixed(S), path, f, node) <=> SomeUnder(S, node, path)
  <1>1. PICK N, k, T : N = Len(path) /\ k = Len(node) /\ T = Prefixed(S)
    OBVIOUS
  <1>2. N \in Nat /\ \A p \in S : p \in Seq(Y) /\ Len(p) = N
    BY <1>1, LenProperties
  <1>3. /\ \A p \in S : \A l \in 0 .. N : SubSeq(p, 1, l) \in T
        /\ node \in Seq(Y) /\ k \in 0 .. N /\ \E p \in S : node = SubSeq(p, 1, k)
    BY <1>1, <1>2, NodeFacts
  <1>4. CASE k = N
    <2>1. PICK p \in S : node = SubSeq(p, 1, k)
      BY <1>3
    <2>2. Under(p, node, path)
      BY <1>1, <1>2, <1>4, <2>1 DEF Under
    <2>3. SomeUnder(S, node, path)
      BY <2>1, <2>2 DEF SomeUnder
    <2>4. InTree(T, path, f, node)
      BY <1>1, <1>4 DEF InTree
    <2> QED
      BY <1>1, <2>3, <2>4
  <1>5. CASE k # N
    <2>0. k \in Nat /\ k < N /\ k + 1 \in 1 .. N /\ k + 1 \in Nat /\ k + 1 \in 0 .. N
      BY <1>2, <1>3, <1>5
    <2>1. path[k + 1] \in Y
      BY <1>1, <2>0, ElementOfSeq
    <2>2. ASSUME InTree(T, path, f, node) PROVE SomeUnder(S, node, path)
      <3>1. PICK n \in Turns(T, path, node) : f[n]
        BY <1>1, <1>5, <2>2 DEF InTree
      <3>2. PICK x \in {path[k + 1], Wild} : n = Append(node, x) /\ n \in T
        BY <1>1, <3>1 DEF Turns
      <3>3. x \in Y
        BY <2>1, <3>2
      <3>4. Len(n) = k + 1
        BY <1>1, <1>3, <3>2, <3>3, AppendProperties
      <3>5. SomeUnder(S, n, path)
        BY <1>1, <3>1, <3>2, <3>4
      <3>6. PICK p \in S : Under(p, n, path)
        BY <3>5 DEF SomeUnder
      <3>7. /\ n = SubSeq(p, 1, k + 1)
            /\ \A i \in (k + 1) + 1 .. N : p[i] \in {path[i], Wild}
        BY <1>1, <3>4, <3>6, Zenon DEF Under
      <3>8. PICK b : b = SubSeq(p, 1, k)
        OBVIOUS
      <3>9. SubSeq(p, 1, k + 1) = Append(b, p[k + 1]) /\ b \in Seq(Y) /\ Len(b) = k
              /\ p[k + 1] \in Y
        <4>1. p \in Seq(Y) /\ k < Len(p)
          BY <1>2, <2>0, <3>6
        <4> QED
          BY <2>0, <3>8, <4>1, LongerPrefix
      <3>10. node = b /\ x = p[k + 1]
        <4>1. Append(node, x) = Append(b, p[k + 1])
          BY <3>2, <3>7, <3>9, Zenon
        <4>2. PICK y : y = p[k + 1]
          OBVIOUS
        <4>3. node \in Seq(Y) /\ b \in Seq(Y) /\ x \in Y /\ y \in Y
                /\ Append(node, x) = Append(b, y)
          BY <1>3, <3>3, <3>9, <4>1, <4>2
        <4> QED
          BY <4>2, <4>3, AppendInjective
      <3>11. \A i \in k + 1 .. N : p[i] \in {path[i], Wild}
        <4>1. \A i \in k + 1 .. N : i = k + 1 \/ i \in (k + 1) + 1 .. N
          BY <2>0
        <4> QED
          BY <3>2, <3>7, <3>10, <4>1, Zenon
      <3>12. Under(p, node, path)
        BY <1>1, <3>8, <3>10, <3>11, Zenon DEF Under
      <3> QED
        BY <3>6, <3>12 DEF SomeUnder
    <2>3. ASSUME SomeUnder(S, node, path) PROVE InTree(T, path, f, node)
      <3>1. PICK p \in S : Under(p, node, path)
        BY <2>3 DEF SomeUnder
      <3>2. node = SubSeq(p, 1, k) /\ \A i \in k + 1 .. N : p[i] \in {path[i], Wild}
        BY <1>1, <3>1, Zenon DEF Under
      <3>3. /\ SubSeq(p, 1, k + 1) = Append(node, p[k + 1]) /\ p[k + 1] \in Y
        <4>1. p \in Seq(Y) /\ k < Len(p)
          BY <1>2, <2>0, <3>1
        <4> QED
          BY <2>0, <3>2, <4>1, LongerPrefix
      <3>4. PICK n : n = SubSeq(p, 1, k + 1)
        OBVIOUS
      <3>5. n \in T
        BY <1>3, <2>0, <3>1, <3>4
      <3>6. Len(n) = k + 1
        BY <1>1, <1>3, <3>3, <3>4, AppendProperties
      <3>7. p[k + 1] \in {path[k + 1], Wild}
        <4>1. k + 1 \in k + 1 .. N
          BY <2>0
        <4> QED
          BY <3>2, <4>1
      <3>8. \A i \in (k + 1) + 1 .. N : i \in k + 1 .. N
        BY <2>0
      <3>9. Under(p, n, path)
        BY <1>1, <3>2, <3>4, <3>6, <3>8, Zenon DEF Under
      <3>10. f[n]
        <4>1. SomeUnder(S, n, path)
          BY <3>1, <3>9 DEF SomeUnder
        <4> QED
          BY <1>1, <3>5, <3>6, <4>1
      <3>11. n \in Turns(T, path, node)
        BY <1>1, <3>3, <3>4, <3>5, <3>7, Zenon DEF Turns
      <3> QED
        BY <3>10, <3>11, Zenon DEF InTree
    <2> QED
      BY <1>1, <2>2, <2>3
  <1> QED
    BY <1>4, <1>5

\* Contains finds a path exactly when one of the patterns matches it.
LEMMA TreeExact ==
  ASSUME NEW Y, Wild \in Y, NEW S \in SUBSET Seq(Y), S # {}, NEW path \in Seq(Y),
         \A p \in S : Len(p) = Len(path)
  PROVE  containsInner(Prefixed(S), path) <=> \E p \in S : Matches(p, path)
  <1>1. PICK N, T : N = Len(path) /\ T = Prefixed(S)
    OBVIOUS
  <1>2. N \in Nat /\ DOMAIN path = 1 .. N /\ \A p \in S : p \in Seq(Y) /\ Len(p) = N
    BY <1>1, LenProperties
  <1>3. /\ \A p \in S : \A l \in 0 .. N : SubSeq(p, 1, l) \in T
        /\ \A node \in T : node \in Seq(Y) /\ Len(node) \in 0 .. N
    BY <1>1, <1>2, NodeFacts
  <1>4. PICK h : h = [node \in T |-> SomeUnder(S, node, path)]
    OBVIOUS
  <1>5. ASSUME NEW node \in T PROVE InTree(T, path, h, node) = h[node]
    <2>1. \A n \in T : h[n] = SomeUnder(S, n, path)
      BY <1>4
    <2>2. \A n \in T : Len(n) = Len(node) + 1 => (h[n] <=> SomeUnder(S, n, path))
      BY <2>1, Zenon
    <2>3. InTree(T, path, h, node) <=> SomeUnder(S, node, path)
      BY <1>1, <1>5, <2>2, NodeStep
    <2>4. h[node] = SomeUnder(S, node, path)
      BY <1>5, <2>1, Zenon
    <2> QED
      BY <2>3, <2>4 DEF InTree, SomeUnder
  <1>6. h = [node \in T |-> InTree(T, path, h, node)]
    BY <1>4, <1>5
  <1>7. PICK g : g = CHOOSE f : f = [node \in T |-> InTree(T, path, f, node)]
    OBVIOUS
  <1>8. g = [node \in T |-> InTree(T, path, g, node)]
    BY <1>6, <1>7, Zenon
  <1>9. \A node \in T : g[node] <=> InTree(T, path, g, node)
    BY <1>8
  <1> DEFINE K == {j \in Nat : \A node \in T : Len(node) + j =
          N => (g[node] <=> SomeUnder(S, node, path))}
  <1>10. 0 \in K
    <2>1. ASSUME NEW node \in T, Len(node) + 0 = N PROVE g[node] <=> SomeUnder(S, node, path)
      <3>1. \A n \in T : ~(Len(n) = Len(node) + 1)
        BY <1>2, <1>3, <2>1
      <3>2. InTree(T, path, g, node) <=> SomeUnder(S, node, path)
        BY <1>1, <2>1, <3>1, NodeStep
      <3> QED
        BY <1>9, <2>1, <3>2
    <2> QED
      BY <2>1
  <1>11. ASSUME NEW j \in 0 .. N - 1, j \in K PROVE j + 1 \in K
    <2>1. ASSUME NEW node \in T, Len(node) + (j + 1) = N
          PROVE  g[node] <=> SomeUnder(S, node, path)
      <3>1. \A n \in T : Len(n) = Len(node) + 1 => (g[n] <=> SomeUnder(S, n, path))
        <4>1. \A n \in T : Len(n) = Len(node) + 1 => Len(n) + j = N
          BY <1>2, <1>3, <2>1
        <4>2. \A n \in T : Len(n) + j = N => (g[n] <=> SomeUnder(S, n, path))
          BY <1>11, Zenon
        <4> QED
          BY <4>1, <4>2, Zenon
      <3>2. InTree(T, path, g, node) <=> SomeUnder(S, node, path)
        BY <1>1, <2>1, <3>1, NodeStep
      <3> QED
        BY <1>9, <2>1, <3>2
    <2> QED
      BY <1>2, <2>1
  <1> HIDE DEF K
  <1>12. N \in K
    <2>1. \A j \in 0 .. N : j \in K
      BY <1>2, <1>10, <1>11, UpInduction
    <2> QED
      BY <1>2, <2>1
  <1>13. PICK o : o = <<>>
    OBVIOUS
  <1>14. Len(o) = 0 /\ Len(o) + N = N /\ Len(o) + 1 = 1
    BY <1>2, <1>13
  <1>15. \A p \in S : SubSeq(p, 1, 0) = o
    <2>1. ASSUME NEW p \in S PROVE SubSeq(p, 1, 0) = <<>>
      <3>1. 1 \in Int /\ 0 \in Int /\ 0 < 1
        OBVIOUS
      <3> QED
        BY <3>1, SubSeqEmpty
    <2> QED
      BY <1>13, <2>1, Zenon
  <1>16. o \in T
    <2>1. PICK p : p \in S
      OBVIOUS
    <2>2. 0 \in 0 .. N
      BY <1>2
    <2> QED
      BY <1>3, <1>15, <2>1, <2>2, Zenon
  <1>17. g[o] <=> SomeUnder(S, o, path)
    BY <1>12, <1>14, <1>16 DEF K
  <1>18. \A p \in S : Under(p, o, path) <=> Matches(p, path)
    BY <1>1, <1>2, <1>14, <1>15, Zenon DEF Under, Matches
  <1>19. containsInner(T, path) = g[o]
    BY <1>7, <1>13, TreeIs, Zenon
  <1> QED
    BY <1>1, <1>17, <1>18, <1>19 DEF SomeUnder

\* The reverses of patterns match the reverse of a path.
LEMMA MatchesReversed ==
  ASSUME NEW Y, NEW p \in Seq(Y), NEW path \in Seq(Y), Len(p) = Len(path)
  PROVE  Matches(Reverse(p), Reverse(path)) <=> Matches(p, path)
  <1>1. PICK N, a, b : N = Len(path) /\ a = Reverse(p) /\ b = Reverse(path)
    OBVIOUS
  <1>2. /\ N \in Nat /\ DOMAIN path = 1 .. N /\ b \in Seq(Y) /\ Len(b) = N
        /\ \A i \in 1 .. N : b[i] = path[N - i + 1]
    BY <1>1, ReverseFacts, LenProperties
  <1>3. \A i \in 1 .. N : a[i] = p[N - i + 1]
    <2>1. Len(p) = N
      BY <1>1
    <2>2. \A i \in 1 .. Len(p) : a[i] = p[Len(p) - i + 1]
      BY <1>1, ReverseFacts
    <2> QED
      BY <2>1, <2>2, Zenon
  <1>4. DOMAIN b = 1 .. N
    BY <1>2, LenProperties
  <1>5. ASSUME Matches(a, b) PROVE Matches(p, path)
    <2>1. ASSUME NEW i \in 1 .. N PROVE p[i] \in {path[i], Wild}
      <3>1. PICK j : j = N - i + 1
        OBVIOUS
      <3>2. j \in 1 .. N /\ N - j + 1 = i
        BY <1>2, <3>1
      <3>3. a[j] = p[i] /\ b[j] = path[i]
        BY <1>2, <1>3, <3>2
      <3> QED
        BY <1>4, <1>5, <3>2, <3>3, Zenon DEF Matches
    <2> QED
      BY <1>2, <2>1 DEF Matches
  <1>6. ASSUME Matches(p, path) PROVE Matches(a, b)
    <2>1. ASSUME NEW i \in 1 .. N PROVE a[i] \in {b[i], Wild}
      <3>1. PICK j : j = N - i + 1
        OBVIOUS
      <3>2. j \in 1 .. N
        BY <1>2, <3>1
      <3>3. a[i] = p[j] /\ b[i] = path[j]
        BY <1>2, <1>3, <3>1
      <3> QED
        BY <1>2, <1>6, <3>2, <3>3, Zenon DEF Matches
    <2> QED
      BY <1>4, <2>1 DEF Matches
  <1> QED
    BY <1>1, <1>5, <1>6, Zenon

PatternsAre(patterns) == {PathParts(p) : p \in patterns}
OfLength(paths, l) == {p \in paths : Len(p) = l}

\* The trees of the blacklist, by the number of parts.
LEMMA BlacklistIs ==
  ASSUME NEW patterns
  PROVE  /\ DOMAIN NewBlacklist(patterns) = {Len(p) : p \in PatternsAre(patterns)}
         /\ \A l \in {Len(p) : p \in PatternsAre(patterns)} :
              /\ NewBlacklist(patterns)[l].L2R = Prefixed(OfLength(PatternsAre(patterns), l))
              /\ NewBlacklist(patterns)[l].R2L =
                   Prefixed({Reverse(p) : p \in OfLength(PatternsAre(patterns), l)})
  <1>1. PICK P : P = PatternsAre(patterns)
    OBVIOUS
  <1>2. NewBlacklist(patterns) = [l \in {Len(p) : p \in P} |-> buildTrees(OfLength(P, l))]
    BY <1>1 DEF NewBlacklist, PatternsAre, PathParts, OfLength
  <1>3. \A l : /\ buildTrees(OfLength(P, l)).L2R = Prefixed(OfLength(P, l))
               /\ buildTrees(OfLength(P, l)).R2L = Prefixed({Reverse(p) : p \in OfLength(P, l)})
    BY DEF buildTrees
  <1> QED
    BY <1>1, <1>2, <1>3

\* A points table and a reverse points table leave out a name exactly when a pattern
\* matches it.
LEMMA BlacklistExact ==
  ASSUME NEW X, Dot \in X, Wild \in Seq(X), NEW patterns, patterns \subseteq Seq(X),
         NEW name \in Seq(X)
  PROVE  /\ BlacklistContains(NewBlacklist(patterns), name, FALSE) <=> Ignored(patterns, name)
         /\ BlacklistContains(NewBlacklist(patterns), ReversePath(name), TRUE)
              <=> Ignored(patterns, name)
  <1>1. PICK Y, P, list, path, l : /\ Y = Seq(X) /\ P = PatternsAre(patterns)
                                   /\ list = NewBlacklist(patterns)
                                   /\ path = PathParts(name) /\ l = Len(path)
    OBVIOUS
  <1>2. path \in Seq(Y) /\ l \in Nat /\ DOMAIN path = 1 .. l
    <2>1. path \in Seq(Y)
      BY <1>1, PathStep DEF PartStates
    <2> QED
      BY <1>1, <2>1, LenProperties
  <1>3. P \subseteq Seq(Y)
    <2>1. ASSUME NEW p \in patterns PROVE PathParts(p) \in Seq(Y)
      <3>1. p \in Seq(X)
        BY <2>1
      <3> QED
        BY <1>1, <3>1, PathStep DEF PartStates
    <2> QED
      BY <1>1, <2>1 DEF PatternsAre
  <1>4. PICK S, R : S = OfLength(P, l) /\ R = {Reverse(p) : p \in S}
    OBVIOUS
  <1>5. S \in SUBSET Seq(Y) /\ \A p \in S : Len(p) = l
    BY <1>3, <1>4 DEF OfLength
  <1>6. Ignored(patterns, name) <=> \E p \in S : Matches(p, path)
    <2>1. Ignored(patterns, name) <=>
            \E p \in patterns : Len(PathParts(p)) = l /\ Matches(PathParts(p), path)
      BY <1>1, Zenon DEF Ignored, PathParts, Matches
    <2>2. \A q : q \in S <=> q \in P /\ Len(q) = l
      BY <1>4 DEF OfLength
    <2>3. \A q : q \in P <=> \E p \in patterns : q = PathParts(p)
      BY <1>1 DEF PatternsAre
    <2> QED
      BY <2>1, <2>2, <2>3, Zenon
  <1>7. l \in DOMAIN list <=> S # {}
    <2>1. \A q : q \in S <=> q \in P /\ Len(q) = l
      BY <1>4 DEF OfLength
    <2>2. l \in DOMAIN list <=> \E q \in P : Len(q) = l
      <3>1. DOMAIN list = {Len(p) : p \in P}
        BY <1>1, BlacklistIs, Zenon
      <3> QED
        BY <3>1
    <2> QED
      BY <2>1, <2>2
  <1>8. l \in DOMAIN list => list[l].L2R = Prefixed(S) /\ list[l].R2L = Prefixed(R)
    BY <1>1, <1>4, BlacklistIs, Zenon
  <1>9. BlacklistContains(list, name, FALSE) <=> Ignored(patterns, name)
    <2>1. BlacklistContains(list, name, FALSE) <=>
            l \in DOMAIN list /\ containsInner(list[l].L2R, path)
      BY <1>1, Zenon DEF BlacklistContains, PathParts
    <2>2. ASSUME S # {} PROVE containsInner(Prefixed(S), path) <=> \E p \in S : Matches(p, path)
      <3>1. Wild \in Y /\ path \in Seq(Y) /\ \A p \in S : Len(p) = Len(path)
        BY <1>1, <1>2, <1>5
      <3> QED
        BY <1>5, <2>2, <3>1, TreeExact
    <2> QED
      BY <1>6, <1>7, <1>8, <2>1, <2>2
  <1>10. BlacklistContains(list, ReversePath(name), TRUE) <=> Ignored(patterns, name)
    <2>1. PICK back : back = Reverse(path)
      OBVIOUS
    <2>2. back \in Seq(Y) /\ Len(back) = l
      BY <1>1, <1>2, <2>1, ReverseFacts
    <2>3. PathParts(ReversePath(name)) = back
      BY <1>1, <2>1, RevParts
    <2>4. BlacklistContains(list, ReversePath(name), TRUE) <=>
            l \in DOMAIN list /\ containsInner(list[l].R2L, back)
      BY <2>2, <2>3, Zenon DEF BlacklistContains, PathParts
    <2>5. R \in SUBSET Seq(Y) /\ \A p \in R : Len(p) = l
      <3>1. ASSUME NEW p \in S PROVE Reverse(p) \in Seq(Y) /\ Len(Reverse(p)) = l
        <4>1. p \in Seq(Y) /\ Len(p) = l
          BY <1>5
        <4> QED
          BY <4>1, ReverseFacts
      <3> QED
        BY <1>4, <3>1
    <2>6. ASSUME S # {} PROVE containsInner(Prefixed(R), back) <=> \E p \in R : Matches(p, back)
      <3>1. R # {}
        BY <1>4, <2>6
      <3>2. Wild \in Y /\ \A p \in R : Len(p) = Len(back)
        BY <1>1, <2>2, <2>5
      <3> QED
        BY <2>2, <2>5, <3>1, <3>2, TreeExact
    <2>7. (\E p \in R : Matches(p, back)) <=> \E p \in S : Matches(p, path)
      <3>1. ASSUME NEW p \in S PROVE Matches(Reverse(p), back) <=> Matches(p, path)
        <4>1. p \in Seq(Y) /\ Len(p) = Len(path)
          BY <1>1, <1>5
        <4> QED
          BY <1>2, <2>1, <4>1, MatchesReversed
      <3>2. \A q : q \in R <=> \E p \in S : q = Reverse(p)
        BY <1>4
      <3> QED
        BY <3>1, <3>2, Zenon
    <2> QED
      BY <1>6, <1>7, <1>8, <2>4, <2>6, <2>7
  <1> QED
    BY <1>1, <1>9, <1>10, Zenon

\* The reverses agree, and so do the two kinds of points tables.
LEMMA PathExact ==
  ASSUME NEW X, Dot \in X, Stale \in X, Wild \in Seq(X), NEW patterns,
         patterns \subseteq Seq(X), NEW name \in Seq(X)
  PROVE  PathsAgree(patterns, name)
  <1>1. /\ reverseMetricInplace(name) = ReversePath(name)
        /\ ReverseBytesTo(name) = ReversePath(name)
        /\ WriteReversePath(name) = ReversePath(name)
    BY InplaceExact, CopyExact, WriteExact
  <1>2. PICK tagged, list : tagged = (At(name, Question) # 0) /\ list = NewBlacklist(patterns)
    OBVIOUS
  <1>3. /\ BlacklistContains(list, name, FALSE) <=> Ignored(patterns, name)
        /\ BlacklistContains(list, ReversePath(name), TRUE) <=> Ignored(patterns, name)
    BY <1>2, BlacklistExact
  <1>4. parseAndFilter(list, name, FALSE) =
          IF ~tagged /\ Ignored(patterns, name) THEN {} ELSE {name}
    BY <1>2, <1>3, Zenon DEF parseAndFilter
  <1>5. parseAndFilter(list, name, TRUE) =
          IF ~tagged /\ Ignored(patterns, name) THEN {}
          ELSE {IF tagged THEN name ELSE ReversePath(name)}
    <2>1. CASE At(name, Question) # 0
      <3>1. parseAndFilter(list, name, TRUE) = {name}
        BY <2>1, Zenon DEF parseAndFilter
      <3> QED
        BY <1>2, <2>1, <3>1, Zenon
    <2>2. CASE ~(At(name, Question) # 0)
      <3>1. parseAndFilter(list, name, TRUE) =
              IF BlacklistContains(list, reverseMetricInplace(name), TRUE) THEN {}
              ELSE {reverseMetricInplace(name)}
        BY <2>2, Zenon DEF parseAndFilter
      <3> QED
        BY <1>1, <1>2, <1>3, <2>2, <3>1, Zenon
    <2> QED
      BY <2>1, <2>2
  <1> QED
    BY <1>1, <1>2, <1>4, <1>5, Zenon DEF PathsAgree

-----------------------------------------------------------------------------
(***************************************************************************)
(* Sequences of rows, none of them twice.                                  *)
(***************************************************************************)
\* A sequence without an element twice is as long as the set of its elements.
LEMMA SingleCount ==
  ASSUME NEW X, NEW s \in Seq(X), IsInjective(s)
  PROVE  Len(s) = Cardinality(ToSet(s))
  <1>1. PICK n, T : n = Len(s) /\ T = ToSet(s) /\ n \in Nat
    BY LenProperties
  <1>2. DOMAIN s = 1 .. n /\ s \in [1 .. n -> X] /\ T = {s[i] : i \in 1 .. n}
    BY <1>1, LenProperties DEF ToSet
  <1>3. s \in [1 .. n -> T]
    BY <1>2
  <1>4. s \in Injection(1 .. n, T)
    BY <1>2, <1>3 DEF Injection, IsInjective
  <1>5. s \in Surjection(1 .. n, T)
    BY <1>2, <1>3 DEF Surjection
  <1>6. ExistsBijection(1 .. n, T)
    BY <1>4, <1>5 DEF ExistsBijection, Bijection
  <1>7. Cardinality(T) = n
    BY <1>1, <1>6, FS_CountingElements
  <1> QED
    BY <1>1, <1>7

\* The elements of two sequences after each other.
LEMMA ConcatSet ==
  ASSUME NEW X, NEW s \in Seq(X), NEW t \in Seq(X)
  PROVE  s \o t \in Seq(X) /\ ToSet(s \o t) = ToSet(s) \cup ToSet(t)
  <1>1. PICK m, n, u : m = Len(s) /\ n = Len(t) /\ u = s \o t
    OBVIOUS
  <1>2. /\ m \in Nat /\ n \in Nat /\ u \in Seq(X) /\ Len(u) = m + n
        /\ \A i \in 1 .. m + n : u[i] = IF i <= m THEN s[i] ELSE t[i - m]
    BY <1>1, ConcatProperties, LenProperties
  <1>3. DOMAIN s = 1 .. m /\ DOMAIN t = 1 .. n /\ DOMAIN u = 1 .. m + n
    BY <1>1, <1>2, LenProperties
  <1>4. ASSUME NEW x \in ToSet(u) PROVE x \in ToSet(s) \cup ToSet(t)
    <2>1. PICK i \in 1 .. m + n : x = u[i]
      BY <1>3, <1>4 DEF ToSet
    <2>2. CASE i <= m
      <3>1. i \in 1 .. m /\ x = s[i]
        BY <1>2, <2>1, <2>2
      <3> QED
        BY <1>3, <3>1 DEF ToSet
    <2>3. CASE ~(i <= m)
      <3>1. i - m \in 1 .. n /\ x = t[i - m]
        BY <1>2, <2>1, <2>3
      <3> QED
        BY <1>3, <3>1 DEF ToSet
    <2> QED
      BY <2>2, <2>3
  <1>5. ASSUME NEW i \in 1 .. m PROVE s[i] \in ToSet(u)
    <2>1. i \in 1 .. m + n /\ u[i] = s[i]
      BY <1>2
    <2> QED
      BY <1>3, <2>1 DEF ToSet
  <1>6. ASSUME NEW j \in 1 .. n PROVE t[j] \in ToSet(u)
    <2>1. PICK k : k = m + j
      OBVIOUS
    <2>2. k \in 1 .. m + n /\ ~(k <= m) /\ k - m = j
      BY <1>2, <2>1
    <2>3. u[k] = t[j]
      BY <1>2, <2>2
    <2> QED
      BY <1>3, <2>2, <2>3 DEF ToSet
  <1>7. ToSet(s) \subseteq ToSet(u) /\ ToSet(t) \subseteq ToSet(u)
    BY <1>3, <1>5, <1>6, Zenon DEF ToSet
  <1> QED
    BY <1>1, <1>2, <1>4, <1>7, Zenon

\* Two of them without a common one.
LEMMA ConcatSingle ==
  ASSUME NEW X, NEW s \in Seq(X), NEW t \in Seq(X), IsInjective(s), IsInjective(t),
         ToSet(s) \cap ToSet(t) = {}
  PROVE  IsInjective(s \o t)
  <1>1. PICK m, n, u : m = Len(s) /\ n = Len(t) /\ u = s \o t
    OBVIOUS
  <1>2. /\ m \in Nat /\ n \in Nat /\ u \in Seq(X) /\ Len(u) = m + n
        /\ \A i \in 1 .. m + n : u[i] = IF i <= m THEN s[i] ELSE t[i - m]
    BY <1>1, ConcatProperties, LenProperties
  <1>3. DOMAIN s = 1 .. m /\ DOMAIN t = 1 .. n /\ DOMAIN u = 1 .. m + n
    BY <1>1, <1>2, LenProperties
  <1>4. \A i \in 1 .. m : \A j \in 1 .. n : s[i] # t[j]
    BY <1>3, Zenon DEF ToSet
  <1>5. /\ \A i, j \in 1 .. m : s[i] = s[j] => i = j
        /\ \A i, j \in 1 .. n : t[i] = t[j] => i = j
    BY <1>3 DEF IsInjective
  <1>6. ASSUME NEW i \in 1 .. m + n, NEW j \in 1 .. m + n, u[i] = u[j] PROVE i = j
    <2>1. u[i] = IF i <= m THEN s[i] ELSE t[i - m]
      BY <1>2
    <2>2. u[j] = IF j <= m THEN s[j] ELSE t[j - m]
      BY <1>2
    <2>3. CASE i <= m /\ j <= m
      <3>1. i \in 1 .. m /\ j \in 1 .. m
        BY <1>2, <2>3
      <3>2. s[i] = s[j]
        BY <1>6, <2>1, <2>2, <2>3, Zenon
      <3> QED
        BY <1>5, <3>1, <3>2
    <2>4. CASE i <= m /\ ~(j <= m)
      <3>1. i \in 1 .. m /\ j - m \in 1 .. n
        BY <1>2, <2>4
      <3> QED
        BY <1>4, <1>6, <2>1, <2>2, <2>4, <3>1
    <2>5. CASE ~(i <= m) /\ j <= m
      <3>1. j \in 1 .. m /\ i - m \in 1 .. n
        BY <1>2, <2>5
      <3> QED
        BY <1>4, <1>6, <2>1, <2>2, <2>5, <3>1
    <2>6. CASE ~(i <= m) /\ ~(j <= m)
      <3>1. i - m \in 1 .. n /\ j - m \in 1 .. n
        BY <1>2, <2>6
      <3>2. t[i - m] = t[j - m]
        BY <1>6, <2>1, <2>2, <2>6, Zenon
      <3>3. i - m = j - m
        BY <1>5, <3>1, <3>2
      <3> QED
        BY <1>2, <3>3
    <2> QED
      BY <2>3, <2>4, <2>5, <2>6
  <1> QED
    BY <1>1, <1>3, <1>6, Zenon DEF IsInjective

\* One element more.
LEMMA AppendSingle ==
  ASSUME NEW X, NEW s \in Seq(X), NEW x \in X
  PROVE  /\ Append(s, x) \in Seq(X) /\ ToSet(Append(s, x)) = ToSet(s) \cup {x}
         /\ IsInjective(s) /\ x \notin ToSet(s) => IsInjective(Append(s, x))
  <1>1. PICK u : u = <<x>>
    OBVIOUS
  <1>2. u \in Seq(X) /\ ToSet(u) = {x} /\ IsInjective(u)
    BY <1>1 DEF ToSet, IsInjective
  <1>3. Append(s, x) = s \o u
    BY <1>1, AppendIsConcat
  <1>4. s \o u \in Seq(X) /\ ToSet(s \o u) = ToSet(s) \cup {x}
    BY <1>2, ConcatSet
  <1>5. ASSUME IsInjective(s), x \notin ToSet(s) PROVE IsInjective(s \o u)
    <2>1. ToSet(s) \cap ToSet(u) = {}
      BY <1>2, <1>5
    <2> QED
      BY <1>2, <1>5, <2>1, ConcatSingle
  <1> QED
    BY <1>3, <1>4, <1>5

-----------------------------------------------------------------------------
(***************************************************************************)
(* The lengths of a name, and its parents.                                 *)
(***************************************************************************)
LenStep(a, x) == a + x.len
SizeStep(a, q) == a + RowSize(PathLength(q) + 1)
Lens  == INSTANCE Folding WITH Step <- LenStep
Sizes == INSTANCE Folding WITH Step <- SizeStep

\* The names of an index: parts of any length.
NamePart(I) == [id : I, len : Nat]
NamesOf(I) == Seq(NamePart(I)) \ {<<>>}

\* The lengths of a name are a sum over its parts, and those of its rows over its parents.
LEMMA LengthIs ==
  ASSUME NEW p
  PROVE  PathLength(p) = Lens!Value(0, p) + Len(p) - 1
  BY DEF PathLength, Sum, LenStep, Lens!Value, Lens!Iter, FoldLeft, MapThenFoldSet, Max, Lens!Max

LEMMA NeededIs ==
  ASSUME NEW p
  PROVE  RowsNeeded(p) = 4 * RowSize(PathLength(p)) + Sizes!Value(0, Parents(p))
  BY DEF RowsNeeded, Sum, SizeStep, Sizes!Value, Sizes!Iter, FoldLeft, MapThenFoldSet, Max,
         Sizes!Max

\* The size of a row is 11 to 13 bytes more than the length of its name.
LEMMA SizeOfRow ==
  ASSUME NEW len \in Nat
  PROVE  RowSize(len) \in Nat /\ len + 11 <= RowSize(len)
  BY DEF RowSize, Uvarint

LEMMA LengthTyped ==
  ASSUME NEW I, NEW p \in NamesOf(I)
  PROVE  PathLength(p) \in Nat
  <1>1. p \in Seq(NamePart(I)) /\ p # <<>>
    BY DEF NamesOf
  <1>2. Len(p) \in Nat \ {0}
    BY <1>1, EmptySeq
  <1>3. Lens!Closed(Nat, NamePart(I))
    <2>1. \A a \in Nat : \A x \in NamePart(I) : LenStep(a, x) \in Nat
      BY DEF LenStep, NamePart
    <2> QED
      BY <2>1, Zenon DEF Lens!Closed
  <1>4. PICK v : v = Lens!Value(0, p)
    OBVIOUS
  <1>5. v \in Nat
    <2>1. 0 \in Nat
      OBVIOUS
    <2> QED
      BY <1>1, <1>3, <1>4, <2>1, Lens!FoldTyped
  <1>6. PathLength(p) = v + Len(p) - 1
    BY <1>4, LengthIs, Zenon
  <1> QED
    BY <1>2, <1>5, <1>6

\* The parents of a name, the longest first.
LEMMA ParentFacts ==
  ASSUME NEW I, NEW p \in NamesOf(I)
  PROVE  /\ Parents(p) \in Seq(NamesOf(I)) /\ Len(Parents(p)) = Len(p) - 1 /\ Len(p) \in Nat \ {0}
         /\ \A k \in 1 .. Len(p) - 1 : /\ Parents(p)[k] = SubSeq(p, 1, Len(p) - k)
                                       /\ Parents(p)[k] \in NamesOf(I)
                                       /\ Len(Parents(p)[k]) = Len(p) - k
  <1>1. p \in Seq(NamePart(I)) /\ p # <<>>
    BY DEF NamesOf
  <1>2. PICK n, q : n = Len(p) /\ q = Parents(p) /\ n \in Nat \ {0}
    BY <1>1, EmptySeq
  <1>3. q = [k \in 1 .. n - 1 |-> Segment(p, n - k)]
    BY <1>2, Zenon DEF Parents
  <1>4. ASSUME NEW k \in 1 .. n - 1
        PROVE  q[k] = SubSeq(p, 1, n - k) /\ q[k] \in NamesOf(I) /\ Len(q[k]) = n - k
    <2>1. q[k] = SubSeq(p, 1, n - k)
      BY <1>3, Zenon DEF Segment
    <2>2. PICK m : m = n - k
      OBVIOUS
    <2>3. m \in 1 .. n /\ 1 \in Int /\ m \in Int /\ 1 <= m /\ m - 1 + 1 = m
      BY <1>2, <2>2
    <2>4. \A i \in 1 .. m : p[i] \in NamePart(I)
      <3>1. \A i \in 1 .. m : i \in 1 .. Len(p)
        BY <1>2, <2>3
      <3> QED
        BY <1>1, <3>1, ElementOfSeq
    <2>5. SubSeq(p, 1, m) \in Seq(NamePart(I)) /\ Len(SubSeq(p, 1, m)) = m
      BY <2>3, <2>4, SubSeqProperties
    <2>6. SubSeq(p, 1, m) # <<>>
      <3>1. PICK z : z = SubSeq(p, 1, m)
        OBVIOUS
      <3>2. Len(z) = m /\ m # 0
        BY <2>3, <2>5, <3>1
      <3>3. z # <<>>
        BY <3>2
      <3> QED
        BY <3>1, <3>3
    <2> QED
      BY <2>1, <2>2, <2>5, <2>6 DEF NamesOf
  <1>5. PICK N : N = NamesOf(I)
    OBVIOUS
  <1>6. q \in [1 .. n - 1 -> N] /\ n - 1 \in Nat
    BY <1>2, <1>3, <1>4, <1>5
  <1>7. q \in Seq(N) /\ Len(q) = n - 1
    BY <1>6
  <1> QED
    BY <1>2, <1>4, <1>5, <1>7, Zenon

\* No parent comes twice.
LEMMA ParentsDiffer ==
  ASSUME NEW I, NEW p \in NamesOf(I)
  PROVE  IsInjective(Parents(p))
  <1>1. PICK n, q : n = Len(p) /\ q = Parents(p) /\ n \in Nat \ {0}
    BY ParentFacts
  <1>2. q \in Seq(NamesOf(I)) /\ Len(q) = n - 1 /\ \A k \in 1 .. n - 1 : Len(q[k]) = n - k
    BY <1>1, ParentFacts
  <1>3. DOMAIN q = 1 .. n - 1
    BY <1>2, LenProperties
  <1>4. ASSUME NEW i \in 1 .. n - 1, NEW j \in 1 .. n - 1, q[i] = q[j] PROVE i = j
    <2>1. n - i = n - j
      BY <1>2, <1>4
    <2> QED
      BY <1>1, <2>1
  <1> QED
    BY <1>1, <1>3, <1>4, Zenon DEF IsInjective

\* The parents of a parent are those that come after it.
LEMMA ParentsOfParent ==
  ASSUME NEW I, NEW p \in NamesOf(I), NEW i \in 1 .. Len(p) - 1,
         NEW m \in 1 .. Len(Parents(p)[i]) - 1
  PROVE  i + m \in 1 .. Len(p) - 1 /\ Parents(Parents(p)[i])[m] = Parents(p)[i + m]
  <1>1. PICK n, q, t, j : n = Len(p) /\ q = Parents(p) /\ n \in Nat \ {0} /\ t = q[i] /\ j = i + m
    BY ParentFacts
  <1>2. /\ \A k \in 1 .. n - 1 : q[k] = SubSeq(p, 1, n - k)
        /\ t \in NamesOf(I) /\ Len(t) = n - i
    BY <1>1, ParentFacts
  <1>3. /\ m \in 1 .. Len(t) - 1 /\ j \in 1 .. n - 1 /\ (n - i) - m = n - j
        /\ 1 \in 1 .. n /\ n - i \in 1 .. n /\ (n - i) - 1 + 1 = n - i
        /\ 1 \in 1 .. n - i /\ n - j \in 1 .. n - i /\ 1 + 1 - 1 = 1 /\ 1 + (n - j) - 1 = n - j
    BY <1>1, <1>2
  <1>4. Parents(t)[m] = SubSeq(t, 1, n - j)
    <2>1. Parents(t)[m] = SubSeq(t, 1, Len(t) - m)
      BY <1>2, <1>3, ParentFacts
    <2> QED
      BY <1>2, <1>3, <2>1
  <1>5. SubSeq(SubSeq(p, 1, n - i), 1, n - j) = SubSeq(p, 1, n - j)
    <2>1. p \in Seq(NamePart(I))
      BY DEF NamesOf
    <2>2. SubSeq(SubSeq(p, 1, n - i), 1, n - j) = SubSeq(p, 1 + 1 - 1, 1 + (n - j) - 1)
      BY <1>1, <1>3, <2>1, SubSeqOfSubSeq
    <2> QED
      BY <1>3, <2>2
  <1>6. q[j] = Parents(t)[m]
    BY <1>1, <1>2, <1>3, <1>4, <1>5
  <1> QED
    BY <1>1, <1>3, <1>6, Zenon

\* The places of the parents.
LEMMA ParentAt ==
  ASSUME NEW I, NEW p \in NamesOf(I)
  PROVE  /\ DOMAIN Parents(p) = 1 .. Len(p) - 1
         /\ ToSet(Parents(p)) = {Parents(p)[i] : i \in 1 .. Len(p) - 1}
         /\ ToSet(Parents(p)) \subseteq NamesOf(I)
  <1>1. /\ Parents(p) \in Seq(NamesOf(I)) /\ Len(Parents(p)) = Len(p) - 1
        /\ \A k \in 1 .. Len(p) - 1 : Parents(p)[k] \in NamesOf(I)
    BY ParentFacts
  <1>2. DOMAIN Parents(p) = 1 .. Len(p) - 1
    BY <1>1, LenProperties
  <1> QED
    BY <1>1, <1>2, Zenon DEF ToSet

LEMMA LaterParent ==
  ASSUME NEW I, NEW p \in NamesOf(I), NEW i \in 1 .. Len(p) - 1, NEW j \in i + 1 .. Len(p) - 1
  PROVE  Parents(p)[j] \in ToSet(Parents(Parents(p)[i]))
  <1>1. PICK t, m : t = Parents(p)[i] /\ m = j - i
    OBVIOUS
  <1>2. t \in NamesOf(I) /\ Len(t) = Len(p) - i /\ Len(p) \in Nat
    BY <1>1, ParentFacts
  <1>3. m \in 1 .. Len(t) - 1 /\ i + m = j
    BY <1>1, <1>2
  <1>4. Parents(t)[m] = Parents(p)[j]
    <2>1. m \in 1 .. Len(Parents(p)[i]) - 1
      BY <1>1, <1>3
    <2>2. Parents(Parents(p)[i])[m] = Parents(p)[i + m]
      BY <2>1, ParentsOfParent
    <2> QED
      BY <1>1, <1>3, <2>2
  <1>5. ToSet(Parents(t)) = {Parents(t)[k] : k \in 1 .. Len(t) - 1}
    BY <1>2, ParentAt
  <1> QED
    BY <1>1, <1>3, <1>4, <1>5

LEMMA ParentsWithin ==
  ASSUME NEW I, NEW p \in NamesOf(I), NEW x \in ToSet(Parents(p))
  PROVE  ToSet(Parents(x)) \subseteq ToSet(Parents(p))
  <1>1. PICK i \in 1 .. Len(p) - 1 : x = Parents(p)[i]
    BY ParentAt
  <1>2. x \in NamesOf(I)
    BY <1>1, ParentFacts
  <1>3. ASSUME NEW y \in ToSet(Parents(x)) PROVE y \in ToSet(Parents(p))
    <2>1. PICK m \in 1 .. Len(x) - 1 : y = Parents(x)[m]
      BY <1>2, <1>3, ParentAt
    <2>2. m \in 1 .. Len(Parents(p)[i]) - 1
      BY <1>1, <2>1
    <2>3. i + m \in 1 .. Len(p) - 1 /\ Parents(Parents(p)[i])[m] = Parents(p)[i + m]
      BY <2>2, ParentsOfParent
    <2>4. y = Parents(p)[i + m]
      BY <1>1, <2>1, <2>3
    <2>5. ToSet(Parents(p)) = {Parents(p)[k] : k \in 1 .. Len(p) - 1}
      BY ParentAt
    <2> QED
      BY <2>3, <2>4, <2>5
  <1> QED
    BY <1>3

-----------------------------------------------------------------------------
(***************************************************************************)
(* The rows of the parents: up to the first one that has its row already, as*)
(* then all before it have theirs.                                         *)
(***************************************************************************)
RowKinds == {"name", "tree", "reverse", "day", "reverseDay"}
IndexRows(I) == RowKinds \X NamesOf(I)
TreeStates(I) == [est : Nat, used : Nat, rows : Seq(IndexRows(I)), uniq : SUBSET NamesOf(I),
                  done : BOOLEAN, error : BOOLEAN]

\* The three ways of TreeRow.
TreeStops(t, q, u) == (t.done \/ q \in t.uniq) /\ u = [t EXCEPT !.done = TRUE]
TreeFails(t, q, u) ==
  /\ ~t.done /\ q \notin t.uniq
  /\ t.est + 10 + (PathLength(q) + 1) >= WriteBufferSize - t.used
  /\ u = [t EXCEPT !.done = TRUE, !.error = TRUE]
TreeAdds(t, q, u) ==
  /\ ~t.done /\ q \notin t.uniq
  /\ u = [t EXCEPT !.est = @ + 10 + (PathLength(q) + 1), !.used = @ + RowSize(PathLength(q) + 1),
                   !.uniq = @ \cup {q}, !.rows = Append(@, <<"tree", q>>)]
LEMMA TreeRowIs ==
  ASSUME NEW t, NEW q
  PROVE  \/ TreeStops(t, q, TreeRow(t, q))
         \/ TreeFails(t, q, TreeRow(t, q))
         \/ TreeAdds(t, q, TreeRow(t, q))
  <1>1. PICK l : l = PathLength(q) + 1
    OBVIOUS
  <1>2. CASE t.done \/ q \in t.uniq
    BY <1>2, Zenon DEF TreeStops, TreeRow
  <1>3. CASE ~(t.done \/ q \in t.uniq) /\ t.est + 10 + l >= WriteBufferSize - t.used
    <2>1. TreeRow(t, q) = [t EXCEPT !.done = TRUE, !.error = TRUE]
      BY <1>1, <1>3, Zenon DEF TreeRow
    <2> QED
      BY <1>1, <1>3, <2>1, Zenon DEF TreeFails
  <1>4. CASE ~(t.done \/ q \in t.uniq) /\ ~(t.est + 10 + l >= WriteBufferSize - t.used)
    <2>1. TreeRow(t, q) = [t EXCEPT !.est = @ + 10 + l, !.used = @ + RowSize(l),
                                    !.uniq = @ \cup {q}, !.rows = Append(@, <<"tree", q>>)]
      BY <1>1, <1>4, Zenon DEF TreeRow
    <2> QED
      BY <1>1, <1>4, <2>1, Zenon DEF TreeAdds
  <1> QED
    BY <1>2, <1>3, <1>4

\* What they change.
TreeStopped(I, t, u) ==
  /\ u \in TreeStates(I) /\ u.done = TRUE /\ u.error = t.error
  /\ u.est = t.est /\ u.used = t.used /\ u.uniq = t.uniq /\ u.rows = t.rows
TreeFailed(I, t, u) ==
  /\ u \in TreeStates(I) /\ u.done = TRUE /\ u.error = TRUE
  /\ u.uniq = t.uniq /\ u.rows = t.rows
TreeAdded(I, t, q, u) ==
  /\ u \in TreeStates(I) /\ u.done = t.done /\ u.error = t.error
  /\ u.est = t.est + 10 + (PathLength(q) + 1) /\ u.used = t.used + RowSize(PathLength(q) + 1)
  /\ u.uniq = t.uniq \cup {q} /\ u.rows = Append(t.rows, <<"tree", q>>)
LEMMA TreeFields ==
  ASSUME NEW I, NEW t \in TreeStates(I), NEW q \in NamesOf(I), NEW u
  PROVE  /\ TreeStops(t, q, u) => TreeStopped(I, t, u)
         /\ TreeFails(t, q, u) => TreeFailed(I, t, u)
         /\ TreeAdds(t, q, u) => TreeAdded(I, t, q, u)
  <1>1. PICK R, x : R = IndexRows(I) /\ x = <<"tree", q>>
    OBVIOUS
  <1>2. x \in R
    BY <1>1 DEF IndexRows, RowKinds
  <1>3. /\ t.est \in Nat /\ t.used \in Nat /\ t.rows \in Seq(R) /\ t.uniq \in SUBSET NamesOf(I)
        /\ t.done \in BOOLEAN /\ t.error \in BOOLEAN
        /\ t = [est |-> t.est, used |-> t.used, rows |-> t.rows, uniq |-> t.uniq,
                done |-> t.done, error |-> t.error]
    BY <1>1 DEF TreeStates
  <1>4. TreeStates(I) = [est : Nat, used : Nat, rows : Seq(R), uniq : SUBSET NamesOf(I),
                         done : BOOLEAN, error : BOOLEAN]
    BY <1>1, Zenon DEF TreeStates
  <1>5. ASSUME TreeStops(t, q, u)
        PROVE  u = [est |-> t.est, used |-> t.used, rows |-> t.rows, uniq |-> t.uniq,
                    done |-> TRUE, error |-> t.error]
    BY <1>3, <1>5 DEF TreeStops
  <1>6. ASSUME TreeFails(t, q, u)
        PROVE  u = [est |-> t.est, used |-> t.used, rows |-> t.rows, uniq |-> t.uniq,
                    done |-> TRUE, error |-> TRUE]
    BY <1>3, <1>6 DEF TreeFails
  <1>7. PICK e, f, g, h : /\ e = t.est + 10 + (PathLength(q) + 1)
                          /\ f = t.used + RowSize(PathLength(q) + 1)
                          /\ g = t.uniq \cup {q} /\ h = Append(t.rows, x)
    OBVIOUS
  <1>8. e \in Nat /\ f \in Nat /\ g \in SUBSET NamesOf(I) /\ h \in Seq(R)
    <2>1. PathLength(q) \in Nat
      BY LengthTyped
    <2>2. PathLength(q) + 1 \in Nat
      BY <2>1
    <2>3. RowSize(PathLength(q) + 1) \in Nat
      BY <2>2, SizeOfRow
    <2>4. h \in Seq(R)
      BY <1>2, <1>3, <1>7, AppendProperties
    <2> QED
      BY <1>3, <1>7, <2>1, <2>3, <2>4
  <1>9. ASSUME TreeAdds(t, q, u)
        PROVE  u = [est |-> e, used |-> f, rows |-> h, uniq |-> g,
                    done |-> t.done, error |-> t.error]
    BY <1>1, <1>3, <1>7, <1>9 DEF TreeAdds
  <1>0. PICK a, b, r, v, d, o : /\ a = t.est /\ b = t.used /\ r = t.rows /\ v = t.uniq
                                /\ d = t.done /\ o = t.error
    OBVIOUS
  <1>10. ASSUME TreeStops(t, q, u)
         PROVE  /\ u \in TreeStates(I) /\ u.done = TRUE /\ u.error = t.error
                /\ u.est = t.est /\ u.used = t.used /\ u.uniq = t.uniq /\ u.rows = t.rows
    <2>1. /\ u = [est |-> a, used |-> b, rows |-> r, uniq |-> v, done |-> TRUE, error |-> o]
          /\ a \in Nat /\ b \in Nat /\ r \in Seq(R) /\ v \in SUBSET NamesOf(I) /\ o \in BOOLEAN
      BY <1>0, <1>3, <1>5, <1>10, Zenon
    <2>2. u \in TreeStates(I)
      BY <1>4, <2>1
    <2>3. u.done = TRUE /\ u.error = o /\ u.est = a /\ u.used = b /\ u.uniq = v /\ u.rows = r
      BY <2>1
    <2> QED
      BY <1>0, <2>2, <2>3, Zenon
  <1>11. ASSUME TreeFails(t, q, u)
         PROVE  /\ u \in TreeStates(I) /\ u.done = TRUE /\ u.error = TRUE
                /\ u.uniq = t.uniq /\ u.rows = t.rows
    <2>1. /\ u = [est |-> a, used |-> b, rows |-> r, uniq |-> v, done |-> TRUE, error |-> TRUE]
          /\ a \in Nat /\ b \in Nat /\ r \in Seq(R) /\ v \in SUBSET NamesOf(I)
      BY <1>0, <1>3, <1>6, <1>11, Zenon
    <2>2. u \in TreeStates(I)
      BY <1>4, <2>1
    <2>3. u.done = TRUE /\ u.error = TRUE /\ u.uniq = v /\ u.rows = r
      BY <2>1
    <2> QED
      BY <1>0, <2>2, <2>3, Zenon
  <1>12. ASSUME TreeAdds(t, q, u)
         PROVE  /\ u \in TreeStates(I) /\ u.done = t.done /\ u.error = t.error
                /\ u.est = e /\ u.used = f /\ u.uniq = g /\ u.rows = h
    BY <1>3, <1>4, <1>8, <1>9, <1>12
  <1> QED
    BY <1>1, <1>7, <1>10, <1>11, <1>12, Zenon DEF TreeStopped, TreeFailed, TreeAdded

\* U has the parents of what it has.
Ancestral(U) == \A x \in U : ToSet(Parents(x)) \subseteq U

\* After k of the parents of p: rows of them once, for those that U does not have, up to
\* the first that it has.
TreeInv(I, U, p, k, t) ==
  /\ t \in TreeStates(I) /\ IsInjective(t.rows) /\ U \subseteq t.uniq
  /\ \A x \in t.uniq \ U : \E i \in 1 .. k : x = Parents(p)[i]
  /\ ToSet(t.rows) = {<<"name", p>>} \cup {<<"tree", x>> : x \in t.uniq \ U}
  /\ t.error => t.done
  /\ ~t.done => \A i \in 1 .. k : Parents(p)[i] \in t.uniq
  /\ t.done /\ ~t.error => \A i \in 1 .. Len(p) - 1 : Parents(p)[i] \in t.uniq

LEMMA TreeKeep ==
  ASSUME NEW I, NEW U \in SUBSET NamesOf(I), Ancestral(U), NEW p \in NamesOf(I),
         NEW k \in 0 .. Len(p) - 2, NEW t, TreeInv(I, U, p, k, t)
  PROVE  TreeInv(I, U, p, k + 1, TreeRow(t, Parents(p)[k + 1]))
  <1>1. PICK n, q, x, u : /\ n = Len(p) - 1 /\ q = Parents(p) /\ x = q[k + 1] /\ u = TreeRow(t, x)
    OBVIOUS
  <1>2. /\ n \in Nat /\ k \in 0 .. n - 1 /\ k + 1 \in 1 .. n
        /\ \A i \in 1 .. k : i \in 1 .. k + 1 /\ i \in 1 .. n /\ i # k + 1
        /\ \A i \in 1 .. k + 1 : i \in 1 .. k \/ i = k + 1
    <2>1. Len(p) \in Nat \ {0}
      BY ParentFacts
    <2> QED
      BY <1>1, <2>1
  <1>3. x \in NamesOf(I) /\ q \in Seq(NamesOf(I)) /\ DOMAIN q = 1 .. n
    <2>1. q \in Seq(NamesOf(I)) /\ Len(q) = n
      BY <1>1, ParentFacts
    <2>2. DOMAIN q = 1 .. n
      BY <2>1, LenProperties
    <2> QED
      BY <1>1, <1>2, <2>1, <2>2, ElementOfSeq
  <1>4. \A i \in 1 .. k : q[i] # x
    <2>1. IsInjective(q)
      BY <1>1, ParentsDiffer
    <2> QED
      BY <1>1, <1>2, <1>3, <2>1 DEF IsInjective
  <1>5. /\ t \in TreeStates(I) /\ IsInjective(t.rows) /\ U \subseteq t.uniq
        /\ \A y \in t.uniq \ U : \E i \in 1 .. k : y = q[i]
        /\ ToSet(t.rows) = {<<"name", p>>} \cup {<<"tree", y>> : y \in t.uniq \ U}
        /\ t.error => t.done
        /\ ~t.done => \A i \in 1 .. k : q[i] \in t.uniq
        /\ t.done /\ ~t.error => \A i \in 1 .. n : q[i] \in t.uniq
    BY <1>1, Zenon DEF TreeInv
  <1>6. \A y \in t.uniq \ U : \E i \in 1 .. k + 1 : y = q[i]
    BY <1>2, <1>5, Zenon
  <1>7. CASE TreeStops(t, x, u)
    <2>1. /\ u \in TreeStates(I) /\ u.done = TRUE /\ u.error = t.error
          /\ u.uniq = t.uniq /\ u.rows = t.rows
      <3>1. t \in TreeStates(I) /\ x \in NamesOf(I)
        BY <1>3, <1>5, Zenon
      <3>2. TreeStopped(I, t, u)
        BY <1>7, <3>1, TreeFields
      <3> QED
        BY <3>2, Zenon DEF TreeStopped
    <2>2. ASSUME ~u.error, NEW j \in 1 .. n PROVE q[j] \in u.uniq
      <3>1. CASE t.done
        BY <1>5, <2>1, <2>2, <3>1
      <3>2. CASE ~t.done
        <4>1. x \in t.uniq
          BY <1>7, <3>2 DEF TreeStops
        <4>2. x \in U
          BY <1>4, <1>5, <4>1, Zenon
        <4>3. CASE j \in 1 .. k
          BY <1>5, <2>1, <3>2, <4>3, Zenon
        <4>4. CASE j = k + 1
          BY <1>1, <2>1, <4>1, <4>4, Zenon
        <4>5. CASE j \notin 1 .. k /\ j # k + 1
          <5>1. j \in (k + 1) + 1 .. Len(p) - 1 /\ k + 1 \in 1 .. Len(p) - 1
            BY <1>1, <1>2, <2>2, <4>5
          <5>2. q[j] \in ToSet(Parents(x))
            BY <1>1, <5>1, LaterParent
          <5>3. q[j] \in U
            BY <4>2, <5>2, Zenon DEF Ancestral
          <5> QED
            BY <1>5, <2>1, <5>3, Zenon
        <4> QED
          BY <4>3, <4>4, <4>5
      <3> QED
        BY <3>1, <3>2
    <2>3. u.done /\ ~u.error => \A i \in 1 .. n : q[i] \in u.uniq
      BY <2>2
    <2> QED
      BY <1>1, <1>5, <1>6, <2>1, <2>3, Zenon DEF TreeInv
  <1>8. CASE TreeFails(t, x, u)
    <2>1. /\ u \in TreeStates(I) /\ u.done = TRUE /\ u.error = TRUE
          /\ u.uniq = t.uniq /\ u.rows = t.rows
      <3>1. t \in TreeStates(I) /\ x \in NamesOf(I)
        BY <1>3, <1>5, Zenon
      <3>2. TreeFailed(I, t, u)
        BY <1>8, <3>1, TreeFields
      <3> QED
        BY <3>2, Zenon DEF TreeFailed
    <2> QED
      BY <1>1, <1>5, <1>6, <2>1, Zenon DEF TreeInv
  <1>9. CASE TreeAdds(t, x, u)
    <2>1. /\ u \in TreeStates(I) /\ u.done = t.done /\ u.error = t.error
          /\ u.uniq = t.uniq \cup {x} /\ u.rows = Append(t.rows, <<"tree", x>>)
      <3>1. t \in TreeStates(I) /\ x \in NamesOf(I)
        BY <1>3, <1>5, Zenon
      <3>2. TreeAdded(I, t, x, u)
        BY <1>9, <3>1, TreeFields
      <3> QED
        BY <3>2, Zenon DEF TreeAdded
    <2>2. ~t.done /\ x \notin t.uniq /\ x \notin U
      BY <1>5, <1>9 DEF TreeAdds
    <2>3. u.uniq \ U = (t.uniq \ U) \cup {x}
      BY <2>1, <2>2
    <2>4. \A y \in u.uniq \ U : \E i \in 1 .. k + 1 : y = q[i]
      <3>1. k + 1 \in 1 .. k + 1
        BY <1>2
      <3> QED
        BY <1>1, <1>6, <2>3, <3>1, Zenon
    <2>5. PICK R, w : R = IndexRows(I) /\ w = <<"tree", x>>
      OBVIOUS
    <2>6. w \in R /\ t.rows \in Seq(R)
      BY <1>3, <1>5, <2>5 DEF IndexRows, RowKinds, TreeStates
    <2>7. w \notin ToSet(t.rows)
      BY <1>5, <2>2, <2>5
    <2>8. ToSet(Append(t.rows, w)) = ToSet(t.rows) \cup {w} /\ IsInjective(Append(t.rows, w))
      BY <1>5, <2>6, <2>7, AppendSingle
    <2>9. IsInjective(u.rows)
      BY <2>1, <2>5, <2>8, Zenon
    <2>10. ToSet(u.rows) = {<<"name", p>>} \cup {<<"tree", y>> : y \in u.uniq \ U}
      <3>1. ToSet(u.rows) = ToSet(t.rows) \cup {<<"tree", x>>}
        BY <2>1, <2>5, <2>8, Zenon
      <3> QED
        BY <1>5, <2>3, <3>1, Zenon
    <2>11. \A i \in 1 .. k + 1 : q[i] \in u.uniq
      BY <1>1, <1>2, <1>5, <2>1, <2>2
    <2>12. U \subseteq u.uniq /\ ~u.done
      BY <1>5, <2>1, <2>2
    <2> QED
      BY <1>1, <1>5, <2>1, <2>4, <2>9, <2>10, <2>11, <2>12, Zenon DEF TreeInv
  <1> QED
    BY <1>1, <1>7, <1>8, <1>9, TreeRowIs

Trees == INSTANCE Folding WITH Step <- TreeRow
TreeBase(U, p) ==
  [est |-> 2 * (2 + 4 + PathLength(p) + 4), used |-> RowSize(PathLength(p)),
   rows |-> <<<<"name", p>>>>, uniq |-> U, done |-> FALSE, error |-> FALSE]
TreeOf(U, p) == FoldLeft(TreeRow, TreeBase(U, p), Parents(p))
LEMMA ParentRowsAre ==
  ASSUME NEW U, NEW p
  PROVE  TreeOf(U, p) = Trees!Value(TreeBase(U, p), Parents(p))
  BY DEF TreeOf, Trees!Value, Trees!Iter, FoldLeft, MapThenFoldSet, Max, Trees!Max

\* It begins with the row of the name.
LEMMA TreeBegins ==
  ASSUME NEW I, NEW U \in SUBSET NamesOf(I), NEW p \in NamesOf(I)
  PROVE  TreeBase(U, p) \in TreeStates(I) /\ TreeInv(I, U, p, 0, TreeBase(U, p))
  <1>1. PICK l, w, s, t : /\ l = PathLength(p) /\ w = <<"name", p>> /\ s = <<w>>
                          /\ t = TreeBase(U, p)
    OBVIOUS
  <1>2. l \in Nat /\ RowSize(l) \in Nat
    BY <1>1, LengthTyped, SizeOfRow
  <1>3. w \in IndexRows(I)
    BY <1>1 DEF IndexRows, RowKinds
  <1>4. s \in Seq(IndexRows(I)) /\ ToSet(s) = {w} /\ IsInjective(s)
    BY <1>1, <1>3 DEF ToSet, IsInjective
  <1>5. t = [est |-> 2 * (2 + 4 + l + 4), used |-> RowSize(l), rows |-> s, uniq |-> U,
             done |-> FALSE, error |-> FALSE]
    BY <1>1, Zenon DEF TreeBase
  <1>6. 2 * (2 + 4 + l + 4) \in Nat
    BY <1>2
  <1>7. t \in TreeStates(I)
    BY <1>2, <1>4, <1>5, <1>6 DEF TreeStates
  <1>8. t.rows = s /\ t.uniq = U /\ t.done = FALSE /\ t.error = FALSE
    BY <1>5
  <1>9. \A x \in t.uniq \ U : FALSE
    BY <1>8
  <1>10. ToSet(t.rows) = {<<"name", p>>} \cup {<<"tree", x>> : x \in t.uniq \ U}
    BY <1>1, <1>4, <1>8, <1>9
  <1>11. \A i \in 1 .. 0 : FALSE
    OBVIOUS
  <1>12. TreeInv(I, U, p, 0, t)
    BY <1>4, <1>7, <1>8, <1>9, <1>10, <1>11 DEF TreeInv
  <1> QED
    BY <1>1, <1>7, <1>12, Zenon

\* The states of the loop over the parents.
TreeRuns(U, p, r) ==
  /\ r[0] = TreeBase(U, p) /\ r[Len(p) - 1] = TreeOf(U, p)
  /\ \A k \in 0 .. Len(p) - 2 : r[k + 1] = TreeRow(r[k], Parents(p)[k + 1])
LEMMA TreeRun ==
  ASSUME NEW I, NEW U \in SUBSET NamesOf(I), NEW p \in NamesOf(I)
  PROVE  \E r \in [0 .. Len(p) - 1 -> TreeStates(I)] : TreeRuns(U, p, r)
  <1>1. PICK n, q, St, b : n = Len(p) - 1 /\ q = Parents(p) /\ St = TreeStates(I) /\ b = TreeBase(U, p)
    OBVIOUS
  <1>2. q \in Seq(NamesOf(I)) /\ Len(q) = n /\ n \in Nat
    <2>1. q \in Seq(NamesOf(I)) /\ Len(q) = n /\ Len(p) \in Nat \ {0}
      BY <1>1, ParentFacts
    <2> QED
      BY <1>1, <2>1
  <1>3. b \in St
    BY <1>1, TreeBegins
  <1>4. Trees!Closed(St, NamesOf(I))
    <2>1. ASSUME NEW t \in St, NEW x \in NamesOf(I) PROVE TreeRow(t, x) \in St
      BY <1>1, <2>1, TreeRowIs, TreeFields DEF TreeStopped, TreeFailed, TreeAdded
    <2> QED
      BY <2>1, Zenon DEF Trees!Closed
  <1>5. PICK r \in [0 .. Len(q) -> St] : Trees!Runs(b, q, r) /\ Trees!Value(b, q) = r[Len(q)]
    BY <1>2, <1>3, <1>4, Trees!FoldRuns
  <1>6. r[0] = b /\ \A k \in 0 .. n - 1 : r[k + 1] = TreeRow(r[k], q[k + 1])
    BY <1>2, <1>5, Zenon DEF Trees!Runs
  <1>7. r[n] = TreeOf(U, p)
    BY <1>1, <1>2, <1>5, ParentRowsAre, Zenon
  <1>8. Len(p) - 2 = n - 1
    <2>1. Len(p) \in Nat
      BY ParentFacts
    <2> QED
      BY <1>1, <2>1
  <1>9. TreeRuns(U, p, r)
    BY <1>1, <1>6, <1>7, <1>8, Zenon DEF TreeRuns
  <1> QED
    BY <1>1, <1>2, <1>5, <1>9, Zenon

\* After the loop there are rows for all parents, or there was no room.
LEMMA ParentRowsExact ==
  ASSUME NEW I, NEW U \in SUBSET NamesOf(I), Ancestral(U), NEW p \in NamesOf(I)
  PROVE  TreeInv(I, U, p, Len(p) - 1, TreeOf(U, p))
  <1>1. PICK n : n = Len(p) - 1 /\ n \in Nat /\ Len(p) - 2 = n - 1
    <2>1. Len(p) \in Nat \ {0}
      BY ParentFacts
    <2> QED
      BY <2>1
  <1>2. PICK r \in [0 .. Len(p) - 1 -> TreeStates(I)] : TreeRuns(U, p, r)
    BY TreeRun
  <1> DEFINE K == {k \in Nat : TreeInv(I, U, p, k, r[k])}
  <1>3. 0 \in K
    <2>1. r[0] = TreeBase(U, p)
      BY <1>2, Zenon DEF TreeRuns
    <2>2. TreeInv(I, U, p, 0, TreeBase(U, p))
      BY TreeBegins
    <2> QED
      BY <2>1, <2>2
  <1>4. ASSUME NEW k \in 0 .. n - 1, k \in K PROVE k + 1 \in K
    <2>1. k \in 0 .. Len(p) - 2 /\ k + 1 \in Nat
      BY <1>1
    <2>2. r[k + 1] = TreeRow(r[k], Parents(p)[k + 1])
      BY <1>2, <2>1, Zenon DEF TreeRuns
    <2>3. TreeInv(I, U, p, k, r[k])
      BY <1>4, Zenon
    <2>4. TreeInv(I, U, p, k + 1, TreeRow(r[k], Parents(p)[k + 1]))
      BY <2>1, <2>3, TreeKeep
    <2> QED
      BY <2>1, <2>2, <2>4, Zenon
  <1> HIDE DEF K
  <1>5. \A k \in 0 .. n : k \in K
    BY <1>1, <1>3, <1>4, UpInduction
  <1>6. n \in K
    BY <1>1, <1>5
  <1>7. TreeInv(I, U, p, n, r[n])
    BY <1>6, Zenon DEF K
  <1> QED
    BY <1>1, <1>2, <1>7, Zenon DEF TreeRuns

\* The sizes of the rows, summed up, and they do not decrease.
SizeRuns(p, z) ==
  /\ z[0] = 0 /\ RowsNeeded(p) = 4 * RowSize(PathLength(p)) + z[Len(p) - 1]
  /\ \A k \in 0 .. Len(p) - 2 : z[k + 1] = z[k] + RowSize(PathLength(Parents(p)[k + 1]) + 1)
  /\ \A k \in 0 .. Len(p) - 1 : z[k] <= z[Len(p) - 1]
LEMMA SizeRun ==
  ASSUME NEW I, NEW p \in NamesOf(I)
  PROVE  \E z \in [0 .. Len(p) - 1 -> Nat] : SizeRuns(p, z)
  <1>1. PICK n, q : n = Len(p) - 1 /\ q = Parents(p)
    OBVIOUS
  <1>2. /\ q \in Seq(NamesOf(I)) /\ Len(q) = n /\ n \in Nat /\ Len(p) - 2 = n - 1
        /\ \A k \in 0 .. n - 1 : q[k + 1] \in NamesOf(I)
    <2>1. /\ q \in Seq(NamesOf(I)) /\ Len(q) = n /\ Len(p) \in Nat \ {0}
          /\ \A k \in 1 .. n : q[k] \in NamesOf(I)
      BY <1>1, ParentFacts
    <2>2. n \in Nat /\ Len(p) - 2 = n - 1 /\ \A k \in 0 .. n - 1 : k + 1 \in 1 .. n
      BY <1>1, <2>1
    <2> QED
      BY <2>1, <2>2
  <1>3. \A x \in NamesOf(I) : RowSize(PathLength(x) + 1) \in Nat
    <2>1. ASSUME NEW x \in NamesOf(I) PROVE RowSize(PathLength(x) + 1) \in Nat
      <3>1. PathLength(x) \in Nat
        BY LengthTyped
      <3>2. PathLength(x) + 1 \in Nat
        BY <3>1
      <3> QED
        BY <3>2, SizeOfRow
    <2> QED
      BY <2>1
  <1>4. 0 \in Nat /\ Sizes!Closed(Nat, NamesOf(I))
    <2>1. \A a \in Nat : \A x \in NamesOf(I) : SizeStep(a, x) \in Nat
      BY <1>3 DEF SizeStep
    <2> QED
      BY <2>1, Zenon DEF Sizes!Closed
  <1>5. PICK z \in [0 .. Len(q) -> Nat] : Sizes!Runs(0, q, z) /\ Sizes!Value(0, q) = z[Len(q)]
    <2>1. PICK Y, St, o : Y = NamesOf(I) /\ St = Nat /\ o = 0
      OBVIOUS
    <2>2. q \in Seq(Y) /\ o \in St /\ Sizes!Closed(St, Y)
      BY <1>2, <1>4, <2>1, Zenon
    <2>3. \E z \in [0 .. Len(q) -> St] : Sizes!Runs(o, q, z) /\ Sizes!Value(o, q) = z[Len(q)]
      BY <2>2, Sizes!FoldRuns
    <2> QED
      BY <2>1, <2>3, Zenon
  <1>6. /\ z[0] = 0
        /\ \A k \in 0 .. n - 1 : z[k + 1] = z[k] + RowSize(PathLength(q[k + 1]) + 1)
    BY <1>2, <1>5, Zenon DEF Sizes!Runs, SizeStep
  <1>7. z \in [0 .. n -> Nat] /\ RowsNeeded(p) = 4 * RowSize(PathLength(p)) + z[n]
    BY <1>1, <1>2, <1>5, NeededIs, Zenon
  <1> DEFINE K == {k \in Nat : \A j \in 0 .. k : z[j] <= z[k]}
  <1>8. 0 \in K
    <2>1. z[0] <= z[0]
      BY <1>6
    <2> QED
      BY <2>1
  <1>9. ASSUME NEW k \in 0 .. n - 1, k \in K PROVE k + 1 \in K
    <2>1. k \in 0 .. n /\ k + 1 \in 0 .. n /\ k + 1 \in Nat
      BY <1>2
    <2>2. PICK a, b, c : a = z[k] /\ b = z[k + 1] /\ c = RowSize(PathLength(q[k + 1]) + 1)
      OBVIOUS
    <2>3. a \in Nat /\ b \in Nat /\ c \in Nat /\ b = a + c
      BY <1>2, <1>3, <1>6, <1>7, <2>1, <2>2
    <2>4. ASSUME NEW j \in 0 .. k + 1 PROVE z[j] <= b
      <3>1. CASE j \in 0 .. k
        <4>1. z[j] \in Nat /\ z[j] <= a
          BY <1>2, <1>7, <1>9, <2>2, <3>1
        <4> QED
          BY <2>3, <4>1
      <3>2. CASE j = k + 1
        BY <2>2, <2>3, <3>2
      <3> QED
        BY <2>1, <3>1, <3>2
    <2> QED
      BY <2>1, <2>2, <2>4
  <1> HIDE DEF K
  <1>10. \A k \in 0 .. n : k \in K
    BY <1>2, <1>8, <1>9, UpInduction
  <1>11. n \in K
    BY <1>2, <1>10
  <1>12. \A j \in 0 .. n : z[j] <= z[n]
    BY <1>11 DEF K
  <1>13. SizeRuns(p, z)
    BY <1>1, <1>2, <1>6, <1>7, <1>12, Zenon DEF SizeRuns
  <1> QED
    BY <1>1, <1>2, <1>5, <1>13, Zenon

\* A name so short that two of them fit has room for all its rows.
LEMMA TreeFits ==
  ASSUME WriteBufferSize \in Nat, NEW I, NEW U \in SUBSET NamesOf(I), NEW p \in NamesOf(I),
         2 * RowsNeeded(p) < WriteBufferSize
  PROVE  /\ TreeOf(U, p).error = FALSE /\ TreeOf(U, p).used \in Nat
         /\ TreeOf(U, p).used + 3 * RowSize(PathLength(p)) <= RowsNeeded(p)
         /\ RowsNeeded(p) \in Nat /\ 4 * RowSize(PathLength(p)) <= RowsNeeded(p)
  <1>1. PICK n, l, R, N : /\ n = Len(p) - 1 /\ l = PathLength(p) /\ R = RowSize(l)
                          /\ N = RowsNeeded(p)
    OBVIOUS
  <1>2. /\ n \in Nat /\ Len(p) - 2 = n - 1
        /\ \A k \in 0 .. n - 1 : Parents(p)[k + 1] \in NamesOf(I)
    <2>1. Len(p) \in Nat \ {0} /\ \A k \in 1 .. n : Parents(p)[k] \in NamesOf(I)
      BY <1>1, ParentFacts
    <2>2. n \in Nat /\ Len(p) - 2 = n - 1 /\ \A k \in 0 .. n - 1 : k + 1 \in 1 .. n
      BY <1>1, <2>1
    <2> QED
      BY <2>1, <2>2
  <1>3. l \in Nat /\ R \in Nat /\ l + 11 <= R
    BY <1>1, LengthTyped, SizeOfRow
  <1>4. PICK r \in [0 .. n -> TreeStates(I)] : TreeRuns(U, p, r)
    BY <1>1, TreeRun
  <1>5. PICK z \in [0 .. n -> Nat] : SizeRuns(p, z)
    BY <1>1, SizeRun
  <1>6. /\ N = 4 * R + z[n] /\ z[0] = 0 /\ z[n] \in Nat
        /\ \A k \in 0 .. n - 1 : z[k + 1] = z[k] + RowSize(PathLength(Parents(p)[k + 1]) + 1)
        /\ \A k \in 0 .. n : z[k] <= z[n]
    <2>1. n \in 0 .. n
      BY <1>2
    <2> QED
      BY <1>1, <1>2, <1>5, <2>1 DEF SizeRuns
  <1> DEFINE K == {k \in Nat : /\ r[k].error = FALSE /\ r[k].used <= R + z[k]
                               /\ r[k].est <= 2 * (l + 10) + z[k]}
  <1>7. 0 \in K
    <2>1. r[0] = TreeBase(U, p)
      BY <1>4, Zenon DEF TreeRuns
    <2>2. r[0].error = FALSE /\ r[0].used = R /\ r[0].est = 2 * (2 + 4 + l + 4)
      BY <1>1, <2>1 DEF TreeBase
    <2> QED
      BY <1>3, <1>6, <2>2
  <1>8. ASSUME NEW k \in 0 .. n - 1, k \in K PROVE k + 1 \in K
    <2>0. k \in 0 .. n /\ k + 1 \in 0 .. n /\ k + 1 \in Nat
      BY <1>2
    <2>1. PICK t, u, x : t = r[k] /\ u = r[k + 1] /\ x = Parents(p)[k + 1]
      OBVIOUS
    <2>2. u = TreeRow(t, x) /\ x \in NamesOf(I) /\ t \in TreeStates(I)
      <3>1. t \in TreeStates(I)
        BY <1>4, <2>0, <2>1
      <3>2. k \in 0 .. Len(p) - 2
        BY <1>2
      <3>3. u = TreeRow(t, x)
        BY <1>4, <2>1, <3>2, Zenon DEF TreeRuns
      <3> QED
        BY <1>2, <2>1, <3>1, <3>3, Zenon
    <2>3. PICK e, d \in Nat : e = t.est /\ d = t.used
      BY <2>2 DEF TreeStates
    <2>4. PICK a, b, m, c : a = z[k] /\ b = z[k + 1] /\ m = PathLength(x) + 1 /\ c = RowSize(m)
      OBVIOUS
    <2>5. a \in Nat /\ b \in Nat /\ b <= z[n] /\ b = a + c
      BY <1>5, <1>6, <2>0, <2>1, <2>4
    <2>6. m \in Nat /\ c \in Nat /\ m + 11 <= c
      <3>1. PathLength(x) \in Nat
        BY <2>2, LengthTyped
      <3>2. m \in Nat
        BY <2>4, <3>1
      <3> QED
        BY <2>4, <3>2, SizeOfRow
    <2>7. t.error = FALSE /\ d <= R + a /\ e <= 2 * (l + 10) + a
      BY <1>8, <2>1, <2>3, <2>4
    <2>8. ~TreeFails(t, x, u)
      <3>1. e + 10 + m <= 2 * R + b
        BY <1>3, <2>5, <2>6, <2>7
      <3>2. d <= R + b
        BY <1>3, <2>5, <2>6, <2>7
      <3>3. PICK W, y : W = WriteBufferSize /\ y = z[n]
        OBVIOUS
      <3>4. W \in Nat /\ y \in Nat /\ 2 * (4 * R + y) < W /\ b <= y
        BY <1>1, <1>6, <2>5, <3>3
      <3>5. ~(e + 10 + m >= W - d)
        BY <1>3, <2>5, <2>6, <3>1, <3>2, <3>4
      <3> QED
        BY <2>3, <2>4, <3>3, <3>5, Zenon DEF TreeFails
    <2>9. CASE TreeStops(t, x, u)
      <3>1. TreeStopped(I, t, u)
        BY <2>2, <2>9, TreeFields
      <3>2. u.error = t.error /\ u.used = t.used /\ u.est = t.est
        BY <3>1 DEF TreeStopped
      <3>3. u.used = d /\ u.est = e
        BY <2>3, <3>2
      <3>4. u.error = FALSE /\ u.used <= R + b /\ u.est <= 2 * (l + 10) + b
        BY <1>3, <2>5, <2>6, <2>7, <3>2, <3>3
      <3> QED
        BY <2>0, <2>1, <2>4, <3>4
    <2>10. CASE TreeAdds(t, x, u)
      <3>1. TreeAdded(I, t, x, u)
        BY <2>2, <2>10, TreeFields
      <3>2. u.error = t.error /\ u.used = t.used + c /\ u.est = t.est + 10 + m
        BY <2>4, <3>1 DEF TreeAdded
      <3>3. u.used = d + c /\ u.est = e + 10 + m
        BY <2>3, <3>2, Zenon
      <3>4. u.error = FALSE /\ u.used <= R + b /\ u.est <= 2 * (l + 10) + b
        BY <1>3, <2>5, <2>6, <2>7, <3>2, <3>3
      <3> QED
        BY <2>0, <2>1, <2>4, <3>4
    <2> QED
      BY <2>2, <2>8, <2>9, <2>10, TreeRowIs, Zenon
  <1> HIDE DEF K
  <1>9. \A k \in 0 .. n : k \in K
    BY <1>2, <1>7, <1>8, UpInduction
  <1>10. n \in K /\ n \in 0 .. n
    BY <1>2, <1>9
  <1>11. PICK t : t = TreeOf(U, p)
    OBVIOUS
  <1>12. t = r[n]
    BY <1>1, <1>4, <1>11, Zenon DEF TreeRuns
  <1>13. t.error = FALSE /\ t.used <= R + z[n]
    BY <1>10, <1>12 DEF K
  <1>14. t.used \in Nat
    BY <1>4, <1>10, <1>12 DEF TreeStates
  <1>15. t.used + 3 * R <= N /\ N \in Nat /\ 4 * R <= N
    BY <1>3, <1>6, <1>13, <1>14, SMTT(30)
  <1> QED
    BY <1>1, <1>11, <1>13, <1>14, <1>15, Zenon

-----------------------------------------------------------------------------
(***************************************************************************)
(* The names of a file, one after the other.                               *)
(***************************************************************************)
Names == INSTANCE Folding WITH Step <- indexRecord
IndexStates(I) == [used : Nat, rows : Seq(IndexRows(I)), newUniq : SUBSET NamesOf(I),
                   marked : SUBSET NamesOf(I), lost : SUBSET NamesOf(I), panic : BOOLEAN]
LEMMA NamesIs ==
  ASSUME NEW s
  PROVE  indexParseFile(s) = Names!Value(NewIndex, s)
  BY DEF indexParseFile, Names!Value, Names!Iter, FoldLeft, MapThenFoldSet, Max, Names!Max

\* A name without its rows, in a buffer that is as it was or has some rows of parents.
RecordLoses(st, p, u) ==
  /\ p \notin st.marked /\ ~st.panic
  /\ \/ 2 * (2 + 4 + PathLength(p) + 4) >= WriteBufferSize - st.used
     \/ TreeOf(st.newUniq, p).error
  /\ \E a \in {st.used, TreeOf(st.newUniq, p).used}, b \in {st.newUniq, TreeOf(st.newUniq, p).uniq} :
       u = [used |-> a, rows |-> st.rows, newUniq |-> b, marked |-> st.marked \cup {p},
            lost |-> st.lost \cup {p}, panic |-> st.panic]
LastRows(p) == <<<<"reverse", p>>, <<"day", p>>, <<"reverseDay", p>>>>
FullSize(st, p) == TreeOf(st.newUniq, p).used + 3 * RowSize(PathLength(p))
RecordStores(st, p, u) ==
  /\ p \notin st.marked /\ ~st.panic /\ ~TreeOf(st.newUniq, p).error
  /\ u = [used |-> FullSize(st, p), rows |-> st.rows \o TreeOf(st.newUniq, p).rows \o LastRows(p),
          newUniq |-> TreeOf(st.newUniq, p).uniq, marked |-> st.marked \cup {p},
          lost |-> st.lost, panic |-> FullSize(st, p) > WriteBufferSize]
LEMMA RecordIs ==
  ASSUME NEW I, NEW st \in IndexStates(I), NEW p
  PROVE  \/ (p \in st.marked \/ st.panic) /\ indexRecord(st, p) = st
         \/ RecordLoses(st, p, indexRecord(st, p))
         \/ RecordStores(st, p, indexRecord(st, p))
  <1>1. PICK a, r, v, m, o, g : /\ st = [used |-> a, rows |-> r, newUniq |-> v, marked |-> m,
                                         lost |-> o, panic |-> g]
                                /\ g \in BOOLEAN
    BY DEF IndexStates
  <1>2. st.used = a /\ st.rows = r /\ st.newUniq = v /\ st.marked = m /\ st.lost = o /\ st.panic = g
    BY <1>1
  <1>3. PICK w, e, t, f, u : /\ w = [used |-> a, rows |-> r, newUniq |-> v, marked |-> m \cup {p},
                                     lost |-> o, panic |-> g]
                             /\ e = 2 * (2 + 4 + PathLength(p) + 4) /\ t = TreeOf(v, p)
                             /\ f = t.used + 3 * RowSize(PathLength(p)) /\ u = indexRecord(st, p)
    OBVIOUS
  <1>4. w = [st EXCEPT !.marked = @ \cup {p}]
    BY <1>1, <1>3
  <1>5. CASE p \in m \/ g = TRUE
    BY <1>2, <1>5, Zenon DEF indexRecord
  <1>6. CASE ~(p \in m \/ g = TRUE)
    <2>1. g = FALSE
      BY <1>1, <1>6
    <2>2. u = indexParseName(w, p)
      BY <1>2, <1>3, <1>4, <1>6, <2>1, Zenon DEF indexRecord
    <2>3. w.used = a /\ w.newUniq = v
      BY <1>3
    <2>4. t = FoldLeft(TreeRow, [est |-> e, used |-> RowSize(PathLength(p)),
                                 rows |-> <<<<"name", p>>>>, uniq |-> v, done |-> FALSE,
                                 error |-> FALSE], Parents(p))
      BY <1>3, Zenon DEF TreeOf, TreeBase
    <2>5. u = IF e >= WriteBufferSize - a THEN [w EXCEPT !.lost = @ \cup {p}]
              ELSE IF t.error THEN [w EXCEPT !.lost = @ \cup {p}, !.used = t.used, !.newUniq = t.uniq]
              ELSE [w EXCEPT !.used = f, !.newUniq = t.uniq, !.panic = @ \/ f > WriteBufferSize,
                             !.rows = @ \o t.rows \o LastRows(p)]
      BY <1>3, <2>2, <2>3, <2>4, ZenonT(30) DEF indexParseName, LastRows
    <2>6. CASE e >= WriteBufferSize - a
      <3>1. u = [used |-> a, rows |-> r, newUniq |-> v, marked |-> m \cup {p},
                 lost |-> o \cup {p}, panic |-> g]
        BY <1>3, <2>5, <2>6
      <3> QED
        <4>1. /\ st.used \in {st.used, TreeOf(st.newUniq, p).used}
              /\ st.newUniq \in {st.newUniq, TreeOf(st.newUniq, p).uniq}
          OBVIOUS
        <4>2. u = [used |-> st.used, rows |-> st.rows, newUniq |-> st.newUniq,
                   marked |-> st.marked \cup {p}, lost |-> st.lost \cup {p}, panic |-> st.panic]
          BY <1>2, <1>3, <3>1, Zenon
        <4>3. \/ 2 * (2 + 4 + PathLength(p) + 4) >= WriteBufferSize - st.used
              \/ TreeOf(st.newUniq, p).error
          BY <1>2, <1>3, <2>6, Zenon
        <4>4. p \notin st.marked /\ ~st.panic
          BY <1>2, <1>6, <2>1
        <4> QED
          BY <1>3, <4>1, <4>2, <4>3, <4>4, Zenon DEF RecordLoses
    <2>7. CASE ~(e >= WriteBufferSize - a) /\ t.error
      <3>1. u = [used |-> t.used, rows |-> r, newUniq |-> t.uniq, marked |-> m \cup {p},
                 lost |-> o \cup {p}, panic |-> g]
        BY <1>3, <2>5, <2>7
      <3> QED
        <4>1. /\ TreeOf(st.newUniq, p).used \in {st.used, TreeOf(st.newUniq, p).used}
              /\ TreeOf(st.newUniq, p).uniq \in {st.newUniq, TreeOf(st.newUniq, p).uniq}
          OBVIOUS
        <4>2. u = [used |-> TreeOf(st.newUniq, p).used, rows |-> st.rows, newUniq |-> TreeOf(st.newUniq, p).uniq,
                   marked |-> st.marked \cup {p}, lost |-> st.lost \cup {p}, panic |-> st.panic]
          BY <1>2, <1>3, <3>1, Zenon
        <4>3. \/ 2 * (2 + 4 + PathLength(p) + 4) >= WriteBufferSize - st.used
              \/ TreeOf(st.newUniq, p).error
          BY <1>2, <1>3, <2>7, Zenon
        <4>4. p \notin st.marked /\ ~st.panic
          BY <1>2, <1>6, <2>1
        <4> QED
          BY <1>3, <4>1, <4>2, <4>3, <4>4, Zenon DEF RecordLoses
    <2>8. CASE ~(e >= WriteBufferSize - a) /\ ~t.error
      <3>1. PICK y, d : y = r \o t.rows \o LastRows(p) /\ d = (f > WriteBufferSize)
        OBVIOUS
      <3>2. u = [w EXCEPT !.used = f, !.newUniq = t.uniq, !.panic = @ \/ d, !.rows = y]
        <4>1. w.rows = r
          BY <1>3
        <4> QED
          BY <2>5, <2>8, <3>1, <4>1, Zenon
      <3>3. u = [used |-> f, rows |-> y, newUniq |-> t.uniq, marked |-> m \cup {p},
                 lost |-> o, panic |-> (g \/ d)]
        BY <1>3, <3>2
      <3>4. (g \/ d) = d
        <4>1. d \in BOOLEAN
          BY <3>1
        <4> QED
          BY <2>1, <4>1
      <3> QED
        BY <1>2, <1>3, <1>6, <2>1, <2>8, <3>1, <3>3, <3>4, Zenon DEF RecordStores, FullSize
    <2> QED
      BY <1>3, <2>6, <2>7, <2>8, Zenon
  <1> QED
    BY <1>5, <1>6

\* What is stored for names that have their rows.
RowsOfAll(M) == UNION {RowsOf(p) : p \in M}
ParentsOfAll(M) == UNION {ToSet(Parents(p)) : p \in M}

\* A row of a parent is one of a name below it, any other row is one of the name.
LEMMA RowsMembers ==
  ASSUME NEW M, NEW x
  PROVE  /\ <<"tree", x>> \in RowsOfAll(M) <=> x \in ParentsOfAll(M)
         /\ \A k \in {"name", "reverse", "day", "reverseDay"} : <<k, x>> \in RowsOfAll(M) <=> x \in M
  <1>1. ASSUME NEW p \in M
        PROVE  /\ <<"tree", x>> \in RowsOf(p) <=> x \in ToSet(Parents(p))
               /\ \A k \in {"name", "reverse", "day", "reverseDay"} : <<k, x>> \in RowsOf(p) <=> x = p
    <2>1. PICK A, B : /\ A = {<<"name", p>>, <<"reverse", p>>, <<"day", p>>, <<"reverseDay", p>>}
                      /\ B = {<<"tree", q>> : q \in ToSet(Parents(p))}
      OBVIOUS
    <2>2. RowsOf(p) = A \cup B
      BY <2>1, Zenon DEF RowsOf
    <2>3. <<"tree", x>> \notin A
      BY <2>1
    <2>4. <<"tree", x>> \in B <=> x \in ToSet(Parents(p))
      BY <2>1
    <2>5. ASSUME NEW k \in {"name", "reverse", "day", "reverseDay"}
          PROVE  <<k, x>> \notin B /\ (<<k, x>> \in A <=> x = p)
      BY <2>1
    <2> QED
      BY <2>2, <2>3, <2>4, <2>5
  <1> QED
    BY <1>1, Zenon DEF RowsOfAll, ParentsOfAll

\* One name more.
LEMMA RowsMore ==
  ASSUME NEW M, NEW p
  PROVE  /\ RowsOfAll(M \cup {p}) = RowsOfAll(M) \cup RowsOf(p)
         /\ ParentsOfAll(M \cup {p}) = ParentsOfAll(M) \cup ToSet(Parents(p))
  BY DEF RowsOfAll, ParentsOfAll

LEMMA ParentsAncestral ==
  ASSUME NEW I, NEW M \in SUBSET NamesOf(I)
  PROVE  Ancestral(ParentsOfAll(M)) /\ ParentsOfAll(M) \subseteq NamesOf(I)
  <1>1. ASSUME NEW x \in ParentsOfAll(M) PROVE ToSet(Parents(x)) \subseteq ParentsOfAll(M) /\ x \in NamesOf(I)
    <2>1. PICK p \in M : x \in ToSet(Parents(p))
      BY <1>1 DEF ParentsOfAll
    <2>2. p \in NamesOf(I)
      OBVIOUS
    <2>3. ToSet(Parents(x)) \subseteq ToSet(Parents(p)) /\ x \in NamesOf(I)
      BY <2>1, <2>2, ParentsWithin, ParentAt
    <2>4. ToSet(Parents(p)) \subseteq ParentsOfAll(M)
      BY <2>1 DEF ParentsOfAll
    <2> QED
      BY <2>3, <2>4
  <1> QED
    BY <1>1 DEF Ancestral

\* Until a name is lost, the names so far have their rows, and no row comes twice.
RowsComplete(s, st) ==
  /\ st.marked = ToSet(s) /\ st.newUniq = ParentsOfAll(ToSet(s))
  /\ IsInjective(st.rows) /\ ToSet(st.rows) = RowsOfAll(ToSet(s))
IndexInv(I, s, st) ==
  st \in IndexStates(I) /\ (st.lost = {} /\ ~st.panic => RowsComplete(s, st))

\* The three last rows of a name.
LEMMA LastRowsAre ==
  ASSUME NEW I, NEW p \in NamesOf(I)
  PROVE  /\ LastRows(p) \in Seq(IndexRows(I)) /\ IsInjective(LastRows(p))
         /\ ToSet(LastRows(p)) = {<<"reverse", p>>, <<"day", p>>, <<"reverseDay", p>>}
  <1>1. PICK a, b, c, s : /\ a = <<"reverse", p>> /\ b = <<"day", p>> /\ c = <<"reverseDay", p>>
                          /\ s = LastRows(p)
    OBVIOUS
  <1>2. s = <<a, b, c>>
    BY <1>1, Zenon DEF LastRows
  <1>3. a \in IndexRows(I) /\ b \in IndexRows(I) /\ c \in IndexRows(I)
    BY <1>1 DEF IndexRows, RowKinds
  <1>4. a # b /\ a # c /\ b # c
    BY <1>1
  <1>5. s \in Seq(IndexRows(I))
    BY <1>2, <1>3
  <1>6. DOMAIN s = 1 .. 3 /\ s[1] = a /\ s[2] = b /\ s[3] = c
    BY <1>2
  <1>7. 1 .. 3 = {1, 2, 3}
    OBVIOUS
  <1>8. ToSet(s) = {a, b, c}
    BY <1>6, <1>7 DEF ToSet
  <1>9. IsInjective(s)
    BY <1>4, <1>6, <1>7 DEF IsInjective
  <1> QED
    BY <1>1, <1>5, <1>8, <1>9, Zenon

\* The loop over the parents of a name, typed.
LEMMA TreeTyped ==
  ASSUME NEW I, NEW U \in SUBSET NamesOf(I), NEW p \in NamesOf(I)
  PROVE  /\ TreeOf(U, p) \in TreeStates(I) /\ TreeOf(U, p).used \in Nat
         /\ TreeOf(U, p).rows \in Seq(IndexRows(I)) /\ TreeOf(U, p).uniq \in SUBSET NamesOf(I)
         /\ TreeOf(U, p).error \in BOOLEAN /\ RowSize(PathLength(p)) \in Nat
  <1>1. PICK n : n = Len(p) - 1 /\ n \in 0 .. n
    <2>1. Len(p) \in Nat \ {0}
      BY ParentFacts
    <2> QED
      BY <2>1
  <1>2. PICK r \in [0 .. n -> TreeStates(I)] : TreeRuns(U, p, r)
    BY <1>1, TreeRun
  <1>3. PICK t : t = TreeOf(U, p)
    OBVIOUS
  <1>4. t = r[n]
    BY <1>1, <1>2, <1>3, Zenon DEF TreeRuns
  <1>5. t \in TreeStates(I)
    BY <1>1, <1>2, <1>4
  <1>6. /\ t.used \in Nat /\ t.rows \in Seq(IndexRows(I)) /\ t.uniq \in SUBSET NamesOf(I)
        /\ t.error \in BOOLEAN
    BY <1>5 DEF TreeStates
  <1>7. PathLength(p) \in Nat
    BY LengthTyped
  <1>8. RowSize(PathLength(p)) \in Nat
    BY <1>7, SizeOfRow
  <1> QED
    BY <1>3, <1>5, <1>6, <1>8, Zenon

\* A name without rows is lost.
LEMMA LosesTyped ==
  ASSUME NEW I, NEW st \in IndexStates(I), NEW p \in NamesOf(I), NEW u, RecordLoses(st, p, u)
  PROVE  u \in IndexStates(I) /\ u.lost # {}
  <1>1. PICK t : t = TreeOf(st.newUniq, p)
    OBVIOUS
  <1>2. /\ st.used \in Nat /\ st.rows \in Seq(IndexRows(I)) /\ st.newUniq \in SUBSET NamesOf(I)
        /\ st.marked \in SUBSET NamesOf(I) /\ st.lost \in SUBSET NamesOf(I) /\ st.panic \in BOOLEAN
    BY DEF IndexStates
  <1>3. t.used \in Nat /\ t.uniq \in SUBSET NamesOf(I)
    BY <1>1, <1>2, TreeTyped
  <1>4. PICK a \in {st.used, t.used}, b \in {st.newUniq, t.uniq} :
          u = [used |-> a, rows |-> st.rows, newUniq |-> b, marked |-> st.marked \cup {p},
               lost |-> st.lost \cup {p}, panic |-> st.panic]
    BY <1>1, Zenon DEF RecordLoses
  <1>5. a \in Nat /\ b \in SUBSET NamesOf(I)
    BY <1>2, <1>3, <1>4
  <1>6. u \in IndexStates(I)
    BY <1>2, <1>4, <1>5 DEF IndexStates
  <1>7. u.lost = st.lost \cup {p}
    BY <1>4
  <1> QED
    BY <1>6, <1>7

\* A stored one is a name more.
StoredFields(st, p, u) ==
  /\ u.used = FullSize(st, p) /\ u.rows = (st.rows \o TreeOf(st.newUniq, p).rows) \o LastRows(p)
  /\ u.newUniq = TreeOf(st.newUniq, p).uniq /\ u.marked = st.marked \cup {p}
  /\ u.lost = st.lost /\ u.panic = (FullSize(st, p) > WriteBufferSize)
LEMMA StoresTyped ==
  ASSUME NEW I, NEW st \in IndexStates(I), NEW p \in NamesOf(I), NEW u, RecordStores(st, p, u)
  PROVE  u \in IndexStates(I) /\ StoredFields(st, p, u)
  <1>1. PICK t, f, w, d : /\ t = TreeOf(st.newUniq, p) /\ f = FullSize(st, p)
                          /\ w = (st.rows \o t.rows) \o LastRows(p) /\ d = (f > WriteBufferSize)
    OBVIOUS
  <1>2. /\ st.rows \in Seq(IndexRows(I)) /\ st.newUniq \in SUBSET NamesOf(I)
        /\ st.marked \in SUBSET NamesOf(I) /\ st.lost \in SUBSET NamesOf(I)
    BY DEF IndexStates
  <1>3. /\ t.used \in Nat /\ t.rows \in Seq(IndexRows(I)) /\ t.uniq \in SUBSET NamesOf(I)
        /\ RowSize(PathLength(p)) \in Nat
    BY <1>1, <1>2, TreeTyped
  <1>4. f \in Nat
    <2>1. f = t.used + 3 * RowSize(PathLength(p))
      BY <1>1 DEF FullSize
    <2> QED
      BY <1>3, <2>1
  <1>5. w \in Seq(IndexRows(I))
    <2>1. st.rows \o t.rows \in Seq(IndexRows(I))
      BY <1>2, <1>3, ConcatProperties
    <2>2. LastRows(p) \in Seq(IndexRows(I))
      BY LastRowsAre
    <2> QED
      BY <1>1, <2>1, <2>2, ConcatProperties
  <1>6. d \in BOOLEAN
    BY <1>1
  <1>7. u = [used |-> f, rows |-> w, newUniq |-> t.uniq, marked |-> st.marked \cup {p},
             lost |-> st.lost, panic |-> d]
    BY <1>1, Zenon DEF RecordStores
  <1>8. u \in IndexStates(I)
    BY <1>2, <1>3, <1>4, <1>5, <1>6, <1>7 DEF IndexStates
  <1>9. /\ u.used = f /\ u.rows = w /\ u.newUniq = t.uniq /\ u.marked = st.marked \cup {p}
        /\ u.lost = st.lost /\ u.panic = d
    BY <1>7
  <1> QED
    BY <1>1, <1>8, <1>9, Zenon DEF StoredFields

LEMMA StoresComplete ==
  ASSUME NEW I, NEW s \in Seq(NamesOf(I)), NEW st \in IndexStates(I), NEW p \in NamesOf(I), NEW u,
         RecordStores(st, p, u), RowsComplete(s, st)
  PROVE  RowsComplete(Append(s, p), u)
  <1>1. PICK U, M, t, R : /\ U = st.newUniq /\ M = ToSet(s) /\ t = TreeOf(U, p) /\ R = IndexRows(I)
    OBVIOUS
  <1>2. /\ st.marked = M /\ U = ParentsOfAll(M) /\ IsInjective(st.rows) /\ ToSet(st.rows) = RowsOfAll(M)
    BY <1>1, Zenon DEF RowsComplete
  <1>3. ToSet(Append(s, p)) = M \cup {p} /\ M \in SUBSET NamesOf(I)
    <2>1. M \subseteq NamesOf(I)
      BY <1>1 DEF ToSet
    <2> QED
      BY <1>1, <2>1, AppendSingle
  <1>4. U \in SUBSET NamesOf(I) /\ Ancestral(U)
    BY <1>2, <1>3, ParentsAncestral
  <1>5. TreeInv(I, U, p, Len(p) - 1, t)
    BY <1>1, <1>4, ParentRowsExact
  <1>6. p \notin M /\ ~t.error
    BY <1>1, <1>2, Zenon DEF RecordStores
  <1>7. PICK P : P = ToSet(Parents(p))
    OBVIOUS
  <1>8. P = {Parents(p)[i] : i \in 1 .. Len(p) - 1}
    BY <1>7, ParentAt
  <1>9. /\ IsInjective(t.rows) /\ U \subseteq t.uniq /\ t.uniq \subseteq U \cup P /\ P \subseteq t.uniq
        /\ ToSet(t.rows) = {<<"name", p>>} \cup {<<"tree", x>> : x \in t.uniq \ U}
    BY <1>5, <1>6, <1>8, Zenon DEF TreeInv
  <1>10. t.uniq = U \cup P /\ t.uniq \ U = P \ U
    BY <1>9
  <1>11. StoredFields(st, p, u) /\ t.rows \in Seq(R) /\ st.rows \in Seq(R)
    <2>1. t.rows \in Seq(R)
      BY <1>1, <1>4, TreeTyped
    <2>2. StoredFields(st, p, u)
      BY StoresTyped
    <2> QED
      BY <1>1, <2>1, <2>2 DEF IndexStates
  <1>12. PICK L, v, w : L = LastRows(p) /\ v = st.rows \o t.rows /\ w = v \o L
    OBVIOUS
  <1>13. /\ u.rows = w /\ u.newUniq = U \cup P /\ u.marked = M \cup {p}
    BY <1>1, <1>2, <1>10, <1>11, <1>12, Zenon DEF StoredFields
  <1>14. /\ L \in Seq(R) /\ IsInjective(L)
         /\ ToSet(L) = {<<"reverse", p>>, <<"day", p>>, <<"reverseDay", p>>}
    BY <1>1, <1>12, LastRowsAre
  <1>15. /\ <<"name", p>> \notin RowsOfAll(M) /\ <<"reverse", p>> \notin RowsOfAll(M)
         /\ <<"day", p>> \notin RowsOfAll(M) /\ <<"reverseDay", p>> \notin RowsOfAll(M)
    BY <1>6, RowsMembers
  <1>16. \A x : <<"tree", x>> \in RowsOfAll(M) <=> x \in U
    BY <1>2, RowsMembers
  <1>17. ToSet(st.rows) \cap ToSet(t.rows) = {}
    BY <1>2, <1>9, <1>15, <1>16
  <1>18. v \in Seq(R) /\ ToSet(v) = ToSet(st.rows) \cup ToSet(t.rows)
    BY <1>11, <1>12, ConcatSet
  <1>19. IsInjective(v)
    BY <1>2, <1>9, <1>11, <1>12, <1>17, ConcatSingle
  <1>20. ToSet(v) \cap ToSet(L) = {}
    <2>1. ToSet(t.rows) \cap ToSet(L) = {}
      BY <1>9, <1>14
    <2>2. ToSet(st.rows) \cap ToSet(L) = {}
      BY <1>2, <1>14, <1>15
    <2> QED
      BY <1>18, <2>1, <2>2
  <1>21. ToSet(w) = ToSet(v) \cup ToSet(L)
    <2>1. v \in Seq(R) /\ L \in Seq(R)
      BY <1>14, <1>18
    <2>2. ToSet(v \o L) = ToSet(v) \cup ToSet(L)
      BY <2>1, ConcatSet
    <2> QED
      BY <1>12, <2>2, Zenon
  <1>22. IsInjective(w)
    BY <1>12, <1>14, <1>18, <1>19, <1>20, ConcatSingle
  <1>23. RowsOfAll(M \cup {p}) = RowsOfAll(M) \cup RowsOf(p) /\ ParentsOfAll(M \cup {p}) = U \cup P
    BY <1>2, <1>7, RowsMore
  <1>24. ToSet(w) = RowsOfAll(M \cup {p})
    <2>1. RowsOf(p) = {<<"name", p>>, <<"reverse", p>>, <<"day", p>>, <<"reverseDay", p>>}
                      \cup {<<"tree", x>> : x \in P}
      BY <1>7 DEF RowsOf
    <2>2. {<<"tree", x>> : x \in P} = {<<"tree", x>> : x \in P \ U} \cup {<<"tree", x>> : x \in P \cap U}
      OBVIOUS
    <2>3. {<<"tree", x>> : x \in P \cap U} \subseteq RowsOfAll(M)
      BY <1>16
    <2>4. ToSet(w) = RowsOfAll(M) \cup {<<"name", p>>} \cup {<<"tree", x>> : x \in P \ U}
                     \cup {<<"reverse", p>>, <<"day", p>>, <<"reverseDay", p>>}
      BY <1>2, <1>9, <1>10, <1>14, <1>18, <1>21
    <2> QED
      BY <1>23, <2>1, <2>2, <2>3, <2>4
  <1> QED
    BY <1>3, <1>13, <1>22, <1>23, <1>24, Zenon DEF RowsComplete

\* A record leads from states to states.
LEMMA RecordTyped ==
  ASSUME NEW I, NEW st \in IndexStates(I), NEW p \in NamesOf(I)
  PROVE  indexRecord(st, p) \in IndexStates(I)
  <1>1. PICK u : u = indexRecord(st, p)
    OBVIOUS
  <1>2. u = st \/ RecordLoses(st, p, u) \/ RecordStores(st, p, u)
    BY <1>1, RecordIs, Zenon
  <1>3. RecordLoses(st, p, u) => u \in IndexStates(I)
    BY LosesTyped
  <1>4. RecordStores(st, p, u) => u \in IndexStates(I)
    BY StoresTyped
  <1> QED
    BY <1>1, <1>2, <1>3, <1>4, Zenon
LEMMA RecordClosed ==
  ASSUME NEW I
  PROVE  Names!Closed(IndexStates(I), NamesOf(I)) /\ NewIndex \in IndexStates(I)
  <1>1. \A st \in IndexStates(I) : \A p \in NamesOf(I) : indexRecord(st, p) \in IndexStates(I)
    BY RecordTyped
  <1>2. NewIndex \in IndexStates(I)
    <2>1. /\ 0 \in Nat /\ <<>> \in Seq(IndexRows(I)) /\ {} \in SUBSET NamesOf(I) /\ FALSE \in BOOLEAN
      BY EmptySeq
    <2> QED
      BY <2>1 DEF NewIndex, IndexStates
  <1> QED
    BY <1>1, <1>2, Zenon DEF Names!Closed

\* One name more, known, lost or stored.
LEMMA RecordInv ==
  ASSUME NEW I, NEW s \in Seq(NamesOf(I)), NEW st, IndexInv(I, s, st), NEW p \in NamesOf(I)
  PROVE  IndexInv(I, Append(s, p), indexRecord(st, p))
  <1>1. PICK u, q : u = indexRecord(st, p) /\ q = Append(s, p)
    OBVIOUS
  <1>2. st \in IndexStates(I) /\ (st.lost = {} /\ ~st.panic => RowsComplete(s, st))
    BY Zenon DEF IndexInv
  <1>3. u \in IndexStates(I)
    BY <1>1, <1>2, RecordTyped
  <1>4. CASE (p \in st.marked \/ st.panic) /\ u = st
    <2>1. ASSUME st.lost = {}, ~st.panic PROVE RowsComplete(q, st)
      <3>1. RowsComplete(s, st)
        BY <1>2, <2>1
      <3>2. p \in ToSet(s)
        BY <1>4, <2>1, <3>1, Zenon DEF RowsComplete
      <3>3. ToSet(q) = ToSet(s) \cup {p}
        BY <1>1, AppendSingle
      <3>4. ToSet(q) = ToSet(s)
        BY <3>2, <3>3
      <3> QED
        BY <3>1, <3>4, Zenon DEF RowsComplete
    <2> QED
      BY <1>1, <1>3, <1>4, <2>1, Zenon DEF IndexInv
  <1>5. CASE RecordLoses(st, p, u)
    <2>1. u.lost # {}
      BY <1>2, <1>5, LosesTyped
    <2> QED
      BY <1>1, <1>3, <2>1, Zenon DEF IndexInv
  <1>6. CASE RecordStores(st, p, u)
    <2>1. ASSUME u.lost = {} PROVE RowsComplete(q, u)
      <3>1. u.lost = st.lost
        <4>1. StoredFields(st, p, u)
          BY <1>2, <1>6, StoresTyped
        <4> QED
          BY <4>1, Zenon DEF StoredFields
      <3>2. ~st.panic
        BY <1>6, Zenon DEF RecordStores
      <3>3. RowsComplete(s, st)
        BY <1>2, <2>1, <3>1, <3>2
      <3> QED
        BY <1>1, <1>2, <1>6, <3>3, StoresComplete
    <2> QED
      BY <1>1, <1>3, <2>1, Zenon DEF IndexInv
  <1> QED
    <2>1. \/ (p \in st.marked \/ st.panic) /\ u = st
          \/ RecordLoses(st, p, u) \/ RecordStores(st, p, u)
      BY <1>1, <1>2, RecordIs, Zenon
    <2> QED
      BY <1>4, <1>5, <1>6, <2>1

\* So it is at the end of a file, whatever its names.
LEMMA IndexHolds ==
  ASSUME NEW I, NEW s \in Seq(NamesOf(I))
  PROVE  IndexInv(I, s, Names!Value(NewIndex, s))
  <1> DEFINE K == {t \in Seq(NamesOf(I)) : IndexInv(I, t, Names!Value(NewIndex, t))}
  <1>1. <<>> \in K
    <2>1. Names!Value(NewIndex, <<>>) = NewIndex
      BY Names!FoldEmpty
    <2>2. PICK e, st : e = <<>> /\ st = NewIndex
      OBVIOUS
    <2>3. st \in IndexStates(I)
      BY <2>2, RecordClosed
    <2>4. st.marked = {} /\ st.newUniq = {} /\ st.rows = <<>>
      BY <2>2 DEF NewIndex
    <2>5. e \in Seq(NamesOf(I)) /\ DOMAIN e = {}
      BY <2>2
    <2>6. ToSet(e) = {} /\ IsInjective(e)
      BY <2>5 DEF ToSet, IsInjective
    <2>7. RowsOfAll({}) = {} /\ ParentsOfAll({}) = {}
      BY DEF RowsOfAll, ParentsOfAll
    <2>8. RowsComplete(e, st)
      BY <2>2, <2>4, <2>6, <2>7, Zenon DEF RowsComplete
    <2> QED
      BY <2>1, <2>2, <2>3, <2>5, <2>8, Zenon DEF IndexInv
  <1>2. ASSUME NEW t \in Seq(NamesOf(I)), NEW p \in NamesOf(I), t \in K PROVE Append(t, p) \in K
    <2>1. PICK st : st = Names!Value(NewIndex, t) /\ IndexInv(I, t, st)
      BY <1>2
    <2>2. Names!Value(NewIndex, Append(t, p)) = indexRecord(st, p)
      BY <2>1, RecordClosed, Names!FoldAppend
    <2>3. IndexInv(I, Append(t, p), indexRecord(st, p)) /\ Append(t, p) \in Seq(NamesOf(I))
      BY <2>1, RecordInv, AppendProperties
    <2> QED
      BY <2>2, <2>3
  <1> HIDE DEF K
  <1>3. s \in K
    BY <1>1, <1>2, SeqAppendInduction
  <1> QED
    BY <1>3 DEF K

\* Names that are so short that two fit: none is lost and the buffer never overflows.
FitNames(I) == {p \in NamesOf(I) : 2 * RowsNeeded(p) < WriteBufferSize}
IndexFits(st) ==
  st.lost = {} /\ st.panic = FALSE /\ (2 * st.used < WriteBufferSize \/ st.used = 0)
LEMMA RecordFits ==
  ASSUME WriteBufferSize \in Nat, NEW I, NEW st \in IndexStates(I), IndexFits(st),
         NEW p \in FitNames(I)
  PROVE  IndexFits(indexRecord(st, p))
  <1>1. PICK U, a, l, R, N, t, u, f :
          /\ U = st.newUniq /\ a = st.used /\ l = PathLength(p) /\ R = RowSize(l) /\ N = RowsNeeded(p)
          /\ t = TreeOf(U, p) /\ u = indexRecord(st, p) /\ f = FullSize(st, p)
    OBVIOUS
  <1>2. p \in NamesOf(I) /\ 2 * N < WriteBufferSize
    BY <1>1 DEF FitNames
  <1>3. U \in SUBSET NamesOf(I) /\ a \in Nat
    BY <1>1 DEF IndexStates
  <1>4. t.error = FALSE /\ t.used + 3 * R <= N /\ N \in Nat /\ 4 * R <= N
    BY <1>1, <1>2, <1>3, TreeFits
  <1>5. l \in Nat /\ R \in Nat /\ l + 11 <= R
    BY <1>1, <1>2, LengthTyped, SizeOfRow
  <1>6. f = t.used + 3 * R
    BY <1>1, Zenon DEF FullSize
  <1>7. f <= N
    BY <1>4, <1>6
  <1>8. ~RecordLoses(st, p, u)
    <2>1. 2 * (2 + 4 + l + 4) < WriteBufferSize - a
      <3>1. 2 * a < WriteBufferSize \/ a = 0
        BY <1>1, Zenon DEF IndexFits
      <3> QED
        BY <1>2, <1>3, <1>4, <1>5, <3>1
    <2>2. ~(2 * (2 + 4 + l + 4) >= WriteBufferSize - a)
      BY <1>3, <1>5, <2>1
    <2> QED
      BY <1>1, <1>4, <2>2, Zenon DEF RecordLoses
  <1>9. CASE u = st
    BY <1>1, <1>9, Zenon
  <1>10. CASE RecordStores(st, p, u)
    <2>1. u.used = f /\ u.lost = st.lost /\ u.panic = (f > WriteBufferSize)
      <3>1. StoredFields(st, p, u)
        BY <1>2, <1>10, StoresTyped
      <3> QED
        BY <1>1, <3>1, Zenon DEF StoredFields
    <2>2. f \in Nat
      <3>1. t.used \in Nat
        BY <1>1, <1>2, <1>3, TreeTyped
      <3> QED
        BY <1>5, <1>6, <3>1
    <2>3. 2 * f < WriteBufferSize /\ (f > WriteBufferSize) = FALSE
      BY <1>2, <1>4, <1>7, <2>2
    <2> QED
      BY <1>1, <2>1, <2>3, Zenon DEF IndexFits
  <1> QED
    <2>1. u = st \/ RecordLoses(st, p, u) \/ RecordStores(st, p, u)
      BY <1>1, RecordIs, Zenon
    <2> QED
      BY <1>8, <1>9, <1>10, <2>1

LEMMA IndexStays ==
  ASSUME WriteBufferSize \in Nat, NEW I, NEW s \in Seq(FitNames(I))
  PROVE  IndexFits(Names!Value(NewIndex, s))
  <1> DEFINE K == {t \in Seq(FitNames(I)) : LET v == Names!Value(NewIndex, t)
                                            IN v \in IndexStates(I) /\ IndexFits(v)}
  <1>0. NewIndex \in IndexStates(I) /\ Names!Closed(IndexStates(I), FitNames(I))
    <2>1. Names!Closed(IndexStates(I), NamesOf(I)) /\ NewIndex \in IndexStates(I)
      BY RecordClosed
    <2>2. FitNames(I) \subseteq NamesOf(I)
      BY DEF FitNames
    <2> QED
      BY <2>1, <2>2, Zenon DEF Names!Closed
  <1>1. <<>> \in K
    <2>1. Names!Value(NewIndex, <<>>) = NewIndex
      BY Names!FoldEmpty
    <2>2. NewIndex.lost = {} /\ NewIndex.panic = FALSE /\ NewIndex.used = 0
      BY DEF NewIndex
    <2>3. IndexFits(NewIndex)
      BY <2>2, Zenon DEF IndexFits
    <2>4. <<>> \in Seq(FitNames(I))
      BY EmptySeq
    <2> QED
      BY <1>0, <2>1, <2>3, <2>4, Zenon
  <1>2. ASSUME NEW t \in Seq(FitNames(I)), NEW p \in FitNames(I), t \in K PROVE Append(t, p) \in K
    <2>1. PICK st : st = Names!Value(NewIndex, t) /\ st \in IndexStates(I) /\ IndexFits(st)
      BY <1>2
    <2>2. Names!Value(NewIndex, Append(t, p)) = indexRecord(st, p)
      BY <1>0, <2>1, Names!FoldAppend
    <2>3. IndexFits(indexRecord(st, p))
      BY <2>1, RecordFits
    <2>4. indexRecord(st, p) \in IndexStates(I)
      BY <1>0, <2>1, Zenon DEF Names!Closed
    <2>5. Append(t, p) \in Seq(FitNames(I))
      BY AppendProperties
    <2> QED
      BY <2>2, <2>3, <2>4, <2>5, Zenon
  <1> HIDE DEF K
  <1>3. s \in K
    BY <1>1, <1>2, SeqAppendInduction
  <1> QED
    BY <1>3 DEF K

LEMMA IndexExact ==
  ASSUME WriteBufferSize \in Nat, NEW I, NEW s \in Seq(NamesOf(I))
  PROVE  IndexAgrees(s)
  <1>1. PICK st, all : st = indexParseFile(s) /\ all = RowsOfAll(ToSet(s))
    OBVIOUS
  <1>2. st = Names!Value(NewIndex, s)
    BY <1>1, NamesIs
  <1>3. ASSUME \A i \in DOMAIN s : 2 * RowsNeeded(s[i]) < WriteBufferSize
        PROVE  st.lost = {} /\ ~st.panic
    <2>1. \A i \in 1 .. Len(s) : s[i] \in FitNames(I)
      BY <1>3, LenProperties DEF FitNames
    <2>2. s \in Seq(FitNames(I))
      BY <2>1, SeqWithin
    <2> QED
      BY <1>2, <2>2, IndexStays, Zenon DEF IndexFits
  <1>4. ASSUME st.lost = {}, ~st.panic
        PROVE  ToSet(st.rows) = all /\ Len(st.rows) = Cardinality(all)
    <2>1. IndexInv(I, s, st)
      BY <1>2, IndexHolds
    <2>2. RowsComplete(s, st) /\ st \in IndexStates(I)
      BY <1>4, <2>1, Zenon DEF IndexInv
    <2>3. IsInjective(st.rows) /\ ToSet(st.rows) = all
      BY <1>1, <2>2, Zenon DEF RowsComplete
    <2>4. st.rows \in Seq(IndexRows(I))
      BY <2>2 DEF IndexStates
    <2> QED
      BY <2>3, <2>4, SingleCount
  <1>5. all = UNION {RowsOf(p) : p \in ToSet(s)}
    BY <1>1, Zenon DEF RowsOfAll
  <1> QED
    BY <1>1, <1>3, <1>4, <1>5, Zenon DEF IndexAgrees

-----------------------------------------------------------------------------
(***************************************************************************)
(* The states.                                                             *)
(***************************************************************************)
InputSeqs == \A k \in DOMAIN Inputs : \E S : Inputs[k] \in Seq(S)

\* any element of any kind
Elements == UNION {UNION {Inputs[k][i] : i \in DOMAIN Inputs[k]} : k \in DOMAIN Inputs}
InputInv ==
  /\ in = [kind |-> in.kind, s |-> in.s]
  /\ in.kind \in DOMAIN Inputs /\ in.s \in Seq(Elements) /\ Len(in.s) <= Len(Inputs[in.kind])
  /\ \A i \in 1 .. Len(in.s) : in.s[i] \in Inputs[in.kind][i]

\* Inputs grow by elements of their kind only.
LEMMA InputsHold ==
  ASSUME InputSeqs
  PROVE  Spec => []InputInv
  <1>1. ASSUME Init PROVE InputInv
    <2>1. PICK k \in DOMAIN Inputs : in = [kind |-> k, s |-> <<>>]
      BY <1>1 DEF Init
    <2>2. Len(Inputs[k]) \in Nat
      BY LenProperties DEF InputSeqs
    <2>3. in.kind = k /\ in.s = <<>>
      BY <2>1
    <2> QED
      BY <2>1, <2>2, <2>3, EmptySeq DEF InputInv
  <1>2. ASSUME InputInv, [Next]_in PROVE InputInv'
    <2>1. CASE UNCHANGED in
      BY <1>2, <2>1 DEF InputInv
    <2>2. CASE Grow
      <3>1. PICK k, s, n : k = in.kind /\ s = in.s /\ n = Len(s)
        OBVIOUS
      <3>2. /\ in = [kind |-> k, s |-> s] /\ k \in DOMAIN Inputs /\ s \in Seq(Elements)
            /\ n <= Len(Inputs[k]) /\ \A i \in 1 .. n : s[i] \in Inputs[k][i]
        BY <1>2, <3>1, Zenon DEF InputInv
      <3>3. PICK x \in Inputs[k][n + 1] : n < Len(Inputs[k]) /\ in' = [in EXCEPT !.s = Append(s, x)]
        BY <2>2, <3>1 DEF Grow
      <3>4. n \in Nat /\ Len(Inputs[k]) \in Nat /\ DOMAIN Inputs[k] = 1 .. Len(Inputs[k])
        BY <3>1, <3>2, LenProperties DEF InputSeqs
      <3>5. x \in Elements
        BY <3>2, <3>3, <3>4 DEF Elements
      <3>6. /\ Append(s, x) \in Seq(Elements) /\ Len(Append(s, x)) = n + 1
            /\ \A i \in 1 .. n : Append(s, x)[i] = s[i]
            /\ Append(s, x)[n + 1] = x
        BY <3>1, <3>2, <3>5, AppendProperties
      <3>7. in' = [kind |-> k, s |-> Append(s, x)]
        BY <3>2, <3>3
      <3>8. in.kind' = k /\ in.s' = Append(s, x)
        BY <3>7
      <3>9. \A i \in 1 .. n + 1 : Append(s, x)[i] \in Inputs[k][i]
        BY <3>2, <3>3, <3>4, <3>6
      <3>10. n + 1 <= Len(Inputs[k])
        BY <3>3, <3>4
      <3> QED
        BY <3>2, <3>6, <3>7, <3>8, <3>9, <3>10 DEF InputInv
    <2> QED
      BY <1>2, <2>1, <2>2 DEF Next
  <1> QED
    BY <1>1, <1>2, PTL DEF Spec

\* The patterns of the blacklist are byte sequences.
PatternSeqs == \A p \in Patterns : \E S : p \in Seq(S)

\* Every way of reversing a path gives the same, and both kinds of points tables leave out
\* the names that a pattern of the blacklist matches, and no other.
THEOREM PathsMatchedSafe ==
  ASSUME InputSeqs, PatternSeqs
  PROVE  Spec => []PathsMatched
  <1>1. ASSUME InputInv PROVE PathsMatched
    <2>1. PICK k, s : k = in.kind /\ s = in.s
      OBVIOUS
    <2>2. s \in Seq(Elements)
      BY <1>1, <2>1, Zenon DEF InputInv
    <2>3. PICK X : X = Elements \cup {Dot, Stale, 42}
                         \cup UNION {{p[i] : i \in 1 .. Len(p)} : p \in Patterns}
      OBVIOUS
    <2>4. Dot \in X /\ Stale \in X /\ 42 \in X /\ Elements \subseteq X
      BY <2>3
    <2>5. s \in Seq(X)
      BY <2>2, <2>4, SeqMonotonic
    <2>6. Wild \in Seq(X)
      BY <2>4 DEF Wild
    <2>7. ASSUME NEW p \in Patterns PROVE p \in Seq(X)
      <3>1. PICK S : p \in Seq(S)
        BY <2>7 DEF PatternSeqs
      <3>2. PICK n : n = Len(p) /\ n \in Nat /\ p \in [1 .. n -> S]
        BY <3>1, LenProperties
      <3>3. \A i \in 1 .. n : p[i] \in X
        BY <2>3, <2>7, <3>2
      <3>4. p \in [1 .. n -> X]
        BY <3>2, <3>3
      <3> QED
        BY <3>2, <3>4, FunctionSeq
    <2>8. PathsAgree(Patterns, s)
      BY <2>4, <2>5, <2>6, <2>7, PathExact
    <2> QED
      BY <2>1, <2>8, Zenon DEF PathsMatched
  <1> QED
    BY <1>1, InputsHold, PTL

\* What the inputs of the index are: names of parts, each with its length.
IndexInputs ==
  /\ InputSeqs
  /\ "index" \in DOMAIN Inputs =>
       \E I : \A i \in 1 .. Len(Inputs["index"]) : Inputs["index"][i] \subseteq NamesOf(I)

\* Every name of a file has its four rows and every parent of one its own, none of them
\* twice, for any size of the write buffer and any names, unless the code reports one as
\* lost or panics; and it does neither while twice the rows of a name are less than the
\* buffer.
THEOREM IndexCompleteSafe ==
  ASSUME IndexInputs
  PROVE  Spec => []IndexComplete
  <1>1. ASSUME InputInv PROVE IndexComplete
    <2>1. PICK k, s : k = in.kind /\ s = in.s
      OBVIOUS
    <2>2. /\ k \in DOMAIN Inputs /\ s \in Seq(Elements) /\ Len(s) <= Len(Inputs[k])
          /\ \A i \in 1 .. Len(s) : s[i] \in Inputs[k][i]
      BY <1>1, <2>1, Zenon DEF InputInv
    <2>3. \A i \in 1 .. Len(s) : i \in 1 .. Len(Inputs[k])
      <3>1. Len(s) \in Nat /\ Len(Inputs[k]) \in Nat
        BY <2>2, LenProperties DEF IndexInputs, InputSeqs
      <3> QED
        BY <2>2, <3>1
    <2>4. ASSUME k = "index" PROVE IndexAgrees(s)
      <3>1. PICK I : \A i \in 1 .. Len(Inputs["index"]) : Inputs["index"][i] \subseteq NamesOf(I)
        BY <2>2, <2>4, Zenon DEF IndexInputs
      <3>2. \A i \in 1 .. Len(s) : s[i] \in NamesOf(I)
        BY <2>2, <2>3, <2>4, <3>1, Zenon
      <3>3. WriteBufferSize \in Nat
        BY ParsingBounds
      <3> QED
        BY <2>2, <3>2, <3>3, SeqWithin, IndexExact
    <2> QED
      BY <2>1, <2>4, Zenon DEF IndexComplete
  <1> QED
    BY <1>1, InputsHold, PTL DEF IndexInputs
=============================================================================
