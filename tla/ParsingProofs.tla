--------------------------- MODULE ParsingProofs ---------------------------
(***************************************************************************)
(* What Parsing checks over bounded inputs, for all of them: the filter of *)
(* times, the ring of dropped points, the table of days, the buffers that  *)
(* points are written into, escaped names and tags, the fields of a line,  *)
(* the lines of a connection and of datagrams.                             *)
(***************************************************************************)
EXTENDS Parsing, SequenceTheorems, Induction

-----------------------------------------------------------------------------
(***************************************************************************)
(* Numbers.                                                                *)
(***************************************************************************)
\* The day of an hour is the one whose hours it is among.
LEMMA DayOf ==
  ASSUME NEW n \in Int
  PROVE  /\ n \div Hours \in Int
         /\ Hours * (n \div Hours) <= n /\ n < Hours * (n \div Hours) + Hours
         /\ \A i \in Int : Hours * i <= n /\ n < Hours * i + Hours => i = n \div Hours
  BY DEF Hours

\* A sum that does not wrap is itself.
LEMMA ModSmall ==
  ASSUME NEW w \in Nat \ {0}, NEW n \in 0 .. w - 1
  PROVE  n % w = n
  OBVIOUS

\* Numbers less than w apart have different places in a ring of w, and w apart the same.
LEMMA ModFacts ==
  ASSUME NEW w \in Nat \ {0}, NEW n \in Int
  PROVE  /\ n % w \in 0 .. w - 1
         /\ (n - w) % w = n % w
         /\ \A m \in Int : m < n /\ n - m < w => m % w # n % w
  <1>1. n % w \in 0 .. w - 1
    OBVIOUS
  <1>2. PICK q, r : q = n \div w /\ r = n % w
    OBVIOUS
  <1>3. q \in Int /\ r \in Int /\ n = w * q + r /\ 0 <= r /\ r < w
    BY <1>2
  <1>4. \A a, b \in Int : (n - w) = w * a + b /\ 0 <= b /\ b < w => b = r
    BY <1>3
  <1>5. (n - w) % w = r
    BY <1>3, <1>4
  <1>6. ASSUME NEW m \in Int, m < n, n - m < w PROVE m % w # r
    <2>1. PICK a, b : a = m \div w /\ b = m % w
      OBVIOUS
    <2>2. a \in Int /\ b \in Int /\ m = w * a + b
      BY <2>1
    <2>3. SUFFICES ASSUME b = r PROVE FALSE
      BY <2>1
    <2>4. w * q - w * a = n - m
      BY <1>3, <2>2, <2>3
    <2>5. a < q
      BY <1>3, <2>2, <2>4, <1>6
    <2>6. w * q >= w * (a + 1)
      BY <1>3, <2>2, <2>5
    <2> QED
      BY <1>3, <1>6, <2>2, <2>4, <2>6
  <1> QED
    BY <1>1, <1>2, <1>5, <1>6

\* isDrop compares sums that wrap at most once.
LEMMA AgeExact ==
  ASSUME Word \in Nat \ {0}, NEW now \in 0 .. Word - 1, NEW t \in 0 .. Word - 1,
         NEW future \in 0 .. Word - 1, NEW past \in 0 .. Word - 1
  PROVE  AgeAgrees(now, t, future, past)
  <1>1. ASSUME NEW m \in 0 .. Word - 1, NEW n \in 0 .. Word - 1
        PROVE  (m + n) % Word = m + n - Short(m + n)
    <2>1. CASE m + n < Word
      BY <2>1, ModSmall DEF Short
    <2>2. CASE m + n >= Word
      <3>1. PICK v : v = m + n
        OBVIOUS
      <3>2. v \in Int /\ v - Word \in 0 .. Word - 1
        BY <2>2, <3>1
      <3>3. (v - Word) % Word = v - Word
        BY <3>2, ModSmall
      <3>4. (v - Word) % Word = v % Word
        BY <3>2, ModFacts, Zenon
      <3> QED
        BY <2>2, <3>1, <3>3, <3>4 DEF Short
    <2> QED
      BY <2>1, <2>2
  <1>2. PICK a, p : a = (now + future) % Word /\ p = (t + past) % Word
    OBVIOUS
  <1>3. a = now + future - Short(now + future) /\ p = t + past - Short(t + past)
    BY <1>1, <1>2
  <1>4. Short(now + future) \in Int /\ Short(t + past) \in Int
    BY DEF Short
  <1>5. /\ t > a <=> t - now > future - Short(now + future)
        /\ now > p <=> now - t > past - Short(t + past)
    BY <1>3, <1>4
  <1> QED
    BY <1>2, <1>5, Zenon DEF isDrop, AgeAgrees

-----------------------------------------------------------------------------
(***************************************************************************)
(* The ring of dropped points.                                             *)
(***************************************************************************)
\* a ring of no points, and all rings
Empty == [k \in 0 .. Ring - 1 |-> 0]
Lists == [0 .. Ring - 1 -> Nat]
\* what Saved chooses, with the operators of SequencesExt expanded
SavedIter(s, it) ==
  it = [S \in SUBSET DOMAIN [i \in DOMAIN s |-> i] |->
          IF S = {} THEN Empty
          ELSE saveDropped(it[S \ {Max(S)}], [i \in DOMAIN s |-> i][Max(S)] - 1,
                           [i \in DOMAIN s |-> i][Max(S)])]

\* Saved is that fold over all of s.
LEMMA SavedIs ==
  ASSUME NEW s
  PROVE  Saved(s) = (CHOOSE it : SavedIter(s, it))[DOMAIN [i \in DOMAIN s |-> i]]
  BY DEF Saved, FoldLeftDomain, FoldLeft, MapThenFoldSet, SavedIter, Empty

\* list is the ring after n points: the last ones, each in its place.
RingHas(n, list) ==
  /\ list \in Lists
  /\ \A k \in 0 .. Ring - 1 : list[k] # 0 =>
       list[k] \in 1 .. n /\ n - Ring < list[k] /\ (list[k] - 1) % Ring = k
  /\ \A i \in 1 .. n : n - Ring < i => list[(i - 1) % Ring] = i

\* saveDropped overwrites the oldest point, and only that one.
LEMMA RingStep ==
  ASSUME Ring \in Nat \ {0}, NEW n \in Nat, NEW list, RingHas(n, list)
  PROVE  RingHas(n + 1, saveDropped(list, n, n + 1))
  <1>1. PICK l, m : l = saveDropped(list, n, n + 1) /\ m = n % Ring
    OBVIOUS
  <1>2. m \in 0 .. Ring - 1 /\ list \in Lists /\ l = [list EXCEPT ![m] = n + 1]
    BY <1>1, ModFacts DEF saveDropped, RingHas
  <1>3. l \in Lists
    BY <1>2 DEF Lists
  <1>4. ASSUME NEW k \in 0 .. Ring - 1, l[k] # 0
        PROVE  l[k] \in 1 .. n + 1 /\ (n + 1) - Ring < l[k] /\ (l[k] - 1) % Ring = k
    <2>1. CASE k = m
      <3>1. l[k] = n + 1
        BY <1>2, <2>1 DEF Lists
      <3> QED
        BY <1>1, <2>1, <3>1
    <2>2. CASE k # m
      <3>1. PICK j : j = l[k]
        OBVIOUS
      <3>2. j = list[k] /\ j # 0
        BY <1>2, <1>4, <2>2, <3>1 DEF Lists
      <3>3. j \in 1 .. n /\ n - Ring < j /\ (j - 1) % Ring = k
        BY <3>2 DEF RingHas
      <3>4. j - 1 # n - Ring
        <4>0. n \in Int
          OBVIOUS
        <4>1. (n - Ring) % Ring = n % Ring
          BY <4>0, ModFacts
        <4>2. (n - Ring) % Ring = m
          BY <1>1, <4>1
        <4> QED
          BY <2>2, <3>3, <4>2
      <3>5. j \in 1 .. n + 1 /\ (n + 1) - Ring < j
        BY <3>3, <3>4
      <3> QED
        BY <3>1, <3>3, <3>5
    <2> QED
      BY <2>1, <2>2
  <1>5. ASSUME NEW i \in 1 .. n + 1, (n + 1) - Ring < i PROVE l[(i - 1) % Ring] = i
    <2>1. CASE i = n + 1
      BY <1>1, <1>2, <2>1 DEF Lists
    <2>2. CASE i # n + 1
      <3>1. i \in 1 .. n /\ n - Ring < i /\ i - 1 < n /\ n - (i - 1) < Ring /\ i - 1 \in Int
        BY <1>5, <2>2
      <3>2. PICK k : k = (i - 1) % Ring
        OBVIOUS
      <3>3. k # m /\ k \in 0 .. Ring - 1
        <4>1. PICK j : j = i - 1
          OBVIOUS
        <4>2. n \in Int /\ j \in Int /\ j < n /\ n - j < Ring /\ k = j % Ring
          BY <3>1, <3>2, <4>1
        <4>3. j % Ring # n % Ring /\ j % Ring \in 0 .. Ring - 1
          BY <4>2, ModFacts
        <4> QED
          BY <1>1, <4>2, <4>3
      <3>4. list[k] = i
        BY <3>1, <3>2 DEF RingHas
      <3> QED
        BY <1>2, <3>2, <3>3, <3>4 DEF Lists
    <2> QED
      BY <2>1, <2>2
  <1>6. RingHas(n + 1, l)
    BY <1>3, <1>4, <1>5 DEF RingHas
  <1> QED
    BY <1>1, <1>6

\* By induction over the points.
LEMMA SavedRing ==
  ASSUME Ring \in Nat \ {0}, NEW X, NEW s \in Seq(X)
  PROVE  RingHas(Len(s), Saved(s))
  <1>1. PICK n : n = Len(s) /\ n \in Nat /\ DOMAIN s = 1 .. n
    BY LenProperties
  <1>2. PICK id : id = [i \in DOMAIN s |-> i]
    OBVIOUS
  <1>3. DOMAIN id = 1 .. n /\ \A i \in 1 .. n : id[i] = i
    BY <1>1, <1>2
  <1> DEFINE F == [p \in Lists \X (1 .. n) |-> saveDropped(p[1], p[2] - 1, p[2])]
  <1>4. Empty \in Lists
    BY DEF Empty, Lists
  <1>5. F \in [Lists \X (1 .. n) -> Lists]
    <2>1. ASSUME NEW p \in Lists \X (1 .. n) PROVE saveDropped(p[1], p[2] - 1, p[2]) \in Lists
      BY DEF saveDropped, Lists
    <2> QED
      BY <2>1
  <1>6. PICK g \in [SUBSET (1 .. n) -> Lists] : FoldTo(n, Empty, F, g)
    <2> HIDE DEF F
    <2> QED
      BY <1>1, <1>4, <1>5, FoldExists
  <1>7. SavedIter(s, g)
    <2>1. ASSUME NEW S \in SUBSET (1 .. n)
          PROVE  g[S] = IF S = {} THEN Empty
                        ELSE saveDropped(g[S \ {Max(S)}], id[Max(S)] - 1, id[Max(S)])
      <3>1. CASE S = {}
        BY <1>6, <3>1 DEF FoldTo
      <3>2. CASE S # {}
        <4>1. Max(S) \in 1 .. n
          BY <1>1, <3>2, MaxFacts
        <4>2. S \ {Max(S)} \in SUBSET (1 .. n)
          OBVIOUS
        <4>3. <<g[S \ {Max(S)}], Max(S)>> \in Lists \X (1 .. n)
          BY <4>1, <4>2
        <4>4. F[<<g[S \ {Max(S)}], Max(S)>>] = saveDropped(g[S \ {Max(S)}], Max(S) - 1, Max(S))
          BY <4>3
        <4>5. g[S] = F[<<g[S \ {Max(S)}], Max(S)>>]
          <5> HIDE DEF F
          <5> QED
            BY <1>6, <3>2 DEF FoldTo
        <4> QED
          BY <1>3, <3>2, <4>1, <4>4, <4>5
      <3> QED
        BY <3>1, <3>2
    <2>2. g = [S \in SUBSET (1 .. n) |-> g[S]]
      BY <1>6
    <2>3. g = [S \in SUBSET DOMAIN id |->
                 IF S = {} THEN Empty
                 ELSE saveDropped(g[S \ {Max(S)}], id[Max(S)] - 1, id[Max(S)])]
      BY <1>3, <2>1, <2>2
    <2> QED
      BY <1>2, <2>3 DEF SavedIter
  <1>8. PICK it : it = CHOOSE h : SavedIter(s, h)
    OBVIOUS
  <1>9. SavedIter(s, it)
    BY <1>7, <1>8
  <1>10. ASSUME NEW S \in SUBSET (1 .. n)
         PROVE  it[S] = IF S = {} THEN Empty
                        ELSE saveDropped(it[S \ {Max(S)}], id[Max(S)] - 1, id[Max(S)])
    <2>1. it = [T \in SUBSET DOMAIN id |->
                  IF T = {} THEN Empty
                  ELSE saveDropped(it[T \ {Max(T)}], id[Max(T)] - 1, id[Max(T)])]
      BY <1>2, <1>9, Zenon DEF SavedIter
    <2>2. S \in SUBSET DOMAIN id
      BY <1>3
    <2> QED
      BY <2>1, <2>2, Zenon
  <1> DEFINE K == {k \in Nat : k <= n => RingHas(k, it[1 .. k])}
  <1>11. 0 \in K
    <2>1. 1 .. 0 = {} /\ {} \in SUBSET (1 .. n)
      OBVIOUS
    <2>2. it[1 .. 0] = Empty
      BY <1>10, <2>1
    <2>3. RingHas(0, Empty)
      BY <1>4 DEF RingHas, Empty
    <2> QED
      BY <2>2, <2>3
  <1>12. ASSUME NEW k \in Nat, k \in K PROVE k + 1 \in K
    <2>0. SUFFICES ASSUME k + 1 <= n PROVE RingHas(k + 1, it[1 .. k + 1])
      OBVIOUS
    <2>1. 1 .. k + 1 \in SUBSET (1 .. n) /\ k + 1 \in 1 .. n /\ k <= n /\ (k + 1) - 1 = k
      BY <1>1, <2>0
    <2>2. id[k + 1] = k + 1
      BY <1>3, <2>1
    <2>3. it[1 .. k + 1] = saveDropped(it[1 .. k], k, k + 1)
      BY <1>10, <2>1, <2>2, RangeLast, ZenonT(60)
    <2>4. RingHas(k, it[1 .. k])
      BY <1>12, <2>1
    <2> QED
      BY <2>3, <2>4, RingStep
  <1>13. RingHas(n, it[1 .. n])
    <2> HIDE DEF K
    <2>1. Nat \subseteq K
      BY <1>11, <1>12, SetInduction
    <2>2. n \in K /\ n <= n
      BY <1>1, <2>1
    <2> QED
      BY <2>2 DEF K
  <1>14. Saved(s) = it[1 .. n]
    BY <1>2, <1>3, <1>8, SavedIs
  <1> QED
    BY <1>1, <1>13, <1>14

\* The ring has the last points, all of them and no others.
LEMMA RingExact ==
  ASSUME Ring \in Nat \ {0}, NEW X, NEW s \in Seq(X)
  PROVE  RingAgrees(s)
  <1>1. PICK n, l : n = Len(s) /\ n \in Nat /\ DOMAIN s = 1 .. n /\ l = Saved(s)
    BY LenProperties
  <1>2. RingHas(n, l)
    BY <1>1, SavedRing
  <1>3. ASSUME NEW x \in Range(l), x # 0 PROVE x \in 1 .. n /\ x > n - Ring
    <2>1. PICK k \in 0 .. Ring - 1 : x = l[k]
      BY <1>2 DEF RingHas, Lists, Range
    <2>2. x \in 1 .. n /\ n - Ring < x
      BY <1>2, <1>3, <2>1 DEF RingHas
    <2> QED
      BY <1>1, <2>2
  <1>4. ASSUME NEW i \in 1 .. n, i > n - Ring PROVE i \in Range(l) /\ i # 0
    <2>1. (i - 1) % Ring \in 0 .. Ring - 1
      BY ModFacts
    <2>2. l[(i - 1) % Ring] = i
      BY <1>1, <1>2, <1>4 DEF RingHas
    <2> QED
      BY <1>2, <2>1, <2>2 DEF RingHas, Lists, Range
  <1>5. Range(l) \ {0} = {i \in 1 .. n : i > n - Ring}
    BY <1>3, <1>4
  <1> QED
    BY <1>1, <1>5 DEF RingAgrees

-----------------------------------------------------------------------------
(***************************************************************************)
(* Days.                                                                   *)
(***************************************************************************)
\* The zones: up to 14 hours off UTC, and a change of the clock by up to two hours at any
\* hour, around midnight too.
Calendars == [base : -12 .. 14, shift : -2 .. 2, at : Int]
\* The times whose day a uint16 can tell: a uint32 of seconds ends at day 49710.
Times == {t \in Nat : t \div Hours + 1 < 65536}

\* what Misdated says of the midnight of day i
MisdatedAt(z, t, i) ==
  LET midnight == Hours * i - z.base
      early == IF z.shift > 0 THEN midnight - z.shift ELSE midnight
      late  == IF z.shift > 0 THEN midnight ELSE midnight - z.shift
  IN /\ early < z.at /\ z.at <= late
     /\ IF Hours * i < z.at <=> z.shift > 0 THEN early <= t /\ t < z.at
                                            ELSE z.at <= t /\ t < late

\* Day i has begun in the table when the calendar says so, but for the hours misdated at i.
LEMMA DayBegins ==
  ASSUME NEW z \in Calendars, NEW t \in Int, NEW i \in Int
  PROVE  /\ DayStart(z, i) \in Hours * i - z.base - 2 .. Hours * i - z.base + 2
         /\ ~MisdatedAt(z, t, i) <=> (t >= DayStart(z, i) <=> Local(z, t) >= Hours * i)
  <1>1. PICK b, s, a, u : b = z.base /\ s = z.shift /\ a = z.at /\ u = Hours * i
    OBVIOUS
  <1>2. b \in -12 .. 14 /\ s \in -2 .. 2 /\ a \in Int /\ u \in Int
    BY <1>1 DEF Calendars, Hours
  <1>3. PICK g, d : g = u - (b + (IF u >= a THEN s ELSE 0)) /\ d = DayStart(z, i)
    OBVIOUS
  <1>4. d = IF g >= a <=> u >= a THEN g ELSE u - (b + (IF g >= a THEN s ELSE 0))
    BY <1>1, <1>3, Zenon DEF DayStart
  <1>5. Local(z, t) = t + b + (IF t >= a THEN s ELSE 0)
    BY <1>1, Zenon DEF Local
  <1>6. MisdatedAt(z, t, i) <=>
          /\ (IF s > 0 THEN u - b - s ELSE u - b) < a
          /\ a <= (IF s > 0 THEN u - b ELSE u - b - s)
          /\ IF u < a <=> s > 0 THEN (IF s > 0 THEN u - b - s ELSE u - b) <= t /\ t < a
                                ELSE a <= t /\ t < (IF s > 0 THEN u - b ELSE u - b - s)
    BY <1>1, Zenon DEF MisdatedAt
  <1>7. d \in u - b - 2 .. u - b + 2
    BY <1>2, <1>3, <1>4
  <1>8. ~MisdatedAt(z, t, i) <=> (t >= d <=> Local(z, t) >= u)
    <2>1. CASE u < a
      <3>1. d = IF u - b < a THEN u - b ELSE u - b - s
        BY <1>2, <1>3, <1>4, <2>1
      <3> QED
        BY <1>2, <1>5, <1>6, <2>1, <3>1
    <2>2. CASE u >= a
      <3>1. d = IF u - b - s >= a THEN u - b - s ELSE u - b
        BY <1>2, <1>3, <1>4, <2>2
      <3> QED
        BY <1>2, <1>5, <1>6, <2>2, <3>1
    <2> QED
      BY <1>2, <2>1, <2>2
  <1> QED
    BY <1>1, <1>3, <1>7, <1>8, Zenon

\* A later day begins later in the table.
LEMMA DaysFollow ==
  ASSUME NEW z \in Calendars, NEW i \in Int, NEW j \in Int, i < j
  PROVE  DayStart(z, i) < DayStart(z, j)
  <1>1. PICK b, d, e : b = z.base /\ d = DayStart(z, i) /\ e = DayStart(z, j)
    OBVIOUS
  <1>2. b \in Int
    BY <1>1 DEF Calendars
  <1>3. d \in Hours * i - b - 2 .. Hours * i - b + 2
    BY <1>1, DayBegins
  <1>4. e \in Hours * j - b - 2 .. Hours * j - b + 2
    BY <1>1, DayBegins
  <1>5. d < e
    BY <1>2, <1>3, <1>4 DEF Hours
  <1> QED
    BY <1>1, <1>5

\* A time is in one day of the table, which is at most one off the day in UTC.
LEMMA TableDay ==
  ASSUME NEW z \in Calendars, NEW t \in Int
  PROVE  \E d \in {t \div Hours - 1, t \div Hours, t \div Hours + 1} :
           \A i \in Int : t < DayStart(z, i) <=> d < i
  <1>1. PICK k, b : k = t \div Hours /\ b = z.base
    OBVIOUS
  <1>2. k \in Int /\ b \in -12 .. 14 /\ Hours * k <= t /\ t < Hours * k + Hours
    BY <1>1, DayOf DEF Calendars
  <1>3. DayStart(z, k - 1) \in Hours * (k - 1) - b - 2 .. Hours * (k - 1) - b + 2
    BY <1>1, <1>2, DayBegins
  <1>4. DayStart(z, k + 2) \in Hours * (k + 2) - b - 2 .. Hours * (k + 2) - b + 2
    BY <1>1, <1>2, DayBegins
  <1>5. DayStart(z, k - 1) <= t /\ t < DayStart(z, k + 2)
    BY <1>2, <1>3, <1>4 DEF Hours
  <1>6. DayStart(z, k) \in Int /\ DayStart(z, k + 1) \in Int
    BY <1>1, <1>2, DayBegins DEF Hours
  <1>7. PICK d \in {k - 1, k, k + 1} : DayStart(z, d) <= t /\ t < DayStart(z, d + 1)
    <2>1. CASE t < DayStart(z, k)
      <3>1. DayStart(z, (k - 1) + 1) = DayStart(z, k)
        BY <1>2
      <3> QED
        BY <1>5, <2>1, <3>1
    <2>2. CASE DayStart(z, k) <= t /\ t < DayStart(z, k + 1)
      BY <2>2
    <2>3. CASE DayStart(z, k + 1) <= t
      <3>1. DayStart(z, (k + 1) + 1) = DayStart(z, k + 2)
        BY <1>2
      <3> QED
        BY <1>5, <2>3, <3>1
    <2> QED
      BY <1>6, <2>1, <2>2, <2>3
  <1>8. ASSUME NEW i \in Int PROVE t < DayStart(z, i) <=> d < i
    <2>1. d \in Int /\ d + 1 \in Int
      BY <1>2
    <2>2. DayStart(z, i) \in Int /\ DayStart(z, d) \in Int /\ DayStart(z, d + 1) \in Int
      <3>1. z.base \in Int
        BY DEF Calendars
      <3> QED
        BY <2>1, <3>1, DayBegins DEF Hours
    <2>3. CASE i < d
      BY <1>7, <2>1, <2>2, <2>3, DaysFollow
    <2>4. CASE i = d
      BY <1>7, <2>1, <2>2, <2>4
    <2>5. CASE i = d + 1
      BY <1>7, <2>1, <2>2, <2>5
    <2>6. CASE d + 1 < i
      BY <1>7, <2>1, <2>2, <2>6, DaysFollow
    <2> QED
      BY <2>1, <2>3, <2>4, <2>5, <2>6
  <1> QED
    BY <1>1, <1>7, <1>8

\* Only the midnights at both ends of the day in UTC can make an hour misdated.
LEMMA MisdatedIs ==
  ASSUME NEW z \in Calendars, NEW t \in Int
  PROVE  Misdated(z, t) <=> \E i \in Int : MisdatedAt(z, t, i)
  <1>1. PICK k : k = t \div Hours
    OBVIOUS
  <1>2. k \in Int /\ Hours * k <= t /\ t < Hours * k + Hours
    BY <1>1, DayOf
  <1>3. Misdated(z, t) <=> \E i \in {k, k + 1} : MisdatedAt(z, t, i)
    BY <1>1, Zenon DEF Misdated, MisdatedAt
  <1>4. ASSUME NEW i \in Int, MisdatedAt(z, t, i) PROVE i \in {k, k + 1}
    <2>1. PICK b, s, a, u : b = z.base /\ s = z.shift /\ a = z.at /\ u = Hours * i
      OBVIOUS
    <2>2. b \in -12 .. 14 /\ s \in -2 .. 2 /\ a \in Int /\ u \in Int
      BY <2>1 DEF Calendars, Hours
    <2>3. /\ (IF s > 0 THEN u - b - s ELSE u - b) < a
          /\ a <= (IF s > 0 THEN u - b ELSE u - b - s)
          /\ IF u < a <=> s > 0 THEN (IF s > 0 THEN u - b - s ELSE u - b) <= t /\ t < a
                                ELSE a <= t /\ t < (IF s > 0 THEN u - b ELSE u - b - s)
      BY <1>4, <2>1, Zenon DEF MisdatedAt
    <2>4. u - 16 <= t /\ t < u + 14
      BY <1>2, <2>2, <2>3, DayOf DEF Hours
    <2> QED
      BY <1>2, <2>1, <2>2, <2>4 DEF Hours
  <1> QED
    BY <1>2, <1>3, <1>4

\* The day of the table is the day of the calendar but for the hours misdated.
LEMMA TableAgrees ==
  ASSUME NEW z \in Calendars, NEW t \in Int, NEW d \in Int,
         \A i \in Int : t < DayStart(z, i) <=> d < i
  PROVE  d = Local(z, t) \div Hours <=> ~Misdated(z, t)
  <1>1. PICK n, c : n = Local(z, t) /\ c = n \div Hours
    OBVIOUS
  <1>2. n \in Int
    BY <1>1 DEF Local, Calendars
  <1>3. c \in Int /\ \A i \in Int : n >= Hours * i <=> c >= i
    <2>1. c \in Int /\ Hours * c <= n /\ n < Hours * c + Hours
      BY <1>1, <1>2, DayOf
    <2> QED
      BY <1>2, <2>1 DEF Hours
  <1>4. ASSUME NEW i \in Int PROVE ~MisdatedAt(z, t, i) <=> (d >= i <=> c >= i)
    <2>1. DayStart(z, i) \in Int
      <3>1. z.base \in Int
        BY DEF Calendars
      <3> QED
        BY <3>1, DayBegins DEF Hours
    <2>2. t >= DayStart(z, i) <=> d >= i
      BY <2>1
    <2>3. ~MisdatedAt(z, t, i) <=> (t >= DayStart(z, i) <=> n >= Hours * i)
      BY <1>1, DayBegins
    <2> QED
      BY <1>3, <2>2, <2>3
  <1>5. d = c <=> \A i \in Int : d >= i <=> c >= i
    BY <1>3
  <1> QED
    BY <1>1, <1>4, <1>5, MisdatedIs

\* what FindLoop chooses
Finds(z, size, t, f) ==
  f = [i \in 0 .. size - 1 |-> IF t < DayStart(z, i) THEN f[i - 1]
                                ELSE IF t >= DayStart(z, i + 1) THEN f[i + 1]
                                ELSE i]

\* FindLoop is that function at the day in UTC.
LEMMA FindIs ==
  ASSUME NEW z, NEW size, NEW t
  PROVE  FindLoop(z, size, t) = (CHOOSE f : Finds(z, size, t, f))[t \div Hours]
  BY DEF FindLoop, Finds

\* The search, at most one step off its start, ends at the day of the table.
LEMMA FindDay ==
  ASSUME NEW z, NEW size \in Nat, NEW t \in Nat,
         Margin <= t \div Hours, t \div Hours <= size - Margin,
         NEW d \in {t \div Hours - 1, t \div Hours, t \div Hours + 1},
         \A i \in Int : t < DayStart(z, i) <=> d < i,
         \A i \in Int : DayStart(z, i) \in Int
  PROVE  FindLoop(z, size, t) = d
  <1>1. PICK k : k = t \div Hours
    OBVIOUS
  <1>3. k \in Int /\ d \in Int /\ d \in {k - 1, k, k + 1}
    BY <1>1 DEF Hours
  <1>4. Margin <= k /\ k <= size - Margin
    BY <1>1
  <1>5. \A i \in Int : DayStart(z, i) \in Int /\ (t < DayStart(z, i) <=> d < i)
    OBVIOUS
  <1>6. \A i \in Int : t >= DayStart(z, i + 1) <=> i + 1 <= d
    <2> TAKE i \in Int
    <2>1. i + 1 \in Int /\ DayStart(z, i + 1) \in Int /\ (t < DayStart(z, i + 1) <=> d < i + 1)
      BY <1>5
    <2> QED
      BY <1>3, <2>1
  <1> DEFINE c == [i \in 0 .. size - 1 |-> d]
  <1>7. Finds(z, size, t, c)
    <2>1. ASSUME NEW i \in 0 .. size - 1
          PROVE  c[i] = IF t < DayStart(z, i) THEN c[i - 1]
                        ELSE IF t >= DayStart(z, i + 1) THEN c[i + 1] ELSE i
      <3>1. t < DayStart(z, i) <=> d < i
        BY <1>5
      <3>2. t >= DayStart(z, i + 1) <=> i + 1 <= d
        BY <1>6
      <3>3. d < i => i - 1 \in 0 .. size - 1
        BY <1>3, <1>4 DEF Margin
      <3>4. i + 1 <= d => i + 1 \in 0 .. size - 1
        BY <1>3, <1>4 DEF Margin
      <3>5. ~(d < i) /\ ~(i + 1 <= d) => i = d
        BY <1>3
      <3> QED
        BY <3>1, <3>2, <3>3, <3>4, <3>5
    <2> QED
      BY <2>1 DEF Finds
  <1>8. PICK f : f = CHOOSE g : Finds(z, size, t, g)
    OBVIOUS
  <1>9. Finds(z, size, t, f)
    BY <1>7, <1>8
  <1>10. ASSUME NEW i \in 0 .. size - 1
         PROVE  f[i] = IF d < i THEN f[i - 1] ELSE IF i + 1 <= d THEN f[i + 1] ELSE i
    <2>1. f = [j \in 0 .. size - 1 |-> IF t < DayStart(z, j) THEN f[j - 1]
                                       ELSE IF t >= DayStart(z, j + 1) THEN f[j + 1] ELSE j]
      BY <1>9, Zenon DEF Finds
    <2>2. f[i] = IF t < DayStart(z, i) THEN f[i - 1]
                 ELSE IF t >= DayStart(z, i + 1) THEN f[i + 1] ELSE i
      BY <2>1, Zenon
    <2>3. i \in Int
      OBVIOUS
    <2>4. (t < DayStart(z, i) <=> d < i) /\ (t >= DayStart(z, i + 1) <=> i + 1 <= d)
      BY <1>5, <1>6, <2>3
    <2> QED
      BY <2>2, <2>4, Zenon
  <1>11. f[k] = d
    <2>1. k \in 0 .. size - 1 /\ k - 1 \in 0 .. size - 1 /\ k + 1 \in 0 .. size - 1
      BY <1>3, <1>4 DEF Margin
    <2>2. f[d] = d
      BY <1>3, <1>10, <2>1
    <2>3. CASE d = k
      BY <2>2, <2>3
    <2>4. CASE d = k - 1
      BY <1>3, <1>10, <2>1, <2>2, <2>4
    <2>5. CASE d = k + 1
      BY <1>3, <1>10, <2>1, <2>2, <2>5
    <2> QED
      BY <1>3, <2>3, <2>4, <2>5
  <1> QED
    BY <1>1, <1>8, <1>11, FindIs

\* Where the table is used its day is that of the calendar but for the hours misdated, and
\* everywhere it is within one of the day in UTC.
LEMMA DaysExact ==
  ASSUME NEW z \in Calendars, NEW size \in Nat, NEW t \in Times
  PROVE  DaysAgree(z, size, t)
  <1>1. PICK k, c, n : k = t \div Hours /\ c = Local(z, t) \div Hours /\ n = Local(z, t)
    OBVIOUS
  <1>2. t \in Nat /\ k + 1 < 65536
    BY <1>1, SMT DEF Times
  <1>3. n \in Int /\ t - 14 <= n /\ n <= t + 16
    BY <1>1, <1>2 DEF Local, Calendars
  <1>4. k \in Int /\ c \in Int /\ c \in {k - 1, k, k + 1}
    BY <1>1, <1>2, <1>3 DEF Hours
  <1>5. SlowTimestampToDays(z, t) = c % 65536
    BY <1>1, SMT DEF SlowTimestampToDays
  <1>6. \A e \in Int : 0 <= e /\ e < 65536 => e % 65536 = e
    OBVIOUS
  <1>7. CASE k < Margin \/ k > size - Margin
    <2>1. PrecalcTimestampToDays(z, size, t) = c % 65536
      BY <1>1, <1>5, <1>7, SMT DEF PrecalcTimestampToDays
    <2>2. k >= Margin => (c % 65536) - k \in {-1, 0, 1}
      <3> SUFFICES ASSUME k >= Margin PROVE (c % 65536) - k \in {-1, 0, 1}
        OBVIOUS
      <3>1. 0 <= c /\ c < 65536 /\ c - k \in {-1, 0, 1}
        BY <1>2, <1>4, SMT DEF Margin
      <3>2. c % 65536 = c
        BY <1>4, <1>6, <3>1
      <3> QED
        BY <3>1, <3>2
    <2> QED
      BY <1>1, <1>5, <1>7, <2>1, <2>2, SMT DEF DaysAgree, UTCTimestampToDays
  <1>8. CASE ~(k < Margin \/ k > size - Margin)
    <2>1. Margin <= k /\ k <= size - Margin
      BY <1>4, <1>8 DEF Margin
    <2>2. t \in Int
      BY <1>2
    <2>3. PICK d \in {k - 1, k, k + 1} : \A i \in Int : t < DayStart(z, i) <=> d < i
      BY <1>1, <2>2, TableDay
    <2>4. d \in Int /\ 0 <= d /\ d < 65536 /\ d - k \in {-1, 0, 1} /\ 0 <= c /\ c < 65536
      BY <1>2, <1>4, <2>1 DEF Margin
    <2>5. \A i \in Int : DayStart(z, i) \in Int
      <3> TAKE i \in Int
      <3>1. z.base \in Int
        BY DEF Calendars
      <3> QED
        BY <2>2, <3>1, DayBegins DEF Hours
    <2>6. FindLoop(z, size, t) = d
      BY <1>1, <1>2, <2>1, <2>3, <2>5, FindDay
    <2>7. c % 65536 = c /\ d % 65536 = d
      BY <1>4, <1>6, <2>4
    <2>8. PrecalcTimestampToDays(z, size, t) = d
      BY <1>1, <1>8, <2>6, <2>7, SMT DEF PrecalcTimestampToDays
    <2>9. d = c <=> ~Misdated(z, t)
      BY <1>1, <2>2, <2>3, <2>4, TableAgrees
    <2> QED
      BY <1>1, <1>5, <1>8, <2>4, <2>7, <2>8, <2>9, SMT DEF DaysAgree, UTCTimestampToDays
  <1> QED
    BY <1>7, <1>8

-----------------------------------------------------------------------------
(***************************************************************************)
(* FlattenSeq.                                                             *)
(***************************************************************************)
\* One more sequence at the beginning.
LEMMA FlattenCons ==
  ASSUME NEW X, NEW ss \in Seq(Seq(X)), NEW x \in Seq(X)
  PROVE  FlattenSeq(<<x>> \o ss) = x \o FlattenSeq(ss)
  <1>1. PICK t, n : t = <<x>> \o ss /\ n = Len(ss)
    OBVIOUS
  <1>2. /\ n \in Nat /\ t \in Seq(Seq(X)) /\ Len(t) = n + 1
        /\ t[1] = x /\ \A i \in 1 .. n : t[i + 1] = ss[i]
    <2>1. <<x>> \in Seq(Seq(X)) /\ Len(<<x>>) = 1 /\ <<x>>[1] = x
      OBVIOUS
    <2>2. /\ t \in Seq(Seq(X)) /\ Len(t) = 1 + n
          /\ \A i \in 1 .. 1 + n : t[i] = IF i <= 1 THEN <<x>>[i] ELSE ss[i - 1]
      BY <1>1, <2>1, ConcatProperties
    <2>3. n \in Nat
      BY <1>1, LenProperties
    <2>5. t[1] = x /\ 1 + n = n + 1
      <3>1. 1 \in 1 .. 1 + n /\ 1 <= 1 /\ 1 + n = n + 1
        BY <2>3
      <3>2. t[1] = <<x>>[1]
        BY <2>2, <3>1, Zenon
      <3> QED
        BY <2>1, <3>1, <3>2, Zenon
    <2>4. ASSUME NEW i \in 1 .. n PROVE t[i + 1] = ss[i]
      <3>1. i + 1 \in 1 .. 1 + n /\ ~(i + 1 <= 1) /\ (i + 1) - 1 = i
        BY <2>3
      <3> QED
        BY <2>2, <3>1
    <2> QED
      BY <2>2, <2>3, <2>4, <2>5
  <1>3. PICK r \in [0 .. n -> Seq(X)] : FlatRun(ss, r) /\ FlattenSeq(ss) = r[n]
    BY <1>1, FlattenRun
  <1>4. PICK q \in [0 .. n + 1 -> Seq(X)] : FlatRun(t, q) /\ FlattenSeq(t) = q[n + 1]
    BY <1>2, FlattenRun
  <1> DEFINE K == {k \in 0 .. n : q[k + 1] = x \o r[k]}
  <1>5. 0 \in K
    <2>1. 0 \in 0 .. (n + 1) - 1 /\ 0 + 1 = 1
      BY <1>2
    <2>2. q[1] = <<>> \o x
      BY <1>2, <1>4, <2>1 DEF FlatRun
    <2>3. r[0] = <<>>
      BY <1>3 DEF FlatRun
    <2>4. <<>> \o x = x /\ x \o <<>> = x
      BY ConcatEmptySeq
    <2>5. q[0 + 1] = x \o r[0]
      BY <2>1, <2>2, <2>3, <2>4, Zenon
    <2> QED
      BY <1>2, <2>5
  <1>6. ASSUME NEW k \in 0 .. n - 1, k \in K PROVE k + 1 \in K
    <2>1. k + 1 \in 1 .. n /\ k + 1 \in 0 .. (n + 1) - 1 /\ k \in 0 .. n
      BY <1>2
    <2>2. r[k + 1] = r[k] \o ss[k + 1] /\ r[k] \in Seq(X) /\ ss[k + 1] \in Seq(X)
      BY <1>1, <1>3, <2>1, ElementOfSeq DEF FlatRun
    <2>3. q[(k + 1) + 1] = q[k + 1] \o t[(k + 1) + 1]
      BY <1>2, <1>4, <2>1 DEF FlatRun
    <2>4. q[(k + 1) + 1] = (x \o r[k]) \o ss[k + 1]
      <3>1. q[k + 1] = x \o r[k] /\ t[(k + 1) + 1] = ss[k + 1]
        BY <1>2, <1>6, <2>1
      <3> QED
        BY <2>3, <3>1, Zenon
    <2>5. (x \o r[k]) \o ss[k + 1] = x \o (r[k] \o ss[k + 1])
      <3>1. PICK a, b : a = r[k] /\ b = ss[k + 1]
        OBVIOUS
      <3>2. a \in Seq(X) /\ b \in Seq(X)
        BY <2>2, <3>1
      <3>3. (x \o a) \o b = x \o (a \o b)
        BY <3>2, ConcatAssociative, SMTT(30)
      <3> QED
        BY <3>1, <3>3, Zenon
    <2>6. q[(k + 1) + 1] = x \o r[k + 1] /\ k + 1 \in 0 .. n
      BY <2>1, <2>2, <2>4, <2>5
    <2> QED
      BY <2>6
  <1> HIDE DEF K
  <1>7. n \in K
    <2>1. n \in Nat /\ n \in 0 .. n
      BY <1>2
    <2>2. \A k \in 0 .. n : k \in K
      BY <1>5, <1>6, <2>1, UpInduction
    <2> QED
      BY <2>1, <2>2
  <1> QED
    BY <1>1, <1>3, <1>4, <1>7 DEF K

-----------------------------------------------------------------------------
(***************************************************************************)
(* Write buffers.                                                          *)
(***************************************************************************)
PackStates == [nil : BOOLEAN, wb : Seq(Nat), used : Nat, out : Seq(Seq(Nat)), lost : SUBSET Nat,
               panic : BOOLEAN]
\* all points that were written, in order
Sent(st) == FlattenSeq(st.out) \o st.wb

\* A row is 19 to 21 bytes longer than its name; 23 are asked for.
LEMMA SizeBounds ==
  ASSUME NEW len \in Nat
  PROVE  PointSize(len) \in Nat /\ PointSize(len) <= len + 21 /\ len + 19 <= PointSize(len)
  BY DEF PointSize, Uvarint

\* What was written are numbers of points.
LEMMA SentTyped ==
  ASSUME NEW st \in PackStates
  PROVE  FlattenSeq(st.out) \in Seq(Nat) /\ st.wb \in Seq(Nat) /\ Sent(st) \in Seq(Nat)
  <1>1. st.out \in Seq(Seq(Nat)) /\ st.wb \in Seq(Nat)
    BY DEF PackStates
  <1>2. FlattenSeq(st.out) \in Seq(Nat)
    BY <1>1, FlattenAppend
  <1> QED
    BY <1>1, <1>2, ConcatProperties DEF Sent

\* Flush loses nothing.
LEMMA FlushSent ==
  ASSUME NEW st \in PackStates, st.nil = TRUE => st.wb = <<>>
  PROVE  /\ Flush(st) \in PackStates
         /\ Flush(st).nil = TRUE /\ Flush(st).wb = <<>> /\ Flush(st).used = 0
         /\ Flush(st).lost = st.lost /\ Flush(st).panic = st.panic
         /\ Sent(Flush(st)) = Sent(st) /\ FlattenSeq(Flush(st).out) = Sent(st)
  <1>1. st.out \in Seq(Seq(Nat)) /\ st.wb \in Seq(Nat) /\ FlattenSeq(st.out) \in Seq(Nat)
    BY SentTyped DEF PackStates
  <1>2. PICK o : o = IF st.nil \/ st.wb = <<>> THEN st.out ELSE Append(st.out, st.wb)
    OBVIOUS
  <1>3. Flush(st) = [st EXCEPT !.out = o, !.nil = TRUE, !.wb = <<>>, !.used = 0]
    BY <1>2 DEF Flush
  <1>4. o \in Seq(Seq(Nat)) /\ FlattenSeq(o) = Sent(st)
    <2>1. CASE st.wb = <<>>
      <3>1. o = st.out
        BY <1>2, <2>1
      <3>2. FlattenSeq(st.out) \o <<>> = FlattenSeq(st.out)
        BY <1>1, ConcatEmptySeq
      <3> QED
        BY <1>1, <2>1, <3>1, <3>2 DEF Sent
    <2>2. CASE st.wb # <<>>
      <3>1. st.nil = FALSE
        BY <2>2 DEF PackStates
      <3>2. o = Append(st.out, st.wb)
        BY <1>2, <2>2, <3>1
      <3>3. Append(st.out, st.wb) \in Seq(Seq(Nat))
        BY <1>1, AppendProperties
      <3>4. FlattenSeq(Append(st.out, st.wb)) = FlattenSeq(st.out) \o st.wb
        BY <1>1, FlattenAppend
      <3> QED
        BY <3>2, <3>3, <3>4 DEF Sent
    <2> QED
      BY <2>1, <2>2
  <1>5. <<>> \in Seq(Nat) /\ 0 \in Nat /\ TRUE \in BOOLEAN
    OBVIOUS
  <1>6. Flush(st) \in PackStates
    BY <1>3, <1>4, <1>5 DEF PackStates
  <1>7. /\ Flush(st).nil = TRUE /\ Flush(st).wb = <<>> /\ Flush(st).used = 0 /\ Flush(st).out = o
        /\ Flush(st).lost = st.lost /\ Flush(st).panic = st.panic
    BY <1>3 DEF PackStates
  <1>8. Sent(Flush(st)) = Sent(st)
    <2>1. Sent(st) \in Seq(Nat)
      BY SentTyped
    <2>2. Sent(st) \o <<>> = Sent(st)
      BY <2>1, ConcatEmptySeq
    <2> QED
      BY <1>4, <1>7, <2>2, Zenon DEF Sent
  <1> QED
    BY <1>4, <1>6, <1>7, <1>8

\* A new buffer in place of none.
LEMMA GetSent ==
  ASSUME NEW st \in PackStates, st.wb = <<>>
  PROVE  /\ GetWriteBuffer(st) \in PackStates
         /\ GetWriteBuffer(st).nil = FALSE /\ GetWriteBuffer(st).used = 0
         /\ GetWriteBuffer(st).lost = st.lost /\ GetWriteBuffer(st).panic = st.panic
         /\ Sent(GetWriteBuffer(st)) = Sent(st)
  <1>1. <<>> \in Seq(Nat) /\ 0 \in Nat /\ FALSE \in BOOLEAN
    OBVIOUS
  <1>2. GetWriteBuffer(st) \in PackStates
    BY <1>1 DEF PackStates, GetWriteBuffer
  <1>3. /\ GetWriteBuffer(st).nil = FALSE /\ GetWriteBuffer(st).used = 0
        /\ GetWriteBuffer(st).lost = st.lost /\ GetWriteBuffer(st).panic = st.panic
        /\ GetWriteBuffer(st).out = st.out /\ GetWriteBuffer(st).wb = st.wb
    BY DEF PackStates, GetWriteBuffer
  <1> QED
    BY <1>2, <1>3, Zenon DEF Sent

\* A point that fits.
LEMMA WriteSent ==
  ASSUME NEW st \in PackStates, NEW s \in Seq(Nat), NEW i \in 1 .. Len(s),
         NEW w, w = WriteGraphitePoint(st, s, i)
  PROVE  /\ w \in PackStates
         /\ w.nil = st.nil /\ w.lost = st.lost /\ Sent(w) = Append(Sent(st), i)
         /\ st.used + s[i] + 21 <= WriteBufferSize =>
              w.panic = st.panic /\ w.used <= WriteBufferSize
  <1>1. PICK x : x = PointSize(s[i])
    OBVIOUS
  <1>2. s[i] \in Nat /\ i \in Nat
    BY ElementOfSeq, LenProperties
  <1>3. x \in Nat /\ x <= s[i] + 21
    BY <1>1, <1>2, SizeBounds
  <1>4. PICK b \in BOOLEAN : b = (st.panic \/ st.used + x > WriteBufferSize)
    OBVIOUS
  <1>5. w = [st EXCEPT !.wb = Append(st.wb, i), !.used = st.used + x, !.panic = b]
    BY <1>1, <1>4 DEF WriteGraphitePoint
  <1>6. /\ st.wb \in Seq(Nat) /\ st.used \in Nat
        /\ Append(st.wb, i) \in Seq(Nat) /\ st.used + x \in Nat
    BY <1>2, <1>3, AppendProperties, SMTT(30) DEF PackStates
  <1>7. w \in PackStates
    BY <1>5, <1>6 DEF PackStates
  <1>8. /\ w.nil = st.nil /\ w.lost = st.lost /\ w.out = st.out /\ w.wb = Append(st.wb, i)
        /\ w.used = st.used + x /\ w.panic = b
    BY <1>5 DEF PackStates
  <1>9. Sent(w) = Append(Sent(st), i)
    <2>1. PICK f, v : f = FlattenSeq(st.out) /\ v = st.wb
      OBVIOUS
    <2>2. f \in Seq(Nat) /\ v \in Seq(Nat)
      BY <2>1, SentTyped
    <2>3. f \o Append(v, i) = Append(f \o v, i)
      <3>1. ASSUME NEW y \in Nat, NEW g \in Seq(Nat), NEW h \in Seq(Nat)
            PROVE  g \o Append(h, y) = Append(g \o h, y)
        BY ConcatAppend, SMTT(30)
      <3> QED
        BY <1>2, <2>2, <3>1, Zenon
    <2> QED
      BY <1>8, <2>1, <2>3, Zenon DEF Sent
  <1>10. ASSUME st.used + s[i] + 21 <= WriteBufferSize
         PROVE  w.panic = st.panic /\ w.used <= WriteBufferSize
    <2>1. st.used + x <= WriteBufferSize
      BY <1>2, <1>3, <1>6, <1>10, ParsingBounds, SMTT(30)
    <2>2. ~(st.used + x > WriteBufferSize)
      BY <1>6, <2>1, ParsingBounds
    <2>3. st.panic \in BOOLEAN
      BY DEF PackStates
    <2> QED
      BY <1>4, <1>8, <2>1, <2>2, <2>3
  <1> QED
    BY <1>7, <1>8, <1>9, <1>10, Zenon

-----------------------------------------------------------------------------
\* q has the numbers up to k but those in lost, upwards.
InOrder(q, k, lost) ==
  /\ \A i, j \in 1 .. Len(q) : i < j => q[i] < q[j]
  /\ \A x \in Nat : (x \in 1 .. k /\ x \notin lost) <=> \E i \in 1 .. Len(q) : q[i] = x

\* The next point is written, or it is lost.
LEMMA OrderAppend ==
  ASSUME NEW q \in Seq(Nat), NEW k \in Nat, NEW lost \in SUBSET (1 .. k), InOrder(q, k, lost)
  PROVE  /\ InOrder(Append(q, k + 1), k + 1, lost)
         /\ InOrder(q, k + 1, lost \cup {k + 1})
  <1>1. PICK t, n : t = Append(q, k + 1) /\ n = Len(q)
    OBVIOUS
  <1>2. /\ n \in Nat /\ Len(t) = n + 1 /\ t[n + 1] = k + 1 /\ \A i \in 1 .. n : t[i] = q[i]
        /\ \A i \in 1 .. n : q[i] \in Nat
    BY <1>1, AppendProperties, LenProperties, ElementOfSeq, SMTT(30)
  <1>3. \A i \in 1 .. n : q[i] \in 1 .. k /\ q[i] \notin lost
    BY <1>1, <1>2 DEF InOrder
  <1>4. ASSUME NEW i \in 1 .. n + 1, NEW j \in 1 .. n + 1, i < j PROVE t[i] < t[j]
    <2>1. i \in 1 .. n /\ t[i] = q[i] /\ q[i] \in 1 .. k
      BY <1>2, <1>3, <1>4
    <2>2. CASE j = n + 1
      BY <1>2, <2>1, <2>2
    <2>3. CASE j # n + 1
      <3>1. j \in 1 .. n /\ t[j] = q[j]
        BY <1>2, <2>3
      <3> QED
        BY <1>1, <1>4, <2>1, <3>1 DEF InOrder
    <2> QED
      BY <2>2, <2>3
  <1>5. ASSUME NEW x \in Nat
        PROVE  (x \in 1 .. k + 1 /\ x \notin lost) <=> \E i \in 1 .. n + 1 : t[i] = x
    <2>1. CASE x = k + 1
      <3>1. x \in 1 .. k + 1 /\ x \notin lost /\ n + 1 \in 1 .. n + 1 /\ t[n + 1] = x
        BY <1>2, <2>1
      <3> QED
        BY <3>1
    <2>2. CASE x # k + 1
      <3>1. x \in 1 .. k + 1 <=> x \in 1 .. k
        BY <2>2
      <3>2. (\E i \in 1 .. n + 1 : t[i] = x) <=> \E i \in 1 .. n : q[i] = x
        <4>1. ASSUME NEW i \in 1 .. n + 1, t[i] = x PROVE i \in 1 .. n /\ q[i] = x
          BY <1>2, <2>2, <4>1
        <4>2. ASSUME NEW i \in 1 .. n, q[i] = x PROVE i \in 1 .. n + 1 /\ t[i] = x
          BY <1>2, <4>2
        <4> QED
          BY <4>1, <4>2
      <3> QED
        BY <1>1, <3>1, <3>2 DEF InOrder
    <2> QED
      BY <2>1, <2>2
  <1>6. InOrder(t, k + 1, lost)
    BY <1>2, <1>4, <1>5 DEF InOrder
  <1>7. ASSUME NEW x \in Nat
        PROVE  (x \in 1 .. k + 1 /\ x \notin lost \cup {k + 1}) <=> (x \in 1 .. k /\ x \notin lost)
    OBVIOUS
  <1>8. InOrder(q, k + 1, lost \cup {k + 1})
    BY <1>7 DEF InOrder
  <1> QED
    BY <1>1, <1>6, <1>8

\* After k points.
FirstOf(i, lost) == i = 1 \/ i - 1 \in lost
PackInv(s, k, st) ==
  /\ st \in PackStates /\ st.panic = FALSE /\ st.used <= WriteBufferSize
  /\ st.nil = TRUE => st.wb = <<>>
  /\ st.nil = TRUE <=> k = 0 \/ k \in st.lost
  /\ st.lost \in SUBSET (1 .. k) /\ InOrder(Sent(st), k, st.lost)
  /\ \A i \in st.lost : TooLong(s[i])
  /\ \A i \in 1 .. k : s[i] >= WriteBufferSize - 23 => i \in st.lost
  /\ \A i \in 1 .. k : FirstOf(i, st.lost) /\ s[i] < WriteBufferSize - 23 => i \notin st.lost

\* A point goes into the buffer, into the next one, or nowhere if its name is too long.
LEMMA PutStep ==
  ASSUME NEW s \in Seq(Nat), NEW k \in Nat, k + 1 \in 1 .. Len(s),
         NEW st \in PackStates, st.nil = FALSE, st.panic = FALSE, st.used <= WriteBufferSize,
         st.lost \in SUBSET (1 .. k), InOrder(Sent(st), k, st.lost),
         FirstOf(k + 1, st.lost) => st.used = 0,
         NEW p, p = Put(st, s, k + 1)
  PROVE  /\ p \in PackStates /\ p.panic = FALSE /\ p.used <= WriteBufferSize
         /\ p.nil = TRUE => p.wb = <<>>
         /\ InOrder(Sent(p), k + 1, p.lost)
         /\ \/ p.nil = FALSE /\ p.lost = st.lost /\ s[k + 1] < WriteBufferSize - 23
            \/ /\ p.nil = TRUE /\ p.lost = st.lost \cup {k + 1} /\ TooLong(s[k + 1])
               /\ ~(FirstOf(k + 1, st.lost) /\ s[k + 1] < WriteBufferSize - 23)
  <1>1. PICK i, x : i = k + 1 /\ p = Put(st, s, i) /\ x = s[i]
    OBVIOUS
  <1>2. x \in Nat /\ i \in 1 .. Len(s) /\ st.used \in Nat /\ WriteBufferSize \in Nat
    BY <1>1, ElementOfSeq, ParsingBounds DEF PackStates
  <1>3. Sent(st) \in Seq(Nat)
    BY SentTyped
  <1>4. CASE CanWriteGraphitePoint(st.used, x)
    <2>1. p = WriteGraphitePoint(st, s, i)
      BY <1>1, <1>4 DEF Put
    <2>2. st.used + x + 21 <= WriteBufferSize /\ x < WriteBufferSize - 23
      BY <1>2, <1>4, SMTT(30) DEF CanWriteGraphitePoint
    <2>3. /\ p \in PackStates /\ p.nil = st.nil /\ p.lost = st.lost /\ Sent(p) = Append(Sent(st), i)
          /\ p.panic = st.panic /\ p.used <= WriteBufferSize
      BY <1>1, <1>2, <2>1, <2>2, WriteSent
    <2>4. InOrder(Append(Sent(st), k + 1), k + 1, st.lost)
      BY <1>3, OrderAppend
    <2>5. p.nil = FALSE /\ p.panic = FALSE /\ InOrder(Sent(p), k + 1, p.lost)
      BY <1>1, <2>3, <2>4, Zenon
    <2> QED
      BY <1>1, <2>2, <2>3, <2>5, Zenon
  <1>5. CASE ~CanWriteGraphitePoint(st.used, x) /\ TooLong(x)
    <2>1. PICK f : f = Flush(st)
      OBVIOUS
    <2>2. /\ f \in PackStates /\ f.nil = TRUE /\ f.wb = <<>> /\ f.used = 0 /\ f.lost = st.lost
          /\ f.panic = FALSE /\ Sent(f) = Sent(st)
      <3>1. st.nil = TRUE => st.wb = <<>>
        OBVIOUS
      <3> QED
        BY <2>1, <3>1, FlushSent
    <2>3. p = [f EXCEPT !.lost = st.lost \cup {i}]
      BY <1>1, <1>5, <2>1, <2>2 DEF Put, NextBufferFor
    <2>4. st.lost \cup {i} \in SUBSET Nat
      BY <1>1
    <2>5. /\ p \in PackStates /\ p.nil = TRUE /\ p.wb = <<>> /\ p.used = 0
          /\ p.lost = st.lost \cup {i}
          /\ p.panic = FALSE /\ p.out = f.out
      BY <2>2, <2>3, <2>4 DEF PackStates
    <2>6. Sent(p) = Sent(st)
      BY <2>2, <2>5, Zenon DEF Sent
    <2>7. InOrder(Sent(st), k + 1, st.lost \cup {k + 1})
      BY <1>3, OrderAppend
    <2>8. InOrder(Sent(p), k + 1, p.lost)
      BY <1>1, <2>5, <2>6, <2>7, Zenon
    <2>9. ~(FirstOf(i, st.lost) /\ x < WriteBufferSize - 23)
      BY <1>1, <1>2, <1>5 DEF CanWriteGraphitePoint
    <2>10. p.used <= WriteBufferSize
      BY <1>2, <2>5
    <2> QED
      BY <1>1, <1>5, <2>5, <2>8, <2>9, <2>10, Zenon
  <1>6. CASE ~CanWriteGraphitePoint(st.used, x) /\ ~TooLong(x)
    <2>1. PICK f, g : f = Flush(st) /\ g = GetWriteBuffer(f)
      OBVIOUS
    <2>2. /\ f \in PackStates /\ f.wb = <<>> /\ f.lost = st.lost /\ f.panic = FALSE
          /\ Sent(f) = Sent(st)
      <3>1. st.nil = TRUE => st.wb = <<>>
        OBVIOUS
      <3> QED
        BY <2>1, <3>1, FlushSent
    <2>3. /\ g \in PackStates /\ g.nil = FALSE /\ g.used = 0 /\ g.lost = st.lost /\ g.panic = FALSE
          /\ Sent(g) = Sent(st)
      BY <2>1, <2>2, GetSent
    <2>4. p = WriteGraphitePoint(g, s, i)
      BY <1>1, <1>6, <2>1 DEF Put, NextBufferFor
    <2>5. g.used + x + 21 <= WriteBufferSize /\ x < WriteBufferSize - 23
      BY <1>2, <1>6, <2>3 DEF TooLong
    <2>6. /\ p \in PackStates /\ p.nil = FALSE /\ p.lost = st.lost /\ Sent(p) = Append(Sent(st), i)
          /\ p.panic = FALSE /\ p.used <= WriteBufferSize
      <3>1. /\ p \in PackStates /\ p.nil = g.nil /\ p.lost = g.lost /\ Sent(p) = Append(Sent(g), i)
            /\ g.used + s[i] + 21 <= WriteBufferSize =>
                 p.panic = g.panic /\ p.used <= WriteBufferSize
        <4>1. i \in 1 .. Len(s) /\ g \in PackStates
          BY <1>2, <2>3
        <4> QED
          BY <2>4, <4>1, WriteSent, ZenonT(30)
      <3>2. g.used + s[i] + 21 <= WriteBufferSize
        BY <1>1, <2>5
      <3> QED
        BY <2>3, <3>1, <3>2, Zenon
    <2>7. InOrder(Append(Sent(st), k + 1), k + 1, st.lost)
      BY <1>3, OrderAppend
    <2>8. InOrder(Sent(p), k + 1, p.lost)
      BY <1>1, <2>6, <2>7, Zenon
    <2> QED
      BY <1>1, <2>5, <2>6, <2>8, Zenon
  <1> QED
    BY <1>4, <1>5, <1>6

\* So does the next point of Writer.WritePoint, which takes a new buffer after a lost one.
LEMMA WriterStep ==
  ASSUME NEW s \in Seq(Nat), NEW k \in Nat, k + 1 \in 1 .. Len(s), NEW st, PackInv(s, k, st),
         NEW p, p = WritePoint(st, s, k + 1)
  PROVE  /\ PackInv(s, k + 1, p)
         /\ p.lost = st.lost \/ p.lost = st.lost \cup {k + 1}
  <1>1. PICK i, x, g : i = k + 1 /\ x = s[i] /\ g = IF st.nil THEN GetWriteBuffer(st) ELSE st
    OBVIOUS
  <1>2. x \in Nat /\ i \in 1 .. Len(s) /\ WriteBufferSize \in Nat /\ st \in PackStates
    BY <1>1, ElementOfSeq, ParsingBounds DEF PackInv
  <1>3. /\ g \in PackStates /\ g.nil = FALSE /\ g.panic = FALSE /\ g.used <= WriteBufferSize
        /\ g.lost = st.lost /\ Sent(g) = Sent(st)
        /\ FirstOf(i, st.lost) => g.used = 0
    <2>1. CASE st.nil = TRUE
      <3>1. g = GetWriteBuffer(st) /\ st.wb = <<>> /\ st.panic = FALSE
        BY <1>1, <2>1 DEF PackInv
      <3>2. /\ g \in PackStates /\ g.nil = FALSE /\ g.used = 0 /\ g.lost = st.lost
            /\ g.panic = st.panic
            /\ Sent(g) = Sent(st)
        BY <1>2, <3>1, GetSent
      <3> QED
        BY <1>2, <3>1, <3>2
    <2>2. CASE st.nil # TRUE
      <3>1. st.nil = FALSE
        BY <1>2, <2>2 DEF PackStates
      <3>2. g = st
        BY <1>1, <3>1
      <3>3. ~FirstOf(i, st.lost)
        <4>1. ~(k = 0 \/ k \in st.lost)
          BY <2>2 DEF PackInv
        <4> QED
          BY <1>1, <4>1 DEF FirstOf
      <3> QED
        BY <3>1, <3>2, <3>3 DEF PackInv
    <2> QED
      BY <2>1, <2>2
  <1>4. p = Put(g, s, i)
    BY <1>1 DEF WritePoint
  <1>5. st.lost \in SUBSET (1 .. k) /\ InOrder(Sent(st), k, st.lost)
    BY DEF PackInv
  <1>6. /\ p \in PackStates /\ p.panic = FALSE /\ p.used <= WriteBufferSize
        /\ p.nil = TRUE => p.wb = <<>>
        /\ InOrder(Sent(p), k + 1, p.lost)
        /\ \/ p.nil = FALSE /\ p.lost = st.lost /\ x < WriteBufferSize - 23
           \/ /\ p.nil = TRUE /\ p.lost = st.lost \cup {i} /\ TooLong(x)
              /\ ~(FirstOf(i, st.lost) /\ x < WriteBufferSize - 23)
    <2>1. /\ g.lost \in SUBSET (1 .. k) /\ InOrder(Sent(g), k, g.lost)
          /\ FirstOf(k + 1, g.lost) => g.used = 0
      BY <1>1, <1>3, <1>5, Zenon
    <2>2. /\ p \in PackStates /\ p.panic = FALSE /\ p.used <= WriteBufferSize
          /\ p.nil = TRUE => p.wb = <<>>
          /\ InOrder(Sent(p), k + 1, p.lost)
          /\ \/ p.nil = FALSE /\ p.lost = g.lost /\ s[k + 1] < WriteBufferSize - 23
             \/ /\ p.nil = TRUE /\ p.lost = g.lost \cup {k + 1} /\ TooLong(s[k + 1])
                /\ ~(FirstOf(k + 1, g.lost) /\ s[k + 1] < WriteBufferSize - 23)
      <3>1. p = Put(g, s, k + 1)
        BY <1>1, <1>4, Zenon
      <3> QED
        BY <1>3, <2>1, <3>1, PutStep, ZenonT(60)
    <2> QED
      BY <1>1, <1>3, <2>2, Zenon
  <1>7. PICK old, new : old = st.lost /\ new = p.lost
    OBVIOUS
  <1>8. /\ old \in SUBSET (1 .. k) /\ \A j \in old : TooLong(s[j])
        /\ \A j \in 1 .. k : s[j] >= WriteBufferSize - 23 => j \in old
        /\ \A j \in 1 .. k : FirstOf(j, old) /\ s[j] < WriteBufferSize - 23 => j \notin old
    BY <1>7 DEF PackInv
  <1>9. /\ new = old \/ new = old \cup {i}
        /\ i \in new => TooLong(x)
        /\ x >= WriteBufferSize - 23 => i \in new
        /\ FirstOf(i, new) /\ x < WriteBufferSize - 23 => i \notin new
        /\ p.nil = TRUE <=> i \in new
    <2>1. i \notin old /\ i - 1 # i
      BY <1>1, <1>8
    <2>2. FirstOf(i, old \cup {i}) <=> FirstOf(i, old)
      BY <2>1 DEF FirstOf
    <2>3. x < WriteBufferSize - 23 <=> ~(x >= WriteBufferSize - 23)
      BY <1>2
    <2>4. CASE p.nil = FALSE /\ new = old /\ x < WriteBufferSize - 23
      BY <2>1, <2>3, <2>4
    <2>5. CASE /\ p.nil = TRUE /\ new = old \cup {i} /\ TooLong(x)
               /\ ~(FirstOf(i, old) /\ x < WriteBufferSize - 23)
      BY <2>2, <2>5
    <2> QED
      BY <1>6, <1>7, <2>4, <2>5
  <1>10. new \in SUBSET (1 .. k + 1)
    <2>1. i \in 1 .. k + 1 /\ \A j \in 1 .. k : j \in 1 .. k + 1
      BY <1>1
    <2>2. \A j \in new : j \in 1 .. k + 1
      BY <1>8, <1>9, <2>1, Zenon
    <2> QED
      BY <2>2, Zenon
  <1>11. \A j \in new : TooLong(s[j])
    BY <1>1, <1>8, <1>9
  <1>12. ASSUME NEW j \in 1 .. k + 1
         PROVE  /\ s[j] >= WriteBufferSize - 23 => j \in new
                /\ FirstOf(j, new) /\ s[j] < WriteBufferSize - 23 => j \notin new
    <2>1. CASE j = i
      BY <1>1, <1>9, <2>1
    <2>2. CASE j # i
      <3>1. j \in 1 .. k /\ j - 1 # i
        BY <1>1, <2>2
      <3>2. (j \in new <=> j \in old) /\ (FirstOf(j, new) <=> FirstOf(j, old))
        BY <1>9, <2>2, <3>1 DEF FirstOf
      <3> QED
        BY <1>8, <3>1, <3>2
    <2> QED
      BY <2>1, <2>2
  <1>13. p.nil = TRUE <=> k + 1 = 0 \/ k + 1 \in p.lost
    BY <1>1, <1>7, <1>9
  <1>14. PackInv(s, k + 1, p)
    BY <1>6, <1>7, <1>10, <1>11, <1>12, <1>13 DEF PackInv
  <1> QED
    BY <1>1, <1>7, <1>9, <1>14

-----------------------------------------------------------------------------
(***************************************************************************)
(* The folds.                                                              *)
(***************************************************************************)
\* The states of a writer, at the start and after every point.
LEMMA PackTypes ==
  /\ NewState \in PackStates /\ GetWriteBuffer(NewState) \in PackStates
  /\ \A s \in Seq(Nat) : \A st \in PackStates : \A i \in 1 .. Len(s) :
       WritePoint(st, s, i) \in PackStates /\ PicklePoint(st, s, i) \in PackStates
  <1>1. NewState \in PackStates
    <2>1. <<>> \in Seq(Nat) /\ <<>> \in Seq(Seq(Nat)) /\ 0 \in Nat /\ {} \in SUBSET Nat
      OBVIOUS
    <2> QED
      BY <2>1 DEF NewState, PackStates
  <1>2. \A st \in PackStates : GetWriteBuffer(st) \in PackStates /\ Flush(st) \in PackStates
    <2> TAKE st \in PackStates
    <2>1. st.out \in Seq(Seq(Nat)) /\ st.wb \in Seq(Nat) /\ <<>> \in Seq(Nat) /\ 0 \in Nat
      BY DEF PackStates
    <2>2. Append(st.out, st.wb) \in Seq(Seq(Nat))
      BY <2>1, AppendProperties
    <2>3. GetWriteBuffer(st) \in PackStates
      BY <2>1 DEF GetWriteBuffer, PackStates
    <2>4. Flush(st) \in PackStates
      BY <2>1, <2>2 DEF Flush, PackStates
    <2> QED
      BY <2>3, <2>4
  <1>3. ASSUME NEW s \in Seq(Nat), NEW st \in PackStates, NEW i \in 1 .. Len(s)
        PROVE  Put(st, s, i) \in PackStates
    <2>1. PICK f : f = Flush(st)
      OBVIOUS
    <2>2. f \in PackStates /\ GetWriteBuffer(f) \in PackStates /\ f.lost \cup {i} \in SUBSET Nat
      <3>1. f \in PackStates /\ GetWriteBuffer(f) \in PackStates
        BY <1>2, <2>1, Zenon
      <3>2. i \in Nat
        BY LenProperties
      <3>3. f.lost \in SUBSET Nat
        BY <3>1 DEF PackStates
      <3> QED
        BY <3>1, <3>2, <3>3
    <2>3. [f EXCEPT !.lost = f.lost \cup {i}] \in PackStates
      BY <2>2 DEF PackStates
    <2>4. /\ WriteGraphitePoint(st, s, i) \in PackStates
          /\ WriteGraphitePoint(GetWriteBuffer(f), s, i) \in PackStates
      BY <2>2, WriteSent
    <2> QED
      BY <2>1, <2>3, <2>4 DEF Put, NextBufferFor
  <1>4. ASSUME NEW s \in Seq(Nat), NEW st \in PackStates, NEW i \in 1 .. Len(s)
        PROVE  WritePoint(st, s, i) \in PackStates /\ PicklePoint(st, s, i) \in PackStates
    <2>1. [st EXCEPT !.panic = TRUE] \in PackStates
      BY DEF PackStates
    <2>2. PicklePoint(st, s, i) \in PackStates
      BY <1>3, <2>1 DEF PicklePoint
    <2>3. WritePoint(st, s, i) \in PackStates
      BY <1>2, <1>3 DEF WritePoint
    <2> QED
      BY <2>2, <2>3
  <1> QED
    BY <1>1, <1>2, <1>4

\* what WriterOut chooses
WriterIter(s, it) ==
  it = [S \in SUBSET DOMAIN [i \in DOMAIN s |-> i] |->
          IF S = {} THEN NewState
          ELSE WritePoint(it[S \ {Max(S)}], s, [i \in DOMAIN s |-> i][Max(S)])]

\* WriterOut is that fold over all points.
LEMMA WriterIs ==
  ASSUME NEW s
  PROVE  WriterOut(s) = Flush((CHOOSE it : WriterIter(s, it))[DOMAIN [i \in DOMAIN s |-> i]])
  BY DEF WriterOut, FoldLeftDomain, FoldLeft, MapThenFoldSet, WriterIter

WriterRuns(s, w) ==
  w[0] = NewState /\ \A k \in 0 .. Len(s) - 1 : w[k + 1] = WritePoint(w[k], s, k + 1)

\* The states of Writer.WritePoint, point by point.
LEMMA WriterRun ==
  ASSUME NEW s \in Seq(Nat)
  PROVE  \E w : WriterRuns(s, w) /\ WriterOut(s) = Flush(w[Len(s)])
  <1>1. PICK n : n = Len(s) /\ n \in Nat /\ DOMAIN s = 1 .. n
    BY LenProperties
  <1>2. PICK id : id = [i \in DOMAIN s |-> i]
    OBVIOUS
  <1>3. DOMAIN id = 1 .. n /\ \A i \in 1 .. n : id[i] = i
    BY <1>1, <1>2
  <1> DEFINE F == [p \in PackStates \X (1 .. n) |-> WritePoint(p[1], s, p[2])]
  <1>4. F \in [PackStates \X (1 .. n) -> PackStates]
    BY <1>1, PackTypes
  <1>5. PICK g \in [SUBSET (1 .. n) -> PackStates] : FoldTo(n, NewState, F, g)
    <2> HIDE DEF F
    <2> QED
      BY <1>1, <1>4, PackTypes, FoldExists
  <1>6. WriterIter(s, g)
    <2>1. ASSUME NEW S \in SUBSET (1 .. n)
          PROVE  g[S] = IF S = {} THEN NewState ELSE WritePoint(g[S \ {Max(S)}], s, id[Max(S)])
      <3>1. CASE S = {}
        BY <1>5, <3>1 DEF FoldTo
      <3>2. CASE S # {}
        <4>1. Max(S) \in 1 .. n /\ id[Max(S)] = Max(S) /\ S \ {Max(S)} \in SUBSET (1 .. n)
          BY <1>1, <1>3, <3>2, MaxFacts
        <4>2. <<g[S \ {Max(S)}], Max(S)>> \in PackStates \X (1 .. n)
          BY <4>1
        <4>3. g[S] = F[<<g[S \ {Max(S)}], Max(S)>>]
          BY <1>5, <3>2 DEF FoldTo
        <4>4. F[<<g[S \ {Max(S)}], Max(S)>>] = WritePoint(g[S \ {Max(S)}], s, Max(S))
          BY <4>2
        <4> QED
          BY <3>2, <4>1, <4>3, <4>4, Zenon
      <3> QED
        BY <3>1, <3>2
    <2>2. g = [S \in SUBSET (1 .. n) |-> IF S = {} THEN NewState
                                         ELSE WritePoint(g[S \ {Max(S)}], s, id[Max(S)])]
      BY <2>1
    <2> QED
      BY <1>2, <1>3, <2>2, Zenon DEF WriterIter
  <1>7. PICK it : it = CHOOSE h : WriterIter(s, h)
    OBVIOUS
  <1>8. WriterIter(s, it)
    BY <1>6, <1>7
  <1>9. \A S \in SUBSET (1 .. n) : it[S] = IF S = {} THEN NewState
                                           ELSE WritePoint(it[S \ {Max(S)}], s, id[Max(S)])
    <2>1. it = [S \in SUBSET (1 .. n) |-> IF S = {} THEN NewState
                                          ELSE WritePoint(it[S \ {Max(S)}], s, id[Max(S)])]
      BY <1>2, <1>3, <1>8, Zenon DEF WriterIter
    <2> QED
      BY <2>1, Zenon
  <1> DEFINE w == [k \in 0 .. n |-> it[1 .. k]]
  <1>10. w[0] = NewState
    <2>1. {} \in SUBSET (1 .. n) /\ 1 .. 0 = {} /\ 0 \in 0 .. n
      BY <1>1
    <2> QED
      BY <1>9, <2>1
  <1>11. ASSUME NEW k \in 0 .. n - 1 PROVE w[k + 1] = WritePoint(w[k], s, k + 1)
    <2>1. /\ 1 .. k + 1 \in SUBSET (1 .. n) /\ k \in Nat /\ k \in 0 .. n /\ k + 1 \in 0 .. n
          /\ k + 1 \in 1 .. n
      BY <1>1
    <2>2. Max(1 .. k + 1) = k + 1 /\ (1 .. k + 1) \ {k + 1} = 1 .. k /\ 1 .. k + 1 # {}
      BY <2>1, RangeLast
    <2>3. it[1 .. k + 1] = WritePoint(it[(1 .. k + 1) \ {Max(1 .. k + 1)}], s, id[Max(1 .. k + 1)])
      BY <1>9, <2>1, <2>2, Zenon
    <2>4. it[1 .. k + 1] = WritePoint(it[1 .. k], s, k + 1)
      BY <1>3, <2>1, <2>2, <2>3, Zenon
    <2> QED
      BY <2>1, <2>4, Zenon
  <1>12. WriterOut(s) = Flush(it[1 .. n])
    BY <1>2, <1>3, <1>7, WriterIs, Zenon
  <1>13. w[n] = it[1 .. n]
    <2>1. n \in 0 .. n
      BY <1>1
    <2> QED
      BY <2>1, Zenon
  <1> HIDE DEF w
  <1>14. WriterRuns(s, w)
    BY <1>1, <1>10, <1>11, Zenon DEF WriterRuns
  <1> QED
    BY <1>1, <1>12, <1>13, <1>14, Zenon

\* what PickleParseBytes chooses
NewBuffer == GetWriteBuffer(NewState)

PickleIter(s, it) ==
  it = [S \in SUBSET DOMAIN [i \in DOMAIN s |-> i] |->
          IF S = {} THEN NewBuffer
          ELSE PicklePoint(it[S \ {Max(S)}], s, [i \in DOMAIN s |-> i][Max(S)])]

\* PickleParseBytes is that fold over all points.
LEMMA PickleIs ==
  ASSUME NEW s
  PROVE  PickleParseBytes(s) = Flush((CHOOSE it : PickleIter(s, it))[DOMAIN [i \in DOMAIN s |-> i]])
  BY DEF PickleParseBytes, FoldLeftDomain, FoldLeft, MapThenFoldSet, PickleIter, NewBuffer

PickleRuns(s, w) ==
  w[0] = NewBuffer /\ \A k \in 0 .. Len(s) - 1 : w[k + 1] = PicklePoint(w[k], s, k + 1)

\* The states of PickleParseBytes, point by point.
LEMMA PickleRun ==
  ASSUME NEW s \in Seq(Nat)
  PROVE  \E w : PickleRuns(s, w) /\ PickleParseBytes(s) = Flush(w[Len(s)])
  <1>1. PICK n : n = Len(s) /\ n \in Nat /\ DOMAIN s = 1 .. n
    BY LenProperties
  <1>2. PICK id : id = [i \in DOMAIN s |-> i]
    OBVIOUS
  <1>3. DOMAIN id = 1 .. n /\ \A i \in 1 .. n : id[i] = i
    BY <1>1, <1>2
  <1> DEFINE F == [p \in PackStates \X (1 .. n) |-> PicklePoint(p[1], s, p[2])]
  <1>4. F \in [PackStates \X (1 .. n) -> PackStates]
    BY <1>1, PackTypes
  <1>5. PICK g \in [SUBSET (1 .. n) -> PackStates] : FoldTo(n, NewBuffer, F, g)
    <2> HIDE DEF F
    <2> QED
      BY <1>1, <1>4, PackTypes, FoldExists DEF NewBuffer
  <1>6. PickleIter(s, g)
    <2>1. ASSUME NEW S \in SUBSET (1 .. n)
          PROVE  g[S] = IF S = {} THEN NewBuffer ELSE PicklePoint(g[S \ {Max(S)}], s, id[Max(S)])
      <3>1. CASE S = {}
        BY <1>5, <3>1 DEF FoldTo
      <3>2. CASE S # {}
        <4>1. Max(S) \in 1 .. n /\ id[Max(S)] = Max(S) /\ S \ {Max(S)} \in SUBSET (1 .. n)
          BY <1>1, <1>3, <3>2, MaxFacts
        <4>2. <<g[S \ {Max(S)}], Max(S)>> \in PackStates \X (1 .. n)
          BY <4>1
        <4>3. g[S] = F[<<g[S \ {Max(S)}], Max(S)>>]
          BY <1>5, <3>2 DEF FoldTo
        <4>4. F[<<g[S \ {Max(S)}], Max(S)>>] = PicklePoint(g[S \ {Max(S)}], s, Max(S))
          BY <4>2
        <4> QED
          BY <3>2, <4>1, <4>3, <4>4, Zenon
      <3> QED
        BY <3>1, <3>2
    <2>2. g = [S \in SUBSET (1 .. n) |-> IF S = {} THEN NewBuffer
                                         ELSE PicklePoint(g[S \ {Max(S)}], s, id[Max(S)])]
      BY <2>1
    <2> QED
      BY <1>2, <1>3, <2>2, Zenon DEF PickleIter
  <1>7. PICK it : it = CHOOSE h : PickleIter(s, h)
    OBVIOUS
  <1>8. PickleIter(s, it)
    BY <1>6, <1>7
  <1>9. \A S \in SUBSET (1 .. n) : it[S] = IF S = {} THEN NewBuffer
                                           ELSE PicklePoint(it[S \ {Max(S)}], s, id[Max(S)])
    <2>1. it = [S \in SUBSET (1 .. n) |-> IF S = {} THEN NewBuffer
                                          ELSE PicklePoint(it[S \ {Max(S)}], s, id[Max(S)])]
      BY <1>2, <1>3, <1>8, Zenon DEF PickleIter
    <2> QED
      BY <2>1, Zenon
  <1> DEFINE w == [k \in 0 .. n |-> it[1 .. k]]
  <1>10. w[0] = NewBuffer
    <2>1. {} \in SUBSET (1 .. n) /\ 1 .. 0 = {} /\ 0 \in 0 .. n
      BY <1>1
    <2> QED
      BY <1>9, <2>1
  <1>11. ASSUME NEW k \in 0 .. n - 1 PROVE w[k + 1] = PicklePoint(w[k], s, k + 1)
    <2>1. /\ 1 .. k + 1 \in SUBSET (1 .. n) /\ k \in Nat /\ k \in 0 .. n /\ k + 1 \in 0 .. n
          /\ k + 1 \in 1 .. n
      BY <1>1
    <2>2. Max(1 .. k + 1) = k + 1 /\ (1 .. k + 1) \ {k + 1} = 1 .. k /\ 1 .. k + 1 # {}
      BY <2>1, RangeLast
    <2>3. it[1 .. k + 1] = PicklePoint(it[(1 .. k + 1) \ {Max(1 .. k + 1)}], s, id[Max(1 .. k + 1)])
      BY <1>9, <2>1, <2>2, Zenon
    <2>4. it[1 .. k + 1] = PicklePoint(it[1 .. k], s, k + 1)
      BY <1>3, <2>1, <2>2, <2>3, Zenon
    <2> QED
      BY <2>1, <2>4, Zenon
  <1>12. PickleParseBytes(s) = Flush(it[1 .. n])
    BY <1>2, <1>3, <1>7, PickleIs, Zenon
  <1>13. w[n] = it[1 .. n]
    <2>1. n \in 0 .. n
      BY <1>1
    <2> QED
      BY <2>1, Zenon
  <1> HIDE DEF w
  <1>14. PickleRuns(s, w)
    BY <1>1, <1>10, <1>11, Zenon DEF PickleRuns
  <1> QED
    BY <1>1, <1>12, <1>13, <1>14, Zenon

\* Some name before the k-th point was too long.
Late(st, k) == \E i \in st.lost : i < k
\* Where PickleParseBytes is when the Writer is in w.
PickleIn(w, k, p) ==
  /\ Late(w, k) => p.panic = TRUE
  /\ ~Late(w, k) => p = IF k = 0 THEN NewBuffer ELSE w

\* The callback of ParseMessage panics on the point after one that was lost, and until
\* then does what Writer.WritePoint does.
LEMMA PickleStep ==
  ASSUME NEW s \in Seq(Nat), NEW k \in Nat, k + 1 \in 1 .. Len(s),
         NEW w, PackInv(s, k, w), NEW p, p \in PackStates, PickleIn(w, k, p),
         k = 0 => w = NewState,
         NEW v, v = WritePoint(w, s, k + 1), NEW q, q = PicklePoint(p, s, k + 1)
  PROVE  PickleIn(v, k + 1, q)
  <1>1. PackInv(s, k + 1, v) /\ (v.lost = w.lost \/ v.lost = w.lost \cup {k + 1})
    <2>1. k \in Nat /\ k + 1 \in 1 .. Len(s) /\ PackInv(s, k, w) /\ v = WritePoint(w, s, k + 1)
      OBVIOUS
    <2>2. PackInv(s, k + 1, v)
      BY <2>1, WriterStep, SMTT(30)
    <2>3. v.lost = w.lost \/ v.lost = w.lost \cup {k + 1}
      BY <2>1, WriterStep, SMTT(30)
    <2> QED
      BY <2>2, <2>3, Zenon
  <1>2. w \in PackStates /\ w.lost \in SUBSET (1 .. k) /\ w.panic = FALSE
    BY DEF PackInv
  <1>3. Late(v, k + 1) <=> Late(w, k) \/ k \in w.lost
    <2>1. PICK a, b : a = w.lost /\ b = v.lost
      OBVIOUS
    <2>2. \A i \in a : i \in 1 .. k
      BY <1>2, <2>1, Zenon
    <2>3. (\E i \in b : i < k + 1) <=> (\E i \in a : i < k) \/ k \in a
      <3>1. \A i \in 1 .. k : i < k + 1 /\ (i < k \/ i = k) /\ ~(k + 1 < k + 1)
        OBVIOUS
      <3>2. b = a \/ b = a \cup {k + 1}
        BY <1>1, <2>1, Zenon
      <3>3. ~(k + 1 < k + 1)
        OBVIOUS
      <3>4. ASSUME NEW i \in b, i < k + 1 PROVE (\E j \in a : j < k) \/ k \in a
        <4>1. i \in a
          BY <3>2, <3>3, <3>4, Zenon
        <4> QED
          BY <2>2, <3>1, <4>1, Zenon
      <3>5. ASSUME NEW i \in a PROVE i \in b /\ i < k + 1
        BY <2>2, <3>1, <3>2, <3>5, Zenon
      <3> QED
        BY <3>4, <3>5, Zenon
    <2> QED
      BY <2>1, <2>3, Zenon DEF Late
  <1>4. k + 1 # 0
    OBVIOUS
  <1>5. CASE Late(w, k)
    <2>1. p.panic = TRUE
      BY <1>5 DEF PickleIn
    <2>2. q.panic = TRUE
      BY <2>1 DEF PicklePoint, PackStates
    <2> QED
      BY <1>3, <1>5, <2>2, Zenon DEF PickleIn
  <1>6. CASE ~Late(w, k) /\ k = 0
    <2>1. p = NewBuffer /\ w = NewState
      BY <1>6 DEF PickleIn
    <2>2. p.panic = FALSE /\ p.nil = FALSE /\ w.nil = TRUE
      BY <2>1 DEF GetWriteBuffer, NewState, NewBuffer
    <2>3. q = Put(p, s, k + 1)
      BY <2>2 DEF PicklePoint
    <2>4. v = Put(NewBuffer, s, k + 1)
      BY <2>1, <2>2 DEF WritePoint, NewBuffer
    <2>5. v = q
      BY <2>1, <2>3, <2>4, Zenon
    <2>6. ~Late(v, k + 1)
      <3>1. k \notin w.lost
        BY <1>2, <1>6
      <3> QED
        BY <1>3, <1>6, <3>1, Zenon
    <2> QED
      BY <1>4, <2>5, <2>6, Zenon DEF PickleIn
  <1>7. CASE ~Late(w, k) /\ k # 0 /\ k \in w.lost
    <2>1. p = w
      BY <1>7 DEF PickleIn
    <2>2. p.nil = TRUE
      BY <1>7, <2>1 DEF PackInv
    <2>3. q.panic = TRUE
      BY <2>2 DEF PicklePoint, PackStates
    <2> QED
      BY <1>3, <1>7, <2>3, Zenon DEF PickleIn
  <1>8. CASE ~Late(w, k) /\ k # 0 /\ k \notin w.lost
    <2>1. p = w
      BY <1>8 DEF PickleIn
    <2>2. w.nil = FALSE
      <3>1. w.nil \in BOOLEAN
        BY <1>2 DEF PackStates
      <3>2. w.nil # TRUE
        BY <1>8 DEF PackInv
      <3> QED
        BY <3>1, <3>2
    <2>3. q = Put(w, s, k + 1)
      BY <1>2, <2>1, <2>2 DEF PicklePoint
    <2>4. v = Put(w, s, k + 1)
      BY <2>2 DEF WritePoint
    <2> QED
      BY <1>3, <1>4, <1>8, <2>3, <2>4, Zenon DEF PickleIn
  <1> QED
    BY <1>5, <1>6, <1>7, <1>8, Zenon

\* Before the first point.
LEMMA PackStart ==
  ASSUME NEW s
  PROVE  PackInv(s, 0, NewState) /\ PickleIn(NewState, 0, NewBuffer)
  <1>1. /\ NewState.nil = TRUE /\ NewState.wb = <<>> /\ NewState.used = 0 /\ NewState.out = <<>>
        /\ NewState.lost = {} /\ NewState.panic = FALSE
    BY DEF NewState
  <1>2. NewState \in PackStates /\ 0 <= WriteBufferSize /\ 1 .. 0 = {}
    BY PackTypes, ParsingBounds
  <1>3. Sent(NewState) = <<>>
    <2>1. FlattenSeq(<<>>) = <<>>
      <3>1. <<>> \in Seq(Seq(Nat)) /\ <<>> \in Seq(Nat)
        OBVIOUS
      <3> QED
        BY <3>1, FlattenAppend
    <2>2. <<>> \o <<>> = <<>>
      OBVIOUS
    <2> QED
      BY <1>1, <2>1, <2>2, Zenon DEF Sent
  <1>4. InOrder(<<>>, 0, {})
    <2>1. Len(<<>>) = 0
      OBVIOUS
    <2> QED
      BY <1>2, <2>1 DEF InOrder
  <1>5. PackInv(s, 0, NewState)
    <2>1. {} \in SUBSET (1 .. 0) /\ NewState.used <= WriteBufferSize
      BY <1>1, <1>2
    <2> QED
      BY <1>1, <1>2, <1>3, <1>4, <2>1, Zenon DEF PackInv
  <1>6. ~Late(NewState, 0)
    BY <1>1, Zenon DEF Late
  <1> QED
    BY <1>5, <1>6, Zenon DEF PickleIn

\* By induction over the points.
LEMMA PackRuns ==
  ASSUME NEW s \in Seq(Nat), NEW w, WriterRuns(s, w), NEW p, PickleRuns(s, p)
  PROVE  /\ PackInv(s, Len(s), w[Len(s)]) /\ p[Len(s)] \in PackStates
         /\ PickleIn(w[Len(s)], Len(s), p[Len(s)])
  <1>1. PICK n : n = Len(s) /\ n \in Nat
    BY LenProperties
  <1> DEFINE K == {k \in Nat : /\ PackInv(s, k, w[k]) /\ p[k] \in PackStates
                               /\ PickleIn(w[k], k, p[k])}
  <1>2. 0 \in K
    <2>1. w[0] = NewState /\ p[0] = NewBuffer
      BY DEF WriterRuns, PickleRuns
    <2>2. PackInv(s, 0, w[0]) /\ p[0] \in PackStates /\ PickleIn(w[0], 0, p[0])
      BY <2>1, PackStart, PackTypes, Zenon DEF NewBuffer
    <2>3. 0 \in Nat
      OBVIOUS
    <2> QED
      BY <2>2, <2>3, Zenon
  <1>3. ASSUME NEW k \in 0 .. n - 1, k \in K PROVE k + 1 \in K
    <2>1. k \in Nat /\ k + 1 \in Nat /\ k + 1 \in 1 .. Len(s) /\ k \in 0 .. Len(s) - 1
      BY <1>1
    <2>2. w[k + 1] = WritePoint(w[k], s, k + 1) /\ p[k + 1] = PicklePoint(p[k], s, k + 1)
      BY <2>1, Zenon DEF WriterRuns, PickleRuns
    <2>3. PICK a, b, c, d : a = w[k] /\ b = w[k + 1] /\ c = p[k] /\ d = p[k + 1]
      OBVIOUS
    <2>4. /\ PackInv(s, k, a) /\ c \in PackStates /\ PickleIn(a, k, c)
          /\ b = WritePoint(a, s, k + 1) /\ d = PicklePoint(c, s, k + 1)
      BY <1>3, <2>2, <2>3, Zenon
    <2>5. k = 0 => a = NewState
      BY <2>3, Zenon DEF WriterRuns
    <2>6. PackInv(s, k + 1, b)
      BY <2>1, <2>4, WriterStep
    <2>7. PickleIn(b, k + 1, d)
      BY <2>1, <2>4, <2>5, PickleStep
    <2>8. d \in PackStates
      BY <2>1, <2>4, PackTypes, Zenon
    <2> QED
      BY <2>1, <2>3, <2>6, <2>7, <2>8, Zenon
  <1> HIDE DEF K
  <1>4. \A k \in 0 .. n : k \in K
    BY <1>1, <1>2, <1>3, UpInduction
  <1>5. n \in 0 .. n
    BY <1>1
  <1>6. n \in K
    BY <1>4, <1>5, Zenon
  <1> USE DEF K
  <1> QED
    BY <1>1, <1>6, Zenon

\* Writer and PickleParseBytes lose only names that are too long, whatever the points are.
LEMMA PackExact ==
  ASSUME NEW s \in Seq(Nat)
  PROVE  PackAgrees(s)
  <1>1. PICK n : n = Len(s) /\ n \in Nat /\ DOMAIN s = 1 .. n
    BY LenProperties
  <1>2. PICK w : WriterRuns(s, w) /\ WriterOut(s) = Flush(w[Len(s)])
    BY WriterRun
  <1>3. PICK p : PickleRuns(s, p) /\ PickleParseBytes(s) = Flush(p[Len(s)])
    BY PickleRun
  <1>4. PICK a, b, f, g : a = w[n] /\ b = p[n] /\ f = WriterOut(s) /\ g = PickleParseBytes(s)
    OBVIOUS
  <1>5. PackInv(s, n, a) /\ b \in PackStates /\ PickleIn(a, n, b) /\ f = Flush(a) /\ g = Flush(b)
    <2>1. /\ PackInv(s, Len(s), w[Len(s)]) /\ p[Len(s)] \in PackStates
          /\ PickleIn(w[Len(s)], Len(s), p[Len(s)])
      BY <1>2, <1>3, PackRuns
    <2> QED
      BY <1>1, <1>2, <1>3, <1>4, <2>1, Zenon
  <1>6. a \in PackStates /\ (a.nil = TRUE => a.wb = <<>>) /\ a.panic = FALSE
    BY <1>5 DEF PackInv
  <1>7. /\ f.lost = a.lost /\ f.panic = FALSE /\ FlattenSeq(f.out) = Sent(a)
    BY <1>5, <1>6, FlushSent
  <1>8. PICK sent, lost : sent = FlattenSeq(f.out) /\ lost = f.lost
    OBVIOUS
  <1>9. /\ lost \in SUBSET (1 .. n) /\ InOrder(sent, n, lost)
        /\ \A i \in lost : TooLong(s[i])
        /\ \A i \in 1 .. n : s[i] >= WriteBufferSize - 23 => i \in lost
        /\ \A i \in 1 .. n : FirstOf(i, lost) /\ s[i] < WriteBufferSize - 23 => i \notin lost
    BY <1>5, <1>7, <1>8, Zenon DEF PackInv
  <1>10. sent \in Seq(Nat)
    BY <1>6, <1>7, <1>8, SentTyped
  <1>11. DOMAIN sent = 1 .. Len(sent)
    BY <1>10, LenProperties
  <1>12. \A i, j \in DOMAIN sent : i < j => sent[i] < sent[j]
    BY <1>9, <1>11, Zenon DEF InOrder
  <1>13. ToSet(sent) = DOMAIN s \ lost
    <2>1. ToSet(sent) = {sent[i] : i \in DOMAIN sent}
      BY DEF ToSet
    <2>2. \A i \in 1 .. Len(sent) : sent[i] \in Nat
      BY <1>10, ElementOfSeq
    <2>3. \A x \in 1 .. n : x \in Nat
      BY <1>1
    <2>4. ASSUME NEW x PROVE x \in ToSet(sent) <=> x \in 1 .. n /\ x \notin lost
      <3>1. x \in ToSet(sent) <=> \E i \in 1 .. Len(sent) : sent[i] = x
        BY <1>11, <2>1, Zenon
      <3>2. CASE x \in Nat
        BY <1>9, <3>1, <3>2, Zenon DEF InOrder
      <3>3. CASE x \notin Nat
        BY <2>2, <2>3, <3>1, <3>3, Zenon
      <3> QED
        BY <3>2, <3>3, Zenon
    <2> QED
      BY <1>1, <2>4, Zenon
  <1>14. /\ g.panic = b.panic /\ (g.panic <=> \E i \in lost : i < n)
         /\ g.panic \/ g.out = f.out
    <2>1. g.panic = b.panic
      BY <1>5 DEF Flush, PackStates
    <2>2. CASE Late(a, n)
      <3>1. g.panic = TRUE
        BY <1>5, <2>1, <2>2 DEF PickleIn
      <3>2. \E i \in lost : i < n
        BY <1>7, <1>8, <2>2, Zenon DEF Late
      <3> QED
        BY <2>1, <3>1, <3>2, Zenon
    <2>3. CASE ~Late(a, n)
      <3>1. ~\E i \in lost : i < n
        BY <1>7, <1>8, <2>3, Zenon DEF Late
      <3>2. b = IF n = 0 THEN NewBuffer ELSE a
        BY <1>5, <2>3, Zenon DEF PickleIn
      <3>3. b.panic = FALSE /\ g.out = f.out
        <4>1. CASE n # 0
          BY <1>5, <1>6, <3>2, <4>1, Zenon
        <4>2. CASE n = 0
          <5>1. a = NewState
            BY <1>2, <1>4, <4>2, Zenon DEF WriterRuns
          <5>2. b = NewBuffer
            BY <3>2, <4>2, Zenon
          <5> QED
            BY <1>5, <5>1, <5>2 DEF GetWriteBuffer, NewState, Flush, NewBuffer
        <4> QED
          BY <4>1, <4>2, Zenon
      <3> QED
        BY <2>1, <3>1, <3>3, Zenon
    <2> QED
      BY <2>2, <2>3, Zenon
  <1>15. \A i \in DOMAIN s :
              (i = 1 \/ (i - 1) \in lost) /\ s[i] < WriteBufferSize - 23 => i \notin lost
    BY <1>1, <1>9, Zenon DEF FirstOf
  <1>16. ~f.panic
    BY <1>7
  <1> QED
    BY <1>1, <1>4, <1>8, <1>9, <1>12, <1>13, <1>14, <1>15, <1>16, Zenon DEF PackAgrees

\* lines of a plain buffer; after its name each has at least " 1 1" and "\n"
Blocks == {b \in [n : Nat, sent : Nat, rest : Nat, stored : Nat] : b.rest >= 5}

RowBytes(b) == b.n * PointSize(b.stored)
LineBytes(b) == b.n * (b.sent + b.rest)

\* Their rows and their bytes are numbers.
LEMMA BlockTypes ==
  ASSUME NEW b \in Blocks
  PROVE  /\ b.n \in Nat /\ b.sent \in Nat /\ b.rest \in Nat /\ b.stored \in Nat /\ b.rest >= 5
         /\ RowBytes(b) \in Nat /\ LineBytes(b) \in Nat
  <1>1. b.n \in Nat /\ b.sent \in Nat /\ b.rest \in Nat /\ b.stored \in Nat /\ b.rest >= 5
    BY DEF Blocks
  <1>2. PICK n, x, y : n = b.n /\ x = PointSize(b.stored) /\ y = b.sent + b.rest
    OBVIOUS
  <1>3. n \in Nat /\ x \in Nat /\ y \in Nat
    BY <1>1, <1>2, SizeBounds
  <1>4. n * x \in Nat /\ n * y \in Nat
    BY <1>3
  <1> QED
    BY <1>1, <1>2, <1>4 DEF RowBytes, LineBytes

UsedIter(s, it) ==
  it = [S \in SUBSET DOMAIN s |->
          IF S = {} THEN 0 ELSE it[S \ {Max(S)}] + RowBytes(s[Max(S)])]

\* The rows of a buffer are a sum over its blocks.
LEMMA UsedIs ==
  ASSUME NEW s
  PROVE  PlainParseBufferUsed(s) = (CHOOSE it : UsedIter(s, it))[DOMAIN s]
  BY DEF PlainParseBufferUsed, Sum, RowBytes, FoldLeft, MapThenFoldSet, UsedIter

UsedRuns(s, r) == r[0] = 0 /\ \A k \in 0 .. Len(s) - 1 : r[k + 1] = r[k] + RowBytes(s[k + 1])

\* That sum, block by block.
LEMMA UsedRun ==
  ASSUME NEW s \in Seq(Blocks)
  PROVE  \E r \in [0 .. Len(s) -> Nat] : UsedRuns(s, r) /\ PlainParseBufferUsed(s) = r[Len(s)]
  <1>1. PICK n : n = Len(s) /\ n \in Nat /\ DOMAIN s = 1 .. n
    BY LenProperties
  <1>2. 0 \in Nat /\ \A a \in Nat : \A i \in 1 .. n : a + RowBytes(s[i]) \in Nat
    <2>1. \A i \in 1 .. n : s[i] \in Blocks
      BY <1>1, ElementOfSeq
    <2>2. \A i \in 1 .. n : RowBytes(s[i]) \in Nat
      BY <2>1, BlockTypes
    <2> QED
      BY <2>2
  <1> DEFINE F == [p \in (Nat) \X (1 .. n) |-> p[1] + RowBytes(s[p[2]])]
  <1>3. F \in [(Nat) \X (1 .. n) -> Nat]
    BY <1>2
  <1>4. PICK g \in [SUBSET (1 .. n) -> Nat] : FoldTo(n, 0, F, g)
    <2> HIDE DEF F
    <2> QED
      BY <1>1, <1>2, <1>3, FoldExists
  <1>5. UsedIter(s, g)
    <2>1. ASSUME NEW S \in SUBSET (1 .. n)
          PROVE  g[S] = IF S = {} THEN 0 ELSE g[S \ {Max(S)}] + RowBytes(s[Max(S)])
      <3>1. CASE S = {}
        BY <1>4, <3>1 DEF FoldTo
      <3>2. CASE S # {}
        <4>1. Max(S) \in 1 .. n /\ S \ {Max(S)} \in SUBSET (1 .. n)
          BY <1>1, <3>2, MaxFacts
        <4>2. <<g[S \ {Max(S)}], Max(S)>> \in (Nat) \X (1 .. n)
          BY <4>1
        <4>3. g[S] = F[<<g[S \ {Max(S)}], Max(S)>>]
          BY <1>4, <3>2 DEF FoldTo
        <4>4. F[<<g[S \ {Max(S)}], Max(S)>>] = g[S \ {Max(S)}] + RowBytes(s[Max(S)])
          BY <4>2
        <4> QED
          BY <3>2, <4>3, <4>4, Zenon
      <3> QED
        BY <3>1, <3>2
    <2>2. g = [S \in SUBSET (1 .. n) |->
                 IF S = {} THEN 0 ELSE g[S \ {Max(S)}] + RowBytes(s[Max(S)])]
      BY <2>1
    <2> QED
      BY <1>1, <2>2, Zenon DEF UsedIter
  <1>6. PICK it : it = CHOOSE h : UsedIter(s, h)
    OBVIOUS
  <1>7. UsedIter(s, it)
    BY <1>5, <1>6
  <1>8. \A S \in SUBSET (1 .. n) :
          it[S] = IF S = {} THEN 0 ELSE it[S \ {Max(S)}] + RowBytes(s[Max(S)])
    <2>1. it = [S \in SUBSET (1 .. n) |->
                 IF S = {} THEN 0 ELSE it[S \ {Max(S)}] + RowBytes(s[Max(S)])]
      BY <1>1, <1>7, Zenon DEF UsedIter
    <2> QED
      BY <2>1, Zenon
  <1> DEFINE r == [k \in 0 .. n |-> it[1 .. k]]
  <1>9. r[0] = 0
    <2>1. {} \in SUBSET (1 .. n) /\ 1 .. 0 = {} /\ 0 \in 0 .. n
      BY <1>1
    <2> QED
      BY <1>8, <2>1
  <1>10. ASSUME NEW k \in 0 .. n - 1 PROVE r[k + 1] = r[k] + RowBytes(s[k + 1]) /\ k + 1 \in 1 .. n
    <2>1. /\ 1 .. k + 1 \in SUBSET (1 .. n) /\ k \in Nat /\ k \in 0 .. n /\ k + 1 \in 0 .. n
          /\ k + 1 \in 1 .. n
      BY <1>1
    <2>2. Max(1 .. k + 1) = k + 1 /\ (1 .. k + 1) \ {k + 1} = 1 .. k /\ 1 .. k + 1 # {}
      BY <2>1, RangeLast
    <2>3. it[1 .. k + 1] = it[(1 .. k + 1) \ {Max(1 .. k + 1)}] + RowBytes(s[Max(1 .. k + 1)])
      BY <1>8, <2>1, <2>2, Zenon
    <2>4. it[1 .. k + 1] = it[1 .. k] + RowBytes(s[k + 1])
      BY <2>2, <2>3, Zenon
    <2> QED
      BY <2>1, <2>4, Zenon
  <1>11. PlainParseBufferUsed(s) = it[1 .. n]
    BY <1>1, <1>6, UsedIs, Zenon
  <1>12. r[n] = it[1 .. n]
    <2>1. n \in 0 .. n
      BY <1>1
    <2> QED
      BY <2>1, Zenon
  <1>13. r = [k \in 0 .. n |-> r[k]]
    BY Zenon
  <1> HIDE DEF r
  <1>14. UsedRuns(s, r)
    BY <1>1, <1>9, <1>10, Zenon DEF UsedRuns
  <1>15. \A k \in 0 .. n : r[k] \in Nat
    <2> DEFINE K == {k \in Nat : r[k] \in Nat}
    <2>1. 0 \in K
      BY <1>2, <1>9
    <2>2. ASSUME NEW k \in 0 .. n - 1, k \in K PROVE k + 1 \in K
      <3>1. k + 1 \in Nat
        BY <1>1
      <3> QED
        BY <1>2, <1>10, <2>2, <3>1, Zenon
    <2> HIDE DEF K
    <2>3. \A k \in 0 .. n : k \in K
      BY <1>1, <2>1, <2>2, UpInduction
    <2> QED
      BY <2>3, Zenon DEF K
  <1>16. r \in [0 .. n -> Nat]
    BY <1>13, <1>15, Zenon
  <1> QED
    BY <1>1, <1>11, <1>12, <1>14, <1>16, Zenon

BytesIter(s, it) ==
  it = [S \in SUBSET DOMAIN s |->
          IF S = {} THEN 0 ELSE it[S \ {Max(S)}] + LineBytes(s[Max(S)])]

\* So are its bytes.
LEMMA BytesIs ==
  ASSUME NEW s
  PROVE  BytesRead(s) = (CHOOSE it : BytesIter(s, it))[DOMAIN s]
  BY DEF BytesRead, Sum, LineBytes, FoldLeft, MapThenFoldSet, BytesIter

BytesRuns(s, r) == r[0] = 0 /\ \A k \in 0 .. Len(s) - 1 : r[k + 1] = r[k] + LineBytes(s[k + 1])

\* That sum, block by block.
LEMMA BytesRun ==
  ASSUME NEW s \in Seq(Blocks)
  PROVE  \E r \in [0 .. Len(s) -> Nat] : BytesRuns(s, r) /\ BytesRead(s) = r[Len(s)]
  <1>1. PICK n : n = Len(s) /\ n \in Nat /\ DOMAIN s = 1 .. n
    BY LenProperties
  <1>2. 0 \in Nat /\ \A a \in Nat : \A i \in 1 .. n : a + LineBytes(s[i]) \in Nat
    <2>1. \A i \in 1 .. n : s[i] \in Blocks
      BY <1>1, ElementOfSeq
    <2>2. \A i \in 1 .. n : LineBytes(s[i]) \in Nat
      BY <2>1, BlockTypes
    <2> QED
      BY <2>2
  <1> DEFINE F == [p \in (Nat) \X (1 .. n) |-> p[1] + LineBytes(s[p[2]])]
  <1>3. F \in [(Nat) \X (1 .. n) -> Nat]
    BY <1>2
  <1>4. PICK g \in [SUBSET (1 .. n) -> Nat] : FoldTo(n, 0, F, g)
    <2> HIDE DEF F
    <2> QED
      BY <1>1, <1>2, <1>3, FoldExists
  <1>5. BytesIter(s, g)
    <2>1. ASSUME NEW S \in SUBSET (1 .. n)
          PROVE  g[S] = IF S = {} THEN 0 ELSE g[S \ {Max(S)}] + LineBytes(s[Max(S)])
      <3>1. CASE S = {}
        BY <1>4, <3>1 DEF FoldTo
      <3>2. CASE S # {}
        <4>1. Max(S) \in 1 .. n /\ S \ {Max(S)} \in SUBSET (1 .. n)
          BY <1>1, <3>2, MaxFacts
        <4>2. <<g[S \ {Max(S)}], Max(S)>> \in (Nat) \X (1 .. n)
          BY <4>1
        <4>3. g[S] = F[<<g[S \ {Max(S)}], Max(S)>>]
          BY <1>4, <3>2 DEF FoldTo
        <4>4. F[<<g[S \ {Max(S)}], Max(S)>>] = g[S \ {Max(S)}] + LineBytes(s[Max(S)])
          BY <4>2
        <4> QED
          BY <3>2, <4>3, <4>4, Zenon
      <3> QED
        BY <3>1, <3>2
    <2>2. g = [S \in SUBSET (1 .. n) |->
                 IF S = {} THEN 0 ELSE g[S \ {Max(S)}] + LineBytes(s[Max(S)])]
      BY <2>1
    <2> QED
      BY <1>1, <2>2, Zenon DEF BytesIter
  <1>6. PICK it : it = CHOOSE h : BytesIter(s, h)
    OBVIOUS
  <1>7. BytesIter(s, it)
    BY <1>5, <1>6
  <1>8. \A S \in SUBSET (1 .. n) :
          it[S] = IF S = {} THEN 0 ELSE it[S \ {Max(S)}] + LineBytes(s[Max(S)])
    <2>1. it = [S \in SUBSET (1 .. n) |->
                 IF S = {} THEN 0 ELSE it[S \ {Max(S)}] + LineBytes(s[Max(S)])]
      BY <1>1, <1>7, Zenon DEF BytesIter
    <2> QED
      BY <2>1, Zenon
  <1> DEFINE r == [k \in 0 .. n |-> it[1 .. k]]
  <1>9. r[0] = 0
    <2>1. {} \in SUBSET (1 .. n) /\ 1 .. 0 = {} /\ 0 \in 0 .. n
      BY <1>1
    <2> QED
      BY <1>8, <2>1
  <1>10. ASSUME NEW k \in 0 .. n - 1 PROVE r[k + 1] = r[k] + LineBytes(s[k + 1]) /\ k + 1 \in 1 .. n
    <2>1. /\ 1 .. k + 1 \in SUBSET (1 .. n) /\ k \in Nat /\ k \in 0 .. n /\ k + 1 \in 0 .. n
          /\ k + 1 \in 1 .. n
      BY <1>1
    <2>2. Max(1 .. k + 1) = k + 1 /\ (1 .. k + 1) \ {k + 1} = 1 .. k /\ 1 .. k + 1 # {}
      BY <2>1, RangeLast
    <2>3. it[1 .. k + 1] = it[(1 .. k + 1) \ {Max(1 .. k + 1)}] + LineBytes(s[Max(1 .. k + 1)])
      BY <1>8, <2>1, <2>2, Zenon
    <2>4. it[1 .. k + 1] = it[1 .. k] + LineBytes(s[k + 1])
      BY <2>2, <2>3, Zenon
    <2> QED
      BY <2>1, <2>4, Zenon
  <1>11. BytesRead(s) = it[1 .. n]
    BY <1>1, <1>6, BytesIs, Zenon
  <1>12. r[n] = it[1 .. n]
    <2>1. n \in 0 .. n
      BY <1>1
    <2> QED
      BY <2>1, Zenon
  <1>13. r = [k \in 0 .. n |-> r[k]]
    BY Zenon
  <1> HIDE DEF r
  <1>14. BytesRuns(s, r)
    BY <1>1, <1>9, <1>10, Zenon DEF BytesRuns
  <1>15. \A k \in 0 .. n : r[k] \in Nat
    <2> DEFINE K == {k \in Nat : r[k] \in Nat}
    <2>1. 0 \in K
      BY <1>2, <1>9
    <2>2. ASSUME NEW k \in 0 .. n - 1, k \in K PROVE k + 1 \in K
      <3>1. k + 1 \in Nat
        BY <1>1
      <3> QED
        BY <1>2, <1>10, <2>2, <3>1, Zenon
    <2> HIDE DEF K
    <2>3. \A k \in 0 .. n : k \in K
      BY <1>1, <2>1, <2>2, UpInduction
    <2> QED
      BY <2>3, Zenon DEF K
  <1>16. r \in [0 .. n -> Nat]
    BY <1>13, <1>15, Zenon
  <1> QED
    BY <1>1, <1>11, <1>12, <1>14, <1>16, Zenon

\* The row of such a line is at most twice as long as the line.
LEMMA RowFits ==
  ASSUME NEW b \in Blocks, b.stored = b.sent, b.rest >= 14 \/ b.sent >= 9
  PROVE  RowBytes(b) <= 2 * LineBytes(b)
  <1>1. PICK n, x, y : n = b.n /\ x = PointSize(b.stored) /\ y = b.sent + b.rest
    OBVIOUS
  <1>2. n \in Nat /\ x \in Nat /\ y \in Nat
    BY <1>1, BlockTypes, SizeBounds
  <1>3. x <= 2 * y
    <2>1. PICK l, t : l = b.sent /\ t = b.rest
      OBVIOUS
    <2>2. l \in Nat /\ t \in Nat /\ t >= 5 /\ (t >= 14 \/ l >= 9) /\ x = PointSize(l) /\ y = l + t
      BY <1>1, <2>1, BlockTypes
    <2> QED
      BY <2>2 DEF PointSize, Uvarint
  <1>4. PICK d \in Nat : 2 * y = x + d
    <2>1. 2 * y - x \in Nat /\ 2 * y = x + (2 * y - x)
      BY <1>2, <1>3
    <2> QED
      BY <2>1
  <1>5. n * (2 * y) = 2 * (n * y) /\ n * (x + d) = n * x + n * d /\ n * d \in Nat /\ n * x \in Nat
    BY <1>2, <1>4
  <1>6. n * x <= 2 * (n * y)
    <2>1. 2 * (n * y) = n * x + n * d
      BY <1>4, <1>5, Zenon
    <2> QED
      BY <1>5, <2>1
  <1> QED
    BY <1>1, <1>6, Zenon DEF RowBytes, LineBytes

\* So the rows of a full read fit into a write buffer of twice the size.
LEMMA PlainExact ==
  ASSUME NEW s \in Seq(Blocks)
  PROVE  PlainAgrees(s)
  <1>1. PICK n : n = Len(s) /\ n \in Nat /\ DOMAIN s = 1 .. n
    BY LenProperties
  <1>2. SUFFICES ASSUME BytesRead(s) <= ReadBufferSize,
                        \A i \in DOMAIN s : /\ s[i].stored = s[i].sent
                                            /\ s[i].rest >= 14 \/ s[i].sent >= 9
                 PROVE  PlainParseBufferUsed(s) <= WriteBufferSize
    BY DEF PlainAgrees
  <1>3. PICK u \in [0 .. n -> Nat] : UsedRuns(s, u) /\ PlainParseBufferUsed(s) = u[n]
    BY <1>1, UsedRun
  <1>4. PICK r \in [0 .. n -> Nat] : BytesRuns(s, r) /\ BytesRead(s) = r[n]
    BY <1>1, BytesRun
  <1> DEFINE K == {k \in 0 .. n : u[k] <= 2 * r[k]}
  <1>5. 0 \in K
    <2>1. u[0] = 0 /\ r[0] = 0 /\ 0 \in 0 .. n
      BY <1>1, <1>3, <1>4 DEF UsedRuns, BytesRuns
    <2> QED
      BY <2>1
  <1>6. ASSUME NEW k \in 0 .. n - 1, k \in K PROVE k + 1 \in K
    <2>1. k \in 0 .. n /\ k + 1 \in 0 .. n /\ k + 1 \in 1 .. n
      BY <1>1
    <2>2. PICK b : b = s[k + 1]
      OBVIOUS
    <2>3. b \in Blocks /\ b.stored = b.sent /\ (b.rest >= 14 \/ b.sent >= 9)
      BY <1>1, <1>2, <2>1, <2>2, ElementOfSeq
    <2>4. PICK x, y : x = RowBytes(b) /\ y = LineBytes(b)
      OBVIOUS
    <2>5. x \in Nat /\ y \in Nat /\ x <= 2 * y
      BY <2>3, <2>4, BlockTypes, RowFits
    <2>6. u[k + 1] = u[k] + x /\ r[k + 1] = r[k] + y
      BY <1>1, <1>3, <1>4, <2>2, <2>4, Zenon DEF UsedRuns, BytesRuns
    <2>7. u[k] \in Nat /\ r[k] \in Nat /\ u[k] <= 2 * r[k]
      BY <1>6, <2>1
    <2>8. u[k + 1] <= 2 * r[k + 1]
      BY <2>5, <2>6, <2>7
    <2> QED
      BY <2>1, <2>8
  <1> HIDE DEF K
  <1>7. \A k \in 0 .. n : k \in K
    BY <1>1, <1>5, <1>6, UpInduction
  <1>8. n \in 0 .. n
    BY <1>1
  <1>9. u[n] <= 2 * r[n] /\ u[n] \in Nat /\ r[n] \in Nat
    BY <1>7, <1>8 DEF K
  <1> QED
    BY <1>2, <1>3, <1>4, <1>9, ParsingBounds

-----------------------------------------------------------------------------
(***************************************************************************)
(* Sequences and recursive functions.                                      *)
(***************************************************************************)
\* Induction over sequences from their end.
LEMMA SeqConsInduction ==
  ASSUME NEW X, NEW K, <<>> \in K, \A x \in X : \A t \in Seq(X) : t \in K => <<x>> \o t \in K
  PROVE  \A s \in Seq(X) : s \in K
  <1> DEFINE N == {n \in Nat : \A s \in Seq(X) : Len(s) = n => s \in K}
  <1>1. 0 \in N
    <2>1. ASSUME NEW s \in Seq(X), Len(s) = 0 PROVE s \in K
      <3>1. s = <<>>
        BY <2>1, EmptySeq
      <3> QED
        BY <3>1
    <2> QED
      BY <2>1
  <1>2. ASSUME NEW n \in Nat, n \in N PROVE n + 1 \in N
    <2>1. ASSUME NEW s \in Seq(X), Len(s) = n + 1 PROVE s \in K
      <3>1. PICK x, t : x = s[1] /\ t = SubSeq(s, 2, Len(s))
        OBVIOUS
      <3>2. /\ x \in X /\ 1 \in 1 .. Len(s) /\ Len(s) \in 1 .. Len(s)
            /\ \A i \in 2 .. n + 1 : s[i] \in X
        BY <2>1, <3>1, ElementOfSeq
      <3>3. t \in Seq(X) /\ Len(t) = n
        BY <2>1, <3>1, <3>2, SubSeqProperties
      <3>4. SubSeq(s, 1, Len(s)) = <<s[1]>> \o SubSeq(s, 1 + 1, Len(s))
        BY <3>2, SubSeqRecursiveFirst
      <3>5. s = <<x>> \o t
        <4>1. 1 + 1 = 2
          OBVIOUS
        <4>2. SubSeq(s, 1, Len(s)) = s
          BY SubSeqFull
        <4> QED
          BY <3>1, <3>4, <4>1, <4>2, Zenon
      <3>6. t \in K
        BY <1>2, <3>3
      <3> QED
        BY <3>2, <3>3, <3>5, <3>6
    <2>2. n + 1 \in Nat
      OBVIOUS
    <2> QED
      BY <2>1, <2>2
  <1> HIDE DEF N
  <1>3. Nat \subseteq N
    BY <1>1, <1>2, SetInduction
  <1> QED
    BY <1>3, LenProperties DEF N

\* F is a definition of functions by their values where m is less.
Recurs(D, St, b, m, F) ==
  /\ b \in Nat /\ m \in [D -> 0 .. b] /\ F \in [[D -> St] \X D -> St]
  /\ \A v, w \in [D -> St] : \A i \in D :
       (\A j \in D : m[j] < m[i] => v[j] = w[j]) => F[<<v, i>>] = F[<<w, i>>]

Solvable(D, St, F) == \E v \in [D -> St] : \A i \in D : v[i] = F[<<v, i>>]

\* Such a definition has exactly the function it says (by the well-founded measure m).
LEMMA Recursion ==
  ASSUME NEW D, NEW St, NEW base \in St, NEW b, NEW m, NEW F, Recurs(D, St, b, m, F)
  PROVE  Solvable(D, St, F)
  <1>0. /\ b \in Nat /\ m \in [D -> 0 .. b] /\ F \in [[D -> St] \X D -> St]
        /\ \A v, w \in [D -> St] : \A i \in D :
             (\A j \in D : m[j] < m[i] => v[j] = w[j]) => F[<<v, i>>] = F[<<w, i>>]
    BY DEF Recurs
  <1> DEFINE K == {k \in Nat : \E v \in [D -> St] : \A i \in D : m[i] < k => v[i] = F[<<v, i>>]}
  <1>1. 0 \in K
    <2> DEFINE z == [i \in D |-> base]
    <2>1. z \in [D -> St] /\ \A i \in D : ~(m[i] < 0)
      BY <1>0
    <2> QED
      BY <2>1
  <1>2. ASSUME NEW k \in Nat, k \in K PROVE k + 1 \in K
    <2>1. PICK v \in [D -> St] : \A i \in D : m[i] < k => v[i] = F[<<v, i>>]
      BY <1>2
    <2> DEFINE w == [i \in D |-> IF m[i] < k THEN v[i] ELSE F[<<v, i>>]]
    <2>2. \A i \in D : F[<<v, i>>] \in St
      BY <1>0
    <2>3. w \in [D -> St]
      BY <2>2
    <2>4. \A i \in D : w[i] = F[<<v, i>>] /\ (m[i] < k => w[i] = v[i])
      BY <2>1
    <2> HIDE DEF w
    <2>5. ASSUME NEW i \in D, m[i] < k + 1 PROVE w[i] = F[<<w, i>>]
      <3>1. \A j \in D : m[j] < m[i] => m[j] < k
        BY <1>0, <2>5
      <3>2. \A j \in D : m[j] < m[i] => v[j] = w[j]
        BY <2>4, <3>1, Zenon
      <3>3. F[<<v, i>>] = F[<<w, i>>]
        BY <1>0, <2>3, <3>2, Zenon
      <3> QED
        BY <2>4, <3>3, Zenon
    <2> QED
      BY <2>3, <2>5
  <1> HIDE DEF K
  <1>3. b + 1 \in K
    <2>1. Nat \subseteq K
      BY <1>1, <1>2, SetInduction
    <2> QED
      BY <1>0, <2>1
  <1>4. \A i \in D : m[i] < b + 1
    BY <1>0
  <1> QED
    BY <1>3, <1>4 DEF K, Solvable

-----------------------------------------------------------------------------
(***************************************************************************)
(* Unescape.                                                               *)
(***************************************************************************)
Byte == 0 .. 255
UDef(s, u, i) ==
  IF i > Len(s) THEN <<>>
  ELSE IF s[i] = Percent /\ i + 2 > Len(s) THEN SubSeq(s, i, Len(s))
  ELSE IF s[i] = Percent /\ ishex(s[i + 1]) /\ ishex(s[i + 2])
       THEN <<16 * unhex(s[i + 1]) + unhex(s[i + 2])>> \o u[i + 3]
  ELSE IF s[i] = Percent THEN SubSeq(s, i, i + 2) \o u[i + 3]
  ELSE IF s[i] = Plus THEN <<Space>> \o u[i + 1]
  ELSE <<s[i]>> \o u[i + 1]

\* Unescape is the function of its definition, at 1.
LEMMA UnescapeIs ==
  ASSUME NEW s
  PROVE  Unescape(s) = (CHOOSE u : u = [i \in 1 .. Len(s) + 3 |-> UDef(s, u, i)])[1]
  BY DEF Unescape, UDef

\* Its value at i depends on those at i + 1 and i + 3.
LEMMA UDefLocal ==
  ASSUME NEW s, Len(s) \in Nat, NEW u, NEW v, NEW i \in 1 .. Len(s) + 3,
         i <= Len(s) => u[i + 1] = v[i + 1] /\ u[i + 3] = v[i + 3]
  PROVE  UDef(s, u, i) = UDef(s, v, i)
  BY DEF UDef

\* Hexadecimal digits have values.
LEMMA HexTypes ==
  ASSUME NEW c, ishex(c)
  PROVE  c \in Nat /\ unhex(c) \in 0 .. 15
  BY DEF ishex, unhex

\* Bytes are unescaped to bytes.
LEMMA UDefType ==
  ASSUME NEW s \in Seq(Byte), NEW u, NEW i \in 1 .. Len(s) + 3,
         i <= Len(s) => u[i + 1] \in Seq(Byte) /\ u[i + 3] \in Seq(Byte)
  PROVE  UDef(s, u, i) \in Seq(Byte)
  <1>1. Len(s) \in Nat /\ \A j \in 1 .. Len(s) : s[j] \in Byte
    BY LenProperties, ElementOfSeq
  <1>2. CASE i > Len(s)
    <2>1. UDef(s, u, i) = <<>>
      BY <1>2 DEF UDef
    <2> QED
      BY <2>1
  <1>3. CASE i <= Len(s)
    <2>1. i \in 1 .. Len(s) /\ ~(i > Len(s)) /\ u[i + 1] \in Seq(Byte) /\ u[i + 3] \in Seq(Byte)
      BY <1>1, <1>3
    <2>2. CASE s[i] = Percent /\ i + 2 > Len(s)
      <3>1. SubSeq(s, i, Len(s)) \in Seq(Byte)
        BY <1>1, SubSeqProperties
      <3> QED
        BY <2>1, <2>2, <3>1 DEF UDef
    <2>3. CASE s[i] = Percent /\ ~(i + 2 > Len(s)) /\ ishex(s[i + 1]) /\ ishex(s[i + 2])
      <3>1. 16 * unhex(s[i + 1]) + unhex(s[i + 2]) \in Byte
        <4>1. PICK a, b : a = unhex(s[i + 1]) /\ b = unhex(s[i + 2])
          OBVIOUS
        <4>2. a \in 0 .. 15 /\ b \in 0 .. 15
          BY <2>3, <4>1, HexTypes
        <4>3. 16 * a + b \in 0 .. 255
          BY <4>2
        <4> QED
          BY <4>1, <4>3 DEF Byte
      <3>2. <<16 * unhex(s[i + 1]) + unhex(s[i + 2])>> \in Seq(Byte)
        BY <3>1
      <3>3. UDef(s, u, i) = <<16 * unhex(s[i + 1]) + unhex(s[i + 2])>> \o u[i + 3]
        BY <2>1, <2>3, Zenon DEF UDef
      <3> QED
        BY <2>1, <3>2, <3>3, ConcatProperties
    <2>4. CASE s[i] = Percent /\ ~(i + 2 > Len(s)) /\ ~(ishex(s[i + 1]) /\ ishex(s[i + 2]))
      <3>1. SubSeq(s, i, i + 2) \in Seq(Byte)
        BY <1>1, <2>4, SubSeqProperties
      <3>2. UDef(s, u, i) = SubSeq(s, i, i + 2) \o u[i + 3]
        BY <2>1, <2>4, Zenon DEF UDef
      <3> QED
        BY <2>1, <3>1, <3>2, ConcatProperties
    <2>5. CASE s[i] # Percent
      <3>1. PICK x : x = IF s[i] = Plus THEN Space ELSE s[i]
        OBVIOUS
      <3>2. x \in Byte
        BY <1>1, <2>1, <3>1 DEF Byte, Space
      <3>3. UDef(s, u, i) = <<x>> \o u[i + 1]
        BY <2>1, <2>5, <3>1, Zenon DEF UDef
      <3>4. <<x>> \in Seq(Byte)
        BY <3>2
      <3> QED
        BY <2>1, <3>3, <3>4, ConcatProperties
    <2> QED
      BY <2>2, <2>3, <2>4, <2>5
  <1> QED
    BY <1>1, <1>2, <1>3

UnescapeRuns(s, u) == \A i \in 1 .. Len(s) + 3 : u[i] = UDef(s, u, i)

\* Unescape read from the end: its function exists, and these are its values.
LEMMA UnescapeRun ==
  ASSUME NEW s \in Seq(Byte)
  PROVE  \E u \in [1 .. Len(s) + 3 -> Seq(Byte)] : UnescapeRuns(s, u) /\ Unescape(s) = u[1]
  <1>1. PICK n : n = Len(s) /\ n \in Nat
    BY LenProperties
  <1>0. PICK D, St : D = 1 .. n + 3 /\ St = Seq(Byte)
    OBVIOUS
  <1> USE <1>0
  <1> DEFINE m == [i \in D |-> n + 3 - i]
             F == [p \in [D -> St] \X D |-> UDef(s, p[1], p[2])]
  <1>2. m \in [D -> 0 .. n + 3] /\ \A i \in D : m[i] = n + 3 - i
    BY <1>1
  <1>3. \A v \in [D -> St] : \A i \in D : UDef(s, v, i) \in St
    <2> TAKE v \in [D -> St]
    <2> TAKE i \in D
    <2>1. i \in 1 .. Len(s) + 3
      BY <1>1
    <2>2. i <= Len(s) => i + 1 \in D /\ i + 3 \in D
      BY <1>1
    <2>3. i <= Len(s) => v[i + 1] \in Seq(Byte) /\ v[i + 3] \in Seq(Byte)
      BY <2>2
    <2> QED
      BY <2>1, <2>3, UDefType
  <1>4. F \in [[D -> St] \X D -> St]
    BY <1>3
  <1>5. ASSUME NEW v, NEW w, NEW i \in D, \A j \in D : n + 3 - j < n + 3 - i => v[j] = w[j]
        PROVE  UDef(s, v, i) = UDef(s, w, i)
    <2>1. i \in 1 .. Len(s) + 3
      BY <1>1
    <2>2. i <= n => /\ i + 1 \in D /\ i + 3 \in D
                    /\ n + 3 - (i + 1) < n + 3 - i /\ n + 3 - (i + 3) < n + 3 - i
      BY <1>1
    <2>3. i <= Len(s) => v[i + 1] = w[i + 1] /\ v[i + 3] = w[i + 3]
      BY <1>1, <1>5, <2>2
    <2> QED
      BY <1>1, <2>1, <2>3, UDefLocal
  <1>6. ASSUME NEW v \in [D -> St], NEW w \in [D -> St], NEW i \in D,
               \A j \in D : m[j] < m[i] => v[j] = w[j]
        PROVE  F[<<v, i>>] = F[<<w, i>>]
    <2>1. \A j \in D : n + 3 - j < n + 3 - i => v[j] = w[j]
      BY <1>2, <1>6
    <2>2. UDef(s, v, i) = UDef(s, w, i)
      BY <1>5, <2>1, Zenon
    <2>3. <<v, i>> \in [D -> St] \X D /\ <<w, i>> \in [D -> St] \X D
      OBVIOUS
    <2> QED
      BY <2>2, <2>3
  <1>7. PICK v \in [D -> St] : \A i \in D : v[i] = UDef(s, v, i)
    <2>1. <<>> \in St /\ n + 3 \in Nat
      BY <1>1
    <2>2. PICK v \in [D -> St] : \A i \in D : v[i] = F[<<v, i>>]
      <3> HIDE DEF F, m
      <3>1. \A a, b \in [D -> St] : \A i \in D :
              (\A j \in D : m[j] < m[i] => a[j] = b[j]) => F[<<a, i>>] = F[<<b, i>>]
        BY <1>6, Zenon
      <3>2. Recurs(D, St, n + 3, m, F)
        BY <1>2, <1>4, <2>1, <3>1, Zenon DEF Recurs
      <3>3. Solvable(D, St, F)
        BY <2>1, <3>2, Recursion
      <3> QED
        BY <3>3 DEF Solvable
    <2>3. \A i \in D : F[<<v, i>>] = UDef(s, v, i)
      BY <2>2
    <2> QED
      BY <2>2, <2>3
  <1>8. v = [i \in 1 .. Len(s) + 3 |-> UDef(s, v, i)]
    BY <1>1, <1>7
  <1>9. PICK u : u = CHOOSE w : w = [i \in 1 .. Len(s) + 3 |-> UDef(s, w, i)]
    OBVIOUS
  <1>10. u = [i \in 1 .. Len(s) + 3 |-> UDef(s, u, i)]
    BY <1>8, <1>9
  <1>11. \A i \in D : u[i] = UDef(s, u, i)
    <2>1. D = 1 .. Len(s) + 3
      BY <1>1
    <2> QED
      BY <1>10, <2>1, Zenon
  <1>12. \A i \in D : u[i] = v[i]
    <2> DEFINE K == {k \in Nat : \A i \in D : n + 3 - i < k => u[i] = v[i]}
    <2>1. 0 \in K
      BY <1>1
    <2>2. ASSUME NEW k \in Nat, k \in K PROVE k + 1 \in K
      <3>1. ASSUME NEW i \in D, n + 3 - i < k + 1 PROVE u[i] = v[i]
        <4>1. \A j \in D : n + 3 - j < n + 3 - i => n + 3 - j < k
          BY <1>1, <3>1
        <4>2. \A j \in D : n + 3 - j < n + 3 - i => u[j] = v[j]
          BY <2>2, <4>1
        <4>3. UDef(s, u, i) = UDef(s, v, i)
          BY <1>5, <4>2
        <4> QED
          BY <1>7, <1>11, <4>3, Zenon
      <3> QED
        BY <3>1
    <2> HIDE DEF K
    <2>3. Nat \subseteq K
      BY <2>1, <2>2, SetInduction
    <2>4. n + 4 \in K /\ \A i \in D : n + 3 - i < n + 4
      BY <1>1, <2>3
    <2> QED
      BY <2>4 DEF K
  <1>13. u \in [1 .. Len(s) + 3 -> Seq(Byte)]
    <2>1. \A i \in 1 .. Len(s) + 3 : u[i] \in Seq(Byte)
      BY <1>1, <1>7, <1>12
    <2>2. DOMAIN u = 1 .. Len(s) + 3 /\ u = [i \in DOMAIN u |-> u[i]]
      <3> DEFINE G == [i \in 1 .. Len(s) + 3 |-> UDef(s, u, i)]
      <3>1. DOMAIN G = 1 .. Len(s) + 3 /\ G = [i \in DOMAIN G |-> G[i]]
        OBVIOUS
      <3> HIDE DEF G
      <3>2. u = G
        BY <1>10 DEF G
      <3> QED
        BY <3>1, <3>2, Zenon
    <2> QED
      BY <2>1, <2>2
  <1>14. UnescapeRuns(s, u)
    BY <1>1, <1>11 DEF UnescapeRuns
  <1> QED
    BY <1>9, <1>13, <1>14, UnescapeIs, Zenon

\* A part of a sequence: its length and its elements.
LEMMA SubSeqPart ==
  ASSUME NEW X, NEW s, NEW m \in Int, NEW n \in Int, m <= n, \A i \in m .. n : s[i] \in X,
         NEW x, x = SubSeq(s, m, n)
  PROVE  x \in Seq(X) /\ Len(x) = n - m + 1 /\ \A i \in 1 .. n - m + 1 : x[i] = s[m + i - 1]
  BY SubSeqProperties

\* A part of a sequence, from a place that another sequence has k places on.
LEMMA SubSeqMoved ==
  ASSUME NEW X, NEW s, NEW t \in Seq(X), NEW k \in Nat,
         NEW a \in 1 .. Len(t), NEW b \in a .. Len(t),
         \A i \in 1 .. Len(t) : s[k + i] = t[i]
  PROVE  SubSeq(s, k + a, k + b) = SubSeq(t, a, b)
  <1>1. Len(t) \in Nat /\ a \in Int /\ b \in Int /\ a <= b
    BY LenProperties
  <1>2. PICK m, n : m = k + a /\ n = k + b
    OBVIOUS
  <1>3. m \in Int /\ n \in Int /\ m <= n /\ n - m + 1 = b - a + 1
    BY <1>1, <1>2
  <1>4. \A i \in a .. b : t[i] \in X
    BY <1>1, ElementOfSeq
  <1>5. \A i \in m .. n : s[i] \in X
    <2> SUFFICES ASSUME NEW i \in m .. n PROVE s[i] \in X
      OBVIOUS
    <2>1. i - k \in a .. b /\ i - k \in 1 .. Len(t) /\ k + (i - k) = i
      BY <1>1, <1>2
    <2> QED
      BY <1>4, <2>1
  <1>6. PICK x, y : x = SubSeq(s, m, n) /\ y = SubSeq(t, a, b)
    OBVIOUS
  <1>7. x \in Seq(X) /\ Len(x) = b - a + 1 /\ \A i \in 1 .. b - a + 1 : x[i] = s[m + i - 1]
    <2>1. x \in Seq(X) /\ Len(x) = n - m + 1 /\ \A i \in 1 .. n - m + 1 : x[i] = s[m + i - 1]
      BY <1>3, <1>5, <1>6, SubSeqPart
    <2> QED
      BY <1>3, <2>1, Zenon
  <1>8. y \in Seq(X) /\ Len(y) = b - a + 1 /\ \A i \in 1 .. b - a + 1 : y[i] = t[a + i - 1]
    BY <1>1, <1>4, <1>6, SubSeqProperties
  <1>9. \A i \in 1 .. Len(x) : x[i] = y[i]
    <2> SUFFICES ASSUME NEW i \in 1 .. b - a + 1 PROVE s[m + i - 1] = t[a + i - 1]
      BY <1>7, <1>8
    <2>1. a + i - 1 \in 1 .. Len(t) /\ m + i - 1 = k + (a + i - 1)
      BY <1>1, <1>2
    <2> QED
      BY <2>1
  <1>10. x = y
    BY <1>7, <1>8, <1>9, SeqEqual
  <1> QED
    BY <1>2, <1>6, <1>10, Zenon

\* A part of the second of two sequences.
LEMMA SubSeqShift ==
  ASSUME NEW X, NEW p \in Seq(X), NEW t \in Seq(X), NEW s, s = p \o t, NEW k, k = Len(p),
         NEW a \in 1 .. Len(t), NEW b \in a .. Len(t)
  PROVE  SubSeq(s, k + a, k + b) = SubSeq(t, a, b)
  <1>1. /\ k \in Nat /\ Len(t) \in Nat
        /\ \A i \in 1 .. k + Len(t) : s[i] = IF i <= k THEN p[i] ELSE t[i - k]
    BY LenProperties, ConcatProperties
  <1>2. ASSUME NEW i \in 1 .. Len(t) PROVE s[k + i] = t[i]
    <2>1. k + i \in 1 .. k + Len(t) /\ ~(k + i <= k) /\ (k + i) - k = i
      BY <1>1
    <2> QED
      BY <1>1, <2>1
  <1> QED
    BY <1>1, <1>2, SubSeqMoved

\* u has at k + i what v has at i, as far as Unescape looks on.
SameAfter(t, k, i, u, v) ==
  i <= Len(t) => u[k + i + 1] = v[i + 1] /\ u[k + i + 3] = v[i + 3]
SameDef(p, t, i, u, v) == UDef(p \o t, u, Len(p) + i) = UDef(t, v, i)

\* What is in front of a string does not matter to the definition at a place in it.
LEMMA UDefShift ==
  ASSUME NEW p \in Seq(Byte), NEW t \in Seq(Byte),
         NEW u, NEW v, NEW i \in 1 .. Len(t) + 3, SameAfter(t, Len(p), i, u, v)
  PROVE  SameDef(p, t, i, u, v)
  <1>0. PICK s, k : s = p \o t /\ k = Len(p)
    OBVIOUS
  <1> SUFFICES UDef(s, u, k + i) = UDef(t, v, i)
    BY <1>0, Zenon DEF SameDef
  <1>1. PICK n, N : n = Len(t) /\ N = Len(s)
    OBVIOUS
  <1>2. /\ k \in Nat /\ n \in Nat /\ N = k + n /\ s \in Seq(Byte)
        /\ \A j \in 1 .. k + n : s[j] = IF j <= k THEN p[j] ELSE t[j - k]
    BY <1>0, <1>1, LenProperties, ConcatProperties
  <1>3. \A j \in 1 .. n : s[k + j] = t[j]
    <2> TAKE j \in 1 .. n
    <2>1. k + j \in 1 .. k + n /\ ~(k + j <= k) /\ (k + j) - k = j
      BY <1>2
    <2> QED
      BY <1>2, <2>1
  <1>4. CASE i > n
    <2>1. k + i > N
      BY <1>1, <1>2, <1>4
    <2> QED
      BY <1>1, <1>4, <2>1 DEF UDef
  <1>5. CASE ~(i > n)
    <2>1. i \in 1 .. n /\ ~(k + i > N) /\ (k + i + 2 > N <=> i + 2 > n)
      BY <1>1, <1>2, <1>5
    <2>2. PICK c, j : c = t[i] /\ j = k + i
      OBVIOUS
    <2>3. s[j] = c /\ u[j + 1] = v[i + 1] /\ u[j + 3] = v[i + 3] /\ ~(j > N)
            /\ (j + 2 > N <=> i + 2 > n)
      BY <1>0, <1>1, <1>3, <2>1, <2>2 DEF SameAfter
    <2>4. CASE c = Percent /\ i + 2 > n
      <3>1. SubSeq(s, k + i, k + n) = SubSeq(t, i, n)
        <4>1. i \in 1 .. Len(t) /\ n \in i .. Len(t)
          BY <1>1, <1>2, <2>1
        <4> QED
          BY <1>0, <4>1, SubSeqShift
      <3>2. SubSeq(s, j, N) = SubSeq(t, i, n)
        BY <1>2, <2>2, <3>1, Zenon
      <3> QED
        BY <1>1, <1>5, <2>2, <2>3, <2>4, <3>2, Zenon DEF UDef
    <2>5. CASE c = Percent /\ ~(i + 2 > n)
      <3>1. /\ j + 1 = k + (i + 1) /\ j + 2 = k + (i + 2)
            /\ i + 1 \in 1 .. n /\ i + 2 \in 1 .. n /\ i \in 1 .. Len(t) /\ i + 2 \in i .. Len(t)
        BY <1>1, <1>2, <2>1, <2>2, <2>5
      <3>2. s[j + 1] = t[i + 1] /\ s[j + 2] = t[i + 2]
        <4>1. s[k + (i + 1)] = t[i + 1] /\ s[k + (i + 2)] = t[i + 2]
          BY <1>3, <3>1
        <4> QED
          BY <3>1, <4>1, Zenon
      <3>3. SubSeq(s, j, j + 2) = SubSeq(t, i, i + 2)
        <4>1. SubSeq(s, k + i, k + (i + 2)) = SubSeq(t, i, i + 2)
          BY <1>0, <3>1, SubSeqShift
        <4> QED
          BY <2>2, <3>1, <4>1, Zenon
      <3> QED
        BY <1>1, <1>5, <2>2, <2>3, <2>5, <3>2, <3>3, Zenon DEF UDef
    <2>6. CASE c # Percent
      BY <1>1, <1>5, <2>2, <2>3, <2>6, Zenon DEF UDef
    <2> QED
      BY <2>4, <2>5, <2>6
  <1> QED
    BY <1>4, <1>5

Follows(p, u, v) == u[Len(p) + 1] = v[1]

\* Nor to the values after it.
LEMMA UnescapeShift ==
  ASSUME NEW p \in Seq(Byte), NEW t \in Seq(Byte), NEW u, UnescapeRuns(p \o t, u),
         NEW v, UnescapeRuns(t, v)
  PROVE  Follows(p, u, v)
  <1>0. PICK s, k : s = p \o t /\ k = Len(p)
    OBVIOUS
  <1>1. PICK n : n = Len(t)
    OBVIOUS
  <1>2. k \in Nat /\ n \in Nat /\ Len(s) = k + n
    BY <1>0, <1>1, LenProperties, ConcatProperties
  <1> DEFINE K == {j \in Nat : \A i \in 1 .. n + 3 : n + 3 - i < j => u[k + i] = v[i]}
  <1>3. 0 \in K
    BY <1>2
  <1>4. ASSUME NEW j \in Nat, j \in K PROVE j + 1 \in K
    <2>1. ASSUME NEW i \in 1 .. n + 3, n + 3 - i < j + 1 PROVE u[k + i] = v[i]
      <3>1. i <= n => /\ i + 1 \in 1 .. n + 3 /\ i + 3 \in 1 .. n + 3
                      /\ n + 3 - (i + 1) < j /\ n + 3 - (i + 3) < j
                      /\ k + (i + 1) = k + i + 1 /\ k + (i + 3) = k + i + 3
        BY <1>2, <2>1
      <3>2. i <= n => u[k + (i + 1)] = v[i + 1] /\ u[k + (i + 3)] = v[i + 3]
        BY <1>4, <3>1
      <3>3. i <= Len(t) => u[k + i + 1] = v[i + 1] /\ u[k + i + 3] = v[i + 3]
        BY <1>1, <3>1, <3>2, Zenon
      <3>4. i \in 1 .. Len(t) + 3 /\ k + i \in 1 .. Len(s) + 3
        BY <1>1, <1>2
      <3>5. UDef(s, u, k + i) = UDef(t, v, i)
        <4>1. i \in 1 .. Len(t) + 3
          BY <3>4
        <4>2. SameAfter(t, Len(p), i, u, v)
          BY <1>0, <3>3, Zenon DEF SameAfter
        <4>3. SameDef(p, t, i, u, v)
          BY <4>1, <4>2, UDefShift, Zenon
        <4> QED
          BY <1>0, <4>3, Zenon DEF SameDef
      <3> QED
        BY <1>0, <3>4, <3>5, Zenon DEF UnescapeRuns
    <2>2. j + 1 \in Nat
      OBVIOUS
    <2> QED
      BY <2>1, <2>2
  <1> HIDE DEF K
  <1>5. Nat \subseteq K
    BY <1>3, <1>4, SetInduction
  <1>6. n + 3 \in K /\ 1 \in 1 .. n + 3 /\ n + 3 - 1 < n + 3
    BY <1>2, <1>5
  <1>7. u[k + 1] = v[1]
    BY <1>6 DEF K
  <1> QED
    BY <1>0, <1>7, Zenon DEF Follows

\* Unescape of a character that is not escaped, and of one that is.
LEMMA UnescapeOne ==
  ASSUME NEW t \in Seq(Byte), NEW c \in Byte, c # Percent
  PROVE  Unescape(<<c>> \o t) = <<IF c = Plus THEN Space ELSE c>> \o Unescape(t)
  <1>1. PICK p, s : p = <<c>> /\ s = p \o t
    OBVIOUS
  <1>2. p \in Seq(Byte) /\ Len(p) = 1 /\ p[1] = c
    BY <1>1
  <1>3. Len(t) \in Nat /\ s \in Seq(Byte) /\ Len(s) = 1 + Len(t) /\ s[1] = c
    <2>1. /\ Len(t) \in Nat /\ s \in Seq(Byte) /\ Len(s) = 1 + Len(t)
          /\ \A i \in 1 .. 1 + Len(t) : s[i] = IF i <= 1 THEN p[i] ELSE t[i - 1]
      BY <1>1, <1>2, LenProperties, ConcatProperties
    <2>2. 1 \in 1 .. 1 + Len(t) /\ 1 <= 1
      BY <2>1
    <2> QED
      BY <1>2, <2>1, <2>2
  <1>4. PICK u : UnescapeRuns(s, u) /\ Unescape(s) = u[1]
    BY <1>3, UnescapeRun
  <1>5. PICK v : UnescapeRuns(t, v) /\ Unescape(t) = v[1]
    BY UnescapeRun
  <1>6. u[1 + 1] = v[1]
    <2>1. UnescapeRuns(p \o t, u) /\ UnescapeRuns(t, v)
      BY <1>1, <1>4, <1>5, Zenon
    <2>2. Follows(p, u, v)
      BY <1>2, <2>1, UnescapeShift, Zenon
    <2> QED
      BY <1>2, <2>2, Zenon DEF Follows
  <1>7. 1 \in 1 .. Len(s) + 3 /\ ~(1 > Len(s))
    BY <1>3
  <1>8. UDef(s, u, 1) = <<IF c = Plus THEN Space ELSE c>> \o u[1 + 1]
    BY <1>3, <1>7, Zenon DEF UDef
  <1>9. u[1] = UDef(s, u, 1)
    BY <1>4, <1>7 DEF UnescapeRuns
  <1> QED
    BY <1>1, <1>4, <1>5, <1>6, <1>8, <1>9, Zenon

\* A digit is read as what was written.
LEMMA HexBack ==
  ASSUME NEW d \in 0 .. 15
  PROVE  HexDigit(d) \in Byte /\ ishex(HexDigit(d)) /\ unhex(HexDigit(d)) = d
  BY DEF HexDigit, ishex, unhex, Byte

\* Two digits after the escape character give one byte.
LEMMA UnescapeHex ==
  ASSUME NEW t \in Seq(Byte), NEW a \in 0 .. 15, NEW b \in 0 .. 15
  PROVE  Unescape(<<Percent, HexDigit(a), HexDigit(b)>> \o t) = <<16 * a + b>> \o Unescape(t)
  <1>1. PICK p, s, h, l : h = HexDigit(a) /\ l = HexDigit(b) /\ p = <<Percent, h, l>> /\ s = p \o t
    OBVIOUS
  <1>2. /\ h \in Byte /\ ishex(h) /\ unhex(h) = a /\ l \in Byte /\ ishex(l) /\ unhex(l) = b
        /\ Percent \in Byte
    <2>1. Percent \in Byte
      BY DEF Percent, Byte
    <2> QED
      BY <1>1, <2>1, HexBack, Zenon
  <1>3. p \in Seq(Byte) /\ Len(p) = 3 /\ p[1] = Percent /\ p[2] = h /\ p[3] = l
    BY <1>1, <1>2
  <1>4. Len(t) \in Nat /\ s \in Seq(Byte) /\ Len(s) = 3 + Len(t) /\ s[1] = Percent /\ s[1 + 1] = h
          /\ s[1 + 2] = l
    <2>1. /\ Len(t) \in Nat /\ s \in Seq(Byte) /\ Len(s) = 3 + Len(t)
          /\ \A i \in 1 .. 3 + Len(t) : s[i] = IF i <= 3 THEN p[i] ELSE t[i - 3]
      BY <1>1, <1>3, LenProperties, ConcatProperties
    <2>2. \A i \in {1, 2, 3} : i \in 1 .. 3 + Len(t) /\ i <= 3
      BY <2>1
    <2>3. 1 + 1 = 2 /\ 1 + 2 = 3
      OBVIOUS
    <2> QED
      BY <1>3, <2>1, <2>2, <2>3
  <1>5. PICK u : UnescapeRuns(s, u) /\ Unescape(s) = u[1]
    BY <1>4, UnescapeRun
  <1>6. PICK v : UnescapeRuns(t, v) /\ Unescape(t) = v[1]
    BY UnescapeRun
  <1>7. u[1 + 3] = v[1]
    <2>1. u[3 + 1] = v[1]
      <3>1. UnescapeRuns(p \o t, u) /\ UnescapeRuns(t, v)
        BY <1>1, <1>5, <1>6, Zenon
      <3>2. Follows(p, u, v)
        BY <1>3, <3>1, UnescapeShift, Zenon
      <3> QED
        BY <1>3, <3>2, Zenon DEF Follows
    <2>2. 3 + 1 = 1 + 3
      OBVIOUS
    <2> QED
      BY <2>1, <2>2, Zenon
  <1>8. 1 \in 1 .. Len(s) + 3 /\ ~(1 > Len(s)) /\ ~(1 + 2 > Len(s))
    BY <1>4
  <1>9. UDef(s, u, 1) = <<16 * a + b>> \o u[1 + 3]
    BY <1>2, <1>4, <1>8, Zenon DEF UDef
  <1>10. u[1] = UDef(s, u, 1)
    BY <1>5, <1>8 DEF UnescapeRuns
  <1> QED
    BY <1>1, <1>5, <1>6, <1>7, <1>9, <1>10, Zenon

-----------------------------------------------------------------------------
(***************************************************************************)
(* escape and escapeTo.                                                    *)
(***************************************************************************)
Modes == {"query", "path"}
Separators(mode) ==
  IF mode = "query" THEN {Question, Amp, Equal, Semicolon, Space} ELSE {Question}
Safe(mode) == Byte \ Separators(mode)
\* what becomes of a byte that is escaped and unescaped again
Back(c, mode) == IF mode = "path" /\ c = Plus THEN Space ELSE c

\* No separator is left in what a byte is escaped to.
LEMMA EscapedSafe ==
  ASSUME NEW c \in Byte, NEW mode \in Modes
  PROVE  Escaped(c, mode) \in Seq(Safe(mode))
  <1>1. /\ Percent \in Safe(mode) /\ Plus \in Safe(mode)
        /\ \A d \in 0 .. 15 : HexDigit(d) \in Safe(mode)
    BY DEF Percent, Plus, Safe, Byte, Separators, HexDigit, Question, Amp, Equal, Semicolon, Space
  <1>2. CASE c = Space /\ mode = "query"
    <2>1. Escaped(c, mode) = <<Plus>>
      BY <1>2 DEF Escaped
    <2> QED
      BY <1>1, <2>1
  <1>3. CASE ~(c = Space /\ mode = "query") /\ shouldEscape(c, mode)
    <2>1. c \div 16 \in 0 .. 15 /\ c % 16 \in 0 .. 15
      BY DEF Byte
    <2>2. PICK h, l : h = HexDigit(c \div 16) /\ l = HexDigit(c % 16)
      OBVIOUS
    <2>3. h \in Safe(mode) /\ l \in Safe(mode)
      BY <1>1, <2>1, <2>2, Zenon
    <2>4. Escaped(c, mode) = <<Percent, h, l>>
      BY <1>3, <2>2 DEF Escaped
    <2> QED
      BY <1>1, <2>3, <2>4
  <1>4. CASE ~(c = Space /\ mode = "query") /\ ~shouldEscape(c, mode)
    <2>1. Escaped(c, mode) = <<c>>
      BY <1>4 DEF Escaped
    <2>2. c \notin Separators(mode)
      <3>1. CASE mode = "query"
        <4>1. c \in Alnum \cup {45, 46, 95, 126}
          BY <1>4, <3>1 DEF shouldEscape
        <4>2. c # Question /\ c # Amp /\ c # Equal /\ c # Semicolon /\ c # Space
          BY <4>1 DEF Alnum, Question, Amp, Equal, Semicolon, Space
        <4> QED
          BY <3>1, <4>2 DEF Separators
      <3>2. CASE mode = "path"
        <4>1. c # Question
          <5>1. Question \notin Alnum \cup {45, 46, 95, 126}
            BY DEF Question, Alnum
          <5> QED
            BY <1>4, <5>1, Zenon DEF shouldEscape
        <4>2. "path" # "query"
          OBVIOUS
        <4> QED
          BY <3>2, <4>1, <4>2 DEF Separators
      <3> QED
        BY <3>1, <3>2 DEF Modes
    <2>3. c \in Safe(mode)
      BY <2>2 DEF Safe
    <2> QED
      BY <2>1, <2>3
  <1> QED
    BY <1>2, <1>3, <1>4

EscapedAll(s, mode) == [i \in DOMAIN s |-> Escaped(s[i], mode)]

\* Nor in an escaped string.
LEMMA EscapeTyped ==
  ASSUME NEW s \in Seq(Byte), NEW mode \in Modes
  PROVE  /\ EscapedAll(s, mode) \in Seq(Seq(Safe(mode))) /\ Len(EscapedAll(s, mode)) = Len(s)
         /\ \A i \in 1 .. Len(s) : EscapedAll(s, mode)[i] = Escaped(s[i], mode)
         /\ escape(s, mode) = FlattenSeq(EscapedAll(s, mode))
         /\ escape(s, mode) \in Seq(Safe(mode)) /\ escape(s, mode) \in Seq(Byte)
  <1>1. PICK n, T : n = Len(s) /\ T = Seq(Safe(mode))
    OBVIOUS
  <1>2. n \in Nat /\ DOMAIN s = 1 .. n /\ \A i \in 1 .. n : s[i] \in Byte
    BY <1>1, LenProperties, ElementOfSeq
  <1>3. \A i \in 1 .. n : Escaped(s[i], mode) \in T
    BY <1>1, <1>2, EscapedSafe
  <1>4. PICK e : e = EscapedAll(s, mode)
    OBVIOUS
  <1>5. e = [i \in 1 .. n |-> Escaped(s[i], mode)]
    BY <1>2, <1>4 DEF EscapedAll
  <1>6. e \in Seq(T) /\ Len(e) = n
    BY <1>2, <1>3, <1>5
  <1>7. \A i \in 1 .. n : e[i] = Escaped(s[i], mode)
    BY <1>5
  <1>8. escape(s, mode) = FlattenSeq(e)
    BY <1>4 DEF escape, EscapedAll
  <1>9. FlattenSeq(e) \in T
    <2>1. e \in Seq(Seq(Safe(mode))) /\ <<>> \in Seq(Safe(mode))
      BY <1>1, <1>6
    <2> QED
      BY <1>1, <2>1, FlattenAppend
  <1>10. escape(s, mode) \in Seq(Byte)
    <2>1. Safe(mode) \subseteq Byte
      BY DEF Safe
    <2> QED
      BY <1>1, <1>8, <1>9, <2>1, SeqMonotonic
  <1> QED
    BY <1>1, <1>4, <1>6, <1>7, <1>8, <1>9, <1>10, Zenon

\* The empty string stays.
LEMMA EscapeEmpty ==
  ASSUME NEW mode \in Modes
  PROVE  escape(<<>>, mode) = <<>>
  <1>1. PICK e : e = EscapedAll(<<>>, mode)
    OBVIOUS
  <1>2. <<>> \in Seq(Byte) /\ Len(<<>>) = 0
    BY EmptySeq
  <1>3. e \in Seq(Seq(Safe(mode))) /\ Len(e) = 0 /\ escape(<<>>, mode) = FlattenSeq(e)
    BY <1>1, <1>2, EscapeTyped
  <1>4. e = <<>>
    BY <1>3, EmptySeq
  <1>5. <<>> \in Seq(Seq(Nat)) /\ <<>> \in Seq(Nat)
    OBVIOUS
  <1>6. FlattenSeq(<<>>) = <<>>
    BY <1>5, FlattenAppend
  <1> QED
    BY <1>3, <1>4, <1>6

\* A byte more at the end,
LEMMA EscapeAppend ==
  ASSUME NEW s \in Seq(Byte), NEW c \in Byte, NEW mode \in Modes
  PROVE  escape(Append(s, c), mode) = escape(s, mode) \o Escaped(c, mode)
  <1>1. PICK t, n, T : t = Append(s, c) /\ n = Len(s) /\ T = Seq(Safe(mode))
    OBVIOUS
  <1>2. /\ n \in Nat /\ t \in Seq(Byte) /\ Len(t) = n + 1 /\ t[n + 1] = c
        /\ \A i \in 1 .. n : t[i] = s[i]
    BY <1>1, LenProperties, AppendProperties
  <1>3. PICK e, f, x : e = EscapedAll(s, mode) /\ f = EscapedAll(t, mode) /\ x = Escaped(c, mode)
    OBVIOUS
  <1>4. /\ e \in Seq(T) /\ Len(e) = n /\ \A i \in 1 .. n : e[i] = Escaped(s[i], mode)
        /\ escape(s, mode) = FlattenSeq(e)
    BY <1>1, <1>3, EscapeTyped
  <1>5. /\ f \in Seq(T) /\ Len(f) = n + 1 /\ \A i \in 1 .. n + 1 : f[i] = Escaped(t[i], mode)
        /\ escape(t, mode) = FlattenSeq(f)
    BY <1>1, <1>2, <1>3, EscapeTyped
  <1>6. x \in T
    BY <1>1, <1>3, EscapedSafe
  <1>7. /\ Append(e, x) \in Seq(T) /\ Len(Append(e, x)) = n + 1 /\ Append(e, x)[n + 1] = x
        /\ \A i \in 1 .. n : Append(e, x)[i] = e[i]
    BY <1>4, <1>6, AppendProperties
  <1>8. ASSUME NEW i \in 1 .. n + 1 PROVE f[i] = Append(e, x)[i]
    <2>1. CASE i = n + 1
      BY <1>2, <1>3, <1>5, <1>7, <2>1
    <2>2. CASE i # n + 1
      <3>1. i \in 1 .. n
        BY <1>2, <2>2
      <3> QED
        BY <1>2, <1>4, <1>5, <1>7, <3>1
    <2> QED
      BY <2>1, <2>2
  <1>9. f = Append(e, x)
    BY <1>5, <1>7, <1>8, SeqEqual
  <1>10. FlattenSeq(Append(e, x)) = FlattenSeq(e) \o x
    BY <1>1, <1>4, <1>6, FlattenAppend
  <1> QED
    BY <1>1, <1>3, <1>4, <1>5, <1>9, <1>10, Zenon

\* or at the start.
LEMMA EscapeCons ==
  ASSUME NEW c \in Byte, NEW s \in Seq(Byte), NEW mode \in Modes
  PROVE  escape(<<c>> \o s, mode) = Escaped(c, mode) \o escape(s, mode)
  <1>1. PICK t, n, T : t = <<c>> \o s /\ n = Len(s) /\ T = Seq(Safe(mode))
    OBVIOUS
  <1>2. /\ n \in Nat /\ t \in Seq(Byte) /\ Len(t) = n + 1 /\ t[1] = c
        /\ \A i \in 1 .. n : t[i + 1] = s[i]
    BY <1>1, ConsFacts
  <1>3. PICK e, f, x : e = EscapedAll(s, mode) /\ f = EscapedAll(t, mode) /\ x = Escaped(c, mode)
    OBVIOUS
  <1>4. /\ e \in Seq(T) /\ Len(e) = n /\ \A i \in 1 .. n : e[i] = Escaped(s[i], mode)
        /\ escape(s, mode) = FlattenSeq(e)
    BY <1>1, <1>3, EscapeTyped
  <1>5. /\ f \in Seq(T) /\ Len(f) = n + 1 /\ \A i \in 1 .. n + 1 : f[i] = Escaped(t[i], mode)
        /\ escape(t, mode) = FlattenSeq(f)
    BY <1>1, <1>2, <1>3, EscapeTyped, ZenonT(60)
  <1>6. x \in T
    BY <1>1, <1>3, EscapedSafe
  <1>7. PICK g : g = <<x>> \o e
    OBVIOUS
  <1>8. g \in Seq(T) /\ Len(g) = n + 1 /\ g[1] = x /\ \A i \in 1 .. n : g[i + 1] = e[i]
    BY <1>4, <1>6, <1>7, ConsFacts
  <1>9. ASSUME NEW i \in 1 .. n + 1 PROVE f[i] = g[i]
    <2>1. CASE i = 1
      BY <1>2, <1>3, <1>5, <1>8, <2>1
    <2>2. CASE i # 1
      <3>1. PICK j \in 1 .. n : i = j + 1
        <4>1. i - 1 \in 1 .. n /\ i = (i - 1) + 1
          BY <1>2, <2>2
        <4> QED
          BY <4>1
      <3> QED
        BY <1>2, <1>4, <1>5, <1>8, <3>1
    <2> QED
      BY <2>1, <2>2
  <1>10. f = g
    BY <1>5, <1>8, <1>9, SeqEqual
  <1>11. FlattenSeq(<<x>> \o e) = x \o FlattenSeq(e)
    BY <1>1, <1>4, <1>6, FlattenCons
  <1> QED
    BY <1>1, <1>3, <1>4, <1>5, <1>7, <1>10, <1>11, Zenon

\* An escaped byte is unescaped to the byte, of a name a plus to a space.
LEMMA BackOne ==
  ASSUME NEW c \in Byte, NEW mode \in Modes, NEW t \in Seq(Byte)
  PROVE  Unescape(Escaped(c, mode) \o t) = <<Back(c, mode)>> \o Unescape(t)
  <1>1. Plus # Percent /\ Plus \in Byte /\ "path" # "query" /\ Plus # Space /\ Space # Percent
    BY DEF Plus, Percent, Byte, Space
  <1>2. CASE c = Space /\ mode = "query"
    <2>1. Escaped(c, mode) = <<Plus>> /\ Back(c, mode) = Space
      BY <1>1, <1>2 DEF Escaped, Back
    <2>2. Unescape(<<Plus>> \o t) = <<IF Plus = Plus THEN Space ELSE Plus>> \o Unescape(t)
      BY <1>1, UnescapeOne, Zenon
    <2> QED
      BY <2>1, <2>2, Zenon
  <1>3. CASE ~(c = Space /\ mode = "query") /\ shouldEscape(c, mode)
    <2>1. PICK a, b : a = c \div 16 /\ b = c % 16
      OBVIOUS
    <2>2. a \in 0 .. 15 /\ b \in 0 .. 15 /\ 16 * a + b = c
      BY <2>1 DEF Byte
    <2>3. Escaped(c, mode) = <<Percent, HexDigit(a), HexDigit(b)>>
      BY <1>3, <2>1 DEF Escaped
    <2>4. Unescape(<<Percent, HexDigit(a), HexDigit(b)>> \o t) = <<16 * a + b>> \o Unescape(t)
      BY <2>2, UnescapeHex, Zenon
    <2>5. Back(c, mode) = c
      <3>1. ~(mode = "path" /\ c = Plus)
        <4>1. Plus \in Reserved /\ Plus # Question
          BY DEF Plus, Reserved, Question
        <4> QED
          BY <1>1, <1>3, <4>1, Zenon DEF shouldEscape
      <3> QED
        BY <3>1, Zenon DEF Back
    <2> QED
      BY <2>2, <2>3, <2>4, <2>5, Zenon
  <1>4. CASE ~(c = Space /\ mode = "query") /\ ~shouldEscape(c, mode)
    <2>1. Escaped(c, mode) = <<c>>
      BY <1>4 DEF Escaped
    <2>2. c # Percent
      <3>1. Percent \notin Alnum \cup {45, 46, 95, 126} /\ Percent \notin Reserved
        BY DEF Percent, Alnum, Reserved, Amp, Plus, Semicolon, Equal, Question
      <3> QED
        BY <1>4, <3>1, Zenon DEF shouldEscape
    <2>3. Back(c, mode) = IF c = Plus THEN Space ELSE c
      <3>1. ~(mode = "query" /\ c = Plus)
        <4>1. Plus \notin Alnum \cup {45, 46, 95, 126}
          BY DEF Plus, Alnum
        <4> QED
          BY <1>4, <4>1, Zenon DEF shouldEscape
      <3> QED
        BY <3>1 DEF Back, Modes
    <2>4. Unescape(<<c>> \o t) = <<IF c = Plus THEN Space ELSE c>> \o Unescape(t)
      BY <2>2, UnescapeOne, Zenon
    <2> QED
      BY <2>1, <2>3, <2>4, Zenon
  <1> QED
    BY <1>2, <1>3, <1>4

BackAll(s, mode) == [i \in DOMAIN s |-> Back(s[i], mode)]

\* A byte more.
LEMMA BackCons ==
  ASSUME NEW c \in Byte, NEW t \in Seq(Byte), NEW mode \in Modes
  PROVE  BackAll(<<c>> \o t, mode) = <<Back(c, mode)>> \o BackAll(t, mode)
  <1>1. PICK s, n : s = <<c>> \o t /\ n = Len(t)
    OBVIOUS
  <1>2. n \in Nat /\ s \in Seq(Byte) /\ Len(s) = n + 1 /\ s[1] = c
          /\ \A i \in 1 .. n : s[i + 1] = t[i]
    BY <1>1, ConsFacts
  <1>3. \A x \in Byte : Back(x, mode) \in Byte
    BY DEF Back, Byte, Space
  <1>4. DOMAIN s = 1 .. n + 1 /\ DOMAIN t = 1 .. n /\ \A i \in 1 .. n : t[i] \in Byte
    BY <1>1, <1>2, LenProperties, ElementOfSeq
  <1>5. PICK a, b, x : a = BackAll(s, mode) /\ b = BackAll(t, mode) /\ x = Back(c, mode)
    OBVIOUS
  <1>6. b = [i \in 1 .. n |-> Back(t[i], mode)]
    BY <1>4, <1>5 DEF BackAll
  <1>7. b \in Seq(Byte) /\ Len(b) = n /\ \A i \in 1 .. n : b[i] = Back(t[i], mode)
    <2>1. \A i \in 1 .. n : Back(t[i], mode) \in Byte
      BY <1>3, <1>4
    <2> QED
      BY <1>2, <1>6, <2>1
  <1>8. a = [i \in 1 .. n + 1 |-> Back(s[i], mode)]
    BY <1>4, <1>5 DEF BackAll
  <1>9. a \in Seq(Byte) /\ Len(a) = n + 1 /\ \A i \in 1 .. n + 1 : a[i] = Back(s[i], mode)
    <2>1. \A i \in 1 .. n + 1 : s[i] \in Byte
      BY <1>2, ElementOfSeq
    <2>2. \A i \in 1 .. n + 1 : Back(s[i], mode) \in Byte
      BY <1>3, <2>1
    <2> QED
      BY <1>2, <1>8, <2>2
  <1>10. x \in Byte
    BY <1>3, <1>5
  <1>11. PICK g : g = <<x>> \o b
    OBVIOUS
  <1>12. g \in Seq(Byte) /\ Len(g) = n + 1 /\ g[1] = x /\ \A i \in 1 .. n : g[i + 1] = b[i]
    BY <1>7, <1>10, <1>11, ConsFacts
  <1>13. ASSUME NEW i \in 1 .. n + 1 PROVE a[i] = g[i]
    <2>1. CASE i = 1
      BY <1>2, <1>5, <1>9, <1>12, <2>1
    <2>2. CASE i # 1
      <3>1. PICK j \in 1 .. n : i = j + 1
        <4>1. i - 1 \in 1 .. n /\ i = (i - 1) + 1
          BY <1>2, <2>2
        <4> QED
          BY <4>1
      <3> QED
        BY <1>2, <1>7, <1>9, <1>12, <3>1
    <2> QED
      BY <2>1, <2>2
  <1>14. a = g
    BY <1>9, <1>12, <1>13, SeqEqual
  <1> QED
    BY <1>1, <1>5, <1>11, <1>14, Zenon

\* So is a string: by induction from its end.
LEMMA EscapeBack ==
  ASSUME NEW mode \in Modes
  PROVE  \A s \in Seq(Byte) : Unescape(escape(s, mode)) = BackAll(s, mode)
  <1> DEFINE K == {s \in Seq(Byte) : Unescape(escape(s, mode)) = BackAll(s, mode)}
  <1>1. <<>> \in K
    <2>1. <<>> \in Seq(Byte) /\ Len(<<>>) = 0 /\ DOMAIN <<>> = {}
      OBVIOUS
    <2>2. PICK u : UnescapeRuns(<<>>, u) /\ Unescape(<<>>) = u[1]
      BY <2>1, UnescapeRun
    <2>3. 1 \in 1 .. Len(<<>>) + 3 /\ 1 > Len(<<>>)
      BY <2>1
    <2>4. UDef(<<>>, u, 1) = <<>>
      BY <2>3 DEF UDef
    <2>5. u[1] = UDef(<<>>, u, 1)
      BY <2>2, <2>3 DEF UnescapeRuns
    <2>6. BackAll(<<>>, mode) = <<>>
      <3>1. PICK b : b = BackAll(<<>>, mode)
        OBVIOUS
      <3>2. b = [i \in 1 .. 0 |-> Back(<<>>[i], mode)]
        BY <2>1, <3>1 DEF BackAll
      <3>3. b \in Seq(Byte) /\ Len(b) = 0
        BY <3>2
      <3> QED
        BY <3>1, <3>3, EmptySeq
    <2> QED
      BY <2>1, <2>2, <2>4, <2>5, <2>6, EscapeEmpty
  <1>2. ASSUME NEW c \in Byte, NEW t \in Seq(Byte), t \in K PROVE <<c>> \o t \in K
    <2>1. <<c>> \o t \in Seq(Byte)
      BY ConsFacts
    <2>2. escape(t, mode) \in Seq(Byte)
      BY EscapeTyped
    <2>3. Unescape(Escaped(c, mode) \o escape(t, mode)) =
              <<Back(c, mode)>> \o Unescape(escape(t, mode))
      BY <2>2, BackOne, Zenon
    <2>4. escape(<<c>> \o t, mode) = Escaped(c, mode) \o escape(t, mode)
      BY EscapeCons, Zenon
    <2>5. BackAll(<<c>> \o t, mode) = <<Back(c, mode)>> \o BackAll(t, mode)
      BY BackCons, Zenon
    <2>6. Unescape(escape(t, mode)) = BackAll(t, mode)
      BY <1>2
    <2>7. Unescape(escape(<<c>> \o t, mode)) = BackAll(<<c>> \o t, mode)
      BY <2>3, <2>4, <2>5, <2>6, Zenon
    <2> QED
      BY <2>1, <2>7, Zenon
  <1> HIDE DEF K
  <1>3. \A s \in Seq(Byte) : s \in K
    BY <1>1, <1>2, SeqConsInduction
  <1> QED
    BY <1>3 DEF K

EscapeStates == [out : Seq(Byte), pos : Nat]
NoEscape == [out |-> <<>>, pos |-> 0]
EscapeStep(s, mode, st, i) ==
  IF ~shouldEscape(s[i], mode) THEN st
  ELSE [out |-> st.out \o SubSeq(s, st.pos + 1, i - 1) \o Escaped(s[i], mode), pos |-> i]
EscapeEnd(s, st) ==
  IF st.pos = 0 THEN s
  ELSE IF CopiesRest(s, st.pos) THEN st.out \o SubSeq(s, st.pos + 1, Len(s))
  ELSE st.out

\* The states of escapeTo, at the start and after every byte.
LEMMA EscapeTypes ==
  ASSUME NEW s \in Seq(Byte), NEW mode \in Modes
  PROVE  /\ NoEscape \in EscapeStates
         /\ \A st \in EscapeStates : \A i \in 1 .. Len(s) :
              EscapeStep(s, mode, st, i) \in EscapeStates
  <1>1. NoEscape \in EscapeStates
    BY DEF NoEscape, EscapeStates
  <1>2. ASSUME NEW st \in EscapeStates, NEW i \in 1 .. Len(s)
        PROVE  EscapeStep(s, mode, st, i) \in EscapeStates
    <2>1. st.out \in Seq(Byte) /\ st.pos \in Nat /\ i \in Nat /\ s[i] \in Byte /\ Len(s) \in Nat
      BY LenProperties, ElementOfSeq DEF EscapeStates
    <2>2. PICK x, y : x = SubSeq(s, st.pos + 1, i - 1) /\ y = Escaped(s[i], mode)
      OBVIOUS
    <2>3. x \in Seq(Byte)
      <3>1. \A j \in st.pos + 1 .. i - 1 : s[j] \in Byte
        <4>1. \A j \in st.pos + 1 .. i - 1 : j \in 1 .. Len(s)
          BY <2>1
        <4> QED
          BY <4>1, ElementOfSeq
      <3>2. st.pos + 1 \in Int /\ i - 1 \in Int
        BY <2>1
      <3> QED
        BY <2>2, <3>1, <3>2, SubSeqProperties
    <2>4. y \in Seq(Byte)
      <3>1. y \in Seq(Safe(mode)) /\ Safe(mode) \subseteq Byte
        BY <2>1, <2>2, EscapedSafe DEF Safe
      <3> QED
        BY <3>1, SeqMonotonic
    <2>5. PICK o : o = st.out \o x \o y
      OBVIOUS
    <2>6. o \in Seq(Byte)
      BY <2>1, <2>3, <2>4, <2>5, ConcatProperties
    <2>7. EscapeStep(s, mode, st, i) = IF ~shouldEscape(s[i], mode) THEN st
            ELSE [out |-> o, pos |-> i]
      BY <2>2, <2>5, Zenon DEF EscapeStep
    <2> QED
      BY <2>1, <2>6, <2>7 DEF EscapeStates
  <1> QED
    BY <1>1, <1>2

\* what escapeTo chooses
EscapeIter(s, mode, it) ==
  it = [S \in SUBSET DOMAIN [i \in DOMAIN s |-> i] |->
          IF S = {} THEN NoEscape
          ELSE EscapeStep(s, mode, it[S \ {Max(S)}], [i \in DOMAIN s |-> i][Max(S)])]

\* escapeTo is that fold over the places of the string, and what is left.
LEMMA EscapeToIs ==
  ASSUME NEW s, NEW mode
  PROVE  escapeTo(s, mode) =
             EscapeEnd(s, (CHOOSE it : EscapeIter(s, mode, it))[DOMAIN [i \in DOMAIN s |-> i]])
  BY DEF escapeTo, FoldLeftDomain, FoldLeft, MapThenFoldSet, EscapeIter, EscapeEnd, EscapeStep,
         NoEscape

EscapeRuns(s, mode, w) ==
  /\ w[0] = NoEscape
  /\ \A k \in 0 .. Len(s) - 1 : w[k + 1] = EscapeStep(s, mode, w[k], k + 1)

\* The states of escapeTo, byte by byte.
LEMMA EscapeRun ==
  ASSUME NEW s \in Seq(Byte), NEW mode \in Modes
  PROVE  \E w : EscapeRuns(s, mode, w) /\ escapeTo(s, mode) = EscapeEnd(s, w[Len(s)])
  <1>1. PICK n : n = Len(s) /\ n \in Nat /\ DOMAIN s = 1 .. n
    BY LenProperties
  <1>2. PICK id : id = [i \in DOMAIN s |-> i]
    OBVIOUS
  <1>3. DOMAIN id = 1 .. n /\ \A i \in 1 .. n : id[i] = i
    BY <1>1, <1>2
  <1> DEFINE F == [p \in EscapeStates \X (1 .. n) |-> EscapeStep(s, mode, p[1], p[2])]
  <1>4. F \in [EscapeStates \X (1 .. n) -> EscapeStates]
    BY <1>1, EscapeTypes
  <1>5. PICK g \in [SUBSET (1 .. n) -> EscapeStates] : FoldTo(n, NoEscape, F, g)
    <2> HIDE DEF F
    <2> QED
      BY <1>1, <1>4, EscapeTypes, FoldExists
  <1>6. EscapeIter(s, mode, g)
    <2>1. ASSUME NEW S \in SUBSET (1 .. n)
          PROVE  g[S] = IF S = {} THEN NoEscape
                   ELSE EscapeStep(s, mode, g[S \ {Max(S)}], id[Max(S)])
      <3>1. CASE S = {}
        BY <1>5, <3>1 DEF FoldTo
      <3>2. CASE S # {}
        <4>1. Max(S) \in 1 .. n /\ id[Max(S)] = Max(S) /\ S \ {Max(S)} \in SUBSET (1 .. n)
          BY <1>1, <1>3, <3>2, MaxFacts
        <4>2. <<g[S \ {Max(S)}], Max(S)>> \in EscapeStates \X (1 .. n)
          BY <4>1
        <4>3. g[S] = F[<<g[S \ {Max(S)}], Max(S)>>]
          BY <1>5, <3>2 DEF FoldTo
        <4>4. F[<<g[S \ {Max(S)}], Max(S)>>] = EscapeStep(s, mode, g[S \ {Max(S)}], Max(S))
          BY <4>2
        <4> QED
          BY <3>2, <4>1, <4>3, <4>4, Zenon
      <3> QED
        BY <3>1, <3>2
    <2>2. g = [S \in SUBSET (1 .. n) |-> IF S = {} THEN NoEscape
                                         ELSE EscapeStep(s, mode, g[S \ {Max(S)}], id[Max(S)])]
      BY <2>1
    <2> QED
      BY <1>2, <1>3, <2>2, Zenon DEF EscapeIter
  <1>7. PICK it : it = CHOOSE h : EscapeIter(s, mode, h)
    OBVIOUS
  <1>8. EscapeIter(s, mode, it)
    BY <1>6, <1>7
  <1>9. \A S \in SUBSET (1 .. n) : it[S] = IF S = {} THEN NoEscape
                                           ELSE EscapeStep(s, mode, it[S \ {Max(S)}], id[Max(S)])
    <2>1. it = [S \in SUBSET (1 .. n) |-> IF S = {} THEN NoEscape
                                          ELSE EscapeStep(s, mode, it[S \ {Max(S)}], id[Max(S)])]
      BY <1>2, <1>3, <1>8, Zenon DEF EscapeIter
    <2> QED
      BY <2>1, Zenon
  <1> DEFINE w == [k \in 0 .. n |-> it[1 .. k]]
  <1>10. w[0] = NoEscape
    <2>1. {} \in SUBSET (1 .. n) /\ 1 .. 0 = {} /\ 0 \in 0 .. n
      BY <1>1
    <2> QED
      BY <1>9, <2>1
  <1>11. ASSUME NEW k \in 0 .. n - 1 PROVE w[k + 1] = EscapeStep(s, mode, w[k], k + 1)
    <2>1. /\ 1 .. k + 1 \in SUBSET (1 .. n) /\ k \in Nat /\ k \in 0 .. n /\ k + 1 \in 0 .. n
          /\ k + 1 \in 1 .. n
      BY <1>1
    <2>2. Max(1 .. k + 1) = k + 1 /\ (1 .. k + 1) \ {k + 1} = 1 .. k /\ 1 .. k + 1 # {}
      BY <2>1, RangeLast
    <2>3. it[1 .. k + 1] =
              EscapeStep(s, mode, it[(1 .. k + 1) \ {Max(1 .. k + 1)}], id[Max(1 .. k + 1)])
      BY <1>9, <2>1, <2>2, Zenon
    <2>4. it[1 .. k + 1] = EscapeStep(s, mode, it[1 .. k], k + 1)
      BY <1>3, <2>1, <2>2, <2>3, Zenon
    <2> QED
      BY <2>1, <2>4, Zenon
  <1>12. escapeTo(s, mode) = EscapeEnd(s, it[1 .. n])
    BY <1>2, <1>3, <1>7, EscapeToIs, Zenon
  <1>13. w[n] = it[1 .. n]
    <2>1. n \in 0 .. n
      BY <1>1
    <2> QED
      BY <2>1, Zenon
  <1> HIDE DEF w
  <1>14. EscapeRuns(s, mode, w)
    BY <1>1, <1>10, <1>11, Zenon DEF EscapeRuns
  <1> QED
    BY <1>1, <1>12, <1>13, <1>14, Zenon

\* After k bytes.
EscapeInv(s, mode, k, st) ==
  /\ st \in EscapeStates /\ st.pos <= k
  /\ st.pos = 0 => st.out = <<>>
  /\ st.pos # 0 => shouldEscape(s[st.pos], mode)
  /\ \A j \in st.pos + 1 .. k : ~shouldEscape(s[j], mode)
  /\ st.out \o SubSeq(s, st.pos + 1, k) = escape(SubSeq(s, 1, k), mode)

\* A part of a string is a string.
LEMMA PartTyped ==
  ASSUME NEW s \in Seq(Byte), NEW a \in Nat, NEW b \in 0 .. Len(s)
  PROVE  SubSeq(s, a + 1, b) \in Seq(Byte)
  <1>1. Len(s) \in Nat
    BY LenProperties
  <1>2. \A j \in a + 1 .. b : s[j] \in Byte
    <2>1. \A j \in a + 1 .. b : j \in 1 .. Len(s)
      BY <1>1
    <2> QED
      BY <2>1, ElementOfSeq
  <1>3. a + 1 \in Int /\ b \in Int
    BY <1>1
  <1> QED
    BY <1>2, <1>3, SubSeqProperties

\* A byte that needs no escape stays.
LEMMA NotEscaped ==
  ASSUME NEW c, NEW mode, ~shouldEscape(c, mode)
  PROVE  Escaped(c, mode) = <<c>>
  <1>1. ~(c = Space /\ mode = "query")
    <2>1. Space \notin Alnum \cup {45, 46, 95, 126} /\ Space \notin Reserved
      BY DEF Space, Alnum, Reserved, Amp, Plus, Semicolon, Equal, Question
    <2> QED
      BY <2>1, Zenon DEF shouldEscape
  <1> QED
    BY <1>1 DEF Escaped

\* Strings are joined in any order, and cut at the end in one way.
LEMMA BytesJoin ==
  /\ \A x, y, z \in Seq(Byte) : (x \o y) \o z = x \o (y \o z)
  /\ \A x, y \in Seq(Byte), c \in Byte : Append(x, c) = Append(y, c) => x = y
  <1>1. ASSUME NEW x \in Seq(Byte), NEW y \in Seq(Byte), NEW z \in Seq(Byte)
        PROVE  (x \o y) \o z = x \o (y \o z)
    BY ConcatAssociative
  <1>2. ASSUME NEW x \in Seq(Byte), NEW y \in Seq(Byte), NEW c \in Byte,
               Append(x, c) = Append(y, c)
        PROVE  x = y
    BY <1>2, AppendInjective
  <1> QED
    BY <1>1, <1>2

\* escapeTo has written, or has still to copy, what escape gives so far.
LEMMA EscapeKeeps ==
  ASSUME NEW s \in Seq(Byte), NEW mode \in Modes, NEW k \in Nat, k + 1 \in 1 .. Len(s),
         NEW st, EscapeInv(s, mode, k, st)
  PROVE  EscapeInv(s, mode, k + 1, EscapeStep(s, mode, st, k + 1))
  <1>1. PICK n, c, out, pos : n = Len(s) /\ c = s[k + 1] /\ out = st.out /\ pos = st.pos
    OBVIOUS
  <1>2. /\ n \in Nat /\ c \in Byte /\ out \in Seq(Byte) /\ pos \in Nat /\ pos <= k
        /\ k + 1 \in 1 .. n /\ k \in 0 .. n
    BY <1>1, LenProperties, ElementOfSeq DEF EscapeInv, EscapeStates
  <1>3. PICK x, z, e, f : x = SubSeq(s, 1, k) /\ z = SubSeq(s, pos + 1, k) /\ e = escape(x, mode)
                          /\ f = Escaped(c, mode)
    OBVIOUS
  <1>4. x \in Seq(Byte) /\ z \in Seq(Byte)
    <2>1. SubSeq(s, 0 + 1, k) \in Seq(Byte) /\ SubSeq(s, pos + 1, k) \in Seq(Byte) /\ 0 + 1 = 1
      BY <1>1, <1>2, PartTyped
    <2> QED
      BY <1>3, <2>1, Zenon
  <1>5. e \in Seq(Byte)
    BY <1>3, <1>4, EscapeTyped
  <1>6. f \in Seq(Byte)
    <2>1. f \in Seq(Safe(mode)) /\ Safe(mode) \subseteq Byte
      BY <1>2, <1>3, EscapedSafe DEF Safe
    <2> QED
      BY <2>1, SeqMonotonic
  <1>7. out \o z = e
    BY <1>1, <1>3, Zenon DEF EscapeInv
  <1>8. /\ SubSeq(s, 1, k + 1) = x \o <<c>> /\ SubSeq(s, pos + 1, k + 1) = z \o <<c>>
        /\ SubSeq(s, k + 2, k + 1) = <<>>
    <2>1. 1 \in 1 .. Len(s) /\ pos + 1 \in 1 .. Len(s) /\ k + 1 \in 1 .. Len(s)
            /\ k + 1 \in pos + 1 .. Len(s)
      BY <1>1, <1>2
    <2>2. (k + 1) - 1 = k
      OBVIOUS
    <2>3. SubSeq(s, 1, k + 1) = SubSeq(s, 1, (k + 1) - 1) \o <<s[k + 1]>>
      BY <2>1, SubSeqRecursiveSecond
    <2>4. SubSeq(s, pos + 1, k + 1) = SubSeq(s, pos + 1, (k + 1) - 1) \o <<s[k + 1]>>
      BY <2>1, SubSeqRecursiveSecond
    <2>5. SubSeq(s, k + 2, k + 1) = <<>>
      BY SubSeqEmpty
    <2> QED
      BY <1>1, <1>3, <2>2, <2>3, <2>4, <2>5, Zenon
  <1>9. escape(SubSeq(s, 1, k + 1), mode) = e \o f
    <2>1. Append(x, c) = x \o <<c>>
      BY <1>2, <1>4, AppendIsConcat
    <2>2. escape(Append(x, c), mode) = escape(x, mode) \o Escaped(c, mode)
      BY <1>2, <1>4, EscapeAppend, Zenon
    <2> QED
      BY <1>3, <1>8, <2>1, <2>2, Zenon
  <1>10. CASE ~shouldEscape(c, mode)
    <2>1. EscapeStep(s, mode, st, k + 1) = st
      BY <1>1, <1>10, Zenon DEF EscapeStep
    <2>2. f = <<c>>
      BY <1>3, <1>10, NotEscaped, Zenon
    <2>3. out \o (z \o f) = e \o f
      <3>1. (out \o z) \o f = out \o (z \o f)
        BY <1>2, <1>4, <1>6, BytesJoin, ZenonT(30)
      <3> QED
        BY <1>7, <3>1, Zenon
    <2>4. st.out \o SubSeq(s, st.pos + 1, k + 1) = escape(SubSeq(s, 1, k + 1), mode)
      BY <1>1, <1>8, <1>9, <2>2, <2>3, Zenon
    <2>5. \A j \in st.pos + 1 .. k + 1 : ~shouldEscape(s[j], mode)
      <3>1. \A j \in st.pos + 1 .. k + 1 : j = k + 1 \/ j \in st.pos + 1 .. k
        BY <1>1, <1>2
      <3>2. \A j \in st.pos + 1 .. k : ~shouldEscape(s[j], mode)
        BY DEF EscapeInv
      <3> QED
        BY <1>1, <1>10, <3>1, <3>2, Zenon
    <2>6. st \in EscapeStates /\ st.pos <= k + 1
      BY <1>1, <1>2 DEF EscapeInv
    <2>7. (st.pos = 0 => st.out = <<>>) /\ (st.pos # 0 => shouldEscape(s[st.pos], mode))
      BY Zenon DEF EscapeInv
    <2> QED
      BY <2>1, <2>4, <2>5, <2>6, <2>7, Zenon DEF EscapeInv
  <1>11. CASE shouldEscape(c, mode)
    <2>1. PICK o : o = (out \o z) \o f
      OBVIOUS
    <2>2. (k + 1) - 1 = k /\ (k + 1) + 1 = k + 2
      OBVIOUS
    <2>3. PICK v : v = EscapeStep(s, mode, st, k + 1)
      OBVIOUS
    <2>4. v = [out |-> o, pos |-> k + 1]
      BY <1>1, <1>3, <1>11, <2>1, <2>2, <2>3, Zenon DEF EscapeStep
    <2>5. o \in Seq(Byte) /\ o = e \o f
      BY <1>5, <1>6, <1>7, <2>1, ConcatProperties
    <2>6. v \in EscapeStates /\ v.out = o /\ v.pos = k + 1
      BY <2>4, <2>5 DEF EscapeStates
    <2>7. v.out \o SubSeq(s, v.pos + 1, k + 1) = escape(SubSeq(s, 1, k + 1), mode)
      <3>1. o \o <<>> = o
        BY <2>5, ConcatEmptySeq
      <3> QED
        BY <1>8, <1>9, <2>2, <2>5, <2>6, <3>1, Zenon
    <2>8. v.pos <= k + 1 /\ v.pos # 0 /\ \A j \in v.pos + 1 .. k + 1 : FALSE
      BY <2>6
    <2>9. shouldEscape(s[v.pos], mode)
      BY <1>1, <1>11, <2>6, Zenon
    <2>10. EscapeInv(s, mode, k + 1, v)
      BY <2>6, <2>7, <2>8, <2>9, Zenon DEF EscapeInv
    <2> QED
      BY <2>3, <2>10, Zenon
  <1> QED
    BY <1>10, <1>11

\* escapeTo escapes what it keeps: all but a single byte after the last escaped one.
LEMMA EscapeToIsEscape ==
  ASSUME NEW s \in Seq(Byte), NEW mode \in Modes
  PROVE  Kept(s, mode) \in Seq(Byte) /\ escapeTo(s, mode) = escape(Kept(s, mode), mode)
  <1>1. PICK n : n = Len(s) /\ n \in Nat
    BY LenProperties
  <1>2. PICK w : EscapeRuns(s, mode, w) /\ escapeTo(s, mode) = EscapeEnd(s, w[Len(s)])
    BY EscapeRun
  <1> DEFINE K == {k \in Nat : EscapeInv(s, mode, k, w[k])}
  <1>3. 0 \in K
    <2>1. w[0] = NoEscape /\ 0 \in Nat
      BY <1>2 DEF EscapeRuns
    <2>2. NoEscape.out = <<>> /\ NoEscape.pos = 0 /\ NoEscape \in EscapeStates
      BY EscapeTypes DEF NoEscape
    <2>3. SubSeq(s, 0 + 1, 0) = <<>> /\ SubSeq(s, 1, 0) = <<>> /\ <<>> \o <<>> = <<>>
      BY SubSeqEmpty
    <2>4. NoEscape.out \o SubSeq(s, NoEscape.pos + 1, 0) = escape(SubSeq(s, 1, 0), mode)
      BY <2>2, <2>3, EscapeEmpty, Zenon
    <2>5. NoEscape.pos <= 0 /\ \A j \in NoEscape.pos + 1 .. 0 : FALSE
      BY <2>2
    <2>6. EscapeInv(s, mode, 0, NoEscape)
      BY <2>2, <2>4, <2>5, Zenon DEF EscapeInv
    <2> QED
      BY <2>1, <2>6, Zenon
  <1>4. ASSUME NEW k \in 0 .. n - 1, k \in K PROVE k + 1 \in K
    <2>1. k \in Nat /\ k + 1 \in Nat /\ k + 1 \in 1 .. Len(s) /\ k \in 0 .. Len(s) - 1
      BY <1>1
    <2>2. w[k + 1] = EscapeStep(s, mode, w[k], k + 1)
      BY <1>2, <2>1, Zenon DEF EscapeRuns
    <2>3. EscapeInv(s, mode, k, w[k])
      BY <1>4
    <2>4. EscapeInv(s, mode, k + 1, EscapeStep(s, mode, w[k], k + 1))
      BY <2>1, <2>3, EscapeKeeps, Zenon
    <2> QED
      BY <2>1, <2>2, <2>4, Zenon
  <1> HIDE DEF K
  <1>5. \A k \in 0 .. n : k \in K
    BY <1>1, <1>3, <1>4, UpInduction
  <1>6. n \in 0 .. n
    BY <1>1
  <1>7. EscapeInv(s, mode, n, w[n])
    BY <1>5, <1>6, Zenon DEF K
  <1>8. PICK st, out, pos : st = w[n] /\ out = st.out /\ pos = st.pos
    OBVIOUS
  <1>9. /\ out \in Seq(Byte) /\ pos \in Nat /\ pos <= n
        /\ pos = 0 => out = <<>>
        /\ pos # 0 => shouldEscape(s[pos], mode)
        /\ \A j \in pos + 1 .. n : ~shouldEscape(s[j], mode)
        /\ out \o SubSeq(s, pos + 1, n) = escape(SubSeq(s, 1, n), mode)
    BY <1>7, <1>8 DEF EscapeInv, EscapeStates
  <1>10. SubSeq(s, 1, n) = s
    BY <1>1, SubSeqFull
  <1>11. escapeTo(s, mode) = IF pos = 0 THEN s
                             ELSE IF pos < n - 1 THEN out \o SubSeq(s, pos + 1, n) ELSE out
    BY <1>1, <1>2, <1>8, Zenon DEF EscapeEnd, CopiesRest
  <1>12. LastEscaped(s, mode) = pos
    <2>1. PICK I : I = {i \in 1 .. Len(s) : shouldEscape(s[i], mode)}
      OBVIOUS
    <2>2. LastEscaped(s, mode) = IF I # {} THEN Max(I) ELSE 0
      BY <2>1 DEF LastEscaped, SelectLastInSeq
    <2>3. \A i \in I : i \in 1 .. n /\ ~(i \in pos + 1 .. n)
      BY <1>1, <1>9, <2>1
    <2>4. \A i \in I : i <= pos /\ i >= 1
      BY <1>9, <2>3
    <2>5. CASE pos = 0
      <3>1. \A i \in I : FALSE
        <4>1. \A i \in 1 .. n : ~(i <= 0 /\ i >= 1)
          BY <1>1
        <4> QED
          BY <2>3, <2>4, <2>5, <4>1
      <3> QED
        BY <2>2, <2>5, <3>1
    <2>6. CASE pos # 0
      <3>1. pos \in I
        BY <1>1, <1>9, <2>1, <2>6
      <3>2. I \in SUBSET (1 .. n) /\ I # {}
        BY <1>1, <2>1, <3>1
      <3>3. Max(I) \in I /\ \A j \in I : j <= Max(I)
        BY <1>1, <3>2, MaxFacts
      <3>4. Max(I) \in 1 .. n /\ Max(I) <= pos /\ pos <= Max(I)
        BY <2>3, <2>4, <3>1, <3>3, Zenon
      <3>5. Max(I) = pos
        BY <1>1, <1>9, <3>4
      <3> QED
        BY <2>2, <3>2, <3>5
    <2> QED
      BY <2>5, <2>6
  <1>13. Kept(s, mode) = IF pos > 0 /\ pos = n - 1 THEN SubSeq(s, 1, n - 1) ELSE s
    BY <1>1, <1>12 DEF Kept, Front
  <1>14. CASE pos = 0
    <2>1. ~(pos > 0) /\ pos + 1 = 1
      BY <1>14
    <2>2. <<>> \o s = s
      BY ConcatEmptySeq
    <2>3. escape(s, mode) = s
      BY <1>9, <1>10, <1>14, <2>1, <2>2, Zenon
    <2> QED
      BY <1>11, <1>13, <1>14, <2>1, <2>3, Zenon
  <1>15. CASE pos # 0 /\ pos # n - 1
    <2>1. Kept(s, mode) = s
      BY <1>13, <1>15
    <2>2. CASE pos < n - 1
      BY <1>9, <1>10, <1>11, <1>15, <2>1, <2>2, Zenon
    <2>3. CASE ~(pos < n - 1)
      <3>1. pos = n /\ n < pos + 1 /\ pos + 1 \in Int /\ n \in Int
        BY <1>1, <1>9, <1>15, <2>3
      <3>2. SubSeq(s, pos + 1, n) = <<>>
        BY <3>1, SubSeqEmpty
      <3>3. out \o <<>> = out
        BY <1>9, ConcatEmptySeq
      <3> QED
        BY <1>9, <1>10, <1>11, <1>15, <2>1, <2>3, <3>2, <3>3, Zenon
    <2> QED
      BY <2>2, <2>3
  <1>16. CASE pos # 0 /\ pos = n - 1
    <2>1. pos > 0 /\ ~(pos < n - 1) /\ pos + 1 = n /\ n - 1 \in 0 .. Len(s) /\ n \in 1 .. Len(s)
            /\ 1 \in 1 .. Len(s)
      BY <1>1, <1>9, <1>16
    <2>2. PICK x, c : x = SubSeq(s, 1, n - 1) /\ c = s[n]
      OBVIOUS
    <2>3. c \in Byte /\ x \in Seq(Byte)
      <3>1. SubSeq(s, 0 + 1, n - 1) \in Seq(Byte) /\ 0 + 1 = 1
        BY <2>1, PartTyped
      <3> QED
        BY <2>1, <2>2, <3>1, ElementOfSeq
    <2>4. s = x \o <<c>> /\ SubSeq(s, n, n) = <<c>>
      <3>1. SubSeq(s, 1, n) = SubSeq(s, 1, n - 1) \o <<s[n]>>
        <4>1. n \in 1 .. Len(s)
          BY <2>1
        <4> QED
          BY <2>1, SubSeqRecursiveSecond
      <3>2. SubSeq(s, n, n) = SubSeq(s, n, n - 1) \o <<s[n]>>
        <4>1. n \in n .. Len(s)
          BY <2>1
        <4> QED
          BY <2>1, <4>1, SubSeqRecursiveSecond
      <3>3. SubSeq(s, n, n - 1) = <<>>
        BY <1>1, SubSeqEmpty
      <3>4. <<>> \o <<c>> = <<c>>
        BY <2>3, ConcatEmptySeq
      <3> QED
        BY <1>10, <2>2, <3>1, <3>2, <3>3, <3>4, Zenon
    <2>5. ~shouldEscape(c, mode)
      <3>1. n \in pos + 1 .. n
        BY <1>1, <2>1
      <3> QED
        BY <1>9, <2>2, <3>1, Zenon
    <2>6. Escaped(c, mode) = <<c>>
      BY <2>5, NotEscaped, Zenon
    <2>7. escape(Append(x, c), mode) = escape(x, mode) \o Escaped(c, mode)
      BY <2>3, EscapeAppend, Zenon
    <2>8. Append(x, c) = x \o <<c>>
      BY <2>3, AppendIsConcat
    <2>9. out \o <<c>> = escape(x, mode) \o <<c>>
      BY <1>9, <1>10, <2>1, <2>4, <2>6, <2>7, <2>8, Zenon
    <2>10. PICK e : e = escape(x, mode) /\ e \in Seq(Byte)
      BY <2>3, EscapeTyped
    <2>11. Append(out, c) = out \o <<c>> /\ Append(e, c) = e \o <<c>>
      BY <1>9, <2>3, <2>10, AppendIsConcat
    <2>12. out = e
      <3>1. Append(out, c) = Append(e, c)
        BY <2>9, <2>10, <2>11, Zenon
      <3> QED
        BY <1>9, <2>3, <2>10, <3>1, BytesJoin, Zenon
    <2> QED
      BY <1>11, <1>13, <1>16, <2>1, <2>2, <2>3, <2>10, <2>12, Zenon
  <1> QED
    BY <1>14, <1>15, <1>16

\* What comes back of a tag and of a name.
LEMMA BackPlain ==
  ASSUME NEW s \in Seq(Byte)
  PROVE  BackAll(s, "query") = s /\ BackAll(s, "path") = ReplaceAll(s, Plus, Space)
  <1>1. DOMAIN s = 1 .. Len(s) /\ s \in [1 .. Len(s) -> Byte] /\ "query" # "path"
    BY LenProperties
  <1>2. s = [i \in 1 .. Len(s) |-> s[i]]
    BY <1>1
  <1>3. BackAll(s, "query") = [i \in 1 .. Len(s) |-> s[i]]
    BY <1>1 DEF BackAll, Back
  <1>4. BackAll(s, "path") = [i \in 1 .. Len(s) |-> IF s[i] = Plus THEN Space ELSE s[i]]
    BY <1>1 DEF BackAll, Back
  <1> QED
    BY <1>2, <1>3, <1>4 DEF ReplaceAll

\* What EscapeExact says of one string.
LEMMA EscapeExactly ==
  ASSUME NEW s \in Seq(Byte)
  PROVE  EscapeAgrees(s)
  <1>1. "query" \in Modes /\ "path" \in Modes /\ "query" # "path"
    BY DEF Modes
  <1>2. PICK q, p : q = Kept(s, "query") /\ p = Kept(s, "path")
    OBVIOUS
  <1>3. q \in Seq(Byte) /\ escapeTo(s, "query") = escape(q, "query")
    BY <1>1, <1>2, EscapeToIsEscape
  <1>4. p \in Seq(Byte) /\ escapeTo(s, "path") = escape(p, "path")
    BY <1>1, <1>2, EscapeToIsEscape
  <1>5. Unescape(escape(s, "query")) = s /\ Unescape(escape(s, "path")) = ReplaceAll(s, Plus, Space)
    BY <1>1, EscapeBack, BackPlain, Zenon
  <1>6. Unescape(escapeTo(s, "query")) = q
    BY <1>1, <1>3, EscapeBack, BackPlain, Zenon
  <1>7. Unescape(escapeTo(s, "path")) = ReplaceAll(p, Plus, Space)
    BY <1>1, <1>4, EscapeBack, BackPlain, Zenon
  <1>8. \A i \in DOMAIN escapeTo(s, "query") :
          escapeTo(s, "query")[i] \notin {Question, Amp, Equal, Semicolon, Space}
    <2>1. PICK e : e = escape(q, "query")
      OBVIOUS
    <2>2. e \in Seq(Safe("query"))
      BY <1>1, <1>3, <2>1, EscapeTyped
    <2>3. \A i \in DOMAIN e : e[i] \in Safe("query")
      BY <2>2, LenProperties, ElementOfSeq
    <2> QED
      BY <1>3, <2>1, <2>3 DEF Safe, Separators
  <1>9. \A i \in DOMAIN escapeTo(s, "path") : escapeTo(s, "path")[i] # Question
    <2>1. PICK e : e = escape(p, "path")
      OBVIOUS
    <2>2. e \in Seq(Safe("path"))
      BY <1>1, <1>4, <2>1, EscapeTyped
    <2>3. \A i \in DOMAIN e : e[i] \in Safe("path")
      BY <2>2, LenProperties, ElementOfSeq
    <2> QED
      BY <1>1, <1>4, <2>1, <2>3 DEF Safe, Separators
  <1> QED
    BY <1>2, <1>5, <1>6, <1>7, <1>8, <1>9, Zenon DEF EscapeAgrees, KeptTag, KeptName

-----------------------------------------------------------------------------
(***************************************************************************)
(* The dots of a name.                                                     *)
(***************************************************************************)
CollapseIter(s, it) ==
  it = [S \in SUBSET DOMAIN s |->
          IF S = {} THEN <<>> ELSE CollapseStep(it[S \ {Max(S)}], s[Max(S)])]

\* Collapsed is such a fold.
LEMMA CollapseIs ==
  ASSUME NEW s
  PROVE  Collapsed(s) = (CHOOSE it : CollapseIter(s, it))[DOMAIN s]
  BY DEF Collapsed, FoldLeft, MapThenFoldSet, CollapseIter

CollapseRuns(s, r) == r[0] = <<>>
  /\ \A k \in 0 .. Len(s) - 1 : r[k + 1] = CollapseStep(r[k], s[k + 1])

\* What it keeps, symbol by symbol.
LEMMA CollapseRun ==
  ASSUME NEW X, NEW s \in Seq(X)
  PROVE  \E r \in [0 .. Len(s) -> Seq(X)] : CollapseRuns(s, r) /\ Collapsed(s) = r[Len(s)]
  <1>1. PICK n : n = Len(s) /\ n \in Nat /\ DOMAIN s = 1 .. n
    BY LenProperties
  <1>2. <<>> \in Seq(X) /\ \A a \in Seq(X) : \A i \in 1 .. n : CollapseStep(a, s[i]) \in Seq(X)
    BY <1>1, ElementOfSeq, EmptySeq, AppendProperties DEF CollapseStep
  <1> DEFINE F == [p \in (Seq(X)) \X (1 .. n) |-> CollapseStep(p[1], s[p[2]])]
  <1>3. F \in [(Seq(X)) \X (1 .. n) -> Seq(X)]
    BY <1>2
  <1>4. \A a \in Seq(X) : \A i \in 1 .. n : F[<<a, i>>] = CollapseStep(a, s[i])
    OBVIOUS
  <1> HIDE DEF F
  <1>5. PICK g \in [SUBSET (1 .. n) -> Seq(X)] : FoldTo(n, <<>>, F, g)
    BY <1>1, <1>2, <1>3, FoldExists
  <1>6. CollapseIter(s, g)
    <2>1. ASSUME NEW S \in SUBSET (1 .. n)
          PROVE  g[S] = IF S = {} THEN <<>> ELSE CollapseStep(g[S \ {Max(S)}], s[Max(S)])
      <3>1. CASE S = {}
        BY <1>5, <3>1 DEF FoldTo
      <3>2. CASE S # {}
        <4>1. Max(S) \in 1 .. n /\ S \ {Max(S)} \in SUBSET (1 .. n)
          BY <1>1, <3>2, MaxFacts
        <4>2. g[S] = F[<<g[S \ {Max(S)}], Max(S)>>]
          BY <1>5, <3>2 DEF FoldTo
        <4>3. g[S \ {Max(S)}] \in Seq(X)
          BY <4>1
        <4> QED
          BY <1>4, <3>2, <4>1, <4>2, <4>3, Zenon
      <3> QED
        BY <3>1, <3>2
    <2>2. g = [S \in SUBSET (1 .. n) |->
                 IF S = {} THEN <<>> ELSE CollapseStep(g[S \ {Max(S)}], s[Max(S)])]
      BY <2>1
    <2> QED
      BY <1>1, <2>2, Zenon DEF CollapseIter
  <1>7. PICK it : it = CHOOSE h : CollapseIter(s, h)
    OBVIOUS
  <1>8. CollapseIter(s, it)
    BY <1>6, <1>7, Zenon
  <1>9. \A S \in SUBSET (1 .. n) :
          it[S] = IF S = {} THEN <<>> ELSE CollapseStep(it[S \ {Max(S)}], s[Max(S)])
    <2>1. it = [S \in SUBSET (1 .. n) |->
                 IF S = {} THEN <<>> ELSE CollapseStep(it[S \ {Max(S)}], s[Max(S)])]
      BY <1>1, <1>8, Zenon DEF CollapseIter
    <2> QED
      BY <2>1, Zenon
  <1>10. Folds(n, Seq(X), <<>>, F, it)
    <2>1. it[{}] = <<>>
      BY <1>9
    <2>2. ASSUME NEW S \in SUBSET (1 .. n), S # {}, it[S \ {Max(S)}] \in Seq(X)
          PROVE  it[S] = F[<<it[S \ {Max(S)}], Max(S)>>]
      <3>1. Max(S) \in 1 .. n
        BY <1>1, <2>2, MaxFacts
      <3> QED
        BY <1>4, <1>9, <2>2, <3>1, Zenon
    <2> QED
      BY <2>1, <2>2, Zenon DEF Folds
  <1>11. PICK r \in [0 .. n -> Seq(X)] : RunTo(n, <<>>, F, r) /\ r[n] = it[1 .. n]
    <2>1. PICK St : St = Seq(X)
      OBVIOUS
    <2>2. n \in Nat /\ <<>> \in St /\ F \in [St \X (1 .. n) -> St] /\ Folds(n, St, <<>>, F, it)
      BY <1>1, <1>2, <1>3, <1>10, <2>1, Zenon
    <2>3. \E r \in [0 .. n -> St] : RunOf(n, <<>>, F, it, r)
      BY <2>2, FoldRun
    <2> QED
      BY <2>1, <2>3, Zenon DEF RunOf
  <1>12. CollapseRuns(s, r)
    <2>1. \A k \in 0 .. n - 1 : r[k] \in Seq(X) /\ k + 1 \in 1 .. n
      BY <1>1
    <2> QED
      BY <1>1, <1>4, <1>11, <2>1, Zenon DEF CollapseRuns, RunTo
  <1>13. Collapsed(s) = it[1 .. n]
    BY <1>1, <1>7, CollapseIs, Zenon
  <1> QED
    BY <1>1, <1>11, <1>12, <1>13, Zenon

DotStates(X, s) == [p : [1 .. Len(s) -> X], shift : Nat]
UndoubledState(s) == FoldLeftDomain(DotsStep, [p |-> s, shift |-> 0], s)
DotsIter(s, it) ==
  it = [S \in SUBSET DOMAIN [i \in DOMAIN s |-> i] |->
          IF S = {} THEN [p |-> s, shift |-> 0]
            ELSE DotsStep(it[S \ {Max(S)}], [i \in DOMAIN s |-> i][Max(S)])]

\* So is the loop of RemoveDoubleDot.
LEMMA DotsIs ==
  ASSUME NEW s
  PROVE  UndoubledState(s) = (CHOOSE it : DotsIter(s, it))[DOMAIN [i \in DOMAIN s |-> i]]
  BY DEF UndoubledState, FoldLeftDomain, FoldLeft, MapThenFoldSet, DotsIter

DotsRuns(s, r) == r[0] = [p |-> s, shift |-> 0]
  /\ \A k \in 0 .. Len(s) - 1 : r[k + 1] = DotsStep(r[k], k + 1)

\* Its bytes and its shift, position by position.
LEMMA DotsRun ==
  ASSUME NEW X, NEW s \in Seq(X)
  PROVE  \E r \in [0 .. Len(s) -> DotStates(X, s)] : DotsRuns(s, r) /\ UndoubledState(s) = r[Len(s)]
  <1>1. PICK n : n = Len(s) /\ n \in Nat /\ DOMAIN s = 1 .. n
    BY LenProperties
  <1>0. PICK id : id = [i \in DOMAIN s |-> i]
    OBVIOUS
  <1>0b. DOMAIN id = 1 .. n /\ \A i \in 1 .. n : id[i] = i
    BY <1>0, <1>1
  <1>2. [p |-> s, shift |-> 0] \in DotStates(X, s)
          /\ \A a \in DotStates(X, s) : \A i \in 1 .. n : DotsStep(a, i) \in DotStates(X, s)
    <2>1. s \in [1 .. n -> X]
      BY <1>1, LenProperties
    <2>2. ASSUME NEW a \in DotStates(X, s), NEW i \in 1 .. n
          PROVE  DotsStep(a, i) \in DotStates(X, s)
      <3>1. PICK q, d : q = a.p /\ d = a.shift
        OBVIOUS
      <3>2. q \in [1 .. n -> X] /\ d \in Nat /\ a = [p |-> q, shift |-> d] /\ q[i] \in X
        BY <1>1, <2>2, <3>1 DEF DotStates
      <3>3. [q EXCEPT ![i - d] = q[i]] \in [1 .. n -> X]
        BY <3>2
      <3>4. DotsStep(a, i) \in {a, [p |-> q, shift |-> d + 1], [p |-> [q EXCEPT ![i - d] =
                q[i]], shift |-> d]}
        BY <3>1, <3>2 DEF DotsStep
      <3> QED
        <4>1. [p |-> q, shift |-> d + 1] \in DotStates(X, s)
          BY <1>1, <3>2 DEF DotStates
        <4>2. PICK z : z = [q EXCEPT ![i - d] = q[i]]
          OBVIOUS
        <4>3. [p |-> z, shift |-> d] \in DotStates(X, s)
          BY <1>1, <3>2, <3>3, <4>2 DEF DotStates
        <4> QED
          BY <2>2, <3>4, <4>1, <4>2, <4>3, Zenon
    <2> QED
      BY <1>1, <2>1, <2>2 DEF DotStates
  <1> DEFINE F == [p \in (DotStates(X, s)) \X (1 .. n) |-> DotsStep(p[1], p[2])]
  <1>3. F \in [(DotStates(X, s)) \X (1 .. n) -> DotStates(X, s)]
    BY <1>2
  <1>4. \A a \in DotStates(X, s) : \A i \in 1 .. n : F[<<a, i>>] = DotsStep(a, i)
    OBVIOUS
  <1> HIDE DEF F
  <1>5. PICK g \in [SUBSET (1 .. n) -> DotStates(X, s)] : FoldTo(n, [p |-> s, shift |-> 0], F, g)
    BY <1>1, <1>2, <1>3, FoldExists
  <1>6. DotsIter(s, g)
    <2>1. ASSUME NEW S \in SUBSET (1 .. n)
          PROVE  g[S] = IF S = {} THEN [p |-> s, shift |-> 0] ELSE DotsStep(g[S \ {Max(S)}], Max(S))
      <3>1. CASE S = {}
        BY <1>5, <3>1 DEF FoldTo
      <3>2. CASE S # {}
        <4>1. Max(S) \in 1 .. n /\ S \ {Max(S)} \in SUBSET (1 .. n)
          BY <1>1, <3>2, MaxFacts
        <4>2. g[S] = F[<<g[S \ {Max(S)}], Max(S)>>]
          BY <1>5, <3>2 DEF FoldTo
        <4>3. g[S \ {Max(S)}] \in DotStates(X, s)
          BY <4>1
        <4> QED
          BY <1>4, <3>2, <4>1, <4>2, <4>3, Zenon
      <3> QED
        BY <3>1, <3>2
    <2>2. g = [S \in SUBSET (1 .. n) |->
                 IF S = {} THEN [p |-> s, shift |-> 0] ELSE DotsStep(g[S \ {Max(S)}], id[Max(S)])]
      BY <2>1, <1>0b, <1>1, MaxFacts, ZenonT(60)
    <2> QED
      BY <1>1, <1>0, <1>0b, <2>2, Zenon DEF DotsIter
  <1>7. PICK it : it = CHOOSE h : DotsIter(s, h)
    OBVIOUS
  <1>8. DotsIter(s, it)
    BY <1>6, <1>7, Zenon
  <1>9. \A S \in SUBSET (1 .. n) :
          it[S] = IF S = {} THEN [p |-> s, shift |-> 0] ELSE DotsStep(it[S \ {Max(S)}], id[Max(S)])
    <2>1. it = [S \in SUBSET (1 .. n) |->
                 IF S = {} THEN [p |-> s, shift |-> 0] ELSE DotsStep(it[S \ {Max(S)}], id[Max(S)])]
      BY <1>1, <1>0, <1>0b, <1>8, Zenon DEF DotsIter
    <2> QED
      BY <2>1, Zenon
  <1>10. Folds(n, DotStates(X, s), [p |-> s, shift |-> 0], F, it)
    <2>1. it[{}] = [p |-> s, shift |-> 0]
      BY <1>9
    <2>2. ASSUME NEW S \in SUBSET (1 .. n), S # {}, it[S \ {Max(S)}] \in DotStates(X, s)
          PROVE  it[S] = F[<<it[S \ {Max(S)}], Max(S)>>]
      <3>1. Max(S) \in 1 .. n
        BY <1>1, <2>2, MaxFacts
      <3> QED
        BY <1>4, <1>9, <1>0, <1>0b, <2>2, <3>1, Zenon
    <2> QED
      BY <2>1, <2>2, Zenon DEF Folds
  <1>11. PICK r \in [0 .. n -> DotStates(X, s)] : RunTo(n, [p |-> s, shift |-> 0], F, r)
           /\ r[n] = it[1 .. n]
    <2>1. PICK St : St = DotStates(X, s)
      OBVIOUS
    <2>2. n \in Nat /\ [p |-> s, shift |-> 0] \in St /\ F \in [St \X (1 .. n) -> St]
            /\ Folds(n, St, [p |-> s, shift |-> 0], F, it)
      BY <1>1, <1>2, <1>3, <1>10, <2>1, Zenon
    <2>3. \E r \in [0 .. n -> St] : RunOf(n, [p |-> s, shift |-> 0], F, it, r)
      BY <2>2, FoldRun
    <2> QED
      BY <2>1, <2>3, Zenon DEF RunOf
  <1>12. DotsRuns(s, r)
    <2>1. \A k \in 0 .. n - 1 : r[k] \in DotStates(X, s) /\ k + 1 \in 1 .. n
      BY <1>1
    <2> QED
      BY <1>1, <1>4, <1>11, <2>1, Zenon DEF DotsRuns, RunTo
  <1>13. UndoubledState(s) = it[1 .. n]
    BY <1>1, <1>0, <1>0b, <1>7, DotsIs, Zenon
  <1> QED
    BY <1>1, <1>11, <1>12, <1>13, Zenon

\* The last element of an extended sequence.
LEMMA LastOf ==
  ASSUME NEW X, NEW t \in Seq(X), t # <<>>
  PROVE  Last(t) = t[Len(t)] /\ Len(t) \in Nat \ {0} /\ t[Len(t)] \in X
  <1>1. Len(t) \in Nat \ {0}
    BY EmptySeq
  <1>2. Len(t) \in 1 .. Len(t)
    BY <1>1
  <1> QED
    BY <1>1, <1>2, ElementOfSeq DEF Last

\* After k symbols: a dot after a dot is not taken.
CollapseAt(kept, c, next) ==
  /\ c = "." /\ kept # <<>> /\ kept[Len(kept)] = "." => next = kept
  /\ ~(c = "." /\ kept # <<>> /\ kept[Len(kept)] = ".") => next = Append(kept, c)

\* The next symbol is kept, unless it is a dot after a dot.
LEMMA CollapseOne ==
  ASSUME NEW X, NEW kept \in Seq(X), NEW c \in X
  PROVE  CollapseAt(kept, c, CollapseStep(kept, c))
  <1>1. kept # <<>> => Last(kept) = kept[Len(kept)]
    BY LastOf
  <1> QED
    BY <1>1, Zenon DEF CollapseAt, CollapseStep

\* Without two dots in a row.
LEMMA CollapsedSame ==
  ASSUME NEW X, NEW s \in Seq(X),
         \A i \in 1 .. Len(s) : \A j \in 1 .. Len(s) : j = i + 1 => ~(s[i] = "." /\ s[j] = ".")
  PROVE  Collapsed(s) = s
  <1>1. PICK n : n = Len(s) /\ n \in Nat
    BY LenProperties
  <1>2. PICK r \in [0 .. n -> Seq(X)] : CollapseRuns(s, r) /\ Collapsed(s) = r[n]
    BY <1>1, CollapseRun
  <1> DEFINE K == {k \in 0 .. n : Len(r[k]) = k /\ \A i \in 1 .. k : r[k][i] = s[i]}
  <1>3. 0 \in K
    <2>1. r[0] = <<>>
      BY <1>2 DEF CollapseRuns
    <2> QED
      BY <1>1, <2>1
  <1>4. ASSUME NEW k \in 0 .. n - 1, k \in K PROVE k + 1 \in K
    <2>1. PICK t, c, u : t = r[k] /\ c = s[k + 1] /\ u = r[k + 1]
      OBVIOUS
    <2>2. k \in Nat /\ k + 1 \in 1 .. n /\ k \in 0 .. n /\ k + 1 \in 0 .. n
      BY <1>1
    <2>3. t \in Seq(X) /\ c \in X
      BY <1>1, <2>1, <2>2, ElementOfSeq
    <2>4. Len(t) = k /\ \A i \in 1 .. k : t[i] = s[i]
      BY <1>4, <2>1
    <2>5. CollapseAt(t, c, u)
      <3>1. u = CollapseStep(t, c)
        BY <1>1, <1>2, <2>1, Zenon DEF CollapseRuns
      <3> QED
        BY <2>3, <3>1, CollapseOne
    <2>6. ~(c = "." /\ t # <<>> /\ t[Len(t)] = ".")
      <3>1. SUFFICES ASSUME t # <<>> PROVE ~(c = "." /\ t[k] = ".")
        BY <2>4
      <3>2. k \in 1 .. k /\ k \in 1 .. n
        BY <2>2, <2>3, <2>4, <3>1, LastOf
      <3> QED
        BY <1>1, <2>1, <2>2, <2>4, <3>2
    <2>7. u = Append(t, c)
      BY <2>5, <2>6, Zenon DEF CollapseAt
    <2>8. Len(u) = k + 1 /\ (\A i \in 1 .. k : u[i] = t[i]) /\ u[k + 1] = c
      BY <2>3, <2>4, <2>7, AppendProperties
    <2>9. \A i \in 1 .. k + 1 : u[i] = s[i]
      BY <2>1, <2>2, <2>4, <2>8
    <2> QED
      BY <2>1, <2>2, <2>8, <2>9
  <1> HIDE DEF K
  <1>5. n \in K
    <2>1. \A k \in 0 .. n : k \in K
      BY <1>1, <1>3, <1>4, UpInduction
    <2> QED
      BY <1>1, <2>1
  <1>6. r[n] \in Seq(X) /\ Len(r[n]) = n /\ \A i \in 1 .. n : r[n][i] = s[i]
    BY <1>1, <1>5 DEF K
  <1> QED
    BY <1>1, <1>2, <1>6, SeqEqual

\* A look at every second position finds two dots in a row, wherever they are.
LEMMA DoubleDotSeen ==
  ASSUME NEW X, NEW s \in Seq(X), ~HasDoubleDot(s)
  PROVE  \A i \in 1 .. Len(s) : \A j \in 1 .. Len(s) : j = i + 1 => ~(s[i] = "." /\ s[j] = ".")
  <1>1. PICK n : n = Len(s) /\ n \in Nat /\ DOMAIN s = 1 .. n
    BY LenProperties
  <1>2. SUFFICES ASSUME NEW i \in 1 .. n, i + 1 \in 1 .. n, s[i] = ".", s[i + 1] = "."
                 PROVE  FALSE
    BY <1>1
  <1>3. \A k \in 1 .. n : k % 2 = 0 /\ s[k] = "." /\ (s[k - 1] = "." \/ (k < n
          /\ s[k + 1] = ".")) => FALSE
    BY <1>1 DEF HasDoubleDot
  <1>4. i % 2 = 0 \/ (i + 1) % 2 = 0
    OBVIOUS
  <1>5. CASE i % 2 = 0
    BY <1>1, <1>2, <1>3, <1>5
  <1>6. CASE (i + 1) % 2 = 0
    <2>1. (i + 1) - 1 = i
      OBVIOUS
    <2> QED
      BY <1>2, <1>3, <1>6, <2>1
  <1> QED
    BY <1>4, <1>5, <1>6

\* After k symbols, k > 0: what was kept is in front, and what comes is unchanged.
DotsInv(s, k, st, kept) ==
  /\ kept # <<>> /\ Len(kept) = k - st.shift
  /\ \A i \in 1 .. Len(kept) : st.p[i] = kept[i]
  /\ \A i \in k + 1 .. Len(s) : st.p[i] = s[i]

\* The loop of RemoveDoubleDot keeps what Collapsed keeps.
LEMMA DotsKeep ==
  ASSUME NEW X, NEW s \in Seq(X), NEW k \in Nat \ {0}, k + 1 \in 1 .. Len(s),
         NEW st \in DotStates(X, s), NEW kept \in Seq(X), DotsInv(s, k, st, kept)
  PROVE  DotsInv(s, k + 1, DotsStep(st, k + 1), CollapseStep(kept, s[k + 1]))
  <1>1. PICK n, c, q, d, m : n = Len(s) /\ c = s[k + 1] /\ q = st.p /\ d = st.shift /\ m = Len(kept)
    OBVIOUS
  <1>2. /\ n \in Nat /\ k + 1 \in 1 .. n /\ q \in [1 .. n -> X] /\ d \in Nat
        /\ st = [p |-> q, shift |-> d] /\ c \in X /\ kept \in Seq(X)
    BY <1>1, LenProperties, ElementOfSeq DEF DotStates
  <1>3. /\ kept # <<>> /\ m = k - d
        /\ \A i \in 1 .. m : q[i] = kept[i]
        /\ \A i \in k + 1 .. n : q[i] = s[i]
    BY <1>1 DEF DotsInv
  <1>4. m \in Nat \ {0}
    BY <1>1, <1>3, LastOf
  <1>5. q[k + 1] = c /\ (k + 1) - 1 - d = m /\ m \in 1 .. m /\ q[m] = kept[m]
    BY <1>1, <1>2, <1>3, <1>4, SMTT(30)
  <1>6. k + 1 # 1
    OBVIOUS
  <1>7. CollapseAt(kept, c, CollapseStep(kept, c))
    BY <1>2, CollapseOne
  <1>8. CASE c = "." /\ kept[m] = "."
    <2>1. CollapseStep(kept, c) = kept
      BY <1>1, <1>3, <1>7, <1>8, Zenon DEF CollapseAt
    <2>2. DotsStep(st, k + 1) = [p |-> q, shift |-> d + 1]
      BY <1>2, <1>5, <1>6, <1>8 DEF DotsStep
    <2>3. m = (k + 1) - (d + 1) /\ \A i \in (k + 1) + 1 .. n : q[i] = s[i]
      BY <1>2, <1>3
    <2> QED
      BY <1>1, <1>3, <2>1, <2>2, <2>3 DEF DotsInv
  <1>9. CASE ~(c = "." /\ kept[m] = ".")
    <2>1. PICK u : u = Append(kept, c)
      OBVIOUS
    <2>2. CollapseStep(kept, c) = u
      BY <1>1, <1>7, <1>9, <2>1, Zenon DEF CollapseAt
    <2>3. PICK z : z = [q EXCEPT ![(k + 1) - d] = c]
      OBVIOUS
    <2>4. DotsStep(st, k + 1) = [p |-> z, shift |-> d]
      <3>1. DotsStep(st, k + 1) = [st EXCEPT !.p[(k + 1) - st.shift] = st.p[k + 1]]
        BY <1>1, <1>5, <1>6, <1>9, Zenon DEF DotsStep
      <3> QED
        BY <1>1, <1>2, <1>5, <2>3, <3>1
    <2>5. /\ u # <<>> /\ Len(u) = m + 1 /\ u[m + 1] = c
          /\ \A i \in 1 .. m : u[i] = kept[i]
      BY <1>1, <1>2, <2>1, AppendProperties
    <2>6. (k + 1) - d = m + 1 /\ m + 1 \in 1 .. n /\ m + 1 <= k + 1
      BY <1>2, <1>3, <1>4
    <2>7. z[m + 1] = c /\ \A i \in 1 .. n : i # m + 1 => z[i] = q[i]
      BY <1>2, <2>3, <2>6
    <2>8. \A i \in 1 .. m + 1 : z[i] = u[i]
      <3>1. \A i \in 1 .. m + 1 : i = m + 1 \/ (i \in 1 .. m /\ i \in 1 .. n /\ i # m + 1)
        BY <1>2, <1>4, <2>6
      <3> QED
        BY <1>3, <2>5, <2>7, <3>1
    <2>9. \A i \in (k + 1) + 1 .. n : z[i] = s[i]
      <3>1. \A i \in (k + 1) + 1 .. n : i \in k + 1 .. n /\ i \in 1 .. n /\ i # m + 1
        BY <1>2, <2>6
      <3> QED
        BY <1>3, <2>7, <3>1, Zenon
    <2> QED
      BY <1>1, <2>2, <2>4, <2>5, <2>6, <2>8, <2>9 DEF DotsInv
  <1> QED
    BY <1>8, <1>9

\* In place, with the look ahead, or by the definition: one dot of several stays.
LEMMA DotsExact ==
  ASSUME NEW X, NEW s \in Seq(X)
  PROVE  RemoveDoubleDot(s) = Collapsed(s)
  <1>1. CASE ~HasDoubleDot(s)
    BY <1>1, DoubleDotSeen, CollapsedSame DEF RemoveDoubleDot
  <1>2. CASE HasDoubleDot(s)
    <2>1. PICK n : n = Len(s) /\ n \in Nat /\ DOMAIN s = 1 .. n
      BY LenProperties
    <2>2. n # 0
      BY <1>2, <2>1 DEF HasDoubleDot
    <2>3. PICK r \in [0 .. n -> Seq(X)] : CollapseRuns(s, r) /\ Collapsed(s) = r[n]
      BY <2>1, CollapseRun
    <2>4. PICK w \in [0 .. n -> DotStates(X, s)] : DotsRuns(s, w) /\ UndoubledState(s) = w[n]
      BY <2>1, DotsRun
    <2>5. PICK f : f = s[1] /\ f \in X
      BY <2>1, <2>2, ElementOfSeq
    <2> DEFINE K == {k \in 0 .. n : k = 0 \/ DotsInv(s, k, w[k], r[k])}
    <2>6. 0 \in K
      BY <2>1
    <2>7. 1 \in K
      <3>1. 0 \in 0 .. n - 1 /\ 0 + 1 = 1 /\ 1 \in 0 .. n
        BY <2>1, <2>2
      <3>2. w[0] = [p |-> s, shift |-> 0] /\ w[1] = DotsStep(w[0], 1)
        BY <2>1, <2>4, <3>1, Zenon DEF DotsRuns
      <3>3. w[1] = [p |-> s, shift |-> 0]
        BY <3>2 DEF DotsStep
      <3>4. r[0] = <<>> /\ r[1] = CollapseStep(r[0], f)
        BY <2>1, <2>3, <2>5, <3>1, Zenon DEF CollapseRuns
      <3>5. r[1] = <<f>>
        BY <3>4 DEF CollapseStep
      <3>6. DotsInv(s, 1, [p |-> s, shift |-> 0], <<f>>)
        BY <2>1, <2>5 DEF DotsInv
      <3> QED
        BY <3>1, <3>3, <3>5, <3>6
    <2>8. ASSUME NEW k \in 0 .. n - 1, k \in K PROVE k + 1 \in K
      <3>1. CASE k = 0
        BY <2>7, <3>1
      <3>2. CASE k # 0
        <4>1. /\ k \in Nat \ {0} /\ k + 1 \in 1 .. n /\ k \in 0 .. n /\ k + 1 \in 0 .. n
              /\ w[k] \in DotStates(X, s) /\ r[k] \in Seq(X)
          BY <2>1, <3>2
        <4>2. DotsInv(s, k, w[k], r[k])
          BY <2>8, <3>2
        <4>3. w[k + 1] = DotsStep(w[k], k + 1) /\ r[k + 1] = CollapseStep(r[k], s[k + 1])
          BY <2>1, <2>3, <2>4, Zenon DEF DotsRuns, CollapseRuns
        <4>4. DotsInv(s, k + 1, DotsStep(w[k], k + 1), CollapseStep(r[k], s[k + 1]))
          BY <2>1, <4>1, <4>2, DotsKeep
        <4> QED
          BY <4>1, <4>3, <4>4
      <3> QED
        BY <3>1, <3>2
    <2> HIDE DEF K
    <2>9. n \in K
      <3>1. \A k \in 0 .. n : k \in K
        BY <2>1, <2>6, <2>8, UpInduction
      <3> QED
        BY <2>1, <3>1
    <2>10. PICK st, kept : st = w[n] /\ kept = r[n]
      OBVIOUS
    <2>11. st \in DotStates(X, s) /\ kept \in Seq(X) /\ DotsInv(s, n, st, kept)
      BY <2>1, <2>2, <2>9, <2>10 DEF K
    <2>12. PICK q, m : q = st.p /\ m = n - st.shift
      OBVIOUS
    <2>13. /\ q \in [1 .. n -> X] /\ m = Len(kept) /\ m \in Nat /\ m <= n
           /\ \A i \in 1 .. m : q[i] = kept[i]
      BY <2>1, <2>11, <2>12, LenProperties DEF DotStates, DotsInv
    <2>14. PICK t : t = SubSeq(q, 1, m)
      OBVIOUS
    <2>15. t \in Seq(X) /\ Len(t) = m /\ \A i \in 1 .. m : t[i] = q[i]
      <3>1. 1 \in Int /\ m \in Int /\ \A i \in 1 .. m : q[i] \in X
        BY <2>1, <2>13
      <3>2. /\ SubSeq(q, 1, m) \in Seq(X)
            /\ Len(SubSeq(q, 1, m)) = IF 1 <= m THEN m - 1 + 1 ELSE 0
            /\ \A i \in 1 .. m - 1 + 1 : SubSeq(q, 1, m)[i] = q[1 + i - 1]
        BY <3>1, SubSeqProperties
      <3> QED
        BY <2>13, <2>14, <3>2
    <2>16. t = kept
      BY <2>11, <2>13, <2>15, SeqEqual
    <2>17. RemoveDoubleDot(s) = SubSeq(UndoubledState(s).p, 1, Len(s) - UndoubledState(s).shift)
      BY <1>2 DEF RemoveDoubleDot, UndoubledState
    <2> QED
      BY <2>1, <2>3, <2>4, <2>10, <2>12, <2>14, <2>16, <2>17, Zenon
  <1> QED
    BY <1>1, <1>2

-----------------------------------------------------------------------------
(***************************************************************************)
(* The fields of a line.                                                   *)
(***************************************************************************)
\* i is the first place of x in t, 0 if there is none.
FirstIs(t, x, i) ==
  /\ i = 0 => \A k \in 1 .. Len(t) : t[k] # x
  /\ i # 0 => i \in 1 .. Len(t) /\ t[i] = x /\ \A k \in 1 .. i - 1 : t[k] # x

\* Index is the first place, or 0.
LEMMA IndexFirst ==
  ASSUME NEW X, NEW t \in Seq(X), NEW x
  PROVE  FirstIs(t, x, Index(t, x)) /\ Index(t, x) \in Nat
  <1>1. PICK n, I : n = Len(t) /\ n \in Nat /\ I = {i \in 1 .. n : t[i] = x}
    BY LenProperties
  <1>2. Index(t, x) = IF I # {} THEN Min(I) ELSE 0
    BY <1>1 DEF Index, SelectInSeq
  <1>3. CASE I = {}
    BY <1>1, <1>2, <1>3 DEF FirstIs
  <1>4. CASE I # {}
    <2>1. I \in SUBSET Nat
      BY <1>1
    <2>2. PICK m \in I : \A y \in I : m <= y
      BY <1>4, <2>1, LeastNatural
    <2>3. Min(I) \in I /\ \A y \in I : Min(I) <= y
      BY <2>2 DEF Min
    <2>4. PICK i : i = Min(I)
      OBVIOUS
    <2>5. i \in 1 .. n /\ t[i] = x
      BY <1>1, <2>3, <2>4
    <2>6. \A k \in 1 .. i - 1 : t[k] # x
      <3>1. ASSUME NEW k \in 1 .. i - 1, t[k] = x PROVE FALSE
        <4>1. k \in I
          BY <1>1, <2>5, <3>1
        <4>2. i <= k
          BY <2>3, <2>4, <4>1
        <4> QED
          BY <2>5, <4>2
      <3> QED
        BY <3>1
    <2>7. i # 0 /\ i \in Nat
      BY <2>5
    <2>8. Index(t, x) = i
      BY <1>2, <1>4, <2>4
    <2> QED
      BY <1>1, <2>5, <2>6, <2>7, <2>8 DEF FirstIs
  <1> QED
    BY <1>3, <1>4

\* The same part of two sequences that are the same there.
LEMMA SamePart ==
  ASSUME NEW X, NEW p \in Seq(X), NEW t \in Seq(X), NEW a \in Nat \ {0}, NEW b \in 0 .. Len(p),
         b <= Len(t), \A i \in a .. b : p[i] = t[i]
  PROVE  SubSeq(p, a, b) = SubSeq(t, a, b)
  <1>1. b \in 0 .. Len(t) /\ Len(t) \in Nat /\ Len(p) \in Nat
    BY LenProperties
  <1>2. PICK u, v : u = SubSeq(p, a, b) /\ v = SubSeq(t, a, b)
    OBVIOUS
  <1>3. /\ u \in Seq(X) /\ Len(u) = IF a <= b THEN b - a + 1 ELSE 0
        /\ \A i \in 1 .. b - a + 1 : u[i] = p[a + i - 1]
    BY <1>2, PartFacts
  <1>4. /\ v \in Seq(X) /\ Len(v) = IF a <= b THEN b - a + 1 ELSE 0
        /\ \A i \in 1 .. b - a + 1 : v[i] = t[a + i - 1]
    BY <1>1, <1>2, PartFacts
  <1>5. ASSUME NEW i \in 1 .. Len(u) PROVE u[i] = v[i]
    <2>1. i \in 1 .. b - a + 1 /\ a + i - 1 \in a .. b
      BY <1>1, <1>3
    <2> QED
      BY <1>3, <1>4, <2>1
  <1> QED
    BY <1>2, <1>3, <1>4, <1>5, SeqEqual

\* A number has a digit and no space.
LEMMA NumberFacts ==
  /\ ~Number(<<>>) /\ Number(<<"-", "1">>)
  /\ \A t : Number(t) => NoSpace(t)
  <1>1. ~Number(<<>>)
    BY DEF Number
  <1>2. Number(<<"-", "1">>)
    <2>1. PICK t : t = <<"-", "1">>
      OBVIOUS
    <2>2. DOMAIN t = {1, 2} /\ t[1] = "-" /\ t[2] = "1"
      BY <2>1
    <2>3. Number(t)
      BY <2>2 DEF Number
    <2> QED
      BY <2>1, <2>3
  <1>3. ASSUME NEW t, Number(t) PROVE NoSpace(t)
    BY <1>3 DEF Number, NoSpace
  <1> QED
    BY <1>1, <1>2, <1>3

Blank == " "
\* What Splits has, with its space under a name.
LEMMA SplitsAre ==
  ASSUME NEW X, NEW t \in Seq(X), NEW f
  PROVE  f \in Splits(t) <=>
           WellFormed(f) /\ \E i, j \in 1 .. Len(t) : t[i] = Blank /\ t[j] = Blank
             /\ f = FieldsAt(t, i, j)
  <1>1. DOMAIN t = 1 .. Len(t)
    BY LenProperties
  <1>2. \A k : k \in Spaces(t) <=> k \in DOMAIN t /\ t[k] = Blank
    BY Zenon DEF Spaces, Blank
  <1> QED
    BY <1>1, <1>2 DEF Splits

\* The first two x of t, with a name and a value.
FirstTwo(t, x, i, j) ==
  /\ i \in 1 .. Len(t) /\ t[i] = x /\ 2 <= i /\ \A k \in 1 .. i - 1 : t[k] # x
  /\ j \in 1 .. Len(t) /\ t[j] = x /\ i + 2 <= j /\ \A k \in i + 1 .. j - 1 : t[k] # x

\* There is one way to read a line as fields: at its first two spaces.
LEMMA SplitsIn ==
  ASSUME NEW X, NEW t \in Seq(X), NEW f \in Splits(t)
  PROVE  /\ WellFormed(f)
         /\ \E i, j \in 1 .. Len(t) : FirstTwo(t, Blank, i, j) /\ f = FieldsAt(t, i, j)
  <1>1. PICK i, j \in 1 .. Len(t) : t[i] = Blank /\ t[j] = Blank /\ f = FieldsAt(t, i, j)
          /\ WellFormed(f)
    BY SplitsAre
  <1>2. Len(t) \in Nat
    BY LenProperties
  <1>3. PICK u, v : u = SubSeq(t, 1, i - 1) /\ v = SubSeq(t, i + 1, j - 1)
    OBVIOUS
  <1>4. f.name = u /\ f.value = v
    BY <1>1, <1>3 DEF FieldsAt
  <1>5. u # <<>> /\ NoSpace(u) /\ NoSpace(v) /\ Number(v)
    BY <1>1, <1>4 DEF WellFormed
  <1>6. i - 1 \in 0 .. Len(t) /\ j - 1 \in 0 .. Len(t) /\ i + 1 \in Nat \ {0}
    BY <1>2
  <1>7. /\ u \in Seq(X) /\ Len(u) = IF 1 <= i - 1 THEN (i - 1) - 1 + 1 ELSE 0
        /\ \A k \in 1 .. i - 1 : k - 1 + 1 \in DOMAIN u /\ u[k - 1 + 1] = t[k]
    BY <1>3, <1>6, PartFacts
  <1>8. /\ v \in Seq(X) /\ Len(v) = IF i + 1 <= j - 1 THEN (j - 1) - (i + 1) + 1 ELSE 0
        /\ \A k \in i + 1 .. j - 1 : k - (i + 1) + 1 \in DOMAIN v /\ v[k - (i + 1) + 1] = t[k]
    BY <1>3, <1>6, PartFacts
  <1>9. 2 <= i
    <2>1. Len(u) # 0
      BY <1>5, <1>7, EmptySeq
    <2> QED
      BY <1>2, <1>7, <2>1
  <1>10. i + 2 <= j
    <2>1. v # <<>>
      BY <1>5, NumberFacts
    <2>2. Len(v) # 0
      BY <1>8, <2>1, EmptySeq
    <2> QED
      BY <1>2, <1>8, <2>2
  <1>11. \A k \in 1 .. i - 1 : t[k] # Blank
    BY <1>5, <1>7, Zenon DEF NoSpace, Blank
  <1>12. \A k \in i + 1 .. j - 1 : t[k] # Blank
    BY <1>5, <1>8, Zenon DEF NoSpace, Blank
  <1> QED
    BY <1>1, <1>9, <1>10, <1>11, <1>12, Zenon DEF FirstTwo

\* The first two spaces are two places.
LEMMA FirstTwoOnce ==
  ASSUME NEW X, NEW t \in Seq(X), NEW x, NEW i \in Nat, NEW j \in Nat, NEW k \in Nat,
         NEW l \in Nat, FirstTwo(t, x, i, j), FirstTwo(t, x, k, l)
  PROVE  i = k /\ j = l
  <1>1. Len(t) \in Nat
    BY LenProperties
  <1>2. i = k
    <2>1. ~(i < k) /\ ~(k < i)
      BY <1>1 DEF FirstTwo
    <2> QED
      BY <2>1
  <1> QED
    <2>1. ~(j < l) /\ ~(l < j)
      BY <1>1, <1>2 DEF FirstTwo
    <2> QED
      BY <1>2, <2>1

\* The first two spaces give fields, if what they cut out are fields.
LEMMA SplitsHas ==
  ASSUME NEW X, NEW t \in Seq(X), NEW i \in Nat, NEW j \in Nat, FirstTwo(t, Blank, i, j),
         Number(SubSeq(t, i + 1, j - 1)), Number(From(t, j + 1))
  PROVE  FieldsAt(t, i, j) \in Splits(t)
  <1>1. Len(t) \in Nat /\ i \in 1 .. Len(t) /\ j \in 1 .. Len(t) /\ 2 <= i /\ t[i] = Blank
          /\ t[j] = Blank
    BY LenProperties DEF FirstTwo
  <1>2. PICK u : u = SubSeq(t, 1, i - 1)
    OBVIOUS
  <1>3. i - 1 \in 0 .. Len(t) /\ (i - 1) - 1 + 1 = i - 1 /\ 1 <= i - 1
    BY <1>1
  <1>4. /\ u \in Seq(X) /\ Len(u) = i - 1 /\ DOMAIN u = 1 .. i - 1
        /\ \A k \in 1 .. i - 1 : u[k] = t[1 + k - 1]
    BY <1>2, <1>3, PartFacts
  <1>5. u # <<>>
    BY <1>3, <1>4, EmptySeq
  <1>6. NoSpace(u)
    <2>1. \A k \in 1 .. i - 1 : t[k] # Blank /\ 1 + k - 1 = k
      BY <1>1 DEF FirstTwo
    <2> QED
      BY <1>4, <2>1, Zenon DEF NoSpace, Blank
  <1>7. WellFormed(FieldsAt(t, i, j))
    <2>1. NoSpace(SubSeq(t, i + 1, j - 1))
      BY NumberFacts
    <2> QED
      BY <1>2, <1>5, <1>6, <2>1 DEF WellFormed, FieldsAt
  <1> QED
    BY <1>1, <1>7, SplitsAre

\* What PlainParseLine makes of the three parts that it cuts out.
Message(bad, name, value, time) ==
  IF bad THEN BadMessage
  ELSE IF ~Number(value) THEN BadMessage
  ELSE IF time = <<"-", "1">>
       THEN [name |-> RemoveDoubleDot(name), value |-> value, time |-> <<"now">>]
  ELSE IF ~Number(time) THEN BadMessage
  ELSE [name |-> RemoveDoubleDot(name), value |-> value, time |-> time]
\* What it should make of three fields.
Reading(f) ==
  [name |-> Collapsed(f.name), value |-> f.value,
   time |-> IF f.time = <<"-", "1">> THEN <<"now">> ELSE f.time]
Text(s) == IF s # <<>> /\ Last(s) = "\r" THEN Front(s) ELSE s
Reads(t, field) ==
  IF Splits(t) = {} THEN field = BadMessage ELSE \E f \in Splits(t) : field = Reading(f)

CutAt(p, b) ==
  LET i1 == Index(p, b)
      d  == Index(From(p, i1 + 1), b)
      i2 == i1 + d
      i3 == CutCR(p, Len(p) - 1)
      value == SubSeq(p, i1 + 1, i2 - 1)
      time  == SubSeq(p, i2 + 1, i3)
  IN Message(i1 < 2 \/ d < 2, SubSeq(p, 1, i1 - 1), value, time)

\* PlainParseLine in terms of the places it looks for.
LEMMA PlainIs ==
  ASSUME NEW p
  PROVE  PlainParseLine(p) =
           Message(Index(p, Blank) < 2 \/ Index(From(p, Index(p, Blank) + 1), Blank) < 2,
                   SubSeq(p, 1, Index(p, Blank) - 1),
                   SubSeq(p, Index(p, Blank) + 1,
                          (Index(p, Blank) + Index(From(p, Index(p, Blank) + 1), Blank)) - 1),
                   SubSeq(p, Index(p, Blank) + Index(From(p, Index(p, Blank) + 1), Blank) + 1,
                          CutCR(p, Len(p) - 1)))
  <1>1. PlainParseLine(p) = CutAt(p, Blank)
    BY Zenon DEF PlainParseLine, CutAt, Message, Blank
  <1>2. PICK b : b = Blank
    OBVIOUS
  <1>3. CutAt(p, b) = Message(Index(p, b) < 2 \/ Index(From(p, Index(p, b) + 1), b) < 2,
                              SubSeq(p, 1, Index(p, b) - 1),
                              SubSeq(p, Index(p, b) + 1,
                                     (Index(p, b) + Index(From(p, Index(p, b) + 1), b)) - 1),
                              SubSeq(p, Index(p, b) + Index(From(p, Index(p, b) + 1), b) + 1,
                                     CutCR(p, Len(p) - 1)))
    BY DEF CutAt, Message
  <1> QED
    BY <1>1, <1>2, <1>3, Zenon

\* LineAgrees in those terms.
LEMMA LineIs ==
  ASSUME NEW s
  PROVE  LineAgrees(s) <=> Reads(Text(s), PlainParseLine(Append(s, "\n")))
  BY DEF LineAgrees, Reads, Text, Reading

\* Of a line s: p with its end, t without.
LineOf(s, p, t) ==
  /\ Len(p) = Len(s) + 1 /\ Len(t) <= Len(s)
  /\ \A i \in 1 .. Len(t) : t[i] = p[i]
  /\ \A i \in Len(t) + 1 .. Len(p) : p[i] # Blank
  /\ Len(s) # 0 => CutCR(p, Len(s)) = Len(t)

\* A line with its end, and without.
LEMMA LineParts ==
  ASSUME NEW X, "\n" \in X, NEW s \in Seq(X)
  PROVE  Append(s, "\n") \in Seq(X) /\ Text(s) \in Seq(X) /\ LineOf(s, Append(s, "\n"), Text(s))
  <1>1. PICK n, p, t, e, r : n = Len(s) /\ p = Append(s, e) /\ t = Text(s) /\ e = "\n" /\ r = "\r"
    OBVIOUS
  <1>2. n \in Nat /\ e \in X /\ (s = <<>> <=> n = 0)
    BY <1>1, LenProperties, EmptySeq
  <1>3. /\ p \in Seq(X) /\ Len(p) = n + 1 /\ p[n + 1] = e
        /\ \A i \in 1 .. n : p[i] = s[i]
    BY <1>1, <1>2, AppendProperties
  <1>4. e # Blank /\ r # Blank
    BY <1>1, Zenon DEF Blank
  <1>5. t = IF s # <<>> /\ s[n] = r THEN SubSeq(s, 1, n - 1) ELSE s
    BY <1>1, Zenon DEF Text, Front, Last
  <1>6. CutCR(p, n) = IF p[n] = r THEN n - 1 ELSE n
    BY <1>1, Zenon DEF CutCR
  <1>7. CASE s # <<>> /\ s[n] = r
    <2>1. t = SubSeq(s, 1, n - 1)
      BY <1>5, <1>7, Zenon
    <2>2. n - 1 \in 0 .. Len(s) /\ n \in 1 .. n /\ (n - 1) - 1 + 1 = n - 1
      BY <1>1, <1>2, <1>7
    <2>3. /\ t \in Seq(X) /\ Len(t) = n - 1
          /\ \A i \in 1 .. n - 1 : t[i] = s[1 + i - 1]
      BY <1>1, <2>1, <2>2, PartFacts
    <2>4. \A i \in 1 .. n - 1 : t[i] = p[i]
      <3>1. \A i \in 1 .. n - 1 : 1 + i - 1 = i /\ i \in 1 .. n
        BY <2>2
      <3> QED
        BY <1>3, <2>3, <3>1
    <2>5. \A i \in (n - 1) + 1 .. n + 1 : p[i] # Blank
      <3>1. \A i \in (n - 1) + 1 .. n + 1 : i = n \/ i = n + 1
        BY <1>2
      <3>2. p[n] = r
        BY <1>3, <1>7, <2>2
      <3> QED
        BY <1>3, <1>4, <3>1, <3>2, Zenon
    <2>6. CutCR(p, n) = n - 1
      BY <1>3, <1>6, <1>7, <2>2
    <2>7. n - 1 <= n
      BY <1>2
    <2> QED
      BY <1>1, <1>3, <2>3, <2>4, <2>5, <2>6, <2>7, Zenon DEF LineOf
  <1>8. CASE ~(s # <<>> /\ s[n] = r)
    <2>1. t = s
      BY <1>5, <1>8, Zenon
    <2>2. \A i \in n + 1 .. n + 1 : p[i] # Blank
      <3>1. \A i \in n + 1 .. n + 1 : i = n + 1
        BY <1>2
      <3> QED
        BY <1>3, <1>4, <3>1, Zenon
    <2>3. n # 0 => CutCR(p, n) = n
      <3>1. SUFFICES ASSUME n # 0 PROVE CutCR(p, n) = n
        OBVIOUS
      <3>2. p[n] = s[n] /\ s # <<>>
        BY <1>2, <1>3, <3>1
      <3> QED
        BY <1>6, <1>8, <3>2, Zenon
    <2>4. n <= n
      BY <1>2
    <2> QED
      BY <1>1, <1>3, <2>1, <2>2, <2>3, <2>4, Zenon DEF LineOf
  <1> QED
    BY <1>7, <1>8

\* PlainParseLine takes exactly the lines of three fields, as they are.
LEMMA LineExact ==
  ASSUME NEW X, "\n" \in X, NEW s \in Seq(X)
  PROVE  LineAgrees(s)
  <1>1. PICK n, L, p, t, b : n = Len(s) /\ L = Len(t) /\ p = Append(s, "\n") /\ t = Text(s)
          /\ b = Blank
    OBVIOUS
  <1>2. /\ p \in Seq(X) /\ t \in Seq(X) /\ n \in Nat /\ L \in Nat /\ L <= n /\ Len(p) = n + 1
        /\ \A i \in 1 .. L : t[i] = p[i]
        /\ \A i \in L + 1 .. n + 1 : p[i] # b
        /\ n # 0 => CutCR(p, n) = L
    BY <1>1, LineParts, LenProperties DEF LineOf
  <1>3. PICK i1 \in Nat : i1 = Index(p, b) /\ FirstIs(p, b, i1)
    BY <1>2, IndexFirst
  <1>4. i1 <= L
    <2>1. ASSUME ~(i1 <= L) PROVE FALSE
      <3>1. i1 \in 1 .. n + 1 /\ p[i1] = b
        BY <1>2, <1>3, <2>1 DEF FirstIs
      <3>2. i1 \in L + 1 .. n + 1
        BY <1>2, <2>1, <3>1
      <3> QED
        BY <1>2, <3>1, <3>2
    <2> QED
      BY <2>1
  <1>5. PICK q : q = From(p, i1 + 1)
    OBVIOUS
  <1>6. /\ q \in Seq(X) /\ Len(q) = n + 1 - i1
        /\ \A k \in i1 + 1 .. n + 1 : k - i1 \in 1 .. Len(q) /\ q[k - i1] = p[k]
    <2>1. q = SubSeq(p, i1 + 1, n + 1)
      BY <1>2, <1>5, Zenon DEF From
    <2>2. i1 + 1 \in Nat \ {0} /\ n + 1 \in 0 .. Len(p) /\ i1 + 1 <= n + 1
      BY <1>2, <1>4
    <2>3. /\ q \in Seq(X) /\ DOMAIN q = 1 .. Len(q)
          /\ Len(q) = (n + 1) - (i1 + 1) + 1
          /\ \A k \in i1 + 1 .. n + 1 : k - (i1 + 1) + 1 \in DOMAIN q /\ q[k - (i1 + 1) + 1] = p[k]
      BY <1>2, <2>1, <2>2, PartFacts
    <2>4. \A k \in i1 + 1 .. n + 1 : k - (i1 + 1) + 1 = k - i1
      BY <1>2
    <2>5. (n + 1) - (i1 + 1) + 1 = n + 1 - i1
      BY <1>2
    <2> QED
      BY <2>3, <2>4, <2>5
  <1>7. PICK d \in Nat : d = Index(q, b) /\ FirstIs(q, b, d)
    BY <1>6, IndexFirst
  <1>8. PICK field : field = PlainParseLine(p)
    OBVIOUS
  <1>9. field = Message(i1 < 2 \/ d < 2, SubSeq(p, 1, i1 - 1), SubSeq(p, i1 + 1, (i1 + d) - 1),
                        SubSeq(p, i1 + d + 1, CutCR(p, n)))
    <2>1. Len(p) - 1 = n
      BY <1>2
    <2> QED
      BY <1>1, <1>3, <1>5, <1>7, <1>8, <2>1, PlainIs, Zenon
  <1>10. SUFFICES Reads(t, field)
    BY <1>1, <1>8, LineIs, Zenon
  \* a line of three fields has its spaces there
  <1>11. ASSUME NEW f \in Splits(t)
         PROVE  /\ WellFormed(f)
                /\ \E i, j \in 1 .. L : FirstTwo(t, b, i, j) /\ f = FieldsAt(t, i, j)
    BY <1>1, <1>2, SplitsIn
  <1>12. ASSUME NEW i \in 1 .. L, NEW j \in 1 .. L, FirstTwo(t, b, i, j)
         PROVE  i = i1 /\ 2 <= i1 /\ 2 <= d
    <2>1. /\ t[i] = b /\ 2 <= i /\ (\A k \in 1 .. i - 1 : t[k] # b)
          /\ t[j] = b /\ i + 2 <= j /\ (\A k \in i + 1 .. j - 1 : t[k] # b)
      BY <1>12 DEF FirstTwo
    <2>2. i \in Nat /\ j \in Nat /\ i \in 1 .. n + 1 /\ p[i] = b /\ p[j] = b
      BY <1>2, <2>1
    <2>3. i1 # 0 /\ p[i1] = b /\ (\A k \in 1 .. i1 - 1 : p[k] # b)
      BY <1>2, <1>3, <2>2 DEF FirstIs
    <2>4. i1 = i
      <3>1. ~(i1 < i)
        <4>1. SUFFICES ASSUME i1 < i PROVE FALSE
          OBVIOUS
        <4>2. i1 \in 1 .. i - 1 /\ i1 \in 1 .. L
          BY <1>2, <1>4, <2>2, <2>3, <4>1
        <4> QED
          BY <1>2, <2>1, <2>3, <4>2
      <3>2. ~(i < i1)
        <4>1. SUFFICES ASSUME i < i1 PROVE FALSE
          OBVIOUS
        <4>2. i \in 1 .. i1 - 1
          BY <2>2, <4>1
        <4> QED
          BY <2>2, <2>3, <4>2
      <3> QED
        BY <2>2, <3>1, <3>2
    <2>5. d # 0
      <3>1. j \in i1 + 1 .. n + 1
        BY <1>2, <2>1, <2>2, <2>4
      <3>2. j - i1 \in 1 .. Len(q) /\ q[j - i1] = b
        BY <1>6, <2>2, <3>1
      <3> QED
        BY <1>7, <3>2 DEF FirstIs
    <2>6. d # 1
      <3>1. SUFFICES ASSUME d = 1 PROVE FALSE
        OBVIOUS
      <3>2. q[1] = b
        BY <1>7, <3>1 DEF FirstIs
      <3>3. i1 + 1 \in i1 + 1 .. n + 1 /\ (i1 + 1) - i1 = 1 /\ i1 + 1 \in i + 1 .. j - 1
              /\ i1 + 1 \in 1 .. L
        BY <1>2, <2>1, <2>2, <2>4
      <3>4. p[i1 + 1] = b
        BY <1>6, <3>2, <3>3
      <3> QED
        BY <1>2, <2>1, <3>3, <3>4
    <2> QED
      BY <2>1, <2>4, <2>5, <2>6
  <1>13. CASE i1 < 2 \/ d < 2
    <2>1. field = BadMessage
      BY <1>9, <1>13, Zenon DEF Message
    <2>2. ASSUME NEW f \in Splits(t) PROVE FALSE
      <3>1. PICK i, j \in 1 .. L : FirstTwo(t, b, i, j)
        BY <1>11
      <3>2. 2 <= i1 /\ 2 <= d
        BY <1>12, <3>1
      <3> QED
        BY <1>13, <3>2
    <2> QED
      BY <2>1, <2>2 DEF Reads
  <1>14. CASE ~(i1 < 2 \/ d < 2)
    <2>1. PICK j \in Nat : j = i1 + d
      OBVIOUS
    <2>2. /\ i1 \in 1 .. L /\ p[i1] = b /\ (\A k \in 1 .. i1 - 1 : p[k] # b)
          /\ d \in 1 .. Len(q) /\ q[d] = b /\ (\A k \in 1 .. d - 1 : q[k] # b)
      BY <1>2, <1>3, <1>4, <1>7, <1>14 DEF FirstIs
    <2>3. j \in i1 + 1 .. n + 1 /\ j - i1 = d
      <3>1. n \in Nat /\ Len(q) = n + 1 - i1
        BY <1>2, <1>6
      <3>2. d \in 1 .. n + 1 - i1
        BY <2>2, <3>1, Zenon
      <3> QED
        BY <2>1, <3>1, <3>2
    <2>4. p[j] = b
      BY <1>6, <2>2, <2>3
    <2>5. j \in 1 .. L
      <3>1. ~(j \in L + 1 .. n + 1)
        BY <1>2, <2>4
      <3> QED
        BY <1>2, <2>1, <2>3, <3>1
    <2>6. \A k \in i1 + 1 .. j - 1 : p[k] # b
      <3>1. ASSUME NEW k \in i1 + 1 .. j - 1 PROVE p[k] # b
        <4>1. k \in i1 + 1 .. n + 1 /\ k - i1 \in 1 .. d - 1
          BY <1>2, <2>1, <2>3
        <4> QED
          BY <1>6, <2>2, <4>1
      <3> QED
        BY <3>1
    <2>7. FirstTwo(t, b, i1, j)
      <3>1. t[i1] = b /\ t[j] = b
        BY <1>2, <2>2, <2>4, <2>5
      <3>2. \A k \in 1 .. i1 - 1 : t[k] # b
        <4>1. \A k \in 1 .. i1 - 1 : k \in 1 .. L
          BY <1>2, <2>2
        <4> QED
          BY <1>2, <2>2, <4>1
      <3>3. \A k \in i1 + 1 .. j - 1 : t[k] # b
        <4>1. \A k \in i1 + 1 .. j - 1 : k \in 1 .. L
          BY <1>2, <2>2, <2>5
        <4> QED
          BY <1>2, <2>6, <4>1
      <3>4. 2 <= i1 /\ i1 + 2 <= j
        BY <1>14, <2>1
      <3> QED
        BY <1>1, <2>2, <2>5, <3>1, <3>2, <3>3, <3>4, Zenon DEF FirstTwo
    <2>8. /\ SubSeq(p, 1, i1 - 1) = SubSeq(t, 1, i1 - 1)
          /\ SubSeq(p, i1 + 1, j - 1) = SubSeq(t, i1 + 1, j - 1)
          /\ SubSeq(p, j + 1, L) = SubSeq(t, j + 1, L)
      <3>1. /\ 1 \in Nat \ {0} /\ i1 + 1 \in Nat \ {0} /\ j + 1 \in Nat \ {0}
            /\ i1 - 1 \in 0 .. Len(p) /\ i1 - 1 <= Len(t)
            /\ j - 1 \in 0 .. Len(p) /\ j - 1 <= Len(t) /\ L \in 0 .. Len(p) /\ L <= Len(t)
        BY <1>1, <1>2, <2>2, <2>5
      <3>2. /\ \A k \in 1 .. i1 - 1 : p[k] = t[k]
            /\ \A k \in i1 + 1 .. j - 1 : p[k] = t[k]
            /\ \A k \in j + 1 .. L : p[k] = t[k]
        <4>1. /\ \A k \in 1 .. i1 - 1 : k \in 1 .. L
              /\ \A k \in i1 + 1 .. j - 1 : k \in 1 .. L
              /\ \A k \in j + 1 .. L : k \in 1 .. L
          BY <1>2, <2>2, <2>5
        <4> QED
          BY <1>2, <4>1
      <3>3. SubSeq(p, 1, i1 - 1) = SubSeq(t, 1, i1 - 1)
        BY <1>2, <3>1, <3>2, SamePart
      <3>4. SubSeq(p, i1 + 1, j - 1) = SubSeq(t, i1 + 1, j - 1)
        BY <1>2, <3>1, <3>2, SamePart
      <3>5. SubSeq(p, j + 1, L) = SubSeq(t, j + 1, L)
        BY <1>2, <3>1, <3>2, SamePart
      <3> QED
        BY <3>3, <3>4, <3>5
    <2>9. PICK name, value, time : /\ name = SubSeq(t, 1, i1 - 1)
            /\ value = SubSeq(t, i1 + 1, j - 1)
                                   /\ time = From(t, j + 1)
      OBVIOUS
    <2>10. FieldsAt(t, i1, j) = [name |-> name, value |-> value, time |-> time]
      BY <2>9, Zenon DEF FieldsAt
    <2>11. field = Message(FALSE, name, value, time)
      <3>1. CutCR(p, n) = L
        BY <1>2, <2>2
      <3>2. SubSeq(p, j + 1, CutCR(p, n)) = time
        BY <1>1, <2>8, <2>9, <3>1, Zenon DEF From
      <3>3. (i1 < 2 \/ d < 2) <=> FALSE
        BY <1>14, Zenon
      <3>4. field = Message(i1 < 2 \/ d < 2, name, value, time)
        <4>1. field = Message(i1 < 2 \/ d < 2, SubSeq(p, 1, i1 - 1), SubSeq(p, i1 + 1, j - 1),
                              SubSeq(p, j + 1, CutCR(p, n)))
          BY <1>9, <2>1
        <4>2. SubSeq(p, 1, i1 - 1) = name /\ SubSeq(p, i1 + 1, j - 1) = value
          BY <2>8, <2>9, Zenon
        <4> QED
          BY <3>2, <4>1, <4>2, Zenon
      <3> QED
        BY <3>3, <3>4, Zenon DEF Message
    <2>12. name \in Seq(X)
      <3>1. i1 - 1 \in 0 .. Len(t) /\ 1 \in Nat \ {0}
        BY <1>1, <1>2, <2>2
      <3> QED
        BY <1>2, <2>9, <3>1, PartFacts
    <2>13. RemoveDoubleDot(name) = Collapsed(name)
      BY <2>12, DotsExact
    <2>14. CASE Number(value) /\ Number(time)
      <3>1. FieldsAt(t, i1, j) \in Splits(t)
        BY <1>1, <1>2, <2>7, <2>9, <2>14, SplitsHas
      <3>2. Reading(FieldsAt(t, i1, j)) =
              [name |-> Collapsed(name), value |-> value,
               time |-> IF time = <<"-", "1">> THEN <<"now">> ELSE time]
        BY <2>10 DEF Reading
      <3>3. field = Reading(FieldsAt(t, i1, j))
        <4>1. CASE time = <<"-", "1">>
          BY <2>11, <2>13, <2>14, <3>2, <4>1, Zenon DEF Message
        <4>2. CASE time # <<"-", "1">>
          BY <2>11, <2>13, <2>14, <3>2, <4>2, Zenon DEF Message
        <4> QED
          BY <4>1, <4>2, Zenon
      <3> QED
        BY <3>1, <3>3, Zenon DEF Reads
    <2>15. CASE ~(Number(value) /\ Number(time))
      <3>1. field = BadMessage
        <4>1. CASE ~Number(value)
          BY <2>11, <4>1, Zenon DEF Message
        <4>2. CASE ~Number(time)
          <5>1. time # <<"-", "1">>
            BY <4>2, NumberFacts, Zenon
          <5> QED
            BY <2>11, <4>2, <5>1, Zenon DEF Message
        <4> QED
          BY <2>15, <4>1, <4>2, Zenon
      <3>2. ASSUME NEW f \in Splits(t) PROVE FALSE
        <4>1. PICK i, k \in 1 .. L : FirstTwo(t, b, i, k) /\ f = FieldsAt(t, i, k) /\ WellFormed(f)
          BY <1>11
        <4>2. i \in Nat /\ k \in Nat
          BY <4>1
        <4>3. i = i1 /\ k = j
          BY <1>2, <2>7, <4>1, <4>2, FirstTwoOnce
        <4>4. f.value = value /\ f.time = time
          BY <2>10, <4>1, <4>3
        <4> QED
          BY <2>15, <4>1, <4>4, Zenon DEF WellFormed
      <3> QED
        BY <3>1, <3>2 DEF Reads
    <2> QED
      BY <2>14, <2>15
  <1> QED
    BY <1>13, <1>14

-----------------------------------------------------------------------------
(***************************************************************************)
(* Sequences, from the end.                                                *)
(***************************************************************************)
-----------------------------------------------------------------------------
(***************************************************************************)
(* The folds over what is read from a socket.                              *)
(***************************************************************************)
Texts   == INSTANCE Folding WITH Step <- LineStep
TextStates(X) == [line : Seq(X), out : Seq(Seq(X))]

\* TextOf is such a fold.
LEMMA TextIs ==
  ASSUME NEW t
  PROVE  TextOf(t) = Texts!Value(NoText, t)
  BY DEF TextOf, Texts!Value, Texts!Iter, FoldLeft, MapThenFoldSet, Max,
         Texts!Max

\* The text so far, byte by byte.
LEMMA TextStep ==
  ASSUME NEW X, NEW s \in Seq(X)
  PROVE  /\ TextOf(s) \in TextStates(X) /\ TextOf(<<>>) = NoText
         /\ \A x \in X : TextOf(Append(s, x)) = LineStep(TextOf(s), x)
  <1>1. PICK St : St = TextStates(X)
    OBVIOUS
  <1>2. NoText \in St
    BY <1>1 DEF NoText, TextStates
  <1>3. Texts!Closed(St, X)
    <2>1. ASSUME NEW a \in St, NEW y \in X PROVE LineStep(a, y) \in St
      <3>1. PICK l, o : l = a.line /\ o = a.out /\ a = [line |-> l, out |-> o]
            /\ l \in Seq(X) /\ o \in Seq(Seq(X))
        BY <1>1 DEF TextStates
      <3>2. Append(l, y) \in Seq(X)
        BY <3>1
      <3>3. Append(o, Append(l, y)) \in Seq(Seq(X))
        BY <3>1, <3>2
      <3>4. <<>> \in Seq(X)
        OBVIOUS
      <3>5. [line |-> Append(l, y), out |-> o] \in St
              /\ [line |-> <<>>, out |-> Append(o, Append(l, y))] \in St
        BY <1>1, <3>1, <3>2, <3>3, <3>4 DEF TextStates
      <3> QED
        BY <3>1, <3>5, Zenon DEF LineStep
    <2> QED
      BY <2>1, Zenon DEF Texts!Closed
  <1>4. /\ TextOf(s) = Texts!Value(NoText, s) /\ TextOf(<<>>) = Texts!Value(NoText, <<>>)
        /\ \A x \in X : TextOf(Append(s, x)) = Texts!Value(NoText, Append(s, x))
    BY TextIs
  <1>5. Texts!Value(NoText, s) \in St
    BY <1>2, <1>3, Texts!FoldTyped
  <1>6. \A x \in X : Texts!Value(NoText, Append(s, x)) = LineStep(Texts!Value(NoText, s), x)
    BY <1>2, <1>3, Texts!FoldAppend
  <1>7. Texts!Value(NoText, <<>>) = NoText
    BY Texts!FoldEmpty
  <1> QED
    BY <1>1, <1>4, <1>5, <1>6, <1>7, Zenon

Marks == INSTANCE Folding WITH Step <- Unmark

\* NoReads is such a fold.
LEMMA MarkIs ==
  ASSUME NEW t
  PROVE  NoReads(t) = Marks!Value(<<>>, t)
  BY DEF NoReads, Marks!Value, Marks!Iter, FoldLeft, MapThenFoldSet, Max, Marks!Max

\* The input without its marks, byte by byte.
LEMMA MarkStep ==
  ASSUME NEW X, NEW s \in Seq(X)
  PROVE  /\ NoReads(s) \in Seq(X) /\ NoReads(<<>>) = <<>>
         /\ \A x \in X : NoReads(Append(s, x)) = Unmark(NoReads(s), x)
  <1>1. PICK St : St = Seq(X)
    OBVIOUS
  <1>2. <<>> \in St
    BY <1>1
  <1>3. Marks!Closed(St, X)
    <2>1. ASSUME NEW a \in St, NEW y \in X PROVE Unmark(a, y) \in St
      BY <1>1 DEF Unmark
    <2> QED
      BY <2>1, Zenon DEF Marks!Closed
  <1>4. /\ NoReads(s) = Marks!Value(<<>>, s) /\ NoReads(<<>>) = Marks!Value(<<>>, <<>>)
        /\ \A x \in X : NoReads(Append(s, x)) = Marks!Value(<<>>, Append(s, x))
    BY MarkIs
  <1>5. Marks!Value(<<>>, s) \in St
    BY <1>2, <1>3, Marks!FoldTyped
  <1>6. \A x \in X : Marks!Value(<<>>, Append(s, x)) = Unmark(Marks!Value(<<>>, s), x)
    BY <1>2, <1>3, Marks!FoldAppend
  <1>7. Marks!Value(<<>>, <<>>) = <<>>
    BY Marks!FoldEmpty
  <1> QED
    BY <1>1, <1>4, <1>5, <1>6, <1>7, Zenon

Grams == INSTANCE Folding WITH Step <- Datagram
GramStates(X) == Seq(Seq(X)) \ {<<>>}

\* Datagrams is such a fold.
LEMMA GramIs ==
  ASSUME NEW t
  PROVE  Datagrams(t) = Grams!Value(<< <<>> >>, t)
  BY DEF Datagrams, Grams!Value, Grams!Iter, FoldLeft, MapThenFoldSet, Max, Grams!Max

\* The datagrams so far, byte by byte: there always is a last one.
LEMMA GramStep ==
  ASSUME NEW X, NEW s \in Seq(X)
  PROVE  /\ Datagrams(s) \in GramStates(X) /\ Datagrams(<<>>) = << <<>> >>
         /\ \A x \in X : Datagrams(Append(s, x)) = Datagram(Datagrams(s), x)
  <1>1. PICK St : St = GramStates(X)
    OBVIOUS
  <1>2. << <<>> >> \in St
    BY <1>1 DEF GramStates
  <1>3. Grams!Closed(St, X)
    <2>1. ASSUME NEW a \in St, NEW y \in X PROVE Datagram(a, y) \in St
      <3>1. a \in Seq(Seq(X)) /\ Len(a) \in 1 .. Len(a) /\ Len(a) \in Nat /\ a # <<>>
        BY <1>1, EmptySeq DEF GramStates
      <3>2. Append(a, <<>>) \in Seq(Seq(X)) /\ Append(a, <<>>) # <<>>
        <4>0. PICK Z : Z = Seq(X)
          OBVIOUS
        <4>1. PICK z : z = <<>> /\ z \in Z
          BY <4>0, EmptySeq, Zenon
        <4>2. Append(a, z) \in Seq(Z) /\ Append(a, z) # <<>>
          BY <3>1, <4>0, <4>1, AppendProperties
        <4> QED
          BY <4>0, <4>1, <4>2, Zenon
      <3>3. PICK e, b : e = Append(a[Len(a)], y) /\ b = [a EXCEPT ![Len(a)] = e]
        OBVIOUS
      <3>4. e \in Seq(X)
        BY <3>1, <3>3
      <3>5. b \in Seq(Seq(X)) /\ Len(b) = Len(a)
        BY <3>1, <3>3, <3>4, ExceptSeq
      <3>6. b # <<>>
        BY <3>1, <3>5
      <3>7. Datagram(a, y) = IF y = "|" THEN Append(a, <<>>) ELSE b
        BY <3>3, Zenon DEF Datagram
      <3> QED
        BY <1>1, <3>2, <3>5, <3>6, <3>7 DEF GramStates
    <2> QED
      BY <2>1, Zenon DEF Grams!Closed
  <1>4. /\ Datagrams(s) = Grams!Value(<< <<>> >>, s)
             /\ Datagrams(<<>>) = Grams!Value(<< <<>> >>, <<>>)
        /\ \A x \in X : Datagrams(Append(s, x)) = Grams!Value(<< <<>> >>, Append(s, x))
    BY GramIs
  <1>5. Grams!Value(<< <<>> >>, s) \in St
    BY <1>2, <1>3, Grams!FoldTyped
  <1>6. \A x \in X : Grams!Value(<< <<>> >>, Append(s, x)) = Datagram(Grams!Value(<< <<>> >>, s), x)
    BY <1>2, <1>3, Grams!FoldAppend
  <1>7. Grams!Value(<< <<>> >>, <<>>) = << <<>> >>
    BY Grams!FoldEmpty
  <1> QED
    BY <1>1, <1>4, <1>5, <1>6, <1>7, Zenon

\* LastIndex is the last place, or 0.
LEMMA IndexLast ==
  ASSUME NEW X, NEW t \in Seq(X), NEW x
  PROVE  LastIs(t, x, LastIndex(t, x)) /\ LastIndex(t, x) \in Nat
  <1>1. LastIndex(t, x) = LastPlace(t, x)
    BY LenProperties DEF LastIndex, SelectLastInSeq, LastPlace
  <1> QED
    BY <1>1, LastPlaceFacts, Zenon

SocketStates(X) == [buf : Seq(X), out : Seq(Seq(X))]

\* What Frame does with a buffer b whose last end of line is at k.
Framed(b, out, k, st) ==
  /\ LastIs(b, "\n", k) /\ k \in 0 .. Len(b)
  /\ k = 0 => st = [buf |-> b, out |-> out]
  /\ k # 0 => st = [buf |-> SubSeq(b, k + 1, Len(b)), out |-> Append(out, SubSeq(b, 1, k))]

\* Frame cuts a buffer behind its last end of line, if it has one.
LEMMA FrameIs ==
  ASSUME NEW X, NEW b \in Seq(X), NEW out \in Seq(Seq(X))
  PROVE  /\ Frame([buf |-> b, out |-> out]) \in SocketStates(X)
         /\ \E k : Framed(b, out, k, Frame([buf |-> b, out |-> out]))
  <1>1. PICK k, n : k = LastIndex(b, "\n") /\ k \in Nat /\ LastIs(b, "\n", k) /\ n = Len(b)
          /\ n \in Nat
    BY IndexLast, LenProperties
  <1>2. k \in 0 .. n
    BY <1>1 DEF LastIs
  <1>3. PICK a, f, u, v : /\ a = [buf |-> b, out |-> out] /\ f = Frame(a)
                          /\ u = SubSeq(b, 1, k) /\ v = SubSeq(b, k + 1, n)
    OBVIOUS
  <1>4. u \in Seq(X) /\ v \in Seq(X)
    <2>1. k + 1 \in Nat \ {0} /\ n \in 0 .. n
      BY <1>1
    <2> QED
      BY <1>1, <1>2, <1>3, <2>1, PartFacts
  <1>5. a.buf = b /\ a.out = out
    BY <1>3
  <1>6. f = IF k = 0 THEN a ELSE [buf |-> v, out |-> Append(out, u)]
    BY <1>1, <1>3, <1>5, Zenon DEF Frame, From
  <1>7. f \in SocketStates(X)
    <2>1. Append(out, u) \in Seq(Seq(X))
      <3>1. PICK Z : Z = Seq(X)
        OBVIOUS
      <3>2. Append(out, u) \in Seq(Z)
        BY <1>4, <3>1
      <3> QED
        BY <3>1, <3>2
    <2>2. a \in SocketStates(X) /\ [buf |-> v, out |-> Append(out, u)] \in SocketStates(X)
      BY <1>3, <1>4, <2>1 DEF SocketStates
    <2> QED
      BY <1>6, <2>2, Zenon
  <1>8. Framed(b, out, k, f)
    BY <1>1, <1>2, <1>3, <1>6, Zenon DEF Framed
  <1> QED
    BY <1>3, <1>7, <1>8, Zenon

\* A byte: what it finds room in, and where it goes.
LEMMA SocketTyped ==
  ASSUME NEW X, NEW a \in SocketStates(X), NEW y \in X
  PROVE  /\ Frame(a) \in SocketStates(X) /\ [a EXCEPT !.buf = Append(@, y)] \in SocketStates(X)
         /\ [a EXCEPT !.buf = <<>>] \in SocketStates(X)
  <1>1. PICK b, o : a = [buf |-> b, out |-> o] /\ b = a.buf /\ b \in Seq(X) /\ o \in Seq(Seq(X))
    BY DEF SocketStates
  <1>2. Frame(a) \in SocketStates(X)
    BY <1>1, FrameIs, Zenon
  <1>3. Append(b, y) \in Seq(X) /\ <<>> \in Seq(X)
    BY <1>1
  <1> QED
    BY <1>1, <1>2, <1>3 DEF SocketStates

TcpBytes == INSTANCE Folding WITH Step <- TcpByte
TcpState(s) == FoldLeft(TcpByte, NothingRead, s)

\* So is HandleConnection, before the connection ends.
LEMMA TcpIs ==
  ASSUME NEW t
  PROVE  TcpState(t) = TcpBytes!Value(NothingRead, t)
  BY DEF TcpState, TcpBytes!Value, TcpBytes!Iter, FoldLeft, MapThenFoldSet, Max, TcpBytes!Max

\* Its buffers, byte by byte.
LEMMA TcpStep ==
  ASSUME NEW X, NEW s \in Seq(X)
  PROVE  /\ TcpState(s) \in SocketStates(X) /\ TcpState(<<>>) = NothingRead
         /\ \A x \in X : TcpState(Append(s, x)) = TcpByte(TcpState(s), x)
  <1>1. PICK St : St = SocketStates(X)
    OBVIOUS
  <1>2. NothingRead \in St
    BY <1>1 DEF NothingRead, SocketStates
  <1>3. TcpBytes!Closed(St, X)
    <2>1. ASSUME NEW a \in St, NEW y \in X PROVE TcpByte(a, y) \in St
      <3>1. Frame(a) \in St
        BY <1>1, <2>1, SocketTyped, Zenon
      <3>2. /\ [a EXCEPT !.buf = Append(@, y)] \in St
            /\ [Frame(a) EXCEPT !.buf = Append(@, y)] \in St
        BY <1>1, <2>1, <3>1, SocketTyped, Zenon
      <3> QED
        BY <2>1, <3>1, <3>2, Zenon DEF TcpByte
    <2> QED
      BY <2>1, Zenon DEF TcpBytes!Closed
  <1>4. /\ TcpState(s) = TcpBytes!Value(NothingRead, s)
             /\ TcpState(<<>>) = TcpBytes!Value(NothingRead, <<>>)
        /\ \A x \in X : TcpState(Append(s, x)) = TcpBytes!Value(NothingRead, Append(s, x))
    BY TcpIs
  <1>5. TcpBytes!Value(NothingRead, s) \in St
    BY <1>2, <1>3, TcpBytes!FoldTyped
  <1>6. \A x \in X : TcpBytes!Value(NothingRead, Append(s, x)) =
            TcpByte(TcpBytes!Value(NothingRead, s), x)
    BY <1>2, <1>3, TcpBytes!FoldAppend
  <1>7. TcpBytes!Value(NothingRead, <<>>) = NothingRead
    BY TcpBytes!FoldEmpty
  <1> QED
    BY <1>1, <1>4, <1>5, <1>6, <1>7, Zenon

UdpBytes == INSTANCE Folding WITH Step <- UdpByte
UdpState(s) == FoldLeft(UdpByte, NothingRead, s)

\* So is ReceiveWorker, before the last datagram ends.
LEMMA UdpIs ==
  ASSUME NEW t
  PROVE  UdpState(t) = UdpBytes!Value(NothingRead, t)
  BY DEF UdpState, UdpBytes!Value, UdpBytes!Iter, FoldLeft, MapThenFoldSet, Max, UdpBytes!Max

\* Its buffers, byte by byte.
LEMMA UdpStep ==
  ASSUME NEW X, NEW s \in Seq(X)
  PROVE  /\ UdpState(s) \in SocketStates(X) /\ UdpState(<<>>) = NothingRead
         /\ \A x \in X : UdpState(Append(s, x)) = UdpByte(UdpState(s), x)
  <1>1. PICK St : St = SocketStates(X)
    OBVIOUS
  <1>2. NothingRead \in St
    BY <1>1 DEF NothingRead, SocketStates
  <1>3. UdpBytes!Closed(St, X)
    <2>1. ASSUME NEW a \in St, NEW y \in X PROVE UdpByte(a, y) \in St
      <3>1. Frame(a) \in St /\ [a EXCEPT !.buf = Append(@, y)] \in St
        BY <1>1, <2>1, SocketTyped, Zenon
      <3>2. [Frame(a) EXCEPT !.buf = <<>>] \in St
        BY <1>1, <2>1, <3>1, SocketTyped, Zenon
      <3> QED
        BY <2>1, <3>1, <3>2, Zenon DEF UdpByte, FrameDatagram
    <2> QED
      BY <2>1, Zenon DEF UdpBytes!Closed
  <1>4. /\ UdpState(s) = UdpBytes!Value(NothingRead, s)
             /\ UdpState(<<>>) = UdpBytes!Value(NothingRead, <<>>)
        /\ \A x \in X : UdpState(Append(s, x)) = UdpBytes!Value(NothingRead, Append(s, x))
    BY UdpIs
  <1>5. UdpBytes!Value(NothingRead, s) \in St
    BY <1>2, <1>3, UdpBytes!FoldTyped
  <1>6. \A x \in X : UdpBytes!Value(NothingRead, Append(s, x)) =
            UdpByte(UdpBytes!Value(NothingRead, s), x)
    BY <1>2, <1>3, UdpBytes!FoldAppend
  <1>7. UdpBytes!Value(NothingRead, <<>>) = NothingRead
    BY UdpBytes!FoldEmpty
  <1> QED
    BY <1>1, <1>4, <1>5, <1>6, <1>7, Zenon

-----------------------------------------------------------------------------
(***************************************************************************)
(* The text of an input.                                                   *)
(***************************************************************************)
NoEnd(d) == \A i \in 1 .. Len(d) : d[i] # "\n"

\* Without an end of line there is no line yet.
LEMMA TextOpen ==
  ASSUME NEW X, NEW d \in Seq(X), NoEnd(d)
  PROVE  TextOf(d) = [line |-> d, out |-> <<>>]
  <1> DEFINE K == {t \in Seq(X) : NoEnd(t) => TextOf(t) = [line |-> t, out |-> <<>>]}
  <1>1. <<>> \in K
    <2>1. <<>> \in Seq(X) /\ TextOf(<<>>) = NoText
      BY TextStep
    <2> QED
      BY <2>1 DEF NoText
  <1>2. ASSUME NEW t \in Seq(X), NEW x \in X, t \in K PROVE Append(t, x) \in K
    <2>1. PICK u : u = Append(t, x)
      OBVIOUS
    <2>2. /\ u \in Seq(X) /\ Len(u) = Len(t) + 1 /\ u[Len(t) + 1] = x /\ Len(t) \in Nat
          /\ \A i \in 1 .. Len(t) : u[i] = t[i]
      BY <2>1, AppendProperties, LenProperties
    <2>3. ASSUME NoEnd(u) PROVE TextOf(u) = [line |-> u, out |-> <<>>]
      <3>1. NoEnd(t) /\ x # "\n"
        <4>1. \A i \in 1 .. Len(t) : i \in 1 .. Len(u)
          BY <2>2
        <4>2. Len(t) + 1 \in 1 .. Len(u)
          BY <2>2
        <4> QED
          BY <2>2, <2>3, <4>1, <4>2, Zenon DEF NoEnd
      <3>2. TextOf(u) = LineStep(TextOf(t), x)
        BY <2>1, TextStep
      <3>3. PICK a : a = TextOf(t) /\ a = [line |-> t, out |-> <<>>]
        BY <1>2, <3>1
      <3>4. a.line = t /\ a.out = <<>>
        BY <3>3
      <3> QED
        BY <2>1, <3>1, <3>2, <3>3, <3>4, Zenon DEF LineStep
    <2> QED
      BY <2>1, <2>2, <2>3
  <1> HIDE DEF K
  <1>3. d \in K
    BY <1>1, <1>2, SeqAppendInduction
  <1> QED
    BY <1>3 DEF K

\* After an end of line the text begins anew.
LEMMA TextSplit ==
  ASSUME NEW X, NEW c \in Seq(X), TextOf(c).line = <<>>, NEW d \in Seq(X)
  PROVE  TextOf(c \o d) = [line |-> TextOf(d).line, out |-> TextOf(c).out \o TextOf(d).out]
  <1>1. PICK a : a = TextOf(c)
    OBVIOUS
  <1> DEFINE K == {t \in Seq(X) :
                     TextOf(c \o t) = [line |-> TextOf(t).line, out |-> a.out \o TextOf(t).out]}
  <1>2. a \in TextStates(X)
    BY <1>1, TextStep
  <1>3. <<>> \in K
    <2>1. TextOf(<<>>) = NoText
      BY TextStep
    <2>2. TextOf(<<>>).line = <<>> /\ TextOf(<<>>).out = <<>>
      BY <2>1 DEF NoText
    <2>3. c \o <<>> = c /\ <<>> \in Seq(X)
      BY ConcatEmptySeq
    <2>4. a = [line |-> <<>>, out |-> a.out \o <<>>]
      <3>1. a = [line |-> a.line, out |-> a.out] /\ a.out \in Seq(Seq(X)) /\ a.line = <<>>
        BY <1>1, <1>2 DEF TextStates
      <3>2. a.out \o <<>> = a.out
        BY <3>1, ConcatEmptySeq
      <3> QED
        BY <3>1, <3>2, Zenon
    <2>5. TextOf(c \o <<>>) = [line |-> TextOf(<<>>).line, out |-> a.out \o TextOf(<<>>).out]
      BY <1>1, <2>2, <2>3, <2>4, Zenon
    <2> QED
      BY <2>3, <2>5
  <1>4. ASSUME NEW t \in Seq(X), NEW x \in X, t \in K PROVE Append(t, x) \in K
    <2>1. PICK l, o, b, g : b = TextOf(t) /\ l = b.line /\ o = b.out /\ g = a.out
      OBVIOUS
    <2>2. b = [line |-> l, out |-> o] /\ l \in Seq(X) /\ o \in Seq(Seq(X)) /\ g \in Seq(Seq(X))
      BY <1>2, <2>1, TextStep DEF TextStates
    <2>3. TextOf(Append(t, x)) = LineStep(b, x)
      BY <2>1, TextStep
    <2>4. c \o Append(t, x) = Append(c \o t, x) /\ c \o t \in Seq(X)
      BY ConcatAppend, ConcatProperties
    <2>5. PICK w : w = TextOf(c \o t) /\ w = [line |-> l, out |-> g \o o]
      BY <1>4, <2>1
    <2>6. TextOf(c \o Append(t, x)) = LineStep(w, x)
      BY <2>4, <2>5, TextStep
    <2>7. w.line = l /\ w.out = g \o o
      BY <2>5
    <2>8. LineStep(w, x) = [line |-> LineStep(b, x).line, out |-> g \o LineStep(b, x).out]
      <3>1. CASE x # "\n"
        <4>1. LineStep(b, x) = [line |-> Append(l, x), out |-> o]
          BY <2>1, <3>1, Zenon DEF LineStep
        <4>2. LineStep(w, x) = [line |-> Append(l, x), out |-> g \o o]
          BY <2>7, <3>1, Zenon DEF LineStep
        <4> QED
          BY <4>1, <4>2
      <3>2. CASE x = "\n" /\ l = <<>>
        <4>1. LineStep(b, x) = b /\ LineStep(w, x) = w
          BY <2>1, <2>7, <3>2, Zenon DEF LineStep
        <4> QED
          BY <2>1, <2>5, <4>1, Zenon
      <3>3. CASE x = "\n" /\ l # <<>>
        <4>1. PICK e : e = Append(l, x)
          OBVIOUS
        <4>2. LineStep(b, x) = [line |-> <<>>, out |-> Append(o, e)]
          BY <2>1, <3>3, <4>1, Zenon DEF LineStep
        <4>3. LineStep(w, x) = [line |-> <<>>, out |-> Append(g \o o, e)]
          BY <2>7, <3>3, <4>1, Zenon DEF LineStep
        <4>4. g \o Append(o, e) = Append(g \o o, e)
          <5>1. e \in Seq(X)
            BY <2>2, <4>1
          <5>2. PICK Z : Z = Seq(X)
            OBVIOUS
          <5> QED
            BY <2>2, <5>1, <5>2, ConcatAppend, SMTT(30)
        <4>5. LineStep(b, x).line = <<>> /\ LineStep(b, x).out = Append(o, e)
          BY <4>2
        <4> QED
          BY <4>3, <4>4, <4>5, Zenon
      <3> QED
        BY <3>1, <3>2, <3>3
    <2>9. TextOf(c \o Append(t, x)) = [line |-> TextOf(Append(t, x)).line,
                                       out |-> a.out \o TextOf(Append(t, x)).out]
      BY <2>1, <2>3, <2>6, <2>8, Zenon
    <2>10. Append(t, x) \in Seq(X)
      OBVIOUS
    <2> QED
      BY <2>9, <2>10
  <1> HIDE DEF K
  <1>5. d \in K
    BY <1>3, <1>4, SeqAppendInduction
  <1> QED
    BY <1>1, <1>5 DEF K

\* A part without an end of line, and its end: one line, or none if the part is empty.
LEMMA TextLine ==
  ASSUME NEW X, NEW d \in Seq(X), NoEnd(d), "\n" \in X
  PROVE  TextOf(Append(d, "\n")) =
           [line |-> <<>>, out |-> IF d = <<>> THEN <<>> ELSE << Append(d, "\n") >>]
  <1>1. PICK a, e : e = "\n" /\ a = TextOf(d) /\ a = [line |-> d, out |-> <<>>]
    BY TextOpen
  <1>2. TextOf(Append(d, e)) = LineStep(a, e)
    BY <1>1, TextStep
  <1>3. a.line = d /\ a.out = <<>>
    BY <1>1
  <1>4. LineStep(a, e) = IF d = <<>> THEN a ELSE [line |-> <<>>, out |-> Append(<<>>, Append(d, e))]
    BY <1>1, <1>3, Zenon DEF LineStep
  <1>5. \A z : Append(<<>>, z) = <<z>>
    OBVIOUS
  <1>6. CASE d = <<>>
    BY <1>1, <1>2, <1>4, <1>6, Zenon
  <1>7. CASE d # <<>>
    BY <1>1, <1>2, <1>4, <1>5, <1>7, Zenon
  <1> QED
    BY <1>6, <1>7

\* A text is empty or closed where nothing is behind its last end of line.
LEMMA TextClosed ==
  ASSUME NEW X, NEW c \in Seq(X), c = <<>> \/ c[Len(c)] = "\n"
  PROVE  TextOf(c).line = <<>>
  <1>1. CASE c = <<>>
    <2>1. TextOf(c) = NoText
      BY <1>1, TextStep
    <2> QED
      BY <2>1 DEF NoText
  <1>2. CASE c # <<>>
    <2>1. PICK s \in Seq(X), x \in X : c = Append(s, x)
      BY <1>2, SequenceEmptyOrAppend
    <2>2. x = "\n"
      <3>1. Len(c) = Len(s) + 1 /\ c[Len(s) + 1] = x
        BY <2>1, AppendProperties
      <3> QED
        BY <1>2, <3>1
    <2>3. TextOf(c) = LineStep(TextOf(s), x)
      BY <2>1, TextStep
    <2>4. PICK a : a = TextOf(s)
      OBVIOUS
    <2>5. CASE a.line = <<>>
      BY <2>2, <2>3, <2>4, <2>5, Zenon DEF LineStep
    <2>6. CASE a.line # <<>>
      <3>1. TextOf(c) = [line |-> <<>>, out |-> Append(a.out, Append(a.line, x))]
        BY <2>2, <2>3, <2>4, <2>6, Zenon DEF LineStep
      <3> QED
        BY <3>1
    <2> QED
      BY <2>5, <2>6
  <1> QED
    BY <1>1, <1>2

-----------------------------------------------------------------------------
(***************************************************************************)
(* The lines of a buffer.                                                  *)
(***************************************************************************)
\* What LinesOf says of the lines from i on.
LineAt(b, f, i) ==
  LET e == Index(From(b, i), "\n")
  IN IF e = 0 THEN <<>>
     ELSE IF e = 1 THEN f[i + 1]
     ELSE <<SubSeq(b, i, i + e - 1)>> \o f[i + e]

\* LinesOf is the recursive function of its definition, at 1.
LEMMA LinesIs ==
  ASSUME NEW b
  PROVE  LinesOf(b) = (CHOOSE f : f = [i \in 1 .. Len(b) + 1 |-> LineAt(b, f, i)])[1]
  BY DEF LinesOf, LineAt

\* A text in terms of its first line.
LEMMA TextFirst ==
  ASSUME NEW X, NEW r \in Seq(X), "\n" \in X, NEW e \in 1 .. Len(r), r[e] = "\n",
         \A k \in 1 .. e - 1 : r[k] # "\n"
  PROVE  TextLines(r) = (IF e = 1 THEN <<>> ELSE <<SubSeq(r, 1, e)>>)
                          \o TextLines(SubSeq(r, e + 1, Len(r)))
  <1>1. PICK n, g, h, q : /\ n = Len(r) /\ g = SubSeq(r, 1, e - 1) /\ h = SubSeq(r, 1, e)
                          /\ q = SubSeq(r, e + 1, n)
    OBVIOUS
  <1>2. n \in Nat /\ e \in Nat \ {0} /\ e <= n
    BY <1>1, LenProperties
  <1>3. g \in Seq(X) /\ Len(g) = e - 1 /\ NoEnd(g)
    <2>1. 1 \in Nat \ {0} /\ e - 1 \in 0 .. Len(r)
      BY <1>1, <1>2
    <2>2. g \in Seq(X) /\ Len(g) = IF 1 <= e - 1 THEN (e - 1) - 1 + 1 ELSE 0
      BY <1>1, <2>1, PartFacts
    <2>3. Len(g) = e - 1
      BY <1>2, <2>2
    <2>4. \A i \in 1 .. (e - 1) - 1 + 1 : g[i] = r[1 + i - 1]
      BY <1>1, <2>1, PartFacts
    <2>5. \A i \in 1 .. e - 1 : g[i] = r[i]
      BY <1>2, <2>4
    <2> QED
      BY <2>2, <2>3, <2>5 DEF NoEnd
  <1>4. h = Append(g, "\n") /\ h \in Seq(X)
    <2>1. 1 \in 1 .. Len(r) /\ e \in 1 .. Len(r)
      BY <1>1, <1>2
    <2>2. SubSeq(r, 1, e) = SubSeq(r, 1, e - 1) \o <<r[e]>>
      BY <2>1, SubSeqRecursiveSecond
    <2>3. PICK x : x = "\n"
      OBVIOUS
    <2>4. Append(g, x) = g \o <<x>> /\ Append(g, x) \in Seq(X)
      BY <1>3, <2>3, AppendIsConcat, AppendProperties
    <2> QED
      BY <1>1, <2>2, <2>3, <2>4, Zenon
  <1>5. q \in Seq(X)
    <2>1. e + 1 \in Nat \ {0} /\ n \in 0 .. Len(r)
      BY <1>1, <1>2
    <2> QED
      BY <1>1, <2>1, PartFacts
  <1>6. r = h \o q
    <2>1. 1 \in 1 .. Len(r) + 1 /\ e \in 1 - 1 .. Len(r) /\ n \in e .. Len(r)
      BY <1>1, <1>2
    <2>2. SubSeq(r, 1, e) \o SubSeq(r, e + 1, n) = SubSeq(r, 1, n)
      BY <2>1, ConcatAdjacentSubSeq
    <2>3. SubSeq(r, 1, n) = r
      BY <1>1, SubSeqFull
    <2> QED
      BY <1>1, <2>2, <2>3, Zenon
  <1>7. PICK v : v = TextOf(h) /\ v = [line |-> <<>>, out |-> IF g = <<>> THEN <<>> ELSE <<h>>]
    BY <1>3, <1>4, TextLine
  <1>8. v.line = <<>> /\ v.out = IF g = <<>> THEN <<>> ELSE <<h>>
    BY <1>7
  <1>9. TextOf(h \o q) = [line |-> TextOf(q).line, out |-> TextOf(h).out \o TextOf(q).out]
    BY <1>4, <1>5, <1>7, <1>8, TextSplit
  <1>10. TextOf(r).out = v.out \o TextOf(q).out
    <2>1. PICK l, o : l = TextOf(q).line /\ o = v.out \o TextOf(q).out
      OBVIOUS
    <2>2. TextOf(r) = [line |-> l, out |-> o]
      BY <1>6, <1>7, <1>9, <2>1, Zenon
    <2>3. [line |-> l, out |-> o].out = o
      OBVIOUS
    <2> QED
      BY <2>1, <2>2, <2>3, Zenon
  <1>11. g = <<>> <=> e = 1
    BY <1>2, <1>3, EmptySeq
  <1> QED
    BY <1>1, <1>8, <1>10, <1>11, Zenon DEF TextLines

\* Its lines from i on are what LinesOf says of them.
LEMMA LinesStep ==
  ASSUME NEW X, NEW b \in Seq(X), "\n" \in X, NEW i \in 1 .. Len(b) + 1, NEW f,
         \A j \in i + 1 .. Len(b) + 1 : f[j] = TextLines(From(b, j))
  PROVE  TextLines(From(b, i)) = LineAt(b, f, i)
  <1>1. PICK n, r, e : n = Len(b) /\ r = From(b, i) /\ e = Index(r, "\n")
    OBVIOUS
  <1>2. n \in Nat /\ i \in Nat \ {0} /\ i <= n + 1 /\ r = SubSeq(b, i, n)
    BY <1>1, LenProperties DEF From
  <1>3. /\ r \in Seq(X) /\ Len(r) = (n - i) + 1 /\ \A k \in 1 .. (n - i) + 1 : r[k] = b[(i + k) - 1]
    <2>1. n \in 0 .. Len(b)
      BY <1>1, <1>2
    <2>2. /\ r \in Seq(X) /\ Len(r) = IF i <= n THEN n - i + 1 ELSE 0
          /\ \A k \in 1 .. n - i + 1 : r[k] = b[i + k - 1]
      BY <1>2, <2>1, PartFacts
    <2>3. n - i + 1 = (n - i) + 1
      BY <1>2
    <2>4. Len(r) = (n - i) + 1
      BY <1>2, <2>2
    <2>5. \A k \in 1 .. (n - i) + 1 : i + k - 1 = (i + k) - 1
      BY <1>2
    <2> QED
      BY <2>2, <2>3, <2>4, <2>5
  <1>4. FirstIs(r, "\n", e) /\ e \in Nat
    BY <1>1, <1>3, IndexFirst
  <1>5. CASE e = 0
    <2>1. NoEnd(r)
      BY <1>4, <1>5 DEF FirstIs, NoEnd
    <2>2. PICK a : a = TextOf(r) /\ a = [line |-> r, out |-> <<>>]
      BY <1>3, <2>1, TextOpen
    <2>3. TextLines(r) = <<>>
      BY <2>2 DEF TextLines
    <2> QED
      BY <1>1, <1>5, <2>3, Zenon DEF LineAt
  <1>6. CASE e # 0
    <2>1. e \in 1 .. Len(r) /\ r[e] = "\n" /\ \A k \in 1 .. e - 1 : r[k] # "\n"
      BY <1>4, <1>6 DEF FirstIs
    <2>2. i + e \in i + 1 .. n + 1
      BY <1>2, <1>3, <2>1
    <2>3. SubSeq(r, e + 1, Len(r)) = From(b, i + e)
      <3>1. CASE e = Len(r)
        <4>1. Len(r) < e + 1 /\ n < i + e /\ e + 1 \in Int /\ Len(r) \in Int /\ i + e \in Int
          BY <1>2, <1>3, <1>4, <3>1
        <4>2. SubSeq(r, e + 1, Len(r)) = <<>> /\ SubSeq(b, i + e, n) = <<>>
          BY <1>2, <4>1, SubSeqEmpty
        <4> QED
          BY <1>1, <4>2 DEF From
      <3>2. CASE e # Len(r)
        <4>1. /\ i \in 1 .. Len(b) /\ n \in 1 .. Len(b)
              /\ e + 1 \in 1 .. n - i + 1 /\ Len(r) \in 1 .. n - i + 1
          BY <1>1, <1>2, <1>3, <2>1, <3>2
        <4>2. PICK m \in 1 .. n - i + 1, k \in 1 .. n - i + 1 : m = e + 1 /\ k = Len(r)
          BY <4>1
        <4>3. SubSeq(SubSeq(b, i, n), m, k) = SubSeq(b, i + m - 1, i + k - 1)
          BY <4>1, SubSeqOfSubSeq
        <4>4. i + m - 1 = i + e /\ i + k - 1 = n
          BY <1>2, <1>3, <1>4, <4>2
        <4> QED
          BY <1>1, <1>2, <4>2, <4>3, <4>4, Zenon DEF From
      <3> QED
        BY <3>1, <3>2
    <2>4. SubSeq(r, 1, e) = SubSeq(b, i, i + e - 1)
      <3>1. /\ i \in 1 .. Len(b) /\ n \in 1 .. Len(b)
            /\ 1 \in 1 .. n - i + 1 /\ e \in 1 .. n - i + 1
        BY <1>1, <1>2, <1>3, <2>1
      <3>2. SubSeq(SubSeq(b, i, n), 1, e) = SubSeq(b, i + 1 - 1, i + e - 1)
        BY <3>1, SubSeqOfSubSeq
      <3>3. i + 1 - 1 = i
        BY <1>2
      <3> QED
        BY <1>2, <3>2, <3>3, Zenon
    <2>5. TextLines(r) = (IF e = 1 THEN <<>> ELSE <<SubSeq(r, 1, e)>>)
                           \o TextLines(SubSeq(r, e + 1, Len(r)))
      BY <1>3, <2>1, TextFirst
    <2>6. f[i + e] = TextLines(From(b, i + e))
      BY <1>1, <2>2
    <2>7. CASE e = 1
      <3>1. TextLines(r) = <<>> \o f[i + e]
        BY <2>3, <2>5, <2>6, <2>7, Zenon
      <3>2. f[i + e] \in Seq(Seq(X))
        <4>1. From(b, i + e) \in Seq(X)
          <5>1. i + e \in Nat \ {0} /\ n \in 0 .. Len(b)
            BY <1>1, <1>2, <1>4
          <5> QED
            BY <1>1, <5>1, PartFacts DEF From
        <4>2. TextOf(From(b, i + e)) \in TextStates(X)
          BY <4>1, TextStep
        <4> QED
          BY <2>6, <4>2 DEF TextStates, TextLines
      <3>3. <<>> \o f[i + e] = f[i + e]
        BY <3>2, ConcatEmptySeq
      <3> QED
        BY <1>1, <1>6, <2>7, <3>1, <3>3, Zenon DEF LineAt
    <2>8. CASE e # 1
      <3>1. TextLines(r) = <<SubSeq(b, i, i + e - 1)>> \o f[i + e]
        BY <2>3, <2>4, <2>5, <2>6, <2>8, Zenon
      <3> QED
        BY <1>1, <1>6, <2>8, <3>1, Zenon DEF LineAt
    <2> QED
      BY <2>7, <2>8
  <1> QED
    BY <1>5, <1>6

\* PlainParseBuffer parses every line of a buffer once, in order, and no empty one.
LEMMA LinesExact ==
  ASSUME NEW X, NEW b \in Seq(X), "\n" \in X
  PROVE  LinesOf(b) = TextLines(b)
  <1>1. PICK n : n = Len(b) /\ n \in Nat
    BY LenProperties
  <1> DEFINE w == [i \in 1 .. n + 1 |-> TextLines(From(b, i))]
  <1>2. \A i \in 1 .. n + 1 : w[i] = TextLines(From(b, i))
    OBVIOUS
  <1>3. w = [i \in 1 .. n + 1 |-> w[i]]
    OBVIOUS
  <1> HIDE DEF w
  <1>4. \A i \in 1 .. n + 1 : \A j \in i + 1 .. n + 1 : j \in 1 .. n + 1
    BY <1>1
  <1>5. \A i \in 1 .. n + 1 : w[i] = LineAt(b, w, i)
    <2>1. ASSUME NEW i \in 1 .. n + 1 PROVE w[i] = LineAt(b, w, i)
      <3>1. \A j \in i + 1 .. n + 1 : w[j] = TextLines(From(b, j))
        BY <1>2, <1>4
      <3>2. TextLines(From(b, i)) = LineAt(b, w, i)
        BY <1>1, <3>1, LinesStep
      <3> QED
        BY <1>2, <3>2, Zenon
    <2> QED
      BY <2>1
  <1>6. w = [i \in 1 .. n + 1 |-> LineAt(b, w, i)]
    BY <1>3, <1>5, Zenon
  <1>7. PICK f : f = CHOOSE g : g = [i \in 1 .. n + 1 |-> LineAt(b, g, i)]
    OBVIOUS
  <1>8. f = [i \in 1 .. n + 1 |-> LineAt(b, f, i)]
    BY <1>6, <1>7, Zenon
  <1>9. \A i \in 1 .. n + 1 : f[i] = LineAt(b, f, i)
    BY <1>8, Zenon
  <1> DEFINE K == {k \in Nat : \A i \in 1 .. n + 1 : n - k < i => f[i] = TextLines(From(b, i))}
  <1>10. 0 \in K
    <2>1. ASSUME NEW i \in 1 .. n + 1, n - 0 < i PROVE f[i] = TextLines(From(b, i))
      <3>1. \A j \in i + 1 .. n + 1 : f[j] = TextLines(From(b, j))
        BY <1>1, <2>1
      <3>2. TextLines(From(b, i)) = LineAt(b, f, i)
        BY <1>1, <3>1, LinesStep
      <3> QED
        BY <1>9, <3>2, Zenon
    <2> QED
      BY <2>1
  <1>11. ASSUME NEW k \in 0 .. n - 1, k \in K PROVE k + 1 \in K
    <2>1. ASSUME NEW i \in 1 .. n + 1, n - (k + 1) < i PROVE f[i] = TextLines(From(b, i))
      <3>1. \A j \in i + 1 .. n + 1 : n - k < j
        BY <1>1, <2>1
      <3>2. \A j \in i + 1 .. n + 1 : f[j] = TextLines(From(b, j))
        BY <1>4, <1>11, <3>1
      <3>3. TextLines(From(b, i)) = LineAt(b, f, i)
        BY <1>1, <3>2, LinesStep
      <3> QED
        BY <1>9, <3>3, Zenon
    <2>2. k + 1 \in Nat
      OBVIOUS
    <2> QED
      BY <2>1, <2>2
  <1> HIDE DEF K
  <1>12. n \in K
    <2>1. n \in 0 .. n
      BY <1>1
    <2> QED
      BY <1>1, <1>10, <1>11, <2>1, UpInduction
  <1>13. f[1] = TextLines(From(b, 1))
    <2>1. 1 \in 1 .. n + 1 /\ n - n < 1
      BY <1>1
    <2> QED
      BY <1>12, <2>1 DEF K
  <1>14. From(b, 1) = b
    BY SubSeqFull DEF From
  <1> QED
    BY <1>1, <1>7, <1>13, <1>14, LinesIs, Zenon

-----------------------------------------------------------------------------
(***************************************************************************)
(* Datagrams.                                                              *)
(***************************************************************************)
\* The lines of several parts, one after another.
TextsOf(ds) == FlattenSeq([k \in DOMAIN ds |-> TextLines(ds[k])])

\* Lines are sequences of symbols.
LEMMA TextTyped ==
  ASSUME NEW X, NEW c \in Seq(X)
  PROVE  TextLines(c) \in Seq(Seq(X)) /\ TextLines(<<>>) = <<>>
  <1>1. TextOf(c) \in TextStates(X) /\ TextOf(<<>>) = NoText
    BY TextStep
  <1> QED
    BY <1>1 DEF TextStates, TextLines, NoText

\* One part more, its lines more.
LEMMA TextsAppend ==
  ASSUME NEW X, NEW ds \in Seq(Seq(X)), NEW g \in Seq(X)
  PROVE  /\ TextsOf(ds) \in Seq(Seq(X)) /\ TextsOf(<<>>) = <<>>
         /\ TextsOf(Append(ds, g)) = TextsOf(ds) \o TextLines(g)
  <1>1. PICK Y, n, es, f, h : /\ Y = Seq(X) /\ n = Len(ds) /\ es = Append(ds, g)
                              /\ f = [k \in DOMAIN ds |-> TextLines(ds[k])]
                              /\ h = [k \in DOMAIN es |-> TextLines(es[k])]
    OBVIOUS
  <1>2. n \in Nat /\ DOMAIN ds = 1 .. n /\ \A k \in 1 .. n : ds[k] \in Y
    BY <1>1, LenProperties
  <1>3. /\ es \in Seq(Y) /\ DOMAIN es = 1 .. n + 1 /\ es[n + 1] = g
        /\ \A k \in 1 .. n : es[k] = ds[k]
    <2>1. g \in Y /\ ds \in Seq(Y)
      BY <1>1
    <2>2. es \in Seq(Y) /\ Len(es) = n + 1
      BY <1>1, <2>1, AppendProperties
    <2> QED
      BY <1>1, <2>1, <2>2, AppendProperties, LenProperties
  <1>4. f \in Seq(Seq(Y)) /\ Len(f) = n /\ \A k \in 1 .. n : f[k] = TextLines(ds[k])
    <2>1. \A k \in 1 .. n : TextLines(ds[k]) \in Seq(Y)
      BY <1>1, <1>2, TextTyped
    <2>2. f \in [1 .. n -> Seq(Y)]
      BY <1>1, <1>2, <2>1
    <2> QED
      BY <1>1, <1>2, <2>2
  <1>5. PICK u : u = TextLines(g) /\ u \in Seq(Y)
    BY <1>1, TextTyped
  <1>6. h = Append(f, u)
    <2>1. \A k \in 1 .. n + 1 : TextLines(es[k]) \in Seq(Y)
      <3>1. ASSUME NEW k \in 1 .. n + 1 PROVE es[k] \in Seq(X)
        BY <1>1, <1>3, <3>1
      <3> QED
        BY <1>1, <3>1, TextTyped
    <2>2. h \in Seq(Seq(Y)) /\ Len(h) = n + 1
      <3>1. h \in [1 .. n + 1 -> Seq(Y)]
        BY <1>1, <1>3, <2>1
      <3>2. n + 1 \in Nat
        BY <1>2
      <3> QED
        BY <3>1, <3>2
    <2>3. /\ Append(f, u) \in Seq(Seq(Y)) /\ Len(Append(f, u)) = n + 1
          /\ \A k \in 1 .. n : Append(f, u)[k] = f[k]
          /\ Append(f, u)[n + 1] = u
      <3>1. PICK Z : Z = Seq(Y)
        OBVIOUS
      <3>2. f \in Seq(Z) /\ u \in Z
        BY <1>4, <1>5, <3>1
      <3> QED
        BY <1>4, <3>1, <3>2, AppendProperties
    <2>4. ASSUME NEW k \in 1 .. n + 1 PROVE h[k] = Append(f, u)[k]
      <3>1. h[k] = TextLines(es[k])
        BY <1>1, <1>3
      <3>2. CASE k = n + 1
        BY <1>3, <1>5, <2>3, <3>1, <3>2, Zenon
      <3>3. CASE k # n + 1
        <4>1. k \in 1 .. n
          BY <1>2, <3>3
        <4> QED
          BY <1>3, <1>4, <2>3, <3>1, <4>1, Zenon
      <3> QED
        BY <3>2, <3>3
    <2>5. PICK Z, v : Z = Seq(Y) /\ v = Append(f, u)
      OBVIOUS
    <2>6. h \in Seq(Z) /\ v \in Seq(Z) /\ Len(h) = Len(v) /\ \A k \in 1 .. Len(h) : h[k] = v[k]
      BY <2>2, <2>3, <2>4, <2>5
    <2>7. h = v
      BY <2>6, SeqEqual
    <2> QED
      BY <2>5, <2>7
  <1>7. FlattenSeq(f) \in Seq(Y) /\ FlattenSeq(Append(f, u)) = FlattenSeq(f) \o u
        /\ FlattenSeq(<<>>) = <<>>
    BY <1>4, <1>5, FlattenAppend
  <1>8. TextsOf(<<>>) = <<>>
    <2>1. PICK e : e = <<>>
      OBVIOUS
    <2>2. [k \in DOMAIN e |-> TextLines(e[k])] = <<>>
      BY <2>1
    <2> QED
      BY <1>7, <2>1, <2>2 DEF TextsOf
  <1>9. TextsOf(ds) = FlattenSeq(f) /\ TextsOf(es) = FlattenSeq(h)
    BY <1>1, Zenon DEF TextsOf
  <1> QED
    BY <1>1, <1>5, <1>6, <1>7, <1>8, <1>9, Zenon

\* What is parsed are the lines of the buffers.
LEMMA ParsedIs ==
  ASSUME NEW X, "\n" \in X, NEW st \in SocketStates(X)
  PROVE  Parsed(st) = TextsOf(st.out)
  <1>1. PICK o : o = st.out /\ o \in Seq(Seq(X))
    BY DEF SocketStates
  <1>2. \A i \in DOMAIN o : LinesOf(o[i]) = TextLines(o[i])
    <2>1. \A i \in DOMAIN o : o[i] \in Seq(X)
      BY <1>1
    <2> QED
      BY <2>1, LinesExact
  <1>3. [i \in DOMAIN o |-> LinesOf(o[i])] = [i \in DOMAIN o |-> TextLines(o[i])]
    BY <1>2
  <1> QED
    BY <1>1, <1>3, Zenon DEF Parsed, TextsOf

\* Frame sends off the closed part of a buffer, with all of its lines.
Sends(X, b, out, c, q, o) ==
  /\ c \in Seq(X) /\ q \in Seq(X) /\ b = c \o q /\ NoEnd(q) /\ (c = <<>> \/ c[Len(c)] = "\n")
  /\ Frame([buf |-> b, out |-> out]) = [buf |-> q, out |-> o]
  /\ TextsOf(o) = TextsOf(out) \o TextLines(c) /\ TextLines(b) = TextLines(c)

\* So it does for every buffer.
LEMMA FrameSends ==
  ASSUME NEW X, NEW b \in Seq(X), NEW out \in Seq(Seq(X))
  PROVE  \E c, q, o : Sends(X, b, out, c, q, o)
  <1>1. PICK f, n : f = Frame([buf |-> b, out |-> out]) /\ n = Len(b) /\ n \in Nat
    BY LenProperties
  <1>2. PICK k : Framed(b, out, k, f)
    BY <1>1, FrameIs
  <1>3. CASE k = 0
    <2>1. f = [buf |-> b, out |-> out] /\ NoEnd(b)
      BY <1>2, <1>3 DEF Framed, LastIs, NoEnd
    <2>2. PICK a : a = TextOf(b) /\ a = [line |-> b, out |-> <<>>]
      BY <2>1, TextOpen
    <2>3. TextLines(b) = <<>>
      BY <2>2 DEF TextLines
    <2>4. TextLines(<<>>) = <<>> /\ TextsOf(out) \in Seq(Seq(X))
      BY TextTyped, TextsAppend
    <2>5. TextsOf(out) \o <<>> = TextsOf(out)
      BY <2>4, ConcatEmptySeq
    <2>6. <<>> \in Seq(X) /\ b = <<>> \o b
      BY ConcatEmptySeq
    <2>7. Sends(X, b, out, <<>>, b, out)
      BY <1>1, <2>1, <2>3, <2>4, <2>5, <2>6, Zenon DEF Sends
    <2> QED
      BY <2>7
  <1>4. CASE k # 0
    <2>1. PICK c, q, o : /\ c = SubSeq(b, 1, k) /\ q = SubSeq(b, k + 1, n)
                         /\ o = Append(out, c)
      OBVIOUS
    <2>2. f = [buf |-> q, out |-> o]
      BY <1>1, <1>2, <1>4, <2>1 DEF Framed
    <2>3. k \in 1 .. n /\ b[k] = "\n" /\ \A i \in k + 1 .. n : b[i] # "\n"
      BY <1>1, <1>2, <1>4 DEF Framed, LastIs
    <2>4. c \in Seq(X) /\ Len(c) = k /\ c[k] = "\n"
      <3>1. 1 \in Nat \ {0} /\ k \in 0 .. Len(b) /\ k \in Nat \ {0}
        BY <1>1, <2>3
      <3>2. /\ c \in Seq(X) /\ Len(c) = IF 1 <= k THEN k - 1 + 1 ELSE 0
            /\ \A i \in 1 .. k - 1 + 1 : c[i] = b[1 + i - 1]
        BY <2>1, <3>1, PartFacts
      <3>3. Len(c) = k /\ k \in 1 .. k - 1 + 1 /\ 1 + k - 1 = k
        BY <3>1, <3>2
      <3>4. c[k] = b[1 + k - 1]
        BY <3>2, <3>3
      <3> QED
        BY <2>3, <3>2, <3>3, <3>4
    <2>5. q \in Seq(X) /\ NoEnd(q)
      <3>1. PICK a \in Nat \ {0} : a = k + 1 /\ n \in 0 .. Len(b)
        BY <1>1, <2>3
      <3>2. /\ q \in Seq(X) /\ Len(q) = IF a <= n THEN n - a + 1 ELSE 0
            /\ \A i \in 1 .. n - a + 1 : q[i] = b[a + i - 1]
        BY <2>1, <3>1, PartFacts, SMTT(30)
      <3>3. ASSUME NEW i \in 1 .. Len(q) PROVE q[i] # "\n"
        <4>1. i \in 1 .. n - a + 1 /\ a + i - 1 \in k + 1 .. n
          BY <1>1, <2>3, <3>1, <3>2
        <4> QED
          BY <2>3, <3>2, <4>1
      <3> QED
        BY <3>2, <3>3 DEF NoEnd
    <2>6. b = c \o q
      <3>1. 1 \in 1 .. Len(b) + 1 /\ k \in 1 - 1 .. Len(b) /\ n \in k .. Len(b)
        BY <1>1, <2>3
      <3>2. SubSeq(b, 1, k) \o SubSeq(b, k + 1, n) = SubSeq(b, 1, n)
        BY <3>1, ConcatAdjacentSubSeq
      <3>3. SubSeq(b, 1, n) = b
        BY <1>1, SubSeqFull
      <3> QED
        BY <2>1, <3>2, <3>3, Zenon
    <2>7. TextOf(c).line = <<>>
      BY <2>4, TextClosed
    <2>8. TextOf(b) = [line |-> TextOf(q).line, out |-> TextOf(c).out \o TextOf(q).out]
      BY <2>4, <2>5, <2>6, <2>7, TextSplit
    <2>9. PICK a : a = TextOf(q) /\ a = [line |-> q, out |-> <<>>]
      BY <2>5, TextOpen
    <2>10. TextLines(b) = TextLines(c)
      <3>1. a.out = <<>>
        BY <2>9
      <3>2. PICK l, w : l = TextOf(q).line /\ w = TextOf(c).out \o <<>>
        OBVIOUS
      <3>3. TextOf(b) = [line |-> l, out |-> w]
        BY <2>8, <2>9, <3>1, <3>2, Zenon
      <3>4. [line |-> l, out |-> w].out = w
        OBVIOUS
      <3>5. TextOf(c).out \in Seq(Seq(X))
        BY <2>4, TextTyped DEF TextLines
      <3>6. w = TextOf(c).out
        BY <3>2, <3>5, ConcatEmptySeq
      <3> QED
        BY <3>3, <3>4, <3>6, Zenon DEF TextLines
    <2>11. TextsOf(o) = TextsOf(out) \o TextLines(c)
      BY <2>1, <2>4, TextsAppend
    <2>12. c[Len(c)] = "\n"
      BY <2>4
    <2>13. Sends(X, b, out, c, q, o)
      BY <1>1, <2>2, <2>4, <2>5, <2>6, <2>10, <2>11, <2>12, Zenon DEF Sends
    <2> QED
      BY <2>13
  <1> QED
    BY <1>3, <1>4

\* Between two bytes: the datagrams before this one are parsed, it is in the buffer.
UdpInv(X, s, ds, g) ==
  /\ ds \in Seq(Seq(X)) /\ g \in Seq(X) /\ Datagrams(s) = Append(ds, g)
  /\ UdpState(s).buf = g /\ UdpState(s).out \in Seq(Seq(X))
       /\ TextsOf(UdpState(s).out) = TextsOf(ds)

\* The end of a datagram: its lines are sent off, the rest is forgotten.
LEMMA UdpEnd ==
  ASSUME NEW X, NEW s \in Seq(X), "|" \in X, NEW ds, NEW g, UdpInv(X, s, ds, g)
  PROVE  /\ UdpState(Append(s, "|")).buf = <<>>
         /\ UdpState(Append(s, "|")).out \in Seq(Seq(X))
         /\ TextsOf(UdpState(Append(s, "|")).out) = TextsOf(Append(ds, g))
  <1>1. PICK a, out : a = UdpState(s) /\ out = a.out
    OBVIOUS
  <1>2. a \in SocketStates(X) /\ UdpState(Append(s, "|")) = UdpByte(a, "|")
    BY <1>1, UdpStep
  <1>3. /\ g \in Seq(X) /\ out \in Seq(Seq(X)) /\ a = [buf |-> g, out |-> out]
        /\ ds \in Seq(Seq(X)) /\ TextsOf(out) = TextsOf(ds)
    BY <1>1, <1>2 DEF UdpInv, SocketStates
  <1>4. PICK c, q, o : Sends(X, g, out, c, q, o)
    BY <1>3, FrameSends
  <1>5. Frame(a) = [buf |-> q, out |-> o]
    BY <1>3, <1>4 DEF Sends
  <1>6. UdpByte(a, "|") = [buf |-> <<>>, out |-> o]
    BY <1>5 DEF UdpByte, FrameDatagram
  <1>7. o \in Seq(Seq(X))
    <2>1. Frame(a) \in SocketStates(X)
      BY <1>3, FrameIs
    <2> QED
      BY <1>5, <2>1 DEF SocketStates
  <1>8. TextsOf(o) = TextsOf(Append(ds, g))
    <2>1. TextsOf(o) = TextsOf(out) \o TextLines(g)
      BY <1>4, Zenon DEF Sends
    <2>2. TextsOf(Append(ds, g)) = TextsOf(ds) \o TextLines(g)
      BY <1>3, TextsAppend
    <2> QED
      BY <1>3, <2>1, <2>2, Zenon
  <1> QED
    BY <1>2, <1>6, <1>7, <1>8

\* One byte more.
LEMMA UdpKeep ==
  ASSUME NEW X, NEW s \in Seq(X), "|" \in X, NEW x \in X, NEW ds, NEW g, UdpInv(X, s, ds, g)
  PROVE  \E es, h : UdpInv(X, Append(s, x), es, h)
  <1>1. PICK a, out, D : a = UdpState(s) /\ out = a.out /\ D = Datagrams(s)
    OBVIOUS
  <1>2. /\ a \in SocketStates(X) /\ UdpState(Append(s, x)) = UdpByte(a, x)
        /\ Datagrams(Append(s, x)) = Datagram(D, x)
    BY <1>1, UdpStep, GramStep
  <1>3. /\ g \in Seq(X) /\ out \in Seq(Seq(X)) /\ a = [buf |-> g, out |-> out]
        /\ ds \in Seq(Seq(X)) /\ TextsOf(out) = TextsOf(ds) /\ D = Append(ds, g)
    BY <1>1, <1>2 DEF UdpInv, SocketStates
  <1>4. PICK Y, n : Y = Seq(X) /\ n = Len(ds)
    OBVIOUS
  <1>5. D \in Seq(Y) /\ Len(D) = n + 1 /\ D[n + 1] = g /\ n \in Nat
          /\ \A k \in 1 .. n : D[k] = ds[k]
    BY <1>3, <1>4, AppendProperties, LenProperties
  <1>6. CASE x = "|"
    <2>1. Datagrams(Append(s, x)) = Append(D, <<>>)
      BY <1>2, <1>6 DEF Datagram
    <2>2. /\ UdpState(Append(s, x)).buf = <<>> /\ UdpState(Append(s, x)).out \in Seq(Seq(X))
          /\ TextsOf(UdpState(Append(s, x)).out) = TextsOf(D)
      BY <1>3, <1>6, UdpEnd
    <2>3. UdpInv(X, Append(s, x), D, <<>>)
      BY <1>4, <1>5, <2>1, <2>2 DEF UdpInv
    <2> QED
      BY <2>3
  <1>7. CASE x # "|"
    <2>1. PICK h : h = Append(g, x) /\ h \in Seq(X)
      BY <1>3, AppendProperties
    <2>2. UdpState(Append(s, x)) = [buf |-> h, out |-> out]
      <3>1. UdpByte(a, x) = [a EXCEPT !.buf = Append(@, x)]
        BY <1>7, Zenon DEF UdpByte
      <3> QED
        BY <1>2, <1>3, <2>1, <3>1
    <2>3. Datagrams(Append(s, x)) = Append(ds, h)
      <3>1. PICK E : E = [D EXCEPT ![n + 1] = h]
        OBVIOUS
      <3>2. Datagram(D, x) = E
        BY <1>5, <1>7, <2>1, <3>1 DEF Datagram
      <3>3. n + 1 \in 1 .. Len(D) /\ h \in Y /\ ds \in Seq(Y)
        BY <1>3, <1>4, <1>5, <2>1
      <3>4. E \in Seq(Y) /\ Len(E) = n + 1
              /\ \A k \in 1 .. n + 1 : E[k] = IF k = n + 1 THEN h ELSE D[k]
        BY <1>5, <3>1, <3>3, ExceptSeq
      <3>5. /\ Append(ds, h) \in Seq(Y) /\ Len(Append(ds, h)) = n + 1
            /\ \A k \in 1 .. n : Append(ds, h)[k] = ds[k]
            /\ Append(ds, h)[n + 1] = h
        BY <1>4, <3>3, AppendProperties
      <3>6. ASSUME NEW k \in 1 .. n + 1 PROVE E[k] = Append(ds, h)[k]
        <4>1. k = n + 1 \/ k \in 1 .. n
          BY <1>5
        <4>2. k \in 1 .. n => k # n + 1
          BY <1>5
        <4> QED
          BY <1>5, <3>4, <3>5, <4>1, <4>2, Zenon
      <3>7. PICK F : F = Append(ds, h)
        OBVIOUS
      <3>8. E = F
        BY <3>4, <3>5, <3>6, <3>7, SeqEqual
      <3> QED
        BY <1>2, <3>2, <3>7, <3>8, Zenon
    <2>4. UdpInv(X, Append(s, x), ds, h)
      BY <1>3, <2>1, <2>2, <2>3 DEF UdpInv
    <2> QED
      BY <2>4
  <1> QED
    BY <1>6, <1>7

\* Of every datagram the parsers get what its last end of line completes.
LEMMA UdpExact ==
  ASSUME NEW X, NEW s \in Seq(X), "\n" \in X, "|" \in X
  PROVE  UdpAgrees(s)
  <1> DEFINE K == {t \in Seq(X) : \E ds, g : UdpInv(X, t, ds, g)}
  <1>1. <<>> \in K
    <2>1. UdpState(<<>>) = NothingRead /\ Datagrams(<<>>) = << <<>> >> /\ <<>> \in Seq(X)
      BY UdpStep, GramStep
    <2>2. <<>> \in Seq(Seq(X)) /\ Append(<<>>, <<>>) = << <<>> >>
      OBVIOUS
    <2>3. NothingRead.buf = <<>> /\ NothingRead.out = <<>>
      BY DEF NothingRead
    <2>4. UdpInv(X, <<>>, <<>>, <<>>)
      BY <2>1, <2>2, <2>3, Zenon DEF UdpInv
    <2> QED
      BY <2>1, <2>4
  <1>2. ASSUME NEW t \in Seq(X), NEW x \in X, t \in K PROVE Append(t, x) \in K
    <2>1. PICK ds, g : UdpInv(X, t, ds, g)
      BY <1>2
    <2>2. \E es, h : UdpInv(X, Append(t, x), es, h)
      BY <2>1, UdpKeep
    <2>3. Append(t, x) \in Seq(X)
      OBVIOUS
    <2> QED
      BY <2>2, <2>3
  <1> HIDE DEF K
  <1>3. s \in K
    BY <1>1, <1>2, SeqAppendInduction
  <1>4. PICK ds, g : UdpInv(X, s, ds, g)
    BY <1>3 DEF K
  <1>5. PICK st : st = UdpState(Append(s, "|"))
    OBVIOUS
  <1>6. st \in SocketStates(X)
    <2>1. Append(s, "|") \in Seq(X)
      OBVIOUS
    <2> QED
      BY <1>5, <2>1, UdpStep
  <1>7. Parsed(st) = TextsOf(st.out)
    BY <1>6, ParsedIs
  <1>8. TextsOf(st.out) = TextsOf(Append(ds, g))
    BY <1>4, <1>5, UdpEnd
  <1>9. Datagrams(s) = Append(ds, g)
    BY <1>4 DEF UdpInv
  <1>10. ReceiveWorker(s) = st
    BY <1>5, Zenon DEF ReceiveWorker, UdpState
  <1> QED
    BY <1>7, <1>8, <1>9, <1>10, Zenon DEF UdpAgrees, TextsOf

-----------------------------------------------------------------------------
(***************************************************************************)
(* A connection.                                                           *)
(***************************************************************************)
\* The places in t that are followed by a full buffer without an end of line.
Stuck(t) == {i \in 0 .. Len(t) - BufferSize : \A j \in 1 .. BufferSize : t[i + j] # "\n"}

\* A text, a buffer behind it, and what is still to be read.
LEMMA ThreeParts ==
  ASSUME NEW X, NEW d \in Seq(X), NEW b \in Seq(X), NEW r \in Seq(X)
  PROVE  /\ (d \o b) \o r \in Seq(X) /\ Len(d) \in Nat /\ Len(b) \in Nat /\ Len(r) \in Nat
         /\ Len((d \o b) \o r) = Len(d) + Len(b) + Len(r)
         /\ \A k \in 1 .. Len(d) : ((d \o b) \o r)[k] = d[k]
         /\ \A j \in 1 .. Len(b) : ((d \o b) \o r)[Len(d) + j] = b[j]
  <1>1. PICK u, l, m, n : u = d \o b /\ l = Len(d) /\ m = Len(b) /\ n = Len(r)
    OBVIOUS
  <1>2. l \in Nat /\ m \in Nat /\ n \in Nat
    BY <1>1, LenProperties
  <1>3. u \in Seq(X) /\ Len(u) = l + m
          /\ \A i \in 1 .. l + m : u[i] = IF i <= l THEN d[i] ELSE b[i - l]
    BY <1>1, ConcatProperties
  <1>4. /\ u \o r \in Seq(X) /\ Len(u \o r) = (l + m) + n
        /\ \A i \in 1 .. (l + m) + n : (u \o r)[i] = IF i <= l + m THEN u[i] ELSE r[i - (l + m)]
    BY <1>1, <1>3, ConcatProperties
  <1>5. ASSUME NEW k \in 1 .. l PROVE (u \o r)[k] = d[k]
    <2>1. k \in 1 .. (l + m) + n /\ k \in 1 .. l + m /\ k <= l + m /\ k <= l
      BY <1>2
    <2> QED
      BY <1>3, <1>4, <2>1
  <1>6. ASSUME NEW j \in 1 .. m PROVE (u \o r)[l + j] = b[j]
    <2>1. PICK k : k = l + j
      OBVIOUS
    <2>2. k \in 1 .. (l + m) + n /\ k \in 1 .. l + m /\ k <= l + m /\ ~(k <= l) /\ k - l = j
      BY <1>2, <2>1
    <2> QED
      BY <1>3, <1>4, <2>1, <2>2
  <1> QED
    BY <1>1, <1>2, <1>4, <1>5, <1>6

\* With one more symbol only the last place can be new.
LEMMA StuckAppend ==
  ASSUME NEW X, NEW t \in Seq(X), NEW x \in X, BufferSize \in Nat \ {0},
         NEW i \in Stuck(Append(t, x))
  PROVE  i \in Nat /\ (i \in Stuck(t) \/ i = (Len(t) + 1) - BufferSize)
  <1>1. PICK u, n, b : u = Append(t, x) /\ n = Len(t) /\ b = BufferSize
    OBVIOUS
  <1>2. n \in Nat /\ Len(u) = n + 1 /\ \A k \in 1 .. n : u[k] = t[k]
    BY <1>1, AppendProperties, LenProperties
  <1>3. i \in 0 .. (n + 1) - b /\ \A j \in 1 .. b : u[i + j] # "\n"
    BY <1>1, <1>2 DEF Stuck
  <1>4. b \in Nat \ {0} /\ i \in Nat
    BY <1>1, <1>3
  <1>5. ASSUME i # (n + 1) - b PROVE i \in Stuck(t)
    <2>1. i \in 0 .. n - b /\ \A j \in 1 .. b : i + j \in 1 .. n
      BY <1>2, <1>3, <1>4, <1>5
    <2>2. \A j \in 1 .. b : t[i + j] # "\n"
      BY <1>2, <1>3, <2>1
    <2> QED
      BY <1>1, <2>1, <2>2 DEF Stuck
  <1> QED
    BY <1>1, <1>4, <1>5

\* The lines of d are sent off, the buffer is behind d, and only behind a buffer that is
\* full and without an end of line is there more that was not read.
TcpInv(X, t, st, d) ==
  /\ st \in SocketStates(X) /\ d \in Seq(X) /\ (d = <<>> \/ d[Len(d)] = "\n")
  /\ TextsOf(st.out) = TextLines(d) /\ Len(st.buf) <= BufferSize
  /\ \E r \in Seq(X) : /\ t = (d \o st.buf) \o r
                       /\ r # <<>> => Len(st.buf) = BufferSize /\ NoEnd(st.buf)
  /\ \A i \in Stuck(t) : Len(d) <= i

\* A frame moves whole lines from the buffer to what was sent off.
LEMMA TcpFrame ==
  ASSUME NEW X, BufferSize \in Nat \ {0}, NEW t, NEW st, NEW d, TcpInv(X, t, st, d)
  PROVE  NoEnd(Frame(st).buf) /\ \E e : TcpInv(X, t, Frame(st), e)
  <1>1. PICK b, out : b = st.buf /\ out = st.out
    OBVIOUS
  <1>2. /\ b \in Seq(X) /\ out \in Seq(Seq(X)) /\ st = [buf |-> b, out |-> out] /\ d \in Seq(X)
        /\ TextsOf(out) = TextLines(d) /\ Len(b) <= BufferSize
    BY <1>1 DEF TcpInv, SocketStates
  <1>3. PICK r \in Seq(X) : t = (d \o b) \o r /\ (r # <<>> => Len(b) = BufferSize /\ NoEnd(b))
    BY <1>1 DEF TcpInv
  <1>4. PICK c, q, o : Sends(X, b, out, c, q, o)
    BY <1>2, FrameSends
  <1>5. PICK e, f : e = d \o c /\ f = Frame(st)
    OBVIOUS
  <1>6. f = [buf |-> q, out |-> o] /\ f.buf = q /\ f.out = o
    <2>1. Frame([buf |-> b, out |-> out]) = [buf |-> q, out |-> o]
      BY <1>4, Zenon DEF Sends
    <2>2. f = [buf |-> q, out |-> o]
      BY <1>2, <1>5, <2>1, Zenon
    <2> QED
      BY <2>2
  <1>7. /\ c \in Seq(X) /\ q \in Seq(X) /\ b = c \o q /\ NoEnd(q) /\ (c = <<>> \/ c[Len(c)] = "\n")
        /\ TextsOf(o) = TextLines(d) \o TextLines(c)
    BY <1>2, <1>4 DEF Sends
  <1>8. f \in SocketStates(X)
    BY <1>2, <1>5, FrameIs
  <1>9. /\ Len(c) \in Nat /\ Len(q) \in Nat /\ Len(d) \in Nat /\ Len(b) = Len(c) + Len(q)
        /\ e \in Seq(X) /\ Len(e) = Len(d) + Len(c)
        /\ \A i \in 1 .. Len(c) : b[i] = c[i] /\ e[Len(d) + i] = c[i]
    <2>1. /\ Len(c) \in Nat /\ Len(q) \in Nat /\ Len(d) \in Nat
      BY <1>2, <1>7, LenProperties
    <2>2. /\ Len(b) = Len(c) + Len(q) /\ e \in Seq(X) /\ Len(e) = Len(d) + Len(c)
          /\ \A i \in 1 .. Len(c) + Len(q) : b[i] = IF i <= Len(c) THEN c[i] ELSE q[i - Len(c)]
          /\ \A i \in 1 .. Len(d) + Len(c) : e[i] = IF i <= Len(d) THEN d[i] ELSE c[i - Len(d)]
      BY <1>2, <1>5, <1>7, ConcatProperties
    <2>3. ASSUME NEW i \in 1 .. Len(c) PROVE b[i] = c[i] /\ e[Len(d) + i] = c[i]
      <3>1. /\ i \in 1 .. Len(c) + Len(q) /\ i <= Len(c) /\ Len(d) + i \in 1 .. Len(d) + Len(c)
            /\ ~(Len(d) + i <= Len(d)) /\ (Len(d) + i) - Len(d) = i
        BY <2>1
      <3> QED
        BY <2>2, <3>1
    <2> QED
      BY <2>1, <2>2, <2>3
  <1>10. CASE c = <<>>
    <2>1. e = d /\ q = b
      BY <1>2, <1>5, <1>7, <1>10, ConcatEmptySeq
    <2>2. TextLines(c) = <<>> /\ TextLines(d) \in Seq(Seq(X))
      BY <1>2, <1>10, TextTyped
    <2>3. TextsOf(o) = TextLines(d)
      BY <1>7, <2>2, ConcatEmptySeq
    <2>4. TcpInv(X, t, f, d)
      BY <1>1, <1>6, <1>8, <2>1, <2>3, Zenon DEF TcpInv
    <2> QED
      BY <1>5, <1>6, <1>7, <2>4, Zenon
  <1>11. CASE c # <<>>
    <2>1. Len(c) \in 1 .. Len(c) /\ c[Len(c)] = "\n" /\ Len(c) \in Nat \ {0}
      BY <1>7, <1>9, <1>11, EmptySeq
    <2>2. b[Len(c)] = "\n" /\ e[Len(e)] = "\n" /\ Len(c) \in 1 .. Len(b)
      BY <1>9, <2>1
    <2>3. r = <<>> /\ t = d \o b /\ d \o b \in Seq(X)
      <3>1. ~NoEnd(b)
        BY <2>2 DEF NoEnd
      <3>2. r = <<>> /\ d \o b \in Seq(X)
        BY <1>2, <1>3, <3>1, ConcatProperties
      <3>3. (d \o b) \o <<>> = d \o b
        BY <3>2, ConcatEmptySeq
      <3> QED
        BY <1>3, <3>2, <3>3, Zenon
    <2>4. TextsOf(o) = TextLines(e)
      <3>1. TextOf(d).line = <<>>
        BY <1>2, TextClosed DEF TcpInv
      <3>2. TextOf(d \o c) = [line |-> TextOf(c).line, out |-> TextOf(d).out \o TextOf(c).out]
        BY <1>2, <1>7, <3>1, TextSplit
      <3>3. PICK l, w : l = TextOf(c).line /\ w = TextOf(d).out \o TextOf(c).out
        OBVIOUS
      <3>4. [line |-> l, out |-> w].out = w
        OBVIOUS
      <3> QED
        BY <1>5, <1>7, <3>2, <3>3, <3>4, Zenon DEF TextLines
    <2>5. t = (e \o q) \o <<>>
      <3>1. (d \o c) \o q = d \o (c \o q)
        <4>1. d \in Seq(X) /\ c \in Seq(X) /\ q \in Seq(X)
          BY <1>2, <1>7
        <4> QED
          BY <4>1, ConcatAssociative
      <3>2. t = e \o q
        BY <1>5, <1>7, <2>3, <3>1, Zenon
      <3>3. e \o q \in Seq(X)
        BY <1>7, <1>9, ConcatProperties
      <3> QED
        BY <3>2, <3>3, ConcatEmptySeq
    <2>6. ASSUME NEW i \in Stuck(t) PROVE FALSE
      <3>1. Len(t) = Len(d) + Len(b) /\ \A j \in 1 .. Len(b) : t[Len(d) + j] = b[j]
        <4>1. <<>> \in Seq(X) /\ Len(<<>>) = 0
          OBVIOUS
        <4>2. /\ Len((d \o b) \o r) = Len(d) + Len(b) + Len(r)
              /\ \A j \in 1 .. Len(b) : ((d \o b) \o r)[Len(d) + j] = b[j]
          BY <1>2, ThreeParts
        <4> QED
          BY <1>3, <1>9, <2>3, <4>1, <4>2
      <3>2. Len(d) <= i /\ i \in 0 .. Len(t) - BufferSize
              /\ \A j \in 1 .. BufferSize : t[i + j] # "\n"
        BY DEF TcpInv, Stuck
      <3>3. i = Len(d) /\ Len(b) = BufferSize
        BY <1>2, <1>9, <3>1, <3>2
      <3>4. t[Len(d) + Len(c)] = "\n"
        BY <2>2, <3>1
      <3>5. Len(c) \in 1 .. BufferSize
        BY <2>2, <3>3
      <3> QED
        BY <3>2, <3>3, <3>4, <3>5
    <2>7. Len(q) <= BufferSize
      BY <1>2, <1>9
    <2>8. <<>> \in Seq(X)
      OBVIOUS
    <2>9. TcpInv(X, t, f, e)
      <3>1. \E z \in Seq(X) : t = (e \o f.buf) \o z /\ (z # <<>> => Len(f.buf) = BufferSize
              /\ NoEnd(f.buf))
        BY <1>6, <2>5, <2>8, Zenon
      <3> QED
        BY <1>6, <1>8, <1>9, <2>2, <2>4, <2>6, <2>7, <3>1, Zenon DEF TcpInv
    <2> QED
      BY <1>5, <1>6, <1>7, <2>9, Zenon
  <1> QED
    BY <1>10, <1>11

\* A byte that finds room.
LEMMA TcpTake ==
  ASSUME NEW X, BufferSize \in Nat \ {0}, NEW t, NEW st, NEW d, TcpInv(X, t, st, d), NEW x \in X,
         Len(st.buf) # BufferSize
  PROVE  TcpInv(X, Append(t, x), [st EXCEPT !.buf = Append(@, x)], d)
  <1>1. PICK b, out : b = st.buf /\ out = st.out
    OBVIOUS
  <1>2. /\ b \in Seq(X) /\ out \in Seq(Seq(X)) /\ st = [buf |-> b, out |-> out] /\ d \in Seq(X)
        /\ TextsOf(out) = TextLines(d) /\ Len(b) <= BufferSize
    BY <1>1 DEF TcpInv, SocketStates
  <1>3. t = (d \o b) \o <<>>
    BY <1>1 DEF TcpInv
  <1>4. PICK u, f, v : u = Append(b, x) /\ f = [st EXCEPT !.buf = Append(@, x)] /\ v = Append(t, x)
    OBVIOUS
  <1>5. u \in Seq(X) /\ Len(u) = Len(b) + 1 /\ Len(b) \in Nat /\ Len(d) \in Nat
    BY <1>2, <1>4, AppendProperties, LenProperties
  <1>6. f = [buf |-> u, out |-> out] /\ f.buf = u /\ f.out = out
    BY <1>2, <1>4
  <1>7. f \in SocketStates(X)
    BY <1>2, <1>5, <1>6 DEF SocketStates
  <1>8. t = d \o b /\ t \in Seq(X) /\ Len(t) = Len(d) + Len(b)
        /\ \A k \in 1 .. Len(d) : t[k] = d[k]
    <2>1. d \o b \in Seq(X)
      BY <1>2, ConcatProperties
    <2>2. (d \o b) \o <<>> = d \o b
      BY <2>1, ConcatEmptySeq
    <2>3. <<>> \in Seq(X) /\ Len(<<>>) = 0
      OBVIOUS
    <2>4. /\ Len((d \o b) \o <<>>) = Len(d) + Len(b) + Len(<<>>)
          /\ \A k \in 1 .. Len(d) : ((d \o b) \o <<>>)[k] = d[k]
      BY <1>2, <2>3, ThreeParts
    <2>5. Len(t) = Len(d) + Len(b)
      BY <1>3, <1>5, <2>3, <2>4
    <2> QED
      BY <1>3, <2>1, <2>2, <2>4, <2>5, Zenon
  <1>9. v = (d \o u) \o <<>>
    <2>1. d \o u = Append(d \o b, x)
      BY <1>2, <1>4, ConcatAppend
    <2>2. v = d \o u
      BY <1>4, <1>8, <2>1, Zenon
    <2>3. d \o u \in Seq(X)
      BY <1>2, <1>5, ConcatProperties
    <2> QED
      BY <2>2, <2>3, ConcatEmptySeq
  <1>10. ASSUME NEW i \in Stuck(v) PROVE Len(d) <= i
    <2>1. i \in Nat /\ (i \in Stuck(t) \/ i = (Len(t) + 1) - BufferSize)
      BY <1>4, <1>8, StuckAppend, Zenon
    <2>2. CASE i \in Stuck(t)
      BY <2>2 DEF TcpInv
    <2>3. CASE i = (Len(t) + 1) - BufferSize
      <3>1. SUFFICES ASSUME ~(Len(d) <= i) PROVE FALSE
        OBVIOUS
      <3>2. PICK j : j = Len(d) - i
        OBVIOUS
      <3>3. j \in 1 .. BufferSize /\ i + j = Len(d) /\ Len(d) \in 1 .. Len(d)
              /\ Len(d) \in 1 .. Len(t)
        BY <1>2, <1>5, <1>8, <2>1, <2>3, <3>1, <3>2
      <3>4. d[Len(d)] = "\n"
        BY <1>2, <3>3, EmptySeq DEF TcpInv
      <3>5. v[Len(d)] = "\n"
        BY <1>4, <1>8, <3>3, <3>4, AppendProperties
      <3>6. v[i + j] # "\n"
        BY <3>3 DEF Stuck
      <3> QED
        BY <3>3, <3>5, <3>6
    <2> QED
      BY <2>1, <2>2, <2>3
  <1>11. Len(u) <= BufferSize
    BY <1>1, <1>2, <1>5
  <1>12. \E z \in Seq(X) : v = (d \o f.buf) \o z /\ (z # <<>> => Len(f.buf) = BufferSize
           /\ NoEnd(f.buf))
    <2>1. <<>> \in Seq(X)
      OBVIOUS
    <2> QED
      BY <1>6, <1>9, <2>1, Zenon
  <1>13. TcpInv(X, v, f, d)
    <2>1. d = <<>> \/ d[Len(d)] = "\n"
      BY DEF TcpInv
    <2> QED
      BY <1>2, <1>6, <1>7, <1>10, <1>11, <1>12, <2>1, Zenon DEF TcpInv
  <1> QED
    BY <1>4, <1>13, Zenon

\* A byte that finds none, and never will.
LEMMA TcpLose ==
  ASSUME NEW X, BufferSize \in Nat \ {0}, NEW t, NEW st, NEW d, TcpInv(X, t, st, d), NEW x \in X,
         Len(st.buf) = BufferSize, NoEnd(st.buf)
  PROVE  TcpInv(X, Append(t, x), st, d)
  <1>1. PICK b, v : b = st.buf /\ b \in Seq(X) /\ d \in Seq(X) /\ v = Append(t, x)
    BY DEF TcpInv, SocketStates
  <1>2. PICK r \in Seq(X) : t = (d \o b) \o r
    BY <1>1 DEF TcpInv
  <1>3. /\ t \in Seq(X) /\ Len(d) \in Nat /\ Len(b) \in Nat /\ Len(r) \in Nat
        /\ Len(t) = Len(d) + Len(b) + Len(r)
    BY <1>1, <1>2, ThreeParts
  <1>4. PICK z : z = Append(r, x) /\ z \in Seq(X)
    BY AppendProperties
  <1>5. v = (d \o b) \o z
    <2>1. PICK c : c = d \o b /\ c \in Seq(X)
      BY <1>1, ConcatProperties
    <2>2. c \o Append(r, x) = Append(c \o r, x)
      BY <2>1, ConcatAppend
    <2> QED
      BY <1>1, <1>2, <1>4, <2>1, <2>2, Zenon
  <1>6. ASSUME NEW i \in Stuck(v) PROVE Len(d) <= i
    <2>1. i \in Nat /\ (i \in Stuck(t) \/ i = (Len(t) + 1) - BufferSize)
      BY <1>1, <1>3, StuckAppend, Zenon
    <2>2. CASE i \in Stuck(t)
      BY <2>2 DEF TcpInv
    <2>3. CASE i = (Len(t) + 1) - BufferSize
      BY <1>1, <1>3, <2>3
    <2> QED
      BY <2>1, <2>2, <2>3
  <1>7. \E y \in Seq(X) : v = (d \o st.buf) \o y /\ (y # <<>> => Len(st.buf) = BufferSize
          /\ NoEnd(st.buf))
    BY <1>1, <1>4, <1>5, Zenon
  <1>8. TcpInv(X, v, st, d)
    BY <1>6, <1>7, Zenon DEF TcpInv
  <1> QED
    BY <1>1, <1>8, Zenon

\* What HandleConnection does with one more byte.
LEMMA TcpKeep ==
  ASSUME NEW X, BufferSize \in Nat \ {0}, NEW t, NEW st, NEW d, TcpInv(X, t, st, d), NEW x \in X
  PROVE  \E e : TcpInv(X, Unmark(t, x), TcpByte(st, x), e)
  <1>1. PICK f, g : f = Frame(st) /\ g = TcpByte(st, x)
    OBVIOUS
  <1>2. PICK e : NoEnd(f.buf) /\ TcpInv(X, t, f, e)
    BY <1>1, TcpFrame
  <1>3. CASE x = "|"
    BY <1>1, <1>2, <1>3, Zenon DEF TcpByte, Unmark
  <1>4. CASE x # "|" /\ Len(st.buf) # BufferSize
    <2>1. g = [st EXCEPT !.buf = Append(@, x)] /\ Unmark(t, x) = Append(t, x)
      BY <1>1, <1>4, Zenon DEF TcpByte, Unmark
    <2>2. TcpInv(X, Append(t, x), [st EXCEPT !.buf = Append(@, x)], d)
      BY <1>4, TcpTake
    <2> QED
      BY <1>1, <2>1, <2>2, Zenon
  <1>5. CASE x # "|" /\ Len(st.buf) = BufferSize /\ Len(f.buf) # BufferSize
    <2>1. g = [f EXCEPT !.buf = Append(@, x)] /\ Unmark(t, x) = Append(t, x)
      BY <1>1, <1>5, Zenon DEF TcpByte, Unmark
    <2>2. TcpInv(X, Append(t, x), [f EXCEPT !.buf = Append(@, x)], e)
      BY <1>2, <1>5, TcpTake
    <2> QED
      BY <1>1, <2>1, <2>2, Zenon
  <1>6. CASE x # "|" /\ Len(st.buf) = BufferSize /\ Len(f.buf) = BufferSize
    <2>1. g = f /\ Unmark(t, x) = Append(t, x)
      BY <1>1, <1>6, Zenon DEF TcpByte, Unmark
    <2> QED
      BY <1>1, <1>2, <1>6, <2>1, TcpLose, Zenon
  <1> QED
    BY <1>3, <1>4, <1>5, <1>6

\* Up to any byte of an input.
LEMMA TcpReads ==
  ASSUME NEW X, BufferSize \in Nat \ {0}, NEW s \in Seq(X)
  PROVE  NoReads(s) \in Seq(X) /\ \E d : TcpInv(X, NoReads(s), TcpState(s), d)
  <1> DEFINE K == {t \in Seq(X) : \E d : TcpInv(X, NoReads(t), TcpState(t), d)}
  <1>1. <<>> \in K
    <2>1. TcpState(<<>>) = NothingRead /\ NoReads(<<>>) = <<>> /\ <<>> \in Seq(X)
      <3>1. <<>> \in Seq(X)
        OBVIOUS
      <3> QED
        BY <3>1, TcpStep, MarkStep
    <2>2. NothingRead.buf = <<>> /\ NothingRead.out = <<>> /\ NothingRead \in SocketStates(X)
      BY DEF NothingRead, SocketStates
    <2>3. TextsOf(<<>>) = <<>> /\ TextLines(<<>>) = <<>>
      BY <2>1, TextTyped, TextsAppend
    <2>4. Stuck(<<>>) = {} /\ Len(<<>>) <= BufferSize
      BY DEF Stuck
    <2>5. (<<>> \o <<>>) \o <<>> = <<>>
      OBVIOUS
    <2>6. TcpInv(X, <<>>, NothingRead, <<>>)
      BY <2>1, <2>2, <2>3, <2>4, <2>5, Zenon DEF TcpInv
    <2> QED
      BY <2>1, <2>6
  <1>2. ASSUME NEW t \in Seq(X), NEW x \in X, t \in K PROVE Append(t, x) \in K
    <2>1. PICK d : TcpInv(X, NoReads(t), TcpState(t), d)
      BY <1>2
    <2>2. PICK e : TcpInv(X, Unmark(NoReads(t), x), TcpByte(TcpState(t), x), e)
      BY <2>1, TcpKeep
    <2>3. /\ NoReads(Append(t, x)) = Unmark(NoReads(t), x)
          /\ TcpState(Append(t, x)) = TcpByte(TcpState(t), x)
      BY MarkStep, TcpStep
    <2>4. Append(t, x) \in Seq(X)
      OBVIOUS
    <2> QED
      BY <2>2, <2>3, <2>4
  <1> HIDE DEF K
  <1>3. s \in K
    BY <1>1, <1>2, SeqAppendInduction
  <1> QED
    BY <1>3, MarkStep DEF K

\* What can be read, by these places.
LEMMA ReadableIs ==
  ASSUME NEW t
  PROVE  Readable(t) = IF Stuck(t) = {} THEN t ELSE SubSeq(t, 1, Min(Stuck(t)))
  BY Zenon DEF Readable, Stuck

\* What was read and what can be: the lines sent off are the lines of all that is readable.
LEMMA TcpRest ==
  ASSUME NEW X, BufferSize \in Nat \ {0}, NEW t, NEW st, NEW d, TcpInv(X, t, st, d), NoEnd(st.buf)
  PROVE  /\ TextsOf(st.out) = TextLines(Readable(t))
         /\ Spins(st) <=> Readable(t) # t
  <1>1. PICK b, n : /\ b = st.buf /\ b \in Seq(X) /\ NoEnd(b) /\ d \in Seq(X) /\ n = Len(d)
                    /\ TextsOf(st.out) = TextLines(d)
    BY DEF TcpInv, SocketStates
  <1>2. PICK r \in Seq(X) : t = (d \o b) \o r /\ (r # <<>> => Len(b) = BufferSize)
    BY <1>1 DEF TcpInv
  <1>3. /\ t \in Seq(X) /\ n \in Nat /\ Len(b) \in Nat /\ Len(r) \in Nat
        /\ Len(t) = n + Len(b) + Len(r)
        /\ \A k \in 1 .. n : t[k] = d[k]
        /\ \A j \in 1 .. Len(b) : t[n + j] = b[j]
    <2>1. /\ (d \o b) \o r \in Seq(X) /\ Len(d) \in Nat /\ Len(b) \in Nat /\ Len(r) \in Nat
          /\ Len((d \o b) \o r) = Len(d) + Len(b) + Len(r)
          /\ \A k \in 1 .. Len(d) : ((d \o b) \o r)[k] = d[k]
          /\ \A j \in 1 .. Len(b) : ((d \o b) \o r)[Len(d) + j] = b[j]
      <3>1. d \in Seq(X) /\ b \in Seq(X)
        BY <1>1
      <3> QED
        BY <3>1, ThreeParts
    <2> QED
      BY <1>1, <1>2, <2>1, Zenon
  <1>4. \A i \in Stuck(t) : n <= i
    BY <1>1 DEF TcpInv
  <1>5. CASE Len(b) # BufferSize
    <2>1. r = <<>> /\ t = d \o b
      <3>1. d \o b \in Seq(X)
        BY <1>1, ConcatProperties
      <3>2. (d \o b) \o <<>> = d \o b
        BY <3>1, ConcatEmptySeq
      <3> QED
        BY <1>2, <1>5, <3>2, Zenon
    <2>2. Stuck(t) = {}
      <3>1. SUFFICES ASSUME NEW i \in Stuck(t) PROVE FALSE
        OBVIOUS
      <3>2. n <= i /\ i \in 0 .. Len(t) - BufferSize
        BY <1>4 DEF Stuck
      <3>3. Len(b) <= BufferSize /\ Len(r) = 0
        BY <1>1, <2>1 DEF TcpInv
      <3> QED
        BY <1>3, <1>5, <3>2, <3>3
    <2>3. Readable(t) = t
      BY <2>2, ReadableIs
    <2>4. TextLines(t) = TextLines(d)
      <3>1. TextOf(d).line = <<>>
        BY <1>1, TextClosed DEF TcpInv
      <3>2. PICK l, w : l = TextOf(b).line /\ w = TextOf(d).out \o TextOf(b).out
        OBVIOUS
      <3>3. TextOf(t) = [line |-> l, out |-> w]
        BY <1>1, <2>1, <3>1, <3>2, TextSplit
      <3>4. [line |-> l, out |-> w].out = w
        OBVIOUS
      <3>5. TextOf(b).out = <<>>
        BY <1>1, TextOpen
      <3>6. TextOf(d).out \in Seq(Seq(X))
        BY <1>1, TextTyped DEF TextLines
      <3>7. w = TextOf(d).out
        BY <3>2, <3>5, <3>6, ConcatEmptySeq
      <3> QED
        BY <3>3, <3>4, <3>7, Zenon DEF TextLines
    <2> QED
      BY <1>1, <1>5, <2>3, <2>4, Zenon DEF Spins
  <1>6. CASE Len(b) = BufferSize
    <2>1. n \in Stuck(t)
      <3>1. n \in 0 .. Len(t) - BufferSize
        BY <1>3, <1>6
      <3>2. \A j \in 1 .. BufferSize : t[n + j] # "\n"
        BY <1>1, <1>3, <1>6, ZenonT(60) DEF NoEnd
      <3> QED
        BY <3>1, <3>2 DEF Stuck
    <2>2. Min(Stuck(t)) = n
      <3>1. PICK I : I = Stuck(t)
        OBVIOUS
      <3>2. I \subseteq Int /\ n \in I /\ \A i \in I : n <= i
        BY <1>4, <2>1, <3>1 DEF Stuck
      <3> QED
        BY <3>1, <3>2 DEF Min
    <2>3. Readable(t) = SubSeq(t, 1, n)
      BY <2>1, <2>2, ReadableIs
    <2>4. SubSeq(t, 1, n) = d
      <3>1. 1 \in Nat \ {0} /\ n \in 0 .. Len(t)
        BY <1>3
      <3>2. PICK u : u = SubSeq(t, 1, n)
        OBVIOUS
      <3>3. /\ u \in Seq(X) /\ Len(u) = IF 1 <= n THEN n - 1 + 1 ELSE 0
            /\ \A i \in 1 .. n - 1 + 1 : u[i] = t[1 + i - 1]
        BY <1>3, <3>1, <3>2, PartFacts
      <3>4. Len(u) = n
        BY <1>3, <3>3
      <3>5. ASSUME NEW i \in 1 .. Len(u) PROVE u[i] = d[i]
        <4>1. i \in 1 .. n - 1 + 1 /\ 1 + i - 1 = i /\ i \in 1 .. n
          BY <1>3, <3>4
        <4> QED
          BY <1>3, <3>3, <4>1
      <3>6. u = d
        BY <1>1, <3>3, <3>4, <3>5, SeqEqual
      <3> QED
        BY <3>2, <3>6
    <2>5. d # t
      BY <1>1, <1>3, <1>6
    <2> QED
      BY <1>1, <1>6, <2>3, <2>4, <2>5, Zenon DEF Spins
  <1> QED
    BY <1>5, <1>6

\* A connection: every line up to the first that leaves no room for its end is parsed once,
\* and the loop spins exactly when there is such a line.
LEMMA TcpExact ==
  ASSUME NEW X, NEW s \in Seq(X), "\n" \in X, "|" \in X, BufferSize \in Nat \ {0}
  PROVE  TcpAgrees(s)
  <1>1. PICK t, st : t = NoReads(s) /\ st = TcpState(s)
    OBVIOUS
  <1>2. PICK d : TcpInv(X, t, st, d)
    BY <1>1, TcpReads
  <1>3. PICK f, e : f = Frame(st) /\ NoEnd(f.buf) /\ TcpInv(X, t, f, e)
    BY <1>2, TcpFrame
  <1>4. HandleConnection(s) = f
    <2>1. TcpState(Append(s, "|")) = TcpByte(st, "|")
      BY <1>1, TcpStep
    <2>2. TcpByte(st, "|") = f
      BY <1>3, Zenon DEF TcpByte
    <2> QED
      BY <2>1, <2>2, Zenon DEF HandleConnection, TcpState
  <1>5. Parsed(f) = TextsOf(f.out)
    <2>1. f \in SocketStates(X)
      BY <1>3 DEF TcpInv
    <2> QED
      BY <2>1, ParsedIs
  <1>6. TextsOf(f.out) = TextLines(Readable(t)) /\ (Spins(f) <=> Readable(t) # t)
    BY <1>3, TcpRest
  <1> QED
    BY <1>1, <1>4, <1>5, <1>6, Zenon DEF TcpAgrees

-----------------------------------------------------------------------------
(***************************************************************************)
(* The states: an input has the elements of its kind.                      *)
(***************************************************************************)
InputSeqs == \A k \in DOMAIN Inputs : \E S : Inputs[k] \in Seq(S)

\* What the inputs that tell times are, as MCParsing gives them, for any Word: seconds of
\* that width, a zone and an hour.
TimeInputs ==
  /\ InputSeqs
  /\ "drop" \in DOMAIN Inputs => /\ Len(Inputs["drop"]) = 4
                                /\ \A i \in 1 .. 4 : Inputs["drop"][i] \subseteq 0 .. Word - 1
  /\ "days" \in DOMAIN Inputs => /\ Len(Inputs["days"]) = 2
                                /\ Inputs["days"][1] \subseteq Calendars
                                /\ Inputs["days"][2] \subseteq Times

\* any element of any kind
Elements == UNION {UNION {Inputs[k][i] : i \in DOMAIN Inputs[k]} : k \in DOMAIN Inputs}
InputInv ==
  /\ in = [kind |-> in.kind, s |-> in.s]
  /\ in.kind \in DOMAIN Inputs /\ in.s \in Seq(Elements) /\ Len(in.s) <= Len(Inputs[in.kind])
  /\ \A i \in 1 .. Len(in.s) : in.s[i] \in Inputs[in.kind][i]

\* Inputs grow by elements of their kind only.
LEMMA InputsHold ==
  ASSUME InputSeqs
  PROVE  Spec => []InputInv
  <1>1. ASSUME Init PROVE InputInv
    <2>1. PICK k \in DOMAIN Inputs : in = [kind |-> k, s |-> <<>>]
      BY <1>1 DEF Init
    <2>2. Len(Inputs[k]) \in Nat
      BY LenProperties DEF InputSeqs
    <2>3. in.kind = k /\ in.s = <<>>
      BY <2>1
    <2> QED
      BY <2>1, <2>2, <2>3, EmptySeq DEF InputInv
  <1>2. ASSUME InputInv, [Next]_in PROVE InputInv'
    <2>1. CASE UNCHANGED in
      BY <1>2, <2>1 DEF InputInv
    <2>2. CASE Grow
      <3>1. PICK k, s, n : k = in.kind /\ s = in.s /\ n = Len(s)
        OBVIOUS
      <3>2. /\ in = [kind |-> k, s |-> s] /\ k \in DOMAIN Inputs /\ s \in Seq(Elements)
            /\ n <= Len(Inputs[k]) /\ \A i \in 1 .. n : s[i] \in Inputs[k][i]
        BY <1>2, <3>1, Zenon DEF InputInv
      <3>3. PICK x \in Inputs[k][n + 1] : n < Len(Inputs[k]) /\ in' = [in EXCEPT !.s = Append(s, x)]
        BY <2>2, <3>1 DEF Grow
      <3>4. n \in Nat /\ Len(Inputs[k]) \in Nat /\ DOMAIN Inputs[k] = 1 .. Len(Inputs[k])
        BY <3>1, <3>2, LenProperties DEF InputSeqs
      <3>5. x \in Elements
        BY <3>2, <3>3, <3>4 DEF Elements
      <3>6. /\ Append(s, x) \in Seq(Elements) /\ Len(Append(s, x)) = n + 1
            /\ \A i \in 1 .. n : Append(s, x)[i] = s[i]
            /\ Append(s, x)[n + 1] = x
        BY <3>1, <3>2, <3>5, AppendProperties
      <3>7. in' = [kind |-> k, s |-> Append(s, x)]
        BY <3>2, <3>3
      <3>8. in.kind' = k /\ in.s' = Append(s, x)
        BY <3>7
      <3>9. \A i \in 1 .. n + 1 : Append(s, x)[i] \in Inputs[k][i]
        BY <3>2, <3>3, <3>4, <3>6
      <3>10. n + 1 <= Len(Inputs[k])
        BY <3>3, <3>4
      <3> QED
        BY <3>2, <3>6, <3>7, <3>8, <3>9, <3>10 DEF InputInv
    <2> QED
      BY <1>2, <2>1, <2>2 DEF Next
  <1> QED
    BY <1>1, <1>2, PTL DEF Spec

\* isDrop drops exactly the points that are too old or too far ahead, with the limits that
\* its sums make when they wrap; the ring of dropped points keeps the last ones; and the
\* table of days gives the day on the calendar for all but the hours that a change of the
\* clock around midnight misdates: for every width of a timestamp, size of the ring, zone
\* with a change at any hour, and time.
THEOREM TimesExactSafe ==
  ASSUME TimeInputs
  PROVE  Spec => []TimesExact
  <1>1. ASSUME InputInv PROVE TimesExact
    <2>1. ASSUME Complete("drop") PROVE AgeAgrees(in.s[1], in.s[2], in.s[3], in.s[4])
      <3>1. in.kind = "drop" /\ Len(in.s) = 4 /\ "drop" \in DOMAIN Inputs
        BY <1>1, <2>1 DEF Complete, InputInv, TimeInputs
      <3>2. \A i \in 1 .. 4 : in.s[i] \in Inputs["drop"][i]
        BY <1>1, <3>1 DEF InputInv
      <3>3. \A i \in 1 .. 4 : in.s[i] \in 0 .. Word - 1
        BY <3>1, <3>2 DEF TimeInputs
      <3> QED
        BY <3>3, ParsingBounds, AgeExact
    <2>2. ASSUME in.kind = "ring" PROVE RingAgrees(in.s)
      BY <1>1, ParsingBounds, RingExact DEF InputInv
    <2>3. ASSUME Complete("days")
          PROVE  DaysAgree(in.s[1], 40, in.s[2]) /\ DaysAgree(in.s[1], 50, in.s[2])
      <3>1. in.kind = "days" /\ Len(in.s) = 2 /\ "days" \in DOMAIN Inputs
        BY <1>1, <2>3 DEF Complete, InputInv, TimeInputs
      <3>2. \A i \in 1 .. 2 : in.s[i] \in Inputs["days"][i]
        BY <1>1, <3>1 DEF InputInv
      <3>3. in.s[1] \in Calendars /\ in.s[2] \in Times
        BY <3>1, <3>2 DEF TimeInputs
      <3>4. 40 \in Nat /\ 50 \in Nat
        OBVIOUS
      <3> QED
        BY <3>3, <3>4, DaysExact
    <2> QED
      BY <2>1, <2>2, <2>3, Zenon DEF TimesExact
  <1> QED
    BY <1>1, InputsHold, PTL DEF TimeInputs

\* What the inputs of the write buffers are: lengths of names, and blocks of lines.
PackInputs ==
  /\ InputSeqs
  /\ "pack" \in DOMAIN Inputs =>
       \A i \in 1 .. Len(Inputs["pack"]) : Inputs["pack"][i] \subseteq Nat
  /\ "plain" \in DOMAIN Inputs =>
       \A i \in 1 .. Len(Inputs["plain"]) : Inputs["plain"][i] \subseteq Blocks

\* Points get into write buffers once, in order and without an overrun, for every size of
\* the buffers and any number of points of any length; only names that are too long are
\* refused, and only after one of them does PickleParseBytes panic.
THEOREM PointsPackedSafe ==
  ASSUME PackInputs
  PROVE  Spec => []PointsPacked
  <1>1. ASSUME InputInv PROVE PointsPacked
    <2>1. PICK k, s : k = in.kind /\ s = in.s
      OBVIOUS
    <2>2. /\ k \in DOMAIN Inputs /\ s \in Seq(Elements) /\ Len(s) <= Len(Inputs[k])
          /\ \A i \in 1 .. Len(s) : s[i] \in Inputs[k][i]
      BY <1>1, <2>1, Zenon DEF InputInv
    <2>3. \A i \in 1 .. Len(s) : i \in 1 .. Len(Inputs[k])
      <3>1. Len(s) \in Nat /\ Len(Inputs[k]) \in Nat
        BY <2>2, LenProperties DEF PackInputs, InputSeqs
      <3> QED
        BY <2>2, <3>1
    <2>4. ASSUME k = "pack" PROVE PackAgrees(s)
      <3>1. \A i \in 1 .. Len(s) : s[i] \in Nat
        BY <2>2, <2>3, <2>4, Zenon DEF PackInputs
      <3> QED
        BY <2>2, <3>1, SeqWithin, PackExact
    <2>5. ASSUME k = "plain" PROVE PlainAgrees(s)
      <3>1. \A i \in 1 .. Len(s) : s[i] \in Blocks
        BY <2>2, <2>3, <2>5, Zenon DEF PackInputs
      <3> QED
        BY <2>2, <3>1, SeqWithin, PlainExact
    <2> QED
      BY <2>1, <2>4, <2>5, Zenon DEF PointsPacked
  <1> QED
    BY <1>1, InputsHold, PTL DEF PackInputs

\* What the inputs of escape are: strings of bytes.
EscapeInputs ==
  /\ InputSeqs
  /\ "escape" \in DOMAIN Inputs =>
       \A i \in 1 .. Len(Inputs["escape"]) : Inputs["escape"][i] \subseteq Byte

\* Escaped names and tags hold no separator, and come back as they were (of a name the
\* plus as a space), but for a single byte that escapeTo drops when it follows the last
\* escaped one: for strings of any bytes, of any length.
THEOREM EscapeExactSafe ==
  ASSUME EscapeInputs
  PROVE  Spec => []EscapeExact
  <1>1. ASSUME InputInv PROVE EscapeExact
    <2>1. PICK k, s : k = in.kind /\ s = in.s
      OBVIOUS
    <2>2. /\ k \in DOMAIN Inputs /\ s \in Seq(Elements) /\ Len(s) <= Len(Inputs[k])
          /\ \A i \in 1 .. Len(s) : s[i] \in Inputs[k][i]
      BY <1>1, <2>1, Zenon DEF InputInv
    <2>3. \A i \in 1 .. Len(s) : i \in 1 .. Len(Inputs[k])
      <3>1. Len(s) \in Nat /\ Len(Inputs[k]) \in Nat
        BY <2>2, LenProperties DEF EscapeInputs, InputSeqs
      <3> QED
        BY <2>2, <3>1
    <2>4. ASSUME k = "escape" PROVE EscapeAgrees(s)
      <3>1. \A i \in 1 .. Len(s) : s[i] \in Byte
        BY <2>2, <2>3, <2>4, Zenon DEF EscapeInputs
      <3> QED
        BY <2>2, <3>1, SeqWithin, EscapeExactly
    <2> QED
      BY <2>1, <2>4, Zenon DEF EscapeExact
  <1> QED
    BY <1>1, InputsHold, PTL DEF EscapeInputs

\* The plain line parser reads a line as its three fields, or not at all, and a name
\* keeps one of several dots: for strings of any symbols, of any length.
THEOREM LineParsedSafe ==
  ASSUME InputSeqs
  PROVE  Spec => []LineParsed
  <1>1. ASSUME InputInv PROVE LineParsed
    <2>1. PICK k, s : k = in.kind /\ s = in.s
      OBVIOUS
    <2>2. s \in Seq(Elements)
      BY <1>1, <2>1, Zenon DEF InputInv
    <2>3. PICK X : X = Elements \cup {"\n"}
      OBVIOUS
    <2>4. "\n" \in X /\ s \in Seq(X)
      BY <2>2, <2>3, SeqMonotonic
    <2>5. LineAgrees(s) /\ RemoveDoubleDot(s) = Collapsed(s)
      BY <2>4, LineExact, DotsExact, Zenon
    <2> QED
      BY <2>1, <2>5, Zenon DEF LineParsed
  <1> QED
    BY <1>1, InputsHold, PTL

\* Of all that comes over a socket, every line is parsed once: over TCP those that can be
\* read, over UDP those of each datagram.
THEOREM LinesOnceSafe ==
  ASSUME InputSeqs
  PROVE  Spec => []LinesOnce
  <1>1. ASSUME InputInv PROVE LinesOnce
    <2>1. PICK k, s : k = in.kind /\ s = in.s
      OBVIOUS
    <2>2. s \in Seq(Elements)
      BY <1>1, <2>1, Zenon DEF InputInv
    <2>3. PICK X : X = Elements \cup {"\n", "|"}
      OBVIOUS
    <2>4. "\n" \in X /\ "|" \in X /\ s \in Seq(X)
      BY <2>2, <2>3, SeqMonotonic
    <2>5. TcpAgrees(s) /\ UdpAgrees(s)
      BY <2>4, ParsingBounds, TcpExact, UdpExact
    <2> QED
      BY <2>1, <2>5, Zenon DEF LinesOnce
  <1> QED
    BY <1>1, InputsHold, PTL
=============================================================================
