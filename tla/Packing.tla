------------------------------ MODULE Packing ------------------------------
(***************************************************************************)
(* Write buffers of a fixed size: how RowBinary.Writer (HTTP receivers),   *)
(* PickleParseBytes and PlainParseBuffer fill them with points, and how    *)
(* Index.parseName fills one with the rows of a name.                      *)
(*                                                                         *)
(* A point is the length of its name, a part of a path is [id, len]; only  *)
(* sizes count here; all names of an index are of one day, and the daily   *)
(* index is enabled.  A write past the end of Body is a panic (PutUvarint, *)
(* PutUint32; a copy that is cut short is followed by one).                *)
(***************************************************************************)
EXTENDS Integers, Sequences, SequencesExt, FiniteSets, FiniteSetsExt

CONSTANTS WriteBufferSize, \* 524288
          ReadBufferSize   \* 262144: the buffers of TCP and UDP

Uvarint(n) == IF n < 128 THEN 1 ELSE IF n < 16384 THEN 2 ELSE 3
\* WriteGraphitePoint: name, value, timestamp, days, version
PointSize(len) == Uvarint(len) + len + 8 + 4 + 2 + 4
CanWriteName(used, len) == WriteBufferSize - used > len   \* mutant: forgets the value
CanWriteGraphitePoint(used, len) == WriteBufferSize - used > len + 23
TooLong(len) == len > WriteBufferSize - 50

(***************************************************************************)
(* Writer.WritePoint and PickleParseBytes as folds over points s[i].       *)
(* "nil" tells whether there is a buffer, "wb" holds its points.           *)
(***************************************************************************)
NewState == [nil |-> TRUE, wb |-> <<>>, used |-> 0, out |-> <<>>, lost |-> {}, panic |-> FALSE]
GetWriteBuffer(st) == [st EXCEPT !.nil = FALSE, !.wb = <<>>, !.used = 0]
Flush(st) ==
  [st EXCEPT !.out = IF st.nil \/ st.wb = <<>> THEN @ ELSE Append(@, st.wb),
             !.nil = TRUE, !.wb = <<>>, !.used = 0]
WriteGraphitePoint(st, s, i) ==
  [st EXCEPT !.wb = Append(@, i), !.used = @ + PointSize(s[i]),
             !.panic = @ \/ st.used + PointSize(s[i]) > WriteBufferSize]

\* a point that does not fit goes into the next buffer, or nowhere
NextBufferFor(st, s, i) ==
  IF TooLong(s[i]) THEN [Flush(st) EXCEPT !.lost = @ \cup {i}]
  ELSE WriteGraphitePoint(GetWriteBuffer(Flush(st)), s, i)
Put(st, s, i) ==
  IF CanWriteGraphitePoint(st.used, s[i]) THEN WriteGraphitePoint(st, s, i)
  ELSE NextBufferFor(st, s, i)

WritePoint(st, s, i) == Put(IF st.nil THEN GetWriteBuffer(st) ELSE st, s, i)
WriterOut(s) == Flush(FoldLeftDomain(LAMBDA st, i : WritePoint(st, s, i), NewState, s))

\* the callback of ParseMessage: after fail() wb is nil, and nothing makes a new one
PicklePoint(st, s, i) ==
  IF st.panic \/ st.nil THEN [st EXCEPT !.panic = TRUE] ELSE Put(st, s, i)
PickleParseBytes(s) ==
  Flush(FoldLeftDomain(LAMBDA st, i : PicklePoint(st, s, i), GetWriteBuffer(NewState), s))

\* PlainParseBuffer writes all points of a buffer into one, without CanWriteGraphitePoint.
\* s is a sequence of [n, sent, rest, stored]: n equal lines, the length of their name,
\* of what follows it in the line, and of the name with its tags escaped.
Sum(s, f(_)) == FoldLeft(LAMBDA x, y : x + f(y), 0, s)
PlainParseBufferUsed(s) == Sum(s, LAMBDA b : b.n * PointSize(b.stored))
BytesRead(s) == Sum(s, LAMBDA b : b.n * (b.sent + b.rest))

(***************************************************************************)
(* Index: parseFile over the names s, and parseName.                       *)
(***************************************************************************)
PathLength(p) == Sum(p, LAMBDA x : x.len) + Len(p) - 1
Segment(p, l) == SubSeq(p, 1, l)              \* its string ends in "."
Parents(p) == [k \in 1 .. Len(p) - 1 |-> Segment(p, Len(p) - k)]
RowSize(len) == 2 + 4 + Uvarint(len) + len + 4
NewIndex == [used |-> 0, rows |-> <<>>, newUniq |-> {}, marked |-> {}, lost |-> {}, panic |-> FALSE]

\* the row of one more parent q; t = [est, used, rows, uniq, done, error]
TreeRowOnce(t, q) ==                         \* mutant: only the direct parent
  IF Len(t.rows) > 1 THEN t
  ELSE [t EXCEPT !.uniq = @ \cup {q}, !.rows = Append(@, <<"tree", q>>)]
TreeRow(t, q) ==
  LET len == PathLength(q) + 1
  IN IF t.done \/ q \in t.uniq THEN [t EXCEPT !.done = TRUE]
     ELSE IF t.est + 10 + len >= WriteBufferSize - t.used
          THEN [t EXCEPT !.done = TRUE, !.error = TRUE]
     ELSE [t EXCEPT !.est = @ + 10 + len, !.used = @ + RowSize(len),
                    !.uniq = @ \cup {q}, !.rows = Append(@, <<"tree", q>>)]

\* parseName: rows of the name and its parents, of the reverse name, and both by day
indexParseName(st, p) ==
  LET len  == PathLength(p)
      est  == 2 * (2 + 4 + len + 4)
      t    == FoldLeft(TreeRow, [est |-> est, used |-> RowSize(len), rows |-> <<<<"name", p>>>>,
                                 uniq |-> st.newUniq, done |-> FALSE, error |-> FALSE], Parents(p))
      full == t.used + 3 * RowSize(len)
  IN IF est >= WriteBufferSize - st.used       \* FreeSize with the previous name in it
     THEN [st EXCEPT !.lost = @ \cup {p}]
     ELSE IF t.error THEN [st EXCEPT !.lost = @ \cup {p}, !.used = t.used, !.newUniq = t.uniq]
     ELSE [st EXCEPT !.used = full, !.newUniq = t.uniq, !.panic = @ \/ full > WriteBufferSize,
                     !.rows = @ \o t.rows \o <<<<"reverse", p>>, <<"day", p>>, <<"reverseDay", p>>>>]
indexRecord(st, p) ==
  IF p \in st.marked \/ st.panic THEN st
  ELSE indexParseName([st EXCEPT !.marked = @ \cup {p}], p)
indexParseFile(s) == FoldLeft(indexRecord, NewIndex, s)
-----------------------------------------------------------------------------
(***************************************************************************)
(* What the inputs of module Parsing are checked for.                      *)
(***************************************************************************)
\* Points are neither lost, doubled nor reordered on their way into buffers, and none
\* is overrun.  Names of at most Size - 50 always get through, from Size - 23 on never;
\* in between they do if they come first.
PackAgrees(s) ==
  LET w == WriterOut(s)
      k == PickleParseBytes(s)
      sent == FlattenSeq(w.out)
      first(i) == i = 1 \/ (i - 1) \in w.lost
  IN /\ ~w.panic
     /\ \A i, j \in DOMAIN sent : i < j => sent[i] < sent[j]
     /\ ToSet(sent) = DOMAIN s \ w.lost
     /\ \A i \in w.lost : TooLong(s[i])
     /\ \A i \in DOMAIN s : s[i] >= WriteBufferSize - 23 => i \in w.lost
     /\ \A i \in DOMAIN s : first(i) /\ s[i] < WriteBufferSize - 23 => i \notin w.lost
     \* pickle: the same, up to the point after a name that was too long
     /\ k.panic <=> \E i \in w.lost : i < Len(s)
     /\ k.panic \/ k.out = w.out

\* The points of a full read fit into a write buffer if nothing was escaped and the lines
\* have a timestamp of ten digits or names of at least nine bytes; other lines overrun it.
PlainAgrees(s) ==
  /\ BytesRead(s) <= ReadBufferSize
  /\ \A i \in DOMAIN s : s[i].stored = s[i].sent /\ (s[i].rest >= 14 \/ s[i].sent >= 9)
  => PlainParseBufferUsed(s) <= WriteBufferSize

\* Every name of the file has its rows, and every parent its one, if the names are
\* so short that two of them fit.
RowsNeeded(p) ==
  4 * RowSize(PathLength(p)) + Sum(Parents(p), LAMBDA q : RowSize(PathLength(q) + 1))
RowsOf(p) == {<<x, p>> : x \in {"name", "reverse", "day", "reverseDay"}}
             \cup {<<"tree", q>> : q \in ToSet(Parents(p))}
IndexAgrees(s) ==
  LET st == indexParseFile(s)
      all == UNION {RowsOf(p) : p \in ToSet(s)}
  IN /\ (\A i \in DOMAIN s : 2 * RowsNeeded(s[i]) < WriteBufferSize) => st.lost = {} /\ ~st.panic
     /\ st.lost = {} /\ ~st.panic => ToSet(st.rows) = all /\ Len(st.rows) = Cardinality(all)
=============================================================================
