------------------------------- MODULE Lines -------------------------------
(***************************************************************************)
(* From the bytes of a socket to points: how TCP and UDP cut buffers out   *)
(* of what they read, how PlainParseBuffer cuts lines out of a buffer and  *)
(* PlainParseLine fields out of a line, and the filters of a point.        *)
(*                                                                         *)
(* A byte is one of the Symbols; "|" in an input ends a read or, for UDP,  *)
(* a datagram.  Abstracted: the values of numbers, NaN, and the tags of a  *)
(* name (module TagNames).                                                 *)
(***************************************************************************)
EXTENDS Integers, Sequences, SequencesExt, FiniteSetsExt

CONSTANTS BufferSize, \* len(Buffer.Body)
          Word,       \* 2^32 of the uint32 arithmetic
          Ring        \* droppedListSize

Symbols == {"a", ".", " ", "1", "-", "\r", "\n"}
Index(s, x)     == SelectInSeq(s, LAMBDA y : y = x)       \* 0: not there
LastIndex(s, x) == SelectLastInSeq(s, LAMBDA y : y = x)
From(s, i)      == SubSeq(s, i, Len(s))

(***************************************************************************)
(* HandleConnection and receiveWorker: a fold over the symbols, its state  *)
(* the buffer at hand and the buffers sent to parseChan.                   *)
(***************************************************************************)
NothingRead == [buf |-> <<>>, out |-> <<>>]

RestLost(st) ==                              \* mutant: the rest is not carried over
  LET k == LastIndex(st.buf, "\n")
  IN IF k = 0 THEN st ELSE [buf |-> <<>>, out |-> Append(st.out, SubSeq(st.buf, 1, k))]
\* after a read: everything up to the last end of line goes, the rest is kept
Frame(st) ==
  LET k == LastIndex(st.buf, "\n")
  IN IF k = 0 THEN st
     ELSE [buf |-> From(st.buf, k + 1), out |-> Append(st.out, SubSeq(st.buf, 1, k))]
\* a datagram: what follows its last end of line is forgotten
FrameDatagram(st) == [Frame(st) EXCEPT !.buf = <<>>]

\* a byte that finds no room stays in the socket; the read ends there
TcpByte(st, x) ==
  LET full == Len(st.buf) = BufferSize
      s == IF x = "|" \/ full THEN Frame(st) ELSE st
  IN IF x = "|" \/ Len(s.buf) = BufferSize THEN s ELSE [s EXCEPT !.buf = Append(@, x)]
UdpByte(st, x) ==
  IF x = "|" THEN FrameDatagram(st) ELSE [st EXCEPT !.buf = Append(@, x)]
HandleConnection(s) == FoldLeft(TcpByte, NothingRead, Append(s, "|"))
ReceiveWorker(s)    == FoldLeft(UdpByte, NothingRead, Append(s, "|"))
\* Read of an empty slice returns 0 and no error: the loop goes round until the stop
Spins(st) == Len(st.buf) = BufferSize

\* PlainParseBuffer: the lines that it parses, empty ones are skipped
LinesOf(b) ==
  LET lines[i \in 1 .. Len(b) + 1] ==
        LET e == Index(From(b, i), "\n")
        IN IF e = 0 THEN <<>>
           ELSE IF e = 1 THEN lines[i + 1]
           ELSE <<SubSeq(b, i, i + e - 1)>> \o lines[i + e]
  IN lines[1]
Parsed(st) == FlattenSeq([i \in DOMAIN st.out |-> LinesOf(st.out[i])])

\* The lines of an input by their definition: what an end of line ends, if not empty.
LineStep(st, x) ==
  IF x # "\n" THEN [line |-> Append(st.line, x), out |-> st.out]
  ELSE IF st.line = <<>> THEN st
  ELSE [line |-> <<>>, out |-> Append(st.out, Append(st.line, x))]
NoText       == [line |-> <<>>, out |-> <<>>]
TextOf(s)    == FoldLeft(LineStep, NoText, s)
TextLines(s) == TextOf(s).out
\* an input without its marks, and what is between the marks
Unmark(t, x)    == IF x = "|" THEN t ELSE Append(t, x)
NoReads(s)      == FoldLeft(Unmark, <<>>, s)
Datagram(ts, x) ==
  IF x = "|" THEN Append(ts, <<>>) ELSE [ts EXCEPT ![Len(ts)] = Append(@, x)]
Datagrams(s)    == FoldLeft(Datagram, << <<>> >>, s)
\* what comes before the first line that leaves no room for its end
Readable(s) ==
  LET stuck == {i \in 0 .. Len(s) - BufferSize : \A j \in 1 .. BufferSize : s[i + j] # "\n"}
  IN IF stuck = {} THEN s ELSE SubSeq(s, 1, Min(stuck))

(***************************************************************************)
(* RemoveDoubleDot, in place, and PlainParseLine.                          *)
(***************************************************************************)
\* every second position is looked at, with both neighbours (the code counts from 0)
HasDoubleDot(p) ==
  \E i \in {k \in DOMAIN p : k % 2 = 0} :
    /\ p[i] = "."
    /\ p[i - 1] = "." \/ (i < Len(p) /\ p[i + 1] = ".")

DotsStep(st, i) ==
  IF i = 1 THEN st
  ELSE IF st.p[i] = "." /\ st.p[i - 1 - st.shift] = "." THEN [st EXCEPT !.shift = @ + 1]
  ELSE [st EXCEPT !.p[i - st.shift] = st.p[i]]
RemoveDoubleDot(p) ==
  IF ~HasDoubleDot(p) THEN p
  ELSE LET st == FoldLeftDomain(DotsStep, [p |-> p, shift |-> 0], p)
       IN SubSeq(st.p, 1, Len(p) - st.shift)

\* strconv.ParseFloat, as far as these symbols go
Number(t) ==
  /\ \E i \in DOMAIN t : t[i] = "1"
  /\ \A i \in DOMAIN t : t[i] \in {"1", "."} \/ (i = 1 /\ t[i] = "-")
  /\ \A i, j \in DOMAIN t : t[i] = "." /\ t[j] = "." => i = j

BadMessage == [name |-> <<>>, value |-> <<>>, time |-> <<>>]
CutOnce(p, i3) == i3                         \* mutant: "\r" is not cut off
CutCR(p, i3) == IF p[i3] = "\r" THEN i3 - 1 ELSE i3
\* the line p ends in "\n"; positions count from 1
PlainParseLine(p) ==
  LET i1 == Index(p, " ")
      d  == Index(From(p, i1 + 1), " ")
      i2 == i1 + d
      i3 == CutCR(p, Len(p) - 1)
      value == SubSeq(p, i1 + 1, i2 - 1)
      time  == SubSeq(p, i2 + 1, i3)
  IN IF i1 < 2 \/ d < 2 THEN BadMessage
     ELSE IF ~Number(value) THEN BadMessage
     ELSE IF time = <<"-", "1">>
          THEN [name |-> RemoveDoubleDot(SubSeq(p, 1, i1 - 1)), value |-> value, time |-> <<"now">>]
     ELSE IF ~Number(time) THEN BadMessage
     ELSE [name |-> RemoveDoubleDot(SubSeq(p, 1, i1 - 1)), value |-> value, time |-> time]

\* The reference: "name value time" with an end of line in either fashion.
CollapseStep(kept, x) ==
  IF x = "." /\ kept # <<>> /\ Last(kept) = "." THEN kept ELSE Append(kept, x)
Collapsed(n) == FoldLeft(CollapseStep, <<>>, n)
NoSpace(t) == \A i \in DOMAIN t : t[i] # " "
Spaces(s) == {k \in DOMAIN s : s[k] = " "}
FieldsAt(s, i, j) ==
  [name |-> SubSeq(s, 1, i - 1), value |-> SubSeq(s, i + 1, j - 1), time |-> From(s, j + 1)]
WellFormed(f) ==
  f.name # <<>> /\ NoSpace(f.name) /\ NoSpace(f.value) /\ Number(f.value) /\ Number(f.time)
Splits(s) ==                                 \* all ways to read s as three fields
  {f \in {FieldsAt(s, i, j) : i \in Spaces(s), j \in Spaces(s)} : WellFormed(f)}

(***************************************************************************)
(* The filters.                                                            *)
(***************************************************************************)
isDrop(now, t, future, past) ==
  \/ future # 0 /\ t > (now + future) % Word
  \/ past # 0 /\ now > (t + past) % Word
isDropMetricNameTooLong(len, limit) == limit # 0 /\ len > limit
isDropBytes(now, t, future, past, len, limit) ==
  isDrop(now, t, future, past) \/ isDropMetricNameTooLong(len, limit)

\* saveDropped, with its own counter of what was saved
saveDropped(list, n, x) == [list EXCEPT ![n % Ring] = x]
Saved(s) == FoldLeftDomain(LAMBDA list, i : saveDropped(list, i - 1, i), [k \in 0 .. Ring - 1 |-> 0], s)
-----------------------------------------------------------------------------
(***************************************************************************)
(* What the inputs of module Parsing are checked for.                      *)
(***************************************************************************)
TcpAgrees(s) ==
  LET text == NoReads(s)
  IN /\ Parsed(HandleConnection(s)) = TextLines(Readable(text))
     /\ Spins(HandleConnection(s)) <=> Readable(text) # text
UdpAgrees(s) ==
  Parsed(ReceiveWorker(s)) =
    FlattenSeq([k \in DOMAIN Datagrams(s) |-> TextLines(Datagrams(s)[k])])

LineAgrees(s) ==
  LET field == PlainParseLine(Append(s, "\n"))
      text  == IF s # <<>> /\ Last(s) = "\r" THEN Front(s) ELSE s
  IN IF Splits(text) = {} THEN field = BadMessage
     ELSE \E f \in Splits(text) :
            field = [name  |-> Collapsed(f.name), value |-> f.value,
                     time  |-> IF f.time = <<"-", "1">> THEN <<"now">> ELSE f.time]

\* the last ones, whatever their number
RingAgrees(s) ==
  Range(Saved(s)) \ {0} = {i \in DOMAIN s : i > Len(s) - Ring}

\* A point is dropped if it is further ahead of the clock, or further behind it, than the
\* limit; a uint32 sum that wraps makes the limit one Word shorter, so that even a point
\* of this second is dropped.
Short(sum) == IF sum >= Word THEN Word ELSE 0
AgeAgrees(now, t, future, past) ==
  isDrop(now, t, future, past) <=>
    \/ future # 0 /\ t - now > future - Short(now + future)
    \/ past # 0 /\ now - t > past - Short(t + past)
=============================================================================
