------------------------------- MODULE Series -------------------------------
(***************************************************************************)
(* A Prometheus remote-write request: unpackFast with timeSeries, which    *)
(* decode by hand into buffers they use again for every series, and        *)
(* unpackDefault with tags.Prometheus, which decode with the generated     *)
(* code.                                                                   *)
(*                                                                         *)
(* A series is a sequence of protobuf fields: labels [f |-> "label", name, *)
(* value], Absent for a part that is not there, samples [f |-> "sample",   *)
(* nan], and others.  A point is <<name, series, field>>.  Abstracted:     *)
(* bytes that do not decode, the filter of times, which is the same in     *)
(* both, and the write buffers (module Packing), so that nothing is        *)
(* written before the last Flush.                                          *)
(***************************************************************************)
EXTENDS TagNames, Lines

Absent == <<0>>
NameLabel == <<95>>                          \* "__name__"

(***************************************************************************)
(* timeSeries, on the label slots of the buffer: st = [slots, n, offset].  *)
(***************************************************************************)
SlotKeeps(old, x) ==                         \* mutant: the slot is not reset
  [name |-> IF x.name = Absent THEN old.name ELSE x.name,
   value |-> IF x.value = Absent THEN old.value ELSE x.value]
Slot(old, x) == [name |-> x.name, value |-> x.value]
TakeLabel(st, x) ==
  LET grown == IF Len(st.slots) > st.n THEN st.slots
               ELSE Append(st.slots, [name |-> Absent, value |-> Absent])
      new == Slot(grown[st.n + 1], x)
  IN [st EXCEPT !.slots = [grown EXCEPT ![st.n + 1] = new],
                !.n = IF Absent \in {new.name, new.value} THEN @ ELSE @ + 1]
\* an offset of 0 is taken for one that is not set yet
TakeField(st, ts, i) ==
  IF ts[i].f = "label" THEN TakeLabel(st, ts[i])
  ELSE IF ts[i].f = "sample" /\ st.offset = 0 THEN [st EXCEPT !.offset = i - 1]
  ELSE st

Swap(a, i, j) == [a EXCEPT ![i] = a[j], ![j] = a[i]]
\* __name__ comes first; the loops of the sort leave it there
NameFirst(slots, n) ==
  LET i == SelectInSubSeq(slots, 1, n, LAMBDA l : l.name = NameLabel)
  IN IF i = 0 THEN slots ELSE Swap(slots, 1, i)
SortSlots(slots, n) ==
  LET inner(a, i) == FoldLeft(LAMBDA b, j : IF Less(b[j].name, b[i].name) THEN Swap(b, i, j) ELSE b,
                              a, [k \in 1 .. n - i |-> i + k])
      sorted == \A i \in 2 .. n - 1 : ~Less(slots[i + 1].name, slots[i].name)
  IN IF sorted THEN slots ELSE FoldLeft(inner, slots, [k \in 1 .. n - 2 |-> k + 1])

\* [error, slots, metric: <<name, key, value, ...>>, offset]
timeSeries(slots, ts) ==
  LET st == FoldLeftDomain(LAMBDA x, i : TakeField(x, ts, i), [slots |-> slots, n |-> 0, offset |-> 0], ts)
      ls == SortSlots(NameFirst(st.slots, st.n), st.n)
      pair(i) == <<escape(ls[i].name, "query"), escape(ls[i].value, "query")>>
  IN [error  |-> \A i \in 1 .. st.n : st.slots[i].name # NameLabel,
      slots  |-> ls,
      metric |-> IF st.n = 0 THEN <<>>
                 ELSE <<ls[1].value>> \o FlattenSeq([i \in 1 .. st.n - 1 |-> pair(i + 1)]),
      offset |-> st.offset]

\* WriteBuffer.WriteTagged (the code counts from 0)
WriteTagged(tagged) ==
  LET sep(i) == IF i = 1 THEN <<>> ELSE IF i = 2 THEN <<Question>>
                ELSE IF i % 2 = 0 THEN <<Amp>> ELSE <<Equal>>
  IN FlattenSeq([i \in DOMAIN tagged |-> sep(i) \o tagged[i]])

\* the points of the samples that are numbers, from a field on
Points(name, k, ts, from) ==
  LET at == SelectSeq([i \in DOMAIN ts |-> i], LAMBDA i : i >= from /\ ts[i].f = "sample" /\ ~ts[i].nan)
  IN [j \in DOMAIN at |-> <<name, k, at[j]>>]
\* a series [error, slots, metric, offset] after those of st; the first error ends the
\* request, and nothing is flushed; the filter is asked for "", and so never drops a name
\* as too long
TakeSeries(limit, st, t, k, ts) ==
  IF st.error \/ t.error THEN [st EXCEPT !.error = TRUE, !.out = <<>>]
  ELSE [st EXCEPT !.slots = t.slots,
                  !.out = @ \o IF isDropMetricNameTooLong(Len(<<>>), limit) THEN <<>>
                               ELSE Points(WriteTagged(t.metric), k, ts, t.offset + 1)]
unpackFast(limit, req) ==
  LET step(st, k) == TakeSeries(limit, st, timeSeries(st.slots, req[k]), k, req[k])
      st == FoldLeftDomain(step, [slots |-> <<>>, error |-> FALSE, out |-> <<>>], req)
  IN [error |-> st.error, out |-> st.out]

(***************************************************************************)
(* unpackDefault.                                                          *)
(***************************************************************************)
LabelsOf(ts) == SelectSeq(ts, LAMBDA x : x.f = "label")
Decoded(ts) ==                               \* a part that is not there is ""
  LET part(v) == IF v = Absent THEN <<>> ELSE v
  IN [i \in DOMAIN LabelsOf(ts) |->
        [key |-> part(LabelsOf(ts)[i].name), value |-> part(LabelsOf(ts)[i].value)]]
Prometheus(labels) ==
  LET i == SelectInSeq(labels, LAMBDA l : l.key = NameLabel)
      a == IF i = 0 THEN labels ELSE Swap(labels, 1, i)
      b == IF i = 0 THEN Stable(a) ELSE <<a[1]>> \o Stable(Tail(a))
      pairs == [k \in 1 .. Len(b) - 1 |->
                  escape(b[k + 1].key, "query") \o <<Equal>> \o escape(b[k + 1].value, "query")]
  IN (IF i = 0 THEN <<>> ELSE escape(b[1].value, "path")) \o <<Question>> \o Join(pairs, <<Amp>>)
unpackDefault(limit, req) ==
  LET points(k) == LET metric == Prometheus(Decoded(req[k]))
                   IN IF isDropMetricNameTooLong(Len(metric), limit) THEN <<>>
                      ELSE Points(metric, k, req[k], 1)
  IN FlattenSeq([k \in DOMAIN req |-> points(k)])
-----------------------------------------------------------------------------
Whole(ts) == SelectSeq(LabelsOf(ts), LAMBDA x : Absent \notin {x.name, x.value})
NameLabels(ts) == SelectSeq(Whole(ts), LAMBDA x : x.name = NameLabel)
Others(ts) == {x \in ToSet(Whole(ts)) : x.name # NameLabel}
\* the sample that is passed over: the first field, if there is another sample
Skipped(ts) ==
  IF ts # <<>> /\ Head(ts).f = "sample" /\ \E i \in 2 .. Len(ts) : ts[i].f = "sample"
  THEN {1} ELSE {}
Distinct(ts) == \A i, j \in DOMAIN Whole(ts) : Whole(ts)[i].name = Whole(ts)[j].name => i = j

\* The name that unpackFast stores, as unpackDefault would store it.
AsDefault(ts, stored) ==
  LET raw == NameLabels(ts)[1].value
  IN escape(raw, "path") \o SubSeq(stored, Len(raw) + 1, Len(stored))
       \o (IF Others(ts) = {} THEN <<Question>> ELSE <<>>)

\* out as unpackDefault would give it
AllAsDefault(req, out) ==
  [i \in DOMAIN out |-> <<AsDefault(req[out[i][2]], out[i][1]), out[i][2], out[i][3]>>]

\* What unpackDefault gives for the requests as they are read: without the labels that
\* lack a part, and without the samples that are passed over.
Read(limit, req) ==
  LET whole(ts) == [i \in DOMAIN ts |->
                      IF ts[i].f = "label" /\ Absent \in {ts[i].name, ts[i].value}
                      THEN [f |-> "other"] ELSE ts[i]]
  IN SelectSeq(unpackDefault(limit, [k \in DOMAIN req |-> whole(req[k])]),
               LAMBDA p : p[3] \notin Skipped(req[p[2]]))

\* unpackFast gives, under the names it uses, all that unpackDefault gives without a limit,
\* and unpackDefault only those whose names are within it.
Alike(limit, req, fast) ==
  /\ ~fast.error
  /\ \A p \in ToSet(fast.out) : IsPrefix(NameLabels(req[p[2]])[1].value, p[1])
  /\ AllAsDefault(req, fast.out) = Read(0, req)
  /\ SelectSeq(AllAsDefault(req, fast.out), LAMBDA p : ~isDropMetricNameTooLong(Len(p[1]), limit))
       = Read(limit, req)

\* A request whose series have a name, and no two labels of one name, gives the points that
\* the generated code gives, however the labels are ordered and whatever series came before.
\* Exactly these differ: a label without a name or value is left out; a series without other
\* labels is stored untagged; the metric's name is stored as it came, not escaped
\* (prometheus_metric.go:147, tags/prometheus.go:37); a sample before all other fields is
\* lost if there is another one; and drop-longer-than drops nothing (prometheus.go:101, :152).
SeriesAgree(limit, req) ==
  IF \E k \in DOMAIN req : NameLabels(req[k]) = <<>>
    THEN unpackFast(limit, req) = [error |-> TRUE, out |-> <<>>]
    ELSE (\A k \in DOMAIN req : Distinct(req[k])) => Alike(limit, req, unpackFast(limit, req))
=============================================================================
