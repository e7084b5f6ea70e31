------------------------------ MODULE Telegraf ------------------------------
(***************************************************************************)
(* The metrics of a Telegraf request: TelegrafHttpJson.process and         *)
(* TelegrafEncodeTags.                                                     *)
(*                                                                         *)
(* A metric is [name, tags, fields], the last two functions of strings     *)
(* (sequences of byte codes), as json.Unmarshal makes them; t of a field   *)
(* is its type, "number" (with its value v), "true", "false" or "string".  *)
(* JSON has no NaN.  Of the filters of a point the one that can tell the   *)
(* fields of a metric apart is here, the limit of the length of a name.    *)
(***************************************************************************)
EXTENDS TagNames

NameTag == <<110>>                           \* "name"
ValueField == <<118>>                        \* "value"

\* with a single tag the key is written as it is
TelegrafKey(tags, key) ==
  IF Cardinality(DOMAIN tags) > 1 /\ key = NameTag THEN <<95>> \o key ELSE key
TelegrafEncodeTags(tags) ==
  LET keys == SetToSortSeq(DOMAIN tags, Less)
  IN Join([i \in DOMAIN keys |-> escape(TelegrafKey(tags, keys[i]), "query") \o <<Equal>>
                                 \o escape(tags[keys[i]], "query")], <<Amp>>)

Value(x) == CASE x.t = "true" -> 1 [] x.t = "false" -> 0 [] OTHER -> x.v
TelegrafPath(concat, m, f) ==
  escape(m.name, "path") \o (IF f = ValueField THEN <<>> ELSE concat \o escape(f, "path"))
  \o <<Question>> \o TelegrafEncodeTags(m.tags)

\* The points of one metric, its fields in the given order (that of a Go map): other
\* types are passed over, and a field that is dropped ends the metric.
process(concat, limit, m, order) ==
  LET usable == SelectSeq(order, LAMBDA f : m.fields[f].t \in {"number", "true", "false"})
      drop == SelectInSeq(usable, LAMBDA f : limit # 0 /\ Len(TelegrafPath(concat, m, f)) > limit)
      kept == IF drop = 0 THEN usable ELSE SubSeq(usable, 1, drop - 1)
  IN [i \in DOMAIN kept |-> [name |-> TelegrafPath(concat, m, kept[i]), value |-> Value(m.fields[kept[i]])]]
-----------------------------------------------------------------------------
\* A tagged table gets every field that is a number or a Boolean, in whatever order the map
\* gives them, under its own name and with every tag once; "name" is "_name" there unless it
\* is the only tag.  If a field is too long, those that come before it in that order are kept.
TelegrafAgrees(concat, limit, m) ==
  LET usable == {f \in DOMAIN m.fields : m.fields[f].t # "string"}
      long == {f \in usable : limit # 0 /\ Len(TelegrafPath(concat, m, f)) > limit}
      alone == Cardinality(DOMAIN m.tags) = 1
      tag(k) == (IF k = NameTag /\ ~alone THEN <<95>> ELSE <<>>) \o k \o <<Equal>> \o m.tags[k]
      keys == SetToSortSeq(DOMAIN m.tags, Less)
      name(f) == ReplaceAll(IF f = ValueField THEN m.name ELSE m.name \o concat \o f, Plus, Space)
      point(f) == <<<<name(f), [i \in DOMAIN keys |-> tag(keys[i])]>>,
                    Value(m.fields[f])>>
  IN \A order \in SetToSeqs(DOMAIN m.fields) :
       LET out == process(concat, limit, m, order)
           rows == [i \in DOMAIN out |-> <<tagsParseToSlice(out[i].name), out[i].value>>]
           before == {f \in usable : \A i, j \in DOMAIN order :
                                       order[i] = f /\ order[j] \in long => i < j}
       IN /\ ToSet(rows) = {point(f) : f \in before}
          /\ Len(rows) = Cardinality(before)
=============================================================================
