------------------------------ MODULE TagNames ------------------------------
(***************************************************************************)
(* Tagged names: from "name;key=value;..." of a line, or from a template   *)
(* for a name without tags, to the name in the chunk file (Graphite,       *)
(* GraphiteBuffered), and to the rows of a tagged table (tagsParseToSlice).*)
(*                                                                         *)
(* Keys are ordered as in the code, byte by byte.  Configurations are      *)
(* given parsed: a template part is [kind: "skip", "measurement" or "tag", *)
(* key, star], a filter a sequence of parts, Wild for "*" (which is a part *)
(* of its own here).  Parts do not end in "_".                             *)
(***************************************************************************)
EXTENDS Escape

Failed == <<0>>                              \* an error is returned
Panics == <<1>>                              \* an index is out of range
Wild == <<42>>                               \* "*"
Dot == 46
Split(s, c) ==
  FoldLeft(LAMBDA parts, x : IF x = c THEN Append(parts, <<>>)
                             ELSE [parts EXCEPT ![Len(parts)] = Append(@, x)], << <<>> >>, s)
Join(parts, sep) ==
  FlattenSeq([i \in DOMAIN parts |-> IF i = 1 THEN parts[i] ELSE sep \o parts[i]])
At(s, c) == SelectInSeq(s, LAMBDA x : x = c) \* 0: not there
After(s, i) == SubSeq(s, i + 1, Len(s))

Less(a, b) ==
  \/ IsStrictPrefix(a, b)
  \/ \E i \in DOMAIN a : /\ i \in DOMAIN b /\ a[i] < b[i]
                         /\ \A j \in 1 .. i - 1 : a[j] = b[j]

(***************************************************************************)
(* kvParse, the sort and the removal of duplicates.                        *)
(***************************************************************************)
KV(seg) == [key |-> SubSeq(seg, 1, At(seg, Equal) - 1), value |-> After(seg, At(seg, Equal))]
\* every segment has a "=" that is not its first byte
Parses(segs) == \A i \in DOMAIN segs : At(segs[i], Equal) >= 2
kvParse(s) == LET segs == Split(s, Semicolon) IN [i \in DOMAIN segs |-> KV(segs[i])]

\* sort.Stable
Stable(arr) ==
  LET before(i, j) == \/ Less(arr[i].key, arr[j].key)
                      \/ arr[i].key = arr[j].key /\ i < j
      order == SetToSortSeq(DOMAIN arr, before)
  IN [k \in DOMAIN arr |-> arr[order[k]]]

\* the loop after the sort: a later pair with the key of the one before overwrites it
UniqFirst(arr) ==                            \* mutant: the earlier pair stays
  SelectSeq(arr, LAMBDA x : arr[SelectInSeq(arr, LAMBDA y : y.key = x.key)] = x)
Uniq(arr) ==
  FoldLeft(LAMBDA kept, x : IF kept # <<>> /\ Last(kept).key = x.key THEN Append(Front(kept), x)
                            ELSE Append(kept, x), <<>>, arr)

Tagged(name, arr) ==
  escapeTo(name, "path") \o <<Question>>
  \o Join([i \in DOMAIN arr |->
             escapeTo(arr[i].key, "query") \o <<Equal>> \o escapeTo(arr[i].value, "query")], <<Amp>>)

(***************************************************************************)
(* Templates.                                                              *)
(***************************************************************************)
\* makeRegexp: "*" at an end leaves that end open, in between it is one part; without
\* a filter the pattern is one that any name with a dot matches
FilterMatches(filter, parts) ==
  LET open  == filter # <<>> /\ Head(filter) = Wild
      close == Len(filter) > 1 /\ Last(filter) = Wild
      core  == SubSeq(filter, IF open THEN 2 ELSE 1, IF close THEN Len(filter) - 1 ELSE Len(filter))
      at(k) == \A i \in DOMAIN core : core[i] \in {Wild, parts[k + i]}
  IN IF filter = <<>> THEN Len(parts) > 1
     ELSE IF core = <<>> THEN TRUE
     ELSE \E k \in 0 .. Len(parts) - Len(core) :
            /\ at(k)
            /\ IF open THEN k > 0 ELSE k = 0
            /\ IF close THEN k + Len(core) < Len(parts) ELSE k + Len(core) = Len(parts)

\* the length of the name against the template
Fits(tpl, parts) == Len(parts) = Len(tpl) \/ (Last(tpl).star /\ Len(parts) > Len(tpl))
Extend(f, g) == [k \in DOMAIN f \cup DOMAIN g |-> IF k \in DOMAIN g THEN g[k] ELSE f[k]]

\* the loop over the parts; t = [m: measurement, tags, done, panic]
TemplatePart(cfg, tpl, parts, t, i) ==
  LET p == tpl[i]
      old == IF p.key \in DOMAIN t.tags THEN t.tags[p.key] \o cfg.separator ELSE <<>>
  IN IF t.done \/ t.panic THEN t
     ELSE IF i > Len(tpl) THEN [t EXCEPT !.panic = TRUE]     \* desc.Template[i]
     ELSE CASE p.kind = "skip" -> t
            [] p.kind = "measurement" /\ ~p.star -> [t EXCEPT !.m = @ \o parts[i] \o cfg.separator]
            [] p.kind = "measurement" /\ p.star  ->
                 [t EXCEPT !.m = @ \o Join(After(parts, i - 1), cfg.separator), !.done = TRUE]
            [] p.kind = "tag" -> [t EXCEPT !.tags = Extend(@, p.key :> (old \o parts[i]))]
TrimSuffix(m) == IF m # <<>> /\ Last(m) = 95 THEN Front(m) ELSE m          \* "_"
ApplyTemplate(cfg, desc, parts) ==
  FoldLeftDomain(LAMBDA t, i : TemplatePart(cfg, desc.template, parts, t, i),
                 [m |-> <<>>, tags |-> Extend(cfg.tags, desc.extra), done |-> FALSE, panic |-> FALSE],
                 parts)

\* the first description that fits; without one the name is empty
Fitting(cfg, parts) ==
  SelectInSeq(cfg.descs, LAMBDA d : FilterMatches(d.filter, parts) /\ Fits(d.template, parts))
toGraphiteTagged(cfg, s) ==
  LET parts == Split(s, Dot)
      k == Fitting(cfg, parts)
      t == ApplyTemplate(cfg, cfg.descs[k], parts)
      keys == SetToSeq(DOMAIN t.tags)        \* in the order of the map
  IN IF k = 0 THEN <<>>
     ELSE IF t.panic THEN Panics
     ELSE TrimSuffix(t.m)
          \o FlattenSeq([i \in DOMAIN keys |-> <<Semicolon>> \o keys[i] \o <<Equal>> \o t.tags[keys[i]]])

(***************************************************************************)
(* Graphite, GraphiteBuffered: what is stored as the name of a point.      *)
(***************************************************************************)
Graphite(cfg, line) ==
  LET s == IF cfg.enabled /\ At(line, Semicolon) = 0 THEN toGraphiteTagged(cfg, line) ELSE line
      pos == At(s, Semicolon)
      rest == After(s, pos)
  IN IF pos = 0 THEN s
     ELSE IF pos = 1 THEN Failed
     ELSE IF ~Parses(Split(rest, Semicolon)) THEN Failed
     ELSE Tagged(SubSeq(s, 1, pos - 1), Uniq(Stable(kvParse(rest))))

(***************************************************************************)
(* tagsParseToSlice, in the tagged uploader: name and "key=value" strings. *)
(***************************************************************************)
tagsParseToSlice(path) ==
  LET delim == At(path, Question)
      n == Len(path)
      more[i \in 1 .. n + 2] ==              \* the loop, at args = path[i:]
        LET args == SubSeq(path, i, n)
            eq   == At(args, Equal)
            end  == eq + At(After(args, eq), Amp)
        IN IF i > n \/ eq = 0 THEN <<>>
           ELSE IF end = eq THEN <<Unescape(args)>>
           ELSE <<Unescape(SubSeq(args, 1, end - 1))>> \o more[i + end]
  IN IF delim < 2 THEN Failed
     ELSE <<Unescape(SubSeq(path, 1, delim - 1)), more[delim + 1]>>
-----------------------------------------------------------------------------
(***************************************************************************)
(* What a tagged table gets for a name with the given tags, a function     *)
(* from keys to values: every tag once, in the order of keys.              *)
(***************************************************************************)
Rows(name, tags) ==
  LET keys == SetToSortSeq(DOMAIN tags, Less)
  IN <<KeptName(name),
       [i \in DOMAIN keys |-> KeptTag(keys[i]) \o <<Equal>> \o KeptTag(tags[keys[i]])]>>
\* of a key that comes twice the last value counts
LastValues(pairs) ==
  [k \in {pairs[i].key : i \in DOMAIN pairs} |->
     pairs[SelectLastInSeq(pairs, LAMBDA p : p.key = k)].value]
Stored(cfg, line) == tagsParseToSlice(Graphite(cfg, line))

\* a line with tags
TagsAgree(cfg, line) ==
  LET segs == Split(line, Semicolon)
      pairs == [i \in DOMAIN Tail(segs) |-> KV(Tail(segs)[i])]
  IN IF Head(segs) = <<>> \/ ~Parses(Tail(segs)) THEN Graphite(cfg, line) = Failed
     ELSE Stored(cfg, line) = Rows(Head(segs), LastValues(pairs))

\* a line without tags, under templates: the parts with the same key are joined, after
\* the configured value; a name that no template fits is stored without any name, and
\* one made with a separator other than "_" keeps it at the end
Chosen(parts, tpl, P(_)) ==
  LET at == SelectSeq([i \in DOMAIN parts |-> i], LAMBDA i : P(tpl[IF i > Len(tpl) THEN Len(tpl) ELSE i]))
  IN [k \in DOMAIN at |-> parts[at[k]]]
TemplateTags(cfg, d, parts) ==
  LET base == Extend(cfg.tags, d.extra)
      here(k) == Chosen(parts, d.template, LAMBDA p : p.kind = "tag" /\ p.key = k)
      keys == {d.template[i].key : i \in {j \in DOMAIN d.template : d.template[j].kind = "tag"}}
  IN [k \in DOMAIN base \cup keys |->
        Join((IF k \in DOMAIN base THEN <<base[k]>> ELSE <<>>) \o here(k), cfg.separator)]
TemplatesAgree(cfg, parts) ==
  LET line == Join(parts, <<Dot>>)
      k == Fitting(cfg, parts)
      d == cfg.descs[k]
      measured == Chosen(parts, d.template, LAMBDA p : p.kind = "measurement")
      open == /\ measured # <<>> /\ cfg.separator # <<95>>
              /\ \A i \in DOMAIN d.template : d.template[i].kind = "measurement" => ~d.template[i].star
      m == Join(measured, cfg.separator) \o (IF open THEN cfg.separator ELSE <<>>)
      tags == TemplateTags(cfg, d, parts)
  IN IF k = 0 THEN Graphite(cfg, line) = <<>>
     ELSE IF Len(parts) > Len(d.template) /\ Last(d.template).kind # "measurement"
          THEN Graphite(cfg, line) = Panics
     ELSE IF DOMAIN tags = {} THEN Graphite(cfg, line) = m
     ELSE IF m = <<>> THEN Graphite(cfg, line) = Failed
     ELSE Stored(cfg, line) = Rows(m, tags)
=============================================================================
