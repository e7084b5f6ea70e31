----------------------------- MODULE MCParsing -----------------------------
EXTENDS Parsing, TLC

UpTo(set, n) == [i \in 1 .. n |-> set]

\* series: all of at most four fields, and one in each order; then one of a few
L(n, v) == [f |-> "label", name |-> n, value |-> v]
Name == L(NameLabel, <<109>>)
Hard == L(NameLabel, <<32, 63>>)             \* needs an escape
A == L(<<97>>, <<49, 58>>)
B == L(<<98>>, <<50>>)
C == L(<<99>>, <<>>)
Sample == [f |-> "sample", nan |-> FALSE]
Fields == {Name, Hard, A, B, L(<<97>>, Absent), Sample, [f |-> "sample", nan |-> TRUE], [f |-> "other"]}
First == SeqOf(Fields, 4) \cup {[i \in 1 .. 5 |-> <<Name, A, B, C, Sample>>[f[i]]] : f \in Permutations(1 .. 5)}
Second == {<<Sample, Name, Sample>>, <<Name, L(<<98>>, Absent), Sample>>, <<L(Absent, <<50>>), Name, Sample>>,
           <<C, Hard, A, Sample>>, <<A, Sample>>}

\* Telegraf: metrics with up to three tags and fields
Partial(keys, values) == UNION {[K -> values] : K \in SUBSET keys}
Metrics == [name : {<<109>>, <<109, 43, 63>>},
            tags : Partial({NameTag, <<97>>, <<98, 38>>}, {<<49>>, <<50, 61>>}),
            fields : Partial({ValueField, <<102>>, <<103, 43, 104>>},
                             {[t |-> "number", v |-> 7], [t |-> "true"], [t |-> "string"]})]

\* names of an index: parts that are short, and so long that two or three do not fit
P(i, n) == [id |-> i, len |-> n]
Names == {<<P(1, 1)>>, <<P(1, 1), P(2, 1)>>, <<P(1, 1), P(2, 1), P(3, 5)>>, <<P(1, 1), P(4, 60000)>>,
          <<P(1, 1), P(4, 60000), P(2, 1)>>, <<P(5, 130000), P(6, 1)>>, <<P(7, 300000)>>}

\* lines with tags
Heads == {<<>>, <<97>>, <<97, 43>>, <<97, 63, 98>>, <<97, 32, 98, 99>>}
Tags == {<<97, 61, 49>>, <<97, 61, 50, 58>>, <<98, 61, 50>>, <<98, 58, 99, 61, 51>>, <<98, 61>>, <<61, 49>>, <<97>>,
         <<97, 61, 98, 61, 38, 49, 50>>}

Part(kind, key, star) == [kind |-> kind, key |-> key, star |-> star]
M(star) == Part("measurement", <<>>, star)
T(key) == Part("tag", key, FALSE)
Skip == Part("skip", <<>>, FALSE)
NoTags == [k \in {} |-> <<>>]
Desc(filter, template, extra) == [filter |-> filter, template |-> template, extra |-> extra]
Tpl(tags, sep, descs) == [enabled |-> TRUE, separator |-> sep, tags |-> tags, descs |-> descs]
MCConfigs ==
  {Tpl(NoTags, <<95>>, <<Desc(<<<<97>>, Wild>>, <<M(FALSE), T(<<104>>)>>, NoTags),
                 Desc(<<Wild, <<98>>>>, <<T(<<104>>), Skip, M(TRUE)>>, <<107>> :> <<49>>),
                 Desc(<<>>, <<T(<<104>>), M(FALSE), T(<<104>>), M(FALSE)>>, NoTags)>>),
   Tpl(<<104>> :> <<120>>, <<95>>, <<Desc(<<<<97>>, Wild, <<98>>>>, <<M(FALSE), T(<<104>>), M(FALSE)>>, <<104>> :> <<121>>),
                             Desc(<<<<98>>, Wild>>, <<M(FALSE), Part("tag", <<105, 42>>, TRUE)>>, NoTags),
                             Desc(<<Wild>>, <<M(TRUE)>>, NoTags)>>),
   Tpl(<<107>> :> <<49>>, <<45>>, <<Desc(<<Wild, <<98>>, Wild>>, <<M(FALSE), T(<<104>>), M(FALSE)>>, NoTags),
                                    Desc(<<Wild>>, <<M(FALSE), M(TRUE)>>, NoTags)>>)}

\* clocks that change around a midnight and in the middle of a day
Zones == {[base |-> b, shift |-> x, at |-> 480 - b + h] :
            b \in {-11, -4, -1, 0, 1, 3, 14}, x \in -2 .. 2, h \in {-2, -1, 0, 1, 2, 9}}
Block(n, sent, rest, stored) == [n |-> n, sent |-> sent, rest |-> rest, stored |-> stored]
Blocks == {Block(n, l[1], r, l[2]) : n \in {1, 9000, 18000}, l \in {<<1, 1>>, <<8, 8>>, <<9, 9>>, <<130, 130>>, <<9, 27>>},
                                     r \in {5, 14}}

MCInputs ==
  "tcp"      :> UpTo({"a", "\n", "|"}, 8) @@
  "udp"      :> UpTo({"a", "\n", "|"}, 7) @@
  "line"     :> Append(UpTo({"a", ".", " ", "1", "-", "\r"}, 6), {"1", "\r"}) @@
  "dots"     :> UpTo({"a", "."}, 9) @@
  "pack"     :> UpTo({1, 100000, 524238, 524239, 524264, 524265, 524288}, 4) @@
  "plain"    :> UpTo(Blocks, 2) @@
  "drop"     :> UpTo(0 .. Word - 1, 4) @@
  "ring"     :> UpTo({"x"}, 8) @@
  "days"     :> <<Zones, {24 * d + h : d \in {0, 9, 10, 11, 19, 20, 21, 30, 31, 39}, h \in 0 .. 23}>> @@
  "escape"   :> UpTo({97, 58, 43, 32, 37, 63, 50}, 5) @@
  "tags"     :> <<Heads, Tags, Tags, Tags>> @@
  "template" :> UpTo({<<97>>, <<98>>, <<120>>}, 4) @@
  "series"   :> <<First, Second>> @@
  "telegraf" :> <<Metrics>> @@
  "path"     :> UpTo({Dot, 97, 98, Question}, 6) @@
  "index"    :> UpTo(Names, 3)

\* "a.*" "*.b" "a.b.a" "a.*.b" "*.b.a" "a"
MCPatterns == {<<97, 46, 42>>, <<42, 46, 98>>, <<97, 46, 98, 46, 97>>, <<97, 46, 42, 46, 98>>,
               <<42, 46, 98, 46, 97>>, <<97>>}
=============================================================================
