------------------------------- MODULE Paths -------------------------------
(***************************************************************************)
(* Paths and their reverse: the three ways RowBinary turns "a.b.c" into    *)
(* "c.b.a", and the blacklist of the points uploaders, which looks up a    *)
(* path in trees of patterns, or its reverse in trees of their reverses.   *)
(*                                                                         *)
(* A path is a sequence of byte codes.  A tree is the set of its nodes,    *)
(* a node the sequence of keys that lead to it.                            *)
(***************************************************************************)
EXTENDS TagNames

(***************************************************************************)
(* reverseMetricInplace: all bytes, then the bytes of each part again.     *)
(***************************************************************************)
ReversePart(m, a, b) == [i \in DOMAIN m |-> IF i \in a .. b THEN m[a + b - i] ELSE m[i]]
PartEnds(st, b) ==
  IF st.m[b] # Dot THEN st ELSE [m |-> ReversePart(st.m, st.a, b - 1), a |-> b + 1]
reverseMetricInplace(m) ==
  LET st == FoldLeftDomain(PartEnds, [m |-> Reverse(m), a |-> 1], m)
  IN ReversePart(st.m, st.a, Len(m))

(***************************************************************************)
(* ReverseBytesTo: parts are copied into dst from its end; what dst held   *)
(* before is Stale.                                                        *)
(***************************************************************************)
Stale == 0
CopyTo(dst, at, x) ==
  [i \in DOMAIN dst |-> IF i \in at .. at + Len(x) - 1 THEN x[i - at + 1] ELSE dst[i]]
CopyPart(st, b) ==
  IF st.src[b] # Dot THEN st
  ELSE LET p == Len(st.src) - b + 1          \* where the dot goes
           dst == CopyTo(st.dst, p + 1, SubSeq(st.src, st.a, b - 1))
       IN [src |-> st.src, dst |-> CopyTo(dst, p, <<Dot>>), a |-> b + 1]
ReverseBytesTo(src) ==
  LET st == FoldLeftDomain(CopyPart, [src |-> src, dst |-> [i \in DOMAIN src |-> Stale], a |-> 1],
                           src)
  IN IF st.a = 1 THEN CopyTo(st.dst, 1, src)
     ELSE CopyTo(st.dst, 1, SubSeq(src, st.a, Len(src)))

\* WriteReversePath: part by part from the last dot
WriteReversePath(src) ==
  LET rest[n \in 0 .. Len(src)] ==           \* of the first n bytes
        LET p == SubSeq(src, 1, n)
            i == SelectLastInSeq(p, LAMBDA c : c = Dot)
        IN IF i = 0 THEN p ELSE After(p, i) \o <<Dot>> \o rest[i - 1]
  IN rest[Len(src)]

(***************************************************************************)
(* Blacklist.  buildTrees, for the patterns of one length, and Contains.   *)
(***************************************************************************)
Prefixed(paths) == UNION {{SubSeq(p, 1, l) : l \in 0 .. Len(p)} : p \in paths}
buildTrees(paths) ==
  [L2R |-> Prefixed(paths), R2L |-> Prefixed({Reverse(p) : p \in paths})]
NewBlacklist(patterns) ==
  LET paths == {Split(p, Dot) : p \in patterns}
  IN [l \in {Len(p) : p \in paths} |-> buildTrees({p \in paths : Len(p) = l})]

OneTurn(tree, path, node) ==                 \* mutant: no way back from an exact match
  LET x == path[Len(node) + 1]
  IN IF Append(node, x) \in tree THEN {Append(node, x)} ELSE {Append(node, Wild)} \cap tree
\* the part itself or "*"
Turns(tree, path, node) == {Append(node, x) : x \in {path[Len(node) + 1], Wild}} \cap tree
containsInner(tree, path) ==
  LET inner[node \in tree] == \/ Len(node) = Len(path)
                              \/ \E n \in Turns(tree, path, node) : inner[n]
  IN inner[<<>>]
BlacklistContains(list, value, isReverse) ==
  LET path == Split(value, Dot)
  IN /\ Len(path) \in DOMAIN list
     /\ containsInner(IF isReverse THEN list[Len(path)].R2L ELSE list[Len(path)].L2R, path)

\* parseAndFilter: what the uploader stores for a name; a tagged one is left as it is
parseAndFilter(list, name, isReverse) ==
  LET tagged == At(name, Question) # 0
      read == IF isReverse /\ ~tagged THEN reverseMetricInplace(name) ELSE name
  IN IF ~tagged /\ BlacklistContains(list, read, isReverse) THEN {} ELSE {read}
-----------------------------------------------------------------------------
ReversePath(name) == Join(Reverse(Split(name, Dot)), <<Dot>>)
Ignored(patterns, name) ==
  \E p \in patterns :
    LET pattern == Split(p, Dot)
        path == Split(name, Dot)
    IN Len(pattern) = Len(path) /\ \A i \in DOMAIN path : pattern[i] \in {path[i], Wild}

\* The three reverses are the path with its parts in the opposite order, and a points and
\* a reverse points table leave out the same names: those that a pattern matches.
PathsAgree(patterns, name) ==
  LET tagged == At(name, Question) # 0
      left == ~tagged /\ Ignored(patterns, name)
      list == NewBlacklist(patterns)
  IN /\ reverseMetricInplace(name) = ReversePath(name)
     /\ ReverseBytesTo(name) = ReversePath(name)
     /\ WriteReversePath(name) = ReversePath(name)
     /\ parseAndFilter(list, name, FALSE) = IF left THEN {} ELSE {name}
     /\ parseAndFilter(list, name, TRUE) =
          IF left THEN {} ELSE {IF tagged THEN name ELSE ReversePath(name)}
=============================================================================
