------------------------------- MODULE Escape -------------------------------
(***************************************************************************)
(* helper/escape: names and tags as strings that can be put together with  *)
(* "?", "&" and "=" and taken apart again.  A string is a sequence of byte *)
(* codes.  Of the modes of shouldEscape the two that are used: "path" for  *)
(* names and "query" for tags.                                             *)
(***************************************************************************)
EXTENDS Integers, Sequences, SequencesExt, FiniteSetsExt

Space == 32
Percent == 37
Amp == 38
Plus == 43
Semicolon == 59
Equal == 61
Question == 63
Alnum == 48 .. 57 \cup 65 .. 90 \cup 97 .. 122
Reserved == {36, Amp, Plus, 44, 47, 58, Semicolon, Equal, Question, 64}   \* $&+,/:;=?@

PercentStays(c, mode) ==                     \* mutant: the escape character itself
  /\ c \notin Alnum \cup {45, 46, 95, 126, Percent}
  /\ c \in Reserved => mode = "query" \/ c = Question
shouldEscape(c, mode) ==
  /\ c \notin Alnum \cup {45, 46, 95, 126}                                \* - . _ ~
  /\ c \in Reserved => mode = "query" \/ c = Question

HexDigit(d) == IF d < 10 THEN 48 + d ELSE 55 + d
Escaped(c, mode) ==
  IF c = Space /\ mode = "query" THEN <<Plus>>
  ELSE IF shouldEscape(c, mode) THEN <<Percent, HexDigit(c \div 16), HexDigit(c % 16)>>
  ELSE <<c>>
escape(s, mode) == FlattenSeq([i \in DOMAIN s |-> Escaped(s[i], mode)])

\* escapeTo copies what lies between two escaped bytes; after the last one it copies
\* the rest if that is more than one byte (`pos < len(s)-1`)
CopiesRest(s, pos) == pos < Len(s) - 1
escapeTo(s, mode) ==
  LET step(st, i) == IF ~shouldEscape(s[i], mode) THEN st
                     ELSE [out |-> st.out \o SubSeq(s, st.pos + 1, i - 1) \o Escaped(s[i], mode),
                           pos |-> i]
      st == FoldLeftDomain(step, [out |-> <<>>, pos |-> 0], s)
  IN IF st.pos = 0 THEN s
     ELSE IF CopiesRest(s, st.pos) THEN st.out \o SubSeq(s, st.pos + 1, Len(s))
     ELSE st.out

ishex(c) == c \in 48 .. 57 \cup 65 .. 70 \cup 97 .. 102
unhex(c) == IF c <= 57 THEN c - 48 ELSE IF c <= 70 THEN c - 55 ELSE c - 87
\* two characters follow a "%" or it stands for itself, with what follows
Unescape(s) ==
  LET n == Len(s)
      u[i \in 1 .. n + 3] ==
        IF i > n THEN <<>>
        ELSE IF s[i] = Percent /\ i + 2 > n THEN SubSeq(s, i, n)
        ELSE IF s[i] = Percent /\ ishex(s[i + 1]) /\ ishex(s[i + 2])
             THEN <<16 * unhex(s[i + 1]) + unhex(s[i + 2])>> \o u[i + 3]
        ELSE IF s[i] = Percent THEN SubSeq(s, i, i + 2) \o u[i + 3]
        ELSE IF s[i] = Plus THEN <<Space>> \o u[i + 1]
        ELSE <<s[i]>> \o u[i + 1]
  IN u[1]
-----------------------------------------------------------------------------
\* What comes back: a tag as it was, but without its last byte if that is the one byte
\* after the last escaped one; of a name the "+" too, which "path" leaves alone.
LastEscaped(s, mode) == SelectLastInSeq(s, LAMBDA c : shouldEscape(c, mode))
Kept(s, mode) ==
  IF LastEscaped(s, mode) > 0 /\ LastEscaped(s, mode) = Len(s) - 1 THEN Front(s) ELSE s
KeptName(s) == ReplaceAll(Kept(s, "path"), Plus, Space)
KeptTag(s) == Kept(s, "query")

EscapeAgrees(s) ==
  /\ Unescape(escape(s, "query")) = s
  /\ Unescape(escape(s, "path")) = ReplaceAll(s, Plus, Space)
  /\ Unescape(escapeTo(s, "query")) = KeptTag(s)
  /\ Unescape(escapeTo(s, "path")) = KeptName(s)
  \* the separators of a tagged name do not occur in its parts
  /\ \A i \in DOMAIN escapeTo(s, "query") :
       escapeTo(s, "query")[i] \notin {Question, Amp, Equal, Semicolon, Space}
  /\ \A i \in DOMAIN escapeTo(s, "path") : escapeTo(s, "path")[i] # Question
=============================================================================
