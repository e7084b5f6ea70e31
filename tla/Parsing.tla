------------------------------ MODULE Parsing ------------------------------
(***************************************************************************)
(* The algorithms that turn what arrives into rows, over all inputs up to  *)
(* a length: an input of some kind grows element by element, and every     *)
(* state checks the operators of its kind against their references.        *)
(***************************************************************************)
EXTENDS Lines, Packing, Series, Telegraf, Paths, Days

CONSTANTS Inputs,   \* per kind the sets of the first, second, ... element
          Patterns, \* of the blacklist
          Configs   \* tags.TagConfig: templates and tags

ASSUME ParsingBounds ==
  /\ BufferSize \in Nat \ {0} /\ Word \in Nat \ {0} /\ Ring \in Nat \ {0}
  /\ WriteBufferSize \in Nat /\ ReadBufferSize \in Nat /\ 2 * ReadBufferSize <= WriteBufferSize

VARIABLE in

Init == in \in {[kind |-> k, s |-> <<>>] : k \in DOMAIN Inputs}
Grow ==
  LET sets == Inputs[in.kind]
  IN /\ Len(in.s) < Len(sets)
     /\ \E x \in sets[Len(in.s) + 1] : in' = [in EXCEPT !.s = Append(@, x)]
Next == Grow
Spec == Init /\ [][Next]_in

Complete(kind) == in.kind = kind /\ Len(in.s) = Len(Inputs[kind])
-----------------------------------------------------------------------------
\* However a byte stream is cut into reads, the parsers get every line once, in order, up to
\* a line longer than the buffer, and then the handler spins without reading (tcp.go:66);
\* of a datagram they get what its last end of line completes (udp.go:56).
LinesOnce ==
  /\ in.kind = "tcp" => TcpAgrees(in.s)
  /\ in.kind = "udp" => UdpAgrees(in.s)

\* PlainParseLine takes exactly the lines "name value time", with or without "\r" at the
\* end, and collapses the dots of a name, although it looks at every second byte only.
LineParsed ==
  /\ in.kind = "line" => LineAgrees(in.s)
  /\ in.kind = "dots" => RemoveDoubleDot(in.s) = Collapsed(in.s)

\* Points get into write buffers once, in order and without an overrun; names are refused
\* only when too long, and of a pickle message only what follows one panics (nil wb,
\* pickle_parser.go:61); plain lines overrun when rows are over twice their length.
PointsPacked ==
  /\ in.kind = "pack" => PackAgrees(in.s)
  /\ in.kind = "plain" => PlainAgrees(in.s)

\* isDrop drops exactly what is too old or too far ahead, by limits one Word shorter where
\* a uint32 sum wraps; the ring keeps the last dropped points; a chunk file read after a
\* restart, with a longer table, gets the days it was written with, in any zone, except for
\* the hours that a change of the clock around midnight misdates (date.go:25).
TimesExact ==
  /\ Complete("drop") => AgeAgrees(in.s[1], in.s[2], in.s[3], in.s[4])
  /\ in.kind = "ring" => RingAgrees(in.s)
  /\ Complete("days") => /\ DaysAgree(in.s[1], 40, in.s[2])
                      /\ DaysAgree(in.s[1], 50, in.s[2])

\* What Query and Path escape comes back from Unescape, but for the "+" of a Path, which
\* becomes a space; no separator is in between; of QueryTo and PathTo the last byte is lost
\* if it follows one escaped (url.go:185).
EscapeExact == in.kind = "escape" => EscapeAgrees(in.s)

\* A tagged table gets the name and every tag of a line once, by key, the last value of each,
\* whatever the order of the tags; and those that the first fitting template makes.
TagsStored ==
  /\ in.kind = "tags" /\ Len(in.s) > 1 =>
       \A cfg \in Configs : TagsAgree(cfg, Join(in.s, <<Semicolon>>))
  /\ in.kind = "template" /\ in.s # <<>> => \A cfg \in Configs : TemplatesAgree(cfg, in.s)

\* Reused label slots and the hand-made sort of unpackFast give the points of unpackDefault,
\* but for the five differences that SeriesAgree lists; and every field of a
\* Telegraf metric gives its own point with all the tags, in any map order.
SeriesExact ==
  /\ in.kind = "series" => \A limit \in {0, 5} : SeriesAgree(limit, in.s)
  /\ Complete("telegraf") => \A limit \in {0, 9} : TelegrafAgrees(<<Dot>>, limit, in.s[1])

\* The reverses agree, and both points tables leave out the names that a pattern matches.
PathsMatched == in.kind = "path" => PathsAgree(Patterns, in.s)

\* A name and its parents have their index rows once, if two names fit into the buffer;
\* a name that does not is cached without its rows (index.go:192).
IndexComplete == in.kind = "index" => IndexAgrees(in.s)
=============================================================================
