---------------------------- MODULE IntakeProofs ----------------------------
(***************************************************************************)
(* The stop of the application, for any number of connections, parsers,    *)
(* requests, reads and events, and every configuration: the writer is the  *)
(* last to go, an answered request is stored, and when main returns every  *)
(* buffer that was read is on disk or was given up.  Every counted         *)
(* event is reported exactly once, for any number of counters and events,  *)
(* any size of the queue and of the buffers, and whatever the endpoint     *)
(* does; every variable keeps its type, whose bounds on values are         *)
(* consequences of that sum.                                               *)
(*                                                                         *)
(* The argument for the buffers: main returns after stopAll, stopAll ends  *)
(* after the writer, which flushes, and the writer is stopped when the     *)
(* stream receiver is gone (StopInv).  A buffer that was read is always    *)
(* with its handler, with a parser, with the writer, or done with          *)
(* (CoverInv), and the first three hold nothing any more.                  *)
(***************************************************************************)
EXTENDS Intake, FiniteSetTheorems, SequenceTheorems, Induction

\* The part of the type that the argument needs.
ShapeInv ==
  /\ conn \in [Conns -> [pc : {"new", "read", "send", "gone"}, i : 0 .. MaxReads,
                         closed : BOOLEAN]]
  /\ parser \in [Parsers -> [pc : {"select", "parse", "write", "gone"},
                             b : Buffers \cup {Nothing}]]
  /\ request \in [Requests -> {"new", "parse", "flush", "ok", "error", "cancelled"}]
  /\ \A c \in Conns : conn[c].pc = "send" => conn[c].i # 0
  /\ conf.http = "none" => \A r \in Requests : request[r] = "new"

\* What stopAll has waited for stays gone.
StopInv ==
  /\ app \in {"stopHttp", "stopCollector", "stopWriter", "stopped"} => StreamGone
  /\ app \in {"stopCollector", "stopWriter", "stopped"} => conf.http = "none"
  /\ app \in {"stopWriter", "stopped"} => CollectorGone
  /\ app = "stopped" => writer = "gone"
  /\ writer = "gone" => outBuf = {} /\ app \in {"stopWriter", "stopped"}
  /\ exit = "nil" => app = "stopped"
  /\ loop = "done" => exit = "nil"
  /\ proc = "exited" => loop = "done"

\* A buffer that was read is somewhere.
CoverInv ==
  \A c \in Conns : \A n \in 1 .. conn[c].i :
    \/ conn[c].pc = "send" /\ n = conn[c].i
    \/ \E p \in Parsers : parser[p].pc \in {"parse", "write"} /\ parser[p].b = <<c, n>>
    \/ <<c, n>> \in outBuf \cup disk \cup dropped \cup filtered

IntakeInv == ShapeInv /\ StopInv /\ CoverInv /\ AckIsTaken

-----------------------------------------------------------------------------
LEMMA InitInv == Init => IntakeInv
  <1> SUFFICES ASSUME Init PROVE IntakeInv
    OBVIOUS
  <1>1. ShapeInv
    BY ReadsAssumption DEF Init, ShapeInv, FirstState
  <1>2. StopInv
    BY DEF Init, StopInv
  <1>3. CoverInv
    BY DEF Init, CoverInv, FirstState
  <1>4. AckIsTaken
    BY DEF Init, AckIsTaken
  <1> QED
    BY <1>1, <1>2, <1>3, <1>4 DEF IntakeInv

\* What the goroutine that watches for the stop does to a connection (CloseConn) keeps the shape of
\* the connections.
LEMMA ClosedShape ==
  ASSUME NEW C, NEW P, NEW I, NEW f \in [C -> [pc : P, i : I, closed : BOOLEAN]], NEW c \in C
  PROVE  [f EXCEPT ![c].closed = TRUE] \in [C -> [pc : P, i : I, closed : BOOLEAN]]
  OBVIOUS

LEMMA ShapeStep == ShapeInv /\ [Next]_vars => ShapeInv'
  <1> SUFFICES ASSUME ShapeInv, [Next]_vars PROVE ShapeInv'
    OBVIOUS
  <1> USE DEF ShapeInv, mainVars, rcvVars
  <1>1. ASSUME NEW c \in Conns, Handler(c) PROVE ShapeInv'
    <2>1. CASE Accept(c) \/ ConnEnds(c)
      BY <2>1 DEF Accept, ConnEnds
    <2>4. CASE CloseConn(c)
      <3>1. conn' = [conn EXCEPT ![c].closed = TRUE]
        BY <2>4 DEF CloseConn
      <3>2. conn' \in [Conns -> [pc : {"new", "read", "send", "gone"}, i : 0 .. MaxReads,
                                 closed : BOOLEAN]]
        <4>1. conn \in [Conns -> [pc : {"new", "read", "send", "gone"}, i : 0 .. MaxReads,
                                 closed : BOOLEAN]]
          OBVIOUS
        <4> QED
          BY <3>1, <4>1, ClosedShape, Zenon
      <3>3. \A d \in Conns : conn'[d].pc = conn[d].pc /\ conn'[d].i = conn[d].i
        BY <3>1
      <3> QED
        BY <2>4, <3>2, <3>3 DEF CloseConn
    <2>2. CASE ReadLines(c) \/ ReadFrame(c) \/ ReadDatagram(c)
      BY <2>2, ReadsAssumption DEF ReadLines, ReadFrame, ReadDatagram, ReadBuffer
    <2>3. ASSUME NEW p \in Parsers, HandOver(c, p) PROVE ShapeInv'
      <3>1. <<c, conn[c].i>> \in Buffers
        BY <2>3, ReadsAssumption DEF HandOver, Buffers
      <3> QED
        BY <2>3, <3>1 DEF HandOver
    <2> QED
      BY <1>1, <2>1, <2>2, <2>3, <2>4 DEF Handler
  <1>2. ASSUME NEW p \in Parsers, Parser(p) PROVE ShapeInv'
    BY <1>2 DEF Parser, PlainParseBuffer, PickleParseBytes, ParseBuffer, ParserWrites,
                ParserGivesUp, ParserExits, NextBuffer
  <1>3. ASSUME NEW r \in Requests, Http(r) PROVE ShapeInv'
    BY <1>3 DEF Http, Serve, UnpackFast, Process, ParseBody, FlushRequest, Flush, Become
  <1>4. CASE CloseListener \/ Statistics \/ WriterFlush \/ WriterExits \/ Stop \/ Main
    BY <1>4 DEF CloseListener, Statistics, WriterFlush, WriterExits, Stop, StopStream, StopGoesOn,
                StreamStopped, PrometheusFatal, TelegrafFatal, StopCollector, CollectorStopped,
                WriterStopped, Main, LoopCapture, LoopReceive, MainReturns
  <1>5. CASE UNCHANGED vars
    BY <1>5 DEF vars
  <1> QED
    BY <1>1, <1>2, <1>3, <1>4, <1>5 DEF Next

\* What is gone stays gone: the listener is closed, nobody sends to a parser that has
\* left, and the collector's goroutines have returned.
LEMMA StopStep == ShapeInv /\ StopInv /\ [Next]_vars => StopInv'
  <1> SUFFICES ASSUME ShapeInv, StopInv, [Next]_vars PROVE StopInv'
    OBVIOUS
  <1> USE DEF StopInv, mainVars, rcvVars, sinkVars, collectorVars, CollectorGone
  <1>1. ASSUME NEW c \in Conns, Handler(c) PROVE StopInv'
    <2>1. CASE Accept(c)
      BY <2>1 DEF Accept, StreamGone
    <2>2. CASE ReadLines(c) \/ ReadFrame(c) \/ ReadDatagram(c)
      BY <2>2 DEF ReadLines, ReadFrame, ReadDatagram, ReadBuffer, StreamGone
    <2>3. CASE CloseConn(c) \/ ConnEnds(c)
      BY <2>3 DEF CloseConn, ConnEnds, StreamGone
    <2>4. ASSUME NEW p \in Parsers, HandOver(c, p) PROVE StopInv'
      BY <2>4 DEF HandOver, StreamGone
    <2> QED
      BY <1>1, <2>1, <2>2, <2>3, <2>4 DEF Handler
  <1>2. ASSUME NEW p \in Parsers, Parser(p) PROVE StopInv'
    BY <1>2 DEF Parser, PlainParseBuffer, PickleParseBytes, ParseBuffer, ParserWrites,
                ParserGivesUp, GivesUp, ParserExits, StreamGone
  <1>3. ASSUME NEW r \in Requests, Http(r) PROVE StopInv'
    BY <1>3 DEF Http, Serve, UnpackFast, Process, ParseBody, FlushRequest, Flush, StreamGone
  <1>4. CASE Statistics
    <2>1. CollectorGone => UNCHANGED <<worker, sender>>
      BY <1>4 DEF Statistics, CollectorStep, Count, WorkerStep, Tick, Load, Sub, Offer, WorkerLeaves,
                  SenderStep, ReadData, ReadReturns, Fill, LocalWrites, LocalGivesUp, RemoteStep,
                  RemoteGivesUp, RemoteTries, RemoteFails, RemoteWrites
    <2> QED
      BY <1>4, <2>1 DEF Statistics, StreamGone
  <1>5. CASE CloseListener
    BY <1>5 DEF CloseListener, StreamGone
  <1>6. CASE WriterFlush \/ WriterExits
    BY <1>6 DEF WriterFlush, WriterExits, StreamGone
  <1>7. CASE StopStream \/ StreamStopped
    BY <1>7 DEF StopStream, StreamStopped, StreamGone
  <1>8. CASE PrometheusFatal \/ TelegrafFatal \/ StopCollector \/ CollectorStopped \/ WriterStopped
    BY <1>8 DEF PrometheusFatal, TelegrafFatal, StopCollector, CollectorCancel, CollectorStopped,
                WriterStopped, StreamGone, Running
  <1>9. CASE Main
    BY <1>9 DEF Main, LoopCapture, LoopReceive, MainReturns, StreamGone
  <1>10. CASE UNCHANGED vars
    BY <1>10 DEF vars, StreamGone
  <1> QED
    BY <1>1, <1>2, <1>3, <1>4, <1>5, <1>6, <1>7, <1>8, <1>9, <1>10 DEF Next, Stop, StopGoesOn

\* Handing over, writing, flushing and giving up move a buffer; nothing forgets one.
LEMMA CoverStep == ShapeInv /\ CoverInv /\ [Next]_vars => CoverInv'
  <1> SUFFICES ASSUME ShapeInv, CoverInv, [Next]_vars PROVE CoverInv'
    OBVIOUS
  <1> USE DEF mainVars, rcvVars, sinkVars
  <1> DEFINE Stays == \A x \in outBuf \cup disk \cup dropped \cup filtered :
                        x \in outBuf' \cup disk' \cup dropped' \cup filtered'
  <1>1. ASSUME NEW c \in Conns, Handler(c) PROVE CoverInv'
    <2>1. CASE Accept(c) \/ CloseConn(c) \/ ConnEnds(c)
      <3>1. \A d \in Conns : conn'[d].i = conn[d].i
        BY <2>1 DEF Accept, CloseConn, ConnEnds, ShapeInv
      <3>2. \A d \in Conns : conn[d].pc = "send" => conn'[d].pc = "send"
        BY <2>1 DEF Accept, CloseConn, ConnEnds, ShapeInv
      <3>3. UNCHANGED <<parser, outBuf, disk, dropped, filtered>>
        BY <2>1 DEF Accept, CloseConn, ConnEnds
      <3> QED
        BY <3>1, <3>2, <3>3 DEF CoverInv
    <2>2. CASE ReadLines(c) \/ ReadFrame(c) \/ ReadDatagram(c)
      <3>1. /\ conn[c].pc = "read" /\ conn'[c].pc = "send" /\ conn'[c].i = conn[c].i + 1
            /\ \A d \in Conns \ {c} : conn'[d] = conn[d]
            /\ conn[c].i \in Nat
        BY <2>2, ReadsAssumption DEF ReadLines, ReadFrame, ReadDatagram, ReadBuffer, ShapeInv
      <3>2. UNCHANGED <<parser, outBuf, disk, dropped, filtered>>
        BY <2>2 DEF ReadLines, ReadFrame, ReadDatagram
      <3>3. \A n \in 1 .. conn'[c].i : n = conn'[c].i \/ n \in 1 .. conn[c].i
        BY <3>1
      <3> QED
        BY <3>1, <3>2, <3>3 DEF CoverInv
    <2>3. ASSUME NEW p \in Parsers, HandOver(c, p) PROVE CoverInv'
      <3>1. /\ \A d \in Conns : conn'[d].i = conn[d].i
            /\ \A d \in Conns \ {c} : conn'[d] = conn[d]
            /\ parser'[p].pc = "parse" /\ parser'[p].b = <<c, conn[c].i>>
            /\ parser[p].pc = "select"
            /\ \A q \in Parsers \ {p} : parser'[q] = parser[q]
        BY <2>3 DEF HandOver, ShapeInv
      <3>2. UNCHANGED <<outBuf, disk, dropped, filtered>>
        BY <2>3 DEF HandOver
      <3> QED
        BY <3>1, <3>2 DEF CoverInv
    <2> QED
      BY <1>1, <2>1, <2>2, <2>3 DEF Handler
  <1>2. ASSUME NEW p \in Parsers, Parser(p) PROVE CoverInv'
    <2>1. UNCHANGED conn /\ Stays
      BY <1>2 DEF Parser, PlainParseBuffer, PickleParseBytes, ParseBuffer, ParserWrites,
                  ParserGivesUp, ParserExits
    <2>2. \A q \in Parsers \ {p} : parser'[q] = parser[q]
      BY <1>2 DEF Parser, PlainParseBuffer, PickleParseBytes, ParseBuffer, ParserWrites,
                  ParserGivesUp, ParserExits, NextBuffer, ShapeInv
    <2>3. \/ parser[p].pc \notin {"parse", "write"}
          \/ parser'[p].pc = "write" /\ parser'[p].b = parser[p].b
          \/ parser[p].b \in outBuf' \cup disk' \cup dropped' \cup filtered'
      BY <1>2 DEF Parser, PlainParseBuffer, PickleParseBytes, ParseBuffer, ParserWrites, Sent,
                  ParserGivesUp, ParserExits, ShapeInv
    <2> QED
      BY <2>1, <2>2, <2>3 DEF CoverInv
  <1>3. ASSUME NEW r \in Requests, Http(r) PROVE CoverInv'
    <2>1. UNCHANGED <<conn, parser>> /\ Stays
      BY <1>3 DEF Http, Serve, UnpackFast, Process, ParseBody, FlushRequest, Flush
    <2> QED
      BY <2>1 DEF CoverInv
  <1>4. CASE CloseListener \/ Statistics \/ WriterFlush \/ WriterExits \/ Stop \/ Main
    <2>1. UNCHANGED <<conn, parser>> /\ Stays
      BY <1>4 DEF CloseListener, Statistics, WriterFlush, WriterExits, FinalFlush, Stop, StopStream,
                  StopGoesOn, StreamStopped, PrometheusFatal, TelegrafFatal, StopCollector,
                  CollectorStopped, WriterStopped, Main, LoopCapture, LoopReceive, MainReturns
    <2> QED
      BY <2>1 DEF CoverInv
  <1>5. CASE UNCHANGED vars
    BY <1>5 DEF vars, CoverInv
  <1> QED
    BY <1>1, <1>2, <1>3, <1>4, <1>5 DEF Next

\* A request is answered when its points are with the writer, who does not lose them.
LEMMA AckStep == ShapeInv /\ AckIsTaken /\ [Next]_vars => AckIsTaken'
  <1> SUFFICES ASSUME ShapeInv, AckIsTaken, [Next]_vars PROVE AckIsTaken'
    OBVIOUS
  <1> USE DEF mainVars, rcvVars, sinkVars
  <1> DEFINE Stays == \A x \in outBuf \cup disk \cup filtered :
                        x \in outBuf' \cup disk' \cup filtered'
  <1>1. ASSUME NEW c \in Conns, Handler(c) PROVE AckIsTaken'
    BY <1>1 DEF Handler, Accept, ReadLines, ReadFrame, ReadDatagram, CloseConn, ConnEnds, HandOver,
                AckIsTaken
  <1>2. ASSUME NEW p \in Parsers, Parser(p) PROVE AckIsTaken'
    <2>1. UNCHANGED request /\ Stays
      BY <1>2 DEF Parser, PlainParseBuffer, PickleParseBytes, ParseBuffer, ParserWrites,
                  ParserGivesUp, ParserExits
    <2> QED
      BY <2>1 DEF AckIsTaken
  <1>3. ASSUME NEW r \in Requests, Http(r) PROVE AckIsTaken'
    <2>1. Stays
      BY <1>3 DEF Http, Serve, UnpackFast, Process, ParseBody, FlushRequest, Flush
    <2>2. \A q \in Requests \ {r} : request'[q] = request[q]
      BY <1>3 DEF Http, Serve, UnpackFast, Process, ParseBody, FlushRequest, Flush, Become, ShapeInv
    <2>3. request'[r] = "ok" => Body(r) \in outBuf' \cup disk' \cup filtered'
      BY <1>3 DEF Http, Serve, UnpackFast, Process, ParseBody, FlushRequest, Flush, Become, ShapeInv
    <2> QED
      BY <2>1, <2>2, <2>3 DEF AckIsTaken
  <1>4. CASE CloseListener \/ Statistics \/ WriterFlush \/ WriterExits \/ Stop \/ Main
    <2>1. UNCHANGED request /\ Stays
      BY <1>4 DEF CloseListener, Statistics, WriterFlush, WriterExits, FinalFlush, Stop, StopStream,
                  StopGoesOn, StreamStopped, PrometheusFatal, TelegrafFatal, StopCollector,
                  CollectorStopped, WriterStopped, Main, LoopCapture, LoopReceive, MainReturns
    <2> QED
      BY <2>1 DEF AckIsTaken
  <1>5. CASE UNCHANGED vars
    BY <1>5 DEF vars, AckIsTaken
  <1> QED
    BY <1>1, <1>2, <1>3, <1>4, <1>5 DEF Next

LEMMA InvStep == IntakeInv /\ [Next]_vars => IntakeInv'
  BY ShapeStep, StopStep, CoverStep, AckStep DEF IntakeInv

\* The invariant at the return of main: handlers and parsers are gone, and the writer
\* has nothing unflushed.
LEMMA NothingLeft == IntakeInv => EndsFlushed
  <1> SUFFICES ASSUME IntakeInv, proc = "exited", NEW b \in ReadBuffers
               PROVE  b \in disk \cup dropped \cup filtered
    BY DEF EndsFlushed
  <1>1. app = "stopped" /\ outBuf = {} /\ StreamGone /\ conf.http = "none"
    BY DEF IntakeInv, StopInv
  <1>2. PICK c \in Conns, n \in 1 .. MaxReads : b = <<c, n>> /\ n <= conn[c].i
    <2>1. \A r \in Requests : request[r] = "new"
      BY <1>1 DEF IntakeInv, ShapeInv
    <2> QED
      BY <2>1 DEF ReadBuffers
  <1>3. n \in 1 .. conn[c].i
    BY <1>2, ReadsAssumption DEF IntakeInv, ShapeInv
  <1> QED
    BY <1>1, <1>2, <1>3 DEF IntakeInv, CoverInv, StreamGone
-----------------------------------------------------------------------------
\* App.stopAll stops the writer last: by then no handler, parser or collector is left that
\* could wait for it (app.go:139-161).
THEOREM WriterIsLastSafe == Spec => []WriterIsLast
  <1>1. IntakeInv => WriterIsLast
    BY DEF IntakeInv, StopInv, StreamGone, WriterIsLast
  <1> QED
    BY <1>1, InitInv, InvStep, PTL DEF Spec

\* A request that was answered 200 has its points with the writer, on disk, or dropped by
\* the filters, through every stop (prometheus.go:173-191, RowBinary/writer.go:57-71).
THEOREM AckIsTakenSafe == Spec => []AckIsTaken
  <1>1. IntakeInv => AckIsTaken
    BY DEF IntakeInv
  <1> QED
    BY <1>1, InitInv, InvStep, PTL DEF Spec

\* When main returns, every buffer that was read is on disk, was filtered away, or was
\* given up at the stop (app.go:139-169, writer.go:135-143).
THEOREM EndsFlushedSafe == Spec => []EndsFlushed
  BY NothingLeft, InitInv, InvStep, PTL DEF Spec
-----------------------------------------------------------------------------
(***************************************************************************)
(* Every buffer that was read is in exactly one place.  That it is         *)
(* somewhere is CoverInv; that it is nowhere else is UniqueInv: a buffer   *)
(* leaves its handler once, and until then no parser and no set has it;    *)
(* two parsers never have the same one; and the sets where a buffer ends   *)
(* up are disjoint.                                                        *)
(***************************************************************************)
\* The handler of c has read the n-th buffer and is done with it.
Passed(c, n) == n \in 1 .. conn[c].i /\ ~(conn[c].pc = "send" /\ n = conn[c].i)
Answered(r) == request[r] \in {"ok", "cancelled"}
Done == outBuf \cup disk \cup dropped \cup filtered

\* No buffer is in two sets.
SinksInv ==
  /\ \A b \in outBuf : b \notin disk /\ b \notin dropped /\ b \notin filtered
  /\ \A b \in disk : b \notin dropped /\ b \notin filtered
  /\ \A b \in dropped : b \notin filtered
\* What is in a set has left its handler, or its request was answered.
DoneInv ==
  /\ \A b \in Done : \/ \E c \in Conns, n \in 1 .. MaxReads : b = <<c, n>> /\ Passed(c, n)
                     \/ \E r \in Requests : b = Body(r) /\ Answered(r)
  /\ \A r \in Requests : Answered(r) => Body(r) \in Done
\* A parser has a buffer that has left its handler, nobody else has it.
ParserInv ==
  /\ \A p \in Parsers : parser[p].pc \in {"parse", "write"} <=> parser[p].b # Nothing
  /\ \A p \in Parsers : parser[p].b # Nothing =>
       /\ \E c \in Conns, n \in 1 .. MaxReads : parser[p].b = <<c, n>> /\ Passed(c, n)
       /\ parser[p].b \notin Done
  /\ \A p, q \in Parsers : parser[p].b # Nothing /\ parser[p].b = parser[q].b => p = q
\* A buffer is given up after the stop has begun, or its client has gone.
DroppedInv ==
  \A b \in dropped : rctx \/ \E r \in Requests : b = Body(r) /\ request[r] = "cancelled"

UniqueInv == SinksInv /\ DoneInv /\ ParserInv /\ DroppedInv
PlaceInv == IntakeInv /\ UniqueInv
-----------------------------------------------------------------------------
LEMMA UniqueInit == Init => UniqueInv
  <1> SUFFICES ASSUME Init PROVE UniqueInv
    OBVIOUS
  <1>1. /\ outBuf = {} /\ disk = {} /\ dropped = {} /\ filtered = {}
        /\ \A r \in Requests : request[r] = "new"
        /\ \A p \in Parsers : parser[p].b = Nothing /\ parser[p].pc \in {"gone", "select"}
    BY DEF Init
  <1> QED
    BY <1>1 DEF UniqueInv, SinksInv, DoneInv, Done, ParserInv, DroppedInv, Answered

\* What a step leaves alone: the buffers of the handlers, and the requests.
LEMMA KeepsPassed ==
  ASSUME UNCHANGED conn, NEW c, NEW n
  PROVE  Passed(c, n)' = Passed(c, n)
  BY DEF Passed

\* A handler does not take back what it has handed over.
LEMMA PassedStays ==
  ASSUME ShapeInv, NEW c \in Conns, Handler(c)
  PROVE  \A d \in Conns, n \in 1 .. MaxReads : Passed(d, n) => Passed(d, n)'
  <1> USE DEF mainVars, sinkVars
  <1>1. conn \in [Conns -> [pc : {"new", "read", "send", "gone"}, i : 0 .. MaxReads,
                         closed : BOOLEAN]]
    BY DEF ShapeInv
  <1>2. conn[c].i \in Nat
    BY <1>1, ReadsAssumption
  <1>3. \A d \in Conns \ {c} : conn'[d] = conn[d]
    BY <1>1 DEF Handler, Accept, ReadLines, ReadFrame, ReadDatagram, ReadBuffer, CloseConn, ConnEnds,
                HandOver
  <1>4. \/ conn'[c].i = conn[c].i /\ (conn'[c].pc = "send" => conn[c].pc = "send")
        \/ conn'[c].i = conn[c].i + 1 /\ conn[c].pc # "send"
    <2>1. CASE Accept(c) \/ CloseConn(c) \/ ConnEnds(c)
      BY <1>1, <2>1 DEF Accept, CloseConn, ConnEnds
    <2>2. CASE ReadLines(c) \/ ReadFrame(c) \/ ReadDatagram(c)
      BY <1>1, <2>2 DEF ReadLines, ReadFrame, ReadDatagram, ReadBuffer
    <2>3. CASE \E p \in Parsers : HandOver(c, p)
      BY <1>1, <2>3 DEF HandOver
    <2> QED
      BY <2>1, <2>2, <2>3 DEF Handler
  <1>5. ASSUME NEW n \in 1 .. MaxReads, Passed(c, n) PROVE Passed(c, n)'
    <2>1. n \in 1 .. conn[c].i /\ (conn[c].pc = "send" => n # conn[c].i)
      BY <1>5 DEF Passed
    <2>2. n \in 1 .. conn'[c].i /\ ~(conn'[c].pc = "send" /\ n = conn'[c].i)
      BY <1>2, <1>4, <2>1
    <2> QED
      BY <2>2 DEF Passed
  <1> QED
    BY <1>3, <1>5 DEF Passed

\* A buffer that its handler has is nowhere else.
LEMMA HandlerHasIt ==
  ASSUME ShapeInv, UniqueInv, NEW c \in Conns, conn[c].pc = "send", NEW b, b = <<c, conn[c].i>>
  PROVE  b \notin Done /\ \A p \in Parsers : parser[p].b # b
  <1>1. ~Passed(c, conn[c].i)
    BY DEF Passed
  <1>2. \A d \in Conns, n \in 1 .. MaxReads : b = <<d, n>> => ~Passed(d, n)
    BY <1>1
  <1>3. \A r \in Requests : b # Body(r)
    BY RequestsAssumption DEF Body
  <1>4. b # Nothing
    <2>1. conn[c].i \in 1 .. MaxReads
      BY ReadsAssumption DEF ShapeInv
    <2>2. b \in (Conns \cup Requests) \X (1 .. MaxReads)
      BY <2>1
    <2> QED
      BY <2>2, NothingAssumption
  <1> QED
    BY <1>2, <1>3, <1>4 DEF UniqueInv, DoneInv, ParserInv

LEMMA HandlerUnique ==
  ASSUME ShapeInv, UniqueInv, NEW c \in Conns, Handler(c)
  PROVE  UniqueInv'
  <1> USE DEF mainVars, sinkVars
  <1>1. \A d \in Conns, n \in 1 .. MaxReads : Passed(d, n) => Passed(d, n)'
    BY PassedStays
  <1>2. UNCHANGED <<outBuf, disk, dropped, filtered, request, rctx>>
    BY DEF Handler, Accept, ReadLines, ReadFrame, ReadDatagram, CloseConn, ConnEnds, HandOver
  <1>3. SinksInv' /\ DroppedInv' /\ Done' = Done
    BY <1>2 DEF UniqueInv, SinksInv, DroppedInv, Done
  <1>4. DoneInv'
    BY <1>1, <1>2, <1>3 DEF UniqueInv, DoneInv, Answered
  <1>5. CASE UNCHANGED parser
    BY <1>1, <1>3, <1>4, <1>5 DEF UniqueInv, ParserInv
  <1>6. ASSUME NEW p \in Parsers, HandOver(c, p) PROVE UniqueInv'
    <2>1. PICK i, b : i = conn[c].i /\ b = <<c, i>>
      OBVIOUS
    <2>2. conn[c].pc = "send" /\ i \in 1 .. MaxReads /\ Passed(c, i)'
      BY <1>6, <2>1, ReadsAssumption DEF HandOver, ShapeInv, Passed
    <2>3. b \notin Done /\ \A q \in Parsers : parser[q].b # b
      BY <2>1, <2>2, HandlerHasIt
    <2>4. b # Nothing
      <3>1. b \in (Conns \cup Requests) \X (1 .. MaxReads)
        BY <2>1, <2>2
      <3> QED
        BY <3>1, NothingAssumption
    <2>5. /\ parser'[p].pc = "parse" /\ parser'[p].b = b
          /\ \A q \in Parsers \ {p} : parser'[q] = parser[q]
      BY <1>6, <2>1 DEF HandOver, ShapeInv
    <2>6. \E d \in Conns, n \in 1 .. MaxReads : b = <<d, n>> /\ Passed(d, n)'
      BY <2>1, <2>2
    <2>7. ParserInv'
      BY <1>1, <1>3, <2>3, <2>4, <2>5, <2>6 DEF UniqueInv, ParserInv
    <2> QED
      BY <1>3, <1>4, <2>7 DEF UniqueInv
  <1> QED
    BY <1>5, <1>6 DEF Handler, Accept, ReadLines, ReadFrame, ReadDatagram, CloseConn, ConnEnds

LEMMA ParserUnique ==
  ASSUME ShapeInv, UniqueInv, NEW p \in Parsers, Parser(p)
  PROVE  UniqueInv'
  <1> USE DEF mainVars, sinkVars
  <1>1. UNCHANGED <<conn, request, rctx, disk>>
    BY DEF Parser, PlainParseBuffer, PickleParseBytes, ParserWrites, ParserGivesUp, ParserExits
  <1>2. \A d, n : Passed(d, n)' = Passed(d, n)
    BY <1>1, KeepsPassed
  <1>3. \A q \in Parsers \ {p} : parser'[q] = parser[q]
    BY DEF Parser, PlainParseBuffer, PickleParseBytes, ParseBuffer, ParserWrites,
           ParserGivesUp, ParserExits, NextBuffer, ShapeInv
  <1>4. PICK b : b = parser[p].b
    OBVIOUS
  \* nothing but the program counter changes, or the buffer moves to one of the sets
  <1>5. \/ /\ UNCHANGED <<outBuf, dropped, filtered>> /\ parser'[p].b = b
           /\ parser'[p].pc \in {"parse", "write"} <=> parser[p].pc \in {"parse", "write"}
        \/ /\ parser[p].pc \in {"parse", "write"} /\ parser'[p].b = Nothing
           /\ parser'[p].pc = "select"
           /\ \/ outBuf' = outBuf \cup {b} /\ UNCHANGED <<dropped, filtered>>
              \/ dropped' = dropped \cup {b} /\ UNCHANGED <<outBuf, filtered>> /\ rctx
              \/ filtered' = filtered \cup {b} /\ UNCHANGED <<outBuf, dropped>>
    <2>1. CASE PlainParseBuffer(p) \/ PickleParseBytes(p)
      BY <1>4, <2>1 DEF PlainParseBuffer, PickleParseBytes, ParseBuffer, NextBuffer, ShapeInv
    <2>2. CASE ParserWrites(p)
      BY <1>4, <2>2 DEF ParserWrites, NextBuffer, Sent, ShapeInv
    <2>3. CASE ParserGivesUp(p)
      BY <1>4, <2>3 DEF ParserGivesUp, GivesUp, NextBuffer, ShapeInv
    <2>4. CASE ParserExits(p)
      <3>1. parser[p].b = Nothing
        BY <2>4 DEF ParserExits, UniqueInv, ParserInv
      <3> QED
        BY <1>4, <2>4, <3>1 DEF ParserExits, NextBuffer, ShapeInv
    <2> QED
      BY <2>1, <2>2, <2>3, <2>4 DEF Parser
  <1>6. CASE UNCHANGED <<outBuf, dropped, filtered>> /\ parser'[p].b = b
             /\ (parser'[p].pc \in {"parse", "write"} <=> parser[p].pc \in {"parse", "write"})
    <2>1. Done' = Done /\ SinksInv' /\ DroppedInv' /\ DoneInv'
      BY <1>1, <1>2, <1>6 DEF Done, UniqueInv, SinksInv, DroppedInv, DoneInv, Answered
    <2>2. ParserInv'
      BY <1>2, <1>3, <1>4, <1>6, <2>1 DEF UniqueInv, ParserInv
    <2> QED
      BY <2>1, <2>2 DEF UniqueInv
  <1>7. CASE /\ parser[p].pc \in {"parse", "write"} /\ parser'[p].b = Nothing
             /\ parser'[p].pc = "select"
             /\ \/ outBuf' = outBuf \cup {b} /\ UNCHANGED <<dropped, filtered>>
                \/ dropped' = dropped \cup {b} /\ UNCHANGED <<outBuf, filtered>> /\ rctx
                \/ filtered' = filtered \cup {b} /\ UNCHANGED <<outBuf, dropped>>
    <2>1. /\ b # Nothing /\ b \notin Done
          /\ \E c \in Conns, n \in 1 .. MaxReads : b = <<c, n>> /\ Passed(c, n)
      BY <1>4, <1>7 DEF UniqueInv, ParserInv
    <2>2. Done' = Done \cup {b}
      BY <1>1, <1>7 DEF Done
    <2>3. SinksInv'
      BY <1>1, <1>7, <2>1 DEF UniqueInv, SinksInv, Done
    <2>4. DroppedInv'
      BY <1>1, <1>7 DEF UniqueInv, DroppedInv
    <2>5. DoneInv'
      BY <1>1, <1>2, <2>1, <2>2 DEF UniqueInv, DoneInv, Answered
    <2>6. ParserInv'
      <3>1. \A q \in Parsers : q # p => parser[q].b # b
        BY <1>4, <2>1 DEF UniqueInv, ParserInv
      <3> QED
        BY <1>2, <1>3, <1>7, <2>2, <3>1 DEF UniqueInv, ParserInv
    <2> QED
      BY <2>3, <2>4, <2>5, <2>6 DEF UniqueInv
  <1> QED
    BY <1>5, <1>6, <1>7

LEMMA HttpUnique ==
  ASSUME ShapeInv, UniqueInv, NEW r \in Requests, Http(r)
  PROVE  UniqueInv'
  <1> USE DEF mainVars, sinkVars, rcvVars
  <1>1. UNCHANGED <<conn, parser, rctx, disk>>
    BY DEF Http, Serve, UnpackFast, Process, FlushRequest
  <1>2. \A d, n : Passed(d, n)' = Passed(d, n)
    BY <1>1, KeepsPassed
  <1>3. \A q \in Requests \ {r} : request'[q] = request[q]
    BY DEF Http, Serve, UnpackFast, Process, ParseBody, FlushRequest, Flush, Become, ShapeInv
  <1>4. PICK b : b = Body(r)
    OBVIOUS
  <1>5. /\ \A q \in Requests : b = Body(q) => q = r
        /\ \A c \in Conns, n \in 1 .. MaxReads : b # <<c, n>>
    BY <1>4, RequestsAssumption DEF Body
  <1>6. ~Answered(r)
    BY DEF Http, Serve, UnpackFast, Process, ParseBody, FlushRequest, Answered
  <1>7. b \notin Done /\ \A p \in Parsers : parser[p].b # b \/ b = Nothing
    BY <1>5, <1>6 DEF UniqueInv, DoneInv, ParserInv
  <1>8. \/ UNCHANGED <<outBuf, dropped, filtered>> /\ ~Answered(r)'
        \/ outBuf' = outBuf \cup {b} /\ UNCHANGED <<dropped, filtered>> /\ request'[r] = "ok"
        \/ dropped' = dropped \cup {b} /\ UNCHANGED <<outBuf, filtered>> /\ request'[r] = "cancelled"
        \/ filtered' = filtered \cup {b} /\ UNCHANGED <<outBuf, dropped>> /\ request'[r] = "ok"
    BY <1>4 DEF Http, Serve, UnpackFast, Process, ParseBody, FlushRequest, Flush, Become, ShapeInv,
                Answered
  <1>9. b # Nothing
    <2>1. b \in (Conns \cup Requests) \X (1 .. MaxReads)
      BY <1>4, ReadsAssumption DEF Body
    <2> QED
      BY <2>1, NothingAssumption
  <1>10. \A q \in Requests \ {r} : Answered(q)' = Answered(q)
    BY <1>3 DEF Answered
  <1>11. CASE UNCHANGED <<outBuf, dropped, filtered>> /\ ~Answered(r)'
    <2>1. Done' = Done /\ SinksInv'
      BY <1>1, <1>11 DEF Done, UniqueInv, SinksInv
    <2>2. DoneInv'
      BY <1>2, <1>6, <1>10, <1>11, <2>1 DEF UniqueInv, DoneInv, Body
    <2>3. DroppedInv'
      BY <1>1, <1>3, <1>6, <1>11 DEF UniqueInv, DroppedInv, Answered, Body
    <2>4. ParserInv'
      BY <1>1, <1>2, <2>1 DEF UniqueInv, ParserInv
    <2> QED
      BY <2>1, <2>2, <2>3, <2>4 DEF UniqueInv
  <1>12. CASE \/ outBuf' = outBuf \cup {b} /\ UNCHANGED <<dropped, filtered>> /\ request'[r] = "ok"
              \/ dropped' = dropped \cup {b} /\ UNCHANGED <<outBuf, filtered>> /\ request'[r] = "cancelled"
              \/ filtered' = filtered \cup {b} /\ UNCHANGED <<outBuf, dropped>> /\ request'[r] = "ok"
    <2>1. Done' = Done \cup {b} /\ Answered(r)'
      BY <1>1, <1>12 DEF Done, Answered
    <2>2. SinksInv'
      BY <1>1, <1>7, <1>12 DEF UniqueInv, SinksInv, Done
    <2>3. DoneInv'
      <3>1. ASSUME NEW x \in Done'
            PROVE  \/ \E c \in Conns, n \in 1 .. MaxReads : x = <<c, n>> /\ Passed(c, n)'
                   \/ \E q \in Requests : x = Body(q) /\ Answered(q)'
        <4>1. CASE x = b
          BY <1>4, <2>1, <4>1
        <4>2. CASE x \in Done
          BY <1>2, <1>6, <1>10, <4>2 DEF UniqueInv, DoneInv
        <4> QED
          BY <2>1, <4>1, <4>2
      <3>2. ASSUME NEW q \in Requests, Answered(q)' PROVE Body(q) \in Done'
        BY <1>4, <1>10, <2>1, <3>2 DEF UniqueInv, DoneInv
      <3> QED
        BY <3>1, <3>2 DEF DoneInv, Body
    <2>4. DroppedInv'
      <3>1. ASSUME NEW x \in dropped'
            PROVE  rctx' \/ \E q \in Requests : x = Body(q) /\ request'[q] = "cancelled"
        <4>1. CASE x \in dropped
          BY <1>1, <1>3, <1>6, <4>1 DEF UniqueInv, DroppedInv, Answered
        <4>2. CASE x = b /\ request'[r] = "cancelled"
          BY <1>4, <4>2
        <4> QED
          BY <1>12, <4>1, <4>2
      <3> QED
        BY <3>1 DEF DroppedInv, Body
    <2>5. ParserInv'
      BY <1>1, <1>2, <1>7, <1>9, <2>1 DEF UniqueInv, ParserInv
    <2> QED
      BY <2>2, <2>3, <2>4, <2>5 DEF UniqueInv
  <1> QED
    BY <1>8, <1>11, <1>12

LEMMA UniqueStep == ShapeInv /\ UniqueInv /\ [Next]_vars => UniqueInv'
  <1> SUFFICES ASSUME ShapeInv, UniqueInv, [Next]_vars PROVE UniqueInv'
    OBVIOUS
  <1> USE DEF mainVars, rcvVars, sinkVars
  <1>1. ASSUME UNCHANGED <<conn, parser, request, dropped, filtered>>, rctx => rctx',
               UNCHANGED <<outBuf, disk>> \/ (disk' = disk \cup outBuf /\ outBuf' = {})
        PROVE  UniqueInv'
    <2>1. \A d, n : Passed(d, n)' = Passed(d, n)
      BY <1>1, KeepsPassed
    <2>2. Done' = Done
      BY <1>1 DEF Done
    <2>3. SinksInv'
      BY <1>1 DEF UniqueInv, SinksInv
    <2>4. DoneInv' /\ DroppedInv'
      BY <1>1, <2>1, <2>2 DEF UniqueInv, DoneInv, DroppedInv, Answered
    <2>5. ParserInv'
      BY <1>1, <2>1, <2>2 DEF UniqueInv, ParserInv
    <2> QED
      BY <2>3, <2>4, <2>5 DEF UniqueInv
  <1>2. CASE WriterFlush \/ WriterExits
    BY <1>1, <1>2 DEF WriterFlush, WriterExits, FinalFlush
  <1>3. CASE CloseListener \/ Statistics \/ Stop \/ Main \/ UNCHANGED vars
    BY <1>1, <1>3 DEF CloseListener, Statistics, Stop, StopStream, StopGoesOn, StreamStopped,
       PrometheusFatal, TelegrafFatal, StopCollector, CollectorStopped, WriterStopped, Main,
       LoopCapture, LoopReceive, MainReturns, vars
  <1> QED
    BY <1>2, <1>3, HandlerUnique, ParserUnique, HttpUnique DEF Next
-----------------------------------------------------------------------------
\* The places, one kind at a time.
AtHandler(b) == {<<"handler", c>> : c \in {d \in Conns : conn[d].pc = "send" /\ b = <<d, conn[d].i>>}}
AtParser(b) == {<<"parser", p>> : p \in {q \in Parsers : parser[q].b = b}}
AtRequest(b) ==
  {<<request[r], r>> :
     r \in {q \in Requests : b = Body(q) /\ request[q] \in {"parse", "flush", "error"}}}
InSet(b, q) ==
  b \in CASE q = "outBuf" -> outBuf [] q = "disk" -> disk
          [] q = "dropped" -> dropped [] q = "filtered" -> filtered
AtSink(b) == {<<s, Nothing>> : s \in {q \in {"outBuf", "disk", "dropped", "filtered"} : InSet(b, q)}}

LEMMA PlacesAre ==
  ASSUME NEW b
  PROVE  Places(b) = ((AtHandler(b) \cup AtParser(b)) \cup AtRequest(b)) \cup AtSink(b)
  BY Zenon DEF Places, AtHandler, AtParser, AtRequest, AtSink, InSet

\* The sets are disjoint: a buffer is in none of them or in one.
LEMMA OneSink ==
  ASSUME SinksInv, NEW b
  PROVE  /\ b \notin Done => AtSink(b) = {}
         /\ b \in Done => \E x : AtSink(b) = {x}
  <1>1. /\ InSet(b, "outBuf") = (b \in outBuf) /\ InSet(b, "disk") = (b \in disk)
        /\ InSet(b, "dropped") = (b \in dropped) /\ InSet(b, "filtered") = (b \in filtered)
    BY DEF InSet
  <1>2. \A q \in {"outBuf", "disk", "dropped", "filtered"} : InSet(b, q) => b \in Done
    BY <1>1 DEF Done
  <1>3. b \notin Done => AtSink(b) = {}
    BY <1>2 DEF AtSink
  <1>4. ASSUME NEW s \in {"outBuf", "disk", "dropped", "filtered"}, InSet(b, s)
        PROVE  AtSink(b) = {<<s, Nothing>>}
    <2>1. \A q \in {"outBuf", "disk", "dropped", "filtered"} : InSet(b, q) => q = s
      BY <1>1, <1>4 DEF SinksInv
    <2> QED
      BY <1>4, <2>1 DEF AtSink
  <1>5. b \in Done => \E s \in {"outBuf", "disk", "dropped", "filtered"} : InSet(b, s)
    BY <1>1 DEF Done
  <1> QED
    BY <1>3, <1>4, <1>5

LEMMA StreamBuffer ==
  ASSUME PlaceInv, NEW c \in Conns, NEW n \in 1 .. MaxReads, n <= conn[c].i, NEW b, b = <<c, n>>
  PROVE  \E x : Places(b) = {x}
  <1>1. ShapeInv /\ CoverInv /\ UniqueInv /\ SinksInv
    BY DEF PlaceInv, IntakeInv, UniqueInv
  <1>2. conn[c].i \in Nat /\ n \in 1 .. conn[c].i
    BY <1>1, ReadsAssumption DEF ShapeInv
  <1>3. AtRequest(b) = {}
    BY RequestsAssumption DEF AtRequest, Body
  <1>4. b # Nothing
    <2>1. b \in (Conns \cup Requests) \X (1 .. MaxReads)
      OBVIOUS
    <2> QED
      BY <2>1, NothingAssumption
  <1>5. CASE conn[c].pc = "send" /\ n = conn[c].i
    <2>1. b \notin Done /\ \A p \in Parsers : parser[p].b # b
      BY <1>1, <1>5, HandlerHasIt
    <2>2. AtParser(b) = {} /\ AtSink(b) = {}
      BY <1>1, <2>1, OneSink DEF AtParser
    <2>3. AtHandler(b) = {<<"handler", c>>}
      BY <1>5 DEF AtHandler
    <2> QED
      BY <1>3, <2>2, <2>3, PlacesAre
  <1>6. CASE ~(conn[c].pc = "send" /\ n = conn[c].i)
    <2>1. AtHandler(b) = {}
      BY <1>6 DEF AtHandler
    <2>2. ASSUME NEW p \in Parsers, parser[p].b = b PROVE \E x : Places(b) = {x}
      <3>1. b \notin Done /\ \A q \in Parsers : parser[q].b = b => q = p
        BY <1>1, <1>4, <2>2 DEF UniqueInv, ParserInv
      <3>2. AtSink(b) = {}
        BY <1>1, <3>1, OneSink
      <3>3. AtParser(b) = {<<"parser", p>>}
        BY <2>2, <3>1 DEF AtParser
      <3> QED
        BY <1>3, <2>1, <3>2, <3>3, PlacesAre
    <2>3. CASE b \in Done
      <3>1. \A p \in Parsers : parser[p].b # b
        BY <1>1, <1>4, <2>3 DEF UniqueInv, ParserInv
      <3>2. AtParser(b) = {}
        BY <3>1 DEF AtParser
      <3>3. PICK x : AtSink(b) = {x}
        BY <1>1, <2>3, OneSink
      <3> QED
        BY <1>3, <2>1, <3>2, <3>3, PlacesAre
    <2>4. b \in Done \/ \E p \in Parsers : parser[p].b = b
      BY <1>1, <1>2, <1>6 DEF CoverInv, Done
    <2> QED
      BY <2>2, <2>3, <2>4
  <1> QED
    BY <1>5, <1>6

LEMMA RequestBuffer ==
  ASSUME PlaceInv, NEW r \in Requests, request[r] # "new", NEW b, b = Body(r)
  PROVE  \E x : Places(b) = {x}
  <1>1. ShapeInv /\ UniqueInv /\ SinksInv
    BY DEF PlaceInv, IntakeInv, UniqueInv
  <1>2. \A q \in Requests : b = Body(q) => q = r
    BY DEF Body
  <1>3. \A c \in Conns : \A n : b # <<c, n>>
    BY RequestsAssumption DEF Body
  <1>4. b # Nothing
    <2>1. b \in (Conns \cup Requests) \X (1 .. MaxReads)
      BY ReadsAssumption DEF Body
    <2> QED
      BY <2>1, NothingAssumption
  <1>5. AtHandler(b) = {}
    BY <1>3 DEF AtHandler
  <1>6. \A p \in Parsers : parser[p].b # b
    BY <1>1, <1>3, <1>4 DEF UniqueInv, ParserInv
  <1>7. AtParser(b) = {}
    BY <1>6 DEF AtParser
  <1>8. b \in Done <=> Answered(r)
    BY <1>1, <1>2, <1>3 DEF UniqueInv, DoneInv
  <1>9. CASE Answered(r)
    <2>1. AtRequest(b) = {}
      BY <1>2, <1>9 DEF AtRequest, Answered
    <2>2. PICK x : AtSink(b) = {x}
      BY <1>1, <1>8, <1>9, OneSink
    <2> QED
      BY <1>5, <1>7, <2>1, <2>2, PlacesAre
  <1>10. CASE ~Answered(r)
    <2>1. request[r] \in {"parse", "flush", "error"}
      BY <1>1, <1>10 DEF ShapeInv, Answered
    <2>2. AtRequest(b) = {<<request[r], r>>}
      BY <1>2, <2>1 DEF AtRequest
    <2>3. AtSink(b) = {}
      BY <1>1, <1>8, <1>10, OneSink
    <2> QED
      BY <1>5, <1>7, <2>2, <2>3, PlacesAre
  <1> QED
    BY <1>9, <1>10

\* A buffer that was read is in exactly one place, from the handler to the file, and
\* it is given up only once the stop has begun or its client has gone
\* (tcp.go:83-96, plain.go:145-155, RowBinary/writer.go:57-71).
THEOREM ConservedSafe == Spec => []Conserved
  <1>1. Init => PlaceInv
    BY InitInv, UniqueInit DEF PlaceInv
  <1>2. PlaceInv /\ [Next]_vars => PlaceInv'
    BY InvStep, UniqueStep DEF PlaceInv, IntakeInv
  <1>3. PlaceInv => Conserved
    <2> SUFFICES ASSUME PlaceInv PROVE Conserved
      OBVIOUS
    <2>1. ASSUME NEW b \in ReadBuffers PROVE Cardinality(Places(b)) = 1
      <3>1. \/ \E c \in Conns, n \in 1 .. MaxReads : b = <<c, n>> /\ n <= conn[c].i
            \/ \E r \in Requests : b = Body(r) /\ request[r] # "new"
        BY DEF ReadBuffers
      <3>2. \E x : Places(b) = {x}
        BY <3>1, StreamBuffer, RequestBuffer
      <3> QED
        BY <3>2, FS_Singleton
    <2>2. ASSUME NEW b \in dropped
          PROVE  rctx \/ (b[1] \in Requests /\ request[b[1]] = "cancelled")
      BY DEF PlaceInv, UniqueInv, DroppedInv, Body
    <2> QED
      BY <2>1, <2>2 DEF Conserved
  <1> QED
    BY <1>1, <1>2, <1>3, PTL DEF Spec

-----------------------------------------------------------------------------
(***************************************************************************)
(* Total: the sum of a sequence.                                           *)
(***************************************************************************)
\* g has the sums of the first 0, 1, ..., m elements of s.
Sums(s, m, g) == g = [n \in 0 .. m |-> IF n = 0 THEN 0 ELSE g[n - 1] + s[n]]

LEMMA SumsExist ==
  ASSUME NEW s
  PROVE  \A m \in Nat : \E g : Sums(s, m, g)
  <1> DEFINE S == {m \in Nat : \E g : Sums(s, m, g)}
  <1>1. 0 \in S
    <2> DEFINE z == [n \in 0 .. 0 |-> 0]
    <2>1. Sums(s, 0, z)
      BY DEF Sums
    <2> QED
      BY <2>1
  <1>2. ASSUME NEW m \in Nat, m \in S PROVE m + 1 \in S
    <2>1. PICK g : Sums(s, m, g)
      BY <1>2
    <2> DEFINE h == [n \in 0 .. m + 1 |-> IF n = m + 1 THEN g[m] + s[m + 1] ELSE g[n]]
    <2>2. Sums(s, m + 1, h)
      <3>1. ASSUME NEW n \in 0 .. m + 1 PROVE h[n] = IF n = 0 THEN 0 ELSE h[n - 1] + s[n]
        BY <2>1 DEF Sums
      <3> QED
        BY <3>1 DEF Sums
    <2> QED
      BY <2>2
  <1> HIDE DEF S
  <1>3. Nat \subseteq S
    BY <1>1, <1>2, SetInduction
  <1> QED
    BY <1>3 DEF S

SameTo(s, t, m) == \A i \in 1 .. m : s[i] = t[i]

\* Sums of the same beginning are the same.
LEMMA SumsAgree ==
  ASSUME NEW s, NEW t, NEW m \in Nat, NEW n \in Nat, m <= n, SameTo(s, t, m),
         NEW g, NEW h, Sums(s, m, g), Sums(t, n, h)
  PROVE  g[m] = h[m]
  <1> DEFINE S == {i \in Nat : i <= m => g[i] = h[i]}
  <1>1. 0 \in S
    BY DEF Sums
  <1>2. ASSUME NEW i \in Nat, i \in S PROVE i + 1 \in S
    <2> SUFFICES ASSUME i + 1 <= m PROVE g[i + 1] = h[i + 1]
      OBVIOUS
    <2>1. g[i] = h[i] /\ s[i + 1] = t[i + 1]
      BY <1>2 DEF SameTo
    <2>2. g[i + 1] = g[i] + s[i + 1] /\ h[i + 1] = h[i] + t[i + 1]
      BY DEF Sums
    <2> QED
      BY <2>1, <2>2
  <1> HIDE DEF S
  <1>3. Nat \subseteq S
    BY <1>1, <1>2, SetInduction
  <1>4. m \in S
    BY <1>3
  <1> QED
    BY <1>4 DEF S

LEMMA TotalIsSum ==
  ASSUME NEW s, Len(s) \in Nat
  PROVE  \E g : Sums(s, Len(s), g) /\ Total(s) = g[Len(s)]
  <1>1. PICK g : g = CHOOSE h : Sums(s, Len(s), h)
    OBVIOUS
  <1>2. Sums(s, Len(s), g)
    BY <1>1, SumsExist
  <1>3. Total(s) = g[Len(s)]
    BY <1>1 DEF Total, Sums
  <1> QED
    BY <1>2, <1>3

LEMMA TotalEmpty == Total(<<>>) = 0
  <1>1. PICK g : Sums(<<>>, 0, g) /\ Total(<<>>) = g[0]
    BY TotalIsSum
  <1> QED
    BY <1>1 DEF Sums

\* The first 0 elements, or those after the n-th up to the n-th.
LEMMA TotalNone ==
  ASSUME NEW s, NEW m \in Int, NEW n \in Int, n < m
  PROVE  Total(SubSeq(s, m, n)) = 0
  <1>1. PICK e : e = SubSeq(s, m, n)
    OBVIOUS
  <1>2. e = <<>>
    BY <1>1, SubSeqEmpty
  <1>3. Total(e) = 0
    BY <1>2, TotalEmpty
  <1> QED
    BY <1>1, <1>3

\* The sum of a sequence, by its last element.
LEMMA TotalLast ==
  ASSUME NEW s \in Seq(Nat), NEW t \in Seq(Nat), NEW n \in Nat, Len(s) = n, Len(t) = n + 1,
         SameTo(s, t, n)
  PROVE  Total(t) = Total(s) + t[n + 1]
  <1>1. PICK g : Sums(s, n, g) /\ Total(s) = g[n]
    BY TotalIsSum
  <1>2. PICK h : Sums(t, n + 1, h) /\ Total(t) = h[n + 1]
    BY TotalIsSum
  <1>3. g[n] = h[n]
    <2>1. PICK m : m = n + 1
      OBVIOUS
    <2>2. m \in Nat /\ n <= m /\ Sums(t, m, h)
      BY <1>2, <2>1
    <2> QED
      BY <1>1, <2>2, SumsAgree
  <1>4. h[n + 1] = h[n] + t[n + 1]
    BY <1>2 DEF Sums
  <1> QED
    BY <1>1, <1>2, <1>3, <1>4

LEMMA TotalAppend ==
  ASSUME NEW s \in Seq(Nat), NEW x \in Nat
  PROVE  Append(s, x) \in Seq(Nat) /\ Total(Append(s, x)) = Total(s) + x
  <1>1. PICK t, n : t = Append(s, x) /\ n = Len(s)
    OBVIOUS
  <1>2. /\ t \in Seq(Nat) /\ n \in Nat /\ Len(t) = n + 1 /\ t[n + 1] = x
        /\ SameTo(s, t, n)
    BY <1>1, AppendProperties, LenProperties DEF SameTo
  <1>3. Total(t) = Total(s) + t[n + 1]
    BY <1>1, <1>2, TotalLast
  <1> QED
    BY <1>1, <1>2, <1>3

\* The sum of zeros.
LEMMA TotalZeros ==
  ASSUME NEW s \in Seq(Nat), \A i \in 1 .. Len(s) : s[i] = 0
  PROVE  Total(s) = 0
  <1>1. PICK m : m = Len(s) /\ m \in Nat
    BY LenProperties
  <1>2. PICK g : Sums(s, m, g) /\ Total(s) = g[m]
    BY <1>1, TotalIsSum
  <1> DEFINE S == {n \in Nat : n <= m => g[n] = 0}
  <1>3. 0 \in S
    BY <1>1, <1>2 DEF Sums
  <1>4. ASSUME NEW n \in Nat, n \in S PROVE n + 1 \in S
    <2> SUFFICES ASSUME n + 1 <= m PROVE g[n + 1] = 0
      OBVIOUS
    <2>1. g[n + 1] = g[n] + s[n + 1]
      BY <1>1, <1>2 DEF Sums
    <2>2. g[n] = 0 /\ s[n + 1] = 0
      BY <1>1, <1>4
    <2> QED
      BY <2>1, <2>2
  <1>5. m \in S
    <2> HIDE DEF S
    <2>1. Nat \subseteq S
      BY <1>3, <1>4, SetInduction
    <2> QED
      BY <1>1, <2>1
  <1> QED
    BY <1>1, <1>2, <1>5

\* Induction over the beginnings of a sequence.
LEMMA PrefixFacts ==
  ASSUME NEW s \in Seq(Nat), NEW n \in Nat, n < Len(s)
  PROVE  /\ SubSeq(s, 1, n) \in Seq(Nat) /\ SubSeq(s, 1, n + 1) \in Seq(Nat)
         /\ s[n + 1] \in Nat
         /\ Total(SubSeq(s, 1, n + 1)) = Total(SubSeq(s, 1, n)) + s[n + 1]
  <1>1. PICK a, b : a = SubSeq(s, 1, n) /\ b = SubSeq(s, 1, n + 1)
    OBVIOUS
  <1>2. Len(s) \in Nat /\ n \in 0 .. Len(s) /\ n + 1 \in 0 .. Len(s)
    BY LenProperties
  <1>3. /\ a \in Seq(Nat) /\ Len(a) = n /\ \A i \in 1 .. n : a[i] = s[i]
        /\ b \in Seq(Nat) /\ Len(b) = n + 1 /\ \A i \in 1 .. n + 1 : b[i] = s[i]
    BY <1>1, <1>2, SubSeqProperties
  <1>4. b[n + 1] = s[n + 1] /\ SameTo(a, b, n)
    <2>1. n + 1 \in 1 .. n + 1 /\ \A i \in 1 .. n : i \in 1 .. n + 1
      OBVIOUS
    <2> QED
      BY <1>3, <2>1 DEF SameTo
  <1>5. s[n + 1] \in Nat
    BY <1>2, ElementOfSeq
  <1>6. Total(b) = Total(a) + b[n + 1]
    BY <1>3, <1>4, TotalLast
  <1> QED
    BY <1>1, <1>3, <1>4, <1>5, <1>6

\* The first n elements: their sum is a natural, and each is at most the sum.
PartOK(s, n) ==
  n <= Len(s) =>
    /\ Total(SubSeq(s, 1, n)) \in Nat
    /\ \A k \in 1 .. n : s[k] <= Total(SubSeq(s, 1, n))

LEMMA TotalNat ==
  ASSUME NEW s \in Seq(Nat)
  PROVE  Total(s) \in Nat /\ \A k \in 1 .. Len(s) : s[k] <= Total(s)
  <1> DEFINE S == {n \in Nat : PartOK(s, n)}
  <1>0. Len(s) \in Nat /\ \A k \in 1 .. Len(s) : s[k] \in Nat
    BY LenProperties, ElementOfSeq
  <1>1. 0 \in S
    <2>1. Total(SubSeq(s, 1, 0)) = 0
      BY TotalNone
    <2>2. PartOK(s, 0)
      BY <2>1 DEF PartOK
    <2> QED
      BY <2>2
  <1>2. ASSUME NEW n \in Nat, n \in S PROVE n + 1 \in S
    <2> SUFFICES ASSUME n < Len(s)
                 PROVE  /\ Total(SubSeq(s, 1, n + 1)) \in Nat
                        /\ \A k \in 1 .. n + 1 : s[k] <= Total(SubSeq(s, 1, n + 1))
      BY <1>0 DEF PartOK
    <2>1. PICK a, b : a = Total(SubSeq(s, 1, n)) /\ b = Total(SubSeq(s, 1, n + 1))
      OBVIOUS
    <2>2. a \in Nat /\ \A k \in 1 .. n : s[k] <= a
      BY <1>0, <1>2, <2>1 DEF PartOK
    <2>3. s[n + 1] \in Nat /\ b = a + s[n + 1]
      BY <2>1, PrefixFacts
    <2>4. b \in Nat /\ a <= b /\ s[n + 1] <= b
      BY <2>2, <2>3
    <2>5. ASSUME NEW k \in 1 .. n + 1 PROVE s[k] <= b
      <3>1. CASE k \in 1 .. n
        <4>1. s[k] \in Nat /\ s[k] <= a
          BY <1>0, <2>2, <3>1
        <4> QED
          BY <2>2, <2>4, <4>1
      <3>2. CASE k = n + 1
        BY <2>4, <3>2
      <3> QED
        BY <3>1, <3>2
    <2> QED
      BY <2>1, <2>4, <2>5
  <1>3. Len(s) \in S
    <2> HIDE DEF S
    <2>1. Nat \subseteq S
      BY <1>1, <1>2, SetInduction
    <2> QED
      BY <1>0, <2>1
  <1>4. SubSeq(s, 1, Len(s)) = s
    BY SubSeqFull
  <1>5. PartOK(s, Len(s)) /\ Len(s) <= Len(s)
    BY <1>0, <1>3
  <1> QED
    BY <1>4, <1>5 DEF PartOK

\* The first n + k elements, cut in two after n.
CutOK(s, n, k) ==
  n + k <= Len(s) =>
    Total(SubSeq(s, 1, n + k)) = Total(SubSeq(s, 1, n)) + Total(SubSeq(s, n + 1, n + k))

LEMMA TotalSplit ==
  ASSUME NEW s \in Seq(Nat), NEW n \in 0 .. Len(s)
  PROVE  /\ SubSeq(s, 1, n) \in Seq(Nat) /\ SubSeq(s, n + 1, Len(s)) \in Seq(Nat)
         /\ Total(s) = Total(SubSeq(s, 1, n)) + Total(SubSeq(s, n + 1, Len(s)))
  <1>0. Len(s) \in Nat /\ n \in Nat /\ n <= Len(s)
    BY LenProperties
  <1>1. /\ SubSeq(s, 1, n) \in Seq(Nat) /\ SubSeq(s, n + 1, Len(s)) \in Seq(Nat)
    BY <1>0, SubSeqProperties
  <1> DEFINE S == {k \in Nat : CutOK(s, n, k)}
  <1>2. 0 \in S
    <2>1. n + 0 = n
      BY <1>0
    <2>2. PICK a : a = Total(SubSeq(s, 1, n))
      OBVIOUS
    <2>3. a \in Nat
      BY <1>1, <2>2, TotalNat
    <2>4. PICK z : z = Total(SubSeq(s, n + 1, n))
      OBVIOUS
    <2>5. z = 0
      BY <1>0, <2>4, TotalNone
    <2>6. a = a + z
      BY <2>3, <2>5
    <2>7. CutOK(s, n, 0)
      BY <2>1, <2>2, <2>4, <2>6 DEF CutOK
    <2> QED
      BY <2>7
  <1>3. ASSUME NEW k \in Nat, k \in S PROVE k + 1 \in S
    <2> SUFFICES ASSUME n + k < Len(s)
                 PROVE  Total(SubSeq(s, 1, n + (k + 1)))
                          = Total(SubSeq(s, 1, n)) + Total(SubSeq(s, n + 1, n + (k + 1)))
      BY <1>0 DEF CutOK
    <2>1. PICK m : m = n + k
      OBVIOUS
    <2>2. m \in Nat /\ m < Len(s) /\ n <= m /\ n + (k + 1) = m + 1 /\ m - n = k
      BY <1>0, <2>1
    <2>3. Total(SubSeq(s, 1, m + 1)) = Total(SubSeq(s, 1, m)) + s[m + 1] /\ s[m + 1] \in Nat
      BY <2>2, PrefixFacts
    <2>4. PICK a, b : a = SubSeq(s, n + 1, m) /\ b = SubSeq(s, n + 1, m + 1)
      OBVIOUS
    <2>5. /\ a \in Seq(Nat) /\ Len(a) = k /\ \A i \in 1 .. k : a[i] = s[n + i]
          /\ b \in Seq(Nat) /\ Len(b) = k + 1 /\ \A i \in 1 .. k + 1 : b[i] = s[n + i]
      BY <1>0, <2>2, <2>4, SubSeqProperties, SMTT(30)
    <2>6. SameTo(a, b, k) /\ b[k + 1] = s[m + 1]
      <3>1. k + 1 \in 1 .. k + 1 /\ n + (k + 1) = m + 1 /\ \A i \in 1 .. k : i \in 1 .. k + 1
        BY <2>2
      <3>2. b[k + 1] = s[n + (k + 1)]
        BY <2>5, <3>1
      <3> QED
        BY <2>5, <3>1, <3>2 DEF SameTo
    <2>7. Total(b) = Total(a) + s[m + 1]
      BY <2>5, <2>6, TotalLast, SMTT(30)
    <2>8. Total(SubSeq(s, 1, n)) \in Nat /\ Total(a) \in Nat
      BY <1>1, <2>5, TotalNat
    <2>9. Total(SubSeq(s, 1, m)) = Total(SubSeq(s, 1, n)) + Total(a)
      BY <1>3, <2>1, <2>2, <2>4 DEF CutOK
    <2> QED
      BY <2>2, <2>3, <2>4, <2>7, <2>8, <2>9, SMTT(30)
  <1>4. Len(s) - n \in S /\ n + (Len(s) - n) = Len(s)
    <2> HIDE DEF S
    <2>1. Nat \subseteq S
      BY <1>2, <1>3, SetInduction
    <2>2. Len(s) - n \in Nat /\ n + (Len(s) - n) = Len(s)
      BY <1>0
    <2> QED
      BY <2>1, <2>2
  <1>5. SubSeq(s, 1, Len(s)) = s
    BY SubSeqFull
  <1>6. CutOK(s, n, Len(s) - n) /\ Len(s) <= Len(s)
    BY <1>0, <1>4
  <1>7. Total(SubSeq(s, 1, Len(s))) = Total(SubSeq(s, 1, n)) + Total(SubSeq(s, n + 1, Len(s)))
    BY <1>4, <1>6 DEF CutOK
  <1> QED
    BY <1>1, <1>5, <1>7

LEMMA TotalHeadTail ==
  ASSUME NEW s \in Seq(Nat), s # <<>>
  PROVE  /\ Head(s) \in Nat /\ Tail(s) \in Seq(Nat) /\ Len(Tail(s)) + 1 = Len(s)
         /\ Total(s) = Head(s) + Total(Tail(s))
  <1>1. Head(s) \in Nat /\ Tail(s) \in Seq(Nat) /\ Len(Tail(s)) = Len(s) - 1
    BY HeadTailProperties
  <1>2. Len(s) \in Nat /\ Len(s) # 0
    BY LenProperties, EmptySeq
  <1>3. 1 \in 0 .. Len(s)
    BY <1>2
  <1>4. Total(s) = Total(SubSeq(s, 1, 1)) + Total(SubSeq(s, 1 + 1, Len(s)))
    BY <1>3, TotalSplit
  <1>5. Tail(s) = SubSeq(s, 1 + 1, Len(s))
    BY TailIsSubSeq
  <1>6. Total(SubSeq(s, 1, 1)) = Head(s)
    <2>1. Total(SubSeq(s, 1, 0 + 1)) = Total(SubSeq(s, 1, 0)) + s[0 + 1]
      BY <1>2, PrefixFacts
    <2>2. Total(SubSeq(s, 1, 0)) = 0
      BY TotalNone
    <2>3. 0 + 1 = 1 /\ s[1] = Head(s)
      OBVIOUS
    <2> QED
      BY <1>1, <2>1, <2>2, <2>3
  <1>7. Total(s) = Head(s) + Total(Tail(s))
    BY <1>4, <1>5, <1>6
  <1>8. PICK k, l : k = Len(s) /\ l = Len(Tail(s))
    OBVIOUS
  <1>9. l + 1 = k
    BY <1>1, <1>2, <1>8
  <1> QED
    BY <1>1, <1>7, <1>8, <1>9

\* t is s, but for the k-th element.
Differ(s, t, k) ==
  Len(t) = Len(s) /\ \A i \in 1 .. Len(s) : i # k => t[i] = s[i]
UpdateOK(s, t, k, n) ==
  n <= Len(s) =>
    Total(SubSeq(t, 1, n)) + (IF k <= n THEN s[k] ELSE 0)
      = Total(SubSeq(s, 1, n)) + (IF k <= n THEN t[k] ELSE 0)

LEMMA TotalUpdate ==
  ASSUME NEW s \in Seq(Nat), NEW t \in Seq(Nat), NEW k \in 1 .. Len(s), Differ(s, t, k)
  PROVE  Total(t) + s[k] = Total(s) + t[k]
  <1>0. /\ Len(s) \in Nat /\ k \in Nat /\ k <= Len(s) /\ Len(t) = Len(s) /\ 0 < k
        /\ s[k] \in Nat /\ t[k] \in Nat
    BY LenProperties, ElementOfSeq DEF Differ
  <1> DEFINE S == {n \in Nat : UpdateOK(s, t, k, n)}
  <1>1. 0 \in S
    <2>1. Total(SubSeq(t, 1, 0)) = 0 /\ Total(SubSeq(s, 1, 0)) = 0
      BY TotalNone
    <2>2. UpdateOK(s, t, k, 0)
      BY <1>0, <2>1 DEF UpdateOK
    <2> QED
      BY <2>2
  <1>2. ASSUME NEW n \in Nat, n \in S PROVE n + 1 \in S
    <2> SUFFICES ASSUME n < Len(s) PROVE UpdateOK(s, t, k, n + 1)
      BY <1>0 DEF UpdateOK
    <2>1. PICK a, b, a1, b1 : /\ a = Total(SubSeq(s, 1, n)) /\ a1 = Total(SubSeq(s, 1, n + 1))
                              /\ b = Total(SubSeq(t, 1, n)) /\ b1 = Total(SubSeq(t, 1, n + 1))
      OBVIOUS
    <2>2. a1 = a + s[n + 1] /\ s[n + 1] \in Nat /\ a \in Nat
      BY <2>1, PrefixFacts, TotalNat
    <2>3. b1 = b + t[n + 1] /\ t[n + 1] \in Nat /\ b \in Nat
      BY <1>0, <2>1, PrefixFacts, TotalNat
    <2>4. PICK x, y, u, v : x = s[k] /\ y = t[k] /\ u = s[n + 1] /\ v = t[n + 1]
      OBVIOUS
    <2>5. /\ a \in Nat /\ b \in Nat /\ x \in Nat /\ y \in Nat /\ u \in Nat /\ v \in Nat
          /\ a1 = a + u /\ b1 = b + v
      BY <1>0, <2>2, <2>3, <2>4
    <2>6. (k <= n => b + x = a + y) /\ (~(k <= n) => a = b)
      <3>1. b + (IF k <= n THEN x ELSE 0) = a + (IF k <= n THEN y ELSE 0)
        BY <1>0, <1>2, <2>1, <2>4 DEF UpdateOK
      <3> QED
        BY <2>5, <3>1
    <2>7. n + 1 # k => u = v
      <3>1. n + 1 \in 1 .. Len(s)
        BY <1>0
      <3> QED
        BY <2>4, <3>1 DEF Differ
    <2>8. n + 1 = k => x = u /\ y = v
      BY <2>4
    <2>9. b1 + (IF k <= n + 1 THEN x ELSE 0) = a1 + (IF k <= n + 1 THEN y ELSE 0)
      <3>1. CASE k <= n
        <4>0. k <= n + 1 /\ n + 1 # k
          BY <1>0, <3>1
        <4>1. u = v
          BY <2>7, <4>0
        <4>2. b + x = a + y
          BY <2>6, <3>1
        <4>3. b1 + x = a1 + y
          BY <2>5, <4>1, <4>2
        <4> QED
          BY <4>0, <4>3
      <3>2. CASE k = n + 1
        BY <1>0, <2>5, <2>6, <2>8, <3>2
      <3>3. CASE k > n + 1
        BY <1>0, <2>5, <2>6, <2>7, <3>3
      <3> QED
        BY <1>0, <3>1, <3>2, <3>3
    <2> QED
      BY <2>1, <2>4, <2>9 DEF UpdateOK
  <1>3. Len(s) \in S
    <2> HIDE DEF S
    <2>1. Nat \subseteq S
      BY <1>1, <1>2, SetInduction
    <2> QED
      BY <1>0, <2>1
  <1>4. SubSeq(s, 1, Len(s)) = s /\ SubSeq(t, 1, Len(s)) = t
    BY <1>0, SubSeqFull
  <1>5. UpdateOK(s, t, k, Len(s)) /\ Len(s) <= Len(s)
    BY <1>0, <1>3
  <1> QED
    BY <1>0, <1>4, <1>5 DEF UpdateOK

-----------------------------------------------------------------------------
(***************************************************************************)
(* The invariant of the collector.                                         *)
(***************************************************************************)
WorkerPlaces == {"idle", "load", "sub", "send", "gone"}
SenderPlaces == {"read", "more", "fill", "write", "send", "gone"}

\* The shape of the variables, without the bounds on values.
StatsShape ==
  /\ endpoint \in {"off", "local", "remote"} /\ cctx \in BOOLEAN
  /\ counter \in [Counters -> Nat] /\ counted \in 0 .. MaxCount
  /\ worker \in [pc : WorkerPlaces, i : 1 .. Len(Stats), v : Nat]
  /\ queue \in Seq(Nat) /\ Len(queue) <= QueueSize
  /\ sender \in [pc : SenderPlaces, points : Seq(Nat), b : Seq(Nat)]
  /\ Len(sender.points) <= MaxBatch /\ Len(sender.b) <= BatchSize
  /\ tally \in [sent : Nat, full : Nat, stop : Nat]

\* What the goroutines hold at each of their steps: a counter only grows between the
\* load and the subtraction, and readData never takes more than a batch has room for.
StatsStages ==
  /\ worker.pc = "sub" => worker.v <= counter[Stats[worker.i]]
  /\ worker.pc \in {"idle", "load", "gone"} => worker.v = 0
  /\ sender.pc = "read" => sender.points = <<>>
  /\ sender.pc = "more" => Len(sender.points) + Len(queue) <= MaxBatch
  /\ sender.pc \notin {"write", "send"} => sender.b = <<>>

CollectorInv == StatsShape /\ StatsStages /\ Counted

\* What collect takes at a tick, if nothing is counted meanwhile.
Taken(f) == [i \in 1 .. Len(Stats) |-> f[Stats[i]]]
HeldBy(w) == IF w.pc = "send" THEN w.v ELSE 0

\* Where the events are: counters, worker, queue, the sender's points and buffer, and
\* what was sent, met a full queue, or met the stop.
Amounts(c, h, q, p, b, s, f, t) ==
  /\ c = Total(Taken(counter)) /\ h = HeldBy(worker) /\ q = Total(queue)
  /\ p = Total(sender.points) /\ b = Total(sender.b)
  /\ s = tally.sent /\ f = tally.full /\ t = tally.stop
AllNat(c, h, q, p, b, s, f, t) ==
  /\ c \in Nat /\ h \in Nat /\ q \in Nat /\ p \in Nat /\ b \in Nat
  /\ s \in Nat /\ f \in Nat /\ t \in Nat

LEMMA StatsFacts ==
  /\ Len(Stats) \in Nat /\ Len(Stats) > 0
  /\ \A i \in 1 .. Len(Stats) : Stats[i] \in Counters
  /\ \A m \in Counters : \E i \in 1 .. Len(Stats) : m = Stats[i]
  <1>1. Stats \in Seq(ToSet(Stats)) /\ Len(Stats) > 0
    BY StatsAssumption
  <1>2. Len(Stats) \in Nat /\ DOMAIN Stats = 1 .. Len(Stats)
    BY <1>1, LenProperties
  <1> QED
    BY <1>1, <1>2 DEF Counters, ToSet

LEMMA TakenFacts ==
  ASSUME NEW f \in [Counters -> Nat]
  PROVE  /\ Taken(f) \in Seq(Nat) /\ Len(Taken(f)) = Len(Stats)
         /\ \A i \in 1 .. Len(Stats) : Taken(f)[i] = f[Stats[i]]
  <1>1. \A i \in 1 .. Len(Stats) : f[Stats[i]] \in Nat
    BY StatsFacts
  <1>2. PICK n : n = Len(Stats) /\ n \in Nat
    BY StatsFacts
  <1>3. Taken(f) \in [1 .. n -> Nat]
    BY <1>1, <1>2 DEF Taken
  <1>4. Taken(f) \in Seq(Nat) /\ Len(Taken(f)) = n
    <2>1. PICK s : s = Taken(f)
      OBVIOUS
    <2>2. s \in [1 .. n -> Nat]
      BY <1>3, <2>1
    <2>3. s \in Seq(Nat) /\ Len(s) = n
      BY <1>2, <2>2
    <2> QED
      BY <2>1, <2>3
  <1> QED
    BY <1>2, <1>4 DEF Taken

Updated(f, k, x, g) == g = [f EXCEPT ![Stats[k]] = x]

\* One counter changes: the sum changes by as much.
LEMMA TakenUpdate ==
  ASSUME NEW f \in [Counters -> Nat], NEW k \in 1 .. Len(Stats), NEW x \in Nat,
         NEW g, Updated(f, k, x, g)
  PROVE  /\ g \in [Counters -> Nat] /\ f[Stats[k]] \in Nat
         /\ Total(Taken(g)) + f[Stats[k]] = Total(Taken(f)) + x
  <1> USE DEF Updated
  <1>1. g \in [Counters -> Nat] /\ g[Stats[k]] = x /\ f[Stats[k]] \in Nat
    BY StatsFacts
  <1>2. PICK s, t : s = Taken(f) /\ t = Taken(g)
    OBVIOUS
  <1>3. /\ s \in Seq(Nat) /\ Len(s) = Len(Stats) /\ s[k] = f[Stats[k]]
        /\ t \in Seq(Nat) /\ Len(t) = Len(Stats) /\ t[k] = x
    BY <1>1, <1>2, TakenFacts
  <1>4. ASSUME NEW i \in 1 .. Len(Stats), i # k PROVE t[i] = s[i]
    <2>1. Stats[i] # Stats[k]
      BY <1>4, StatsAssumption
    <2>2. g[Stats[i]] = f[Stats[i]]
      BY <2>1, StatsFacts
    <2>3. t[i] = g[Stats[i]] /\ s[i] = f[Stats[i]]
      BY <1>1, <1>2, TakenFacts
    <2> QED
      BY <2>2, <2>3
  <1>5. Differ(s, t, k) /\ k \in 1 .. Len(s)
    BY <1>3, <1>4 DEF Differ
  <1>6. Total(t) + s[k] = Total(s) + t[k]
    BY <1>3, <1>5, TotalUpdate
  <1> QED
    BY <1>1, <1>2, <1>3, <1>6

\* The sum of Counted, opened and closed.
LEMMA AmountsNow ==
  ASSUME CollectorInv
  PROVE  \E c, h, q, p, b, s, f, t :
           /\ Amounts(c, h, q, p, b, s, f, t) /\ AllNat(c, h, q, p, b, s, f, t)
           /\ counted = c + h + q + p + b + s + f + t
  <1> USE DEF CollectorInv
  <1>1. PICK c, h, q, p, b, s, f, t : Amounts(c, h, q, p, b, s, f, t)
    BY DEF Amounts
  <1>2. c \in Nat
    <2>1. Taken(counter) \in Seq(Nat)
      BY TakenFacts DEF StatsShape
    <2> QED
      BY <1>1, <2>1, TotalNat DEF Amounts
  <1>3. h \in Nat
    BY <1>1 DEF Amounts, HeldBy, StatsShape
  <1>4. q \in Nat /\ p \in Nat /\ b \in Nat
    BY <1>1, TotalNat DEF Amounts, StatsShape
  <1>5. s \in Nat /\ f \in Nat /\ t \in Nat
    BY <1>1 DEF Amounts, StatsShape
  <1>6. counted = c + h + q + p + b + s + f + t
    BY <1>1 DEF Counted, Amounts, Taken, HeldBy
  <1> QED
    BY <1>1, <1>2, <1>3, <1>4, <1>5, <1>6 DEF AllNat

LEMMA AmountsThen ==
  ASSUME NEW c, NEW h, NEW q, NEW p, NEW b, NEW s, NEW f, NEW t,
         Amounts(c, h, q, p, b, s, f, t)', counted' = c + h + q + p + b + s + f + t,
         t > 0 => cctx'
  PROVE  Counted'
  BY DEF Counted, Amounts, Taken, HeldBy

-----------------------------------------------------------------------------
(***************************************************************************)
(* Every step of the collector keeps it.                                   *)
(***************************************************************************)
LEMMA CountKeeps ==
  ASSUME CollectorInv, NEW m \in Counters, Count(m)
  PROVE  CollectorInv'
  <1> USE DEF CollectorInv
  <1>1. PICK c, h, q, p, b, s, f, t :
          /\ Amounts(c, h, q, p, b, s, f, t) /\ AllNat(c, h, q, p, b, s, f, t)
          /\ counted = c + h + q + p + b + s + f + t
    BY AmountsNow
  <1>2. PICK k \in 1 .. Len(Stats) : m = Stats[k]
    BY StatsFacts
  <1>3. PICK x : x = counter[m] + 1
    OBVIOUS
  <1>4. counter' = [counter EXCEPT ![Stats[k]] = x] /\ counter[Stats[k]] \in Nat /\ x \in Nat
    BY <1>2, <1>3, SMTT(30) DEF Count, StatsShape
  <1>5. /\ counter' \in [Counters -> Nat]
        /\ Total(Taken(counter')) + counter[Stats[k]] = Total(Taken(counter)) + x
    <2>1. counter \in [Counters -> Nat]
      BY DEF StatsShape
    <2>2. PICK d, e : d = counter /\ e = counter'
      OBVIOUS
    <2>3. d \in [Counters -> Nat] /\ Updated(d, k, x, e) /\ k \in 1 .. Len(Stats) /\ x \in Nat
      BY <1>4, <2>1, <2>2 DEF Updated
    <2>4. e \in [Counters -> Nat] /\ Total(Taken(e)) + d[Stats[k]] = Total(Taken(d)) + x
      BY <2>3, TakenUpdate
    <2> QED
      BY <2>2, <2>4
  <1>6. Total(Taken(counter')) = c + 1
    <2>1. PICK y, z : y = counter[Stats[k]] /\ z = Total(Taken(counter'))
      OBVIOUS
    <2>2. z + y = c + x /\ x = y + 1 /\ y \in Nat /\ c \in Nat
      BY <1>1, <1>2, <1>3, <1>4, <1>5, <2>1 DEF Amounts, AllNat
    <2>3. z \in Nat
      BY <1>5, <2>1, TakenFacts, TotalNat
    <2>4. z = c + 1
      BY <2>2, <2>3
    <2> QED
      BY <2>1, <2>4
  <1>7. StatsShape'
    <2>1. counted' \in 0 .. MaxCount
      BY CollectorBounds, SMTT(30) DEF StatsShape, Count
    <2> QED
      BY <1>5, <2>1 DEF StatsShape, Count
  <1>8. StatsStages'
    <2>1. \A j \in 1 .. Len(Stats) : counter[Stats[j]] \in Nat /\ counter[Stats[j]] <= counter'[Stats[j]]
      BY StatsFacts, SMTT(30) DEF Count, StatsShape
    <2>2. worker.pc = "sub" => worker.v <= counter'[Stats[worker.i]]
      <3>1. worker.i \in 1 .. Len(Stats) /\ worker.v \in Nat /\ \A j \in 1 .. Len(Stats) : counter'[Stats[j]] \in Nat
        BY <1>5, StatsFacts DEF StatsShape
      <3> QED
        BY <2>1, <3>1 DEF StatsStages
    <2> QED
      BY <2>2 DEF StatsStages, Count
  <1>9. Counted'
    <2>1. Amounts(c + 1, h, q, p, b, s, f, t)'
      BY <1>1, <1>6 DEF Amounts, Count
    <2>2. counted' = (c + 1) + h + q + p + b + s + f + t
      BY <1>1 DEF Count, AllNat
    <2>3. t > 0 => cctx'
      BY <1>1 DEF Counted, Count, Amounts
    <2> QED
      BY <2>1, <2>2, <2>3, AmountsThen
  <1> QED
    BY <1>7, <1>8, <1>9

LEMMA SubKeeps ==
  ASSUME CollectorInv, Sub
  PROVE  CollectorInv'
  <1> USE DEF CollectorInv
  <1>1. PICK c, h, q, p, b, s, f, t :
          /\ Amounts(c, h, q, p, b, s, f, t) /\ AllNat(c, h, q, p, b, s, f, t)
          /\ counted = c + h + q + p + b + s + f + t
    BY AmountsNow
  <1>2. PICK k, v, y, x : k = worker.i /\ v = worker.v /\ y = counter[Stats[k]] /\ x = y - v
    OBVIOUS
  <1>3. k \in 1 .. Len(Stats) /\ v \in Nat /\ y \in Nat /\ v <= y
    BY <1>2, StatsFacts DEF Sub, StatsShape, StatsStages
  <1>4. x \in Nat /\ counter' = [counter EXCEPT ![Stats[k]] = x]
    BY <1>2, <1>3 DEF Sub, Subtract
  <1>5. /\ counter' \in [Counters -> Nat]
        /\ Total(Taken(counter')) + counter[Stats[k]] = Total(Taken(counter)) + x
    <2>1. counter \in [Counters -> Nat]
      BY DEF StatsShape
    <2>2. PICK d, e : d = counter /\ e = counter'
      OBVIOUS
    <2>3. d \in [Counters -> Nat] /\ Updated(d, k, x, e) /\ k \in 1 .. Len(Stats) /\ x \in Nat
      BY <1>3, <1>4, <2>1, <2>2 DEF Updated
    <2>4. e \in [Counters -> Nat] /\ Total(Taken(e)) + d[Stats[k]] = Total(Taken(d)) + x
      BY <2>3, TakenUpdate
    <2> QED
      BY <2>2, <2>4
  <1>6. PICK c1 : c1 = Total(Taken(counter'))
    OBVIOUS
  <1>7. c1 \in Nat /\ c = c1 + v
    <2>1. c1 \in Nat
      BY <1>5, <1>6, TakenFacts, TotalNat
    <2>2. c1 + y = c + x /\ c \in Nat
      BY <1>1, <1>2, <1>5, <1>6 DEF Amounts, AllNat
    <2>3. x = y - v
      BY <1>2
    <2> QED
      BY <1>3, <2>1, <2>2, <2>3
  <1>8. worker.pc = "sub" /\ worker' = [worker EXCEPT !.pc = "send"] /\ h = 0
    BY <1>1 DEF Sub, Amounts, HeldBy
  <1>9. StatsShape' /\ HeldBy(worker)' = v
    BY <1>2, <1>5, <1>8 DEF StatsShape, Sub, WorkerPlaces, HeldBy
  <1>10. StatsStages'
    BY <1>8 DEF StatsStages, Sub, StatsShape
  <1>11. Counted'
    <2>1. Amounts(c1, v, q, p, b, s, f, t)'
      BY <1>1, <1>6, <1>9 DEF Amounts, Sub
    <2>2. counted' = c1 + v + q + p + b + s + f + t
      BY <1>1, <1>3, <1>7, <1>8 DEF Sub, AllNat
    <2>3. t > 0 => cctx'
      BY <1>1 DEF Counted, Sub, Amounts
    <2> QED
      BY <2>1, <2>2, <2>3, AmountsThen
  <1> QED
    BY <1>9, <1>10, <1>11

\* Steps that move no event.
LEMMA IdleKeeps ==
  ASSUME CollectorInv,
         Tick \/ Load \/ WorkerLeaves \/ ReadReturns \/ RemoteTries \/ RemoteFails
         \/ CollectorCancel \/ UNCHANGED collectorVars
  PROVE  CollectorInv'
  <1> USE DEF CollectorInv
  <1>1. PICK c, h, q, p, b, s, f, t :
          /\ Amounts(c, h, q, p, b, s, f, t) /\ AllNat(c, h, q, p, b, s, f, t)
          /\ counted = c + h + q + p + b + s + f + t
    BY AmountsNow
  <1>2. t > 0 => cctx
    BY <1>1 DEF Counted, Amounts
  <1>3. CASE Tick
    <2>0. worker' = [worker EXCEPT !.pc = "load", !.i = 1] /\ 1 \in 1 .. Len(Stats)
      BY <1>3, StatsFacts DEF Tick
    <2>1. StatsShape' /\ StatsStages' /\ HeldBy(worker)' = HeldBy(worker)
      <3>1. /\ worker' \in [pc : WorkerPlaces, i : 1 .. Len(Stats), v : Nat]
            /\ worker.pc = "idle" /\ worker'.pc = "load" /\ worker'.v = worker.v
        BY <1>3, <2>0 DEF Tick, StatsShape, WorkerPlaces
      <3>2. StatsShape'
        BY <1>3, <3>1 DEF Tick, StatsShape
      <3>3. StatsStages'
        BY <1>3, <3>1 DEF Tick, StatsStages
      <3> QED
        BY <3>1, <3>2, <3>3 DEF HeldBy
    <2>2. Amounts(c, h, q, p, b, s, f, t)' /\ counted' = counted /\ cctx' = cctx
      BY <1>1, <1>3, <2>1 DEF Tick, Amounts
    <2>3. Counted'
      BY <1>1, <1>2, <2>2, AmountsThen
    <2> QED
      BY <2>1, <2>3
  <1>4. CASE Load
    <2>1. counter[Stats[worker.i]] \in Nat
      BY StatsFacts DEF StatsShape
    <2>2. StatsShape' /\ StatsStages' /\ HeldBy(worker)' = HeldBy(worker)
      <3>1. /\ worker' \in [pc : WorkerPlaces, i : 1 .. Len(Stats), v : Nat]
            /\ worker.pc = "load" /\ worker'.pc = "sub" /\ worker'.i = worker.i
            /\ worker'.v = counter[Stats[worker.i]]
        BY <1>4, <2>1 DEF Load, StatsShape, WorkerPlaces
      <3>2. StatsShape'
        BY <1>4, <3>1 DEF Load, StatsShape
      <3>3. StatsStages'
        BY <1>4, <2>1, <3>1 DEF Load, StatsStages
      <3> QED
        BY <3>1, <3>2, <3>3 DEF HeldBy
    <2>3. Amounts(c, h, q, p, b, s, f, t)' /\ counted' = counted /\ cctx' = cctx
      BY <1>1, <1>4, <2>2 DEF Load, Amounts
    <2>4. Counted'
      BY <1>1, <1>2, <2>3, AmountsThen
    <2> QED
      BY <2>2, <2>4
  <1>5. CASE WorkerLeaves
    <2>1. StatsShape' /\ StatsStages' /\ HeldBy(worker)' = HeldBy(worker)
      BY <1>5 DEF WorkerLeaves, StatsShape, StatsStages, WorkerPlaces, HeldBy
    <2>2. Amounts(c, h, q, p, b, s, f, t)' /\ counted' = counted /\ cctx' = cctx
      BY <1>1, <1>5, <2>1 DEF WorkerLeaves, Amounts
    <2>3. Counted'
      BY <1>1, <1>2, <2>2, AmountsThen
    <2> QED
      BY <2>1, <2>3
  <1>6. CASE ReadReturns
    <2>1. StatsShape' /\ StatsStages' /\ sender'.points = sender.points /\ sender'.b = sender.b
      BY <1>6 DEF ReadReturns, StatsShape, StatsStages, SenderPlaces
    <2>2. Amounts(c, h, q, p, b, s, f, t)' /\ counted' = counted /\ cctx' = cctx
      BY <1>1, <1>6, <2>1 DEF ReadReturns, Amounts
    <2>3. Counted'
      BY <1>1, <1>2, <2>2, AmountsThen
    <2> QED
      BY <2>1, <2>3
  <1>7. CASE RemoteTries \/ RemoteFails
    <2>1. StatsShape' /\ StatsStages' /\ sender'.points = sender.points /\ sender'.b = sender.b
      BY <1>7 DEF RemoteTries, RemoteFails, StatsShape, StatsStages, SenderPlaces
    <2>2. Amounts(c, h, q, p, b, s, f, t)' /\ counted' = counted /\ cctx' = cctx
      BY <1>1, <1>7, <2>1 DEF RemoteTries, RemoteFails, Amounts
    <2>3. Counted'
      BY <1>1, <1>2, <2>2, AmountsThen
    <2> QED
      BY <2>1, <2>3
  <1>8. CASE CollectorCancel
    <2>1. StatsShape' /\ StatsStages'
      BY <1>8 DEF CollectorCancel, StatsShape, StatsStages
    <2>2. Amounts(c, h, q, p, b, s, f, t)' /\ counted' = counted /\ cctx'
      BY <1>1, <1>8 DEF CollectorCancel, Amounts
    <2>3. Counted'
      BY <1>1, <2>2, AmountsThen
    <2> QED
      BY <2>1, <2>3
  <1>9. CASE UNCHANGED collectorVars
    BY <1>9 DEF collectorVars, StatsShape, StatsStages, Counted
  <1> QED
    BY <1>3, <1>4, <1>5, <1>6, <1>7, <1>8, <1>9

LEMMA TallyGrows ==
  ASSUME NEW r \in [sent : Nat, full : Nat, stop : Nat], NEW x \in Nat
  PROVE  /\ [r EXCEPT !.sent = @ + x] \in [sent : Nat, full : Nat, stop : Nat]
         /\ [r EXCEPT !.full = @ + x] \in [sent : Nat, full : Nat, stop : Nat]
         /\ [r EXCEPT !.stop = @ + x] \in [sent : Nat, full : Nat, stop : Nat]
  <1>1. r.sent + x \in Nat /\ r.full + x \in Nat /\ r.stop + x \in Nat
    OBVIOUS
  <1> QED
    BY <1>1

LEMMA OfferKeeps ==
  ASSUME CollectorInv, Offer
  PROVE  CollectorInv'
  <1> USE DEF CollectorInv
  <1>1. PICK c, h, q, p, b, s, f, t :
          /\ Amounts(c, h, q, p, b, s, f, t) /\ AllNat(c, h, q, p, b, s, f, t)
          /\ counted = c + h + q + p + b + s + f + t
    BY AmountsNow
  <1>2. PICK v : v = worker.v
    OBVIOUS
  <1>3. v \in Nat /\ h = v /\ worker.i \in 1 .. Len(Stats)
    BY <1>1, <1>2 DEF Offer, Amounts, HeldBy, StatsShape
  <1>4. /\ worker' \in [pc : WorkerPlaces, i : 1 .. Len(Stats), v : Nat]
        /\ worker'.pc \in {"load", "idle"} /\ worker'.v = 0
    BY <1>3, StatsFacts DEF Offer, Visited, WorkerPlaces
  <1>5. HeldBy(worker)' = 0
    BY <1>4 DEF HeldBy
  <1>6. t > 0 => cctx'
    BY <1>1 DEF Counted, Offer, Amounts
  <1>7. CASE Len(queue) < QueueSize
    <2>1. queue \in Seq(Nat) /\ queue' = Append(queue, v) /\ tally' = tally
      BY <1>2, <1>7 DEF Offer, StatsShape
    <2>2. queue' \in Seq(Nat) /\ Total(queue') = Total(queue) + v /\ Len(queue') = Len(queue) + 1
      BY <1>3, <2>1, TotalAppend, AppendProperties
    <2>3. StatsShape'
      <3>1. Len(queue') <= QueueSize
        BY <1>7, <2>1, <2>2, LenProperties, CollectorBounds
      <3> QED
        BY <1>4, <2>1, <2>2, <3>1 DEF StatsShape, Offer
    <2>4. StatsStages'
      <3>1. sender.pc = "more" => Len(sender.points) + Len(queue') <= MaxBatch
        <4> SUFFICES ASSUME sender.pc = "more"
                     PROVE  Len(sender.points) + Len(queue') <= MaxBatch
          OBVIOUS
        <4>1. PICK l, n : l = Len(sender.points) /\ n = Len(queue)
          OBVIOUS
        <4>2. l \in Nat /\ n \in Nat /\ l + n < MaxBatch /\ MaxBatch \in Nat
          BY <2>1, <4>1, LenProperties, CollectorBounds DEF Offer, StatsShape
        <4>3. l + (n + 1) <= MaxBatch
          BY <4>2
        <4> QED
          BY <2>2, <4>1, <4>3
      <3> QED
        BY <1>4, <3>1 DEF StatsStages, Offer
    <2>5. Amounts(c, 0, q + v, p, b, s, f, t)'
      BY <1>1, <1>5, <2>1, <2>2 DEF Amounts, Offer
    <2>6. counted' = c + 0 + (q + v) + p + b + s + f + t
      BY <1>1, <1>3 DEF Offer, AllNat
    <2>7. Counted'
      BY <1>6, <2>5, <2>6, AmountsThen
    <2> QED
      BY <2>3, <2>4, <2>7
  <1>8. CASE ~(Len(queue) < QueueSize)
    <2>1. queue' = queue /\ tally' = [tally EXCEPT !.full = @ + v]
      BY <1>2, <1>8 DEF Offer
    <2>2. /\ tally' \in [sent : Nat, full : Nat, stop : Nat]
          /\ tally'.sent = tally.sent /\ tally'.full = tally.full + v /\ tally'.stop = tally.stop
      BY <1>3, <2>1, TallyGrows DEF StatsShape
    <2>3. StatsShape'
      BY <1>4, <2>1, <2>2 DEF StatsShape, Offer
    <2>4. StatsStages'
      BY <1>4, <2>1 DEF StatsStages, Offer
    <2>5. Amounts(c, 0, q, p, b, s, f + v, t)'
      BY <1>1, <1>5, <2>1, <2>2 DEF Amounts, Offer
    <2>6. counted' = c + 0 + q + p + b + s + (f + v) + t
      BY <1>1, <1>3, SMTT(30) DEF Offer, AllNat
    <2>7. Counted'
      BY <1>6, <2>5, <2>6, AmountsThen
    <2> QED
      BY <2>3, <2>4, <2>7
  <1> QED
    BY <1>7, <1>8

LEMMA ReadDataKeeps ==
  ASSUME CollectorInv, ReadData
  PROVE  CollectorInv'
  <1> USE DEF CollectorInv
  <1>1. PICK c, h, q, p, b, s, f, t :
          /\ Amounts(c, h, q, p, b, s, f, t) /\ AllNat(c, h, q, p, b, s, f, t)
          /\ counted = c + h + q + p + b + s + f + t
    BY AmountsNow
  <1>2. PICK x, l, n : x = Head(queue) /\ l = Len(sender.points) /\ n = Len(queue)
    OBVIOUS
  <1>3. queue \in Seq(Nat) /\ queue # <<>> /\ sender.points \in Seq(Nat)
    BY DEF ReadData, StatsShape
  <1>4. /\ x \in Nat /\ queue' \in Seq(Nat) /\ Len(queue') + 1 = n
        /\ Total(queue) = x + Total(queue')
    BY <1>2, <1>3, TotalHeadTail DEF ReadData
  <1>5. sender' = [sender EXCEPT !.pc = "more", !.points = Append(sender.points, x)]
    BY <1>2 DEF ReadData
  <1>6. /\ Append(sender.points, x) \in Seq(Nat) /\ Len(Append(sender.points, x)) = l + 1
        /\ Total(Append(sender.points, x)) = Total(sender.points) + x
    BY <1>2, <1>3, <1>4, TotalAppend, AppendProperties
  <1>7. /\ sender' \in [pc : SenderPlaces, points : Seq(Nat), b : Seq(Nat)]
        /\ sender'.pc = "more" /\ sender'.b = sender.b
        /\ sender'.points = Append(sender.points, x)
    BY <1>5, <1>6 DEF StatsShape, SenderPlaces
  <1>8. (l + 1) + Len(queue') <= MaxBatch /\ l + 1 <= MaxBatch /\ Len(queue') <= QueueSize
    <2>1. PICK k : k = Len(queue')
      OBVIOUS
    <2>2. l \in Nat /\ n \in Nat /\ k \in Nat /\ k + 1 = n
      BY <1>2, <1>3, <1>4, <2>1, LenProperties
    <2>3. n <= QueueSize /\ QueueSize < MaxBatch /\ QueueSize \in Nat /\ MaxBatch \in Nat
      BY <1>2, CollectorBounds DEF StatsShape
    <2>4. l = 0 \/ l + n <= MaxBatch
      <3>1. CASE sender.pc = "read"
        BY <1>2, <3>1 DEF StatsStages
      <3>2. CASE sender.pc = "more"
        BY <1>2, <3>2 DEF StatsStages
      <3> QED
        BY <3>1, <3>2 DEF ReadData
    <2>5. (l + 1) + k <= MaxBatch /\ l + 1 <= MaxBatch /\ k <= QueueSize
      BY <2>2, <2>3, <2>4
    <2> QED
      BY <2>1, <2>5
  <1>9. StatsShape'
    BY <1>4, <1>6, <1>7, <1>8 DEF StatsShape, ReadData
  <1>10. StatsStages'
    BY <1>6, <1>7, <1>8 DEF StatsStages, ReadData
  <1>11. Counted'
    <2>1. PICK q1 : q1 = Total(queue')
      OBVIOUS
    <2>2. q1 \in Nat /\ q = x + q1
      BY <1>1, <1>4, <2>1, TotalNat DEF Amounts
    <2>3. Amounts(c, h, q1, p + x, b, s, f, t)'
      BY <1>1, <1>6, <1>7, <2>1 DEF Amounts, ReadData
    <2>4. counted' = c + h + q1 + (p + x) + b + s + f + t
      BY <1>1, <1>4, <2>2, SMTT(30) DEF ReadData, AllNat
    <2>5. t > 0 => cctx'
      BY <1>1 DEF Counted, ReadData, Amounts
    <2> QED
      BY <2>3, <2>4, <2>5, AmountsThen
  <1> QED
    BY <1>9, <1>10, <1>11

LEMMA FillKeeps ==
  ASSUME CollectorInv, Fill
  PROVE  CollectorInv'
  <1> USE DEF CollectorInv
  <1>1. PICK c, h, q, p, b, s, f, t :
          /\ Amounts(c, h, q, p, b, s, f, t) /\ AllNat(c, h, q, p, b, s, f, t)
          /\ counted = c + h + q + p + b + s + f + t
    BY AmountsNow
  <1>2. PICK z, l : z = sender.points /\ l = Len(z)
    OBVIOUS
  <1>3. PICK n : n = IF l < BatchSize THEN l ELSE BatchSize
    OBVIOUS
  <1>4. PICK d, e : d = SubSeq(z, 1, n) /\ e = SubSeq(z, n + 1, l)
    OBVIOUS
  <1>5. sender.pc = "fill" /\ sender' = [pc |-> "write", points |-> e, b |-> d]
    BY <1>2, <1>3, <1>4 DEF Fill
  <1>6. /\ z \in Seq(Nat) /\ l \in Nat /\ l <= MaxBatch /\ BatchSize \in Nat /\ MaxBatch \in Nat
    BY <1>2, LenProperties, CollectorBounds DEF StatsShape
  <1>7. n \in 0 .. l /\ n <= BatchSize
    BY <1>3, <1>6
  <1>8. d \in Seq(Nat) /\ e \in Seq(Nat) /\ Total(z) = Total(d) + Total(e)
    BY <1>2, <1>4, <1>6, <1>7, TotalSplit
  <1>9. Len(d) <= BatchSize /\ Len(e) <= MaxBatch
    <2>1. Len(d) = n
      BY <1>2, <1>4, <1>6, <1>7, SubSeqProperties
    <2>2. Len(e) = IF n + 1 <= l + 1 THEN (l - (n + 1)) + 1 ELSE 0
      BY <1>2, <1>4, <1>6, <1>7, SubSeqProperties, SMTT(30)
    <2>3. PICK k : k = Len(e)
      OBVIOUS
    <2>4. k <= MaxBatch
      BY <1>6, <1>7, <2>2, <2>3
    <2> QED
      BY <1>7, <2>1, <2>3, <2>4
  <1>10. StatsShape'
    <2>1. /\ sender' \in [pc : SenderPlaces, points : Seq(Nat), b : Seq(Nat)]
          /\ sender'.points = e /\ sender'.b = d
      BY <1>5, <1>8 DEF SenderPlaces
    <2> QED
      BY <1>9, <2>1 DEF StatsShape, Fill
  <1>11. StatsStages'
    BY <1>5 DEF StatsStages, Fill
  <1>12. Counted'
    <2>1. PICK x, y : x = Total(e) /\ y = Total(d)
      OBVIOUS
    <2>2. x \in Nat /\ y \in Nat /\ p = y + x /\ b = 0
      <3>1. x \in Nat /\ y \in Nat
        BY <1>8, <2>1, TotalNat
      <3>2. p = y + x
        BY <1>1, <1>2, <1>8, <2>1 DEF Amounts
      <3>3. sender.b = <<>>
        BY <1>5 DEF StatsStages
      <3> QED
        BY <1>1, <3>1, <3>2, <3>3, TotalEmpty DEF Amounts
    <2>3. Amounts(c, h, q, x, y, s, f, t)'
      <3>1. sender'.points = e /\ sender'.b = d
        BY <1>5
      <3>2. UNCHANGED <<counter, worker, queue, tally>>
        BY DEF Fill
      <3> QED
        BY <1>1, <2>1, <3>1, <3>2 DEF Amounts
    <2>4. counted' = c + h + q + x + y + s + f + t
      BY <1>1, <2>2 DEF Fill, AllNat
    <2>5. t > 0 => cctx'
      BY <1>1 DEF Counted, Fill, Amounts
    <2> QED
      BY <2>3, <2>4, <2>5, AmountsThen
  <1> QED
    BY <1>10, <1>11, <1>12

LEMMA ContinueKeeps ==
  ASSUME CollectorInv, sender' = Continue
  PROVE  /\ sender' \in [pc : SenderPlaces, points : Seq(Nat), b : Seq(Nat)]
         /\ Len(sender'.points) <= MaxBatch /\ Len(sender'.b) <= BatchSize
         /\ sender'.pc \in {"read", "fill"} /\ sender'.b = <<>>
         /\ sender'.pc = "read" => sender'.points = <<>>
         /\ sender'.points = sender.points /\ Total(sender'.b) = 0
  <1>1. <<>> \in Seq(Nat) /\ Len(<<>>) = 0 /\ BatchSize \in Nat
    BY EmptySeq, CollectorBounds
  <1>2. /\ sender'.points = sender.points /\ sender'.b = <<>> /\ sender'.pc \in {"read", "fill"}
        /\ sender'.pc = "read" => sender'.points = <<>>
    BY DEF Continue
  <1>3. sender' \in [pc : SenderPlaces, points : Seq(Nat), b : Seq(Nat)]
    BY <1>1 DEF Continue, CollectorInv, StatsShape, SenderPlaces
  <1>4. Len(sender'.points) <= MaxBatch /\ Len(sender'.b) <= BatchSize
    BY <1>1, <1>2 DEF CollectorInv, StatsShape
  <1> QED
    BY <1>2, <1>3, <1>4, TotalEmpty

LEMMA SentKeeps ==
  ASSUME CollectorInv, PointsSent
  PROVE  CollectorInv'
  <1> USE DEF CollectorInv
  <1>1. PICK c, h, q, p, b, s, f, t :
          /\ Amounts(c, h, q, p, b, s, f, t) /\ AllNat(c, h, q, p, b, s, f, t)
          /\ counted = c + h + q + p + b + s + f + t
    BY AmountsNow
  <1>2. b = Total(sender.b) /\ b \in Nat /\ tally' = [tally EXCEPT !.sent = @ + b]
    BY <1>1 DEF PointsSent, Amounts, AllNat
  <1>3. /\ tally' \in [sent : Nat, full : Nat, stop : Nat]
        /\ tally'.sent = tally.sent + b /\ tally'.full = tally.full /\ tally'.stop = tally.stop
    BY <1>2, TallyGrows DEF StatsShape
  <1>4. sender' = Continue
    BY DEF PointsSent
  <1>5. StatsShape'
    BY <1>3, <1>4, ContinueKeeps DEF StatsShape, PointsSent
  <1>6. StatsStages'
    BY <1>4, ContinueKeeps DEF StatsStages, PointsSent
  <1>7. Counted'
    <2>1. Amounts(c, h, q, p, 0, s + b, f, t)'
      BY <1>1, <1>3, <1>4, ContinueKeeps DEF Amounts, PointsSent
    <2>2. counted' = c + h + q + p + 0 + (s + b) + f + t
      BY <1>1 DEF PointsSent, AllNat
    <2>3. t > 0 => cctx'
      BY <1>1 DEF Counted, PointsSent, Amounts
    <2> QED
      BY <2>1, <2>2, <2>3, AmountsThen
  <1> QED
    BY <1>5, <1>6, <1>7

LEMMA RemoteGivesUpKeeps ==
  ASSUME CollectorInv, RemoteGivesUp
  PROVE  CollectorInv'
  <1> USE DEF CollectorInv
  <1>1. PICK c, h, q, p, b, s, f, t :
          /\ Amounts(c, h, q, p, b, s, f, t) /\ AllNat(c, h, q, p, b, s, f, t)
          /\ counted = c + h + q + p + b + s + f + t
    BY AmountsNow
  <1>2. b = Total(sender.b) /\ b \in Nat /\ tally' = [tally EXCEPT !.stop = @ + b]
    BY <1>1 DEF RemoteGivesUp, Amounts, AllNat
  <1>3. /\ tally' \in [sent : Nat, full : Nat, stop : Nat]
        /\ tally'.sent = tally.sent /\ tally'.full = tally.full /\ tally'.stop = tally.stop + b
    BY <1>2, TallyGrows DEF StatsShape
  <1>4. sender' = Continue
    BY DEF RemoteGivesUp
  <1>5. StatsShape'
    BY <1>3, <1>4, ContinueKeeps DEF StatsShape, RemoteGivesUp
  <1>6. StatsStages'
    BY <1>4, ContinueKeeps DEF StatsStages, RemoteGivesUp
  <1>7. Counted'
    <2>1. Amounts(c, h, q, p, 0, s, f, t + b)'
      BY <1>1, <1>3, <1>4, ContinueKeeps DEF Amounts, RemoteGivesUp
    <2>2. counted' = c + h + q + p + 0 + s + f + (t + b)
      BY <1>1 DEF RemoteGivesUp, AllNat
    <2>3. cctx'
      BY DEF RemoteGivesUp, ExitSeen
    <2> QED
      BY <2>1, <2>2, <2>3, AmountsThen
  <1> QED
    BY <1>5, <1>6, <1>7

LEMMA LocalGivesUpKeeps ==
  ASSUME CollectorInv, LocalGivesUp
  PROVE  CollectorInv'
  <1> USE DEF CollectorInv
  <1>1. PICK c, h, q, p, b, s, f, t :
          /\ Amounts(c, h, q, p, b, s, f, t) /\ AllNat(c, h, q, p, b, s, f, t)
          /\ counted = c + h + q + p + b + s + f + t
    BY AmountsNow
  <1>2. /\ b = Total(sender.b) /\ b \in Nat /\ p = Total(sender.points) /\ p \in Nat
        /\ tally' = [tally EXCEPT !.stop = @ + (b + p)] /\ b + p \in Nat
    <2>1. b = Total(sender.b) /\ b \in Nat /\ p = Total(sender.points) /\ p \in Nat
      BY <1>1 DEF Amounts, AllNat
    <2>2. tally' = [tally EXCEPT !.stop = @ + b + p] /\ tally.stop \in Nat
      BY <2>1 DEF LocalGivesUp, StatsShape
    <2> QED
      BY <2>1, <2>2
  <1>3. /\ tally' \in [sent : Nat, full : Nat, stop : Nat]
        /\ tally'.sent = tally.sent /\ tally'.full = tally.full
        /\ tally'.stop = tally.stop + (b + p)
    BY <1>2, TallyGrows DEF StatsShape
  <1>4. sender' = [pc |-> "gone", points |-> <<>>, b |-> <<>>]
    BY DEF LocalGivesUp
  <1>5. <<>> \in Seq(Nat) /\ Len(<<>>) = 0 /\ BatchSize \in Nat /\ MaxBatch \in Nat
    BY EmptySeq, CollectorBounds
  <1>6. StatsShape'
    BY <1>3, <1>4, <1>5 DEF StatsShape, LocalGivesUp, SenderPlaces
  <1>7. StatsStages'
    BY <1>4 DEF StatsStages, LocalGivesUp
  <1>8. Counted'
    <2>1. Amounts(c, h, q, 0, 0, s, f, t + (b + p))'
      BY <1>1, <1>3, <1>4, TotalEmpty DEF Amounts, LocalGivesUp
    <2>2. counted' = c + h + q + 0 + 0 + s + f + (t + (b + p))
      BY <1>1, SMTT(30) DEF LocalGivesUp, AllNat
    <2>3. cctx'
      BY DEF LocalGivesUp
    <2> QED
      BY <2>1, <2>2, <2>3, AmountsThen
  <1> QED
    BY <1>6, <1>7, <1>8

LEMMA CollectorStepKeeps ==
  ASSUME CollectorInv, NEW received, CollectorStep(received)
  PROVE  CollectorInv'
  <1>1. CASE \E m \in Counters : Count(m)
    BY <1>1, CountKeeps
  <1>2. CASE WorkerStep
    BY <1>2, IdleKeeps, SubKeeps, OfferKeeps DEF WorkerStep
  <1>3. CASE SenderStep(received)
    BY <1>3, IdleKeeps, ReadDataKeeps, FillKeeps, SentKeeps, LocalGivesUpKeeps,
       RemoteGivesUpKeeps
       DEF SenderStep, LocalWrites, RemoteStep, RemoteWrites
  <1> QED
    BY <1>1, <1>2, <1>3 DEF CollectorStep

LEMMA CollectorInitInv ==
  ASSUME Init
  PROVE  CollectorInv
  <1>1. <<>> \in Seq(Nat) /\ Len(<<>>) = 0
    BY EmptySeq
  <1>2. endpoint \in {"off", "local", "remote"}
    BY ConfigsAssumption DEF Init
  <1>3. CollectorInit
    BY DEF Init
  <1>4. StatsShape
    <2>1. {MaxCount, QueueSize, BatchSize, MaxBatch} \subseteq Nat /\ 1 \in 1 .. Len(Stats)
      BY CollectorBounds, StatsFacts
    <2>2. /\ worker \in [pc : WorkerPlaces, i : 1 .. Len(Stats), v : Nat]
          /\ sender \in [pc : SenderPlaces, points : Seq(Nat), b : Seq(Nat)]
          /\ sender.points = <<>> /\ sender.b = <<>>
      BY <1>1, <1>3, <2>1 DEF CollectorInit, WorkerPlaces, SenderPlaces
    <2>3. Len(queue) <= QueueSize /\ Len(sender.points) <= MaxBatch /\ Len(sender.b) <= BatchSize
      BY <1>1, <1>3, <2>1, <2>2 DEF CollectorInit
    <2>4. /\ counter \in [Counters -> Nat] /\ counted \in 0 .. MaxCount /\ queue \in Seq(Nat)
          /\ tally \in [sent : Nat, full : Nat, stop : Nat] /\ cctx \in BOOLEAN
      <3>1. counted = 0 /\ counted \in 0 .. MaxCount
        BY <1>3, <2>1 DEF CollectorInit
      <3>2. counter \in [Counters -> Nat] /\ queue \in Seq(Nat)
        BY <1>1, <1>3 DEF CollectorInit
      <3> QED
        BY <1>3, <3>1, <3>2 DEF CollectorInit
    <2> QED
      BY <1>2, <2>2, <2>3, <2>4 DEF StatsShape
  <1>5. StatsStages
    BY <1>3 DEF CollectorInit, StatsStages
  <1>6. Counted
    <2>1. PICK z : z = Taken(counter)
      OBVIOUS
    <2>2. Total(z) = 0
      <3>1. counter \in [Counters -> Nat] /\ \A m \in Counters : counter[m] = 0
        BY <1>3 DEF CollectorInit
      <3>2. /\ z \in Seq(Nat) /\ Len(z) = Len(Stats)
            /\ \A i \in 1 .. Len(Stats) : z[i] = counter[Stats[i]]
        BY <2>1, <3>1, TakenFacts
      <3>3. \A i \in 1 .. Len(z) : z[i] = 0
        BY <3>1, <3>2, StatsFacts
      <3> QED
        BY <3>2, <3>3, TotalZeros
    <2>3. Amounts(0, 0, 0, 0, 0, 0, 0, 0)
      BY <1>3, <2>1, <2>2, TotalEmpty DEF CollectorInit, Amounts, HeldBy
    <2>4. counted = 0
      BY <1>3 DEF CollectorInit
    <2> QED
      BY <2>3, <2>4 DEF Counted, Amounts, Taken, HeldBy
  <1> QED
    BY <1>4, <1>5, <1>6 DEF CollectorInv

LEMMA CollectorNext ==
  ASSUME CollectorInv, [Next]_vars
  PROVE  CollectorInv'
  <1>1. CASE Statistics
    BY <1>1, CollectorStepKeeps DEF Statistics
  <1>2. CASE StopCollector
    BY <1>2, IdleKeeps DEF StopCollector
  <1>3. CASE UNCHANGED collectorVars
    BY <1>3, IdleKeeps
  <1>4. Statistics \/ StopCollector \/ UNCHANGED collectorVars
    <2>1. CASE CloseListener \/ WriterFlush \/ WriterExits
      BY <2>1 DEF CloseListener, WriterFlush, WriterExits, mainVars
    <2>2. CASE \E c \in Conns : Handler(c)
      BY <2>2 DEF Handler, Accept, ReadLines, ReadFrame, ReadDatagram, CloseConn, ConnEnds,
                  HandOver, mainVars
    <2>3. CASE \E p \in Parsers : Parser(p)
      BY <2>3 DEF Parser, PlainParseBuffer, PickleParseBytes, ParserWrites, ParserGivesUp,
                  ParserExits, mainVars
    <2>4. CASE \E r \in Requests : Http(r)
      BY <2>4 DEF Http, Serve, UnpackFast, Process, FlushRequest, mainVars
    <2>5. CASE Stop
      BY <2>5 DEF Stop, StopGoesOn, StopStream, StreamStopped, PrometheusFatal, TelegrafFatal,
                  CollectorStopped, WriterStopped, mainVars
    <2>6. CASE Main
      BY <2>6 DEF Main, LoopCapture, LoopReceive, MainReturns
    <2>7. CASE UNCHANGED vars
      BY <2>7 DEF vars
    <2> QED
      BY <2>1, <2>2, <2>3, <2>4, <2>5, <2>6, <2>7 DEF Next
  <1> QED
    BY <1>1, <1>2, <1>3, <1>4

\* Every event is reported exactly once: it is in a counter, in one point on its way,
\* sent, or lost with a point that met a full queue or, only then, the stop; for any
\* counters, events and bounds (base.go:49-53, collector.go:59-76, 185-224, 251-312).
THEOREM CountedSafe == Spec => []Counted
  <1>1. Init => CollectorInv
    BY CollectorInitInv
  <1>2. CollectorInv /\ [Next]_vars => CollectorInv'
    BY CollectorNext
  <1>3. CollectorInv => Counted
    BY DEF CollectorInv
  <1> QED
    BY <1>1, <1>2, <1>3, PTL DEF Spec

-----------------------------------------------------------------------------
(***************************************************************************)
(* The types of Intake.                                                    *)
(***************************************************************************)
LEMMA BoundedFacts ==
  ASSUME NEW s \in Seq(Nat), NEW n \in Nat, Len(s) <= n, NEW m \in Nat, Total(s) <= m
  PROVE  s \in BoundedSeq(0 .. m, n)
  <1>1. PICK l : l = Len(s)
    OBVIOUS
  <1>2. l \in 0 .. n /\ s \in [1 .. l -> Nat]
    BY <1>1, LenProperties
  <1>3. ASSUME NEW k \in 1 .. l PROVE s[k] \in 0 .. m
    <2>1. PICK x, y : x = s[k] /\ y = Total(s)
      OBVIOUS
    <2>2. x <= y
      BY <1>1, <2>1, TotalNat
    <2>3. x \in Nat /\ y \in Nat /\ y <= m
      BY <1>2, <2>1, TotalNat
    <2>4. x \in 0 .. m
      BY <2>2, <2>3
    <2> QED
      BY <2>1, <2>4
  <1>4. s \in [1 .. l -> 0 .. m]
    BY <1>2, <1>3
  <1> QED
    BY <1>2, <1>4 DEF BoundedSeq, SeqOf

\* A point holds no more than was counted.
LEMMA CollectorTypes == CollectorInv => CollectorTypeOK
  <1> SUFFICES ASSUME CollectorInv PROVE CollectorTypeOK
    OBVIOUS
  <1> USE DEF CollectorInv
  <1>1. PICK c, h, q, p, b, s, f, t :
          /\ Amounts(c, h, q, p, b, s, f, t) /\ AllNat(c, h, q, p, b, s, f, t)
          /\ counted = c + h + q + p + b + s + f + t
    BY AmountsNow
  <1>2. counted \in Nat /\ counted <= MaxCount /\ MaxCount \in Nat
    BY CollectorBounds DEF StatsShape
  <1>3. QueueSize \in Nat /\ BatchSize \in Nat /\ MaxBatch \in Nat
    BY CollectorBounds
  <1>4. /\ c <= MaxCount /\ h <= MaxCount /\ q <= MaxCount /\ p <= MaxCount /\ b <= MaxCount
        /\ s <= MaxCount /\ f <= MaxCount /\ t <= MaxCount
    BY <1>1, <1>2 DEF AllNat
  <1>5. \A i \in 1 .. Len(Stats) : counter[Stats[i]] \in 0 .. MaxCount
    <2> TAKE i \in 1 .. Len(Stats)
    <2>1. PICK z, x : z = Taken(counter) /\ x = counter[Stats[i]]
      OBVIOUS
    <2>2. counter \in [Counters -> Nat]
      BY DEF StatsShape
    <2>3. z \in Seq(Nat) /\ Len(z) = Len(Stats) /\ z[i] = x
      BY <2>1, <2>2, TakenFacts
    <2>4. z[i] <= Total(z) /\ Total(z) = c
      BY <1>1, <2>1, <2>3, TotalNat DEF Amounts
    <2>5. x <= c /\ x \in Nat /\ c \in Nat
      BY <1>1, <2>1, <2>2, <2>3, <2>4, StatsFacts DEF AllNat
    <2>6. x \in 0 .. MaxCount
      BY <1>2, <1>4, <2>5
    <2> QED
      BY <2>1, <2>6
  <1>6. counter \in [Counters -> 0 .. MaxCount]
    <2>1. \A m \in Counters : counter[m] \in 0 .. MaxCount
      BY <1>5, StatsFacts
    <2> QED
      BY <2>1 DEF StatsShape
  <1>7. worker.v \in 0 .. MaxCount
    <2>1. PICK v : v = worker.v
      OBVIOUS
    <2>2. v \in Nat /\ worker.pc \in WorkerPlaces /\ worker.i \in 1 .. Len(Stats)
      BY <2>1 DEF StatsShape
    <2>3. CASE worker.pc = "sub"
      <3>1. PICK x : x = counter[Stats[worker.i]]
        OBVIOUS
      <3>2. x \in 0 .. MaxCount /\ v <= x
        BY <1>5, <2>1, <2>2, <2>3, <3>1 DEF StatsStages
      <3>3. v \in 0 .. MaxCount
        BY <1>2, <2>2, <3>2
      <3> QED
        BY <2>1, <3>3
    <2>4. CASE worker.pc = "send"
      <3>1. v = h
        BY <1>1, <2>1, <2>4 DEF Amounts, HeldBy
      <3>2. v \in 0 .. MaxCount
        BY <1>2, <1>4, <2>2, <3>1
      <3> QED
        BY <2>1, <3>2
    <2>5. CASE worker.pc \in {"idle", "load", "gone"}
      BY <1>2, <2>5 DEF StatsStages
    <2> QED
      BY <2>2, <2>3, <2>4, <2>5 DEF WorkerPlaces
  <1>8. worker \in [pc : WorkerPlaces, i : 1 .. Len(Stats), v : 0 .. MaxCount]
    BY <1>7 DEF StatsShape
  <1>9. queue \in BoundedSeq(0 .. MaxCount, QueueSize)
    <2>1. queue \in Seq(Nat) /\ Len(queue) <= QueueSize /\ Total(queue) <= MaxCount
      BY <1>1, <1>4 DEF StatsShape, Amounts
    <2> QED
      BY <1>2, <1>3, <2>1, BoundedFacts
  <1>10. sender \in [pc : SenderPlaces, points : BoundedSeq(0 .. MaxCount, MaxBatch),
                     b : BoundedSeq(0 .. MaxCount, BatchSize)]
    <2>1. /\ sender.points \in Seq(Nat) /\ Len(sender.points) <= MaxBatch
          /\ Total(sender.points) <= MaxCount
          /\ sender.b \in Seq(Nat) /\ Len(sender.b) <= BatchSize /\ Total(sender.b) <= MaxCount
      BY <1>1, <1>4 DEF StatsShape, Amounts
    <2>2. /\ sender.points \in BoundedSeq(0 .. MaxCount, MaxBatch)
          /\ sender.b \in BoundedSeq(0 .. MaxCount, BatchSize)
      BY <1>2, <1>3, <2>1, BoundedFacts
    <2> QED
      BY <2>2 DEF StatsShape
  <1>11. tally \in [sent : 0 .. MaxCount, full : 0 .. MaxCount, stop : 0 .. MaxCount]
    <2>1. s \in 0 .. MaxCount /\ f \in 0 .. MaxCount /\ t \in 0 .. MaxCount
      BY <1>1, <1>2, <1>4 DEF AllNat
    <2> QED
      BY <1>1, <2>1 DEF Amounts, StatsShape
  <1> QED
    BY <1>6, <1>8, <1>9, <1>10, <1>11
       DEF CollectorTypeOK, StatsShape, WorkerPlaces, SenderPlaces

\* The variables of the stop.
ControlInv ==
  /\ conf \in Configs
  /\ app \in {"up", "stopStream", "stopHttp", "stopCollector", "stopWriter", "stopped"}
  /\ rctx \in BOOLEAN /\ listener \in {"open", "closed", "gone"}
  /\ writer \in {"run", "gone"}
  /\ exit \in {"open", "nil"} /\ loop \in {"start", "captured", "waiting", "nil", "done"}
  /\ proc \in {"running", "exited", "killed"}

LEMMA ControlStep == ControlInv /\ [Next]_vars => ControlInv'
  <1> SUFFICES ASSUME ControlInv, [Next]_vars PROVE ControlInv'
    OBVIOUS
  <1> USE DEF ControlInv
  <1>1. CASE CloseListener
    BY <1>1 DEF CloseListener, sinkVars, mainVars
  <1>2. CASE WriterFlush \/ WriterExits
    BY <1>2 DEF WriterFlush, WriterExits, rcvVars, mainVars
  <1>3. CASE \E c \in Conns : Handler(c)
    BY <1>3 DEF Handler, Accept, ReadLines, ReadFrame, ReadDatagram, CloseConn, ConnEnds,
                HandOver, sinkVars, mainVars
  <1>4. CASE \E p \in Parsers : Parser(p)
    BY <1>4 DEF Parser, PlainParseBuffer, PickleParseBytes, ParserWrites, ParserGivesUp,
                ParserExits, sinkVars, mainVars
  <1>5. CASE \E r \in Requests : Http(r)
    BY <1>5 DEF Http, Serve, UnpackFast, Process, FlushRequest, rcvVars, sinkVars, mainVars
  <1>6. CASE Stop
    BY <1>6 DEF Stop, StopGoesOn, StopStream, StreamStopped, PrometheusFatal, TelegrafFatal,
                StopCollector, CollectorStopped, WriterStopped, rcvVars, sinkVars, mainVars
  <1>7. CASE Main
    BY <1>7 DEF Main, LoopCapture, LoopReceive, MainReturns, rcvVars, sinkVars
  <1>8. CASE Statistics
    BY <1>8 DEF Statistics, rcvVars, sinkVars
  <1>9. CASE UNCHANGED vars
    BY <1>9 DEF vars
  <1> QED
    BY <1>1, <1>2, <1>3, <1>4, <1>5, <1>6, <1>7, <1>8, <1>9 DEF Next

LEMMA IntakeTypes == PlaceInv /\ ControlInv /\ CollectorInv => TypeOK
  <1> SUFFICES ASSUME PlaceInv, ControlInv, CollectorInv PROVE TypeOK
    OBVIOUS
  <1>1. Done \subseteq Buffers
    BY DEF PlaceInv, UniqueInv, DoneInv, Buffers, Body
  <1>2. ShapeInv
    BY DEF PlaceInv, IntakeInv
  <1> QED
    BY <1>1, <1>2, CollectorTypes DEF TypeOK, ShapeInv, ControlInv, Done

\* Every variable of the receivers, the collector and the stop keeps its shape: in
\* particular a counter never falls below 0 and no point holds more than was counted,
\* and c.data, a batch and a buffer keep within their capacity (collector.go:59-76,
\* 185-224, base.go:49-53).
THEOREM TypeCorrect == Spec => []TypeOK
  <1> DEFINE Inv == PlaceInv /\ ControlInv /\ CollectorInv
  <1>1. Init => Inv
    <2>1. Init => ControlInv
      BY DEF Init, ControlInv
    <2> QED
      BY <2>1, InitInv, UniqueInit, CollectorInitInv DEF PlaceInv
  <1>2. Inv /\ [Next]_vars => Inv'
    BY InvStep, UniqueStep, ControlStep, CollectorNext DEF PlaceInv, IntakeInv
  <1>3. Inv => TypeOK
    BY IntakeTypes
  <1> QED
    BY <1>1, <1>2, <1>3, PTL DEF Spec
=============================================================================
