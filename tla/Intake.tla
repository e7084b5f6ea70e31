------------------------------- MODULE Intake -------------------------------
(***************************************************************************)
(* From the sockets to the writer, and App.stopAll: a stream receiver      *)
(* (TCP, Pickle or UDP), an HTTP receiver (Prometheus or Telegraf), the    *)
(* writer as the reader of writeChan, and main.                            *)
(*                                                                         *)
(* A handler reads buffers and sends them to parseChan; the parsers take   *)
(* them from there and send what they made of them to writeChan; an HTTP   *)
(* handler parses its request itself.  Both channels are unbuffered: a     *)
(* send is a rendezvous.  stopAll stops one component after the other,     *)
(* each by cancelling its context and waiting for its goroutines.          *)
(*                                                                         *)
(* Abstracted: what a buffer holds (module ChunkWriter has the files; a    *)
(* pickle message or a request that fills several write buffers is one     *)
(* buffer here), gRPC (module ChunkWriter) and the uploaders (module       *)
(* Spool).  The collector (module Collector) is one more sender to         *)
(* writeChan; its buffers are told apart there, not in outBuf and disk.    *)
(***************************************************************************)
EXTENDS Integers, FiniteSets, Collector

CONSTANTS Conns,    \* connections; UDP has one socket
          MaxReads, \* bound on the buffers read from a connection
          Parsers,  \* parse threads
          Requests, \* requests to the HTTP receiver
          Configs,  \* [stream, http, stats]: what may be configured together
          Nothing   \* no buffer

Streams == {"none", "tcp", "pickle", "udp"}
HttpKinds == {"none", "prometheus", "telegraf"}

ASSUME ConfigsAssumption ==
  Configs \subseteq [stream : Streams, http : HttpKinds, stats : {"off", "local", "remote"}]
ASSUME ReadsAssumption == MaxReads \in Nat \ {0}
ASSUME RequestsAssumption == Requests \cap Conns = {}
ASSUME NothingAssumption == Nothing \notin (Conns \cup Requests) \X (1 .. MaxReads)

VARIABLES
  conf,      \* the receivers of the configuration
  app,       \* where App.Stop is
  rctx,      \* the context of the stream receiver is cancelled
  listener,  \* "open", "closed", or "gone" with its accept loop
  conn,      \* [Conns -> [pc, i: buffers read, closed: by the watching goroutine]]
  parser,    \* [Parsers -> [pc, b: the buffer at hand]]
  request,   \* [Requests -> where ServeHTTP is]
  writer,    \* "run" or "gone"
  outBuf,    \* buffers the writer has taken and not flushed
  disk,      \* buffers in a file
  dropped,   \* buffers given up at ctx.Done
  filtered,  \* buffers of which no point was kept
  exit,      \* app.exit: "open" or "nil" (closed and set to nil)
  loop,      \* where App.Loop, called by main, is
  proc       \* "running", "exited", or "killed" by Logger.Fatal

vars == <<conf, app, rctx, listener, conn, parser, request, writer, outBuf, disk,
          dropped, filtered, exit, loop, proc, collectorVars>>
rcvVars  == <<rctx, listener, conn, parser>>
sinkVars == <<writer, outBuf, disk, dropped, filtered>>
mainVars == <<conf, exit, loop, proc, collectorVars>>

Buffers == (Conns \X (1 .. MaxReads)) \cup (Requests \X {1})
Running == proc = "running"

\* Every variable has the shape the code gives it.
TypeOK ==
  /\ conf \in Configs
  /\ app \in {"up", "stopStream", "stopHttp", "stopCollector", "stopWriter", "stopped"}
  /\ rctx \in BOOLEAN /\ listener \in {"open", "closed", "gone"}
  /\ conn \in [Conns -> [pc : {"new", "read", "send", "gone"}, i : 0 .. MaxReads,
                         closed : BOOLEAN]]
  /\ parser \in [Parsers -> [pc : {"select", "parse", "write", "gone"},
                             b : Buffers \cup {Nothing}]]
  /\ request \in [Requests -> {"new", "parse", "flush", "ok", "error", "cancelled"}]
  /\ writer \in {"run", "gone"}
  /\ outBuf \subseteq Buffers /\ disk \subseteq Buffers
  /\ dropped \subseteq Buffers /\ filtered \subseteq Buffers
  /\ exit \in {"open", "nil"} /\ loop \in {"start", "captured", "waiting", "nil", "done"}
  /\ proc \in {"running", "exited", "killed"}
  /\ CollectorTypeOK

(***************************************************************************)
(* App.Start has returned: the configured receivers listen.  UDP has no    *)
(* accept loop, its receiveWorker reads the one socket.                    *)
(***************************************************************************)
Socket == CHOOSE c \in Conns : TRUE
FirstState(stream, c) ==
  [pc |-> CASE stream \in {"tcp", "pickle"} -> "new"
            [] stream = "udp" /\ c = Socket -> "read"
            [] OTHER -> "gone",
   i |-> 0, closed |-> FALSE]
Init ==
  /\ conf \in Configs
  /\ app = "up" /\ rctx = FALSE
  /\ listener = IF conf.stream \in {"tcp", "pickle"} THEN "open" ELSE "gone"
  /\ conn = [c \in Conns |-> FirstState(conf.stream, c)]
  /\ parser = [p \in Parsers |->
                 [pc |-> IF conf.stream = "none" THEN "gone" ELSE "select", b |-> Nothing]]
  /\ request = [r \in Requests |-> "new"]
  /\ writer = "run" /\ outBuf = {} /\ disk = {} /\ dropped = {} /\ filtered = {}
  /\ exit = "open" /\ loop = "start" /\ proc = "running"
  /\ endpoint = conf.stats /\ CollectorInit

(***************************************************************************)
(* TCP, Pickle: Listen and HandleConnection; UDP: receiveWorker.           *)
(***************************************************************************)
Accept(c) ==
  /\ Running /\ listener = "open" /\ conn[c].pc = "new"
  /\ conn' = [conn EXCEPT ![c].pc = "read"]
  /\ UNCHANGED <<app, rctx, listener, parser, request, sinkVars, mainVars>>

\* ctx.Done: close the listener; Accept fails and its loop ends
CloseListener ==
  /\ Running
  /\ \/ rctx /\ listener = "open" /\ listener' = "closed"
     \/ listener = "closed" /\ listener' = "gone"
  /\ UNCHANGED <<app, rctx, conn, parser, request, sinkVars, mainVars>>

\* something to parse was read: parseChan <- buffer is next
ReadBuffer(c) ==
  /\ conn[c].pc = "read" /\ ~conn[c].closed /\ conn[c].i < MaxReads
  /\ conn' = [conn EXCEPT ![c].pc = "send", ![c].i = @ + 1]
\* TCP: up to the last end of line, the rest goes into the next buffer
ReadLines(c) ==
  /\ Running /\ conf.stream = "tcp" /\ ReadBuffer(c)
  /\ UNCHANGED <<app, rctx, listener, parser, request, sinkVars, mainVars>>
\* Pickle: one frame
ReadFrame(c) ==
  /\ Running /\ conf.stream = "pickle" /\ ReadBuffer(c)
  /\ UNCHANGED <<app, rctx, listener, parser, request, sinkVars, mainVars>>
\* UDP: a datagram, what follows the last end of line is ignored
ReadDatagram(c) ==
  /\ Running /\ conf.stream = "udp" /\ ReadBuffer(c)
  /\ UNCHANGED <<app, rctx, listener, parser, request, sinkVars, mainVars>>

\* ctx.Done in the goroutine that watches the connection, or UDP's socket
CloseConn(c) ==
  /\ Running /\ rctx /\ conn[c].pc \in {"read", "send"} /\ ~conn[c].closed
  /\ conn' = [conn EXCEPT ![c].closed = TRUE]
  /\ UNCHANGED <<app, rctx, listener, parser, request, sinkVars, mainVars>>

\* the connection was closed, or EOF or a read error, which UDP goes on after
ConnEnds(c) ==
  /\ Running /\ conn[c].pc = "read"
  /\ conf.stream # "udp" \/ conn[c].closed
  /\ conn' = [conn EXCEPT ![c].pc = "gone"]
  /\ UNCHANGED <<app, rctx, listener, parser, request, sinkVars, mainVars>>

\* the rendezvous on parseChan
HandOver(c, p) ==
  /\ Running /\ conn[c].pc = "send" /\ parser[p].pc = "select"
  /\ conn' = [conn EXCEPT ![c].pc = "read"]
  /\ parser' = [parser EXCEPT ![p] = [pc |-> "parse", b |-> <<c, conn[c].i>>]]
  /\ UNCHANGED <<app, rctx, listener, request, sinkVars, mainVars>>

(***************************************************************************)
(* PlainParser (TCP, UDP) and PickleParser.                                *)
(***************************************************************************)
NextBuffer(p, pc) == parser' = [parser EXCEPT ![p] = [pc |-> pc, b |-> Nothing]]

\* what parses and is not dropped by isDrop is in wb; if wb is empty, that is all
ParseBuffer(p) ==
  /\ parser[p].pc = "parse"
  /\ \/ parser' = [parser EXCEPT ![p].pc = "write"] /\ UNCHANGED filtered
     \/ filtered' = filtered \cup {parser[p].b} /\ NextBuffer(p, "select")
PlainParseBuffer(p) ==
  /\ Running /\ conf.stream \in {"tcp", "udp"} /\ ParseBuffer(p)
  /\ UNCHANGED <<app, rctx, listener, conn, request, writer, outBuf, disk, dropped,
                 mainVars>>
PickleParseBytes(p) ==
  /\ Running /\ conf.stream = "pickle" /\ ParseBuffer(p)
  /\ UNCHANGED <<app, rctx, listener, conn, request, writer, outBuf, disk, dropped,
                 mainVars>>

SentReleased(p) == Nothing                   \* mutant: released before it is sent
Sent(p) == parser[p].b
\* writeChan <- wb
ParserWrites(p) ==
  /\ Running /\ parser[p].pc = "write" /\ writer = "run"
  /\ outBuf' = outBuf \cup {Sent(p)}
  /\ NextBuffer(p, "select")
  /\ UNCHANGED <<app, rctx, listener, conn, request, writer, disk, dropped, filtered,
                 mainVars>>

DropsWhen(p) == parser[p].pc = "write"       \* mutant: the parser does not wait
GivesUp(p) == parser[p].pc = "write" /\ rctx
\* ctx.Done while the writer does not take it
ParserGivesUp(p) ==
  /\ Running /\ GivesUp(p)
  /\ dropped' = dropped \cup {parser[p].b}
  /\ NextBuffer(p, "select")
  /\ UNCHANGED <<app, rctx, listener, conn, request, writer, outBuf, disk, filtered,
                 mainVars>>

ParserExits(p) ==
  /\ Running /\ parser[p].pc = "select" /\ rctx
  /\ NextBuffer(p, "gone")
  /\ UNCHANGED <<app, rctx, listener, conn, request, sinkVars, mainVars>>

(***************************************************************************)
(* The HTTP receivers.  A request is served in a goroutine of http.Server, *)
(* under its own context; nobody waits for it at a stop.                   *)
(***************************************************************************)
Body(r) == <<r, 1>>
Become(r, pc) == request' = [request EXCEPT ![r] = pc]

Serve(r) ==
  /\ Running /\ conf.http # "none" /\ request[r] = "new"
  /\ Become(r, "parse")
  /\ UNCHANGED <<app, rcvVars, sinkVars, mainVars>>

\* points to flush, none kept, or a body that does not parse (which is answered)
ParseBody(r) ==
  /\ request[r] = "parse"
  /\ \/ \E pc \in {"flush", "error"} : Become(r, pc) /\ UNCHANGED filtered
     \/ Become(r, "ok") /\ filtered' = filtered \cup {Body(r)}
UnpackFast(r) ==
  /\ Running /\ conf.http = "prometheus" /\ ParseBody(r)
  /\ UNCHANGED <<app, rcvVars, writer, outBuf, disk, dropped, mainVars>>
Process(r) ==
  /\ Running /\ conf.http = "telegraf" /\ ParseBody(r)
  /\ UNCHANGED <<app, rcvVars, writer, outBuf, disk, dropped, mainVars>>

\* mutant: the flush ends with the application, and the request is answered
FlushStops(r) ==
  \/ writer = "run" /\ outBuf' = outBuf \cup {Body(r)} /\ Become(r, "ok") /\ UNCHANGED dropped
  \/ app # "up" /\ dropped' = dropped \cup {Body(r)} /\ Become(r, "ok") /\ UNCHANGED outBuf
\* Writer.Flush of RowBinary: writeChan <- wb, or the client has gone
Flush(r) ==
  \/ writer = "run" /\ outBuf' = outBuf \cup {Body(r)} /\ Become(r, "ok") /\ UNCHANGED dropped
  \/ dropped' = dropped \cup {Body(r)} /\ Become(r, "cancelled") /\ UNCHANGED outBuf
FlushRequest(r) ==
  /\ Running /\ request[r] = "flush" /\ Flush(r)
  /\ UNCHANGED <<app, rcvVars, writer, disk, filtered, mainVars>>

(***************************************************************************)
(* The writer (module ChunkWriter): flush when idle, flush at the end.     *)
(***************************************************************************)
WriterFlush ==
  /\ Running /\ writer = "run" /\ outBuf # {}
  /\ disk' = disk \cup outBuf /\ outBuf' = {}
  /\ UNCHANGED <<app, rcvVars, request, writer, dropped, filtered, mainVars>>

LeavesBuffer == disk                         \* mutant: no deferred flush
FinalFlush == disk \cup outBuf
WriterExits ==
  /\ Running /\ app = "stopWriter" /\ writer = "run"
  /\ writer' = "gone" /\ disk' = FinalFlush /\ outBuf' = {}
  /\ UNCHANGED <<app, rcvVars, request, dropped, filtered, mainVars>>

(***************************************************************************)
(* App.Stop, on SIGTERM, under app.Lock for all of its time.               *)
(***************************************************************************)
StopStream ==
  /\ Running /\ app = "up"
  /\ app' = "stopStream" /\ rctx' = TRUE
  /\ UNCHANGED <<listener, conn, parser, request, sinkVars, mainVars>>

NoWait == TRUE                               \* mutant: Stop without wg.Wait()
\* wg.Wait of the stream receiver
StreamGone ==
  /\ listener = "gone"
  /\ \A c \in Conns : conn[c].pc \in {"new", "gone"}
  /\ \A p \in Parsers : parser[p].pc = "gone"
StreamStopped ==
  /\ Running /\ app = "stopStream" /\ StreamGone
  /\ app' = IF conf.http # "none" THEN "stopHttp" ELSE "stopCollector"
  /\ UNCHANGED <<rcvVars, request, sinkVars, mainVars>>

\* the listener is closed, http.Server.Serve returns an error, Logger.Fatal
PrometheusFatal ==
  /\ Running /\ app = "stopHttp" /\ conf.http = "prometheus"
  /\ proc' = "killed"
  /\ UNCHANGED <<app, rcvVars, request, sinkVars, conf, exit, loop, collectorVars>>
TelegrafFatal ==
  /\ Running /\ app = "stopHttp" /\ conf.http = "telegraf"
  /\ proc' = "killed"
  /\ UNCHANGED <<app, rcvVars, request, sinkVars, conf, exit, loop, collectorVars>>

\* Collector.Stop, if there is one
StopCollector ==
  /\ Running /\ app = "stopCollector" /\ ~cctx
  /\ CollectorCancel
  /\ UNCHANGED <<app, rcvVars, request, sinkVars, conf, exit, loop, proc>>
CollectorStopped ==
  /\ Running /\ app = "stopCollector" /\ cctx /\ CollectorGone
  /\ app' = "stopWriter"
  /\ UNCHANGED <<rcvVars, request, sinkVars, mainVars>>

\* the writer is gone, the uploaders were stopped: close(app.exit), app.exit = nil
WriterStopped ==
  /\ Running /\ app = "stopWriter" /\ writer = "gone"
  /\ app' = "stopped" /\ exit' = "nil"
  /\ loop' = IF loop = "waiting" THEN "done" ELSE loop
  /\ UNCHANGED <<rcvVars, request, sinkVars, conf, proc, collectorVars>>

\* App.Loop: exitChan := app.exit under RLock, which Stop keeps away
LoopCapture ==
  /\ Running /\ loop = "start" /\ app \in {"up", "stopped"}
  /\ loop' = IF exit = "nil" THEN "done" ELSE "captured"
  /\ UNCHANGED <<app, rcvVars, request, sinkVars, conf, exit, proc, collectorVars>>
\* <-app.exit, read again and without the lock: nil blocks for ever
LoopReceive ==
  /\ Running /\ loop = "captured"
  /\ loop' = IF exit = "nil" THEN "nil" ELSE "waiting"
  /\ UNCHANGED <<app, rcvVars, request, sinkVars, conf, exit, proc, collectorVars>>
MainReturns ==
  /\ Running /\ loop = "done"
  /\ proc' = "exited"
  /\ UNCHANGED <<app, rcvVars, request, sinkVars, conf, exit, loop, collectorVars>>
-----------------------------------------------------------------------------
Handler(c) == Accept(c) \/ ReadLines(c) \/ ReadFrame(c) \/ ReadDatagram(c)
              \/ CloseConn(c) \/ ConnEnds(c) \/ \E p \in Parsers : HandOver(c, p)
Parser(p)  == PlainParseBuffer(p) \/ PickleParseBytes(p) \/ ParserWrites(p)
              \/ ParserGivesUp(p) \/ ParserExits(p)
Http(r)    == Serve(r) \/ UnpackFast(r) \/ Process(r) \/ FlushRequest(r)
Statistics == /\ Running /\ CollectorStep(writer = "run")
              /\ UNCHANGED <<app, rcvVars, request, sinkVars, conf, exit, loop, proc>>
StopGoesOn == StreamStopped \/ PrometheusFatal \/ TelegrafFatal \/ StopCollector
              \/ CollectorStopped \/ WriterStopped
Stop       == StopStream \/ StopGoesOn
Main       == LoopCapture \/ LoopReceive \/ MainReturns
Next == \/ CloseListener
        \/ \E c \in Conns : Handler(c)
        \/ \E p \in Parsers : Parser(p)
        \/ \E r \in Requests : Http(r)
        \/ Statistics \/ WriterFlush \/ WriterExits \/ Stop \/ Main

Spec == Init /\ [][Next]_vars

\* Goroutines are scheduled; a select with several ready cases takes each of
\* them, in the end.
\* The endpoint of the collector fails any number of times, for ever only in a stop.
\* Nothing is assumed of the clients, nor that a stop is asked for.
Fairness ==
  /\ WF_vars(CloseListener) /\ WF_vars(WriterFlush) /\ WF_vars(WriterExits)
  /\ WF_vars(StopGoesOn)
  /\ WF_vars(Main)
  /\ \A c \in Conns : /\ WF_vars(CloseConn(c)) /\ WF_vars(conn[c].closed /\ ConnEnds(c))
                      /\ WF_vars(\E p \in Parsers : HandOver(c, p))
  /\ \A p \in Parsers : WF_vars(Parser(p))
  /\ WF_vars(Statistics /\ WorkerStep) /\ WF_vars(Statistics /\ SenderStep(writer = "run"))
  /\ SF_vars(Statistics /\ WorkerLeaves) /\ SF_vars(Statistics /\ ~cctx /\ RemoteWrites)
  /\ \A r \in Requests : WF_vars(UnpackFast(r) \/ Process(r) \/ FlushRequest(r))
LiveSpec == Spec /\ Fairness

(***************************************************************************)
(* Properties.                                                             *)
(***************************************************************************)
\* A buffer that was read is in exactly one place, from the handler to the file,
\* and it is given up only once the stop has begun or its client has gone
\* (tcp.go:83-96, plain.go:145-155, RowBinary/writer.go:57-71).
ReadBuffers == {b \in Conns \X (1 .. MaxReads) : b[2] <= conn[b[1]].i}
               \cup {Body(r) : r \in {q \in Requests : request[q] # "new"}}
Places(b) ==
  {<<"handler", c>> : c \in {d \in Conns : conn[d].pc = "send" /\ b = <<d, conn[d].i>>}}
  \cup {<<"parser", p>> : p \in {q \in Parsers : parser[q].b = b}}
  \cup {<<request[r], r>> :
          r \in {q \in Requests : b = Body(q) /\ request[q] \in {"parse", "flush", "error"}}}
  \cup {<<s, Nothing>> : s \in {q \in {"outBuf", "disk", "dropped", "filtered"} :
          b \in CASE q = "outBuf" -> outBuf [] q = "disk" -> disk
                  [] q = "dropped" -> dropped [] q = "filtered" -> filtered}}
Conserved ==
  /\ \A b \in ReadBuffers : Cardinality(Places(b)) = 1
  /\ \A b \in dropped :
       rctx \/ (b[1] \in Requests /\ request[b[1]] = "cancelled")

\* The answer 200 says that the writer has the points of the request, or that the
\* filters dropped them: the handler waits for writeChan, and only a client that
\* has gone gets less (prometheus.go:173-191, RowBinary/writer.go:57-71).
AckIsTaken ==
  \A r \in Requests : request[r] = "ok" => Body(r) \in outBuf \cup disk \cup filtered

\* The writer is the last to go: while it stops, no handler, parser or collector can
\* be left in a send that nobody receives (app.go:139-161).
WriterIsLast ==
  app \in {"stopWriter", "stopped"} =>
    /\ \A c \in Conns : conn[c].pc \in {"new", "gone"}
    /\ \A p \in Parsers : parser[p].pc = "gone"
    /\ CollectorGone

\* When main returns, every buffer that was read and not given up is on disk
\* (app.go:139-169, writer.go:135-143).
EndsFlushed == proc = "exited" => ReadBuffers \subseteq disk \cup dropped \cup filtered

\* Until a stop, what the handlers have read gets to the writer: handlers, parsers
\* and the writer do not wait for each other in a circle (tcp.go:83-96,
\* plain.go:145-155, writer.go:263-290).
Underway == {b \in Conns \X (1 .. MaxReads) : b[2] <= conn[b[1]].i}
            \ (outBuf \cup disk \cup filtered)
Delivered == Underway # {} ~> Underway = {} \/ rctx

\* Stop stops every component, and the process does not end before (app.go:171 "Stop
\* force stop all components").
StopCompletes == app = "stopStream" ~> app = "stopped"

\* A collector that is sending, or trying again to send, does not keep Stop from its
\* end, and after it the process ends, unless Loop reads app.exit when it is nil
\* (collector.go:141-158, 205-213, 274-281; app.go:139-169, 379-388).
StopEnds == app = "stopCollector" ~> proc = "exited" \/ loop = "nil"
=============================================================================
