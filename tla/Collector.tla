----------------------------- MODULE Collector -----------------------------
(***************************************************************************)
(* The collector of internal statistics.  Receivers, writer and uploaders  *)
(* count events with atomic adds.  At every tick the worker takes each     *)
(* counter with a load and a subtraction and offers a point to the bounded *)
(* channel c.data; a sender takes the points from there, in batches, and   *)
(* hands them to the writer (endpoint "local") or to a carbon endpoint     *)
(* (remote), which it tries again until it succeeds or the stop comes.     *)
(*                                                                         *)
(* Abstracted: the names of metrics, gauges (which are only read), and     *)
(* what an endpoint does with what it was sent; a point always fits into   *)
(* an empty buffer.                                                        *)
(***************************************************************************)
EXTENDS Integers, Sequences, SequencesExt

CONSTANTS Stats,     \* the counters, in the order in which collect visits them
          MaxCount,  \* bound on the events that are counted
          QueueSize, \* capacity of c.data
          BatchSize, \* points that fit into a write buffer or a chunk
          MaxBatch   \* bound on what readData takes while the worker adds to it

\* every field of every module once
ASSUME StatsAssumption ==
  /\ Stats \in Seq(ToSet(Stats)) /\ Len(Stats) > 0
  /\ \A i, j \in 1 .. Len(Stats) : Stats[i] = Stats[j] => i = j
ASSUME CollectorBounds ==
  {MaxCount, QueueSize, BatchSize, MaxBatch} \subseteq Nat \ {0} /\ QueueSize < MaxBatch

VARIABLES
  endpoint, \* "off" (no statistics in this configuration), "local", "remote"
  cctx,     \* the context of the collector is cancelled
  counter,  \* [statistics -> its uint64]
  counted,  \* events counted so far
  worker,   \* [pc, i: statistic at hand, v: what was loaded]
  queue,    \* c.data: values of points
  sender,   \* [pc, points: left of readData's result, b: buffer or chunk]
  tally     \* events in points that were [sent, or lost: full queue, stop]
collectorVars == <<endpoint, cctx, counter, counted, worker, queue, sender, tally>>

Total(s) ==
  LET sum[n \in 0 .. Len(s)] == IF n = 0 THEN 0 ELSE sum[n - 1] + s[n]
  IN sum[Len(s)]
Counters == ToSet(Stats)

CollectorTypeOK ==
  /\ endpoint \in {"off", "local", "remote"} /\ cctx \in BOOLEAN
  /\ counter \in [Counters -> 0 .. MaxCount] /\ counted \in 0 .. MaxCount
  /\ worker \in [pc : {"idle", "load", "sub", "send", "gone"}, i : 1 .. Len(Stats),
                 v : 0 .. MaxCount]
  /\ queue \in BoundedSeq(0 .. MaxCount, QueueSize)
  /\ sender \in [pc : {"read", "more", "fill", "write", "send", "gone"},
                 points : BoundedSeq(0 .. MaxCount, MaxBatch),
                 b : BoundedSeq(0 .. MaxCount, BatchSize)]
  /\ tally \in [sent : 0 .. MaxCount, full : 0 .. MaxCount, stop : 0 .. MaxCount]

\* NewCollector: an endpoint that is empty or cannot be used is "local"
CollectorInit ==
  /\ cctx = FALSE
  /\ counter = [m \in Counters |-> 0] /\ counted = 0
  /\ worker = [pc |-> IF endpoint = "off" THEN "gone" ELSE "idle", i |-> 1, v |-> 0]
  /\ queue = <<>>
  /\ sender = [pc |-> IF endpoint = "off" THEN "gone" ELSE "read", points |-> <<>>, b |-> <<>>]
  /\ tally = [sent |-> 0, full |-> 0, stop |-> 0]

\* atomic.AddUint64(&stat.x, 1), in whatever goroutine
Count(m) ==
  /\ endpoint # "off" /\ counted < MaxCount
  /\ counted' = counted + 1 /\ counter' = [counter EXCEPT ![m] = @ + 1]
  /\ UNCHANGED <<endpoint, cctx, worker, queue, sender, tally>>

(***************************************************************************)
(* The worker: collect at every tick.  sendUint64Counter loads, subtracts  *)
(* what it loaded, and sends.                                              *)
(***************************************************************************)
Tick ==
  /\ worker.pc = "idle"
  /\ worker' = [worker EXCEPT !.pc = "load", !.i = 1]
  /\ UNCHANGED <<endpoint, cctx, counter, counted, queue, sender, tally>>
Load ==
  /\ worker.pc = "load"
  /\ worker' = [worker EXCEPT !.pc = "sub", !.v = counter[Stats[worker.i]]]
  /\ UNCHANGED <<endpoint, cctx, counter, counted, queue, sender, tally>>

StoreZero(n, v) == 0                         \* mutant: the counter is reset
Subtract(n, v) == n - v
Sub ==
  /\ worker.pc = "sub"
  /\ counter' = [counter EXCEPT ![Stats[worker.i]] = Subtract(@, worker.v)]
  /\ worker' = [worker EXCEPT !.pc = "send"]
  /\ UNCHANGED <<endpoint, cctx, counted, queue, sender, tally>>

\* the next field, module, or tick
Visited ==
  worker' = IF worker.i < Len(Stats)
            THEN [pc |-> "load", i |-> worker.i + 1, v |-> 0]
            ELSE [pc |-> "idle", i |-> 1, v |-> 0]
\* sendCallback: a select with default, the point is dropped when c.data is full
Offer ==
  /\ worker.pc = "send"
  /\ sender.pc = "more" => Len(sender.points) + Len(queue) < MaxBatch
  /\ IF Len(queue) < QueueSize
     THEN queue' = Append(queue, worker.v) /\ UNCHANGED tally
     ELSE tally' = [tally EXCEPT !.full = @ + worker.v] /\ UNCHANGED queue
  /\ Visited
  /\ UNCHANGED <<endpoint, cctx, counter, counted, sender>>

WorkerLeaves ==
  /\ worker.pc = "idle" /\ cctx
  /\ worker' = [worker EXCEPT !.pc = "gone"]
  /\ UNCHANGED <<endpoint, cctx, counter, counted, queue, sender, tally>>

(***************************************************************************)
(* The sender: readData waits for a first point and takes what else there  *)
(* is; local and chunked fill buffers with it.                             *)
(***************************************************************************)
ReadData ==
  /\ sender.pc \in {"read", "more"} /\ queue # <<>>
  /\ sender' = [sender EXCEPT !.pc = "more", !.points = Append(@, Head(queue))]
  /\ queue' = Tail(queue)
  /\ UNCHANGED <<endpoint, cctx, counter, counted, worker, tally>>
\* default: nothing is left; or ctx.Done, with what was read
ReadReturns ==
  /\ \/ sender.pc = "more" /\ queue = <<>>
     \/ sender.pc \in {"read", "more"} /\ cctx
  /\ sender' = [sender EXCEPT !.pc = IF sender.points = <<>> THEN "gone" ELSE "fill"]
  /\ UNCHANGED <<endpoint, cctx, counter, counted, worker, queue, tally>>

\* points up to the first one that does not fit
Fill ==
  LET n == IF Len(sender.points) < BatchSize THEN Len(sender.points) ELSE BatchSize
  IN /\ sender.pc = "fill"
     /\ sender' = [pc |-> "write", points |-> SubSeq(sender.points, n + 1, Len(sender.points)),
                   b |-> SubSeq(sender.points, 1, n)]
     /\ UNCHANGED <<endpoint, cctx, counter, counted, worker, queue, tally>>

\* on to the points that are left, or to the next readData
ResetPoints == [pc |-> "read", points |-> <<>>, b |-> <<>>]    \* mutant: one buffer per batch
Continue ==
  [pc |-> IF sender.points = <<>> THEN "read" ELSE "fill", points |-> sender.points, b |-> <<>>]
PointsSent ==
  /\ tally' = [tally EXCEPT !.sent = @ + Total(sender.b)]
  /\ sender' = Continue
  /\ UNCHANGED <<endpoint, cctx, counter, counted, worker, queue>>

\* local: c.writeChan <- b, when the writer receives
LocalWrites(received) ==
  /\ endpoint = "local" /\ sender.pc = "write" /\ received
  /\ PointsSent
\* ctx.Done: local returns, with everything it still has
LocalGivesUp ==
  /\ endpoint = "local" /\ sender.pc = "write" /\ cctx
  /\ tally' = [tally EXCEPT !.stop = @ + Total(sender.b) + Total(sender.points)]
  /\ sender' = [pc |-> "gone", points |-> <<>>, b |-> <<>>]
  /\ UNCHANGED <<endpoint, cctx, counter, counted, worker, queue>>

\* remote, SendLoop: the exit is checked before every attempt
ChecksNever == FALSE                         \* mutant: no check
ExitSeen == cctx
RemoteGivesUp ==
  /\ endpoint = "remote" /\ sender.pc = "write" /\ ExitSeen
  /\ tally' = [tally EXCEPT !.stop = @ + Total(sender.b)]
  /\ sender' = Continue
  /\ UNCHANGED <<endpoint, cctx, counter, counted, worker, queue>>
RemoteTries ==
  /\ endpoint = "remote" /\ sender.pc = "write" /\ ~ExitSeen
  /\ sender' = [sender EXCEPT !.pc = "send"]
  /\ UNCHANGED <<endpoint, cctx, counter, counted, worker, queue, tally>>
\* Dial, SetDeadline or Write failed; all of the chunk is sent again a second later
RemoteFails ==
  /\ sender.pc = "send"
  /\ sender' = [sender EXCEPT !.pc = "write"]
  /\ UNCHANGED <<endpoint, cctx, counter, counted, worker, queue, tally>>
RemoteWrites == sender.pc = "send" /\ PointsSent

(***************************************************************************)
(* Stop cancels the context and waits for both goroutines.                 *)
(***************************************************************************)
CollectorCancel ==
  /\ cctx' = TRUE
  /\ UNCHANGED <<endpoint, counter, counted, worker, queue, sender, tally>>
CollectorGone == worker.pc = "gone" /\ sender.pc = "gone"

WorkerStep == Tick \/ Load \/ Sub \/ Offer \/ WorkerLeaves
RemoteStep == RemoteGivesUp \/ RemoteTries \/ RemoteFails \/ RemoteWrites
SenderStep(received) ==
  ReadData \/ ReadReturns \/ Fill \/ LocalWrites(received) \/ LocalGivesUp \/ RemoteStep
CollectorStep(received) ==
  (\E m \in Counters : Count(m)) \/ WorkerStep \/ SenderStep(received)

(***************************************************************************)
(* Properties.                                                             *)
(***************************************************************************)
\* Every event is reported exactly once, whatever is counted while the worker reads
\* the counter: it is in the counter, in one point on its way, sent, or lost with a
\* point that met a full queue or, only then, the stop (base.go:49-53,
\* collector.go:59-76, 185-224, 251-312).
Counted ==
  /\ counted = Total([i \in 1 .. Len(Stats) |-> counter[Stats[i]]])
               + (IF worker.pc = "send" THEN worker.v ELSE 0)
               + Total(queue) + Total(sender.points) + Total(sender.b)
               + tally.sent + tally.full + tally.stop
  /\ tally.stop > 0 => cctx

\* Until the stop an event gets out at one of the next ticks, however often the
\* endpoint fails, or its point met a full queue (collector.go:141-183, 274-311).
Reported ==
  tally.sent + tally.full < counted ~> tally.sent + tally.full = counted \/ cctx
=============================================================================
