--------------------------- MODULE UploadHandler ---------------------------
(***************************************************************************)
(* Base.handler: what an upload thread does with one chunk file.  Two      *)
(* goroutines work on it: the handler parses the file and writes rows into *)
(* a pipe, and a goroutine inserts what comes out of the pipe into         *)
(* ClickHouse and reports over the channel uploadResult.  The handlers     *)
(* with an index (cached.upload) leave out keys they find in existsCache,  *)
(* which the threads of a table share, and add the new keys when the       *)
(* insert is done.  In cached.upload both goroutines assign the same       *)
(* variable err; in Points.upload each has its own.                        *)
(*                                                                         *)
(* Abstracted: rows (a key stands for its rows), the bufio.Writer in front *)
(* of the pipe (rows are handed over at the latest by Flush), compression. *)
(* A key of existsCache may go at any time: entries expire, Reset clears   *)
(* shard by shard.                                                         *)
(***************************************************************************)
EXTENDS Integers, FiniteSets

CONSTANTS Files,      \* chunk files of the table
          NoFile,
          Keys,       \* (date and) name of the points of a file
          KeysOf,     \* [Files -> SUBSET Keys]
          Bad,        \* [Parsers -> keys whose rows cannot be built]
          Threads,    \* uploadWorkers
          Parsers,    \* the parsers a table may have
          EarlyReply  \* those for which an insert may end in the middle of a file

ASSUME KeysAssumption == KeysOf \in [Files -> SUBSET Keys] /\ Bad \in [Parsers -> SUBSET Keys]
ASSUME NoFileAssumption == NoFile \notin Files
ASSUME ParserAssumption == Parsers \subseteq {"points", "series", "tree", "index", "tagged"}
ASSUME ReplyAssumption == EarlyReply \subseteq Parsers

VARIABLES parser,    \* the parser of the table
          up,        \* [Threads -> state of the upload]
          cache,     \* existsCache
          stored,    \* keys ClickHouse has
          finished,  \* files the handler has returned nil for
          stopping   \* ctx is cancelled
vars == <<parser, up, cache, stored, finished, stopping>>

Cached == parser # "points"

\* pc, f, todo, new: the handler, its file, the records to read, newSeries
\* rows, close: what was written to the pipe, whether and how it was closed
\* ins, gerr, chan: the inserting goroutine, its err, uploadResult
\* shut: the HTTP client closed the pipe before it had taken anything from it
\* err, uerr: err and uploadErr of the handler
Errs == {"nil", "err"}
Uploads ==
  [pc : {"idle", "parse", "flush", "flushing", "close", "select", "check", "merge"},
   f : Files \cup {NoFile}, todo : SUBSET Keys, new : SUBSET Keys, rows : SUBSET Keys,
   close : {"no", "eof", "err"}, ins : {"none", "run", "refused", "got", "sent"},
   shut : BOOLEAN, gerr : Errs, chan : {"empty"} \cup Errs, err : Errs, uerr : Errs]
IdleUpload ==
  [pc |-> "idle", f |-> NoFile, todo |-> {}, new |-> {}, rows |-> {}, close |-> "no",
   ins |-> "none", shut |-> FALSE, gerr |-> "nil", chan |-> "empty", err |-> "nil", uerr |-> "nil"]

\* Every variable has the shape the code gives it.
TypeOK ==
  /\ parser \in Parsers
  /\ up \in [Threads -> Uploads]
  /\ cache \subseteq Keys /\ stored \subseteq Keys
  /\ finished \subseteq Files /\ stopping \in BOOLEAN

Init ==
  /\ parser \in Parsers
  /\ up = [th \in Threads |-> IdleUpload]
  /\ cache = {} /\ stored = {} /\ finished = {} /\ stopping = FALSE

Ended(u) == u.ins # "run"
Set(th, u) == up' = [up EXCEPT ![th] = u]

(***************************************************************************)
(* The handler.                                                            *)
(***************************************************************************)
\* uploadWorker takes a file (of the queue: nobody else has it), u.Go(insert)
Begin(th) ==
  /\ up[th].pc = "idle" /\ ~stopping
  /\ \E f \in Files \ finished :
       /\ \A o \in Threads : up[o].f # f
       /\ Set(th, [IdleUpload EXCEPT !.pc = "parse", !.f = f, !.todo = KeysOf[f],
                                     !.ins = "run"])
  /\ UNCHANGED <<parser, cache, stored, finished, stopping>>

\* mutant: a key that is on its way in another thread counts as known
KnownElsewhere(u, k) == k \in cache \/ \E o \in Threads : k \in up[o].new
\* existsCache.Exists
Exists(u, k) == Cached /\ k \in cache
(***************************************************************************)
(* What a parser does with a record of a key it does not know: newSeries,  *)
(* and rows (a key stands for its rows, for tree and index also for those  *)
(* of its prefixes).  A parse error is logged and the record skipped, by   *)
(* Tagged.parseFile before the key is marked, by Index.parseFile after.    *)
(***************************************************************************)
\* errBufOverflow of parseName: more rows than the buffer of 512 KB holds
IndexRows(k) == IF k \in Bad["index"] THEN {} ELSE {k}
TaggedRows(k) == IF k \in Bad["tagged"] THEN {} ELSE {k}

PointsRecord(u, k) == [u EXCEPT !.rows = @ \cup {k}]
SeriesRecord(u, k) == [u EXCEPT !.rows = @ \cup {k}, !.new = @ \cup {k}]
TreeRecord(u, k)   == [u EXCEPT !.rows = @ \cup {k}, !.new = @ \cup {k}]
IndexRecord(u, k)  == [u EXCEPT !.rows = @ \cup IndexRows(k), !.new = @ \cup {k}]
\* mutants: marked before it is parsed; marked with a key that is never looked up
TaggedMarksBad(u, k) == [u EXCEPT !.rows = @ \cup TaggedRows(k), !.new = @ \cup {k}]
TaggedMarksRaw(u, k) == [u EXCEPT !.rows = @ \cup TaggedRows(k), !.new = @ \cup {"raw"}]
TaggedRecord(u, k) ==
  [u EXCEPT !.rows = @ \cup TaggedRows(k), !.new = @ \cup TaggedRows(k)]

Record(u, k) ==
  CASE parser = "points" -> PointsRecord(u, k)
    [] parser = "series" -> SeriesRecord(u, k)
    [] parser = "tree"   -> TreeRecord(u, k)
    [] parser = "index"  -> IndexRecord(u, k)
    [] parser = "tagged" -> TaggedRecord(u, k)

\* one record: known keys are left out
ReadRecord(th) ==
  LET u == up[th] IN
  /\ u.pc = "parse"
  /\ \E k \in u.todo :
       Set(th, [(IF Exists(u, k) THEN u ELSE Record(u, k)) EXCEPT !.todo = @ \ {k}])
  /\ UNCHANGED <<parser, cache, stored, finished, stopping>>

\* n, newSeries, err = u.parser(filename, writer)
ParseReturns(th) ==
  LET u == up[th] IN
  /\ u.pc = "parse" /\ u.todo = {}
  /\ Set(th, [u EXCEPT !.pc = "flush", !.err = "nil"])
  /\ UNCHANGED <<parser, cache, stored, finished, stopping>>

\* the file cannot be opened, or the pipe was closed by the other end
ParseFails(th) ==
  LET u == up[th] IN
  /\ u.pc = "parse"
  /\ u.todo = KeysOf[u.f] \/ Ended(u)
  /\ Set(th, [u EXCEPT !.pc = "flush", !.err = "err", !.new = {}])
  /\ UNCHANGED <<parser, cache, stored, finished, stopping>>

\* if err == nil { err = writer.Flush() }: the test, and the assignment
FlushTest(th) ==
  LET u == up[th] IN
  /\ u.pc = "flush"
  /\ Set(th, [u EXCEPT !.pc = IF u.err = "nil" THEN "flushing" ELSE "close"])
  /\ UNCHANGED <<parser, cache, stored, finished, stopping>>
\* a refused request leaves a closed pipe, on which only a Flush of nothing is
\* right; an insert that ended later leaves it closed, or the connection still
\* swallows what is left
FlushErrs(u) ==
  IF u.shut THEN (IF u.rows = {} THEN {"nil"} ELSE {"err"})
  ELSE IF Ended(u) THEN Errs ELSE {"nil"}
FlushReturns(th) ==
  LET u == up[th] IN
  /\ u.pc = "flushing"
  /\ \E e \in FlushErrs(u) :
       Set(th, [u EXCEPT !.pc = "close", !.err = e])
  /\ UNCHANGED <<parser, cache, stored, finished, stopping>>

\* pipeWriter.CloseWithError(err)
CloseOnSuccess(e) == IF e = "nil" THEN "eof" ELSE "no"   \* mutant: not on an error
CloseWithError(e) == IF e = "nil" THEN "eof" ELSE "err"
Close(th) ==
  LET u == up[th] IN
  /\ u.pc = "close"
  /\ Set(th, [u EXCEPT !.pc = "select", !.close = CloseWithError(u.err)])
  /\ UNCHANGED <<parser, cache, stored, finished, stopping>>

SelectResult(th) ==
  LET u == up[th] IN
  /\ u.pc = "select" /\ u.chan # "empty"
  /\ Set(th, [u EXCEPT !.pc = "check", !.uerr = u.chan, !.chan = "empty"])
  /\ UNCHANGED <<parser, cache, stored, finished, stopping>>
\* ctx.Done: "upload aborted"; the goroutine lives on, without a reader
SelectAborted(th) ==
  LET u == up[th] IN
  /\ u.pc = "select" /\ stopping
  /\ Set(th, [IdleUpload EXCEPT !.rows = u.rows, !.close = u.close, !.ins = u.ins])
  /\ UNCHANGED <<parser, cache, stored, finished, stopping>>

\* return an error of either side, or commit the new series
AnyErr(u) == u.err # "nil" \/ u.uerr # "nil"
Check(th) ==
  LET u == up[th] IN
  /\ u.pc = "check"
  /\ Set(th, IF AnyErr(u) THEN IdleUpload ELSE [u EXCEPT !.pc = "merge"])
  /\ UNCHANGED <<parser, cache, stored, finished, stopping>>

\* existsCache.Merge, key by key; return nil, MarkAsFinished
Merge(th) ==
  LET u == up[th] IN
  /\ u.pc = "merge"
  /\ \/ /\ Cached
        /\ \E k \in u.new : cache' = cache \cup {k} /\ Set(th, [u EXCEPT !.new = @ \ {k}])
        /\ UNCHANGED finished
     \/ /\ ~Cached \/ u.new = {}
        /\ finished' = finished \cup {u.f}
        /\ Set(th, IdleUpload)
        /\ UNCHANGED cache
  /\ UNCHANGED <<parser, stored, stopping>>

(***************************************************************************)
(* The inserting goroutine: err = u.insertRowBinary(...), uploadResult <- err.  *)
(***************************************************************************)
\* the shared err of cached.upload, or one of its own
Assign(u, e) ==
  IF Cached THEN [u EXCEPT !.ins = "got", !.err = e] ELSE [u EXCEPT !.ins = "got", !.gerr = e]
InsertOK(th) ==
  LET u == up[th] IN
  /\ u.ins = "run" /\ u.close = "eof"
  /\ stored' = stored \cup u.rows
  /\ Set(th, Assign(u, "nil"))
  /\ UNCHANGED <<parser, cache, finished, stopping>>
\* no connection: the client closes the request's body, Do is about to return
InsertRefused(th) ==
  LET u == up[th] IN
  /\ u.ins = "run" /\ u.close = "no"
  /\ Set(th, [u EXCEPT !.ins = "refused", !.shut = TRUE])
  /\ UNCHANGED <<parser, cache, stored, finished, stopping>>
\* refused, timed out, cut off or an exception; the rows may be stored or not
InsertFails(th) ==
  LET u == up[th] IN
  /\ \/ u.ins = "refused" /\ UNCHANGED stored
     \/ /\ u.ins = "run" /\ (parser \in EarlyReply \/ u.close # "no")
        /\ stored' \in {stored, stored \cup u.rows}
  /\ Set(th, Assign(u, "err"))
  /\ UNCHANGED <<parser, cache, finished, stopping>>
SendResult(th) ==
  LET u == up[th] IN
  /\ u.ins = "got"
  /\ Set(th, [u EXCEPT !.ins = "sent", !.chan = IF Cached THEN u.err ELSE u.gerr])
  /\ UNCHANGED <<parser, cache, stored, finished, stopping>>
-----------------------------------------------------------------------------
\* ExpireWorker, Reset
Expire ==
  /\ \E k \in cache : cache' = cache \ {k}
  /\ UNCHANGED <<parser, up, stored, finished, stopping>>
Stop ==
  /\ ~stopping /\ stopping' = TRUE
  /\ UNCHANGED <<parser, up, cache, stored, finished>>

Handler(th) == ReadRecord(th) \/ ParseReturns(th) \/ ParseFails(th) \/ FlushTest(th)
               \/ FlushReturns(th) \/ Close(th) \/ SelectResult(th) \/ SelectAborted(th)
               \/ Check(th) \/ Merge(th)
Insert(th)  == InsertOK(th) \/ InsertRefused(th) \/ InsertFails(th) \/ SendResult(th)
Next == (\E th \in Threads : Begin(th) \/ Handler(th) \/ Insert(th)) \/ Expire \/ Stop

Spec == Init /\ [][Next]_vars
\* both goroutines are scheduled, and the HTTP client, which has a timeout, comes
\* back from a request whose body has ended; nothing else is said of ClickHouse
Fairness ==
  \A th \in Threads :
    /\ WF_vars(Handler(th))
    /\ WF_vars(\/ InsertOK(th) \/ SendResult(th)
               \/ (up[th].ins = "refused" \/ up[th].close # "no") /\ InsertFails(th))
LiveSpec == Spec /\ Fairness

(***************************************************************************)
(* Properties.                                                             *)
(***************************************************************************)
\* A file is marked as finished only when ClickHouse has all of its keys, those
\* that were left out because another thread had stored them included
\* (cached.go:94-111, points.go:101-116).
FinishedIsStored == \A f \in finished : KeysOf[f] \ Bad[parser] \subseteq stored

\* existsCache holds only what ClickHouse has: a key that is in it is not
\* inserted again (cached.go:21, 108-109).
CacheIsStored == cache \subseteq stored

\* The two goroutines never wait for each other: whoever fails, the pipe is
\* closed, the result is sent and the handler returns (cached.go:74-97).
UploadReturns == \A th \in Threads : up[th].pc # "idle" ~> up[th].pc = "idle"
=============================================================================
