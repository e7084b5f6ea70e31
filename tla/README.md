# A TLA+ model of carbon-clickhouse

carbon-clickhouse receives metrics over several protocols, writes them to local
chunk files and uploads the files to ClickHouse tables. This directory models
the parts in which goroutines, files and failures meet, and the algorithms that turn
bytes into rows; checks the models with TLC on small instances, and proves with TLAPS, for
instances of any size, the safety of the spool, of the chunk files, of the upload handlers,
of intake and stop, of the collector, and of most of the formats.

Paths below are relative to the root of the repository.

## 1. Inventory

| component | state | operations | talks to |
|---|---|---|---|
| receivers: TCP, Pickle, UDP (`receiver/tcp.go`, `pickle.go`, `udp.go`, `plain.go`, `pickle_parser.go`) | connections, buffers in hand | accept, read, hand to `parseChan`, parse, send to `writeChan`, stop | writer, over unbuffered channels |
| receivers: Prometheus, Telegraf (`receiver/prometheus.go`, `telegraf_http_json.go`, `helper/RowBinary/writer.go`) | requests being served | parse a body, flush under the request's context, answer | writer |
| receiver: gRPC (`receiver/grpc.go`) | calls, WaitGroup and error channel of `StoreSync` | `Store`, `StoreSync` | writer, and back through `Confirm`/`Fail` |
| writer, chunk file (`writer/writer.go`) | `fn`, `out`, `outBuf`, `cwr` | `write`, idle flush, `rotateCheck`, exit | disk |
| writer, spool (`writer/link.go`, `writer/cleanup.go`) | data files, link and mark symlinks per table | `Link`, `LinkAll`, `Cleanup` | uploaders, only through the directory |
| uploader base (`uploader/base.go`) | `inQueue`, `queue`, workers | `scanDir`, `uploadWorker`, `MarkAsFinished`, `RemoveFromQueue` | ClickHouse, the directory |
| upload handlers (`uploader/cached.go`, `points.go`, `series.go`, `tree.go`, `index.go`, `tagged.go`, `cmap.go`) | pipe, `err`, `newSeries`, shared `existsCache` | parse, insert, merge, expire, reset | ClickHouse |
| application (`carbon/app.go`, `carbon-clickhouse.go`, `helper/stop`) | which parts run, `app.exit` | `Start`, `Stop`, `Loop`, signals | all |
| collector (`carbon/collector.go`) | counters, `c.data`, points and buffer of the sender | tick, take a counter, offer, send, try again | all (their counters), writer or a carbon endpoint |
| formats (`receiver/plain.go`, `pickle_parser.go`, `prometheus_metric.go`, `telegraf_http_json.go`, `helper/tags`, `helper/escape`, `helper/RowBinary`, `uploader/filter.go`) | buffers and label slots that are used again | frame, parse, filter, pack, escape, tag, reverse, match | called by receivers, writer and uploaders |
| configuration, TLS, generated protobuf code, tools | | | not modelled, see section 8 |

What is hard here, and what makes each part correct:

* *The spool.* Five kinds of goroutines and a process that crashes and restarts
  with another configuration share a directory without a lock. A chunk must not be
  removed before every configured table has it, must not be linked again beside
  its mark, and must not be touched while it is being uploaded; every chunk must
  get out in the end.
* *The chunk file.* Data goes through one or two buffers, is torn by failed writes
  and crashes, and is confirmed to `StoreSync` callers from the middle of that path.
  A file must not change once an uploader may read it, and what is confirmed must
  be on disk.
* *The handlers.* Two goroutines, a pipe, a channel and (in `cached.upload`) one
  shared `err`; keys in the cache are never inserted again, so none may get there
  that ClickHouse does not have.
* *The formats.* Hand-made loops over bytes, with buffers that are used again and sizes
  that are estimated: each input must become exactly its rows, whatever came before it
  and wherever a read or a buffer ended.
* *The collector.* Counters that are taken while others add to them, a bounded queue and
  an endpoint that fails: each event must be reported once, and a dead endpoint must
  not keep the process from its end.
* *Intake and stop.* Rendezvous channels between handlers, parsers and writer, and
  a stop that waits for each part in turn: nothing lost before a stop, nothing
  left unflushed after it, nobody waiting for somebody who has gone.

`PROJECT.json` lists the hazards line by line under `hazards`, with the properties
that cover them.

## 2. Modules

| module | models | lines it comes from |
|---|---|---|
| `Delivery` | what the spool promises: at-least-once delivery | (abstract) |
| `Spool` | spool directory, writer's rotation, Link, LinkAll, Cleanup, scanDir, uploadWorkers, process start, stop, crash | `writer/*.go`, `uploader/base.go`, `carbon/app.go` |
| `SpoolInv` | the inductive invariant of `Spool` | |
| `SpoolProofs` | proofs about `Spool` | |
| `ChunkWriter` | `doStore`, `Writer.worker`, bufio and lz4, `Reader` | `receiver/grpc.go`, `writer/writer.go`, `helper/RowBinary` |
| `ChunkProofs` | proofs about `ChunkWriter`: types and files; what a reader and a `StoreSync` caller get | |
| `UploadHandler` | `cached.upload`, `Points.upload`, the parsers, `CMap` | `uploader/*.go` |
| `UploadProofs` | proofs about `UploadHandler` | |
| `Collector` | counters, `collect`, `c.data`, `local`, `chunked`, the retry loop | `carbon/collector.go`, `receiver/base.go` |
| `Intake` | TCP, Pickle, UDP, HTTP receivers, parsers, `stopAll`, `Loop`, composed with `Collector` | `receiver/*.go`, `carbon/app.go` |
| `IntakeProofs` | proofs about `Intake`: buffers and stop; counters and types | |
| `Lines` | framing of streams and datagrams, `PlainParseLine`, `RemoveDoubleDot`, `isDrop`, the ring of dropped points | `receiver/tcp.go`, `udp.go`, `plain.go`, `base.go` |
| `Packing` | `Writer.WritePoint`, `PickleParseBytes`, `PlainParseBuffer`, `Index.parseName` as users of a `WriteBuffer` | `helper/RowBinary`, `receiver`, `uploader/index.go` |
| `Escape` | `escape`, `escapeTo`, `unescape` | `helper/escape` |
| `TagNames` | `Graphite`, templates, `tagsParseToSlice` | `helper/tags/graphite.go`, `uploader/tagged.go` |
| `Series` | `unpackFast` with `timeSeries`, `unpackDefault` with `tags.Prometheus` | `receiver/prometheus*.go`, `helper/tags/prometheus.go` |
| `Telegraf` | `process`, `TelegrafEncodeTags` | `receiver/telegraf_http_json.go` |
| `Paths` | the three reverses of a path, the blacklist, `parseAndFilter` | `helper/RowBinary/reader.go`, `write_buffer.go`, `uploader/filter.go`, `points.go` |
| `Days` | `PrecalcTimestampToDays`, `SlowTimestampToDays` | `helper/RowBinary/date.go` |
| `Parsing` | the inputs of the eight modules above, and their properties | |
| `ParsingProofs` | proofs about `Parsing`: times, lines and their framing, write buffers, escaping | |
| `PathProofs` | proofs about `Parsing`: reverses and blacklist of paths, rows of the index | |
| `Folding` | induction over the naturals in a form the provers can use, and with it what `FoldLeft` computes, for any step: instantiated once per fold | |
| `Induction` | induction over sequences, and what the proofs about `Parsing` need of concatenation, parts and last places | |
| `MCSpool`, `MCChunkWriter`, `MCUploadHandler`, `MCIntake`, `MCParsing` | instances for TLC | |

The modules cut the system at its narrow places: `Intake` ends at `writeChan`,
which is where `ChunkWriter` begins; `ChunkWriter` ends when a file is handed to
`onFinish` (`finished`), which is where `Spool` takes it as a file number; `Spool`
treats a handler as "stored the whole file, or an error", which is what
`UploadHandler` shows (`FinishedIsStored`) for the code behind it.

### Spool

State: `data`, `link[t]`, `mark[t]` are the directory (`default.*` files, symlinks to
upload, symlinks `_default.*` of what is uploaded) and survive a crash; `uploaded[t]`
is what ClickHouse has. All else is memory: `cur`/`wpc` (fn and place of the worker),
`linker[f]` (one Link call per file), `cleaner`, `scan[t]`, `inQueue[t]`, `queue[t]`,
`worker[<<t, i>>]`. Every system call on the directory (Stat, Symlink, Remove, Rename,
ReadDir, EvalSymlinks, Lstat) is a step; the Lstat loop of a scan is one step (the
only effect of a file that goes away during the loop is that the scan ends, and it can
only go away by a rename, after which every later point of the loop sees it too).
`Faults` says which kinds of failure the environment produces; all proofs are for all
of them. Two of these kinds turn the cleaner against data that nobody has uploaded:

* `"stat"`: `Cleanup` asks only for `os.IsNotExist`, so that a table on whose mark `Stat` fails
  otherwise (an I/O error, a permission) counts as finished (`writer/cleanup.go:24`). The file is then
  removed though that table has not stored it, perhaps while a worker inserts it or while it is
  still being written. The comment above the loop says "remove finished files" (`:76`).
* `"eval"`: any error of `EvalSymlinks` is taken for a broken link (`writer/cleanup.go:98`), and a link
  or a mark is removed that still has its file.

`cleaner.unread` remembers for which tables this happened to the file or entry in hand. The
action properties about the cleaner (`NoLoss`, `UploadIsUndisturbed`, `LiveLinkKept`,
`MarkOutlivesData`) name it as their exception, and no other; `Delivery` has it as `doubted`: a chunk
may be given up if the receipt of each destination that lacks it could not be read, which
is the whole difference from at-least-once delivery. `FinishedOnly` is the same without any
exception for an environment without these two kinds.

### ChunkWriter

A buffer of a request is two pieces, so that it can be torn. `ToFile`, `FlushBuf`,
`WriteBuf`, `Compress`, `FlushCwr` model `os.File`, `bufio.Writer` and `lz4.Writer` as
the code uses them (sticky error of bufio, whole blocks of lz4), and are marked
external. `ErrSeen` is the data race on `err` between the `onFinish` goroutine and the
worker: a nondeterministic choice of what the test after `OpenFile` sees. `RotatePanics` is a
rotation that finds `outBuf` nil because opening the last file failed: its `Flush` panics
and the process ends.

### UploadHandler

`up[th]` holds both goroutines of an upload. `Assign` is where `cached.upload` and
`Points.upload` differ: a shared `err`, or one of the goroutine's own. `Record` is what
each parser does with a key it does not know. When a parser is in `EarlyReply`,
ClickHouse may answer before the request's body has ended; else a failure is either
a connection that was refused, or comes after the body.

### Intake

`conf` chooses a stream receiver and an HTTP receiver. Channels are rendezvous: a send
is one step of both sides. `App.Stop` goes through `app`; a stop of a component cancels
its context and waits for its goroutines (`StreamGone`, `CollectorGone`). `conf.stats`
says where the collector sends: nowhere, to the writer, or to a remote endpoint.

### Collector

`counter` and `counted` are events still in a counter and all that were counted; a tick
goes through `worker` in three steps per counter (load, subtract, offer), between which
others count. `sender` is `local` or `chunked` with the points of `readData`, and the
buffer or chunk in hand. `tally` sums the events of points that were sent, that met a
full queue, and that were given up at a stop.

### Parsing and the modules of algorithms

These parts are functions, written as operators with folds in the order of the code's
loops. `Parsing` has one variable: an input of some kind, which grows element by element,
so that TLC visits every input up to a length; each invariant compares the operators of
its kinds with a reference that says what the result should be. Where code and
reference differ, the property names exactly the inputs for which they do, and what the
code does then:

* a line that fills the read buffer leaves no room to read, and the handler spins
  (`receiver/tcp.go:66`); the rest of a datagram after its last end of line is forgotten;
* after a name that is too long, the next point of a pickle message finds `wb` nil
  (`receiver/pickle_parser.go:61`); the points of a read buffer overrun the write buffer
  when the rows are over twice as long as the lines (`receiver/plain.go:121`);
* names between `WriteBufferSize - 50` and `- 23` bytes are stored or refused depending on
  what came before (`helper/RowBinary/writer.go:79`);
* `escapeTo` loses the last byte after an escaped one (`helper/escape/url.go:185`), and `+` in
  a name becomes a space, since `unescape` does not know where the name ends;
* a template that ends in another `x*` than `measurement*` runs out of its bounds for a longer
  name (`helper/tags/graphite.go:305`), a name no template fits is stored without a name
  (`:332`), and a separator other than `_` stays at the end of the measurement (`:322`);
* `unpackFast`, which serves the requests, differs from `unpackDefault` in five ways: a label without
  a name or value is left out; a series without labels but its name is stored untagged; a
  sample before all other fields is lost if another one follows (`receiver/prometheus_metric.go:121`);
  the metric's name is stored as it came (`:147`), where `tags.Prometheus` escapes it
  (`helper/tags/prometheus.go:37`); and `isDropString` gets `""` for a name (`receiver/prometheus.go:101`), so
  that `drop-longer-than`, which the repository's `README.md:209`, `:239` documents for Prometheus too, drops
  nothing, where `unpackDefault` (`:152`) drops names that are longer;
* the tag `name` of a Telegraf metric becomes `_name` unless it is its only tag
  (`receiver/telegraf_http_json.go:42`), and a field whose name is too long takes with it those
  that the map gives after it (`:123`);
* a uint32 sum of `isDrop` that wraps makes its limit one word shorter, so that even points of
  this second are dropped (`receiver/base.go:69`);
* where a change of the clock skips a midnight or repeats it, the table of days takes one of
  the two hours that `time.Date` may choose for it (`helper/RowBinary/date.go:25`), and the hours between it
  and the change get the day before or after the one of `SlowTimestampToDays` (`Misdated`); a
  test of the repository expects the two to agree at every time (`date_test.go:109`), which is
  true of zones that change their clocks within a day. A chunk file with such hours, read
  after a restart when the table is longer, ends there for the reader if they are now within the
  table and were beyond it before;
* an index name that does not fit beside the one before it is cached without its rows
  (`uploader/index.go:192`).

## 3. Runs

| run | instance | states | checks |
|---|---|---|---|
| SpoolTables | 2 files, 2 tables (symmetric), 1 thread, queue of 1, 2 starts; crash, readdir, stat (first start) | 2.2 M | `OpenFileUnlinked`, `LinkOrMark`, `NoLoss`, `ImplementsDelivery` |
| SpoolThreads | 2 files, 1 table, 2 threads, all faults | 925 k | `IInv`, `MarkedIsStored`, `OneHolder`, `UploadIsUndisturbed`, `LiveLinkKept`, `MarkOutlivesData` |
| SpoolLive | 2 files, 1 table, 2 threads; insert, rename, readdir; fair | 109 k | `Drained`, `Stops` |
| ChunkFaults | 3 requests (one sync, one dropped), 2 buffers each, 3 files, 2 starts; write, open, link, crash | 1.2 M | `TypeOK`, `SyncIsDurable`, `ReaderGetsAll`, `FinishedIsFinal` |
| ChunkLive | lz4, 2 requests, fair | 5.6 k | `TakenIsWritten`, `SyncReturns` |
| ChunkLz4 | lz4, one StoreSync | | `SyncIsDurable` is violated |
| ChunkDropped | a StoreSync with dropped points | | `SyncReturns` is violated |
| Upload | 2 threads, 2 files with a common key, 4 parsers, fair | 525 k | `TypeOK`, `FinishedIsStored`, `CacheIsStored`, `UploadReturns` |
| UploadRace | series parser, early reply | | `CacheIsStored` is violated |
| IntakeStop | 2 connections, 2 parsers, 1 request, 2 events, queue of 1, six configurations, fair | 116 k | `TypeOK`, `Conserved`, `AckIsTaken`, `WriterIsLast`, `EndsFlushed`, `Counted`, `Delivered`, `Reported`, `StopEnds` |
| IntakeHang | 1 connection, 1 parser, with and without Prometheus, fair | | `StopCompletes` is violated |
| Parsing | every input of 16 kinds up to a length | 283 k | `LinesOnce`, `LineParsed`, `PointsPacked`, `TimesExact`, `EscapeExact`, `TagsStored`, `SeriesExact`, `PathsMatched`, `IndexComplete` |

Every property of a passing run has a mutant of a modelled definition (`mutants` in
`PROJECT.json`; the mutated forms stand before the originals in the modules) for which
TLC finds the property violated.

### Bounds, and why they are enough

* *Files* 2: one being written and one in the hands of the others is the smallest case
  in which rotation, upload and cleanup overlap; files interact only through the order
  of scans and the full queue, which two files and a queue of one show. *Tables* 2: "one
  table has it, the other not". *Threads* 2: two workers of a table. *MaxStarts* 2: a
  crash and what the next process makes of the remains, with another configuration. *MaxUnread*
  says up to which start `Stat` and `EvalSymlinks` may fail: to the first in `SpoolTables`, which bounds
  that run, and to the last in `SpoolThreads`.
  The theorems of section 6 remove these bounds for the safety properties.
* *ChunkWriter*: `BufSize` 3 with buffers of 2 pieces makes a full bufio buffer tear a
  message; 3 files allow a rotation, a retried open and a restart.
* *Intake*: two connections compete for two parsers; one buffer per connection
  (`MaxReads`) is enough for every rendezvous to happen and for every wait to block.
  Receivers and collector meet only in the writer and in the order of `stopAll`, so that a
  configuration has either. *Collector*: two events and a queue of one make a point
  meet a full queue and an event fall between a load and its subtraction; batches of one
  make `chunked` go round.
* *Parsing*: `BufferSize` 3 and streams of 8 symbols, cut at every place, fill the buffer with
  and without an end of line; `Word` 8 makes every sum of the filters wrap; the sizes of
  write buffers are the code's, with names around each limit; days are hours of a calendar of
  40 days in zones from -11 to +14 whose clock changes by up to two hours in either direction,
  at each hour around a midnight and within a day; Prometheus names with and without bytes to
  escape, below and above the limit of their length; alphabets
  hold one plain byte, one of each kind that is escaped, and the separators; templates have
  filters open at each end, extra tags, skipped parts, and both kinds of `*`.

`CHECK_DEADLOCK FALSE` is given in all configurations: the process may stop for good,
and the bounds on files, starts and reads end every behaviour.

## 4. Fairness

Goroutines are scheduled and tickers fire: weak fairness of the steps of each
goroutine. A `select` with several ready cases picks one at random, so no ready case is
put off for ever. Nothing is assumed of clients, of faults, or that a stop is asked
for. `SpoolLive` assumes strong fairness of `InsertOK` and `MarkAsFinished`: ClickHouse
and the disk may fail as often as they like, but an upload that is tried for ever
succeeds some day. In `UploadHandler` an insert whose body has ended comes to an end
(the HTTP client has a timeout), one way or the other. In `Collector` a tick and a
cancelled context that are both ready are chosen at random (strong fairness of
`WorkerLeaves`), and until a stop an endpoint that is tried for ever takes a chunk some
day (strong fairness of `RemoteWrites`). In `Intake` the worker of the
writer is always willing to receive (this is `ChunkWriter`'s subject).

## 5. What the violations show

1. `ChunkLz4`: `StoreSync` is confirmed after `outBuf.Flush()`; with lz4 the data is then
   still in the compressor. `grpc/carbon.proto:26`: "StoreSync returns response only after
   data has written to drive."
2. `ChunkDropped`: if all points are dropped the empty buffer is released unconfirmed and
   `wg.Wait()` never returns (`receiver/grpc.go:160`).
3. `UploadRace`: the shared `err` of `cached.upload` loses an insert error that comes
   before the handler's own assignments (`uploader/cached.go:75`), and keys ClickHouse
   does not have are cached. It needs an answer before the end of the request's body;
   a connection that is refused is safe, because the pipe is then closed and the
   handler's own write fails (run `Upload`).
4. `IntakeHang`, without an HTTP receiver: `rcv.parseChan <- buffer` has no `ctx.Done` case, and
   the parsers leave at `ctx.Done` (`receiver/tcp.go:94`), so that `App.Stop` waits for ever.
   `carbon/app.go:171`: "Stop force stop all components".
5. `IntakeHang`, with one: closing the listener makes `Serve` return an error and `Fatal` end
   the process before the writer is stopped (`receiver/prometheus.go:227`).

`StopEnds`, which holds, says what is left of it: from the collector on, the stop gets to its
end, and then the process too, unless `Loop` reads `app.exit` when it is already nil
(`carbon/app.go:386`).

## 6. Proofs

`SpoolProofs` proves, from the five named assumptions of `Spool` (file names are positive
numbers, `NoTable` is no table, the queue has room for one, the bounds on starts are
numbers, faults are of the known kinds) and nothing else:

    Invariance      Spec => []IInv
    TypeCorrect, OpenFileSafe, MarksSafe, MarkedSafe, UploadSafe, OneHolderSafe
    NoLossSafe, LiveLinkSafe, MarkOrderSafe        action properties
    FinishedOnlySafe  the same without exception, if neither "stat" nor "eval" is in Faults
    Implementation  Spec => ImplementsDelivery

None of the safety properties is inductive: what a goroutine does depends on what it saw
some steps ago. `IInv` (module `SpoolInv`) adds what stays true of such old knowledge:

* `PhaseInv`: while LinkAll and the first Cleanup run, nobody else does;
* `NameInv`: names are used only after they were given out, and the current one only on disk;
* `LinkInv`: a Link goroutine has not been where it still has to go, so that its two Stats
  cannot be overtaken; and the listing the cleaner holds does not name its file either;
* `CleanFileInv`: a mark the cleaner has seen stays until it has removed the file, and one it has
  not seen is of a table in `unread`;
* `CleanDirInv`: an entry of an old listing that fails `EvalSymlinks` is broken or gone, or of a
  table in `unread`, and a link that has become a mark cannot become a live link again;
* `QueueInv`: `inQueue` is ownership; `UploadInv`: an owner that has opened its file is alone
  with it, which is why a mark never appears under it, and without the faults `"stat"` and
  `"eval"` it finds link and data where they were.

Each conjunct has one lemma (`PhaseStep`, `NameStep`, `LinkInvStep`, `CleanFileStep`,
`CleanDirStep`, `QueueStep`, `UploadStep`, `MarkStep`, `TypeStep`) with one step per action
or group of actions that leave it alone. TLC checks `IInv` in `SpoolThreads`.

`ChunkProofs` proves, from the assumptions of `ChunkWriter` alone,

    TypeCorrect          Spec => []TypeOK
    FinishedIsFinalSafe  Spec => FinishedIsFinal

Names are handed out upwards (`NameInv` of that module), a file is handed over when `fn`
leaves it, and only the current file is written (`OnlyCurrentChanges`), under every outcome of
the race on `err`. `TypeInv` is `TypeOK` with what the types rest on (`NameInv`, `PathInv`, `OpenInv`,
`CallInv`: which buffers exist when, and how far a call has come with each). For the operators that stand for bufio and lz4 there is one
lemma each that says what they do to the record of the writer, and the actions use no more.

It adds what is in the files:

    ReaderSafe  Spec => []ReaderGetsAll
    SyncSafe    Algo = "none" => (Spec => []SyncIsDurable)

The invariant `DataInv` is about `Contents`, what a file will hold once everything buffered for it
is flushed: a flush leaves it as it is, a failed write or a crash cuts it off, a received
buffer is put at its end, and none is received twice. So it holds whole records, each once
and in order, torn at its end only if there was an error (`ContentInv`; `FreshInv` says that a file
not opened yet is empty). `SyncInv` is `SyncIsDurable` from the moment a buffer is sent. The hypothesis of `SyncSafe` is needed: run `ChunkLz4` refutes
`SyncIsDurable` with `Algo = "lz4"`.

`UploadProofs` proves, for any threads, files, keys and parsers,

    TypeCorrect   Spec => []TypeOK
    FinishedSafe  EarlyReply \subseteq {"points"} => (Spec => []FinishedIsStored)
    CacheSafe     the same hypothesis: a cached key is stored, or one the index parser lost
    CacheExact    and without keys that the index cannot write: Spec => []CacheIsStored

The invariant `IndInv` follows one upload: what was read of the file is in the pipe or already
stored (`ReadInv`); the pipe is closed with EOF only after the whole file, and with an error only
while `err` shows it (`PipeInv`); an insert that ended before the pipe was closed is still to
be seen in `err` or `uploadResult` (`EarlyInv`); and a result without an error speaks of rows
that are stored (`ResultInv`).
With an early reply to a cached upload the shared `err` breaks it, which is run `UploadRace`;
`Points.upload` has an `err` of its own and needs no such hypothesis. What the index loses is
in `IndexComplete` (section 2).

`IntakeProofs` proves `WriterIsLastSafe`, `AckIsTakenSafe`, `EndsFlushedSafe` and `ConservedSafe` from
the assumptions of `Intake` alone, for any number of connections, parsers, requests and reads.
Its invariant `IntakeInv` has four parts: `ShapeInv` (types, and that a handler which sends has read
something); `StopInv`, that what `stopAll` has waited for stays gone, which is what makes the
order of the stop matter; `CoverInv`, that a buffer which was read is with its handler, a
parser or the writer, or done with; and `AckIsTaken` itself. When main returns, `StopInv`
says that the first three hold nothing. `ConservedSafe` adds that these places exclude each
other: `UniqueInv`, that no buffer is in two sets (`SinksInv`), that what is in a set has left its
handler (`DoneInv`), that a parser's buffer is in no set and with no other parser
(`ParserInv`), and that a buffer is given up only after a stop or by its client (`DroppedInv`).

It proves too, for any number of counters and events, any size of queue, batch and
buffer, and any behaviour of the endpoint,

    CountedSafe  Spec => []Counted
    TypeCorrect  Spec => []TypeOK        of Intake, collector included

`Counted` is an equation between sums over sequences of points. `TotalNone` to `TotalUpdate` say
what appending, removing and changing an element does to a sum. The equation alone is not
inductive: `StatsShape` says where points may be, and `StatsStages` what the worker and the sender
hold at each of their steps. The bounds in `TypeOK` then follow: no counter is negative
because what is subtracted was loaded from it before, and counters only grow in between.

`ParsingProofs` and `PathProofs` prove for inputs of any length what run `Parsing` enumerates
up to a length. The hypotheses say what the inputs are (`Inputs` is a constant): sequences of
sets (`InputSeqs`), with seconds of any word and zones within 14 hours of UTC whose clock
changes by up to two hours, at any hour, for times (`TimeInputs`), lengths of points and blocks of lines
for write buffers (`PackInputs`), bytes for `escape` (`EscapeInputs`), names with parts of any length for
the index (`IndexInputs`), and patterns that are sequences (`PatternSeqs`). `MCParsing` gives inputs
that satisfy all of them.

    TimesExactSafe     TimeInputs              => (Spec => []TimesExact)
    LinesOnceSafe      InputSeqs               => (Spec => []LinesOnce)
    LineParsedSafe     InputSeqs               => (Spec => []LineParsed)
    PointsPackedSafe   PackInputs              => (Spec => []PointsPacked)
    EscapeExactSafe    EscapeInputs            => (Spec => []EscapeExact)
    PathsMatchedSafe   InputSeqs, PatternSeqs  => (Spec => []PathsMatched)
    IndexCompleteSafe  IndexInputs             => (Spec => []IndexComplete)

* *Times*: `AgeExact` is arithmetic; `RingExact` goes by induction over the points, with `RingHas`
  for what the ring holds after n of them. A day has begun in the table exactly if the calendar
  says so, but for the hours misdated at its midnight (`DayBegins`); each day begins later than
  the one before (`DaysFollow`), so that a time is in one day of the table, at most one off the
  day in UTC (`TableDay`), which the search finds (`FindDay`).
* *Lines*: `TextOf` reads without a buffer, symbol by symbol. `TcpInv` relates it to the states of
  `HandleConnection` between two reads: what was sent are the lines of `TextOf`, and the buffer
  holds its last, unfinished line. It holds as long as no line has filled the buffer; from then
  on nothing more is read, and `Stuck` names the first place where that happens. `UdpInv` is the same for
  datagrams, without the rest of each.
* *One line*: the first two spaces are the only ones at which the code splits. `RemoveDoubleDot`
  looks at every second byte only, which is enough to find two dots in a row, and then
  shifts bytes in place: `DotsInv` says that what was written is the collapsed form of what was
  read, and that no unread byte was overwritten.
* *Write buffers*: `PackInv` says that the points of the buffers that were sent and of the one in hand
  are those that were taken, in their order, and that no buffer is over its size; `PickleIn` adds
  where `PickleParseBytes` is after a name that is too long. The row of a line without escapes
  is at most twice as long as the line, if its timestamp has ten digits or its name nine
  bytes, so that `2 * ReadBufferSize <= WriteBufferSize` (an assumption on constants, true of the
  code's 256 KiB and 512 KiB) is enough for such lines; shorter ones are not claimed.
* *Escaping*: `escapeTo` equals `escape` of what it keeps of its input (`EscapeToIsEscape`): all but
  a single byte behind the last escaped one. `unescape` of a concatenation is that of
  its first part followed by that of the second, so that it can be taken byte by byte.
* *Paths*: each way of reversing is taken position by position: what is written is the reverse of the
  parts that are done, followed by a part of the current one (`EndInv`, `CopyInv`). For the blacklist,
  a node of the tree is reached if and only if some pattern begins with the parts on the way to it and matches
  (`NodeStep`, from the leaves upwards); the reverse tree finds the reversed names.
* *Index*: the loop over the parents of a name stops at the first one that has its row
  already. It may, since then all shorter ones have theirs: the set of parents with a row
  contains the parents of each of its members (`Ancestral`), as long as no name was lost.
  `TreeInv` describes the loop, `IndexInv` the file: every name so far has its four rows, every
  parent of one its own, and no row comes twice. With names whose rows take less than half
  a buffer none is lost (`RecordFits`).

Three devices make proofs about folds and recursive functions possible. The induction theorems
of the library have a predicate as parameter, which no installed prover can instantiate, so
`Folding` states induction with a set (`SetInduction`, from the least element of a set of
naturals); `Induction` restates it, and has the same for sequences (`SeqAppendInduction`). A fold is a `CHOOSE` of a function that
satisfies an equation, about which nothing is known before one is shown to exist: `FoldExists`
shows it for the folds of `SequencesExt`. `Folding` makes that usable for any step: if
steps lead from states to states, there is a sequence of states from the start to the value of the fold
(`FoldRuns`), and one element more is one step more (`FoldAppend`).

Every inductive invariant was checked with TLC before it was proved, `IInv` in a run that stays
(`SpoolThreads`), the others on the instances of section 3.

Only model-checked: all liveness (`Drained`, `Stops`, `TakenIsWritten`, `SyncReturns`,
`UploadReturns`, `Delivered`, `Reported`, `StopEnds`), which is out of the prover's reach; and of
`Parsing` `TagsStored` and `SeriesExact`. Both sort tags, with the sorting operator of the community modules (a
`CHOOSE` over all bijections) and with `SelectSeq`, of which the provers have no
definition.

## 7. Plan

Next, in this order:

1. Proofs of `TagsStored` and `SeriesExact`, with a definition of sorting by insertion in place of
   the library's.
2. *Cache*: shards and time stamps of `CMap`, `Clear` against `Merge`.
3. *Templates*: `TagConfig.Configure`, which parses and sorts the descriptions.

## 8. Not modelled, and why

* When a chunk is due (size, interval, `ChunkAutoInterval`): a rotation may happen at any tick.
* Write errors inside an lz4 frame.
* The bytes of RowBinary, pickle, protobuf and JSON: messages are sequences of fields or
  points, and a body that does not decode is an error the environment chooses. Gauges of the
  collector. Configuration (`TagConfig.Configure` included) and TLS: models take them as
  parameters. Generated code, the test and load tools.
* A chunk file that is read with another zone or date setting than it was written with: the
  reader stops at the first record whose day differs (`helper/RowBinary/reader.go:149`).
* Zones whose offset is not a whole number of hours, and more than one change of a clock: a day
  meets one change at most, and `Days` looks at one.
* Loss of data that `write(2)` has accepted (there is no fsync in the code, and "on disk" here
  means that `write` returned), and errors of ClickHouse after its answer.
