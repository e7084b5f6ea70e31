--------------------------- MODULE UploadProofs ---------------------------
(***************************************************************************)
(* What is finished and what is cached is in ClickHouse, for every set of  *)
(* files, keys and threads and for every table whose parser gets no reply  *)
(* in the middle of a file unless its goroutines have an err each          *)
(* (EarlyReply).  The run UploadRace shows that the hypothesis is needed.  *)
(*                                                                         *)
(* The argument follows one upload: what was read of the file is in the    *)
(* pipe or already stored; an error of the parser, of Flush or of the      *)
(* insert is still to be seen, in err or in uploadResult, when the handler *)
(* looks at both; if it sees none, what went through the pipe is stored.   *)
(***************************************************************************)
EXTENDS UploadHandler, TLAPS

\* Index.parseFile marks the keys it then fails to build rows for.
Lost == IF parser = "index" THEN Bad["index"] ELSE {}

\* What the goroutine is about to send.
Result(u) == IF Cached THEN u.err ELSE u.gerr

\* Every record read is in the pipe or in ClickHouse, and so are the new keys.
ReadInv(u, st) ==
  /\ u.f \in Files
  /\ (KeysOf[u.f] \ u.todo) \ Bad[parser] \subseteq u.rows \cup st
  /\ u.new \subseteq u.rows \cup Lost

\* The pipe is closed after the parser and before the select, with EOF only when
\* the whole file was read, and with an error only when err still shows it.
PipeInv(u) ==
  /\ u.pc \in {"parse", "flush", "flushing", "close"} => u.close = "no"
  /\ u.pc \in {"select", "check", "merge"} => u.close # "no"
  /\ u.pc \in {"flush", "close"} => u.todo = {} \/ u.err = "err"
  /\ u.pc = "flushing" => u.todo = {}
  /\ u.pc \in {"select", "check"} /\ u.close = "eof" => u.todo = {}
  /\ u.pc \in {"select", "check"} => u.close = "eof" \/ u.err = "err"

\* An insert that ended before the pipe was closed: with a shared err nothing
\* but a refused connection does that, and Flush finds the pipe closed; with an
\* err of its own the goroutine reports it.
EarlyInv(u) ==
  /\ u.close = "no" /\ Cached => u.ins \in {"none", "run"} \/ u.shut = TRUE
  /\ u.close = "no" /\ ~Cached /\ u.ins = "got" => u.gerr = "err"
  /\ u.close = "no" /\ ~Cached => u.chan # "nil"
  /\ u.pc = "close" /\ Cached /\ u.ins \in {"got", "sent"} => u.err = "err" \/ u.rows = {}

\* A result without an error, made, sent or received, speaks of rows that are
\* stored: the handler that sees no error has lost nothing.
ResultInv(u, st) ==
  /\ u.chan # "empty" => u.ins = "sent"
  /\ u.pc \in {"check", "merge"} => u.ins = "sent"
  /\ u.pc = "select" /\ u.close = "eof" /\ u.ins = "got" /\ Result(u) = "nil" => u.rows \subseteq st
  /\ u.pc = "select" /\ u.close = "eof" /\ u.chan = "nil" => u.rows \subseteq st
  /\ u.pc = "check" /\ u.close = "eof" /\ u.uerr = "nil" => u.rows \subseteq st
  /\ u.pc = "merge" => u.rows \subseteq st /\ u.todo = {}

UploadInv(u, st) ==
  u.pc # "idle" => ReadInv(u, st) /\ PipeInv(u) /\ EarlyInv(u) /\ ResultInv(u, st)

CacheInv == cache \subseteq stored \cup Lost
UploadsInv == \A th \in Threads : UploadInv(up[th], stored)
IndInv == CacheInv /\ FinishedIsStored /\ UploadsInv
-----------------------------------------------------------------------------
(***************************************************************************)
(* Types.                                                                  *)
(***************************************************************************)
LEMMA IdleType == IdleUpload \in Uploads
  BY DEF IdleUpload, Uploads, Errs

\* The control of an upload: all but the data its parser works on.
DataOnly(u, v) ==
  /\ v.pc = u.pc /\ v.f = u.f /\ v.close = u.close /\ v.ins = u.ins /\ v.shut = u.shut
  /\ v.gerr = u.gerr /\ v.chan = u.chan /\ v.err = u.err /\ v.uerr = u.uerr

\* A record was read: its key is known, in the pipe or bad.
RecordRead(u, v, k) ==
  /\ v.todo = u.todo \ {k}
  /\ u.rows \subseteq v.rows
  /\ k \in v.rows \cup Bad[parser] \cup cache
  /\ v.new \subseteq u.new \cup v.rows \cup Lost

\* What a record does to an upload: the key is read, and known, in the pipe or bad.
LEMMA RecordStep ==
  ASSUME parser \in Parsers, NEW u \in Uploads, NEW k \in u.todo,
         NEW v, v = [(IF Exists(u, k) THEN u ELSE Record(u, k)) EXCEPT !.todo = @ \ {k}]
  PROVE  v \in Uploads /\ DataOnly(u, v) /\ RecordRead(u, v, k)
  <1> USE ParserAssumption, KeysAssumption
  <1>0. k \in Keys
    BY DEF Uploads
  <1>1. CASE Exists(u, k)
    BY <1>1 DEF Exists, Uploads, DataOnly, RecordRead
  <1>2. ASSUME NEW R \in SUBSET Keys, NEW N \in SUBSET Keys,
               v = [u EXCEPT !.todo = @ \ {k}, !.rows = @ \cup R, !.new = @ \cup N],
               k \in R \cup Bad[parser], N \subseteq R \cup Lost
        PROVE  v \in Uploads /\ DataOnly(u, v) /\ RecordRead(u, v, k)
    <2>0. v = [u EXCEPT !.todo = @ \ {k}, !.rows = @ \cup R, !.new = @ \cup N]
      BY <1>2
    <2>1. v \in Uploads /\ v.todo = u.todo \ {k} /\ v.rows = u.rows \cup R /\ v.new = u.new \cup N
      <3>1. u.todo \ {k} \in SUBSET Keys /\ u.rows \cup R \in SUBSET Keys /\ u.new \cup N \in SUBSET Keys
        BY DEF Uploads
      <3> QED
        BY <2>0, <3>1 DEF Uploads
    <2>2. DataOnly(u, v)
      BY <2>0 DEF Uploads, DataOnly, RecordRead
    <2>3. u.rows \subseteq v.rows /\ k \in v.rows \cup Bad[parser] \cup cache
      BY <1>2, <2>1
    <2>4. v.new \subseteq u.new \cup v.rows \cup Lost
      BY <1>2, <2>1
    <2> QED
      BY <2>1, <2>2, <2>3, <2>4 DEF RecordRead
  <1>3. CASE ~Exists(u, k)
    <2>1. CASE parser = "points"
      BY <1>0, <1>3, <2>1 DEF Record, PointsRecord, Uploads, DataOnly, RecordRead
    <2>2. CASE parser = "series"
      BY <1>0, <1>3, <2>2 DEF Record, SeriesRecord, Uploads, DataOnly, RecordRead
    <2>3. CASE parser = "tree"
      BY <1>0, <1>3, <2>3 DEF Record, TreeRecord, Uploads, DataOnly, RecordRead
    <2>4. CASE parser = "index"
      <3>1. v = [u EXCEPT !.todo = @ \ {k}, !.rows = @ \cup IndexRows(k), !.new = @ \cup {k}]
        BY <1>3, <2>4 DEF Record, IndexRecord, Uploads
      <3>2. IndexRows(k) \in SUBSET Keys /\ k \in IndexRows(k) \cup Bad[parser]
        BY <1>0, <2>4 DEF IndexRows
      <3>3. {k} \in SUBSET Keys /\ {k} \subseteq IndexRows(k) \cup Lost
        BY <1>0, <2>4, <3>2 DEF Lost
      <3> QED
        BY <1>2, <3>1, <3>2, <3>3
    <2>5. CASE parser = "tagged"
      <3>1. v = [u EXCEPT !.todo = @ \ {k}, !.rows = @ \cup TaggedRows(k),
                          !.new = @ \cup TaggedRows(k)]
        BY <1>3, <2>5 DEF Record, TaggedRecord, Uploads
      <3>2. TaggedRows(k) \in SUBSET Keys /\ k \in TaggedRows(k) \cup Bad[parser]
        BY <1>0, <2>5 DEF TaggedRows
      <3> QED
        BY <1>2, <3>1, <3>2
    <2> QED
      BY <2>1, <2>2, <2>3, <2>4, <2>5
  <1> QED
    BY <1>1, <1>3

\* Every step of a thread leaves an upload of the right shape.
LEMMA HandlerType ==
  ASSUME TypeOK, NEW th \in Threads, Handler(th)
  PROVE  up' \in [Threads -> Uploads]
  <1> DEFINE u == up[th]
  <1>0. u \in Uploads /\ up \in [Threads -> Uploads]
    BY DEF TypeOK
  <1>1. ASSUME NEW v \in Uploads, Set(th, v) PROVE up' \in [Threads -> Uploads]
    BY <1>0, <1>1 DEF Set
  <1>2. CASE ReadRecord(th)
    <2>1. PICK k \in u.todo :
            Set(th, [(IF Exists(u, k) THEN u ELSE Record(u, k)) EXCEPT !.todo = @ \ {k}])
      BY <1>2 DEF ReadRecord
    <2> DEFINE v == [(IF Exists(u, k) THEN u ELSE Record(u, k)) EXCEPT !.todo = @ \ {k}]
    <2>2. v \in Uploads
      BY <1>0, RecordStep DEF TypeOK
    <2> QED
      BY <1>1, <2>1, <2>2
  <1>3. CASE ParseReturns(th)
    <2>1. [u EXCEPT !.pc = "flush", !.err = "nil"] \in Uploads
      BY <1>0 DEF Uploads, Errs
    <2> QED
      BY <1>1, <1>3, <2>1 DEF ParseReturns
  <1>4. CASE ParseFails(th)
    <2>1. [u EXCEPT !.pc = "flush", !.err = "err", !.new = {}] \in Uploads
      BY <1>0 DEF Uploads, Errs
    <2> QED
      BY <1>1, <1>4, <2>1 DEF ParseFails
  <1>5. CASE FlushTest(th)
    <2>1. [u EXCEPT !.pc = IF u.err = "nil" THEN "flushing" ELSE "close"] \in Uploads
      BY <1>0 DEF Uploads, Errs
    <2> QED
      BY <1>1, <1>5, <2>1 DEF FlushTest
  <1>6. CASE FlushReturns(th)
    <2>1. PICK e \in FlushErrs(u) : Set(th, [u EXCEPT !.pc = "close", !.err = e])
      BY <1>6 DEF FlushReturns
    <2>2. [u EXCEPT !.pc = "close", !.err = e] \in Uploads
      BY <1>0 DEF Uploads, Errs, FlushErrs
    <2> QED
      BY <1>1, <2>1, <2>2
  <1>7. CASE Close(th)
    <2>1. [u EXCEPT !.pc = "select", !.close = CloseWithError(u.err)] \in Uploads
      BY <1>0 DEF Uploads, Errs, CloseWithError
    <2> QED
      BY <1>1, <1>7, <2>1 DEF Close
  <1>8. CASE SelectResult(th)
    <2>1. [u EXCEPT !.pc = "check", !.uerr = u.chan, !.chan = "empty"] \in Uploads
      BY <1>0, <1>8 DEF Uploads, Errs, SelectResult
    <2> QED
      BY <1>1, <1>8, <2>1 DEF SelectResult
  <1>9. CASE SelectAborted(th)
    <2>1. [IdleUpload EXCEPT !.rows = u.rows, !.close = u.close, !.ins = u.ins] \in Uploads
      BY <1>0 DEF Uploads, Errs, IdleUpload
    <2> QED
      BY <1>1, <1>9, <2>1 DEF SelectAborted
  <1>10. CASE Check(th)
    <2>1. (IF AnyErr(u) THEN IdleUpload ELSE [u EXCEPT !.pc = "merge"]) \in Uploads
      BY <1>0, IdleType DEF Uploads
    <2> QED
      BY <1>1, <1>10, <2>1 DEF Check
  <1>11. CASE Merge(th)
    <2>1. ASSUME NEW k PROVE [u EXCEPT !.new = @ \ {k}] \in Uploads
      BY <1>0 DEF Uploads
    <2> QED
      BY <1>1, <1>11, <2>1, IdleType DEF Merge
  <1> QED
    BY <1>2, <1>3, <1>4, <1>5, <1>6, <1>7, <1>8, <1>9, <1>10, <1>11 DEF Handler

LEMMA InsertType ==
  ASSUME TypeOK, NEW th \in Threads, Insert(th)
  PROVE  up' \in [Threads -> Uploads] /\ stored' \subseteq Keys
  <1> DEFINE u == up[th]
  <1>0. u \in Uploads /\ up \in [Threads -> Uploads] /\ u.rows \subseteq Keys /\ stored \subseteq Keys
    BY DEF TypeOK, Uploads
  <1>1. ASSUME NEW v \in Uploads, Set(th, v) PROVE up' \in [Threads -> Uploads]
    BY <1>0, <1>1 DEF Set
  <1>2. ASSUME NEW e \in Errs PROVE Assign(u, e) \in Uploads
    BY <1>0 DEF Uploads, Assign
  <1>3. CASE InsertOK(th)
    BY <1>0, <1>1, <1>2, <1>3 DEF InsertOK, Errs
  <1>4. CASE InsertRefused(th)
    <2>1. [u EXCEPT !.ins = "refused", !.shut = TRUE] \in Uploads
      BY <1>0 DEF Uploads
    <2> QED
      BY <1>0, <1>1, <1>4, <2>1 DEF InsertRefused
  <1>5. CASE InsertFails(th)
    BY <1>0, <1>1, <1>2, <1>5 DEF InsertFails, Errs
  <1>6. CASE SendResult(th)
    <2>1. [u EXCEPT !.ins = "sent", !.chan = IF Cached THEN u.err ELSE u.gerr] \in Uploads
      BY <1>0 DEF Uploads
    <2> QED
      BY <1>0, <1>1, <1>6, <2>1 DEF SendResult
  <1> QED
    BY <1>3, <1>4, <1>5, <1>6 DEF Insert

LEMMA BeginType ==
  ASSUME TypeOK, NEW th \in Threads, Begin(th)
  PROVE  up' \in [Threads -> Uploads]
  <1>1. PICK f \in Files :
          Set(th, [IdleUpload EXCEPT !.pc = "parse", !.f = f, !.todo = KeysOf[f], !.ins = "run"])
    BY DEF Begin
  <1>2. [IdleUpload EXCEPT !.pc = "parse", !.f = f, !.todo = KeysOf[f], !.ins = "run"] \in Uploads
    BY KeysAssumption DEF IdleUpload, Uploads, Errs
  <1> QED
    BY <1>1, <1>2 DEF TypeOK, Set

\* An upload that is under way has a file.
HasFile == \A th \in Threads : up[th].pc # "idle" => up[th].f \in Files

LEMMA TypeStep == TypeOK /\ HasFile /\ [Next]_vars => TypeOK'
  <1> SUFFICES ASSUME TypeOK, HasFile, [Next]_vars PROVE TypeOK'
    OBVIOUS
  <1> USE DEF TypeOK
  <1>1. CASE UNCHANGED vars
    BY <1>1 DEF vars
  <1>2. ASSUME NEW th \in Threads, Begin(th) PROVE TypeOK'
    BY <1>2, BeginType DEF Begin
  <1>3. ASSUME NEW th \in Threads, Insert(th) PROVE TypeOK'
    <2>1. up' \in [Threads -> Uploads] /\ stored' \subseteq Keys
      BY <1>3, InsertType
    <2>2. UNCHANGED <<parser, cache, finished, stopping>>
      BY <1>3 DEF Insert, InsertOK, InsertRefused, InsertFails, SendResult
    <2> QED
      BY <2>1, <2>2
  <1>4. ASSUME NEW th \in Threads, Merge(th) PROVE TypeOK'
    <2>1. up' \in [Threads -> Uploads]
      BY <1>4, HandlerType DEF Handler
    <2>2. up[th].new \subseteq Keys
      BY DEF Uploads
    <2>3. up[th].f \in Files
      BY <1>4 DEF HasFile, Merge
    <2> QED
      BY <1>4, <2>1, <2>2, <2>3 DEF Merge
  <1>5. ASSUME NEW th \in Threads, Handler(th), ~Merge(th) PROVE TypeOK'
    <2>1. up' \in [Threads -> Uploads]
      BY <1>5, HandlerType
    <2>2. UNCHANGED <<parser, cache, stored, finished, stopping>>
      BY <1>5 DEF Handler, ReadRecord, ParseReturns, ParseFails, FlushTest, FlushReturns,
         Close, SelectResult, SelectAborted, Check
    <2> QED
      BY <2>1, <2>2
  <1>6. CASE Expire
    BY <1>6 DEF Expire
  <1>7. CASE Stop
    BY <1>7 DEF Stop
  <1> QED
    BY <1>1, <1>2, <1>3, <1>4, <1>5, <1>6, <1>7 DEF Next

\* A step keeps the file of an upload, or begins or ends the upload.
LEMMA HasFileStep == TypeOK /\ HasFile /\ [Next]_vars => HasFile'
  <1> SUFFICES ASSUME TypeOK, HasFile, [Next]_vars PROVE HasFile'
    OBVIOUS
  <1>1. ASSUME NEW th \in Threads, NEW v, Set(th, v), v.pc = "idle" \/ v.f \in Files PROVE HasFile'
    BY <1>1 DEF Set, HasFile, TypeOK
  <1>2. ASSUME NEW th \in Threads, Begin(th) PROVE HasFile'
    <2>1. PICK f \in Files :
            Set(th, [IdleUpload EXCEPT !.pc = "parse", !.f = f, !.todo = KeysOf[f], !.ins = "run"])
      BY <1>2 DEF Begin
    <2>2. [IdleUpload EXCEPT !.pc = "parse", !.f = f, !.todo = KeysOf[f], !.ins = "run"].f \in Files
      BY DEF IdleUpload
    <2> QED
      BY <1>1, <2>1, <2>2
  <1>3. ASSUME NEW th \in Threads, Handler(th) PROVE HasFile'
    <2> DEFINE u == up[th]
    <2>1. u \in Uploads /\ (u.pc # "idle" => u.f \in Files)
      BY DEF TypeOK, HasFile
    <2> HIDE DEF u
    <2>2. CASE ReadRecord(th)
      <3>1. PICK k \in u.todo :
              Set(th, [(IF Exists(u, k) THEN u ELSE Record(u, k)) EXCEPT !.todo = @ \ {k}])
        BY <2>2 DEF ReadRecord, u
      <3>2. PICK v : v = [(IF Exists(u, k) THEN u ELSE Record(u, k)) EXCEPT !.todo = @ \ {k}]
        OBVIOUS
      <3>3. parser \in Parsers
        BY DEF TypeOK
      <3>4. DataOnly(u, v)
        BY <2>1, <3>2, <3>3, RecordStep
      <3>5. v.f = u.f /\ u.pc = "parse"
        BY <2>1, <2>2, <3>4 DEF DataOnly, ReadRecord, u
      <3> QED
        BY <1>1, <2>1, <3>1, <3>2, <3>5
    <2>3. CASE ParseReturns(th)
      BY <1>1, <2>1, <2>3 DEF ParseReturns, Uploads, u
    <2>4. CASE ParseFails(th)
      BY <1>1, <2>1, <2>4 DEF ParseFails, Uploads, u
    <2>5. CASE FlushTest(th)
      BY <1>1, <2>1, <2>5 DEF FlushTest, Uploads, u
    <2>6. CASE FlushReturns(th)
      BY <1>1, <2>1, <2>6 DEF FlushReturns, Uploads, u
    <2>7. CASE Close(th)
      BY <1>1, <2>1, <2>7 DEF Close, Uploads, u
    <2>8. CASE SelectResult(th)
      BY <1>1, <2>1, <2>8 DEF SelectResult, Uploads, u
    <2>9. CASE SelectAborted(th)
      BY <1>1, <2>1, <2>9 DEF SelectAborted, IdleUpload, u
    <2>10. CASE Check(th)
      BY <1>1, <2>1, <2>10 DEF Check, Uploads, IdleUpload, u
    <2>11. CASE Merge(th)
      BY <1>1, <2>1, <2>11 DEF Merge, Uploads, IdleUpload, u
    <2> QED
      BY <1>3, <2>2, <2>3, <2>4, <2>5, <2>6, <2>7, <2>8, <2>9, <2>10, <2>11 DEF Handler
  <1>4. ASSUME NEW th \in Threads, Insert(th) PROVE HasFile'
    <2> DEFINE u == up[th]
    <2>1. u \in Uploads /\ (u.pc = "idle" \/ u.f \in Files)
      BY DEF TypeOK, HasFile
    <2> HIDE DEF u
    <2>2. ASSUME NEW e, Set(th, Assign(u, e)) PROVE HasFile'
      BY <1>1, <2>1, <2>2 DEF Assign, Uploads
    <2>3. CASE InsertOK(th)
      BY <2>2, <2>3 DEF InsertOK, u
    <2>4. CASE InsertRefused(th)
      BY <1>1, <2>1, <2>4 DEF InsertRefused, Uploads, u
    <2>5. CASE InsertFails(th)
      BY <2>2, <2>5 DEF InsertFails, u
    <2>6. CASE SendResult(th)
      BY <1>1, <2>1, <2>6 DEF SendResult, Uploads, u
    <2> QED
      BY <1>4, <2>3, <2>4, <2>5, <2>6 DEF Insert
  <1>5. CASE Expire \/ Stop \/ UNCHANGED vars
    BY <1>5 DEF Expire, Stop, vars, HasFile
  <1> QED
    BY <1>2, <1>3, <1>4, <1>5 DEF Next

\* Every variable has the shape the code gives it, for all constants.
THEOREM TypeCorrect == Spec => []TypeOK
  <1>1. Init => TypeOK /\ HasFile
    <2> SUFFICES ASSUME Init PROVE TypeOK /\ HasFile
      OBVIOUS
    <2>1. TypeOK
      BY IdleType DEF Init, TypeOK
    <2>2. HasFile
      BY DEF Init, HasFile, IdleUpload
    <2> QED
      BY <2>1, <2>2
  <1> QED
    BY <1>1, TypeStep, HasFileStep, PTL DEF Spec
-----------------------------------------------------------------------------
(***************************************************************************)
(* The inductive invariant.                                                *)
(***************************************************************************)
LEMMA UploadMono ==
  ASSUME NEW u, NEW s, NEW t, s \subseteq t, UploadInv(u, s)
  PROVE  UploadInv(u, t)
  BY DEF UploadInv, ReadInv, ResultInv

\* The parser: what is read is known, in the pipe, or bad.
LEMMA ParserKeeps ==
  ASSUME TypeOK, IndInv, NEW th \in Threads,
         ReadRecord(th) \/ ParseReturns(th) \/ ParseFails(th)
  PROVE  UploadInv(up'[th], stored)
  <1> DEFINE u == up[th]
  <1>0. u \in Uploads /\ UploadInv(u, stored) /\ u.pc = "parse" /\ up \in [Threads -> Uploads]
    BY DEF TypeOK, IndInv, UploadsInv, ReadRecord, ParseReturns, ParseFails
  <1>1. ReadInv(u, stored) /\ PipeInv(u) /\ EarlyInv(u) /\ ResultInv(u, stored)
    BY <1>0 DEF UploadInv
  <1>2. ASSUME NEW v, Set(th, v) PROVE up'[th] = v
    BY <1>0, <1>2 DEF Set
  <1> HIDE DEF u
  <1>3. CASE ReadRecord(th)
    <2>1. PICK k \in u.todo :
            Set(th, [(IF Exists(u, k) THEN u ELSE Record(u, k)) EXCEPT !.todo = @ \ {k}])
      BY <1>3 DEF ReadRecord, u
    <2>2. PICK v : v = [(IF Exists(u, k) THEN u ELSE Record(u, k)) EXCEPT !.todo = @ \ {k}]
      OBVIOUS
    <2>3. parser \in Parsers /\ cache \subseteq stored \cup Lost
      BY DEF TypeOK, IndInv, CacheInv
    <2>4. DataOnly(u, v) /\ RecordRead(u, v, k)
      BY <1>0, <2>2, <2>3, RecordStep
    <2>5. Lost \subseteq Bad[parser]
      BY DEF Lost
    <2>6. ReadInv(v, stored)
      BY <1>1, <2>3, <2>4, <2>5 DEF ReadInv, DataOnly, RecordRead
    <2>7. PipeInv(v) /\ EarlyInv(v) /\ ResultInv(v, stored)
      BY <1>0, <1>1, <2>4 DEF PipeInv, EarlyInv, ResultInv, DataOnly
    <2> QED
      BY <1>2, <2>1, <2>2, <2>6, <2>7 DEF UploadInv
  <1>4. CASE ParseReturns(th)
    <2>1. PICK v : v = [u EXCEPT !.pc = "flush", !.err = "nil"]
      OBVIOUS
    <2>2. up'[th] = v /\ u.todo = {}
      BY <1>2, <1>4, <2>1 DEF ParseReturns, u
    <2>3. ReadInv(v, stored) /\ PipeInv(v) /\ EarlyInv(v) /\ ResultInv(v, stored)
      BY <1>0, <1>1, <2>1, <2>2 DEF Uploads, ReadInv, PipeInv, EarlyInv, ResultInv
    <2> QED
      BY <2>2, <2>3 DEF UploadInv
  <1>5. CASE ParseFails(th)
    <2>1. PICK v : v = [u EXCEPT !.pc = "flush", !.err = "err", !.new = {}]
      OBVIOUS
    <2>2. up'[th] = v
      BY <1>2, <1>5, <2>1 DEF ParseFails, u
    <2>3. ReadInv(v, stored) /\ PipeInv(v) /\ EarlyInv(v) /\ ResultInv(v, stored)
      BY <1>0, <1>1, <2>1 DEF Uploads, ReadInv, PipeInv, EarlyInv, ResultInv
    <2> QED
      BY <2>2, <2>3 DEF UploadInv
  <1> QED
    BY <1>3, <1>4, <1>5

\* Flush and CloseWithError: the pipe gets its EOF only after the whole file.
LEMMA CloseKeeps ==
  ASSUME TypeOK, IndInv, NEW th \in Threads,
         FlushTest(th) \/ FlushReturns(th) \/ Close(th)
  PROVE  UploadInv(up'[th], stored)
  <1> DEFINE u == up[th]
  <1>0. u \in Uploads /\ UploadInv(u, stored) /\ u.pc # "idle" /\ up \in [Threads -> Uploads]
    BY DEF TypeOK, IndInv, UploadsInv, FlushTest, FlushReturns, Close
  <1>1. ReadInv(u, stored) /\ PipeInv(u) /\ EarlyInv(u) /\ ResultInv(u, stored)
    BY <1>0 DEF UploadInv
  <1>2. ASSUME NEW v, Set(th, v) PROVE up'[th] = v
    BY <1>0, <1>2 DEF Set
  <1> HIDE DEF u
  <1>3. CASE FlushTest(th)
    <2>1. PICK v : v = [u EXCEPT !.pc = IF u.err = "nil" THEN "flushing" ELSE "close"]
      OBVIOUS
    <2>2. up'[th] = v /\ u.pc = "flush"
      BY <1>2, <1>3, <2>1 DEF FlushTest, u
    <2>3. ReadInv(v, stored) /\ PipeInv(v) /\ EarlyInv(v) /\ ResultInv(v, stored)
      BY <1>0, <1>1, <2>1, <2>2 DEF Uploads, Errs, ReadInv, PipeInv, EarlyInv, ResultInv
    <2> QED
      BY <2>2, <2>3 DEF UploadInv
  <1>4. CASE FlushReturns(th)
    <2>1. PICK e \in FlushErrs(u) : Set(th, [u EXCEPT !.pc = "close", !.err = e])
      BY <1>4 DEF FlushReturns, u
    <2>2. PICK v : v = [u EXCEPT !.pc = "close", !.err = e]
      OBVIOUS
    <2>3. up'[th] = v /\ u.pc = "flushing"
      BY <1>2, <1>4, <2>1, <2>2 DEF FlushReturns, u
    <2>4. u.shut = TRUE /\ u.rows # {} => e = "err"
      BY <2>1 DEF FlushErrs
    <2>5. ReadInv(v, stored) /\ PipeInv(v) /\ EarlyInv(v) /\ ResultInv(v, stored)
      BY <1>0, <1>1, <2>2, <2>3, <2>4 DEF Uploads, Errs, ReadInv, PipeInv, EarlyInv, ResultInv
    <2> QED
      BY <2>3, <2>5 DEF UploadInv
  <1>5. CASE Close(th)
    <2>1. PICK v : v = [u EXCEPT !.pc = "select", !.close = CloseWithError(u.err)]
      OBVIOUS
    <2>2. up'[th] = v /\ u.pc = "close"
      BY <1>2, <1>5, <2>1 DEF Close, u
    <2>3. ReadInv(v, stored) /\ PipeInv(v)
      BY <1>0, <1>1, <2>1, <2>2 DEF Uploads, Errs, ReadInv, PipeInv, CloseWithError
    <2>4. EarlyInv(v) /\ ResultInv(v, stored)
      BY <1>0, <1>1, <2>1, <2>2
         DEF Uploads, Errs, EarlyInv, ResultInv, Result, PipeInv, CloseWithError
    <2> QED
      BY <2>2, <2>3, <2>4 DEF UploadInv
  <1> QED
    BY <1>3, <1>4, <1>5

\* The result of the insert and the handler's own error, seen together.
LEMMA ResultKeeps ==
  ASSUME TypeOK, IndInv, NEW th \in Threads,
         SelectResult(th) \/ SelectAborted(th) \/ Check(th) \/ Merge(th)
  PROVE  UploadInv(up'[th], stored)
  <1> DEFINE u == up[th]
  <1>0. u \in Uploads /\ UploadInv(u, stored) /\ u.pc # "idle" /\ up \in [Threads -> Uploads]
    BY DEF TypeOK, IndInv, UploadsInv, SelectResult, SelectAborted, Check, Merge
  <1>1. ReadInv(u, stored) /\ PipeInv(u) /\ EarlyInv(u) /\ ResultInv(u, stored)
    BY <1>0 DEF UploadInv
  <1>2. ASSUME NEW v, Set(th, v) PROVE up'[th] = v
    BY <1>0, <1>2 DEF Set
  <1>3. UploadInv(IdleUpload, stored)
    BY DEF UploadInv, IdleUpload
  <1> HIDE DEF u
  <1>4. CASE SelectResult(th)
    <2>1. PICK v : v = [u EXCEPT !.pc = "check", !.uerr = u.chan, !.chan = "empty"]
      OBVIOUS
    <2>2. up'[th] = v /\ u.pc = "select" /\ u.chan # "empty"
      BY <1>2, <1>4, <2>1 DEF SelectResult, u
    <2>3. ReadInv(v, stored) /\ PipeInv(v) /\ EarlyInv(v) /\ ResultInv(v, stored)
      BY <1>0, <1>1, <2>1, <2>2 DEF Uploads, Errs, ReadInv, PipeInv, EarlyInv, ResultInv
    <2> QED
      BY <2>2, <2>3 DEF UploadInv
  <1>5. CASE SelectAborted(th)
    BY <1>2, <1>5 DEF SelectAborted, UploadInv, IdleUpload
  <1>6. CASE Check(th)
    <2>1. CASE AnyErr(u)
      BY <1>2, <1>3, <1>6, <2>1 DEF Check, u
    <2>2. CASE ~AnyErr(u)
      <3>1. PICK v : v = [u EXCEPT !.pc = "merge"]
        OBVIOUS
      <3>2. up'[th] = v /\ u.pc = "check"
        BY <1>2, <1>6, <2>2, <3>1 DEF Check, u
      <3>3. ReadInv(v, stored) /\ PipeInv(v) /\ EarlyInv(v) /\ ResultInv(v, stored)
        BY <1>0, <1>1, <2>2, <3>1, <3>2
           DEF AnyErr, Uploads, Errs, ReadInv, PipeInv, EarlyInv, ResultInv
      <3> QED
        BY <3>2, <3>3 DEF UploadInv
    <2> QED
      BY <2>1, <2>2
  <1>7. CASE Merge(th)
    <2>1. ASSUME NEW k, up'[th] = [u EXCEPT !.new = @ \ {k}] PROVE UploadInv(up'[th], stored)
      <3>1. u.pc = "merge"
        BY <1>7 DEF Merge, u
      <3>2. PICK v : v = [u EXCEPT !.new = @ \ {k}]
        OBVIOUS
      <3>3. ReadInv(v, stored) /\ PipeInv(v) /\ EarlyInv(v) /\ ResultInv(v, stored)
        BY <1>0, <1>1, <3>1, <3>2 DEF Uploads, Errs, ReadInv, PipeInv, EarlyInv, ResultInv
      <3> QED
        BY <2>1, <3>2, <3>3 DEF UploadInv
    <2> QED
      BY <1>2, <1>3, <1>7, <2>1 DEF Merge, u
  <1> QED
    BY <1>4, <1>5, <1>6, <1>7

\* The goroutine: it reports an error, or rows that are stored.
LEMMA InsertKeeps ==
  ASSUME EarlyReply \subseteq {"points"}, TypeOK, IndInv, NEW th \in Threads, Insert(th)
  PROVE  UploadInv(up'[th], stored')
  <1> DEFINE u == up[th]
  <1>0. u \in Uploads /\ UploadInv(u, stored) /\ up \in [Threads -> Uploads]
    BY DEF TypeOK, IndInv, UploadsInv
  <1>1. ASSUME u.pc # "idle"
        PROVE  ReadInv(u, stored) /\ PipeInv(u) /\ EarlyInv(u) /\ ResultInv(u, stored)
    BY <1>0, <1>1 DEF UploadInv
  <1>2. ASSUME NEW v, Set(th, v) PROVE up'[th] = v
    BY <1>0, <1>2 DEF Set
  <1> HIDE DEF u
  <1>3. ASSUME NEW e \in Errs
        PROVE  LET v == Assign(u, e) IN
               /\ v.pc = u.pc /\ v.f = u.f /\ v.todo = u.todo /\ v.new = u.new /\ v.rows = u.rows
               /\ v.close = u.close /\ v.ins = "got" /\ v.shut = u.shut /\ v.chan = u.chan
               /\ v.uerr = u.uerr /\ Result(v) = e
               /\ v.err = (IF Cached THEN e ELSE u.err) /\ v.gerr = (IF Cached THEN u.gerr ELSE e)
    BY <1>0 DEF Assign, Result, Uploads
  <1>4. ASSUME NEW v, up'[th] = v, v.pc = u.pc,
               u.pc # "idle" =>
                 ReadInv(v, stored') /\ PipeInv(v) /\ EarlyInv(v) /\ ResultInv(v, stored')
        PROVE  UploadInv(up'[th], stored')
    BY <1>4 DEF UploadInv
  <1>5. CASE InsertOK(th)
    <2>1. PICK v : v = Assign(u, "nil")
      OBVIOUS
    <2>2. up'[th] = v /\ u.ins = "run" /\ u.close = "eof" /\ stored' = stored \cup u.rows
      BY <1>2, <1>5, <2>1 DEF InsertOK, u
    <2>3. ASSUME u.pc # "idle"
          PROVE  ReadInv(v, stored') /\ PipeInv(v) /\ EarlyInv(v) /\ ResultInv(v, stored')
      <3>1. ReadInv(v, stored')
        BY <1>1, <1>3, <2>1, <2>2, <2>3 DEF ReadInv, Errs
      <3>2. u.pc = "select"
        BY <1>0, <1>1, <2>2, <2>3 DEF PipeInv, ResultInv, Uploads
      <3>3. PipeInv(v) /\ EarlyInv(v)
        BY <1>0, <1>1, <1>3, <2>1, <2>2, <2>3, <3>2 DEF PipeInv, EarlyInv, Errs
      <3>4. ResultInv(v, stored')
        BY <1>0, <1>1, <1>3, <2>1, <2>2, <2>3, <3>2 DEF ResultInv, Errs
      <3> QED
        BY <3>1, <3>3, <3>4
    <2> QED
      BY <1>3, <1>4, <2>1, <2>2, <2>3 DEF Errs
  <1>6. CASE InsertRefused(th)
    <2>1. PICK v : v = [u EXCEPT !.ins = "refused", !.shut = TRUE]
      OBVIOUS
    <2>2. up'[th] = v /\ u.ins = "run" /\ u.close = "no" /\ stored' = stored /\ v.pc = u.pc
      BY <1>0, <1>2, <1>6, <2>1 DEF InsertRefused, Uploads, u
    <2>3. ASSUME u.pc # "idle"
          PROVE  ReadInv(v, stored') /\ PipeInv(v) /\ EarlyInv(v) /\ ResultInv(v, stored')
      BY <1>0, <1>1, <2>1, <2>2, <2>3
         DEF Uploads, Errs, ReadInv, PipeInv, EarlyInv, ResultInv
    <2> QED
      BY <1>4, <2>2, <2>3
  <1>7. CASE InsertFails(th)
    <2>1. PICK v : v = Assign(u, "err")
      OBVIOUS
    <2>2. up'[th] = v /\ u.ins \in {"run", "refused"} /\ stored \subseteq stored'
      BY <1>2, <1>7, <2>1 DEF InsertFails, u
    <2>3. u.ins = "run" /\ u.close = "no" => ~Cached
      BY <1>7 DEF InsertFails, Cached, u
    <2>4. ASSUME u.pc # "idle"
          PROVE  ReadInv(v, stored') /\ PipeInv(v) /\ EarlyInv(v) /\ ResultInv(v, stored')
      <3>1. ReadInv(v, stored')
        BY <1>1, <1>3, <2>1, <2>2, <2>4 DEF ReadInv, Errs
      <3>2. PipeInv(v)
        BY <1>0, <1>1, <1>3, <2>1, <2>2, <2>4 DEF PipeInv, Errs
      <3>3. EarlyInv(v)
        BY <1>0, <1>1, <1>3, <2>1, <2>2, <2>3, <2>4 DEF EarlyInv, Errs
      <3>4. ResultInv(v, stored')
        BY <1>0, <1>1, <1>3, <2>1, <2>2, <2>4 DEF ResultInv, Errs
      <3> QED
        BY <3>1, <3>2, <3>3, <3>4
    <2> QED
      BY <1>3, <1>4, <2>1, <2>2, <2>4 DEF Errs
  <1>8. CASE SendResult(th)
    <2>1. PICK v : v = [u EXCEPT !.ins = "sent", !.chan = IF Cached THEN u.err ELSE u.gerr]
      OBVIOUS
    <2>2. up'[th] = v /\ u.ins = "got" /\ stored' = stored
      BY <1>2, <1>8, <2>1 DEF SendResult, u
    <2>3. /\ v.pc = u.pc /\ v.f = u.f /\ v.todo = u.todo /\ v.new = u.new /\ v.rows = u.rows
          /\ v.close = u.close /\ v.ins = "sent" /\ v.shut = u.shut /\ v.chan = Result(u)
          /\ v.uerr = u.uerr /\ v.err = u.err /\ v.gerr = u.gerr /\ Result(u) \in Errs
      BY <1>0, <2>1 DEF Result, Uploads
    <2>4. ASSUME u.pc # "idle"
          PROVE  ReadInv(v, stored') /\ PipeInv(v) /\ EarlyInv(v) /\ ResultInv(v, stored')
      <3>1. ReadInv(v, stored') /\ PipeInv(v)
        BY <1>1, <2>2, <2>3, <2>4 DEF ReadInv, PipeInv
      <3>2. EarlyInv(v)
        BY <1>1, <2>2, <2>3, <2>4 DEF EarlyInv, Result, Errs
      <3>3. ResultInv(v, stored')
        BY <1>1, <2>2, <2>3, <2>4 DEF ResultInv, Errs
      <3> QED
        BY <3>1, <3>2, <3>3
    <2> QED
      BY <1>4, <2>2, <2>3, <2>4
  <1> QED
    BY <1>5, <1>6, <1>7, <1>8 DEF Insert

\* Merge and MarkAsFinished: a handler that saw no error has everything stored.
LEMMA MergeKeeps ==
  ASSUME TypeOK, IndInv, NEW th \in Threads, Merge(th)
  PROVE  CacheInv' /\ FinishedIsStored'
  <1> DEFINE u == up[th]
  <1>0. u \in Uploads /\ UploadInv(u, stored) /\ u.pc = "merge"
    BY DEF TypeOK, IndInv, UploadsInv, Merge
  <1>1. /\ (KeysOf[u.f] \ u.todo) \ Bad[parser] \subseteq u.rows \cup stored
        /\ u.new \subseteq u.rows \cup Lost
        /\ u.rows \subseteq stored
        /\ u.todo = {}
    BY <1>0 DEF UploadInv, ReadInv, ResultInv
  <1>2. KeysOf[u.f] \ Bad[parser] \subseteq stored /\ u.new \subseteq stored \cup Lost
    BY <1>1
  <1>3. parser' = parser /\ stored' = stored /\ CacheInv /\ FinishedIsStored
    BY DEF Merge, IndInv
  <1>4. Lost' = Lost
    BY <1>3 DEF Lost
  <1>5. CASE (\E k \in u.new : cache' = cache \cup {k}) /\ UNCHANGED finished
    <2>1. cache' \subseteq cache \cup u.new
      BY <1>5
    <2> QED
      BY <1>2, <1>3, <1>4, <1>5, <2>1 DEF CacheInv, FinishedIsStored
  <1>6. CASE finished' = finished \cup {u.f} /\ UNCHANGED cache
    BY <1>2, <1>3, <1>4, <1>6 DEF CacheInv, FinishedIsStored
  <1> QED
    BY <1>5, <1>6 DEF Merge

\* A thread's step leaves the uploads of the others alone.
LEMMA OthersKeep ==
  ASSUME TypeOK, IndInv, NEW th \in Threads, NEW v, Set(th, v), stored \subseteq stored',
         parser' = parser, UploadInv(up'[th], stored')
  PROVE  UploadsInv'
  <1> SUFFICES ASSUME NEW o \in Threads PROVE UploadInv(up[o], stored)'
    BY DEF UploadsInv
  <1>0. SUFFICES UploadInv(up'[o], stored')
    <2>1. ReadInv(up'[o], stored') => ReadInv(up[o], stored)'
      BY DEF ReadInv, Lost
    <2>2. PipeInv(up'[o]) => PipeInv(up[o])'
      BY DEF PipeInv
    <2>3. EarlyInv(up'[o]) => EarlyInv(up[o])'
      BY DEF EarlyInv, Cached
    <2>4. ResultInv(up'[o], stored') => ResultInv(up[o], stored)'
      BY DEF ResultInv, Result, Cached
    <2> QED
      BY <1>0, <2>1, <2>2, <2>3, <2>4 DEF UploadInv
  <1>1. CASE o = th
    BY <1>1
  <1>2. CASE o # th
    <2>1. up'[o] = up[o] /\ UploadInv(up[o], stored)
      BY <1>2 DEF Set, TypeOK, IndInv, UploadsInv
    <2> QED
      BY <2>1, UploadMono
  <1> QED
    BY <1>1, <1>2

LEMMA IndStep ==
  ASSUME EarlyReply \subseteq {"points"}, TypeOK, IndInv, [Next]_vars
  PROVE  IndInv'
  <1>0. CacheInv /\ FinishedIsStored
    BY DEF IndInv
  <1>1. ASSUME UNCHANGED <<parser, finished>>, cache' \subseteq cache, stored \subseteq stored'
        PROVE  CacheInv' /\ FinishedIsStored'
    BY <1>0, <1>1 DEF CacheInv, FinishedIsStored, Lost
  <1>2. ASSUME NEW th \in Threads, Begin(th) PROVE IndInv'
    <2>1. PICK f \in Files :
            Set(th, [IdleUpload EXCEPT !.pc = "parse", !.f = f, !.todo = KeysOf[f], !.ins = "run"])
      BY <1>2 DEF Begin
    <2>2. PICK v : v = [IdleUpload EXCEPT !.pc = "parse", !.f = f, !.todo = KeysOf[f], !.ins = "run"]
      OBVIOUS
    <2>3. up'[th] = v
      BY <2>1, <2>2 DEF Set, TypeOK
    <2>4. UploadInv(v, stored)
      BY <2>2 DEF IdleUpload, UploadInv, ReadInv, PipeInv, EarlyInv, ResultInv
    <2>5. UNCHANGED <<parser, cache, stored, finished>>
      BY <1>2 DEF Begin
    <2>6. UploadsInv'
      BY <2>1, <2>3, <2>4, <2>5, OthersKeep
    <2> QED
      BY <1>1, <2>5, <2>6 DEF IndInv
  <1>3. ASSUME NEW th \in Threads, Handler(th) PROVE IndInv'
    <2>1. UploadInv(up'[th], stored)
      BY <1>3, ParserKeeps, CloseKeeps, ResultKeeps DEF Handler
    <2>2. UNCHANGED <<parser, stored>> /\ \E v : Set(th, v)
      BY <1>3 DEF Handler, ReadRecord, ParseReturns, ParseFails, FlushTest, FlushReturns,
         Close, SelectResult, SelectAborted, Check, Merge
    <2>3. UploadsInv'
      BY <2>1, <2>2, OthersKeep
    <2>4. CASE Merge(th)
      BY <2>3, <2>4, MergeKeeps DEF IndInv
    <2>5. CASE ~Merge(th)
      <3>1. UNCHANGED <<cache, finished>>
        BY <1>3, <2>5 DEF Handler, ReadRecord, ParseReturns, ParseFails, FlushTest,
           FlushReturns, Close, SelectResult, SelectAborted, Check
      <3> QED
        BY <1>1, <2>2, <2>3, <3>1 DEF IndInv
    <2> QED
      BY <2>4, <2>5
  <1>4. ASSUME NEW th \in Threads, Insert(th) PROVE IndInv'
    <2>1. UploadInv(up'[th], stored')
      BY <1>4, InsertKeeps
    <2>2. UNCHANGED <<parser, cache, finished>> /\ stored \subseteq stored' /\ \E v : Set(th, v)
      BY <1>4 DEF Insert, InsertOK, InsertRefused, InsertFails, SendResult
    <2>3. UploadsInv'
      BY <2>1, <2>2, OthersKeep
    <2> QED
      BY <1>1, <2>2, <2>3 DEF IndInv
  <1>5. CASE Expire \/ Stop \/ UNCHANGED vars
    <2>1. UNCHANGED <<parser, up, stored, finished>> /\ cache' \subseteq cache
      BY <1>5 DEF Expire, Stop, vars
    <2>2. UploadsInv'
      BY <2>1 DEF IndInv, UploadsInv, UploadInv, ReadInv, PipeInv, EarlyInv, ResultInv, Result,
         Cached, Lost
    <2> QED
      BY <1>1, <2>1, <2>2 DEF IndInv
  <1> QED
    BY <1>2, <1>3, <1>4, <1>5 DEF Next

LEMMA IndAlways ==
  ASSUME EarlyReply \subseteq {"points"}
  PROVE  Spec => []IndInv
  <1>1. Init => TypeOK /\ HasFile /\ IndInv
    <2> SUFFICES ASSUME Init PROVE TypeOK /\ HasFile /\ IndInv
      OBVIOUS
    <2>1. TypeOK
      BY IdleType DEF Init, TypeOK
    <2>2. HasFile
      BY DEF Init, HasFile, IdleUpload
    <2>3. UploadsInv
      BY DEF Init, UploadsInv, UploadInv, IdleUpload
    <2> QED
      BY <2>1, <2>2, <2>3 DEF Init, IndInv, CacheInv, FinishedIsStored
  <1>2. TypeOK /\ IndInv /\ [Next]_vars => IndInv'
    BY IndStep
  <1> QED
    BY <1>1, <1>2, TypeStep, HasFileStep, PTL DEF Spec

\* A file is marked as finished only when ClickHouse has all of its keys, as
\* long as no insert of a cached handler is answered before its pipe is closed.
THEOREM FinishedSafe ==
  ASSUME EarlyReply \subseteq {"points"}
  PROVE  Spec => []FinishedIsStored
  <1>1. IndInv => FinishedIsStored
    BY DEF IndInv
  <1> QED
    BY <1>1, IndAlways, PTL

\* Under the same hypothesis existsCache holds only what ClickHouse has, and
\* the keys the index handler marks although it can build no rows for them.
THEOREM CacheSafe ==
  ASSUME EarlyReply \subseteq {"points"}
  PROVE  Spec => [](cache \subseteq stored \cup Lost)
  <1>1. IndInv => cache \subseteq stored \cup Lost
    BY DEF IndInv, CacheInv
  <1> QED
    BY <1>1, IndAlways, PTL

\* So, when no name is too long for the index, the cache is exact.
THEOREM CacheExact ==
  ASSUME EarlyReply \subseteq {"points"},
         "index" \in Parsers => Bad["index"] = {}
  PROVE  Spec => []CacheIsStored
  <1>1. TypeOK /\ IndInv => CacheIsStored
    BY DEF TypeOK, IndInv, CacheInv, Lost, CacheIsStored
  <1> QED
    BY <1>1, IndAlways, TypeCorrect, PTL
=============================================================================
