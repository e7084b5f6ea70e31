---------------------------- MODULE ChunkWriter ----------------------------
(***************************************************************************)
(* The data path of a chunk: GRPC.doStore fills write buffers and sends    *)
(* them to Writer.worker, which puts them through a bufio.Writer (and with *)
(* compression through an lz4.Writer) into the current file, rotates the   *)
(* file, and confirms the buffers of StoreSync.                            *)
(*                                                                         *)
(* A buffer <<r, i>>, the i-th of request r, is two pieces of data, so     *)
(* that it can be torn by a full bufio buffer or a failed write.  Other    *)
(* receivers send buffers the way Store does, without confirmation.        *)
(* Abstracted: sizes and intervals (a rotation may happen at any tick),    *)
(* the validation of a request before its first buffer, statistics.        *)
(***************************************************************************)
EXTENDS Integers, Sequences, FiniteSets, Functions

CONSTANTS Requests,   \* calls of Store and StoreSync
          Sync,       \* those of StoreSync
          Dropped,    \* those all of whose points are dropped
          MaxBufs,    \* bound on the buffers of a request
          NFiles,     \* bound on the chunk files
          MaxStarts,  \* bound on the starts of the process
          Algo,       \* data.compression: "none" or "lz4"
          BufSize,    \* pieces that fit into outBuf
          BlockSize,  \* pieces of an lz4 block
          Faults      \* which faults the environment produces

ASSUME RequestsAssumption == Sync \subseteq Requests /\ Dropped \subseteq Requests
ASSUME BoundsAssumption ==
  MaxBufs \in Nat \ {0} /\ NFiles \in Nat /\ MaxStarts \in Nat
ASSUME AlgoAssumption == Algo \in {"none", "lz4"}
\* 512 KB buffers, 1 MB of bufio
ASSUME SizeAssumption == BufSize \in Nat /\ BufSize >= 2 /\ BlockSize \in Nat \ {0}
\* what a failed write does inside an lz4 frame is not modelled
ASSUME FaultsAssumption ==
  /\ Faults \subseteq {"write", "open", "link", "crash"}
  /\ Algo = "lz4" => "write" \notin Faults

VARIABLES
  req,       \* [Requests -> state of the call]
  wpc,       \* where Writer.worker is
  stopping,  \* ctx of the writer and the receivers is cancelled
  starts,    \* starts of the process so far
  fn,        \* name of the current file, a number; 0 is ""
  used,      \* last name given out
  path,      \* out, outBuf and cwr
  racing,    \* an onFinish goroutine of this rotateCheck may still set err
  disk,      \* [Files -> what the file holds]
  finished   \* files handed to onFinish or LinkAll

vars == <<req, wpc, stopping, starts, fn, used, path, racing, disk, finished>>

Files    == 1 .. NFiles
Messages == Requests \X (1 .. MaxBufs)
Pieces   == Messages \X {1, 2}
Body(m)  == << <<m, 1>>, <<m, 2>> >>

\* out # nil; outBuf = nil, whether the file below it was opened, its content, its
\* sticky error; the pending lz4 block
Paths   == [out : BOOLEAN, nil : BOOLEAN, dst : BOOLEAN, buf : Seq(Pieces), err : BOOLEAN,
            cwr : Seq(Pieces)]
NilPath == [out |-> FALSE, nil |-> TRUE, dst |-> FALSE, buf |-> <<>>, err |-> FALSE,
            cwr |-> <<>>]
NewPath(made) ==
  [out |-> made, nil |-> FALSE, dst |-> made, buf |-> <<>>, err |-> FALSE, cwr |-> <<>>]

(***************************************************************************)
(* bufio.Writer and lz4.Writer.  A state s is the path with the content    *)
(* of its file; every operator gives the set of possible results.          *)
(***************************************************************************)
State == [out |-> path.out, nil |-> path.nil, dst |-> path.dst, buf |-> path.buf,
          err |-> path.err, cwr |-> path.cwr, file |-> IF fn \in Files THEN disk[fn] ELSE <<>>]
\* write(2): all of d, or a part of it and an error; a nil file is an error
ToFile(s, d) ==
  IF ~s.dst THEN {[s EXCEPT !.err = TRUE]}
  ELSE {[s EXCEPT !.file = @ \o d]}
       \cup {[s EXCEPT !.file = @ \o SubSeq(d, 1, n), !.err = TRUE] :
               n \in IF "write" \in Faults THEN 0 .. Len(d) - 1 ELSE {}}
\* whole blocks are written, the rest waits
Compress(s, d) ==
  LET all == s.cwr \o d
      k   == Len(all) - (Len(all) % BlockSize)
  IN ToFile([s EXCEPT !.cwr = SubSeq(all, k + 1, Len(all))], SubSeq(all, 1, k))
Through(s, d) == IF Algo = "none" THEN ToFile(s, d) ELSE Compress(s, d)

FlushBuf(s) == IF s.err \/ s.buf = <<>> THEN {s} ELSE Through([s EXCEPT !.buf = <<>>], s.buf)
FlushCwr(s) == IF s.cwr = <<>> THEN {s} ELSE ToFile([s EXCEPT !.cwr = <<>>], s.cwr)
FlushBoth(s) == UNION {FlushCwr(t) : t \in FlushBuf(s)}
\* outBuf.Write: a full buffer is written first
WriteBuf(s, d) ==
  LET all == s.buf \o d IN
  IF s.err THEN {s}
  ELSE IF Len(all) <= BufSize THEN {[s EXCEPT !.buf = all]}
  ELSE {[t EXCEPT !.buf = SubSeq(all, BufSize + 1, Len(all))] :
          t \in Through([s EXCEPT !.buf = <<>>], SubSeq(all, 1, BufSize))}

(***************************************************************************)
(* Reader.ReadRecord, until its first error: the records of a file d up to *)
(* the one that is cut off or mixed with another one.                      *)
(***************************************************************************)
RecordAt(d, j) ==
  /\ 2 * j <= Len(d)
  /\ d[2 * j - 1][2] = 1 /\ d[2 * j] = <<d[2 * j - 1][1], 2>>
Records(d) ==
  LET last == CHOOSE n \in 0 .. Len(d) \div 2 :
                ~RecordAt(d, n + 1) /\ \A j \in 1 .. n : RecordAt(d, j)
  IN [j \in 1 .. last |-> d[2 * j][1]]

Keep(s) ==
  /\ path' = [out |-> s.out, nil |-> s.nil, dst |-> s.dst, buf |-> s.buf, err |-> s.err,
              cwr |-> s.cwr]
  /\ disk' = IF fn \in Files THEN [disk EXCEPT ![fn] = s.file] ELSE disk

(***************************************************************************)
(* GRPC.doStore.  i: the buffer at hand; n: buffers the worker has taken;  *)
(* wg: count of the WaitGroup; failed: errorChan holds an error.           *)
(***************************************************************************)
Calls == [pc : {"new", "fill", "send", "last", "wait", "ok", "error"},
          i : 0 .. MaxBufs, n : 0 .. MaxBufs, wg : 0 .. MaxBufs, failed : BOOLEAN]
Up == wpc # "down"
Unchanged(r, pc) == [req EXCEPT ![r].pc = pc]
workerVars == <<wpc, stopping, starts, fn, used, path, racing, disk, finished>>

\* GetWriterBufferWithConfirm
GetBuffer(r, c) ==
  [pc |-> "fill", i |-> c.i + 1, n |-> c.n,
   wg |-> IF r \in Sync THEN c.wg + 1 ELSE c.wg, failed |-> c.failed]

StoreBegin(r) ==
  /\ Up /\ ~stopping /\ req[r].pc = "new"
  /\ req' = [req EXCEPT ![r] = GetBuffer(r, @)]
  /\ UNCHANGED workerVars

\* the next point does not fit, or there is no next point
StoreFilled(r) ==
  /\ req[r].pc = "fill" /\ r \notin Dropped
  /\ \E pc \in {"send", "last"} :
       /\ pc = "send" => req[r].i < MaxBufs
       /\ req' = Unchanged(r, pc)
  /\ UNCHANGED workerVars

\* every point was dropped: wb.Release(), and on to wg.Wait()
StoreEmpty(r) ==
  /\ req[r].pc = "fill" /\ r \in Dropped
  /\ req' = Unchanged(r, IF r \in Sync THEN "wait" ELSE "ok")
  /\ UNCHANGED workerVars

\* "receiver stopped" or "request canceled" while the channel is not ready
StoreCancelled(r) ==
  /\ req[r].pc \in {"send", "last"}
  /\ req' = Unchanged(r, "error")
  /\ UNCHANGED workerVars

\* wg.Wait() returns, errorChan is read
StoreReturn(r) ==
  /\ req[r].pc = "wait" /\ req[r].wg = 0
  /\ req' = Unchanged(r, IF req[r].failed THEN "error" ELSE "ok")
  /\ UNCHANGED workerVars

\* after the send: another buffer, or wait for the confirmations
AfterSend(r, c) ==
  IF c.pc = "send" THEN GetBuffer(r, c)
  ELSE [c EXCEPT !.pc = IF r \in Sync THEN "wait" ELSE "ok"]
\* mutants: Fail falls through to Confirm; only the last buffer is confirmed
DoneTwice(r, c, failed) ==
  IF r \in Sync
    THEN [c EXCEPT !.n = @ + 1, !.wg = @ - (IF failed THEN 2 ELSE 1), !.failed = @ \/ failed]
    ELSE [c EXCEPT !.n = @ + 1]
LastIsDone(r, c, failed) ==
  IF r \in Sync /\ c.pc = "last"
    THEN [c EXCEPT !.n = @ + 1, !.wg = @ - 1, !.failed = @ \/ failed]
    ELSE [c EXCEPT !.n = @ + 1]
\* Fail, Confirm; for Store neither
Confirmed(r, c, failed) ==
  IF r \in Sync THEN [c EXCEPT !.n = @ + 1, !.wg = @ - 1, !.failed = @ \/ failed]
  ELSE [c EXCEPT !.n = @ + 1]

(***************************************************************************)
(* Writer.worker.                                                          *)
(***************************************************************************)
Selecting == wpc \in {"select", "idle"}

\* the process is gone: calls of its clients fail, buffered data is lost
ProcessDies ==
  /\ wpc' = "down" /\ path' = NilPath /\ fn' = 0 /\ racing' = FALSE
  /\ req' = [r \in Requests |-> IF req[r].pc \in {"new", "ok"} THEN req[r]
                                ELSE [req[r] EXCEPT !.pc = "error"]]
  /\ UNCHANGED <<stopping, starts, used, finished>>

\* write(b): the buffer is confirmed when it was flushed
WriteNoFlush(s, m, sync) == WriteBuf(s, Body(m))    \* mutant: no Flush
WriteRetries(s, m, sync) ==                         \* mutant: a failed Flush is retried
  UNION {FlushBuf(IF t.err THEN [t EXCEPT !.err = FALSE, !.buf = Body(m)] ELSE t) :
           t \in UNION {FlushBuf(u) : u \in WriteBuf(s, Body(m))}}
WriteMessage(s, m, sync) ==
  UNION {IF sync THEN FlushBuf(t) ELSE {t} : t \in WriteBuf(s, Body(m))}

Receive(r) ==
  /\ Selecting /\ req[r].pc \in {"send", "last"}
  /\ ~path.nil
  /\ \E s \in WriteMessage(State, <<r, req[r].i>>, r \in Sync) :
       /\ Keep(s)
       /\ req' = [req EXCEPT ![r] = AfterSend(r, Confirmed(r, @, s.err))]
  /\ wpc' = "select"
  /\ UNCHANGED <<stopping, starts, fn, used, racing, finished>>

\* outBuf is nil after an OpenLoop that was left at ctx.Done
ReceivePanics(r) ==
  /\ Selecting /\ req[r].pc \in {"send", "last"}
  /\ path.nil
  /\ ProcessDies /\ UNCHANGED disk

\* default: nothing to receive, flush and wait
IdleKeepsBlock(s) == FlushBuf(s)                    \* mutant: no cwr.Flush()
IdleFlush(s) == FlushBoth(s)
Idle ==
  /\ wpc = "select" /\ ~stopping
  /\ \A r \in Requests : req[r].pc \notin {"send", "last"}
  /\ \E s \in IdleFlush(State) : Keep(s)
  /\ wpc' = "idle"
  /\ UNCHANGED <<req, stopping, starts, fn, used, racing, finished>>

\* rotateCheck, the file is due (or out = nil): flush, close
CloseChunk(s) == FlushBoth(s)
RotateClose ==
  /\ Selecting /\ (path.out => ~path.nil)
  /\ \E s \in IF path.out THEN CloseChunk(State) ELSE {State} :
       /\ disk' = IF fn \in Files THEN [disk EXCEPT ![fn] = s.file] ELSE disk
       /\ path' = IF path.out THEN NilPath ELSE path
  /\ wpc' = "rotate" /\ racing' = FALSE
  /\ UNCHANGED <<req, stopping, starts, fn, used, finished>>

\* outBuf.Flush() on the nil that such an OpenLoop left, with a file that is open
RotatePanics ==
  /\ Selecting /\ path.out /\ path.nil
  /\ ProcessDies /\ UNCHANGED disk

\* OpenLoop: go onFinish(fn), the next name
FinishNext(next) == finished \cup {next}            \* mutant: fn is captured
FinishCurrent(next) == finished \cup ({fn} \cap Files)
RotateName ==
  /\ wpc = "rotate" /\ used < NFiles
  /\ used' = used + 1 /\ fn' = used + 1
  /\ finished' = FinishCurrent(used + 1)
  /\ racing' = (racing \/ fn \in Files)
  /\ wpc' = "open"
  /\ UNCHANGED <<req, stopping, starts, path, disk>>

\* out, err = os.OpenFile(fn), and the test of err, which the goroutine may have
\* set to its own result in between
ErrSeen(made) ==
  {~made} \cup (IF racing /\ made /\ "link" \in Faults THEN {TRUE} ELSE {})
          \cup (IF racing /\ ~made THEN {FALSE} ELSE {})
RotateOpen ==
  /\ wpc = "open"
  /\ \E made \in IF "open" \in Faults THEN BOOLEAN ELSE {TRUE} :
     \E failed \in ErrSeen(made) :
       IF ~failed
         THEN path' = NewPath(made) /\ wpc' = "select"
         ELSE path' = [path EXCEPT !.out = made]
              /\ wpc' = IF stopping THEN "select" ELSE "rotate"
  /\ UNCHANGED <<req, stopping, starts, fn, used, racing, disk, finished>>

Stop ==
  /\ Up /\ ~stopping
  /\ stopping' = TRUE
  /\ UNCHANGED <<req, wpc, starts, fn, used, path, racing, disk, finished>>

\* ctx.Done: the deferred close (which panics when outBuf is nil), then the end
WorkerExit ==
  /\ Selecting /\ stopping
  /\ \E s \in IF path.out /\ ~path.nil THEN CloseChunk(State) ELSE {State} :
       disk' = IF fn \in Files THEN [disk EXCEPT ![fn] = s.file] ELSE disk
  /\ ProcessDies

Crash ==
  /\ "crash" \in Faults /\ Up
  /\ ProcessDies /\ UNCHANGED disk

\* Writer.Start: LinkAll takes every file there is
Start ==
  /\ ~Up /\ starts < MaxStarts
  /\ starts' = starts + 1
  /\ finished' = 1 .. used
  /\ wpc' = "rotate" /\ stopping' = FALSE
  /\ UNCHANGED <<req, fn, used, path, racing, disk>>
-----------------------------------------------------------------------------
Init ==
  /\ req = [r \in Requests |-> [pc |-> "new", i |-> 0, n |-> 0, wg |-> 0, failed |-> FALSE]]
  /\ wpc = "down" /\ stopping = FALSE /\ starts = 0
  /\ fn = 0 /\ used = 0 /\ path = NilPath /\ racing = FALSE
  /\ disk = [f \in Files |-> <<>>] /\ finished = {}

Store(r) == StoreBegin(r) \/ StoreFilled(r) \/ StoreEmpty(r) \/ StoreCancelled(r)
            \/ StoreReturn(r)
Worker   == (\E r \in Requests : Receive(r) \/ ReceivePanics(r))
            \/ Idle \/ RotateClose \/ RotatePanics \/ RotateName \/ RotateOpen \/ WorkerExit
Next     == (\E r \in Requests : Store(r)) \/ Worker \/ Stop \/ Crash \/ Start

Spec == Init /\ [][Next]_vars

(***************************************************************************)
(* Properties.                                                             *)
(***************************************************************************)
\* Every variable has the shape the code gives it.
TypeOK ==
  /\ req \in [Requests -> Calls]
  /\ wpc \in {"down", "rotate", "open", "select", "idle"}
  /\ stopping \in BOOLEAN /\ starts \in 0 .. MaxStarts
  /\ fn \in 0 .. NFiles /\ used \in 0 .. NFiles
  /\ path \in Paths /\ racing \in BOOLEAN
  /\ disk \in [Files -> Seq(Pieces)]
  /\ finished \subseteq Files

Written(m) == \E f \in Files : Range(Body(m)) \subseteq Range(disk[f])

\* A StoreSync that returned without an error is on disk, all of its buffers
\* (grpc/carbon.proto; writer.go:265-283, grpc.go:160-180).
SyncIsDurable ==
  \A r \in Sync : req[r].pc = "ok" =>
    r \in Dropped \/ \A i \in 1 .. req[r].i : Written(<<r, i>>)

\* From the moment a file is handed to onFinish, and an uploader may read it, it
\* does not change: everything was flushed and closed before (writer.go:167-192).
FinishedIsFinalStep == \A f \in finished : disk'[f] = disk[f]
FinishedIsFinal == [][FinishedIsFinalStep]_vars

\* Whatever failed or crashed, the records a Reader gets from the chunks are all
\* that were written whole, each of them once: nothing but one torn record at the
\* end of a file is left over (reader.go:18 "Read all good records from unfinished
\* RowBinary file").
ReaderGetsAll ==
  LET recs == [f \in Files |-> Records(disk[f])] IN
  \A f \in Files :
    /\ Len(disk[f]) <= 2 * Len(recs[f]) + 1
    /\ \A g \in 1 .. f : \A j \in DOMAIN recs[f], k \in DOMAIN recs[g] :
         recs[f][j] = recs[g][k] => f = g /\ j = k

(***************************************************************************)
(* Liveness: the worker is scheduled, and a ticker makes it look again.    *)
(***************************************************************************)
Fairness ==
  /\ WF_vars(Idle) /\ WF_vars(RotateName) /\ WF_vars(RotateOpen) /\ WF_vars(WorkerExit)
  /\ \A r \in Requests : /\ WF_vars(Receive(r))
                         /\ WF_vars(StoreFilled(r) \/ StoreEmpty(r) \/ StoreReturn(r))
LiveSpec == Spec /\ Fairness

\* What the worker has taken gets to the disk, without another request, a
\* rotation or a stop being needed (writer.go:293-301).
TakenIsWritten ==
  \A m \in Messages : m[2] <= req[m[1]].n ~> Written(m)

\* A call of StoreSync that waits for its confirmations returns (grpc.go:172-174).
SyncReturns == \A r \in Sync : req[r].pc = "wait" ~> req[r].pc # "wait"
=============================================================================
