---------------------------- MODULE ChunkProofs ----------------------------
(***************************************************************************)
(* The worker and its files, for every number of requests, buffers, files  *)
(* and starts, every buffer size and every combination of faults: a        *)
(* finished chunk is final, and every variable keeps its type; what        *)
(* bufio.Writer and lz4.Writer make of the data; and what the files hold   *)
(* for a Reader.                                                           *)
(*                                                                         *)
(* Finished chunks: the worker writes to fn only; the argument is that fn  *)
(* never is a finished file, which needs that names grow: a new name is    *)
(* above every finished one.                                               *)
(***************************************************************************)
EXTENDS ChunkWriter, SequenceTheorems, TLAPS

\* Names are given out in order, and the current one is not finished.
NameInv ==
  /\ used \in 0 .. NFiles /\ fn \in 0 .. used
  /\ finished \subseteq 1 .. used
  /\ fn \notin finished
  /\ wpc = "down" => fn = 0
  /\ DOMAIN disk = Files

\* A step of the worker or of a caller changes no file but the current one.
LEMMA OnlyCurrentChanges ==
  ASSUME Next, DOMAIN disk = Files
  PROVE  DOMAIN disk' = Files /\ \A f \in Files \ {fn} : disk'[f] = disk[f]
  <1> USE DEF Files
  <1>1. CASE \E r \in Requests : Store(r)
    BY <1>1 DEF Store, StoreBegin, StoreFilled, StoreEmpty, StoreCancelled, StoreReturn, workerVars
  <1>2. CASE \E r \in Requests : Receive(r)
    <2>1. PICK r \in Requests : Receive(r)
      BY <1>2
    <2>2. PICK s : Keep(s)
      BY <2>1 DEF Receive
    <2> QED
      BY <2>2 DEF Keep
  <1>3. CASE (\E r \in Requests : ReceivePanics(r)) \/ RotatePanics
    BY <1>3 DEF ReceivePanics, RotatePanics
  <1>4. CASE Idle
    <2>1. PICK s : Keep(s)
      BY <1>4 DEF Idle
    <2> QED
      BY <2>1 DEF Keep
  <1>5. CASE RotateClose
    <2>1. PICK s : disk' = IF fn \in Files THEN [disk EXCEPT ![fn] = s.file] ELSE disk
      BY <1>5 DEF RotateClose
    <2> QED
      BY <2>1
  <1>6. CASE WorkerExit
    <2>1. PICK s : disk' = IF fn \in Files THEN [disk EXCEPT ![fn] = s.file] ELSE disk
      BY <1>6 DEF WorkerExit
    <2> QED
      BY <2>1
  <1>7. CASE RotateName \/ RotateOpen \/ Stop \/ Crash \/ Start
    BY <1>7 DEF RotateName, RotateOpen, Stop, Crash, Start
  <1> QED
    BY <1>1, <1>2, <1>3, <1>4, <1>5, <1>6, <1>7 DEF Next, Worker

\* The names stay in order.
LEMMA NamesStep == NameInv /\ [Next]_vars => NameInv'
  <1> SUFFICES ASSUME NameInv, [Next]_vars PROVE NameInv'
    OBVIOUS
  <1> USE DEF NameInv
  <1>1. CASE UNCHANGED vars
    BY <1>1 DEF vars
  <1>2. CASE Next
    <2>1. DOMAIN disk' = Files
      BY <1>2, OnlyCurrentChanges
    <2>2. CASE RotateName
      BY <2>1, <2>2, BoundsAssumption DEF RotateName, FinishCurrent, Files
    <2>3. CASE Start
      <3>1. wpc = "down" /\ finished' = 1 .. used /\ used' = used /\ fn' = fn /\ wpc' = "rotate"
        BY <2>3 DEF Start, Up
      <3> QED
        BY <2>1, <3>1
    <2>4. CASE fn' = fn /\ used' = used /\ finished' = finished /\ (wpc' = wpc \/ wpc' # "down")
      BY <2>1, <2>4
    <2>5. CASE ProcessDies
      BY <2>1, <2>5, BoundsAssumption DEF ProcessDies
    <2>6. CASE (\E r \in Requests : Store(r)) \/ Stop \/ Idle \/ RotateClose \/ RotateOpen
      BY <2>4, <2>6 DEF Store, StoreBegin, StoreFilled, StoreEmpty, StoreCancelled,
         StoreReturn, workerVars, Stop, Idle, RotateClose, RotateOpen
    <2>7. CASE \E r \in Requests : Receive(r)
      BY <2>4, <2>7 DEF Receive
    <2>8. CASE (\E r \in Requests : ReceivePanics(r)) \/ RotatePanics \/ WorkerExit \/ Crash
      BY <2>5, <2>8 DEF ReceivePanics, RotatePanics, WorkerExit, Crash
    <2> QED
      BY <1>2, <2>2, <2>3, <2>6, <2>7, <2>8 DEF Next, Worker
  <1> QED
    BY <1>1, <1>2

\* No file changes once it was handed to onFinish or to LinkAll.
THEOREM FinishedIsFinalSafe == Spec => FinishedIsFinal
  <1>1. Init => NameInv
    BY BoundsAssumption DEF Init, NameInv, Files
  <1>2. NameInv /\ [Next]_vars => [FinishedIsFinalStep]_vars
    <2> SUFFICES ASSUME NameInv, Next, NEW f \in finished PROVE disk'[f] = disk[f]
      BY DEF FinishedIsFinalStep
    <2> QED
      BY OnlyCurrentChanges, BoundsAssumption DEF NameInv, Files
  <1> QED
    BY <1>1, <1>2, NamesStep, PTL DEF Spec, FinishedIsFinal
-----------------------------------------------------------------------------
(***************************************************************************)
(* The data.  The argument looks at Contents[f]: what the file f will hold *)
(* once the buffers above it are flushed.  A flush does not change it, a   *)
(* failure or a crash cuts it off, and a received buffer is put at its     *)
(* end.                                                                    *)
(***************************************************************************)
\* p is the beginning of d.
Begins(p, d) == Len(p) <= Len(d) /\ \A k \in 1 .. Len(p) : p[k] = d[k]

\* Whole buffers, but for a torn one at the end.
Whole(d) ==
  \A k \in 1 .. Len(d) :
    /\ k % 2 = 1 => d[k][2] = 1
    /\ k % 2 = 0 => d[k] = <<d[k - 1][1], 2>>
Distinct(d) == \A j, k \in 1 .. Len(d) : d[j] = d[k] => j = k
Disjoint(d, e) == \A j \in 1 .. Len(d), k \in 1 .. Len(e) : d[j] # e[k]
\* Only of buffers that the worker has taken from the calls q.
Taken(d, q) == \A k \in 1 .. Len(d) : d[k][1][2] <= q[d[k][1][1]].n

\* Files in which no data is lost in the middle, mixed up or repeated.
Clean(C, q) ==
  /\ \A f \in Files :
       /\ C[f] \in Seq(Pieces)
       /\ Whole(C[f]) /\ Distinct(C[f]) /\ Taken(C[f], q)
  /\ \A f, g \in Files : f # g => Disjoint(C[f], C[g])

\* The data of a path, in order.
Stream(s) == (s.file \o s.cwr) \o s.buf

\* outBuf writes to the current file, and has met no error.
Live == path.dst = TRUE /\ path.err = FALSE
Contents == [f \in Files |-> IF Live /\ f = fn THEN Stream(State) ELSE disk[f]]

\* What is below outBuf: an open file only while the worker selects; without
\* compression nothing waits in cwr; with it, a write does not fail.
PathInv ==
  /\ path.dst = TRUE => fn \in Files /\ wpc \in {"select", "idle"} /\ path.out = TRUE
  /\ path.dst = TRUE => path.nil = FALSE
  /\ Algo = "none" => path.cwr = <<>>
  /\ Algo = "lz4" /\ path.dst = TRUE => path.err = FALSE

\* A file is opened under a name that was given out.
OpenInv == wpc = "open" => fn \in Files

\* A call of Store or StoreSync: a buffer is sent after the one before it was
\* taken, and one at a time waits for its confirmation.
CallOK(r, c) ==
  /\ c.pc = "new" => c.i = 0 /\ c.n = 0 /\ c.wg = 0
  /\ c.pc \in {"fill", "send", "last"} => c.n + 1 = c.i /\ c.wg = IF r \in Sync THEN 1 ELSE 0
  /\ c.pc = "send" => c.i < MaxBufs
  /\ c.pc \in {"wait", "ok"} => r \in Dropped \/ c.n = c.i
  /\ c.pc = "ok" /\ r \in Sync => c.failed = FALSE
CallInv == \A r \in Requests : CallOK(r, req[r])
-----------------------------------------------------------------------------
(***************************************************************************)
(* Sequences.                                                              *)
(***************************************************************************)
LEMMA Assoc ==
  \A a, b, c \in Seq(Pieces) : (a \o b) \o c = a \o (b \o c)
  OBVIOUS

LEMMA BeginsConcat ==
  ASSUME NEW S, NEW a \in Seq(S), NEW b \in Seq(S)
  PROVE  Begins(a, a \o b)
  BY ConcatProperties, LenProperties DEF Begins

LEMMA BeginsSelf ==
  ASSUME NEW S, NEW a \in Seq(S)
  PROVE  Begins(a, a)
  BY LenProperties DEF Begins

LEMMA BeginsTrans ==
  ASSUME NEW S, NEW a \in Seq(S), NEW b \in Seq(S), NEW c \in Seq(S), Begins(a, b), Begins(b, c)
  PROVE  Begins(a, c)
  BY LenProperties DEF Begins

LEMMA BeginsPart ==
  ASSUME NEW S, NEW a \in Seq(S), NEW d \in Seq(S), NEW n \in 0 .. Len(d)
  PROVE  SubSeq(d, 1, n) \in Seq(S) /\ Begins(a \o SubSeq(d, 1, n), a \o d)
  <1>1. /\ SubSeq(d, 1, n) \in Seq(S) /\ Len(SubSeq(d, 1, n)) = n
        /\ \A k \in 1 .. n : SubSeq(d, 1, n)[k] = d[k]
    BY SubSeqProperties, LenProperties
  <1> DEFINE e == SubSeq(d, 1, n)
  <1> HIDE DEF e
  <1>2. e \in Seq(S) /\ Len(e) = n /\ Len(a) \in Nat /\ Len(d) \in Nat /\ \A k \in 1 .. n : e[k] = d[k]
    BY <1>1, LenProperties DEF e
  <1>3. Len(a \o e) = Len(a) + n /\ Len(a \o d) = Len(a) + Len(d)
    BY <1>2, ConcatProperties
  <1>4. ASSUME NEW k \in 1 .. Len(a) + n PROVE (a \o e)[k] = (a \o d)[k]
    <2>1. (a \o e)[k] = IF k <= Len(a) THEN a[k] ELSE e[k - Len(a)]
      BY <1>2, ConcatProperties
    <2>2. (a \o d)[k] = IF k <= Len(a) THEN a[k] ELSE d[k - Len(a)]
      BY <1>2, ConcatProperties
    <2> QED
      BY <1>2, <2>1, <2>2
  <1>5. Begins(a \o e, a \o d)
    BY <1>2, <1>3, <1>4 DEF Begins
  <1> QED
    BY <1>1, <1>5 DEF e

LEMMA SplitSeq ==
  ASSUME NEW S, NEW d \in Seq(S), NEW n \in 0 .. Len(d)
  PROVE  /\ SubSeq(d, 1, n) \in Seq(S) /\ SubSeq(d, n + 1, Len(d)) \in Seq(S)
         /\ SubSeq(d, 1, n) \o SubSeq(d, n + 1, Len(d)) = d
  <1>1. Len(d) \in Nat
    BY LenProperties
  <1>2. SubSeq(d, 1, n) \in Seq(S) /\ SubSeq(d, n + 1, Len(d)) \in Seq(S)
    BY <1>1, SubSeqProperties
  <1>3. SubSeq(d, 1, n) \o SubSeq(d, n + 1, Len(d)) = SubSeq(d, 1, Len(d))
    <2>1. 1 \in 1 .. Len(d) + 1 /\ n \in 1 - 1 .. Len(d) /\ Len(d) \in n .. Len(d)
      BY <1>1
    <2> QED
      BY <2>1, ConcatAdjacentSubSeq
  <1>4. SubSeq(d, 1, Len(d)) = d
    BY SubSeqFull
  <1> QED
    BY <1>2, <1>3, <1>4
-----------------------------------------------------------------------------
(***************************************************************************)
(* The operators of bufio.Writer and lz4.Writer.                           *)
(***************************************************************************)
States == [out : BOOLEAN, nil : BOOLEAN, dst : BOOLEAN, buf : Seq(Pieces), err : BOOLEAN,
           cwr : Seq(Pieces), file : Seq(Pieces)]
SameFile(s, t) == t.out = s.out /\ t.nil = s.nil /\ t.dst = s.dst

\* See PathInv.
PathOK(s) ==
  /\ Algo = "none" => s.cwr = <<>>
  /\ Algo = "lz4" /\ s.dst = TRUE => s.err = FALSE

\* t is what s may be after d was put through it: without an error all of it is
\* on its way, after one the file has the beginning; nothing follows an error.
Sends(s, t, d) ==
  /\ t \in States /\ SameFile(s, t) /\ PathOK(t)
  /\ s.dst = FALSE => t.file = s.file
  /\ s.err = TRUE => t.err = TRUE /\ t.file = s.file
  /\ s.dst = TRUE /\ s.err = FALSE =>
       /\ Begins(s.file, t.file)
       /\ Begins(t.file, Stream(s) \o d)
       /\ t.err = FALSE => Stream(t) = Stream(s) \o d

\* A write to the file, if there is one.
FileWrite(s, t, d) ==
  /\ t \in States /\ SameFile(s, t) /\ t.buf = s.buf /\ t.cwr = s.cwr
  /\ s.dst = FALSE => t.file = s.file /\ t.err = TRUE
  /\ s.dst = TRUE => Begins(s.file, t.file) /\ Begins(t.file, s.file \o d)
  /\ s.dst = TRUE /\ t.err = FALSE => t.file = s.file \o d
  /\ s.err = TRUE => t.err = TRUE
  /\ s.dst = TRUE /\ "write" \notin Faults => t.err = s.err

LEMMA ToFileStep ==
  ASSUME NEW s \in States, NEW d \in Seq(Pieces), NEW t \in ToFile(s, d)
  PROVE  FileWrite(s, t, d)
  <1>0. s.file \in Seq(Pieces) /\ s.dst \in BOOLEAN /\ s.err \in BOOLEAN /\ Len(d) \in Nat
    BY LenProperties DEF States
  <1>1. CASE s.dst = FALSE
    <2>1. t = [s EXCEPT !.err = TRUE]
      BY <1>1 DEF ToFile
    <2> QED
      BY <1>1, <2>1 DEF States, SameFile, FileWrite
  <1>2. ASSUME s.dst = TRUE, t = [s EXCEPT !.file = @ \o d]
        PROVE  /\ t \in States /\ SameFile(s, t) /\ t.buf = s.buf /\ t.cwr = s.cwr
               /\ Begins(s.file, t.file) /\ Begins(t.file, s.file \o d)
               /\ t.file = s.file \o d /\ t.err = s.err
    <2>1. s.file \o d \in Seq(Pieces) /\ Begins(s.file, s.file \o d)
      BY <1>0, ConcatProperties, BeginsConcat
    <2>2. t.file = s.file \o d /\ t.err = s.err /\ t \in States /\ SameFile(s, t) /\ t.buf = s.buf
          /\ t.cwr = s.cwr
      BY <1>2, <2>1 DEF States, SameFile
    <2> QED
      BY <2>1, <2>2, BeginsSelf
  <1>3. ASSUME s.dst = TRUE, NEW n \in 0 .. Len(d) - 1,
               t = [s EXCEPT !.file = @ \o SubSeq(d, 1, n), !.err = TRUE]
        PROVE  /\ t \in States /\ SameFile(s, t) /\ t.buf = s.buf /\ t.cwr = s.cwr
               /\ Begins(s.file, t.file) /\ Begins(t.file, s.file \o d) /\ t.err = TRUE
    <2>1. n \in 0 .. Len(d)
      BY <1>0
    <2>2. SubSeq(d, 1, n) \in Seq(Pieces) /\ Begins(s.file \o SubSeq(d, 1, n), s.file \o d)
      BY <1>0, <2>1, BeginsPart
    <2>3. s.file \o SubSeq(d, 1, n) \in Seq(Pieces) /\ Begins(s.file, s.file \o SubSeq(d, 1, n))
      BY <1>0, <2>2, ConcatProperties, BeginsConcat
    <2>4. t.file = s.file \o SubSeq(d, 1, n) /\ t.err = TRUE /\ t \in States /\ SameFile(s, t)
          /\ t.buf = s.buf /\ t.cwr = s.cwr
      BY <1>3, <2>3 DEF States, SameFile
    <2> QED
      BY <2>2, <2>3, <2>4
  <1>4. CASE s.dst = TRUE
    <2>1. \/ t = [s EXCEPT !.file = @ \o d]
          \/ "write" \in Faults /\ \E n \in 0 .. Len(d) - 1 :
                t = [s EXCEPT !.file = @ \o SubSeq(d, 1, n), !.err = TRUE]
      BY <1>4 DEF ToFile
    <2> QED
      BY <1>0, <1>2, <1>3, <1>4, <2>1 DEF FileWrite
  <1> QED
    BY <1>0, <1>1, <1>4

LEMMA ModBound ==
  ASSUME NEW n \in Nat, NEW b \in Nat \ {0}
  PROVE  n % b \in 0 .. n
  <1>1. n % b \in 0 .. b - 1
    BY SMT
  <1>2. CASE n < b
    <2>1. n % b = n
      BY <1>2, SMT
    <2> QED
      BY <2>1
  <1>3. CASE n >= b
    BY <1>1, <1>3
  <1> QED
    BY <1>2, <1>3

\* A write of outBuf, to the file or into the lz4 block.
BufWrite(s, t, d) ==
  /\ t \in States /\ SameFile(s, t) /\ t.buf = s.buf /\ PathOK(t)
  /\ s.dst = FALSE => t.file = s.file /\ t.err = TRUE
  /\ s.dst = TRUE => Begins(s.file, t.file) /\ Begins(t.file, (s.file \o s.cwr) \o d)
  /\ s.dst = TRUE /\ t.err = FALSE => t.file \o t.cwr = (s.file \o s.cwr) \o d

LEMMA ThroughStep ==
  ASSUME NEW s \in States, PathOK(s), s.err = FALSE, NEW d \in Seq(Pieces), NEW t \in Through(s, d)
  PROVE  BufWrite(s, t, d)
  <1>0. s.file \in Seq(Pieces) /\ s.cwr \in Seq(Pieces) /\ s.dst \in BOOLEAN
    BY DEF States
  <1>1. CASE Algo = "none"
    <2>1. t \in ToFile(s, d) /\ s.cwr = <<>>
      BY <1>1 DEF Through, PathOK
    <2>2. s.file \o s.cwr = s.file
      BY <1>0, <2>1, ConcatEmptySeq
    <2>3. FileWrite(s, t, d)
      BY <2>1, ToFileStep
    <2>4. t.file \in Seq(Pieces) /\ t.cwr = <<>>
      BY <2>1, <2>3 DEF States, FileWrite
    <2>5. t.file \o t.cwr = t.file
      BY <2>4, ConcatEmptySeq
    <2>6. PathOK(t)
      BY <1>1, <2>4 DEF PathOK
    <2> QED
      BY <2>2, <2>3, <2>5, <2>6 DEF FileWrite, BufWrite
  <1>2. CASE Algo = "lz4"
    <2>1. PICK all : all = s.cwr \o d
      OBVIOUS
    <2>2. all \in Seq(Pieces) /\ Len(all) \in Nat
      BY <1>0, <2>1, ConcatProperties, LenProperties
    <2>3. PICK k : k = Len(all) - (Len(all) % BlockSize)
      OBVIOUS
    <2>4. k \in 0 .. Len(all)
      <3>1. Len(all) % BlockSize \in 0 .. Len(all)
        BY <2>2, ModBound, SizeAssumption
      <3> QED
        BY <2>2, <2>3, <3>1
    <2>5. PICK a, b : a = SubSeq(all, 1, k) /\ b = SubSeq(all, k + 1, Len(all))
      OBVIOUS
    <2>6. a \in Seq(Pieces) /\ b \in Seq(Pieces) /\ a \o b = all
      BY <2>2, <2>4, <2>5, SplitSeq
    <2>7. PICK u : u = [s EXCEPT !.cwr = b]
      OBVIOUS
    <2>8. t \in ToFile(u, a)
      BY <1>2, <2>1, <2>3, <2>5, <2>7 DEF Through, Compress
    <2>9. /\ u \in States /\ SameFile(s, u) /\ u.buf = s.buf /\ u.file = s.file /\ u.cwr = b
          /\ u.err = s.err /\ u.dst = s.dst
      BY <2>6, <2>7 DEF States, SameFile
    <2>10. FileWrite(u, t, a)
      BY <2>6, <2>8, <2>9, ToFileStep
    <2>11. SameFile(s, t) /\ PathOK(t)
      BY <1>2, <2>9, <2>10, FaultsAssumption DEF SameFile, PathOK, FileWrite
    <2>12. (s.file \o s.cwr) \o d = s.file \o all
      <3>1. (s.file \o s.cwr) \o d = s.file \o (s.cwr \o d)
        BY <1>0, Assoc
      <3> QED
        BY <2>1, <3>1
    <2>13. (s.file \o a) \o b = s.file \o all
      <3>1. (s.file \o a) \o b = s.file \o (a \o b)
        BY <1>0, <2>6, Assoc
      <3> QED
        BY <2>6, <3>1
    <2>14. /\ s.file \o a \in Seq(Pieces) /\ s.file \o all \in Seq(Pieces)
           /\ Begins(s.file \o a, s.file \o all)
      BY <1>0, <2>2, <2>6, <2>13, ConcatProperties, BeginsConcat
    <2>15. ASSUME s.dst = TRUE PROVE Begins(s.file, t.file) /\ Begins(t.file, s.file \o all)
      <3>1. Begins(s.file, t.file) /\ Begins(t.file, s.file \o a) /\ t.file \in Seq(Pieces)
        BY <2>9, <2>10, <2>15 DEF States, FileWrite
      <3> QED
        BY <2>14, <3>1, BeginsTrans
    <2>16. s.dst = TRUE /\ t.err = FALSE => t.file \o t.cwr = s.file \o all
      BY <2>9, <2>10, <2>13 DEF FileWrite
    <2> QED
      BY <2>9, <2>10, <2>11, <2>12, <2>15, <2>16 DEF FileWrite, BufWrite
  <1> QED
    BY <1>1, <1>2, AlgoAssumption

LEMMA StreamFacts ==
  ASSUME NEW s \in States, NEW d \in Seq(Pieces)
  PROVE  /\ s.file \in Seq(Pieces) /\ s.cwr \in Seq(Pieces) /\ s.buf \in Seq(Pieces)
         /\ s.dst \in BOOLEAN /\ s.err \in BOOLEAN
         /\ s.file \o s.cwr \in Seq(Pieces) /\ Stream(s) \in Seq(Pieces)
         /\ Stream(s) \o d \in Seq(Pieces) /\ Stream(s) \o <<>> = Stream(s)
         /\ Begins(s.file, Stream(s)) /\ Begins(s.file, Stream(s) \o d)
  <1>1. s.file \in Seq(Pieces) /\ s.cwr \in Seq(Pieces) /\ s.buf \in Seq(Pieces)
        /\ s.dst \in BOOLEAN /\ s.err \in BOOLEAN
    BY DEF States
  <1>2. s.file \o s.cwr \in Seq(Pieces)
    BY <1>1, ConcatProperties
  <1>3. Stream(s) \in Seq(Pieces)
    BY <1>1, <1>2, ConcatProperties DEF Stream
  <1>4. Stream(s) \o d \in Seq(Pieces) /\ Stream(s) \o <<>> = Stream(s)
    BY <1>3, ConcatProperties, ConcatEmptySeq
  <1>5. Begins(s.file, s.file \o s.cwr) /\ Begins(s.file \o s.cwr, Stream(s))
        /\ Begins(Stream(s), Stream(s) \o d)
    BY <1>1, <1>2, <1>3, BeginsConcat DEF Stream
  <1>6. Begins(s.file, Stream(s))
    BY <1>1, <1>2, <1>3, <1>5, BeginsTrans
  <1>7. Begins(s.file, Stream(s) \o d)
    BY <1>1, <1>3, <1>4, <1>5, <1>6, BeginsTrans
  <1> QED
    BY <1>1, <1>2, <1>3, <1>4, <1>6, <1>7

LEMMA EmptyData == <<>> \in Seq(Pieces)
  OBVIOUS

LEMMA NothingSent ==
  ASSUME NEW s \in States, PathOK(s)
  PROVE  Sends(s, s, <<>>)
  <1>1. /\ Stream(s) \o <<>> = Stream(s) /\ Begins(s.file, Stream(s)) /\ s.file \in Seq(Pieces)
    BY EmptyData, StreamFacts
  <1>2. Begins(s.file, s.file)
    BY <1>1, BeginsSelf
  <1> QED
    BY <1>1, <1>2 DEF Sends, SameFile

LEMMA FlushBufStep ==
  ASSUME NEW s \in States, PathOK(s), NEW t \in FlushBuf(s)
  PROVE  /\ Sends(s, t, <<>>)
         /\ t.err = FALSE => t.buf = <<>> /\ (s.buf = <<>> \/ s.dst = TRUE)
  <1>1. CASE s.err = TRUE \/ s.buf = <<>>
    <2>1. t = s
      BY <1>1 DEF FlushBuf
    <2> QED
      BY <1>1, <2>1, NothingSent
  <1>2. CASE s.err = FALSE /\ s.buf # <<>>
    <2>1. PICK u : u = [s EXCEPT !.buf = <<>>]
      OBVIOUS
    <2>2. t \in Through(u, s.buf)
      BY <1>2, <2>1 DEF FlushBuf
    <2>3. s.buf \in Seq(Pieces) /\ s.dst \in BOOLEAN
      BY DEF States
    <2>4. /\ u \in States /\ SameFile(s, u) /\ u.buf = <<>> /\ u.file = s.file /\ u.cwr = s.cwr
          /\ u.err = FALSE /\ u.dst = s.dst
      BY <1>2, <2>1, EmptyData DEF States, SameFile
    <2>5. PathOK(u)
      BY <2>4 DEF PathOK
    <2>6. BufWrite(u, t, s.buf)
      BY <2>2, <2>3, <2>4, <2>5, ThroughStep
    <2>7. t \in States /\ SameFile(s, t) /\ PathOK(t) /\ t.buf = <<>>
      BY <2>4, <2>6 DEF BufWrite, SameFile
    <2>8. s.dst = FALSE => t.file = s.file /\ t.err = TRUE
      BY <2>4, <2>6 DEF BufWrite
    <2>9. Stream(s) \o <<>> = Stream(s) /\ Stream(s) = (s.file \o s.cwr) \o s.buf
      BY EmptyData, StreamFacts DEF Stream
    <2>10. s.dst = TRUE => Begins(s.file, t.file) /\ Begins(t.file, Stream(s))
      BY <2>4, <2>6, <2>9 DEF BufWrite
    <2>11. s.dst = TRUE /\ t.err = FALSE => Stream(t) = Stream(s)
      <3>1. t.file \o t.cwr \in Seq(Pieces)
        BY <2>7, EmptyData, StreamFacts
      <3>2. Stream(t) = t.file \o t.cwr
        BY <2>7, <3>1, ConcatEmptySeq DEF Stream
      <3> QED
        BY <2>4, <2>6, <2>9, <3>2 DEF BufWrite
    <2>12. Sends(s, t, <<>>)
      BY <1>2, <2>7, <2>8, <2>9, <2>10, <2>11 DEF Sends
    <2> QED
      BY <2>3, <2>7, <2>8, <2>12
  <1>3. s.err \in BOOLEAN
    BY DEF States
  <1> QED
    BY <1>1, <1>2, <1>3

LEMMA FlushCwrStep ==
  ASSUME NEW s \in States, PathOK(s), NEW t \in FlushCwr(s)
  PROVE  Sends(s, t, <<>>)
  <1>1. CASE s.cwr = <<>>
    <2>1. t = s
      BY <1>1 DEF FlushCwr
    <2> QED
      BY <2>1, NothingSent
  <1>2. CASE s.cwr # <<>>
    <2>1. PICK u : u = [s EXCEPT !.cwr = <<>>]
      OBVIOUS
    <2>2. t \in ToFile(u, s.cwr)
      BY <1>2, <2>1 DEF FlushCwr
    <2>3. s.buf \in Seq(Pieces) /\ s.cwr \in Seq(Pieces) /\ s.file \in Seq(Pieces) /\ s.dst \in BOOLEAN
          /\ Algo = "lz4" /\ s.err \in BOOLEAN
      BY <1>2, AlgoAssumption DEF States, PathOK
    <2>4. /\ u \in States /\ SameFile(s, u) /\ u.buf = s.buf /\ u.file = s.file /\ u.cwr = <<>>
          /\ u.err = s.err /\ u.dst = s.dst
      BY <2>1, EmptyData DEF States, SameFile
    <2>5. FileWrite(u, t, s.cwr)
      BY <2>2, <2>3, <2>4, ToFileStep
    <2>6. t \in States /\ SameFile(s, t) /\ t.cwr = <<>> /\ t.buf = s.buf
      BY <2>4, <2>5 DEF FileWrite, SameFile
    <2>7. s.dst = TRUE => s.err = FALSE /\ t.err = FALSE
      BY <2>3, <2>4, <2>5, FaultsAssumption DEF FileWrite, PathOK
    <2>8. PathOK(t)
      BY <2>6, <2>7 DEF PathOK, SameFile
    <2>9. s.err = TRUE => t.err = TRUE
      BY <2>4, <2>5 DEF FileWrite
    <2>10. s.dst = FALSE => t.file = s.file
      BY <2>4, <2>5 DEF FileWrite
    <2>11. Stream(s) \o <<>> = Stream(s) /\ s.file \o s.cwr \in Seq(Pieces)
      BY EmptyData, StreamFacts
    <2>12. ASSUME s.dst = TRUE
           PROVE  Begins(s.file, t.file) /\ t.file = s.file \o s.cwr /\ Stream(t) = Stream(s)
      <3>1. Begins(s.file, t.file) /\ t.file = s.file \o s.cwr
        BY <2>4, <2>5, <2>7, <2>12 DEF FileWrite
      <3>2. t.file \o t.cwr = t.file
        BY <2>6, <2>11, <3>1, ConcatEmptySeq
      <3> QED
        BY <2>6, <3>1, <3>2 DEF Stream
    <2>13. Begins(s.file \o s.cwr, Stream(s))
      BY <2>3, <2>11, BeginsConcat DEF Stream
    <2> QED
      BY <2>3, <2>6, <2>7, <2>8, <2>9, <2>10, <2>11, <2>12, <2>13 DEF Sends
  <1> QED
    BY <1>1, <1>2

\* One after the other.
LEMMA SendsThen ==
  ASSUME NEW s \in States, NEW d \in Seq(Pieces), NEW t, NEW u, Sends(s, t, d), Sends(t, u, <<>>)
  PROVE  Sends(s, u, d)
  <1>1. t \in States /\ u \in States
    BY DEF Sends
  <1>2. s.file \in Seq(Pieces) /\ t.file \in Seq(Pieces) /\ u.file \in Seq(Pieces)
        /\ t.err \in BOOLEAN /\ s.dst \in BOOLEAN /\ Stream(t) \o <<>> = Stream(t)
    BY <1>1, EmptyData, StreamFacts
  <1>3. SameFile(s, u) /\ PathOK(u) /\ t.dst = s.dst
    BY DEF Sends, SameFile
  <1>4. s.dst = FALSE => u.file = s.file
    BY <1>3 DEF Sends
  <1>5. s.err = TRUE => u.err = TRUE /\ u.file = s.file
    BY DEF Sends
  <1>6. ASSUME s.dst = TRUE, s.err = FALSE
        PROVE  /\ Begins(s.file, u.file) /\ Begins(u.file, Stream(s) \o d)
               /\ u.err = FALSE => Stream(u) = Stream(s) \o d
    <2>1. /\ Begins(s.file, t.file) /\ Begins(t.file, Stream(s) \o d)
          /\ t.err = FALSE => Stream(t) = Stream(s) \o d
      BY <1>6 DEF Sends
    <2>2. CASE t.err = TRUE
      BY <2>1, <2>2 DEF Sends
    <2>3. CASE t.err = FALSE
      <3>1. /\ Begins(t.file, u.file) /\ Begins(u.file, Stream(t))
            /\ u.err = FALSE => Stream(u) = Stream(t)
        BY <1>2, <1>3, <1>6, <2>3 DEF Sends
      <3>2. Begins(s.file, u.file)
        BY <1>2, <2>1, <3>1, BeginsTrans
      <3> QED
        BY <2>1, <2>3, <3>1, <3>2
    <2> QED
      BY <1>2, <2>2, <2>3
  <1> QED
    BY <1>1, <1>3, <1>4, <1>5, <1>6 DEF Sends

LEMMA FlushBothStep ==
  ASSUME NEW s \in States, PathOK(s), NEW t \in FlushBoth(s)
  PROVE  Sends(s, t, <<>>)
  <1>1. PICK u \in FlushBuf(s) : t \in FlushCwr(u)
    BY DEF FlushBoth
  <1>2. Sends(s, u, <<>>)
    BY FlushBufStep
  <1>3. u \in States /\ PathOK(u)
    BY <1>2 DEF Sends
  <1>4. Sends(u, t, <<>>)
    BY <1>1, <1>3, FlushCwrStep
  <1> QED
    BY <1>2, <1>4, EmptyData, SendsThen

LEMMA WriteBufStep ==
  ASSUME NEW s \in States, PathOK(s), NEW d \in Seq(Pieces), d # <<>>, NEW t \in WriteBuf(s, d)
  PROVE  /\ Sends(s, t, d)
         /\ t.err = FALSE => t.buf # <<>> \/ s.dst = TRUE
  <1>0. s.file \in Seq(Pieces) /\ s.cwr \in Seq(Pieces) /\ s.buf \in Seq(Pieces) /\ s.dst \in BOOLEAN
        /\ s.err \in BOOLEAN /\ s.file \o s.cwr \in Seq(Pieces)
    BY StreamFacts
  <1>1. PICK all : all = s.buf \o d
    OBVIOUS
  <1>2. all \in Seq(Pieces) /\ Len(all) \in Nat /\ all # <<>>
    <2>1. all \in Seq(Pieces) /\ Len(all) = Len(s.buf) + Len(d)
      BY <1>0, <1>1, ConcatProperties
    <2>2. Len(s.buf) \in Nat /\ Len(d) \in Nat /\ Len(d) # 0
      BY <1>0, LenProperties, EmptySeq
    <2> QED
      BY <2>1, <2>2
  <1>3. Stream(s) \o d = (s.file \o s.cwr) \o all
    <2>1. ((s.file \o s.cwr) \o s.buf) \o d = (s.file \o s.cwr) \o (s.buf \o d)
      BY <1>0, Assoc
    <2> QED
      BY <1>1, <2>1 DEF Stream
  <1>4. CASE s.err = TRUE
    <2>1. t = s
      BY <1>4 DEF WriteBuf
    <2> QED
      BY <1>4, <2>1 DEF Sends, SameFile
  <1>5. CASE s.err = FALSE /\ Len(all) <= BufSize
    <2>1. t = [s EXCEPT !.buf = all]
      BY <1>1, <1>5 DEF WriteBuf
    <2>2. t \in States /\ SameFile(s, t) /\ t.file = s.file /\ t.cwr = s.cwr /\ t.buf = all
          /\ t.err = s.err /\ t.dst = s.dst
      BY <1>2, <2>1 DEF States, SameFile
    <2>3. PathOK(t)
      BY <2>2 DEF PathOK
    <2>4. Stream(t) = Stream(s) \o d
      BY <1>3, <2>2 DEF Stream
    <2>5. Begins(s.file, s.file) /\ Begins(s.file, Stream(s) \o d)
      BY <1>0, BeginsSelf, StreamFacts
    <2> QED
      BY <1>2, <1>5, <2>2, <2>3, <2>4, <2>5 DEF Sends
  <1>6. CASE s.err = FALSE /\ ~(Len(all) <= BufSize)
    <2>1. PICK a, b : a = SubSeq(all, 1, BufSize) /\ b = SubSeq(all, BufSize + 1, Len(all))
      OBVIOUS
    <2>2. BufSize \in 0 .. Len(all)
      BY <1>2, <1>6, SizeAssumption
    <2>3. a \in Seq(Pieces) /\ b \in Seq(Pieces) /\ a \o b = all
      BY <1>2, <2>1, <2>2, SplitSeq
    <2>4. PICK u : u = [s EXCEPT !.buf = <<>>]
      OBVIOUS
    <2>5. PICK v \in Through(u, a) : t = [v EXCEPT !.buf = b]
      BY <1>1, <1>6, <2>1, <2>4 DEF WriteBuf
    <2>6. /\ u \in States /\ SameFile(s, u) /\ u.file = s.file /\ u.cwr = s.cwr
          /\ u.err = FALSE /\ u.dst = s.dst
      BY <1>6, <2>4, EmptyData DEF States, SameFile
    <2>7. PathOK(u)
      BY <2>6 DEF PathOK
    <2>8. BufWrite(u, v, a)
      BY <2>3, <2>5, <2>6, <2>7, ThroughStep
    <2>9. v \in States /\ PathOK(v) /\ SameFile(s, v)
      BY <2>6, <2>8 DEF BufWrite, SameFile
    <2>10. t \in States /\ t.file = v.file /\ t.cwr = v.cwr /\ t.buf = b /\ t.err = v.err
           /\ t.dst = v.dst /\ SameFile(s, t)
      BY <2>3, <2>5, <2>9 DEF States, SameFile
    <2>11. PathOK(t)
      BY <2>9, <2>10 DEF PathOK
    <2>12. s.dst = FALSE => t.file = s.file /\ t.err = TRUE
      BY <2>6, <2>8, <2>10 DEF BufWrite
    <2>13. PICK base : base = s.file \o s.cwr
      OBVIOUS
    <2>14. base \in Seq(Pieces) /\ base \o a \in Seq(Pieces) /\ base \o all \in Seq(Pieces)
      BY <1>0, <1>2, <2>3, <2>13, ConcatProperties
    <2>15. (base \o a) \o b = base \o all
      <3>1. a \in Seq(Pieces) /\ b \in Seq(Pieces) /\ base \in Seq(Pieces)
        BY <2>3, <2>14
      <3>2. (base \o a) \o b = base \o (a \o b)
        BY <3>1, Assoc
      <3> QED
        BY <2>3, <3>2
    <2>16. Begins(base \o a, base \o all)
      BY <2>3, <2>14, <2>15, BeginsConcat
    <2>17. ASSUME s.dst = TRUE
           PROVE  /\ Begins(s.file, t.file) /\ Begins(t.file, base \o all)
                  /\ t.err = FALSE => Stream(t) = base \o all
      <3>1. Begins(s.file, t.file) /\ Begins(t.file, base \o a) /\ t.file \in Seq(Pieces)
        BY <2>6, <2>8, <2>10, <2>13, <2>17 DEF BufWrite, States
      <3>2. Begins(t.file, base \o all)
        BY <2>14, <2>16, <3>1, BeginsTrans
      <3>3. t.err = FALSE => t.file \o t.cwr = base \o a
        BY <2>6, <2>8, <2>10, <2>13, <2>17 DEF BufWrite
      <3> QED
        BY <2>10, <2>15, <3>1, <3>2, <3>3 DEF Stream
    <2>18. Sends(s, t, d)
      BY <1>3, <1>6, <2>10, <2>11, <2>12, <2>13, <2>17 DEF Sends
    <2> QED
      BY <1>0, <2>12, <2>18
  <1> QED
    BY <1>0, <1>4, <1>5, <1>6

LEMMA BodyFacts ==
  ASSUME NEW m \in Messages
  PROVE  /\ Body(m) \in Seq(Pieces) /\ Body(m) # <<>> /\ Len(Body(m)) = 2
         /\ Body(m)[1] = <<m, 1>> /\ Body(m)[2] = <<m, 2>>
  BY DEF Body, Pieces

\* What Writer.worker does with a buffer; when it has to be confirmed and there
\* was no error, everything is in the file.
LEMMA WriteMessageStep ==
  ASSUME NEW s \in States, PathOK(s), NEW m \in Messages, NEW sync \in BOOLEAN,
         NEW t \in WriteMessage(s, m, sync)
  PROVE  /\ Sends(s, t, Body(m))
         /\ sync = TRUE /\ t.err = FALSE => s.dst = TRUE /\ t.buf = <<>>
  <1>1. PICK u \in WriteBuf(s, Body(m)) : t \in IF sync THEN FlushBuf(u) ELSE {u}
    BY DEF WriteMessage
  <1>2. /\ Sends(s, u, Body(m))
        /\ u.err = FALSE => u.buf # <<>> \/ s.dst = TRUE
    BY BodyFacts, WriteBufStep
  <1>3. u \in States /\ PathOK(u) /\ u.dst = s.dst /\ u.err \in BOOLEAN
    BY <1>2 DEF Sends, SameFile, States
  <1>4. CASE sync = FALSE
    <2>1. t = u
      BY <1>1, <1>4
    <2> QED
      BY <1>2, <1>4, <2>1
  <1>5. CASE sync = TRUE
    <2>1. t \in FlushBuf(u)
      BY <1>1, <1>5
    <2>2. /\ Sends(u, t, <<>>)
          /\ t.err = FALSE => t.buf = <<>> /\ (u.buf = <<>> \/ u.dst = TRUE)
      BY <1>3, <2>1, FlushBufStep
    <2>3. u.err = TRUE => t.err = TRUE
      BY <2>2 DEF Sends
    <2>4. Sends(s, t, Body(m))
      BY <1>2, <2>2, BodyFacts, SendsThen
    <2> QED
      BY <1>2, <1>3, <2>2, <2>3, <2>4
  <1> QED
    BY <1>4, <1>5
-----------------------------------------------------------------------------
(***************************************************************************)
(* The calls of Store and StoreSync.                                       *)
(***************************************************************************)
\* c became e; the worker took a buffer or did not.
CallStep(r, c, e) ==
  /\ e \in Calls /\ CallOK(r, e)
  /\ e.n \in {c.n, c.n + 1}
  /\ e.failed = FALSE => c.failed = FALSE

LEMMA GetBufferStep ==
  ASSUME NEW r, NEW c \in Calls, c.n = c.i, c.i < MaxBufs, c.wg = 0
  PROVE  CallStep(r, c, GetBuffer(r, c))
  BY BoundsAssumption DEF GetBuffer, CallStep, Calls, CallOK

LEMMA TakenStep ==
  ASSUME NEW r, NEW c \in Calls, CallOK(r, c), c.pc \in {"send", "last"}, NEW failed \in BOOLEAN
  PROVE  LET e == AfterSend(r, Confirmed(r, c, failed)) IN
         /\ CallStep(r, c, e) /\ e.n = c.n + 1
         /\ r \in Sync /\ e.failed = FALSE => failed = FALSE
  <1>0. PICK e : e = Confirmed(r, c, failed)
    OBVIOUS
  <1>1. c.i \in 0 .. MaxBufs /\ c.n \in 0 .. MaxBufs /\ c.wg \in 0 .. MaxBufs /\ c.failed \in BOOLEAN
        /\ c.n + 1 = c.i /\ c.wg = IF r \in Sync THEN 1 ELSE 0
    BY DEF Calls, CallOK
  <1>2. CASE r \in Sync
    <2>1. e = [c EXCEPT !.n = @ + 1, !.wg = @ - 1, !.failed = @ \/ failed]
      BY <1>0, <1>2 DEF Confirmed
    <2>2. e.pc = c.pc /\ e.i = c.i /\ e.n = c.n + 1 /\ e.wg = 0 /\ e.failed = (c.failed \/ failed)
      BY <1>1, <1>2, <2>1 DEF Calls
    <2>3. e \in Calls
      <3>1. PICK x : x = (c.failed \/ failed)
        OBVIOUS
      <3>2. x \in BOOLEAN /\ e = [c EXCEPT !.n = @ + 1, !.wg = @ - 1, !.failed = x]
        BY <1>1, <2>1, <3>1
      <3>3. c.n + 1 \in 0 .. MaxBufs /\ c.wg - 1 \in 0 .. MaxBufs
        BY <1>1, <1>2, BoundsAssumption
      <3> QED
        BY <3>2, <3>3 DEF Calls
    <2>4. e.failed = FALSE => c.failed = FALSE /\ failed = FALSE
      BY <1>1, <2>2
    <2>5. CASE c.pc = "send"
      <3>1. CallStep(r, e, GetBuffer(r, e))
        BY <1>1, <2>2, <2>3, <2>5, GetBufferStep DEF CallOK
      <3>2. AfterSend(r, e) = GetBuffer(r, e)
        BY <2>2, <2>5 DEF AfterSend
      <3>3. GetBuffer(r, e).n = e.n /\ GetBuffer(r, e).failed = e.failed
        BY DEF GetBuffer
      <3> QED
        BY <1>0, <2>2, <2>4, <3>1, <3>2, <3>3 DEF CallStep
    <2>6. CASE c.pc = "last"
      <3>1. PICK g : g = AfterSend(r, e)
        OBVIOUS
      <3>2. g = [e EXCEPT !.pc = "wait"]
        BY <1>2, <2>2, <2>6, <3>1 DEF AfterSend
      <3>3. g \in Calls /\ g.pc = "wait" /\ g.i = e.i /\ g.n = e.n /\ g.failed = e.failed
        BY <2>3, <3>2 DEF Calls
      <3>4. CallOK(r, g)
        BY <1>1, <2>2, <3>3 DEF CallOK
      <3> QED
        BY <1>0, <2>2, <2>4, <3>1, <3>3, <3>4 DEF CallStep
    <2> QED
      BY <2>5, <2>6
  <1>3. CASE r \notin Sync
    <2>1. e = [c EXCEPT !.n = @ + 1]
      BY <1>0, <1>3 DEF Confirmed
    <2>2. e.pc = c.pc /\ e.i = c.i /\ e.n = c.n + 1 /\ e.wg = 0 /\ e.failed = c.failed
      BY <1>1, <1>3, <2>1 DEF Calls
    <2>3. e \in Calls
      BY <1>1, <1>3, <2>1, BoundsAssumption DEF Calls
    <2>5. CASE c.pc = "send"
      <3>1. CallStep(r, e, GetBuffer(r, e))
        BY <1>1, <2>2, <2>3, <2>5, GetBufferStep DEF CallOK
      <3>2. AfterSend(r, e) = GetBuffer(r, e)
        BY <2>2, <2>5 DEF AfterSend
      <3>3. GetBuffer(r, e).n = e.n /\ GetBuffer(r, e).failed = e.failed
        BY DEF GetBuffer
      <3> QED
        BY <1>0, <1>3, <2>2, <3>1, <3>2, <3>3 DEF CallStep
    <2>6. CASE c.pc = "last"
      <3>1. PICK g : g = AfterSend(r, e)
        OBVIOUS
      <3>2. g = [e EXCEPT !.pc = "ok"]
        BY <1>3, <2>2, <2>6, <3>1 DEF AfterSend
      <3>3. g \in Calls /\ g.pc = "ok" /\ g.i = e.i /\ g.n = e.n /\ g.failed = e.failed
        BY <2>3, <3>2 DEF Calls
      <3>4. CallOK(r, g)
        BY <1>1, <1>3, <2>2, <3>3 DEF CallOK
      <3> QED
        BY <1>0, <1>3, <2>2, <3>1, <3>3, <3>4 DEF CallStep
    <2> QED
      BY <2>5, <2>6
  <1> QED
    BY <1>2, <1>3

\* What the process leaves of a call when it dies.
LEMMA DeadCallStep ==
  ASSUME NEW r, NEW c \in Calls, CallOK(r, c), NEW e, e = c \/ e = [c EXCEPT !.pc = "error"]
  PROVE  CallStep(r, c, e) /\ e.n = c.n
  BY DEF CallStep, CallOK, Calls

LEMMA StoreStep ==
  ASSUME TypeOK, CallInv, NEW r \in Requests, Store(r)
  PROVE  \E e : req' = [req EXCEPT ![r] = e] /\ CallStep(r, req[r], e) /\ e.n = req[r].n
  <1>0. PICK c : c = req[r]
    OBVIOUS
  <1>1. c \in Calls /\ CallOK(r, c) /\ req \in [Requests -> Calls]
    BY <1>0 DEF TypeOK, CallInv
  <1>2. CASE StoreBegin(r)
    <2>1. req' = [req EXCEPT ![r] = GetBuffer(r, c)] /\ c.pc = "new"
      BY <1>0, <1>2 DEF StoreBegin
    <2>2. CallStep(r, c, GetBuffer(r, c))
      BY <1>1, <2>1, GetBufferStep, BoundsAssumption DEF CallOK
    <2>3. GetBuffer(r, c).n = c.n
      BY DEF GetBuffer
    <2> QED
      BY <1>0, <2>1, <2>2, <2>3
  <1>3. ASSUME NEW pc, req' = Unchanged(r, pc), CallStep(r, c, [c EXCEPT !.pc = pc])
        PROVE  \E e : req' = [req EXCEPT ![r] = e] /\ CallStep(r, req[r], e) /\ e.n = req[r].n
    <2>1. req' = [req EXCEPT ![r] = [c EXCEPT !.pc = pc]]
      BY <1>0, <1>1, <1>3 DEF Unchanged
    <2>2. [c EXCEPT !.pc = pc].n = c.n
      BY <1>1 DEF Calls
    <2> QED
      BY <1>0, <1>3, <2>1, <2>2
  <1>4. CASE StoreFilled(r)
    <2>1. PICK pc \in {"send", "last"} : (pc = "send" => c.i < MaxBufs) /\ req' = Unchanged(r, pc)
      BY <1>0, <1>4 DEF StoreFilled
    <2>2. c.pc = "fill"
      BY <1>0, <1>4 DEF StoreFilled
    <2>3. CallStep(r, c, [c EXCEPT !.pc = pc])
      BY <1>1, <2>1, <2>2 DEF CallStep, CallOK, Calls
    <2> QED
      BY <1>3, <2>1, <2>3
  <1>5. CASE StoreEmpty(r)
    <2>1. c.pc = "fill" /\ r \in Dropped /\ req' = Unchanged(r, IF r \in Sync THEN "wait" ELSE "ok")
      BY <1>0, <1>5 DEF StoreEmpty
    <2>2. CallStep(r, c, [c EXCEPT !.pc = IF r \in Sync THEN "wait" ELSE "ok"])
      BY <1>1, <2>1 DEF CallStep, CallOK, Calls
    <2> QED
      BY <1>3, <2>1, <2>2
  <1>6. CASE StoreCancelled(r)
    <2>1. req' = Unchanged(r, "error") /\ CallStep(r, c, [c EXCEPT !.pc = "error"])
      BY <1>1, <1>6, DeadCallStep DEF StoreCancelled
    <2> QED
      BY <1>3, <2>1
  <1>7. CASE StoreReturn(r)
    <2>1. c.pc = "wait" /\ req' = Unchanged(r, IF c.failed THEN "error" ELSE "ok")
      BY <1>0, <1>7 DEF StoreReturn
    <2>2. CallStep(r, c, [c EXCEPT !.pc = IF c.failed THEN "error" ELSE "ok"])
      BY <1>1, <2>1 DEF CallStep, CallOK, Calls
    <2> QED
      BY <1>3, <2>1, <2>2
  <1> QED
    BY <1>2, <1>4, <1>5, <1>6, <1>7 DEF Store
-----------------------------------------------------------------------------
(***************************************************************************)
(* Clean files stay clean when they are cut off and when a new buffer is   *)
(* put at the end of one.                                                  *)
(***************************************************************************)
\* The pieces of a call that took no buffer, or one more.
LEMMA TakenGrows ==
  ASSUME NEW d \in Seq(Pieces), NEW q \in [Requests -> Calls], NEW e \in [Requests -> Calls],
         Taken(d, q), \A r \in Requests : q[r].n <= e[r].n
  PROVE  Taken(d, e)
  <1> SUFFICES ASSUME NEW k \in 1 .. Len(d) PROVE d[k][1][2] <= e[d[k][1][1]].n
    BY DEF Taken
  <1>1. PICK p : p = d[k]
    OBVIOUS
  <1>2. p \in Pieces /\ p[1][2] <= q[p[1][1]].n
    BY <1>1, ElementOfSeq DEF Taken
  <1>3. p[1][1] \in Requests /\ p[1][2] \in Nat
    BY <1>2, BoundsAssumption DEF Pieces, Messages
  <1>4. q[p[1][1]].n \in Nat /\ e[p[1][1]].n \in Nat /\ q[p[1][1]].n <= e[p[1][1]].n
    BY <1>3, BoundsAssumption DEF Calls
  <1> QED
    BY <1>1, <1>2, <1>3, <1>4

LEMMA BeginningIsWhole ==
  ASSUME NEW c \in Seq(Pieces), NEW d \in Seq(Pieces), Begins(d, c), Whole(c), Distinct(c), NEW q,
         Taken(c, q)
  PROVE  Whole(d) /\ Distinct(d) /\ Taken(d, q)
  <1>1. PICK n : n = Len(d)
    OBVIOUS
  <1>2. n \in Nat /\ \A k \in 1 .. n : k \in 1 .. Len(c) /\ d[k] = c[k]
    BY <1>1, LenProperties DEF Begins
  <1>3. ASSUME NEW k \in 1 .. n
        PROVE  /\ k % 2 = 1 => d[k][2] = 1
               /\ k % 2 = 0 => d[k] = <<d[k - 1][1], 2>>
    <2>1. /\ k % 2 = 1 => c[k][2] = 1
          /\ k % 2 = 0 => c[k] = <<c[k - 1][1], 2>>
      BY <1>2 DEF Whole
    <2>2. k % 2 = 0 => k - 1 \in 1 .. n
      BY <1>2
    <2>3. d[k] = c[k] /\ (k % 2 = 0 => d[k - 1] = c[k - 1])
      BY <1>2, <2>2
    <2> QED
      BY <2>1, <2>3
  <1>4. Whole(d)
    BY <1>1, <1>3 DEF Whole
  <1>5. Distinct(d)
    BY <1>1, <1>2 DEF Distinct
  <1>6. Taken(d, q)
    BY <1>1, <1>2 DEF Taken
  <1> QED
    BY <1>4, <1>5, <1>6

LEMMA CutIsClean ==
  ASSUME NEW C, NEW D, NEW q \in [Requests -> Calls], NEW e \in [Requests -> Calls],
         Clean(C, q), \A r \in Requests : q[r].n <= e[r].n,
         \A f \in Files : D[f] \in Seq(Pieces) /\ Begins(D[f], C[f])
  PROVE  Clean(D, e)
  <1>1. ASSUME NEW f \in Files
        PROVE  D[f] \in Seq(Pieces) /\ Whole(D[f]) /\ Distinct(D[f]) /\ Taken(D[f], e)
    <2>1. C[f] \in Seq(Pieces) /\ Whole(C[f]) /\ Distinct(C[f]) /\ Taken(C[f], q)
      BY DEF Clean
    <2>2. Whole(D[f]) /\ Distinct(D[f]) /\ Taken(D[f], q)
      BY <2>1, BeginningIsWhole
    <2> QED
      BY <2>2, TakenGrows
  <1>2. ASSUME NEW f \in Files PROVE \A k \in 1 .. Len(D[f]) : k \in 1 .. Len(C[f]) /\ D[f][k] = C[f][k]
    <2>1. PICK c, d : c = C[f] /\ d = D[f]
      OBVIOUS
    <2>2. c \in Seq(Pieces) /\ d \in Seq(Pieces) /\ Begins(d, c)
      BY <2>1 DEF Clean
    <2>3. \A k \in 1 .. Len(d) : k \in 1 .. Len(c) /\ d[k] = c[k]
      BY <2>2, LenProperties DEF Begins
    <2> QED
      BY <2>1, <2>3
  <1>3. ASSUME NEW f \in Files, NEW g \in Files, f # g PROVE Disjoint(D[f], D[g])
    <2>1. Disjoint(C[f], C[g])
      BY <1>3 DEF Clean
    <2> SUFFICES ASSUME NEW j \in 1 .. Len(D[f]), NEW k \in 1 .. Len(D[g]) PROVE D[f][j] # D[g][k]
      BY DEF Disjoint
    <2>2. j \in 1 .. Len(C[f]) /\ D[f][j] = C[f][j] /\ k \in 1 .. Len(C[g]) /\ D[g][k] = C[g][k]
      BY <1>2
    <2> QED
      BY <2>1, <2>2 DEF Disjoint
  <1> QED
    BY <1>1, <1>3 DEF Clean

\* d is c with the two pieces of m at its end.
Extended(d, c, m) ==
  /\ d \in Seq(Pieces) /\ Len(d) = Len(c) + 2
  /\ d[Len(c) + 1] = <<m, 1>> /\ d[Len(c) + 2] = <<m, 2>>
  /\ \A k \in 1 .. Len(c) : d[k] = c[k]

LEMMA BodyExtends ==
  ASSUME NEW c \in Seq(Pieces), NEW m \in Messages
  PROVE  Extended(c \o Body(m), c, m)
  <1>1. PICK e : e = Body(m)
    OBVIOUS
  <1>2. e \in Seq(Pieces) /\ Len(e) = 2 /\ e[1] = <<m, 1>> /\ e[2] = <<m, 2>>
    BY <1>1, BodyFacts, Zenon
  <1>3. PICK d : d = c \o e
    OBVIOUS
  <1>4. /\ d \in Seq(Pieces) /\ Len(d) = Len(c) + Len(e)
        /\ \A k \in 1 .. Len(c) + Len(e) : d[k] = IF k <= Len(c) THEN c[k] ELSE e[k - Len(c)]
    BY <1>2, <1>3, ConcatProperties
  <1>5. Extended(d, c, m)
    <2>1. Len(c) \in Nat
      BY LenProperties
    <2>2. d[Len(c) + 1] = e[1] /\ d[Len(c) + 2] = e[2] /\ Len(d) = Len(c) + 2
      BY <1>2, <1>4, <2>1
    <2>3. \A k \in 1 .. Len(c) : d[k] = c[k]
      BY <1>2, <1>4, <2>1
    <2> QED
      BY <1>2, <1>4, <2>2, <2>3, Zenon DEF Extended
  <1> QED
    BY <1>1, <1>3, <1>5, Zenon

LEMMA ExtendedIsWhole ==
  ASSUME NEW c \in Seq(Pieces), NEW m \in Messages, NEW d, Extended(d, c, m), Len(c) % 2 = 0,
         Whole(c), Distinct(c), \A k \in 1 .. Len(c) : c[k][1] # m
  PROVE  Whole(d) /\ Distinct(d) /\ Len(d) % 2 = 0
  <1>1. PICK n : n = Len(c)
    OBVIOUS
  <1>2. n \in Nat /\ n % 2 = 0
    BY <1>1, LenProperties
  <1>3. /\ Len(d) = n + 2
        /\ d[n + 1] = <<m, 1>> /\ d[n + 2] = <<m, 2>>
        /\ \A k \in 1 .. n : d[k] = c[k]
        /\ \A k \in 1 .. n : c[k][1] # m
    BY <1>1 DEF Extended
  <1>4. ASSUME NEW k \in 1 .. n + 2
        PROVE  /\ k % 2 = 1 => d[k][2] = 1
               /\ k % 2 = 0 => d[k] = <<d[k - 1][1], 2>>
    <2>1. CASE k \in 1 .. n
      <3>1. k % 2 = 0 => k - 1 \in 1 .. n
        BY <1>2, <2>1
      <3>2. /\ k % 2 = 1 => c[k][2] = 1
            /\ k % 2 = 0 => c[k] = <<c[k - 1][1], 2>>
        BY <1>1, <2>1 DEF Whole
      <3>3. d[k] = c[k] /\ (k % 2 = 0 => d[k - 1] = c[k - 1])
        BY <1>3, <2>1, <3>1
      <3> QED
        BY <3>2, <3>3
    <2>2. CASE k = n + 1
      <3>1. k % 2 = 1
        BY <1>2, <2>2
      <3> QED
        BY <1>3, <2>2, <3>1
    <2>3. CASE k = n + 2
      <3>1. k % 2 = 0 /\ k - 1 = n + 1
        BY <1>2, <2>3
      <3> QED
        BY <1>3, <2>3, <3>1
    <2> QED
      BY <1>2, <2>1, <2>2, <2>3
  <1>5. ASSUME NEW j \in 1 .. n + 2, NEW k \in 1 .. n + 2, j < k PROVE d[j] # d[k]
    <2>1. CASE k \in 1 .. n
      <3>1. j \in 1 .. n /\ j # k
        BY <1>2, <1>5, <2>1
      <3> QED
        BY <1>1, <1>3, <2>1, <3>1 DEF Distinct
    <2>2. CASE j \in 1 .. n /\ k \in {n + 1, n + 2}
      <3>1. d[j][1] # m /\ d[k][1] = m
        BY <1>3, <2>2
      <3> QED
        BY <3>1
    <2>3. CASE j = n + 1 /\ k = n + 2
      BY <1>3, <2>3
    <2> QED
      BY <1>2, <1>5, <2>1, <2>2, <2>3
  <1>6. Whole(d)
    BY <1>3, <1>4 DEF Whole
  <1>7. Distinct(d)
    <2> SUFFICES ASSUME NEW j \in 1 .. n + 2, NEW k \in 1 .. n + 2, d[j] = d[k] PROVE j = k
      BY <1>3 DEF Distinct
    <2> QED
      BY <1>2, <1>5
  <1>8. Len(d) % 2 = 0
    BY <1>2, <1>3
  <1> QED
    BY <1>6, <1>7, <1>8

\* The calls q become e when m is taken from them, and C becomes D: m is put at
\* the end of the file x.
Appended(C, D, q, e, m, x) ==
  /\ Clean(C, q) /\ Len(C[x]) % 2 = 0
  /\ m[2] = q[m[1]].n + 1 /\ m[2] <= e[m[1]].n
  /\ \A r \in Requests : q[r].n <= e[r].n
  /\ Extended(D[x], C[x], m) /\ \A f \in Files \ {x} : D[f] = C[f]

LEMMA NextIsClean ==
  ASSUME NEW C, NEW D, NEW q \in [Requests -> Calls], NEW e \in [Requests -> Calls],
         NEW m \in Messages, NEW x \in Files, Appended(C, D, q, e, m, x)
  PROVE  Clean(D, e) /\ Len(D[x]) % 2 = 0
  <1> USE DEF Appended
  <1>0. PICK c, d : c = C[x] /\ d = D[x]
    OBVIOUS
  <1>1. /\ c \in Seq(Pieces) /\ Whole(c) /\ Distinct(c) /\ Taken(c, q) /\ Len(c) % 2 = 0
        /\ Extended(d, c, m) /\ Len(c) \in Nat
    BY <1>0, LenProperties DEF Clean
  <1>2. ASSUME NEW f \in Files, NEW k \in 1 .. Len(C[f]) PROVE C[f][k][1] # m
    <2>1. C[f] \in Seq(Pieces) /\ Taken(C[f], q)
      BY DEF Clean
    <2>2. C[f][k][1][2] <= q[C[f][k][1][1]].n
      BY <2>1 DEF Taken
    <2>3. m[1] \in Requests /\ q[m[1]].n \in Nat
      BY BoundsAssumption DEF Messages, Calls
    <2>4. ~(m[2] <= q[m[1]].n)
      BY <2>3
    <2> QED
      BY <2>2, <2>4
  <1>3. Whole(d) /\ Distinct(d) /\ Len(d) % 2 = 0
    BY <1>0, <1>1, <1>2, ExtendedIsWhole
  <1>4. /\ d \in Seq(Pieces) /\ Len(d) = Len(c) + 2
        /\ \A k \in 1 .. Len(d) : (k \in 1 .. Len(c) /\ d[k] = c[k]) \/ d[k][1] = m
    BY <1>1 DEF Extended
  <1>5. Taken(d, e)
    <2>1. Taken(c, e)
      BY <1>1, TakenGrows
    <2> SUFFICES ASSUME NEW k \in 1 .. Len(d) PROVE d[k][1][2] <= e[d[k][1][1]].n
      BY DEF Taken
    <2>2. CASE k \in 1 .. Len(c) /\ d[k] = c[k]
      BY <2>1, <2>2 DEF Taken
    <2>3. CASE d[k][1] = m
      BY <2>3
    <2> QED
      BY <1>4, <2>2, <2>3
  <1>6. ASSUME NEW g \in Files, g # x PROVE Disjoint(d, C[g]) /\ Disjoint(C[g], d)
    <2>1. ASSUME NEW k \in 1 .. Len(d), NEW j \in 1 .. Len(C[g]) PROVE d[k] # C[g][j]
      <3>1. CASE k \in 1 .. Len(c) /\ d[k] = c[k]
        <4>1. Disjoint(c, C[g])
          BY <1>0, <1>6 DEF Clean
        <4> QED
          BY <3>1, <4>1 DEF Disjoint
      <3>2. CASE d[k][1] = m
        BY <1>2, <3>2
      <3> QED
        BY <1>4, <3>1, <3>2
    <2> QED
      BY <2>1 DEF Disjoint
  <1>7. ASSUME NEW f \in Files
        PROVE  D[f] \in Seq(Pieces) /\ Whole(D[f]) /\ Distinct(D[f]) /\ Taken(D[f], e)
    <2>1. CASE f = x
      BY <1>0, <1>3, <1>4, <1>5, <2>1
    <2>2. CASE f # x
      <3>1. C[f] \in Seq(Pieces) /\ Whole(C[f]) /\ Distinct(C[f]) /\ Taken(C[f], q) /\ D[f] = C[f]
        BY <2>2 DEF Clean
      <3>2. Taken(C[f], e)
        BY <3>1, TakenGrows
      <3> QED
        BY <3>1, <3>2
    <2> QED
      BY <2>1, <2>2
  <1>8. ASSUME NEW f \in Files, NEW g \in Files, f # g PROVE Disjoint(D[f], D[g])
    <2>1. CASE f # x /\ g # x
      BY <1>8, <2>1 DEF Clean
    <2>2. CASE f = x
      <3>1. D[f] = d /\ D[g] = C[g] /\ g # x
        BY <1>0, <1>8, <2>2
      <3> QED
        BY <1>6, <3>1
    <2>3. CASE g = x
      <3>1. D[g] = d /\ D[f] = C[f] /\ f # x
        BY <1>0, <1>8, <2>3
      <3> QED
        BY <1>6, <3>1
    <2> QED
      BY <2>1, <2>2, <2>3
  <1> QED
    BY <1>0, <1>3, <1>7, <1>8 DEF Clean
-----------------------------------------------------------------------------
(***************************************************************************)
(* The steps of the program.                                               *)
(***************************************************************************)
LEMMA StateFacts ==
  ASSUME TypeOK, PathInv
  PROVE  /\ State \in States /\ PathOK(State)
         /\ State.out = path.out /\ State.nil = path.nil /\ State.dst = path.dst
         /\ State.buf = path.buf /\ State.err = path.err /\ State.cwr = path.cwr
         /\ fn \in Files => State.file = disk[fn]
         /\ fn \notin Files => State.file = <<>>
  <1>1. path \in Paths /\ disk \in [Files -> Seq(Pieces)]
    BY DEF TypeOK
  <1>2. PICK d : d = IF fn \in Files THEN disk[fn] ELSE <<>>
    OBVIOUS
  <1>3. d \in Seq(Pieces)
    BY <1>1, <1>2, EmptyData
  <1>4. State = [out |-> path.out, nil |-> path.nil, dst |-> path.dst, buf |-> path.buf,
                 err |-> path.err, cwr |-> path.cwr, file |-> d]
    BY <1>2 DEF State
  <1>5. State \in States
    BY <1>1, <1>3, <1>4 DEF Paths, States
  <1>6. /\ State.out = path.out /\ State.nil = path.nil /\ State.dst = path.dst
        /\ State.buf = path.buf /\ State.err = path.err /\ State.cwr = path.cwr /\ State.file = d
    BY <1>4
  <1>7. PathOK(State)
    BY <1>6 DEF PathOK, PathInv
  <1> QED
    BY <1>2, <1>5, <1>6, <1>7

\* What Receive puts through the path, and what it tells the caller.
ReceivedAs(r, s) ==
  /\ Sends(State, s, Body(<<r, req[r].i>>)) /\ Keep(s)
  /\ req' = [req EXCEPT ![r] = AfterSend(r, Confirmed(r, req[r], s.err))]
  /\ s.err \in BOOLEAN
  /\ r \in Sync /\ s.err = FALSE => path.dst = TRUE /\ s.buf = <<>>

LEMMA ReceiveFacts ==
  ASSUME TypeOK, PathInv, CallInv, NEW r \in Requests, Receive(r)
  PROVE  /\ <<r, req[r].i>> \in Messages /\ req[r].i = req[r].n + 1
         /\ \E s : ReceivedAs(r, s)
  <1>1. req[r] \in Calls /\ CallOK(r, req[r]) /\ req[r].pc \in {"send", "last"}
    BY DEF TypeOK, CallInv, Receive
  <1>2. <<r, req[r].i>> \in Messages /\ req[r].i = req[r].n + 1
    BY <1>1 DEF Calls, CallOK, Messages
  <1>3. PICK s \in WriteMessage(State, <<r, req[r].i>>, r \in Sync) :
          /\ Keep(s)
          /\ req' = [req EXCEPT ![r] = AfterSend(r, Confirmed(r, @, s.err))]
    BY DEF Receive
  <1>4. PICK sync : sync = (r \in Sync)
    OBVIOUS
  <1>5. sync \in BOOLEAN /\ s \in WriteMessage(State, <<r, req[r].i>>, sync)
    BY <1>3, <1>4
  <1>6. /\ Sends(State, s, Body(<<r, req[r].i>>))
        /\ sync = TRUE /\ s.err = FALSE => State.dst = TRUE /\ s.buf = <<>>
    BY <1>2, <1>5, StateFacts, WriteMessageStep
  <1>7. s.err \in BOOLEAN
    BY <1>6 DEF Sends, States
  <1>8. r \in Sync /\ s.err = FALSE => path.dst = TRUE /\ s.buf = <<>>
    BY <1>4, <1>6, StateFacts
  <1>9. req' = [req EXCEPT ![r] = AfterSend(r, Confirmed(r, req[r], s.err))]
    BY <1>3
  <1> QED
    BY <1>2, <1>3, <1>6, <1>7, <1>8, <1>9 DEF ReceivedAs

\* A step of one call, of none, or the end of all.
LEMMA CallsStep ==
  ASSUME TypeOK, PathInv, CallInv, [Next]_vars
  PROVE  /\ req' \in [Requests -> Calls]
         /\ \A r \in Requests : CallStep(r, req[r], req'[r])
         /\ \A r \in Requests : req'[r].n = req[r].n \/ Receive(r)
  <1>0. req \in [Requests -> Calls] /\ \A r \in Requests : CallStep(r, req[r], req[r])
    BY DeadCallStep DEF TypeOK, CallInv
  <1>1. ASSUME NEW r \in Requests, NEW e, req' = [req EXCEPT ![r] = e], CallStep(r, req[r], e),
               e.n = req[r].n \/ Receive(r)
        PROVE  /\ req' \in [Requests -> Calls]
               /\ \A q \in Requests : CallStep(q, req[q], req'[q])
               /\ \A q \in Requests : req'[q].n = req[q].n \/ Receive(q)
    <2>1. e \in Calls
      BY <1>1 DEF CallStep
    <2>2. req'[r] = e /\ \A q \in Requests \ {r} : req'[q] = req[q]
      BY <1>0, <1>1
    <2>3. req' \in [Requests -> Calls]
      BY <1>0, <1>1, <2>1
    <2> QED
      BY <1>0, <1>1, <2>2, <2>3
  <1>2. CASE \E r \in Requests : Store(r)
    BY <1>1, <1>2, StoreStep
  <1>3. ASSUME NEW r \in Requests, Receive(r)
        PROVE  /\ req' \in [Requests -> Calls]
               /\ \A q \in Requests : CallStep(q, req[q], req'[q])
               /\ \A q \in Requests : req'[q].n = req[q].n \/ Receive(q)
    <2>0. PICK s : ReceivedAs(r, s)
      BY <1>3, ReceiveFacts
    <2>1. /\ req' = [req EXCEPT ![r] = AfterSend(r, Confirmed(r, req[r], s.err))]
          /\ s.err \in BOOLEAN
      BY <2>0 DEF ReceivedAs
    <2>2. req[r] \in Calls /\ CallOK(r, req[r]) /\ req[r].pc \in {"send", "last"}
      BY <1>3 DEF TypeOK, CallInv, Receive
    <2>3. CallStep(r, req[r], AfterSend(r, Confirmed(r, req[r], s.err)))
      BY <2>1, <2>2, TakenStep
    <2> QED
      BY <1>1, <1>3, <2>1, <2>3
  <1>4. CASE ProcessDies
    <2>1. req' = [r \in Requests |-> IF req[r].pc \in {"new", "ok"} THEN req[r]
                                      ELSE [req[r] EXCEPT !.pc = "error"]]
      BY <1>4 DEF ProcessDies
    <2>2. ASSUME NEW r \in Requests
          PROVE  CallStep(r, req[r], req'[r]) /\ req'[r].n = req[r].n
      <3>1. req[r] \in Calls /\ CallOK(r, req[r])
        BY DEF TypeOK, CallInv
      <3>2. req'[r] = req[r] \/ req'[r] = [req[r] EXCEPT !.pc = "error"]
        BY <2>1
      <3> QED
        BY <3>1, <3>2, DeadCallStep
    <2>3. \A r \in Requests : req'[r] \in Calls
      BY <2>2 DEF CallStep
    <2>4. req' \in [Requests -> Calls]
      BY <2>1, <2>3
    <2> QED
      BY <2>2, <2>4
  <1>5. CASE UNCHANGED req
    BY <1>0, <1>5
  <1>6. CASE (\E r \in Requests : ReceivePanics(r)) \/ RotatePanics \/ WorkerExit \/ Crash
    BY <1>4, <1>6 DEF ReceivePanics, RotatePanics, WorkerExit, Crash
  <1>7. CASE Idle \/ RotateClose \/ RotateName \/ RotateOpen \/ Stop \/ Start \/ UNCHANGED vars
    BY <1>5, <1>7 DEF Idle, RotateClose, RotateName, RotateOpen, Stop, Start, vars
  <1> QED
    BY <1>2, <1>3, <1>6, <1>7 DEF Next, Worker

LEMMA ContentsFacts ==
  ASSUME TypeOK, PathInv
  PROVE  /\ \A f \in Files : ~(Live /\ f = fn) => Contents[f] = disk[f]
         /\ Live => Contents[fn] = Stream(State) /\ fn \in Files
         /\ path.dst \in BOOLEAN /\ path.err \in BOOLEAN
  BY DEF Contents, Live, PathInv, TypeOK, Paths

\* The current file after d was put through the path: the rest of the disk is
\* untouched, and the file has more of what it will hold.
LEMMA FileStep ==
  ASSUME TypeOK, PathInv, NEW d \in Seq(Pieces), NEW s, Sends(State, s, d),
         disk' = IF fn \in Files THEN [disk EXCEPT ![fn] = s.file] ELSE disk
  PROVE  /\ disk' \in [Files -> Seq(Pieces)]
         /\ \A f \in Files : Begins(disk[f], disk'[f])
         /\ \A f \in Files \ {fn} : disk'[f] = disk[f]
         /\ fn \in Files => disk'[fn] = s.file
         /\ ~Live => disk' = disk
         /\ Live => Begins(disk'[fn], Contents[fn] \o d)
  <1>1. State \in States /\ State.dst = path.dst /\ State.err = path.err
        /\ (fn \in Files => State.file = disk[fn])
    BY StateFacts
  <1>2. s \in States /\ s.file \in Seq(Pieces)
    BY DEF Sends, States
  <1>3. disk \in [Files -> Seq(Pieces)] /\ \A f \in Files : Begins(disk[f], disk[f])
    BY BeginsSelf DEF TypeOK
  <1>4. /\ disk' \in [Files -> Seq(Pieces)] /\ \A f \in Files \ {fn} : disk'[f] = disk[f]
        /\ fn \in Files => disk'[fn] = s.file
    BY <1>2, <1>3
  <1>5. CASE Live
    <2>1. fn \in Files /\ Contents[fn] = Stream(State)
      BY <1>5, ContentsFacts
    <2>2. Begins(State.file, s.file) /\ Begins(s.file, Stream(State) \o d)
      BY <1>1, <1>5 DEF Sends, Live
    <2> QED
      BY <1>1, <1>3, <1>4, <1>5, <2>1, <2>2
  <1>6. CASE ~Live
    <2>1. s.file = State.file
      BY <1>1, <1>6, ContentsFacts DEF Sends, Live
    <2>2. disk' = disk
      BY <1>1, <1>3, <2>1
    <2> QED
      BY <1>3, <1>4, <1>6, <2>2
  <1> QED
    BY <1>5, <1>6

\* Keep: what the files will hold after d was put through the path.
LEMMA KeepFacts ==
  ASSUME TypeOK, PathInv, NEW d \in Seq(Pieces), NEW s, Sends(State, s, d), Keep(s),
         fn' = fn
  PROVE  /\ path' \in Paths
         /\ path'.dst = path.dst /\ path'.out = path.out /\ path'.nil = path.nil
         /\ path'.err = s.err
         /\ Algo = "none" => path'.cwr = <<>>
         /\ Algo = "lz4" /\ path'.dst = TRUE => path'.err = FALSE
         /\ Live' => Live /\ Stream(State)' = Stream(State) \o d
  <1>1. State \in States /\ State.dst = path.dst /\ State.err = path.err
        /\ State.out = path.out /\ State.nil = path.nil
    BY StateFacts
  <1>2. s \in States /\ PathOK(s) /\ s.dst = path.dst /\ s.out = path.out /\ s.nil = path.nil
    BY <1>1 DEF Sends, SameFile
  <1>3. path' = [out |-> s.out, nil |-> s.nil, dst |-> s.dst, buf |-> s.buf, err |-> s.err,
                 cwr |-> s.cwr]
    BY DEF Keep
  <1>4. /\ path' \in Paths /\ path'.out = s.out /\ path'.nil = s.nil /\ path'.dst = s.dst
        /\ path'.buf = s.buf /\ path'.err = s.err /\ path'.cwr = s.cwr
    BY <1>2, <1>3 DEF States, Paths
  <1>5. Algo = "none" => path'.cwr = <<>>
    BY <1>2, <1>4 DEF PathOK
  <1>6. Algo = "lz4" /\ path'.dst = TRUE => path'.err = FALSE
    BY <1>2, <1>4 DEF PathOK
  <1>7. ASSUME Live' PROVE Live /\ Stream(State)' = Stream(State) \o d
    <2>1. path.dst = TRUE /\ s.err = FALSE
      BY <1>2, <1>4, <1>7 DEF Live
    <2>2. path.err = FALSE
      BY <1>1, <2>1, ContentsFacts DEF Sends
    <2>3. Stream(s) = Stream(State) \o d
      BY <1>1, <2>1, <2>2 DEF Sends
    <2>4. fn \in Files /\ disk'[fn] = s.file
      <3>1. fn \in Files
        BY <2>1 DEF PathInv
      <3>2. disk' = [disk EXCEPT ![fn] = s.file] /\ disk \in [Files -> Seq(Pieces)]
        BY <3>1 DEF Keep, TypeOK
      <3> QED
        BY <3>1, <3>2
    <2>5. Stream(State)' = (disk'[fn] \o path'.cwr) \o path'.buf
      BY <2>4 DEF Stream, State
    <2>6. Stream(State)' = Stream(s)
      BY <1>4, <2>4, <2>5 DEF Stream
    <2> QED
      BY <2>1, <2>2, <2>3, <2>6 DEF Live
  <1> QED
    BY <1>2, <1>4, <1>5, <1>6, <1>7

\* The variables of the worker that are not data.
LEMMA ControlType ==
  ASSUME TypeOK, NameInv, [Next]_vars
  PROVE  /\ wpc' \in {"down", "rotate", "open", "select", "idle"}
         /\ stopping' \in BOOLEAN /\ starts' \in 0 .. MaxStarts
         /\ fn' \in 0 .. NFiles /\ used' \in 0 .. NFiles
         /\ racing' \in BOOLEAN /\ finished' \subseteq Files
  <1> USE DEF TypeOK
  <1>1. NameInv'
    BY NamesStep
  <1>2. fn' \in 0 .. NFiles /\ used' \in 0 .. NFiles /\ finished' \subseteq Files
    BY <1>1, BoundsAssumption DEF NameInv, Files
  <1>3. ASSUME ProcessDies PROVE UNCHANGED <<stopping, starts>> /\ wpc' = "down" /\ racing' = FALSE
    BY <1>3 DEF ProcessDies
  <1>4. CASE UNCHANGED <<wpc, stopping, starts, racing>>
    BY <1>2, <1>4
  <1>5. CASE (\E r \in Requests : Store(r)) \/ UNCHANGED vars
    BY <1>4, <1>5 DEF Store, StoreBegin, StoreFilled, StoreEmpty, StoreCancelled, StoreReturn,
       workerVars, vars
  <1>6. CASE (\E r \in Requests : Receive(r)) \/ Idle
    BY <1>2, <1>6 DEF Receive, Idle
  <1>7. CASE (\E r \in Requests : ReceivePanics(r)) \/ RotatePanics \/ WorkerExit \/ Crash
    BY <1>2, <1>3, <1>7 DEF ReceivePanics, RotatePanics, WorkerExit, Crash
  <1>8. CASE RotateClose \/ Stop
    BY <1>2, <1>8 DEF RotateClose, Stop
  <1>9. CASE RotateName
    BY <1>2, <1>9 DEF RotateName
  <1>10. CASE RotateOpen
    <2>1. wpc' \in {"select", "rotate"} /\ UNCHANGED <<stopping, starts, racing>>
      BY <1>10 DEF RotateOpen
    <2> QED
      BY <1>2, <2>1
  <1>11. CASE Start
    <2>1. starts < MaxStarts /\ starts' = starts + 1
      BY <1>11 DEF Start
    <2>2. wpc' = "rotate" /\ stopping' = FALSE /\ racing' = racing
      BY <1>11 DEF Start
    <2>3. starts' \in 0 .. MaxStarts
      BY <2>1, BoundsAssumption
    <2> QED
      BY <1>2, <2>2, <2>3
  <1> QED
    BY <1>5, <1>6, <1>7, <1>8, <1>9, <1>10, <1>11 DEF Next, Worker

LEMMA OpenStep ==
  ASSUME NameInv, OpenInv, [Next]_vars
  PROVE  OpenInv'
  <1> USE DEF OpenInv
  <1>1. CASE UNCHANGED <<wpc, fn>> \/ wpc' # "open"
    BY <1>1
  <1>2. CASE RotateName
    BY <1>2, BoundsAssumption DEF RotateName, NameInv, Files
  <1>3. CASE (\E r \in Requests : Store(r)) \/ Stop \/ UNCHANGED vars
    BY <1>1, <1>3 DEF Store, StoreBegin, StoreFilled, StoreEmpty, StoreCancelled, StoreReturn,
       workerVars, vars, Stop
  <1>4. CASE (\E r \in Requests : Receive(r) \/ ReceivePanics(r)) \/ Idle \/ RotateClose
    BY <1>1, <1>4 DEF Receive, ReceivePanics, ProcessDies, Idle, RotateClose
  <1>5. CASE RotatePanics \/ RotateOpen \/ WorkerExit \/ Crash \/ Start
    BY <1>1, <1>5 DEF RotatePanics, RotateOpen, WorkerExit, Crash, ProcessDies, Start
  <1> QED
    BY <1>2, <1>3, <1>4, <1>5 DEF Next, Worker

\* A path with nothing in it.
LEMMA EmptyPaths ==
  /\ NilPath \in Paths /\ NilPath.dst = FALSE /\ NilPath.cwr = <<>> /\ NilPath.err = FALSE
  /\ \A made \in BOOLEAN :
       /\ NewPath(made) \in Paths /\ NewPath(made).dst = made /\ NewPath(made).out = made
       /\ NewPath(made).nil = FALSE /\ NewPath(made).cwr = <<>> /\ NewPath(made).err = FALSE
       /\ NewPath(made).buf = <<>>
  BY EmptyData DEF NilPath, NewPath, Paths

\* rotateCheck and the deferred function: what was buffered is flushed.
LEMMA CloseFacts ==
  ASSUME TypeOK, PathInv, RotateClose \/ WorkerExit
  PROVE  \E s : /\ Sends(State, s, <<>>)
               /\ disk' = IF fn \in Files THEN [disk EXCEPT ![fn] = s.file] ELSE disk
  <1>1. State \in States /\ PathOK(State)
    BY StateFacts
  <1>2. ASSUME NEW s, s \in CloseChunk(State) \/ s = State PROVE Sends(State, s, <<>>)
    BY <1>1, <1>2, FlushBothStep, NothingSent DEF CloseChunk
  <1>3. CASE RotateClose
    <2>1. PICK s \in IF path.out THEN CloseChunk(State) ELSE {State} :
            disk' = IF fn \in Files THEN [disk EXCEPT ![fn] = s.file] ELSE disk
      BY <1>3 DEF RotateClose
    <2>2. s \in CloseChunk(State) \/ s = State
      BY <2>1
    <2> QED
      BY <1>2, <2>1, <2>2
  <1>4. CASE WorkerExit
    <2>1. PICK s \in IF path.out /\ ~path.nil THEN CloseChunk(State) ELSE {State} :
            disk' = IF fn \in Files THEN [disk EXCEPT ![fn] = s.file] ELSE disk
      BY <1>4 DEF WorkerExit
    <2>2. s \in CloseChunk(State) \/ s = State
      BY <2>1
    <2> QED
      BY <1>2, <2>1, <2>2
  <1> QED
    BY <1>3, <1>4

LEMMA IdleFacts ==
  ASSUME TypeOK, PathInv, Idle
  PROVE  \E s : Sends(State, s, <<>>) /\ Keep(s)
  <1>1. PICK s \in IdleFlush(State) : Keep(s)
    BY DEF Idle
  <1>2. Sends(State, s, <<>>)
    BY <1>1, StateFacts, FlushBothStep DEF IdleFlush
  <1> QED
    BY <1>1, <1>2

\* PathInv for a path that writes to no file.
LEMMA NoFilePath ==
  ASSUME path' \in Paths, path'.dst = FALSE, Algo = "none" => path'.cwr = <<>>
  PROVE  PathInv'
  BY DEF PathInv

LEMMA PathStep ==
  ASSUME TypeOK, NameInv, PathInv, OpenInv, CallInv, [Next]_vars
  PROVE  path' \in Paths /\ disk' \in [Files -> Seq(Pieces)] /\ PathInv'
  <1>0. path \in Paths /\ disk \in [Files -> Seq(Pieces)] /\ path.dst \in BOOLEAN
    BY DEF TypeOK, Paths
  <1>1. CASE UNCHANGED <<path, disk, fn, wpc>>
    <2>1. path' \in Paths /\ disk' \in [Files -> Seq(Pieces)]
      BY <1>0, <1>1
    <2> QED
      BY <1>1, <2>1 DEF PathInv
  <1>2. CASE (\E r \in Requests : Store(r)) \/ Stop \/ UNCHANGED vars
    BY <1>1, <1>2 DEF Store, StoreBegin, StoreFilled, StoreEmpty, StoreCancelled, StoreReturn,
       workerVars, vars, Stop
  <1>3. ASSUME NEW d \in Seq(Pieces), NEW s, Sends(State, s, d), Keep(s), fn' = fn,
               wpc' \in {"select", "idle"}
        PROVE  path' \in Paths /\ disk' \in [Files -> Seq(Pieces)] /\ PathInv'
    <2>1. /\ path' \in Paths
          /\ path'.dst = path.dst /\ path'.out = path.out /\ path'.nil = path.nil
          /\ Algo = "none" => path'.cwr = <<>>
          /\ Algo = "lz4" /\ path'.dst = TRUE => path'.err = FALSE
      BY <1>3, KeepFacts
    <2>2. disk' = IF fn \in Files THEN [disk EXCEPT ![fn] = s.file] ELSE disk
      BY <1>3 DEF Keep
    <2>3. disk' \in [Files -> Seq(Pieces)]
      BY <1>3, <2>2, FileStep
    <2> QED
      BY <1>3, <2>1, <2>3 DEF PathInv
  <1>4. ASSUME NEW r \in Requests, Receive(r)
        PROVE  path' \in Paths /\ disk' \in [Files -> Seq(Pieces)] /\ PathInv'
    <2>1. PICK s : ReceivedAs(r, s)
      BY <1>4, ReceiveFacts
    <2>2. Body(<<r, req[r].i>>) \in Seq(Pieces)
      BY <1>4, ReceiveFacts, BodyFacts
    <2>3. fn' = fn /\ wpc' = "select"
      BY <1>4 DEF Receive
    <2> QED
      BY <1>3, <2>1, <2>2, <2>3 DEF ReceivedAs
  <1>5. CASE Idle
    <2>1. fn' = fn /\ wpc' = "idle"
      BY <1>5 DEF Idle
    <2> QED
      BY <1>3, <1>5, <2>1, IdleFacts, EmptyData
  <1>6. CASE RotateClose \/ WorkerExit
    <2>1. PICK s : /\ Sends(State, s, <<>>)
                   /\ disk' = IF fn \in Files THEN [disk EXCEPT ![fn] = s.file] ELSE disk
      BY <1>6, CloseFacts
    <2>2. disk' \in [Files -> Seq(Pieces)]
      BY <2>1, EmptyData, FileStep
    <2>3. path' = NilPath \/ (path' = path /\ path.dst = FALSE)
      <3>1. path' = NilPath \/ (path' = path /\ path.out # TRUE)
        BY <1>6 DEF RotateClose, WorkerExit, ProcessDies
      <3> QED
        BY <1>0, <3>1 DEF PathInv
    <2>4. path' \in Paths /\ path'.dst = FALSE /\ (Algo = "none" => path'.cwr = <<>>)
      BY <1>0, <2>3, EmptyPaths DEF PathInv
    <2> QED
      BY <2>2, <2>4, NoFilePath
  <1>7. CASE (\E r \in Requests : ReceivePanics(r)) \/ RotatePanics \/ Crash
    <2>1. path' = NilPath /\ disk' = disk
      BY <1>7 DEF ReceivePanics, RotatePanics, Crash, ProcessDies
    <2> QED
      BY <1>0, <2>1, EmptyPaths, NoFilePath
  <1>8. CASE RotateName \/ Start
    <2>1. path' = path /\ disk' = disk /\ wpc \in {"rotate", "down"}
      BY <1>8 DEF RotateName, Start, Up
    <2>2. path.dst = FALSE /\ (Algo = "none" => path.cwr = <<>>)
      BY <1>0, <2>1 DEF PathInv
    <2> QED
      BY <1>0, <2>1, <2>2, NoFilePath
  <1>9. CASE RotateOpen
    <2>1. disk' = disk /\ fn' = fn /\ fn \in Files /\ wpc = "open"
      BY <1>9 DEF RotateOpen, OpenInv
    <2>2. PICK made \in BOOLEAN : \/ path' = NewPath(made) /\ wpc' = "select"
                                 \/ path' = [path EXCEPT !.out = made]
      BY <1>9 DEF RotateOpen
    <2>3. CASE path' = NewPath(made) /\ wpc' = "select"
      <3>1. path' \in Paths /\ path'.cwr = <<>> /\ path'.err = FALSE /\ path'.nil = FALSE
            /\ path'.out = path'.dst
        BY <2>3, EmptyPaths
      <3> QED
        BY <1>0, <2>1, <2>3, <3>1 DEF PathInv
    <2>4. CASE path' = [path EXCEPT !.out = made]
      <3>1. path.dst = FALSE /\ (Algo = "none" => path.cwr = <<>>)
        BY <1>0, <2>1 DEF PathInv
      <3>2. path' \in Paths /\ path'.dst = path.dst /\ path'.cwr = path.cwr
        BY <1>0, <2>4 DEF Paths
      <3> QED
        BY <1>0, <2>1, <3>1, <3>2, NoFilePath
    <2> QED
      BY <2>2, <2>3, <2>4
  <1> QED
    BY <1>2, <1>4, <1>5, <1>6, <1>7, <1>8, <1>9 DEF Next, Worker

TypeInv == TypeOK /\ NameInv /\ PathInv /\ OpenInv /\ CallInv

LEMMA TypeStep == TypeInv /\ [Next]_vars => TypeInv'
  <1> SUFFICES ASSUME TypeInv, [Next]_vars PROVE TypeInv'
    OBVIOUS
  <1> USE DEF TypeInv
  <1>1. NameInv' /\ OpenInv'
    BY NamesStep, OpenStep
  <1>2. path' \in Paths /\ disk' \in [Files -> Seq(Pieces)] /\ PathInv'
    BY PathStep
  <1>3. req' \in [Requests -> Calls] /\ \A r \in Requests : CallStep(r, req[r], req'[r])
    BY CallsStep
  <1>4. CallInv'
    BY <1>3 DEF CallInv, CallStep
  <1>5. TypeOK'
    BY <1>2, <1>3, ControlType DEF TypeOK
  <1> QED
    BY <1>1, <1>2, <1>4, <1>5

LEMMA TypeInit == Init => TypeInv
  <1> SUFFICES ASSUME Init PROVE TypeInv
    OBVIOUS
  <1>1. req \in [Requests -> Calls] /\ CallInv
    <2>1. [pc |-> "new", i |-> 0, n |-> 0, wg |-> 0, failed |-> FALSE] \in Calls
      BY BoundsAssumption DEF Calls
    <2>2. ASSUME NEW r PROVE CallOK(r, [pc |-> "new", i |-> 0, n |-> 0, wg |-> 0, failed |-> FALSE])
      BY DEF CallOK
    <2> QED
      BY <2>1, <2>2 DEF Init, CallInv
  <1>2. NameInv /\ OpenInv
    BY BoundsAssumption DEF Init, NameInv, Files, OpenInv
  <1>3. path \in Paths /\ PathInv
    BY EmptyPaths DEF Init, PathInv
  <1>4. disk \in [Files -> Seq(Pieces)]
    BY EmptyData DEF Init
  <1>5. /\ wpc = "down" /\ stopping = FALSE /\ starts = 0 /\ fn = 0 /\ used = 0
        /\ racing = FALSE /\ finished = {}
    BY DEF Init
  <1>6. 0 \in 0 .. MaxStarts /\ 0 \in 0 .. NFiles
    BY BoundsAssumption
  <1>7. TypeOK
    BY <1>1, <1>3, <1>4, <1>5, <1>6 DEF TypeOK
  <1> QED
    BY <1>1, <1>2, <1>3, <1>7 DEF TypeInv

\* Every variable has the shape the code gives it: no WaitGroup gets negative,
\* no call sends more buffers than it has.
THEOREM TypeCorrect == Spec => []TypeOK
  <1>1. TypeInv => TypeOK
    BY DEF TypeInv
  <1> QED
    BY <1>1, TypeInit, TypeStep, PTL DEF Spec

-----------------------------------------------------------------------------
(***************************************************************************)
(* What the chunk files hold, for every instance: a Reader gets all that   *)
(* was written whole, once, and without compression a StoreSync that       *)
(* returned without an error is on disk.                                   *)
(*                                                                         *)
(* The invariant is about Contents, what the files will hold.  A flush     *)
(* leaves it as it is, a failed write or a crash cuts it off, a received   *)
(* buffer is put at its end, and no buffer is received twice.              *)
(***************************************************************************)
\* A file that was not opened yet is empty.
FreshInv ==
  /\ \A f \in Files : f > used => disk[f] = <<>>
  /\ wpc = "open" => disk[fn] = <<>>

\* A file without an error ends with a whole buffer.
ContentInv ==
  /\ Clean(Contents, req)
  /\ Live => Len(Contents[fn]) % 2 = 0

\* Without compression what a StoreSync has sent without an error is on disk.
SyncInv ==
  \A r \in Sync : req[r].failed = FALSE =>
    \A i \in 1 .. req[r].n : Written(<<r, i>>)

DataInv == TypeInv /\ FreshInv /\ ContentInv
-----------------------------------------------------------------------------
ContentsOK == \A f \in Files : Contents[f] \in Seq(Pieces) /\ Begins(disk[f], Contents[f])

\* A file holds the beginning of what it will hold.
LEMMA ContentsTyped == TypeInv => ContentsOK
  <1> SUFFICES ASSUME TypeInv, NEW f \in Files
               PROVE  Contents[f] \in Seq(Pieces) /\ Begins(disk[f], Contents[f])
    BY DEF ContentsOK
  <1>1. TypeOK /\ PathInv
    BY DEF TypeInv
  <1>2. disk[f] \in Seq(Pieces)
    BY <1>1 DEF TypeOK
  <1>3. CASE Live /\ f = fn
    <2>1. Contents[f] = Stream(State)
      BY <1>3 DEF Contents
    <2>2. State \in States /\ State.file = disk[f]
      BY <1>1, <1>3, StateFacts
    <2>3. Stream(State) \in Seq(Pieces) /\ Begins(State.file, Stream(State))
      BY <2>2, EmptyData, StreamFacts
    <2> QED
      BY <2>1, <2>2, <2>3
  <1>4. CASE ~(Live /\ f = fn)
    <2>1. Contents[f] = disk[f]
      BY <1>4 DEF Contents
    <2> QED
      BY <1>2, <2>1, BeginsSelf
  <1> QED
    BY <1>3, <1>4

LEMMA ContentsTypedNext ==
  ASSUME TypeInv'
  PROVE  \A f \in Files : Contents'[f] \in Seq(Pieces) /\ Begins(disk'[f], Contents'[f])
  <1>1. (TypeInv => ContentsOK)'
    BY ContentsTyped, PTL
  <1> QED
    BY <1>1 DEF ContentsOK

\* What Contents' is, in terms of the next state.
LEMMA ContentsNext ==
  /\ \A f \in Files : ~(Live' /\ f = fn') => Contents'[f] = disk'[f]
  /\ Live' /\ fn' \in Files => Contents'[fn'] = Stream(State)'
  BY DEF Contents

\* Calls only take more buffers.
Grown == \A r \in Requests : req[r].n <= req'[r].n

LEMMA CallsGrow ==
  ASSUME TypeInv, TypeInv', [Next]_vars
  PROVE  Grown /\ req \in [Requests -> Calls] /\ req' \in [Requests -> Calls]
  <1>1. TypeOK /\ PathInv /\ CallInv
    BY DEF TypeInv
  <1>2. req \in [Requests -> Calls] /\ req' \in [Requests -> Calls]
    BY DEF TypeInv, TypeOK
  <1>3. ASSUME NEW r \in Requests PROVE req[r].n <= req'[r].n
    <2>1. req'[r].n \in {req[r].n, req[r].n + 1}
      BY <1>1, CallsStep DEF CallStep
    <2>2. req[r].n \in Nat
      BY <1>2, BoundsAssumption DEF Calls
    <2> QED
      BY <2>1, <2>2
  <1> QED
    BY <1>2, <1>3 DEF Grown

\* Files whose contents are kept or cut off stay clean.
LEMMA CutKeeps ==
  ASSUME TypeInv, TypeInv', [Next]_vars, ContentInv,
         \A f \in Files : Begins(Contents'[f], Contents[f]),
         Live' => Len(Contents'[fn']) % 2 = 0
  PROVE  ContentInv'
  <1>1. Grown /\ req \in [Requests -> Calls] /\ req' \in [Requests -> Calls]
    BY CallsGrow
  <1>2. Clean(Contents, req)
    BY DEF ContentInv
  <1>3. \A f \in Files : Contents'[f] \in Seq(Pieces) /\ Begins(Contents'[f], Contents[f])
    BY ContentsTypedNext
  <1>4. Clean(Contents', req')
    BY <1>1, <1>2, <1>3, CutIsClean DEF Grown
  <1> QED
    BY <1>4 DEF ContentInv

\* The files keep what they hold, and none is open afterwards.
LEMMA ClosedKeeps ==
  ASSUME TypeInv, TypeInv', [Next]_vars, ContentInv, path'.dst = FALSE,
         \A f \in Files : Begins(disk'[f], Contents[f])
  PROVE  ContentInv'
  <1>1. ~Live'
    BY DEF Live
  <1>2. \A f \in Files : Contents'[f] = disk'[f]
    BY <1>1, ContentsNext
  <1> QED
    BY <1>1, <1>2, CutKeeps

\* What a call to put d through the path does to the contents.
LEMMA SentKeeps ==
  ASSUME TypeInv, TypeInv', [Next]_vars, ContentInv, NEW s, Sends(State, s, <<>>), Keep(s), fn' = fn
  PROVE  ContentInv'
  <1>1. TypeOK /\ PathInv
    BY DEF TypeInv
  <1>2. disk' = IF fn \in Files THEN [disk EXCEPT ![fn] = s.file] ELSE disk
    BY DEF Keep
  <1>3. /\ \A f \in Files \ {fn} : disk'[f] = disk[f]
        /\ ~Live => disk' = disk
        /\ Live => Begins(disk'[fn], Contents[fn] \o <<>>)
    BY <1>1, <1>2, EmptyData, FileStep
  <1>4. Live' => Live /\ Stream(State)' = Stream(State) \o <<>>
    BY <1>1, EmptyData, KeepFacts
  <1>5. /\ \A f \in Files : ~(Live /\ f = fn) => Contents[f] = disk[f]
        /\ Live => Contents[fn] = Stream(State) /\ fn \in Files
    BY <1>1, ContentsFacts
  <1>6. \A f \in Files : Contents[f] \in Seq(Pieces) /\ Begins(Contents[f], Contents[f])
    BY ContentsTyped, BeginsSelf DEF ContentsOK
  <1>7. Live => Contents[fn] \o <<>> = Contents[fn]
    BY <1>5, <1>6, ConcatEmptySeq
  <1>8. CASE Live'
    <2>1. Contents'[fn] = Contents[fn]
      BY <1>4, <1>5, <1>7, <1>8, ContentsNext
    <2>2. \A f \in Files \ {fn} : Contents'[f] = Contents[f]
      BY <1>3, <1>5, ContentsNext
    <2>3. Len(Contents'[fn']) % 2 = 0
      BY <1>4, <1>8, <2>1 DEF ContentInv
    <2>4. \A f \in Files : Begins(Contents'[f], Contents[f])
      BY <1>6, <2>1, <2>2
    <2> QED
      BY <2>3, <2>4, CutKeeps
  <1>9. CASE ~Live'
    <2>1. \A f \in Files : Contents'[f] = disk'[f]
      BY <1>9, ContentsNext
    <2>2. \A f \in Files : Begins(disk'[f], Contents[f])
      BY <1>3, <1>5, <1>6, <1>7
    <2> QED
      BY <1>9, <2>1, <2>2, CutKeeps
  <1> QED
    BY <1>8, <1>9

\* A received buffer is put at the end of the current file, or lost after an error.
LEMMA ReceiveKeeps ==
  ASSUME TypeInv, TypeInv', [Next]_vars, ContentInv, NEW r \in Requests, Receive(r)
  PROVE  ContentInv'
  <1>1. TypeOK /\ PathInv /\ CallInv /\ fn' = fn
    BY DEF TypeInv, Receive
  <1>2. PICK m : m = <<r, req[r].i>>
    OBVIOUS
  <1>3. PICK s : ReceivedAs(r, s)
    BY <1>1, ReceiveFacts
  <1>4. m \in Messages /\ m[1] = r /\ m[2] = req[r].n + 1 /\ Body(m) \in Seq(Pieces)
    <2>1. <<r, req[r].i>> \in Messages /\ req[r].i = req[r].n + 1
      BY <1>1, ReceiveFacts
    <2> QED
      BY <1>2, <2>1, BodyFacts
  <1>5. Sends(State, s, Body(m)) /\ Keep(s)
    BY <1>2, <1>3 DEF ReceivedAs
  <1>6. disk' = IF fn \in Files THEN [disk EXCEPT ![fn] = s.file] ELSE disk
    BY <1>5 DEF Keep
  <1>7. /\ \A f \in Files \ {fn} : disk'[f] = disk[f]
        /\ ~Live => disk' = disk
        /\ Live => Begins(disk'[fn], Contents[fn] \o Body(m))
    BY <1>1, <1>4, <1>5, <1>6, FileStep
  <1>8. Live' => Live /\ Stream(State)' = Stream(State) \o Body(m)
    BY <1>1, <1>4, <1>5, KeepFacts
  <1>9. /\ \A f \in Files : ~(Live /\ f = fn) => Contents[f] = disk[f]
        /\ Live => Contents[fn] = Stream(State) /\ fn \in Files
    BY <1>1, ContentsFacts
  <1>10. \A f \in Files : Contents[f] \in Seq(Pieces) /\ Begins(Contents[f], Contents[f])
    BY ContentsTyped, BeginsSelf DEF ContentsOK
  <1>11. CASE ~Live
    <2>1. ~Live' /\ disk' = disk
      BY <1>7, <1>8, <1>11
    <2>2. \A f \in Files : Contents'[f] = Contents[f]
      BY <1>9, <1>11, <2>1, ContentsNext
    <2> QED
      BY <1>10, <2>1, <2>2, CutKeeps
  <1>12. CASE Live
    <2>1. PICK D : D = [f \in Files |-> IF f = fn THEN Contents[fn] \o Body(m) ELSE Contents[f]]
      OBVIOUS
    <2>2. fn \in Files /\ D[fn] = Contents[fn] \o Body(m) /\ \A f \in Files \ {fn} : D[f] = Contents[f]
      BY <1>9, <1>12, <2>1
    <2>3. Grown /\ req \in [Requests -> Calls] /\ req' \in [Requests -> Calls]
      BY CallsGrow
    <2>4. m[2] <= req'[m[1]].n
      <3>1. req[r] \in Calls /\ CallOK(r, req[r]) /\ req[r].pc \in {"send", "last"}
        BY <1>1 DEF TypeOK, CallInv, Receive
      <3>2. req' = [req EXCEPT ![r] = AfterSend(r, Confirmed(r, req[r], s.err))] /\ s.err \in BOOLEAN
        BY <1>3 DEF ReceivedAs
      <3>3. req'[r].n = req[r].n + 1
        BY <2>3, <3>1, <3>2, TakenStep
      <3>4. req[r].n \in Nat
        BY <3>1, BoundsAssumption DEF Calls
      <3> QED
        BY <1>4, <3>3, <3>4
    <2>5. Clean(D, req') /\ Len(D[fn]) % 2 = 0
      <3>1. Extended(D[fn], Contents[fn], m)
        BY <1>4, <1>10, <2>2, BodyExtends
      <3>2. Clean(Contents, req) /\ Len(Contents[fn]) % 2 = 0 /\ m[2] = req[m[1]].n + 1
        BY <1>4, <1>12 DEF ContentInv
      <3>3. \A q \in Requests : req[q].n <= req'[q].n
        BY <2>3 DEF Grown
      <3>4. Appended(Contents, D, req, req', m, fn)
        BY <2>2, <2>4, <3>1, <3>2, <3>3 DEF Appended
      <3> QED
        BY <1>4, <2>2, <2>3, <3>4, NextIsClean
    <2>6. \A f \in Files : D[f] \in Seq(Pieces) /\ Begins(D[f], D[f])
      BY <2>5, BeginsSelf DEF Clean
    <2>7. \A f \in Files \ {fn} : Contents'[f] = D[f]
      BY <1>1, <1>7, <1>9, <2>2, ContentsNext
    <2>8. Live' => Contents'[fn] = D[fn]
      BY <1>1, <1>8, <1>9, <2>2, ContentsNext
    <2>9. ~Live' => Begins(Contents'[fn], D[fn])
      BY <1>7, <1>12, <2>2, ContentsNext
    <2>10. \A f \in Files : Contents'[f] \in Seq(Pieces) /\ Begins(Contents'[f], D[f])
      BY <2>6, <2>7, <2>8, <2>9, ContentsTypedNext
    <2>11. \A q \in Requests : req'[q].n <= req'[q].n
      BY <2>3, BoundsAssumption DEF Calls
    <2>12. Clean(Contents', req')
      BY <2>3, <2>5, <2>10, <2>11, CutIsClean
    <2> QED
      BY <1>1, <2>5, <2>8, <2>12 DEF ContentInv
  <1> QED
    BY <1>11, <1>12

\* Every step keeps the contents clean.
LEMMA ContentStep ==
  ASSUME DataInv, TypeInv', [Next]_vars
  PROVE  ContentInv'
  <1>1. TypeInv /\ ContentInv /\ TypeOK /\ PathInv
    BY DEF DataInv, TypeInv
  <1>2. /\ \A f \in Files : ~(Live /\ f = fn) => Contents[f] = disk[f]
        /\ Live => Contents[fn] = Stream(State) /\ fn \in Files
        /\ path.dst \in BOOLEAN
    BY <1>1, ContentsFacts
  <1>3. \A f \in Files : /\ Contents[f] \in Seq(Pieces) /\ Begins(Contents[f], Contents[f])
                         /\ Begins(disk[f], Contents[f])
    BY <1>1, ContentsTyped, BeginsSelf DEF ContentsOK
  <1>4. CASE UNCHANGED <<path, disk, fn>>
    <2>1. Live' = Live /\ Contents' = Contents /\ fn' = fn
      BY <1>4 DEF Live, Contents, State, Stream
    <2> QED
      BY <1>1, <1>3, <2>1, CutKeeps DEF ContentInv
  <1>5. CASE (\E r \in Requests : Store(r)) \/ Stop \/ Start \/ UNCHANGED vars
    BY <1>4, <1>5 DEF Store, StoreBegin, StoreFilled, StoreEmpty, StoreCancelled, StoreReturn,
       workerVars, vars, Stop, Start
  <1>6. CASE \E r \in Requests : Receive(r)
    BY <1>1, <1>6, ReceiveKeeps
  <1>7. CASE Idle
    <2>1. fn' = fn
      BY <1>7 DEF Idle
    <2> QED
      BY <1>1, <1>7, <2>1, IdleFacts, SentKeeps
  <1>8. CASE RotateClose \/ WorkerExit
    <2>1. PICK s : /\ Sends(State, s, <<>>)
                   /\ disk' = IF fn \in Files THEN [disk EXCEPT ![fn] = s.file] ELSE disk
      BY <1>1, <1>8, CloseFacts
    <2>2. /\ \A f \in Files \ {fn} : disk'[f] = disk[f]
          /\ ~Live => disk' = disk
          /\ Live => Begins(disk'[fn], Contents[fn] \o <<>>)
      BY <1>1, <2>1, EmptyData, FileStep
    <2>3. Live => Contents[fn] \o <<>> = Contents[fn]
      BY <1>2, <1>3, ConcatEmptySeq
    <2>4. \A f \in Files : Begins(disk'[f], Contents[f])
      BY <1>2, <1>3, <2>2, <2>3
    <2>5. path' = NilPath \/ (path' = path /\ path.out # TRUE)
      BY <1>8 DEF RotateClose, WorkerExit, ProcessDies
    <2>6. path'.dst = FALSE
      BY <1>1, <1>2, <2>5, EmptyPaths DEF PathInv
    <2> QED
      BY <1>1, <2>4, <2>6, ClosedKeeps
  <1>9. CASE (\E r \in Requests : ReceivePanics(r)) \/ RotatePanics \/ Crash
    <2>1. path' = NilPath /\ disk' = disk
      BY <1>9 DEF ReceivePanics, RotatePanics, Crash, ProcessDies
    <2> QED
      BY <1>1, <1>3, <2>1, EmptyPaths, ClosedKeeps
  <1>10. CASE RotateName
    <2>1. path' = path /\ disk' = disk /\ wpc = "rotate"
      BY <1>10 DEF RotateName
    <2>2. path'.dst = FALSE
      BY <1>1, <1>2, <2>1 DEF PathInv
    <2> QED
      BY <1>1, <1>3, <2>1, <2>2, ClosedKeeps
  <1>11. CASE RotateOpen
    <2>1. disk' = disk /\ fn' = fn /\ wpc = "open" /\ fn \in Files /\ disk[fn] = <<>>
      BY <1>1, <1>11 DEF RotateOpen, OpenInv, DataInv, TypeInv, FreshInv
    <2>2. path.dst = FALSE /\ \A f \in Files : Contents[f] = disk[f]
      BY <1>1, <1>2, <2>1 DEF PathInv, Live
    <2>3. PICK made \in BOOLEAN : \/ path' = NewPath(made)
                                 \/ path' = [path EXCEPT !.out = made]
      BY <1>11 DEF RotateOpen
    <2>4. CASE path' = [path EXCEPT !.out = made]
      <3>1. path'.dst = FALSE
        BY <1>1, <2>2, <2>4 DEF TypeOK, Paths
      <3> QED
        BY <1>1, <1>3, <2>1, <3>1, ClosedKeeps
    <2>5. CASE path' = NewPath(made)
      <3>1. Stream(State)' = (disk'[fn] \o path'.cwr) \o path'.buf
        BY <2>1 DEF Stream, State
      <3>2. path'.cwr = <<>> /\ path'.buf = <<>> /\ disk'[fn] = <<>>
        BY <2>1, <2>5, EmptyPaths
      <3>3. Stream(State)' = <<>>
        BY <3>1, <3>2
      <3>4. \A f \in Files : Contents'[f] = Contents[f]
        <4>1. ASSUME NEW f \in Files PROVE Contents'[f] = Contents[f]
          <5>1. CASE Live' /\ f = fn
            BY <2>1, <2>2, <3>3, <5>1, ContentsNext
          <5>2. CASE ~(Live' /\ f = fn)
            BY <2>1, <2>2, <5>2, ContentsNext
          <5> QED
            BY <5>1, <5>2
        <4> QED
          BY <4>1
      <3>5. Len(Contents'[fn']) % 2 = 0
        <4>1. Contents'[fn'] = <<>>
          BY <2>1, <2>2, <3>4
        <4> QED
          BY <4>1
      <3> QED
        BY <1>1, <1>3, <3>4, <3>5, CutKeeps
    <2> QED
      BY <2>3, <2>4, <2>5
  <1> QED
    BY <1>5, <1>6, <1>7, <1>8, <1>9, <1>10, <1>11 DEF Next, Worker

\* Names above the last one given out are not on disk, and the current one gets
\* its first data after it was opened.
LEMMA FreshStep ==
  ASSUME DataInv, [Next]_vars
  PROVE  FreshInv'
  <1>1. NameInv /\ NameInv'
    BY NamesStep DEF DataInv, TypeInv
  <1>2. /\ \A f \in Files : f > used => disk[f] = <<>>
        /\ wpc = "open" => disk[fn] = <<>>
    BY DEF DataInv, FreshInv
  <1>3. \A f \in Files \ {fn} : disk'[f] = disk[f]
    BY <1>1, OnlyCurrentChanges DEF NameInv, vars
  <1>4. used \in Nat /\ fn \in 0 .. used
    BY <1>1, BoundsAssumption DEF NameInv
  <1>5. used' \in {used, used + 1} /\ (used' # used => RotateName)
    BY DEF Next, Worker, Store, StoreBegin, StoreFilled, StoreEmpty, StoreCancelled, StoreReturn,
       workerVars, vars, Receive, ReceivePanics, ProcessDies, Idle, RotateClose, RotatePanics,
       RotateName, RotateOpen, WorkerExit, Stop, Crash, Start
  <1>6. \A f \in Files : f > used' => disk'[f] = <<>>
    <2> SUFFICES ASSUME NEW f \in Files, f > used' PROVE disk'[f] = <<>>
      OBVIOUS
    <2>1. f \in Nat /\ f > used /\ f # fn
      BY <1>4, <1>5 DEF Files
    <2> QED
      BY <1>2, <1>3, <2>1
  <1>7. wpc' = "open" => disk'[fn'] = <<>>
    <2>1. CASE RotateName
      <3>1. fn' = used + 1 /\ used < NFiles /\ disk' = disk
        BY <2>1 DEF RotateName
      <3>2. used + 1 \in Files /\ used + 1 > used
        BY <1>4, <3>1, BoundsAssumption DEF Files
      <3> QED
        BY <1>2, <3>1, <3>2
    <2>2. CASE UNCHANGED <<wpc, disk, fn>> \/ wpc' # "open"
      BY <1>2, <2>2
    <2>3. CASE (\E r \in Requests : Store(r)) \/ Stop \/ UNCHANGED vars
      BY <2>2, <2>3 DEF Store, StoreBegin, StoreFilled, StoreEmpty, StoreCancelled, StoreReturn,
         workerVars, vars, Stop
    <2>4. CASE (\E r \in Requests : Receive(r) \/ ReceivePanics(r)) \/ Idle \/ RotateClose
      BY <2>2, <2>4 DEF Receive, ReceivePanics, ProcessDies, Idle, RotateClose
    <2>5. CASE RotatePanics \/ RotateOpen \/ WorkerExit \/ Crash \/ Start
      BY <2>2, <2>5 DEF RotatePanics, RotateOpen, WorkerExit, Crash, ProcessDies, Start
    <2> QED
      BY <2>1, <2>3, <2>4, <2>5 DEF Next, Worker
  <1> QED
    BY <1>6, <1>7 DEF FreshInv

LEMMA DataStep == DataInv /\ [Next]_vars => DataInv'
  <1> SUFFICES ASSUME DataInv, [Next]_vars PROVE DataInv'
    OBVIOUS
  <1>1. TypeInv'
    BY TypeStep DEF DataInv
  <1> QED
    BY <1>1, FreshStep, ContentStep DEF DataInv

LEMMA DataInit == Init => DataInv
  <1> SUFFICES ASSUME Init PROVE DataInv
    OBVIOUS
  <1>1. TypeInv
    BY TypeInit
  <1>2. path = NilPath /\ wpc = "down" /\ \A f \in Files : disk[f] = <<>>
    BY DEF Init
  <1>3. FreshInv
    BY <1>2 DEF FreshInv
  <1>4. ~Live
    BY <1>2, EmptyPaths DEF Live
  <1>5. \A f \in Files : Contents[f] = <<>>
    BY <1>2, <1>4 DEF Contents
  <1>6. Clean(Contents, req)
    <2>1. <<>> \in Seq(Pieces) /\ Len(<<>>) = 0 /\ 1 .. 0 = {}
      OBVIOUS
    <2> QED
      BY <1>5, <2>1 DEF Clean, Whole, Distinct, Taken, Disjoint
  <1> QED
    BY <1>1, <1>3, <1>4, <1>6 DEF DataInv, ContentInv
-----------------------------------------------------------------------------
(***************************************************************************)
(* Reader.                                                                 *)
(***************************************************************************)
\* Of a file that holds whole buffers a Reader gets every one.
LEMMA RecordsOfWhole ==
  ASSUME NEW d \in Seq(Pieces), Whole(d)
  PROVE  /\ Len(d) \div 2 \in Nat /\ Len(d) <= 2 * (Len(d) \div 2) + 1
         /\ Records(d) = [j \in 1 .. Len(d) \div 2 |-> d[2 * j][1]]
         /\ \A j \in 1 .. Len(d) \div 2 : 2 * j \in 1 .. Len(d) /\ d[2 * j] = <<d[2 * j][1], 2>>
  <1>1. PICK len, n : len = Len(d) /\ n = Len(d) \div 2
    OBVIOUS
  <1>2. len \in Nat /\ n \in Nat /\ 2 * n <= len /\ len <= 2 * n + 1
    <2>1. len \in Nat /\ n = len \div 2
      BY <1>1, LenProperties
    <2> QED
      BY <2>1
  <1>3. ASSUME NEW j \in 1 .. n
        PROVE  RecordAt(d, j) /\ 2 * j \in 1 .. len /\ d[2 * j] = <<d[2 * j][1], 2>>
    <2>1. /\ 2 * j \in 1 .. len /\ 2 * j - 1 \in 1 .. len /\ 2 * j <= len
          /\ (2 * j) % 2 = 0 /\ (2 * j - 1) % 2 = 1
      BY <1>2
    <2>2. d[2 * j - 1][2] = 1 /\ d[2 * j] = <<d[2 * j - 1][1], 2>>
      BY <1>1, <2>1 DEF Whole
    <2> QED
      BY <1>1, <2>1, <2>2 DEF RecordAt
  <1>4. ~RecordAt(d, n + 1)
    BY <1>1, <1>2 DEF RecordAt
  <1>5. (CHOOSE k \in 0 .. Len(d) \div 2 :
           ~RecordAt(d, k + 1) /\ \A j \in 1 .. k : RecordAt(d, j)) = n
    <2>1. n \in 0 .. n /\ ~RecordAt(d, n + 1) /\ \A j \in 1 .. n : RecordAt(d, j)
      BY <1>2, <1>3, <1>4
    <2>2. ASSUME NEW k \in 0 .. n, ~RecordAt(d, k + 1) PROVE k = n
      <3>1. k < n => k + 1 \in 1 .. n
        BY <1>2
      <3> QED
        BY <1>2, <1>3, <2>2, <3>1
    <2> QED
      BY <1>1, <2>1, <2>2
  <1>6. Records(d) = [j \in 1 .. n |-> d[2 * j][1]]
    BY <1>5 DEF Records
  <1> QED
    BY <1>1, <1>2, <1>3, <1>6

LEMMA RecordIsWhole ==
  ASSUME NEW d \in Seq(Pieces), Whole(d), NEW j \in DOMAIN Records(d)
  PROVE  j \in Nat /\ 2 * j \in 1 .. Len(d) /\ d[2 * j] = <<Records(d)[j], 2>>
  <1>1. PICK n : n = Len(d) \div 2
    OBVIOUS
  <1>2. /\ Records(d) = [i \in 1 .. n |-> d[2 * i][1]]
        /\ \A i \in 1 .. n : 2 * i \in 1 .. Len(d) /\ d[2 * i] = <<d[2 * i][1], 2>>
    BY <1>1, RecordsOfWhole
  <1>3. j \in 1 .. n /\ Records(d)[j] = d[2 * j][1]
    BY <1>2
  <1>4. 2 * j \in 1 .. Len(d) /\ d[2 * j] = <<d[2 * j][1], 2>>
    BY <1>2, <1>3
  <1> QED
    BY <1>3, <1>4

\* The contents are clean, so the files are, which hold the beginnings of them.
LEMMA DiskIsClean ==
  ASSUME DataInv
  PROVE  Clean(disk, req)
  <1>1. Clean(Contents, req) /\ ContentsOK
    BY ContentsTyped DEF DataInv, ContentInv
  <1>2. req \in [Requests -> Calls] /\ disk \in [Files -> Seq(Pieces)]
    BY DEF DataInv, TypeInv, TypeOK
  <1>3. \A r \in Requests : req[r].n <= req[r].n
    BY <1>2, BoundsAssumption DEF Calls
  <1>4. \A f \in Files : disk[f] \in Seq(Pieces) /\ Begins(disk[f], Contents[f])
    BY <1>1, <1>2 DEF ContentsOK
  <1> QED
    BY <1>1, <1>2, <1>3, <1>4, CutIsClean

LEMMA CleanIsRead ==
  ASSUME Clean(disk, req)
  PROVE  ReaderGetsAll
  <1>1. ASSUME NEW f \in Files
        PROVE  /\ disk[f] \in Seq(Pieces) /\ Whole(disk[f]) /\ Distinct(disk[f])
    BY DEF Clean
  <1>2. ASSUME NEW f \in Files PROVE Len(disk[f]) <= 2 * Len(Records(disk[f])) + 1
    <2>1. PICK n : n = Len(disk[f]) \div 2
      OBVIOUS
    <2>2. n \in Nat /\ Len(disk[f]) <= 2 * n + 1 /\ Records(disk[f]) = [j \in 1 .. n |-> disk[f][2 * j][1]]
      BY <1>1, <2>1, RecordsOfWhole
    <2>3. Len(Records(disk[f])) = n
      BY <2>2
    <2> QED
      BY <2>2, <2>3
  <1>3. ASSUME NEW f \in Files, NEW g \in Files,
               NEW j \in DOMAIN Records(disk[f]), NEW k \in DOMAIN Records(disk[g]),
               Records(disk[f])[j] = Records(disk[g])[k]
        PROVE  f = g /\ j = k
    <2>1. /\ j \in Nat /\ 2 * j \in 1 .. Len(disk[f])
          /\ disk[f][2 * j] = <<Records(disk[f])[j], 2>>
      BY <1>1, RecordIsWhole
    <2>2. /\ k \in Nat /\ 2 * k \in 1 .. Len(disk[g])
          /\ disk[g][2 * k] = <<Records(disk[g])[k], 2>>
      BY <1>1, RecordIsWhole
    <2>3. disk[f][2 * j] = disk[g][2 * k]
      BY <1>3, <2>1, <2>2
    <2>4. f = g
      BY <2>1, <2>2, <2>3 DEF Clean, Disjoint
    <2>5. 2 * j = 2 * k
      BY <1>1, <2>1, <2>2, <2>3, <2>4 DEF Distinct
    <2> QED
      BY <2>1, <2>2, <2>4, <2>5
  <1> DEFINE recs == [f \in Files |-> Records(disk[f])]
  <1>4. \A f \in Files : recs[f] = Records(disk[f])
    OBVIOUS
  <1>5. ASSUME NEW f \in Files, NEW g \in 1 .. f PROVE g \in Files
    BY <1>5, BoundsAssumption DEF Files
  <1>6. \A f \in Files : Len(disk[f]) <= 2 * Len(recs[f]) + 1
    BY <1>2, <1>4
  <1>7. ASSUME NEW f \in Files, NEW g \in 1 .. f, NEW j \in DOMAIN recs[f], NEW k \in DOMAIN recs[g],
               recs[f][j] = recs[g][k]
        PROVE  f = g /\ j = k
    <2>1. g \in Files /\ recs[f] = Records(disk[f]) /\ recs[g] = Records(disk[g])
      BY <1>4, <1>5
    <2> QED
      BY <1>3, <1>7, <2>1
  <1>8. ReaderGetsAll =
          \A f \in Files :
            /\ Len(disk[f]) <= 2 * Len(recs[f]) + 1
            /\ \A g \in 1 .. f : \A j \in DOMAIN recs[f], k \in DOMAIN recs[g] :
                 recs[f][j] = recs[g][k] => f = g /\ j = k
    BY DEF ReaderGetsAll
  <1> HIDE DEF recs
  <1> QED
    BY <1>6, <1>7, <1>8

\* Whatever failed or crashed, and however often, the records that a Reader gets
\* from the chunk files are all that were written whole, each of them once.
THEOREM ReaderSafe == Spec => []ReaderGetsAll
  <1>1. DataInv => ReaderGetsAll
    BY DiskIsClean, CleanIsRead
  <1> QED
    BY <1>1, DataInit, DataStep, PTL DEF Spec
-----------------------------------------------------------------------------
(***************************************************************************)
(* StoreSync.                                                              *)
(***************************************************************************)
\* Nothing is removed from a file, or overwritten.
LEMMA FilesGrow ==
  ASSUME TypeInv, [Next]_vars
  PROVE  \A f \in Files : Begins(disk[f], disk'[f])
  <1>1. TypeOK /\ PathInv /\ CallInv
    BY DEF TypeInv
  <1>2. ASSUME disk' = disk PROVE \A f \in Files : Begins(disk[f], disk'[f])
    BY <1>1, <1>2, BeginsSelf DEF TypeOK
  <1>3. CASE (\E r \in Requests : Store(r)) \/ Stop \/ Start \/ UNCHANGED vars
    BY <1>2, <1>3 DEF Store, StoreBegin, StoreFilled, StoreEmpty, StoreCancelled, StoreReturn,
       workerVars, vars, Stop, Start
  <1>4. CASE (\E r \in Requests : ReceivePanics(r)) \/ RotatePanics \/ Crash \/ RotateName \/ RotateOpen
    BY <1>2, <1>4 DEF ReceivePanics, RotatePanics, Crash, RotateName, RotateOpen
  <1>5. ASSUME NEW r \in Requests, Receive(r) PROVE \A f \in Files : Begins(disk[f], disk'[f])
    <2>1. PICK s : ReceivedAs(r, s)
      BY <1>1, <1>5, ReceiveFacts
    <2>2. Body(<<r, req[r].i>>) \in Seq(Pieces)
      BY <1>1, <1>5, ReceiveFacts, BodyFacts
    <2> QED
      BY <1>1, <2>1, <2>2, FileStep DEF ReceivedAs, Keep
  <1>6. CASE Idle
    <2>1. PICK s : Sends(State, s, <<>>) /\ Keep(s)
      BY <1>1, <1>6, IdleFacts
    <2> QED
      BY <1>1, <2>1, EmptyData, FileStep DEF Keep
  <1>7. CASE RotateClose \/ WorkerExit
    <2>1. PICK s : /\ Sends(State, s, <<>>)
                   /\ disk' = IF fn \in Files THEN [disk EXCEPT ![fn] = s.file] ELSE disk
      BY <1>1, <1>7, CloseFacts
    <2> QED
      BY <1>1, <2>1, EmptyData, FileStep
  <1> QED
    BY <1>3, <1>4, <1>5, <1>6, <1>7 DEF Next, Worker

LEMMA BeginningInRange ==
  ASSUME NEW c \in Seq(Pieces), NEW d \in Seq(Pieces), Begins(c, d)
  PROVE  Range(c) \subseteq Range(d)
  <1>1. /\ DOMAIN c = 1 .. Len(c) /\ DOMAIN d = 1 .. Len(d) /\ Len(c) \in Nat /\ Len(d) \in Nat
    BY LenProperties
  <1> SUFFICES ASSUME NEW k \in 1 .. Len(c) PROVE c[k] \in Range(d)
    BY <1>1 DEF Range
  <1>2. k \in DOMAIN d /\ c[k] = d[k]
    BY <1>1 DEF Begins
  <1> QED
    BY <1>2 DEF Range

LEMMA WrittenStays ==
  ASSUME TypeInv, TypeInv', [Next]_vars, NEW m, Written(m)
  PROVE  Written(m)'
  <1>1. PICK f \in Files : Range(Body(m)) \subseteq Range(disk[f])
    BY DEF Written
  <1>2. disk[f] \in Seq(Pieces) /\ disk'[f] \in Seq(Pieces)
    BY DEF TypeInv, TypeOK
  <1>3. Range(disk[f]) \subseteq Range(disk'[f])
    BY <1>2, FilesGrow, BeginningInRange
  <1>4. Range(Body(m)) \subseteq Range(disk'[f])
    BY <1>1, <1>3
  <1> QED
    BY <1>4 DEF Written

LEMMA AppendedIsWritten ==
  ASSUME NEW c \in Seq(Pieces), NEW m \in Messages
  PROVE  Range(Body(m)) \subseteq Range(c \o Body(m))
  <1>1. PICK d : d = c \o Body(m)
    OBVIOUS
  <1>2. Extended(d, c, m) /\ Len(c) \in Nat
    BY <1>1, BodyExtends, LenProperties
  <1>3. d \in Seq(Pieces) /\ DOMAIN d = 1 .. Len(c) + 2
    BY <1>2, LenProperties DEF Extended
  <1>4. Len(c) + 1 \in DOMAIN d /\ Len(c) + 2 \in DOMAIN d
    BY <1>2, <1>3
  <1>5. <<m, 1>> \in Range(d) /\ <<m, 2>> \in Range(d)
    BY <1>2, <1>4 DEF Range, Extended
  <1>6. Range(Body(m)) = {<<m, 1>>, <<m, 2>>}
    BY DEF Body, Range
  <1> QED
    BY <1>1, <1>5, <1>6

\* A buffer of StoreSync that is taken without an error is flushed to the file.
LEMMA ConfirmedIsWritten ==
  ASSUME Algo = "none", TypeInv, TypeInv', NEW r \in Sync, Receive(r), req'[r].failed = FALSE,
         NEW i, i = req[r].n + 1
  PROVE  Written(<<r, i>>)'
  <1>1. TypeOK /\ PathInv /\ CallInv /\ r \in Requests
    BY RequestsAssumption DEF TypeInv
  <1>2. PICK m : m = <<r, req[r].i>>
    OBVIOUS
  <1>3. m \in Messages /\ m = <<r, i>> /\ Body(m) \in Seq(Pieces)
    BY <1>1, <1>2, ReceiveFacts, BodyFacts
  <1>4. PICK s : ReceivedAs(r, s)
    BY <1>1, ReceiveFacts
  <1>5. Sends(State, s, Body(m)) /\ Keep(s) /\ s.err \in BOOLEAN
    BY <1>2, <1>4 DEF ReceivedAs
  <1>6. s.err = FALSE
    <2>1. req \in [Requests -> Calls] /\ CallOK(r, req[r]) /\ req[r].pc \in {"send", "last"}
      BY <1>1 DEF TypeOK, CallInv, Receive
    <2>2. req' = [req EXCEPT ![r] = AfterSend(r, Confirmed(r, req[r], s.err))]
      BY <1>4 DEF ReceivedAs
    <2>3. PICK e : e = AfterSend(r, Confirmed(r, req[r], s.err))
      OBVIOUS
    <2>4. r \in Sync /\ e.failed = FALSE => s.err = FALSE
      BY <1>1, <1>5, <2>1, <2>3, TakenStep
    <2>5. req'[r] = e
      BY <1>1, <2>1, <2>2, <2>3
    <2> QED
      BY <2>4, <2>5
  <1>7. path.dst = TRUE /\ s.buf = <<>>
    BY <1>4, <1>6 DEF ReceivedAs
  <1>8. State.dst = TRUE /\ State.err = FALSE /\ State \in States
    BY <1>1, <1>5, <1>6, <1>7, StateFacts DEF Sends, States
  <1>9. Stream(s) = Stream(State) \o Body(m) /\ s.cwr = <<>> /\ s.file \in Seq(Pieces)
    BY <1>5, <1>6, <1>8 DEF Sends, PathOK, States
  <1>10. s.file = Stream(State) \o Body(m)
    <2>1. (s.file \o <<>>) \o <<>> = s.file
      BY <1>9, ConcatEmptySeq
    <2> QED
      BY <1>7, <1>9, <2>1 DEF Stream
  <1>11. fn \in Files /\ disk'[fn] = s.file
    BY <1>1, <1>5, <1>7 DEF PathInv, Keep, TypeOK
  <1>12. Stream(State) \in Seq(Pieces)
    BY <1>8, EmptyData, StreamFacts
  <1>13. Range(Body(m)) \subseteq Range(disk'[fn])
    BY <1>3, <1>10, <1>11, <1>12, AppendedIsWritten
  <1>14. Written(m)'
    BY <1>11, <1>13 DEF Written
  <1> QED
    BY <1>3, <1>14

LEMMA SyncStep ==
  ASSUME Algo = "none", TypeInv, TypeInv', SyncInv, [Next]_vars
  PROVE  SyncInv'
  <1> SUFFICES ASSUME NEW r \in Sync, req'[r].failed = FALSE, NEW i \in 1 .. req'[r].n
               PROVE  Written(<<r, i>>)'
    BY DEF SyncInv
  <1>1. TypeOK /\ PathInv /\ CallInv /\ r \in Requests /\ req[r] \in Calls
    BY RequestsAssumption DEF TypeInv, TypeOK
  <1>2. CallStep(r, req[r], req'[r]) /\ (req'[r].n = req[r].n \/ Receive(r))
    BY <1>1, CallsStep
  <1>3. req[r].failed = FALSE /\ req'[r].n \in {req[r].n, req[r].n + 1} /\ req[r].n \in Nat
    BY <1>1, <1>2, BoundsAssumption DEF CallStep, Calls
  <1>4. CASE i \in 1 .. req[r].n
    <2>1. Written(<<r, i>>)
      BY <1>3, <1>4 DEF SyncInv
    <2> QED
      BY <2>1, WrittenStays
  <1>5. CASE i = req[r].n + 1
    <2>1. Receive(r)
      BY <1>2, <1>3, <1>5
    <2> QED
      BY <1>5, <2>1, ConfirmedIsWritten
  <1> QED
    BY <1>3, <1>4, <1>5

\* Without compression: a StoreSync that returned without an error has all its
\* buffers on disk, whatever fails or crashes before and after.
THEOREM SyncSafe ==
  ASSUME Algo = "none"
  PROVE  Spec => []SyncIsDurable
  <1> DEFINE Inv == TypeInv /\ SyncInv
  <1>1. Init => Inv
    <2> SUFFICES ASSUME Init PROVE Inv
      OBVIOUS
    <2>1. TypeInv
      BY TypeInit
    <2>2. SyncInv
      BY RequestsAssumption DEF Init, SyncInv
    <2> QED
      BY <2>1, <2>2
  <1>2. Inv /\ [Next]_vars => Inv'
    <2> SUFFICES ASSUME Inv, [Next]_vars PROVE Inv'
      OBVIOUS
    <2>1. TypeInv'
      BY TypeStep
    <2> QED
      BY <2>1, SyncStep
  <1>3. Inv => SyncIsDurable
    <2> SUFFICES ASSUME Inv, NEW r \in Sync, req[r].pc = "ok", r \notin Dropped,
                        NEW i \in 1 .. req[r].i
                 PROVE  Written(<<r, i>>)
      BY DEF SyncIsDurable
    <2>1. CallOK(r, req[r]) /\ r \in Requests
      BY RequestsAssumption DEF TypeInv, CallInv
    <2>2. req[r].failed = FALSE /\ req[r].n = req[r].i
      BY <2>1 DEF CallOK
    <2> QED
      BY <2>2 DEF SyncInv
  <1> QED
    BY <1>1, <1>2, <1>3, PTL DEF Spec
=============================================================================
