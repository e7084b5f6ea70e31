---------------------------- MODULE SpoolProofs ----------------------------
(***************************************************************************)
(* TLAPS proofs about Spool: for any set of files, tables and threads, any *)
(* queue size and number of restarts, and any combination of faults.       *)
(***************************************************************************)
EXTENDS SpoolInv, TLAPS

\* The steps of the specification, flattened: one disjunct per action.
LinkAct(f)   == LinkStat(f) \/ LinkStatMark(f) \/ LinkSymlink(f) \/ LinkFails(f)
                \/ LinkStatFails(f)
CleanAct     == CleanerTick \/ CleanupFile \/ CleanupStat \/ CleanupStatFails \/ CleanupRemove
                \/ CleanupUnmark \/ CleanupDirs \/ CleanupReadDir \/ CleanupEval \/ CleanupEvalFails
                \/ CleanupDirDone \/ CleanupUnlink \/ CleanupDone \/ CleanupFails
ScanAct(t)   == ScanReadDir(t) \/ ScanLstat(t) \/ ScanClaim(t) \/ ScanSend(t)
                \/ ScanDone(t)
UploadAct(w) == Take(w) \/ Open(w) \/ InsertOK(w) \/ InsertFails(w)
                \/ MarkAsFinished(w) \/ RenameFails(w) \/ RemoveFromQueue(w)
Step ==
  \/ Start \/ LinkAllNext \/ LinkAllDone \/ Crash \/ Exit \/ StopWriter
  \/ WriterStopped \/ RotateSwitch \/ OpenFile \/ OpenFails \/ WorkerExit
  \/ \E f \in Files : LinkAct(f)
  \/ CleanAct
  \/ \E t \in Tables : ScanAct(t)
  \/ \E w \in Tables \X Threads : UploadAct(w)

\* Next is the disjunction of those actions.
LEMMA NextIsStep == Next => Step
  BY DEF Next, Step, Process, Worker, Linker, Cleaner, Scanner, Uploader,
         LinkStep, CleanupStep, ScanStep, LinkAct, CleanAct, ScanAct, UploadAct

USE FilesAssumption, TablesAssumption, QueueAssumption, StartsAssumption,
    FaultsAssumption DEF NoFile, OnFinish, InQueue

\* Updating a function at one point keeps its type.
LEMMA UpdateTyped ==
  ASSUME NEW S, NEW T, NEW g \in [S -> T], NEW x \in S, NEW v \in T
  PROVE  [g EXCEPT ![x] = v] \in [S -> T]
  OBVIOUS

\* The records of idle actors are well typed.
LEMMA IdleTypes ==
  /\ IdleLinker \in LinkerState
  /\ IdleCleaner \in CleanerState
  /\ IdleScan \in ScanState
  /\ IdleWorker \in WorkerState
  BY DEF IdleLinker, IdleCleaner, IdleScan, IdleWorker, LinkerState,
         CleanerState, ScanState, WorkerState, Entries, NoEntry

\* A Link call that starts or goes on to a set of tables is well typed.
LEMMA StartLinkType ==
  ASSUME NEW S \in SUBSET Tables
  PROVE  StartLink(S) \in LinkerState
  BY DEF StartLink, LinkerState

\* The types of the process that is gone.
LEMMA ProcessGoneType == TypeOK /\ ProcessGone => TypeOK'
  <1> SUFFICES ASSUME TypeOK, ProcessGone PROVE TypeOK'
    OBVIOUS
  <1>1. \A t \in Tables : <<>> \in Seq(Files)
    OBVIOUS
  <1> QED
    BY <1>1, IdleTypes DEF TypeOK, ProcessGone, dirVars, Phases

\* Every action keeps the types.
LEMMA TypeStep == IInv /\ Step => TypeOK'
  <1> SUFFICES ASSUME TypeOK, NameInv, CleanInv, QueueInv, UploadInv, Step
               PROVE  TypeOK'
    BY DEF IInv
  <1>1. CASE Start
    BY <1>1 DEF Start, TypeOK, dirVars, upVars, Phases
  <1>2. CASE LinkAllNext
    <2>1. StartLink(active) \in LinkerState
      BY StartLinkType DEF TypeOK
    <2> QED
      BY <1>2, <2>1 DEF LinkAllNext, TypeOK, dirVars, procVars, upVars
  <1>3. CASE LinkAllDone
    <2>1. AtFile(data) \in CleanerState
      BY DEF AtFile, TypeOK, CleanerState, Entries
    <2> QED
      BY <1>3, <2>1 DEF LinkAllDone, TypeOK, dirVars, writerVars, upVars, Phases
  <1>4. CASE Crash \/ Exit
    BY <1>4, ProcessGoneType DEF Crash, Exit
  <1>5. CASE StopWriter \/ WriterStopped
    BY <1>5 DEF StopWriter, WriterStopped, TypeOK, dirVars, writerVars, upVars, Phases
  <1>6. CASE RotateSwitch
    <2>1. StartLink(active) \in LinkerState
      BY StartLinkType DEF TypeOK
    <2> QED
      BY <1>6, <2>1 DEF RotateSwitch, TypeOK, dirVars, procVars, upVars
  <1>7. CASE OpenFile \/ OpenFails \/ WorkerExit
    BY <1>7 DEF OpenFile, OpenFails, WorkerExit, TypeOK, NameInv,
                dirVars, procVars, upVars
  <1>8. ASSUME NEW f \in Files,
               LinkAct(f)
        PROVE  TypeOK'
    <2>1. \A t : StartLink(linker[f].todo \ {t}) \in LinkerState
      BY StartLinkType DEF TypeOK, LinkerState
    <2>2. linker[f] \in LinkerState
      BY DEF TypeOK
    <2>3. CASE LinkStat(f) \/ LinkStatMark(f) \/ LinkStatFails(f)
      <3>1. linker' \in [Files -> LinkerState]
        <4>1. PICK r \in LinkerState : linker' = [linker EXCEPT ![f] = r]
          <5>1. CASE LinkStat(f)
            <6>1. PICK t \in linker[f].todo :
                    \/ linker' = [linker EXCEPT ![f] = StartLink(linker[f].todo \ {t})]
                    \/ linker' = [linker EXCEPT ![f] =
                                    [pc |-> "statMark", todo |-> linker[f].todo, t |-> t]]
              BY <5>1 DEF LinkStat, NextTable
            <6>2. [pc |-> "statMark", todo |-> linker[f].todo, t |-> t] \in LinkerState
              BY <2>2 DEF LinkerState
            <6> QED
              BY <2>1, <6>1, <6>2
          <5>2. CASE LinkStatMark(f)
            <6>1. [pc |-> "symlink", todo |-> linker[f].todo, t |-> linker[f].t] \in LinkerState
              BY <2>2 DEF LinkerState
            <6> QED
              BY <2>1, <5>2, <6>1 DEF LinkStatMark, NextTable
          <5>3. CASE LinkStatFails(f)
            <6>1. PICK t : linker' = [linker EXCEPT ![f] = StartLink(linker[f].todo \ {t})]
              BY <5>3 DEF LinkStatFails, NextTable
            <6> QED
              BY <2>1, <6>1
          <5> QED
            BY <2>3, <5>1, <5>2, <5>3
        <4> QED
          BY <4>1 DEF TypeOK
      <3> QED
        BY <2>3, <3>1 DEF LinkStat, LinkStatMark, LinkStatFails, TypeOK, dirVars, procVars,
               writerVars, upVars
    <2>5. CASE LinkSymlink(f)
      BY <2>1, <2>2, <2>5 DEF LinkSymlink, NextTable, TypeOK, procVars, writerVars, upVars
    <2>6. CASE LinkFails(f)
      BY <2>6, IdleTypes DEF LinkFails, LinkReturnsErr, TypeOK, Phases, dirVars, upVars
    <2> QED
      BY <1>8, <2>3, <2>5, <2>6 DEF LinkAct
  <1>9. CASE CleanerTick \/ CleanupFile \/ CleanupDirs \/ CleanupReadDir \/ CleanupStat \/ CleanupStatFails
             \/ CleanupRemove \/ CleanupEval \/ CleanupEvalFails \/ CleanupDirDone \/ CleanupDone \/ CleanupFails
    <2>1. \A t \in Tables : DirEntries(t) \subseteq Entries
      BY DEF DirEntries, Entries, TypeOK
    <2>2. cleaner \in CleanerState
      BY DEF TypeOK
    <2>3. CASE CleanerTick
      BY <2>3 DEF CleanerTick, CleanupGoesOn, TypeOK, CleanerState, AtFile, Entries,
             dirVars, procVars, writerVars, upVars
    <2>4. CASE CleanupFile
      <3>1. cleaner' \in CleanerState
        BY <2>2, <2>4, IdleTypes DEF CleanupFile, CleanupGoesOn, CleanupReturns, TypeOK,
               CleanerState, AtTables, Entries
      <3> QED
        BY <2>4, <3>1 DEF CleanupFile, CleanupGoesOn, CleanupReturns, TypeOK,
               Phases, dirVars, procVars, writerVars, upVars
    <2>5. CASE CleanupDirs
      BY <2>5 DEF CleanupDirs, CleanupGoesOn, TypeOK, CleanerState, AtDirs, Entries,
             dirVars, procVars, writerVars, upVars
    <2>6. CASE CleanupReadDir
      <3>1. cleaner' \in CleanerState
        BY <2>1, <2>2, <2>6 DEF CleanupReadDir, CleanupGoesOn, CleanerState, AtEntries,
               AtUnlink, Entries
      <3> QED
        BY <2>6, <3>1 DEF CleanupReadDir, CleanupGoesOn, TypeOK, dirVars, procVars,
               writerVars, upVars
    <2>7. CASE CleanupStat \/ CleanupStatFails
      <3>1. cleaner' \in CleanerState
        BY <2>2, <2>7 DEF CleanupStat, CleanupStatFails, MarkSeen, CleanupGoesOn, CleanInv,
               CleanFileInv, CleanerState, AtTables, AtFile, Entries
      <3> QED
        BY <2>7, <3>1 DEF CleanupStat, CleanupStatFails, MarkSeen, CleanupGoesOn, TypeOK,
               dirVars, procVars, writerVars, upVars
    <2>8. CASE CleanupRemove
      <3>1. cleaner' \in CleanerState
        BY <2>2, <2>8 DEF CleanupRemove, CleanupGoesOn, CleanInv, CleanFileInv, TypeOK,
               CleanerState, AtTables, Entries
      <3> QED
        BY <2>8, <3>1 DEF CleanupRemove, CleanupGoesOn, TypeOK, dirVars, procVars,
               writerVars, upVars
    <2>9. CASE CleanupEval \/ CleanupEvalFails
      <3>0. cleaner.t \in Tables
        BY <2>9 DEF CleanupEval, CleanupEvalFails, CleanInv, CleanDirInv
      <3>1. cleaner' \in CleanerState
        BY <2>2, <2>9, <3>0 DEF CleanupEval, CleanupEvalFails, CleanupGoesOn, CleanerState,
               AtEntries, AtUnlink, Entries
      <3> QED
        BY <2>9, <3>1 DEF CleanupEval, CleanupEvalFails, CleanupGoesOn, TypeOK, dirVars,
               procVars, writerVars, upVars
    <2>10. CASE CleanupDirDone
      <3>1. cleaner' \in CleanerState
        BY <2>2, <2>10 DEF CleanupDirDone, CleanupGoesOn, CleanerState, AtDirs, Entries
      <3> QED
        BY <2>10, <3>1 DEF CleanupDirDone, CleanupGoesOn, TypeOK, dirVars, procVars,
               writerVars, upVars
    <2>11. CASE CleanupDone \/ CleanupFails
      BY <2>11, IdleTypes DEF CleanupDone, CleanupFails, CleanupReturns, TypeOK, Phases,
             dirVars, upVars
    <2> QED
      BY <1>9, <2>3, <2>4, <2>5, <2>6, <2>7, <2>8, <2>9, <2>10, <2>11
  <1>10. CASE CleanupUnmark \/ CleanupUnlink
    <2>1. cleaner \in CleanerState
      BY DEF TypeOK
    <2>2. /\ link' \in [Tables -> SUBSET Files]
          /\ mark' \in [Tables -> SUBSET Files]
      <3>1. CASE CleanupUnmark
        <4>1. PICK t \in cleaner.tabs : mark' = [mark EXCEPT ![t] = @ \ {cleaner.f}]
          BY <3>1 DEF CleanupUnmark
        <4>2. t \in Tables /\ mark[t] \ {cleaner.f} \in SUBSET Files
          BY <2>1 DEF CleanerState, TypeOK
        <4> QED
          BY <3>1, <4>1, <4>2, UpdateTyped DEF CleanupUnmark, TypeOK
      <3>2. CASE CleanupUnlink
        BY <3>2 DEF CleanupUnlink, TypeOK
      <3> QED
        BY <1>10, <3>1, <3>2
    <2>3. cleaner' \in CleanerState
      <3>1. CASE CleanupUnmark
        BY <2>1, <3>1, IdleTypes DEF CleanupUnmark, CleanupGoesOn, CleanupReturns, CleanInv,
               CleanFileInv,
               CleanerState, AtFile, AtTables, Entries
      <3>2. CASE CleanupUnlink
        BY <2>1, <3>2, IdleTypes DEF CleanupUnlink, CleanupGoesOn, CleanupReturns,
               CleanerState, AtEntries, AtUnlink, Entries
      <3> QED
        BY <1>10, <3>1, <3>2
    <2>4. CASE CleanupUnmark
      BY <2>2, <2>3, <2>4 DEF CleanupUnmark, CleanupGoesOn, CleanupReturns,
             TypeOK, Phases, procVars, writerVars, upVars
    <2>5. CASE CleanupUnlink
      BY <2>2, <2>3, <2>5 DEF CleanupUnlink, CleanupGoesOn, CleanupReturns,
             TypeOK, Phases, procVars, writerVars, upVars
    <2> QED
      BY <1>10, <2>4, <2>5
  <1>11. ASSUME NEW t \in Tables,
               ScanAct(t)
         PROVE  TypeOK'
    <2>1. scan[t] \in ScanState
      BY DEF TypeOK
    <2>2. \A S \in SUBSET Files, f \in Files, pc \in {"lstat", "claim", "send"} :
            /\ [pc |-> pc, todo |-> S, f |-> NoFile] \in ScanState
            /\ [pc |-> pc, todo |-> S, f |-> f] \in ScanState
      BY DEF ScanState
    <2>3. link[t] \in SUBSET Files /\ scan[t].todo \in SUBSET Files
      BY <2>1 DEF TypeOK, ScanState
    <2>4. scan' \in [Tables -> ScanState]
      <3>1. PICK r \in ScanState : scan' = [scan EXCEPT ![t] = r]
        <4>1. CASE ScanReadDir(t) \/ ScanLstat(t) \/ ScanDone(t)
          <5>1. CASE ScanReadDir(t)
            BY <2>2, <2>3, <5>1 DEF ScanReadDir
          <5>2. CASE ScanLstat(t)
            <6>1. \/ scan' = [scan EXCEPT ![t] = [pc |-> "claim", todo |-> scan[t].todo,
                                                  f |-> NoFile]]
                  \/ scan' = [scan EXCEPT ![t] = IdleScan]
              BY <5>2 DEF ScanLstat
            <6>2. [pc |-> "claim", todo |-> scan[t].todo, f |-> NoFile] \in ScanState
              BY <2>1 DEF ScanState
            <6> QED
              BY <6>1, <6>2, IdleTypes
          <5>3. CASE ScanDone(t)
            BY <5>3, IdleTypes DEF ScanDone
          <5> QED
            BY <4>1, <5>1, <5>2, <5>3
        <4>2. CASE ScanClaim(t)
          <5>1. PICK f \in scan[t].todo :
                  \/ scan' = [scan EXCEPT ![t] = [pc |-> "claim", todo |-> scan[t].todo \ {f},
                                                  f |-> NoFile]]
                  \/ scan' = [scan EXCEPT ![t] = [pc |-> "send", todo |-> scan[t].todo \ {f},
                                                  f |-> f]]
            BY <4>2 DEF ScanClaim
          <5>2. scan[t].todo \ {f} \in SUBSET Files /\ f \in Files
            BY <2>3
          <5> QED
            BY <2>2, <5>1, <5>2
        <4>3. CASE ScanSend(t)
          <5>1. [pc |-> "claim", todo |-> scan[t].todo, f |-> NoFile] \in ScanState
            BY <2>1 DEF ScanState
          <5> QED
            BY <4>3, <5>1 DEF ScanSend
        <4> QED
          BY <1>11, <4>1, <4>2, <4>3 DEF ScanAct
      <3> QED
        BY <3>1 DEF TypeOK
    <2>5. CASE ScanReadDir(t) \/ ScanLstat(t) \/ ScanDone(t)
      BY <2>4, <2>5 DEF ScanReadDir, ScanLstat, ScanDone, TypeOK,
             dirVars, procVars, writerVars
    <2>7. CASE ScanClaim(t)
      <3>1. PICK f \in Files : \/ inQueue' = [inQueue EXCEPT ![t] = inQueue[t] \cup {f}]
                               \/ inQueue' = inQueue
        BY <2>3, <2>7 DEF ScanClaim
      <3>2. [inQueue EXCEPT ![t] = inQueue[t] \cup {f}] \in [Tables -> SUBSET Files]
        BY DEF TypeOK
      <3>3. inQueue' \in [Tables -> SUBSET Files]
        BY <3>1, <3>2, Zenon DEF TypeOK
      <3> QED
        BY <2>4, <2>7, <3>3 DEF ScanClaim, TypeOK, dirVars, procVars, writerVars
    <2>6. CASE ScanSend(t)
      <3>1. scan[t].f \in Files
        BY <2>1, <2>6 DEF ScanSend, QueueInv, QueueInvAt, ScanHolds, TypeOK
      <3> QED
        BY <2>4, <2>6, <3>1 DEF ScanSend, TypeOK, dirVars, procVars, writerVars
    <2> QED
      BY <1>11, <2>5, <2>6, <2>7 DEF ScanAct
  <1>12. ASSUME NEW w \in Tables \X Threads,
                UploadAct(w)
         PROVE  TypeOK'
    <2>1. worker[w] \in WorkerState /\ w[1] \in Tables
      BY DEF TypeOK
    <2>2. CASE Take(w)
      <3>1. Head(queue[w[1]]) \in Files /\ Tail(queue[w[1]]) \in Seq(Files)
        BY <2>1, <2>2 DEF Take, TypeOK
      <3> QED
        BY <2>1, <2>2, <3>1 DEF Take, TypeOK, WorkerState, dirVars, procVars, writerVars
    <2>3. \A pc \in {"insert", "mark", "release"} :
            Goto(w, pc) => worker' \in [Tables \X Threads -> WorkerState]
      <3>1. \A pc \in {"insert", "mark", "release"} :
              [pc |-> pc, f |-> worker[w].f] \in WorkerState
        BY <2>1 DEF WorkerState
      <3> QED
        BY <3>1 DEF Goto, TypeOK
    <2>4. CASE Open(w) \/ RenameFails(w)
      BY <2>3, <2>4 DEF Open, RenameFails, TypeOK, dirVars, procVars, writerVars
    <2>5. CASE InsertOK(w) \/ InsertFails(w)
      <3>1. worker[w].f \in Files
        BY <2>1, <2>5 DEF InsertOK, InsertFails, UploadInv, UploadInvAt, Uploading, TypeOK,
               TW, WorkerState
      <3>2. uploaded' \in [Tables -> SUBSET Files]
        <4>1. [uploaded EXCEPT ![w[1]] = uploaded[w[1]] \cup {worker[w].f}]
                \in [Tables -> SUBSET Files]
          BY <2>1, <3>1 DEF TypeOK
        <4>2. \/ uploaded' = [uploaded EXCEPT ![w[1]] = uploaded[w[1]] \cup {worker[w].f}]
              \/ uploaded' = uploaded
          BY <2>5 DEF InsertOK, InsertFails
        <4> QED
          BY <4>1, <4>2, Zenon DEF TypeOK
      <3> QED
        BY <2>3, <2>5, <3>2 DEF InsertOK, InsertFails, TypeOK, dirVars, procVars, writerVars
    <2>6. CASE MarkAsFinished(w)
      <3>1. worker[w].f \in Files
        BY <2>1, <2>6 DEF MarkAsFinished, UploadInv, UploadInvAt, Uploading, TypeOK, TW
      <3> QED
        BY <2>1, <2>3, <2>6, <3>1 DEF MarkAsFinished, TypeOK, procVars, writerVars
    <2>7. CASE RemoveFromQueue(w)
      BY <2>1, <2>7, IdleTypes DEF RemoveFromQueue, TypeOK, dirVars, procVars, writerVars
    <2> QED
      BY <1>12, <2>2, <2>4, <2>5, <2>6, <2>7 DEF UploadAct
  <1> QED
    BY <1>1, <1>2, <1>3, <1>4, <1>5, <1>6, <1>7, <1>8, <1>9, <1>10, <1>11, <1>12
       DEF Step, CleanAct

\* What a step of the cleaner leaves alone, and how Start's call of Cleanup ends.
LEMMA CleanFrame ==
  ASSUME CleanAct
  PROVE  /\ cleaner.pc # "idle" \/ phase = "up"
         /\ UNCHANGED <<uploaded, starts, active, cur, lall, used, linker, scan, inQueue,
                        queue, worker>>
         /\ \/ phase' = phase /\ wpc' = wpc
            \/ phase = "cleanup" /\ phase' \in {"up", "failed"} /\ cleaner' = IdleCleaner
               /\ wpc' = IF phase' = "up" THEN "rotate" ELSE wpc
  <1> USE DEF CleanAct, CleanerTick, CleanupFile, CleanupStat, CleanupStatFails, MarkSeen, CleanupRemove, CleanupUnmark,
              CleanupDirs, CleanupReadDir, CleanupEval, CleanupEvalFails, CleanupDirDone, CleanupUnlink,
              CleanupDone, CleanupFails
  <1>1. (\E c : CleanupGoesOn(c)) \/ CleanupReturns(TRUE) \/ CleanupReturns(FALSE)
    BY Zenon
  <1>2. UNCHANGED <<uploaded, linker, scan, inQueue, queue, worker>>
    BY DEF upVars
  <1>3. cleaner.pc # "idle" \/ phase = "up"
    OBVIOUS
  <1>4. CASE \E c : CleanupGoesOn(c)
    BY <1>2, <1>3, <1>4 DEF CleanupGoesOn, procVars, writerVars
  <1>5. CASE CleanupReturns(TRUE)
    BY <1>2, <1>3, <1>5 DEF CleanupReturns
  <1>6. CASE CleanupReturns(FALSE)
    BY <1>2, <1>3, <1>6 DEF CleanupReturns
  <1> QED
    BY <1>1, <1>4, <1>5, <1>6

\* What every actor of the uploaders leaves alone.
LEMMA UploaderFrame ==
  ASSUME (\E t \in Tables : ScanAct(t)) \/ (\E w \in Tables \X Threads : UploadAct(w))
  PROVE  UNCHANGED <<data, starts, active, phase, cur, wpc, lall, used, linker, cleaner>>
  BY DEF ScanAct, ScanReadDir, ScanLstat, ScanClaim, ScanSend, ScanDone, UploadAct, Take,
         Open, InsertOK, InsertFails, MarkAsFinished, RenameFails, RemoveFromQueue,
         dirVars, procVars, writerVars

\* A step of Link: the file it works on, and what it leaves alone.
LEMMA LinkFrame ==
  ASSUME TypeOK, NEW f \in Files, LinkAct(f)
  PROVE  /\ Busy(f) /\ \A g \in Files \ {f} : linker'[g] = linker[g]
         /\ UNCHANGED <<data, mark, uploaded, starts, active, cur, wpc, used, cleaner,
                        scan, inQueue, queue, worker>>
         /\ UNCHANGED phase \/ (phase = "linkAll" /\ phase' = "failed" /\ ~Busy(f)')
  <1> USE DEF LinkAct, LinkStat, LinkStatMark, LinkSymlink, LinkFails, LinkStatFails,
              NextTable, LinkReturnsErr, dirVars, procVars, writerVars, upVars
  <1>1. Busy(f) /\ \A g \in Files \ {f} : linker'[g] = linker[g]
    BY DEF TypeOK, Busy
  <1>2. UNCHANGED <<data, mark, uploaded, starts, active, cur, wpc, used, cleaner,
                    scan, inQueue, queue, worker>>
    OBVIOUS
  <1>3. UNCHANGED phase \/ (phase = "linkAll" /\ phase' = "failed" /\ ~Busy(f)')
    BY DEF TypeOK, Busy, IdleLinker
  <1> QED
    BY <1>1, <1>2, <1>3

\* Nothing but LinkAll runs before the writer is up.
LEMMA PhaseStep == IInv /\ Step => PhaseInv'
  <1> SUFFICES ASSUME TypeOK, PhaseInv, NameInv, Step PROVE PhaseInv'
    BY DEF IInv
  <1> USE DEF PhaseInv, Busy, TW
  <1>1. CASE Start
    BY <1>1 DEF Start, dirVars, upVars
  <1>2. CASE LinkAllNext
    <2>1. PICK f \in lall : /\ lall' = lall \ {f}
                            /\ linker' = [linker EXCEPT ![f] = StartLink(active)]
      BY <1>2 DEF LinkAllNext
    <2>2. phase = "linkAll" /\ phase' = phase /\ \A g \in Files : linker[g].pc = "idle"
      BY <1>2 DEF LinkAllNext, NoLinkRunning, procVars
    <2>3. \A g \in Files : linker'[g].pc # "idle" => g = f
      BY <2>1, <2>2 DEF TypeOK
    <2> QED
      BY <1>2, <2>1, <2>2, <2>3 DEF LinkAllNext, dirVars, procVars, upVars
  <1>3. CASE LinkAllDone
    BY <1>3 DEF LinkAllDone, NoLinkRunning, dirVars, writerVars, upVars
  <1>4. CASE Crash \/ Exit
    <2>1. ProcessGone
      BY <1>4 DEF Crash, Exit
    <2>2. \A f \in Files : linker'[f].pc = "idle"
      BY <2>1 DEF ProcessGone, IdleLinker
    <2>3. \A w \in TW : worker'[w].pc = "idle"
      BY <2>1 DEF ProcessGone, IdleWorker
    <2> QED
      BY <2>1, <2>2, <2>3 DEF ProcessGone, IdleCleaner
  <1>5. CASE StopWriter \/ WriterStopped
    BY <1>5 DEF StopWriter, WriterStopped, dirVars, writerVars, upVars
  <1>6. CASE RotateSwitch \/ OpenFile \/ OpenFails \/ WorkerExit
    BY <1>6 DEF RotateSwitch, OpenFile, OpenFails, WorkerExit, WriterRuns, NameInv,
                dirVars, procVars, upVars
  <1>7. ASSUME NEW f \in Files,
               LinkAct(f)
        PROVE  PhaseInv'
    <2>1. Busy(f) /\ \A g \in Files : g # f => linker'[g] = linker[g]
      BY <1>7 DEF LinkAct, LinkStat, LinkStatMark, LinkSymlink, LinkFails, LinkStatFails,
             NextTable,
                  LinkReturnsErr, TypeOK
    <2>2. CASE LinkFails(f)
      BY <2>1, <2>2 DEF LinkFails, LinkReturnsErr, dirVars, upVars, IdleLinker, TypeOK
    <2>3. CASE ~LinkFails(f)
      BY <1>7, <2>1, <2>3 DEF LinkAct, LinkStat, LinkStatMark, LinkSymlink, LinkStatFails,
             dirVars, procVars, writerVars, upVars
    <2> QED
      BY <2>2, <2>3
  <1>8. CASE CleanAct
    BY <1>8, CleanFrame DEF IdleCleaner
  <1>9. ASSUME NEW t \in Tables,
               ScanAct(t)
        PROVE  PhaseInv'
    BY <1>9 DEF ScanAct, ScanReadDir, ScanLstat, ScanClaim, ScanSend, ScanDone, dirVars, procVars,
                writerVars
  <1>10. ASSUME NEW w \in Tables \X Threads,
                UploadAct(w)
         PROVE  PhaseInv'
    <2>1. phase \notin {"down", "linkAll", "cleanup"}
      BY <1>10 DEF UploadAct, Take, UploadersRun, Open, InsertOK, InsertFails, MarkAsFinished,
                   RenameFails, RemoveFromQueue
    <2> QED
      BY <1>10, <2>1 DEF UploadAct, Take, Open, InsertOK, InsertFails, MarkAsFinished,
             RenameFails,
             RemoveFromQueue, procVars, writerVars
  <1> QED
    BY <1>1, <1>2, <1>3, <1>4, <1>5, <1>6, <1>7, <1>8, <1>9, <1>10 DEF Step

\* What the cleaner may do to the directory: remove.
LEMMA CleanShrinks ==
  ASSUME TypeOK, CleanAct
  PROVE  /\ data' \subseteq data
         /\ \A t \in Tables : link'[t] \subseteq link[t] /\ mark'[t] \subseteq mark[t]
  <1>1. CASE CleanupRemove
    BY <1>1 DEF CleanupRemove
  <1>2. CASE CleanupUnmark
    <2>1. PICK t \in cleaner.tabs : mark' = [mark EXCEPT ![t] = @ \ {cleaner.f}]
      BY <1>2 DEF CleanupUnmark
    <2> QED
      BY <1>2, <2>1 DEF CleanupUnmark, TypeOK
  <1>3. CASE CleanupUnlink
    BY <1>3 DEF CleanupUnlink, TypeOK
  <1>4. CASE ~CleanupRemove /\ ~CleanupUnmark /\ ~CleanupUnlink
    BY <1>4 DEF CleanAct, CleanerTick, CleanupFile, CleanupStat, CleanupStatFails, MarkSeen,
           CleanupDirs, CleanupReadDir,
           CleanupEval, CleanupEvalFails, CleanupDirDone, CleanupDone, CleanupFails, dirVars
  <1> QED
    BY <1>1, <1>2, <1>3, <1>4

\* Names are given out before they appear anywhere.
LEMMA NameStep == IInv /\ Step => NameInv'
  <1> SUFFICES ASSUME TypeOK, PhaseInv, NameInv, LinkInv, UploadInv, Step PROVE NameInv'
    BY DEF IInv
  <1> USE DEF NameInv, Busy
  <1>1. CASE Start
    BY <1>1 DEF Start, dirVars, PhaseInv
  <1>2. CASE LinkAllNext
    <2>1. PICK f \in lall : linker' = [linker EXCEPT ![f] = StartLink(active)]
      BY <1>2 DEF LinkAllNext
    <2>2. cur = NoFile /\ lall \subseteq used /\ wpc = "none"
      BY <1>2 DEF LinkAllNext, PhaseInv, TypeOK
    <2>3. \A g \in Files \ {f} : linker'[g] = linker[g]
      BY <2>1 DEF TypeOK
    <2> QED
      BY <1>2, <2>1, <2>2, <2>3 DEF LinkAllNext, dirVars, procVars, TypeOK
  <1>3. CASE LinkAllDone
    BY <1>3 DEF LinkAllDone, dirVars, writerVars, PhaseInv
  <1>4. CASE Crash \/ Exit
    <2>1. ProcessGone
      BY <1>4 DEF Crash, Exit
    <2>2. \A f \in Files : linker'[f].pc = "idle"
      BY <2>1 DEF ProcessGone, IdleLinker
    <2> QED
      BY <2>1, <2>2 DEF ProcessGone, dirVars, TypeOK
  <1>5. CASE StopWriter \/ WriterStopped
    BY <1>5 DEF StopWriter, WriterStopped, dirVars, writerVars
  <1>6. CASE RotateSwitch
    <2>1. PICK f \in Files \ used : used' = used \cup {f} /\ cur' = f
      BY <1>6 DEF RotateSwitch
    <2>2. \A g \in Files : g # cur => linker'[g] = linker[g]
      BY <1>6 DEF RotateSwitch
    <2>3. \A g \in Files : linker'[g].pc # "idle" => g \in used
      BY <2>2
    <2> QED
      BY <1>6, <2>1, <2>3 DEF RotateSwitch, WriterRuns, dirVars, procVars, TypeOK
  <1>7. CASE OpenFile \/ OpenFails \/ WorkerExit
    BY <1>7 DEF OpenFile, OpenFails, WorkerExit, dirVars, procVars, TypeOK
  <1>8. ASSUME NEW f \in Files, LinkAct(f) PROVE NameInv'
    <2>1. \A t \in Tables : link'[t] \subseteq link[t] \cup {f}
      BY <1>8 DEF LinkAct, LinkStat, LinkStatMark, LinkSymlink, LinkFails, LinkStatFails,
             dirVars, TypeOK
    <2> QED
      BY <1>8, <2>1, LinkFrame DEF PhaseInv
  <1>9. CASE CleanAct
    BY <1>9, CleanFrame, CleanShrinks
  <1>10. ASSUME NEW t \in Tables, ScanAct(t) PROVE NameInv'
    BY <1>10, UploaderFrame DEF ScanAct, ScanReadDir, ScanLstat, ScanClaim, ScanSend, ScanDone,
           dirVars
  <1>11. ASSUME NEW w \in Tables \X Threads, UploadAct(w) PROVE NameInv'
    <2>1. Uploading(w) => worker[w].f \in used \ {cur}
      BY DEF UploadInv, UploadInvAt, TW
    <2>2. \A t \in Tables : link'[t] \cup mark'[t] \cup uploaded'[t] \subseteq used \ {cur}
      <3>1. CASE InsertOK(w) \/ InsertFails(w)
        <4>1. \A t \in Tables : uploaded'[t] \subseteq uploaded[t] \cup {worker[w].f}
          BY <3>1 DEF InsertOK, InsertFails, TypeOK
        <4> QED
          BY <2>1, <3>1, <4>1 DEF InsertOK, InsertFails, Uploading, dirVars
      <3>2. CASE MarkAsFinished(w)
        <4>1. \A t \in Tables : /\ mark'[t] \subseteq mark[t] \cup {worker[w].f}
                                /\ link'[t] \subseteq link[t]
          BY <3>2 DEF MarkAsFinished, TypeOK
        <4> QED
          BY <2>1, <3>2, <4>1 DEF MarkAsFinished, Uploading
      <3>3. CASE Take(w) \/ Open(w) \/ RenameFails(w) \/ RemoveFromQueue(w)
        BY <3>3 DEF Take, Open, RenameFails, RemoveFromQueue, dirVars
      <3> QED
        BY <1>11, <3>1, <3>2, <3>3 DEF UploadAct
    <2> QED
      BY <1>11, <2>2, UploaderFrame
  <1> QED
    BY <1>1, <1>2, <1>3, <1>4, <1>5, <1>6, <1>7, <1>8, <1>9, <1>10, <1>11 DEF Step

\* Of the uploaders' steps only the rename touches the directory, and only the
\* inserts touch ClickHouse.
LEMMA UploaderDir ==
  /\ \A t \in Tables : ScanAct(t) => UNCHANGED <<link, mark, uploaded, worker>>
  /\ \A w \in Tables \X Threads : UploadAct(w) /\ ~MarkAsFinished(w) => UNCHANGED <<link, mark>>
  /\ \A w \in Tables \X Threads : UploadAct(w) /\ ~InsertOK(w) /\ ~InsertFails(w) => UNCHANGED uploaded
  BY DEF ScanAct, ScanReadDir, ScanLstat, ScanClaim, ScanSend, ScanDone, UploadAct, Take, Open,
         InsertOK, InsertFails, MarkAsFinished, RenameFails, RemoveFromQueue, dirVars

\* The steps of the process and of the worker leave the links and marks alone.
LEMMA ProcessDir ==
  ASSUME Start \/ LinkAllNext \/ LinkAllDone \/ Crash \/ Exit \/ StopWriter \/ WriterStopped
         \/ RotateSwitch \/ OpenFile \/ OpenFails \/ WorkerExit
  PROVE  UNCHANGED <<link, mark, uploaded>>
  BY DEF Start, LinkAllNext, LinkAllDone, Crash, Exit, ProcessGone, StopWriter, WriterStopped,
         RotateSwitch, OpenFile, OpenFails, WorkerExit, dirVars

\* ClickHouse keeps what it has stored.
LEMMA UploadedGrows == TypeOK /\ Step => \A t \in Tables : uploaded[t] \subseteq uploaded'[t]
  <1> SUFFICES ASSUME TypeOK, Step, NEW t \in Tables PROVE uploaded[t] \subseteq uploaded'[t]
    OBVIOUS
  <1>1. ASSUME NEW w \in Tables \X Threads, InsertOK(w) \/ InsertFails(w)
        PROVE  uploaded[t] \subseteq uploaded'[t]
    BY <1>1 DEF InsertOK, InsertFails, TypeOK
  <1> QED
    BY <1>1, ProcessDir, LinkFrame, CleanFrame, UploaderDir DEF Step

\* A file is linked or marked, not both; a marked file is stored.
LEMMA MarkStep == IInv /\ Step => LinkOrMark' /\ MarkedIsStored'
  <1> SUFFICES ASSUME TypeOK, LinkInv, UploadInv, LinkOrMark, MarkedIsStored, Step
               PROVE  LinkOrMark' /\ MarkedIsStored'
    BY DEF IInv
  <1> USE DEF LinkOrMark, MarkedIsStored
  <1>1. CASE Start \/ LinkAllNext \/ LinkAllDone \/ Crash \/ Exit \/ StopWriter \/ WriterStopped
             \/ RotateSwitch \/ OpenFile \/ OpenFails \/ WorkerExit
    BY <1>1, ProcessDir
  <1>2. ASSUME NEW f \in Files, LinkAct(f) PROVE LinkOrMark' /\ MarkedIsStored'
    <2>1. CASE LinkSymlink(f)
      BY <1>2, <2>1, LinkFrame DEF LinkSymlink, LinkInv, LinkInvAt, Busy, TypeOK
    <2>2. CASE ~LinkSymlink(f)
      BY <1>2, <2>2 DEF LinkAct, LinkStat, LinkStatMark, LinkFails, LinkStatFails, dirVars
    <2> QED
      BY <2>1, <2>2
  <1>3. CASE CleanAct
    BY <1>3, CleanShrinks, CleanFrame
  <1>4. ASSUME NEW t \in Tables, ScanAct(t) PROVE LinkOrMark' /\ MarkedIsStored'
    BY <1>4, UploaderDir
  <1>5. ASSUME NEW w \in Tables \X Threads, UploadAct(w) PROVE LinkOrMark' /\ MarkedIsStored'
    <2>1. CASE MarkAsFinished(w)
      <3>1. w[1] \in Tables /\ worker[w].f \in uploaded[w[1]]
        BY <2>1 DEF MarkAsFinished, UploadInv, UploadInvAt, TW
      <3> QED
        BY <2>1, <3>1 DEF MarkAsFinished, TypeOK
    <2>2. CASE ~MarkAsFinished(w)
      BY <1>5, <2>2, UploaderDir, UploadedGrows
    <2> QED
      BY <2>1, <2>2
  <1> QED
    BY <1>1, <1>2, <1>3, <1>4, <1>5 DEF Step

\* A listing that the cleaner works through was read from the directory.
LEMMA ListedStep ==
  ASSUME TypeOK, CleanAct, NEW f \in Files, Listed(f)'
  PROVE  \/ Listed(f) /\ cleaner'.t = cleaner.t
         \/ cleaner'.t \in Tables /\ f \in link[cleaner'.t] \cup mark[cleaner'.t]
  <1> USE DEF Listed
  <1>1. CASE CleanupReadDir
    <2>1. PICK t \in cleaner.tabs :
            cleaner' = AtEntries(t, cleaner.tabs \ {t}, DirEntries(t))
      BY <1>1 DEF CleanupReadDir, CleanupGoesOn
    <2>2. t \in Tables
      BY DEF TypeOK, CleanerState
    <2> QED
      BY <2>1, <2>2 DEF AtEntries, AtUnlink, DirEntries, NoEntry
  <1>2. CASE CleanupEval \/ CleanupEvalFails
    <2>1. PICK e \in cleaner.ents :
            \/ cleaner' = AtEntries(cleaner.t, cleaner.tabs, cleaner.ents \ {e})
            \/ \E unread : cleaner' = AtUnlink(e, unread)
      BY <1>2 DEF CleanupEval, CleanupEvalFails, CleanupGoesOn
    <2> QED
      BY <1>2, <2>1 DEF CleanupEval, CleanupEvalFails, AtEntries, AtUnlink
  <1>3. CASE CleanupUnlink
    BY <1>3 DEF CleanupUnlink, CleanupGoesOn, CleanupReturns, AtEntries, AtUnlink, IdleCleaner
  <1>4. CASE ~CleanupReadDir /\ ~CleanupEval /\ ~CleanupEvalFails /\ ~CleanupUnlink
    <2>1. cleaner'.pc \notin {"eval", "unlink"}
      <3>1. CASE CleanerTick \/ CleanupDirs \/ CleanupDirDone \/ CleanupDone \/ CleanupFails
        BY <3>1 DEF CleanerTick, CleanupDirs, CleanupDirDone, CleanupDone, CleanupFails,
               CleanupGoesOn, CleanupReturns, AtFile, AtDirs, IdleCleaner
      <3>2. CASE CleanupFile \/ CleanupStat \/ CleanupStatFails \/ CleanupRemove
        BY <3>2 DEF CleanupFile, CleanupStat, CleanupStatFails, MarkSeen, CleanupRemove,
               CleanupGoesOn, CleanupReturns,
               AtFile, AtTables, IdleCleaner
      <3>3. CASE CleanupUnmark
        BY <3>3 DEF CleanupUnmark, CleanupGoesOn, CleanupReturns, AtFile, AtTables, IdleCleaner
      <3> QED
        BY <1>4, <3>1, <3>2, <3>3 DEF CleanAct
    <2> QED
      BY <2>1
  <1> QED
    BY <1>1, <1>2, <1>3, <1>4

\* What a Link call still has to visit it has not visited.
LEMMA LinkInvStep == IInv /\ Step => LinkInv'
  <1> SUFFICES ASSUME IInv, Step, NEW f \in Files, Busy(f)' PROVE LinkInvAt(f)'
    BY DEF LinkInv
  <1> USE DEF IInv, LinkInv, Busy
  <1>1. CASE Start
    BY <1>1 DEF Start, PhaseInv, LinkInvAt
  <1>2. CASE LinkAllNext
    <2>1. PICK g \in lall : linker' = [linker EXCEPT ![g] = StartLink(active)]
      BY <1>2 DEF LinkAllNext
    <2> QED
      BY <1>2, <2>1 DEF LinkAllNext, NoLinkRunning, StartLink, TypeOK, procVars, LinkInvAt
  <1>3. CASE LinkAllDone
    BY <1>3 DEF LinkAllDone, NoLinkRunning, LinkInvAt
  <1>4. CASE Crash \/ Exit
    BY <1>4 DEF Crash, Exit, ProcessGone, IdleLinker, LinkInvAt
  <1>5. CASE StopWriter \/ WriterStopped
    BY <1>5 DEF StopWriter, WriterStopped, dirVars, Listed, LinkInvAt
  <1>6. CASE RotateSwitch
    <2>1. phase # "linkAll" /\ phase' = phase /\ UNCHANGED <<cleaner, link, mark>>
      BY <1>6 DEF RotateSwitch, WriterRuns, procVars, dirVars
    <2>2. CASE f = cur
      <3>1. linker'[f] = StartLink(active)
        BY <1>6, <2>2 DEF RotateSwitch
      <3>2. linker'[f].pc = "stat" /\ linker'[f].todo \subseteq Tables
        BY <3>1 DEF StartLink, TypeOK
      <3>3. ~Listed(f)'
        BY <2>1, <2>2 DEF CleanInv, CleanDirInv, CleanEntryInv, Listed
      <3> QED
        BY <2>1, <2>2, <3>2, <3>3 DEF NameInv, LinkInvAt
    <2>3. CASE f # cur
      <3>1. linker'[f] = linker[f]
        BY <1>6, <2>3 DEF RotateSwitch
      <3> QED
        BY <2>1, <3>1 DEF Listed, LinkInvAt
    <2> QED
      BY <2>2, <2>3
  <1>7. CASE OpenFile \/ OpenFails \/ WorkerExit
    BY <1>7 DEF OpenFile, OpenFails, WorkerExit, dirVars, procVars, Listed, LinkInvAt
  <1>8. ASSUME NEW g \in Files, LinkAct(g)
        PROVE  LinkInvAt(f)'
    <2>1. CASE g # f
      <3>1. linker'[f] = linker[f] /\ UNCHANGED phase
        <4>1. linker'[f] = linker[f] /\ linker[g].pc # "idle"
          BY <1>8, <2>1, LinkFrame
        <4>2. phase # "linkAll"
          BY <2>1, <4>1 DEF PhaseInv
        <4> QED
          BY <1>8, <4>1, <4>2, LinkFrame
      <3>2. \A t \in Tables : link'[t] \subseteq link[t] \cup {g}
        BY <1>8 DEF LinkAct, LinkStat, LinkStatMark, LinkSymlink, LinkFails, LinkStatFails,
               dirVars, TypeOK
      <3>3. UNCHANGED <<mark, cleaner>> /\ Listed(f)' = Listed(f)
        <4>1. UNCHANGED <<mark, cleaner>>
          BY <1>8, LinkFrame
        <4> QED
          BY <4>1 DEF Listed
      <3>4. linker[f] \in LinkerState /\ LinkInvAt(f)
        BY <3>1 DEF TypeOK
      <3>5. linker[f].todo \subseteq Tables
        BY <3>4 DEF LinkerState
      <3>6. \A t \in linker[f].todo : f \notin link[t] => f \notin link'[t]
        BY <2>1, <3>2, <3>5
      <3> QED
        BY <3>1, <3>3, <3>4, <3>6 DEF LinkInvAt
    <2>2. CASE g = f
      <3>1. linker[f] \in LinkerState /\ Busy(f)
        BY <1>8, <2>2, LinkFrame DEF TypeOK
      <3>0. ASSUME NEW t, linker'[f] = StartLink(linker[f].todo \ {t}),
                   UNCHANGED <<link, mark, cleaner, phase>>
            PROVE  LinkInvAt(f)'
        <4>1. Listed(f)' = Listed(f)
          BY <3>0 DEF Listed
        <4> QED
          BY <3>0, <3>1, <4>1 DEF LinkInvAt, StartLink
      <3>2. CASE LinkStat(f)
        <4>1. PICK t \in linker[f].todo :
                IF StatOK(link, t, f) THEN NextTable(f, t)
                  ELSE linker' = [linker EXCEPT ![f] =
                                    [pc |-> "statMark", todo |-> linker[f].todo, t |-> t]]
          BY <3>2 DEF LinkStat
        <4>2. UNCHANGED <<link, mark, cleaner, phase, data>>
          BY <3>2 DEF LinkStat, dirVars, procVars
        <4>3. CASE StatOK(link, t, f)
          <5>1. linker'[f] = StartLink(linker[f].todo \ {t})
            BY <4>1, <4>3 DEF NextTable, TypeOK
          <5> QED
            BY <4>2, <5>1, <3>0
        <4>4. CASE ~StatOK(link, t, f)
          <5>1. f \notin link[t]
            BY <3>1, <4>4 DEF StatOK, LinkInvAt, PhaseInv
          <5>2. linker'[f] = [pc |-> "statMark", todo |-> linker[f].todo, t |-> t]
            BY <4>1, <4>4 DEF TypeOK
          <5>3. Listed(f)' = Listed(f)
            BY <4>2 DEF Listed
          <5> QED
            BY <3>1, <4>2, <5>1, <5>2, <5>3 DEF LinkInvAt
        <4> QED
          BY <4>3, <4>4
      <3>3. CASE LinkStatMark(f)
        <4>1. UNCHANGED <<link, mark, cleaner, phase, data>>
          BY <3>3 DEF LinkStatMark, dirVars, procVars
        <4>2. CASE StatOK(mark, linker[f].t, f)
          <5>1. linker'[f] = StartLink(linker[f].todo \ {linker[f].t})
            BY <3>3, <4>2 DEF LinkStatMark, NextTable, TypeOK
          <5> QED
            BY <4>1, <5>1, <3>0
        <4>3. CASE ~StatOK(mark, linker[f].t, f)
          <5>1. f \notin mark[linker[f].t]
            BY <3>1, <3>3, <4>3 DEF LinkStatMark, StatOK, LinkInvAt, PhaseInv
          <5>2. linker'[f] = [pc |-> "symlink", todo |-> linker[f].todo, t |-> linker[f].t]
            BY <3>3, <4>3 DEF LinkStatMark, TypeOK
          <5>3. Listed(f)' = Listed(f)
            BY <4>1 DEF Listed
          <5> QED
            BY <3>1, <3>3, <4>1, <5>1, <5>2, <5>3 DEF LinkInvAt, LinkStatMark
        <4> QED
          BY <4>2, <4>3
      <3>4. CASE LinkSymlink(f)
        BY <3>1, <3>4 DEF LinkSymlink, NextTable, StartLink, LinkInvAt, TypeOK, procVars,
               LinkerState, Listed
      <3>5. CASE LinkFails(f)
        BY <3>5 DEF LinkFails, LinkReturnsErr, IdleLinker, TypeOK, LinkInvAt
      <3>6. CASE LinkStatFails(f)
        <4>1. PICK t : linker' = [linker EXCEPT ![f] = StartLink(linker[f].todo \ {t})]
          BY <3>6 DEF LinkStatFails, NextTable
        <4>2. UNCHANGED <<link, mark, cleaner, phase, data>>
          BY <3>6 DEF LinkStatFails, dirVars, procVars
        <4> QED
          BY <3>0, <4>1, <4>2 DEF TypeOK
      <3> QED
        BY <1>8, <2>2, <3>2, <3>3, <3>4, <3>5, <3>6 DEF LinkAct
    <2> QED
      BY <2>1, <2>2
  <1>9. CASE CleanAct
    <2>1. linker'[f] = linker[f] /\ Busy(f) /\ linker[f].todo \subseteq Tables
      BY <1>9, CleanFrame DEF TypeOK, LinkerState
    <2>2. phase \notin {"linkAll", "cleanup"} /\ phase' = phase
      BY <1>9, <2>1, CleanFrame DEF PhaseInv
    <2>3. \A t \in linker[f].todo : ~(cleaner'.t = t /\ Listed(f)')
      BY <1>9, <2>1, <2>2, ListedStep DEF LinkInvAt
    <2> QED
      BY <1>9, <2>1, <2>2, <2>3, CleanShrinks DEF LinkInvAt
  <1>10. ASSUME NEW t \in Tables, ScanAct(t) PROVE LinkInvAt(f)'
    BY <1>10, UploaderDir, UploaderFrame DEF LinkInvAt, Listed
  <1>11. ASSUME NEW w \in Tables \X Threads, UploadAct(w) PROVE LinkInvAt(f)'
    <2>1. UNCHANGED <<linker, cleaner, phase>>
      BY <1>11, UploaderFrame
    <2>2. CASE ~MarkAsFinished(w)
      BY <1>11, <2>1, <2>2, UploaderDir DEF LinkInvAt, Listed
    <2>3. CASE MarkAsFinished(w)
      <3>1. phase # "linkAll" /\ w[1] \in Tables
        BY <2>3 DEF MarkAsFinished, PhaseInv, TW
      <3>2. \A t \in Tables : /\ link'[t] \subseteq link[t]
                              /\ mark'[t] \subseteq mark[t] \cup link[t]
        BY <2>3, <3>1 DEF MarkAsFinished, TypeOK
      <3> QED
        BY <2>1, <3>1, <3>2 DEF LinkInvAt, Listed, TypeOK, LinkerState
    <2> QED
      BY <2>2, <2>3
  <1> QED
    BY <1>1, <1>2, <1>3, <1>4, <1>5, <1>6, <1>7, <1>8, <1>9, <1>10, <1>11 DEF Step

\* What the other actors may do while the cleaner is in a pass.
LEMMA OthersFrame ==
  ASSUME IInv, Step, ~CleanAct, cleaner.pc # "idle", cleaner'.pc # "idle"
  PROVE  /\ UNCHANGED <<cleaner, active>>
         /\ \A t \in Tables : mark[t] \subseteq mark'[t]
         /\ used \subseteq used' /\ cur' \in {cur, NoFile} \cup (Files \ used)
         /\ data' \subseteq data \/ (wpc = "open" /\ data' \subseteq data \cup {cur})
         /\ wpc' = "open" => (wpc = "open" /\ cur' = cur) \/ cur' \in Files \ used
         /\ \A t \in Tables : \A f \in link'[t] \ link[t] :
              Busy(f) /\ t \in linker[f].todo /\ phase # "linkAll"
  <1> USE DEF IInv
  <1>1. CASE Start \/ LinkAllNext \/ LinkAllDone
    BY <1>1 DEF Start, LinkAllNext, LinkAllDone, PhaseInv
  <1>2. CASE Crash \/ Exit
    BY <1>2 DEF Crash, Exit, ProcessGone, IdleCleaner
  <1>3. CASE StopWriter \/ WriterStopped \/ RotateSwitch \/ OpenFile \/ OpenFails \/ WorkerExit
    BY <1>3 DEF StopWriter, WriterStopped, RotateSwitch, OpenFile, OpenFails, WorkerExit,
           dirVars, procVars, writerVars, TypeOK
  <1>4. ASSUME NEW f \in Files, LinkAct(f)
        PROVE  /\ UNCHANGED <<cleaner, active, mark, used, cur, wpc, data>>
               /\ \A t \in Tables : \A g \in link'[t] \ link[t] :
                    Busy(g) /\ t \in linker[g].todo /\ phase # "linkAll"
    <2>1. UNCHANGED <<cleaner, active, mark, used, cur, wpc, data>> /\ Busy(f)
      BY <1>4, LinkFrame
    <2>2. CASE LinkSymlink(f)
      <3>1. linker[f].t \in linker[f].todo
        BY <2>1, <2>2 DEF LinkSymlink, LinkInv, LinkInvAt
      <3>2. phase # "linkAll"
        BY DEF PhaseInv
      <3> QED
        BY <2>1, <2>2, <3>1, <3>2 DEF LinkSymlink, TypeOK
    <2>3. CASE ~LinkSymlink(f)
      BY <1>4, <2>1, <2>3 DEF LinkAct, LinkStat, LinkStatMark, LinkFails, LinkStatFails, dirVars
    <2> QED
      BY <2>1, <2>2, <2>3
  <1>5. ASSUME NEW t \in Tables, ScanAct(t)
        PROVE  UNCHANGED <<cleaner, active, link, mark, used, cur, wpc, data>>
    BY <1>5, UploaderFrame, UploaderDir
  <1>6. ASSUME NEW w \in Tables \X Threads, UploadAct(w)
        PROVE  /\ UNCHANGED <<cleaner, active, used, cur, wpc, data>>
               /\ \A t \in Tables : link'[t] \subseteq link[t] /\ mark[t] \subseteq mark'[t]
    <2>1. CASE MarkAsFinished(w)
      BY <1>6, <2>1, UploaderFrame DEF MarkAsFinished, TypeOK
    <2>2. CASE ~MarkAsFinished(w)
      BY <1>6, <2>2, UploaderFrame, UploaderDir
    <2> QED
      BY <2>1, <2>2
  <1> QED
    BY <1>1, <1>2, <1>3, <1>4, <1>5, <1>6 DEF Step

\* What the cleaner knows of a file stays true.
LEMMA CleanFileStep == IInv /\ Step => CleanFileInv'
  <1> SUFFICES ASSUME IInv, Step PROVE CleanFileInv'
    OBVIOUS
  <1> USE DEF CleanFileInv
  <1>1. CASE ~CleanAct
    <2>1. CASE cleaner'.pc = "idle"
      BY <2>1
    <2>2. CASE cleaner.pc = "idle" /\ cleaner'.pc # "idle"
      <3>1. CASE LinkAllDone
        <4>1. wpc = "none" /\ data \subseteq used
          BY <3>1 DEF LinkAllDone, IInv, PhaseInv, NameInv
        <4>2. cleaner' = AtFile(data) /\ UNCHANGED <<wpc, used>>
          BY <2>2, <3>1 DEF LinkAllDone, writerVars
        <4> QED
          BY <4>1, <4>2 DEF AtFile
      <3>2. CASE ~LinkAllDone
        <4>1. cleaner' = cleaner
          BY <1>1, <2>2, <3>2, LinkFrame, UploaderFrame DEF IInv, Step, Start, LinkAllNext, Crash,
             Exit, ProcessGone, IdleCleaner, StopWriter, WriterStopped, RotateSwitch, OpenFile,
             OpenFails, WorkerExit
        <4> QED
          BY <2>2, <4>1
      <3> QED
        BY <3>1, <3>2
    <2>3. CASE cleaner.pc # "idle" /\ cleaner'.pc # "idle"
      <3>1. CleanFileInv /\ TypeOK /\ NameInv
        BY DEF IInv, CleanInv
      <3>2. cleaner.files \cup {cleaner.f} \subseteq used' \cup {NoFile}
        BY <1>1, <2>3, <3>1, OthersFrame
      <3>3. wpc' = "open" => cur' \notin cleaner.files \cup {cleaner.f}
        BY <1>1, <2>3, <3>1, OthersFrame
      <3>4. cleaner.pc = "unmark" => cleaner.f \in used' \ data'
        BY <1>1, <2>3, <3>1, OthersFrame
      <3>5. UNCHANGED <<cleaner, active>> /\ \A t \in Tables : mark[t] \subseteq mark'[t]
        BY <1>1, <2>3, OthersFrame
      <3>6. active \subseteq Tables
        BY <3>1 DEF TypeOK
      <3> QED
        BY <3>1, <3>2, <3>3, <3>4, <3>5, <3>6
    <2> QED
      BY <2>1, <2>2, <2>3
  <1>2. CASE CleanAct
    <2>0. /\ UNCHANGED <<active, cur, used>> /\ TypeOK /\ CleanFileInv
          /\ wpc' = "open" => wpc = "open" /\ cur # NoFile
      BY <1>2, CleanFrame DEF IInv, CleanInv, NameInv
    <2>1. CASE CleanupFile
      <3>1. PICK f \in cleaner.files :
              \/ active # {} /\ cleaner' = AtTables("stat", f, active, {})
              \/ cleaner' = IdleCleaner
        BY <2>1 DEF CleanupFile, CleanupGoesOn, CleanupReturns
      <3>2. f \in Files /\ f # NoFile /\ cleaner.pc # "idle"
        BY <2>0, <2>1 DEF CleanupFile, TypeOK, CleanerState
      <3> QED
        BY <2>0, <3>1, <3>2 DEF AtTables, IdleCleaner
    <2>2. CASE CleanupStat \/ CleanupStatFails
      <3>1. PICK t \in cleaner.tabs :
              \/ cleaner' = AtFile(cleaner.files)
              \/ \E pc, unread :
                 /\ pc = IF cleaner.tabs = {t} THEN "remove" ELSE "stat"
                 /\ \/ StatOK(mark, t, cleaner.f) /\ unread = cleaner.unread
                    \/ "stat" \in Faults /\ unread = cleaner.unread \cup {t}
                 /\ cleaner' = AtTables(pc, cleaner.f, cleaner.tabs \ {t}, unread)
        BY <2>2 DEF CleanupStat, CleanupStatFails, MarkSeen, CleanupGoesOn
      <3>2. UNCHANGED mark /\ cleaner.pc = "stat"
        BY <2>2 DEF CleanupStat, CleanupStatFails, MarkSeen, dirVars
      <3>3. CASE cleaner' = AtFile(cleaner.files)
        BY <2>0, <3>2, <3>3 DEF AtFile
      <3>4. CASE cleaner' # AtFile(cleaner.files)
        <4>1. PICK pc, unread :
                 /\ pc = IF cleaner.tabs = {t} THEN "remove" ELSE "stat"
                 /\ \/ StatOK(mark, t, cleaner.f) /\ unread = cleaner.unread
                    \/ "stat" \in Faults /\ unread = cleaner.unread \cup {t}
                 /\ cleaner' = AtTables(pc, cleaner.f, cleaner.tabs \ {t}, unread)
          BY <3>1, <3>4
        <4>2. /\ cleaner'.pc = pc /\ cleaner'.f = cleaner.f /\ cleaner'.unread = unread
              /\ cleaner'.tabs = cleaner.tabs \ {t} /\ cleaner'.files \subseteq cleaner.files
          BY <4>1 DEF AtTables
        <4>3. pc \in {"stat", "remove"} /\ (pc = "remove" => cleaner.tabs = {t})
          BY <4>1
        <4>4. /\ unread # {} => "stat" \in Faults
              /\ \A s \in active \ (cleaner.tabs \ {t}) : cleaner.f \in mark[s] \/ s \in unread
          BY <2>0, <3>2, <4>1 DEF StatOK
        <4> QED
          BY <2>0, <3>2, <4>2, <4>3, <4>4
      <3> QED
        BY <3>3, <3>4
    <2>3. CASE CleanupRemove
      <3>1. cleaner.f \in used
        BY <2>0, <2>3 DEF CleanupRemove
      <3> QED
        BY <2>0, <2>3, <3>1 DEF CleanupRemove, CleanupGoesOn, AtTables
    <2>4. CASE CleanupUnmark
      <3>1. PICK t \in cleaner.tabs :
              \/ cleaner' = AtFile(cleaner.files)
              \/ cleaner' = AtTables("unmark", cleaner.f, cleaner.tabs \ {t}, {})
              \/ cleaner' = IdleCleaner
        BY <2>4 DEF CleanupUnmark, CleanupGoesOn, CleanupReturns
      <3>2. UNCHANGED data /\ cleaner.pc = "unmark"
        BY <2>4 DEF CleanupUnmark
      <3>3. CASE cleaner' = AtFile(cleaner.files)
        BY <2>0, <3>2, <3>3 DEF AtFile
      <3>4. CASE cleaner' = AtTables("unmark", cleaner.f, cleaner.tabs \ {t}, {})
        BY <2>0, <3>2, <3>4 DEF AtTables
      <3> QED
        BY <3>1, <3>3, <3>4 DEF IdleCleaner
    <2>5. CASE ~CleanupFile /\ ~CleanupStat /\ ~CleanupStatFails /\ ~CleanupRemove /\ ~CleanupUnmark
      <3>1. data \subseteq used /\ (wpc = "open" => cur \notin data)
        BY DEF IInv, NameInv
      <3>2. CASE CleanerTick
        BY <2>0, <3>1, <3>2 DEF CleanerTick, CleanupGoesOn, AtFile
      <3>3. CASE ~CleanerTick
        <4>1. /\ cleaner'.pc \in {"idle", "dir", "eval", "unlink"}
              /\ cleaner'.pc # "idle" => cleaner'.files = {} /\ cleaner'.f = NoFile
              /\ cleaner'.pc # "idle" =>
                   cleaner'.unread = {} \/ (cleaner'.pc = "unlink" /\ "eval" \in Faults)
          BY <1>2, <2>5, <3>3 DEF CleanAct, CleanupDirs, CleanupReadDir, CleanupEval,
                 CleanupEvalFails, CleanupDirDone, CleanupUnlink, CleanupDone, CleanupFails,
                 CleanupGoesOn, CleanupReturns, AtDirs, AtEntries, AtUnlink, IdleCleaner
        <4>2. cur # NoFile \/ wpc # "open"
          BY DEF IInv, NameInv
        <4> QED
          BY <2>0, <4>1, <4>2
      <3> QED
        BY <3>2, <3>3
    <2> QED
      BY <2>1, <2>2, <2>3, <2>4, <2>5
  <1> QED
    BY <1>1, <1>2

\* What the cleaner knows of the entries of a listing stays true.
LEMMA CleanDirStep == IInv /\ Step => CleanDirInv'
  <1> SUFFICES ASSUME IInv, Step, cleaner'.pc \in {"eval", "unlink"}
               PROVE  /\ cleaner'.t \in Tables /\ \A f \in Files : CleanEntryInv(f)'
                      /\ cleaner'.pc = "unlink" => cleaner'.e \notin cleaner'.ents
    BY DEF CleanDirInv
  <1>1. CASE ~CleanAct
    <2>1. CASE cleaner.pc = "idle"
      <3>1. CASE LinkAllDone
        BY <2>1, <3>1 DEF LinkAllDone, AtFile
      <3>2. CASE ~LinkAllDone
        <4>1. cleaner' = cleaner
          BY <1>1, <3>2, LinkFrame, UploaderFrame DEF IInv, Step, Start, LinkAllNext, Crash,
             Exit, ProcessGone, IdleCleaner, StopWriter, WriterStopped, RotateSwitch, OpenFile,
             OpenFails, WorkerExit
        <4> QED
          BY <2>1, <4>1
      <3> QED
        BY <3>1, <3>2
    <2>2. CASE cleaner.pc # "idle"
      <3>1. /\ UNCHANGED <<cleaner, active>>
            /\ \A t \in Tables : mark[t] \subseteq mark'[t]
            /\ used \subseteq used' /\ cur' \in {cur, NoFile} \cup (Files \ used)
            /\ data' \subseteq data \cup {cur}
            /\ \A t \in Tables : \A f \in link'[t] \ link[t] :
                 Busy(f) /\ t \in linker[f].todo /\ phase # "linkAll"
        BY <1>1, <2>2, OthersFrame
      <3>2. /\ cleaner.t \in Tables /\ \A f \in Files : CleanEntryInv(f)
            /\ cleaner.pc = "unlink" => cleaner.e \notin cleaner.ents
        BY <3>1 DEF IInv, CleanInv, CleanDirInv
      <3>3. ASSUME NEW f \in Files PROVE CleanEntryInv(f)'
        <4>1. Listed(f)' = Listed(f)
          BY <3>1 DEF Listed
        <4>2. Listed(f) => f \in used \ {cur} /\ f \in used' \ {cur'}
          BY <3>1, <3>2 DEF CleanEntryInv
        <4>3. <<"mark", f>> \in cleaner.ents => Listed(f)
          BY <3>1 DEF Listed
        <4>4. \A k \in {"link", "mark"} :
                cleaner.pc = "unlink" /\ cleaner.e = <<k, f>> => Listed(f)
          BY <3>1 DEF Listed
        <4>5. Listed(f) => (f \in link'[cleaner.t] => f \in link[cleaner.t])
          BY <3>1, <3>2 DEF IInv, LinkInv, LinkInvAt, TypeOK
        <4> QED
          BY <3>1, <3>2, <4>1, <4>2, <4>3, <4>4, <4>5 DEF CleanEntryInv
      <3> QED
        BY <3>1, <3>2, <3>3
    <2> QED
      BY <2>1, <2>2
  <1>2. CASE CleanAct
    <2>0. UNCHANGED <<active, cur, used>> /\ TypeOK /\ NameInv
      BY <1>2, CleanFrame DEF IInv
    <2>1. CASE CleanupReadDir
      <3>1. PICK t \in cleaner.tabs :
              cleaner' = AtEntries(t, cleaner.tabs \ {t}, DirEntries(t))
        BY <2>1 DEF CleanupReadDir, CleanupGoesOn
      <3>2. t \in Tables /\ UNCHANGED <<link, mark, data>>
        BY <2>0, <2>1 DEF TypeOK, CleanerState, CleanupReadDir, dirVars
      <3>3. /\ cleaner'.t = t /\ cleaner'.pc = "eval" /\ cleaner'.ents = DirEntries(t)
        BY <3>1 DEF AtEntries, AtUnlink
      <3>4. ASSUME NEW f \in Files PROVE CleanEntryInv(f)'
        <4>1. Listed(f)' => f \in link[t] \cup mark[t]
          BY <3>3 DEF Listed, DirEntries
        <4>2. <<"mark", f>> \in DirEntries(t) => f \in mark[t]
          BY DEF DirEntries
        <4> QED
          BY <2>0, <3>2, <3>3, <4>1, <4>2 DEF CleanEntryInv, NameInv
      <3> QED
        BY <3>2, <3>3, <3>4
    <2>2. CASE CleanupEval \/ CleanupEvalFails
      <3>1. PICK e \in cleaner.ents :
              \/ cleaner' = AtEntries(cleaner.t, cleaner.tabs, cleaner.ents \ {e})
              \/ ~EvalOK(cleaner.t, e) /\ cleaner' = AtUnlink(e, {})
              \/ cleaner' = AtUnlink(e, {cleaner.t})
        BY <2>2 DEF CleanupEval, CleanupEvalFails, CleanupGoesOn
      <3>2. /\ cleaner.t \in Tables /\ \A f \in Files : CleanEntryInv(f)
            /\ cleaner.pc = "eval" /\ UNCHANGED <<link, mark, data>>
        BY <2>2 DEF CleanupEval, CleanupEvalFails, IInv, CleanInv, CleanDirInv, dirVars
      <3>3. /\ cleaner'.t = cleaner.t /\ cleaner'.ents \subseteq cleaner.ents
            /\ cleaner'.pc = "unlink" =>
                 /\ cleaner'.e = e /\ e \notin cleaner'.ents
                 /\ ~EvalOK(cleaner.t, e) \/ cleaner.t \in cleaner'.unread
        BY <3>1 DEF AtEntries, AtUnlink
      <3>4. ASSUME NEW f \in Files PROVE CleanEntryInv(f)'
        <4>1. Listed(f)' => Listed(f)
          BY <3>2, <3>3 DEF Listed
        <4>2. e = <<"mark", f>> /\ ~EvalOK(cleaner.t, e) => f \notin data
          BY <3>2 DEF CleanEntryInv, EvalOK, DirEntries
        <4>3. e = <<"link", f>> /\ ~EvalOK(cleaner.t, e) => f \notin data \/ f \notin link[cleaner.t]
          BY DEF EvalOK, DirEntries
        <4> QED
          BY <2>0, <3>2, <3>3, <4>1, <4>2, <4>3 DEF CleanEntryInv
      <3> QED
        BY <3>2, <3>3, <3>4
    <2>3. CASE CleanupUnlink
      <3>1. /\ cleaner.t \in Tables /\ \A f \in Files : CleanEntryInv(f)
            /\ cleaner.pc = "unlink" /\ cleaner.e \notin cleaner.ents /\ UNCHANGED data
        BY <2>3 DEF CleanupUnlink, IInv, CleanInv, CleanDirInv
      <3>2. cleaner' = AtEntries(cleaner.t, cleaner.tabs, cleaner.ents)
        BY <2>3 DEF CleanupUnlink, CleanupGoesOn, CleanupReturns, IdleCleaner
      <3>3. cleaner'.t = cleaner.t /\ cleaner'.ents = cleaner.ents /\ cleaner'.pc = "eval"
        BY <3>2 DEF AtEntries, AtUnlink
      <3>4. ASSUME NEW f \in Files PROVE CleanEntryInv(f)'
        <4>1. Listed(f)' => Listed(f)
          BY <3>1, <3>3 DEF Listed
        <4>2. <<"mark", f>> \in cleaner.ents /\ f \in mark[cleaner.t] => f \in mark'[cleaner.t]
          <5>1. cleaner.e = <<cleaner.e[1], cleaner.e[2]>>
            BY <2>0 DEF TypeOK, CleanerState, Entries, NoEntry
          <5>2. <<"mark", f>> \in cleaner.ents => cleaner.e[1] # "mark" \/ cleaner.e[2] # f
            BY <3>1, <5>1
          <5> QED
            BY <2>0, <2>3, <3>1, <5>2 DEF CleanupUnlink, TypeOK
        <4>3. Listed(f)' => f \in used' \ {cur'}
          BY <2>0, <3>1, <4>1 DEF CleanEntryInv
        <4>4. <<"mark", f>> \in cleaner'.ents => f \in mark'[cleaner'.t] \/ f \notin data'
          BY <3>1, <3>3, <4>2 DEF CleanEntryInv
        <4> QED
          BY <3>3, <4>3, <4>4 DEF CleanEntryInv
      <3> QED
        BY <3>1, <3>3, <3>4
    <2>4. CASE ~CleanupReadDir /\ ~CleanupEval /\ ~CleanupEvalFails /\ ~CleanupUnlink
      <3>1. CASE CleanerTick \/ CleanupDirs \/ CleanupDirDone \/ CleanupDone \/ CleanupFails
        BY <3>1 DEF CleanerTick, CleanupDirs, CleanupDirDone, CleanupDone, CleanupFails,
               CleanupGoesOn, CleanupReturns, AtFile, AtDirs, IdleCleaner
      <3>2. CASE CleanupFile \/ CleanupStat \/ CleanupStatFails \/ CleanupRemove
        BY <3>2 DEF CleanupFile, CleanupStat, CleanupStatFails, MarkSeen, CleanupRemove,
               CleanupGoesOn, CleanupReturns,
               AtFile, AtTables, IdleCleaner
      <3>3. CASE CleanupUnmark
        BY <3>3 DEF CleanupUnmark, CleanupGoesOn, CleanupReturns, AtFile, AtTables, IdleCleaner
      <3> QED
        BY <1>2, <2>4, <3>1, <3>2, <3>3 DEF CleanAct
    <2> QED
      BY <2>1, <2>2, <2>3, <2>4
  <1> QED
    BY <1>1, <1>2

\* Every step but those of the uploaders leaves their state alone or ends it.
LEMMA UpVarsFrame ==
  ASSUME TypeOK, Step, \A t \in Tables : ~ScanAct(t), \A w \in Tables \X Threads : ~UploadAct(w)
  PROVE  UNCHANGED <<scan, inQueue, queue, worker>> \/ ProcessGone
  BY LinkFrame, CleanFrame
     DEF Step, Start, LinkAllNext, LinkAllDone, Crash, Exit, StopWriter, WriterStopped,
         RotateSwitch, OpenFile, OpenFails, WorkerExit, upVars

\* A file of a table is in one place.
LEMMA QueueStep == IInv /\ Step => QueueInv'
  <1> SUFFICES ASSUME TypeOK, QueueInv, UploadInv, Step, NEW t \in Tables PROVE QueueInvAt(t)'
    BY DEF QueueInv, IInv
  <1> USE DEF QueueInvAt, ScanHolds, WorkerHolds, Waiting
  <1>0. QueueInvAt(t) /\ scan[t] \in ScanState /\ queue[t] \in Seq(Files)
        /\ \A i \in Threads : worker[<<t, i>>] \in WorkerState
    BY DEF QueueInv, TypeOK
  <1>1. CASE ProcessGone
    BY <1>1 DEF ProcessGone, IdleScan, IdleWorker
  <1>2. CASE UNCHANGED <<scan, inQueue, queue, worker>>
    BY <1>0, <1>2
  <1>3. ASSUME NEW s \in Tables, ScanAct(s) PROVE QueueInvAt(t)'
    <2>1. CASE s # t
      <3>1. scan'[t] = scan[t] /\ inQueue'[t] = inQueue[t] /\ queue'[t] = queue[t] /\ worker' = worker
        BY <1>3, <2>1 DEF ScanAct, ScanReadDir, ScanLstat, ScanClaim, ScanSend, ScanDone, TypeOK
      <3> QED
        BY <1>0, <3>1
    <2>2. CASE s = t /\ (ScanReadDir(t) \/ ScanLstat(t) \/ ScanDone(t))
      BY <1>0, <2>2 DEF ScanReadDir, ScanLstat, ScanDone, IdleScan, TypeOK
    <2>3. CASE s = t /\ ScanClaim(t)
      <3>1. PICK f \in scan[t].todo :
              IF f \in inQueue[t]
                THEN /\ scan' = [scan EXCEPT ![t] = [pc |-> "claim", todo |-> scan[t].todo \ {f},
                                                     f |-> NoFile]]
                     /\ UNCHANGED inQueue
                ELSE /\ scan' = [scan EXCEPT ![t] = [pc |-> "send", todo |-> scan[t].todo \ {f},
                                                     f |-> f]]
                     /\ inQueue' = [inQueue EXCEPT ![t] = @ \cup {f}]
        BY <2>3 DEF ScanClaim
      <3>2. UNCHANGED <<queue, worker>>
        BY <2>3 DEF ScanClaim
      <3>3. CASE f \in inQueue[t]
        BY <1>0, <3>1, <3>2, <3>3 DEF TypeOK
      <3>4. CASE f \notin inQueue[t]
        <4>1. scan'[t].pc = "send" /\ scan'[t].f = f /\ inQueue'[t] = inQueue[t] \cup {f}
          BY <3>1, <3>4 DEF TypeOK
        <4> QED
          BY <1>0, <3>2, <3>4, <4>1
      <3> QED
        BY <3>3, <3>4
    <2>4. CASE s = t /\ ScanSend(t)
      <3>1. /\ scan[t].pc = "send" /\ scan'[t].pc = "claim"
            /\ queue'[t] = Append(queue[t], scan[t].f) /\ UNCHANGED <<inQueue, worker>>
        BY <2>4 DEF ScanSend, TypeOK
      <3>2. scan[t].f \in inQueue[t] /\ inQueue[t] \subseteq Files
        BY <1>0, <3>1 DEF TypeOK
      <3>3. \A i \in DOMAIN queue'[t] : \/ i \in DOMAIN queue[t] /\ queue'[t][i] = queue[t][i]
                                        \/ i = Len(queue[t]) + 1 /\ queue'[t][i] = scan[t].f
        BY <1>0, <3>1, <3>2
      <3> QED
        BY <1>0, <3>1, <3>2, <3>3
    <2> QED
      BY <1>3, <2>1, <2>2, <2>3, <2>4 DEF ScanAct
  <1>4. ASSUME NEW w \in Tables \X Threads, UploadAct(w) PROVE QueueInvAt(t)'
    <2>0. PICK s \in Tables, k \in Threads : w = <<s, k>>
      OBVIOUS
    <2>1. scan' = scan
      BY <1>4 DEF UploadAct, Take, Open, InsertOK, InsertFails, MarkAsFinished, RenameFails,
             RemoveFromQueue
    <2>2. CASE Take(w)
      <3>1. CASE s # t
        <4>1. queue'[t] = queue[t] /\ inQueue' = inQueue
              /\ \A i \in Threads : worker'[<<t, i>>] = worker[<<t, i>>]
          BY <2>0, <2>2, <3>1 DEF Take, TypeOK
        <4> QED
          BY <1>0, <2>1, <4>1
      <3>2. CASE s = t
        <4>1. /\ queue[t] # <<>> /\ queue'[t] = Tail(queue[t]) /\ inQueue' = inQueue
              /\ worker'[<<t, k>>] = [pc |-> "open", f |-> Head(queue[t])]
              /\ worker[<<t, k>>].pc = "idle"
              /\ \A i \in Threads : i # k => worker'[<<t, i>>] = worker[<<t, i>>]
          BY <2>0, <2>2, <3>2 DEF Take, TypeOK
        <4>2. /\ 1 \in DOMAIN queue[t] /\ Head(queue[t]) = queue[t][1]
              /\ \A i \in DOMAIN queue'[t] : /\ i + 1 \in DOMAIN queue[t]
                                             /\ queue'[t][i] = queue[t][i + 1]
                                             /\ i \in Nat \ {0}
          BY <1>0, <4>1
        <4>3. Head(queue[t]) \in Files /\ Head(queue[t]) # NoFile
          BY <1>0, <4>1
        <4>4. \A i \in Threads : i # k => worker[<<t, i>>].f # Head(queue[t])
          BY <1>0, <4>2, <4>3 DEF UploadInv, UploadInvAt, TW
        <4> QED
          <5>1. \A i \in DOMAIN queue'[t] : queue'[t][i] \in inQueue'[t]
            BY <1>0, <4>1, <4>2
          <5>2. \A i, j \in DOMAIN queue'[t] : queue'[t][i] = queue'[t][j] => i = j
            BY <1>0, <4>2
          <5>3. \A f : Waiting(t, f)' => Waiting(t, f) /\ f # Head(queue[t])
            BY <1>0, <4>2
          <5>4. Waiting(t, Head(queue[t])) /\ Head(queue[t]) \in inQueue[t]
            BY <1>0, <4>2
          <5>5. ASSUME NEW i \in Threads PROVE WorkerHolds(t, i)'
            <6> HIDE DEF Waiting
            <6>1. CASE i = k
              <7>1. worker'[<<t, k>>].f = Head(queue[t])
                BY <4>1
              <7>2. scan[t].pc = "send" => scan[t].f # Head(queue[t])
                BY <1>0, <5>4
              <7>3. \A j \in Threads : worker'[<<t, j>>].f = Head(queue[t]) => k = j
                BY <4>1, <4>4
              <7>4. ~Waiting(t, worker[<<t, k>>].f)'
                <8>1. \A n \in DOMAIN queue'[t] : queue'[t][n] # Head(queue[t])
                  BY <1>0, <4>2
                <8> QED
                  BY <7>1, <8>1 DEF Waiting
              <7> QED
                <8>1. worker'[<<t, k>>].f \in inQueue'[t]
                  BY <4>1, <5>4, <7>1
                <8>2. scan'[t].pc = "send" => scan'[t].f # worker'[<<t, k>>].f
                  BY <2>1, <7>1, <7>2
                <8>3. \A j \in Threads : worker'[<<t, k>>].f = worker'[<<t, j>>].f => k = j
                  BY <7>1, <7>3
                <8> QED
                  BY <6>1, <7>4, <8>1, <8>2, <8>3
            <6>2. CASE i # k
              <7>1. worker'[<<t, i>>] = worker[<<t, i>>] /\ WorkerHolds(t, i)
                BY <1>0, <4>1, <6>2
              <7>2. worker'[<<t, k>>].f # worker[<<t, i>>].f
                BY <4>1, <4>4, <6>2
              <7>3. Waiting(t, worker[<<t, i>>].f)' => Waiting(t, worker[<<t, i>>].f)
                BY <4>2, <7>1 DEF Waiting
              <7>4. \A j \in Threads : j # k => worker'[<<t, j>>] = worker[<<t, j>>]
                BY <4>1
              <7> QED
                BY <2>1, <4>1, <6>2, <7>1, <7>2, <7>3, <7>4
            <6> QED
              BY <6>1, <6>2
          <5>6. ScanHolds(t)'
            <6> HIDE DEF Waiting
            <6> QED
              BY <1>0, <2>1, <4>1, <5>3
          <5> HIDE DEF WorkerHolds, ScanHolds
          <5> QED
            BY <5>1, <5>2, <5>5, <5>6
      <3> QED
        BY <3>1, <3>2
    <2>3. CASE RemoveFromQueue(w)
      <3>1. queue' = queue /\ worker[w].pc = "release"
        BY <2>3 DEF RemoveFromQueue
      <3>2. CASE s # t
        <4>1. inQueue'[t] = inQueue[t]
              /\ \A i \in Threads : worker'[<<t, i>>] = worker[<<t, i>>]
          BY <2>0, <2>3, <3>2 DEF RemoveFromQueue, TypeOK
        <4> QED
          BY <1>0, <2>1, <3>1, <4>1
      <3>3. CASE s = t
        <4>1. /\ inQueue'[t] = inQueue[t] \ {worker[<<t, k>>].f}
              /\ worker'[<<t, k>>] = IdleWorker
              /\ \A i \in Threads : i # k => worker'[<<t, i>>] = worker[<<t, i>>]
          BY <2>0, <2>3, <3>3 DEF RemoveFromQueue, TypeOK
        <4>2. \A i \in Threads : worker'[<<t, i>>].pc # "idle" =>
                /\ i # k /\ worker'[<<t, i>>] = worker[<<t, i>>]
                /\ worker[<<t, i>>].f \in Files
          <5>1. inQueue[t] \subseteq Files
            BY DEF TypeOK
          <5>2. worker'[<<t, k>>].pc = "idle"
            BY <4>1 DEF IdleWorker
          <5> QED
            BY <1>0, <4>1, <5>1, <5>2
        <4>3. worker'[<<t, k>>].f = NoFile
          BY <4>1 DEF IdleWorker
        <4> QED
          <5> DEFINE f == worker[<<t, k>>].f
          <5>1. f \in inQueue[t] /\ ~Waiting(t, f) /\ (scan[t].pc = "send" => scan[t].f # f)
                /\ \A j \in Threads : f = worker[<<t, j>>].f => k = j
            <6>1. worker[<<t, k>>].pc # "idle" /\ WorkerHolds(t, k)
              BY <1>0, <2>0, <3>1, <3>3
            <6> QED
              BY <6>1
          <5>2. \A i \in DOMAIN queue'[t] : queue'[t][i] \in inQueue'[t]
            BY <1>0, <3>1, <4>1, <5>1
          <5>3. \A i \in Threads : i # k => WorkerHolds(t, i)'
            BY <1>0, <2>1, <3>1, <4>1, <4>2, <4>3, <5>1
          <5>4. WorkerHolds(t, k)'
            BY <4>2
          <5>5. ScanHolds(t)'
            BY <1>0, <2>1, <3>1, <4>1, <5>1
          <5> HIDE DEF WorkerHolds, ScanHolds
          <5> QED
            BY <1>0, <3>1, <5>2, <5>3, <5>4, <5>5
      <3> QED
        BY <3>2, <3>3
    <2>4. CASE Open(w) \/ InsertOK(w) \/ InsertFails(w) \/ MarkAsFinished(w) \/ RenameFails(w)
      <3>1. UNCHANGED <<queue, inQueue>>
        BY <2>4 DEF Open, InsertOK, InsertFails, MarkAsFinished, RenameFails
      <3>2. worker[w].pc # "idle" /\ \A i \in Threads :
              /\ worker'[<<t, i>>].f = worker[<<t, i>>].f
              /\ worker'[<<t, i>>].pc # "idle" => worker[<<t, i>>].pc # "idle"
        <4>1. PICK pc \in {"insert", "mark", "release"} : Goto(w, pc)
          BY <2>4 DEF Open, InsertOK, InsertFails, MarkAsFinished, RenameFails
        <4>2. worker' = [worker EXCEPT ![w] = [pc |-> pc, f |-> worker[w].f]]
          BY <4>1 DEF Goto
        <4>3. worker[w].pc # "idle"
          BY <2>4 DEF Open, InsertOK, InsertFails, MarkAsFinished, RenameFails
        <4> QED
          BY <2>0, <4>2, <4>3 DEF TypeOK
      <3> QED
        BY <1>0, <2>1, <3>1, <3>2
    <2> QED
      BY <1>4, <2>2, <2>3, <2>4 DEF UploadAct
  <1> QED
    BY <1>1, <1>2, <1>3, <1>4, UpVarsFrame

\* A step of the cleaner removes a data file only in CleanupRemove.
LEMMA CleanData ==
  CleanAct /\ ~CleanupRemove => UNCHANGED data
  BY DEF CleanAct, CleanerTick, CleanupFile, CleanupStat, CleanupStatFails, MarkSeen,
         CleanupUnmark, CleanupDirs,
         CleanupReadDir, CleanupEval, CleanupEvalFails, CleanupDirDone, CleanupUnlink, CleanupDone,
         CleanupFails, dirVars

\* The others only add data files.
LEMMA DataGrows ==
  ASSUME IInv, Step, ~CleanAct
  PROVE  data \subseteq data'
  <1>1. CASE Start \/ LinkAllNext \/ LinkAllDone \/ Crash \/ Exit \/ StopWriter \/ WriterStopped
             \/ RotateSwitch \/ OpenFile \/ OpenFails \/ WorkerExit
    BY <1>1 DEF Start, LinkAllNext, LinkAllDone, Crash, Exit, ProcessGone, StopWriter,
           WriterStopped, RotateSwitch, OpenFile, OpenFails, WorkerExit, dirVars
  <1> QED
    BY <1>1, LinkFrame, UploaderFrame DEF Step, IInv

\* What the others do to the file of a worker that inserts or marks it: nothing,
\* but for the cleaner that could not read the mark or the link.
LEMMA Undisturbed ==
  ASSUME IInv, Step, NEW w \in TW, Uploading(w), worker'[w] = worker[w]
  PROVE  /\ worker[w].f \notin mark'[w[1]]
         /\ worker[w].f \in data \ data' => w[1] \in cleaner.unread /\ "stat" \in Faults
         /\ worker[w].f \in link[w[1]] \ link'[w[1]] =>
              \/ worker[w].f \notin data
              \/ w[1] \in cleaner.unread /\ "eval" \in Faults
  <1> USE DEF TW
  <1> DEFINE t == w[1]
             f == worker[w].f
  <1>0. /\ TypeOK /\ UploadInvAt(w) /\ worker[w] \in WorkerState
        /\ w[1] \in Tables /\ w[2] \in Threads /\ w = <<w[1], w[2]>>
        /\ f \notin mark[t] /\ t \in active /\ worker[w].pc # "idle"
    BY DEF IInv, UploadInv, UploadInvAt, Uploading, TypeOK
  <1>1. f \in Files
    BY <1>0 DEF UploadInvAt, WorkerState
  <1>2. CASE Start \/ LinkAllNext \/ LinkAllDone \/ Crash \/ Exit \/ StopWriter \/ WriterStopped
             \/ RotateSwitch \/ OpenFile \/ OpenFails \/ WorkerExit
    <2>1. data \subseteq data'
      BY <1>2 DEF Start, LinkAllNext, LinkAllDone, Crash, Exit, ProcessGone, StopWriter,
             WriterStopped, RotateSwitch, OpenFile, OpenFails, WorkerExit, dirVars
    <2> QED
      BY <1>0, <1>2, <2>1, ProcessDir
  <1>3. ASSUME NEW g \in Files, LinkAct(g)
        PROVE  UNCHANGED <<data, mark>> /\ link[t] \subseteq link'[t]
    <2>1. UNCHANGED <<data, mark>>
      BY <1>0, <1>3, LinkFrame
    <2>2. CASE LinkSymlink(g)
      BY <1>0, <2>1, <2>2 DEF LinkSymlink, TypeOK
    <2>3. CASE ~LinkSymlink(g)
      BY <1>3, <2>1, <2>3 DEF LinkAct, LinkStat, LinkStatMark, LinkFails, LinkStatFails, dirVars
    <2> QED
      BY <2>2, <2>3
  <1>4. CASE CleanAct
    <2>1. f \notin mark'[t]
      BY <1>0, <1>4, CleanShrinks
    <2>2. f \in data \ data' => t \in cleaner.unread /\ "stat" \in Faults
      <3>1. CASE CleanupRemove
        BY <1>0, <3>1 DEF CleanupRemove, IInv, CleanInv, CleanFileInv
      <3>2. CASE ~CleanupRemove
        BY <1>4, <3>2, CleanData
      <3> QED
        BY <3>1, <3>2
    <2>3. f \in link[t] \ link'[t] => f \notin data \/ (t \in cleaner.unread /\ "eval" \in Faults)
      <3>1. CASE CleanupUnlink
        <4>1. cleaner.e[1] = "link" => cleaner.e = <<"link", cleaner.e[2]>>
          BY <1>0 DEF TypeOK, CleanerState, Entries, NoEntry
        <4>2. f \in link[t] \ link'[t] => cleaner.e = <<"link", f>> /\ cleaner.t = t
          BY <1>0, <3>1, <4>1 DEF CleanupUnlink, TypeOK
        <4>3. CleanEntryInv(f) /\ CleanFileInv /\ cleaner.pc = "unlink"
          BY <1>1, <3>1 DEF CleanupUnlink, IInv, CleanInv, CleanDirInv
        <4> QED
          BY <4>2, <4>3 DEF CleanEntryInv, CleanFileInv
      <3>2. CASE ~CleanupUnlink
        BY <1>4, <3>2 DEF CleanAct, CleanerTick, CleanupFile, CleanupStat, CleanupStatFails,
               CleanupRemove, CleanupUnmark, CleanupDirs, CleanupReadDir, CleanupEval,
               CleanupEvalFails, CleanupDirDone, CleanupDone, CleanupFails, dirVars
      <3> QED
        BY <3>1, <3>2
    <2> QED
      BY <2>1, <2>2, <2>3
  <1>5. ASSUME NEW s \in Tables, ScanAct(s) PROVE UNCHANGED <<data, mark, link>>
    BY <1>5, UploaderDir, UploaderFrame
  <1>6. ASSUME NEW v \in Tables \X Threads, UploadAct(v)
        PROVE  UNCHANGED data /\ f \notin mark'[t] /\ (f \in link[t] => f \in link'[t])
    <2>1. UNCHANGED data
      BY <1>6, UploaderFrame
    <2>2. CASE ~MarkAsFinished(v)
      BY <1>0, <1>6, <2>1, <2>2, UploaderDir
    <2>3. CASE MarkAsFinished(v)
      <3>1. /\ v[1] \in Tables /\ v[2] \in Threads /\ v = <<v[1], v[2]>> /\ worker[v].pc # "idle"
            /\ v # w
        BY <1>0, <2>3 DEF MarkAsFinished, Goto, TypeOK
      <3>2. v[1] = t => worker[v].f # f
        <4>1. WorkerHolds(t, w[2])
          BY <1>0 DEF IInv, QueueInv, QueueInvAt
        <4> QED
          BY <1>0, <3>1, <4>1 DEF WorkerHolds
      <3> QED
        BY <1>0, <2>1, <2>3, <3>1, <3>2 DEF MarkAsFinished, TypeOK
    <2> QED
      BY <2>2, <2>3
  <1> QED
    BY <1>0, <1>2, <1>3, <1>4, <1>5, <1>6 DEF Step

\* A name stays used, and the worker's next name is new.
LEMMA NamesGrow ==
  ASSUME IInv, Step
  PROVE  used \subseteq used' /\ cur' \in {cur, NoFile} \cup (Files \ used)
  <1>1. CASE Start \/ LinkAllNext \/ LinkAllDone \/ Crash \/ Exit \/ StopWriter \/ WriterStopped
             \/ RotateSwitch \/ OpenFile \/ OpenFails \/ WorkerExit
    BY <1>1 DEF Start, LinkAllNext, LinkAllDone, Crash, Exit, ProcessGone, StopWriter,
           WriterStopped, RotateSwitch, OpenFile, OpenFails, WorkerExit, writerVars
  <1> QED
    BY <1>1, LinkFrame, CleanFrame, UploaderFrame DEF Step, IInv

\* A worker that inserts or marks a file is alone with it, and finds it there as
\* long as the cleaner reads what it looks at.
LEMMA UploadStep == IInv /\ Step => UploadInv'
  <1> SUFFICES ASSUME IInv, Step, NEW w \in TW PROVE UploadInvAt(w)'
    BY DEF UploadInv
  <1> USE DEF TW
  <1>0. /\ TypeOK /\ UploadInvAt(w) /\ worker[w] \in WorkerState
        /\ w[1] \in Tables /\ w[2] \in Threads /\ w = <<w[1], w[2]>>
    BY DEF IInv, UploadInv, TypeOK
  <1> DEFINE t == w[1]
             f == worker[w].f
  <1>1. CASE ProcessGone
    BY <1>0, <1>1 DEF ProcessGone, UploadInvAt, IdleWorker, Uploading
  <1>2. ASSUME worker'[w] = worker[w], UNCHANGED active PROVE UploadInvAt(w)'
    <2>1. CASE Uploading(w)
      <3>1. /\ f \notin mark'[t]
            /\ "stat" \notin Faults => f \in data /\ f \in data'
            /\ {"stat", "eval"} \cap Faults = {} => f \in link'[t]
        BY <1>0, <1>2, <2>1, Undisturbed DEF UploadInvAt
      <3>2. f \in used' \ {cur'}
        BY <1>0, <2>1, NamesGrow DEF UploadInvAt, IInv, TypeOK
      <3> QED
        BY <1>0, <1>2, <2>1, <3>1, <3>2, UploadedGrows DEF UploadInvAt, Uploading
    <2>2. CASE ~Uploading(w)
      BY <1>0, <1>2, <2>2 DEF UploadInvAt, Uploading
    <2> QED
      BY <2>1, <2>2
  <1>3. CASE Start \/ LinkAllNext \/ LinkAllDone \/ StopWriter \/ WriterStopped
             \/ RotateSwitch \/ OpenFile \/ OpenFails \/ WorkerExit
    <2>1. UNCHANGED worker
      BY <1>3 DEF Start, LinkAllNext, LinkAllDone, StopWriter, WriterStopped,
             RotateSwitch, OpenFile, OpenFails, WorkerExit, upVars
    <2>2. CASE Start
      BY <1>0, <2>1, <2>2 DEF Start, IInv, PhaseInv, UploadInvAt, Uploading
    <2>3. CASE ~Start
      <3>1. UNCHANGED active
        BY <1>3, <2>3 DEF LinkAllNext, LinkAllDone, StopWriter, WriterStopped,
               RotateSwitch, OpenFile, OpenFails, WorkerExit, procVars
      <3> QED
        BY <1>2, <2>1, <3>1
    <2> QED
      BY <2>2, <2>3
  <1>4. CASE Crash \/ Exit
    BY <1>1, <1>4 DEF Crash, Exit
  <1>5. ASSUME NEW g \in Files, LinkAct(g) PROVE UploadInvAt(w)'
    BY <1>0, <1>2, <1>5, LinkFrame
  <1>6. CASE CleanAct
    BY <1>2, <1>6, CleanFrame
  <1>7. ASSUME NEW s \in Tables, ScanAct(s) PROVE UploadInvAt(w)'
    BY <1>2, <1>7, UploaderDir, UploaderFrame
  <1>8. ASSUME NEW v \in Tables \X Threads, UploadAct(v) PROVE UploadInvAt(w)'
    <2>0. UNCHANGED <<active, data, used, cur>>
      BY <1>8, UploaderFrame
    <2>1. CASE v # w
      <3>1. worker'[w] = worker[w]
        BY <1>0, <1>8, <2>1 DEF UploadAct, Take, Open, InsertOK, InsertFails, MarkAsFinished,
               RenameFails, RemoveFromQueue, Goto, TypeOK
      <3> QED
        BY <1>2, <2>0, <3>1
    <2>2. CASE v = w
      <3>1. CASE Take(w)
        <4>1. worker'[w] = [pc |-> "open", f |-> Head(queue[t])] /\ t \in active
          BY <1>0, <3>1 DEF Take, TypeOK
        <4>2. Head(queue[t]) \in Files
          BY <1>0, <3>1 DEF Take, TypeOK
        <4> QED
          BY <2>0, <4>1, <4>2 DEF UploadInvAt, Uploading
      <3>2. CASE Open(w)
        <4>1. /\ worker'[w] = [pc |-> IF StatOK(link, t, f) THEN "insert" ELSE "release", f |-> f]
              /\ worker[w].pc = "open" /\ UNCHANGED <<link, mark, uploaded>>
          BY <1>0, <3>2 DEF Open, Goto, TypeOK, dirVars
        <4>2. StatOK(link, t, f) =>
                f \in link[t] /\ f \in data /\ f \notin mark[t] /\ f \in used \ {cur}
          BY <1>0 DEF StatOK, IInv, LinkOrMark, NameInv
        <4> QED
          BY <1>0, <2>0, <4>1, <4>2 DEF UploadInvAt, Uploading
      <3>3. CASE InsertOK(w)
        <4>1. /\ worker'[w] = [pc |-> "mark", f |-> f]
              /\ worker[w].pc = "insert" /\ UNCHANGED <<link, mark>>
              /\ f \in uploaded'[t]
          BY <1>0, <3>3 DEF InsertOK, Goto, TypeOK, dirVars
        <4> QED
          BY <1>0, <2>0, <4>1 DEF UploadInvAt, Uploading
      <3>4. CASE InsertFails(w) \/ MarkAsFinished(w) \/ RenameFails(w)
        <4>1. worker'[w] = [pc |-> "release", f |-> f] /\ worker[w].pc # "idle"
          BY <1>0, <3>4 DEF InsertFails, MarkAsFinished, RenameFails, Goto, TypeOK
        <4> QED
          BY <1>0, <2>0, <4>1 DEF UploadInvAt, Uploading
      <3>5. CASE RemoveFromQueue(w)
        <4>1. worker'[w] = IdleWorker
          BY <1>0, <3>5 DEF RemoveFromQueue, TypeOK
        <4> QED
          BY <4>1 DEF UploadInvAt, Uploading, IdleWorker
      <3> QED
        BY <1>8, <2>2, <3>1, <3>2, <3>3, <3>4, <3>5 DEF UploadAct
    <2> QED
      BY <2>1, <2>2
  <1> QED
    BY <1>3, <1>4, <1>5, <1>6, <1>7, <1>8 DEF Step

\* The initial state satisfies the invariant.
LEMMA InitIInv == Init => IInv
  <1> SUFFICES ASSUME Init PROVE IInv
    OBVIOUS
  <1> USE DEF Init
  <1>1. TypeOK
    BY IdleTypes DEF TypeOK, Phases
  <1>2. PhaseInv /\ NameInv /\ LinkInv
    BY DEF PhaseInv, NameInv, LinkInv, Busy, TW, IdleLinker, IdleCleaner, IdleWorker
  <1>3. CleanInv
    BY DEF CleanInv, CleanFileInv, CleanDirInv, IdleCleaner
  <1>4. QueueInv
    BY DEF QueueInv, QueueInvAt, ScanHolds, WorkerHolds, Waiting, IdleScan, IdleWorker
  <1>5. UploadInv
    BY DEF UploadInv, UploadInvAt, Uploading, TW, IdleWorker
  <1>6. LinkOrMark /\ MarkedIsStored
    BY DEF LinkOrMark, MarkedIsStored
  <1> QED
    BY <1>1, <1>2, <1>3, <1>4, <1>5, <1>6 DEF IInv

\* A stuttering step keeps the invariant.
LEMMA StutterIInv == IInv /\ UNCHANGED vars => IInv'
  <1> SUFFICES ASSUME IInv, UNCHANGED vars PROVE IInv'
    OBVIOUS
  <1> USE DEF IInv, vars
  <1>1. TypeOK'
    BY DEF TypeOK
  <1>2. PhaseInv' /\ NameInv'
    BY DEF PhaseInv, NameInv, Busy, TW
  <1>3. LinkInv'
    BY DEF LinkInv, LinkInvAt, Listed, Busy
  <1>4. CleanInv'
    BY DEF CleanInv, CleanFileInv, CleanDirInv, CleanEntryInv, Listed
  <1>5. QueueInv'
    BY DEF QueueInv, QueueInvAt, ScanHolds, WorkerHolds, Waiting
  <1>6. UploadInv'
    BY DEF UploadInv, UploadInvAt, Uploading, TW
  <1>7. LinkOrMark' /\ MarkedIsStored'
    BY DEF LinkOrMark, MarkedIsStored
  <1> QED
    BY <1>1, <1>2, <1>3, <1>4, <1>5, <1>6, <1>7

\* IInv is an inductive invariant of the spool: whatever the uploaders, the
\* cleaner, the Link goroutines and the restarts do, in any order.
THEOREM Invariance == Spec => []IInv
  <1>1. IInv /\ [Next]_vars => IInv'
    BY NextIsStep, StutterIInv, TypeStep, PhaseStep, NameStep, LinkInvStep, CleanFileStep,
       CleanDirStep, QueueStep, UploadStep, MarkStep DEF IInv, CleanInv
  <1> QED
    BY InitIInv, <1>1, PTL DEF Spec

\* Every variable keeps the shape the code gives it.
THEOREM TypeCorrect == Spec => []TypeOK
  <1>1. IInv => TypeOK
    BY DEF IInv
  <1> QED
    BY <1>1, Invariance, PTL

\* The file being written is never visible to an uploader.
THEOREM OpenFileSafe == Spec => []OpenFileUnlinked
  <1>1. IInv => OpenFileUnlinked
    BY DEF IInv, NameInv, OpenFileUnlinked
  <1> QED
    BY <1>1, Invariance, PTL

\* A marked file is not linked for another upload, restarts included.
THEOREM MarksSafe == Spec => []LinkOrMark
  <1>1. IInv => LinkOrMark
    BY DEF IInv
  <1> QED
    BY <1>1, Invariance, PTL

\* A mark means that ClickHouse has stored the file; the cleaner relies on it.
THEOREM MarkedSafe == Spec => []MarkedIsStored
  <1>1. IInv => MarkedIsStored
    BY DEF IInv
  <1> QED
    BY <1>1, Invariance, PTL

\* Nothing moves the file under a worker that is inserting or marking it, but a
\* cleaner that could not read the mark or the link.
THEOREM UploadSafe == Spec => UploadIsUndisturbed
  <1>1. IInv /\ [Next]_vars => [UploadIsUndisturbedStep]_vars
    BY NextIsStep, Undisturbed DEF UploadIsUndisturbedStep, TW
  <1> QED
    BY <1>1, Invariance, PTL DEF Spec, UploadIsUndisturbed

\* One holder per file and table: two threads never insert the same file.
THEOREM OneHolderSafe == Spec => []OneHolder
  <1>1. IInv => OneHolder
    <2> SUFFICES ASSUME IInv, NEW t \in Tables, NEW f \in Files
                 PROVE  /\ \A x, y \in Holders(t, f) : x = y
                        /\ Holders(t, f) # {} => f \in inQueue[t]
      BY DEF OneHolder
    <2> DEFINE S == scan[t].pc = "send" /\ scan[t].f = f
               Q == {j \in DOMAIN queue[t] : queue[t][j] = f}
               W == {j \in Threads : worker[<<t, j>>].f = f}
    <2>1. QueueInvAt(t) /\ \A i \in Threads : UploadInvAt(<<t, i>>)
      BY DEF IInv, QueueInv, UploadInv, TW
    <2>2. \A i \in W : worker[<<t, i>>].pc # "idle" /\ WorkerHolds(t, i)
      BY <2>1 DEF QueueInvAt, UploadInvAt
    <2>3. S => f \in inQueue[t] /\ Q = {} /\ W = {}
      BY <2>1, <2>2 DEF QueueInvAt, ScanHolds, WorkerHolds, Waiting
    <2>4. \A i \in Q : f \in inQueue[t] /\ W = {} /\ \A j \in Q : i = j
      BY <2>1, <2>2 DEF QueueInvAt, WorkerHolds, Waiting
    <2>5. \A i \in W : f \in inQueue[t] /\ \A j \in W : i = j
      BY <2>2 DEF WorkerHolds
    <2>6. Holders(t, f) = (IF S THEN {<<"scan", 0>>} ELSE {})
                          \cup {<<"queue", i>> : i \in Q} \cup {<<"worker", i>> : i \in W}
      BY DEF Holders
    <2> HIDE DEF S, Q, W
    <2>7. CASE S
      BY <2>3, <2>6, <2>7
    <2>8. CASE ~S /\ Q # {}
      BY <2>4, <2>6, <2>8
    <2>9. CASE ~S /\ Q = {}
      BY <2>5, <2>6, <2>9
    <2> QED
      BY <2>7, <2>8, <2>9
  <1> QED
    BY <1>1, Invariance, PTL

\* Looking at a mark: the cleaner doubts that of one table, or forgets its doubts.
LEMMA DoubtStep ==
  ASSUME IInv, CleanupStat \/ CleanupStatFails, UNCHANGED <<data, uploaded, active>>
  PROVE  D!Next \/ UNCHANGED D!vars
  <1> USE DEF D!vars
  <1>1. cleaner.pc = "stat" /\ cleaner.tabs \subseteq active /\ active \subseteq Tables
        /\ cleaner.f \in Files
    BY DEF CleanupStat, CleanupStatFails, IInv, CleanInv, CleanFileInv, TypeOK
  <1>2. PICK t \in cleaner.tabs :
          \/ cleaner' = AtFile(cleaner.files)
          \/ \E pc, unread :
               /\ pc = IF cleaner.tabs = {t} THEN "remove" ELSE "stat"
               /\ \/ unread = cleaner.unread
                  \/ "stat" \in Faults /\ unread = cleaner.unread \cup {t}
               /\ cleaner' = AtTables(pc, cleaner.f, cleaner.tabs \ {t}, unread)
    BY DEF CleanupStat, CleanupStatFails, MarkSeen, CleanupGoesOn
  <1>3. CASE cleaner' = AtFile(cleaner.files)
    BY <1>3 DEF AtFile, Doubted, D!Next, D!Forget
  <1>4. CASE cleaner' # AtFile(cleaner.files)
    <2>1. PICK pc, unread :
               /\ pc = IF cleaner.tabs = {t} THEN "remove" ELSE "stat"
               /\ \/ unread = cleaner.unread
                  \/ "stat" \in Faults /\ unread = cleaner.unread \cup {t}
               /\ cleaner' = AtTables(pc, cleaner.f, cleaner.tabs \ {t}, unread)
      BY <1>2, <1>4
    <2>2. Doubted = cleaner.unread \X {cleaner.f} /\ Doubted' = unread \X {cleaner.f}
      BY <1>1, <2>1 DEF Doubted, AtTables
    <2>3. CASE unread = cleaner.unread
      BY <2>2, <2>3
    <2>4. CASE "stat" \in Faults /\ unread = cleaner.unread \cup {t}
      <3>1. Doubted' = Doubted \cup {<<t, cleaner.f>>}
        BY <2>2, <2>4
      <3>2. D!Doubt(t, cleaner.f)
        BY <1>1, <1>2, <2>4, <3>1 DEF D!Doubt
      <3> QED
        BY <1>1, <1>2, <3>2 DEF D!Next
    <2> QED
      BY <2>1, <2>3, <2>4
  <1> QED
    BY <1>3, <1>4

\* Every step of the spool is a step of Delivery or does not show there.
LEMMA DeliveryStep == IInv /\ Step => D!Next \/ UNCHANGED D!vars
  <1> SUFFICES ASSUME IInv, Step PROVE D!Next \/ UNCHANGED D!vars
    OBVIOUS
  <1> USE DEF D!vars
  <1>1. CASE Start
    <2>1. D!Configure
      BY <1>1 DEF Start, D!Configure, dirVars, Doubted
    <2> QED
      BY <2>1 DEF D!Next
  <1>2. CASE LinkAllNext \/ LinkAllDone \/ Crash \/ Exit \/ StopWriter \/ WriterStopped
             \/ RotateSwitch \/ WorkerExit
    <2>1. UNCHANGED <<data, uploaded, active>>
      BY <1>2 DEF LinkAllNext, LinkAllDone, Crash, Exit, ProcessGone, StopWriter, WriterStopped,
             RotateSwitch, WorkerExit, dirVars, procVars
    <2>2. cleaner' = cleaner \/ cleaner'.pc \in {"idle", "file"}
      BY <1>2 DEF LinkAllNext, LinkAllDone, Crash, Exit, ProcessGone, StopWriter, WriterStopped,
             RotateSwitch, WorkerExit, AtFile, IdleCleaner
    <2>3. Doubted' = Doubted \/ Doubted' = {}
      BY <2>2 DEF Doubted
    <2> QED
      BY <2>1, <2>3 DEF D!Next, D!Forget
  <1>3. CASE OpenFile \/ OpenFails
    <2>1. cur \in Files /\ cur \notin data /\ \A t \in Tables : cur \notin uploaded[t]
      BY <1>3 DEF OpenFile, OpenFails, IInv, NameInv, TypeOK
    <2>2. data' = data \cup {cur} \/ data' = data
      BY <1>3 DEF OpenFile, OpenFails
    <2>3. UNCHANGED <<uploaded, active, Doubted>>
      BY <1>3 DEF OpenFile, OpenFails, procVars, Doubted
    <2>4. CASE data' = data \cup {cur}
      <3>1. D!Create(cur)
        BY <2>1, <2>3, <2>4 DEF D!Create
      <3> QED
        BY <2>1, <3>1 DEF D!Next
    <2> QED
      BY <2>2, <2>3, <2>4
  <1>4. CASE \E f \in Files : LinkAct(f)
    <2>1. UNCHANGED <<data, uploaded, active, cleaner>>
      BY <1>4, LinkFrame DEF IInv
    <2> QED
      BY <2>1 DEF Doubted
  <1>5. CASE CleanAct
    <2>1. UNCHANGED <<uploaded, active>>
      BY <1>5, CleanFrame
    <2>2. CASE CleanupRemove
      <3>1. /\ cleaner.f \in Files /\ active # {} /\ cleaner.pc = "remove"
            /\ \A t \in active : cleaner.f \in mark[t] \/ t \in cleaner.unread
        BY <2>2 DEF CleanupRemove, IInv, CleanInv, CleanFileInv
      <3>2. \A t \in active : cleaner.f \in uploaded[t] \/ <<t, cleaner.f>> \in Doubted
        BY <3>1 DEF IInv, MarkedIsStored, TypeOK, Doubted
      <3>3. data' = data \ {cleaner.f} /\ Doubted' = {}
        BY <2>2 DEF CleanupRemove, CleanupGoesOn, AtTables, Doubted
      <3>4. D!Remove(cleaner.f)
        BY <2>1, <3>1, <3>2, <3>3 DEF D!Remove
      <3> QED
        BY <3>1, <3>4 DEF D!Next
    <2>3. CASE ~CleanupRemove
      <3>1. UNCHANGED data
        BY <1>5, <2>3, CleanData
      <3>2. CASE CleanupStat \/ CleanupStatFails
        BY <2>1, <3>1, <3>2, DoubtStep
      <3>3. CASE CleanupFile
        <4>1. Doubted' = {}
          BY <3>3 DEF CleanupFile, CleanupGoesOn, CleanupReturns, AtTables, IdleCleaner, Doubted
        <4> QED
          BY <2>1, <3>1, <4>1 DEF D!Next, D!Forget
      <3>4. CASE ~CleanupFile /\ ~CleanupStat /\ ~CleanupStatFails
        <4>1. cleaner'.pc \notin {"stat", "remove"}
          BY <1>5, <2>3, <3>4 DEF CleanAct, CleanerTick, CleanupUnmark, CleanupDirs,
                 CleanupReadDir, CleanupEval, CleanupEvalFails, CleanupDirDone, CleanupUnlink,
                 CleanupDone, CleanupFails, CleanupGoesOn, CleanupReturns, AtFile, AtTables,
                 AtDirs, AtEntries, AtUnlink, IdleCleaner
        <4> QED
          BY <2>1, <3>1, <4>1 DEF D!Next, D!Forget, Doubted
      <3> QED
        BY <3>2, <3>3, <3>4
    <2> QED
      BY <2>2, <2>3
  <1>6. CASE \E t \in Tables : ScanAct(t)
    <2>1. UNCHANGED <<data, uploaded, active, cleaner>>
      BY <1>6, UploaderFrame, UploaderDir
    <2> QED
      BY <2>1 DEF Doubted
  <1>7. ASSUME NEW w \in Tables \X Threads, UploadAct(w)
        PROVE  D!Next \/ UNCHANGED D!vars
    <2> DEFINE t == w[1]
               f == worker[w].f
    <2>1. UNCHANGED <<data, active, Doubted>>
      BY <1>7, UploaderFrame DEF Doubted
    <2>2. CASE InsertOK(w) \/ InsertFails(w)
      <3>0. w \in TW /\ UploadInvAt(w) /\ TypeOK /\ worker[w].pc = "insert"
        BY <2>2 DEF InsertOK, InsertFails, IInv, UploadInv, TW
      <3>1. t \in Tables /\ f \in Files /\ t \in active /\ (f \in data \/ "stat" \in Faults)
        BY <3>0 DEF UploadInvAt, Uploading, TW, TypeOK, WorkerState
      <3>2. uploaded' = [uploaded EXCEPT ![t] = @ \cup {f}] \/ UNCHANGED uploaded
        BY <2>2 DEF InsertOK, InsertFails
      <3>3. CASE uploaded' = [uploaded EXCEPT ![t] = @ \cup {f}]
        <4>1. D!Deliver(t, f)
          BY <2>1, <3>1, <3>3 DEF D!Deliver
        <4> QED
          BY <3>1, <4>1 DEF D!Next
      <3> QED
        BY <2>1, <3>2, <3>3
    <2> QED
      BY <1>7, <2>1, <2>2, UploaderDir
  <1> QED
    BY <1>1, <1>2, <1>3, <1>4, <1>5, <1>6, <1>7 DEF Step

\* The spool implements at-least-once delivery; where Stat may fail otherwise than with
\* "not exist", the delivery of module Delivery whose receipts may be unreadable.
THEOREM Implementation == Spec => ImplementsDelivery
  <1>1. Init => D!Init
    BY DEF Init, D!Init, Doubted, IdleCleaner
  <1>2. IInv /\ [Next]_vars => [D!Next]_(D!vars)
    BY NextIsStep, DeliveryStep DEF vars, D!vars, Doubted
  <1> QED
    BY <1>1, <1>2, Invariance, PTL DEF Spec, D!Spec, ImplementsDelivery

\* A step that removes a file removes it for every table, or in doubt.
LEMMA RemoveStep == IInv /\ Step => NoLossStep
  <1> SUFFICES ASSUME IInv, Step, NEW g \in data \ data'
               PROVE  active # {} /\ \A t \in active : g \in uploaded[t] \/ t \in cleaner.unread
    BY DEF NoLossStep
  <1>1. D!Next \/ UNCHANGED D!vars
    BY DeliveryStep
  <1>2. active # {} /\ \A t \in active : g \in uploaded[t] \/ <<t, g>> \in Doubted
    BY <1>1 DEF D!Next, D!Configure, D!Forget, D!Create, D!Deliver, D!Doubt, D!Remove, D!vars
  <1>3. \A t \in active : <<t, g>> \in Doubted => t \in cleaner.unread
    BY DEF Doubted
  <1> QED
    BY <1>2, <1>3

\* A chunk file leaves the disk only when every configured table has it, or the
\* Stat of its mark failed otherwise than with "not exist".
THEOREM NoLossSafe == Spec => NoLoss
  <1>1. IInv /\ [Next]_vars => [NoLossStep]_vars
    BY NextIsStep, RemoveStep
  <1> QED
    BY <1>1, Invariance, PTL DEF Spec, NoLoss

\* Where Stat and EvalSymlinks fail for nothing but a name that does not exist,
\* only a file that every table has stored is removed, and nobody takes away what
\* a worker uploads.
THEOREM FinishedOnlySafe == Spec => FinishedOnly
  <1>1. IInv /\ [Next]_vars => [{"stat", "eval"} \cap Faults = {} => FinishedOnlyStep]_vars
    <2> SUFFICES ASSUME IInv, Step, {"stat", "eval"} \cap Faults = {} PROVE FinishedOnlyStep
      BY NextIsStep
    <2>1. ASSUME NEW f \in data \ data'
          PROVE  active # {} /\ \A t \in active : f \in uploaded[t]
      <3>1. active # {} /\ \A t \in active : f \in uploaded[t] \/ t \in cleaner.unread
        BY <2>1, RemoveStep DEF NoLossStep
      <3>2. CASE CleanAct
        <4>1. cleaner.pc = "remove"
          BY <2>1, <3>2, CleanData DEF CleanupRemove
        <4> QED
          BY <3>1, <4>1 DEF IInv, CleanInv, CleanFileInv
      <3>3. CASE ~CleanAct
        BY <2>1, <3>3, DataGrows
      <3> QED
        BY <3>2, <3>3
    <2>2. ASSUME NEW w \in Tables \X Threads, Uploading(w)
          PROVE  worker[w].f \in data \cap link[w[1]] /\ worker[w].f \notin mark[w[1]]
      BY <2>2 DEF IInv, UploadInv, UploadInvAt, TW
    <2> QED
      BY <2>1, <2>2 DEF FinishedOnlyStep
  <1> QED
    BY <1>1, Invariance, PTL DEF Spec, FinishedOnly

\* What a step may take from the directory: a link by the rename that turns it
\* into a mark, a broken link, and a mark without data.
LEMMA DirShrinks == IInv /\ Step => LiveLinkKeptStep /\ MarkOutlivesDataStep
  <1> SUFFICES ASSUME IInv, Step PROVE LiveLinkKeptStep /\ MarkOutlivesDataStep
    OBVIOUS
  <1> USE DEF LiveLinkKeptStep, MarkOutlivesDataStep
  <1>1. CASE Start \/ LinkAllNext \/ LinkAllDone \/ Crash \/ Exit \/ StopWriter \/ WriterStopped
             \/ RotateSwitch \/ OpenFile \/ OpenFails \/ WorkerExit
    BY <1>1, ProcessDir
  <1>2. ASSUME NEW f \in Files, LinkAct(f) PROVE LiveLinkKeptStep /\ MarkOutlivesDataStep
    <2>1. UNCHANGED mark
      BY <1>2, LinkFrame DEF IInv
    <2>2. CASE LinkSymlink(f)
      BY <2>1, <2>2 DEF LinkSymlink, IInv, TypeOK
    <2>3. CASE ~LinkSymlink(f)
      BY <1>2, <2>1, <2>3 DEF LinkAct, LinkStat, LinkStatMark, LinkFails, LinkStatFails, dirVars
    <2> QED
      BY <2>2, <2>3
  <1>3. CASE CleanupUnmark
    <2>1. cleaner.f \notin data /\ UNCHANGED link
      BY <1>3 DEF CleanupUnmark, IInv, CleanInv, CleanFileInv
    <2> QED
      BY <1>3, <2>1 DEF CleanupUnmark, IInv, TypeOK
  <1>4. CASE CleanupUnlink
    <2> DEFINE t == cleaner.t
               f == cleaner.e[2]
    <2>1. cleaner.pc = "unlink" /\ t \in Tables /\ cleaner.e \in Entries
      BY <1>4 DEF CleanupUnlink, IInv, CleanInv, CleanDirInv, TypeOK, CleanerState
    <2>2. /\ link' = IF cleaner.e[1] = "link" THEN [link EXCEPT ![t] = @ \ {f}] ELSE link
          /\ mark' = IF cleaner.e[1] = "mark" THEN [mark EXCEPT ![t] = @ \ {f}] ELSE mark
      BY <1>4 DEF CleanupUnlink
    <2>3. CASE cleaner.e = NoEntry
      BY <2>2, <2>3 DEF NoEntry
    <2>4. CASE cleaner.e \in {"link", "mark"} \X Files
      <3>0. f \in Files /\ cleaner.e = <<cleaner.e[1], f>>
        BY <2>4
      <3>1. f \in Files /\ cleaner.e = <<cleaner.e[1], f>> /\ CleanEntryInv(f)
        BY <2>1, <3>0 DEF IInv, CleanInv, CleanDirInv
      <3>2. CASE cleaner.e[1] = "link"
        <4>1. f \notin link[t] \/ f \notin data \/ t \in cleaner.unread
          BY <2>1, <3>1, <3>2 DEF CleanEntryInv
        <4> QED
          BY <2>1, <2>2, <3>2, <4>1 DEF IInv, TypeOK
      <3>3. CASE cleaner.e[1] = "mark"
        <4>1. f \notin data \/ t \in cleaner.unread
          BY <2>1, <3>1, <3>3 DEF CleanEntryInv
        <4> QED
          BY <2>1, <2>2, <3>3, <4>1 DEF IInv, TypeOK
      <3> QED
        BY <2>4, <3>2, <3>3
    <2> QED
      BY <2>1, <2>3, <2>4 DEF Entries
  <1>5. CASE CleanAct /\ ~CleanupUnmark /\ ~CleanupUnlink
    BY <1>5 DEF CleanAct, CleanerTick, CleanupFile, CleanupStat, CleanupStatFails, MarkSeen,
           CleanupRemove, CleanupDirs,
                CleanupReadDir, CleanupEval, CleanupEvalFails, CleanupDirDone, CleanupDone, CleanupFails, dirVars
  <1>6. ASSUME NEW t \in Tables, ScanAct(t) PROVE LiveLinkKeptStep /\ MarkOutlivesDataStep
    BY <1>6, UploaderDir
  <1>7. ASSUME NEW w \in Tables \X Threads, UploadAct(w)
        PROVE  LiveLinkKeptStep /\ MarkOutlivesDataStep
    <2>1. CASE MarkAsFinished(w)
      BY <2>1 DEF MarkAsFinished, IInv, TypeOK
    <2>2. CASE ~MarkAsFinished(w)
      BY <1>7, <2>2, UploaderDir
    <2> QED
      BY <2>1, <2>2
  <1> QED
    BY <1>1, <1>2, <1>3, <1>4, <1>5, <1>6, <1>7 DEF Step

\* The cleaner never takes a link that has data to upload, unless EvalSymlinks failed
\* on it otherwise than for want of its target.
THEOREM LiveLinkSafe == Spec => LiveLinkKept
  <1>1. IInv /\ [Next]_vars => [LiveLinkKeptStep]_vars
    BY NextIsStep, DirShrinks
  <1> QED
    BY <1>1, Invariance, PTL DEF Spec, LiveLinkKept

\* A mark is removed after its file, unless EvalSymlinks failed on it while the file
\* was there.
THEOREM MarkOrderSafe == Spec => MarkOutlivesData
  <1>1. IInv /\ [Next]_vars => [MarkOutlivesDataStep]_vars
    BY NextIsStep, DirShrinks
  <1> QED
    BY <1>1, Invariance, PTL DEF Spec, MarkOutlivesData
=============================================================================
