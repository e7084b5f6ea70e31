------------------------------- MODULE Spool -------------------------------
(***************************************************************************)
(* The on-disk spool of carbon-clickhouse: the directory through which the *)
(* writer hands finished chunk files to the uploaders, and everything that *)
(* touches it concurrently.                                                *)
(*                                                                         *)
(*   data       <path>/default.<nanoseconds>    chunk files                *)
(*   link[t]    <path>/<t>/default.<...>        symlinks: "to upload to t" *)
(*   mark[t]    <path>/<t>/_default.<...>       symlinks: "t has it"       *)
(*                                                                         *)
(* Actors: the writer's worker (rotates files), one goroutine per rotated  *)
(* file (Link), the cleaner (writer.Cleanup), and per table a watchWorker  *)
(* (scanDir) and some uploadWorkers; a process that starts (LinkAll and    *)
(* Cleanup before anything else), stops and crashes.  Every system call on *)
(* the directory is a step of its own.                                     *)
(*                                                                         *)
(* Abstracted: the content of files (module ChunkWriter), what a handler   *)
(* parses and caches (module UploadHandler; here it stores the whole file  *)
(* or reports an error), statistics, logging, the creation of the table    *)
(* directories.  A file name is a number, names in creation order.  Once a *)
(* context is cancelled a loop leaves at its next select: Go may also pick *)
(* another ready case, which is what happens when the cancellation comes   *)
(* one pass later.                                                         *)
(***************************************************************************)
EXTENDS Integers, Sequences, FiniteSets

CONSTANTS Files,      \* names the writer may use (bounds the rotations)
          Tables,     \* the [upload.<name>] sections there may be
          NoTable,    \* no table
          Threads,    \* upload threads of one table
          QueueSize,  \* capacity of Base.queue
          MaxStarts,  \* bound on the number of process starts
          MaxUnread,  \* bound on them: Stat fails up to this start
          Faults      \* which faults the environment produces

FaultKinds == {"link", "open", "readdir", "stat", "eval", "cleanup", "insert",
               "rename", "crash"}

ASSUME FilesAssumption   == Files \subseteq Nat \ {0}
ASSUME TablesAssumption  == NoTable \notin Tables
ASSUME QueueAssumption   == QueueSize \in Nat \ {0}
ASSUME StartsAssumption  == MaxStarts \in Nat /\ MaxUnread \in Nat
ASSUME FaultsAssumption  == Faults \subseteq FaultKinds

VARIABLES
  data, link, mark,   \* the directory; survives a crash
  uploaded,           \* [Tables -> files ClickHouse has stored]
  used,               \* names taken so far
  starts,             \* process starts so far
  active,             \* conf.Upload of the current (or last) process
  phase,              \* where App.Start / App.stopAll are
  cur, wpc,           \* Writer.worker: fn, and where the goroutine is
  lall,               \* LinkAll: files of the listing still to be linked
  linker,             \* [Files -> state of the Link call on that file]
  cleaner,            \* state of Writer.Cleanup
  scan,               \* [Tables -> state of Base.scanDir]
  inQueue, queue,     \* Base.inQueue, Base.queue per table
  worker              \* [Tables \X Threads -> state of an uploadWorker]

dirVars    == <<data, link, mark>>
procVars   == <<starts, active, phase>>
writerVars == <<cur, wpc, lall, used>>
upVars     == <<scan, inQueue, queue, worker>>
vars == <<data, link, mark, uploaded, used, starts, active, phase, cur, wpc,
          lall, linker, cleaner, scan, inQueue, queue, worker>>

NoFile == 0

NoEntry == <<"none", NoFile>>
IdleLinker  == [pc |-> "idle", todo |-> {}, t |-> NoTable]
IdleCleaner == [pc |-> "idle", files |-> {}, f |-> NoFile, tabs |-> {},
                unread |-> {}, t |-> NoTable, ents |-> {}, e |-> NoEntry]
IdleScan    == [pc |-> "idle", todo |-> {}, f |-> NoFile]
IdleWorker  == [pc |-> "idle", f |-> NoFile]

(***************************************************************************)
(* Type invariant.                                                         *)
(***************************************************************************)
Phases   == {"down", "linkAll", "cleanup", "up", "failed",
             "stopWriter", "stopUploaders"}
Entries  == ({"link", "mark"} \X Files) \cup {NoEntry}
LinkerState  == [pc : {"idle", "stat", "statMark", "symlink"},
                 todo : SUBSET Tables, t : Tables \cup {NoTable}]
CleanerState == [pc : {"idle", "file", "stat", "remove", "unmark", "dir",
                       "eval", "unlink"},
                 files : SUBSET Files, f : Files \cup {NoFile},
                 tabs : SUBSET Tables, unread : SUBSET Tables,
                 t : Tables \cup {NoTable},
                 ents : SUBSET Entries, e : Entries]
ScanState    == [pc : {"idle", "lstat", "claim", "send"},
                 todo : SUBSET Files, f : Files \cup {NoFile}]
WorkerState  == [pc : {"idle", "open", "insert", "mark", "release"},
                 f : Files \cup {NoFile}]

\* Every variable has the shape the code gives it.
TypeOK ==
  /\ data \subseteq Files
  /\ link \in [Tables -> SUBSET Files]
  /\ mark \in [Tables -> SUBSET Files]
  /\ uploaded \in [Tables -> SUBSET Files]
  /\ used \subseteq Files
  /\ starts \in 0 .. MaxStarts
  /\ active \subseteq Tables
  /\ phase \in Phases
  /\ cur \in Files \cup {NoFile}
  /\ wpc \in {"none", "rotate", "open", "run"}
  /\ lall \subseteq Files
  /\ linker \in [Files -> LinkerState]
  /\ cleaner \in CleanerState
  /\ scan \in [Tables -> ScanState]
  /\ inQueue \in [Tables -> SUBSET Files]
  /\ queue \in [Tables -> Seq(Files)]
  /\ worker \in [Tables \X Threads -> WorkerState]

Init ==
  /\ data = {} /\ link = [t \in Tables |-> {}] /\ mark = [t \in Tables |-> {}]
  /\ uploaded = [t \in Tables |-> {}]
  /\ used = {} /\ starts = 0 /\ active = {} /\ phase = "down"
  /\ cur = NoFile /\ wpc = "none" /\ lall = {}
  /\ linker = [f \in Files |-> IdleLinker] /\ cleaner = IdleCleaner
  /\ scan = [t \in Tables |-> IdleScan]
  /\ inQueue = [t \in Tables |-> {}] /\ queue = [t \in Tables |-> <<>>]
  /\ worker = [w \in Tables \X Threads |-> IdleWorker]

\* ioutil.ReadDir and sort.Strings: lists are worked through oldest first.
Oldest(f, S) == f \in S /\ \A g \in S : f <= g

\* os.Stat follows the symlink: it exists when both the link and its target do.
StatOK(dir, t, f) == f \in dir[t] /\ f \in data

(***************************************************************************)
(* Writer.Link, run on one file: by a goroutine of the worker after a      *)
(* rotation, or by LinkAll during Start.                                   *)
(***************************************************************************)
StartLink(tabs) == [pc |-> IF tabs = {} THEN "idle" ELSE "stat",
                    todo |-> tabs, t |-> NoTable]
\* continue with the next table of the loop, or return nil
NextTable(f, t) == linker' = [linker EXCEPT ![f] = StartLink(@.todo \ {t})]
\* return err: LinkAll, and with it Start, gives up; a goroutine only logs it
LinkReturnsErr(f) ==
  /\ linker' = [linker EXCEPT ![f] = IdleLinker]
  /\ phase' = IF phase = "linkAll" THEN "failed" ELSE phase
  /\ lall'  = IF phase = "linkAll" THEN {} ELSE lall

LinkStat(f) ==
  /\ linker[f].pc = "stat"
  /\ \E t \in linker[f].todo :
       IF StatOK(link, t, f)
         THEN NextTable(f, t)
         ELSE linker' = [linker EXCEPT ![f] = [pc |-> "statMark", todo |-> @.todo, t |-> t]]
  /\ UNCHANGED <<dirVars, uploaded, procVars, writerVars, cleaner, upVars>>

\* mutant: link what is not linked, uploaded or not
LinkSkipsMark(f) ==
  /\ linker[f].pc = "statMark"
  /\ linker' = [linker EXCEPT ![f] = [pc |-> "symlink", todo |-> @.todo, t |-> @.t]]
  /\ UNCHANGED <<dirVars, uploaded, procVars, writerVars, cleaner, upVars>>
LinkStatMark(f) ==
  /\ linker[f].pc = "statMark"
  /\ IF StatOK(mark, linker[f].t, f)
       THEN NextTable(f, linker[f].t)
       ELSE linker' = [linker EXCEPT ![f] =
                         [pc |-> "symlink", todo |-> @.todo, t |-> @.t]]
  /\ UNCHANGED <<dirVars, uploaded, procVars, writerVars, cleaner, upVars>>

LinkSymlink(f) ==
  LET t == linker[f].t IN
  /\ linker[f].pc = "symlink"
  /\ f \notin link[t]
  /\ link' = [link EXCEPT ![t] = @ \cup {f}]
  /\ NextTable(f, t)
  /\ UNCHANGED <<data, mark, uploaded, procVars, writerVars, cleaner, upVars>>

\* Mkdir or Symlink failed; Symlink also fails on a dangling link of that name
LinkFails(f) ==
  /\ linker[f].pc # "idle"
  /\ \/ "link" \in Faults
     \/ linker[f].pc = "symlink" /\ f \in link[linker[f].t]
  /\ LinkReturnsErr(f)
  /\ UNCHANGED <<dirVars, uploaded, starts, active, cur, wpc, used, cleaner,
                 upVars>>

\* an error of Stat other than "not exist" is taken for "already exists"
LinkStatFails(f) ==
  /\ "link" \in Faults
  /\ \/ linker[f].pc = "stat" /\ \E t \in linker[f].todo : NextTable(f, t)
     \/ linker[f].pc = "statMark" /\ NextTable(f, linker[f].t)
  /\ UNCHANGED <<dirVars, uploaded, procVars, writerVars, cleaner, upVars>>

NoLinkRunning == \A f \in Files : linker[f].pc = "idle"

(***************************************************************************)
(* The process.  Writer.Start: LinkAll, then Cleanup, then the worker and  *)
(* the cleaner; App.Start ignores its error and starts the uploaders.      *)
(* stopAll: the writer, then the uploaders; then the process exits.        *)
(***************************************************************************)
UploadersRun == phase \in {"up", "failed", "stopWriter"}
WriterRuns   == phase \in {"up", "stopWriter"}

\* everything but the directory and ClickHouse dies with the process
ProcessGone ==
  /\ phase' = "down" /\ cur' = NoFile /\ wpc' = "none" /\ lall' = {}
  /\ linker' = [f \in Files |-> IdleLinker] /\ cleaner' = IdleCleaner
  /\ scan' = [t \in Tables |-> IdleScan]
  /\ inQueue' = [t \in Tables |-> {}] /\ queue' = [t \in Tables |-> <<>>]
  /\ worker' = [w \in Tables \X Threads |-> IdleWorker]
  /\ UNCHANGED <<dirVars, uploaded, used, starts, active>>

\* the configuration may name other uploaders than last time, or none
Start ==
  /\ phase = "down" /\ starts < MaxStarts
  /\ active' \in SUBSET Tables
  /\ starts' = starts + 1
  /\ phase' = "linkAll"
  /\ lall' = data
  /\ UNCHANGED <<dirVars, uploaded, used, cur, wpc, linker, cleaner, upVars>>

LinkAllNext ==
  /\ phase = "linkAll" /\ NoLinkRunning
  /\ \E f \in lall :
       /\ Oldest(f, lall)
       /\ lall' = lall \ {f}
       /\ linker' = [linker EXCEPT ![f] = StartLink(active)]
  /\ UNCHANGED <<dirVars, uploaded, procVars, cur, wpc, used, cleaner, upVars>>

Crash ==
  /\ "crash" \in Faults
  /\ phase # "down"
  /\ ProcessGone

StopWriter ==
  /\ phase \in {"up", "failed"}
  /\ phase' = IF phase = "up" THEN "stopWriter" ELSE "stopUploaders"
  /\ UNCHANGED <<dirVars, uploaded, starts, active, writerVars, linker, cleaner,
                 upVars>>

\* doStop: wg.Wait for the worker and the cleaner (not for Link goroutines)
WriterStopped ==
  /\ phase = "stopWriter" /\ wpc = "none" /\ cleaner.pc = "idle"
  /\ phase' = "stopUploaders"
  /\ UNCHANGED <<dirVars, uploaded, starts, active, writerVars, linker, cleaner,
                 upVars>>

Exit ==
  /\ phase = "stopUploaders"
  /\ \A t \in Tables : scan[t].pc = "idle"
  /\ \A w \in Tables \X Threads : worker[w].pc = "idle"
  /\ ProcessGone

(***************************************************************************)
(* Writer.worker: rotateCheck and the exit.                                *)
(***************************************************************************)
\* mutants: the goroutine captures the variable fn; it runs on fn = "" too
OnFinishCaptured(fn, next) ==
  [g \in Files |-> IF g = next THEN StartLink(active) ELSE linker[g]]
OnFinishUnguarded(fn, next) ==
  [g \in Files \cup {fn} |-> IF g = fn THEN StartLink(active) ELSE linker[g]]
\* go onFinish(fn), but for the first file, where fn = ""
OnFinish(fn, next) ==
  [g \in Files |-> IF g = fn THEN StartLink(active) ELSE linker[g]]

\* size or interval reached (or first file): close fn, go onFinish(fn), next fn
RotateSwitch ==
  /\ WriterRuns /\ wpc \in {"rotate", "run"}
  /\ \E f \in Files \ used :
       /\ \A g \in Files : g < f => g \in used
       /\ used' = used \cup {f}
       /\ cur' = f
  /\ linker' = OnFinish(cur, cur')
  /\ wpc' = "open"
  /\ UNCHANGED <<dirVars, uploaded, procVars, lall, cleaner, upVars>>

OpenFile ==
  /\ wpc = "open"
  /\ data' = data \cup {cur}
  /\ wpc' = "run"
  /\ UNCHANGED <<link, mark, uploaded, procVars, cur, lall, used, linker,
                 cleaner, upVars>>

\* OpenFile failed, or the racing onFinish goroutine wrote its own result into
\* the shared err: the file may exist or not, and the worker retries with
\* another name or goes on (module ChunkWriter has the race in detail)
OpenFails ==
  /\ "open" \in Faults
  /\ wpc = "open"
  /\ \E created, retry \in BOOLEAN :
       /\ ~(created /\ ~retry)
       /\ data' = IF created THEN data \cup {cur} ELSE data
       /\ wpc' = IF retry /\ phase = "up" THEN "rotate" ELSE "run"
  /\ UNCHANGED <<link, mark, uploaded, procVars, cur, lall, used, linker,
                 cleaner, upVars>>

\* ctx.Done: the deferred function closes the file; nobody links it
WorkerExit ==
  /\ phase = "stopWriter" /\ wpc = "run"
  /\ wpc' = "none" /\ cur' = NoFile
  /\ UNCHANGED <<dirVars, uploaded, procVars, lall, used, linker, cleaner, upVars>>

(***************************************************************************)
(* Writer.Cleanup, run by Start and then by every tick of the cleaner.     *)
(***************************************************************************)
\* the stages of a pass: between files, at a file and its tables, between
\* directories, at the entries of the listing of one.  unread is no variable of
\* the code and no guard reads it: the tables in whose directory the system call
\* on the file or the entry in hand failed for another reason than that the name
\* does not exist.
AtFile(files) ==
  [pc |-> "file", files |-> files, f |-> NoFile, tabs |-> {}, unread |-> {},
   t |-> NoTable, ents |-> {}, e |-> NoEntry]
AtTables(pc, f, tabs, unread) ==
  [pc |-> pc, files |-> cleaner.files \ {f}, f |-> f, tabs |-> tabs,
   unread |-> unread, t |-> NoTable, ents |-> {}, e |-> NoEntry]
AtDirs(tabs) ==
  [pc |-> "dir", files |-> {}, f |-> NoFile, tabs |-> tabs, unread |-> {},
   t |-> NoTable, ents |-> {}, e |-> NoEntry]
AtEntries(t, tabs, ents) ==
  [pc |-> "eval", files |-> {}, f |-> NoFile, tabs |-> tabs, unread |-> {},
   t |-> t, ents |-> ents, e |-> NoEntry]
AtUnlink(e, unread) ==
  [pc |-> "unlink", files |-> {}, f |-> NoFile, tabs |-> cleaner.tabs,
   unread |-> unread, t |-> cleaner.t, ents |-> cleaner.ents \ {e}, e |-> e]

\* return from Cleanup; from Start's call, Start returns: up or failed
CleanupReturns(ok) ==
  /\ cleaner' = IdleCleaner
  /\ phase' = IF phase # "cleanup" THEN phase ELSE IF ok THEN "up" ELSE "failed"
  /\ wpc' = IF phase = "cleanup" /\ ok THEN "rotate" ELSE wpc
  /\ UNCHANGED <<starts, active, cur, lall, used>>
CleanupGoesOn(c) == cleaner' = c /\ UNCHANGED <<procVars, writerVars>>

\* on to Cleanup; ReadDir of LinkAll, or Mkdir or ReadDir of Cleanup, may fail
LinkAllDone ==
  /\ phase = "linkAll" /\ lall = {} /\ NoLinkRunning
  /\ \/ phase' = "cleanup" /\ cleaner' = AtFile(data)
     \/ "readdir" \in Faults /\ phase' = "failed" /\ UNCHANGED cleaner
  /\ UNCHANGED <<dirVars, uploaded, starts, active, writerVars, linker, upVars>>

CleanerTick ==
  /\ phase = "up" /\ cleaner.pc = "idle"
  /\ CleanupGoesOn(AtFile(data))
  /\ UNCHANGED <<dirVars, uploaded, linker, upVars>>

\* Cleanup(filename, tables): an empty list of tables is an error
CleanupFile ==
  /\ cleaner.pc = "file"
  /\ \E f \in cleaner.files :
       /\ Oldest(f, cleaner.files)
       /\ IF active = {}
            THEN CleanupReturns(FALSE)
            ELSE CleanupGoesOn(AtTables("stat", f, active, {}))
  /\ UNCHANGED <<dirVars, uploaded, linker, upVars>>

\* mutants: one finished table is enough; marks are removed before the file
CleanupAnyTable ==
  /\ cleaner.pc = "stat"
  /\ \E t \in cleaner.tabs :
       CleanupGoesOn(IF ~StatOK(mark, t, cleaner.f) THEN AtFile(cleaner.files)
                       ELSE AtTables("remove", cleaner.f, {}, {}))
  /\ UNCHANGED <<dirVars, uploaded, linker, upVars>>
CleanupMarksFirst ==
  /\ cleaner.pc = "stat"
  /\ CleanupGoesOn(IF \A t \in cleaner.tabs : StatOK(mark, t, cleaner.f)
                     THEN AtTables("unmark", cleaner.f, active, {})
                     ELSE AtFile(cleaner.files))
  /\ UNCHANGED <<dirVars, uploaded, linker, upVars>>
\* the mark of t counts as there: on to the next table, or remove the file
MarkSeen(t, unread) ==
  CleanupGoesOn(AtTables(IF cleaner.tabs = {t} THEN "remove" ELSE "stat",
                         cleaner.f, cleaner.tabs \ {t}, unread))
CleanupStat ==
  /\ cleaner.pc = "stat"
  /\ \E t \in cleaner.tabs :
       IF StatOK(mark, t, cleaner.f)
         THEN MarkSeen(t, cleaner.unread)
         ELSE CleanupGoesOn(AtFile(cleaner.files))   \* file not finished
  /\ UNCHANGED <<dirVars, uploaded, linker, upVars>>

\* an error of Stat other than "not exist" is taken for a mark that is there
CleanupStatFails ==
  /\ "stat" \in Faults /\ starts <= MaxUnread
  /\ cleaner.pc = "stat"
  /\ \E t \in cleaner.tabs : MarkSeen(t, cleaner.unread \cup {t})
  /\ UNCHANGED <<dirVars, uploaded, linker, upVars>>

CleanupRemove ==
  /\ cleaner.pc = "remove"
  /\ data' = data \ {cleaner.f}
  /\ CleanupGoesOn(AtTables("unmark", cleaner.f, active, {}))
  /\ UNCHANGED <<link, mark, uploaded, linker, upVars>>

CleanupUnmark ==
  /\ cleaner.pc = "unmark"
  /\ \E t \in cleaner.tabs :
       /\ mark' = [mark EXCEPT ![t] = @ \ {cleaner.f}]
       /\ IF cleaner.f \in mark[t]
            THEN CleanupGoesOn(
                   IF cleaner.tabs = {t} THEN AtFile(cleaner.files)
                     ELSE AtTables("unmark", cleaner.f, cleaner.tabs \ {t}, {}))
            ELSE CleanupReturns(FALSE)
  /\ UNCHANGED <<data, link, uploaded, linker, upVars>>

\* remove broken links: one table directory after the other
CleanupDirs ==
  /\ cleaner.pc = "file" /\ cleaner.files = {}
  /\ CleanupGoesOn(AtDirs(active))
  /\ UNCHANGED <<dirVars, uploaded, linker, upVars>>

DirEntries(t) == ({"link"} \X link[t]) \cup ({"mark"} \X mark[t])

CleanupReadDir ==
  /\ cleaner.pc = "dir"
  /\ \E t \in cleaner.tabs :
       CleanupGoesOn(AtEntries(t, cleaner.tabs \ {t}, DirEntries(t)))
  /\ UNCHANGED <<dirVars, uploaded, linker, upVars>>

\* EvalSymlinks fails on a link without a target and on a link that is gone
EvalFails(t, e) == FALSE   \* mutant: the path is resolved in the wrong directory
EvalOK(t, e) == e \in DirEntries(t) /\ e[2] \in data

CleanupEval ==
  /\ cleaner.pc = "eval"
  /\ \E e \in cleaner.ents :
       CleanupGoesOn(
         IF EvalOK(cleaner.t, e)
           THEN AtEntries(cleaner.t, cleaner.tabs, cleaner.ents \ {e})
           ELSE AtUnlink(e, {}))
  /\ UNCHANGED <<dirVars, uploaded, linker, upVars>>

\* any other error of EvalSymlinks is taken for a broken link
CleanupEvalFails ==
  /\ "eval" \in Faults /\ starts <= MaxUnread
  /\ cleaner.pc = "eval"
  /\ \E e \in cleaner.ents : CleanupGoesOn(AtUnlink(e, {cleaner.t}))
  /\ UNCHANGED <<dirVars, uploaded, linker, upVars>>

CleanupDirDone ==
  /\ cleaner.pc = "eval" /\ cleaner.ents = {}
  /\ CleanupGoesOn(AtDirs(cleaner.tabs))
  /\ UNCHANGED <<dirVars, uploaded, linker, upVars>>

\* os.Remove of an entry that was renamed in the meantime ends the whole pass
CleanupUnlink ==
  LET t == cleaner.t
      k == cleaner.e[1]
      f == cleaner.e[2]
  IN /\ cleaner.pc = "unlink"
     /\ IF cleaner.e \in DirEntries(t)
          THEN CleanupGoesOn(AtEntries(t, cleaner.tabs, cleaner.ents))
          ELSE CleanupReturns(FALSE)
     /\ link' = IF k = "link" THEN [link EXCEPT ![t] = @ \ {f}] ELSE link
     /\ mark' = IF k = "mark" THEN [mark EXCEPT ![t] = @ \ {f}] ELSE mark
     /\ UNCHANGED <<data, uploaded, linker, upVars>>

CleanupDone ==
  /\ cleaner.pc = "dir" /\ cleaner.tabs = {}
  /\ CleanupReturns(TRUE)
  /\ UNCHANGED <<dirVars, uploaded, linker, upVars>>

\* ReadDir or Remove failed
CleanupFails ==
  /\ "cleanup" \in Faults
  /\ cleaner.pc \in {"remove", "unmark", "dir", "unlink"}
  /\ CleanupReturns(FALSE)
  /\ UNCHANGED <<dirVars, uploaded, linker, upVars>>

(***************************************************************************)
(* uploader.Base: scanDir, once a second, for every configured table.      *)
(***************************************************************************)
ScanReadDir(t) ==
  /\ UploadersRun /\ t \in active
  /\ scan[t].pc = "idle" /\ link[t] # {}
  /\ scan' = [scan EXCEPT ![t] = [pc |-> "lstat", todo |-> link[t], f |-> NoFile]]
  /\ UNCHANGED <<dirVars, uploaded, procVars, writerVars, linker, cleaner,
                 inQueue, queue, worker>>

\* one Lstat per entry; the first failure ends the scan
ScanLstat(t) ==
  /\ scan[t].pc = "lstat"
  /\ scan' = [scan EXCEPT ![t] = IF @.todo \subseteq link[t]
                                   THEN [pc |-> "claim", todo |-> @.todo, f |-> NoFile]
                                   ELSE IdleScan]
  /\ UNCHANGED <<dirVars, uploaded, procVars, writerVars, linker, cleaner,
                 inQueue, queue, worker>>

NeverInQueue(t, f) == FALSE   \* mutant: the check of inQueue is forgotten
InQueue(t, f) == f \in inQueue[t]

\* under the lock: skip what is in the queue already, or take the file
ScanClaim(t) ==
  /\ scan[t].pc = "claim"
  /\ \E f \in scan[t].todo :
       /\ Oldest(f, scan[t].todo)
       /\ IF InQueue(t, f)
            THEN /\ scan' = [scan EXCEPT ![t] =
                       [pc |-> "claim", todo |-> @.todo \ {f}, f |-> NoFile]]
                 /\ UNCHANGED inQueue
            ELSE /\ scan' = [scan EXCEPT ![t] =
                       [pc |-> "send", todo |-> @.todo \ {f}, f |-> f]]
                 /\ inQueue' = [inQueue EXCEPT ![t] = @ \cup {f}]
  /\ UNCHANGED <<dirVars, uploaded, procVars, writerVars, linker, cleaner,
                 queue, worker>>

ScanSend(t) ==
  /\ scan[t].pc = "send"
  /\ Len(queue[t]) < QueueSize
  /\ queue' = [queue EXCEPT ![t] = Append(@, scan[t].f)]
  /\ scan' = [scan EXCEPT ![t] = [pc |-> "claim", todo |-> @.todo, f |-> NoFile]]
  /\ UNCHANGED <<dirVars, uploaded, procVars, writerVars, linker, cleaner,
                 inQueue, worker>>

\* mutant: send without select, so that a full queue blocks the stop
ScanIgnoresStop(t) ==
  /\ scan[t].pc = "claim" /\ scan[t].todo = {}
  /\ scan' = [scan EXCEPT ![t] = IdleScan]
  /\ UNCHANGED <<dirVars, uploaded, procVars, writerVars, linker, cleaner,
                 inQueue, queue, worker>>
\* the list is done, or ctx.Done in the select of the send
ScanDone(t) ==
  /\ \/ scan[t].pc = "claim" /\ scan[t].todo = {}
     \/ scan[t].pc = "send" /\ phase = "stopUploaders"
  /\ scan' = [scan EXCEPT ![t] = IdleScan]
  /\ UNCHANGED <<dirVars, uploaded, procVars, writerVars, linker, cleaner,
                 inQueue, queue, worker>>

(***************************************************************************)
(* uploader.Base: uploadWorker i of table t, w = <<t, i>>.                 *)
(***************************************************************************)
\* mutant: the file is marked whatever the handler returned
GotoMark(w, pc) ==
  worker' = [worker EXCEPT ![w] =
    [pc |-> IF worker[w].pc = "insert" THEN "mark" ELSE pc, f |-> @.f]]
Goto(w, pc) == worker' = [worker EXCEPT ![w] = [pc |-> pc, f |-> @.f]]

Take(w) ==
  LET t == w[1] IN
  /\ UploadersRun /\ t \in active
  /\ worker[w].pc = "idle" /\ queue[t] # <<>>
  /\ worker' = [worker EXCEPT ![w] = [pc |-> "open", f |-> Head(queue[t])]]
  /\ queue' = [queue EXCEPT ![t] = Tail(@)]
  /\ UNCHANGED <<dirVars, uploaded, procVars, writerVars, linker, cleaner,
                 scan, inQueue>>

\* the handler opens the link; a link that is gone or dangling is its error
Open(w) ==
  /\ worker[w].pc = "open"
  /\ Goto(w, IF StatOK(link, w[1], worker[w].f) THEN "insert" ELSE "release")
  /\ UNCHANGED <<dirVars, uploaded, procVars, writerVars, linker, cleaner,
                 scan, inQueue, queue>>

InsertOK(w) ==
  /\ worker[w].pc = "insert"
  /\ uploaded' = [uploaded EXCEPT ![w[1]] = @ \cup {worker[w].f}]
  /\ Goto(w, "mark")
  /\ UNCHANGED <<dirVars, procVars, writerVars, linker, cleaner, scan,
                 inQueue, queue>>

\* an error, or "upload aborted" while stopping; ClickHouse may have stored it
InsertFails(w) ==
  /\ "insert" \in Faults \/ phase = "stopUploaders"
  /\ worker[w].pc = "insert"
  /\ \/ uploaded' = [uploaded EXCEPT ![w[1]] = @ \cup {worker[w].f}]
     \/ UNCHANGED uploaded
  /\ Goto(w, "release")
  /\ UNCHANGED <<dirVars, procVars, writerVars, linker, cleaner, scan,
                 inQueue, queue>>

\* os.Rename fails when the link is gone
MarkAsFinished(w) ==
  LET t == w[1]
      f == worker[w].f
  IN /\ worker[w].pc = "mark"
     /\ link' = [link EXCEPT ![t] = @ \ {f}]
     /\ mark' = IF f \in link[t] THEN [mark EXCEPT ![t] = @ \cup {f}] ELSE mark
     /\ Goto(w, "release")
     /\ UNCHANGED <<data, uploaded, procVars, writerVars, linker, cleaner, scan,
                    inQueue, queue>>

RenameFails(w) ==
  /\ "rename" \in Faults
  /\ worker[w].pc = "mark"
  /\ Goto(w, "release")
  /\ UNCHANGED <<dirVars, uploaded, procVars, writerVars, linker, cleaner, scan,
                 inQueue, queue>>

\* mutant: a failed upload stays in inQueue
KeepInQueue(w) ==
  /\ worker[w].pc = "release"
  /\ worker' = [worker EXCEPT ![w] = IdleWorker]
  /\ UNCHANGED <<dirVars, uploaded, procVars, writerVars, linker, cleaner, scan,
                 inQueue, queue>>
RemoveFromQueue(w) ==
  /\ worker[w].pc = "release"
  /\ inQueue' = [inQueue EXCEPT ![w[1]] = @ \ {worker[w].f}]
  /\ worker' = [worker EXCEPT ![w] = IdleWorker]
  /\ UNCHANGED <<dirVars, uploaded, procVars, writerVars, linker, cleaner, scan,
                 queue>>
-----------------------------------------------------------------------------
LinkStep(f) == LinkStat(f) \/ LinkStatMark(f) \/ LinkSymlink(f)
CleanupStep == CleanupFile \/ CleanupStat \/ CleanupRemove \/ CleanupUnmark
               \/ CleanupDirs \/ CleanupReadDir \/ CleanupEval \/ CleanupDirDone
               \/ CleanupUnlink \/ CleanupDone
ScanStep(t) == ScanLstat(t) \/ ScanClaim(t) \/ ScanSend(t) \/ ScanDone(t)

Process  == Start \/ LinkAllNext \/ LinkAllDone \/ Crash \/ StopWriter
            \/ WriterStopped \/ Exit
Worker   == RotateSwitch \/ OpenFile \/ OpenFails \/ WorkerExit
Linker   == \E f \in Files : LinkStep(f) \/ LinkFails(f) \/ LinkStatFails(f)
Cleaner  == CleanerTick \/ CleanupStep \/ CleanupStatFails \/ CleanupEvalFails
            \/ CleanupFails
Scanner  == \E t \in Tables : ScanReadDir(t) \/ ScanStep(t)
Uploader == \E w \in Tables \X Threads :
              \/ Take(w) \/ Open(w) \/ InsertOK(w) \/ InsertFails(w)
              \/ MarkAsFinished(w) \/ RenameFails(w) \/ RemoveFromQueue(w)

Next == Process \/ Worker \/ Linker \/ Cleaner \/ Scanner \/ Uploader

Spec == Init /\ [][Next]_vars

(***************************************************************************)
(* Safety.                                                                 *)
(***************************************************************************)
\* The file the worker is writing is not visible to any uploader: Link runs on
\* the name that was closed, never on the one just opened (writer.go:181-192).
OpenFileUnlinked ==
  \A t \in Tables : cur \notin link[t] \cup mark[t]

\* A file is to be uploaded to a table or uploaded, never both: Link looks for
\* the mark before it links, MarkAsFinished renames, and a restart links only
\* what has neither (link.go:26-36).  Otherwise a file would be inserted again.
LinkOrMark == \A t \in Tables : link[t] \cap mark[t] = {}

\* A mark says that ClickHouse has the file (base.go:206-208).
MarkedIsStored == \A t \in Tables : mark[t] \subseteq uploaded[t]

\* inQueue keeps a file of a table in one place: in one slot of the queue, or
\* with one worker, or in the hands of scanDir (base.go:109-126, 206-211), and
\* two threads never insert the same file.
Holders(t, f) ==
  (IF scan[t].pc = "send" /\ scan[t].f = f THEN {<<"scan", 0>>} ELSE {})
  \cup {<<"queue", i>> : i \in {j \in DOMAIN queue[t] : queue[t][j] = f}}
  \cup {<<"worker", i>> : i \in {j \in Threads : worker[<<t, j>>].f = f}}
OneHolder ==
  \A t \in Tables, f \in Files :
    /\ \A x, y \in Holders(t, f) : x = y
    /\ Holders(t, f) # {} => f \in inQueue[t]

\* While a worker inserts a file, and until it has marked it, nobody else marks
\* the file or takes away its link or the data it points to: neither a second
\* worker nor the cleaner gets at it (base.go:175-214, cleanup.go:14-43, 89-107).
\* Excepted is the cleaner that could not read the mark or the link: it takes the
\* error for a finished table or a broken link (cleanup.go:24, 98).
Uploading(w) == worker[w].pc \in {"insert", "mark"}
UploadIsUndisturbedStep ==
  \A w \in Tables \X Threads : Uploading(w) /\ worker'[w] = worker[w] =>
     LET t == w[1]
         f == worker[w].f
     IN /\ f \notin mark'[t]
        /\ f \in data \cap link[t] =>
             f \in data' \cap link'[t] \/ t \in cleaner.unread
UploadIsUndisturbed == [][UploadIsUndisturbedStep]_vars

\* A chunk file leaves the disk only when every configured uploader has stored
\* it, and never when none is configured (cleanup.go:14-43).  The one way round
\* it that the code has, against its comment "remove finished files"
\* (cleanup.go:76): a table whose mark Stat could not read counts as finished
\* (cleanup.go:24), and a file it has not stored is gone.
NoLossStep ==
  \A f \in data \ data' :
    active # {} /\ \A t \in active : f \in uploaded[t] \/ t \in cleaner.unread
NoLoss == [][NoLossStep]_vars

\* Where Stat and EvalSymlinks fail only for names that do not exist, without
\* exception: the data of a file that is being uploaded and its link stay, and
\* only what every table has stored is removed.
FinishedOnlyStep ==
  /\ \A f \in data \ data' : active # {} /\ \A t \in active : f \in uploaded[t]
  /\ \A w \in Tables \X Threads :
       Uploading(w) => /\ worker[w].f \in data \cap link[w[1]]
                       /\ worker[w].f \notin mark[w[1]]
FinishedOnly == [][{"stat", "eval"} \cap Faults = {} => FinishedOnlyStep]_vars

\* A link goes away because its file was uploaded (it becomes the mark) or
\* because its target is gone: the cleaner, which works from an old listing,
\* never removes a link that still has data to upload, unless EvalSymlinks failed
\* on it otherwise (cleanup.go:89-107).
LiveLinkKeptStep ==
  \A t \in Tables : \A f \in link[t] \ link'[t] :
    f \in mark'[t] \/ f \notin data \/ t \in cleaner.unread
LiveLinkKept == [][LiveLinkKeptStep]_vars

\* A mark goes away only after its file: a crash between the two leaves a broken
\* mark, never a finished file that would be linked and inserted again
\* (cleanup.go:30-40).  Excepted is again the mark on which EvalSymlinks failed
\* otherwise (cleanup.go:98).
MarkOutlivesDataStep ==
  \A t \in Tables : (mark[t] \ mark'[t]) \cap data # {} => t \in cleaner.unread
MarkOutlivesData == [][MarkOutlivesDataStep]_vars

\* The spool is an at-least-once delivery buffer: module Delivery, with the
\* files on disk, what ClickHouse has, the configured tables, and the tables
\* whose mark the cleaner could not read.  Where Stat fails for nothing but a
\* name that does not exist, nothing is doubted and delivery is certain.
Doubted == IF cleaner.pc \in {"stat", "remove"} THEN cleaner.unread \X {cleaner.f}
                                                ELSE {}
D == INSTANCE Delivery WITH stored <- data, delivered <- uploaded, dests <- active,
                            doubted <- Doubted, MayDoubt <- "stat" \in Faults
ImplementsDelivery == D!Spec

(***************************************************************************)
(* Liveness.  Goroutines are scheduled, tickers fire, and select is fair   *)
(* between its ready cases.  ClickHouse and the disk may fail any number   *)
(* of times but not for ever: inserts and renames are strongly fair.       *)
(***************************************************************************)
Fairness ==
  /\ WF_vars(LinkAllNext \/ LinkAllDone \/ WriterStopped \/ Exit)
  /\ WF_vars(OpenFile) /\ WF_vars(WorkerExit)
  /\ WF_vars(wpc = "rotate" /\ RotateSwitch)
  /\ \A f \in Files : WF_vars(LinkStep(f))
  /\ WF_vars(CleanerTick) /\ WF_vars(CleanupStep)
  /\ \A t \in Tables :
       /\ WF_vars(ScanReadDir(t)) /\ WF_vars(ScanStep(t))
       /\ WF_vars(\E i \in Threads : Take(<<t, i>>))
  /\ \A w \in Tables \X Threads :
       /\ WF_vars(Open(w)) /\ WF_vars(RemoveFromQueue(w))
       /\ SF_vars(InsertOK(w)) /\ SF_vars(MarkAsFinished(w))

LiveSpec == Spec /\ Fairness

\* As long as the process runs, a closed chunk file does not stay on disk: it is
\* linked, queued, uploaded to every table (failed inserts and renames are tried
\* again) and cleaned up (base.go:65-128, 175-214; cleanup.go:45-110).
Drained ==
  \A f \in Files :
    phase = "up" /\ active # {} /\ f \in data \ {cur} ~> f \notin data \/ phase # "up"

\* Stop returns: the worker and the cleaner leave, no scanDir stays blocked on a
\* full queue nobody reads any more, no uploadWorker waits for ever
\* (stop.go:67-81, base.go:119-125).  (When the names of the bound are used up
\* the worker cannot open its first file, which the code always can.)
Stops ==
  phase \in {"stopWriter", "stopUploaders"} /\ (wpc = "rotate" => used # Files)
    ~> phase = "down"
=============================================================================
