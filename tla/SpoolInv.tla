------------------------------ MODULE SpoolInv ------------------------------
(***************************************************************************)
(* The inductive invariant behind the safety properties of Spool.          *)
(***************************************************************************)
EXTENDS Spool

Busy(f) == linker[f].pc # "idle"
TW == Tables \X Threads

\* What runs in which phase: nothing but LinkAll before the writer is up, and
\* in LinkAll one Link at a time, on files that exist.
PhaseInv ==
  /\ phase \in {"down", "linkAll", "failed"} => cleaner.pc = "idle"
  /\ phase \notin {"up", "stopWriter"} => wpc = "none"
  /\ wpc = "none" => cur = NoFile
  /\ phase \in {"down", "cleanup"} => \A f \in Files : ~Busy(f)
  /\ phase \in {"down", "linkAll", "cleanup"} =>
       /\ \A w \in TW : worker[w].pc = "idle"
  /\ phase = "linkAll" =>
       /\ lall \subseteq data
       /\ \A f \in Files : Busy(f) => f \in data
       /\ \A f, g \in Files : Busy(f) /\ Busy(g) => f = g

\* A name is on disk, in a directory or in ClickHouse only once it was given
\* out, and the name of the file being written only on disk.
NameInv ==
  /\ data \subseteq used
  /\ cur # NoFile => cur \in used
  /\ \A t \in Tables : link[t] \cup mark[t] \cup uploaded[t] \subseteq used \ {cur}
  /\ \A f \in Files : Busy(f) => f \in used \ {cur}
  /\ wpc = "open" => cur # NoFile /\ cur \notin data
  /\ wpc = "open" => phase \in {"up", "stopWriter"}

\* The listing of the directory of cleaner.t that the cleaner works through.
Listed(f) == cleaner.pc \in {"eval", "unlink"}
             /\ \E k \in {"link", "mark"} :
                  <<k, f>> \in cleaner.ents \/ (cleaner.pc = "unlink" /\ cleaner.e = <<k, f>>)

\* A Link call has not yet been where it still has to go: its file is neither
\* linked nor marked there, nor in a listing of it.  LinkAll meets links and
\* marks, but nothing moves while it runs.
LinkInvAt(f) ==
  /\ linker[f].pc \in {"statMark", "symlink"} =>
       linker[f].t \in linker[f].todo /\ f \notin link[linker[f].t]
  /\ linker[f].pc = "symlink" => f \notin mark[linker[f].t]
  /\ phase # "linkAll" => \A t \in linker[f].todo :
       /\ f \notin link[t] /\ f \notin mark[t]
       /\ ~(cleaner.t = t /\ Listed(f))
LinkInv == \A f \in Files : Busy(f) => LinkInvAt(f)

\* What the cleaner has found out about a file remains true while the others
\* move on: marks it has seen stay, unless they could not be read, and a file it
\* has removed does not return.
CleanFileInv ==
  /\ cleaner.pc # "idle" =>
       /\ cleaner.files \cup {cleaner.f} \subseteq used \cup {NoFile}
       /\ wpc = "open" => cur \notin cleaner.files \cup {cleaner.f}
       /\ cleaner.unread # {} =>
            IF cleaner.pc = "unlink" THEN "eval" \in Faults ELSE "stat" \in Faults
  /\ cleaner.pc \in {"stat", "remove", "unmark"} =>
       cleaner.f \in Files /\ cleaner.tabs \subseteq active /\ active # {}
  /\ cleaner.pc = "stat" => \A t \in active \ cleaner.tabs :
       cleaner.f \in mark[t] \/ t \in cleaner.unread
  /\ cleaner.pc = "remove" => \A t \in active :
       cleaner.f \in mark[t] \/ t \in cleaner.unread
  /\ cleaner.pc = "unmark" => cleaner.f \in used \ data

\* So does what it has found out about an entry of a listing: a mark that is
\* gone was a mark without data, and a link it is about to remove is broken or
\* gone, unless it could not be read.
CleanEntryInv(f) ==
  /\ Listed(f) => f \in used \ {cur}
  /\ <<"mark", f>> \in cleaner.ents => f \in mark[cleaner.t] \/ f \notin data
  /\ cleaner.pc = "unlink" /\ cleaner.e = <<"mark", f>> =>
       f \notin data \/ cleaner.t \in cleaner.unread
  /\ cleaner.pc = "unlink" /\ cleaner.e = <<"link", f>> =>
       f \notin link[cleaner.t] \/ f \notin data \/ cleaner.t \in cleaner.unread
CleanDirInv ==
  cleaner.pc \in {"eval", "unlink"} =>
    /\ cleaner.t \in Tables /\ \A f \in Files : CleanEntryInv(f)
    /\ cleaner.pc = "unlink" => cleaner.e \notin cleaner.ents

CleanInv == CleanFileInv /\ CleanDirInv

\* inQueue is an ownership: one holder per file and table.
Waiting(t, f) == \E i \in DOMAIN queue[t] : queue[t][i] = f
ScanHolds(t) ==
  scan[t].pc = "send" => scan[t].f \in inQueue[t] /\ ~Waiting(t, scan[t].f)
WorkerHolds(t, i) ==
  worker[<<t, i>>].pc # "idle" =>
    /\ worker[<<t, i>>].f \in inQueue[t]
    /\ ~Waiting(t, worker[<<t, i>>].f)
    /\ scan[t].pc = "send" => scan[t].f # worker[<<t, i>>].f
    /\ \A j \in Threads : worker[<<t, i>>].f = worker[<<t, j>>].f => i = j
QueueInvAt(t) ==
  /\ \A i \in DOMAIN queue[t] : queue[t][i] \in inQueue[t]
  /\ \A i, j \in DOMAIN queue[t] : queue[t][i] = queue[t][j] => i = j
  /\ ScanHolds(t)
  /\ \A i \in Threads : WorkerHolds(t, i)
QueueInv == \A t \in Tables : QueueInvAt(t)

\* A worker that inserts or marks a file is alone with it, and finds it there as
\* long as the cleaner reads what it looks at.
UploadInvAt(w) ==
  /\ worker[w].pc = "idle" <=> worker[w].f = NoFile
  /\ worker[w].pc # "idle" => w[1] \in active
  /\ Uploading(w) =>
       /\ worker[w].f \in used \ {cur}
       /\ worker[w].f \notin mark[w[1]]
       /\ "stat" \notin Faults => worker[w].f \in data
       /\ {"stat", "eval"} \cap Faults = {} => worker[w].f \in link[w[1]]
  /\ worker[w].pc = "mark" => worker[w].f \in uploaded[w[1]]
UploadInv == \A w \in TW : UploadInvAt(w)

IInv ==
  /\ TypeOK /\ PhaseInv /\ NameInv /\ LinkInv /\ CleanInv
  /\ QueueInv /\ UploadInv /\ LinkOrMark /\ MarkedIsStored
=============================================================================
