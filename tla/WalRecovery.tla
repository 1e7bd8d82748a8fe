----------------------------- MODULE WalRecovery -----------------------------
(***************************************************************************)
(* The loop of WAL.recover (src/src/wal.py), one record per step, inside   *)
(* BPlusPager._recover (src/src/bplus_pager.py): replay, meta page, fsync, *)
(* truncation.  The machine may stop at any point of it, with any of the   *)
(* page writes done so far on disk, and recovery then starts again.        *)
(***************************************************************************)
EXTENDS Wal

CONSTANTS
    Page,      \* page ids, natural numbers
    Image,     \* page images
    Blank,     \* the image of a page never written
    Txn,       \* transaction ids
    NoTxn,     \* active_txn_id None
    NoRoot,    \* no META_UPDATE applied
    MaxLog,    \* bound on the length of the log
    MaxCrashes \* bound on the crashes during recovery

ASSUME PageAssumption == Page \subseteq Nat
ASSUME NoTxnAssumption == NoTxn \notin Txn
ASSUME NoRootAssumption == NoRoot \notin Page
ASSUME MaxLogAssumption == MaxLog \in Nat
ASSUME MaxCrashesAssumption == MaxCrashes \in Nat

Record ==
    [type: {"page"}, page: Page, image: Image] \cup [type: {"meta"}, root: Page]
    \cup [type: {"begin", "commit", "abort"}, txn: Txn] \cup {Checkpoint}

VARIABLES
    log,       \* the WAL file
    original,  \* the data file when the crash happened (history)
    disk,      \* what of the data file has survived for certain
    file,      \* the data file as recovery has written it
    step,      \* "scan", "sync", "truncate" or "done"
    pos,       \* how many records have been read
    active,    \* active_txn_id
    pendingPages, pendingMeta,  \* the buffers of the active transaction
    root, maxPage,              \* root_page_id (with had_meta) and max_page_id
    crashes

scan == <<pos, active, pendingPages, pendingMeta, root, maxPage>>
vars == <<log, original, disk, file, step, scan, crashes>>

TypeOK ==
    /\ log \in Seq(Record) /\ Len(log) <= MaxLog
    /\ {original, disk, file} \subseteq [Page -> Image \cup {Blank}]
    /\ step \in {"scan", "sync", "truncate", "done"}
    /\ pos \in 0..Len(log)
    /\ active \in Txn \cup {NoTxn}
    /\ pendingPages \in Seq([type: {"page"}, page: Page, image: Image])
    /\ pendingMeta \in Seq(Page)
    /\ root \in Page \cup {NoRoot}
    /\ maxPage \in Page \cup {-1}
    /\ crashes \in 0..MaxCrashes

Start ==
    /\ step = "scan" /\ pos = 0 /\ active = NoTxn
    /\ pendingPages = <<>> /\ pendingMeta = <<>>
    /\ root = NoRoot /\ maxPage = -1

Init ==
    /\ log \in UNION {[1..n -> Record] : n \in 0..MaxLog}
    /\ original = [p \in Page |-> Blank]
    /\ disk = original /\ file = original
    /\ Start
    /\ crashes = 0

-----------------------------------------------------------------------------
Larger(a, b) == IF a < b THEN b ELSE a

Reads(type) ==
    /\ step = "scan" /\ pos < Len(log)
    /\ log[pos + 1].type = type
    /\ pos' = pos + 1
    /\ UNCHANGED <<log, original, disk, step, crashes>>

\* PAGE_WRITE: applied at once outside a transaction, else buffered.
ReadPage ==
    /\ Reads("page")
    /\ LET r == log[pos + 1] IN
       IF active = NoTxn
       THEN /\ file' = [file EXCEPT ![r.page] = r.image]
            /\ maxPage' = Larger(maxPage, r.page)
            /\ UNCHANGED pendingPages
       ELSE /\ pendingPages' = Append(pendingPages, r)
            /\ UNCHANGED <<file, maxPage>>
    /\ UNCHANGED <<active, pendingMeta, root>>

\* META_UPDATE: likewise.
ReadMeta ==
    /\ Reads("meta")
    /\ IF active = NoTxn
       THEN root' = log[pos + 1].root /\ UNCHANGED pendingMeta
       ELSE pendingMeta' = Append(pendingMeta, log[pos + 1].root) /\ UNCHANGED root
    /\ UNCHANGED <<file, active, pendingPages, maxPage>>

Drop == pendingPages' = <<>> /\ pendingMeta' = <<>>

\* TXN_BEGIN: an unfinished transaction before it is forgotten.
ReadBegin ==
    /\ Reads("begin")
    /\ active' = log[pos + 1].txn
    /\ Drop
    /\ UNCHANGED <<file, root, maxPage>>

\* The buffered writes in order; the last one of a page is what remains.
Flushed(f, writes) ==
    [p \in Page |->
        LET own == {i \in 1..Len(writes) : writes[i].page = p}
        IN  IF own = {} THEN f[p]
            ELSE writes[CHOOSE i \in own : \A j \in own : j <= i].image]

\* Mutant of ReadCommit: the commit of another transaction applies the buffers.
ReadCommit_AnyTxn ==
    /\ Reads("commit")
    /\ file' = Flushed(file, pendingPages)
    /\ maxPage' = CHOOSE m \in {maxPage} \cup {pendingPages[i].page : i \in 1..Len(pendingPages)} :
            maxPage <= m /\ \A i \in 1..Len(pendingPages) : pendingPages[i].page <= m
    /\ root' = IF pendingMeta = <<>> THEN root ELSE pendingMeta[Len(pendingMeta)]
    /\ active' = NoTxn
    /\ Drop

\* TXN_COMMIT: the buffers are applied if the active transaction is meant, and
\* emptied in any case.
ReadCommit ==
    /\ Reads("commit")
    /\ IF active = log[pos + 1].txn
       THEN /\ file' = Flushed(file, pendingPages)
            /\ maxPage' = CHOOSE m \in {maxPage} \cup {pendingPages[i].page : i \in 1..Len(pendingPages)} :
                    maxPage <= m /\ \A i \in 1..Len(pendingPages) : pendingPages[i].page <= m
            /\ root' = IF pendingMeta = <<>> THEN root ELSE pendingMeta[Len(pendingMeta)]
       ELSE UNCHANGED <<file, maxPage, root>>
    /\ active' = NoTxn
    /\ Drop

\* TXN_ABORT: whichever transaction it names, the active one is discarded.
ReadAbort ==
    /\ Reads("abort")
    /\ active' = NoTxn
    /\ Drop
    /\ UNCHANGED <<file, root, maxPage>>

ReadCheckpoint ==
    /\ Reads("checkpoint")
    /\ UNCHANGED <<file, active, pendingPages, pendingMeta, root, maxPage>>

\* Mutant of EndOfLog: the log is truncated without an fsync of the data file.
EndOfLog_NoSync ==
    /\ step = "scan" /\ pos = Len(log)
    /\ step' = "truncate"
    /\ UNCHANGED <<log, original, disk, file, scan, crashes>>

\* The end of the log: what is still buffered is never applied, and the pager
\* writes the meta page.
EndOfLog ==
    /\ step = "scan" /\ pos = Len(log)
    /\ step' = "sync"
    /\ UNCHANGED <<log, original, disk, file, scan, crashes>>

\* fsync of the data file.
Sync ==
    /\ step = "sync"
    /\ disk' = file
    /\ step' = "truncate"
    /\ UNCHANGED <<log, original, file, scan, crashes>>

\* checkpoint(): the log is emptied and the database is open.
Truncate ==
    /\ step = "truncate"
    /\ log' = <<>> /\ pos' = 0
    /\ step' = "done"
    /\ UNCHANGED <<original, disk, file, active, pendingPages, pendingMeta, root, maxPage, crashes>>

\* The machine stops: each page written since the last fsync has its old image
\* or the one last written, and recovery starts from the first record.
Crash ==
    /\ crashes < MaxCrashes
    /\ crashes' = crashes + 1
    /\ \E kept \in SUBSET {p \in Page : file[p] # disk[p]} :
         disk' = [p \in Page |-> IF p \in kept THEN file[p] ELSE disk[p]]
    /\ file' = disk'
    /\ IF step = "done" THEN UNCHANGED <<step, scan>>
       ELSE /\ step' = "scan" /\ pos' = 0 /\ active' = NoTxn
            /\ Drop
            /\ root' = NoRoot /\ maxPage' = -1
    /\ UNCHANGED <<log, original>>

Next ==
    \/ ReadPage \/ ReadMeta \/ ReadBegin \/ ReadCommit \/ ReadAbort \/ ReadCheckpoint
    \/ EndOfLog \/ Sync \/ Truncate \/ Crash

Spec == Init /\ [][Next]_vars

-----------------------------------------------------------------------------
\* However often recovery is interrupted, and whatever of its writes is then on
\* disk, what it has written when it comes to the end of the log is what the
\* log's closed brackets and unbracketed records say of the original file, no
\* more and no less: replay is idempotent (wal.py:56-60).
RecoversCommitted ==
    step = "sync" => file = Replayed(log, original)

\* The root and the page counter the pager goes on with agree with what has been
\* replayed: the root is that of the last META_UPDATE that took effect, and no
\* replayed page is above the high-water mark (bplus_pager.py:149-156).
RecoversMeta ==
    step = "sync" =>
        /\ root = RecoveredRoot(log, NoRoot)
        /\ maxPage + 1 = RecoveredNext(log, 0)

\* What recovery hands to the pager, data file, root and page counter.
Recovers == TypeOK /\ RecoversCommitted /\ RecoversMeta

\* "Recovery: PAGE_WRITEs outside a TXN_BEGIN...TXN_COMMIT pair are discarded."
\* (SELF_NOTES.md:120): only a write inside a bracket changes the data file.
UnbracketedDiscarded ==
    step = "sync" => \A p \in Page : file[p] # original[p] =>
        \E b, i \in 1..Len(log) :
            log[i].type = "page" /\ log[i].page = p /\ OpenedBy(log, b, i)

\* The log is given up only when the data file holds all of it for certain.
TruncatedWhenDurable ==
    [][step = "truncate" /\ step' = "done" => disk = Replayed(log, original)]_vars
=============================================================================
