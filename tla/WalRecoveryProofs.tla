-------------------------- MODULE WalRecoveryProofs --------------------------
(***************************************************************************)
(* Proofs about WalRecovery for every log, every set of pages and every    *)
(* number of crashes.  The argument follows the set of log positions whose *)
(* change the loop has already made (Settled) and of those it holds back   *)
(* (Pending): the root, the counter and every page of the data file are    *)
(* what the last settled position says of them, and a page none of them    *)
(* names is as the crash left it, or is named by a write still to come.    *)
(***************************************************************************)
EXTENDS WalRecovery, TLAPS

-----------------------------------------------------------------------------
(* Positions of a log of which the first n records have been read.          *)

\* The bracket that contains position i is open after n records.
InOpen(L, n, i) == \E b \in 1..n : OpenedBy(L, b, n + 1) /\ b < i

NothingOpen(L, n) == \A b \in 1..n : ~OpenedBy(L, b, n + 1)

\* The changes made, and those held back, after n records.
Settled(L, n) == {i \in 1..n : Applied(L, i) /\ ~InOpen(L, n, i)}
Pending(L, n) == {i \in 1..n : IsChange(L[i]) /\ InOpen(L, n, i)}

\* The last position in a set of them.
Latest(S, i) == i \in S /\ \A j \in S : j <= i

PageWrites(L, S) == {i \in S : L[i].type = "page"}
WritesTo(L, S, p) == {i \in S : L[i].type = "page" /\ L[i].page = p}
Metas(L, S) == {i \in S : L[i].type = "meta"}

Log == Seq(Record)

-----------------------------------------------------------------------------
\* What a record is by its type.
LEMMA RecordKinds ==
  ASSUME NEW r \in Record
  PROVE  /\ r.type = "page" => r \in [type: {"page"}, page: Page, image: Image]
         /\ r.type = "meta" => r.root \in Page
         /\ r.type \in {"begin", "commit", "abort"} => r.txn \in Txn
         /\ r.type \in {"page", "meta", "begin", "commit", "abort", "checkpoint"}
  BY DEF Record, Checkpoint

\* A commit record is told by its type and its transaction.
LEMMA CommitRecord ==
  ASSUME NEW r \in Record, NEW t
  PROVE  r = TxnCommit(t) <=> r.type = "commit" /\ r.txn = t
<1>1. CASE r \in [type: {"page"}, page: Page, image: Image]
  BY <1>1 DEF TxnCommit
<1>2. CASE r \in [type: {"meta"}, root: Page]
  BY <1>2 DEF TxnCommit
<1>3. CASE r \in [type: {"begin", "commit", "abort"}, txn: Txn]
  BY <1>3 DEF TxnCommit
<1>4. CASE r = Checkpoint
  BY <1>4 DEF TxnCommit, Checkpoint
<1> QED
  BY <1>1, <1>2, <1>3, <1>4 DEF Record

\* At most one bracket is open.
LEMMA OneOpen ==
  ASSUME NEW L, NEW n \in Nat, NEW a \in 1..n, NEW b \in 1..n,
         OpenedBy(L, a, n + 1), OpenedBy(L, b, n + 1)
  PROVE  a = b
  BY SMT DEF OpenedBy, Quiet, IsBracket

\* A record that is no bracket opens and closes nothing.
LEMMA OpenAfterOther ==
  ASSUME NEW L, NEW n \in Nat, ~IsBracket(L[n + 1]), NEW b \in Int
  PROVE  b \in 1..(n + 1) /\ OpenedBy(L, b, n + 2) <=> b \in 1..n /\ OpenedBy(L, b, n + 1)
  BY SMT DEF OpenedBy, Quiet, IsBracket

\* After a bracket record only the bracket that it opens is open.
LEMMA OpenAfterBracket ==
  ASSUME NEW L, NEW n \in Nat, IsBracket(L[n + 1]), NEW b \in 1..(n + 1)
  PROVE  OpenedBy(L, b, n + 2) <=> b = n + 1 /\ L[n + 1].type = "begin"
  BY SMT DEF OpenedBy, Quiet, IsBracket

\* What is settled was read before what is pending.
LEMMA SettledBeforePending ==
  ASSUME NEW L, NEW n \in Nat, NEW i \in Settled(L, n), NEW j \in Pending(L, n)
  PROVE  i < j
<1>1. PICK b \in 1..n : OpenedBy(L, b, n + 1) /\ b < j
  BY DEF Pending, InOpen
<1>2. ~(b < i)
  BY <1>1 DEF Settled, InOpen
<1> QED
  BY <1>1, <1>2 DEF Settled, Pending

\* A change in a bracket that the record at n + 1 is the first to follow takes
\* effect if that record is the commit of the bracket's transaction.
LEMMA PendingAtBracket ==
  ASSUME NEW L \in Log, NEW n \in 0..(Len(L) - 1), IsBracket(L[n + 1]),
         NEW a \in 1..n, OpenedBy(L, a, n + 1),
         NEW i \in Pending(L, n)
  PROVE  Applied(L, i) <=> L[n + 1] = TxnCommit(L[a].txn)
<1>1. i \in 1..n /\ IsChange(L[i]) /\ a < i
  BY OneOpen DEF Pending, InOpen
<1>2. OpenedBy(L, a, i)
  BY <1>1, SMT DEF OpenedBy, Quiet
<1>3. \A b \in 1..Len(L) : OpenedBy(L, b, i) => b = a
  BY <1>1, <1>2, SMT DEF OpenedBy, Quiet, IsBracket
<1>4. \A c \in (i + 1)..Len(L) : \A t : L[c] = TxnCommit(t) /\ Quiet(L, i, c) => c = n + 1
  <2>1. \A m \in (i + 1)..n : ~IsBracket(L[m])
    BY <1>1, SMT DEF OpenedBy, Quiet
  <2>2. \A c, t : L[c] = TxnCommit(t) => IsBracket(L[c])
    BY DEF TxnCommit, IsBracket
  <2> QED
    BY <1>1, <2>1, <2>2, SMT DEF Quiet
<1>5. n + 1 \in (i + 1)..Len(L) /\ Quiet(L, i, n + 1)
  BY <1>1, SMT DEF OpenedBy, Quiet
<1> QED
  BY <1>1, <1>2, <1>3, <1>4, <1>5 DEF Applied

\* A checkpoint changes nothing, a change outside any bracket is settled, and
\* one inside a bracket is pending.
LEMMA AfterOther ==
  ASSUME NEW L \in Log, NEW n \in 0..(Len(L) - 1), ~IsBracket(L[n + 1])
  PROVE  /\ NothingOpen(L, n + 1) <=> NothingOpen(L, n)
         /\ ~IsChange(L[n + 1]) =>
              Settled(L, n + 1) = Settled(L, n) /\ Pending(L, n + 1) = Pending(L, n)
         /\ IsChange(L[n + 1]) /\ NothingOpen(L, n) =>
              /\ Settled(L, n + 1) = Settled(L, n) \cup {n + 1}
              /\ Pending(L, n) = {} /\ Pending(L, n + 1) = {}
         /\ IsChange(L[n + 1]) /\ ~NothingOpen(L, n) =>
              /\ Settled(L, n + 1) = Settled(L, n)
              /\ Pending(L, n + 1) = Pending(L, n) \cup {n + 1}
<1>1. \A b \in Int : b \in 1..(n + 1) /\ OpenedBy(L, b, n + 2)
                       <=> b \in 1..n /\ OpenedBy(L, b, n + 1)
  BY OpenAfterOther
<1>2. \A i : InOpen(L, n + 1, i) <=> InOpen(L, n, i)
  BY <1>1 DEF InOpen
<1>3. NothingOpen(L, n + 1) <=> NothingOpen(L, n)
  BY <1>1 DEF NothingOpen
<1>4. NothingOpen(L, n) => \A i : ~InOpen(L, n, i)
  BY DEF NothingOpen, InOpen
<1>5. ~NothingOpen(L, n) => InOpen(L, n, n + 1)
  BY DEF NothingOpen, InOpen
<1>6. \A i : Applied(L, i) => IsChange(L[i])
  BY DEF Applied
<1>7. IsChange(L[n + 1]) /\ NothingOpen(L, n) => Applied(L, n + 1)
  <2>1. \A b \in 1..Len(L) : OpenedBy(L, b, n + 1) => b \in 1..n
    BY DEF OpenedBy
  <2> QED
    BY <2>1 DEF Applied, NothingOpen
<1>8. 1..(n + 1) = (1..n) \cup {n + 1}
  OBVIOUS
<1> QED
  BY <1>2, <1>3, <1>4, <1>5, <1>6, <1>7, <1>8, Zenon DEF Settled, Pending

\* After a bracket record nothing is pending, and what was pending is settled if
\* it is the commit of the transaction whose bracket was open, or is lost.
LEMMA AfterBracket ==
  ASSUME NEW L \in Log, NEW n \in 0..(Len(L) - 1), IsBracket(L[n + 1])
  PROVE  /\ Pending(L, n + 1) = {}
         /\ \A a \in 1..n : OpenedBy(L, a, n + 1) =>
              Settled(L, n + 1) = IF L[n + 1] = TxnCommit(L[a].txn)
                                  THEN Settled(L, n) \cup Pending(L, n)
                                  ELSE Settled(L, n)
         /\ NothingOpen(L, n) => Settled(L, n + 1) = Settled(L, n)
<1>1. \A i \in 1..(n + 1) : ~InOpen(L, n + 1, i)
  BY OpenAfterBracket DEF InOpen
<1>2. ~IsChange(L[n + 1])
  BY DEF IsChange, IsBracket
<1>3. Settled(L, n + 1) = {i \in 1..n : Applied(L, i)}
  BY <1>1, <1>2 DEF Settled, Applied
<1>4. ASSUME NEW a \in 1..n, OpenedBy(L, a, n + 1)
      PROVE  Settled(L, n + 1) = IF L[n + 1] = TxnCommit(L[a].txn)
                                 THEN Settled(L, n) \cup Pending(L, n) ELSE Settled(L, n)
  <2>1. \A i \in Pending(L, n) : Applied(L, i) <=> L[n + 1] = TxnCommit(L[a].txn)
    BY <1>4, PendingAtBracket
  <2>2. \A i \in 1..n : Applied(L, i) => IsChange(L[i])
    BY DEF Applied
  <2>3. \A i \in 1..n : Applied(L, i) => i \in Settled(L, n) \/ i \in Pending(L, n)
    BY <2>2 DEF Settled, Pending
  <2>4. Pending(L, n) \subseteq 1..n /\ \A i \in Settled(L, n) : i \in 1..n /\ Applied(L, i)
    BY DEF Settled, Pending
  <2>5. \A i \in Settled(L, n) : i \notin Pending(L, n)
    BY DEF Settled, Pending
  <2>6. CASE L[n + 1] = TxnCommit(L[a].txn)
    BY <1>3, <2>1, <2>3, <2>4, <2>6
  <2>7. CASE L[n + 1] # TxnCommit(L[a].txn)
    BY <1>3, <2>1, <2>3, <2>4, <2>7
  <2> QED
    BY <2>6, <2>7
<1>5. ASSUME NothingOpen(L, n)
      PROVE  Settled(L, n + 1) = Settled(L, n)
  BY <1>3, <1>5 DEF Settled, InOpen, NothingOpen
<1> QED
  BY <1>1, <1>4, <1>5 DEF Pending

\* At the end of the log what is pending never takes effect: the settled changes
\* are those that do.
LEMMA AtTheEnd ==
  ASSUME NEW L \in Log
  PROVE  Settled(L, Len(L)) = {i \in 1..Len(L) : Applied(L, i)}
<1>1. ASSUME NEW i \in 1..Len(L), InOpen(L, Len(L), i)
      PROVE  ~Applied(L, i)
  <2>1. PICK a \in 1..Len(L) : OpenedBy(L, a, Len(L) + 1) /\ a < i
    BY <1>1 DEF InOpen
  <2>2. OpenedBy(L, a, i)
    BY <2>1, SMT DEF OpenedBy, Quiet
  <2>3. \A c \in (i + 1)..Len(L) : ~IsBracket(L[c])
    BY <2>1, SMT DEF OpenedBy, Quiet
  <2>4. \A c, t : L[c] = TxnCommit(t) => IsBracket(L[c])
    BY DEF TxnCommit, IsBracket
  <2> QED
    BY <2>2, <2>3, <2>4 DEF Applied
<1> QED
  BY <1>1 DEF Settled

-----------------------------------------------------------------------------
(* The inductive invariant.                                                 *)

\* active_txn_id is the transaction of the open bracket.
BracketKnown ==
    IF active = NoTxn THEN NothingOpen(log, pos)
    ELSE \E b \in 1..pos : OpenedBy(log, b, pos + 1) /\ log[b].txn = active

\* A page is as the crash left it, or some write of the log determines it yet:
\* this is what makes replay after an interrupted replay right.
Survives(f) == \A p \in Page : f[p] = original[p] \/ WritesTo(log, Writes(log), p) # {}

\* The last settled write of a page is what the file has there.
PagesReplayed ==
    \A p \in Page : LET own == WritesTo(log, Settled(log, pos), p)
                    IN  own = {} \/ \E i \in own : Latest(own, i) /\ file[p] = log[i].image

RootReplayed ==
    LET own == Metas(log, Settled(log, pos))
    IN  \/ own = {} /\ root = NoRoot
        \/ \E i \in own : Latest(own, i) /\ root = log[i].root

CounterReplayed ==
    LET own == PageWrites(log, Settled(log, pos))
    IN  /\ \A i \in own : log[i].page <= maxPage
        /\ \/ maxPage = -1 /\ own = {}
           \/ \E i \in own : log[i].page = maxPage

\* The buffers hold what is pending; of a page and of the root only the last
\* write matters, of the page ids the highest.
Kept(p) == {k \in 1..Len(pendingPages) : pendingPages[k].page = p}

PagesBuffered ==
    \A p \in Page : LET own == WritesTo(log, Pending(log, pos), p)
                    IN  \/ own = {} /\ Kept(p) = {}
                        \/ \E i \in own, k \in Kept(p) :
                             Latest(own, i) /\ Latest(Kept(p), k) /\ pendingPages[k] = log[i]

HighestBuffered ==
    \/ pendingPages = <<>>
    \/ \E k \in 1..Len(pendingPages) :
         \A j \in 1..Len(pendingPages) : pendingPages[j].page <= pendingPages[k].page

MetaBuffered ==
    LET own == Metas(log, Pending(log, pos))
    IN  \/ own = {} /\ pendingMeta = <<>>
        \/ /\ pendingMeta # <<>>
           /\ \E i \in own : Latest(own, i) /\ pendingMeta[Len(pendingMeta)] = log[i].root

Replaying ==
    /\ BracketKnown
    /\ PagesReplayed /\ RootReplayed /\ CounterReplayed
    /\ PagesBuffered /\ HighestBuffered /\ MetaBuffered

RecoveryInv ==
    /\ TypeOK
    /\ step # "done" => Replaying /\ Survives(file) /\ Survives(disk)
    /\ step \in {"sync", "truncate"} => pos = Len(log)
    /\ step = "truncate" => disk = file

-----------------------------------------------------------------------------
(* How the last write of a page moves with the sets of positions.           *)

LEMMA LatestOfUnion ==
  ASSUME NEW L, NEW S \in SUBSET Int, NEW P \in SUBSET Int,
         \A i \in S : \A j \in P : i < j
  PROVE  /\ \A p : \A i : Latest(WritesTo(L, P, p), i) => Latest(WritesTo(L, S \cup P, p), i)
         /\ \A p : WritesTo(L, P, p) = {} => WritesTo(L, S \cup P, p) = WritesTo(L, S, p)
<1>1. \A p : \A i : Latest(WritesTo(L, P, p), i) => Latest(WritesTo(L, S \cup P, p), i)
  BY DEF Latest, WritesTo
<1>2. \A p : WritesTo(L, P, p) = {} => WritesTo(L, S \cup P, p) = WritesTo(L, S, p)
  BY DEF WritesTo
<1> QED
  BY <1>1, <1>2

\* And the last META_UPDATE.
LEMMA LatestMetaOfUnion ==
  ASSUME NEW L, NEW S \in SUBSET Int, NEW P \in SUBSET Int,
         \A i \in S : \A j \in P : i < j
  PROVE  /\ \A i \in Int : Latest(Metas(L, P), i) => Latest(Metas(L, S \cup P), i)
         /\ Metas(L, P) = {} => Metas(L, S \cup P) = Metas(L, S)
<1>1. ASSUME NEW i \in Int, Latest(Metas(L, P), i)
      PROVE  Latest(Metas(L, S \cup P), i)
  <2>1. i \in P /\ i \in Metas(L, S \cup P)
    BY <1>1 DEF Latest, Metas
  <2>2. \A j \in S : j <= i
    BY <2>1
  <2> QED
    BY <1>1, <2>1, <2>2 DEF Latest, Metas
<1>2. Metas(L, P) = {} => Metas(L, S \cup P) = Metas(L, S)
  BY DEF Metas
<1> QED
  BY <1>1, <1>2

\* A settled write is one that recovery has to make.
LEMMA SettledAreWrites ==
  ASSUME NEW L \in Log, NEW n \in 0..Len(L), NEW p
  PROVE  WritesTo(L, Settled(L, n), p) \subseteq WritesTo(L, Writes(L), p)
  BY DEF WritesTo, Settled, Writes, Log

\* Nothing is settled or pending before the first record.
LEMMA NothingRead ==
  ASSUME NEW L
  PROVE  Settled(L, 0) = {} /\ Pending(L, 0) = {} /\ NothingOpen(L, 0)
  BY DEF Settled, Pending, NothingOpen

\* Recovery of a log starts with the invariant.
LEMMA InitRecoveryInv == Init => RecoveryInv
<1> SUFFICES ASSUME Init PROVE RecoveryInv
  OBVIOUS
<1>1. log \in Seq(Record) /\ Len(log) <= MaxLog
  <2>1. PICK n \in 0..MaxLog : log \in [1..n -> Record]
    BY DEF Init
  <2> QED
    BY <2>1, MaxLogAssumption
<1>2. TypeOK
  BY <1>1, MaxCrashesAssumption, PageAssumption DEF Init, Start, TypeOK
<1>3. Replaying
  <2>1. pos = 0 /\ active = NoTxn /\ pendingPages = <<>> /\ pendingMeta = <<>>
        /\ root = NoRoot /\ maxPage = -1
    BY DEF Init, Start
  <2>2. Settled(log, pos) = {} /\ Pending(log, pos) = {} /\ NothingOpen(log, pos)
    BY <2>1, NothingRead
  <2> QED
    BY <2>1, <2>2 DEF Replaying, BracketKnown, PagesReplayed, RootReplayed, CounterReplayed,
         PagesBuffered, HighestBuffered, MetaBuffered, Kept, WritesTo, Metas, PageWrites
<1>4. Survives(file) /\ Survives(disk) /\ step = "scan"
  BY DEF Init, Start, Survives
<1> QED
  BY <1>2, <1>3, <1>4 DEF RecoveryInv

-----------------------------------------------------------------------------
(* One lemma per action.                                                    *)

\* What every step of the loop starts from and leaves alone.
LEMMA ReadsRecord ==
  ASSUME RecoveryInv, NEW type, Reads(type)
  PROVE  /\ log \in Log /\ pos \in 0..(Len(log) - 1) /\ pos + 1 \in 1..Len(log)
         /\ log[pos + 1] \in Record /\ log[pos + 1].type = type
         /\ log' = log /\ original' = original /\ disk' = disk /\ crashes' = crashes
         /\ pos' = pos + 1 /\ step = "scan" /\ step' = "scan"
         /\ Replaying /\ Survives(file) /\ Survives(disk)
  BY DEF RecoveryInv, TypeOK, Reads, Log

\* The parts of the invariant that a step of the loop has to establish.
LEMMA ReadsKeeps ==
  ASSUME RecoveryInv, NEW type, Reads(type),
         file' \in [Page -> Image \cup {Blank}],
         active' \in Txn \cup {NoTxn},
         pendingPages' \in Seq([type: {"page"}, page: Page, image: Image]),
         pendingMeta' \in Seq(Page),
         root' \in Page \cup {NoRoot}, maxPage' \in Page \cup {-1},
         Replaying',
         \A p \in Page : file'[p] = file[p] \/ WritesTo(log, Settled(log, pos + 1), p) # {}
  PROVE  RecoveryInv'
<1>1. TypeOK'
  BY ReadsRecord DEF RecoveryInv, TypeOK, Reads
<1>2. Survives(disk)'
  BY ReadsRecord DEF Survives
<1>3. Survives(file)'
  <2>1. \A p \in Page : WritesTo(log, Settled(log, pos + 1), p) # {}
                          => WritesTo(log, Writes(log), p) # {}
    BY ReadsRecord, SettledAreWrites
  <2> QED
    BY <2>1, ReadsRecord DEF Survives
<1> QED
  BY <1>1, <1>2, <1>3, ReadsRecord DEF RecoveryInv

\* A bracket record with which the buffers are dropped.
LEMMA DropKeeps ==
  ASSUME RecoveryInv, NEW type \in {"begin", "commit", "abort"}, Reads(type),
         UNCHANGED <<file, root, maxPage>>, Drop,
         Settled(log, pos + 1) = Settled(log, pos),
         active' \in Txn \cup {NoTxn},
         BracketKnown'
  PROVE  RecoveryInv'
<1>1. IsBracket(log[pos + 1])
  BY ReadsRecord DEF IsBracket
<1>2. Pending(log, pos + 1) = {}
  BY <1>1, ReadsRecord, AfterBracket
<1>3. PagesReplayed' /\ RootReplayed' /\ CounterReplayed'
  BY ReadsRecord DEF Replaying, PagesReplayed, RootReplayed, CounterReplayed
<1>4. PagesBuffered' /\ HighestBuffered' /\ MetaBuffered'
  BY <1>2, ReadsRecord DEF Drop, PagesBuffered, HighestBuffered, MetaBuffered, Kept, WritesTo, Metas
<1>5. Replaying'
  BY <1>3, <1>4 DEF Replaying
<1> QED
  BY <1>5, ReadsKeeps DEF RecoveryInv, TypeOK, Drop

\* What is settled does not move with a bracket record that applies nothing.
LEMMA NothingApplied ==
  ASSUME RecoveryInv, NEW type \in {"begin", "commit", "abort"}, Reads(type),
         type = "commit" => active # log[pos + 1].txn
  PROVE  Settled(log, pos + 1) = Settled(log, pos)
<1>1. IsBracket(log[pos + 1])
  BY ReadsRecord DEF IsBracket
<1>2. CASE active = NoTxn
  BY <1>1, <1>2, ReadsRecord, AfterBracket DEF Replaying, BracketKnown
<1>3. CASE active # NoTxn
  <2>1. PICK b \in 1..pos : OpenedBy(log, b, pos + 1) /\ log[b].txn = active
    BY <1>3, ReadsRecord DEF Replaying, BracketKnown
  <2>2. log[pos + 1] # TxnCommit(log[b].txn)
    BY <2>1, ReadsRecord, CommitRecord
  <2> QED
    BY <1>1, <2>1, <2>2, ReadsRecord, AfterBracket
<1> QED
  BY <1>2, <1>3

\* With a TXN_COMMIT or TXN_ABORT no bracket is open.
LEMMA ClosedAfter ==
  ASSUME RecoveryInv, NEW type \in {"commit", "abort"}, Reads(type), active' = NoTxn
  PROVE  BracketKnown'
<1>1. IsBracket(log[pos + 1])
  BY ReadsRecord DEF IsBracket
<1> QED
  BY <1>1, ReadsRecord, OpenAfterBracket DEF BracketKnown, NothingOpen

\* A BEGIN record keeps the invariant;
LEMMA ReadBeginKeeps == ASSUME RecoveryInv, ReadBegin PROVE RecoveryInv'
<1>1. Reads("begin") /\ active' = log[pos + 1].txn /\ Drop
  BY DEF ReadBegin
<1>2. active' \in Txn
  BY <1>1, ReadsRecord, RecordKinds
<1>3. BracketKnown'
  <2>1. IsBracket(log[pos + 1])
    BY <1>1, ReadsRecord DEF IsBracket
  <2>2. OpenedBy(log, pos + 1, pos + 2)
    BY <1>1, <2>1, ReadsRecord, OpenAfterBracket
  <2> QED
    BY <1>1, <1>2, <2>2, ReadsRecord, NoTxnAssumption DEF BracketKnown
<1> QED
  BY <1>1, <1>2, <1>3, NothingApplied, DropKeeps DEF ReadBegin

\* so does ABORT,
LEMMA ReadAbortKeeps == ASSUME RecoveryInv, ReadAbort PROVE RecoveryInv'
<1>1. Reads("abort") /\ active' = NoTxn /\ Drop
  BY DEF ReadAbort
<1> QED
  BY <1>1, NothingApplied, ClosedAfter, DropKeeps DEF ReadAbort

\* A record that is no bracket leaves active_txn_id right.
LEMMA StillOpen ==
  ASSUME RecoveryInv, NEW type \in {"page", "meta", "checkpoint"}, Reads(type), active' = active
  PROVE  BracketKnown'
<1>1. ~IsBracket(log[pos + 1])
  BY ReadsRecord DEF IsBracket
<1>2. CASE active = NoTxn
  BY <1>1, <1>2, ReadsRecord, AfterOther DEF Replaying, BracketKnown
<1>3. CASE active # NoTxn
  <2>1. PICK b \in 1..pos : OpenedBy(log, b, pos + 1) /\ log[b].txn = active
    BY <1>3, ReadsRecord DEF Replaying, BracketKnown
  <2>2. b \in 1..(pos + 1) /\ OpenedBy(log, b, pos + 2)
    BY <1>1, <2>1, ReadsRecord, OpenAfterOther
  <2> QED
    BY <1>3, <2>1, <2>2, ReadsRecord DEF BracketKnown
<1> QED
  BY <1>2, <1>3

\* The buffers stand for the pending changes as long as neither of them moves.
LEMMA SameBuffers ==
  ASSUME RecoveryInv, NEW type, Reads(type), pendingPages' = pendingPages
  PROVE  /\ (\A p : WritesTo(log, Pending(log, pos + 1), p) = WritesTo(log, Pending(log, pos), p))
              => PagesBuffered'
         /\ HighestBuffered'
         /\ Metas(log, Pending(log, pos + 1)) = Metas(log, Pending(log, pos))
              /\ pendingMeta' = pendingMeta => MetaBuffered'
<1>1. \A p : Kept(p)' = Kept(p)
  BY DEF Kept
<1>2. ASSUME \A p : WritesTo(log, Pending(log, pos + 1), p) = WritesTo(log, Pending(log, pos), p)
      PROVE  PagesBuffered'
  BY <1>1, <1>2, ReadsRecord DEF Replaying, PagesBuffered
<1>3. HighestBuffered'
  BY ReadsRecord DEF Replaying, HighestBuffered
<1>4. ASSUME Metas(log, Pending(log, pos + 1)) = Metas(log, Pending(log, pos)),
             pendingMeta' = pendingMeta
      PROVE  MetaBuffered'
  BY <1>4, ReadsRecord DEF Replaying, MetaBuffered
<1> QED
  BY <1>2, <1>3, <1>4

\* CHECKPOINT,
LEMMA ReadCheckpointKeeps == ASSUME RecoveryInv, ReadCheckpoint PROVE RecoveryInv'
<1>1. Reads("checkpoint") /\ UNCHANGED <<file, active, pendingPages, pendingMeta, root, maxPage>>
  BY DEF ReadCheckpoint
<1>2. ~IsBracket(log[pos + 1]) /\ ~IsChange(log[pos + 1])
  BY <1>1, ReadsRecord DEF IsBracket, IsChange
<1>3. Settled(log, pos + 1) = Settled(log, pos) /\ Pending(log, pos + 1) = Pending(log, pos)
  BY <1>1, <1>2, ReadsRecord, AfterOther
<1>4. BracketKnown'
  BY <1>1, StillOpen
<1>5. PagesReplayed' /\ RootReplayed' /\ CounterReplayed'
  BY <1>1, <1>3, ReadsRecord DEF Replaying, PagesReplayed, RootReplayed, CounterReplayed
<1>6. PagesBuffered' /\ HighestBuffered' /\ MetaBuffered'
  BY <1>1, <1>3, SameBuffers
<1>7. Replaying'
  BY <1>4, <1>5, <1>6 DEF Replaying
<1> QED
  BY <1>1, <1>7, ReadsKeeps DEF RecoveryInv, TypeOK

\* A change read outside any bracket is settled at once, one read inside is
\* pending, and it is the latest of either kind.
LEMMA ReadsChange ==
  ASSUME RecoveryInv, NEW type \in {"page", "meta"}, Reads(type)
  PROVE  /\ active = NoTxn =>
              /\ Settled(log, pos + 1) = Settled(log, pos) \cup {pos + 1}
              /\ Pending(log, pos) = {} /\ Pending(log, pos + 1) = {}
         /\ active # NoTxn =>
              /\ Settled(log, pos + 1) = Settled(log, pos)
              /\ Pending(log, pos + 1) = Pending(log, pos) \cup {pos + 1}
         /\ Settled(log, pos) \in SUBSET (1..pos) /\ Pending(log, pos) \in SUBSET (1..pos)
         /\ pos \in Nat
<1>1. ~IsBracket(log[pos + 1]) /\ IsChange(log[pos + 1])
  BY ReadsRecord DEF IsBracket, IsChange
<1>2. active = NoTxn <=> NothingOpen(log, pos)
  BY ReadsRecord DEF Replaying, BracketKnown, NothingOpen
<1> QED
  BY <1>1, <1>2, ReadsRecord, AfterOther DEF Settled, Pending

\* One more position above a set.
LEMMA OneMoreMeta ==
  ASSUME NEW L, NEW n \in Nat, NEW S \in SUBSET (1..n), L[n + 1].type = "meta"
  PROVE  /\ Latest(Metas(L, S \cup {n + 1}), n + 1)
         /\ \A p : WritesTo(L, S \cup {n + 1}, p) = WritesTo(L, S, p)
         /\ PageWrites(L, S \cup {n + 1}) = PageWrites(L, S)
<1>1. \A i \in S : i < n + 1
  OBVIOUS
<1> QED
  BY <1>1 DEF Latest, Metas, WritesTo, PageWrites

\* The map of pages with one page more.
LEMMA OneMorePage ==
  ASSUME NEW L, NEW n \in Nat, NEW S \in SUBSET (1..n), L[n + 1].type = "page"
  PROVE  /\ Latest(WritesTo(L, S \cup {n + 1}, L[n + 1].page), n + 1)
         /\ \A p : p # L[n + 1].page => WritesTo(L, S \cup {n + 1}, p) = WritesTo(L, S, p)
         /\ PageWrites(L, S \cup {n + 1}) = PageWrites(L, S) \cup {n + 1}
         /\ Metas(L, S \cup {n + 1}) = Metas(L, S)
<1>1. \A i \in S : i < n + 1
  OBVIOUS
<1> QED
  BY <1>1 DEF Latest, Metas, WritesTo, PageWrites

\* a record of the root,
LEMMA ReadMetaKeeps == ASSUME RecoveryInv, ReadMeta PROVE RecoveryInv'
<1>1. Reads("meta") /\ UNCHANGED <<file, active, pendingPages, maxPage>>
  BY DEF ReadMeta
<1>2. log[pos + 1].root \in Page /\ log[pos + 1].type = "meta"
  BY <1>1, ReadsRecord, RecordKinds
<1>3. BracketKnown'
  BY <1>1, StillOpen
<1>4. CASE active = NoTxn
  <2>1. root' = log[pos + 1].root /\ pendingMeta' = pendingMeta
    BY <1>4 DEF ReadMeta
  <2>2. /\ Settled(log, pos + 1) = Settled(log, pos) \cup {pos + 1}
        /\ Pending(log, pos) = {} /\ Pending(log, pos + 1) = {}
    BY <1>1, <1>4, ReadsChange
  <2>3. Latest(Metas(log, Settled(log, pos + 1)), pos + 1)
        /\ (\A p : WritesTo(log, Settled(log, pos + 1), p) = WritesTo(log, Settled(log, pos), p))
        /\ PageWrites(log, Settled(log, pos + 1)) = PageWrites(log, Settled(log, pos))
    <3>1. pos \in Nat /\ Settled(log, pos) \in SUBSET (1..pos)
      BY <1>1, ReadsChange
    <3>2. /\ Latest(Metas(log, Settled(log, pos) \cup {pos + 1}), pos + 1)
          /\ \A p : WritesTo(log, Settled(log, pos) \cup {pos + 1}, p) = WritesTo(log, Settled(log, pos), p)
          /\ PageWrites(log, Settled(log, pos) \cup {pos + 1}) = PageWrites(log, Settled(log, pos))
      BY <1>2, <3>1, OneMoreMeta
    <3> QED
      BY <2>2, <3>2
  <2>4. RootReplayed'
    BY <1>1, <2>1, <2>3, ReadsRecord DEF RootReplayed, Latest
  <2>5. PagesReplayed' /\ CounterReplayed'
    BY <1>1, <2>3, ReadsRecord DEF Replaying, PagesReplayed, CounterReplayed
  <2>6. PagesBuffered' /\ HighestBuffered' /\ MetaBuffered'
    BY <1>1, <2>1, <2>2, SameBuffers
  <2>7. Replaying'
    BY <1>3, <2>4, <2>5, <2>6 DEF Replaying
  <2> QED
    BY <1>1, <1>2, <2>1, <2>7, ReadsKeeps DEF RecoveryInv, TypeOK
<1>5. CASE active # NoTxn
  <2>1. pendingMeta' = Append(pendingMeta, log[pos + 1].root) /\ root' = root
    BY <1>5 DEF ReadMeta
  <2>2. /\ Settled(log, pos + 1) = Settled(log, pos)
        /\ Pending(log, pos + 1) = Pending(log, pos) \cup {pos + 1}
    BY <1>1, <1>5, ReadsChange
  <2>3. Latest(Metas(log, Pending(log, pos + 1)), pos + 1)
        /\ \A p : WritesTo(log, Pending(log, pos + 1), p) = WritesTo(log, Pending(log, pos), p)
    <3>1. pos \in Nat /\ Pending(log, pos) \in SUBSET (1..pos)
      BY <1>1, ReadsChange
    <3>2. /\ Latest(Metas(log, Pending(log, pos) \cup {pos + 1}), pos + 1)
          /\ \A p : WritesTo(log, Pending(log, pos) \cup {pos + 1}, p) = WritesTo(log, Pending(log, pos), p)
      BY <1>2, <3>1, OneMoreMeta
    <3> QED
      BY <2>2, <3>2
  <2>4. MetaBuffered'
    <3>1. pendingMeta' # <<>> /\ pendingMeta'[Len(pendingMeta')] = log[pos + 1].root
      BY <2>1, <1>2 DEF RecoveryInv, TypeOK
    <3> QED
      BY <1>1, <2>3, <3>1, ReadsRecord DEF MetaBuffered, Latest
  <2>5. PagesReplayed' /\ CounterReplayed' /\ RootReplayed'
    BY <1>1, <2>1, <2>2, ReadsRecord DEF Replaying, PagesReplayed, CounterReplayed, RootReplayed
  <2>6. PagesBuffered' /\ HighestBuffered'
    BY <1>1, <2>3, SameBuffers
  <2>7. Replaying'
    BY <1>3, <2>4, <2>5, <2>6 DEF Replaying
  <2>8. pendingMeta' \in Seq(Page)
    BY <1>2, <2>1 DEF RecoveryInv, TypeOK
  <2> QED
    BY <1>1, <2>1, <2>7, <2>8, ReadsKeeps DEF RecoveryInv, TypeOK
<1> QED
  BY <1>4, <1>5

\* a record of a page,
LEMMA ReadPageKeeps == ASSUME RecoveryInv, ReadPage PROVE RecoveryInv'
<1> DEFINE r == log[pos + 1]
<1>1. Reads("page") /\ UNCHANGED <<active, pendingMeta, root>>
  BY DEF ReadPage
<1>2. r.type = "page" /\ r \in [type: {"page"}, page: Page, image: Image]
  BY <1>1, ReadsRecord, RecordKinds
<1>3. r.page \in Page /\ r.image \in Image /\ r.page \in Nat
  BY <1>2, PageAssumption
<1>4. BracketKnown'
  BY <1>1, StillOpen
<1>5. maxPage \in Int
  BY PageAssumption DEF RecoveryInv, TypeOK
<1>6. CASE active = NoTxn
  <2>1. /\ file' = [file EXCEPT ![r.page] = r.image]
        /\ maxPage' = Larger(maxPage, r.page) /\ pendingPages' = pendingPages
    BY <1>6 DEF ReadPage
  <2>2. /\ Settled(log, pos + 1) = Settled(log, pos) \cup {pos + 1}
        /\ Pending(log, pos) = {} /\ Pending(log, pos + 1) = {}
    BY <1>1, <1>6, ReadsChange
  <2>3. /\ Latest(WritesTo(log, Settled(log, pos + 1), r.page), pos + 1)
        /\ \A p : p # r.page =>
             WritesTo(log, Settled(log, pos + 1), p) = WritesTo(log, Settled(log, pos), p)
        /\ PageWrites(log, Settled(log, pos + 1)) = PageWrites(log, Settled(log, pos)) \cup {pos + 1}
        /\ Metas(log, Settled(log, pos + 1)) = Metas(log, Settled(log, pos))
    <3> DEFINE S == Settled(log, pos)
    <3>1. pos \in Nat /\ S \in SUBSET (1..pos)
      BY <1>1, ReadsChange
    <3>2. /\ Latest(WritesTo(log, S \cup {pos + 1}, r.page), pos + 1)
          /\ \A p : p # r.page => WritesTo(log, S \cup {pos + 1}, p) = WritesTo(log, S, p)
          /\ PageWrites(log, S \cup {pos + 1}) = PageWrites(log, S) \cup {pos + 1}
          /\ Metas(log, S \cup {pos + 1}) = Metas(log, S)
      <4> HIDE DEF S
      <4> QED
        BY <1>2, <3>1, OneMorePage
    <3> QED
      BY <2>2, <3>2
  <2>4. file \in [Page -> Image \cup {Blank}]
    BY DEF RecoveryInv, TypeOK
  <2>5. file' \in [Page -> Image \cup {Blank}] /\ file'[r.page] = r.image
        /\ \A p \in Page : p # r.page => file'[p] = file[p]
    BY <1>3, <2>1, <2>4
  <2>6. PagesReplayed'
    <3>1. ASSUME NEW p \in Page
          PROVE  \/ WritesTo(log, Settled(log, pos + 1), p) = {}
                 \/ \E i \in WritesTo(log, Settled(log, pos + 1), p) :
                      Latest(WritesTo(log, Settled(log, pos + 1), p), i) /\ file'[p] = log[i].image
      <4>1. CASE p = r.page
        BY <2>3, <2>5, <4>1 DEF Latest
      <4>2. CASE p # r.page
        BY <1>1, <2>3, <2>5, <4>2, ReadsRecord DEF Replaying, PagesReplayed
      <4> QED
        BY <4>1, <4>2
    <3> QED
      BY <1>1, <3>1, ReadsRecord DEF PagesReplayed
  <2>7. CounterReplayed'
    <3>1. /\ \A i \in PageWrites(log, Settled(log, pos)) : log[i].page <= maxPage
          /\ \/ maxPage = -1 /\ PageWrites(log, Settled(log, pos)) = {}
             \/ \E i \in PageWrites(log, Settled(log, pos)) : log[i].page = maxPage
      BY <1>1, ReadsRecord DEF Replaying, CounterReplayed
    <3>2. \A i \in PageWrites(log, Settled(log, pos)) : log[i].page \in Nat
      <4>1. \A i \in PageWrites(log, Settled(log, pos)) : log[i] \in Record /\ log[i].type = "page"
        BY <1>1, ReadsChange DEF PageWrites, RecoveryInv, TypeOK
      <4> QED
        BY <4>1, RecordKinds, PageAssumption
    <3> DEFINE own == PageWrites(log, Settled(log, pos))
    <3>3. maxPage' = Larger(maxPage, log[pos + 1].page)
      BY <2>1
    <3>4. PageWrites(log, Settled(log, pos + 1)) = own \cup {pos + 1}
      BY <2>3
    <3>5. /\ \A i \in own \cup {pos + 1} : log[i].page <= maxPage'
          /\ \E i \in own \cup {pos + 1} : log[i].page = maxPage'
      <4> HIDE DEF own
      <4>1. \A i \in own : log[i].page <= maxPage /\ log[i].page \in Nat
        BY <3>1, <3>2 DEF own
      <4>2. CASE maxPage < log[pos + 1].page
        BY <1>3, <1>5, <3>3, <4>1, <4>2 DEF Larger
      <4>3. CASE ~(maxPage < log[pos + 1].page)
        <5>1. maxPage' = maxPage
          BY <3>3, <4>3 DEF Larger
        <5>2. \E i \in own : log[i].page = maxPage
          BY <1>3, <3>1, <4>3 DEF own
        <5> QED
          BY <1>3, <1>5, <4>1, <4>3, <5>1, <5>2
      <4> QED
        BY <4>2, <4>3
    <3> QED
      BY <1>1, <3>4, <3>5, ReadsRecord DEF CounterReplayed
  <2>8. RootReplayed'
    BY <1>1, <2>3, ReadsRecord DEF Replaying, RootReplayed
  <2>9. PagesBuffered' /\ HighestBuffered' /\ MetaBuffered'
    BY <1>1, <2>1, <2>2, SameBuffers
  <2>10. Replaying'
    BY <1>4, <2>6, <2>7, <2>8, <2>9 DEF Replaying
  <2>11. maxPage' \in Page \cup {-1}
    BY <1>3, <2>1 DEF Larger, RecoveryInv, TypeOK
  <2>12. \A p \in Page : file'[p] = file[p] \/ WritesTo(log, Settled(log, pos + 1), p) # {}
    BY <2>3, <2>5 DEF Latest
  <2> QED
    BY <1>1, <2>1, <2>5, <2>10, <2>11, <2>12, ReadsKeeps DEF RecoveryInv, TypeOK
<1>7. CASE active # NoTxn
  <2>1. pendingPages' = Append(pendingPages, r) /\ UNCHANGED <<file, maxPage>>
    BY <1>7 DEF ReadPage
  <2>2. /\ Settled(log, pos + 1) = Settled(log, pos)
        /\ Pending(log, pos + 1) = Pending(log, pos) \cup {pos + 1}
    BY <1>1, <1>7, ReadsChange
  <2>3. /\ Latest(WritesTo(log, Pending(log, pos + 1), r.page), pos + 1)
        /\ \A p : p # r.page =>
             WritesTo(log, Pending(log, pos + 1), p) = WritesTo(log, Pending(log, pos), p)
        /\ Metas(log, Pending(log, pos + 1)) = Metas(log, Pending(log, pos))
    <3> DEFINE S == Pending(log, pos)
    <3>1. pos \in Nat /\ S \in SUBSET (1..pos)
      BY <1>1, ReadsChange
    <3>2. /\ Latest(WritesTo(log, S \cup {pos + 1}, r.page), pos + 1)
          /\ \A p : p # r.page => WritesTo(log, S \cup {pos + 1}, p) = WritesTo(log, S, p)
          /\ PageWrites(log, S \cup {pos + 1}) = PageWrites(log, S) \cup {pos + 1}
          /\ Metas(log, S \cup {pos + 1}) = Metas(log, S)
      <4> HIDE DEF S
      <4> QED
        BY <1>2, <3>1, OneMorePage
    <3> QED
      BY <2>2, <3>2
  <2>4. pendingPages \in Seq([type: {"page"}, page: Page, image: Image])
    BY DEF RecoveryInv, TypeOK
  <2>5. /\ pendingPages' \in Seq([type: {"page"}, page: Page, image: Image])
        /\ Len(pendingPages') = Len(pendingPages) + 1
        /\ pendingPages'[Len(pendingPages) + 1] = r
        /\ \A k \in 1..Len(pendingPages) : pendingPages'[k] = pendingPages[k]
    BY <1>2, <2>1, <2>4
  <2>6. PagesBuffered'
    <3>1. ASSUME NEW p \in Page, p # r.page
          PROVE  Kept(p)' = Kept(p) /\ \A k \in Kept(p) : pendingPages'[k] = pendingPages[k]
      BY <2>4, <2>5, <3>1 DEF Kept
    <3>2. /\ \A k : k \in {m \in 1..Len(pendingPages') : pendingPages'[m].page = r.page}
                      => k <= Len(pendingPages) + 1
          /\ Len(pendingPages) + 1 \in {m \in 1..Len(pendingPages') : pendingPages'[m].page = r.page}
      BY <2>4, <2>5
    <3>3. ASSUME NEW p \in Page, p = r.page
          PROVE  Latest(Kept(p)', Len(pendingPages) + 1)
      BY <3>2, <3>3 DEF Kept, Latest
    <3>4. ASSUME NEW p \in Page
          PROVE  \/ WritesTo(log, Pending(log, pos + 1), p) = {} /\ Kept(p)' = {}
                 \/ \E i \in WritesTo(log, Pending(log, pos + 1), p), k \in Kept(p)' :
                      /\ Latest(WritesTo(log, Pending(log, pos + 1), p), i) /\ Latest(Kept(p)', k)
                      /\ pendingPages'[k] = log[i]
      <4>1. CASE p = r.page
        BY <2>3, <2>5, <3>3, <4>1 DEF Latest
      <4>2. CASE p # r.page
        BY <1>1, <2>3, <3>1, <4>2, ReadsRecord DEF Replaying, PagesBuffered
      <4> QED
        BY <4>1, <4>2
    <3> QED
      BY <1>1, <3>4, ReadsRecord DEF PagesBuffered
  <2>7. HighestBuffered'
    <3> DEFINE m == Len(pendingPages) + 1
    <3>1. m \in 1..Len(pendingPages') /\ pendingPages'[m].page \in Nat
      BY <1>3, <2>4, <2>5
    <3>2. \A k \in 1..Len(pendingPages) : pendingPages[k].page \in Nat
      <4> DEFINE W == [type: {"page"}, page: Page, image: Image]
      <4>1. pendingPages \in Seq(W) /\ \A w \in W : w.page \in Nat
        BY <2>4, PageAssumption
      <4> HIDE DEF W
      <4> QED
        BY <4>1
    <3>3. CASE pendingPages = <<>>
      BY <1>3, <2>5, <3>3 DEF HighestBuffered
    <3>4. CASE pendingPages # <<>>
      <4>1. PICK k \in 1..Len(pendingPages) :
               \A j \in 1..Len(pendingPages) : pendingPages[j].page <= pendingPages[k].page
        BY <1>1, <3>4, ReadsRecord DEF Replaying, HighestBuffered
      <4>2. CASE pendingPages[k].page <= r.page
        <5>1. \A j \in 1..Len(pendingPages') : pendingPages'[j].page <= pendingPages'[m].page
          BY <1>3, <2>4, <2>5, <3>1, <3>2, <4>1, <4>2
        <5> QED
          BY <3>1, <5>1 DEF HighestBuffered
      <4>3. CASE ~(pendingPages[k].page <= r.page)
        <5>1. ASSUME NEW j \in 1..Len(pendingPages')
              PROVE  pendingPages'[j].page <= pendingPages'[k].page
          <6>1. pendingPages'[k] = pendingPages[k] /\ pendingPages[k].page \in Nat
            BY <2>5, <3>2
          <6>2. CASE j = m
            BY <1>3, <2>5, <4>3, <6>1, <6>2
          <6>3. CASE j # m
            <7>1. j \in 1..Len(pendingPages)
              BY <2>4, <2>5, <6>3
            <7> QED
              BY <2>5, <4>1, <6>1, <7>1
          <6> QED
            BY <6>2, <6>3
        <5>2. k \in 1..Len(pendingPages')
          BY <2>4, <2>5
        <5> QED
          BY <5>1, <5>2 DEF HighestBuffered
      <4> QED
        BY <4>2, <4>3
    <3> QED
      BY <3>3, <3>4
  <2>8. MetaBuffered'
    BY <1>1, <2>3, ReadsRecord DEF Replaying, MetaBuffered
  <2>9. PagesReplayed' /\ CounterReplayed' /\ RootReplayed'
    BY <1>1, <2>1, <2>2, ReadsRecord DEF Replaying, PagesReplayed, CounterReplayed, RootReplayed
  <2>10. Replaying'
    BY <1>4, <2>6, <2>7, <2>8, <2>9 DEF Replaying
  <2> QED
    BY <1>1, <2>1, <2>5, <2>10, ReadsKeeps DEF RecoveryInv, TypeOK
<1> QED
  BY <1>6, <1>7

\* What the buffers make of the file, page by page.
LEMMA FlushedPages ==
  ASSUME RecoveryInv, step # "done"
  PROVE  /\ Flushed(file, pendingPages) \in [Page -> Image \cup {Blank}]
         /\ \A p \in Page :
              LET own == WritesTo(log, Pending(log, pos), p)
              IN  \/ own = {} /\ Flushed(file, pendingPages)[p] = file[p]
                  \/ \E i \in own : Latest(own, i) /\ Flushed(file, pendingPages)[p] = log[i].image
<1> DEFINE W == [type: {"page"}, page: Page, image: Image]
           F == Flushed(file, pendingPages)
<1>1. pendingPages \in Seq(W) /\ \A w \in W : w.image \in Image
  BY DEF RecoveryInv, TypeOK
<1>2. PagesBuffered /\ file \in [Page -> Image \cup {Blank}]
  BY DEF RecoveryInv, Replaying, TypeOK
<1>3. F = [p \in Page |-> IF Kept(p) = {} THEN file[p]
                          ELSE pendingPages[CHOOSE i \in Kept(p) : \A j \in Kept(p) : j <= i].image]
  BY DEF Flushed, Kept
<1>4. ASSUME NEW p \in Page
      PROVE  /\ F[p] \in Image \cup {Blank}
             /\ \/ WritesTo(log, Pending(log, pos), p) = {} /\ F[p] = file[p]
                \/ \E i \in WritesTo(log, Pending(log, pos), p) :
                     Latest(WritesTo(log, Pending(log, pos), p), i) /\ F[p] = log[i].image
  <2>1. F[p] = IF Kept(p) = {} THEN file[p]
               ELSE pendingPages[CHOOSE i \in Kept(p) : \A j \in Kept(p) : j <= i].image
    BY <1>3
  <2>2. CASE WritesTo(log, Pending(log, pos), p) = {} /\ Kept(p) = {}
    BY <1>2, <2>1, <2>2
  <2>3. ASSUME NEW i \in WritesTo(log, Pending(log, pos), p), NEW k \in Kept(p),
               Latest(WritesTo(log, Pending(log, pos), p), i), Latest(Kept(p), k),
               pendingPages[k] = log[i]
        PROVE  F[p] = log[i].image /\ F[p] \in Image
    <3>1. \A m \in Kept(p) : m \in 1..Len(pendingPages)
      BY DEF Kept
    <3>2. (CHOOSE m \in Kept(p) : \A j \in Kept(p) : j <= m) = k
      BY <2>3, <3>1 DEF Latest
    <3>3. F[p] = pendingPages[k].image
      BY <2>1, <2>3, <3>2
    <3>4. pendingPages[k] \in W
      <4> HIDE DEF W
      <4> QED
        BY <1>1, <2>3, <3>1
    <3> QED
      BY <1>1, <2>3, <3>3, <3>4
  <2> QED
    BY <1>2, <2>2, <2>3 DEF PagesBuffered
<1> QED
  BY <1>3, <1>4

\* max_page_id after the buffers is the highest page id written so far.
LEMMA HighestPage ==
  ASSUME RecoveryInv, step # "done",
         NEW m, m = CHOOSE h \in {maxPage} \cup {pendingPages[i].page : i \in 1..Len(pendingPages)} :
                       maxPage <= h /\ \A i \in 1..Len(pendingPages) : pendingPages[i].page <= h
  PROVE  /\ m \in Page \cup {-1} /\ maxPage <= m
         /\ \A i \in 1..Len(pendingPages) : pendingPages[i].page <= m
         /\ m = maxPage \/ \E i \in 1..Len(pendingPages) : pendingPages[i].page = m
<1> DEFINE W == [type: {"page"}, page: Page, image: Image]
           ids == {pendingPages[i].page : i \in 1..Len(pendingPages)}
<1>1. pendingPages \in Seq(W) /\ \A w \in W : w.page \in Page /\ w.page \in Nat
  BY PageAssumption DEF RecoveryInv, TypeOK
<1>2. \A i \in 1..Len(pendingPages) : pendingPages[i].page \in Page /\ pendingPages[i].page \in Nat
  <2> HIDE DEF W
  <2> QED
    BY <1>1
<1>3. maxPage \in Page \cup {-1} /\ maxPage \in Int
  BY PageAssumption DEF RecoveryInv, TypeOK
<1>4. \E h \in {maxPage} \cup ids :
         maxPage <= h /\ \A i \in 1..Len(pendingPages) : pendingPages[i].page <= h
  <2>1. CASE pendingPages = <<>>
    BY <1>3, <2>1
  <2>2. CASE pendingPages # <<>>
    <3>1. PICK k \in 1..Len(pendingPages) :
             \A j \in 1..Len(pendingPages) : pendingPages[j].page <= pendingPages[k].page
      BY <2>2 DEF RecoveryInv, Replaying, HighestBuffered
    <3>2. CASE maxPage <= pendingPages[k].page
      BY <3>1, <3>2
    <3>3. CASE ~(maxPage <= pendingPages[k].page)
      <4>1. \A j \in 1..Len(pendingPages) : pendingPages[j].page <= maxPage
        BY <1>2, <1>3, <3>1, <3>3
      <4> QED
        BY <1>3, <4>1
    <3> QED
      BY <3>2, <3>3
  <2> QED
    BY <2>1, <2>2
<1>5. m \in {maxPage} \cup ids /\ maxPage <= m
      /\ \A i \in 1..Len(pendingPages) : pendingPages[i].page <= m
  BY <1>4
<1> QED
  BY <1>2, <1>3, <1>5

\* and COMMIT, after which the pages of the bracket are applied;
LEMMA ReadCommitKeeps == ASSUME RecoveryInv, ReadCommit PROVE RecoveryInv'
<1>1. Reads("commit") /\ active' = NoTxn /\ Drop
  BY DEF ReadCommit
<1>2. BracketKnown'
  BY <1>1, ClosedAfter
<1>3. IsBracket(log[pos + 1]) /\ log[pos + 1].txn \in Txn /\ log[pos + 1].type = "commit"
  BY <1>1, ReadsRecord, RecordKinds DEF IsBracket
<1>4. CASE active # log[pos + 1].txn
  BY <1>1, <1>2, <1>4, NothingApplied, DropKeeps DEF ReadCommit
<1>5. CASE active = log[pos + 1].txn
  <2> DEFINE S == Settled(log, pos)
             P == Pending(log, pos)
  <2>1. /\ file' = Flushed(file, pendingPages)
        /\ root' = IF pendingMeta = <<>> THEN root ELSE pendingMeta[Len(pendingMeta)]
        /\ maxPage' = CHOOSE h \in {maxPage} \cup {pendingPages[i].page : i \in 1..Len(pendingPages)} :
              maxPage <= h /\ \A i \in 1..Len(pendingPages) : pendingPages[i].page <= h
    BY <1>5 DEF ReadCommit
  <2>2. Settled(log, pos + 1) = S \cup P /\ Pending(log, pos + 1) = {}
    <3>1. PICK b \in 1..pos : OpenedBy(log, b, pos + 1) /\ log[b].txn = active
      BY <1>1, <1>3, <1>5, ReadsRecord, NoTxnAssumption DEF Replaying, BracketKnown
    <3>2. log[pos + 1] = TxnCommit(log[b].txn)
      BY <1>1, <1>3, <1>5, <3>1, ReadsRecord, CommitRecord
    <3> QED
      BY <1>1, <1>3, <3>1, <3>2, ReadsRecord, AfterBracket
  <2>3. S \in SUBSET Int /\ P \in SUBSET Int /\ \A i \in S : \A j \in P : i < j
    <3>1. pos \in Nat
      BY <1>1, ReadsRecord
    <3>2. S \in SUBSET Int /\ P \in SUBSET Int
      BY <3>1 DEF Settled, Pending
    <3> QED
      BY <3>1, <3>2, SettledBeforePending
  <2>4. /\ \A p : \A i : Latest(WritesTo(log, P, p), i) => Latest(WritesTo(log, S \cup P, p), i)
        /\ \A p : WritesTo(log, P, p) = {} => WritesTo(log, S \cup P, p) = WritesTo(log, S, p)
        /\ \A i : Latest(Metas(log, P), i) => Latest(Metas(log, S \cup P), i)
        /\ Metas(log, P) = {} => Metas(log, S \cup P) = Metas(log, S)
        /\ PageWrites(log, S \cup P) = PageWrites(log, S) \cup PageWrites(log, P)
    <3> HIDE DEF S, P
    <3>1. PageWrites(log, S \cup P) = PageWrites(log, S) \cup PageWrites(log, P)
      BY DEF PageWrites
    <3>2. \A i : Latest(Metas(log, P), i) => i \in Int
      BY <2>3 DEF Latest, Metas
    <3>3. /\ \A i \in Int : Latest(Metas(log, P), i) => Latest(Metas(log, S \cup P), i)
          /\ Metas(log, P) = {} => Metas(log, S \cup P) = Metas(log, S)
      BY <2>3, LatestMetaOfUnion
    <3>4. /\ \A p : \A i : Latest(WritesTo(log, P, p), i) => Latest(WritesTo(log, S \cup P, p), i)
          /\ \A p : WritesTo(log, P, p) = {} => WritesTo(log, S \cup P, p) = WritesTo(log, S, p)
      BY <2>3, LatestOfUnion
    <3> QED
      BY <3>1, <3>2, <3>3, <3>4
  <2>5. step # "done" /\ Replaying
    BY <1>1, ReadsRecord
  <2>6. /\ file' \in [Page -> Image \cup {Blank}]
        /\ \A p \in Page : \/ WritesTo(log, P, p) = {} /\ file'[p] = file[p]
                           \/ \E i \in WritesTo(log, P, p) :
                                Latest(WritesTo(log, P, p), i) /\ file'[p] = log[i].image
    BY <2>1, <2>5, FlushedPages
  <2>7. PagesReplayed'
    <3>1. ASSUME NEW p \in Page
          PROVE  \/ WritesTo(log, S \cup P, p) = {}
                 \/ \E i \in WritesTo(log, S \cup P, p) :
                      Latest(WritesTo(log, S \cup P, p), i) /\ file'[p] = log[i].image
      <4>1. CASE WritesTo(log, P, p) = {} /\ file'[p] = file[p]
        <5>1. \/ WritesTo(log, S, p) = {}
              \/ \E i \in WritesTo(log, S, p) : Latest(WritesTo(log, S, p), i) /\ file[p] = log[i].image
          BY <2>5 DEF Replaying, PagesReplayed
        <5> QED
          BY <2>4, <4>1, <5>1
      <4>2. ASSUME NEW i \in WritesTo(log, P, p), Latest(WritesTo(log, P, p), i),
                   file'[p] = log[i].image
            PROVE  \E j \in WritesTo(log, S \cup P, p) :
                     Latest(WritesTo(log, S \cup P, p), j) /\ file'[p] = log[j].image
        <5>1. Latest(WritesTo(log, S \cup P, p), i)
          BY <2>4, <4>2
        <5> QED
          BY <4>2, <5>1 DEF Latest
      <4> QED
        BY <2>6, <4>1, <4>2
    <3> QED
      BY <1>1, <2>2, <3>1, ReadsRecord DEF PagesReplayed
  <2>8. RootReplayed'
    <3>1. \/ Metas(log, P) = {} /\ pendingMeta = <<>>
          \/ /\ pendingMeta # <<>>
             /\ \E i \in Metas(log, P) :
                  Latest(Metas(log, P), i) /\ pendingMeta[Len(pendingMeta)] = log[i].root
      BY <2>5 DEF Replaying, MetaBuffered
    <3>2. CASE Metas(log, P) = {} /\ pendingMeta = <<>>
      <4>1. \/ Metas(log, S) = {} /\ root = NoRoot
            \/ \E i \in Metas(log, S) : Latest(Metas(log, S), i) /\ root = log[i].root
        BY <2>5 DEF Replaying, RootReplayed
      <4>2. root' = root /\ Metas(log, S \cup P) = Metas(log, S)
        BY <2>1, <2>4, <3>2
      <4> QED
        BY <1>1, <2>2, <4>1, <4>2, ReadsRecord DEF RootReplayed
    <3>3. ASSUME pendingMeta # <<>>, NEW i \in Metas(log, P), Latest(Metas(log, P), i),
                 pendingMeta[Len(pendingMeta)] = log[i].root
          PROVE  RootReplayed'
      <4>1. root' = log[i].root /\ Latest(Metas(log, S \cup P), i)
        BY <2>1, <2>4, <3>3
      <4> QED
        BY <1>1, <2>2, <4>1, ReadsRecord DEF RootReplayed, Latest
    <3> QED
      BY <3>1, <3>2, <3>3
  <2>9. CounterReplayed' /\ maxPage' \in Page \cup {-1}
    <3>1. /\ maxPage' \in Page \cup {-1} /\ maxPage <= maxPage'
          /\ \A k \in 1..Len(pendingPages) : pendingPages[k].page <= maxPage'
          /\ maxPage' = maxPage \/ \E k \in 1..Len(pendingPages) : pendingPages[k].page = maxPage'
      BY <2>1, <2>5, HighestPage
    <3>2. /\ \A i \in PageWrites(log, S) : log[i].page <= maxPage
          /\ \/ maxPage = -1 /\ PageWrites(log, S) = {}
             \/ \E i \in PageWrites(log, S) : log[i].page = maxPage
      BY <2>5 DEF Replaying, CounterReplayed
    <3>3. \A i \in PageWrites(log, S \cup P) : log[i].page \in Page /\ log[i].page \in Nat
      <4>1. S \subseteq 1..Len(log) /\ P \subseteq 1..Len(log) /\ log \in Log
        BY <1>1, ReadsRecord DEF Settled, Pending
      <4>2. \A i \in PageWrites(log, S \cup P) : log[i] \in Record /\ log[i].type = "page"
        BY <4>1 DEF PageWrites, Log
      <4> QED
        BY <4>2, RecordKinds, PageAssumption
    <3>4. \A i \in PageWrites(log, P) : \E k \in 1..Len(pendingPages) :
             pendingPages[k].page = log[i].page
      <4>1. ASSUME NEW i \in PageWrites(log, P)
            PROVE  Kept(log[i].page) # {}
        <5>1. log[i].page \in Page /\ i \in WritesTo(log, P, log[i].page)
          BY <2>4, <3>3 DEF PageWrites, WritesTo
        <5> QED
          BY <2>5, <5>1 DEF Replaying, PagesBuffered
      <4> QED
        BY <4>1 DEF Kept
    <3>5. \A k \in 1..Len(pendingPages) : \E i \in PageWrites(log, P) :
             log[i].page = pendingPages[k].page
      <4> DEFINE W == [type: {"page"}, page: Page, image: Image]
      <4>1. ASSUME NEW k \in 1..Len(pendingPages)
            PROVE  WritesTo(log, P, pendingPages[k].page) # {}
        <5>1. pendingPages \in Seq(W) /\ \A w \in W : w.page \in Page
          BY DEF RecoveryInv, TypeOK
        <5>2. pendingPages[k].page \in Page
          <6> HIDE DEF W
          <6> QED
            BY <5>1
        <5>3. k \in Kept(pendingPages[k].page)
          BY DEF Kept
        <5> QED
          BY <2>5, <5>2, <5>3 DEF Replaying, PagesBuffered
      <4> QED
        BY <4>1 DEF WritesTo, PageWrites
    <3>6. maxPage \in Int /\ maxPage' \in Int
      BY <3>1, PageAssumption DEF RecoveryInv, TypeOK
    <3>7. \A i \in PageWrites(log, S \cup P) : log[i].page <= maxPage'
      <4>1. ASSUME NEW i \in PageWrites(log, S)
            PROVE  log[i].page <= maxPage'
        <5>1. log[i].page <= maxPage
          BY <3>2
        <5>2. log[i].page \in Nat
          BY <2>4, <3>3
        <5> QED
          BY <3>1, <3>6, <5>1, <5>2
      <4>2. ASSUME NEW i \in PageWrites(log, P)
            PROVE  log[i].page <= maxPage'
        BY <3>1, <3>4
      <4> QED
        BY <2>4, <4>1, <4>2
    <3>8. \/ maxPage' = -1 /\ PageWrites(log, S \cup P) = {}
          \/ \E i \in PageWrites(log, S \cup P) : log[i].page = maxPage'
      <4>1. CASE \E k \in 1..Len(pendingPages) : pendingPages[k].page = maxPage'
        BY <2>4, <3>5, <4>1
      <4>2. CASE maxPage' = maxPage /\ \E i \in PageWrites(log, S) : log[i].page = maxPage
        BY <2>4, <4>2
      <4>3. CASE maxPage' = maxPage /\ maxPage = -1 /\ PageWrites(log, S) = {}
        <5>1. PageWrites(log, S \cup P) = {}
          <6>1. \A i \in PageWrites(log, S \cup P) : log[i].page <= -1 /\ log[i].page \in Nat
            BY <3>3, <3>7, <4>3
          <6> QED
            BY <6>1
        <5> QED
          BY <4>3, <5>1
      <4> QED
        BY <3>1, <3>2, <4>1, <4>2, <4>3
    <3> QED
      BY <1>1, <2>2, <3>1, <3>7, <3>8, ReadsRecord DEF CounterReplayed
  <2>10. PagesBuffered' /\ HighestBuffered' /\ MetaBuffered'
    BY <1>1, <2>2, ReadsRecord DEF Drop, PagesBuffered, HighestBuffered, MetaBuffered, Kept, WritesTo, Metas
  <2>11. Replaying'
    BY <1>2, <2>7, <2>8, <2>9, <2>10 DEF Replaying
  <2>12. root' \in Page \cup {NoRoot}
    BY <2>1 DEF RecoveryInv, TypeOK
  <2>13. ASSUME NEW p \in Page
         PROVE  file'[p] = file[p] \/ WritesTo(log, Settled(log, pos + 1), p) # {}
    BY <2>2, <2>4, <2>6 DEF Latest
  <2> QED
    BY <1>1, <2>6, <2>9, <2>11, <2>12, <2>13, ReadsKeeps DEF Drop
<1> QED
  BY <1>4, <1>5

\* A step that leaves log, file and scan alone leaves the replay right.
LEMMA SameReplay ==
  ASSUME Replaying,
         UNCHANGED <<log, original, file, pos, active, pendingPages, pendingMeta, root, maxPage>>
  PROVE  Replaying'
<1>1. \A p : Kept(p)' = Kept(p)
  BY DEF Kept
<1>2. BracketKnown' /\ RootReplayed' /\ CounterReplayed'
  BY DEF Replaying, BracketKnown, RootReplayed, CounterReplayed
<1>3. PagesReplayed'
  BY DEF Replaying, PagesReplayed
<1>4. PagesBuffered'
  BY <1>1 DEF Replaying, PagesBuffered
<1>5. HighestBuffered' /\ MetaBuffered'
  BY DEF Replaying, HighestBuffered, MetaBuffered
<1> QED
  BY <1>2, <1>3, <1>4, <1>5 DEF Replaying

\* so does the end of the log,
LEMMA EndOfLogKeeps == ASSUME RecoveryInv, EndOfLog PROVE RecoveryInv'
<1>1. /\ step = "scan" /\ step' = "sync" /\ pos = Len(log)
      /\ UNCHANGED <<log, original, disk, file, pos, active, pendingPages, pendingMeta, root, maxPage, crashes>>
  BY DEF EndOfLog, scan
<1>2. TypeOK'
  BY <1>1 DEF RecoveryInv, TypeOK
<1>3. Replaying' /\ Survives(file)' /\ Survives(disk)'
  BY <1>1, SameReplay DEF RecoveryInv, Survives
<1> QED
  BY <1>1, <1>2, <1>3 DEF RecoveryInv

\* the fsync of the data file,
LEMMA SyncKeeps == ASSUME RecoveryInv, Sync PROVE RecoveryInv'
<1>1. /\ step = "sync" /\ step' = "truncate" /\ disk' = file
      /\ UNCHANGED <<log, original, file, pos, active, pendingPages, pendingMeta, root, maxPage, crashes>>
  BY DEF Sync, scan
<1>2. TypeOK'
  BY <1>1 DEF RecoveryInv, TypeOK
<1>3. Replaying' /\ Survives(file)' /\ Survives(disk)'
  BY <1>1, SameReplay DEF RecoveryInv, Survives
<1> QED
  BY <1>1, <1>2, <1>3 DEF RecoveryInv

\* and the truncation of the log.
LEMMA TruncateKeeps == ASSUME RecoveryInv, Truncate PROVE RecoveryInv'
<1>1. TypeOK' /\ step' = "done"
  BY MaxLogAssumption DEF RecoveryInv, TypeOK, Truncate
<1> QED
  BY <1>1 DEF RecoveryInv

\* After a crash the file holds, page by page, what one of two states that the
\* log makes good held; recovery begins anew.
LEMMA CrashKeeps == ASSUME RecoveryInv, Crash PROVE RecoveryInv'
<1>1. PICK kept \in SUBSET {p \in Page : file[p] # disk[p]} :
         disk' = [p \in Page |-> IF p \in kept THEN file[p] ELSE disk[p]]
  BY DEF Crash
<1>2. /\ file' = disk' /\ log' = log /\ original' = original
      /\ crashes < MaxCrashes /\ crashes' = crashes + 1
  BY DEF Crash
<1>3. disk' \in [Page -> Image \cup {Blank}]
  BY <1>1 DEF RecoveryInv, TypeOK
<1>4. crashes' \in 0..MaxCrashes
  BY <1>2, MaxCrashesAssumption DEF RecoveryInv, TypeOK
<1>5. CASE step = "done"
  <2>1. step' = step /\ UNCHANGED <<pos, active, pendingPages, pendingMeta, root, maxPage>>
    BY <1>5 DEF Crash, scan
  <2>2. TypeOK'
    BY <1>2, <1>3, <1>4, <2>1 DEF RecoveryInv, TypeOK
  <2> QED
    BY <1>5, <2>1, <2>2 DEF RecoveryInv
<1>6. CASE step # "done"
  <2>1. /\ step' = "scan" /\ pos' = 0 /\ active' = NoTxn /\ pendingPages' = <<>> /\ pendingMeta' = <<>>
        /\ root' = NoRoot /\ maxPage' = -1
    BY <1>6 DEF Crash, Drop
  <2>2. TypeOK'
    BY <1>2, <1>3, <1>4, <2>1 DEF RecoveryInv, TypeOK
  <2>3. Settled(log, 0) = {} /\ Pending(log, 0) = {} /\ NothingOpen(log, 0)
    BY NothingRead
  <2>4. Replaying'
    BY <1>2, <2>1, <2>3 DEF Replaying, BracketKnown, PagesReplayed, RootReplayed, CounterReplayed,
         PagesBuffered, HighestBuffered, MetaBuffered, Kept, WritesTo, Metas, PageWrites
  <2>5. Survives(disk)' /\ Survives(file)'
    <3>1. \A p \in Page : disk'[p] = file[p] \/ disk'[p] = disk[p]
      BY <1>1
    <3>2. Survives(file) /\ Survives(disk)
      BY <1>6 DEF RecoveryInv
    <3> QED
      BY <1>2, <3>1, <3>2 DEF Survives
  <2> QED
    BY <2>1, <2>2, <2>4, <2>5 DEF RecoveryInv
<1> QED
  BY <1>5, <1>6

-----------------------------------------------------------------------------
(* The theorems.                                                            *)

\* Through replay, fsync, truncation and crashes at any point of them: at each
\* record the root, the counter and the pages are what the last change that has
\* taken effect says, the buffers are the open bracket's changes, and a page
\* that no settled write names is unchanged or yet to be written.
THEOREM RecoveryInvariant == Spec => []RecoveryInv
<1>1. RecoveryInv /\ [Next]_vars => RecoveryInv'
  <2> SUFFICES ASSUME RecoveryInv, [Next]_vars PROVE RecoveryInv'
    OBVIOUS
  <2>1. CASE Next
    BY <2>1, ReadPageKeeps, ReadMetaKeeps, ReadBeginKeeps, ReadCommitKeeps, ReadAbortKeeps,
       ReadCheckpointKeeps, EndOfLogKeeps, SyncKeeps, TruncateKeeps, CrashKeeps DEF Next
  <2>2. CASE UNCHANGED vars
    <3>1. UNCHANGED <<log, original, disk, file, step, pos, active, pendingPages, pendingMeta,
                      root, maxPage, crashes>>
      BY <2>2 DEF vars, scan
    <3>2. TypeOK'
      BY <3>1 DEF RecoveryInv, TypeOK
    <3>3. step # "done" => Replaying' /\ Survives(file)' /\ Survives(disk)'
      BY <3>1, SameReplay DEF RecoveryInv, Survives
    <3> QED
      BY <3>1, <3>2, <3>3 DEF RecoveryInv
  <2> QED
    BY <2>1, <2>2
<1> QED
  BY <1>1, InitRecoveryInv, PTL DEF Spec

\* With the whole log read, the settled writes of a page are all its writes that
\* take effect.
LEMMA AllWritesSettled ==
  ASSUME RecoveryInv, step \in {"sync", "truncate"}
  PROVE  /\ log \in Log /\ Replaying
         /\ \A p : WritesTo(log, Settled(log, pos), p) = {i \in Writes(log) : log[i].page = p}
         /\ Metas(log, Settled(log, pos)) = Roots(log)
         /\ PageWrites(log, Settled(log, pos)) = Writes(log)
         /\ \A i \in Writes(log) : log[i].page \in Page /\ log[i].page \in Nat
<1>1. log \in Log /\ Replaying /\ pos = Len(log)
  BY DEF RecoveryInv, TypeOK, Log
<1>2. Settled(log, pos) = {i \in 1..Len(log) : Applied(log, i)}
  BY <1>1, AtTheEnd
<1>3. \A i \in Writes(log) : log[i] \in Record /\ log[i].type = "page"
  BY <1>1 DEF Writes, Log
<1>4. \A i \in Writes(log) : log[i].page \in Page /\ log[i].page \in Nat
  BY <1>3, RecordKinds, PageAssumption
<1> QED
  BY <1>1, <1>2, <1>4 DEF WritesTo, Metas, PageWrites, Writes, Roots

\* The file that recovery has then written is the replayed log.
LEMMA FileReplayed ==
  ASSUME RecoveryInv, step \in {"sync", "truncate"}
  PROVE  file = Replayed(log, original)
<1> DEFINE W == Writes(log)
<1>1. {original, disk, file} \subseteq [Page -> Image \cup {Blank}]
  BY DEF RecoveryInv, TypeOK
<1>2. DOMAIN original \cup {log[i].page : i \in W} = Page
  BY <1>1, AllWritesSettled
<1>3. ASSUME NEW p \in Page
      PROVE  file[p] = IF \E i \in W : log[i].page = p
                       THEN log[CHOOSE i \in W : log[i].page = p
                                  /\ \A j \in W : log[j].page = p => j <= i].image
                       ELSE original[p]
  <2>1. WritesTo(log, Settled(log, pos), p) = {i \in W : log[i].page = p}
    BY AllWritesSettled
  <2>2. CASE \E i \in W : log[i].page = p
    <3>1. PICK i \in W : /\ log[i].page = p /\ file[p] = log[i].image
                         /\ \A j \in W : log[j].page = p => j <= i
      BY <2>1, <2>2, AllWritesSettled DEF Replaying, PagesReplayed, Latest
    <3>2. \A j \in W : j \in Int
      BY AllWritesSettled DEF Writes, Log
    <3>3. (CHOOSE k \in W : log[k].page = p /\ \A j \in W : log[j].page = p => j <= k) = i
      BY <3>1, <3>2
    <3> QED
      BY <2>2, <3>1, <3>3
  <2>3. CASE ~\E i \in W : log[i].page = p
    <3>1. WritesTo(log, Writes(log), p) = {}
      BY <2>3 DEF WritesTo
    <3> QED
      BY <2>3, <3>1 DEF RecoveryInv, Survives
  <2> QED
    BY <2>2, <2>3
<1>4. Replayed(log, original) =
        [p \in Page |-> IF \E i \in W : log[i].page = p
                        THEN log[CHOOSE i \in W : log[i].page = p
                                   /\ \A j \in W : log[j].page = p => j <= i].image
                        ELSE original[p]]
  BY <1>2, Zenon DEF Replayed
<1> QED
  BY <1>1, <1>3, <1>4, SMTT(20)

\* So are the root and the page counter.
LEMMA MetaRecovered ==
  ASSUME RecoveryInv, step = "sync"
  PROVE  root = RecoveredRoot(log, NoRoot) /\ maxPage + 1 = RecoveredNext(log, 0)
<1> DEFINE R == Roots(log)
           W == Writes(log)
<1>1. Metas(log, Settled(log, pos)) = R /\ PageWrites(log, Settled(log, pos)) = W /\ Replaying
      /\ log \in Log /\ \A i \in W : log[i].page \in Nat
  BY AllWritesSettled
<1>2. root = RecoveredRoot(log, NoRoot)
  <2>1. CASE R = {}
    <3>1. root = NoRoot
      BY <1>1, <2>1 DEF Replaying, RootReplayed
    <3> QED
      BY <2>1, <3>1, Zenon DEF RecoveredRoot
  <2>2. CASE R # {}
    <3>1. PICK i \in R : root = log[i].root /\ \A j \in R : j <= i
      BY <1>1, <2>2 DEF Replaying, RootReplayed, Latest
    <3>2. \A j \in R : j \in Int
      BY <1>1 DEF Roots, Log
    <3>3. (CHOOSE k \in R : \A j \in R : j <= k) = i
      BY <3>1, <3>2
    <3>4. RecoveredRoot(log, NoRoot) = log[CHOOSE k \in R : \A j \in R : j <= k].root
      BY <2>2, Zenon DEF RecoveredRoot
    <3> QED
      BY <3>1, <3>3, <3>4, Zenon
  <2> QED
    BY <2>1, <2>2
<1>3. maxPage + 1 = RecoveredNext(log, 0)
  <2> DEFINE Good(n) == 0 <= n /\ \A i \in W : log[i].page < n
             N == {0} \cup {log[i].page + 1 : i \in W}
  <2>1. /\ \A i \in W : log[i].page <= maxPage
        /\ \/ maxPage = -1 /\ W = {}
           \/ \E i \in W : log[i].page = maxPage
    BY <1>1 DEF Replaying, CounterReplayed
  <2>2. maxPage + 1 \in N /\ Good(maxPage + 1)
    BY <1>1, <2>1
  <2>3. \A n \in N : Good(n) => n = maxPage + 1
    BY <1>1, <2>1
  <2>4. (CHOOSE n \in N : Good(n)) = maxPage + 1
    BY <2>2, <2>3
  <2> QED
    BY <2>4 DEF RecoveredNext
<1> QED
  BY <1>2, <1>3

\* However often recovery is interrupted: when it comes to the end of the log,
\* the data file is the replayed log, the root is the one of the last meta
\* update that took effect and the counter passes every replayed page
\* (wal.py recover, bplus_pager.py:122-156), for every log and set of pages.
THEOREM RecoveryCorrect == Spec => []Recovers
<1>1. RecoveryInv => Recovers
  BY FileReplayed, MetaRecovered DEF RecoveryInv, Recovers, RecoversCommitted, RecoversMeta
<1> QED
  BY <1>1, RecoveryInvariant, PTL

\* The log is truncated only when an fsync has put all it says into the data
\* file (bplus_pager.py:158-166).
THEOREM TruncationSafe == Spec => TruncatedWhenDurable
<1>1. RecoveryInv /\ step = "truncate" => disk = Replayed(log, original)
  BY FileReplayed DEF RecoveryInv
<1>2. RecoveryInv /\ [Next]_vars =>
        [step = "truncate" /\ step' = "done" => disk = Replayed(log, original)]_vars
  BY <1>1
<1> QED
  BY <1>2, RecoveryInvariant, PTL DEF Spec, TruncatedWhenDurable
=============================================================================
