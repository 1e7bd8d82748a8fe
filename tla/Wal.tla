--------------------------------- MODULE Wal ---------------------------------
(***************************************************************************)
(* The write-ahead log of src/src/wal.py as a sequence of records, and     *)
(* what replaying it makes of a data file.  A record that is torn, or has  *)
(* a wrong checksum, ends the log: a log here is what precedes it.         *)
(* The loop of WAL.recover is the subject of WalRecovery; the definitions  *)
(* here say what it computes.                                              *)
(***************************************************************************)
EXTENDS Integers, Sequences, FiniteSets

PageWrite(p, image) == [type |-> "page", page |-> p, image |-> image]
MetaUpdate(root) == [type |-> "meta", root |-> root]
TxnBegin(t) == [type |-> "begin", txn |-> t]
TxnCommit(t) == [type |-> "commit", txn |-> t]
TxnAbort(t) == [type |-> "abort", txn |-> t]
Checkpoint == [type |-> "checkpoint"]

IsBracket(r) == r.type \in {"begin", "commit", "abort"}
IsChange(r) == r.type \in {"page", "meta"}

\* No bracket record strictly between the positions i and j.
Quiet(log, i, j) == \A n \in (i + 1)..(j - 1) : ~IsBracket(log[n])

\* The last bracket record before position i is the one at b, a TXN_BEGIN.
OpenedBy(log, b, i) == b < i /\ log[b].type = "begin" /\ Quiet(log, b, i)

\* The change at position i takes effect: it is outside any bracket, or in one
\* that the transaction's own TXN_COMMIT closes.
Applied(log, i) ==
    /\ IsChange(log[i])
    /\ \A b \in 1..Len(log) : OpenedBy(log, b, i) =>
         \E c \in (i + 1)..Len(log) : log[c] = TxnCommit(log[b].txn) /\ Quiet(log, i, c)

Writes(log) == {i \in 1..Len(log) : log[i].type = "page" /\ Applied(log, i)}
Roots(log) == {i \in 1..Len(log) : log[i].type = "meta" /\ Applied(log, i)}

\* The data file once the log has been replayed into it.
Replayed(log, file) ==
    LET W == Writes(log)
    IN  [p \in DOMAIN file \cup {log[i].page : i \in W} |->
            IF \E i \in W : log[i].page = p
            THEN log[CHOOSE i \in W : log[i].page = p
                        /\ \A j \in W : log[j].page = p => j <= i].image
            ELSE file[p]]

\* The root page id the pager works with after recovery, metaRoot being the one
\* of the meta page.
RecoveredRoot(log, metaRoot) ==
    LET R == Roots(log)
    IN  IF R = {} THEN metaRoot ELSE log[CHOOSE i \in R : \A j \in R : j <= i].root

\* The page counter after recovery: it passes every page id that was replayed.
RecoveredNext(log, metaNext) ==
    CHOOSE n \in {metaNext} \cup {log[i].page + 1 : i \in Writes(log)} :
        metaNext <= n /\ \A i \in Writes(log) : log[i].page < n
=============================================================================
