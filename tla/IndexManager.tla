----------------------------- MODULE IndexManager -----------------------------
(***************************************************************************)
(* Secondary indexes (src/src/index_manager.py).  The engine of an index   *)
(* maps a value of the column to the list of primary keys of its rows; a   *)
(* value without a row has the empty list, which stands for no entry.      *)
(***************************************************************************)
EXTENDS OrderedLists

CONSTANTS Null    \* SQL NULL

\* What the B+Tree takes as a key: struct.pack('<I', key) raises for the others.
IsKey(v) == v \in Nat

\* _add: a list has a primary key once.
Added_Alone(entries, v, pk) ==
    IF v = Null \/ pk \in ToSet(entries[v]) THEN entries
    ELSE [entries EXCEPT ![v] = <<pk>>]

Added(entries, v, pk) ==
    IF v = Null \/ pk \in ToSet(entries[v]) THEN entries
    ELSE [entries EXCEPT ![v] = Append(@, pk)]

\* _remove
Removed(entries, v, pk) ==
    IF v = Null \/ ~IsKey(v) THEN entries
    ELSE [entries EXCEPT ![v] = Only(@, ToSet(@) \ {pk})]

\* on_update; on_insert is the case old = Null, and on_delete new = Null.
Synced_KeepsOld(entries, pk, old, new) ==
    IF old = new THEN entries ELSE Added(entries, new, pk)

Synced(entries, pk, old, new) ==
    IF old = new THEN entries ELSE Added(Removed(entries, old, pk), new, pk)

\* _add hands the engine a key that it cannot pack.
SyncRaises(old, new) == old # new /\ new # Null /\ ~IsKey(new)

\* lookup; search finds nothing under what is no key.
Lookup(entries, v) == IF v \in DOMAIN entries THEN entries[v] ELSE <<>>

\* range_lookup: the lists of the values in the range, one after the other.
RangeLookup_WithoutHigh(entries, low, high) ==
    LET in == Ascending({v \in DOMAIN entries : low <= v /\ v < high})
    IN  FlattenSeq([n \in DOMAIN in |-> entries[in[n]]])

RangeLookup(entries, low, high) ==
    LET in == Ascending({v \in DOMAIN entries : low <= v /\ v <= high})
    IN  FlattenSeq([n \in DOMAIN in |-> entries[in[n]]])
=============================================================================
