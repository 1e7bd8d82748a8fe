------------------------------- MODULE Database -------------------------------
(***************************************************************************)
(* Database (src/src/database.py) and Executor (src/src/executor.py): SQL  *)
(* statements as sequences of calls of the catalog, of the engine of each  *)
(* table and of the engine of each index.  A step is one such call, with   *)
(* the checks before it; between two the machine may stop, and a call may  *)
(* raise.  A database is used by one thread (database.py:46).              *)
(*                                                                         *)
(* What an engine does is the subject of DurableTree: here it is a         *)
(* function from keys to rows, and a crash takes it back to any of its     *)
(* contents since it was last closed.                                      *)
(***************************************************************************)
EXTENDS Catalog, IndexManager

CONSTANTS
    Pk,             \* primary keys that statements name
    Ref,            \* values of the column ref, without NULL
    NoRow, NoFile, Torn,
    Prepared,       \* FALSE: the directory is new; TRUE: it has two tables and an index
    MaxStatements,  \* bound on the statements
    MaxCrashes      \* bound on the crashes

\* A column of type INT has 32 bits.
ASSUME ColumnAssumption ==
    /\ Pk \subseteq Int /\ IsFiniteSet(Pk)
    /\ Ref \subseteq Int /\ IsFiniteSet(Ref)
    /\ Null \notin Pk \cup Ref /\ NoRow \notin Ref \cup {Null}
    /\ Prepared \subseteq BOOLEAN
ASSUME NameAssumption == Table \cap Index = {}

VARIABLES
    catalog,    \* the registry in memory
    saved,      \* catalog.json
    open,       \* names with an engine in memory
    store,      \* content of the engine, or of the file, of each name
    past,       \* contents a crash may take an engine back to
    savedPast,  \* and contents it may take the file of the catalog back to
    run,        \* what is left of the statement that is running
    up,         \* "up", "down", or "unreadable": the catalog does not load
    intact,     \* no statement was cut short between two engines (history)
    overwritten,\* rows that INSERT put over another row (history)
    checked,    \* rows whose ref INSERT wrote, and nothing since (history)
    statements, crashes

schema == <<catalog, saved, savedPast, open>>
data == <<store, past>>
history == <<intact, overwritten, checked>>
vars == <<schema, data, run, up, history, statements, crashes>>

Name == Table \cup Index
Val == Ref \cup {Null}
Key == {k \in Pk : IsKey(k)}
Content == [Key -> Val \cup {NoRow}]
Entries == [{v \in Ref : IsKey(v)} -> Seq(Key)]
Lists == {entries \in Entries : \A v \in DOMAIN entries : IsInjective(entries[v])}

NoRows == [k \in Key |-> NoRow]
NoEntries == [v \in {w \in Ref : IsKey(w)} |-> <<>>]
\* A file that is missing or cut off is none with a content.
ASSUME FileAssumption ==
    /\ NoFile \notin Content /\ NoFile \notin Entries
    /\ NoFile \notin Registry /\ Torn \notin Registry /\ Torn # NoFile

Empty(n) == IF n \in Table THEN NoRows ELSE NoEntries
Blank(n) == IF n \in Table THEN NoRow ELSE <<>>

Idle == [op |-> "idle"]

TypeOK ==
    /\ IsRegistry(catalog) /\ \A c \in savedPast \cup {saved} : c \in {NoFile, Torn} \/ IsRegistry(c)
    /\ open \subseteq Name
    /\ \A t \in Table : store[t] \in Content \cup {NoFile}
    /\ \A i \in Index : store[i] \in Lists \cup {NoFile}
    /\ \A n \in Name : store[n] \in past[n]
    /\ up \in {"up", "down", "unreadable"}
    /\ intact \in BOOLEAN
    /\ overwritten \subseteq Table \X Key /\ checked \subseteq Table \X Key

-----------------------------------------------------------------------------
\* _reopen_engine for every table, and open_all.
Opened(c) == c.tables \cup Registered(c)

\* Two tables, the second with a foreign key to the first and an index on it.
PreparedRegistry(p, c, i) ==
    WithIndex(WithTable(WithTable(EmptyRegistry, p, NoTable), c, p), i, c)

Init ==
    /\ \/ FALSE \in Prepared /\ saved = NoFile /\ catalog = EmptyRegistry
       \/ /\ TRUE \in Prepared
          /\ \E p, c \in Table, i \in Index :
               p # c /\ saved = PreparedRegistry(p, c, i) /\ catalog = saved
    /\ open = Opened(catalog)
    /\ store = [n \in Name |-> IF n \in open THEN Empty(n) ELSE NoFile]
    /\ past = [n \in Name |-> {store[n]}] /\ savedPast = {saved}
    /\ run = Idle /\ up = "up"
    /\ intact = TRUE /\ overwritten = {} /\ checked = {}
    /\ statements = 0 /\ crashes = 0

Holds(n, content) ==
    /\ store' = [store EXCEPT ![n] = content]
    /\ past' = [past EXCEPT ![n] = @ \cup {content}]

\* _save: the file is rewritten in place and never fsynced.
Saves_Before ==
    /\ saved' = catalog
    /\ savedPast' = savedPast \cup {catalog}

Saves ==
    /\ saved' = catalog'
    /\ savedPast' = savedPast \cup {catalog'}

\* A key that cannot be packed sorts before all others, and the leaf that is
\* being rebuilt loses its rows: those up to some key (bplus_page.py:144-149).
Wiped(n, content) ==
    LET there == {k \in DOMAIN content : content[k] # Blank(n)}
    IN  IF there = {} THEN {content}
        ELSE {[k \in DOMAIN content |-> IF k <= last THEN Blank(n) ELSE content[k]] : last \in there}

Starts == up = "up" /\ run = Idle /\ statements < MaxStatements /\ statements' = statements + 1

-----------------------------------------------------------------------------
(* CREATE TABLE, CREATE INDEX, DROP INDEX *)

\* create_table, and _save where it does not raise.
CreateTable(t, parent) ==
    /\ Starts /\ t \notin catalog.tables
    /\ catalog' = WithTable(catalog, t, parent)
    /\ IF ParentKnown(catalog, t, parent)
       THEN Saves /\ run' = [op |-> "open", name |-> t]
       ELSE UNCHANGED <<saved, savedPast, run>>
    /\ UNCHANGED <<open, data, up, history, crashes>>

\* Engine(path) opens what is there under the name, or creates it.
OpenEngine ==
    /\ up = "up" /\ run.op \in {"open", "open to fill"}
    /\ LET n == run.name IN
       /\ open' = open \cup {n}
       /\ store' = [store EXCEPT ![n] = IF @ = NoFile THEN Empty(n) ELSE @]
       /\ past' = [past EXCEPT ![n] = {store'[n]}]
       /\ run' = IF run.op = "open" THEN Idle
                 ELSE [op |-> "fill", index |-> n, todo |->
                        LET rows == store[TableOf(catalog, n)]
                        IN  Ascending({k \in Key : rows[k] \notin {NoRow, Null}})]
    /\ UNCHANGED <<catalog, saved, savedPast, up, history, statements, crashes>>

\* Catalog.create_index; the engine of the table is asked for afterwards.
CreateIndex(i, t) ==
    /\ Starts /\ i \notin Registered(catalog) /\ t \in catalog.tables
    /\ catalog' = WithIndex(catalog, i, t)
    /\ Saves
    /\ run' = IF t \in open THEN [op |-> "open to fill", name |-> i] ELSE Idle
    /\ UNCHANGED <<open, data, up, history, crashes>>

\* One row of the back-fill.
FillIndex ==
    /\ up = "up" /\ run.op = "fill"
    /\ IF run.todo = <<>> THEN run' = Idle /\ UNCHANGED <<data, intact>>
       ELSE LET i == run.index
                k == Head(run.todo)
                v == store[TableOf(catalog, i)][k]
            IN  IF IsKey(v)
                THEN /\ Holds(i, Added(store[i], v, k))
                     /\ run' = [run EXCEPT !.todo = Tail(@)]
                     /\ UNCHANGED intact
                ELSE /\ \E rest \in Wiped(i, store[i]) : Holds(i, rest)
                     /\ run' = Idle /\ intact' = FALSE
    /\ UNCHANGED <<schema, up, overwritten, checked, statements, crashes>>

\* Catalog.drop_index, and then the files of the engine are removed.
DropIndex(i) ==
    /\ Starts /\ i \in Registered(catalog)
    /\ catalog' = WithoutIndex(catalog, i)
    /\ Saves
    /\ run' = [op |-> "remove", name |-> i]
    /\ UNCHANGED <<open, data, up, history, crashes>>

RemoveFiles ==
    /\ up = "up" /\ run.op = "remove"
    /\ open' = open \ {run.name}
    /\ store' = [store EXCEPT ![run.name] = NoFile]
    /\ past' = [past EXCEPT ![run.name] = {NoFile}]
    /\ run' = Idle
    /\ UNCHANGED <<catalog, saved, savedPast, up, history, statements, crashes>>

-----------------------------------------------------------------------------
(* Access paths: _fetch_rows gives a list of rows *)

Rows(t, keys) ==
    LET there == Only(keys, {k \in Key : store[t][k] # NoRow})
    IN  [n \in DOMAIN there |-> [pk |-> there[n], ref |-> store[t][there[n]]]]

AllKeys == Ascending(Key)

Everything == [col |-> "pk", op |-> "all", low |-> Null, high |-> Null]
Equals(c, v) == [col |-> c, op |-> "=", low |-> v, high |-> v]

\* A condition on one column.
Where ==
    {Equals("pk", k) : k \in Key} \cup {Equals("ref", v) : v \in Ref}
    \cup [col: {"ref"}, op: {">"}, low: Ref, high: {Null}]
    \cup [col: {"pk"}, op: {"between"}, low: Key, high: Key]
    \cup [col: {"ref"}, op: {"between"}, low: Ref, high: Ref]

\* _eval_expr
Matches(where, row) ==
    LET v == row[where.col] IN
    CASE where.op = "all" -> TRUE
      [] where.op = "=" -> v = where.low
      [] where.op = ">" -> v # Null /\ v > where.low
      [] where.op = "between" -> v # Null /\ where.low <= v /\ v <= where.high

FullScan(t, where) ==
    LET rows == Rows(t, AllKeys)
    IN  Only(rows, {row \in ToSet(rows) : Matches(where, row)})

\* The engine of an index that is registered need not be open.
LookedUp(i, v) == IF i \in open THEN Lookup(store[i], v) ELSE <<>>
LookedUpRange(i, low, high) == IF i \in open THEN RangeLookup(store[i], low, high) ELSE <<>>

\* sorted(rows, key=pk), which keeps rows with equal keys in their order.
ByKey(rows) ==
    LET keys == Ascending({row.pk : row \in ToSet(rows)})
    IN  FlattenSeq([n \in DOMAIN keys |-> Only(rows, {row \in ToSet(rows) : row.pk = keys[n]})])

\* Equality and range on the primary key, then has_index_on, then the scan.
FetchRows(t, where) ==
    LET indexes == IndexesFor(catalog, t) IN
    IF where.op = "=" /\ where.col = "pk"
    THEN Rows(t, IF where.low \in Key THEN <<where.low>> ELSE <<>>)
    ELSE IF where.op = "between" /\ where.col = "pk"
    THEN Rows(t, Only(AllKeys, {k \in Key : where.low <= k /\ k <= where.high}))
    ELSE IF where.op = "=" /\ indexes # <<>>
    THEN Rows(t, LookedUp(Head(indexes).index, where.low))
    ELSE IF where.op = "between" /\ indexes # <<>>
    THEN ByKey(Rows(t, LookedUpRange(Head(indexes).index, where.low, where.high)))
    ELSE FullScan(t, where)

\* SELECT ... FROM l JOIN r ON l.left = r.right, before WHERE and projection:
\* for each row of l those that the best access path to r finds.
JoinRows(l, left, r, right) ==
    LET scanned == Rows(l, AllKeys)
        outer == Only(scanned, {row \in ToSet(scanned) : row[left] # Null})
    IN  FlattenSeq([n \in DOMAIN outer |->
            LET inner == FetchRows(r, Equals(right, outer[n][left]))
            IN  [m \in DOMAIN inner |-> <<outer[n], inner[m]>>]])

-----------------------------------------------------------------------------
(* INSERT, UPDATE, DELETE: rows one by one, and after each its indexes *)

\* The rest of a statement on t once the engine of t has been called: the
\* indexes to tell of the row that changed, then the other rows.
Continues(op, t, value, todo, pk, old, new) ==
    [op |-> op, table |-> t, value |-> value, todo |-> todo,
     sync |-> IndexesFor(catalog, t), pk |-> pk, old |-> old, new |-> new]

AtEnd(r) == r.sync = <<>> /\ r.todo = <<>>
Then(r) == IF AtEnd(r) THEN Idle ELSE r

\* The check of the foreign keys of an INSERT.
ReferencesFound(t, ref) ==
    ref = Null \/ \A p \in ParentsOf(catalog, t) :
        p \in open /\ ref \in Key /\ store[p][ref] # NoRow

\* engine.put, over whatever row has the key.
Insert(t, pk, ref) ==
    /\ Starts /\ t \in catalog.tables \cap open
    /\ ReferencesFound(t, ref)
    /\ IsKey(pk)
    /\ Holds(t, [store[t] EXCEPT ![pk] = ref])
    /\ run' = Then(Continues("insert", t, ref, <<>>, pk, Null, ref))
    /\ overwritten' = IF store[t][pk] = NoRow THEN overwritten ELSE overwritten \cup {<<t, pk>>}
    /\ checked' = checked \cup {<<t, pk>>}
    /\ UNCHANGED <<schema, up, intact, crashes>>

\* engine.put raises on the key, and the leaf has been emptied.
InsertRaises(t, pk, ref) ==
    /\ Starts /\ t \in catalog.tables \cap open
    /\ ReferencesFound(t, ref)
    /\ ~IsKey(pk)
    /\ \E rest \in Wiped(t, store[t]) : Holds(t, rest)
    /\ intact' = FALSE
    /\ UNCHANGED <<schema, run, up, overwritten, checked, crashes>>

Update(t, where, ref) ==
    /\ Starts /\ t \in catalog.tables \cap open
    /\ LET rows == FetchRows(t, where)
       IN  run' = Then([Continues("update", t, ref, rows, Null, Null, Null) EXCEPT !.sync = <<>>])
    /\ UNCHANGED <<schema, data, up, history, crashes>>

Delete(t, where) ==
    /\ Starts /\ t \in catalog.tables \cap open
    /\ LET rows == FetchRows(t, where)
       IN  run' = Then([Continues("delete", t, Null, rows, Null, Null, Null) EXCEPT !.sync = <<>>])
    /\ UNCHANGED <<schema, data, up, history, crashes>>

AtRow(op) == up = "up" /\ run.op = op /\ run.sync = <<>> /\ run.todo # <<>>

UpdateRow ==
    /\ AtRow("update")
    /\ LET row == Head(run.todo) IN
       /\ Holds(run.table, [store[run.table] EXCEPT ![row.pk] = run.value])
       /\ run' = Then(Continues("update", run.table, run.value, Tail(run.todo), row.pk, row.ref, run.value))
       /\ checked' = checked \ {<<run.table, row.pk>>}
    /\ UNCHANGED <<schema, up, intact, overwritten, statements, crashes>>

\* The check of the foreign keys of a DELETE, through the index where there is
\* one on the column.
Referenced_ByIndexOnly(t, pk) ==
    \E c \in ChildrenOf(catalog, t) :
        IndexesFor(catalog, c) # <<>> /\ FetchRows(c, Equals("ref", pk)) # <<>>

Referenced(t, pk) ==
    \E c \in ChildrenOf(catalog, t) :
        c \notin open \/ FetchRows(c, Equals("ref", pk)) # <<>>

DeleteRow ==
    /\ AtRow("delete")
    /\ LET row == Head(run.todo) IN
       /\ ~Referenced(run.table, row.pk)
       /\ Holds(run.table, [store[run.table] EXCEPT ![row.pk] = NoRow])
       /\ run' = Then(Continues("delete", run.table, Null, Tail(run.todo), row.pk, row.ref, Null))
       /\ checked' = checked \ {<<run.table, row.pk>>}
    /\ UNCHANGED <<schema, up, intact, overwritten, statements, crashes>>

\* The rows before this one stay deleted.
DeleteRefused ==
    /\ AtRow("delete")
    /\ Referenced(run.table, Head(run.todo).pk)
    /\ run' = Idle
    /\ UNCHANGED <<schema, data, up, history, statements, crashes>>

\* on_insert, on_update or on_delete for the next index.
AtIndex == up = "up" /\ run.op \in {"insert", "update", "delete"} /\ run.sync # <<>>

SyncIndex ==
    /\ AtIndex
    /\ ~SyncRaises(run.old, run.new)
    /\ LET i == Head(run.sync).index
           removed == IF run.old = run.new THEN store[i] ELSE Removed(store[i], run.old, run.pk)
           synced  == Synced(store[i], run.pk, run.old, run.new)
       IN  /\ store' = [store EXCEPT ![i] = synced]
           /\ past' = [past EXCEPT ![i] = @ \cup {removed, synced}]
    /\ run' = Then([run EXCEPT !.sync = Tail(@)])
    /\ UNCHANGED <<schema, up, history, statements, crashes>>

\* The index cannot take the value: the row is there, its entry is not, and
\* neither are the entries of the leaf.
SyncFails ==
    /\ AtIndex
    /\ SyncRaises(run.old, run.new)
    /\ LET i == Head(run.sync).index
       IN  \E rest \in Wiped(i, Removed(store[i], run.old, run.pk)) : Holds(i, rest)
    /\ run' = Idle /\ intact' = FALSE
    /\ UNCHANGED <<schema, up, overwritten, checked, statements, crashes>>

-----------------------------------------------------------------------------
(* close, crash, open *)

Stopped ==
    /\ open' = {}
    /\ catalog' = EmptyRegistry
    /\ run' = Idle
    /\ up' = "down"

Close ==
    /\ Starts
    /\ Stopped
    /\ past' = [n \in Name |-> {store[n]}]
    /\ UNCHANGED <<saved, savedPast, store, history, crashes>>

Survivors(names) ==
    {s \in [names -> UNION {past[n] : n \in names}] : \A n \in names : s[n] \in past[n]}

\* The machine stops: every engine is found as it once was, whatever the others
\* lost, and so is the file of the catalog, or cut off.
Crash ==
    /\ up = "up" /\ crashes < MaxCrashes
    /\ crashes' = crashes + 1
    /\ Stopped
    /\ \E tables \in Survivors(Table), indexes \in Survivors(Index) :
         store' = [n \in Name |-> IF n \in Table THEN tables[n] ELSE indexes[n]]
    /\ past' = [n \in Name |-> {store'[n]}]
    /\ saved' \in savedPast \cup (IF savedPast = {NoFile} THEN {} ELSE {Torn})
    /\ savedPast' = {saved'}
    /\ intact' = FALSE
    /\ UNCHANGED <<overwritten, checked, statements>>

\* Database(dirpath): the catalog, and an engine for every table and index in it.
Open ==
    /\ up = "down" /\ saved # Torn
    /\ catalog' = IF saved = NoFile THEN EmptyRegistry ELSE saved
    /\ open' = Opened(catalog')
    /\ store' = [n \in Name |-> IF n \in open' /\ store[n] = NoFile THEN Empty(n) ELSE store[n]]
    /\ past' = [n \in Name |-> {store'[n]}]
    /\ up' = "up"
    /\ UNCHANGED <<saved, savedPast, run, history, statements, crashes>>

\* json.load raises.
OpenFails ==
    /\ up = "down" /\ saved = Torn
    /\ up' = "unreadable"
    /\ UNCHANGED <<schema, data, run, history, statements, crashes>>

Next ==
    \/ \E t \in Table, parent \in Table \cup {NoTable} : CreateTable(t, parent)
    \/ \E i \in Index, t \in Table : CreateIndex(i, t)
    \/ \E i \in Index : DropIndex(i)
    \/ \E t \in Table, pk \in Pk, ref \in Val : Insert(t, pk, ref) \/ InsertRaises(t, pk, ref)
    \/ \E t \in Table, where \in Where \cup {Everything} :
         Delete(t, where) \/ \E ref \in Val : Update(t, where, ref)
    \/ UpdateRow \/ DeleteRow \/ DeleteRefused \/ SyncIndex \/ SyncFails
    \/ OpenEngine \/ FillIndex \/ RemoveFiles
    \/ Close \/ Crash \/ Open \/ OpenFails

Spec == Init /\ [][Next]_vars

-----------------------------------------------------------------------------
Settled == up = "up" /\ run = Idle
IndexedBy(i) == TableOf(catalog, i)

\* "Indexes kept in sync on every INSERT / UPDATE / DELETE" (README.md:97), as
\* far as it goes: a row is never missing from an index of its table, through
\* every mix of statements, back-fills, drops and reopenings in which no call
\* raises between two engines and the machine does not stop.
IndexesCoverRows ==
    Settled /\ intact =>
        \A i \in Registered(catalog) \cap open, k \in Key :
            store[IndexedBy(i)][k] \notin {NoRow, Null} =>
                k \in ToSet(store[i][store[IndexedBy(i)][k]])

\* An entry that does not match its row is left over from an INSERT over a row,
\* and from nothing else.
StaleOnlyAfterOverwrite ==
    Settled /\ intact =>
        \A i \in Registered(catalog) \cap open : \A v \in DOMAIN store[i], k \in Key :
            k \in ToSet(store[i][v]) =>
                store[IndexedBy(i)][k] = v \/ <<IndexedBy(i), k>> \in overwritten

\* A reference that INSERT has checked stays good until the row is written
\* again: no DELETE removes the parent, whichever access path its check takes
\* (executor.py:215, :285).
InsertedReferencesHold ==
    up = "up" /\ intact =>
        \A fk \in catalog.fkeys, k \in Key :
            <<fk[1], k>> \in checked /\ store[fk[1]][k] # Null =>
                store[fk[2]][store[fk[1]][k]] # NoRow

\* A write to a table finds the engine of each of its indexes
\* (index_manager.py:170), also after statements that were refused.
EnginesOpen ==
    Settled => \A i \in Registered(catalog) : IndexedBy(i) \in open => i \in open

\* A table that is in use has its definition, its foreign keys and its indexes
\* in the file of the catalog, so that the next Database finds the same schema,
\* also after statements that were refused half-way (catalog.py:117-134).
SchemaSaved ==
    up = "up" =>
        \A t \in open \cap Table :
            /\ saved # NoFile /\ t \in saved.tables
            /\ ParentsOf(saved, t) = ParentsOf(catalog, t)
            /\ IndexesFor(saved, t) = IndexesFor(catalog, t)

\* The schema, in memory and in the file.
SchemaSound == TypeOK /\ EnginesOpen /\ SchemaSaved

SameRows(a, b) == Len(a) = Len(b) /\ ToSet(a) = ToSet(b)
Values(c) == {v \in IF c = "pk" THEN Pk ELSE Ref : IsKey(v)}

FetchAgrees(t, where) == SameRows(FetchRows(t, where), FullScan(t, where))

JoinAgrees(l, left, r, right) ==
    LET all == ToSet(Rows(l, AllKeys)) \X ToSet(Rows(r, AllKeys))
        match == {pair \in all : pair[1][left] # Null /\ pair[1][left] = pair[2][right]}
        joined == JoinRows(l, left, r, right)
    IN  Len(joined) = Cardinality(match) /\ ToSet(joined) = match

\* Whichever access path a condition takes, its rows are those that a scan
\* finds, each once, and a join gives the pairs that match: for tables none of
\* whose rows was put over another one (executor.py:8-12).
QueriesAgree ==
    Settled /\ intact =>
        \A t \in catalog.tables \cap open :
            overwritten \cap ({t} \X Key) = {} =>
                /\ \A where \in Where : where.low \in Values(where.col) => FetchAgrees(t, where)
                /\ \A l \in catalog.tables \cap open, left, right \in {"pk", "ref"} :
                     JoinAgrees(l, left, t, right)

\* The same without the condition: "Indexes kept in sync on every INSERT /
\* UPDATE / DELETE" (README.md:97).
LookupMatchesScan ==
    Settled /\ intact =>
        \A t \in catalog.tables \cap open, v \in Values("ref") : FetchAgrees(t, Equals("ref", v))
=============================================================================
