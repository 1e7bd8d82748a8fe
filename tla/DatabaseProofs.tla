---------------------------- MODULE DatabaseProofs ----------------------------
(***************************************************************************)
(* Theorems about Database, for any set of tables, indexes, keys and       *)
(* values: the schema in memory and in the file, indexes that miss no row, *)
(* references that stay good, and access paths that agree with a scan.     *)
(***************************************************************************)
EXTENDS Database, ListLemmas

-----------------------------------------------------------------------------
(* The invariant.  Between two statements it is about tables and indexes;  *)
(* within one, about what the indexes will be once it is through.          *)

Row == [pk : Key, ref : Val]
Entry == [index : Index, table : Table]
Writes == {"insert", "update", "delete"}

WriteRuns == [op : Writes, table : Table, value : Val, todo : Seq(Row), sync : Seq(Entry),
              pk : Key \cup {Null}, old : Val, new : Val]
Runs ==
    [op : {"idle"}] \cup [op : {"open", "open to fill", "remove"}, name : Name]
    \cup [op : {"fill"}, index : Index, todo : Seq(Key)] \cup WriteRuns

Kept(n) == (IF n \in Table THEN Content ELSE Lists) \cup {NoFile}

\* What each engine holds, and what a crash may take it back to.
StoreTyped ==
    /\ store = [n \in Name |-> store[n]] /\ past = [n \in Name |-> past[n]]
    /\ \A n \in Name : store[n] \in past[n] /\ past[n] \subseteq Kept(n)

\* The types of the state, with those of what is not in memory.
Typed ==
    /\ IsRegistry(catalog) /\ \A c \in savedPast \cup {saved} : c \in {NoFile, Torn} \/ IsRegistry(c)
    /\ open \subseteq Name
    /\ StoreTyped
    /\ run \in Runs
    /\ up \in {"up", "down", "unreadable"}
    /\ intact \in BOOLEAN
    /\ overwritten \subseteq Table \X Key /\ checked \subseteq Table \X Key

\* What a delete or an update leaves of a row of its list.
Written == IF run.op = "delete" THEN NoRow ELSE run.value

\* The statement that runs refers to what is there.
RunFits ==
    /\ run.op = "open" =>
         /\ run.name \in Table /\ saved # NoFile /\ run.name \in saved.tables
         /\ \A e \in ToSet(catalog.indexes) : e.table # run.name
    /\ run.op = "open to fill" =>
         /\ run.name \notin open
         /\ \E e \in ToSet(catalog.indexes) : e.index = run.name /\ e.table \in open
    /\ run.op = "remove" => run.name \in Index \ Registered(catalog)
    /\ run.op = "fill" =>
         \E e \in ToSet(catalog.indexes) :
            /\ e.index = run.index /\ {e.index, e.table} \subseteq open
            /\ IsInjective(run.todo)
            /\ \A k \in ToSet(run.todo) : store[e.table][k] \in Ref
    /\ run.op \in Writes =>
         /\ run.table \in open
         /\ \A e \in ToSet(run.sync) : e \in ToSet(catalog.indexes) /\ e.table = run.table
         /\ IsInjective(run.sync) /\ (run.sync # <<>> => run.pk \in Key)
         /\ \A row \in ToSet(run.todo) : store[run.table][row.pk] \in {row.ref, Written}
         /\ run.op = "insert" => run.todo = <<>>

\* Memory and file of the catalog, and the engines that are open.
SchemaKept ==
    /\ up # "up" => run = Idle /\ open = {}
    /\ up = "up" =>
         /\ IF saved = NoFile
            THEN catalog.indexes = <<>> /\ catalog.fkeys = {} /\ open \cap Table = {}
            ELSE /\ IsRegistry(saved)
                 /\ saved.indexes = catalog.indexes /\ saved.fkeys = catalog.fkeys
                 /\ saved.tables \subseteq catalog.tables /\ open \cap Table \subseteq saved.tables
         /\ \A n \in open : store[n] # NoFile
         /\ \A i \in open \cap Index :
              i \in Registered(catalog) \/ (run.op = "remove" /\ run.name = i)
         /\ \A e \in ToSet(catalog.indexes) :
              /\ e.index \in open => e.table \in open
              /\ e.table \in open => e.index \in open \/ (run.op = "open to fill" /\ run.name = e.index)

\* The schema, in memory or in the file that the next Database will read.
Schema ==
    IF up = "up" THEN catalog ELSE IF saved \in {NoFile, Torn} THEN EmptyRegistry ELSE saved

\* While intact, there are the files of what the schema has, and no others.
FilesKept ==
    /\ up = "up" => \A n \in Name : store[n] # NoFile => n \in open
    /\ up # "up" =>
         /\ \A n \in Name : store[n] # NoFile => n \in Opened(Schema)
         /\ \A e \in ToSet(Schema.indexes) : store[e.table] # NoFile <=> store[e.index] # NoFile

\* The entries of an index once the statement has told it of the row.
Telling(i) == run.op \in Writes /\ \E e \in ToSet(run.sync) : e.index = i
EntriesAfter(i) ==
    IF Telling(i) THEN Synced(store[i], run.pk, run.old, run.new) ELSE store[i]

\* The rows that a back-fill has not come to.
Unfilled(i) == IF run.op = "fill" /\ run.index = i THEN ToSet(run.todo) ELSE {}

\* The index will refuse the row.
Refuses == run.op \in Writes /\ run.sync # <<>> /\ SyncRaises(run.old, run.new)

Covers(i, t) ==
    \A k \in Key \ Unfilled(i) :
        store[t][k] \notin {NoRow, Null} =>
            /\ store[t][k] \in DOMAIN EntriesAfter(i)
            /\ k \in ToSet(EntriesAfter(i)[store[t][k]])

Matched(i, t) ==
    \A v \in DOMAIN EntriesAfter(i), k \in Key :
        k \in ToSet(EntriesAfter(i)[v]) => store[t][k] = v \/ <<t, k>> \in overwritten

IndexesKept ==
    ~Refuses =>
        \A e \in ToSet(Schema.indexes) :
            store[e.index] # NoFile => Covers(e.index, e.table) /\ Matched(e.index, e.table)

\* The rows that INSERT wrote are there, and so are those that they refer to.
ReferencesKept ==
    /\ \A row \in checked : store[row[1]] # NoFile /\ store[row[1]][row[2]] # NoRow
    /\ \A fk \in Schema.fkeys, k \in Key :
         <<fk[1], k>> \in checked /\ store[fk[1]][k] # Null =>
            /\ store[fk[2]] # NoFile /\ store[fk[1]][k] \in Key
            /\ store[fk[2]][store[fk[1]][k]] # NoRow

DatabaseInv ==
    /\ Typed /\ RunFits /\ SchemaKept
    /\ intact => FilesKept /\ IndexesKept /\ ReferencesKept
-----------------------------------------------------------------------------
(* The catalog. *)

\* The indexes of a table are those that the catalog lists with it, each once.
LEMMA IndexesForTable ==
    ASSUME NEW c, IsRegistry(c), NEW t
    PROVE  /\ IndexesFor(c, t) \in Seq(Entry) /\ IsInjective(IndexesFor(c, t))
           /\ ToSet(IndexesFor(c, t)) = {e \in ToSet(c.indexes) : e.table = t}
<1>1. c.indexes \in Seq(Entry) /\ IsInjective(c.indexes)
  BY DEF IsRegistry, Registry, Entry, IsInjective
<1>2. PICK S : S = {e \in ToSet(c.indexes) : e.table = t}
  OBVIOUS
<1>3. IndexesFor(c, t) = Only(c.indexes, S)
  BY <1>2 DEF IndexesFor
<1>4. ToSet(c.indexes) \cap S = S
  BY <1>2
<1> QED
  BY <1>1, <1>2, <1>3, <1>4, OnlyOf

\* An index is registered once, so that it has one table.
LEMMA OneEntry ==
    ASSUME NEW c, IsRegistry(c), NEW e \in ToSet(c.indexes)
    PROVE  /\ e \in Entry /\ e.table \in c.tables /\ e.index \in Registered(c)
           /\ \A f \in ToSet(c.indexes) : f.index = e.index => f = e
           /\ TableOf(c, e.index) = e.table
<1>1. c.indexes \in Seq(Entry)
  BY DEF IsRegistry, Registry, Entry
<1>2. e \in Entry /\ e.table \in c.tables
  BY <1>1 DEF ToSet, IsRegistry
<1>3. \A f \in ToSet(c.indexes) : f.index = e.index => f = e
  BY DEF ToSet, IsRegistry
<1>4. (CHOOSE f \in ToSet(c.indexes) : f.index = e.index) = e
  BY <1>3
<1> QED
  BY <1>2, <1>3, <1>4 DEF TableOf, Registered

\* An index that is registered has an entry.
LEMMA EntryOf ==
    ASSUME NEW c, NEW i \in Registered(c)
    PROVE  \E e \in ToSet(c.indexes) : e.index = i
BY DEF Registered

\* The first catalog.
LEMMA EmptyIsRegistry == IsRegistry(EmptyRegistry) /\ ToSet(EmptyRegistry.indexes) = {}
<1>1. <<>> \in Seq([index : Index, table : Table]) /\ ToSet(<<>>) = {}
  BY DEF ToSet
<1> QED
  BY <1>1 DEF IsRegistry, Registry, EmptyRegistry

\* CREATE TABLE adds to the tables and perhaps a foreign key of the table.
LEMMA WithTableIs ==
    ASSUME NEW c, IsRegistry(c), NEW t \in Table, NEW parent \in Table \cup {NoTable}
    PROVE  /\ IsRegistry(WithTable(c, t, parent))
           /\ WithTable(c, t, parent).indexes = c.indexes
           /\ WithTable(c, t, parent).tables = c.tables \cup {t}
           /\ c.fkeys \subseteq WithTable(c, t, parent).fkeys
           /\ WithTable(c, t, parent).fkeys \subseteq c.fkeys \cup {<<t, parent>>}
           /\ ~ParentKnown(c, t, parent) => WithTable(c, t, parent).fkeys = c.fkeys
<1>1. PICK more : more = IF parent # NoTable /\ ParentKnown(c, t, parent)
                         THEN c.fkeys \cup {<<t, parent>>} ELSE c.fkeys
  OBVIOUS
<1>2. more \in SUBSET (Table \X Table) /\ c.fkeys \subseteq more
      /\ more \subseteq c.fkeys \cup {<<t, parent>>}
  BY <1>1 DEF IsRegistry, Registry
<1>3. PICK d : d = WithTable(c, t, parent)
  OBVIOUS
<1>4. d = [tables |-> c.tables \cup {t}, fkeys |-> more, indexes |-> c.indexes]
  BY <1>1, <1>3 DEF WithTable, IsRegistry, Registry
<1>5. d.indexes = c.indexes /\ d.tables = c.tables \cup {t} /\ d.fkeys = more
  BY <1>4
<1>6. d \in Registry
  BY <1>2, <1>4 DEF IsRegistry, Registry
<1>7. IsRegistry(d)
  BY <1>5, <1>6 DEF IsRegistry
<1> QED
  BY <1>1, <1>2, <1>3, <1>5, <1>7

\* CREATE INDEX adds one index at the end.
LEMMA WithIndexIs ==
    ASSUME NEW c, IsRegistry(c), NEW i \in Index, i \notin Registered(c), NEW t \in c.tables
    PROVE  /\ IsRegistry(WithIndex(c, i, t))
           /\ ToSet(WithIndex(c, i, t).indexes) = ToSet(c.indexes) \cup {[index |-> i, table |-> t]}
           /\ WithIndex(c, i, t).tables = c.tables /\ WithIndex(c, i, t).fkeys = c.fkeys
<1> DEFINE e == [index |-> i, table |-> t]
<1>1. c.indexes \in Seq(Entry) /\ t \in Table /\ e \in Entry
  BY DEF IsRegistry, Registry, Entry
<1>2. PICK s : s = Append(c.indexes, e)
  OBVIOUS
<1>3. /\ s \in Seq(Entry) /\ Len(s) = Len(c.indexes) + 1 /\ s[Len(s)] = e
      /\ \A n \in 1..Len(c.indexes) : s[n] = c.indexes[n]
  BY <1>1, <1>2
<1>4. DOMAIN s = 1..Len(s) /\ DOMAIN c.indexes = 1..Len(c.indexes) /\ Len(c.indexes) \in Nat
  BY <1>1, <1>3
<1>5. \A n \in DOMAIN s : n = Len(s) \/ n \in DOMAIN c.indexes
  BY <1>3, <1>4
<1>6. ToSet(s) = ToSet(c.indexes) \cup {e}
  <2>1. \A x \in ToSet(s) : x \in ToSet(c.indexes) \cup {e}
    BY <1>3, <1>4, <1>5 DEF ToSet
  <2>2. e \in ToSet(s)
    BY <1>3, <1>4 DEF ToSet
  <2>3. \A x \in ToSet(c.indexes) : x \in ToSet(s)
    BY <1>3, <1>4 DEF ToSet
  <2> QED
    BY <2>1, <2>2, <2>3
<1>7. PICK d : d = WithIndex(c, i, t)
  OBVIOUS
<1>8. d = [tables |-> c.tables, fkeys |-> c.fkeys, indexes |-> s]
  BY <1>2, <1>7 DEF WithIndex, IsRegistry, Registry
<1>9. d.indexes = s /\ d.tables = c.tables /\ d.fkeys = c.fkeys
  BY <1>8
<1>10. \A n \in DOMAIN c.indexes : c.indexes[n].index # i
  BY DEF Registered, ToSet
<1>11. \A m, n \in DOMAIN s : s[m].index = s[n].index => m = n
  BY <1>3, <1>4, <1>5, <1>10 DEF IsRegistry
<1>12. \A f \in ToSet(s) : f.table \in c.tables
  BY <1>6 DEF IsRegistry
<1>13. d \in Registry
  BY <1>3, <1>8 DEF IsRegistry, Registry, Entry
<1> QED
  BY <1>6, <1>7, <1>9, <1>11, <1>12, <1>13 DEF IsRegistry

\* DROP INDEX leaves the other indexes.
LEMMA WithoutIndexIs ==
    ASSUME NEW c, IsRegistry(c), NEW i
    PROVE  /\ IsRegistry(WithoutIndex(c, i))
           /\ ToSet(WithoutIndex(c, i).indexes) = {e \in ToSet(c.indexes) : e.index # i}
           /\ WithoutIndex(c, i).tables = c.tables /\ WithoutIndex(c, i).fkeys = c.fkeys
<1>1. c.indexes \in Seq(Entry) /\ IsInjective(c.indexes)
  BY DEF IsRegistry, Registry, Entry, IsInjective
<1>2. PICK S : S = {e \in ToSet(c.indexes) : e.index # i}
  OBVIOUS
<1>3. PICK s : s = Only(c.indexes, S)
  OBVIOUS
<1>4. ToSet(c.indexes) \cap S = S
  BY <1>2
<1>5. s \in Seq(Entry) /\ ToSet(s) = S /\ IsInjective(s)
  BY <1>1, <1>3, <1>4, OnlyOf
<1>6. PICK d : d = WithoutIndex(c, i)
  OBVIOUS
<1>7. d = [tables |-> c.tables, fkeys |-> c.fkeys, indexes |-> s]
  BY <1>2, <1>3, <1>6 DEF WithoutIndex, IsRegistry, Registry
<1>8. d.indexes = s /\ d.tables = c.tables /\ d.fkeys = c.fkeys
  BY <1>7
<1>9. ASSUME NEW m \in DOMAIN s, NEW n \in DOMAIN s, s[m].index = s[n].index
      PROVE  m = n
  <2>1. s[m] \in ToSet(c.indexes) /\ s[n] \in ToSet(c.indexes)
    BY <1>2, <1>5 DEF ToSet
  <2>2. s[m] = s[n]
    BY <1>9, <2>1, OneEntry
  <2> QED
    BY <1>5, <2>2 DEF IsInjective
<1>10. \A f \in ToSet(s) : f.table \in c.tables
  BY <1>2, <1>5 DEF IsRegistry
<1>11. d \in Registry
  BY <1>5, <1>7 DEF IsRegistry, Registry, Entry
<1> QED
  BY <1>2, <1>5, <1>6, <1>8, <1>9, <1>10, <1>11 DEF IsRegistry

-----------------------------------------------------------------------------
(* The indexes. *)

Indexable == {v \in Ref : IsKey(v)}

\* An index is a function from the values that can be keys to lists of keys.
LEMMA ListsAre ==
    ASSUME NEW entries
    PROVE  entries \in Lists <=>
             /\ entries \in [Indexable -> Seq(Key)]
             /\ \A v \in Indexable : IsInjective(entries[v])
BY DEF Lists, Entries, Indexable

\* _add puts the key into the list of the value, where it is once.
LEMMA AddedLists ==
    ASSUME NEW entries \in Lists, NEW v \in Indexable \cup {Null}, NEW pk \in Key
    PROVE  /\ Added(entries, v, pk) \in Lists
           /\ \A u \in Indexable, k \in Key :
                k \in ToSet(Added(entries, v, pk)[u]) <=>
                    k \in ToSet(entries[u]) \/ (u = v /\ k = pk)
<1>1. entries \in [Indexable -> Seq(Key)] /\ \A u \in Indexable : IsInjective(entries[u])
  BY ListsAre
<1>2. Null \notin Indexable
  BY ColumnAssumption DEF Indexable
<1>3. CASE v = Null \/ pk \in ToSet(entries[v])
  <2>1. Added(entries, v, pk) = entries
    BY <1>3 DEF Added
  <2> QED
    BY <1>2, <1>3, <2>1
<1>4. CASE v # Null /\ pk \notin ToSet(entries[v])
  <2>1. v \in Indexable /\ entries[v] \in Seq(Key)
    BY <1>1, <1>4
  <2>2. PICK s : s = Append(entries[v], pk)
    OBVIOUS
  <2>3. PICK a : a = Added(entries, v, pk)
    OBVIOUS
  <2>4. a = [entries EXCEPT ![v] = s]
    BY <1>4, <2>2, <2>3 DEF Added
  <2>5. PICK e : e = entries[v]
    OBVIOUS
  <2>6. /\ s \in Seq(Key) /\ Len(s) = Len(e) + 1 /\ s[Len(s)] = pk
        /\ Len(e) \in Nat /\ \A n \in 1..Len(e) : s[n] = e[n]
    BY <2>1, <2>2, <2>5
  <2>7. DOMAIN s = 1..Len(s) /\ DOMAIN e = 1..Len(e)
    BY <2>1, <2>5, <2>6
  <2>8. \A n \in DOMAIN s : n = Len(s) \/ n \in DOMAIN e
    BY <2>6, <2>7
  <2>9. ToSet(s) = ToSet(e) \cup {pk}
    <3>1. \A x \in ToSet(s) : x \in ToSet(e) \cup {pk}
      BY <2>6, <2>7, <2>8 DEF ToSet
    <3>2. pk \in ToSet(s)
      BY <2>6, <2>7 DEF ToSet
    <3>3. \A x \in ToSet(e) : x \in ToSet(s)
      BY <2>6, <2>7 DEF ToSet
    <3> QED
      BY <3>1, <3>2, <3>3
  <2>10. \A n \in DOMAIN e : e[n] # pk
    BY <1>4, <2>5 DEF ToSet
  <2>11. IsInjective(e)
    BY <1>1, <2>1, <2>5
  <2>12. IsInjective(s)
    BY <2>6, <2>7, <2>8, <2>10, <2>11 DEF IsInjective
  <2>13. a \in [Indexable -> Seq(Key)] /\ a[v] = s /\ \A u \in Indexable \ {v} : a[u] = entries[u]
    BY <1>1, <2>1, <2>4, <2>6
  <2>14. a \in Lists
    BY <1>1, <2>12, <2>13, ListsAre
  <2> QED
    BY <2>3, <2>5, <2>9, <2>13, <2>14
<1> QED
  BY <1>3, <1>4

\* _remove takes the key out of the list of the value.
LEMMA RemovedLists ==
    ASSUME NEW entries \in Lists, NEW v \in Val, NEW pk \in Key
    PROVE  /\ Removed(entries, v, pk) \in Lists
           /\ \A u \in Indexable, k \in Key :
                k \in ToSet(Removed(entries, v, pk)[u]) <=>
                    k \in ToSet(entries[u]) /\ ~(u = v /\ k = pk)
<1>1. entries \in [Indexable -> Seq(Key)] /\ \A u \in Indexable : IsInjective(entries[u])
  BY ListsAre
<1>2. CASE v = Null \/ ~IsKey(v)
  <2>1. Removed(entries, v, pk) = entries /\ v \notin Indexable
    BY <1>2, ColumnAssumption DEF Removed, Indexable
  <2> QED
    BY <2>1
<1>3. CASE v # Null /\ IsKey(v)
  <2>1. v \in Indexable
    BY <1>3 DEF Val, Indexable
  <2>2. PICK e : e = entries[v]
    OBVIOUS
  <2>3. PICK s : s = Only(e, ToSet(e) \ {pk})
    OBVIOUS
  <2>4. e \in Seq(Key) /\ IsInjective(e)
    BY <1>1, <2>1, <2>2
  <2>5. s \in Seq(Key) /\ ToSet(s) = ToSet(e) \cap (ToSet(e) \ {pk}) /\ IsInjective(s)
    BY <2>3, <2>4, OnlyOf
  <2>6. PICK r : r = Removed(entries, v, pk)
    OBVIOUS
  <2>7. r = [entries EXCEPT ![v] = s]
    BY <1>3, <2>2, <2>3, <2>6 DEF Removed
  <2>8. r \in [Indexable -> Seq(Key)] /\ r[v] = s /\ \A u \in Indexable \ {v} : r[u] = entries[u]
    BY <1>1, <2>1, <2>5, <2>7
  <2>9. r \in Lists
    BY <1>1, <2>5, <2>8, ListsAre
  <2> QED
    BY <2>2, <2>5, <2>6, <2>8, <2>9
<1> QED
  BY <1>2, <1>3

\* on_update moves the key from the list of the old value to that of the new one.
LEMMA SyncedLists ==
    ASSUME NEW entries \in Lists, NEW pk \in Key, NEW old \in Val, NEW new \in Val,
           ~SyncRaises(old, new)
    PROVE  /\ Synced(entries, pk, old, new) \in Lists
           /\ old = new => Synced(entries, pk, old, new) = entries
           /\ old # new => \A u \in Indexable, k \in Key :
                k \in ToSet(Synced(entries, pk, old, new)[u]) <=>
                    (k \in ToSet(entries[u]) /\ ~(u = old /\ k = pk)) \/ (u = new /\ k = pk)
<1>1. CASE old = new
  BY <1>1 DEF Synced
<1>2. CASE old # new
  <2>1. new \in Indexable \cup {Null}
    BY <1>2 DEF SyncRaises, Val, Indexable
  <2>2. PICK r : r = Removed(entries, old, pk)
    OBVIOUS
  <2>3. r \in Lists
    BY <2>2, RemovedLists
  <2>4. \A u \in Indexable, k \in Key :
            k \in ToSet(r[u]) <=> k \in ToSet(entries[u]) /\ ~(u = old /\ k = pk)
    BY <2>2, RemovedLists
  <2>5. Synced(entries, pk, old, new) = Added(r, new, pk)
    BY <1>2, <2>2 DEF Synced
  <2>6. PICK s : s = Added(r, new, pk)
    OBVIOUS
  <2>7. s \in Lists
    BY <2>1, <2>3, <2>6, AddedLists
  <2>8. \A u \in Indexable, k \in Key :
            k \in ToSet(s[u]) <=> k \in ToSet(r[u]) \/ (u = new /\ k = pk)
    BY <2>1, <2>3, <2>6, AddedLists
  <2>9. \A u \in Indexable, k \in Key :
            k \in ToSet(s[u]) <=>
                (k \in ToSet(entries[u]) /\ ~(u = old /\ k = pk)) \/ (u = new /\ k = pk)
    BY <2>4, <2>8
  <2> QED
    BY <1>2, <2>5, <2>6, <2>7, <2>9
<1> QED
  BY <1>1, <1>2

\* What is left of a leaf is a content of its engine.
LEMMA WipedKept ==
    ASSUME NEW n \in Name, NEW content \in Kept(n) \ {NoFile}, NEW rest \in Wiped(n, content)
    PROVE  rest \in Kept(n) \ {NoFile}
<1> DEFINE there == {k \in DOMAIN content : content[k] # Blank(n)}
           left(last) == [k \in DOMAIN content |-> IF k <= last THEN Blank(n) ELSE content[k]]
<1>1. rest = content \/ \E last \in there : rest = left(last)
  BY DEF Wiped
<1>2. CASE n \in Table
  <2>1. content \in Content /\ Blank(n) = NoRow
    BY <1>2 DEF Kept, Blank
  <2>2. \A last : left(last) \in Content
    BY <2>1 DEF Content
  <2> QED
    BY <1>1, <1>2, <2>1, <2>2, FileAssumption DEF Kept
<1>3. CASE n \notin Table
  <2>1. content \in Lists /\ Blank(n) = <<>>
    BY <1>3 DEF Kept, Blank
  <2>2. content \in [Indexable -> Seq(Key)] /\ \A v \in Indexable : IsInjective(content[v])
    BY <2>1, ListsAre
  <2>3. <<>> \in Seq(Key) /\ IsInjective(<<>>)
    BY DEF IsInjective
  <2>4. ASSUME NEW last
        PROVE  left(last) \in Lists
    <3>1. PICK l : l = left(last)
      OBVIOUS
    <3>2. l \in [Indexable -> Seq(Key)]
      BY <2>1, <2>2, <2>3, <3>1
    <3>3. \A v \in Indexable : l[v] \in {<<>>, content[v]}
      BY <2>1, <2>2, <3>1
    <3>4. \A v \in Indexable : IsInjective(l[v])
      BY <2>2, <2>3, <3>3
    <3> QED
      BY <3>1, <3>2, <3>4, ListsAre
  <2>5. \A l \in Lists : l # NoFile
    BY FileAssumption DEF Lists
  <2> QED
    BY <1>1, <1>3, <2>1, <2>4, <2>5 DEF Kept
<1> QED
  BY <1>2, <1>3

\* A new engine is empty.
LEMMA EmptyKept == \A n \in Name : Empty(n) \in Kept(n) /\ Empty(n) # NoFile
<1>1. NoRows \in Content /\ NoRows # NoFile
  BY FileAssumption DEF NoRows, Content
<1>2. NoEntries \in [Indexable -> Seq(Key)] /\ \A v \in Indexable : IsInjective(NoEntries[v])
  BY DEF NoEntries, Indexable, IsInjective
<1>3. NoEntries \in Lists
  BY <1>2, ListsAre
<1>4. NoEntries # NoFile
  BY <1>3, FileAssumption DEF Lists
<1> QED
  BY <1>1, <1>3, <1>4 DEF Empty, Kept

-----------------------------------------------------------------------------
(* The access paths, for any condition. *)

RowOf(t, k) == [pk |-> k, ref |-> store[t][k]]

\* The rows of a table.
There(t) == {RowOf(t, k) : k \in {x \in Key : store[t][x] # NoRow}}

\* A scan lists every key once.
LEMMA AllKeysListed ==
    /\ Key \in SUBSET Int /\ IsFiniteSet(Key)
    /\ AllKeys \in Seq(Key) /\ ToSet(AllKeys) = Key /\ IsInjective(AllKeys)
<1>1. Key \in SUBSET Int /\ Key \in SUBSET Pk
  BY ColumnAssumption DEF Key
<1>2. IsFiniteSet(Key)
  BY <1>1, ColumnAssumption, FS_Subset
<1> QED
  BY <1>1, <1>2, AscendingLists DEF AllKeys

\* A row of a table has a key and a value.
LEMMA RowOfType ==
    ASSUME NEW t, store[t] \in Content, NEW k \in Key, store[t][k] # NoRow
    PROVE  /\ RowOf(t, k) \in Row /\ RowOf(t, k).pk = k /\ RowOf(t, k).ref = store[t][k]
           /\ store[t][k] \in Val
<1>1. store[t][k] \in Val
  BY DEF Content
<1> QED
  BY <1>1 DEF RowOf, Row

\* The engine of a table has its files.
LEMMA StoredKept ==
    ASSUME Typed, NEW n \in Name
    PROVE  /\ store[n] \in Kept(n)
           /\ n \in Table /\ store[n] # NoFile => store[n] \in Content
           /\ n \in Index /\ store[n] # NoFile => store[n] \in Lists
<1>1. store[n] \in past[n] /\ past[n] \subseteq Kept(n)
  BY DEF Typed, StoreTyped
<1>2. n \in Index => n \notin Table
  BY NameAssumption
<1> QED
  BY <1>1, <1>2 DEF Kept

\* The rows of a list of keys.
LEMMA RowsOf ==
    ASSUME NEW t, store[t] \in Content, NEW keys \in Seq(Key)
    PROVE  /\ Rows(t, keys) \in Seq(Row)
           /\ ToSet(Rows(t, keys)) = {row \in There(t) : row.pk \in ToSet(keys)}
           /\ IsInjective(keys) => IsInjective(Rows(t, keys))
<1> DEFINE S == {k \in Key : store[t][k] # NoRow}
<1>1. PICK there : there = Only(keys, S)
  OBVIOUS
<1>2. /\ there \in Seq(Key) /\ ToSet(there) = ToSet(keys) \cap S
      /\ IsInjective(keys) => IsInjective(there)
  BY <1>1, OnlyOf
<1>3. Len(there) \in Nat /\ DOMAIN there = 1..Len(there)
  BY <1>2
<1>4. PICK rows : rows = Rows(t, keys)
  OBVIOUS
<1>5. rows = [n \in 1..Len(there) |-> RowOf(t, there[n])]
  BY <1>1, <1>3, <1>4 DEF Rows, RowOf
<1>6. \A n \in 1..Len(there) : there[n] \in S /\ there[n] \in ToSet(keys)
  BY <1>2, <1>3 DEF ToSet
<1>7. \A k \in S : RowOf(t, k) \in Row /\ RowOf(t, k).pk = k /\ RowOf(t, k) \in There(t)
  BY RowOfType DEF There
<1>8. rows \in Seq(Row)
  BY <1>3, <1>5, <1>6, <1>7
<1>9. ToSet(rows) = {row \in There(t) : row.pk \in ToSet(keys)}
  <2>1. ASSUME NEW row \in ToSet(rows)
        PROVE  row \in There(t) /\ row.pk \in ToSet(keys)
    <3>1. PICK n \in 1..Len(there) : row = RowOf(t, there[n])
      BY <1>5 DEF ToSet
    <3> QED
      BY <3>1, <1>6, <1>7
  <2>2. ASSUME NEW row \in There(t), row.pk \in ToSet(keys)
        PROVE  row \in ToSet(rows)
    <3>1. PICK k \in S : row = RowOf(t, k)
      BY DEF There
    <3>2. k \in ToSet(there)
      BY <1>2, <1>7, <2>2, <3>1
    <3>3. PICK n \in 1..Len(there) : there[n] = k
      BY <1>3, <3>2 DEF ToSet
    <3> QED
      BY <1>5, <3>1, <3>3 DEF ToSet
  <2> QED
    BY <2>1, <2>2
<1>10. ASSUME IsInjective(keys), NEW m \in 1..Len(there), NEW n \in 1..Len(there), rows[m] = rows[n]
       PROVE  m = n
  <2>1. there[m] = there[n]
    BY <1>5, <1>6, <1>7, <1>10
  <2> QED
    BY <1>2, <1>3, <1>10, <2>1 DEF IsInjective
<1>11. DOMAIN rows = 1..Len(there)
  BY <1>5
<1> QED
  BY <1>4, <1>8, <1>9, <1>10, <1>11 DEF IsInjective

\* All the rows of a table, each once.
LEMMA AllRows ==
    ASSUME NEW t, store[t] \in Content
    PROVE  /\ Rows(t, AllKeys) \in Seq(Row) /\ IsInjective(Rows(t, AllKeys))
           /\ ToSet(Rows(t, AllKeys)) = There(t) /\ There(t) \subseteq Row
<1>1. \A row \in There(t) : row.pk \in Key /\ row \in Row
  BY RowOfType DEF There
<1>2. /\ Rows(t, AllKeys) \in Seq(Row) /\ IsInjective(Rows(t, AllKeys))
      /\ ToSet(Rows(t, AllKeys)) = {row \in There(t) : row.pk \in ToSet(AllKeys)}
  BY AllKeysListed, RowsOf
<1> QED
  BY <1>1, <1>2, AllKeysListed

\* A scan finds the rows that match, each once.
LEMMA ScanFinds ==
    ASSUME NEW t, store[t] \in Content, NEW where
    PROVE  /\ FullScan(t, where) \in Seq(Row) /\ IsInjective(FullScan(t, where))
           /\ ToSet(FullScan(t, where)) = {row \in There(t) : Matches(where, row)}
<1>1. PICK rows : rows = Rows(t, AllKeys)
  OBVIOUS
<1>2. rows \in Seq(Row) /\ IsInjective(rows) /\ ToSet(rows) = There(t)
  BY <1>1, AllRows
<1>3. PICK S : S = {row \in ToSet(rows) : Matches(where, row)}
  OBVIOUS
<1>4. FullScan(t, where) = Only(rows, S)
  BY <1>1, <1>3 DEF FullScan
<1>5. /\ Only(rows, S) \in Seq(Row) /\ ToSet(Only(rows, S)) = ToSet(rows) \cap S
      /\ IsInjective(Only(rows, S))
  BY <1>2, OnlyOf
<1> QED
  BY <1>2, <1>3, <1>4, <1>5

\* A lookup gives the keys in the list of the value, each once.
LEMMA LookupFinds ==
    ASSUME Typed, NEW i \in Index, i \in open => store[i] # NoFile, NEW v
    PROVE  /\ LookedUp(i, v) \in Seq(Key) /\ IsInjective(LookedUp(i, v))
           /\ i \in open /\ v \in Indexable => LookedUp(i, v) = store[i][v]
           /\ i \in open /\ v \notin Indexable => LookedUp(i, v) = <<>>
<1>1. i \in Name
  BY DEF Name
<1>2. <<>> \in Seq(Key) /\ IsInjective(<<>>)
  BY DEF IsInjective
<1>3. CASE i \notin open
  BY <1>2, <1>3 DEF LookedUp
<1>4. CASE i \in open
  <2>1. store[i] \in Lists
    BY <1>1, <1>4, StoredKept
  <2>2. store[i] \in [Indexable -> Seq(Key)] /\ \A u \in Indexable : IsInjective(store[i][u])
    BY <2>1, ListsAre
  <2>3. LookedUp(i, v) = IF v \in Indexable THEN store[i][v] ELSE <<>>
    BY <1>4, <2>2 DEF LookedUp, Lookup
  <2> QED
    BY <1>2, <2>2, <2>3
<1> QED
  BY <1>3, <1>4

\* A range lookup gives the keys in the lists of the values in the range; each
\* once, if no key is in two of them.
LEMMA RangeFinds ==
    ASSUME NEW entries \in Lists, NEW low, NEW high
    PROVE  /\ RangeLookup(entries, low, high) \in Seq(Key)
           /\ \A k : k \in ToSet(RangeLookup(entries, low, high)) <=>
                \E v \in Indexable : low <= v /\ v <= high /\ k \in ToSet(entries[v])
           /\ (\A u, v \in Indexable : low <= u /\ u <= high /\ low <= v /\ v <= high /\ u # v =>
                    ToSet(entries[u]) \cap ToSet(entries[v]) = {})
                => IsInjective(RangeLookup(entries, low, high))
<1> DEFINE within == {v \in DOMAIN entries : low <= v /\ v <= high}
<1>1. entries \in [Indexable -> Seq(Key)] /\ \A v \in Indexable : IsInjective(entries[v])
  BY ListsAre
<1>2. Indexable \in SUBSET Int /\ IsFiniteSet(Indexable)
  <2>1. Indexable \in SUBSET Ref
    BY DEF Indexable
  <2> QED
    BY <2>1, ColumnAssumption, FS_Subset
<1>3. within \in SUBSET Indexable
  BY <1>1
<1>4. within \in SUBSET Int /\ IsFiniteSet(within)
  BY <1>2, <1>3, FS_Subset
<1>5. PICK in : in = Ascending(within)
  OBVIOUS
<1>6. in \in Seq(within) /\ ToSet(in) = within /\ IsInjective(in)
  BY <1>4, <1>5, AscendingLists
<1>7. Len(in) \in Nat /\ DOMAIN in = 1..Len(in) /\ \A n \in 1..Len(in) : in[n] \in within
  BY <1>6
<1>8. PICK ss : ss = [n \in 1..Len(in) |-> entries[in[n]]]
  OBVIOUS
<1>9. RangeLookup(entries, low, high) = FlattenSeq(ss)
  BY <1>5, <1>7, <1>8 DEF RangeLookup
<1>10. ss \in Seq(Seq(Key)) /\ DOMAIN ss = 1..Len(in)
  <2>1. \A n \in 1..Len(in) : entries[in[n]] \in Seq(Key)
    BY <1>1, <1>3, <1>7
  <2>2. DEFINE L == Seq(Key)
  <2> HIDE DEF L
  <2>3. \A n \in 1..Len(in) : entries[in[n]] \in L
    BY <2>1 DEF L
  <2>4. ss \in Seq(L) /\ DOMAIN ss = 1..Len(in)
    BY <1>7, <1>8, <2>3
  <2> QED
    BY <2>4 DEF L
<1>11. PICK f : f = FlattenSeq(ss)
  OBVIOUS
<1>12. f \in Seq(Key) /\ ToSet(f) = ElementsOf(ss) /\ (Apart(ss) => IsInjective(f))
  BY <1>10, <1>11, Flattened
<1>13. ASSUME NEW k
       PROVE  k \in ElementsOf(ss) <=> \E v \in within : k \in ToSet(entries[v])
  <2>1. k \in ElementsOf(ss) <=> \E n \in 1..Len(in) : k \in ToSet(entries[in[n]])
    BY <1>8, <1>10 DEF ElementsOf
  <2>2. \A v \in within : \E n \in 1..Len(in) : in[n] = v
    BY <1>6, <1>7 DEF ToSet
  <2> QED
    BY <1>7, <2>1, <2>2
<1>14. ASSUME \A u, v \in within : u # v => ToSet(entries[u]) \cap ToSet(entries[v]) = {}
       PROVE  Apart(ss)
  <2>1. \A n \in 1..Len(in) : IsInjective(ss[n]) /\ ss[n] = entries[in[n]]
    BY <1>1, <1>3, <1>7, <1>8
  <2>2. \A m, n \in 1..Len(in) : m # n => in[m] # in[n]
    BY <1>6, <1>7 DEF IsInjective
  <2>3. \A m, n \in 1..Len(in) : m # n => ToSet(ss[m]) \cap ToSet(ss[n]) = {}
    BY <1>7, <1>14, <2>1, <2>2
  <2> QED
    BY <1>10, <2>1, <2>3 DEF Apart
<1>15. \A v : v \in within <=> v \in Indexable /\ low <= v /\ v <= high
  BY <1>1
<1> HIDE DEF within
<1>16. \A k : k \in ToSet(f) <=> \E v \in Indexable : low <= v /\ v <= high /\ k \in ToSet(entries[v])
  BY <1>12, <1>13, <1>15
<1>17. (\A u, v \in Indexable : low <= u /\ u <= high /\ low <= v /\ v <= high /\ u # v =>
            ToSet(entries[u]) \cap ToSet(entries[v]) = {}) => IsInjective(f)
  BY <1>12, <1>14, <1>15
<1> QED
  BY <1>9, <1>11, <1>12, <1>16, <1>17

\* Sorting keeps the rows.
LEMMA ByKeyKeeps ==
    ASSUME NEW rows \in Seq(Row)
    PROVE  /\ ByKey(rows) \in Seq(Row) /\ ToSet(ByKey(rows)) = ToSet(rows)
           /\ IsInjective(rows) => IsInjective(ByKey(rows))
<1> DEFINE named == {row.pk : row \in ToSet(rows)}
           among(k) == {row \in ToSet(rows) : row.pk = k}
<1>1. \A row \in ToSet(rows) : row \in Row /\ row.pk \in Key
  <2>1. \A row \in ToSet(rows) : row \in Row
    BY DEF ToSet
  <2> QED
    BY <2>1 DEF Row
<1>2. named \in SUBSET Key
  BY <1>1
<1>3. named \in SUBSET Int /\ IsFiniteSet(named)
  BY <1>2, AllKeysListed, FS_Subset
<1>4. PICK keys : keys = Ascending(named)
  OBVIOUS
<1>5. keys \in Seq(named) /\ ToSet(keys) = named /\ IsInjective(keys)
  BY <1>3, <1>4, AscendingLists
<1>6. Len(keys) \in Nat /\ DOMAIN keys = 1..Len(keys)
  BY <1>5
<1>7. PICK ss : ss = [n \in 1..Len(keys) |-> Only(rows, among(keys[n]))]
  OBVIOUS
<1>8. ByKey(rows) = FlattenSeq(ss)
  BY <1>4, <1>6, <1>7 DEF ByKey
<1>9. ASSUME NEW n \in 1..Len(keys)
      PROVE  /\ ss[n] \in Seq(Row) /\ ToSet(ss[n]) = among(keys[n])
             /\ IsInjective(rows) => IsInjective(ss[n])
  <2>1. PICK S : S = among(keys[n])
    OBVIOUS
  <2>2. /\ Only(rows, S) \in Seq(Row) /\ ToSet(Only(rows, S)) = ToSet(rows) \cap S
        /\ IsInjective(rows) => IsInjective(Only(rows, S))
    BY OnlyOf
  <2>3. ToSet(rows) \cap S = S
    BY <2>1
  <2> QED
    BY <1>7, <2>1, <2>2, <2>3
<1>10. ss \in Seq(Seq(Row)) /\ DOMAIN ss = 1..Len(keys)
  <2>1. DEFINE L == Seq(Row)
  <2> HIDE DEF L
  <2>2. \A n \in 1..Len(keys) : ss[n] \in L
    BY <1>9 DEF L
  <2>3. ss \in Seq(L) /\ DOMAIN ss = 1..Len(keys)
    BY <1>6, <1>7, <2>2
  <2> QED
    BY <2>3 DEF L
<1>11. PICK f : f = FlattenSeq(ss)
  OBVIOUS
<1>12. f \in Seq(Row) /\ ToSet(f) = ElementsOf(ss) /\ (Apart(ss) => IsInjective(f))
  BY <1>10, <1>11, Flattened
<1>13. ElementsOf(ss) = ToSet(rows)
  <2>1. \A x \in ElementsOf(ss) : x \in ToSet(rows)
    BY <1>9, <1>10 DEF ElementsOf
  <2>2. ASSUME NEW x \in ToSet(rows)
        PROVE  x \in ElementsOf(ss)
    <3>1. x.pk \in ToSet(keys)
      BY <1>5
    <3>2. PICK n \in 1..Len(keys) : keys[n] = x.pk
      BY <1>6, <3>1 DEF ToSet
    <3>3. x \in ToSet(ss[n])
      BY <1>9, <3>2
    <3> QED
      BY <1>10, <3>3 DEF ElementsOf
  <2> QED
    BY <2>1, <2>2
<1>14. ASSUME IsInjective(rows)
       PROVE  Apart(ss)
  <2>1. \A m, n \in 1..Len(keys) : m # n => keys[m] # keys[n]
    BY <1>5, <1>6 DEF IsInjective
  <2>2. \A m, n \in 1..Len(keys) : m # n => ToSet(ss[m]) \cap ToSet(ss[n]) = {}
    BY <1>9, <2>1, ZenonT(30)
  <2> QED
    BY <1>9, <1>10, <1>14, <2>2 DEF Apart
<1> QED
  BY <1>8, <1>11, <1>12, <1>13, <1>14

\* The first index of a table, if it has one.
LEMMA FirstIndex ==
    ASSUME Typed, NEW t, IndexesFor(catalog, t) # <<>>
    PROVE  /\ Head(IndexesFor(catalog, t)) \in ToSet(catalog.indexes)
           /\ Head(IndexesFor(catalog, t)).table = t
           /\ Head(IndexesFor(catalog, t)).index \in Index
<1>1. PICK s : s = IndexesFor(catalog, t)
  OBVIOUS
<1>2. s \in Seq(Entry) /\ ToSet(s) = {e \in ToSet(catalog.indexes) : e.table = t}
  BY <1>1, IndexesForTable DEF Typed
<1>3. s # <<>>
  BY <1>1
<1>4. Head(s) = s[1] /\ 1 \in DOMAIN s
  BY <1>2, <1>3
<1>5. Head(s) \in ToSet(s) /\ Head(s) \in Entry
  BY <1>2, <1>4 DEF ToSet
<1> QED
  BY <1>1, <1>2, <1>5 DEF Entry

\* Every access path gives rows of the table.
LEMMA FetchedRows ==
    ASSUME Typed, SchemaKept, NEW t \in Table \cap open, up = "up", NEW where
    PROVE  FetchRows(t, where) \in Seq(Row) /\ ToSet(FetchRows(t, where)) \subseteq There(t)
<1>1. t \in Name
  BY DEF Name
<1>2. store[t] \in Content
  BY <1>1, StoredKept DEF SchemaKept
<1>3. ASSUME NEW keys \in Seq(Key)
      PROVE  Rows(t, keys) \in Seq(Row) /\ ToSet(Rows(t, keys)) \subseteq There(t)
  BY <1>2, RowsOf
<1>4. PICK indexes : indexes = IndexesFor(catalog, t)
  OBVIOUS
<1>5. \A i \in Index : i \in open => store[i] # NoFile
  BY DEF SchemaKept
<1>6. \A i \in Index : LookedUp(i, where.low) \in Seq(Key)
  BY <1>5, LookupFinds
<1>7. ASSUME NEW i \in Index
      PROVE  LookedUpRange(i, where.low, where.high) \in Seq(Key)
  <2>1. CASE i \in open
    <3>1. store[i] \in Lists
      BY <1>5, <2>1, StoredKept DEF Name
    <3> QED
      BY <2>1, <3>1, RangeFinds DEF LookedUpRange
  <2>2. CASE i \notin open
    BY <2>2 DEF LookedUpRange
  <2> QED
    BY <2>1, <2>2
<1>8. indexes # <<>> => Head(indexes).index \in Index
  BY <1>4, FirstIndex
<1>9. CASE where.op = "=" /\ where.col = "pk"
  <2>1. PICK keys : keys = IF where.low \in Key THEN <<where.low>> ELSE <<>>
    OBVIOUS
  <2>2. keys \in Seq(Key)
    BY <2>1
  <2>3. FetchRows(t, where) = Rows(t, keys)
    BY <1>9, <2>1 DEF FetchRows
  <2> QED
    BY <1>3, <2>2, <2>3
<1>10. CASE where.op = "between" /\ where.col = "pk"
  <2>1. PICK keys : keys = Only(AllKeys, {k \in Key : where.low <= k /\ k <= where.high})
    OBVIOUS
  <2>2. keys \in Seq(Key)
    BY <2>1, AllKeysListed, OnlyOf
  <2>3. FetchRows(t, where) = Rows(t, keys)
    BY <1>10, <2>1 DEF FetchRows
  <2> QED
    BY <1>3, <2>2, <2>3
<1>11. CASE where.op = "=" /\ where.col # "pk" /\ indexes # <<>>
  <2>1. FetchRows(t, where) = Rows(t, LookedUp(Head(indexes).index, where.low))
    BY <1>4, <1>11 DEF FetchRows
  <2> QED
    BY <1>3, <1>6, <1>8, <1>11, <2>1
<1>12. CASE where.op = "between" /\ where.col # "pk" /\ indexes # <<>>
  <2>1. PICK rows : rows = Rows(t, LookedUpRange(Head(indexes).index, where.low, where.high))
    OBVIOUS
  <2>2. rows \in Seq(Row) /\ ToSet(rows) \subseteq There(t)
    BY <1>3, <1>7, <1>8, <1>12, <2>1
  <2>3. FetchRows(t, where) = ByKey(rows)
    BY <1>4, <1>12, <2>1 DEF FetchRows
  <2> QED
    BY <2>2, <2>3, ByKeyKeeps
<1>13. CASE where.op \notin {"=", "between"} \/ (where.col # "pk" /\ indexes = <<>>)
  <2>1. FetchRows(t, where) = FullScan(t, where)
    BY <1>4, <1>13 DEF FetchRows
  <2> QED
    BY <1>2, <2>1, ScanFinds
<1> QED
  BY <1>9, <1>10, <1>11, <1>12, <1>13

-----------------------------------------------------------------------------
(* The statement that runs. *)

\* What the record of a statement has.
LEMMA RunHas ==
    ASSUME run \in Runs
    PROVE  /\ run.op \in {"open", "open to fill", "remove"} => run.name \in Name
           /\ run.op = "fill" => run.index \in Index /\ run.todo \in Seq(Key)
           /\ run.op = "fill" => run = [op |-> "fill", index |-> run.index, todo |-> run.todo]
           /\ run.op \in Writes => run \in WriteRuns
           /\ run.op = "idle" => run = Idle
BY DEF Runs, WriteRuns, Writes, Idle

\* What the record of a write has.
LEMMA WriteHas ==
    ASSUME NEW r \in WriteRuns
    PROVE  /\ r.op \in Writes /\ r.table \in Table /\ r.value \in Val /\ r.todo \in Seq(Row)
           /\ r.sync \in Seq(Entry) /\ r.pk \in Key \cup {Null} /\ r.old \in Val /\ r.new \in Val
BY DEF WriteRuns

\* The records of the other statements.
LEMMA RunKinds ==
    /\ Idle \in Runs
    /\ \A n \in Name, op \in {"open", "open to fill", "remove"} : [op |-> op, name |-> n] \in Runs
    /\ \A i \in Index, s \in Seq(Key) : [op |-> "fill", index |-> i, todo |-> s] \in Runs
    /\ WriteRuns \subseteq Runs
BY DEF Runs, Idle

\* No statement runs, or the one that runs has told the indexes of every row
\* that it has changed.
LEMMA NothingToTell ==
    ASSUME run = Idle \/ (run.op \in Writes /\ run.sync = <<>>) \/ run.op \in {"open", "open to fill", "remove"}
    PROVE  ~Refuses /\ \A i : EntriesAfter(i) = store[i] /\ Unfilled(i) = {}
<1>1. run = Idle => run.op = "idle"
  BY DEF Idle
<1>2. run.op # "fill" /\ (run.op \in Writes => run.sync = <<>>)
  BY <1>1 DEF Writes
<1>3. ToSet(<<>>) = {}
  BY NoElements
<1>4. \A i : ~Telling(i)
  BY <1>2, <1>3 DEF Telling
<1> QED
  BY <1>2, <1>4 DEF Refuses, EntriesAfter, Unfilled

\* The same after a step.
LEMMA NothingToTellNext ==
    ASSUME run' = Idle \/ (run'.op \in Writes /\ run'.sync = <<>>) \/ run'.op \in {"open", "open to fill", "remove"}
    PROVE  ~Refuses' /\ \A i : EntriesAfter(i)' = store'[i] /\ Unfilled(i)' = {}
<1>1. run' = Idle => run'.op = "idle"
  BY DEF Idle
<1>2. run'.op # "fill" /\ (run'.op \in Writes => run'.sync = <<>>)
  BY <1>1 DEF Writes
<1>3. ToSet(<<>>) = {}
  BY NoElements
<1>4. \A i : ~Telling(i)'
  BY <1>2, <1>3 DEF Telling
<1> QED
  BY <1>2, <1>4 DEF Refuses, EntriesAfter, Unfilled

\* After a row, the statement goes on with its indexes and the other rows, or
\* ends.
LEMMA ThenIs ==
    ASSUME NEW r \in WriteRuns
    PROVE  /\ Then(r) \in Runs
           /\ Then(r) = r \/ (Then(r) = Idle /\ r.sync = <<>> /\ r.todo = <<>>)
<1>1. Then(r) = r \/ (Then(r) = Idle /\ r.sync = <<>> /\ r.todo = <<>>)
  BY DEF Then, AtEnd
<1> QED
  BY <1>1, RunKinds

\* What is still to be told to the indexes after a step of a write.
LEMMA TellingNext ==
    ASSUME NEW r \in WriteRuns, run' = Then(r)
    PROVE  /\ \A i : Unfilled(i)' = {}
           /\ Refuses' <=> r.sync # <<>> /\ SyncRaises(r.old, r.new)
           /\ \A i : EntriesAfter(i)' = IF \E e \in ToSet(r.sync) : e.index = i
                                        THEN Synced(store'[i], r.pk, r.old, r.new) ELSE store'[i]
<1>1. r.op \in Writes
  BY WriteHas
<1>2. CASE run' = r
  BY <1>1, <1>2 DEF Unfilled, Refuses, EntriesAfter, Telling, Writes
<1>3. CASE run' = Idle /\ r.sync = <<>>
  <2>1. ToSet(r.sync) = {}
    BY <1>3 DEF ToSet
  <2>2. ~Refuses' /\ \A i : EntriesAfter(i)' = store'[i] /\ Unfilled(i)' = {}
    BY <1>3, NothingToTellNext
  <2> QED
    BY <1>3, <2>1, <2>2
<1> QED
  BY <1>2, <1>3, ThenIs

-----------------------------------------------------------------------------
(* The engines. *)

\* An engine that is given a content has it.
LEMMA HoldsStored ==
    ASSUME StoreTyped, NEW n \in Name, NEW content \in Kept(n), Holds(n, content)
    PROVE  /\ StoreTyped' /\ store'[n] = content
           /\ \A m \in Name \ {n} : store'[m] = store[m]
<1>1. PICK s : s = store'
  OBVIOUS
<1>2. PICK p : p = past'
  OBVIOUS
<1>3. s = [store EXCEPT ![n] = content] /\ p = [past EXCEPT ![n] = past[n] \cup {content}]
  BY <1>1, <1>2 DEF Holds
<1>4. /\ s = [m \in Name |-> IF m = n THEN content ELSE store[m]]
      /\ p = [m \in Name |-> IF m = n THEN past[n] \cup {content} ELSE past[m]]
  BY <1>3 DEF StoreTyped
<1>5. \A m \in Name : s[m] \in p[m] /\ p[m] \subseteq Kept(m)
  BY <1>4 DEF StoreTyped
<1>6. s = [m \in Name |-> s[m]] /\ p = [m \in Name |-> p[m]]
  BY <1>4
<1> QED
  BY <1>1, <1>2, <1>4, <1>5, <1>6 DEF StoreTyped, Kept

\* An engine that is synced, opened or removed.
LEMMA ReplacedStored ==
    ASSUME StoreTyped, NEW n \in Name, NEW content \in Kept(n), NEW contents \in SUBSET Kept(n),
           content \in contents,
           store' = [store EXCEPT ![n] = content], past' = [past EXCEPT ![n] = contents]
    PROVE  /\ StoreTyped' /\ store'[n] = content
           /\ \A m \in Name \ {n} : store'[m] = store[m]
<1>1. PICK s : s = store'
  OBVIOUS
<1>2. PICK p : p = past'
  OBVIOUS
<1>4. /\ s = [m \in Name |-> IF m = n THEN content ELSE store[m]]
      /\ p = [m \in Name |-> IF m = n THEN contents ELSE past[m]]
  BY <1>1, <1>2 DEF StoreTyped
<1>5. \A m \in Name : s[m] \in p[m] /\ p[m] \subseteq Kept(m)
  BY <1>4 DEF StoreTyped
<1>6. s = [m \in Name |-> s[m]] /\ p = [m \in Name |-> p[m]]
  BY <1>4
<1> QED
  BY <1>1, <1>2, <1>4, <1>5, <1>6 DEF StoreTyped, Kept

\* Nothing of the engines changes.
LEMMA DataStored ==
    ASSUME StoreTyped, UNCHANGED data
    PROVE  StoreTyped'
BY DEF StoreTyped, data, Kept

\* The indexes of a table as entries of the catalog.
LEMMA EntryNames ==
    ASSUME Typed, NEW e \in ToSet(catalog.indexes)
    PROVE  e.index \in Index /\ e.index \in Name /\ e.table \in Table /\ e.table \in Name
           /\ e.index \notin Table /\ e.table \notin Index /\ e.index \in Registered(catalog)
<1>1. e \in Entry /\ e.index \in Registered(catalog)
  BY OneEntry DEF Typed
<1>2. e.index \in Index /\ e.table \in Table
  BY <1>1 DEF Entry
<1> QED
  BY <1>1, <1>2, NameAssumption DEF Name

-----------------------------------------------------------------------------
(* What a step leaves as it was. *)

\* The schema is a catalog, whether it is in memory or in the file.
LEMMA SchemaIs ==
    ASSUME Typed
    PROVE  IsRegistry(Schema)
BY EmptyIsRegistry DEF Typed, Schema

\* Indexes that a step does not touch, nor their tables, stay what they were.
LEMMA IndexesStay ==
    ASSUME IndexesKept, overwritten \subseteq overwritten', ~Refuses,
           \A i : EntriesAfter(i) = store[i] /\ Unfilled(i) = {},
           \A i : EntriesAfter(i)' = store'[i] /\ Unfilled(i)' = {},
           \A e \in ToSet(Schema'.indexes) : store'[e.index] # NoFile =>
               /\ e \in ToSet(Schema.indexes)
               /\ store'[e.index] = store[e.index] /\ store'[e.table] = store[e.table]
    PROVE  IndexesKept'
<1> SUFFICES ASSUME NEW e \in ToSet(Schema'.indexes), store'[e.index] # NoFile
             PROVE  Covers(e.index, e.table)' /\ Matched(e.index, e.table)'
  BY DEF IndexesKept
<1>1. /\ e \in ToSet(Schema.indexes) /\ store[e.index] # NoFile
      /\ store'[e.index] = store[e.index] /\ store'[e.table] = store[e.table]
  OBVIOUS
<1>2. Covers(e.index, e.table) /\ Matched(e.index, e.table)
  BY <1>1 DEF IndexesKept
<1>3. Covers(e.index, e.table)'
  BY <1>1, <1>2 DEF Covers
<1>4. Matched(e.index, e.table)'
  BY <1>1, <1>2 DEF Matched
<1> QED
  BY <1>3, <1>4

\* References stay good while the rows of the tables stay.
LEMMA ReferencesStay ==
    ASSUME Typed, ReferencesKept, checked' \subseteq checked,
           \A t \in Table : store[t] # NoFile => store'[t] = store[t],
           \A fk \in Schema'.fkeys :
              fk \in Schema.fkeys \/ \A k \in Key : <<fk[1], k>> \notin checked
    PROVE  ReferencesKept'
<1>1. checked \subseteq Table \X Key /\ Schema.fkeys \subseteq Table \X Table
  BY SchemaIs DEF Typed, IsRegistry, Registry
<1>2. ASSUME NEW row \in checked'
      PROVE  store'[row[1]] # NoFile /\ store'[row[1]][row[2]] # NoRow
  <2>1. row \in checked /\ row[1] \in Table
    BY <1>1
  <2> QED
    BY <2>1 DEF ReferencesKept
<1>3. ASSUME NEW fk \in Schema'.fkeys, NEW k \in Key,
             <<fk[1], k>> \in checked', store'[fk[1]][k] # Null
      PROVE  /\ store'[fk[2]] # NoFile /\ store'[fk[1]][k] \in Key
             /\ store'[fk[2]][store'[fk[1]][k]] # NoRow
  <2>1. fk \in Schema.fkeys /\ <<fk[1], k>> \in checked
    BY <1>3
  <2>2. fk[1] \in Table /\ fk[2] \in Table
    BY <1>1, <2>1
  <2>3. store[fk[1]] # NoFile
    BY <2>1 DEF ReferencesKept
  <2>4. store'[fk[1]] = store[fk[1]]
    BY <2>2, <2>3
  <2>5. /\ store[fk[2]] # NoFile /\ store[fk[1]][k] \in Key
        /\ store[fk[2]][store[fk[1]][k]] # NoRow
    BY <1>3, <2>1, <2>4 DEF ReferencesKept
  <2> QED
    BY <2>2, <2>4, <2>5
<1> QED
  BY <1>2, <1>3 DEF ReferencesKept

\* Nothing that a statement is about changes.
LEMMA FilesStay ==
    ASSUME FilesKept, up = "up", up' = "up", UNCHANGED <<store, open>>
    PROVE  FilesKept'
BY DEF FilesKept

\* A row that INSERT has checked is in a table that the file knows.
LEMMA CheckedSaved ==
    ASSUME Typed, SchemaKept, FilesKept, ReferencesKept, up = "up", NEW row \in checked
    PROVE  row[1] \in open \cap Table /\ row[1] \in catalog.tables
<1>1. row[1] \in Table /\ row[1] \in Name /\ store[row[1]] # NoFile
  BY DEF Typed, ReferencesKept, Name
<1>2. row[1] \in open
  BY <1>1 DEF FilesKept
<1> QED
  BY <1>1, <1>2 DEF SchemaKept

-----------------------------------------------------------------------------
(* CREATE TABLE, CREATE INDEX, DROP INDEX *)

\* CREATE TABLE, also when its foreign key is refused.
LEMMA CreateTableKeeps ==
    ASSUME DatabaseInv, NEW t \in Table, NEW parent \in Table \cup {NoTable}, CreateTable(t, parent)
    PROVE  DatabaseInv'
<1>1. /\ Typed /\ RunFits /\ SchemaKept /\ up = "up" /\ run = Idle /\ up' = "up"
      /\ t \notin catalog.tables /\ catalog' = WithTable(catalog, t, parent)
      /\ UNCHANGED <<open, store, past, intact, overwritten, checked>>
  BY DEF DatabaseInv, CreateTable, Starts, data, history
<1>2. /\ IsRegistry(catalog') /\ catalog'.indexes = catalog.indexes
      /\ catalog'.tables = catalog.tables \cup {t}
      /\ catalog.fkeys \subseteq catalog'.fkeys /\ catalog'.fkeys \subseteq catalog.fkeys \cup {<<t, parent>>}
      /\ ~ParentKnown(catalog, t, parent) => catalog'.fkeys = catalog.fkeys
  BY <1>1, WithTableIs DEF Typed
<1>3. run.op = "idle"
  BY <1>1 DEF Idle
<1>4. \/ saved' = catalog' /\ savedPast' = savedPast \cup {catalog'} /\ run' = [op |-> "open", name |-> t]
      \/ UNCHANGED <<saved, savedPast, run>> /\ catalog'.fkeys = catalog.fkeys
  BY <1>2 DEF CreateTable, Saves
<1>5. Typed'
  <2>1. StoreTyped'
    BY <1>1, DataStored DEF Typed, data
  <2>2. run' \in Runs
    BY <1>1, <1>4, RunKinds DEF Name
  <2> QED
    BY <1>1, <1>2, <1>4, <2>1, <2>2 DEF Typed
<1>6. RunFits'
  <2>1. CASE run' = [op |-> "open", name |-> t] /\ saved' = catalog'
    <3>1. catalog' \in Registry /\ NoFile \notin Registry
      BY <1>2, FileAssumption DEF IsRegistry
    <3>2. \A e \in ToSet(catalog'.indexes) : e.table # t
      BY <1>1, <1>2 DEF Typed, IsRegistry
    <3> QED
      BY <1>2, <2>1, <3>1, <3>2 DEF RunFits, Writes
  <2>2. CASE run' = run
    <3>1. run'.op = "idle"
      BY <1>1, <2>2 DEF Idle
    <3> QED
      BY <3>1 DEF RunFits, Writes
  <2> QED
    BY <1>4, <2>1, <2>2
<1>7. SchemaKept'
  <2>1. run'.op # "remove" /\ run'.op # "open to fill" /\ run.op # "remove" /\ run.op # "open to fill"
    <3>1. CASE run' = [op |-> "open", name |-> t]
      BY <1>3, <3>1
    <3>2. CASE run' = run
      BY <1>3, <3>2
    <3> QED
      BY <1>4, <3>1, <3>2
  <2>2. \A i \in open \cap Index : i \in Registered(catalog')
    BY <1>1, <1>2, <2>1 DEF SchemaKept, Registered
  <2>3. \A e \in ToSet(catalog'.indexes) : e.index \in open <=> e.table \in open
    BY <1>1, <1>2, <2>1 DEF SchemaKept
  <2>4. catalog' # NoFile
    BY <1>2, FileAssumption DEF IsRegistry
  <2>5. CASE saved' = catalog'
    <3>1. open \cap Table \subseteq catalog.tables
      BY <1>1 DEF SchemaKept
    <3> QED
      BY <1>1, <1>2, <2>2, <2>3, <2>4, <2>5, <3>1 DEF SchemaKept
  <2>6. CASE UNCHANGED saved /\ catalog'.fkeys = catalog.fkeys
    BY <1>1, <1>2, <2>2, <2>3, <2>6 DEF SchemaKept
  <2> QED
    BY <1>4, <2>5, <2>6
<1>8. ASSUME intact'
      PROVE  FilesKept' /\ IndexesKept' /\ ReferencesKept'
  <2>1. FilesKept /\ IndexesKept /\ ReferencesKept
    BY <1>1, <1>8 DEF DatabaseInv
  <2>2. FilesKept'
    BY <1>1, <2>1, FilesStay
  <2>3. Schema = catalog /\ Schema' = catalog'
    BY <1>1 DEF Schema
  <2>4. IndexesKept'
    <3>1. ~Refuses /\ \A i : EntriesAfter(i) = store[i] /\ Unfilled(i) = {}
      BY <1>1, NothingToTell
    <3>2. \A i : EntriesAfter(i)' = store'[i] /\ Unfilled(i)' = {}
      <4>1. run' = Idle \/ run'.op = "open"
        BY <1>1, <1>4
      <4> QED
        BY <4>1, NothingToTellNext
    <3> QED
      BY <1>1, <1>2, <2>1, <2>3, <3>1, <3>2, IndexesStay
  <2>5. ReferencesKept'
    <3>1. \A k \in Key : <<t, k>> \notin checked
      BY <1>1, <2>1, CheckedSaved
    <3> QED
      BY <1>1, <1>2, <2>1, <2>3, <3>1, ReferencesStay
  <2> QED
    BY <2>2, <2>4, <2>5
<1> QED
  BY <1>5, <1>6, <1>7, <1>8 DEF DatabaseInv

\* CREATE INDEX, before its engine is made.
LEMMA CreateIndexKeeps ==
    ASSUME DatabaseInv, NEW i \in Index, NEW t \in Table, CreateIndex(i, t)
    PROVE  DatabaseInv'
<1> DEFINE e0 == [index |-> i, table |-> t]
<1>1. /\ Typed /\ RunFits /\ SchemaKept /\ up = "up" /\ run = Idle /\ up' = "up"
      /\ i \notin Registered(catalog) /\ t \in catalog.tables /\ catalog' = WithIndex(catalog, i, t)
      /\ saved' = catalog' /\ savedPast' = savedPast \cup {catalog'}
      /\ run' = IF t \in open THEN [op |-> "open to fill", name |-> i] ELSE Idle
      /\ UNCHANGED <<open, store, past, intact, overwritten, checked>>
  BY DEF DatabaseInv, CreateIndex, Starts, data, history, Saves
<1>2. /\ IsRegistry(catalog') /\ ToSet(catalog'.indexes) = ToSet(catalog.indexes) \cup {e0}
      /\ catalog'.tables = catalog.tables /\ catalog'.fkeys = catalog.fkeys
  BY <1>1, WithIndexIs DEF Typed
<1>3. run.op = "idle"
  BY <1>1 DEF Idle
<1>4. i \notin open
  BY <1>1, <1>3 DEF SchemaKept
<1>5. e0.index = i /\ e0.table = t
  OBVIOUS
<1> HIDE DEF e0
<1>6. Typed'
  <2>1. StoreTyped'
    BY <1>1, DataStored DEF Typed, data
  <2>2. run' \in Runs
    BY <1>1, RunKinds DEF Name
  <2> QED
    BY <1>1, <1>2, <2>1, <2>2 DEF Typed
<1>7. RunFits'
  <2>1. CASE t \in open
    <3>1. run'.op = "open to fill" /\ run'.name = i
      BY <1>1, <2>1
    <3> QED
      BY <1>1, <1>2, <1>4, <1>5, <2>1, <3>1 DEF RunFits, Writes
  <2>2. CASE t \notin open
    <3>1. run'.op = "idle"
      BY <1>1, <2>2 DEF Idle
    <3> QED
      BY <3>1 DEF RunFits, Writes
  <2> QED
    BY <2>1, <2>2
<1>8. SchemaKept'
  <2>1. catalog' # NoFile
    BY <1>2, FileAssumption DEF IsRegistry
  <2>2. open \cap Table \subseteq catalog.tables
    BY <1>1 DEF SchemaKept
  <2>3. \A j \in open \cap Index : j \in Registered(catalog')
    BY <1>1, <1>2, <1>3 DEF SchemaKept, Registered
  <2>4. ASSUME NEW e \in ToSet(catalog'.indexes)
        PROVE  /\ e.index \in open => e.table \in open
               /\ e.table \in open => e.index \in open \/ (run'.op = "open to fill" /\ run'.name = e.index)
    <3>1. CASE e \in ToSet(catalog.indexes)
      BY <1>1, <1>3, <3>1 DEF SchemaKept
    <3>2. CASE e = e0
      BY <1>1, <1>4, <1>5, <3>2
    <3> QED
      BY <1>2, <3>1, <3>2
  <2> QED
    BY <1>1, <1>2, <2>1, <2>2, <2>3, <2>4 DEF SchemaKept
<1>9. ASSUME intact'
      PROVE  FilesKept' /\ IndexesKept' /\ ReferencesKept'
  <2>1. FilesKept /\ IndexesKept /\ ReferencesKept
    BY <1>1, <1>9 DEF DatabaseInv
  <2>2. FilesKept'
    BY <1>1, <2>1, FilesStay
  <2>3. Schema = catalog /\ Schema' = catalog'
    BY <1>1 DEF Schema
  <2>4. IndexesKept'
    <3>1. ~Refuses /\ \A j : EntriesAfter(j) = store[j] /\ Unfilled(j) = {}
      BY <1>1, NothingToTell
    <3>2. \A j : EntriesAfter(j)' = store'[j] /\ Unfilled(j)' = {}
      BY <1>1, NothingToTellNext
    <3>3. store[i] = NoFile
      BY <1>1, <1>4, <2>1 DEF FilesKept, Name
    <3> QED
      BY <1>1, <1>2, <1>5, <2>1, <2>3, <3>1, <3>2, <3>3, IndexesStay
  <2>5. ReferencesKept'
    BY <1>1, <1>2, <2>1, <2>3, ReferencesStay
  <2> QED
    BY <2>2, <2>4, <2>5
<1> QED
  BY <1>6, <1>7, <1>8, <1>9 DEF DatabaseInv

\* DROP INDEX, before the files are removed.
LEMMA DropIndexKeeps ==
    ASSUME DatabaseInv, NEW i \in Index, DropIndex(i)
    PROVE  DatabaseInv'
<1>1. /\ Typed /\ RunFits /\ SchemaKept /\ up = "up" /\ run = Idle /\ up' = "up"
      /\ i \in Registered(catalog) /\ catalog' = WithoutIndex(catalog, i)
      /\ saved' = catalog' /\ savedPast' = savedPast \cup {catalog'}
      /\ run' = [op |-> "remove", name |-> i]
      /\ UNCHANGED <<open, store, past, intact, overwritten, checked>>
  BY DEF DatabaseInv, DropIndex, Starts, data, history, Saves
<1>2. /\ IsRegistry(catalog') /\ ToSet(catalog'.indexes) = {e \in ToSet(catalog.indexes) : e.index # i}
      /\ catalog'.tables = catalog.tables /\ catalog'.fkeys = catalog.fkeys
  BY <1>1, WithoutIndexIs DEF Typed
<1>3. run.op = "idle" /\ run'.op = "remove" /\ run'.name = i
  BY <1>1 DEF Idle
<1>4. Typed'
  <2>1. StoreTyped'
    BY <1>1, DataStored DEF Typed, data
  <2>2. run' \in Runs
    BY <1>1, RunKinds DEF Name
  <2> QED
    BY <1>1, <1>2, <2>1, <2>2 DEF Typed
<1>5. RunFits'
  <2>1. i \notin Registered(catalog')
    BY <1>2 DEF Registered
  <2> QED
    BY <1>3, <2>1 DEF RunFits, Writes
<1>6. SchemaKept'
  <2>1. catalog' # NoFile
    BY <1>2, FileAssumption DEF IsRegistry
  <2>2. open \cap Table \subseteq catalog.tables
    BY <1>1 DEF SchemaKept
  <2>3. \A j \in open \cap Index : j \in Registered(catalog') \/ j = i
    BY <1>1, <1>2, <1>3 DEF SchemaKept, Registered
  <2>4. \A e \in ToSet(catalog'.indexes) : e.index \in open <=> e.table \in open
    BY <1>1, <1>2, <1>3 DEF SchemaKept
  <2> QED
    BY <1>1, <1>2, <1>3, <2>1, <2>2, <2>3, <2>4 DEF SchemaKept
<1>7. ASSUME intact'
      PROVE  FilesKept' /\ IndexesKept' /\ ReferencesKept'
  <2>1. FilesKept /\ IndexesKept /\ ReferencesKept
    BY <1>1, <1>7 DEF DatabaseInv
  <2>2. FilesKept'
    BY <1>1, <2>1, FilesStay
  <2>3. Schema = catalog /\ Schema' = catalog'
    BY <1>1 DEF Schema
  <2>4. IndexesKept'
    <3>1. ~Refuses /\ \A j : EntriesAfter(j) = store[j] /\ Unfilled(j) = {}
      BY <1>1, NothingToTell
    <3>2. \A j : EntriesAfter(j)' = store'[j] /\ Unfilled(j)' = {}
      BY <1>3, NothingToTellNext
    <3> QED
      BY <1>1, <1>2, <2>1, <2>3, <3>1, <3>2, IndexesStay
  <2>5. ReferencesKept'
    BY <1>1, <1>2, <2>1, <2>3, ReferencesStay
  <2> QED
    BY <2>2, <2>4, <2>5
<1> QED
  BY <1>4, <1>5, <1>6, <1>7 DEF DatabaseInv

\* The files of an index that was dropped.
LEMMA RemoveFilesKeeps ==
    ASSUME DatabaseInv, RemoveFiles
    PROVE  DatabaseInv'
<1> DEFINE n == run.name
<1>1. /\ Typed /\ RunFits /\ SchemaKept /\ up = "up" /\ run.op = "remove" /\ up' = "up"
      /\ open' = open \ {n} /\ store' = [store EXCEPT ![n] = NoFile] /\ past' = [past EXCEPT ![n] = {NoFile}]
      /\ run' = Idle /\ UNCHANGED <<catalog, saved, savedPast, intact, overwritten, checked>>
  BY DEF DatabaseInv, RemoveFiles, history
<1>2. n \in Index /\ n \in Name /\ n \notin Table /\ n \notin Registered(catalog)
  BY <1>1, NameAssumption DEF RunFits, Name
<1> HIDE DEF n
<1>3. StoreTyped' /\ store'[n] = NoFile /\ \A m \in Name \ {n} : store'[m] = store[m]
  BY <1>1, <1>2, ReplacedStored DEF Typed, Kept
<1>4. Typed'
  BY <1>1, <1>3, RunKinds DEF Typed
<1>5. run'.op = "idle"
  BY <1>1 DEF Idle
<1>6. RunFits'
  BY <1>5 DEF RunFits, Writes
<1>7. \A e \in ToSet(catalog.indexes) :
         e.index # n /\ e.table # n /\ e.index \in Name /\ e.table \in Name
  BY <1>1, <1>2, EntryNames
<1>8. SchemaKept'
  <2>1. \A m \in open' : store'[m] # NoFile
    BY <1>1, <1>3 DEF SchemaKept, Typed
  <2>2. open' \cap Table = open \cap Table
    BY <1>1, <1>2
  <2>3. \A j \in open' \cap Index : j \in Registered(catalog')
    BY <1>1 DEF SchemaKept, n
  <2>4. \A e \in ToSet(catalog'.indexes) : e.index \in open' <=> e.table \in open'
    BY <1>1, <1>7 DEF SchemaKept
  <2> QED
    BY <1>1, <2>1, <2>2, <2>3, <2>4 DEF SchemaKept
<1>9. ASSUME intact'
      PROVE  FilesKept' /\ IndexesKept' /\ ReferencesKept'
  <2>1. FilesKept /\ IndexesKept /\ ReferencesKept
    BY <1>1, <1>9 DEF DatabaseInv
  <2>2. FilesKept'
    BY <1>1, <1>3, <2>1 DEF FilesKept
  <2>3. Schema = catalog /\ Schema' = catalog
    BY <1>1 DEF Schema
  <2>4. IndexesKept'
    <3>1. ~Refuses /\ \A j : EntriesAfter(j) = store[j] /\ Unfilled(j) = {}
      BY <1>1, NothingToTell
    <3>2. \A j : EntriesAfter(j)' = store'[j] /\ Unfilled(j)' = {}
      BY <1>1, NothingToTellNext
    <3>3. \A e \in ToSet(catalog.indexes) : store'[e.index] = store[e.index] /\ store'[e.table] = store[e.table]
      BY <1>3, <1>7
    <3> QED
      BY <1>1, <2>1, <2>3, <3>1, <3>2, <3>3, IndexesStay
  <2>5. ReferencesKept'
    <3>1. \A t \in Table : store'[t] = store[t]
      BY <1>2, <1>3 DEF Name
    <3> QED
      BY <1>1, <2>1, <2>3, <3>1, ReferencesStay
  <2> QED
    BY <2>2, <2>4, <2>5
<1> QED
  BY <1>4, <1>6, <1>8, <1>9 DEF DatabaseInv

\* What is opened is what there is under the name, or empty.
LEMMA EngineOpened ==
    ASSUME StoreTyped, NEW n \in Name, NEW content,
           content = IF store[n] = NoFile THEN Empty(n) ELSE store[n],
           store' = [store EXCEPT ![n] = content], past' = [past EXCEPT ![n] = {content}]
    PROVE  /\ StoreTyped' /\ store'[n] = content /\ content # NoFile
           /\ \A m \in Name \ {n} : store'[m] = store[m]
<1>1. store[n] \in Kept(n)
  BY DEF StoreTyped
<1>2. content \in Kept(n) /\ content # NoFile
  BY <1>1, EmptyKept
<1>3. {content} \in SUBSET Kept(n) /\ content \in {content}
  BY <1>2
<1> QED
  BY <1>2, <1>3, ReplacedStored

\* An engine is made: the table is in use, or the index is to be filled.
LEMMA OpenEngineKeeps ==
    ASSUME DatabaseInv, OpenEngine
    PROVE  DatabaseInv'
<1>1. PICK n : n = run.name
  OBVIOUS
<1>2. PICK content : content = IF store[n] = NoFile THEN Empty(n) ELSE store[n]
  OBVIOUS
<1>3. /\ Typed /\ RunFits /\ SchemaKept /\ up = "up" /\ up' = "up"
      /\ run.op \in {"open", "open to fill"}
      /\ open' = open \cup {n} /\ store' = [store EXCEPT ![n] = content]
      /\ past' = [past EXCEPT ![n] = {store'[n]}]
      /\ UNCHANGED <<catalog, saved, savedPast, intact, overwritten, checked>>
  BY <1>1, <1>2 DEF DatabaseInv, OpenEngine, history
<1>4. n \in Name
  BY <1>1, <1>3, RunHas DEF Typed
<1>5. store'[n] = content
  <2>1. n \in DOMAIN store
    BY <1>3, <1>4 DEF Typed, StoreTyped
  <2> QED
    BY <1>3, <2>1
<1>6. StoreTyped' /\ content # NoFile /\ \A m \in Name \ {n} : store'[m] = store[m]
  <2>1. StoreTyped /\ past' = [past EXCEPT ![n] = {content}]
    BY <1>3, <1>5 DEF Typed
  <2> QED
    BY <1>2, <1>3, <1>4, <2>1, EngineOpened
<1>7. \A m \in Name : store[m] # NoFile => store'[m] = store[m]
  BY <1>2, <1>5, <1>6
<1>8. \A m \in open' : store'[m] # NoFile
  BY <1>3, <1>5, <1>6, <1>7 DEF SchemaKept, Typed
<1>9. intact' => FilesKept'
  BY <1>3, <1>6 DEF DatabaseInv, FilesKept
<1>10. intact' => ReferencesKept'
  <2>1. Schema' = Schema
    BY <1>3 DEF Schema
  <2> QED
    BY <1>3, <1>7, <2>1, ReferencesStay DEF DatabaseInv, Name
<1>11. \A e \in ToSet(catalog.indexes) : e.index \in Name /\ e.index \in Index /\ e.table \in Table /\ e.table \in Name
  BY <1>3, EntryNames
<1>12. Index \cap Table = {} /\ Name = Table \cup Index
  BY NameAssumption DEF Name
<1>13. CASE run.op = "open"
  <2>1. /\ n \in Table /\ saved # NoFile /\ n \in saved.tables
        /\ \A e \in ToSet(catalog.indexes) : e.table # n /\ e.index # n
    BY <1>1, <1>3, <1>11, <1>12, <1>13 DEF RunFits
  <2>2. run' = Idle
    BY <1>1, <1>13 DEF OpenEngine
  <2>3. run'.op = "idle"
    BY <2>2 DEF Idle
  <2>4. Typed'
    BY <1>3, <1>4, <1>6, <2>2, RunKinds DEF Typed
  <2>5. RunFits'
    BY <2>3 DEF RunFits, Writes
  <2>6. SchemaKept'
    <3>1. \A e \in ToSet(catalog.indexes) : e.index \in open' <=> e.table \in open'
      BY <1>3, <1>13, <2>1 DEF SchemaKept
    <3>2. open' \cap Index = open \cap Index
      BY <1>3, <1>12, <2>1
    <3>3. open' \cap Table = (open \cap Table) \cup {n}
      BY <1>3, <2>1
    <3> QED
      BY <1>3, <1>8, <1>13, <2>1, <3>1, <3>2, <3>3 DEF SchemaKept
  <2>7. intact' => IndexesKept'
    <3>1. ~Refuses /\ \A j : EntriesAfter(j) = store[j] /\ Unfilled(j) = {}
      BY <1>3, NothingToTell
    <3>2. \A j : EntriesAfter(j)' = store'[j] /\ Unfilled(j)' = {}
      BY <2>2, NothingToTellNext
    <3>3. \A e \in ToSet(catalog.indexes) : store'[e.index] = store[e.index] /\ store'[e.table] = store[e.table]
      BY <1>6, <1>11, <2>1
    <3>4. Schema' = Schema /\ Schema = catalog
      BY <1>3 DEF Schema
    <3> QED
      BY <1>3, <3>1, <3>2, <3>3, <3>4, IndexesStay DEF DatabaseInv
  <2> QED
    BY <1>9, <1>10, <2>4, <2>5, <2>6, <2>7 DEF DatabaseInv
<1>14. CASE run.op = "open to fill"
  <2>1. PICK e0 \in ToSet(catalog.indexes) : e0.index = n /\ e0.table \in open
    BY <1>1, <1>3, <1>14 DEF RunFits
  <2>2. n \notin open /\ n \in Index /\ n \notin Table /\ e0.table \in Table /\ e0.table # n
    BY <1>1, <1>3, <1>11, <1>12, <1>14, <2>1 DEF RunFits
  <2>3. TableOf(catalog, n) = e0.table
    BY <1>3, <2>1, OneEntry DEF Typed
  <2>4. PICK rows : rows = store[e0.table]
    OBVIOUS
  <2>5. rows \in Content
    BY <1>3, <1>11, <2>1, <2>2, <2>4, StoredKept DEF SchemaKept
  <2>6. PICK S : S = {k \in Key : rows[k] \notin {NoRow, Null}}
    OBVIOUS
  <2>7. PICK todo : todo = Ascending(S)
    OBVIOUS
  <2>8. todo \in Seq(S) /\ ToSet(todo) = S /\ IsInjective(todo)
    <3>1. S \in SUBSET Key
      BY <2>6
    <3>2. S \in SUBSET Int /\ IsFiniteSet(S)
      BY <3>1, AllKeysListed, FS_Subset
    <3> QED
      BY <2>7, <3>2, AscendingLists
  <2>9. todo \in Seq(Key)
    BY <2>6, <2>8
  <2>10. run' = [op |-> "fill", index |-> n, todo |-> todo]
    BY <1>1, <1>14, <2>3, <2>4, <2>6, <2>7 DEF OpenEngine
  <2>11. run'.op = "fill" /\ run'.index = n /\ run'.todo = todo
    BY <2>10
  <2>12. store'[e0.table] = rows
    BY <1>6, <1>11, <2>2, <2>4
  <2>13. Typed'
    BY <1>3, <1>4, <1>6, <2>2, <2>9, <2>10, RunKinds DEF Typed
  <2>14. RunFits'
    <3>1. \A k \in ToSet(todo) : store'[e0.table][k] \in Ref
      <4>1. \A k \in S : rows[k] \in Val \cup {NoRow} /\ rows[k] \notin {NoRow, Null}
        BY <2>5, <2>6 DEF Content
      <4> QED
        BY <2>8, <2>12, <4>1 DEF Val
    <3>2. {e0.index, e0.table} \subseteq open'
      BY <1>3, <2>1
    <3> QED
      BY <1>3, <2>1, <2>8, <2>11, <3>1, <3>2 DEF RunFits, Writes
  <2>15. \A e \in ToSet(catalog.indexes) : e.index = n => e = e0
    BY <1>3, <2>1, OneEntry DEF Typed
  <2>16. SchemaKept'
    <3>1. ASSUME NEW e \in ToSet(catalog.indexes)
          PROVE  e.index \in open' <=> e.table \in open'
      <4>1. CASE e = e0
        BY <1>3, <2>1, <4>1
      <4>2. CASE e # e0
        <5>1. e.index # n /\ e.table # n
          BY <1>11, <1>12, <2>2, <2>15, <4>2
        <5> QED
          BY <1>1, <1>3, <1>14, <5>1 DEF SchemaKept
      <4> QED
        BY <4>1, <4>2
    <3>2. open' \cap Index = (open \cap Index) \cup {n} /\ n \in Registered(catalog)
      BY <1>3, <2>1, <2>2 DEF Registered
    <3>3. open' \cap Table = open \cap Table
      BY <1>3, <2>2
    <3> QED
      BY <1>3, <1>8, <1>14, <2>2, <3>1, <3>2, <3>3 DEF SchemaKept
  <2>17. ASSUME intact'
         PROVE  IndexesKept'
    <3>1. FilesKept /\ IndexesKept
      BY <1>3, <2>17 DEF DatabaseInv
    <3>2. store[n] = NoFile /\ content = NoEntries
      BY <1>2, <1>3, <1>4, <2>2, <3>1 DEF FilesKept, Empty
    <3>3. /\ ~Refuses /\ \A j : EntriesAfter(j) = store[j] /\ Unfilled(j) = {}
      BY <1>3, NothingToTell
    <3>4. \A j : EntriesAfter(j)' = store'[j]
      BY <2>11 DEF EntriesAfter, Telling, Writes
    <3>5. Unfilled(n)' = S /\ \A j : j # n => Unfilled(j)' = {}
      BY <2>8, <2>11 DEF Unfilled
    <3>6. Schema' = catalog /\ Schema = catalog
      BY <1>3 DEF Schema
    <3> SUFFICES ASSUME NEW e \in ToSet(catalog.indexes), store'[e.index] # NoFile
                 PROVE  Covers(e.index, e.table)' /\ Matched(e.index, e.table)'
      BY <3>6 DEF IndexesKept
    <3>7. CASE e = e0
      <4>1. Covers(n, e0.table)'
        BY <2>6, <2>12, <3>5 DEF Covers
      <4>2. \A v \in DOMAIN NoEntries : ToSet(NoEntries[v]) = {}
        BY NoElements DEF NoEntries
      <4>3. Matched(n, e0.table)'
        BY <1>5, <3>2, <3>4, <4>2 DEF Matched
      <4> QED
        BY <2>1, <3>7, <4>1, <4>3
    <3>8. CASE e # e0
      <4>1. e.index # n /\ e.table # n
        BY <1>11, <1>12, <2>2, <2>15, <3>8
      <4>2. store'[e.index] = store[e.index] /\ store'[e.table] = store[e.table]
        BY <1>6, <1>11, <4>1
      <4>3. Covers(e.index, e.table) /\ Matched(e.index, e.table)
        BY <3>1, <3>3, <3>6, <4>2 DEF IndexesKept
      <4>4. Covers(e.index, e.table)'
        BY <3>3, <3>4, <3>5, <4>1, <4>2, <4>3 DEF Covers
      <4>5. Matched(e.index, e.table)'
        BY <1>3, <3>3, <3>4, <4>2, <4>3 DEF Matched
      <4> QED
        BY <4>4, <4>5
    <3> QED
      BY <3>7, <3>8
  <2> QED
    BY <1>9, <1>10, <2>13, <2>14, <2>16, <2>17 DEF DatabaseInv
<1> QED
  BY <1>3, <1>13, <1>14

\* The back-fill of an index takes the next row, or cannot.
LEMMA FillIndexKeeps ==
    ASSUME DatabaseInv, FillIndex
    PROVE  DatabaseInv'
<1>1. /\ Typed /\ RunFits /\ SchemaKept /\ up = "up" /\ up' = "up" /\ run.op = "fill"
      /\ UNCHANGED <<catalog, saved, savedPast, open, overwritten, checked>>
  BY DEF DatabaseInv, FillIndex, schema
<1>2. PICK i : i = run.index
  OBVIOUS
<1>3. run.todo \in Seq(Key) /\ i \in Index /\ run = [op |-> "fill", index |-> i, todo |-> run.todo]
  BY <1>1, <1>2, RunHas DEF Typed
<1>4. PICK e0 \in ToSet(catalog.indexes) :
          /\ e0.index = i /\ {e0.index, e0.table} \subseteq open /\ IsInjective(run.todo)
          /\ \A k \in ToSet(run.todo) : store[e0.table][k] \in Ref
  BY <1>1, <1>2 DEF RunFits
<1>5. TableOf(catalog, i) = e0.table /\ \A e \in ToSet(catalog.indexes) : e.index = i => e = e0
  BY <1>1, <1>4, OneEntry DEF Typed
<1>6. \A e \in ToSet(catalog.indexes) : e.index \in Name /\ e.index \in Index /\ e.table \in Table /\ e.table \in Name
  BY <1>1, EntryNames
<1>7. Index \cap Table = {} /\ Name = Table \cup Index
  BY NameAssumption DEF Name
<1>8. store[i] \in Lists /\ store[i] # NoFile /\ store[i] \in Kept(i) \ {NoFile} /\ i \in Name
  <2>1. store[i] # NoFile /\ i \in Name
    BY <1>1, <1>3, <1>4, <1>7 DEF SchemaKept
  <2> QED
    BY <1>1, <1>3, <2>1, StoredKept
<1>9. Schema = catalog /\ Schema' = catalog
  BY <1>1 DEF Schema
<1>10. /\ ~Refuses /\ \A j : EntriesAfter(j) = store[j]
       /\ Unfilled(i) = ToSet(run.todo) /\ \A j : j # i => Unfilled(j) = {}
  BY <1>1, <1>2 DEF Refuses, EntriesAfter, Telling, Unfilled, Writes
<1>11. run.todo # <<>> =>
         /\ Head(run.todo) \in Key /\ Tail(run.todo) \in Seq(Key) /\ Head(run.todo) \in ToSet(run.todo)
         /\ IsInjective(Tail(run.todo)) /\ ToSet(Tail(run.todo)) = ToSet(run.todo) \ {Head(run.todo)}
  BY <1>3, <1>4, TailOf
<1>12. CASE run.todo = <<>>
  <2>1. run' = Idle /\ UNCHANGED <<store, past, intact>>
    BY <1>12 DEF FillIndex, data
  <2>2. run'.op = "idle"
    BY <2>1 DEF Idle
  <2>3. Typed'
    BY <1>1, <2>1, DataStored, RunKinds DEF Typed, data
  <2>4. RunFits'
    BY <2>2 DEF RunFits, Writes
  <2>5. SchemaKept'
    BY <1>1, <2>1, <2>2 DEF SchemaKept
  <2>6. ASSUME intact'
        PROVE  FilesKept' /\ IndexesKept' /\ ReferencesKept'
    <3>1. FilesKept /\ IndexesKept /\ ReferencesKept
      BY <2>1, <2>6 DEF DatabaseInv
    <3>2. FilesKept'
      BY <1>1, <2>1, <3>1, FilesStay
    <3>3. \A j : EntriesAfter(j)' = store'[j] /\ Unfilled(j)' = {}
      BY <2>1, NothingToTellNext
    <3>4. \A j : Unfilled(j) = {}
      BY <1>10, <1>12, NoElements
    <3>5. IndexesKept'
      BY <1>1, <1>9, <1>10, <2>1, <3>1, <3>3, <3>4, IndexesStay
    <3>6. ReferencesKept'
      BY <1>1, <1>9, <2>1, <3>1, ReferencesStay
    <3> QED
      BY <3>2, <3>5, <3>6
  <2> QED
    BY <2>3, <2>4, <2>5, <2>6 DEF DatabaseInv
<1>13. CASE run.todo # <<>>
  <2>1. PICK k : k = Head(run.todo)
    OBVIOUS
  <2>2. PICK v : v = store[e0.table][k]
    OBVIOUS
  <2>3. k \in Key /\ k \in ToSet(run.todo) /\ v \in Ref
    BY <1>4, <1>11, <1>13, <2>1, <2>2
  <2>4. \/ /\ IsKey(v) /\ Holds(i, Added(store[i], v, k))
           /\ run' = [run EXCEPT !.todo = Tail(run.todo)] /\ UNCHANGED intact
        \/ /\ ~IsKey(v) /\ \E rest \in Wiped(i, store[i]) : Holds(i, rest)
           /\ run' = Idle /\ intact' = FALSE
    BY <1>2, <1>5, <1>13, <2>1, <2>2 DEF FillIndex
  <2>5. ASSUME NEW content \in Kept(i) \ {NoFile}, Holds(i, content)
        PROVE  /\ StoreTyped' /\ store'[i] = content /\ \A m \in Name \ {i} : store'[m] = store[m]
               /\ \A m \in open : store'[m] # NoFile
               /\ \A t \in Table : store'[t] = store[t]
    <3>1. StoreTyped' /\ store'[i] = content /\ \A m \in Name \ {i} : store'[m] = store[m]
      BY <1>1, <1>8, <2>5, HoldsStored DEF Typed
    <3> QED
      BY <1>1, <1>3, <1>7, <3>1 DEF SchemaKept, Typed
  <2>6. CASE ~IsKey(v)
    <3>1. PICK rest \in Wiped(i, store[i]) : Holds(i, rest)
      BY <2>4, <2>6
    <3>2. rest \in Kept(i) \ {NoFile} /\ run' = Idle /\ intact' = FALSE
      BY <1>8, <2>4, <2>6, <3>1, WipedKept
    <3>3. StoreTyped' /\ \A m \in open : store'[m] # NoFile
      BY <2>5, <3>1, <3>2
    <3>4. run'.op = "idle"
      BY <3>2 DEF Idle
    <3>5. Typed'
      BY <1>1, <3>2, <3>3, RunKinds DEF Typed
    <3>6. RunFits'
      BY <3>4 DEF RunFits, Writes
    <3>7. SchemaKept'
      BY <1>1, <3>3, <3>4 DEF SchemaKept
    <3> QED
      BY <3>2, <3>5, <3>6, <3>7 DEF DatabaseInv
  <2>7. CASE IsKey(v)
    <3>1. v \in Indexable
      BY <2>3, <2>7 DEF Indexable
    <3>2. PICK a : a = Added(store[i], v, k)
      OBVIOUS
    <3>3. a \in Lists /\ \A u \in Indexable, p \in Key :
             p \in ToSet(a[u]) <=> p \in ToSet(store[i][u]) \/ (u = v /\ p = k)
      BY <1>8, <2>3, <3>1, <3>2, AddedLists
    <3>4. a \in Kept(i) \ {NoFile}
      BY <1>3, <1>7, <3>3, FileAssumption DEF Kept, Lists
    <3>5. Holds(i, a) /\ UNCHANGED intact
      BY <2>4, <2>7, <3>2
    <3>6. run' = [op |-> "fill", index |-> i, todo |-> Tail(run.todo)]
      BY <1>3, <2>4, <2>7
    <3>7. run'.op = "fill" /\ run'.index = i /\ run'.todo = Tail(run.todo)
      BY <3>6
    <3>8. /\ StoreTyped' /\ store'[i] = a /\ \A m \in Name \ {i} : store'[m] = store[m]
          /\ \A m \in open : store'[m] # NoFile
          /\ \A t \in Table : store'[t] = store[t]
      BY <2>5, <3>4, <3>5
    <3>9. Typed'
      BY <1>1, <1>3, <1>11, <1>13, <3>5, <3>6, <3>8, RunKinds DEF Typed
    <3>10. RunFits'
      <4>1. \A p \in ToSet(run'.todo) : store'[e0.table][p] \in Ref
        BY <1>4, <1>6, <1>11, <1>13, <3>7, <3>8
      <4> QED
        BY <1>1, <1>4, <1>11, <1>13, <3>7, <4>1 DEF RunFits, Writes
    <3>11. SchemaKept'
      BY <1>1, <3>7, <3>8 DEF SchemaKept
    <3>12. ASSUME intact'
           PROVE  FilesKept' /\ IndexesKept' /\ ReferencesKept'
      <4>1. FilesKept /\ IndexesKept /\ ReferencesKept
        BY <3>5, <3>12 DEF DatabaseInv
      <4>2. FilesKept'
        BY <1>1, <1>4, <3>8, <4>1 DEF FilesKept
      <4>3. ReferencesKept'
        BY <1>1, <1>9, <3>8, <4>1, ReferencesStay
      <4>4. \A j : EntriesAfter(j)' = store'[j]
        BY <3>7 DEF EntriesAfter, Telling, Writes
      <4>5. Unfilled(i)' = ToSet(run.todo) \ {k} /\ \A j : j # i => Unfilled(j)' = {}
        BY <1>11, <1>13, <2>1, <3>7 DEF Unfilled
      <4>6. IndexesKept'
        <5> SUFFICES ASSUME NEW e \in ToSet(catalog.indexes), store'[e.index] # NoFile
                     PROVE  Covers(e.index, e.table)' /\ Matched(e.index, e.table)'
          BY <1>9 DEF IndexesKept
        <5>1. CASE e = e0
          <6>1. Covers(i, e0.table) /\ Matched(i, e0.table)
            BY <1>4, <1>8, <1>9, <1>10, <4>1 DEF IndexesKept
          <6>2. DOMAIN store[i] = Indexable /\ DOMAIN a = Indexable
            BY <1>8, <3>3, ListsAre
          <6>3. store'[e0.table] = store[e0.table] /\ k \in Key
            BY <1>6, <2>3, <3>8
          <6>4. ASSUME NEW p \in Key \ (ToSet(run.todo) \ {k}), store[e0.table][p] \notin {NoRow, Null}
                PROVE  store[e0.table][p] \in Indexable /\ p \in ToSet(a[store[e0.table][p]])
            <7>1. CASE p = k
              BY <2>2, <2>3, <3>1, <3>3, <7>1
            <7>2. CASE p # k
              <8>1. p \in Key \ Unfilled(i)
                BY <1>10, <7>2
              <8>2. store[e0.table][p] \in Indexable /\ p \in ToSet(store[i][store[e0.table][p]])
                BY <1>10, <6>1, <6>2, <6>4, <8>1 DEF Covers
              <8> QED
                BY <3>3, <8>2
            <7> QED
              BY <7>1, <7>2
          <6>5. Covers(i, e0.table)'
            BY <3>8, <4>4, <4>5, <6>2, <6>3, <6>4 DEF Covers
          <6>6. ASSUME NEW u \in Indexable, NEW p \in Key, p \in ToSet(a[u])
                PROVE  store[e0.table][p] = u \/ <<e0.table, p>> \in overwritten
            BY <1>10, <2>2, <3>3, <6>1, <6>2, <6>6 DEF Matched
          <6>7. Matched(i, e0.table)'
            BY <1>1, <3>8, <4>4, <6>2, <6>3, <6>6 DEF Matched
          <6> QED
            BY <1>4, <5>1, <6>5, <6>7
        <5>2. CASE e # e0
          <6>1. e.index # i /\ e.table # i
            BY <1>3, <1>5, <1>6, <1>7, <5>2
          <6>2. store'[e.index] = store[e.index] /\ store'[e.table] = store[e.table]
            BY <1>6, <3>8, <6>1
          <6>3. Covers(e.index, e.table) /\ Matched(e.index, e.table)
            BY <1>9, <1>10, <4>1, <6>2 DEF IndexesKept
          <6>4. Covers(e.index, e.table)'
            BY <1>10, <4>4, <4>5, <6>1, <6>2, <6>3 DEF Covers
          <6>5. Matched(e.index, e.table)'
            BY <1>1, <1>10, <4>4, <6>2, <6>3 DEF Matched
          <6> QED
            BY <6>4, <6>5
        <5> QED
          BY <5>1, <5>2
      <4> QED
        BY <4>2, <4>3, <4>6
    <3> QED
      BY <3>9, <3>10, <3>11, <3>12 DEF DatabaseInv
  <2> QED
    BY <2>6, <2>7
<1> QED
  BY <1>12, <1>13

-----------------------------------------------------------------------------
(* INSERT, UPDATE, DELETE *)

\* The rest of a statement after a row: every index of the table is to be told.
LEMMA ContinuesIs ==
    ASSUME Typed, NEW op \in Writes, NEW t \in Table, NEW value \in Val, NEW todo \in Seq(Row),
           NEW pk \in Key \cup {Null}, NEW old \in Val, NEW new \in Val, NEW r,
           r = Continues(op, t, value, todo, pk, old, new)
    PROVE  /\ r \in WriteRuns /\ r.op = op /\ r.table = t /\ r.value = value /\ r.todo = todo
           /\ r.pk = pk /\ r.old = old /\ r.new = new
           /\ r.sync \in Seq(Entry) /\ IsInjective(r.sync)
           /\ ToSet(r.sync) = {e \in ToSet(catalog.indexes) : e.table = t}
<1>1. PICK sync : sync = IndexesFor(catalog, t)
  OBVIOUS
<1>2. /\ sync \in Seq(Entry) /\ IsInjective(sync)
      /\ ToSet(sync) = {e \in ToSet(catalog.indexes) : e.table = t}
  BY <1>1, IndexesForTable DEF Typed
<1>3. r = [op |-> op, table |-> t, value |-> value, todo |-> todo,
           sync |-> sync, pk |-> pk, old |-> old, new |-> new]
  BY <1>1 DEF Continues
<1>4. r \in WriteRuns
  BY <1>2, <1>3 DEF WriteRuns
<1> QED
  BY <1>2, <1>3, <1>4

\* A statement that goes on, or ends, fits what is there.
LEMMA WriteFits ==
    ASSUME NEW r \in WriteRuns, run' = Then(r), r.table \in open', IsInjective(r.sync),
           \A e \in ToSet(r.sync) : e \in ToSet(catalog'.indexes) /\ e.table = r.table,
           r.sync # <<>> => r.pk \in Key,
           \A row \in ToSet(r.todo) :
              store'[r.table][row.pk] \in {row.ref, IF r.op = "delete" THEN NoRow ELSE r.value},
           r.op = "insert" => r.todo = <<>>
    PROVE  RunFits'
<1>1. CASE run' = r
  <2>1. run'.op \in Writes
    BY <1>1, WriteHas
  <2> QED
    BY <1>1, <2>1 DEF RunFits, Written, Writes
<1>2. CASE run' = Idle
  <2>1. run'.op = "idle"
    BY <1>2 DEF Idle
  <2> QED
    BY <2>1 DEF RunFits, Writes
<1> QED
  BY <1>1, <1>2, ThenIs

\* Between an engine call of a write and the next the schema stays.
LEMMA WriteSchema ==
    ASSUME SchemaKept, up = "up", UNCHANGED <<schema, up>>, run.op \in Writes \cup {"idle"},
           \A n \in open : store'[n] # NoFile
    PROVE  SchemaKept'
BY DEF SchemaKept, schema, Writes

\* What the entries of an index say of the rows of its table: each row that has a
\* value is under that value.
CoveredBy(rows, entries) ==
    \A p \in Key : rows[p] \notin {NoRow, Null} => rows[p] \in Indexable /\ p \in ToSet(entries[rows[p]])

\* Where the entries after the row k was told come from.
ToldOf(entries, after, k, x, old, new) ==
    \A v \in Indexable, p \in Key :
       p \in ToSet(after[v]) => \/ p # k /\ p \in ToSet(entries[v])
                                \/ p = k /\ x = v
                                \/ p = k /\ p \in ToSet(entries[v]) /\ (old = new \/ v # old)

\* A row of a table is written, and the indexes of the table are told of it
\* later: what they will have then covers the rows, and matches them.
LEMMA RowTold ==
    ASSUME NEW entries \in Lists, NEW k \in Key, NEW old \in Val, NEW new \in Val,
           ~SyncRaises(old, new), NEW was \in Content, NEW x \in Val \cup {NoRow},
           new = IF x = NoRow THEN Null ELSE x,
           old = new /\ new # Null => was[k] = new,
           NEW now, now = [was EXCEPT ![k] = x], NEW s, s = Synced(entries, k, old, new),
           CoveredBy(was, entries)
    PROVE  CoveredBy(now, s) /\ ToldOf(entries, s, k, x, old, new)
<1>1. /\ s \in Lists /\ (old = new => s = entries)
      /\ old # new => \A u \in Indexable, p \in Key :
           p \in ToSet(s[u]) <=> (p \in ToSet(entries[u]) /\ ~(u = old /\ p = k)) \/ (u = new /\ p = k)
  BY SyncedLists
<1>2. Null \notin Indexable /\ NoRow \notin Indexable /\ NoRow \notin Val
  BY ColumnAssumption DEF Indexable, Val
<1>3. now[k] = x /\ \A p \in Key \ {k} : now[p] = was[p]
  BY DEF Content
<1>4. ASSUME NEW p \in Key, now[p] \notin {NoRow, Null}
      PROVE  now[p] \in Indexable /\ p \in ToSet(s[now[p]])
  <2>1. CASE p # k
    <3>1. now[p] = was[p] /\ was[p] \in Indexable /\ p \in ToSet(entries[was[p]])
      BY <1>3, <1>4, <2>1 DEF CoveredBy
    <3> QED
      BY <1>1, <2>1, <3>1
  <2>2. CASE p = k
    <3>1. now[p] = new /\ new # Null
      BY <1>3, <1>4, <2>2
    <3>2. CASE old = new
      BY <1>1, <1>2, <1>4, <2>2, <3>1, <3>2 DEF CoveredBy
    <3>3. CASE old # new
      <4>1. new \in Indexable
        BY <3>1, <3>3 DEF SyncRaises, Val, Indexable
      <4> QED
        BY <1>1, <2>2, <3>1, <3>3, <4>1
    <3> QED
      BY <3>2, <3>3
  <2> QED
    BY <2>1, <2>2
<1>5. ASSUME NEW v \in Indexable, NEW p \in Key, p \in ToSet(s[v])
      PROVE  \/ p # k /\ p \in ToSet(entries[v])
             \/ p = k /\ x = v
             \/ p = k /\ p \in ToSet(entries[v]) /\ (old = new \/ v # old)
  <2>1. CASE old = new
    BY <1>1, <1>5, <2>1
  <2>2. CASE old # new
    <3>1. (p \in ToSet(entries[v]) /\ ~(v = old /\ p = k)) \/ (v = new /\ p = k)
      BY <1>1, <1>5, <2>2
    <3>2. v = new => x = v
      BY <1>2
    <3> QED
      BY <3>1, <3>2
  <2> QED
    BY <2>1, <2>2
<1> QED
  BY <1>4, <1>5 DEF CoveredBy, ToldOf

\* A row is put, replaced or deleted: the types, the schema and the statement
\* fit, and what the indexes will be once they are told covers the rows.
LEMMA RowWritten ==
    ASSUME DatabaseInv, up = "up", NEW t \in Table \cap open, NEW op \in Writes, NEW value \in Val,
           NEW todo \in Seq(Row), NEW k \in Key, NEW old \in Val, NEW new \in Val,
           NEW x \in Val \cup {NoRow},
           run = Idle \/ (run.op \in Writes /\ run.sync = <<>>),
           Holds(t, [store[t] EXCEPT ![k] = x]),
           run' = Then(Continues(op, t, value, todo, k, old, new)),
           UNCHANGED <<schema, up, intact>>,
           overwritten \subseteq overwritten', overwritten' \subseteq Table \X Key,
           checked' \subseteq Table \X Key,
           new = IF x = NoRow THEN Null ELSE x, x = IF op = "delete" THEN NoRow ELSE value,
           \A row \in ToSet(todo) : store[t][row.pk] \in {row.ref, x},
           op = "insert" => todo = <<>>,
           old = new /\ new # Null => store[t][k] = new,
           \A v \in Indexable : store[t][k] = v /\ (old = new \/ v # old) => x = v \/ <<t, k>> \in overwritten'
    PROVE  /\ Typed' /\ RunFits' /\ SchemaKept'
           /\ intact' => FilesKept' /\ IndexesKept'
           /\ store'[t] = [store[t] EXCEPT ![k] = x] /\ store[t] \in Content
           /\ \A m \in Name \ {t} : store'[m] = store[m]
<1>1. PICK r : r = Continues(op, t, value, todo, k, old, new)
  OBVIOUS
<1>2. Typed /\ RunFits /\ SchemaKept /\ StoreTyped /\ intact' = intact /\ up' = "up"
      /\ catalog' = catalog /\ open' = open /\ saved' = saved /\ savedPast' = savedPast
  BY DEF DatabaseInv, Typed, schema
<1>3. /\ r \in WriteRuns /\ r.op = op /\ r.table = t /\ r.value = value /\ r.todo = todo
      /\ r.pk = k /\ r.old = old /\ r.new = new
      /\ r.sync \in Seq(Entry) /\ IsInjective(r.sync)
      /\ ToSet(r.sync) = {e \in ToSet(catalog.indexes) : e.table = t}
  BY <1>1, <1>2, ContinuesIs
<1>4. run' = Then(r)
  BY <1>1
<1>5. t \in Name /\ store[t] # NoFile
  BY <1>2 DEF SchemaKept, Name
<1>6. store[t] \in Content
  BY <1>2, <1>5, StoredKept
<1>7. PICK now : now = [store[t] EXCEPT ![k] = x]
  OBVIOUS
<1>8. now \in Content /\ now[k] = x /\ \A p \in Key \ {k} : now[p] = store[t][p]
  BY <1>6, <1>7 DEF Content
<1>9. now \in Kept(t) /\ now # NoFile
  BY <1>8, FileAssumption DEF Kept
<1>10. StoreTyped' /\ store'[t] = now /\ \A m \in Name \ {t} : store'[m] = store[m]
  BY <1>2, <1>5, <1>7, <1>9, HoldsStored
<1>11. Typed'
  <2>1. run' \in Runs
    BY <1>3, <1>4, ThenIs
  <2> QED
    BY <1>2, <1>10, <2>1 DEF Typed
<1>12. SchemaKept'
  <2>1. run.op \in Writes \cup {"idle"}
    BY DEF Idle
  <2>2. \A n \in open : store'[n] # NoFile
    BY <1>2, <1>9, <1>10 DEF SchemaKept, Typed
  <2> QED
    BY <2>1, <2>2, WriteSchema DEF DatabaseInv
<1>13. RunFits'
  <2>1. \A row \in ToSet(todo) : store'[t][row.pk] \in {row.ref, x}
    <3> SUFFICES ASSUME NEW row \in ToSet(todo)
                 PROVE  store'[t][row.pk] \in {row.ref, x}
      OBVIOUS
    <3>1. row \in Row
      BY DEF ToSet
    <3>2. row.pk \in Key
      BY <3>1 DEF Row
    <3> QED
      BY <1>8, <1>10, <3>2
  <2>2. \A row \in ToSet(r.todo) :
            store'[r.table][row.pk] \in {row.ref, IF r.op = "delete" THEN NoRow ELSE r.value}
    BY <1>3, <2>1
  <2>3. \A e \in ToSet(r.sync) : e \in ToSet(catalog'.indexes) /\ e.table = r.table
    BY <1>2, <1>3
  <2>4. r.table \in open' /\ (r.sync # <<>> => r.pk \in Key) /\ (r.op = "insert" => r.todo = <<>>)
    BY <1>2, <1>3
  <2> QED
    BY <1>3, <1>4, <2>2, <2>3, <2>4, WriteFits
<1>14. ASSUME intact'
       PROVE  FilesKept' /\ IndexesKept'
  <2>1. FilesKept /\ IndexesKept
    BY <1>2, <1>14 DEF DatabaseInv
  <2>2. FilesKept'
    BY <1>2, <1>5, <1>10, <2>1 DEF FilesKept
  <2>3. Schema = catalog /\ Schema' = catalog
    BY <1>2 DEF Schema
  <2>4. ~Refuses /\ \A i : EntriesAfter(i) = store[i] /\ Unfilled(i) = {}
    BY NothingToTell
  <2>5. /\ \A i : Unfilled(i)' = {}
        /\ Refuses' <=> r.sync # <<>> /\ SyncRaises(old, new)
        /\ \A i : EntriesAfter(i)' = IF \E e \in ToSet(r.sync) : e.index = i
                                     THEN Synced(store'[i], k, old, new) ELSE store'[i]
    BY <1>3, <1>4, TellingNext
  <2>6. ASSUME ~Refuses', NEW e \in ToSet(catalog.indexes), store'[e.index] # NoFile
        PROVE  Covers(e.index, e.table)' /\ Matched(e.index, e.table)'
    <3>1. /\ e.index \in Index /\ e.index \in Name /\ e.table \in Name /\ e.index # t
          /\ \A f \in ToSet(catalog.indexes) : f.index = e.index => f = e
      BY <1>2, EntryNames, OneEntry DEF Typed
    <3>2. store'[e.index] = store[e.index]
      BY <1>10, <3>1
    <3>3. store[e.index] \in Lists
      BY <1>2, <2>6, <3>1, <3>2, StoredKept
    <3>4. Covers(e.index, e.table) /\ Matched(e.index, e.table)
      BY <2>1, <2>3, <2>4, <2>6, <3>2 DEF IndexesKept
    <3>5. CASE e.table # t
      <4>1. EntriesAfter(e.index)' = store[e.index] /\ store'[e.table] = store[e.table]
        BY <1>3, <1>10, <2>5, <3>1, <3>2, <3>5
      <4>2. EntriesAfter(e.index) = store[e.index] /\ Unfilled(e.index) = {} /\ Unfilled(e.index)' = {}
        BY <2>4, <2>5
      <4>3. Covers(e.index, e.table)'
        BY <3>4, <4>1, <4>2 DEF Covers
      <4>4. Matched(e.index, e.table)'
        BY <3>4, <4>1, <4>2 DEF Matched
      <4> QED
        BY <4>3, <4>4
    <3>6. CASE e.table = t
      <4>1. e \in ToSet(r.sync)
        BY <1>3, <3>6
      <4>2. r.sync # <<>>
        BY <4>1, NoElements
      <4>3. ~SyncRaises(old, new)
        BY <2>5, <2>6, <4>2
      <4>4. PICK entries : entries = store[e.index]
        OBVIOUS
      <4>5. PICK after : after = Synced(entries, k, old, new)
        OBVIOUS
      <4>6. EntriesAfter(e.index)' = after
        BY <2>5, <3>2, <4>1, <4>4, <4>5
      <4>7. after \in Lists /\ DOMAIN after = Indexable /\ DOMAIN entries = Indexable
        BY <3>3, <4>3, <4>4, <4>5, SyncedLists, ListsAre
      <4>8. \A p \in Key : store[t][p] \notin {NoRow, Null} =>
                store[t][p] \in Indexable /\ p \in ToSet(entries[store[t][p]])
        BY <2>4, <3>4, <3>6, <4>4, <4>7 DEF Covers
      <4>9. \A v \in Indexable, p \in Key :
                p \in ToSet(entries[v]) => store[t][p] = v \/ <<t, p>> \in overwritten
        BY <2>4, <3>4, <3>6, <4>4, <4>7 DEF Matched
      <4>10. /\ \A p \in Key : now[p] \notin {NoRow, Null} =>
                   now[p] \in Indexable /\ p \in ToSet(after[now[p]])
             /\ \A v \in Indexable, p \in Key :
                   p \in ToSet(after[v]) =>
                      \/ p # k /\ p \in ToSet(entries[v])
                      \/ p = k /\ x = v
                      \/ p = k /\ p \in ToSet(entries[v]) /\ (old = new \/ v # old)
        <5>1. PICK was : was = store[t]
          OBVIOUS
        <5>2. was \in Content /\ entries \in Lists /\ (old = new /\ new # Null => was[k] = new)
          BY <1>6, <3>3, <4>4, <5>1
        <5>3. /\ ~SyncRaises(old, new) /\ now = [was EXCEPT ![k] = x] /\ after = Synced(entries, k, old, new)
              /\ CoveredBy(was, entries)
          BY <1>7, <4>3, <4>5, <4>8, <5>1 DEF CoveredBy
        <5>4. CoveredBy(now, after) /\ ToldOf(entries, after, k, x, old, new)
          BY <5>2, <5>3, RowTold
        <5> QED
          BY <5>4 DEF CoveredBy, ToldOf
      <4>11. Covers(e.index, e.table)'
        BY <1>10, <3>6, <4>6, <4>7, <4>10 DEF Covers
      <4>12. ASSUME NEW v \in Indexable, NEW p \in Key, p \in ToSet(after[v])
             PROVE  now[p] = v \/ <<t, p>> \in overwritten'
        <5>1. CASE p # k /\ p \in ToSet(entries[v])
          BY <1>8, <4>9, <5>1
        <5>2. CASE p = k /\ x = v
          BY <1>8, <5>2
        <5>3. CASE p = k /\ p \in ToSet(entries[v]) /\ (old = new \/ v # old)
          BY <1>8, <4>9, <5>3
        <5> QED
          BY <4>10, <4>12, <5>1, <5>2, <5>3
      <4>13. Matched(e.index, e.table)'
        BY <1>10, <3>6, <4>6, <4>7, <4>12 DEF Matched
      <4> QED
        BY <4>11, <4>13
    <3> QED
      BY <3>5, <3>6
  <2>7. IndexesKept'
    BY <2>3, <2>6 DEF IndexesKept
  <2> QED
    BY <2>2, <2>7
<1> QED
  BY <1>6, <1>7, <1>10, <1>11, <1>12, <1>13, <1>14

\* References stay good when a row is written: it is the row of a reference
\* only where its own row is there, and it is deleted only where no reference
\* has it.
LEMMA ReferencesAfterRow ==
    ASSUME Typed, ReferencesKept, Schema' = Schema, NEW t \in Table, NEW k \in Key, NEW x \in Val \cup {NoRow},
           store[t] \in Content, store'[t] = [store[t] EXCEPT ![k] = x],
           \A m \in Name \ {t} : store'[m] = store[m],
           \A row \in checked' : \/ row \in checked /\ row # <<t, k>>
                                 \/ row = <<t, k>> /\ x # NoRow,
           <<t, k>> \in checked' /\ x # Null =>
               \A fk \in Schema.fkeys : fk[1] = t =>
                   store[fk[2]] # NoFile /\ x \in Key /\ store[fk[2]][x] # NoRow,
           x = NoRow => \A fk \in Schema.fkeys, p \in Key :
               fk[2] = t /\ <<fk[1], p>> \in checked => store[fk[1]][p] # k
    PROVE  ReferencesKept'
<1>1. checked \subseteq Table \X Key /\ Schema.fkeys \subseteq Table \X Table
  BY SchemaIs DEF Typed, IsRegistry, Registry
<1>2. PICK now : now = [store[t] EXCEPT ![k] = x]
  OBVIOUS
<1>3. now[k] = x /\ now \in Content /\ \A p \in Key \ {k} : now[p] = store[t][p]
  BY <1>2 DEF Content
<1>4. store'[t] = now /\ now # NoFile
  BY <1>2, <1>3, FileAssumption
<1>5. Table \subseteq Name /\ NoRow \notin Val /\ Null \in Val
  BY ColumnAssumption DEF Name, Val
<1>6. ASSUME NEW row \in checked'
      PROVE  store'[row[1]] # NoFile /\ store'[row[1]][row[2]] # NoRow
  <2>1. CASE row = <<t, k>> /\ x # NoRow
    BY <1>3, <1>4, <2>1
  <2>2. CASE row \in checked /\ row # <<t, k>>
    <3>1. row[1] \in Table /\ row[2] \in Key /\ row = <<row[1], row[2]>>
      BY <1>1, <2>2
    <3>2. store[row[1]] # NoFile /\ store[row[1]][row[2]] # NoRow
      BY <2>2 DEF ReferencesKept
    <3>3. CASE row[1] = t
      <4>1. row[2] # k
        BY <2>2, <3>1, <3>3
      <4> QED
        BY <1>3, <1>4, <3>1, <3>2, <3>3, <4>1
    <3>4. CASE row[1] # t
      BY <1>5, <3>1, <3>2, <3>4
    <3> QED
      BY <3>3, <3>4
  <2> QED
    BY <2>1, <2>2
<1>7. ASSUME NEW fk \in Schema.fkeys, NEW p \in Key, <<fk[1], p>> \in checked', store'[fk[1]][p] # Null
      PROVE  /\ store'[fk[2]] # NoFile /\ store'[fk[1]][p] \in Key
             /\ store'[fk[2]][store'[fk[1]][p]] # NoRow
  <2>1. fk[1] \in Table /\ fk[2] \in Table
    BY <1>1
  <2>2. PICK ref : ref = store'[fk[1]][p]
    OBVIOUS
  <2>3. /\ store[fk[2]] # NoFile /\ ref \in Key /\ store[fk[2]][ref] # NoRow
        /\ fk[2] = t /\ x = NoRow => ref # k
    <3>1. CASE <<fk[1], p>> = <<t, k>>
      <4>1. fk[1] = t /\ p = k
        BY <3>1
      <4>2. ref = x /\ x # NoRow
        BY <1>3, <1>4, <1>7, <2>2, <4>1
      <4> QED
        BY <1>7, <2>2, <4>1, <4>2
    <3>2. CASE <<fk[1], p>> \in checked /\ <<fk[1], p>> # <<t, k>>
      <4>1. fk[1] # t \/ p # k
        BY <3>2
      <4>2. ref = store[fk[1]][p]
        BY <1>3, <1>4, <1>5, <2>1, <2>2, <4>1
      <4> QED
        BY <1>7, <2>2, <3>2, <4>2 DEF ReferencesKept
    <3> QED
      BY <1>7, <3>1, <3>2
  <2>4. CASE fk[2] = t
    BY <1>3, <1>4, <2>2, <2>3, <2>4
  <2>5. CASE fk[2] # t
    BY <1>5, <2>1, <2>2, <2>3, <2>5
  <2> QED
    BY <2>4, <2>5
<1> QED
  BY <1>6, <1>7 DEF ReferencesKept

\* INSERT, whose row may take the place of another.
LEMMA InsertKeeps ==
    ASSUME DatabaseInv, NEW t \in Table, NEW pk \in Pk, NEW ref \in Val, Insert(t, pk, ref)
    PROVE  DatabaseInv'
<1>1. /\ Typed /\ SchemaKept /\ up = "up" /\ run = Idle /\ UNCHANGED <<schema, up, intact>>
      /\ t \in Table \cap open /\ ReferencesFound(t, ref) /\ pk \in Key
      /\ Holds(t, [store[t] EXCEPT ![pk] = ref])
      /\ run' = Then(Continues("insert", t, ref, <<>>, pk, Null, ref))
      /\ overwritten' = IF store[t][pk] = NoRow THEN overwritten ELSE overwritten \cup {<<t, pk>>}
      /\ checked' = checked \cup {<<t, pk>>}
  BY DEF DatabaseInv, Insert, Starts, Key
<1>2. ref # NoRow /\ Null \in Val /\ "insert" \in Writes /\ <<>> \in Seq(Row) /\ ref \in Val \cup {NoRow}
  BY ColumnAssumption DEF Val, Writes
<1>3. overwritten \subseteq overwritten' /\ overwritten' \subseteq Table \X Key /\ checked' \subseteq Table \X Key
  BY <1>1 DEF Typed
<1>4. \A v \in Indexable : store[t][pk] = v => <<t, pk>> \in overwritten'
  BY <1>1, ColumnAssumption DEF Indexable
<1>5. \A row \in ToSet(<<>>) : store[t][row.pk] \in {row.ref, ref}
  BY NoElements
<1>6. /\ Typed' /\ RunFits' /\ SchemaKept'
      /\ intact' => FilesKept' /\ IndexesKept'
      /\ store'[t] = [store[t] EXCEPT ![pk] = ref] /\ store[t] \in Content
      /\ \A m \in Name \ {t} : store'[m] = store[m]
  BY <1>1, <1>2, <1>3, <1>4, <1>5, RowWritten, ZenonT(30)
<1>7. ASSUME intact'
      PROVE  ReferencesKept'
  <2>1. ReferencesKept
    BY <1>1, <1>7 DEF DatabaseInv
  <2>2. Schema = catalog /\ Schema' = catalog
    BY <1>1 DEF Schema, schema
  <2>3. catalog.fkeys \subseteq Table \X Table
    BY <1>1 DEF Typed, IsRegistry, Registry
  <2>4. ASSUME NEW fk \in catalog.fkeys, fk[1] = t, ref # Null
        PROVE  store[fk[2]] # NoFile /\ ref \in Key /\ store[fk[2]][ref] # NoRow
    <3>1. fk[2] \in ParentsOf(catalog, t)
      BY <2>3, <2>4 DEF ParentsOf
    <3>2. fk[2] \in open /\ ref \in Key /\ store[fk[2]][ref] # NoRow
      BY <1>1, <2>4, <3>1 DEF ReferencesFound
    <3> QED
      BY <1>1, <3>2 DEF SchemaKept
  <2>5. \A row \in checked' : (row \in checked /\ row # <<t, pk>>) \/ (row = <<t, pk>> /\ ref # NoRow)
    BY <1>1, <1>2
  <2>6. ref # Null => \A fk \in Schema.fkeys : fk[1] = t =>
            store[fk[2]] # NoFile /\ ref \in Key /\ store[fk[2]][ref] # NoRow
    BY <2>2, <2>4
  <2>7. Schema' = Schema /\ Typed /\ t \in Table /\ pk \in Key
    BY <1>1, <2>2
  <2> QED
    BY <1>2, <1>6, <2>1, <2>5, <2>6, <2>7, ReferencesAfterRow, ZenonT(30)
<1> QED
  BY <1>6, <1>7 DEF DatabaseInv

\* The row that UPDATE or DELETE comes to.
LEMMA NextRow ==
    ASSUME Typed, RunFits, NEW op \in {"update", "delete"}, AtRow(op)
    PROVE  /\ up = "up" /\ run.op = op /\ op \in Writes /\ run.op \in Writes /\ run.sync = <<>>
           /\ run.table \in Table \cap open /\ run.value \in Val
           /\ Head(run.todo).pk \in Key /\ Head(run.todo).ref \in Val
           /\ Tail(run.todo) \in Seq(Row)
           /\ \A row \in ToSet(Tail(run.todo)) : store[run.table][row.pk] \in {row.ref, Written}
           /\ store[run.table][Head(run.todo).pk] \in {Head(run.todo).ref, Written}
<1>1. up = "up" /\ run.op = op /\ op \in Writes /\ run.sync = <<>> /\ run.todo # <<>>
  BY DEF AtRow, Writes
<1>2. run \in WriteRuns
  BY <1>1, RunHas DEF Typed
<1>3. run.table \in Table /\ run.value \in Val /\ run.todo \in Seq(Row)
  BY <1>2, WriteHas
<1>4. run.table \in open /\ \A row \in ToSet(run.todo) : store[run.table][row.pk] \in {row.ref, Written}
  BY <1>1 DEF RunFits
<1>5. /\ Head(run.todo) \in Row /\ Tail(run.todo) \in Seq(Row) /\ Head(run.todo) \in ToSet(run.todo)
      /\ ToSet(Tail(run.todo)) \subseteq ToSet(run.todo)
  BY <1>1, <1>3, TailOf
<1>6. Head(run.todo).pk \in Key /\ Head(run.todo).ref \in Val
  BY <1>5 DEF Row
<1> QED
  BY <1>1, <1>3, <1>4, <1>5, <1>6

\* One row of an UPDATE.
LEMMA UpdateRowKeeps ==
    ASSUME DatabaseInv, UpdateRow
    PROVE  DatabaseInv'
<1>1. PICK t : t = run.table
  OBVIOUS
<1>2. PICK k : k = Head(run.todo).pk
  OBVIOUS
<1>3. PICK old : old = Head(run.todo).ref
  OBVIOUS
<1>4. PICK value : value = run.value
  OBVIOUS
<1>5. PICK todo : todo = Tail(run.todo)
  OBVIOUS
<1>6. /\ Typed /\ RunFits /\ SchemaKept /\ AtRow("update") /\ UNCHANGED <<schema, up, intact, overwritten>>
      /\ Holds(t, [store[t] EXCEPT ![k] = value])
      /\ run' = Then(Continues("update", t, value, todo, k, old, value))
      /\ checked' = checked \ {<<t, k>>}
  BY <1>1, <1>2, <1>3, <1>4, <1>5 DEF DatabaseInv, UpdateRow
<1>7. /\ up = "up" /\ run.op = "update" /\ "update" \in Writes /\ run.op \in Writes /\ run.sync = <<>>
      /\ t \in Table \cap open /\ value \in Val /\ k \in Key /\ old \in Val /\ todo \in Seq(Row)
      /\ \A row \in ToSet(todo) : store[t][row.pk] \in {row.ref, Written}
      /\ store[t][k] \in {old, Written}
  BY <1>1, <1>2, <1>3, <1>4, <1>5, <1>6, NextRow
<1>8. Written = value
  BY <1>4, <1>7 DEF Written
<1>9. value # NoRow /\ value \in Val \cup {NoRow}
  BY <1>7, ColumnAssumption DEF Val
<1>10. overwritten' = overwritten /\ overwritten' \subseteq Table \X Key /\ checked' \subseteq Table \X Key
  BY <1>6 DEF Typed
<1>11. \A v \in Indexable : store[t][k] = v /\ (old = value \/ v # old) => value = v
  BY <1>7, <1>8
<1>12. /\ \A row \in ToSet(todo) : store[t][row.pk] \in {row.ref, value}
       /\ old = value => store[t][k] = value
  BY <1>7, <1>8
<1>13. /\ Typed' /\ RunFits' /\ SchemaKept'
       /\ intact' => FilesKept' /\ IndexesKept'
       /\ store'[t] = [store[t] EXCEPT ![k] = value] /\ store[t] \in Content
       /\ \A m \in Name \ {t} : store'[m] = store[m]
  <2>1. DatabaseInv /\ "update" # "delete" /\ "update" # "insert" /\ overwritten \subseteq overwritten'
    BY <1>10
  <2>2. /\ run.op \in Writes /\ run.sync = <<>> /\ up = "up" /\ "update" \in Writes
        /\ t \in Table \cap open /\ value \in Val /\ k \in Key /\ old \in Val /\ todo \in Seq(Row)
    BY <1>7
  <2>3. /\ UNCHANGED <<schema, up, intact>> /\ Holds(t, [store[t] EXCEPT ![k] = value])
        /\ run' = Then(Continues("update", t, value, todo, k, old, value))
    BY <1>6
  <2>4. run = Idle \/ (run.op \in Writes /\ run.sync = <<>>)
    BY <1>7
  <2>5. value = (IF value = NoRow THEN Null ELSE value) /\ value = (IF "update" = "delete" THEN NoRow ELSE value)
    BY <1>9
  <2>6. /\ "update" = "insert" => todo = <<>>
        /\ old = value /\ value # Null => store[t][k] = value
        /\ \A v \in Indexable : store[t][k] = v /\ (old = value \/ v # old) => value = v \/ <<t, k>> \in overwritten'
    BY <1>11, <1>12
  <2> QED
    BY <1>9, <1>10, <1>12, <2>1, <2>2, <2>3, <2>4, <2>5, <2>6, RowWritten
<1>14. ASSUME intact'
       PROVE  ReferencesKept'
  <2>1. ReferencesKept
    BY <1>6, <1>14 DEF DatabaseInv
  <2>2. Schema' = Schema
    BY <1>6 DEF Schema, schema
  <2> QED
    BY <1>6, <1>7, <1>9, <1>13, <2>1, <2>2, ReferencesAfterRow
<1> QED
  BY <1>13, <1>14 DEF DatabaseInv

\* The check of a DELETE finds every row that INSERT has checked, whichever
\* access path it takes: an index misses no row.
LEMMA NotReferenced ==
    ASSUME DatabaseInv, intact, up = "up", run.op \in Writes, run.sync = <<>>,
           NEW t \in Table, NEW k \in Key, ~Referenced(t, k),
           NEW fk \in catalog.fkeys, NEW p \in Key, fk[2] = t, <<fk[1], p>> \in checked
    PROVE  store[fk[1]][p] # k
<1> SUFFICES ASSUME store[fk[1]][p] = k
             PROVE  FALSE
  OBVIOUS
<1>1. Typed /\ SchemaKept /\ FilesKept /\ IndexesKept /\ ReferencesKept
  BY DEF DatabaseInv
<1>2. PICK c : c = fk[1]
  OBVIOUS
<1>3. catalog.fkeys \subseteq Table \X Table
  BY <1>1 DEF Typed, IsRegistry, Registry
<1>4. c \in ChildrenOf(catalog, t)
  BY <1>2, <1>3 DEF ChildrenOf
<1>5. PICK where : where = Equals("ref", k)
  OBVIOUS
<1>6. c \in Table \cap open /\ FetchRows(c, where) = <<>>
  BY <1>4, <1>5 DEF Referenced, ChildrenOf
<1>7. store[c] \in Content
  BY <1>1, <1>6, StoredKept DEF SchemaKept, Name
<1>8. store[c][p] # NoRow /\ store[c][p] = k
  <2>1. PICK row : row = <<c, p>>
    OBVIOUS
  <2>2. row \in checked /\ row[1] = c /\ row[2] = p
    BY <1>2, <2>1
  <2>3. store[row[1]][row[2]] # NoRow
    BY <1>1, <2>2 DEF ReferencesKept
  <2> QED
    BY <1>2, <2>2, <2>3
<1>9. k \in Indexable
  <2>1. k \in Val /\ k # Null
    BY <1>7, <1>8, ColumnAssumption DEF Content, Key
  <2> QED
    BY <2>1 DEF Val, Indexable, Key
<1>10. RowOf(c, p) \in There(c) /\ RowOf(c, p).pk = p /\ RowOf(c, p).ref = k
  BY <1>8 DEF There, RowOf
<1>11. where.col = "ref" /\ where.op = "=" /\ where.low = k
  BY <1>5 DEF Equals
<1>12. PICK indexes : indexes = IndexesFor(catalog, c)
  OBVIOUS
<1>13. CASE indexes # <<>>
  <2>1. PICK e : e = Head(indexes)
    OBVIOUS
  <2>2. e \in ToSet(catalog.indexes) /\ e.table = c /\ e.index \in Index
    BY <1>1, <1>12, <1>13, <2>1, FirstIndex
  <2>3. FetchRows(c, where) = Rows(c, LookedUp(e.index, k))
    BY <1>11, <1>12, <1>13, <2>1 DEF FetchRows
  <2>4. e.index \in open
    BY <1>1, <1>6, <2>2 DEF SchemaKept, Writes
  <2>5. store[e.index] # NoFile
    BY <1>1, <2>4 DEF SchemaKept
  <2>6. ~Refuses /\ EntriesAfter(e.index) = store[e.index] /\ Unfilled(e.index) = {}
    BY NothingToTell
  <2>7. Schema = catalog
    BY DEF Schema
  <2>8. Covers(e.index, c)
    BY <1>1, <2>2, <2>5, <2>6, <2>7 DEF IndexesKept
  <2>9. p \in ToSet(store[e.index][k])
    <3>1. store[c][p] \notin {NoRow, Null} /\ p \notin Unfilled(e.index)
      BY <1>8, <1>9, <2>6, ColumnAssumption DEF Indexable
    <3> QED
      BY <1>8, <2>6, <2>8, <3>1 DEF Covers
  <2>10. LookedUp(e.index, k) = store[e.index][k] /\ LookedUp(e.index, k) \in Seq(Key)
    BY <1>1, <1>9, <2>2, <2>4, <2>5, LookupFinds
  <2>11. ToSet(Rows(c, LookedUp(e.index, k))) = {row \in There(c) : row.pk \in ToSet(LookedUp(e.index, k))}
    BY <1>7, <2>10, RowsOf
  <2>12. RowOf(c, p) \in ToSet(FetchRows(c, where))
    BY <1>10, <2>3, <2>9, <2>10, <2>11
  <2> QED
    BY <1>6, <2>12, NoElements
<1>14. CASE indexes = <<>>
  <2>1. FetchRows(c, where) = FullScan(c, where)
    BY <1>11, <1>12, <1>14 DEF FetchRows
  <2>2. Matches(where, RowOf(c, p))
    BY <1>10, <1>11 DEF Matches
  <2>3. RowOf(c, p) \in ToSet(FullScan(c, where))
    BY <1>7, <1>10, <2>2, ScanFinds
  <2> QED
    BY <1>6, <2>1, <2>3, NoElements
<1> QED
  BY <1>13, <1>14

\* One row of a DELETE.
LEMMA DeleteRowKeeps ==
    ASSUME DatabaseInv, DeleteRow
    PROVE  DatabaseInv'
<1>1. PICK t : t = run.table
  OBVIOUS
<1>2. PICK k : k = Head(run.todo).pk
  OBVIOUS
<1>3. PICK old : old = Head(run.todo).ref
  OBVIOUS
<1>4. PICK todo : todo = Tail(run.todo)
  OBVIOUS
<1>5. /\ Typed /\ RunFits /\ SchemaKept /\ AtRow("delete") /\ UNCHANGED <<schema, up, intact, overwritten>>
      /\ Holds(t, [store[t] EXCEPT ![k] = NoRow])
      /\ run' = Then(Continues("delete", t, Null, todo, k, old, Null))
      /\ checked' = checked \ {<<t, k>>} /\ ~Referenced(t, k)
  BY <1>1, <1>2, <1>3, <1>4 DEF DatabaseInv, DeleteRow
<1>6. /\ up = "up" /\ run.op = "delete" /\ "delete" \in Writes /\ run.op \in Writes /\ run.sync = <<>>
      /\ t \in Table \cap open /\ k \in Key /\ old \in Val /\ todo \in Seq(Row)
      /\ \A row \in ToSet(todo) : store[t][row.pk] \in {row.ref, Written}
      /\ store[t][k] \in {old, Written}
  BY <1>1, <1>2, <1>3, <1>4, <1>5, NextRow
<1>7. Written = NoRow
  BY <1>6 DEF Written
<1>8. Null \in Val /\ NoRow \in Val \cup {NoRow} /\ NoRow # Null
  BY ColumnAssumption DEF Val
<1>9. /\ overwritten' = overwritten /\ overwritten \subseteq overwritten'
      /\ overwritten' \subseteq Table \X Key /\ checked' \subseteq Table \X Key
  BY <1>5 DEF Typed
<1>10. /\ \A row \in ToSet(todo) : store[t][row.pk] \in {row.ref, NoRow}
       /\ "delete" = "insert" => todo = <<>>
       /\ old = Null /\ Null # Null => store[t][k] = Null
       /\ Null = (IF NoRow = NoRow THEN Null ELSE NoRow) /\ NoRow = (IF "delete" = "delete" THEN NoRow ELSE Null)
  BY <1>6, <1>7
<1>11. \A v \in Indexable :
          store[t][k] = v /\ (old = Null \/ v # old) => NoRow = v \/ <<t, k>> \in overwritten'
  BY <1>6, <1>7, ColumnAssumption DEF Indexable
<1>12. /\ Typed' /\ RunFits' /\ SchemaKept'
       /\ intact' => FilesKept' /\ IndexesKept'
       /\ store'[t] = [store[t] EXCEPT ![k] = NoRow] /\ store[t] \in Content
       /\ \A m \in Name \ {t} : store'[m] = store[m]
  <2>1. /\ UNCHANGED <<schema, up, intact>> /\ Holds(t, [store[t] EXCEPT ![k] = NoRow])
        /\ run' = Then(Continues("delete", t, Null, todo, k, old, Null))
    BY <1>5
  <2>2. run = Idle \/ (run.op \in Writes /\ run.sync = <<>>)
    BY <1>6
  <2>3. /\ up = "up" /\ "delete" \in Writes
        /\ t \in Table \cap open /\ k \in Key /\ old \in Val /\ todo \in Seq(Row)
    BY <1>6
  <2> QED
    BY <1>8, <1>9, <1>10, <1>11, <2>1, <2>2, <2>3, RowWritten
<1>13. ASSUME intact'
       PROVE  ReferencesKept'
  <2>1. intact /\ ReferencesKept
    BY <1>5, <1>13 DEF DatabaseInv
  <2>2. Schema = catalog /\ Schema' = Schema /\ Typed
    BY <1>5, <1>6 DEF Schema, schema
  <2>3. \A fk \in Schema.fkeys, p \in Key :
            fk[2] = t /\ <<fk[1], p>> \in checked => store[fk[1]][p] # k
    BY <1>5, <1>6, <2>1, <2>2, NotReferenced
  <2>4. /\ \A row \in checked' : (row \in checked /\ row # <<t, k>>) \/ (row = <<t, k>> /\ NoRow # NoRow)
        /\ <<t, k>> \notin checked'
    BY <1>5
  <2> QED
    BY <1>6, <1>8, <1>12, <2>1, <2>2, <2>3, <2>4, ReferencesAfterRow
<1> QED
  BY <1>12, <1>13 DEF DatabaseInv

\* A statement that begins or is refused without a call of an engine.
LEMMA NothingWritten ==
    ASSUME DatabaseInv, up = "up", UNCHANGED <<schema, data, up, history>>,
           run = Idle \/ (run.op \in Writes /\ run.sync = <<>>),
           run' \in Runs, RunFits', run' = Idle \/ (run'.op \in Writes /\ run'.sync = <<>>)
    PROVE  DatabaseInv'
<1>1. /\ Typed /\ SchemaKept /\ UNCHANGED <<catalog, saved, savedPast, open, store, past, up>>
      /\ UNCHANGED <<intact, overwritten, checked>>
  BY DEF DatabaseInv, schema, data, history
<1>2. Typed'
  <2>1. StoreTyped'
    BY <1>1, DataStored DEF Typed, data
  <2> QED
    BY <1>1, <2>1 DEF Typed
<1>3. SchemaKept'
  <2>1. run.op \in Writes \cup {"idle"}
    BY DEF Idle
  <2>2. \A n \in open : store'[n] # NoFile
    BY <1>1 DEF SchemaKept
  <2> QED
    BY <1>1, <2>1, <2>2, WriteSchema DEF schema
<1>4. ASSUME intact'
      PROVE  FilesKept' /\ IndexesKept' /\ ReferencesKept'
  <2>1. FilesKept /\ IndexesKept /\ ReferencesKept
    BY <1>1, <1>4 DEF DatabaseInv
  <2>2. FilesKept'
    BY <1>1, <2>1, FilesStay
  <2>3. Schema = catalog /\ Schema' = catalog
    BY <1>1 DEF Schema
  <2>4. IndexesKept'
    <3>1. ~Refuses /\ \A i : EntriesAfter(i) = store[i] /\ Unfilled(i) = {}
      BY NothingToTell
    <3>2. \A i : EntriesAfter(i)' = store'[i] /\ Unfilled(i)' = {}
      BY NothingToTellNext
    <3> QED
      BY <1>1, <2>1, <2>3, <3>1, <3>2, IndexesStay
  <2>5. ReferencesKept'
    BY <1>1, <2>1, <2>3, ReferencesStay
  <2> QED
    BY <2>2, <2>4, <2>5
<1> QED
  BY <1>2, <1>3, <1>4 DEF DatabaseInv

\* A row that DELETE may not remove.
LEMMA DeleteRefusedKeeps ==
    ASSUME DatabaseInv, DeleteRefused
    PROVE  DatabaseInv'
<1>1. /\ run' = Idle /\ up = "up" /\ run.op = "delete" /\ run.sync = <<>>
      /\ UNCHANGED <<schema, data, up, history>>
  BY DEF DeleteRefused, AtRow
<1>2. run'.op = "idle" /\ run.op \in Writes
  BY <1>1 DEF Idle, Writes
<1>3. RunFits'
  BY <1>2 DEF RunFits, Writes
<1> QED
  BY <1>1, <1>2, <1>3, RunKinds, NothingWritten

\* UPDATE and DELETE: the rows that the condition finds.
LEMMA RowsFound ==
    ASSUME DatabaseInv, up = "up", run = Idle, UNCHANGED <<schema, data, up, history>>,
           NEW t \in Table \cap open, NEW op \in {"update", "delete"}, NEW value \in Val, NEW where,
           run' = Then([Continues(op, t, value, FetchRows(t, where), Null, Null, Null) EXCEPT !.sync = <<>>])
    PROVE  DatabaseInv'
<1>1. PICK rows : rows = FetchRows(t, where)
  OBVIOUS
<1>2. Typed /\ SchemaKept /\ op \in Writes /\ Null \in Val /\ Null \in Key \cup {Null}
  BY DEF DatabaseInv, Writes, Val
<1>3. rows \in Seq(Row) /\ ToSet(rows) \subseteq There(t)
  BY <1>1, <1>2, FetchedRows
<1>4. PICK q : q = Continues(op, t, value, rows, Null, Null, Null)
  OBVIOUS
<1>5. q \in WriteRuns /\ q.op = op /\ q.table = t /\ q.value = value /\ q.todo = rows
  <2>1. Typed /\ op \in Writes /\ t \in Table /\ Null \in Val /\ Null \in Key \cup {Null}
    BY <1>2
  <2>2. rows \in Seq(Row)
    BY <1>3
  <2> QED
    BY <1>4, <2>1, <2>2, ContinuesIs, SMTT(20)
<1>6. PICK r : r = [q EXCEPT !.sync = <<>>]
  OBVIOUS
<1>7. /\ r \in WriteRuns /\ r.op = op /\ r.table = t /\ r.value = value /\ r.todo = rows
      /\ r.sync = <<>>
  <2>1. q = [op |-> q.op, table |-> q.table, value |-> q.value, todo |-> q.todo, sync |-> q.sync,
             pk |-> q.pk, old |-> q.old, new |-> q.new]
    BY <1>5 DEF WriteRuns
  <2>2. r = [op |-> q.op, table |-> q.table, value |-> q.value, todo |-> q.todo, sync |-> <<>>,
             pk |-> q.pk, old |-> q.old, new |-> q.new]
    BY <1>6, <2>1
  <2>3. /\ q.op \in Writes /\ q.table \in Table /\ q.value \in Val /\ q.todo \in Seq(Row)
        /\ q.pk \in Key \cup {Null} /\ q.old \in Val /\ q.new \in Val
    BY <1>5, WriteHas
  <2>4. r \in WriteRuns
    BY <2>2, <2>3 DEF WriteRuns
  <2> QED
    BY <1>5, <2>2, <2>4
<1>8. run' = Then(r)
  BY <1>1, <1>4, <1>6
<1>9. RunFits'
  <2>1. \A row \in ToSet(rows) : store'[t][row.pk] = row.ref
    BY <1>3 DEF There, RowOf, data
  <2>2. \A row \in ToSet(r.todo) :
            store'[r.table][row.pk] \in {row.ref, IF r.op = "delete" THEN NoRow ELSE r.value}
    BY <1>7, <2>1
  <2>3. IsInjective(r.sync) /\ \A e \in ToSet(r.sync) : e \in ToSet(catalog'.indexes) /\ e.table = r.table
    BY <1>7, NoElements
  <2>4. r.table \in open' /\ (r.op = "insert" => r.todo = <<>>) /\ (r.sync # <<>> => r.pk \in Key)
    BY <1>7 DEF schema
  <2> QED
    BY <1>7, <1>8, <2>2, <2>3, <2>4, WriteFits
<1>10. run' \in Runs /\ (run' = r \/ run' = Idle)
  BY <1>7, <1>8, ThenIs
<1>11. run' = Idle \/ (run'.op \in Writes /\ run'.sync = <<>>)
  <2>1. CASE run' = r
    BY <1>2, <1>7, <2>1
  <2> QED
    BY <1>10, <2>1
<1> QED
  BY <1>9, <1>10, <1>11, NothingWritten

\* INSERT of a row that the engine refuses: the leaf is emptied.
LEMMA InsertRaisesKeeps ==
    ASSUME DatabaseInv, NEW t \in Table, NEW pk \in Pk, NEW ref \in Val, InsertRaises(t, pk, ref)
    PROVE  DatabaseInv'
<1>1. /\ Typed /\ RunFits /\ SchemaKept /\ up = "up" /\ run = Idle /\ t \in open /\ t \in Name
      /\ UNCHANGED <<schema, run, up, overwritten, checked>> /\ intact' = FALSE
  BY DEF DatabaseInv, InsertRaises, Starts, Name
<1>2. PICK rest \in Wiped(t, store[t]) : Holds(t, rest)
  BY DEF InsertRaises
<1>3. store[t] \in Kept(t) \ {NoFile}
  BY <1>1, StoredKept DEF SchemaKept
<1>4. rest \in Kept(t) \ {NoFile}
  BY <1>1, <1>3, WipedKept
<1>5. StoreTyped' /\ store'[t] = rest /\ \A m \in Name \ {t} : store'[m] = store[m]
  BY <1>1, <1>2, <1>4, HoldsStored DEF Typed
<1>6. Typed'
  BY <1>1, <1>5 DEF Typed, schema
<1>7. run'.op = "idle" /\ run.op = "idle"
  BY <1>1 DEF Idle
<1>8. RunFits'
  BY <1>7 DEF RunFits, Writes
<1>9. SchemaKept'
  <2>1. \A n \in open : store'[n] # NoFile
    BY <1>1, <1>4, <1>5 DEF SchemaKept, Typed
  <2> QED
    BY <1>1, <1>7, <2>1, WriteSchema
<1> QED
  BY <1>1, <1>6, <1>8, <1>9 DEF DatabaseInv

\* The index that a statement comes to.
LEMMA NextIndex ==
    ASSUME Typed, RunFits, SchemaKept, AtIndex
    PROVE  /\ up = "up" /\ run.op \in Writes /\ run \in WriteRuns /\ run.sync # <<>> /\ run.sync \in Seq(Entry)
           /\ run.pk \in Key /\ run.old \in Val /\ run.new \in Val
           /\ Head(run.sync) \in ToSet(run.sync) /\ Head(run.sync) \in ToSet(catalog.indexes)
           /\ Head(run.sync).index \in Index /\ Head(run.sync).index \in Name \cap open
           /\ store[Head(run.sync).index] \in Lists
<1>1. up = "up" /\ run.op \in Writes /\ run.sync # <<>>
  BY DEF AtIndex, Writes
<1>2. run \in WriteRuns
  BY <1>1, RunHas DEF Typed
<1>3. run.sync \in Seq(Entry) /\ run.old \in Val /\ run.new \in Val
  BY <1>2, WriteHas
<1>4. /\ run.pk \in Key /\ run.table \in open
      /\ \A e \in ToSet(run.sync) : e \in ToSet(catalog.indexes) /\ e.table = run.table
  BY <1>1 DEF RunFits
<1>5. PICK e : e = Head(run.sync)
  OBVIOUS
<1>6. e \in ToSet(run.sync)
  BY <1>1, <1>3, <1>5, TailOf
<1>7. e \in ToSet(catalog.indexes) /\ e.table \in open
  BY <1>4, <1>6
<1>8. e.index \in Index /\ e.index \in Name
  BY <1>7, EntryNames
<1>9. e.index \in open
  BY <1>1, <1>7 DEF SchemaKept, Writes
<1>10. store[e.index] \in Lists
  BY <1>1, <1>8, <1>9, StoredKept DEF SchemaKept
<1> QED
  BY <1>1, <1>2, <1>3, <1>4, <1>5, <1>6, <1>7, <1>8, <1>9, <1>10

\* An index cannot take the value: the statement is cut short.
LEMMA SyncFailsKeeps ==
    ASSUME DatabaseInv, SyncFails
    PROVE  DatabaseInv'
<1>1. /\ Typed /\ RunFits /\ SchemaKept /\ AtIndex /\ run' = Idle /\ intact' = FALSE
      /\ UNCHANGED <<schema, up, overwritten, checked>>
  BY DEF DatabaseInv, SyncFails
<1>2. PICK i : i = Head(run.sync).index
  OBVIOUS
<1>3. /\ up = "up" /\ run.op \in Writes /\ run.pk \in Key /\ run.old \in Val
      /\ i \in Index /\ i \in Name \cap open /\ store[i] \in Lists
  BY <1>1, <1>2, NextIndex
<1>4. PICK removed : removed = Removed(store[i], run.old, run.pk)
  OBVIOUS
<1>5. removed \in Lists
  BY <1>3, <1>4, RemovedLists
<1>6. i \notin Table
  BY <1>3, NameAssumption
<1>7. removed \in Kept(i) \ {NoFile}
  BY <1>5, <1>6, FileAssumption DEF Kept, Lists
<1>8. PICK rest \in Wiped(i, removed) : Holds(i, rest)
  BY <1>2, <1>4 DEF SyncFails
<1>9. rest \in Kept(i) \ {NoFile}
  BY <1>3, <1>7, WipedKept
<1>10. StoreTyped' /\ store'[i] = rest /\ \A m \in Name \ {i} : store'[m] = store[m]
  BY <1>1, <1>3, <1>8, <1>9, HoldsStored DEF Typed
<1>11. Typed'
  BY <1>1, <1>10, RunKinds DEF Typed, schema
<1>12. run'.op = "idle"
  BY <1>1 DEF Idle
<1>13. RunFits'
  BY <1>12 DEF RunFits, Writes
<1>14. SchemaKept'
  <2>1. \A n \in open : store'[n] # NoFile
    BY <1>1, <1>3, <1>9, <1>10 DEF SchemaKept, Typed
  <2> QED
    BY <1>1, <1>3, <2>1, WriteSchema
<1> QED
  BY <1>1, <1>11, <1>13, <1>14 DEF DatabaseInv

\* An index is told of the row: it has now what it was to have.
LEMMA SyncIndexKeeps ==
    ASSUME DatabaseInv, SyncIndex
    PROVE  DatabaseInv'
<1>1. PICK e : e = Head(run.sync)
  OBVIOUS
<1>2. PICK removed : removed = IF run.old = run.new THEN store[e.index]
                               ELSE Removed(store[e.index], run.old, run.pk)
  OBVIOUS
<1>3. PICK synced : synced = Synced(store[e.index], run.pk, run.old, run.new)
  OBVIOUS
<1>4. PICK i : i = e.index
  OBVIOUS
<1>5. PICK r : r = [run EXCEPT !.sync = Tail(run.sync)]
  OBVIOUS
<1>6. /\ Typed /\ RunFits /\ SchemaKept /\ AtIndex /\ ~SyncRaises(run.old, run.new)
      /\ store' = [store EXCEPT ![i] = synced] /\ past' = [past EXCEPT ![i] = past[i] \cup {removed, synced}]
      /\ run' = Then(r) /\ UNCHANGED <<schema, up, history>>
  BY <1>1, <1>2, <1>3, <1>4, <1>5 DEF DatabaseInv, SyncIndex
<1>7. /\ up = "up" /\ run.op \in Writes /\ run \in WriteRuns /\ run.sync # <<>> /\ run.sync \in Seq(Entry)
      /\ run.pk \in Key /\ run.old \in Val /\ run.new \in Val
      /\ e \in ToSet(run.sync) /\ e \in ToSet(catalog.indexes)
      /\ i \in Index /\ i \in Name \cap open /\ store[i] \in Lists
  BY <1>1, <1>4, <1>6, NextIndex
<1>8. UNCHANGED <<catalog, saved, savedPast, open, up, intact, overwritten, checked>>
  BY <1>6 DEF schema, history
<1>9. synced \in Lists /\ removed \in Lists
  BY <1>2, <1>3, <1>4, <1>6, <1>7, SyncedLists, RemovedLists
<1>10. i \notin Table /\ synced # NoFile
  BY <1>7, <1>9, NameAssumption, FileAssumption DEF Lists
<1>11. StoreTyped' /\ store'[i] = synced /\ \A m \in Name \ {i} : store'[m] = store[m]
  <2>1. Lists \subseteq Kept(i) /\ past[i] \subseteq Kept(i) /\ StoreTyped
    BY <1>6, <1>7, <1>10 DEF Kept, Typed, StoreTyped
  <2>2. past[i] \cup {removed, synced} \in SUBSET Kept(i) /\ synced \in Kept(i)
    BY <1>9, <2>1
  <2>3. synced \in past[i] \cup {removed, synced}
    OBVIOUS
  <2> QED
    BY <1>6, <1>7, <2>1, <2>2, <2>3, ReplacedStored
<1>12. /\ r \in WriteRuns /\ r.op = run.op /\ r.table = run.table /\ r.value = run.value
       /\ r.todo = run.todo /\ r.pk = run.pk /\ r.old = run.old /\ r.new = run.new
       /\ r.sync = Tail(run.sync)
  <2>1. Tail(run.sync) \in Seq(Entry)
    BY <1>7, TailOf
  <2>2. PICK rest : rest = Tail(run.sync)
    OBVIOUS
  <2>3. run = [op |-> run.op, table |-> run.table, value |-> run.value, todo |-> run.todo, sync |-> run.sync,
               pk |-> run.pk, old |-> run.old, new |-> run.new]
    BY <1>7 DEF WriteRuns
  <2>4. r = [op |-> run.op, table |-> run.table, value |-> run.value, todo |-> run.todo, sync |-> rest,
             pk |-> run.pk, old |-> run.old, new |-> run.new]
    BY <1>5, <2>2, <2>3
  <2>5. run.table \in Table /\ run.value \in Val /\ run.todo \in Seq(Row)
    BY <1>7, WriteHas
  <2>6. r \in WriteRuns
    BY <1>7, <2>1, <2>2, <2>4, <2>5 DEF WriteRuns
  <2> QED
    BY <2>2, <2>4, <2>6
<1>13. /\ run.table \in open /\ IsInjective(run.sync)
       /\ \A f \in ToSet(run.sync) : f \in ToSet(catalog.indexes) /\ f.table = run.table
       /\ \A row \in ToSet(run.todo) : store[run.table][row.pk] \in {row.ref, Written}
       /\ run.op = "insert" => run.todo = <<>>
  BY <1>6, <1>7 DEF RunFits
<1>14. ToSet(r.sync) = ToSet(run.sync) \ {e} /\ IsInjective(r.sync)
  BY <1>1, <1>7, <1>12, <1>13, TailOf
<1>15. \A t \in Table : store'[t] = store[t]
  BY <1>10, <1>11 DEF Name
<1>16. Typed'
  <2>1. run' \in Runs
    BY <1>6, <1>12, ThenIs
  <2> QED
    BY <1>6, <1>8, <1>11, <2>1 DEF Typed
<1>17. RunFits'
  <2>1. run.table \in Table
    BY <1>7, WriteHas
  <2>2. \A row \in ToSet(r.todo) :
            store'[r.table][row.pk] \in {row.ref, IF r.op = "delete" THEN NoRow ELSE r.value}
    BY <1>12, <1>13, <1>15, <2>1 DEF Written
  <2>3. \A f \in ToSet(r.sync) : f \in ToSet(catalog'.indexes) /\ f.table = r.table
    BY <1>8, <1>12, <1>13, <1>14
  <2>4. r.table \in open' /\ (r.sync # <<>> => r.pk \in Key) /\ (r.op = "insert" => r.todo = <<>>)
    BY <1>7, <1>8, <1>12, <1>13
  <2> QED
    BY <1>6, <1>12, <1>14, <2>2, <2>3, <2>4, WriteFits
<1>18. SchemaKept'
  <2>1. \A n \in open : store'[n] # NoFile
    BY <1>6, <1>10, <1>11 DEF SchemaKept, Typed
  <2> QED
    BY <1>6, <1>7, <2>1, WriteSchema
<1>19. ASSUME intact'
       PROVE  FilesKept' /\ IndexesKept' /\ ReferencesKept'
  <2>1. FilesKept /\ IndexesKept /\ ReferencesKept
    BY <1>8, <1>19 DEF DatabaseInv
  <2>2. FilesKept'
    BY <1>7, <1>8, <1>11, <2>1 DEF FilesKept
  <2>3. Schema = catalog /\ Schema' = catalog
    BY <1>7, <1>8 DEF Schema
  <2>4. ~Refuses
    BY <1>6 DEF Refuses
  <2>5. /\ \A j : Unfilled(j)' = {}
        /\ \A j : EntriesAfter(j)' = IF \E f \in ToSet(r.sync) : f.index = j
                                     THEN Synced(store'[j], run.pk, run.old, run.new) ELSE store'[j]
    BY <1>6, <1>12, TellingNext
  <2>6. ASSUME NEW f \in ToSet(catalog.indexes), store'[f.index] # NoFile
        PROVE  Covers(f.index, f.table)' /\ Matched(f.index, f.table)'
    <3>1. /\ f.index \in Index /\ f.index \in Name /\ f.table \in Table
          /\ \A g \in ToSet(catalog.indexes) : g.index = f.index => g = f
      BY <1>6, EntryNames, OneEntry DEF Typed
    <3>2. store[f.index] # NoFile
      <4>1. CASE f.index = i
        BY <1>7, <4>1, FileAssumption DEF Lists
      <4>2. CASE f.index # i
        BY <1>11, <2>6, <3>1, <4>2
      <4> QED
        BY <4>1, <4>2
    <3>3. Covers(f.index, f.table) /\ Matched(f.index, f.table)
      BY <2>1, <2>3, <2>4, <3>2 DEF IndexesKept
    <3>4. EntriesAfter(f.index)' = EntriesAfter(f.index)
      <4>1. CASE f.index = i
        <5>1. f = e
          BY <1>4, <1>7, <3>1, <4>1
        <5>2. \A g \in ToSet(r.sync) : g.index # i
          BY <1>13, <1>14, <3>1, <4>1, <5>1
        <5>3. EntriesAfter(i)' = synced
          BY <1>11, <2>5, <5>2
        <5>4. EntriesAfter(i) = synced
          BY <1>3, <1>4, <1>7 DEF EntriesAfter, Telling
        <5> QED
          BY <4>1, <5>3, <5>4
      <4>2. CASE f.index # i
        <5>1. (\E g \in ToSet(r.sync) : g.index = f.index) <=> (\E g \in ToSet(run.sync) : g.index = f.index)
          BY <1>4, <1>14, <4>2
        <5>2. store'[f.index] = store[f.index]
          BY <1>11, <3>1, <4>2
        <5> QED
          BY <1>7, <2>5, <5>1, <5>2 DEF EntriesAfter, Telling
      <4> QED
        BY <4>1, <4>2
    <3>5. Unfilled(f.index) = {} /\ Unfilled(f.index)' = {} /\ store'[f.table] = store[f.table]
      BY <1>7, <1>15, <2>5, <3>1 DEF Unfilled, Writes
    <3>6. Covers(f.index, f.table)'
      BY <3>3, <3>4, <3>5 DEF Covers
    <3>7. Matched(f.index, f.table)'
      BY <1>8, <3>3, <3>4, <3>5 DEF Matched
    <3> QED
      BY <3>6, <3>7
  <2>7. IndexesKept'
    BY <2>3, <2>6 DEF IndexesKept
  <2>8. ReferencesKept'
    BY <1>6, <1>8, <1>15, <2>1, <2>3, ReferencesStay
  <2> QED
    BY <2>2, <2>7, <2>8
<1> QED
  BY <1>16, <1>17, <1>18, <1>19 DEF DatabaseInv

-----------------------------------------------------------------------------
(* close, crash, open *)

\* The engines are closed: what they have is what the next Database finds.
LEMMA CloseKeeps ==
    ASSUME DatabaseInv, Close
    PROVE  DatabaseInv'
<1>1. /\ Typed /\ SchemaKept /\ up = "up" /\ run = Idle /\ open' = {} /\ catalog' = EmptyRegistry
      /\ run' = Idle /\ up' = "down" /\ past' = [n \in Name |-> {store[n]}]
      /\ UNCHANGED <<saved, savedPast, store, intact, overwritten, checked>>
  BY DEF DatabaseInv, Close, Starts, Stopped, history
<1>2. run.op = "idle" /\ run'.op = "idle"
  BY <1>1 DEF Idle
<1>3. Typed'
  <2>1. StoreTyped'
    BY <1>1 DEF Typed, StoreTyped, Kept
  <2> QED
    BY <1>1, <2>1, EmptyIsRegistry, RunKinds DEF Typed
<1>4. RunFits'
  BY <1>2 DEF RunFits, Writes
<1>5. SchemaKept'
  BY <1>1 DEF SchemaKept
<1>6. /\ Schema = catalog
      /\ Schema' = IF saved \in {NoFile, Torn} THEN EmptyRegistry ELSE saved
  BY <1>1 DEF Schema
<1>7. /\ Schema'.indexes = catalog.indexes /\ Schema'.fkeys = catalog.fkeys
      /\ saved = NoFile => open \cap Table = {}
      /\ saved # NoFile => Schema' = saved /\ open \cap Table \subseteq saved.tables
  <2>1. CASE saved = NoFile
    BY <1>1, <1>6, <2>1 DEF SchemaKept, EmptyRegistry
  <2>2. CASE saved # NoFile
    <3>1. saved # Torn
      BY <1>1, <2>2, FileAssumption DEF SchemaKept, IsRegistry
    <3> QED
      BY <1>1, <1>6, <2>2, <3>1 DEF SchemaKept
  <2> QED
    BY <2>1, <2>2
<1>8. ASSUME intact'
      PROVE  FilesKept' /\ IndexesKept' /\ ReferencesKept'
  <2>1. FilesKept /\ IndexesKept /\ ReferencesKept
    BY <1>1, <1>8 DEF DatabaseInv
  <2>2. ASSUME NEW n \in Name, store[n] # NoFile
        PROVE  n \in Opened(Schema')
    <3>1. n \in open
      BY <1>1, <2>1, <2>2 DEF FilesKept
    <3>2. CASE n \in Table
      BY <1>7, <3>1, <3>2 DEF Opened
    <3>3. CASE n \in Index
      <4>1. n \in Registered(catalog)
        BY <1>1, <1>2, <3>1, <3>3 DEF SchemaKept
      <4> QED
        BY <1>7, <4>1 DEF Opened, Registered
    <3> QED
      BY <2>2, <3>2, <3>3 DEF Name
  <2>3. ASSUME NEW e \in ToSet(catalog.indexes)
        PROVE  store[e.table] # NoFile <=> store[e.index] # NoFile
    <3>1. e.index \in Name /\ e.table \in Name
      BY <1>1, EntryNames
    <3>2. e.index \in open <=> e.table \in open
      BY <1>1, <1>2 DEF SchemaKept
    <3>3. \A n \in Name : store[n] # NoFile <=> n \in open
      BY <1>1, <2>1 DEF FilesKept, SchemaKept
    <3> QED
      BY <3>1, <3>2, <3>3
  <2>4. FilesKept'
    BY <1>1, <1>7, <2>2, <2>3 DEF FilesKept
  <2>5. IndexesKept'
    <3>1. ~Refuses /\ \A j : EntriesAfter(j) = store[j] /\ Unfilled(j) = {}
      BY <1>1, NothingToTell
    <3>2. \A j : EntriesAfter(j)' = store'[j] /\ Unfilled(j)' = {}
      BY <1>1, NothingToTellNext
    <3> QED
      BY <1>1, <1>6, <1>7, <2>1, <3>1, <3>2, IndexesStay
  <2>6. ReferencesKept'
    BY <1>1, <1>6, <1>7, <2>1, ReferencesStay
  <2> QED
    BY <2>4, <2>5, <2>6
<1> QED
  BY <1>3, <1>4, <1>5, <1>8 DEF DatabaseInv

\* After a crash there are only the types to say.
LEMMA CrashKeeps ==
    ASSUME DatabaseInv, Crash
    PROVE  DatabaseInv'
<1>1. /\ Typed /\ open' = {} /\ catalog' = EmptyRegistry /\ run' = Idle /\ up' = "down"
      /\ past' = [n \in Name |-> {store'[n]}] /\ intact' = FALSE
      /\ saved' \in savedPast \cup (IF savedPast = {NoFile} THEN {} ELSE {Torn})
      /\ savedPast' = {saved'} /\ UNCHANGED <<overwritten, checked>>
  BY DEF DatabaseInv, Crash, Stopped
<1>2. PICK tables \in Survivors(Table), indexes \in Survivors(Index) :
          store' = [n \in Name |-> IF n \in Table THEN tables[n] ELSE indexes[n]]
  BY DEF Crash
<1>3. \A n \in Name : store'[n] \in past[n]
  BY <1>2 DEF Survivors, Name
<1>4. StoreTyped'
  <2>1. \A n \in Name : store'[n] \in Kept(n)
    BY <1>1, <1>3 DEF Typed, StoreTyped
  <2>2. store' = [n \in Name |-> store'[n]]
    BY <1>2
  <2>3. \A n \in Name : Kept(n)' = Kept(n)
    BY DEF Kept
  <2> QED
    BY <1>1, <2>1, <2>2, <2>3 DEF StoreTyped
<1>5. Typed'
  BY <1>1, <1>4, EmptyIsRegistry, RunKinds DEF Typed
<1>6. run'.op = "idle"
  BY <1>1 DEF Idle
<1>7. RunFits'
  BY <1>6 DEF RunFits, Writes
<1>8. SchemaKept'
  BY <1>1 DEF SchemaKept
<1> QED
  BY <1>1, <1>5, <1>7, <1>8 DEF DatabaseInv

\* Indexes of empty tables that are empty.
LEMMA EmptyIndexes ==
    ASSUME NEW i \in Index, NEW t \in Table, EntriesAfter(i) = Empty(i), store[t] = Empty(t)
    PROVE  Covers(i, t) /\ Matched(i, t)
<1>1. i \notin Table /\ store[t] = NoRows /\ EntriesAfter(i) = NoEntries
  BY NameAssumption DEF Empty
<1>2. Covers(i, t)
  BY <1>1 DEF Covers, NoRows
<1>3. \A v \in DOMAIN NoEntries : ToSet(NoEntries[v]) = {}
  BY NoElements DEF NoEntries
<1>4. Matched(i, t)
  BY <1>1, <1>3 DEF Matched
<1> QED
  BY <1>2, <1>4

\* What the catalog in use opens.
LEMMA AllOpen ==
    ASSUME NEW c, IsRegistry(c)
    PROVE  /\ Opened(c) \subseteq Name /\ Opened(c) \cap Table = c.tables
           /\ Opened(c) \cap Index = Registered(c)
           /\ \A e \in ToSet(c.indexes) : e.index \in Opened(c) /\ e.table \in Opened(c)
<1>1. c.tables \subseteq Table
  BY DEF IsRegistry, Registry
<1>2. \A e \in ToSet(c.indexes) : e.index \in Index /\ e.table \in c.tables
  BY OneEntry DEF Entry
<1>3. Registered(c) \subseteq Index
  BY <1>2 DEF Registered
<1> QED
  BY <1>1, <1>2, <1>3, NameAssumption DEF Opened, Name, Registered

\* The next Database opens the schema of the file, with what is there or empty.
LEMMA OpenKeeps ==
    ASSUME DatabaseInv, Open
    PROVE  DatabaseInv'
<1>1. /\ Typed /\ SchemaKept /\ up = "down" /\ saved # Torn /\ up' = "up" /\ run' = run
      /\ catalog' = (IF saved = NoFile THEN EmptyRegistry ELSE saved) /\ open' = Opened(catalog')
      /\ store' = [n \in Name |-> IF n \in open' /\ store[n] = NoFile THEN Empty(n) ELSE store[n]]
      /\ past' = [n \in Name |-> {store'[n]}]
      /\ UNCHANGED <<saved, savedPast, intact, overwritten, checked>>
  BY DEF DatabaseInv, Open, history
<1>2. run = Idle /\ run' = Idle /\ run'.op = "idle"
  BY <1>1 DEF SchemaKept, Idle
<1>3. Schema = catalog' /\ Schema' = catalog' /\ IsRegistry(catalog')
  BY <1>1, SchemaIs DEF Schema
<1>4. /\ open' \subseteq Name /\ open' \cap Table = catalog'.tables
      /\ open' \cap Index = Registered(catalog')
      /\ \A e \in ToSet(catalog'.indexes) : e.index \in open' /\ e.table \in open'
  BY <1>1, <1>3, AllOpen
<1>5. /\ \A n \in Name : store[n] # NoFile => store'[n] = store[n]
      /\ \A n \in Name : n \in open' /\ store[n] = NoFile => store'[n] = Empty(n)
      /\ \A n \in Name : n \notin open' => store'[n] = store[n]
  BY <1>1
<1>6. StoreTyped'
  <2>1. \A n \in Name : store'[n] \in Kept(n)
    BY <1>1, <1>5, EmptyKept, StoredKept
  <2>2. store' = [n \in Name |-> store'[n]] /\ \A n \in Name : Kept(n)' = Kept(n)
    BY <1>1 DEF Kept
  <2> QED
    BY <1>1, <2>1, <2>2 DEF StoreTyped
<1>7. Typed'
  BY <1>1, <1>2, <1>3, <1>4, <1>6, RunKinds DEF Typed
<1>8. RunFits'
  BY <1>2 DEF RunFits, Writes
<1>9. SchemaKept'
  <2>1. \A n \in open' : store'[n] # NoFile
    BY <1>4, <1>5, EmptyKept
  <2>2. CASE saved = NoFile
    <3>1. catalog' = EmptyRegistry
      BY <1>1, <2>2
    <3>2. catalog'.indexes = <<>> /\ catalog'.fkeys = {} /\ open' \cap Table = {}
      BY <1>4, <3>1 DEF EmptyRegistry
    <3> QED
      BY <1>1, <1>4, <2>1, <2>2, <3>2 DEF SchemaKept
  <2>3. CASE saved # NoFile
    <3>1. catalog' = saved /\ saved' = saved
      BY <1>1, <2>3
    <3> QED
      BY <1>1, <1>3, <1>4, <2>1, <2>3, <3>1 DEF SchemaKept
  <2> QED
    BY <2>2, <2>3
<1>10. ASSUME intact'
       PROVE  FilesKept' /\ IndexesKept' /\ ReferencesKept'
  <2>1. FilesKept /\ IndexesKept /\ ReferencesKept
    BY <1>1, <1>10 DEF DatabaseInv
  <2>2. /\ \A n \in Name : store[n] # NoFile => n \in open'
        /\ \A e \in ToSet(catalog'.indexes) : store[e.table] # NoFile <=> store[e.index] # NoFile
    BY <1>1, <1>3, <2>1 DEF FilesKept
  <2>3. FilesKept'
    BY <1>1, <1>5, <2>2 DEF FilesKept
  <2>4. ~Refuses /\ \A j : EntriesAfter(j) = store[j] /\ Unfilled(j) = {}
    BY <1>2, NothingToTell
  <2>5. \A j : EntriesAfter(j)' = store'[j] /\ Unfilled(j)' = {}
    BY <1>2, NothingToTellNext
  <2>6. ASSUME NEW e \in ToSet(catalog'.indexes)
        PROVE  Covers(e.index, e.table)' /\ Matched(e.index, e.table)'
    <3>1. e.index \in Index /\ e.table \in Table /\ e.index \in Name /\ e.table \in Name
      BY <1>3, OneEntry DEF Entry, Name
    <3>2. CASE store[e.index] = NoFile
      <4>1. store'[e.index] = Empty(e.index) /\ store'[e.table] = Empty(e.table)
        BY <1>4, <1>5, <2>2, <3>1, <3>2
      <4>2. EntriesAfter(e.index)' = Empty(e.index)
        BY <2>5, <4>1
      <4>3. e.index \notin Table /\ store'[e.table] = NoRows /\ EntriesAfter(e.index)' = NoEntries
        BY <3>1, <4>1, <4>2, NameAssumption DEF Empty
      <4>4. Covers(e.index, e.table)'
        BY <4>3 DEF Covers, NoRows
      <4>5. \A v \in DOMAIN NoEntries : ToSet(NoEntries[v]) = {}
        BY NoElements DEF NoEntries
      <4>6. Matched(e.index, e.table)'
        BY <4>3, <4>5 DEF Matched
      <4> QED
        BY <4>4, <4>6
    <3>3. CASE store[e.index] # NoFile
      <4>1. store'[e.index] = store[e.index] /\ store'[e.table] = store[e.table]
        BY <1>5, <2>2, <3>1, <3>3
      <4>2. Covers(e.index, e.table) /\ Matched(e.index, e.table)
        BY <1>3, <2>1, <2>4, <3>3 DEF IndexesKept
      <4>3. Covers(e.index, e.table)'
        BY <2>4, <2>5, <4>1, <4>2 DEF Covers
      <4>4. Matched(e.index, e.table)'
        BY <1>1, <2>4, <2>5, <4>1, <4>2 DEF Matched
      <4> QED
        BY <4>3, <4>4
    <3> QED
      BY <3>2, <3>3
  <2>7. IndexesKept'
    BY <1>3, <2>6 DEF IndexesKept
  <2>8. ReferencesKept'
    BY <1>1, <1>3, <1>5, <2>1, ReferencesStay DEF Name
  <2> QED
    BY <2>3, <2>7, <2>8
<1> QED
  BY <1>7, <1>8, <1>9, <1>10 DEF DatabaseInv

\* A catalog that does not load.
LEMMA OpenFailsKeeps ==
    ASSUME DatabaseInv, OpenFails
    PROVE  DatabaseInv'
<1>1. /\ Typed /\ RunFits /\ SchemaKept /\ up = "down" /\ up' = "unreadable"
      /\ UNCHANGED <<catalog, saved, savedPast, open, store, past, run, intact, overwritten, checked>>
  BY DEF DatabaseInv, OpenFails, schema, data, history
<1>2. run = Idle /\ run' = Idle /\ run'.op = "idle" /\ open = {}
  BY <1>1 DEF SchemaKept, Idle
<1>3. Typed'
  <2>1. StoreTyped'
    BY <1>1, DataStored DEF Typed, data
  <2> QED
    BY <1>1, <2>1 DEF Typed
<1>4. RunFits' /\ SchemaKept'
  BY <1>1, <1>2 DEF RunFits, Writes, SchemaKept
<1>5. Schema' = Schema
  BY <1>1 DEF Schema
<1>6. ASSUME intact'
      PROVE  FilesKept' /\ IndexesKept' /\ ReferencesKept'
  <2>1. FilesKept /\ IndexesKept /\ ReferencesKept
    BY <1>1, <1>6 DEF DatabaseInv
  <2>2. FilesKept'
    BY <1>1, <1>5, <2>1 DEF FilesKept
  <2>3. ~Refuses /\ \A j : EntriesAfter(j) = store[j] /\ Unfilled(j) = {}
    BY <1>2, NothingToTell
  <2>4. \A j : EntriesAfter(j)' = store'[j] /\ Unfilled(j)' = {}
    BY <1>2, NothingToTellNext
  <2>5. IndexesKept'
    BY <1>1, <1>5, <2>1, <2>3, <2>4, IndexesStay
  <2>6. ReferencesKept'
    BY <1>1, <1>5, <2>1, ReferencesStay
  <2> QED
    BY <2>2, <2>5, <2>6
<1> QED
  BY <1>1, <1>3, <1>4, <1>6 DEF DatabaseInv

-----------------------------------------------------------------------------
(* The invariant holds. *)

\* The prepared catalog is one, and the file has it.
LEMMA PreparedIs ==
    ASSUME NEW p \in Table, NEW c \in Table, NEW i \in Index
    PROVE  IsRegistry(PreparedRegistry(p, c, i))
<1>1. PICK one : one = WithTable(EmptyRegistry, p, NoTable)
  OBVIOUS
<1>2. IsRegistry(one) /\ one.indexes = <<>>
  BY <1>1, EmptyIsRegistry, WithTableIs, SMTT(20) DEF EmptyRegistry
<1>3. PICK two : two = WithTable(one, c, p)
  OBVIOUS
<1>4. IsRegistry(two) /\ two.indexes = <<>> /\ c \in two.tables
  BY <1>2, <1>3, WithTableIs
<1>5. i \notin Registered(two)
  BY <1>4, NoElements DEF Registered
<1>6. IsRegistry(WithIndex(two, i, c))
  BY <1>4, <1>5, WithIndexIs
<1> QED
  BY <1>1, <1>3, <1>6 DEF PreparedRegistry

\* A new directory, and one with two tables and an index.
LEMMA InitInv == Init => DatabaseInv
<1> SUFFICES ASSUME Init
             PROVE  DatabaseInv
  OBVIOUS
<1>1. /\ open = Opened(catalog) /\ store = [n \in Name |-> IF n \in open THEN Empty(n) ELSE NoFile]
      /\ past = [n \in Name |-> {store[n]}] /\ savedPast = {saved} /\ run = Idle /\ up = "up"
      /\ intact = TRUE /\ overwritten = {} /\ checked = {}
  BY DEF Init
<1>2. IsRegistry(catalog) /\ ((saved = NoFile /\ catalog = EmptyRegistry) \/ saved = catalog)
  BY EmptyIsRegistry, PreparedIs DEF Init
<1>3. saved = catalog => saved # NoFile
  BY <1>2, FileAssumption DEF IsRegistry
<1>4. /\ open \subseteq Name /\ open \cap Table = catalog.tables /\ open \cap Index = Registered(catalog)
      /\ \A e \in ToSet(catalog.indexes) : e.index \in open /\ e.table \in open
  BY <1>1, <1>2, AllOpen
<1>5. \A n \in Name : (n \in open => store[n] = Empty(n)) /\ (n \notin open => store[n] = NoFile)
  BY <1>1
<1>6. StoreTyped
  <2>1. \A n \in Name : store[n] \in Kept(n)
    BY <1>5, EmptyKept DEF Kept
  <2> QED
    BY <1>1, <2>1 DEF StoreTyped
<1>7. run.op = "idle"
  BY <1>1 DEF Idle
<1>8. Typed
  BY <1>1, <1>2, <1>4, <1>6, RunKinds DEF Typed
<1>9. RunFits
  BY <1>7 DEF RunFits, Writes
<1>10. SchemaKept
  <2>1. \A n \in open : store[n] # NoFile
    BY <1>4, <1>5, EmptyKept
  <2>2. CASE saved = NoFile /\ catalog = EmptyRegistry
    <3>1. catalog.indexes = <<>> /\ catalog.fkeys = {} /\ open \cap Table = {}
      BY <1>4, <2>2 DEF EmptyRegistry
    <3> QED
      BY <1>1, <1>4, <2>1, <2>2, <3>1 DEF SchemaKept
  <2>3. CASE saved = catalog
    BY <1>1, <1>2, <1>3, <1>4, <2>1, <2>3 DEF SchemaKept
  <2> QED
    BY <1>2, <2>2, <2>3
<1>11. FilesKept
  BY <1>1, <1>5 DEF FilesKept
<1>12. IndexesKept
  <2>1. ~Refuses /\ \A j : EntriesAfter(j) = store[j] /\ Unfilled(j) = {}
    BY <1>1, NothingToTell
  <2>2. ASSUME NEW e \in ToSet(catalog.indexes)
        PROVE  Covers(e.index, e.table) /\ Matched(e.index, e.table)
    <3>1. e.index \in Index /\ e.table \in Table /\ e.index \in Name /\ e.table \in Name
      BY <1>8, EntryNames
    <3>2. EntriesAfter(e.index) = Empty(e.index) /\ store[e.table] = Empty(e.table)
      BY <1>4, <1>5, <2>1, <3>1
    <3> QED
      BY <3>1, <3>2, EmptyIndexes
  <2>3. Schema = catalog
    BY <1>1 DEF Schema
  <2> QED
    BY <2>2, <2>3 DEF IndexesKept
<1>13. ReferencesKept
  BY <1>1 DEF ReferencesKept
<1> QED
  BY <1>8, <1>9, <1>10, <1>11, <1>12, <1>13 DEF DatabaseInv

\* Nothing happens.
LEMMA StutterKeeps ==
    ASSUME DatabaseInv, UNCHANGED vars
    PROVE  DatabaseInv'
<1>1. /\ Typed /\ RunFits /\ SchemaKept
      /\ UNCHANGED <<catalog, saved, savedPast, open, store, past, run, up, intact, overwritten, checked>>
  BY DEF DatabaseInv, vars, schema, data, history
<1>2. Typed'
  <2>1. StoreTyped'
    BY <1>1, DataStored DEF Typed, data
  <2> QED
    BY <1>1, <2>1 DEF Typed
<1>3. RunFits' /\ SchemaKept'
  BY <1>1 DEF RunFits, SchemaKept, Written
<1>4. ASSUME intact'
      PROVE  FilesKept' /\ IndexesKept' /\ ReferencesKept'
  <2>1. FilesKept /\ IndexesKept /\ ReferencesKept
    BY <1>1, <1>4 DEF DatabaseInv
  <2>2. Schema' = Schema
    BY <1>1 DEF Schema
  <2>3. FilesKept'
    BY <1>1, <2>1, <2>2 DEF FilesKept
  <2>4. /\ (Refuses' <=> Refuses)
        /\ \A i, t : (Covers(i, t)' <=> Covers(i, t)) /\ (Matched(i, t)' <=> Matched(i, t))
    BY <1>1 DEF Refuses, Covers, Matched, EntriesAfter, Telling, Unfilled
  <2>5. IndexesKept'
    BY <1>1, <2>1, <2>2, <2>4 DEF IndexesKept
  <2>6. ReferencesKept'
    BY <1>1, <2>1, <2>2, ReferencesStay
  <2> QED
    BY <2>3, <2>5, <2>6
<1> QED
  BY <1>2, <1>3, <1>4 DEF DatabaseInv

\* Every step keeps the invariant.
LEMMA StepInv == DatabaseInv /\ [Next]_vars => DatabaseInv'
<1> SUFFICES ASSUME DatabaseInv, [Next]_vars
             PROVE  DatabaseInv'
  OBVIOUS
<1>1. CASE \E t \in Table, parent \in Table \cup {NoTable} : CreateTable(t, parent)
  BY <1>1, CreateTableKeeps
<1>2. CASE \E i \in Index, t \in Table : CreateIndex(i, t)
  BY <1>2, CreateIndexKeeps
<1>3. CASE \E i \in Index : DropIndex(i)
  BY <1>3, DropIndexKeeps
<1>4. CASE \E t \in Table, pk \in Pk, ref \in Val : Insert(t, pk, ref) \/ InsertRaises(t, pk, ref)
  BY <1>4, InsertKeeps, InsertRaisesKeeps
<1>5. CASE \E t \in Table, where \in Where \cup {Everything} :
             Delete(t, where) \/ \E ref \in Val : Update(t, where, ref)
  <2>1. PICK t \in Table, where \in Where \cup {Everything} :
            Delete(t, where) \/ \E ref \in Val : Update(t, where, ref)
    BY <1>5
  <2>2. CASE Delete(t, where)
    <3>1. /\ up = "up" /\ run = Idle /\ UNCHANGED <<schema, data, up, history>> /\ t \in Table \cap open
          /\ run' = Then([Continues("delete", t, Null, FetchRows(t, where), Null, Null, Null)
                            EXCEPT !.sync = <<>>])
      BY <2>2 DEF Delete, Starts
    <3>2. Null \in Val
      BY DEF Val
    <3> QED
      BY <3>1, <3>2, RowsFound
  <2>3. CASE \E ref \in Val : Update(t, where, ref)
    <3>1. PICK ref \in Val : Update(t, where, ref)
      BY <2>3
    <3>2. /\ up = "up" /\ run = Idle /\ UNCHANGED <<schema, data, up, history>> /\ t \in Table \cap open
          /\ run' = Then([Continues("update", t, ref, FetchRows(t, where), Null, Null, Null)
                            EXCEPT !.sync = <<>>])
      BY <3>1 DEF Update, Starts
    <3> QED
      BY <3>2, RowsFound
  <2> QED
    BY <2>1, <2>2, <2>3
<1>6. CASE UpdateRow \/ DeleteRow \/ DeleteRefused \/ SyncIndex \/ SyncFails
  BY <1>6, UpdateRowKeeps, DeleteRowKeeps, DeleteRefusedKeeps, SyncIndexKeeps, SyncFailsKeeps
<1>7. CASE OpenEngine \/ FillIndex \/ RemoveFiles
  BY <1>7, OpenEngineKeeps, FillIndexKeeps, RemoveFilesKeeps
<1>8. CASE Close \/ Crash \/ Open \/ OpenFails
  BY <1>8, CloseKeeps, CrashKeeps, OpenKeeps, OpenFailsKeeps
<1>9. CASE UNCHANGED vars
  BY <1>9, StutterKeeps
<1> QED
  BY <1>1, <1>2, <1>3, <1>4, <1>5, <1>6, <1>7, <1>8, <1>9 DEF Next

\* The invariant holds through every mix of statements, failures, crashes and
\* reopenings.
THEOREM DatabaseInvariant == Spec => []DatabaseInv
<1>1. Init => DatabaseInv
  BY InitInv
<1>2. DatabaseInv /\ [Next]_vars => DatabaseInv'
  BY StepInv
<1> QED
  BY <1>1, <1>2, PTL DEF Spec

\* The types, and the schema in memory, in the file and in the engines.
LEMMA SchemaIsSound == DatabaseInv => SchemaSound
<1> SUFFICES ASSUME DatabaseInv
             PROVE  SchemaSound
  OBVIOUS
<1>1. Typed /\ SchemaKept
  BY DEF DatabaseInv
<1>2. TypeOK
  <2>1. \A t \in Table : store[t] \in Content \cup {NoFile}
    BY <1>1, StoredKept DEF Kept, Name
  <2>2. \A i \in Index : store[i] \in Lists \cup {NoFile}
    BY <1>1, StoredKept DEF Kept, Name
  <2>3. \A n \in Name : store[n] \in past[n]
    BY <1>1 DEF Typed, StoreTyped
  <2> QED
    BY <1>1, <2>1, <2>2, <2>3 DEF TypeOK, Typed
<1>3. EnginesOpen
  <2> SUFFICES ASSUME Settled, NEW i \in Registered(catalog), IndexedBy(i) \in open
               PROVE  i \in open
    BY DEF EnginesOpen
  <2>1. PICK e \in ToSet(catalog.indexes) : e.index = i
    BY EntryOf
  <2>2. e.table = IndexedBy(i)
    BY <1>1, <2>1, OneEntry DEF Typed, IndexedBy
  <2>3. up = "up" /\ run.op = "idle"
    BY DEF Settled, Idle
  <2> QED
    BY <1>1, <2>1, <2>2, <2>3 DEF SchemaKept
<1>4. SchemaSaved
  <2> SUFFICES ASSUME up = "up", NEW t \in open \cap Table
               PROVE  /\ saved # NoFile /\ t \in saved.tables
                      /\ ParentsOf(saved, t) = ParentsOf(catalog, t)
                      /\ IndexesFor(saved, t) = IndexesFor(catalog, t)
    BY DEF SchemaSaved
  <2>1. /\ saved # NoFile /\ t \in saved.tables
        /\ saved.indexes = catalog.indexes /\ saved.fkeys = catalog.fkeys
    BY <1>1 DEF SchemaKept
  <2> QED
    BY <2>1 DEF ParentsOf, IndexesFor
<1> QED
  BY <1>2, <1>3, <1>4 DEF SchemaSound

\* Between two statements, an index covers the rows of its table, and has
\* nothing else but what an INSERT over a row has left.
LEMMA IndexSettled ==
    ASSUME DatabaseInv, Settled, intact, NEW i \in Registered(catalog) \cap open
    PROVE  /\ i \in Index /\ IndexedBy(i) \in Table \cap open
           /\ store[i] \in Lists /\ store[IndexedBy(i)] \in Content
           /\ \A k \in Key : store[IndexedBy(i)][k] \notin {NoRow, Null} =>
                /\ store[IndexedBy(i)][k] \in Indexable
                /\ k \in ToSet(store[i][store[IndexedBy(i)][k]])
           /\ \A v \in Indexable, k \in Key :
                k \in ToSet(store[i][v]) =>
                    store[IndexedBy(i)][k] = v \/ <<IndexedBy(i), k>> \in overwritten
<1>1. Typed /\ SchemaKept /\ FilesKept /\ IndexesKept /\ up = "up" /\ run = Idle /\ run.op = "idle"
  BY DEF DatabaseInv, Settled, Idle
<1>2. PICK e \in ToSet(catalog.indexes) : e.index = i
  BY EntryOf
<1>3. e.table = IndexedBy(i)
  BY <1>1, <1>2, OneEntry DEF Typed, IndexedBy
<1>4. i \in Index /\ i \in Name /\ e.table \in Table /\ e.table \in Name
  BY <1>1, <1>2, EntryNames
<1>5. e.table \in open
  BY <1>1, <1>2 DEF SchemaKept
<1>6. store[i] # NoFile /\ store[e.table] # NoFile
  BY <1>1, <1>5 DEF SchemaKept
<1>7. store[i] \in Lists /\ store[e.table] \in Content
  BY <1>1, <1>4, <1>6, StoredKept
<1>8. DOMAIN store[i] = Indexable
  BY <1>7, ListsAre
<1>9. ~Refuses /\ EntriesAfter(i) = store[i] /\ Unfilled(i) = {}
  BY <1>1, NothingToTell
<1>10. Schema = catalog
  BY <1>1 DEF Schema
<1>11. Covers(i, e.table) /\ Matched(i, e.table)
  BY <1>1, <1>2, <1>6, <1>9, <1>10 DEF IndexesKept
<1>12. \A k \in Key : store[e.table][k] \notin {NoRow, Null} =>
           store[e.table][k] \in Indexable /\ k \in ToSet(store[i][store[e.table][k]])
  BY <1>8, <1>9, <1>11 DEF Covers
<1>13. \A v \in Indexable, k \in Key :
           k \in ToSet(store[i][v]) => store[e.table][k] = v \/ <<e.table, k>> \in overwritten
  BY <1>8, <1>9, <1>11 DEF Matched
<1> QED
  BY <1>3, <1>4, <1>5, <1>7, <1>12, <1>13

\* A row is in every index of its table.
LEMMA IndexesAreComplete == DatabaseInv => IndexesCoverRows
BY IndexSettled DEF IndexesCoverRows

\* An entry without its row is left over from an INSERT over a row.
LEMMA EntriesAreOfRows == DatabaseInv => StaleOnlyAfterOverwrite
<1> SUFFICES ASSUME DatabaseInv, Settled, intact, NEW i \in Registered(catalog) \cap open,
                    NEW v \in DOMAIN store[i], NEW k \in Key, k \in ToSet(store[i][v])
             PROVE  store[IndexedBy(i)][k] = v \/ <<IndexedBy(i), k>> \in overwritten
  BY DEF StaleOnlyAfterOverwrite
<1>1. store[i] \in Lists
  BY IndexSettled
<1>2. v \in Indexable
  BY <1>1, ListsAre
<1> QED
  BY <1>2, IndexSettled

\* The reference that INSERT checked is good.
LEMMA ReferencesAreGood == DatabaseInv => InsertedReferencesHold
<1> SUFFICES ASSUME DatabaseInv, up = "up", intact, NEW fk \in catalog.fkeys, NEW k \in Key,
                    <<fk[1], k>> \in checked, store[fk[1]][k] # Null
             PROVE  store[fk[2]][store[fk[1]][k]] # NoRow
  BY DEF InsertedReferencesHold
<1>1. ReferencesKept /\ Schema = catalog
  BY DEF DatabaseInv, Schema
<1> QED
  BY <1>1 DEF ReferencesKept

\* Tables in use are in the file of the catalog with their foreign keys and
\* indexes, and the engines of their indexes are open: through refused
\* statements, raised ones, crashes and catalogs that are cut off.
THEOREM SchemaIsAlwaysSound == Spec => []SchemaSound
BY DatabaseInvariant, SchemaIsSound, PTL

\* While no statement is cut short, an index misses no row of its table.
THEOREM IndexesAlwaysCoverRows == Spec => []IndexesCoverRows
BY DatabaseInvariant, IndexesAreComplete, PTL

\* Only an INSERT over a row leaves an entry that its row does not match.
THEOREM StaleEntriesAreOverwritten == Spec => []StaleOnlyAfterOverwrite
BY DatabaseInvariant, EntriesAreOfRows, PTL

\* No DELETE takes away the parent of a row whose reference INSERT has checked,
\* whichever access path it looks through.
THEOREM CheckedReferencesHold == Spec => []InsertedReferencesHold
BY DatabaseInvariant, ReferencesAreGood, PTL

-----------------------------------------------------------------------------
(* The access paths agree with a scan. *)

\* What a condition has.
LEMMA ConditionHas ==
    ASSUME NEW where \in Where
    PROVE  /\ where.col \in {"pk", "ref"} /\ where.op \in {"=", ">", "between"}
           /\ where.op = "=" => where.low # Null
<1>1. CASE where \in [col: {"ref"}, op: {">"}, low: Ref, high: {Null}]
               \cup [col: {"pk"}, op: {"between"}, low: Key, high: Key]
               \cup [col: {"ref"}, op: {"between"}, low: Ref, high: Ref]
  BY <1>1
<1>2. CASE where \in {Equals("pk", k) : k \in Key} \cup {Equals("ref", v) : v \in Ref}
  BY <1>2, ColumnAssumption DEF Equals, Key
<1> QED
  BY <1>1, <1>2 DEF Where

\* The first index of a table, between two statements, for a table none of
\* whose rows was put over another: the keys under a value are those of the
\* rows that have it.
LEMMA IndexExact ==
    ASSUME DatabaseInv, Settled, intact, NEW t \in Table \cap open,
           overwritten \cap ({t} \X Key) = {}, IndexesFor(catalog, t) # <<>>, NEW i,
           i = Head(IndexesFor(catalog, t)).index
    PROVE  /\ i \in Index \cap open /\ store[i] \in Lists
           /\ \A k \in Key : store[t][k] \notin {NoRow, Null} =>
                store[t][k] \in Indexable /\ k \in ToSet(store[i][store[t][k]])
           /\ \A v \in Indexable, k \in Key : k \in ToSet(store[i][v]) => store[t][k] = v
<1>1. Typed /\ SchemaKept /\ up = "up" /\ run.op = "idle"
  BY DEF DatabaseInv, Settled, Idle
<1>2. PICK e : e = Head(IndexesFor(catalog, t))
  OBVIOUS
<1>3. e \in ToSet(catalog.indexes) /\ e.table = t /\ e.index = i
  BY <1>1, <1>2, FirstIndex
<1>4. i \in Registered(catalog) /\ IndexedBy(i) = t
  BY <1>1, <1>3, OneEntry DEF Typed, IndexedBy
<1>5. i \in open
  BY <1>1, <1>3 DEF SchemaKept
<1>6. /\ i \in Index /\ store[i] \in Lists
      /\ \A k \in Key : store[t][k] \notin {NoRow, Null} =>
           store[t][k] \in Indexable /\ k \in ToSet(store[i][store[t][k]])
      /\ \A v \in Indexable, k \in Key :
           k \in ToSet(store[i][v]) => store[t][k] = v \/ <<t, k>> \in overwritten
  BY <1>4, <1>5, IndexSettled
<1>7. \A k \in Key : <<t, k>> \notin overwritten
  OBVIOUS
<1> QED
  BY <1>5, <1>6, <1>7

\* The rows of a table by their keys.
LEMMA RowsThere ==
    ASSUME NEW t, store[t] \in Content, NEW row \in There(t)
    PROVE  /\ row \in Row /\ row.pk \in Key /\ row.ref = store[t][row.pk] /\ row.ref \in Val
           /\ row.ref # NoRow /\ row.pk # Null /\ row["pk"] = row.pk /\ row["ref"] = row.ref
<1>1. PICK k \in Key : store[t][k] # NoRow /\ row = RowOf(t, k)
  BY DEF There
<1>2. row \in Row /\ row.pk = k /\ row.ref = store[t][k] /\ store[t][k] \in Val
  BY <1>1, RowOfType
<1> QED
  BY <1>1, <1>2, ColumnAssumption DEF Key

\* An access path gives the rows that match, each once.
LEMMA FetchExact ==
    ASSUME DatabaseInv, Settled, intact, NEW t \in Table \cap open,
           overwritten \cap ({t} \X Key) = {}, NEW where,
           where.col \in {"pk", "ref"}, where.op \in {"=", ">", "between"},
           where.op = "=" => where.low # Null
    PROVE  /\ FetchRows(t, where) \in Seq(Row) /\ IsInjective(FetchRows(t, where))
           /\ ToSet(FetchRows(t, where)) = {row \in There(t) : Matches(where, row)}
<1>1. Typed /\ SchemaKept /\ up = "up"
  BY DEF DatabaseInv, Settled
<1>2. store[t] \in Content
  BY <1>1, StoredKept DEF SchemaKept, Name
<1>3. PICK low : low = where.low
  OBVIOUS
<1>4. PICK high : high = where.high
  OBVIOUS
<1>5. PICK indexes : indexes = IndexesFor(catalog, t)
  OBVIOUS
<1>6. PICK i : i = Head(indexes).index
  OBVIOUS
<1>7. ASSUME NEW row \in There(t)
      PROVE  /\ where.op = "=" => (Matches(where, row) <=> row[where.col] = low)
             /\ where.op = "between" =>
                  (Matches(where, row) <=> row[where.col] # Null /\ low <= row[where.col] /\ row[where.col] <= high)
  BY <1>3, <1>4 DEF Matches
<1>8. ASSUME NEW keys \in Seq(Key), IsInjective(keys),
             \A row \in There(t) : Matches(where, row) <=> row.pk \in ToSet(keys)
      PROVE  /\ Rows(t, keys) \in Seq(Row) /\ IsInjective(Rows(t, keys))
             /\ ToSet(Rows(t, keys)) = {row \in There(t) : Matches(where, row)}
  BY <1>2, <1>8, RowsOf
<1>9. CASE where.op = "=" /\ where.col = "pk"
  <2>1. PICK keys : keys = IF low \in Key THEN <<low>> ELSE <<>>
    OBVIOUS
  <2>2. keys \in Seq(Key) /\ IsInjective(keys) /\ \A k : k \in ToSet(keys) <=> k \in Key /\ k = low
    <3>1. CASE low \in Key
      <4>1. keys = <<low>>
        BY <2>1, <3>1
      <4> QED
        BY <3>1, <4>1 DEF IsInjective, ToSet
    <3>2. CASE low \notin Key
      BY <2>1, <3>2, NoElements
    <3> QED
      BY <3>1, <3>2
  <2>3. FetchRows(t, where) = Rows(t, keys)
    BY <1>3, <1>9, <2>1 DEF FetchRows
  <2>4. \A row \in There(t) : Matches(where, row) <=> row.pk \in ToSet(keys)
    BY <1>2, <1>7, <1>9, <2>2, RowsThere
  <2> QED
    BY <1>8, <2>2, <2>3, <2>4
<1>10. CASE where.op = "between" /\ where.col = "pk"
  <2>1. PICK keys : keys = Only(AllKeys, {k \in Key : low <= k /\ k <= high})
    OBVIOUS
  <2>2. keys \in Seq(Key) /\ IsInjective(keys) /\ ToSet(keys) = {k \in Key : low <= k /\ k <= high}
    <3>1. ToSet(keys) = Key \cap {k \in Key : low <= k /\ k <= high}
      BY <2>1, AllKeysListed, OnlyOf
    <3> QED
      BY <2>1, <3>1, AllKeysListed, OnlyOf
  <2>3. FetchRows(t, where) = Rows(t, keys)
    BY <1>3, <1>4, <1>10, <2>1 DEF FetchRows
  <2>4. \A row \in There(t) : Matches(where, row) <=> row.pk \in ToSet(keys)
    BY <1>2, <1>7, <1>10, <2>2, RowsThere
  <2> QED
    BY <1>8, <2>2, <2>3, <2>4
<1>11. CASE where.op = "=" /\ where.col = "ref" /\ indexes # <<>>
  <2>1. /\ i \in Index \cap open /\ store[i] \in Lists
        /\ \A k \in Key : store[t][k] \notin {NoRow, Null} =>
             store[t][k] \in Indexable /\ k \in ToSet(store[i][store[t][k]])
        /\ \A v \in Indexable, k \in Key : k \in ToSet(store[i][v]) => store[t][k] = v
    BY <1>5, <1>6, <1>11, IndexExact
  <2>2. PICK keys : keys = LookedUp(i, low)
    OBVIOUS
  <2>3. store[i] # NoFile
    BY <1>1, <2>1 DEF SchemaKept
  <2>4. /\ keys \in Seq(Key) /\ IsInjective(keys)
        /\ low \in Indexable => keys = store[i][low]
        /\ low \notin Indexable => keys = <<>>
    BY <1>1, <2>1, <2>2, <2>3, LookupFinds
  <2>5. FetchRows(t, where) = Rows(t, keys)
    BY <1>3, <1>5, <1>6, <1>11, <2>2 DEF FetchRows
  <2>6. ASSUME NEW row \in There(t)
        PROVE  Matches(where, row) <=> row.pk \in ToSet(keys)
    <3>1. row.pk \in Key /\ row.ref = store[t][row.pk] /\ row.ref # NoRow /\ row["ref"] = row.ref
      BY <1>2, RowsThere
    <3>2. Matches(where, row) <=> row.ref = low
      BY <1>7, <1>11, <3>1
    <3>3. low # Null
      BY <1>3, <1>11
    <3>4. CASE low \in Indexable
      BY <2>1, <2>4, <3>1, <3>2, <3>3, <3>4
    <3>5. CASE low \notin Indexable
      BY <2>1, <2>4, <3>1, <3>2, <3>3, <3>5, NoElements
    <3> QED
      BY <3>4, <3>5
  <2> QED
    BY <1>8, <2>4, <2>5, <2>6
<1>12. CASE where.op = "between" /\ where.col = "ref" /\ indexes # <<>>
  <2>1. /\ i \in Index \cap open /\ store[i] \in Lists
        /\ \A k \in Key : store[t][k] \notin {NoRow, Null} =>
             store[t][k] \in Indexable /\ k \in ToSet(store[i][store[t][k]])
        /\ \A v \in Indexable, k \in Key : k \in ToSet(store[i][v]) => store[t][k] = v
    BY <1>5, <1>6, <1>12, IndexExact
  <2>2. PICK keys : keys = RangeLookup(store[i], low, high)
    OBVIOUS
  <2>3. LookedUpRange(i, low, high) = keys
    BY <2>1, <2>2 DEF LookedUpRange
  <2>4. /\ keys \in Seq(Key)
        /\ \A k : k \in ToSet(keys) <=>
             \E v \in Indexable : low <= v /\ v <= high /\ k \in ToSet(store[i][v])
    BY <2>1, <2>2, RangeFinds
  <2>5. ASSUME NEW u \in Indexable, NEW v \in Indexable, u # v
        PROVE  ToSet(store[i][u]) \cap ToSet(store[i][v]) = {}
    <3>1. store[i][u] \in Seq(Key)
      BY <2>1, ListsAre
    <3>2. ToSet(store[i][u]) \subseteq Key
      BY <3>1 DEF ToSet
    <3> QED
      BY <2>1, <2>5, <3>2
  <2>6. IsInjective(keys)
    <3>1. PICK entries : entries = store[i]
      OBVIOUS
    <3>2. entries \in Lists /\ keys = RangeLookup(entries, low, high)
      BY <2>1, <2>2, <3>1
    <3>3. \A u, v \in Indexable : low <= u /\ u <= high /\ low <= v /\ v <= high /\ u # v =>
              ToSet(entries[u]) \cap ToSet(entries[v]) = {}
      BY <2>5, <3>1
    <3> QED
      BY <3>2, <3>3, RangeFinds
  <2>7. ASSUME NEW row \in There(t)
        PROVE  Matches(where, row) <=> row.pk \in ToSet(keys)
    <3>1. row.pk \in Key /\ row.ref = store[t][row.pk] /\ row.ref # NoRow /\ row["ref"] = row.ref
      BY <1>2, RowsThere
    <3>2. Matches(where, row) <=> row.ref # Null /\ low <= row.ref /\ row.ref <= high
      BY <1>7, <1>12, <3>1
    <3>3. Null \notin Indexable
      BY ColumnAssumption DEF Indexable
    <3> QED
      BY <2>1, <2>4, <3>1, <3>2, <3>3
  <2>8. PICK rows : rows = Rows(t, keys)
    OBVIOUS
  <2>9. rows \in Seq(Row) /\ IsInjective(rows) /\ ToSet(rows) = {row \in There(t) : Matches(where, row)}
    BY <1>8, <2>4, <2>6, <2>7, <2>8
  <2>10. FetchRows(t, where) = ByKey(rows)
    BY <1>3, <1>4, <1>5, <1>6, <1>12, <2>3, <2>8 DEF FetchRows
  <2> QED
    BY <2>9, <2>10, ByKeyKeeps
<1>13. CASE where.op = ">" \/ (where.col = "ref" /\ indexes = <<>>)
  <2>1. FetchRows(t, where) = FullScan(t, where)
    BY <1>5, <1>13 DEF FetchRows
  <2> QED
    BY <1>2, <2>1, ScanFinds
<1> QED
  BY <1>9, <1>10, <1>11, <1>12, <1>13

\* Lists of the same elements, each once, have the same length.
LEMMA SameLength ==
    ASSUME NEW T, NEW a \in Seq(T), NEW b \in Seq(T), IsInjective(a), IsInjective(b), ToSet(a) = ToSet(b)
    PROVE  SameRows(a, b)
BY ElementsCounted DEF SameRows

\* A join gives the pairs that match, each once.
LEMMA JoinExact ==
    ASSUME DatabaseInv, Settled, intact, NEW t \in Table \cap open, NEW l \in Table \cap open,
           overwritten \cap ({t} \X Key) = {}, NEW left \in {"pk", "ref"}, NEW right \in {"pk", "ref"}
    PROVE  JoinAgrees(l, left, t, right)
<1>1. Typed /\ SchemaKept /\ up = "up"
  BY DEF DatabaseInv, Settled
<1>2. store[t] \in Content /\ store[l] \in Content
  BY <1>1, StoredKept DEF SchemaKept, Name
<1>3. /\ Rows(l, AllKeys) \in Seq(Row) /\ IsInjective(Rows(l, AllKeys)) /\ ToSet(Rows(l, AllKeys)) = There(l)
      /\ ToSet(Rows(t, AllKeys)) = There(t) /\ There(t) \subseteq Row
  BY <1>2, AllRows
<1>4. PICK scanned : scanned = Rows(l, AllKeys)
  OBVIOUS
<1>5. PICK outer : outer = Only(scanned, {row \in ToSet(scanned) : row[left] # Null})
  OBVIOUS
<1>6. /\ outer \in Seq(Row) /\ IsInjective(outer)
      /\ ToSet(outer) = {row \in There(l) : row[left] # Null}
  BY <1>3, <1>4, <1>5, OnlyOf
<1>7. PICK inner : inner = [n \in DOMAIN outer |-> FetchRows(t, Equals(right, outer[n][left]))]
  OBVIOUS
<1>8. PICK ss : ss = [n \in DOMAIN outer |-> [m \in DOMAIN inner[n] |-> <<outer[n], inner[n][m]>>]]
  OBVIOUS
<1>9. JoinRows(l, left, t, right) = FlattenSeq(ss)
  <2>1. JoinRows(l, left, t, right) =
          FlattenSeq([n \in DOMAIN outer |->
             [m \in DOMAIN FetchRows(t, Equals(right, outer[n][left])) |->
                 <<outer[n], FetchRows(t, Equals(right, outer[n][left]))[m]>>]])
    BY <1>4, <1>5 DEF JoinRows
  <2>2. ss = [n \in DOMAIN outer |->
             [m \in DOMAIN FetchRows(t, Equals(right, outer[n][left])) |->
                 <<outer[n], FetchRows(t, Equals(right, outer[n][left]))[m]>>]]
    BY <1>7, <1>8
  <2> QED
    BY <2>1, <2>2
<1>10. DOMAIN outer = 1..Len(outer) /\ Len(outer) \in Nat /\ \A n \in DOMAIN outer : outer[n] \in Row /\ outer[n] \in ToSet(outer)
  BY <1>6 DEF ToSet
<1>11. ASSUME NEW n \in DOMAIN outer
       PROVE  /\ inner[n] \in Seq(Row) /\ IsInjective(inner[n])
              /\ ToSet(inner[n]) = {row \in There(t) : row[right] = outer[n][left]}
  <2>1. PICK v : v = outer[n][left]
    OBVIOUS
  <2>2. v # Null
    BY <1>6, <1>10, <2>1
  <2>3. PICK where : where = Equals(right, v)
    OBVIOUS
  <2>4. where.col = right /\ where.op = "=" /\ where.low = v
    BY <2>3 DEF Equals
  <2>5. inner[n] = FetchRows(t, where)
    BY <1>7, <2>1, <2>3
  <2>6. /\ FetchRows(t, where) \in Seq(Row) /\ IsInjective(FetchRows(t, where))
        /\ ToSet(FetchRows(t, where)) = {row \in There(t) : Matches(where, row)}
    BY <2>2, <2>4, FetchExact
  <2>7. \A row \in There(t) : Matches(where, row) <=> row[right] = v
    BY <2>4 DEF Matches
  <2> QED
    BY <2>1, <2>5, <2>6, <2>7
<1>12. ASSUME NEW n \in DOMAIN outer
       PROVE  /\ ss[n] \in Seq(Row \X Row) /\ IsInjective(ss[n])
              /\ \A pair : pair \in ToSet(ss[n]) <=>
                   \E row \in There(t) : row[right] = outer[n][left] /\ pair = <<outer[n], row>>
  <2>1. PICK list : list = inner[n]
    OBVIOUS
  <2>2. PICK o : o = outer[n]
    OBVIOUS
  <2>3. list \in Seq(Row) /\ IsInjective(list) /\ ToSet(list) = {row \in There(t) : row[right] = o[left]}
    BY <1>11, <2>1, <2>2
  <2>4. ss[n] = [m \in DOMAIN list |-> <<o, list[m]>>] /\ o \in Row
    BY <1>8, <1>10, <2>1, <2>2
  <2>5. DOMAIN list = 1..Len(list) /\ Len(list) \in Nat /\ \A m \in 1..Len(list) : list[m] \in Row
    BY <2>3
  <2>6. [m \in DOMAIN list |-> <<o, list[m]>>] \in Seq(Row \X Row)
    BY <2>4, <2>5
  <2>7. IsInjective([m \in DOMAIN list |-> <<o, list[m]>>])
    BY <2>3 DEF IsInjective
  <2>8. \A pair : pair \in ToSet([m \in DOMAIN list |-> <<o, list[m]>>])
                    <=> \E row \in ToSet(list) : pair = <<o, row>>
    BY DEF ToSet
  <2> QED
    BY <2>2, <2>3, <2>4, <2>6, <2>7, <2>8
<1>13. ss \in Seq(Seq(Row \X Row)) /\ DOMAIN ss = DOMAIN outer
  <2> DEFINE L == Seq(Row \X Row)
  <2>1. DOMAIN ss = 1..Len(outer) /\ \A n \in 1..Len(outer) : ss[n] \in L
    BY <1>8, <1>10, <1>12
  <2>2. ss = [n \in 1..Len(outer) |-> ss[n]]
    BY <1>8, <1>10
  <2> HIDE DEF L
  <2>3. ss \in [1..Len(outer) -> L]
    BY <2>1, <2>2
  <2>4. ss \in Seq(L)
    BY <1>10, <2>3
  <2> QED
    BY <1>10, <2>1, <2>4 DEF L
<1>14. Apart(ss)
  <2>1. ASSUME NEW m \in DOMAIN outer, NEW n \in DOMAIN outer, m # n
        PROVE  ToSet(ss[m]) \cap ToSet(ss[n]) = {}
    <3>1. outer[m] # outer[n]
      BY <1>6, <2>1 DEF IsInjective
    <3> SUFFICES ASSUME NEW pair \in ToSet(ss[m]), pair \in ToSet(ss[n])
                 PROVE  FALSE
      OBVIOUS
    <3>2. \E row \in There(t) : pair = <<outer[m], row>>
      BY <1>12
    <3>3. \E row \in There(t) : pair = <<outer[n], row>>
      BY <1>12
    <3> QED
      BY <3>1, <3>2, <3>3
  <2> QED
    BY <1>12, <1>13, <2>1 DEF Apart
<1>15. PICK match : match = {pair \in There(l) \X There(t) :
                                pair[1][left] # Null /\ pair[1][left] = pair[2][right]}
  OBVIOUS
<1>16. ElementsOf(ss) = match
  <2>1. ASSUME NEW pair \in match
        PROVE  pair \in ElementsOf(ss)
    <3>1. PICK o \in There(l), row \in There(t) : pair = <<o, row>> /\ o[left] # Null /\ o[left] = row[right]
      BY <1>15
    <3>2. PICK n \in DOMAIN outer : outer[n] = o
      BY <1>6, <3>1 DEF ToSet
    <3>3. pair \in ToSet(ss[n])
      BY <1>12, <3>1, <3>2
    <3> QED
      BY <1>13, <3>3 DEF ElementsOf
  <2>2. ASSUME NEW pair \in ElementsOf(ss)
        PROVE  pair \in match
    <3>1. PICK n \in DOMAIN outer : pair \in ToSet(ss[n])
      BY <1>13 DEF ElementsOf
    <3>2. PICK row \in There(t) : row[right] = outer[n][left] /\ pair = <<outer[n], row>>
      BY <1>12, <3>1
    <3>3. outer[n] \in There(l) /\ outer[n][left] # Null
      BY <1>6, <1>10
    <3> QED
      BY <1>15, <3>2, <3>3
  <2> QED
    BY <2>1, <2>2
<1>17. PICK joined : joined = JoinRows(l, left, t, right)
  OBVIOUS
<1>18. joined \in Seq(Row \X Row) /\ ToSet(joined) = match /\ IsInjective(joined)
  BY <1>9, <1>13, <1>14, <1>16, <1>17, Flattened
<1>19. Len(joined) = Cardinality(match)
  BY <1>18, ElementsCounted
<1>20. match = {pair \in ToSet(Rows(l, AllKeys)) \X ToSet(Rows(t, AllKeys)) :
                   pair[1][left] # Null /\ pair[1][left] = pair[2][right]}
  BY <1>3, <1>15
<1> QED
  BY <1>17, <1>18, <1>19, <1>20 DEF JoinAgrees

\* Whatever path a query takes, it has the rows of a scan.
LEMMA PathsAgree == DatabaseInv => QueriesAgree
<1> SUFFICES ASSUME DatabaseInv, Settled, intact, NEW t \in catalog.tables \cap open,
                    overwritten \cap ({t} \X Key) = {}
             PROVE  /\ \A where \in Where : where.low \in Values(where.col) => FetchAgrees(t, where)
                    /\ \A l \in catalog.tables \cap open, left, right \in {"pk", "ref"} :
                         JoinAgrees(l, left, t, right)
  BY DEF QueriesAgree
<1>1. Typed /\ SchemaKept /\ up = "up"
  BY DEF DatabaseInv, Settled
<1>2. catalog.tables \subseteq Table
  BY <1>1 DEF Typed, IsRegistry, Registry
<1>3. t \in Table \cap open /\ t \in Name
  BY <1>2 DEF Name
<1>4. store[t] \in Content
  BY <1>1, <1>3, StoredKept DEF SchemaKept
<1>5. ASSUME NEW where \in Where
      PROVE  FetchAgrees(t, where)
  <2>1. /\ FetchRows(t, where) \in Seq(Row) /\ IsInjective(FetchRows(t, where))
        /\ ToSet(FetchRows(t, where)) = {row \in There(t) : Matches(where, row)}
    BY <1>3, ConditionHas, FetchExact
  <2>2. /\ FullScan(t, where) \in Seq(Row) /\ IsInjective(FullScan(t, where))
        /\ ToSet(FullScan(t, where)) = {row \in There(t) : Matches(where, row)}
    BY <1>4, ScanFinds
  <2> QED
    BY <2>1, <2>2, SameLength DEF FetchAgrees
<1>6. ASSUME NEW l \in catalog.tables \cap open, NEW left \in {"pk", "ref"}, NEW right \in {"pk", "ref"}
      PROVE  JoinAgrees(l, left, t, right)
  BY <1>2, <1>3, JoinExact
<1> QED
  BY <1>5, <1>6

\* A lookup by key, by range, through an index, in order, or by a scan, and a
\* join whichever of them it takes, give the same rows: each once, none missing.
THEOREM QueriesAlwaysAgree == Spec => []QueriesAgree
BY DatabaseInvariant, PathsAgree, PTL
=============================================================================
