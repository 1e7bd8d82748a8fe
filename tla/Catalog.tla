------------------------------- MODULE Catalog -------------------------------
(***************************************************************************)
(* The schema registry (src/src/catalog.py): what each call makes of it.   *)
(* Every table has the columns (id INT PRIMARY KEY, ref INT), and ref may  *)
(* be declared REFERENCES another table (id); an index is on ref.          *)
(***************************************************************************)
EXTENDS OrderedLists

CONSTANTS Table, Index, NoTable

ASSUME NoTableAssumption == NoTable \notin Table

Registry == [tables : SUBSET Table, fkeys : SUBSET (Table \X Table),
             indexes : Seq([index : Index, table : Table])]

\* _tables, _fkeys (child, parent), and _indexes in the order of their creation.
EmptyRegistry == [tables |-> {}, fkeys |-> {}, indexes |-> <<>>]

\* "Foreign key references unknown table" is raised for any other parent; the
\* table itself has been registered by then.
ParentKnown(c, t, parent) == parent \in c.tables \cup {t, NoTable}

\* create_table: the table stays registered when its foreign key is refused.
WithTable(c, t, parent) ==
    [c EXCEPT !.tables = @ \cup {t},
              !.fkeys = IF parent # NoTable /\ ParentKnown(c, t, parent)
                        THEN @ \cup {<<t, parent>>} ELSE @]

WithIndex(c, i, t) == [c EXCEPT !.indexes = Append(@, [index |-> i, table |-> t])]
WithoutIndex(c, i) == [c EXCEPT !.indexes = Only(@, {e \in ToSet(@) : e.index # i})]

Registered(c) == {e.index : e \in ToSet(c.indexes)}
TableOf(c, i) == (CHOOSE e \in ToSet(c.indexes) : e.index = i).table

\* get_indexes_for_table, get_fkeys_from and get_fkeys_to
IndexesFor(c, t) == Only(c.indexes, {e \in ToSet(c.indexes) : e.table = t})
ParentsOf(c, t) == {p \in Table : <<t, p>> \in c.fkeys}
ChildrenOf(c, t) == {d \in Table : <<d, t>> \in c.fkeys}

IsRegistry(c) ==
    /\ c \in Registry
    /\ \A e \in ToSet(c.indexes) : e.table \in c.tables
    /\ \A m, n \in DOMAIN c.indexes : c.indexes[m].index = c.indexes[n].index => m = n
=============================================================================
