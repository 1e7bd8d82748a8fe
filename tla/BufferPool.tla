------------------------------ MODULE BufferPool ------------------------------
(***************************************************************************)
(* BufferPool (src/src/buffer_pool.py): what each call makes of the pool.  *)
(* The OrderedDict is its order, least recently used first, and a frame    *)
(* for each of its page ids.                                               *)
(***************************************************************************)
EXTENDS Naturals, Sequences, SequencesExt, Functions

CONSTANTS Capacity

ASSUME CapacityAssumption == Capacity \in Nat \ {0}

EmptyPool == [order |-> <<>>, frames |-> <<>>]

Cached(pool, id) == id \in DOMAIN pool.frames
Size(pool) == Len(pool.order)
Without(order, id) == RemoveFirst(order, id)
PinnedIds(pool) == {id \in DOMAIN pool.frames : pool.frames[id].pins > 0}

Touched_Stays(pool, id) == pool

\* get: the frame becomes the most recently used.
Touched(pool, id) == [pool EXCEPT !.order = Append(Without(@, id), id)]

Victims_IgnoringPins(pool, id) ==
    IF Cached(pool, id) \/ Size(pool) < Capacity THEN {} ELSE {Head(pool.order)}

\* _evict_one when the pool is full: the least recently used frame that is not
\* pinned; none if all are.
Victims(pool, id) ==
    LET free == {n \in DOMAIN pool.order : pool.frames[pool.order[n]].pins = 0}
    IN  IF Cached(pool, id) \/ Size(pool) < Capacity THEN {}
        ELSE {pool.order[n] : n \in {m \in free : \A other \in free : m <= other}}

\* put
Stored(pool, id, page, dirty) ==
    IF Cached(pool, id)
    THEN [Touched(pool, id) EXCEPT !.frames[id].page = page,
                                   !.frames[id].dirty = @ \/ dirty]
    ELSE LET gone == Victims(pool, id)
             kept == IF gone = {} THEN pool.order ELSE Without(pool.order, CHOOSE v \in gone : TRUE)
         IN  [order |-> Append(kept, id),
              frames |-> [other \in (DOMAIN pool.frames \ gone) \cup {id} |->
                            IF other = id THEN [page |-> page, dirty |-> dirty, pins |-> 0]
                            ELSE pool.frames[other]]]

\* mark_dirty, clear_dirty, pin and unpin do nothing to a page that is not there.
MarkedDirty(pool, id) == [pool EXCEPT !.frames[id].dirty = TRUE]
Pinned(pool, id) == [pool EXCEPT !.frames[id].pins = @ + 1]
Unpinned(pool, id) == [pool EXCEPT !.frames[id].pins = IF @ > 0 THEN @ - 1 ELSE 0]

DirtyIds(pool) == {id \in DOMAIN pool.frames : pool.frames[id].dirty}
Cleaned(pool) ==
    [pool EXCEPT !.frames = [id \in DOMAIN @ |-> [@[id] EXCEPT !.dirty = FALSE]]]
=============================================================================
