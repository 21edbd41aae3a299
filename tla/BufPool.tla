------------------------------ MODULE BufPool ------------------------------
(***************************************************************************)
(* The per-queue page arena that slots lease data buffers from             *)
(* (ioutgt-core: pool.rs).  A run is a span of contiguous pages.  The free *)
(* list, kept sorted by start in the code, is the set of its runs; a lease *)
(* is one run, or up to MaxSegs of them.                                   *)
(***************************************************************************)
EXTENDS Naturals, FiniteSets, FiniteSetsExt

CONSTANTS
  Tags,        \* command slots
  NPages,      \* BufPool.npages
  ArenaPages,  \* pages reserve_arena takes for the send headers
  MaxSegs      \* MAX_SEGS, 32 in the code

VARIABLES
  free,       \* BufPool.free
  freePages,  \* BufPool.free_pages
  lease,      \* tag -> the runs its SlotData owns, {} if none
  waiters     \* tags whose task is parked in alloc_await

poolVars == <<free, freePages, lease, waiters>>

PagesIn(runs) == UNION {r.start .. r.start + r.len - 1 : r \in runs}
PagesOf(runs) == Cardinality(PagesIn(runs))

\* Take n pages off the front of run r.
carve(f, r, n) ==
  (f \ {r}) \cup IF r.len = n THEN {}
                 ELSE {[start |-> r.start + n, len |-> r.len - n]}

\* BufPool::new followed by reserve_arena, which takes its pages for good.
PoolInit ==
  /\ free = carve({[start |-> 0, len |-> NPages]}, [start |-> 0, len |-> NPages],
                  ArenaPages)
  /\ freePages = NPages - ArenaPages
  /\ lease = [t \in Tags |-> {}]
  /\ waiters = {}

-----------------------------------------------------------------------------
\* Faulty variant: the run is not merged with the one before it.
insertRunForward(run, f) ==
  LET next == {r \in f : run.start + run.len = r.start}
  IN  (f \ next)
        \cup {[start |-> run.start,
               len |-> PagesOf({run} \cup next)]}

\* insert_run: merge with the run that follows and the one that precedes.
insertRun(run, f) ==
  LET next == {r \in f : run.start + run.len = r.start}
      prev == {r \in f : r.start + r.len = run.start}
  IN  (f \ (next \cup prev))
        \cup {[start |-> Min({r.start : r \in {run} \cup prev}),
               len |-> PagesOf({run} \cup next \cup prev)]}

\* The runs a scattered request of n pages takes: from the lowest start, until
\* they hold it.
scatterRuns(f, n) == {r \in f : PagesOf({q \in f : q.start < r.start}) < n}

\* BufPool::alloc: the runs leased and the free list left; no run when the
\* pool cannot serve the request.
Refused == [segs |-> {}, free |-> free]
alloc(n) ==
  LET fits == {r \in free : r.len >= n}
      first == CHOOSE r \in fits : \A q \in fits : r.start <= q.start
      taken == scatterRuns(free, n)
      last == CHOOSE r \in taken : \A q \in taken : q.start <= r.start
      part == n - PagesOf(taken \ {last})
  IN  IF freePages < n THEN Refused
      ELSE IF fits # {}
      THEN [segs |-> {[start |-> first.start, len |-> n]},
            free |-> carve(free, first, n)]
      ELSE IF Cardinality(taken) > MaxSegs THEN Refused
      ELSE [segs |-> (taken \ {last}) \cup {[start |-> last.start, len |-> part]},
            free |-> carve(free \ (taken \ {last}), last, part)]

\* A successful alloc installed in a slot (make_lease, set_data).
leased(t, a) ==
  /\ free' = a.free
  /\ freePages' = freePages - PagesOf(a.segs)
  /\ lease' = [lease EXCEPT ![t] = a.segs]

\* SlotData::drop: free_segs returns the pages of a lease and wakes every
\* parked allocator; a private buffer returns none.
dropLease(t) ==
  /\ free' = FoldSet(insertRun, free, lease[t])
  /\ freePages' = freePages + PagesOf(lease[t])
  /\ lease' = [lease EXCEPT ![t] = {}]
  /\ waiters' = IF lease[t] = {} THEN waiters ELSE {}

-----------------------------------------------------------------------------
(* Every page is in the send arena, in one free run or in one lease; no    *)
(* two free runs touch, so a request that fits in contiguous free pages is *)
(* never scattered or refused (pool.rs: "kept sorted by `start` and        *)
(* coalesced"); and the counter alloc tests first agrees with the list.    *)
PoolExact ==
  /\ \A r, q \in free : r.start + r.len # q.start
  /\ freePages = PagesOf(free)
  /\ PagesIn(free) \cup UNION {PagesIn(lease[t]) : t \in Tags}
       = ArenaPages .. NPages - 1
  /\ \A t \in Tags :
        /\ PagesIn(lease[t]) \cap PagesIn(free) = {}
        /\ \A u \in Tags \ {t} : PagesIn(lease[t]) \cap PagesIn(lease[u]) = {}
=============================================================================
