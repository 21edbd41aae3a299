------------------------------- MODULE NsTable -------------------------------
(***************************************************************************)
(* The namespace table of a subsystem and its per-queue caches             *)
(* (crates/ioutgt-core/src/subsystem.rs).  The control thread changes the  *)
(* table under a write lock and then bumps the generation; an IO queue     *)
(* reads the generation first and takes a snapshot, under the read lock,   *)
(* only if its cache is of another generation.  Between any two of those   *)
(* steps other threads run.                                                *)
(***************************************************************************)
EXTENDS Naturals

CONSTANTS
  Readers,     \* the IO queues
  Nsids,       \* namespace ids
  MaxChanges   \* bound: changes of the table

ASSUME NsAssumption == MaxChanges \in Nat

VARIABLES
  table,       \* Subsystem.namespaces: nsid -> instance, 0 if there is none
  generation,  \* Subsystem.generation
  writer,      \* the control thread: "idle", or in the lock: "swapped", "bumped"
  before,      \* the table before the change under way
  made,        \* instances created
  pc,          \* reader: "idle", "load" or "refresh"
  loaded,      \* get's local generation, 0 outside a refresh
  cacheGen,    \* NsCache.generation
  cacheMap,    \* NsCache.map; NoMap before the first lookup
  got          \* what the reader's last lookup returned

tableVars == <<table, generation, writer, before, made>>
readerVars == <<pc, loaded, cacheGen, cacheMap, got>>
nsVars == <<tableVars, readerVars>>

NoTable == [n \in Nsids |-> 0]
Tables == [Nsids -> Nat]
NoMap == [n \in {} |-> 0]

\* The table starts one generation ahead of every empty cache.
NsInit ==
  /\ table = NoTable /\ before = NoTable /\ generation = 1
  /\ writer = "idle" /\ made = 0
  /\ pc = [r \in Readers |-> "idle"] /\ loaded = [r \in Readers |-> 0]
  /\ cacheGen = [r \in Readers |-> 0] /\ cacheMap = [r \in Readers |-> NoMap]
  /\ got = [r \in Readers |-> NoTable]

---------------------------------------------------------------------------
(* The control thread.                                                     *)

\* Inside the write lock: the clone with one entry changed takes the table's
\* place.  A reader waiting for the lock cannot see it yet.
swap(n, i) ==
  /\ writer = "idle"
  /\ before' = table
  /\ table' = [table EXCEPT ![n] = i]
  /\ writer' = "swapped"
  /\ UNCHANGED <<generation, readerVars>>

add_namespace(n) ==
  /\ table[n] = 0 /\ made < MaxChanges   \* "already exists" changes nothing
  /\ made' = made + 1
  /\ swap(n, made + 1)

remove_namespace(n) ==
  /\ table[n] # 0                        \* "not found" changes nothing
  /\ swap(n, 0)
  /\ UNCHANGED made

\* generation.fetch_add
bump ==
  /\ writer = "swapped"
  /\ generation' = generation + 1
  /\ writer' = "bumped"
  /\ UNCHANGED <<table, before, made, readerVars>>

\* The guard is dropped.  Faulty variant: only once no reader waits for it.
unlock_after_readers ==
  /\ writer = "bumped" /\ \A r \in Readers : pc[r] # "refresh"
  /\ writer' = "idle"
  /\ UNCHANGED <<table, before, generation, made, readerVars>>

unlock ==
  /\ writer = "bumped"
  /\ writer' = "idle"
  /\ UNCHANGED <<table, before, generation, made, readerVars>>

---------------------------------------------------------------------------
(* NsCache::get on an IO queue.                                            *)

Lookup(r) ==
  /\ pc[r] = "idle"
  /\ pc' = [pc EXCEPT ![r] = "load"]
  /\ UNCHANGED <<tableVars, loaded, cacheGen, cacheMap, got>>

\* The generation load, and the answer from the cache unless it is stale.
answer(r, stale) ==
  /\ pc[r] = "load"
  /\ IF stale
       THEN /\ pc' = [pc EXCEPT ![r] = "refresh"]
            /\ loaded' = [loaded EXCEPT ![r] = generation]
            /\ UNCHANGED got
       ELSE /\ pc' = [pc EXCEPT ![r] = "idle"]
            /\ got' = [got EXCEPT ![r] = cacheMap[r]]
            /\ UNCHANGED loaded
  /\ UNCHANGED <<tableVars, cacheGen, cacheMap>>

\* Faulty variant: a filled cache is never stale.
load_trusting(r) == answer(r, cacheMap[r] = NoMap)

load(r) == answer(r, cacheGen[r] # generation \/ cacheMap[r] = NoMap)

\* snapshot() waits for the lock; the cache keeps generation g with it.
fill(r, g) ==
  /\ pc[r] = "refresh" /\ writer = "idle"
  /\ cacheMap' = [cacheMap EXCEPT ![r] = table]
  /\ cacheGen' = [cacheGen EXCEPT ![r] = g]
  /\ got' = [got EXCEPT ![r] = table]
  /\ pc' = [pc EXCEPT ![r] = "idle"]
  /\ loaded' = [loaded EXCEPT ![r] = 0]
  /\ UNCHANGED tableVars

\* Faulty variant: the cache is a generation ahead of what was loaded.
refresh_ahead(r) == fill(r, loaded[r] + 1)

refresh(r) == fill(r, loaded[r])

NsNext ==
  \/ \E n \in Nsids : add_namespace(n) \/ remove_namespace(n)
  \/ bump \/ unlock
  \/ \E r \in Readers : Lookup(r) \/ load(r) \/ refresh(r)

NsSpec == NsInit /\ [][NsNext]_nsVars

\* The lock is held for two steps, and a waiting reader is not passed over for
\* ever by the one writer, the control thread.
NsFairness ==
  /\ WF_nsVars(bump) /\ WF_nsVars(unlock)
  /\ \A r \in Readers : WF_nsVars(load(r)) /\ SF_nsVars(refresh(r))

FairNsSpec == NsSpec /\ NsFairness

---------------------------------------------------------------------------
(* Properties.                                                             *)

NsTypeOK ==
  /\ table \in Tables /\ before \in Tables
  /\ generation \in Nat \ {0} /\ made \in 0 .. MaxChanges
  /\ writer \in {"idle", "swapped", "bumped"}
  /\ pc \in [Readers -> {"idle", "load", "refresh"}]
  /\ loaded \in [Readers -> Nat] /\ cacheGen \in [Readers -> Nat]
  /\ cacheMap \in [Readers -> Tables \cup {NoMap}]
  /\ got \in [Readers -> Tables]

\* The table as the readers know it: a change counts from its bump.
Current == IF writer = "swapped" THEN before ELSE table

\* A cache of the current generation holds the current table: a lookup that
\* finds the generation unchanged may use its cache.
CacheCoherent ==
  \A r \in Readers :
    cacheGen[r] = generation /\ cacheMap[r] # NoMap => cacheMap[r] = Current

\* The cache implements the register: every lookup returns the table of one
\* instant between its start and its end.
Register == INSTANCE NsRegister
  WITH table <- Current, looking <- {r \in Readers : pc[r] # "idle"}, got <- got

ReadsAreAtomic == Register!RegSpec

\* A lookup ends, however often the table changes under it.
LookupReturns == \A r \in Readers : pc[r] # "idle" ~> pc[r] = "idle"
=============================================================================
