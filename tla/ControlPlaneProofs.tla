------------------------- MODULE ControlPlaneProofs -------------------------
(***************************************************************************)
(* Proofs about what the queues of all reactors share.                     *)
(*                                                                         *)
(* The namespace cache is coherent and its lookups are atomic, for any     *)
(* number of queues, namespace ids and changes.                            *)
(*                                                                         *)
(* Controller ids are exclusive, entries are reaped with their connection, *)
(* IO queues are distinct and a Connect is refused only by a full slice,   *)
(* for any slice of ids and any number of connections.                     *)
(*                                                                         *)
(* A host heard from within every timeout is not taken for dead, and a     *)
(* silent one is noticed in bounded time, for any timeouts, ticks and      *)
(* number of IO queues.                                                    *)
(***************************************************************************)
EXTENDS NsTable, Registry, KeepAlive, TLAPS

-----------------------------------------------------------------------------
(* The namespace table.                                                    *)

\* What the change under way does to the table: one entry comes or goes.
OneEntryChanges ==
  writer = "swapped" =>
    \E n \in Nsids : /\ table = [before EXCEPT ![n] = table[n]]
                     /\ before[n] = 0 <=> table[n] # 0

\* No reader knows a generation that does not exist yet.
GenerationsPast ==
  \A r \in Readers : cacheGen[r] <= generation /\ loaded[r] <= generation

\* CacheCoherent is not inductive by itself: a bump must find no cache of the
\* generation it creates, and a refresh stores the generation it loaded.
NsInv == NsTypeOK /\ CacheCoherent /\ OneEntryChanges /\ GenerationsPast

---------------------------------------------------------------------------
(* The invariant.                                                          *)

\* At the start every cache is empty and of generation 0.
LEMMA NsInitInv == NsInit => NsInv
  BY NsAssumption DEF NsInit, NsInv, NsTypeOK, CacheCoherent, OneEntryChanges,
    GenerationsPast, NoTable, Tables

\* add_namespace and remove_namespace hide their change behind the lock.
LEMMA SwapInv ==
  ASSUME NsInv, NEW n \in Nsids, NEW i \in Nat, swap(n, i),
         made' \in 0 .. MaxChanges, table[n] = 0 <=> i # 0
  PROVE  NsInv' /\ Current' = Current
<1> USE NsAssumption
<1>1. NsTypeOK'
  BY Zenon DEF NsInv, NsTypeOK, swap, readerVars, Tables
<1>2. Current' = Current
  BY Zenon DEF swap, Current
<1>3. CacheCoherent' /\ GenerationsPast'
  BY <1>2, Zenon DEF NsInv, CacheCoherent, GenerationsPast, swap, readerVars
<1>4. OneEntryChanges'
  BY Zenon DEF NsInv, NsTypeOK, OneEntryChanges, swap, Tables
<1> QED BY <1>1, <1>2, <1>3, <1>4, Zenon DEF NsInv

\* No cache is of the generation a bump creates.
LEMMA BumpInv == NsInv /\ bump => NsInv'
  <1> SUFFICES ASSUME NsInv, bump PROVE NsInv'
    BY Zenon
  <1>1. NsTypeOK'
    BY DEF NsInv, NsTypeOK, bump, readerVars
  <1>2. \A r \in Readers : cacheGen'[r] # generation'
    BY DEF NsInv, NsTypeOK, GenerationsPast, bump, readerVars
  <1>3. GenerationsPast'
    BY DEF NsInv, NsTypeOK, GenerationsPast, bump, readerVars
  <1> QED BY <1>1, <1>2, <1>3, Zenon DEF NsInv, CacheCoherent, OneEntryChanges, bump

\* Leaving the lock changes nothing a reader knows.
LEMMA UnlockInv == NsInv /\ unlock => NsInv' /\ Current' = Current
  BY Zenon DEF NsInv, NsTypeOK, CacheCoherent, OneEntryChanges, GenerationsPast,
    Current, unlock, readerVars

\* A lookup that starts changes no cache.
LEMMA LookupInv == \A r \in Readers : NsInv /\ Lookup(r) => NsInv'
  BY DEF NsInv, NsTypeOK, CacheCoherent, OneEntryChanges, GenerationsPast,
    Current, Lookup, tableVars

\* The generation load keeps what it read and answers from a coherent cache.
LEMMA LoadInv == \A r \in Readers : NsInv /\ load(r) => NsInv'
  <1> SUFFICES ASSUME NEW r \in Readers, NsInv, load(r) PROVE NsInv'
    BY Zenon
  <1>1. NsTypeOK'
    BY Zenon DEF NsInv, NsTypeOK, load, answer, tableVars
  <1>2. GenerationsPast'
    BY DEF NsInv, NsTypeOK, GenerationsPast, load, answer, tableVars
  <1>3. CacheCoherent' /\ OneEntryChanges'
    BY Zenon DEF NsInv, CacheCoherent, OneEntryChanges, Current, load, answer, tableVars
  <1> QED BY <1>1, <1>2, <1>3, Zenon DEF NsInv

\* A refresh stores a table at least as new as the generation beside it.
LEMMA RefreshInv == \A r \in Readers : NsInv /\ refresh(r) => NsInv'
  <1> SUFFICES ASSUME NEW r \in Readers, NsInv, refresh(r) PROVE NsInv'
    BY Zenon
  <1>1. NsTypeOK'
    BY Zenon DEF NsInv, NsTypeOK, refresh, fill, tableVars
  <1>2. GenerationsPast'
    BY DEF NsInv, NsTypeOK, GenerationsPast, refresh, fill, tableVars
  <1>3. CacheCoherent'
    BY Zenon DEF NsInv, NsTypeOK, CacheCoherent, Current, refresh, fill, tableVars
  <1>4. OneEntryChanges'
    BY Zenon DEF NsInv, OneEntryChanges, refresh, fill, tableVars
  <1> QED BY <1>1, <1>2, <1>3, <1>4, Zenon DEF NsInv

\* The inductive invariant holds throughout.
THEOREM NsTableCorrect == NsSpec => []NsInv
<1>1. NsInit => NsInv
  BY NsInitInv, Zenon
<1>2. NsInv /\ [NsNext]_nsVars => NsInv'
  <2> SUFFICES ASSUME NsInv, [NsNext]_nsVars PROVE NsInv'
    BY Zenon
  <2>1. CASE \E n \in Nsids : add_namespace(n)
    <3>1. PICK n \in Nsids : add_namespace(n)
      BY <2>1, Zenon
    <3> QED BY <3>1, SwapInv, NsAssumption
      DEF add_namespace, NsInv, NsTypeOK
  <2>2. CASE \E n \in Nsids : remove_namespace(n)
    <3>1. PICK n \in Nsids : remove_namespace(n)
      BY <2>2, Zenon
    <3> QED BY <3>1, SwapInv, Zenon DEF remove_namespace, NsInv, NsTypeOK
  <2>3. CASE bump
    BY <2>3, BumpInv, Zenon
  <2>4. CASE unlock
    BY <2>4, UnlockInv, Zenon
  <2>5. CASE \E r \in Readers : Lookup(r) \/ load(r) \/ refresh(r)
    BY <2>5, LookupInv, LoadInv, RefreshInv, Zenon
  <2>6. CASE UNCHANGED nsVars
    BY <2>6, Zenon DEF nsVars, tableVars, readerVars, NsInv, NsTypeOK, CacheCoherent,
      OneEntryChanges, GenerationsPast, Current
  <2> QED BY <2>1, <2>2, <2>3, <2>4, <2>5, <2>6, Zenon DEF NsNext
<1> QED BY <1>1, <1>2, PTL DEF NsSpec

\* A cache of the current generation holds the current table.
THEOREM CacheAlwaysCoherent == NsSpec => []CacheCoherent
<1>1. NsInv => CacheCoherent
  BY Zenon DEF NsInv
<1> QED BY <1>1, NsTableCorrect, PTL

---------------------------------------------------------------------------
(* The refinement: a change takes effect at its bump, a lookup at its      *)
(* generation load or at its snapshot.                                     *)

\* Every lookup of the generation-validated cache is an atomic read.
THEOREM CacheImplementsRegister == NsSpec => ReadsAreAtomic
<1>1. NsInit => Register!RegInit
  BY Zenon DEF NsInit, Register!RegInit, Current, NoTable, Register!NoTable
<1>2. NsInv /\ NsInv' /\ [NsNext]_nsVars => [Register!RegNext]_(Register!regVars)
  <2> SUFFICES ASSUME NsInv, NsInv', [NsNext]_nsVars
               PROVE  [Register!RegNext]_(Register!regVars)
    BY Zenon
  <2> USE DEF Register!regVars, Register!RegNext
  <2>1. CASE \E n \in Nsids : add_namespace(n)
    <3>1. PICK n \in Nsids : add_namespace(n)
      BY <2>1, Zenon
    <3>2. Current' = Current
      BY <3>1, SwapInv, NsAssumption DEF add_namespace, NsInv, NsTypeOK
    <3> QED BY <3>1, <3>2, Zenon DEF add_namespace, swap, readerVars
  <2>2. CASE \E n \in Nsids : remove_namespace(n)
    <3>1. PICK n \in Nsids : remove_namespace(n)
      BY <2>2, Zenon
    <3>2. Current' = Current
      BY <3>1, SwapInv, Zenon DEF remove_namespace, NsInv, NsTypeOK
    <3> QED BY <3>1, <3>2, Zenon DEF remove_namespace, swap, readerVars
  <2>3. CASE bump
    BY <2>3, Zenon DEF bump, readerVars, Current, NsInv, OneEntryChanges, Register!Change
  <2>4. CASE unlock
    BY <2>4, UnlockInv, Zenon DEF unlock, readerVars
  <2>5. CASE \E r \in Readers : Lookup(r)
    BY <2>5 DEF Lookup, tableVars, Current, NsInv, NsTypeOK, Register!Begin
  <2>6. CASE \E r \in Readers : load(r)
    <3>1. PICK r \in Readers : load(r)
      BY <2>6, Zenon
    <3>2. CASE pc'[r] = "refresh"
      BY <3>1, <3>2 DEF load, answer, tableVars, Current, NsInv, NsTypeOK
    <3>3. CASE pc'[r] = "idle"
      <4>1. Register!Return(r)
        BY <3>1, <3>3 DEF load, answer, tableVars, Current, NsInv, NsTypeOK,
          CacheCoherent, Register!Return
      <4> QED BY <4>1, Zenon
    <3> QED BY <3>1, <3>2, <3>3, Zenon DEF load, answer, NsInv, NsTypeOK
  <2>7. CASE \E r \in Readers : refresh(r)
    <3>1. PICK r \in Readers : refresh(r)
      BY <2>7, Zenon
    <3>2. Register!Return(r)
      BY <3>1, Zenon DEF refresh, fill, tableVars, Current, NsInv, NsTypeOK,
        Register!Return
    <3> QED BY <3>2, Zenon
  <2>8. CASE UNCHANGED nsVars
    BY <2>8, Zenon DEF nsVars, tableVars, readerVars, Current
  <2> QED BY <2>1, <2>2, <2>3, <2>4, <2>5, <2>6, <2>7, <2>8, Zenon DEF NsNext
<1> QED BY <1>1, <1>2, NsTableCorrect, PTL
      DEF NsSpec, ReadsAreAtomic, Register!RegSpec

-----------------------------------------------------------------------------
(* The controller registry.                                                *)

\* An IO queue with a Connect names an id of the slice, and a live one has
\* the id of the controller it serves while that controller lives.  Without
\* it a new controller might inherit the queues of an old one.
ServesBound ==
  \A q \in IoConns :
    /\ io[q].phase \in {"open", "live"} => io[q].cntlid \in Cntlids
    /\ io[q].phase = "live" =>
         /\ io[q].serves \in AdminConns
         /\ admin[io[q].serves].phase = "open" =>
              admin[io[q].serves].cntlid = io[q].cntlid
    /\ io[q].phase = "followed" => io[q].serves \in AdminConns

RegistryInv ==
  /\ RegistryTypeOK /\ OwnEntry /\ NoOrphanEntry /\ IoQueuesDistinct
  /\ OnlyOrphansFollow /\ ServesBound

---------------------------------------------------------------------------
(* The scan of allocate.                                                   *)

\* The remainder allocate's index is computed with.
LEMMA Remainder ==
  ASSUME NEW n \in Nat \ {0}, NEW k \in 0 .. n - 1
  PROVE  k % n = k /\ (k + n) % n = k
  OBVIOUS

\* allocate looks at ids of the slice only.
LEMMA ScannedInSlice ==
  ASSUME nextId \in CntlidMin .. CntlidMax + 1, NEW o \in Scan
  PROVE  Scanned(o) \in Cntlids
  <1>1. /\ Span \in Nat \ {0} /\ o \in Nat
        /\ Clamped(nextId) - CntlidMin \in Nat
    BY RegistryAssumption DEF Span, Scan, Clamped
  <1> DEFINE x == Clamped(nextId) - CntlidMin + o
  <1>2. x \in Nat
    BY <1>1
  <1>3. x % Span \in 0 .. Span - 1
    BY <1>1, <1>2
  <1> QED BY <1>3, RegistryAssumption DEF Scanned, Cntlids, Span

\* And at every one of them, wherever it starts.
LEMMA ScanIsComplete ==
  ASSUME nextId \in CntlidMin .. CntlidMax + 1, NEW c \in Cntlids
  PROVE  \E o \in Scan : Scanned(o) = c
  <1> DEFINE s == Clamped(nextId) - CntlidMin
             k == c - CntlidMin
             o == IF k >= s THEN k - s ELSE k - s + Span
  <1>1. Span \in Nat \ {0} /\ s \in 0 .. Span - 1 /\ k \in 0 .. Span - 1
    BY RegistryAssumption DEF Span, Clamped, Cntlids
  <1>2. k % Span = k /\ (k + Span) % Span = k
    BY <1>1, Remainder, Zenon
  <1> HIDE DEF s, k
  <1>3. o \in Scan /\ (s + o = k \/ s + o = k + Span)
    BY <1>1 DEF Scan
  <1>4. (s + o) % Span = k
    BY <1>2, <1>3, Zenon
  <1>5. Scanned(o) = c
    BY <1>4, RegistryAssumption DEF Scanned, s, k, Cntlids
  <1> QED BY <1>3, <1>5, Zenon

---------------------------------------------------------------------------
(* The invariant.                                                          *)

\* At the start no id is taken.
LEMMA RegistryInitInv == RegistryInit => RegistryInv
  BY RegistryAssumption DEF RegistryInit, RegistryInv, RegistryTypeOK, Entries,
    AdminStates, IoStates, OwnEntry,
    NoOrphanEntry, IoQueuesDistinct, ServesBound, OnlyOrphansFollow, contains, NoEntry, NewAdmin,
    NewRegs, NewIo, Cntlids

\* A step that changes nothing keeps it.
LEMMA RegistryKept == RegistryInv /\ UNCHANGED registryVars => RegistryInv'
  BY SMTT(20) DEF registryVars, RegistryInv, RegistryTypeOK, Entries, AdminStates,
    IoStates, OwnEntry, NoOrphanEntry,
    IoQueuesDistinct, ServesBound, OnlyOrphansFollow, contains

\* A Connect takes a vacant id, which no open connection and no queue that
\* serves one refers to.
LEMMA ConnectAdminInv ==
  \A a \in AdminConns : RegistryInv /\ ConnectAdmin(a) => RegistryInv'
  <1> SUFFICES ASSUME NEW a \in AdminConns, RegistryInv, ConnectAdmin(a)
               PROVE  RegistryInv'
    BY Zenon
  <1> USE RegistryAssumption DEF RegistryInv
  <1>1. CASE \E h \in Hosts, max \in {0, MaxQid}, o \in Scan :
               /\ allocate(a, h, max, o)
               /\ admin' = [admin EXCEPT ![a].cntlid = Scanned(o),
                                         ![a].status = "success"]
    <2>1. PICK h \in Hosts, max \in {0, MaxQid}, o \in Scan :
               /\ allocate(a, h, max, o)
               /\ admin' = [admin EXCEPT ![a].cntlid = Scanned(o),
                                         ![a].status = "success"]
      BY <1>1, Zenon
    <2>2. PICK c \in Cntlids : c = Scanned(o)
      BY ScannedInSlice, Zenon DEF RegistryTypeOK
    <2>3. /\ entry' = [entry EXCEPT ![c] =
                        [owner |-> a, host |-> h, maxQid |-> max, qids |-> {0}]]
          /\ nextId' = c + 1 /\ ~contains(c)
          /\ admin' = [admin EXCEPT ![a].cntlid = c, ![a].status = "success"]
          /\ regs' = regs /\ io' = io /\ admin[a].phase = "open" /\ admin[a].cntlid = 0
      BY <2>1, <2>2, Zenon DEF allocate, ConnectAdmin
    <2>4. RegistryTypeOK'
      <3>1. [owner |-> a, host |-> h, maxQid |-> max, qids |-> {0}] \in Entries
        BY DEF Entries
      <3>2. nextId' \in CntlidMin .. CntlidMax + 1
        BY <2>3 DEF Cntlids
      <3>3. entry' \in [Cntlids -> Entries]
        BY <2>3, <3>1, Zenon DEF RegistryTypeOK
      <3>4. [admin[a] EXCEPT !.cntlid = c, !.status = "success"] \in AdminStates
        BY ZenonT(20) DEF RegistryTypeOK, AdminStates
      <3>5. admin' \in [AdminConns -> AdminStates]
        BY <2>3, <3>4, Zenon DEF RegistryTypeOK
      <3> QED BY <2>3, <3>2, <3>3, <3>5, Zenon DEF RegistryTypeOK
    <2>5. OwnEntry' /\ NoOrphanEntry'
      BY <2>3 DEF RegistryTypeOK, Entries, AdminStates, IoStates, OwnEntry,
        NoOrphanEntry, contains, Cntlids
    <2>6. ServesBound' /\ IoQueuesDistinct'
      BY <2>3 DEF RegistryTypeOK, Entries, AdminStates, IoStates, ServesBound,
        IoQueuesDistinct, Cntlids
    <2>7. \A b \in AdminConns : admin'[b].phase = admin[b].phase
      BY <2>3 DEF RegistryTypeOK, AdminStates
    <2>8. OnlyOrphansFollow'
      BY <2>3, <2>7, Zenon DEF OnlyOrphansFollow, ServesBound
    <2> QED BY <2>4, <2>5, <2>6, <2>8, Zenon
  <1>2. CASE admin' = [admin EXCEPT ![a].status = "busy"]
               /\ UNCHANGED <<entry, nextId>>
    <2>1. /\ \A b \in AdminConns : /\ admin'[b].phase = admin[b].phase
                                   /\ admin'[b].cntlid = admin[b].cntlid
          /\ UNCHANGED <<entry, nextId, regs, io>>
      BY <1>2, Zenon DEF ConnectAdmin, RegistryTypeOK, AdminStates
    <2>2. [admin[a] EXCEPT !.status = "busy"] \in AdminStates
      BY DEF RegistryTypeOK, AdminStates
    <2>3. RegistryTypeOK'
      BY <1>2, <2>1, <2>2, Zenon DEF RegistryTypeOK
    <2>4. OwnEntry'
      BY <2>1, Zenon DEF OwnEntry
    <2>5. NoOrphanEntry'
      BY <2>1 DEF NoOrphanEntry, contains, RegistryTypeOK, Entries
    <2>6. ServesBound' /\ IoQueuesDistinct' /\ OnlyOrphansFollow'
      BY <2>1 DEF ServesBound, IoQueuesDistinct, OnlyOrphansFollow
    <2> QED BY <2>3, <2>4, <2>5, <2>6, Zenon
  <1> QED BY <1>1, <1>2, Zenon DEF ConnectAdmin

\* A CC write stays in the registers.
LEMMA SetCcInv == \A a \in AdminConns : RegistryInv /\ SetCc(a) => RegistryInv'
  <1> SUFFICES ASSUME NEW a \in AdminConns, RegistryInv, SetCc(a)
               PROVE  RegistryInv'
    BY Zenon
  <1>1. PICK en \in BOOLEAN, shn \in BOOLEAN :
          regs' = [regs EXCEPT ![a] = write_cc(regs[a], en, shn)]
    BY Zenon DEF SetCc
  <1>2. write_cc(regs[a], en, shn) \in [en : BOOLEAN, rdy : BOOLEAN, shst : BOOLEAN]
    BY Zenon DEF RegistryInv, RegistryTypeOK, Entries, AdminStates, IoStates,
      write_cc
  <1>3. RegistryTypeOK'
    BY <1>1, <1>2, Zenon DEF RegistryInv, RegistryTypeOK, Entries, AdminStates, IoStates,
      SetCc
  <1> QED BY <1>3, Zenon DEF RegistryInv, SetCc, OwnEntry, NoOrphanEntry,
    IoQueuesDistinct, ServesBound, OnlyOrphansFollow, contains

\* A teardown empties the entry of its own id.
LEMMA TeardownInv ==
  \A a \in AdminConns : RegistryInv /\ TeardownAdmin(a) => RegistryInv'
  <1> SUFFICES ASSUME NEW a \in AdminConns, RegistryInv, TeardownAdmin(a)
               PROVE  RegistryInv'
    BY Zenon
  <1> USE RegistryAssumption DEF RegistryInv, TeardownAdmin
  <1>1. RegistryTypeOK'
    BY Zenon DEF RegistryTypeOK, Entries, AdminStates, IoStates, NoEntry, GoneAdmin,
      NewAdmin, NewRegs
  <1>2. OwnEntry' /\ NoOrphanEntry'
    BY DEF RegistryTypeOK, Entries, AdminStates, IoStates, OwnEntry,
      NoOrphanEntry, contains, NoEntry, GoneAdmin,
      NewAdmin, Cntlids
  <1>3. ServesBound' /\ IoQueuesDistinct' /\ OnlyOrphansFollow'
    BY DEF RegistryTypeOK, Entries, AdminStates, IoStates, ServesBound, OnlyOrphansFollow,
      IoQueuesDistinct, NoEntry, GoneAdmin, NewAdmin
  <1> QED BY <1>1, <1>2, <1>3, Zenon

\* Opening and closing an IO queue leave the registry alone.
LEMMA IoPhaseInv ==
  \A q \in IoConns :
    RegistryInv /\ (OpenIo(q) \/ CloseIo(q)) => RegistryInv'
  <1> SUFFICES ASSUME NEW q \in IoConns, RegistryInv,
                      OpenIo(q) \/ CloseIo(q)
               PROVE  RegistryInv'
    BY Zenon
  <1> USE RegistryAssumption DEF RegistryInv
  <1>1. CASE OpenIo(q)
    <2>1. PICK a \in AdminConns, h \in Hosts, qid \in 0 .. MaxQid + 1 :
            /\ admin[a].phase = "open" /\ admin[a].cntlid # 0
            /\ io' = [io EXCEPT ![q] =
                        [phase |-> "open", cntlid |-> admin[a].cntlid, host |-> h,
                         qid |-> qid, meant |-> a, serves |-> Nobody]]
            /\ UNCHANGED <<entry, nextId, admin, regs>>
      BY <1>1, Zenon DEF OpenIo
    <2> DEFINE r == [phase |-> "open", cntlid |-> admin[a].cntlid, host |-> h,
                     qid |-> qid, meant |-> a, serves |-> Nobody]
    <2>2. admin[a].cntlid \in Cntlids
      BY <2>1, Zenon DEF RegistryTypeOK, AdminStates
    <2>3. r \in IoStates /\ r.phase = "open" /\ r.cntlid \in Cntlids
      BY <2>2, Zenon DEF IoStates
    <2>4. io' = [io EXCEPT ![q] = r]
      BY <2>1, Zenon
    <2> HIDE DEF r
    <2>5. RegistryTypeOK'
      BY <2>1, <2>3, <2>4, Zenon DEF RegistryTypeOK
    <2>6. OwnEntry' /\ NoOrphanEntry'
      BY <2>1, Zenon DEF OwnEntry, NoOrphanEntry, contains
    <2>7. \A p \in IoConns :
            io'[p] = io[p] \/ (io'[p].phase = "open" /\ io'[p].cntlid \in Cntlids)
      BY <2>3, <2>4, Zenon DEF RegistryTypeOK
    <2>8. ServesBound' /\ IoQueuesDistinct' /\ OnlyOrphansFollow'
      BY <2>1, <2>7, SMTT(20) DEF ServesBound, IoQueuesDistinct, OnlyOrphansFollow
    <2> QED BY <2>5, <2>6, <2>8, Zenon
  <1>2. CASE CloseIo(q)
    <2>1. /\ io' = [io EXCEPT ![q] = GoneIo]
          /\ UNCHANGED <<entry, nextId, admin, regs>>
      BY <1>2, Zenon DEF CloseIo
    <2>2. GoneIo \in IoStates /\ GoneIo.phase = "gone"
      BY DEF GoneIo, NewIo, IoStates
    <2>3. RegistryTypeOK'
      BY <2>1, <2>2, Zenon DEF RegistryTypeOK
    <2>4. OwnEntry' /\ NoOrphanEntry'
      BY <2>1, Zenon DEF OwnEntry, NoOrphanEntry, contains
    <2>5. \A p \in IoConns : io'[p] = io[p] \/ io'[p].phase = "gone"
      BY <2>1, <2>2, Zenon DEF RegistryTypeOK
    <2>6. ServesBound' /\ IoQueuesDistinct' /\ OnlyOrphansFollow'
      BY <2>1, <2>5 DEF ServesBound, IoQueuesDistinct, OnlyOrphansFollow
    <2> QED BY <2>3, <2>4, <2>6, Zenon
  <1> QED BY <1>1, <1>2, Zenon

\* The watchdog finds no entry for its id, so its controller, which would own
\* that entry, is gone.
LEMMA WatchdogInv ==
  \A q \in IoConns : RegistryInv /\ Watchdog(q) => RegistryInv'
  <1> SUFFICES ASSUME NEW q \in IoConns, RegistryInv, Watchdog(q)
               PROVE  RegistryInv'
    BY Zenon
  <1> USE RegistryAssumption DEF RegistryInv
  <1>1. /\ io[q].phase = "live" /\ io[q].serves \in AdminConns
        /\ admin[io[q].serves].phase = "gone"
    BY DEF Watchdog, RegistryTypeOK, AdminStates, ServesBound, OwnEntry, contains,
      Cntlids
  <1>2. /\ UNCHANGED <<entry, nextId, admin, regs>>
        /\ io'[q].phase = "followed" /\ io'[q].serves = io[q].serves
        /\ \A p \in IoConns : p # q => io'[p] = io[p]
    BY DEF Watchdog, RegistryTypeOK, IoStates
  <1>3. [io[q] EXCEPT !.phase = "followed"] \in IoStates
    BY ZenonT(20) DEF RegistryTypeOK, IoStates
  <1>4. RegistryTypeOK'
    BY <1>2, <1>3, Zenon DEF Watchdog, RegistryTypeOK
  <1>5. OwnEntry' /\ NoOrphanEntry'
    BY <1>2, Zenon DEF OwnEntry, NoOrphanEntry, contains
  <1>6. ServesBound' /\ IoQueuesDistinct' /\ OnlyOrphansFollow'
    BY <1>1, <1>2 DEF ServesBound, IoQueuesDistinct, OnlyOrphansFollow
  <1> QED BY <1>4, <1>5, <1>6, Zenon

\* install_io_queue records a queue id its entry does not hold yet.
LEMMA ConnectIoInv ==
  \A q \in IoConns : RegistryInv /\ ConnectIo(q) => RegistryInv'
  <1> SUFFICES ASSUME NEW q \in IoConns, RegistryInv, ConnectIo(q)
               PROVE  RegistryInv'
    BY Zenon
  <1> USE RegistryAssumption DEF RegistryInv
  <1> DEFINE c == io[q].cntlid
  <1>1. c \in Cntlids /\ io[q].phase = "open" /\ UNCHANGED <<nextId, admin, regs>>
    BY Zenon DEF ConnectIo, ServesBound
  <1>2. CASE /\ Admits(entry[c], io[q])
             /\ entry' = [entry EXCEPT ![c].qids = @ \cup {io[q].qid}]
             /\ io' = [io EXCEPT ![q].phase = "live", ![q].serves = entry[c].owner]
    <2>1. /\ entry[c].owner \in AdminConns /\ entry[c].host = io[q].host
          /\ io[q].qid \in 1 .. MaxQid /\ io[q].qid \notin entry[c].qids
          /\ admin[entry[c].owner].phase = "open" /\ admin[entry[c].owner].cntlid = c
      BY <1>1, <1>2, SMTT(20) DEF Admits, RegistryTypeOK, Entries, AdminStates, IoStates,
        NoOrphanEntry, contains
    <2>2. RegistryTypeOK'
      <3>1. [entry[c] EXCEPT !.qids = @ \cup {io[q].qid}] \in Entries
        BY <1>1, <2>1, SMTT(20) DEF RegistryTypeOK, Entries
      <3>2. [io[q] EXCEPT !.phase = "live", !.serves = entry[c].owner] \in IoStates
        <4>1. io[q] \in IoStates
          BY Zenon DEF RegistryTypeOK
        <4>2. \A r \in IoStates, a \in AdminConns :
                [r EXCEPT !.phase = "live", !.serves = a] \in IoStates
          BY Zenon DEF IoStates
        <4> QED BY <2>1, <4>1, <4>2, Zenon
      <3> QED BY <1>1, <1>2, <3>1, <3>2, Zenon DEF RegistryTypeOK
    <2>3. OwnEntry' /\ NoOrphanEntry'
      BY <1>1, <1>2, SMTT(20) DEF RegistryTypeOK, Entries, AdminStates, IoStates, OwnEntry,
        NoOrphanEntry, contains
    <2>4. ServesBound'
      BY <1>1, <1>2, <2>1, SMTT(20) DEF RegistryTypeOK, Entries, AdminStates, IoStates,
        ServesBound
    <2>5. IoQueuesDistinct'
      <3>1. \A p \in IoConns : p # q /\ io[p].phase = "live"
                /\ io[p].serves = entry[c].owner => io[p].qid # io[q].qid
        BY <1>1, <2>1, SMTT(20) DEF ServesBound, IoQueuesDistinct
      <3>2. /\ io'[q].serves = entry[c].owner /\ io'[q].phase = "live"
            /\ \A p \in IoConns : /\ p # q => io'[p] = io[p]
                                 /\ io'[p].qid = io[p].qid /\ io'[p].host = io[p].host
                                 /\ io'[p].cntlid = io[p].cntlid
        BY <1>2 DEF RegistryTypeOK, IoStates
      <3>3. /\ \A d \in Cntlids : /\ entry'[d].owner = entry[d].owner
                                 /\ entry'[d].host = entry[d].host
                                 /\ entry[d].qids \subseteq entry'[d].qids
            /\ io[q].qid \in entry'[c].qids
        BY <1>1, <1>2 DEF RegistryTypeOK, Entries
      <3>4. \A p \in IoConns : io'[p].phase = "live" => io[p].cntlid \in Cntlids
        BY <1>1, <3>2, Zenon DEF ServesBound
      <3>5. \A o, p \in IoConns :
              (io'[o].phase = "live" /\ io'[p].phase = "live"
                 /\ io'[o].serves = io'[p].serves /\ io'[o].qid = io'[p].qid) => o = p
        BY <3>1, <3>2 DEF IoQueuesDistinct
      <3>6. \A p \in IoConns :
              (io'[p].phase = "live" /\ entry'[io'[p].cntlid].owner = io'[p].serves) =>
                /\ io'[p].qid \in entry'[io'[p].cntlid].qids
                /\ entry'[io'[p].cntlid].host = io'[p].host
        <4> SUFFICES ASSUME NEW p \in IoConns, io'[p].phase = "live",
                            entry'[io'[p].cntlid].owner = io'[p].serves
                     PROVE  /\ io'[p].qid \in entry'[io'[p].cntlid].qids
                            /\ entry'[io'[p].cntlid].host = io'[p].host
          BY Zenon
        <4>1. CASE p = q
          BY <1>1, <2>1, <3>2, <3>3, <4>1, ZenonT(20)
        <4>2. CASE p # q
          BY <3>2, <3>3, <3>4, <4>2 DEF IoQueuesDistinct
        <4> QED BY <4>1, <4>2, Zenon
      <3> QED BY <3>5, <3>6, Zenon DEF IoQueuesDistinct
    <2>6. OnlyOrphansFollow'
      BY <1>1, <1>2 DEF RegistryTypeOK, IoStates, OnlyOrphansFollow
    <2> QED BY <2>2, <2>3, <2>4, <2>5, <2>6, Zenon
  <1>3. CASE io' = [io EXCEPT ![q] = [NewIo EXCEPT !.phase = "refused"]]
               /\ UNCHANGED entry
    BY <1>1, <1>3, SMTT(20) DEF NewIo, RegistryTypeOK, Entries, AdminStates, IoStates,
      OwnEntry, NoOrphanEntry,
      IoQueuesDistinct, ServesBound, OnlyOrphansFollow, contains, Cntlids
  <1> QED BY <1>2, <1>3, Zenon DEF ConnectIo

\* The inductive invariant of the registry.
THEOREM RegistryCorrect == RegistrySpec => []RegistryInv
<1>1. RegistryInv /\ [RegistryNext]_registryVars => RegistryInv'
  <2> SUFFICES ASSUME RegistryInv, [RegistryNext]_registryVars
               PROVE  RegistryInv'
    BY Zenon
  <2>1. CASE RegistryNext
    BY <2>1, ConnectAdminInv, SetCcInv, TeardownInv, IoPhaseInv, WatchdogInv,
      ConnectIoInv, Zenon
      DEF RegistryNext
  <2>2. CASE UNCHANGED registryVars
    BY <2>2, RegistryKept, Zenon
  <2> QED BY <2>1, <2>2, Zenon
<1> QED BY <1>1, RegistryInitInv, PTL DEF RegistrySpec

\* No two live controllers share an id, and no teardown removes the entry of
\* another (Registry::allocate, Registry::remove).
THEOREM ControllerIdsExclusive == RegistrySpec => []OwnEntry
<1>1. RegistryInv => OwnEntry
  BY Zenon DEF RegistryInv
<1> QED BY <1>1, RegistryCorrect, PTL

\* An entry never outlives its admin connection (teardown).
THEOREM EntriesAreReaped == RegistrySpec => []NoOrphanEntry
<1>1. RegistryInv => NoOrphanEntry
  BY Zenon DEF RegistryInv
<1> QED BY <1>1, RegistryCorrect, PTL

\* Live IO queues of a controller have ids of their own and its host
\* (Registry::install_io_queue).
THEOREM IoQueuesAlwaysDistinct == RegistrySpec => []IoQueuesDistinct
<1>1. RegistryInv => IoQueuesDistinct
  BY Zenon DEF RegistryInv
<1> QED BY <1>1, RegistryCorrect, PTL

\* Ids, entries and IO queues agree, whatever the slice of controller ids and
\* however many connections come and go.
THEOREM RegistrySafe == RegistrySpec => []RegistrySafety
<1>1. RegistryInv => RegistrySafety
  BY Zenon DEF RegistryInv, RegistrySafety
<1> QED BY <1>1, RegistryCorrect, PTL

\* No live controller loses an IO queue to the watchdog (RdmaQueue::watchdog).
THEOREM WatchdogSparesTheLive == RegistrySpec => []OnlyOrphansFollow
<1>1. RegistryInv => OnlyOrphansFollow
  BY Zenon DEF RegistryInv
<1> QED BY <1>1, RegistryCorrect, PTL

\* Connect is answered "busy" only when every id of the slice is taken: the
\* scan of Registry::allocate wraps around and misses none.
THEOREM RefusalMeansFull == RegistrySpec => BusyOnlyWhenFull
<1>1. RegistryInv /\ [RegistryNext]_registryVars =>
        [\A a \in AdminConns :
           admin[a].status # "busy" /\ admin'[a].status = "busy" =>
             \A c \in Cntlids : contains(c)]_registryVars
  <2> SUFFICES ASSUME RegistryInv, RegistryNext, NEW b \in AdminConns,
                      admin[b].status # "busy", admin'[b].status = "busy",
                      NEW c \in Cntlids
               PROVE  contains(c)
    BY Zenon DEF registryVars
  <2>1. CASE \E a \in AdminConns : ConnectAdmin(a)
    <3>1. PICK a \in AdminConns : ConnectAdmin(a)
      BY <2>1, Zenon
    <3>2. \A o \in Scan : contains(Scanned(o))
      <4>1. ASSUME NEW d \in Int,
                   admin' = [admin EXCEPT ![a].cntlid = d, ![a].status = "success"]
            PROVE  FALSE
        BY <4>1 DEF RegistryInv, RegistryTypeOK, AdminStates
      <4>2. \A o \in Scan : Scanned(o) \in Int
        BY ScannedInSlice, RegistryAssumption DEF RegistryInv, RegistryTypeOK,
          Cntlids
      <4> QED BY <3>1, <4>1, <4>2, Zenon DEF ConnectAdmin
    <3>3. PICK o \in Scan : Scanned(o) = c
      BY ScanIsComplete, Zenon DEF RegistryInv, RegistryTypeOK
    <3> QED BY <3>2, <3>3, Zenon
  <2>2. CASE \E a \in AdminConns : TeardownAdmin(a)
    BY <2>2 DEF TeardownAdmin, GoneAdmin, NewAdmin, RegistryInv, RegistryTypeOK
  <2>3. CASE UNCHANGED admin
    BY <2>3, Zenon
  <2> QED BY <2>1, <2>2, <2>3, Zenon DEF RegistryNext, SetCc, OpenIo, ConnectIo, CloseIo,
    Watchdog
<1> QED BY <1>1, RegistryCorrect, PTL DEF RegistrySpec, BusyOnlyWhenFull

-----------------------------------------------------------------------------
(* The keep-alive.  Neither property is inductive.  The invariant bounds   *)
(* how old the sign of life behind a mark or behind the flag can be, by    *)
(* the sleep of the beacon or the watchdog that will pass it on, and says  *)
(* where a sign of life is that the admin queue has not heard of yet.      *)

KaTypeOK ==
  /\ kato \in Nat /\ (kato = 0 \/ kato \in Katos \cup NewKatos)
  /\ entryKato \in Nat \cup {0 - 1}
  /\ silent \in Nat /\ gap \in Nat
  /\ flag \in BOOLEAN /\ expired \in BOOLEAN /\ kept \in BOOLEAN
  /\ watchdog \in Int /\ 0 - MaxLag <= watchdog /\ watchdog <= TickMax
  /\ queue \in [IoQueues -> {"none", "setup", "live", "gone"}]
  /\ ioKato \in [IoQueues -> Nat]
  /\ publishes \in [IoQueues -> BOOLEAN] /\ mark \in [IoQueues -> BOOLEAN]
  /\ beacon \in [IoQueues -> Int]
  /\ entryKato < 0 => kato = 0 /\ \A q \in IoQueues : queue[q] = "none"

\* A live queue that publishes.
Publishing(q) == queue[q] = "live" /\ publishes[q]

\* The beacon of a live queue runs at the entry's timeout, and the sign of life
\* behind a mark is younger than the beacon's sleep.
QueueOK(q) ==
  /\ queue[q] \in {"none", "gone"} => beacon[q] = Off
  /\ queue[q] = "none" => ~publishes[q]
  /\ queue[q] = "setup" => /\ mark[q] /\ ~publishes[q]
                           /\ 0 - MaxLag <= beacon[q] /\ beacon[q] <= TickMin
  /\ queue[q] = "live" => ioKato[q] = entryKato /\ (publishes[q] <=> entryKato # 0)
  /\ Publishing(q) => /\ 0 - MaxLag <= beacon[q]
                      /\ beacon[q] <= keepalive_tick(entryKato)
                      /\ mark[q] => gap + beacon[q] <= TickMax

\* What the watchdog has yet to hear of.
Unheard ==
  \/ flag \/ silent <= gap
  \/ \E q \in IoQueues : /\ Publishing(q) /\ mark[q]
                         /\ silent + beacon[q] <= kato + keepalive_tick(entryKato)

Clocks ==
  /\ kato # 0 /\ flag => gap + watchdog <= 2 * TickMax + MaxLag
  /\ gap <= silent + 2 * (TickMax + MaxLag)
  /\ kato # 0 /\ ~expired => \/ silent + watchdog <= 2 * kato + 2 * keepalive_tick(kato)
                            \/ gap + watchdog <= TickMax
  /\ kept /\ kato # 0 => gap <= kato
  /\ kept /\ kato # 0 /\ entryKato # 0 => Unheard

KaInv == KaTypeOK /\ (\A q \in IoQueues : QueueOK(q)) /\ Clocks /\ SteadyHostLives

---------------------------------------------------------------------------
(* The clocks.                                                             *)

\* Every sleep of the watchdog and the beacons is between the two ticks.
LEMMA TickRange ==
  \A k \in Nat : /\ keepalive_tick(k) \in Nat
                 /\ TickMin <= keepalive_tick(k) /\ keepalive_tick(k) <= TickMax
BY KeepAliveAssumption DEF keepalive_tick, Clamp, Least

\* A unit of time ages by at most one, and keeps the distance of two ages.
LEMMA OlderRange ==
  /\ \A n \in Nat : Older(n) \in Nat /\ Older(n) <= n + 1
  /\ \A n, m, d \in Nat : n <= m + d => Older(n) <= Older(m) + d
BY KeepAliveAssumption DEF Older, Least

\* A beacon due within a tick is due within the longest.
LEMMA BeaconDue ==
  ASSUME NEW t \in Nat, t <= TickMax, NEW b \in Int, b <= t
  PROVE  b <= TickMax /\ 0 + b <= TickMax
BY KeepAliveAssumption

\* A beacon due within a tick reports a silence no longer than the gap in time.
LEMMA HeardInTime ==
  ASSUME NEW a \in Nat, NEW g \in Nat, NEW k \in Nat, NEW t \in Nat, NEW b \in Int,
         a <= g, g <= k, b <= t
  PROVE  a + b <= k + t
OBVIOUS

\* A unit of time later the beacon is due a unit earlier.
LEMMA BeaconNearer ==
  ASSUME NEW t \in Nat, NEW b \in Int, b <= t,
         NEW g \in Nat, NEW h \in Nat, h <= g + 1
  PROVE  b - 1 <= t /\ (g + b <= TickMax => h + (b - 1) <= TickMax)
BY KeepAliveAssumption

\* A step that changes nothing keeps the invariant.
LEMMA KaKept == KaInv /\ UNCHANGED kaVars => KaInv'
BY DEF kaVars, KaInv, KaTypeOK, QueueOK, Publishing, Clocks, Unheard,
       SteadyHostLives, Off

\* The invariant holds before the admin Connect.
LEMMA KaInitInv == KaInit => KaInv
<1>1. 0 \in Nat BY Zenon
<1> USE KeepAliveAssumption, TickRange, <1>1
<1> SUFFICES ASSUME KaInit PROVE KaInv BY Zenon
<1>2. KaTypeOK
  <2>1. /\ Off \in Int /\ watchdog \in Int
        /\ 0 - MaxLag <= watchdog /\ watchdog <= TickMax
    BY DEF KaInit, Off
  <2>2. /\ queue \in [IoQueues -> {"none", "setup", "live", "gone"}]
        /\ ioKato \in [IoQueues -> Nat]
        /\ publishes \in [IoQueues -> BOOLEAN] /\ mark \in [IoQueues -> BOOLEAN]
        /\ beacon \in [IoQueues -> Int]
    BY <2>1, Zenon DEF KaInit
  <2> QED BY <2>1, <2>2, Zenon DEF KaInit, KaTypeOK
<1>3. ASSUME NEW q \in IoQueues PROVE QueueOK(q)
  BY <1>3, Zenon DEF KaInit, QueueOK, Publishing
<1>4. Clocks BY DEF KaInit, Clocks
<1>5. SteadyHostLives BY Zenon DEF KaInit, SteadyHostLives
<1> QED BY <1>2, <1>3, <1>4, <1>5, Zenon DEF KaInv

---------------------------------------------------------------------------
(* The host's commands.                                                    *)

\* An admin command, a Connect and a Set Features among them, is heard of at once.
LEMMA HeardInv ==
  KaInv /\ (AdminConnects \/ AdminCommand \/ SetKato) => KaInv'
<1> SUFFICES ASSUME KaInv, AdminConnects \/ AdminCommand \/ SetKato PROVE KaInv'
  BY Zenon
<1> USE KeepAliveAssumption
<1>1. /\ silent' = 0 /\ gap' = 0 /\ ~expired /\ expired' = expired
      /\ flag' = flag /\ watchdog' = watchdog /\ kept' = kept
      /\ queue' = queue /\ ioKato' = ioKato /\ publishes' = publishes
      /\ mark' = mark /\ beacon' = beacon
  BY Zenon DEF AdminConnects, AdminCommand, SetKato, Heard, ioVars
<1>2. /\ kato' \in Nat /\ (kato' = 0 \/ kato' \in Katos \cup NewKatos)
      /\ entryKato' \in Nat
      /\ entryKato < 0 \/ entryKato' = entryKato
  BY DEF AdminConnects, AdminCommand, SetKato, KaInv, KaTypeOK
<1>3. KaTypeOK' BY <1>1, <1>2 DEF KaInv, KaTypeOK
<1>4. ASSUME NEW q \in IoQueues PROVE QueueOK(q)'
  <2>1. QueueOK(q) /\ beacon[q] \in Int /\ gap \in Nat BY Zenon DEF KaInv, KaTypeOK
  <2>2. CASE entryKato < 0
    <3>1. queue[q] = "none" BY <2>2, Zenon DEF KaInv, KaTypeOK
    <3> QED BY <3>1, <2>1, <1>1, Zenon DEF QueueOK, Publishing, Off
  <2>3. CASE entryKato' = entryKato
    BY <2>1, <2>3, <1>1 DEF QueueOK, Publishing, Off
  <2> QED BY <1>2, <2>2, <2>3, Zenon
<1>5. Clocks'
  BY <1>1, <1>2 DEF KaInv, KaTypeOK, Clocks, Unheard
<1>6. SteadyHostLives' BY <1>1, Zenon DEF SteadyHostLives
<1> QED BY <1>3, <1>4, <1>5, <1>6, Zenon DEF KaInv

\* A queue that opens is not one of the controller's yet, and shows nothing.
LEMMA OpenInv == ASSUME NEW q \in IoQueues PROVE KaInv /\ OpenQueue(q) => KaInv'
<1> SUFFICES ASSUME KaInv, OpenQueue(q) PROVE KaInv' BY Zenon
<1> USE KeepAliveAssumption
<1>1. KaTypeOK' BY DEF KaInv, KaTypeOK, OpenQueue
<1>2. ASSUME NEW r \in IoQueues PROVE QueueOK(r)'
  <2>1. QueueOK(r) /\ QueueOK(q) /\ beacon[r] \in Int BY Zenon DEF KaInv, KaTypeOK
  <2>2. CASE r = q
    <3>1. /\ queue'[q] = "setup" /\ mark'[q] /\ beacon'[q] = TickMin
          /\ publishes' = publishes /\ ~publishes[q]
      BY <2>1, Zenon DEF KaInv, KaTypeOK, OpenQueue, QueueOK
    <3> QED BY <2>2, <3>1 DEF QueueOK, Publishing
  <2>3. CASE r # q
    BY <2>1, <2>3, Zenon DEF KaInv, KaTypeOK, OpenQueue, QueueOK, Publishing, Off
  <2> QED BY <2>2, <2>3, Zenon
<1>3. Unheard => Unheard'
  BY Zenon DEF KaInv, KaTypeOK, OpenQueue, Unheard, Publishing
<1>4. Clocks' /\ SteadyHostLives'
  BY <1>3, Zenon DEF KaInv, OpenQueue, Clocks, SteadyHostLives
<1> QED BY <1>1, <1>2, <1>4, Zenon DEF KaInv

\* The Connect of a queue is a sign of life that its mark remembers.
LEMMA ConnectQueueInv == ASSUME NEW q \in IoQueues PROVE KaInv /\ ConnectQueue(q) => KaInv'
<1> SUFFICES ASSUME KaInv, ConnectQueue(q) PROVE KaInv' BY Zenon
<1> USE KeepAliveAssumption
<1>1. /\ QueueOK(q) /\ queue[q] = "setup" /\ entryKato \in Nat
      /\ \A r \in IoQueues : beacon[r] \in Int
  BY DEF KaInv, KaTypeOK, ConnectQueue
<1>2. /\ queue'[q] = "live" /\ ioKato'[q] = entryKato
      /\ publishes'[q] <=> entryKato # 0
      /\ mark[q] /\ 0 - MaxLag <= beacon[q] /\ beacon[q] <= TickMin
  BY <1>1, Zenon DEF KaInv, KaTypeOK, ConnectQueue, QueueOK
<1>3. /\ gap' = 0 /\ mark' = mark /\ beacon' = beacon /\ kato' = kato
      /\ entryKato' = entryKato /\ silent' = silent /\ flag' = flag
      /\ watchdog' = watchdog /\ expired' = expired /\ kept' = kept
  BY Zenon DEF ConnectQueue
<1>4. \A r \in IoQueues \ {q} : /\ queue'[r] = queue[r] /\ ioKato'[r] = ioKato[r]
                                /\ publishes'[r] = publishes[r]
  BY Zenon DEF KaInv, KaTypeOK, ConnectQueue
<1>5. keepalive_tick(entryKato) \in Nat /\ TickMin <= keepalive_tick(entryKato)
  BY <1>1, TickRange, Zenon
<1>6. KaTypeOK' BY <1>1, Zenon DEF KaInv, KaTypeOK, ConnectQueue
<1>7. ASSUME NEW r \in IoQueues PROVE QueueOK(r)'
  <2>1. CASE r = q
    <3>1. beacon[q] <= TickMax /\ beacon[q] <= keepalive_tick(entryKato)
      BY <1>1, <1>2, <1>5
    <3> QED BY <2>1, <3>1, <1>1, <1>2, <1>3 DEF QueueOK, Publishing
  <2>2. CASE r # q
    <3>1. QueueOK(r) /\ gap \in Nat BY Zenon DEF KaInv, KaTypeOK
    <3>2. gap + beacon[r] <= TickMax => gap' + beacon'[r] <= TickMax
      BY <3>1, <1>1, <1>3
    <3> QED BY <2>2, <3>1, <3>2, <1>3, <1>4, Zenon DEF QueueOK, Publishing, Off
  <2> QED BY <2>1, <2>2, Zenon
<1>8. kept /\ kato # 0 /\ entryKato # 0 => Unheard'
  <2> SUFFICES ASSUME kept, kato # 0, entryKato # 0 PROVE Unheard' BY Zenon
  <2>1. /\ gap <= kato /\ Unheard
        /\ kato \in Nat /\ gap \in Nat /\ silent \in Nat
    BY Zenon DEF KaInv, Clocks, KaTypeOK
  <2>2. CASE flag BY <2>2, <1>3, Zenon DEF Unheard
  <2>3. CASE silent <= gap
    <3>1. silent + beacon[q] <= kato + keepalive_tick(entryKato)
      BY <2>1, <2>3, <1>1, <1>2, <1>5
    <3> QED BY <3>1, <1>2, <1>3, Zenon DEF Unheard, Publishing
  <2>4. CASE \E r \in IoQueues : /\ Publishing(r) /\ mark[r]
                                 /\ silent + beacon[r] <= kato + keepalive_tick(entryKato)
    <3>1. PICK r \in IoQueues : /\ Publishing(r) /\ mark[r]
                                /\ silent + beacon[r] <= kato + keepalive_tick(entryKato)
      BY <2>4, Zenon
    <3>2. r # q BY <3>1, <1>1, Zenon DEF Publishing
    <3> QED BY <3>1, <3>2, <1>3, <1>4, Zenon DEF Unheard, Publishing
  <2> QED BY <2>1, <2>2, <2>3, <2>4, Zenon DEF Unheard
<1>9. Clocks'
  BY <1>3, <1>8 DEF KaInv, KaTypeOK, Clocks
<1>10. SteadyHostLives' BY <1>3, Zenon DEF KaInv, SteadyHostLives
<1> QED BY <1>6, <1>7, <1>9, <1>10, Zenon DEF KaInv

\* So is every command of a live queue.
LEMMA IoCommandInv == ASSUME NEW q \in IoQueues PROVE KaInv /\ IoCommand(q) => KaInv'
<1> SUFFICES ASSUME KaInv, IoCommand(q) PROVE KaInv' BY Zenon
<1> USE KeepAliveAssumption
<1>1. /\ QueueOK(q) /\ queue[q] = "live" /\ entryKato \in Nat
      /\ \A r \in IoQueues : beacon[r] \in Int
  BY DEF KaInv, KaTypeOK, IoCommand
<1>2. /\ gap' = 0 /\ beacon' = beacon /\ kato' = kato /\ queue' = queue
      /\ ioKato' = ioKato /\ publishes' = publishes
      /\ entryKato' = entryKato /\ silent' = silent /\ flag' = flag
      /\ watchdog' = watchdog /\ expired' = expired /\ kept' = kept
  BY Zenon DEF IoCommand
<1>3. mark'[q] /\ \A r \in IoQueues \ {q} : mark'[r] = mark[r]
  BY Zenon DEF KaInv, KaTypeOK, IoCommand
<1>4. keepalive_tick(entryKato) \in Nat /\ keepalive_tick(entryKato) <= TickMax
  BY <1>1, TickRange, Zenon
<1>5. KaTypeOK' BY Zenon DEF KaInv, KaTypeOK, IoCommand
<1>6. ASSUME NEW r \in IoQueues PROVE QueueOK(r)'
  <2>1. QueueOK(r) /\ gap \in Nat /\ beacon[r] \in Int BY Zenon DEF KaInv, KaTypeOK
  <2>2. Publishing(r) => 0 + beacon[r] <= TickMax
    BY <2>1, <1>4, BeaconDue, Zenon DEF QueueOK
  <2>3. queue[r] = "setup" => mark'[r] BY <2>1, <1>1, <1>3, Zenon DEF QueueOK
  <2> QED BY <2>1, <2>2, <2>3, <1>2, Zenon DEF QueueOK, Publishing, Off
<1>7. kept /\ kato # 0 /\ entryKato # 0 => Unheard'
  <2> SUFFICES ASSUME kept, kato # 0, entryKato # 0 PROVE Unheard' BY Zenon
  <2>1. /\ gap <= kato /\ Unheard
        /\ kato \in Nat /\ gap \in Nat /\ silent \in Nat
    BY Zenon DEF KaInv, Clocks, KaTypeOK
  <2>2. CASE flag BY <2>2, <1>2, Zenon DEF Unheard
  <2>3. CASE silent <= gap
    <3>1. Publishing(q) /\ beacon[q] <= keepalive_tick(entryKato)
      BY <1>1, Zenon DEF QueueOK, Publishing
    <3>2. silent + beacon[q] <= kato + keepalive_tick(entryKato)
      BY <2>1, <2>3, <3>1, <1>1, <1>4, HeardInTime, Zenon
    <3> QED BY <3>1, <3>2, <1>2, <1>3, Zenon DEF Unheard, Publishing
  <2>4. CASE \E r \in IoQueues : /\ Publishing(r) /\ mark[r]
                                 /\ silent + beacon[r] <= kato + keepalive_tick(entryKato)
    BY <2>4, <1>2, <1>3, Zenon DEF Unheard, Publishing
  <2> QED BY <2>1, <2>2, <2>3, <2>4, Zenon DEF Unheard
<1>8. Clocks'
  BY <1>2, <1>7 DEF KaInv, KaTypeOK, Clocks
<1>9. SteadyHostLives' BY <1>2, Zenon DEF KaInv, SteadyHostLives
<1> QED BY <1>5, <1>6, <1>8, <1>9, Zenon DEF KaInv

\* A queue that closes tells the admin queue so itself.
LEMMA CloseQueueInv == ASSUME NEW q \in IoQueues PROVE KaInv /\ CloseQueue(q) => KaInv'
<1> SUFFICES ASSUME KaInv, CloseQueue(q) PROVE KaInv' BY Zenon
<1> USE KeepAliveAssumption
<1>1. /\ QueueOK(q) /\ queue[q] = "live" /\ entryKato \in Nat
      /\ Off \in Int
  BY DEF KaInv, KaTypeOK, CloseQueue, Off
<1>2. /\ gap' = 0 /\ kato' = kato /\ ioKato' = ioKato /\ publishes' = publishes
      /\ entryKato' = entryKato /\ silent' = silent
      /\ flag' = (flag \/ publishes[q])
      /\ watchdog' = watchdog /\ expired' = expired /\ kept' = kept
  BY Zenon DEF CloseQueue
<1>3. KaTypeOK'
  <2>1. flag' \in BOOLEAN BY <1>2, Zenon
  <2> QED BY <1>1, <2>1, Zenon DEF KaInv, KaTypeOK, CloseQueue
<1>4. ASSUME NEW r \in IoQueues PROVE QueueOK(r)'
  <2>1. QueueOK(r) /\ gap \in Nat /\ beacon[r] \in Int BY Zenon DEF KaInv, KaTypeOK
  <2>2. CASE r = q
    <3>1. queue'[q] = "gone" /\ beacon'[q] = Off BY Zenon DEF KaInv, KaTypeOK, CloseQueue
    <3> QED BY <2>2, <3>1, Zenon DEF QueueOK, Publishing
  <2>3. CASE r # q
    <3>1. queue'[r] = queue[r] /\ beacon'[r] = beacon[r] /\ mark'[r] = mark[r]
      BY <2>3, Zenon DEF KaInv, KaTypeOK, CloseQueue
    <3> QED BY <2>1, <3>1, <1>2 DEF QueueOK, Publishing, Off
  <2> QED BY <2>2, <2>3, Zenon
<1>5. entryKato # 0 => Unheard'
  BY <1>1, <1>2, Zenon DEF QueueOK, Unheard
<1>6. Clocks'
  BY <1>2, <1>5 DEF KaInv, KaTypeOK, Clocks
<1>7. SteadyHostLives' BY <1>2, Zenon DEF KaInv, SteadyHostLives
<1> QED BY <1>3, <1>4, <1>6, <1>7, Zenon DEF KaInv

---------------------------------------------------------------------------
(* The timers.                                                             *)

\* A beacon round passes a mark on to the flag while its sign of life is young.
LEMMA BeaconInv == ASSUME NEW q \in IoQueues PROVE KaInv /\ Beacon(q) => KaInv'
<1> SUFFICES ASSUME KaInv, Beacon(q) PROVE KaInv' BY Zenon
<1> USE KeepAliveAssumption
<1>1. /\ QueueOK(q) /\ beacon[q] \in Int /\ gap \in Nat
      /\ 0 - MaxLag <= beacon[q] /\ beacon[q] # Off /\ Off \in Int
  BY DEF KaInv, KaTypeOK, Beacon, Off
<1>2. queue[q] \in {"setup", "live"} /\ entryKato \in Nat
  BY <1>1 DEF KaInv, KaTypeOK, QueueOK
<1>3. /\ gap' = gap /\ kato' = kato /\ ioKato' = ioKato /\ publishes' = publishes
      /\ entryKato' = entryKato /\ silent' = silent /\ queue' = queue
      /\ watchdog' = watchdog /\ expired' = expired /\ kept' = kept /\ ~expired
  BY Zenon DEF Beacon
<1>4. /\ keepalive_tick(entryKato) \in Nat /\ TickMin <= keepalive_tick(entryKato)
      /\ keepalive_tick(entryKato) <= TickMax
  BY <1>2, TickRange, Zenon
<1>5. \A r \in IoQueues \ {q} : beacon'[r] = beacon[r] /\ mark'[r] = mark[r]
  BY Zenon DEF KaInv, KaTypeOK, Beacon
<1>6. CASE queue[q] = "setup"
  <2>1. /\ flag' = flag /\ mark' = mark /\ beacon' = [beacon EXCEPT ![q] = TickMin]
    BY <1>1, <1>6, Zenon DEF Beacon, QueueOK
  <2>2. KaTypeOK' BY <2>1, <1>3 DEF KaInv, KaTypeOK
  <2>3. ASSUME NEW r \in IoQueues PROVE QueueOK(r)'
    <3>1. QueueOK(r) BY Zenon DEF KaInv
    <3>2. CASE r = q
      <4>1. beacon'[q] = TickMin BY <2>1, Zenon DEF KaInv, KaTypeOK
      <4>2. 0 - MaxLag <= TickMin /\ TickMin <= TickMin OBVIOUS
      <4> QED BY <3>1, <3>2, <4>1, <4>2, <2>1, <1>3, <1>6, Zenon DEF QueueOK, Publishing
    <3>3. CASE r # q BY <3>1, <3>3, <1>3, <1>5, Zenon DEF QueueOK, Publishing, Off
    <3> QED BY <3>2, <3>3, Zenon
  <2>4. Unheard => Unheard'
    BY <2>1, <1>3, <1>5, <1>6, Zenon DEF Unheard, Publishing
  <2>5. Clocks' /\ SteadyHostLives'
    BY <2>1, <2>4, <1>3, Zenon DEF KaInv, Clocks, SteadyHostLives
  <2> QED BY <2>2, <2>3, <2>5, Zenon DEF KaInv
<1>7. CASE queue[q] = "live" /\ ~publishes[q]
  <2>1. /\ flag' = flag /\ mark' = mark /\ beacon' = [beacon EXCEPT ![q] = Off]
    BY <1>7, Zenon DEF Beacon
  <2>2. KaTypeOK' BY <2>1, <1>1, <1>3, Zenon DEF KaInv, KaTypeOK
  <2>3. ASSUME NEW r \in IoQueues PROVE QueueOK(r)'
    <3>1. QueueOK(r) BY Zenon DEF KaInv
    <3>2. CASE r = q BY <3>1, <3>2, <2>1, <1>3, <1>7, Zenon DEF QueueOK, Publishing
    <3>3. CASE r # q BY <3>1, <3>3, <1>3, <1>5, Zenon DEF QueueOK, Publishing, Off
    <3> QED BY <3>2, <3>3, Zenon
  <2>4. Unheard => Unheard'
    BY <2>1, <1>3, <1>5, <1>7, Zenon DEF Unheard, Publishing
  <2>5. Clocks' /\ SteadyHostLives'
    BY <2>1, <2>4, <1>3, Zenon DEF KaInv, Clocks, SteadyHostLives
  <2> QED BY <2>2, <2>3, <2>5, Zenon DEF KaInv
<1>8. CASE Publishing(q)
  <2>1. ioKato[q] = entryKato BY <1>1, <1>8, Zenon DEF QueueOK, Publishing
  <2>2. /\ flag' = (flag \/ mark[q]) /\ mark' = [mark EXCEPT ![q] = FALSE]
        /\ beacon' = [beacon EXCEPT ![q] = keepalive_tick(entryKato)]
    BY <2>1, <1>8, Zenon DEF Beacon, Publishing
  <2>3. KaTypeOK'
    <3>1. flag' \in BOOLEAN BY <2>2, Zenon
    <3>2. mark' \in [IoQueues -> BOOLEAN] /\ beacon' \in [IoQueues -> Int]
      BY <2>2, <1>4 DEF KaInv, KaTypeOK
    <3> QED BY <3>1, <3>2, <1>3, Zenon DEF KaInv, KaTypeOK
  <2>4. ASSUME NEW r \in IoQueues PROVE QueueOK(r)'
    <3>1. QueueOK(r) BY Zenon DEF KaInv
    <3>2. CASE r = q
      <4>1. beacon'[q] = keepalive_tick(entryKato) /\ mark'[q] = FALSE
        BY <2>2, Zenon DEF KaInv, KaTypeOK
      <4>2. /\ 0 - MaxLag <= keepalive_tick(entryKato)
            /\ keepalive_tick(entryKato) <= keepalive_tick(entryKato)
        BY <1>4
      <4> QED BY <3>1, <3>2, <4>1, <4>2, <1>3, <1>8, Zenon DEF QueueOK, Publishing
    <3>3. CASE r # q BY <3>1, <3>3, <1>3, <1>5, Zenon DEF QueueOK, Publishing, Off
    <3> QED BY <3>2, <3>3, Zenon
  <2>5. Unheard => Unheard'
    <3> SUFFICES ASSUME Unheard PROVE Unheard' BY Zenon
    <3>1. CASE flag \/ silent <= gap BY <3>1, <2>2, <1>3, Zenon DEF Unheard
    <3>2. CASE \E r \in IoQueues : /\ Publishing(r) /\ mark[r]
                                   /\ silent + beacon[r] <= kato + keepalive_tick(entryKato)
      <4>1. PICK r \in IoQueues : /\ Publishing(r) /\ mark[r]
                                  /\ silent + beacon[r] <= kato + keepalive_tick(entryKato)
        BY <3>2, Zenon
      <4>2. CASE r = q BY <4>1, <4>2, <2>2, Zenon DEF Unheard
      <4>3. CASE r # q BY <4>1, <4>3, <1>3, <1>5, Zenon DEF Unheard, Publishing
      <4> QED BY <4>2, <4>3, Zenon
    <3> QED BY <3>1, <3>2, Zenon DEF Unheard
  <2>6. kato # 0 /\ flag' => gap + watchdog <= 2 * TickMax + MaxLag
    <3>1. watchdog \in Int /\ watchdog <= TickMax BY Zenon DEF KaInv, KaTypeOK
    <3>2. mark[q] => gap + beacon[q] <= TickMax BY <1>1, <1>8, Zenon DEF QueueOK
    <3>3. mark[q] => gap + watchdog <= 2 * TickMax + MaxLag BY <3>1, <3>2, <1>1
    <3> QED BY <3>3, <2>2, Zenon DEF KaInv, Clocks
  <2>7. Clocks' BY <2>5, <2>6, <1>3, Zenon DEF KaInv, Clocks
  <2>8. SteadyHostLives' BY <1>3, Zenon DEF KaInv, SteadyHostLives
  <2> QED BY <2>3, <2>4, <2>7, <2>8, Zenon DEF KaInv
<1> QED BY <1>2, <1>6, <1>7, <1>8, Zenon DEF Publishing

\* The watchdog hears of the flag in time, and gives up on no steady host: what
\* it has not heard of is on a beacon that is not late by a timeout.
LEMMA WatchdogWakesInv == KaInv /\ WatchdogWakes => KaInv'
<1> SUFFICES ASSUME KaInv, WatchdogWakes PROVE KaInv' BY Zenon
<1> USE KeepAliveAssumption
<1>1. /\ kato' = kato /\ entryKato' = entryKato /\ queue' = queue /\ ioKato' = ioKato
      /\ publishes' = publishes /\ mark' = mark /\ beacon' = beacon
      /\ gap' = gap /\ kept' = kept /\ ~expired /\ watchdog' = keepalive_tick(kato)
  BY Zenon DEF WatchdogWakes, Judge, ioVars
<1>2. /\ kato \in Nat /\ silent \in Nat /\ gap \in Nat /\ watchdog \in Int
      /\ 0 - MaxLag <= watchdog /\ watchdog <= TickMax
      /\ kato = 0 \/ MaxLag <= kato
      /\ \A q \in IoQueues : beacon[q] \in Int
  BY Zenon DEF KaInv, KaTypeOK
<1>3. keepalive_tick(kato) \in Nat /\ keepalive_tick(kato) <= TickMax
  BY <1>2, TickRange, Zenon
<1>4. \A q \in IoQueues : QueueOK(q)'
  BY <1>1, Zenon DEF KaInv, QueueOK, Publishing, Off
<1>5. CASE kato = 0 /\ flag' = flag /\ silent' = silent /\ expired' = expired
  <2>1. KaTypeOK' BY <1>1, <1>3, <1>5 DEF KaInv, KaTypeOK
  <2>2. Clocks' BY <1>1, <1>5, Zenon DEF KaInv, Clocks
  <2>3. SteadyHostLives' BY <1>1, <1>5, Zenon DEF SteadyHostLives
  <2> QED BY <2>1, <2>2, <2>3, <1>4, Zenon DEF KaInv
<1>6. CASE kato # 0 /\ flag /\ flag' = FALSE /\ silent' = 0 /\ expired' = expired
  <2>1. KaTypeOK'
    <3>1. flag' \in BOOLEAN /\ silent' \in Nat BY <1>6, Zenon
    <3>2. expired' \in BOOLEAN BY <1>6, Zenon DEF KaInv, KaTypeOK
    <3>3. watchdog' \in Int /\ 0 - MaxLag <= watchdog' /\ watchdog' <= TickMax
      BY <1>1, <1>3
    <3> QED BY <3>1, <3>2, <3>3, <1>1, Zenon DEF KaInv, KaTypeOK
  <2>2. gap + watchdog <= 2 * TickMax + MaxLag BY <1>6, Zenon DEF KaInv, Clocks
  <2>3. gap <= 2 * (TickMax + MaxLag) BY <2>2, <1>2
  <2>4. keepalive_tick(kato) <= 2 * kato + 2 * keepalive_tick(kato) BY <1>2, <1>3
  <2>5. Clocks'
    BY <2>3, <2>4, <1>1, <1>2, <1>3, <1>6 DEF KaInv, Clocks, Unheard
  <2>6. SteadyHostLives' BY <1>1, <1>6, Zenon DEF SteadyHostLives
  <2> QED BY <2>1, <2>5, <2>6, <1>4, Zenon DEF KaInv
<1>7. CASE /\ kato # 0 /\ ~flag /\ flag' = flag /\ silent' = silent
           /\ expired' = (silent > kato * 2 + keepalive_tick(kato))
  <2>1. KaTypeOK'
    <3>1. expired' \in BOOLEAN BY <1>7
    <3> QED BY <3>1, <1>1, <1>3, <1>7 DEF KaInv, KaTypeOK
  <2>2. Unheard => Unheard' BY <1>1, <1>7, Zenon DEF Unheard, Publishing
  <2>3. ~expired' => silent + keepalive_tick(kato) <= 2 * kato + 2 * keepalive_tick(kato)
    <3>1. ~expired' => ~(silent > kato * 2 + keepalive_tick(kato)) BY <1>7, Zenon
    <3> QED BY <3>1, <1>2, <1>3
  <2>4. Clocks' BY <2>2, <2>3, <1>1, <1>7, Zenon DEF KaInv, Clocks
  <2>5. SteadyHostLives'
    <3> SUFFICES ASSUME kept, entryKato # 0,
                        ~(keepalive_tick(kato) < keepalive_tick(entryKato))
                 PROVE  ~expired'
      BY <1>1, Zenon DEF SteadyHostLives
    <3>1. entryKato \in Nat BY <1>7 DEF KaInv, KaTypeOK
    <3>2. keepalive_tick(entryKato) \in Nat BY <3>1, TickRange, Zenon
    <3>3. gap <= kato /\ Unheard BY <1>7, Zenon DEF KaInv, Clocks
    <3>4. silent <= kato + keepalive_tick(entryKato) + MaxLag
      <4>1. CASE silent <= gap BY <4>1, <3>2, <3>3, <1>2
      <4>2. CASE \E q \in IoQueues : /\ Publishing(q) /\ mark[q]
                                     /\ silent + beacon[q] <= kato + keepalive_tick(entryKato)
        <5>1. PICK q \in IoQueues : /\ Publishing(q)
                                    /\ silent + beacon[q] <= kato + keepalive_tick(entryKato)
          BY <4>2, Zenon
        <5>2. 0 - MaxLag <= beacon[q] /\ beacon[q] \in Int
          BY <5>1, <1>2, Zenon DEF KaInv, QueueOK
        <5> QED BY <5>1, <5>2, <3>2, <1>2
      <4> QED BY <4>1, <4>2, <3>3, <1>7, Zenon DEF Unheard
    <3>5. ~(silent > kato * 2 + keepalive_tick(kato))
      BY <3>2, <3>4, <1>2, <1>3, <1>7
    <3> QED BY <3>5, <1>7, Zenon
  <2> QED BY <2>1, <2>4, <2>5, <1>4, Zenon DEF KaInv
<1> QED BY <1>5, <1>6, <1>7, Zenon DEF WatchdogWakes, Judge

\* While time passes every age grows as the sleeps shrink.
LEMMA PassesInv == KaInv /\ Passes => KaInv'
<1> SUFFICES ASSUME KaInv, Passes PROVE KaInv' BY Zenon
<1> USE KeepAliveAssumption
<1>1. /\ kato' = kato /\ entryKato' = entryKato /\ queue' = queue /\ ioKato' = ioKato
      /\ publishes' = publishes /\ mark' = mark /\ flag' = flag
      /\ expired' = expired /\ ~expired
      /\ kept' = (kept /\ (kato = 0 \/ gap < kato))
      /\ silent' = Older(silent) /\ gap' = Older(gap)
      /\ watchdog' = watchdog - 1 /\ watchdog > 0 - MaxLag
  BY Zenon DEF Passes
<1>2. /\ kato \in Nat /\ silent \in Nat /\ gap \in Nat /\ watchdog \in Int
      /\ watchdog <= TickMax /\ Off \in Int
      /\ \A q \in IoQueues : beacon[q] \in Int
  BY DEF KaInv, KaTypeOK, Off
<1>3. /\ silent' \in Nat /\ silent' <= silent + 1
      /\ gap' \in Nat /\ gap' <= gap + 1
  BY <1>1, <1>2, OlderRange, Zenon
<1>4. \A d \in Nat : gap <= silent + d => gap' <= silent' + d
  BY <1>1, <1>2, OlderRange, Zenon
<1>5. \A q \in IoQueues : /\ beacon'[q] = IF beacon[q] = Off THEN Off ELSE beacon[q] - 1
                          /\ beacon[q] # Off => beacon[q] > 0 - MaxLag
  BY Zenon DEF Passes
<1>6. KaTypeOK'
  <2>1. kept' \in BOOLEAN BY <1>1, Zenon
  <2>2. beacon' \in [IoQueues -> Int] BY <1>2 DEF Passes
  <2> QED BY <2>1, <2>2, <1>1, <1>2, <1>3 DEF KaInv, KaTypeOK
<1>7. ASSUME NEW q \in IoQueues PROVE QueueOK(q)'
  <2>1. QueueOK(q) /\ beacon[q] \in Int BY <1>2, Zenon DEF KaInv
  <2>2. queue[q] \in {"none", "gone"} => beacon'[q] = Off BY <2>1, <1>5, Zenon DEF QueueOK
  <2>3. Publishing(q) \/ queue[q] = "setup" =>
          beacon'[q] = beacon[q] - 1 /\ 0 - MaxLag <= beacon'[q]
    BY <2>1, <1>5 DEF QueueOK, Off
  <2>4. queue[q] = "setup" => beacon'[q] <= TickMin BY <2>1, <2>3 DEF QueueOK
  <2>5. Publishing(q) => entryKato \in Nat BY <2>1 DEF QueueOK, Publishing, KaInv, KaTypeOK
  <2>6. Publishing(q) => /\ beacon'[q] <= keepalive_tick(entryKato)
                         /\ mark[q] => gap' + beacon'[q] <= TickMax
    <3> SUFFICES ASSUME Publishing(q)
                 PROVE  /\ beacon'[q] <= keepalive_tick(entryKato)
                        /\ mark[q] => gap' + beacon'[q] <= TickMax
      BY Zenon
    <3>1. /\ beacon[q] <= keepalive_tick(entryKato) /\ keepalive_tick(entryKato) \in Nat
          /\ mark[q] => gap + beacon[q] <= TickMax
      BY <2>1, <2>5, TickRange, Zenon DEF QueueOK
    <3> QED BY <2>1, <2>3, <3>1, <1>2, <1>3, BeaconNearer, Zenon
  <2> QED BY <2>1, <2>2, <2>3, <2>4, <2>6, <1>1, Zenon DEF QueueOK, Publishing, Off
<1>8. kept /\ kato # 0 /\ entryKato # 0 => Unheard'
  <2> SUFFICES ASSUME kept, kato # 0, entryKato # 0 PROVE Unheard' BY Zenon
  <2>1. Unheard /\ entryKato \in Nat BY DEF KaInv, Clocks, KaTypeOK
  <2>2. CASE flag BY <2>2, <1>1, Zenon DEF Unheard
  <2>3. CASE silent <= gap
    <3>1. silent' <= gap' BY <2>3, <1>1, <1>2, OlderRange
    <3> QED BY <3>1, Zenon DEF Unheard
  <2>4. CASE \E q \in IoQueues : /\ Publishing(q) /\ mark[q]
                                 /\ silent + beacon[q] <= kato + keepalive_tick(entryKato)
    <3>1. PICK q \in IoQueues : /\ Publishing(q) /\ mark[q]
                                /\ silent + beacon[q] <= kato + keepalive_tick(entryKato)
      BY <2>4, Zenon
    <3>2. beacon[q] # Off BY <3>1, <1>2 DEF KaInv, QueueOK, Off
    <3>3. beacon'[q] = beacon[q] - 1 BY <3>2, <1>5, Zenon
    <3>4. silent' + beacon'[q] <= kato + keepalive_tick(entryKato)
      BY <3>1, <3>3, <2>1, <1>2, <1>3, TickRange
    <3> QED BY <3>1, <3>4, <1>1, Zenon DEF Unheard, Publishing
  <2> QED BY <2>1, <2>2, <2>3, <2>4, Zenon DEF Unheard
<1>9. /\ kato # 0 /\ flag => gap' + watchdog' <= 2 * TickMax + MaxLag
      /\ gap' <= silent' + 2 * (TickMax + MaxLag)
      /\ kato # 0 => \/ silent' + watchdog' <= 2 * kato + 2 * keepalive_tick(kato)
                     \/ gap' + watchdog' <= TickMax
      /\ kept' /\ kato # 0 => gap' <= kato
  <2>1. kato # 0 /\ flag => gap' + watchdog' <= 2 * TickMax + MaxLag
    BY <1>1, <1>2, <1>3 DEF KaInv, Clocks
  <2>2. gap' <= silent' + 2 * (TickMax + MaxLag)
    BY <1>4 DEF KaInv, Clocks
  <2>3. keepalive_tick(kato) \in Nat BY <1>2, TickRange, Zenon
  <2>4. kato # 0 => \/ silent' + watchdog' <= 2 * kato + 2 * keepalive_tick(kato)
                    \/ gap' + watchdog' <= TickMax
    BY <2>3, <1>1, <1>2, <1>3 DEF KaInv, Clocks
  <2>5. kept' /\ kato # 0 => gap' <= kato
    <3>1. kept' /\ kato # 0 => gap < kato BY <1>1, Zenon
    <3> QED BY <3>1, <1>2, <1>3
  <2> QED BY <2>1, <2>2, <2>4, <2>5, Zenon
<1>10. Clocks' BY <1>1, <1>8, <1>9, Zenon DEF Clocks
<1>11. SteadyHostLives' BY <1>1, Zenon DEF SteadyHostLives
<1> QED BY <1>6, <1>7, <1>10, <1>11, Zenon DEF KaInv

---------------------------------------------------------------------------
(* The theorems.                                                           *)

\* The invariant holds of every behaviour.
THEOREM KeepAliveInvariant == KaSpec => []KaInv
<1>1. KaInit => KaInv BY KaInitInv, Zenon
<1>2. KaInv /\ [KaNext]_kaVars => KaInv'
  <2> SUFFICES ASSUME KaInv, [KaNext]_kaVars PROVE KaInv' BY Zenon
  <2>1. CASE AdminConnects \/ AdminCommand \/ SetKato BY <2>1, HeardInv, Zenon
  <2>2. CASE WatchdogWakes BY <2>2, WatchdogWakesInv, Zenon
  <2>3. CASE Passes BY <2>3, PassesInv, Zenon
  <2>4. ASSUME NEW q \in IoQueues,
               OpenQueue(q) \/ ConnectQueue(q) \/ IoCommand(q) \/ CloseQueue(q) \/ Beacon(q)
        PROVE  KaInv'
    BY <2>4, OpenInv, ConnectQueueInv, IoCommandInv, CloseQueueInv, BeaconInv, Zenon
  <2>5. CASE UNCHANGED kaVars
    BY <2>5, KaKept, Zenon
  <2> QED BY <2>1, <2>2, <2>3, <2>4, <2>5, Zenon DEF KaNext
<1> QED BY <1>1, <1>2, PTL DEF KaSpec

\* The watchdog takes no host for dead that showed itself within every timeout,
\* on whichever queue, unless its IO queues publish at no tick or a longer one.
THEOREM SteadyHostsLive == KaSpec => []SteadyHostLives
<1>1. KaInv => SteadyHostLives BY Zenon DEF KaInv
<1> QED BY <1>1, KeepAliveInvariant, PTL

\* A host that went silent is noticed in bounded time, whatever sleeps, marks
\* and timeouts it left behind.
THEOREM DeadHostsNoticed == KaSpec => []DeadHostNoticed
<1>1. KaInv => DeadHostNoticed
  <2> USE KeepAliveAssumption
  <2> SUFFICES ASSUME KaInv, kato # 0, ~expired
               PROVE  gap <= 2 * (TickMax + MaxLag) + 2 * kato
                               + 2 * keepalive_tick(kato) + MaxLag
    BY Zenon DEF DeadHostNoticed
  <2>1. /\ kato \in Nat /\ silent \in Nat /\ gap \in Nat /\ watchdog \in Int
        /\ 0 - MaxLag <= watchdog
    BY Zenon DEF KaInv, KaTypeOK
  <2>2. keepalive_tick(kato) \in Nat BY <2>1, TickRange, Zenon
  <2>3. /\ gap <= silent + 2 * (TickMax + MaxLag)
        /\ \/ silent + watchdog <= 2 * kato + 2 * keepalive_tick(kato)
           \/ gap + watchdog <= TickMax
    BY Zenon DEF KaInv, Clocks
  <2> QED BY <2>1, <2>2, <2>3
<1> QED BY <1>1, KeepAliveInvariant, PTL

=============================================================================
