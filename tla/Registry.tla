------------------------------ MODULE Registry ------------------------------
(***************************************************************************)
(* The controller registry (core/src/registry.rs) as the queue threads     *)
(* use it: Connect on admin and IO queues and the CC/CSTS registers        *)
(* (nvme/src/fabrics_exec.rs, controller.rs), the teardown of an admin     *)
(* queue, and the IO queues' watchdog that follows it                      *)
(* (nvme-rdma/src/target.rs).  An action holds the registry's mutex once.  *)
(***************************************************************************)
EXTENDS Integers

CONSTANTS
  AdminConns,   \* admin queue connections, each made once
  IoConns,      \* IO queue connections, each made once
  Hosts,        \* host NQNs
  CntlidMin,    \* the slice of controller ids this process may allocate
  CntlidMax,
  MaxQid,       \* PortConfig.max_qid
  Nobody        \* no connection

ASSUME RegistryAssumption ==
  /\ CntlidMin \in Nat \ {0} /\ CntlidMax \in Nat /\ CntlidMin <= CntlidMax
  /\ MaxQid \in Nat
  /\ Nobody \notin AdminConns

Cntlids == CntlidMin .. CntlidMax

Span == CntlidMax - CntlidMin + 1

VARIABLES
  entry,    \* Registry.controllers; an entry also names its admin connection
  nextId,   \* Registry.next_cntlid
  admin,    \* per admin connection: phase, AdminState.cntlid, last Connect status
  regs,     \* per admin connection: CC.EN, CSTS.RDY, CSTS.SHST_COMPLETE
  io        \* per IO connection: phase, Connect data, and two ghosts: the
            \* controller it was meant for and the one it was installed in

registryVars == <<entry, nextId, admin, regs, io>>

NoEntry == [owner |-> Nobody, host |-> Nobody, maxQid |-> 0, qids |-> {}]
NewAdmin == [phase |-> "open", cntlid |-> 0, status |-> "none"]
NewRegs == [en |-> FALSE, rdy |-> FALSE, shst |-> FALSE]
NewIo == [phase |-> "none", cntlid |-> 0, host |-> Nobody, qid |-> 0,
          meant |-> Nobody, serves |-> Nobody]

GoneAdmin == [NewAdmin EXCEPT !.phase = "gone"]
GoneIo == [NewIo EXCEPT !.phase = "gone"]

RegistryInit ==
  /\ entry = [c \in Cntlids |-> NoEntry] /\ nextId = CntlidMin
  /\ admin = [a \in AdminConns |-> NewAdmin]
  /\ regs = [a \in AdminConns |-> NewRegs]
  /\ io = [q \in IoConns |-> NewIo]

contains(c) == c \in Cntlids /\ entry[c].owner # Nobody

---------------------------------------------------------------------------
(* Admin queues.                                                           *)

\* The o-th id allocate looks at.
Clamped(n) == IF n > CntlidMax THEN CntlidMax ELSE n
Scanned(o) == CntlidMin + ((Clamped(nextId) - CntlidMin + o) % Span)

\* Ids allocate looks at, in order.
Scan == 0 .. Span - 1

\* allocate: the first vacant id.  Faulty variant: the first id.
allocate_blind(a, h, max, o) ==
  /\ o = 0
  /\ entry' = [entry EXCEPT ![Scanned(o)] =
                 [owner |-> a, host |-> h, maxQid |-> max, qids |-> {0}]]
  /\ nextId' = Scanned(o) + 1

allocate(a, h, max, o) ==
  /\ ~contains(Scanned(o)) /\ \A p \in 0 .. o - 1 : contains(Scanned(p))
  /\ entry' = [entry EXCEPT ![Scanned(o)] =
                 [owner |-> a, host |-> h, maxQid |-> max, qids |-> {0}]]
  /\ nextId' = Scanned(o) + 1

\* A Connect of an NVM or of a discovery controller, which gets no IO queue.
\* A second Connect on a bound queue is refused and changes nothing.
ConnectAdmin(a) ==
  /\ admin[a].phase = "open" /\ admin[a].cntlid = 0
  /\ \/ \E h \in Hosts, max \in {0, MaxQid}, o \in Scan :
          /\ allocate(a, h, max, o)
          /\ admin' = [admin EXCEPT ![a].cntlid = Scanned(o), ![a].status = "success"]
     \/ /\ \A o \in Scan : contains(Scanned(o))
        /\ admin' = [admin EXCEPT ![a].status = "busy"]
        /\ UNCHANGED <<entry, nextId>>
  /\ UNCHANGED <<regs, io>>

\* RegisterState::write_cc: a shutdown notification hides a change of EN.
write_cc(r, en, shn) ==
  [en |-> en, shst |-> r.shst \/ shn, rdy |-> IF shn \/ en = r.en THEN r.rdy ELSE en]

SetCc(a) ==
  /\ admin[a].phase = "open" /\ admin[a].cntlid # 0
  /\ \E en, shn \in BOOLEAN : regs' = [regs EXCEPT ![a] = write_cc(regs[a], en, shn)]
  /\ UNCHANGED <<entry, nextId, admin, io>>

\* teardown of an admin queue.
TeardownAdmin(a) ==
  /\ admin[a].phase = "open"
  /\ admin' = [admin EXCEPT ![a] = GoneAdmin] /\ regs' = [regs EXCEPT ![a] = NewRegs]
  /\ entry' = [c \in Cntlids |-> IF c = admin[a].cntlid THEN NoEntry ELSE entry[c]]
  /\ UNCHANGED <<nextId, io>>

---------------------------------------------------------------------------
(* IO queues.                                                              *)

\* A host that knows a controller's id opens a queue for it; the connection
\* travels through the control thread and a mailbox before its Connect runs.
OpenIo(q) ==
  /\ io[q].phase = "none"
  /\ \E a \in AdminConns, h \in Hosts, qid \in 0 .. MaxQid + 1 :
       /\ admin[a].phase = "open" /\ admin[a].cntlid # 0
       /\ io' = [io EXCEPT ![q] =
                   [phase |-> "open", cntlid |-> admin[a].cntlid, host |-> h,
                    qid |-> qid, meant |-> a, serves |-> Nobody]]
  /\ UNCHANGED <<entry, nextId, admin, regs>>

\* install_io_queue's conditions.
Admits(e, q) ==
  /\ e.owner # Nobody /\ e.host = q.host
  /\ q.qid \in 1 .. e.maxQid /\ q.qid \notin e.qids

ConnectIo(q) ==
  LET c == io[q].cntlid
  IN  /\ io[q].phase = "open"
      /\ \/ /\ Admits(entry[c], io[q])
            /\ entry' = [entry EXCEPT ![c].qids = @ \cup {io[q].qid}]
            /\ io' = [io EXCEPT ![q].phase = "live", ![q].serves = entry[c].owner]
         \/ /\ ~Admits(entry[c], io[q])
            /\ io' = [io EXCEPT ![q] = [NewIo EXCEPT !.phase = "refused"]]
            /\ UNCHANGED entry
      /\ UNCHANGED <<nextId, admin, regs>>

\* The host closes the queue; its id stays taken in the entry.
CloseIo(q) ==
  /\ io[q].phase \in {"open", "live", "refused"}
  /\ io' = [io EXCEPT ![q] = GoneIo]
  /\ UNCHANGED <<entry, nextId, admin, regs>>

\* RdmaQueue::watchdog on an IO queue.  Faulty variant: without
\* the look at the registry.
WatchdogHasty(q) ==
  /\ io[q].phase = "live"
  /\ io' = [io EXCEPT ![q].phase = "followed"]
  /\ UNCHANGED <<entry, nextId, admin, regs>>

Watchdog(q) ==
  /\ io[q].phase = "live" /\ ~contains(io[q].cntlid)
  /\ io' = [io EXCEPT ![q].phase = "followed"]
  /\ UNCHANGED <<entry, nextId, admin, regs>>

RegistryNext ==
  \/ \E a \in AdminConns : ConnectAdmin(a) \/ SetCc(a) \/ TeardownAdmin(a)
  \/ \E q \in IoConns : OpenIo(q) \/ ConnectIo(q) \/ CloseIo(q) \/ Watchdog(q)

RegistrySpec == RegistryInit /\ [][RegistryNext]_registryVars

---------------------------------------------------------------------------
(* Properties.                                                             *)

Entries == [owner : AdminConns \cup {Nobody}, host : Hosts \cup {Nobody},
            maxQid : {0, MaxQid}, qids : SUBSET (0 .. MaxQid)]
AdminStates == [phase : {"open", "gone"}, cntlid : Cntlids \cup {0},
                status : {"none", "success", "busy"}]
IoStates == [phase : {"none", "open", "live", "refused", "followed", "gone"},
             cntlid : Cntlids \cup {0}, host : Hosts \cup {Nobody},
             qid : 0 .. MaxQid + 1, meant : AdminConns \cup {Nobody},
             serves : AdminConns \cup {Nobody}]

RegistryTypeOK ==
  /\ entry \in [Cntlids -> Entries]
  /\ nextId \in CntlidMin .. CntlidMax + 1
  /\ admin \in [AdminConns -> AdminStates]
  /\ regs \in [AdminConns -> [en : BOOLEAN, rdy : BOOLEAN, shst : BOOLEAN]]
  /\ io \in [IoConns -> IoStates]

\* A bound admin queue owns the entry of its id for as long as it lives: no
\* two controllers share an id, and no teardown removes another's entry.
OwnEntry ==
  \A a \in AdminConns :
    admin[a].phase = "open" /\ admin[a].cntlid # 0 => entry[admin[a].cntlid].owner = a

\* The entry is reaped with its admin connection.
NoOrphanEntry ==
  \A c \in Cntlids : contains(c) =>
    admin[entry[c].owner].phase = "open" /\ admin[entry[c].owner].cntlid = c

\* Live IO queues of one controller have different ids, all recorded in its
\* entry, and belong to the host that created the controller.
IoQueuesDistinct ==
  /\ \A p, q \in IoConns :
       (io[p].phase = "live" /\ io[q].phase = "live" /\ io[p].serves = io[q].serves
          /\ io[p].qid = io[q].qid) => p = q
  /\ \A q \in IoConns :
       (io[q].phase = "live" /\ entry[io[q].cntlid].owner = io[q].serves) =>
         io[q].qid \in entry[io[q].cntlid].qids /\ entry[io[q].cntlid].host = io[q].host

\* The registry as a whole: ids, entries and IO queues agree.
RegistrySafety == OwnEntry /\ NoOrphanEntry /\ IoQueuesDistinct

\* Connect is answered "busy" only when the slice is exhausted, wherever the
\* scan starts.
BusyOnlyWhenFull ==
  [][\A a \in AdminConns :
       admin[a].status # "busy" /\ admin'[a].status = "busy" =>
         \A c \in Cntlids : contains(c)]_registryVars

\* The watchdog brings an IO queue down only after its own controller: a live
\* controller never loses a queue to a teardown or reuse of another's id.
OnlyOrphansFollow ==
  \A q \in IoConns : io[q].phase = "followed" => admin[io[q].serves].phase = "gone"

\* "Everything but Connect/Property requires an enabled controller": execute
\* lets commands pass on CSTS.RDY.  This does not hold: see the README on a
\* write that clears EN and notifies a shutdown.
ReadyIsEnabled == \A a \in AdminConns : regs[a].rdy => regs[a].en
=============================================================================
