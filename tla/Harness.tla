------------------------------- MODULE Harness -------------------------------
(***************************************************************************)
(* The harness of ioutgt (crates/ioutgt-harness/src/lib.rs): the control   *)
(* thread, the lazily spawned pool of queue threads, the mailboxes between *)
(* them, the connection permits, the idle teardown, and the two requests   *)
(* of the control API that cross threads: a namespace edit, which nudges   *)
(* every live controller, and GET_STATS.  The connection sources are the   *)
(* TCP listener and the RDMA CM thread.                                    *)
(*                                                                         *)
(* Everything on the control thread (the accept loop, the handshake tasks, *)
(* the idle tick, the control API) is one LocalSet: its tasks interleave   *)
(* only at their awaits.  A mailbox send is two steps, the push and the    *)
(* write of the doorbell eventfd, and a queue thread may run between them. *)
(* What the control thread has still to send is `outbox`; no other task of *)
(* that thread runs until it is empty.                                     *)
(*                                                                         *)
(* A pool is named by its incarnation, a queue thread by <<pool, thread>>; *)
(* thread 0 is the admin thread.  What a scenario fixes for a behaviour is *)
(* in `sc`: the number of IO threads, the transport, the connections that  *)
(* arrive and their qids, and which optional events happen ("idle" is a    *)
(* configured idle_teardown).                                              *)
(***************************************************************************)
EXTENDS Integers, Sequences, FiniteSets, Functions

CONSTANTS Conns,           \* the connections hosts make
          MaxConnections,  \* MAX_CONNECTIONS
          Grace,           \* the idle grace period, in idle ticks
          Backlog,         \* ACCEPT_BACKLOG
          MaxIo,           \* bound: IO threads of a scenario
          MaxPools,        \* bound: incarnations of the pool
          MaxEdits,        \* bound: namespace edits
          MaxWork,         \* bound: commands counted
          MaxQueries,      \* bound: GET_STATS requests
          MaxFaults,       \* bound: injected failures
          Scenarios

ASSUME HarnessAssumption ==
  /\ IsFiniteSet(Conns)
  /\ MaxConnections \in Nat /\ Grace \in Nat /\ Backlog \in Nat \ {0}
  /\ MaxIo \in Nat /\ MaxPools \in Nat
  /\ \A s \in Scenarios : s.nio \in 0 .. MaxIo /\ s.qid \in [Conns -> Nat]

VARIABLES sc, conn, home, backlog, cm, held, cmUp, pool, pools, active,
          idle, quiet, outbox, mail, bell, thr, faults, ctl, version, query,
          listed, retired, count, done, work

source  == <<backlog, cm, held, cmUp>>
control == <<pool, pools, active, idle, quiet>>
boxes   == <<mail, bell, thr>>
nsvars  == <<ctl, version>>
stats   == <<query, listed, retired, count, done, work>>
vars    == <<sc, conn, home, source, control, outbox, boxes, faults, nsvars, stats>>

NoIdle   == -1                       \* idle_since is None
Admin    == 0
Threads  == 0 .. sc.nio
Slots    == (1 .. MaxPools) \X (0 .. MaxIo)
May(e)   == e \in sc.may

\* IoMsg and AdminMsg.
ConnMsg(c)     == [op |-> "Conn", c |-> c]
NsChanged      == [op |-> "NsChanged"]
StatsMsg(n, z) == [op |-> "Stats", n |-> n, clear |-> z]
Shutdown       == [op |-> "Shutdown"]

\* The stages in which a connection carries its ConnPermit.
Permitted == {"icreq", "connect", "sent", "running", "open"}
Holders   == {c \in Conns : conn[c] \in Permitted}

\* A connection whose dispatch context exists on its queue thread.
Alive(c) == conn[c] \in {"open", "leaked"}

\* The queue thread a qid is served by.
threadOf(c) == IF sc.qid[c] = 0 THEN Admin ELSE ((sc.qid[c] - 1) % sc.nio) + 1
slotOf(c)   == <<home[c], threadOf(c)>>

\* AdminState as new_admin builds it, with the host's side of the protocol:
\* `aer` an AER is outstanding, `told` one has completed and the host has yet to
\* read the Changed-NS log, `scan` it has yet to rescan, `seen` the version of
\* the namespace table it last scanned, `kept` it never masked the notice.
newAdmin == [aec |-> TRUE, changed |-> FALSE, event |-> FALSE, aer |-> FALSE,
             told |-> FALSE, scan |-> TRUE, seen |-> 0, kept |-> TRUE]

NoQuery == [n |-> 0, th |-> 0, clear |-> FALSE, wait |-> FALSE, on |-> FALSE]

\* control_loop before its first accept: the pool is down.
Init ==
  /\ sc \in Scenarios
  /\ conn = [c \in Conns |-> "new"]
  /\ home = [c \in Conns |-> 0]
  /\ backlog = <<>> /\ cm = {} /\ held = {} /\ cmUp = (sc.transport = "rdma")
  /\ pool = 0 /\ pools = 0 /\ active = 0 /\ idle = NoIdle /\ quiet = 0
  /\ outbox = <<>>
  /\ mail = [s \in Slots |-> <<>>] /\ bell = [s \in Slots |-> FALSE]
  /\ thr = [s \in Slots |-> "none"]
  /\ faults = 0
  /\ ctl = [c \in Conns |-> newAdmin] /\ version = 0
  /\ query = NoQuery
  /\ listed = [s \in Slots |-> {}] /\ retired = [s \in Slots |-> 0]
  /\ count = [c \in Conns |-> 0] /\ done = [s \in Slots |-> 0] /\ work = 0

-----------------------------------------------------------------------------
(* The connection sources.                                                 *)

\* The kernel completes a TCP connection into the listener's accept queue.
TcpArrives(c) ==
  /\ sc.transport = "tcp" /\ c \in sc.arrive /\ conn[c] = "new"
  /\ conn' = [conn EXCEPT ![c] = "backlog"]
  /\ backlog' = Append(backlog, c)
  /\ UNCHANGED <<sc, home, cm, held, cmUp, control, outbox, boxes, faults, nsvars, stats>>

\* The CM thread's listener takes a well-formed CONNECT_REQUEST: it adopts the
\* cm_id, tracks the connection, and returns it to be forwarded.
CmConnectRequest(c) ==
  /\ cmUp /\ held = {} /\ c \in sc.arrive /\ conn[c] = "new"
  /\ conn' = [conn EXCEPT ![c] = "backlog"]
  /\ cm' = cm \cup {c} /\ held' = {c}
  /\ UNCHANGED <<sc, home, backlog, cmUp, control, outbox, boxes, faults, nsvars, stats>>

\* A malformed request is rejected with its status; nothing is tracked.
CmRejects(c) ==
  /\ May("reject") /\ cmUp /\ held = {} /\ c \in sc.arrive /\ conn[c] = "new"
  /\ conn' = [conn EXCEPT ![c] = "rejected"]
  /\ UNCHANGED <<sc, home, source, control, outbox, boxes, faults, nsvars, stats>>

\* accept_tx.send: the CM thread waits while the channel is full, and handles
\* no other CM event meanwhile.
CmForwards ==
  /\ Len(backlog) < Backlog
  /\ \E c \in held : backlog' = Append(backlog, c)
  /\ held' = {}
  /\ UNCHANGED <<sc, conn, home, cm, cmUp, control, outbox, boxes, faults, nsvars, stats>>

\* The host tore an accepted connection down: the listener drops its slot.  The
\* stop signal it fires ends the queue's reap loop (module RdmaQueue); here the
\* queue may end at any time.  A cm_id no longer tracked is only acknowledged.
CmDisconnected(c) ==
  /\ cmUp /\ held = {} /\ c \in cm /\ conn[c] \in {"running", "open", "leaked", "ended"}
  /\ cm' = cm \ {c}
  /\ UNCHANGED <<sc, conn, home, backlog, held, cmUp, control, outbox, boxes, faults, nsvars, stats>>

\* The CM channel fails and the thread ends: accept() then pends for ever, and
\* what was forwarded before is still delivered.
CmThreadEnds ==
  /\ May("fault") /\ faults < MaxFaults /\ cmUp /\ held = {}
  /\ cmUp' = FALSE /\ faults' = faults + 1
  /\ UNCHANGED <<sc, conn, home, backlog, cm, held, control, outbox, boxes, nsvars, stats>>

-----------------------------------------------------------------------------
(* The control thread.                                                     *)

\* No task of the control thread is between two of its awaits.
Between == outbox = <<>>

\* Transport::accept has a connection to return; otherwise it pends, for ever once
\* the CM thread is gone.
Accepted == backlog # <<>>

\* MailboxSender::send, carried out by CtlPush and CtlRing.
letter(s, m) == [to |-> s, msg |-> m, pushed |-> FALSE]

\* build_pool and the spawn closures.  A thread in `failed` could not be spawned,
\* or could not build its runtime: that is only logged, and the pool is
\* published with that thread's sender all the same.
spawnPool(failed) ==
  /\ pools' = pools + 1 /\ pool' = pools + 1
  /\ thr' = [s \in Slots |-> IF s[1] # pools + 1 \/ s[2] \notin Threads THEN thr[s]
                             ELSE IF s[2] \in failed THEN "dead" ELSE "poll"]

\* ensure_pool_up, when it leaves the pool up.
ensurePoolUp ==
  \/ pool # 0 /\ UNCHANGED <<pool, pools, thr, faults>>
  \/ pool = 0 /\ pools < MaxPools /\ spawnPool({}) /\ UNCHANGED faults
  \/ /\ pool = 0 /\ pools < MaxPools /\ May("fault") /\ faults < MaxFaults
     /\ \E t \in Threads : spawnPool({t})
     /\ faults' = faults + 1

\* Faulty variant: accepting does not restart the idle clock.
restartIdleNever == UNCHANGED idle

\* An accepted connection is activity: IdleTeardown::reset.  (An accept error
\* changes nothing.)
restartIdle == idle' = NoIdle

\* handle_accept: bring the pool up, count the connection, and refuse it above
\* the limit; otherwise the spawned task owns a permit and starts the handshake
\* with the senders of this pool.
Accept ==
  /\ Between /\ Accepted
  /\ backlog' = Tail(backlog)
  /\ restartIdle
  /\ ensurePoolUp
  /\ LET c == Head(backlog) IN
       IF active + 1 > MaxConnections
       THEN /\ conn' = [conn EXCEPT ![c] = "dropped"]
            /\ UNCHANGED <<home, active, quiet>>
       ELSE /\ conn' = [conn EXCEPT ![c] = IF sc.transport = "tcp" THEN "icreq" ELSE "connect"]
            /\ home' = [home EXCEPT ![c] = pool']
            /\ active' = active + 1
            /\ quiet' = 0
  /\ UNCHANGED <<sc, cm, held, cmUp, outbox, mail, bell, nsvars, stats>>

\* handle_accept when build_pool fails: the pool stays down and the connection
\* is dropped.
AcceptWithoutPool ==
  /\ Between /\ Accepted /\ pool = 0 /\ May("fault") /\ faults < MaxFaults
  /\ backlog' = Tail(backlog)
  /\ restartIdle
  /\ conn' = [conn EXCEPT ![Head(backlog)] = "dropped"]
  /\ faults' = faults + 1
  /\ UNCHANGED <<sc, home, cm, held, cmUp, pool, pools, active, quiet, outbox, boxes,
                 nsvars, stats>>

\* accept_handshake: the host's ICReq was valid and the ICResp is written.
IcExchange(c) ==
  /\ Between /\ conn[c] = "icreq"
  /\ conn' = [conn EXCEPT ![c] = "connect"]
  /\ UNCHANGED <<sc, home, source, control, outbox, boxes, faults, nsvars, stats>>

\* Faulty variant: the permit stays with the handshake task, which ends here.
routeReleasing(c) ==
  /\ conn' = [conn EXCEPT ![c] = "sent"]
  /\ active' = active - 1
  /\ outbox' = <<letter(slotOf(c), ConnMsg(c))>>

\* The end of the handshake task: the Conn, permit included, goes to the thread
\* its qid names; with no IO thread it is dropped.
route(c) ==
  IF sc.qid[c] # 0 /\ sc.nio = 0
  THEN /\ conn' = [conn EXCEPT ![c] = "ended"]
       /\ active' = active - 1
       /\ UNCHANGED outbox
  ELSE /\ conn' = [conn EXCEPT ![c] = "sent"]
       /\ outbox' = <<letter(slotOf(c), ConnMsg(c))>>
       /\ UNCHANGED active

\* T::handshake succeeds: over TCP read_connect has the Connect capsule and its
\* sqsize is in range; over RDMA the raw connection is only packaged.
HandshakeDone(c) ==
  /\ Between /\ conn[c] = "connect"
  /\ route(c)
  /\ UNCHANGED <<sc, home, source, pool, pools, idle, quiet, boxes, faults, nsvars, stats>>

\* Faulty variant: the permit is forgotten with the failed task.
HandshakeFailsKeeping(c) ==
  /\ Between /\ sc.transport = "tcp" /\ conn[c] \in {"icreq", "connect"}
  /\ conn' = [conn EXCEPT ![c] = "ended"]
  /\ UNCHANGED <<sc, home, source, control, outbox, boxes, faults, nsvars, stats>>

\* T::handshake fails (a malformed PDU, a closed socket, an sqsize out of range):
\* the socket and the permit are dropped.
HandshakeFails(c) ==
  /\ Between /\ sc.transport = "tcp" /\ conn[c] \in {"icreq", "connect"}
  /\ conn' = [conn EXCEPT ![c] = "ended"]
  /\ active' = active - 1
  /\ UNCHANGED <<sc, home, source, pool, pools, idle, quiet, outbox, boxes, faults, nsvars, stats>>

\* teardown_pool: the senders are taken, and every thread is told to exit, the
\* IO threads first.
teardownPool ==
  /\ pool' = 0
  /\ outbox' = [i \in 1 .. sc.nio + 1 |->
                  letter(<<pool, IF i <= sc.nio THEN i ELSE Admin>>, Shutdown)]

\* IdleTeardown::maybe_teardown, once per tick.  `quiet` is not in the code: it
\* counts the ticks since a connection was last active.
IdleTick ==
  /\ Between
  /\ IF May("idle")
     THEN quiet' = IF active > 0 THEN 0 ELSE IF quiet > Grace THEN quiet ELSE quiet + 1
     ELSE UNCHANGED quiet
  /\ IF May("idle") /\ pool # 0 /\ active = 0
     THEN LET since == IF idle = NoIdle THEN 0 ELSE idle + 1 IN
          IF since >= Grace THEN teardownPool /\ idle' = NoIdle
                            ELSE idle' = since /\ UNCHANGED <<pool, outbox>>
     ELSE idle' = NoIdle /\ UNCHANGED <<pool, outbox>>
  /\ UNCHANGED <<sc, conn, home, source, pools, active, boxes, faults, nsvars, stats>>

\* ADD_NAMESPACE or REMOVE_NAMESPACE that changes the table: a new version, then
\* notify_ns_changed, which does nothing while the pool is down.  (A request
\* that fails changes nothing.)
NsEdit ==
  /\ Between /\ May("ns") /\ version < MaxEdits
  /\ version' = version + 1
  /\ outbox' = IF pool = 0 THEN <<>> ELSE <<letter(<<pool, Admin>>, NsChanged)>>
  /\ UNCHANGED <<sc, conn, home, source, control, boxes, faults, ctl, stats>>

\* GET_STATS asks the threads one after the other.
GetStats(clear) ==
  /\ Between /\ May("stats") /\ ~query.on /\ query.n < MaxQueries
  /\ query' = [n |-> query.n + 1, th |-> Admin, clear |-> clear, wait |-> FALSE, on |-> TRUE]
  /\ UNCHANGED <<sc, conn, home, source, control, outbox, boxes, faults, nsvars,
                 listed, retired, count, done, work>>

\* The answer for one thread is in, or given up: on to the next.
advance(q) == [q EXCEPT !.wait = FALSE, !.on = q.th < sc.nio,
                        !.th = IF q.th < sc.nio THEN @ + 1 ELSE @]

\* One stats source: a message to the live thread, or a zeroed reply when the
\* pool is down.
AskThread ==
  /\ Between /\ query.on /\ ~query.wait
  /\ IF pool = 0 THEN query' = advance(query) /\ UNCHANGED outbox
                 ELSE /\ query' = [query EXCEPT !.wait = TRUE]
                      /\ outbox' = <<letter(<<pool, query.th>>, StatsMsg(query.n, query.clear))>>
  /\ UNCHANGED <<sc, conn, home, source, control, boxes, faults, nsvars,
                 listed, retired, count, done, work>>

\* 500 ms without a reply: "thread unresponsive".  The request stays in the
\* mailbox.
StatsTimeout ==
  /\ Between /\ query.wait
  /\ query' = advance(query)
  /\ UNCHANGED <<sc, conn, home, source, control, outbox, boxes, faults, nsvars,
                 listed, retired, count, done, work>>

\* MailboxSender::send, first half: push under the mutex.
CtlPush ==
  /\ outbox # <<>> /\ ~Head(outbox).pushed
  /\ LET l == Head(outbox) IN mail' = [mail EXCEPT ![l.to] = Append(@, l.msg)]
  /\ outbox' = [outbox EXCEPT ![1].pushed = TRUE]
  /\ UNCHANGED <<sc, conn, home, source, control, bell, thr, faults, nsvars, stats>>

\* Second half: write the doorbell.
CtlRing ==
  /\ outbox # <<>> /\ Head(outbox).pushed
  /\ bell' = [bell EXCEPT ![Head(outbox).to] = TRUE]
  /\ outbox' = Tail(outbox)
  /\ UNCHANGED <<sc, conn, home, source, control, mail, thr, faults, nsvars, stats>>

-----------------------------------------------------------------------------
(* The queue threads.                                                      *)

\* Faulty variant: the read is armed without looking at the queue again.
ThreadArmBlind(s) ==
  /\ thr[s] = "poll"
  /\ thr' = [thr EXCEPT ![s] = "armed"]
  /\ UNCHANGED <<sc, conn, home, source, control, outbox, mail, bell, faults, nsvars, stats>>

\* Mailbox::recv finds the queue empty and arms the doorbell read.
ThreadArm(s) ==
  /\ thr[s] = "poll" /\ mail[s] = <<>>
  /\ thr' = [thr EXCEPT ![s] = "armed"]
  /\ UNCHANGED <<sc, conn, home, source, control, outbox, mail, bell, faults, nsvars, stats>>

\* The read completes, taking the eventfd's count, and recv looks again.
ThreadWake(s) ==
  /\ thr[s] = "armed" /\ bell[s]
  /\ bell' = [bell EXCEPT ![s] = FALSE]
  /\ thr' = [thr EXCEPT ![s] = "poll"]
  /\ UNCHANGED <<sc, conn, home, source, control, outbox, mail, faults, nsvars, stats>>

\* try_recv pops a message of kind `op`.
Takes(s, op) ==
  /\ thr[s] = "poll" /\ mail[s] # <<>> /\ Head(mail[s]).op = op
  /\ mail' = [mail EXCEPT ![s] = Tail(@)]

Total(C) == SumFunctionOnSet(count, C)

\* Faulty variant: dead queues leave the list without being absorbed.
pruneForgets(s) ==
  /\ listed' = [listed EXCEPT ![s] = {c \in @ : Alive(c)}]
  /\ UNCHANGED retired

\* prune_dead_queues: a queue only this list still refers to is folded into the
\* retired accumulator.
prune(s) ==
  /\ listed' = [listed EXCEPT ![s] = {c \in @ : Alive(c)}]
  /\ retired' = [retired EXCEPT ![s] = @ + Total({c \in listed[s] : ~Alive(c)})]

\* IoMsg::Conn, AdminMsg::Conn: prune, then spawn run_queue.
TakeConn(s) ==
  /\ Takes(s, "Conn")
  /\ prune(s)
  /\ conn' = [conn EXCEPT ![Head(mail[s]).c] = "running"]
  /\ UNCHANGED <<sc, home, source, control, outbox, bell, thr, faults, nsvars,
                 query, count, done, work>>

\* Faulty variant: only an AER already parked is notified.
fireParkedOnly(a) ==
  [a EXCEPT !.changed = TRUE, !.event = a.aec /\ a.aer]

\* fire_ns_changed: mark the log page; unless the host masked it, queue one
\* NS_ATTR notice and wake the parked AERs.
fire(a) == [a EXCEPT !.changed = TRUE, !.event = @ \/ a.aec]

\* AdminMsg::NsChanged: fire the nudge of every controller still alive.
TakeNsChanged(s) ==
  /\ Takes(s, "NsChanged")
  /\ ctl' = [c \in Conns |-> IF sc.qid[c] = 0 /\ Alive(c) /\ home[c] = s[1]
                             THEN fire(ctl[c]) ELSE ctl[c]]
  /\ UNCHANGED <<sc, conn, home, source, control, outbox, bell, thr, faults, version, stats>>

\* reply_thread_stats: prune, reply (to a requester that may have given up),
\* then zero every counter if asked to.
TakeStats(s) ==
  /\ Takes(s, "Stats")
  /\ LET m    == Head(mail[s])
         left == {c \in listed[s] : Alive(c)}
     IN  /\ query' = IF query.wait /\ query.n = m.n /\ query.th = s[2]
                     THEN advance(query) ELSE query
         /\ IF m.clear
            THEN /\ listed' = [listed EXCEPT ![s] = left]
                 /\ retired' = [retired EXCEPT ![s] = 0]
                 /\ count' = [c \in Conns |-> IF c \in left THEN 0 ELSE count[c]]
                 /\ done' = [done EXCEPT ![s] = 0]
            ELSE prune(s) /\ UNCHANGED <<count, done>>
  /\ UNCHANGED <<sc, conn, home, source, control, outbox, bell, thr, faults, nsvars, work>>

\* What dies with a queue thread's runtime: the tasks still on it, with their
\* permits, and its counters.
threadEnds(s, how) ==
  LET tasks == {c \in Conns : conn[c] \in {"running", "open", "leaked"} /\ slotOf(c) = s}
  IN  /\ thr' = [thr EXCEPT ![s] = how]
      /\ conn' = [c \in Conns |-> IF c \in tasks THEN "ended" ELSE conn[c]]
      /\ active' = active - Cardinality(tasks \cap Holders)
      /\ listed' = [listed EXCEPT ![s] = {}] /\ retired' = [retired EXCEPT ![s] = 0]
      /\ done' = [done EXCEPT ![s] = 0]

\* Shutdown: the thread returns from block_on and drops its runtime.
TakeShutdown(s) ==
  /\ Takes(s, "Shutdown")
  /\ threadEnds(s, "exited")
  /\ UNCHANGED <<sc, home, source, pool, pools, idle, quiet, outbox, bell, faults, nsvars,
                 query, count, work>>

\* The doorbell read fails: the thread warns and returns.
MailboxFails(s) ==
  /\ May("fault") /\ faults < MaxFaults /\ thr[s] = "armed"
  /\ faults' = faults + 1
  /\ threadEnds(s, "dead")
  /\ UNCHANGED <<sc, home, source, pool, pools, idle, quiet, outbox, mail, bell, nsvars,
                 query, count, work>>

\* run_queue has its dispatch context: on_ctx lists its counters and, on the
\* admin thread, its nudge.  The host of an admin queue will scan.
OpenCtx(c) ==
  /\ conn[c] = "running"
  /\ conn' = [conn EXCEPT ![c] = "open"]
  /\ listed' = [listed EXCEPT ![slotOf(c)] = @ \cup {c}]
  /\ UNCHANGED <<sc, home, source, control, outbox, boxes, faults, nsvars,
                 query, retired, count, done, work>>

\* run_queue returns and drops its permit: the host closed, a protocol error, or
\* (RDMA) the stop signal.  A queue whose drain timed out is leaked: its
\* context stays.
EndQueue(c, how) ==
  /\ conn[c] = "open" \/ (conn[c] = "running" /\ how = "ended")
  /\ how = "leaked" => May("leak")
  /\ conn' = [conn EXCEPT ![c] = how]
  /\ active' = active - 1
  /\ UNCHANGED <<sc, home, source, pool, pools, idle, quiet, outbox, boxes, faults, nsvars, stats>>

\* A command is counted; on a leaked queue, one that was still in flight.
CountCommand(c) ==
  /\ May("stats") /\ Alive(c) /\ work < MaxWork
  /\ work' = work + 1
  /\ count' = [count EXCEPT ![c] = @ + 1]
  /\ done' = [done EXCEPT ![slotOf(c)] = @ + 1]
  /\ UNCHANGED <<sc, conn, home, source, control, outbox, boxes, faults, nsvars,
                 query, listed, retired>>

-----------------------------------------------------------------------------
(* Asynchronous events of one open admin queue.                            *)

admin(c, a) ==
  /\ ctl' = [ctl EXCEPT ![c] = a]
  /\ UNCHANGED <<sc, conn, home, source, control, outbox, boxes, faults, version, stats>>

OpenAdmin(c) == May("ns") /\ conn[c] = "open" /\ sc.qid[c] = 0

\* The host posts an Asynchronous Event Request, which parks.
PostAer(c) ==
  OpenAdmin(c) /\ ~ctl[c].aer /\ admin(c, [ctl[c] EXCEPT !.aer = TRUE])

\* A parked AER is polled with an event queued: it completes with it.
CompleteAer(c) ==
  /\ OpenAdmin(c) /\ ctl[c].aer /\ ctl[c].event
  /\ admin(c, [ctl[c] EXCEPT !.aer = FALSE, !.event = FALSE, !.told = TRUE])

\* Get Log Page, Changed Namespace List: reading clears the mark.  The host
\* rescans when the page names a change.
ReadChangedLog(c) ==
  /\ OpenAdmin(c) /\ ctl[c].told
  /\ admin(c, [ctl[c] EXCEPT !.told = FALSE, !.changed = FALSE, !.scan = @ \/ ctl[c].changed])

\* The host reads the namespace table.
Rescan(c) ==
  /\ OpenAdmin(c) /\ ctl[c].scan
  /\ admin(c, [ctl[c] EXCEPT !.scan = FALSE, !.seen = version])

\* Set Features, Asynchronous Event Configuration.
SetAec(c, on) ==
  /\ OpenAdmin(c) /\ May("mask") /\ ctl[c].aec # on
  /\ admin(c, [ctl[c] EXCEPT !.aec = on, !.kept = FALSE])

-----------------------------------------------------------------------------
SendSteps == CtlPush \/ CtlRing

ThreadSteps(s) ==
  \/ ThreadArm(s) \/ ThreadWake(s) \/ TakeConn(s)
  \/ TakeNsChanged(s) \/ TakeStats(s) \/ TakeShutdown(s)

Next ==
  \/ \E c \in Conns :
       \/ TcpArrives(c) \/ CmConnectRequest(c) \/ CmRejects(c) \/ CmDisconnected(c)
       \/ IcExchange(c) \/ HandshakeDone(c) \/ HandshakeFails(c)
       \/ OpenCtx(c) \/ CountCommand(c)
       \/ \E how \in {"ended", "leaked"} : EndQueue(c, how)
       \/ PostAer(c) \/ CompleteAer(c) \/ ReadChangedLog(c) \/ Rescan(c)
       \/ \E on \in BOOLEAN : SetAec(c, on)
  \/ CmForwards \/ CmThreadEnds
  \/ Accept \/ AcceptWithoutPool \/ IdleTick
  \/ NsEdit \/ AskThread \/ StatsTimeout
  \/ \E clear \in BOOLEAN : GetStats(clear)
  \/ SendSteps
  \/ \E s \in Slots : ThreadSteps(s) \/ MailboxFails(s)

Spec == Init /\ [][Next]_vars

\* The control thread runs its accept loop, its tick and what it has to send;
\* each queue thread runs its mailbox loop.  Nothing is assumed of the hosts.
FairSpec ==
  /\ Spec
  /\ WF_vars(Accept) /\ WF_vars(IdleTick) /\ WF_vars(SendSteps)
  /\ WF_vars(\E s \in Slots : ThreadSteps(s))

-----------------------------------------------------------------------------
(* Properties.                                                             *)

\* A connection holding a permit, in its handshake, in a mailbox or running,
\* belongs to the pool that is up, and no thread of that pool has been told to
\* shut down.  teardown_pool relies on it: "Only called with zero
\* active connections, so no thread is mid-`run_queue`".
PoolOutlivesConns ==
  /\ active = Cardinality(Holders) /\ active <= MaxConnections
  /\ \A c \in Holders : home[c] = pool
  /\ \A s \in Slots : s[1] = pool => thr[s] # "exited" /\ Shutdown \notin Range(mail[s])

\* No lost doorbell: a queue thread asleep on its eventfd with a message in its
\* mailbox has a count to read, or its sender is about to write one.
NoLostMail ==
  \A s \in Slots :
    thr[s] = "armed" /\ mail[s] # <<>> =>
      bell[s] \/ (outbox # <<>> /\ Head(outbox).pushed /\ Head(outbox).to = s)

\* No namespace change is lost: a connected controller that kept the notice
\* enabled and has not scanned the current table is going to: it has a scan to
\* do, or the Changed-NS mark with a notice queued or delivered, or the nudge
\* is still on its way to its thread.
NoLostNsChange ==
  \A c \in Conns :
    conn[c] = "open" /\ sc.qid[c] = 0 /\ ctl[c].kept /\ ctl[c].seen < version =>
      \/ ctl[c].scan
      \/ ctl[c].changed /\ (ctl[c].event \/ ctl[c].told)
      \/ NsChanged \in Range(mail[slotOf(c)])
      \/ \E i \in DOMAIN outbox : outbox[i] = letter(slotOf(c), NsChanged)
      \/ thr[slotOf(c)] = "dead"

\* prune_dead_queues and reply_thread_stats: what a thread would report, its
\* listed queues and the retired ones together, is every command counted on it
\* since its counters were last cleared, across reconnects, leaks and stats
\* requests answered late.
CountsKept ==
  \A s \in Slots : retired[s] + Total(listed[s]) = done[s]

\* maybe_teardown: the pool goes down only when no connection has been active
\* for the whole grace period.
GraceRespected == [][pool # 0 /\ pool' = 0 => quiet >= Grace]_vars

\* Once no connection is accepted and unfinished any more, the pool eventually
\* goes down (when idle teardown is configured) and its threads exit: no permit
\* is forgotten on any path, and no Shutdown lost.
IdlePoolGoesDown ==
  May("idle") /\ <>[](Holders = {}) => <>[](\A s \in Slots : thr[s] \in {"none", "dead", "exited"})
=============================================================================
