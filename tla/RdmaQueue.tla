----------------------------- MODULE RdmaQueue -----------------------------
(***************************************************************************)
(* One NVMe/RDMA IO queue (crates/ioutgt-nvme-rdma: target.rs, cq.rs,      *)
(* wr.rs, sgl.rs): the bootstrap from the Connect capsule, the reap loop   *)
(* with its deferred queues, the slot tasks, the park-probe that arms the  *)
(* completion queue at the reactor's sleep point, the backstop timer and   *)
(* the teardown.                                                           *)
(*                                                                         *)
(* The queue thread is cooperative: the reap loop, the slot tasks and the  *)
(* park hook never run at the same time, and a handler runs to its next    *)
(* await.  A handler that walks a list takes one action per element; the   *)
(* control variable pc keeps the other tasks out until it is through.  The *)
(* adapter, the host, the kernel and the CM thread act at any time.        *)
(***************************************************************************)
EXTENDS Integers, Sequences, FiniteSets, Functions

CONSTANTS
  NSlots,    \* sqsize: slots, RECV buffers, and the depth the host was told
  NPages,    \* pool grains of the registered arena
  Scripts,   \* what may happen: [cmds, depth, may, poll], cmds a sequence of
             \* [kind, n] with Connect first, depth how many the host leaves
             \* unanswered, may a subset of Events, poll the --poll flag
  MaxLost,   \* completion events the provider may lose
  MaxFaults, \* fatal errors: a QP error or a failing post
  SqSlack,   \* 16 in the code
  SqFloor,   \* 8 in the code
  CqSlack    \* 24 in the code

Tags == 0 .. NSlots - 1
Bufs == 0 .. NSlots - 1

Kinds == {"keyedConnect", "inlineConnect", "flush", "read", "write", "inline",
          "badKeyed", "badInline"}

\* The timer, a lost event, a QP error, a failing post, a CM disconnect, the
\* controller's removal, backend operations that never complete.
Events == {"timer", "lost", "qp", "post", "stop", "ctrl", "wedge"}

ASSUME RdmaAssumption ==
  /\ NSlots \in Nat \ {0} /\ NPages \in Nat \ {0}
  /\ MaxLost \in Nat /\ MaxFaults \in Nat /\ SqSlack \in Nat /\ SqFloor \in Nat
  /\ CqSlack \in Nat
  /\ \A s \in Scripts :
       /\ s.cmds \in Seq([kind : Kinds, n : 0 .. NPages])
       /\ s.depth \in Nat /\ s.may \subseteq Events /\ s.poll \in BOOLEAN

VARIABLES
  script, depth, may, poll,        \* the run's script; poll: spin while commands
                                   \* are in flight
  sent, answered,                  \* the host: commands sent, CQEs it holds
  sq, unacked, rq, cq,             \* the adapter: posted and executed work,
  armed, qpUp,                     \* completions
  buf,                             \* capsule in each RECV buffer (a command)
  state, task, cmd, data, pages,   \* per tag: slot, slot task, command, lease
  freeTags, freePages,             \* SlotArray::free, top first; BufPool
  inflight, resp,                  \* per tag: response WRs out, staged CQE
  responses, batch,                \* SendList<RdmaResp>, resp_batch
  chain,                           \* WRs constructed, not posted yet
  parked, poolWait, readBatch,     \* deferred commands and host-data READs
  phase,   \* "boot", "steady", "teardown", "freed" or "leaked"
  pc,      \* the reap loop: "pending", "woken", or inside a handler
  wants,   \* boot: the completion kind await_bootstrap is waiting for
  comps, staged,                   \* completions being processed; ProbeShared
  ticking,                         \* process_cqes runs for backstop_tick
  tick,                            \* watchdog_tick modulo 2
  thread,  \* "awake", "arming", "armed" (inside the probe) or "asleep"
  ring,    \* io_uring CQEs of the channel poll and the timer, not reaped yet
  arms,    \* reaped wake-ups of the reap loop's select
  stop, ctrlGone,                  \* the CM's Notify; controller unregistered
  lost, faults                     \* budgets used

host == <<script, depth, may, poll, sent, answered>>
nic == <<sq, unacked, rq, cq, armed, qpUp, buf>>
slots == <<state, task, cmd, data, pages, freeTags, freePages, inflight, resp>>
lists == <<responses, batch, chain, parked, poolWait, readBatch>>
loop == <<phase, pc, wants, comps, staged, ticking, tick>>
wakeups == <<thread, ring, arms, stop, ctrlGone, lost, faults>>
vars == <<host, nic, slots, lists, loop, wakeups>>

Kind(c) == script[c].kind
Need(c) == script[c].n
Inline(c) == Kind(c) \in {"inline", "badInline"}

\* wr_id: the class in the high byte, the tag or buffer index in the low bits.
WrId(kind, low, c, n) == [kind |-> kind, low |-> low, cmd |-> c, n |-> n, ok |-> TRUE]

\* One WR per contiguous run of the lease, at worst one per page; only the last
\* is signaled, so the train completes once.
DataWr(kind, t) == WrId(kind, t, cmd[t], pages[t])

clamp(x, low, high) == IF x < low THEN low ELSE IF x > high THEN high ELSE x

\* build_conn_resources.  Faulty variants: the queues are sized by the depth,
\* for "one RECV + up to a WRITE and a SEND each".
SqWrsByDepth == 2 * NSlots
SqWrs == clamp(2 * NPages + NSlots + SqSlack, 2 * NSlots + SqFloor, 16384)
CqDepth == SqWrs + NSlots + CqSlack

\* The WRs that occupy the send queue: those not executed, and those whose
\* completion has not been polled.
Sends(wrs) == SelectSeq(wrs, LAMBDA w : w.kind # "Recv")
Runs(wrs) == FoldFunction(LAMBDA w, k : k + w.n, 0, Sends(wrs))
SqUsed == Runs(sq) + Runs(unacked) + Runs(cq)

\* Primed: a completion enters the CQ; an armed CQ raises one event, which
\* makes the comp-channel poll post to the ring.
Notify ==
  \/ ~armed /\ UNCHANGED <<armed, ring, lost>>
  \/ armed /\ armed' = FALSE /\ ring' = ring \cup {"event"} /\ UNCHANGED lost
  \/ /\ armed /\ phase = "steady" /\ "lost" \in may /\ lost < MaxLost
     /\ armed' = FALSE /\ lost' = lost + 1 /\ UNCHANGED ring

\* prime: every RECV posted and the CQ armed before the connection is accepted.
prime == rq = [i \in 1 .. NSlots |-> i - 1] /\ armed = TRUE

postRecv(posted, idx) == Append(posted, idx)

Init ==
  /\ \E s \in Scripts :
       script = s.cmds /\ depth = s.depth /\ may = s.may /\ poll = s.poll
  /\ sent = 0 /\ answered = {}
  /\ sq = << >> /\ unacked = << >> /\ cq = << >> /\ qpUp = TRUE
  /\ prime
  /\ buf = [i \in Bufs |-> 0]
  /\ state = [t \in Tags |-> "Free"] /\ task = [t \in Tags |-> "idle"]
  /\ cmd = [t \in Tags |-> 0] /\ data = [t \in Tags |-> 0]
  /\ pages = [t \in Tags |-> 0] /\ freePages = NPages
  /\ freeTags = [i \in 1 .. NSlots |-> i - 1]
  /\ inflight = [t \in Tags |-> 0] /\ resp = [t \in Tags |-> 0]
  /\ responses = << >> /\ batch = << >> /\ chain = << >>
  /\ parked = << >> /\ poolWait = << >> /\ readBatch = << >>
  /\ phase = "boot" /\ pc = "pending" /\ wants = "Recv"
  /\ comps = << >> /\ staged = << >> /\ ticking = FALSE /\ tick = 0
  /\ thread = "awake" /\ ring = {} /\ arms = {}
  /\ stop = FALSE /\ ctrlGone = FALSE /\ lost = 0 /\ faults = 0

-----------------------------------------------------------------------------
(* The host, the adapter and the CM thread (external).                     *)

Outstanding == sent - Cardinality(answered)

\* Connect alone first, then up to the host's depth.  A capsule lands in the
\* oldest posted RECV.  After its disconnect the host sends nothing.
HostSend ==
  /\ qpUp /\ ~stop /\ rq # << >> /\ phase \in {"boot", "steady"}
  /\ sent < Len(script)
  /\ Outstanding < IF 1 \in answered THEN depth ELSE 1
  /\ sent' = sent + 1
  /\ buf' = [buf EXCEPT ![Head(rq)] = sent + 1]
  /\ rq' = Tail(rq)
  /\ cq' = Append(cq, WrId("Recv", Head(rq), sent + 1, 1))
  /\ Notify
  /\ UNCHANGED <<script, depth, may, poll, answered, sq, unacked, qpUp, slots, lists,
                 loop, thread, arms, stop, ctrlGone, faults>>

\* The send queue executes in order.  A READ fills the lease, a SEND carries
\* the CQE staged for its tag.
NicExecutes ==
  /\ qpUp /\ sq # << >> /\ phase \in {"boot", "steady"}
  /\ LET w == Head(sq)
     IN  /\ data' = IF w.kind = "Read" /\ phase = "steady"
                      THEN [data EXCEPT ![w.low] = w.cmd] ELSE data
         /\ answered' = IF w.kind = "Send" THEN answered \cup {resp[w.low]}
                                           ELSE answered
         /\ unacked' = Append(unacked, w)
  /\ sq' = Tail(sq)
  /\ UNCHANGED <<script, depth, may, poll, sent, rq, cq, armed, qpUp, buf, state,
                 task, cmd, pages, freeTags, freePages, inflight, resp, lists,
                 loop, wakeups>>

\* Its completion follows with the acknowledgement, so the host's next capsule
\* may come first.
NicCompletes ==
  /\ qpUp /\ unacked # << >> /\ phase \in {"boot", "steady"}
  /\ cq' = Append(cq, Head(unacked))
  /\ unacked' = Tail(unacked)
  /\ Notify
  /\ UNCHANGED <<host, sq, rq, qpUp, buf, slots, lists, loop, thread, arms, stop,
                 ctrlGone, faults>>

\* The QP goes to error; what is posted, or will be, is flushed, unsignaled
\* runs too.
QpFails ==
  /\ "qp" \in may /\ qpUp /\ faults < MaxFaults /\ phase \in {"boot", "steady"}
  /\ qpUp' = FALSE /\ faults' = faults + 1
  /\ UNCHANGED <<host, sq, rq, cq, armed, unacked, buf, slots, lists, loop, thread, ring,
                 arms, stop, ctrlGone, lost>>

NicFlushes ==
  /\ ~qpUp /\ unacked \o sq \o rq # << >> /\ phase \in {"boot", "steady"}
  /\ LET recvs == [i \in DOMAIN rq |-> WrId("Recv", rq[i], 0, 1)]
         posted == unacked \o sq \o recvs
     IN  cq' = cq \o [i \in DOMAIN posted |-> [posted[i] EXCEPT !.ok = FALSE]]
  /\ unacked' = << >> /\ sq' = << >> /\ rq' = << >>
  /\ Notify
  /\ UNCHANGED <<host, qpUp, buf, slots, lists, loop, thread, arms, stop,
                 ctrlGone, faults>>

\* RdmaListener on Disconnected: stop.notify_one() from the CM thread.  It
\* makes the loop runnable but cannot end the thread's io_uring wait.
CmDisconnected ==
  /\ "stop" \in may /\ ~stop /\ stop' = TRUE
  /\ pc' = IF phase = "steady" /\ pc = "pending" THEN "woken" ELSE pc
  /\ UNCHANGED <<host, nic, slots, lists, phase, wants, comps, staged, ticking,
                 tick, thread, ring, arms, ctrlGone, lost, faults>>

\* The admin queue's teardown removed the controller from the registry.
ControllerRemoved ==
  /\ "ctrl" \in may /\ phase = "steady" /\ ~ctrlGone /\ ctrlGone' = TRUE
  /\ UNCHANGED <<host, nic, slots, lists, loop, thread, ring, arms, stop, lost,
                 faults>>

\* The kernel: the backstop timer expires, a backend operation completes.
BackstopExpires ==
  /\ "timer" \in may /\ phase = "steady" /\ "timer" \notin ring \cup arms
  /\ ring' = ring \cup {"timer"}
  /\ UNCHANGED <<host, nic, slots, lists, loop, thread, arms, stop, ctrlGone,
                 lost, faults>>

BackendCompletes(t) ==
  /\ task[t] = "backend" /\ "wedge" \notin may
  /\ task' = [task EXCEPT ![t] = "cqe"]
  /\ data' = IF Kind(cmd[t]) = "read" THEN [data EXCEPT ![t] = cmd[t]] ELSE data
  /\ UNCHANGED <<host, nic, state, cmd, pages, freeTags, freePages,
                 inflight, resp, lists, loop, wakeups>>

-----------------------------------------------------------------------------
(* Sleeping: Reactor::park with the queue's park-probe.                    *)

Running == thread = "awake" /\ phase \notin {"freed", "leaked"}
Runnable(t) == state[t] = "Ready" \/ task[t] \in {"lease", "finish"}
Idle == pc = "pending" /\ \A t \in Tags : ~Runnable(t)
RingCqe == ring # {} \/ \E t \in Tags : task[t] = "cqe"
AllFree == \A t \in Tags : state[t] = "Free"       \* SlotArray::idle

\* reap: every CQE wakes the future that waits for it.
ParkReap ==
  /\ Running /\ Idle /\ RingCqe
  /\ arms' = arms \cup ring
  /\ ring' = {}
  /\ pc' = IF ring # {} /\ phase # "teardown" THEN "woken" ELSE pc
  /\ task' = [t \in Tags |-> IF task[t] = "cqe" THEN "finish" ELSE task[t]]
  /\ UNCHANGED <<host, nic, state, cmd, data, pages, freeTags, freePages,
                 inflight, resp, lists, phase, wants, comps, staged, ticking,
                 tick, thread, stop, ctrlGone, lost, faults>>

\* The probe's drain: what it finds wakes the loop through staged_ready.
stage(asleep) ==
  /\ staged' = staged \o cq
  /\ cq' = << >>
  /\ pc' = IF cq # << >> THEN "woken" ELSE pc
  /\ thread' \in IF cq # << >> THEN {"awake"} ELSE asleep
  /\ UNCHANGED <<host, sq, rq, qpUp, unacked, buf, slots, lists, phase, wants, comps,
                 ticking, tick, ring, arms, stop, ctrlGone, lost, faults>>

\* First drain.  In event mode, and in poll mode once every tag is free, an
\* empty CQ is armed before the sleep; otherwise the reactor spins.
ParkProbe ==
  /\ Running /\ Idle /\ ~RingCqe /\ phase = "steady"
  /\ stage(IF ~poll \/ AllFree THEN {"arming"} ELSE {"awake"})
  /\ UNCHANGED armed

ParkArm ==
  /\ thread = "arming"
  /\ armed' = TRUE /\ thread' = "armed"
  /\ UNCHANGED <<host, sq, rq, cq, qpUp, unacked, buf, slots, lists, loop, ring, arms,
                 stop, ctrlGone, lost, faults>>

\* Faulty variant: no second drain after arming.
ParkSleepUnchecked ==
  /\ thread = "armed" /\ thread' = "asleep"
  /\ UNCHANGED <<host, nic, slots, lists, loop, ring, arms, stop, ctrlGone,
                 lost, faults>>

\* Second drain, for what arrived before the arming; then the thread sleeps,
\* or in poll mode spins on through the grace period.
ParkRedrain ==
  /\ thread = "armed"
  /\ stage(IF poll THEN {"asleep", "awake"} ELSE {"asleep"})
  /\ UNCHANGED armed

\* No probe is installed while the queue boots.
BootSleep ==
  /\ Running /\ Idle /\ ~RingCqe /\ phase = "boot"
  /\ thread' = "asleep"
  /\ UNCHANGED <<host, nic, slots, lists, loop, ring, arms, stop, ctrlGone,
                 lost, faults>>

Wake ==
  /\ thread = "asleep" /\ RingCqe
  /\ thread' = "awake"
  /\ UNCHANGED <<host, nic, slots, lists, loop, ring, arms, stop, ctrlGone,
                 lost, faults>>

Park == ParkReap \/ ParkProbe \/ ParkArm \/ ParkRedrain \/ BootSleep \/ Wake

-----------------------------------------------------------------------------
(* Bootstrap: the first capsule is the fabrics Connect.                    *)

\* cq::wait: acknowledge the event and re-arm, before the drain.
BootAcknowledge ==
  /\ Running /\ phase = "boot" /\ pc = "woken"
  /\ armed' = TRUE /\ arms' = {} /\ pc' = "comps"
  /\ UNCHANGED <<host, sq, rq, cq, qpUp, unacked, buf, slots, lists, phase, wants, comps,
                 staged, ticking, tick, thread, ring, stop, ctrlGone, lost,
                 faults>>

\* post_read_cdata: the READ shares the class of the write-data READs, low bits 0.
readCdata(c) == WrId("Read", 0, c, 1)

\* Dispatch the Connect on the first tag and post its CQE; the queue is then
\* handed to the reap loop, its slot tasks and its probe.
connected(c) ==
  LET t == Head(freeTags)
  IN  /\ freeTags' = Tail(freeTags)
      /\ state' = [state EXCEPT ![t] = "Responding"]
      /\ cmd' = [cmd EXCEPT ![t] = c]
      /\ resp' = [resp EXCEPT ![t] = c]
      /\ inflight' = [inflight EXCEPT ![t] = 1]
      /\ sq' = Append(sq, WrId("Send", t, c, 1))
      /\ phase' = "steady" /\ pc' = "woken"
      /\ UNCHANGED <<task, data, pages, freePages, wants>>

\* await_bootstrap found what it waits for: the capsule, or the READ of the
\* connect data an admin host keeps on its side.  The rest of the batch is
\* dropped.
BootCompletion ==
  /\ Running /\ phase = "boot" /\ pc = "comps"
  /\ cq # << >> /\ Head(cq).ok /\ Head(cq).kind = wants
  /\ cq' = << >>
  /\ IF wants = "Recv"
       THEN LET idx == Head(cq).low
            IN  /\ rq' = postRecv(rq, idx)
                /\ IF Kind(buf[idx]) = "keyedConnect"
                     THEN /\ sq' = Append(sq, readCdata(buf[idx]))
                          /\ wants' = "Read" /\ pc' = "pending"
                          /\ UNCHANGED <<phase, slots>>
                     ELSE connected(buf[idx])
       ELSE connected(Head(cq).cmd) /\ UNCHANGED rq
  /\ UNCHANGED <<host, armed, qpUp, unacked, buf, lists, comps, staged, ticking, tick,
                 wakeups>>

\* A failed completion ends the queue; an empty CQ goes back to waiting.
BootEnds ==
  /\ Running /\ phase = "boot" /\ pc = "comps"
  /\ \/ cq = << >> /\ UNCHANGED phase
     \/ cq # << >> /\ ~Head(cq).ok /\ phase' = "freed"
  /\ pc' = "pending"
  /\ UNCHANGED <<host, nic, slots, lists, wants, comps, staged, ticking, tick,
                 wakeups>>

Boot == BootAcknowledge \/ BootCompletion \/ BootEnds

-----------------------------------------------------------------------------
(* Commands: from the capsule to its slot.                                 *)

\* A write whose payload is in the capsule keeps its RECV buffer until the
\* payload is copied.  Faulty variant: every capsule is re-posted at once.
holdsCapsuleNever(c) == c # c
holdsCapsule(c) == Inline(c)

\* How many commands wait for a tag.  Faulty variant: one less.
ParkingLotShort == NSlots - 1
ParkingLot == NSlots

lease(t, c) ==
  /\ Need(c) <= freePages
  /\ pages' = [pages EXCEPT ![t] = Need(c)]
  /\ freePages' = freePages - Need(c)

\* try_stage_inline: lease, copy, submit, re-post the capsule buffer.
tryStageInline(t, c, idx, posted) ==
  /\ lease(t, c)
  /\ data' = [data EXCEPT ![t] = buf[idx]]
  /\ state' = [state EXCEPT ![t] = "Ready"]
  /\ rq' = postRecv(posted, idx)
  /\ UNCHANGED readBatch

\* try_stage_write: lease, and queue the host-data READ for this poll's doorbell.
tryStageWrite(t, c, posted) ==
  /\ lease(t, c)
  /\ readBatch' = Append(readBatch, t)
  /\ state' = [state EXCEPT ![t] = "Receiving"]
  /\ rq' = posted
  /\ UNCHANGED data

tryStage(t, c, idx, posted) ==
  IF Inline(c) THEN tryStageInline(t, c, idx, posted) ELSE tryStageWrite(t, c, posted)

\* fail_recv: an error CQE without dispatch; a held capsule is re-posted.
failRecv(t, c, idx, posted) ==
  /\ state' = [state EXCEPT ![t] = "Responding"]
  /\ responses' = Append(responses, [tag |-> t, data |-> FALSE])
  /\ rq' = IF Inline(c) THEN postRecv(posted, idx) ELSE posted
  /\ UNCHANGED <<pages, freePages, data, readBatch, poolWait>>

\* route_cmd, for a command that holds tag t.
routeCmd(t, c, idx, posted) ==
  /\ freeTags' = Tail(freeTags)
  /\ cmd' = [cmd EXCEPT ![t] = c]
  /\ CASE Kind(c) \in {"read", "flush"} ->
            /\ state' = [state EXCEPT ![t] = "Ready"]
            /\ rq' = posted
            /\ UNCHANGED <<pages, freePages, data, readBatch, poolWait, responses>>
       [] Kind(c) \in {"badKeyed", "badInline"} -> failRecv(t, c, idx, posted)
       [] Kind(c) \in {"write", "inline"} /\ Need(c) <= freePages ->
            tryStage(t, c, idx, posted) /\ UNCHANGED <<poolWait, responses>>
       [] OTHER ->
            /\ poolWait' = Append(poolWait, [tag |-> t, idx |-> idx])
            /\ state' = [state EXCEPT ![t] = "Receiving"]
            /\ rq' = posted
            /\ UNCHANGED <<pages, freePages, data, readBatch, responses>>
  /\ UNCHANGED <<task, inflight, resp>>

-----------------------------------------------------------------------------
(* The reap loop: the arms of its select, one of the ready ones at a time. *)

Looping == Running /\ phase = "steady"

\* drain_into: what the probe staged is older than what is still queued.
drain ==
  /\ comps' = staged \o cq
  /\ staged' = << >>
  /\ cq' = << >>
  /\ pc' = "comps"
  /\ UNCHANGED <<host, sq, rq, qpUp, unacked, buf, slots, lists, phase, wants, tick,
                 thread, ring, stop, ctrlGone, lost, faults>>

TakeEvent ==
  /\ Looping /\ pc = "woken" /\ "event" \in arms
  /\ arms' = arms \ {"event"} /\ ticking' = FALSE
  /\ drain /\ UNCHANGED armed

TakeStaged ==
  /\ Looping /\ pc = "woken" /\ staged # << >>
  /\ ticking' = FALSE
  /\ drain /\ UNCHANGED <<armed, arms>>

\* Faulty variant: the backstop runs only the watchdog.
TakeBackstopBlind ==
  /\ Looping /\ pc = "woken" /\ "timer" \in arms
  /\ arms' = arms \ {"timer"} /\ ticking' = TRUE /\ pc' = "flush"
  /\ UNCHANGED <<host, nic, slots, lists, phase, wants, comps, staged, tick,
                 thread, ring, stop, ctrlGone, lost, faults>>

\* backstop_tick: re-arm, then drain.
TakeBackstop ==
  /\ Looping /\ pc = "woken" /\ "timer" \in arms
  /\ arms' = arms \ {"timer"} /\ ticking' = TRUE
  /\ armed' = TRUE
  /\ drain

\* The first response of the wake; yield_now lets its siblings push theirs.
TakeResponse ==
  /\ Looping /\ pc = "woken" /\ responses # << >>
  /\ batch' = <<Head(responses)>>
  /\ responses' = Tail(responses)
  /\ pc' = "yield"
  /\ UNCHANGED <<host, nic, slots, chain, parked, poolWait, readBatch, phase, wants,
                 comps, staged, ticking, tick, wakeups>>

\* Every arm is pending: their wakers are registered.
LoopPends ==
  /\ Looping /\ pc = "woken"
  /\ arms = {} /\ staged = << >> /\ responses = << >> /\ ~stop
  /\ pc' = "pending"
  /\ UNCHANGED <<host, nic, slots, lists, phase, wants, comps, staged, ticking,
                 tick, wakeups>>

\* The loop breaks: the probe is removed, the queue drains its dispatches.
leave ==
  /\ phase' = "teardown" /\ pc' = "pending"
  /\ comps' = << >>
  /\ UNCHANGED <<host, nic, slots, lists, wants, staged, ticking, tick, thread,
                 ring, arms, stop, ctrlGone, lost>>

TakeStop == Looping /\ pc = "woken" /\ stop /\ leave /\ UNCHANGED faults

\* The responses of the siblings join the batch.
CollectResponses ==
  /\ Looping /\ pc = "yield"
  /\ batch' = batch \o responses
  /\ responses' = << >>
  /\ pc' = "post"
  /\ UNCHANGED <<host, nic, slots, chain, parked, poolWait, readBatch, phase, wants,
                 comps, staged, ticking, tick, wakeups>>

\* post_responses_batch: for each response the data WRITEs, then the SEND of the
\* CQE staged for its tag.
wrsOf(r) ==
  LET send == WrId("Send", r.tag, cmd[r.tag], 1)
  IN  IF r.data THEN <<DataWr("Write", r.tag), send>> ELSE <<send>>

ConstructResponse ==
  /\ Looping /\ pc = "post" /\ batch # << >>
  /\ LET r == Head(batch)
     IN  /\ chain' = chain \o wrsOf(r)
         /\ resp' = [resp EXCEPT ![r.tag] = cmd[r.tag]]
         /\ inflight' = [inflight EXCEPT ![r.tag] = IF r.data THEN 2 ELSE 1]
  /\ batch' = Tail(batch)
  /\ UNCHANGED <<host, nic, state, task, cmd, data, pages, freeTags, freePages,
                 responses, parked, poolWait, readBatch, loop, wakeups>>

\* The whole chain posts, or none of it does.
PostResponses ==
  /\ Looping /\ pc = "post" /\ batch = << >>
  /\ sq' = sq \o chain
  /\ chain' = << >>
  /\ pc' = "woken"
  /\ UNCHANGED <<host, rq, cq, armed, qpUp, unacked, buf, slots, responses, batch,
                 parked, poolWait, readBatch, phase, wants, comps, staged, ticking,
                 tick, wakeups>>

\* A post fails by a fault of the provider.
PostFails ==
  /\ Looping
  /\ \/ pc = "post" /\ batch = << >>
     \/ pc = "flush" /\ readBatch # << >>
     \/ pc = "comps" /\ comps # << >> /\ Head(comps).ok /\ Head(comps).kind = "Recv"
        /\ ~holdsCapsule(buf[Head(comps).low])
  /\ "post" \in may /\ faults < MaxFaults /\ faults' = faults + 1
  /\ leave

Loop ==
  \/ TakeEvent \/ TakeStaged \/ TakeBackstop \/ TakeResponse \/ TakeStop
  \/ LoopPends \/ CollectResponses \/ ConstructResponse \/ PostResponses \/ PostFails

-----------------------------------------------------------------------------
(* process_cqes: one completion at a time, then drain_deferred.            *)

Processing == Looping /\ pc = "comps" /\ comps # << >> /\ Head(comps).ok

\* A failed completion: the peer is gone or the QP is in error.
CompFails ==
  /\ Looping /\ pc = "comps" /\ comps # << >> /\ ~Head(comps).ok
  /\ leave /\ UNCHANGED faults

\* handle_recv: re-post, claim a tag and route, or park.
OnRecv ==
  /\ Processing /\ Head(comps).kind = "Recv"
  /\ LET idx == Head(comps).low
         c == buf[idx]
         posted == IF holdsCapsule(c) THEN rq ELSE postRecv(rq, idx)
     IN  IF freeTags # << >>
           THEN routeCmd(Head(freeTags), c, idx, posted) /\ UNCHANGED parked
           ELSE /\ Len(parked) < ParkingLot
                /\ parked' = Append(parked, [cmd |-> c, idx |-> idx])
                /\ rq' = posted
                /\ UNCHANGED <<slots, responses, poolWait, readBatch>>
  /\ comps' = Tail(comps)
  /\ UNCHANGED <<host, sq, cq, armed, qpUp, unacked, buf, batch, chain, phase, pc, wants, staged,
                 ticking, tick, wakeups>>

\* "command overflow: host exceeded negotiated queue depth"
Overflow ==
  /\ Processing /\ Head(comps).kind = "Recv"
  /\ freeTags = << >> /\ Len(parked) >= ParkingLot
  /\ leave /\ UNCHANGED faults

\* submit_pending: the host data is in the lease.
OnRead ==
  /\ Processing /\ Head(comps).kind = "Read"
  /\ state' = [state EXCEPT ![Head(comps).low] = "Ready"]
  /\ comps' = Tail(comps)
  /\ UNCHANGED <<host, nic, task, cmd, data, pages, freeTags, freePages,
                 inflight, resp, lists, phase, pc, wants, staged, ticking, tick,
                 wakeups>>

\* Faulty variant: the first response completion releases the tag.
lastResponseAny(t) == inflight[t] > 0
lastResponse(t) == inflight[t] <= 1

\* on_response_done: release_tag frees the lease and wakes its waiters.
OnResponseDone ==
  /\ Processing /\ Head(comps).kind \in {"Send", "Write"}
  /\ LET t == Head(comps).low
     IN  /\ inflight' = [inflight EXCEPT ![t] = IF @ = 0 THEN 0 ELSE @ - 1]
         /\ IF lastResponse(t)
              THEN /\ state' = [state EXCEPT ![t] = "Free"]
                   /\ freeTags' = <<t>> \o freeTags
                   /\ pages' = [pages EXCEPT ![t] = 0]
                   /\ freePages' = freePages + pages[t]
                   /\ task' = [u \in Tags |-> IF task[u] = "wait" /\ pages[t] > 0
                                                THEN "lease" ELSE task[u]]
              ELSE UNCHANGED <<state, freeTags, pages, freePages, task>>
  /\ comps' = Tail(comps)
  /\ UNCHANGED <<host, nic, cmd, data, resp, lists, phase, pc, wants, staged,
                 ticking, tick, wakeups>>

FrontFits == poolWait # << >> /\ Need(cmd[Head(poolWait).tag]) <= freePages

\* Freed pages go to the oldest deferred write first.
RetryStage ==
  /\ Looping /\ pc = "comps" /\ comps = << >> /\ FrontFits
  /\ LET e == Head(poolWait) IN tryStage(e.tag, cmd[e.tag], e.idx, rq)
  /\ poolWait' = Tail(poolWait)
  /\ UNCHANGED <<host, sq, cq, armed, qpUp, unacked, buf, task, cmd, freeTags, inflight,
                 resp, responses, batch, chain, parked, loop, wakeups>>

\* Freed tags go to the oldest parked command.
Unpark ==
  /\ Looping /\ comps = << >>
  /\ \/ pc = "unpark"
     \/ pc = "comps" /\ ~FrontFits
  /\ IF parked # << >> /\ freeTags # << >>
       THEN /\ routeCmd(Head(freeTags), Head(parked).cmd, Head(parked).idx, rq)
            /\ parked' = Tail(parked)
            /\ pc' = "unpark"
       ELSE pc' = "flush" /\ UNCHANGED <<rq, slots, responses, parked, poolWait, readBatch>>
  /\ UNCHANGED <<host, sq, cq, armed, qpUp, unacked, buf, batch, chain, phase, wants, comps,
                 staged, ticking, tick, wakeups>>

\* post_reads_batch, then backstop_tick's watchdog: every second tick an IO
\* queue whose controller left the registry follows it.
Flush ==
  /\ Looping /\ pc = "flush"
  /\ sq' = sq \o [i \in DOMAIN readBatch |-> DataWr("Read", readBatch[i])]
  /\ readBatch' = << >>
  /\ tick' = IF ticking THEN (tick + 1) % 2 ELSE tick
  /\ IF ticking /\ tick = 1 /\ ctrlGone
       THEN phase' = "teardown" /\ pc' = "pending"
       ELSE phase' = phase /\ pc' = "woken"
  /\ UNCHANGED <<host, rq, cq, armed, qpUp, unacked, buf, slots, responses, batch, chain, parked,
                 poolWait, wants, comps, staged, ticking, wakeups>>

ProcessCqes ==
  \/ CompFails \/ OnRecv \/ Overflow \/ OnRead \/ OnResponseDone
  \/ RetryStage \/ Unpark \/ Flush

-----------------------------------------------------------------------------
(* The slot tasks, and the end of the queue.                               *)

TaskMayRun ==
  Running /\ phase \in {"steady", "teardown"} /\ pc \in {"pending", "woken", "yield"}

\* await_command, then execute up to its first await.
Start(t) ==
  /\ TaskMayRun /\ state[t] = "Ready"
  /\ state' = [state EXCEPT ![t] = "Executing"]
  /\ task' = [task EXCEPT ![t] = IF Kind(cmd[t]) = "read" THEN "lease" ELSE "backend"]
  /\ UNCHANGED <<host, nic, cmd, data, pages, freeTags, freePages, inflight,
                 resp, lists, loop, wakeups>>

\* lease_await: take the pages or wait for the next release.
Lease(t) ==
  /\ TaskMayRun /\ task[t] = "lease"
  /\ \/ lease(t, cmd[t]) /\ task' = [task EXCEPT ![t] = "backend"]
     \/ /\ Need(cmd[t]) > freePages
        /\ task' = [task EXCEPT ![t] = "wait"]
        /\ UNCHANGED <<pages, freePages>>
  /\ UNCHANGED <<host, nic, state, cmd, data, freeTags, inflight, resp, lists,
                 loop, wakeups>>

\* begin_respond, and the push that wakes the reap loop.  A failed read
\* carries no data.
Finish(t) ==
  /\ TaskMayRun /\ task[t] = "finish"
  /\ state' = [state EXCEPT ![t] = "Responding"]
  /\ task' = [task EXCEPT ![t] = "idle"]
  /\ \E ok \in BOOLEAN :
       responses' = Append(responses, [tag |-> t, data |-> ok /\ Kind(cmd[t]) = "read"])
  /\ pc' = IF phase = "steady" /\ pc = "pending" THEN "woken" ELSE pc
  /\ UNCHANGED <<host, nic, cmd, data, pages, freeTags, freePages, inflight,
                 resp, batch, chain, parked, poolWait, readBatch, phase, wants, comps,
                 staged, ticking, tick, wakeups>>

Executing == {t \in Tags : state[t] = "Executing"}

\* teardown: the dispatches have drained; the arena goes with the queue.
Freed ==
  /\ Running /\ phase = "teardown" /\ Executing = {}
  /\ phase' = "freed"
  /\ UNCHANGED <<host, nic, slots, lists, pc, wants, comps, staged, ticking,
                 tick, wakeups>>

\* Faulty variant: the drain times out and the queue is dropped all the same.
TimesOutFrees ==
  /\ Running /\ phase = "teardown" /\ Executing # {}
  /\ phase' = "freed"
  /\ UNCHANGED <<host, nic, slots, lists, pc, wants, comps, staged, ticking,
                 tick, wakeups>>

\* Faulty variant: the drain waits for as long as it takes.
TimesOutNever ==
  /\ Running /\ phase = "teardown" /\ Executing # {} /\ Executing = {}
  /\ UNCHANGED vars

\* The drain times out: queue and tasks are leaked.
TimesOut ==
  /\ Running /\ phase = "teardown" /\ Executing # {}
  /\ phase' = "leaked"
  /\ UNCHANGED <<host, nic, slots, lists, pc, wants, comps, staged, ticking,
                 tick, wakeups>>

Gone == phase \in {"freed", "leaked"}

Adapter == NicExecutes \/ NicCompletes \/ NicFlushes
Task(t) == Start(t) \/ Lease(t) \/ Finish(t)
Teardown == Freed \/ TimesOut

Next ==
  \/ HostSend \/ Adapter \/ QpFails
  \/ CmDisconnected \/ ControllerRemoved \/ BackstopExpires
  \/ \E t \in Tags : BackendCompletes(t)
  \/ Park \/ Boot \/ Loop \/ ProcessCqes
  \/ \E t \in Tags : Task(t)
  \/ Teardown

Spec == Init /\ [][Next]_vars

\* The adapter executes what is posted, timers expire, a backend operation
\* completes; the thread runs, and its scheduler reaches every woken task.  The
\* host need not send.
Fairness ==
  /\ WF_vars(Adapter) /\ WF_vars(BackstopExpires)
  /\ \A t \in Tags : WF_vars(BackendCompletes(t)) /\ WF_vars(Task(t))
  /\ WF_vars(Park) /\ WF_vars(Boot) /\ WF_vars(Loop \/ ProcessCqes)
  /\ WF_vars(Teardown)

FairSpec == Spec /\ Fairness

-----------------------------------------------------------------------------
(* Properties.                                                             *)

Live == phase = "steady"
Conforming == depth <= NSlots
Posted == sq \o unacked \o cq \o staged \o comps

\* A write dispatches only with its own payload in its lease: neither a later
\* capsule in the same RECV buffer nor the tag's previous command shows
\* (handle_recv, try_stage_inline, submit_pending).
DispatchedWithOwnData ==
  \A t \in Executing : Kind(cmd[t]) \in {"write", "inline"} => data[t] = cmd[t]

\* Every work request or completion in flight names a tag that still belongs
\* to the command it was posted for, a SEND still finds that command's CQE in
\* the staging slot and a WRITE its data in the lease and a host that does not
\* hold the CQE yet (post_responses_batch posts WRITE before SEND, and
\* on_response_done holds the tag until the last one completes).
WorkRequestsOwned ==
  Live =>
    \A i \in DOMAIN Posted :
      LET w == Posted[i]
      IN  w.ok /\ w.kind # "Recv" =>
            /\ cmd[w.low] = w.cmd
            /\ state[w.low] = IF w.kind = "Read" THEN "Receiving" ELSE "Responding"
            /\ w.kind = "Send" => resp[w.low] = w.cmd
            /\ w.kind = "Write" => data[w.low] = w.cmd /\ pages[w.low] = w.n
            /\ w.kind = "Write" /\ i <= Len(sq) => w.cmd \notin answered

\* A host that keeps to the negotiated depth always finds a posted RECV
\* (handle_recv: "Holding is safe for the ring").
RecvAlwaysPosted ==
  Conforming /\ qpUp /\ phase \in {"boot", "steady"} /\ Outstanding < NSlots
    => rq # << >>

\* Such a host never overruns the parking lot, although its next commands may
\* arrive before the completions that free the tags of answered ones.
ParkingLotHolds ==
  Conforming /\ Processing /\ Head(comps).kind = "Recv" /\ freeTags = << >>
    => Len(parked) < ParkingLot

\* The ring and the parking lot are deep enough for every conforming host.
ConformingHostFits == RecvAlwaysPosted /\ ParkingLotHolds

\* The send and completion queues hold the worst case: every page a WR of its
\* own, no completion polled (build_conn_resources).
QueuesSized ==
  /\ SqUsed <= SqWrs
  /\ SqUsed + Len(rq) + Len(SelectSeq(cq, LAMBDA w : w.kind = "Recv")) <= CqDepth

\* The thread sleeps only with the CQ armed or its event already raised, save
\* for an event the provider lost (install_park_probe: "the sleep always has a
\* wake source").
SleepHasWakeSource ==
  Live /\ thread = "asleep" => (armed /\ cq = << >>) \/ "event" \in ring \/ lost > 0

\* The arena is freed only when no backend operation can still write to it
\* (teardown).
ArenaFreedQuiet ==
  phase = "freed" => \A t \in Tags : task[t] \notin {"backend", "cqe"}

\* Every command the host sent is answered unless the queue goes down or the
\* backend is wedged, with lost completion events, tag and page shortages on
\* the way.
EveryCommandAnswered ==
  <>[](phase \in {"boot", "steady"} /\ "wedge" \notin may => answered = 1 .. sent)

\* A disconnect ends a queue that is past its bootstrap.
DisconnectEndsSteadyQueue == stop /\ Live ~> Gone

=============================================================================
