--------------------------- MODULE TcpConnection ---------------------------
(***************************************************************************)
(* One NVMe/TCP connection on its queue thread: the receive loop           *)
(* (nvme-tcp/src/recv.rs), the slot tasks and the teardown                 *)
(* (nvme-tcp/src/connection.rs) and the send path (stream/src/lib.rs,      *)
(* nvme-tcp/src/send.rs), all over the slot engine of SlotQueue.           *)
(*                                                                         *)
(* The thread runs one task at a time and switches only at an await.       *)
(* `cpu` says which task is in the middle of such a run: an action of      *)
(* another task, or a completion from the kernel, waits until it is        *)
(* "idle".  A loop body is one action, so that a run is a sequence of      *)
(* actions nothing can interrupt.                                          *)
(*                                                                         *)
(* External: the host (HostSends, HostData, HostLeaves) and the            *)
(* kernel's side of a send (KernelSend, KernelNotif).                      *)
(***************************************************************************)
EXTENDS SlotQueue

CONSTANTS
  BatchCap,    \* items that fit a send batch (GatherSendBatch::fits)
  SendZc,      \* zero-copy sends are enabled
  IsAdmin,     \* an admin queue: AERs, keep-alive watchdog
  HostDepth,   \* commands the host keeps outstanding
  MaxCmds,     \* bound: commands the host sends
  MaxRetries,  \* bound: short or refused sends
  Capsules,    \* the capsule kinds the host sends, a subset of AllCapsules
  Faults       \* what may go wrong, a subset of AllFaults

\* A command without payload or with an intact in-capsule payload; one whose
\* in-capsule payload fails its data digest; one whose data must be solicited.
AllCapsules == {"cmd", "bad_digest", "r2t"}

\* A fatal send error; the peer closing; an expired keep-alive; a TermReq from
\* the host; a PDU that violates the protocol.
AllFaults == {"send_error", "close", "silence", "host_term", "bad_pdu"}

ASSUME ConnAssumption ==
  /\ BatchCap \in Nat \ {0}
  /\ SendZc \in BOOLEAN /\ IsAdmin \in BOOLEAN
  /\ HostDepth \in Nat /\ MaxCmds \in Nat /\ MaxRetries \in Nat
  /\ Capsules \subseteq AllCapsules /\ Faults \subseteq AllFaults

Batches == {0, 1}

VARIABLES
  cpu,        \* "idle", or the task in the middle of a run: "send", "recv"
  \* The send task (StreamSender).
  sendPc,     \* where it is: "next", "acquire", "stage", "ship", "retire",
              \* "reap", "recycle", "drain", "exited"
  sendWoken,  \* its waker was called
  sendClosed, \* SendList.closed
  hand,       \* the item being staged, or the carry (at most one)
  cur,        \* the batch at hand
  after,      \* where "reap" and "recycle" return to
  batch,      \* per batch: tags_at_cqe, tags_at_notif, items, pending_notifs
  inflight,   \* StreamSender.inflight: batches awaiting notifications
  useZc,      \* ship_batch's use_zc
  vecFixed,   \* StreamSender.vec_fixed_ok
  sendErr,    \* send_batches returned an error
  \* The kernel's side of the send ops.
  op,         \* "none", "inflight", or the result in its completion
  wire,       \* staged items of batch cur the socket has not taken yet
  undel,      \* per batch: zero-copy notifications not delivered yet
  pins,       \* per batch: slots whose buffers the last ops reference
  retries,    \* short and refused sends so far
  \* The socket and the host.
  sockShut,   \* shutdown(fd) was called
  fdOpen,     \* conn.fd is not dropped
  staleShut,  \* shutdown(fd) was called after conn.fd was dropped
  hostGone,   \* the peer closed or reset
  rx,         \* PDUs sent by the host and not handled yet
  sentCmds,   \* capsules the host has sent
  outstanding,\* commands it has no response for
  asked,      \* tags whose R2T is on the wire, unanswered
  \* The receive loop and the teardown.
  recvPc,     \* "fill", "claim", "route", "term", "quiesce", "join", "done"
  pdu,        \* the capsule kind being handled
  closing,    \* ConnCtx::close was called
  aer,        \* slots parked in an Asynchronous Event Request
  watchdog,   \* the keep-alive watchdog task runs
  timedOut,   \* a quiesce ran out of time
  outcome     \* "none", "freed" or "leaked"

sendVars == <<sendPc, sendClosed, hand, cur, after, batch, inflight, useZc,
              vecFixed, sendErr>>
kernelVars == <<op, wire, undel, pins, retries>>
hostVars == <<hostGone, sentCmds>>
wireVars == <<outstanding, asked>>
recvVars == <<recvPc, pdu, closing, timedOut, outcome>>
sockVars == <<sockShut, fdOpen, staleShut>>

connVars == <<slotVars, cpu, sendWoken, sendVars, kernelVars, hostVars,
              wireVars, rx, recvVars, sockVars, aer, watchdog>>

\* What no action of the send task touches, a shutdown aside.
others == <<kernelVars, hostVars, rx, recvVars, aer, watchdog>>

EmptyBatch == [cqe |-> << >>, notif |-> << >>, items |-> 0, pend |-> 0]

\* run_queue: the Connect command read by the handshake is claimed and
\* submitted before the receive loop starts.
ConnInit ==
  /\ SlotInit
  /\ cpu = "recv" /\ sendPc = "next" /\ sendWoken = TRUE /\ sendClosed = FALSE
  /\ hand = << >> /\ cur = 0 /\ after = "next"
  /\ batch = [b \in Batches |-> EmptyBatch] /\ inflight = << >>
  /\ useZc = FALSE /\ vecFixed = SendZc /\ sendErr = FALSE
  /\ op = "none" /\ wire = << >> /\ undel = [b \in Batches |-> 0]
  /\ pins = [b \in Batches |-> {}] /\ retries = 0
  /\ sockShut = FALSE /\ fdOpen = TRUE /\ staleShut = FALSE
  /\ hostGone = FALSE /\ rx = << >> /\ sentCmds = 1 /\ outstanding = 1
  /\ asked = {}
  /\ recvPc = "claim" /\ pdu = "connect" /\ closing = FALSE /\ aer = {}
  /\ watchdog = IsAdmin
  /\ timedOut = FALSE /\ outcome = "none"

\* The tasks of a freed connection were aborted.
Alive == outcome # "freed"

\* libc::shutdown(fd): harmless while conn.fd is open; once it was dropped the
\* number may belong to another connection.
shutdown ==
  /\ sockShut' = (sockShut \/ fdOpen)
  /\ staleShut' = (staleShut \/ ~fdOpen)
  /\ UNCHANGED fdOpen

\* SendList::push and ::close call the waker poll_next stored.  Faulty
\* variant: they do not.
WakeSenderLost == sendWoken' = sendWoken

WakeSender == sendWoken' = (sendWoken \/ sendPc = "next")

---------------------------------------------------------------------------
(* The send task.                                                          *)

SendRuns(pc) ==
  sendPc = pc /\ Alive /\ (cpu = "send" \/ (cpu = "idle" /\ sendWoken))

GoOn == cpu' = "send" /\ sendWoken' = FALSE
Yield == cpu' = "idle" /\ sendWoken' = FALSE

\* Every notification stashed in pending_notifs has arrived.
Notified(b) == undel[b] = 0 \/ batch[b].pend = 0

\* The top of send_batches: the carry, or the next item of the send list.
NextWork ==
  /\ SendRuns("next")
  /\ \/ hand # << >> /\ UNCHANGED <<slotVars, hand>>
     \/ hand = << >> /\ take_work /\ hand' = <<Head(work)>>
  /\ sendPc' = "acquire"
  /\ GoOn
  /\ UNCHANGED <<sendClosed, cur, after, batch, inflight, useZc, vecFixed,
                 sendErr, others, wireVars, sockVars>>

\* Faulty variant of NextIdle: parks on the send list alone.
NextIdleWorkOnly ==
  /\ SendRuns("next") /\ hand = << >> /\ work = << >>
  /\ \/ /\ sendClosed
        /\ sendPc' = "drain"
        /\ GoOn
     \/ /\ ~sendClosed
        /\ Yield
        /\ UNCHANGED sendPc
  /\ UNCHANGED <<slotVars, sendClosed, hand, cur, after, batch, inflight, useZc,
                 vecFixed, sendErr, others, wireVars, sockVars>>

\* next_work_reaping without work: closed; or the front batch is notified and
\* is recycled; or park on both.
NextIdle ==
  /\ SendRuns("next") /\ hand = << >> /\ work = << >>
  /\ \/ /\ sendClosed
        /\ sendPc' = "drain"
        /\ GoOn
        /\ UNCHANGED <<cur, after, inflight>>
     \/ /\ ~sendClosed /\ inflight # << >> /\ Notified(Head(inflight))
        /\ cur' = Head(inflight) /\ inflight' = Tail(inflight)
        /\ sendPc' = "recycle" /\ after' = "next"
        /\ GoOn
     \/ /\ ~sendClosed /\ (inflight # << >> => ~Notified(Head(inflight)))
        /\ Yield
        /\ UNCHANGED <<sendPc, cur, after, inflight>>
  /\ UNCHANGED <<slotVars, sendClosed, hand, batch, useZc, vecFixed, sendErr,
                 others, wireVars, sockVars>>

\* acquire: with both batches in flight reap the oldest first.
Acquire ==
  /\ SendRuns("acquire")
  /\ IF Len(inflight) = Cardinality(Batches)
       THEN /\ cur' = Head(inflight) /\ inflight' = Tail(inflight)
            /\ sendPc' = "reap" /\ after' = "acquire"
            /\ UNCHANGED wire
       ELSE /\ cur' = CHOOSE b \in Batches :
                        /\ \A i \in DOMAIN inflight : inflight[i] # b
                        /\ \A c \in Batches : c < b =>
                             \E i \in DOMAIN inflight : inflight[i] = c
            /\ sendPc' = "stage" /\ wire' = << >>
            /\ UNCHANGED <<after, inflight>>
  /\ GoOn
  /\ UNCHANGED <<slotVars, sendClosed, hand, batch, useZc, vecFixed, sendErr,
                 op, undel, pins, retries, hostVars, rx, recvVars, aer,
                 watchdog, wireVars, sockVars>>

\* reap: await the notifications of batch cur.
Reap ==
  /\ SendRuns("reap")
  /\ IF Notified(cur)
       THEN /\ batch' = [batch EXCEPT ![cur].pend = 0]
            /\ sendPc' = "recycle"
            /\ GoOn
       ELSE Yield /\ UNCHANGED <<batch, sendPc>>
  /\ UNCHANGED <<slotVars, sendClosed, hand, cur, after, inflight, useZc,
                 vecFixed, sendErr, others, wireVars, sockVars>>

\* recycle: release the notif-gated tags, then reset.  A reset forgets the
\* tags a failed send left in tags_at_cqe.
Recycle ==
  /\ SendRuns("recycle")
  /\ IF batch[cur].notif # << >>
       THEN /\ release_tag(Head(batch[cur].notif))
            /\ batch' = [batch EXCEPT ![cur].notif = Tail(@)]
            /\ UNCHANGED sendPc
       ELSE /\ batch' = [batch EXCEPT ![cur] = EmptyBatch]
            /\ sendPc' = after
            /\ UNCHANGED slotVars
  /\ pins' = [pins EXCEPT ![cur] = IF undel[cur] = 0 THEN {} ELSE @]
  /\ GoOn
  /\ UNCHANGED <<sendClosed, hand, cur, after, inflight, useZc, vecFixed,
                 sendErr, op, wire, undel, retries, hostVars, rx, recvVars, aer,
                 watchdog, wireVars, sockVars>>

\* stage_send_work and release_class: what frees the tag of a staged item.
\* Response payload is sent in place, so its tag waits for the notification.
\* Faulty variant: every response goes with the completion of the send.
release_class_eager(w) == IF w.kind = "R2t" THEN "NoRelease" ELSE "AtCqe"

release_class(w) ==
  CASE w.kind = "R2t" -> "NoRelease"
    [] w.kind = "Response" /\ w.data -> "AtNotif"
    [] OTHER -> "AtCqe"

\* stage_send_work: the batch with one more item, whose tag is on the list of
\* its release class.
Staged(q, w) ==
  LET c == release_class(w)
  IN  [q EXCEPT !.items = @ + 1,
                !.cqe = IF c = "AtCqe" THEN Append(@, w.tag) ELSE @,
                !.notif = IF c = "AtNotif" THEN Append(@, w.tag) ELSE @]

\* stage_batch, one item, while the batch has room; `left` is what stays in
\* hand.
StageOne(left) ==
  /\ SendRuns("stage") /\ hand # << >> /\ batch[cur].items < BatchCap
  /\ LET w == Head(hand)
     IN  /\ batch' = [batch EXCEPT ![cur] = Staged(batch[cur], w)]
         /\ pins' = [pins EXCEPT ![cur] = IF w.data THEN @ \cup {w.tag} ELSE @]
         /\ wire' = Append(wire, w)
  /\ hand' = left
  /\ GoOn
  /\ UNCHANGED <<slotVars, sendPc, sendClosed, cur, after, inflight, useZc,
                 vecFixed, sendErr, op, undel, retries, hostVars, wireVars, rx,
                 recvVars, aer, watchdog, sockVars>>

\* Faulty variant: the item is staged but not taken.
StageItemTwice == StageOne(hand)

StageItem == StageOne(<< >>)

\* stage_batch, try_next.
StageMore ==
  /\ SendRuns("stage") /\ hand = << >> /\ take_work
  /\ hand' = <<Head(work)>>
  /\ GoOn
  /\ UNCHANGED <<sendPc, sendClosed, cur, after, batch, inflight, useZc,
                 vecFixed, sendErr, others, wireVars, sockVars>>

\* stage_batch returns (batch full with an item in hand, nothing more queued,
\* or the payload cap of a zero-copy batch), send_batches picks copy or
\* zero-copy by the average payload, and ship_batch issues the op.
Ship ==
  /\ SendRuns("stage")
  /\ \/ hand # << >> /\ batch[cur].items = BatchCap
     \/ hand = << >> /\ work = << >>
     \/ hand = << >> /\ SendZc /\ batch[cur].notif # << >>
  /\ useZc' \in IF SendZc THEN BOOLEAN ELSE {FALSE}
  /\ op' = "inflight"
  /\ sendPc' = "ship"
  /\ Yield
  /\ UNCHANGED <<slotVars, sendClosed, hand, cur, after, batch, inflight,
                 vecFixed, sendErr, wire, undel, pins, retries, hostVars, wireVars,
                 rx, recvVars, aer, watchdog, sockVars>>

\* ship_batch after the op's completion.  The notification is stashed before
\* the result is looked at.
Shipped ==
  /\ SendRuns("ship") /\ op \notin {"none", "inflight"}
  /\ batch' = [batch EXCEPT ![cur].pend = IF useZc THEN @ + 1 ELSE @]
  /\ CASE op = "done" ->
            /\ sendPc' = "retire" /\ op' = "none" /\ GoOn
            /\ UNCHANGED <<useZc, vecFixed, sendErr>>
       [] op = "err" ->
            /\ sendPc' = "drain" /\ op' = "none" /\ sendErr' = TRUE /\ GoOn
            /\ UNCHANGED <<useZc, vecFixed>>
       [] OTHER ->
            /\ useZc' = (useZc /\ op # "nomem")
            /\ vecFixed' = (vecFixed /\ op # "unfixed")
            /\ op' = "inflight" /\ Yield
            /\ UNCHANGED <<sendPc, sendErr>>
  /\ UNCHANGED <<slotVars, sendClosed, hand, cur, after, inflight, wire, undel, pins,
                 retries, hostVars, wireVars, rx, recvVars, aer, watchdog,
                 sockVars>>

\* retire: release what the completion allows, then recycle the batch or
\* leave it in flight until its notifications arrive.
Retire ==
  /\ SendRuns("retire")
  /\ IF batch[cur].cqe # << >>
       THEN /\ release_tag(Head(batch[cur].cqe))
            /\ batch' = [batch EXCEPT ![cur].cqe = Tail(@)]
            /\ UNCHANGED <<sendPc, after, inflight>>
       ELSE /\ IF batch[cur].pend = 0
                 THEN /\ sendPc' = "recycle" /\ after' = "next"
                      /\ UNCHANGED inflight
                 ELSE /\ sendPc' = "next" /\ inflight' = Append(inflight, cur)
                      /\ UNCHANGED after
            /\ UNCHANGED <<slotVars, batch>>
  /\ GoOn
  /\ UNCHANGED <<sendClosed, hand, cur, useZc, vecFixed, sendErr, others,
                 wireVars, sockVars>>

\* drain: the batches in flight, then whatever a failed send left behind;
\* then the task ends, shutting the socket down if the send path failed.
\* Faulty variant: the batch abandoned mid-ship is not drained.
Draining(rest) ==
  /\ SendRuns("drain")
  /\ \/ /\ inflight # << >>
        /\ cur' = Head(inflight) /\ inflight' = Tail(inflight)
        /\ sendPc' = "reap" /\ after' = "drain" /\ GoOn
        /\ UNCHANGED <<hand, sockVars>>
     \/ /\ inflight = << >> /\ rest # {}
        /\ cur' = CHOOSE b \in rest : \A c \in rest : b <= c
        /\ sendPc' = "reap" /\ after' = "drain" /\ GoOn
        /\ UNCHANGED <<hand, inflight, sockVars>>
     \/ /\ inflight = << >> /\ rest = {}
        /\ sendPc' = "exited" /\ hand' = << >> /\ Yield
        /\ IF sendErr THEN shutdown ELSE UNCHANGED sockVars
        /\ UNCHANGED <<cur, after, inflight>>
  /\ UNCHANGED <<slotVars, sendClosed, batch, useZc, vecFixed, sendErr, others,
                 wireVars>>

DrainInflightOnly == Draining({})

Drain == Draining({b \in Batches : batch[b] # EmptyBatch})

SendTask ==
  \/ NextWork \/ NextIdle \/ Acquire \/ Reap \/ Recycle
  \/ StageItem \/ StageMore \/ Ship \/ Shipped \/ Retire \/ Drain

---------------------------------------------------------------------------
(* The kernel, between two runs of the thread: external.                   *)

\* The send in flight completes: everything sent, part of it, an error that
\* ship_batch retries (no memory to pin, no vectored fixed buffers), or an
\* error.  A zero-copy send may keep the pages until a notification.  What the
\* socket took reaches the host, which may then send its next command.
Retried == {"short", "nomem", "unfixed"}

KernelSend ==
  /\ cpu = "idle" /\ op = "inflight"
  /\ \E r \in Retried \cup {"done", "err"}, n \in 0 .. Len(wire) :
       /\ r \in Retried => retries < MaxRetries
       /\ r \in {"nomem", "unfixed"} => useZc
       /\ r = "unfixed" => vecFixed
       /\ r = "err" => "send_error" \in Faults \/ sockShut \/ hostGone
       /\ CASE r = "done" -> n = Len(wire)
            [] r = "short" -> n < Len(wire)
            [] OTHER -> n = 0
       /\ op' = r
       /\ retries' = IF r \in Retried THEN retries + 1 ELSE retries
       /\ wire' = SubSeq(wire, n + 1, Len(wire))
       /\ outstanding' =
            outstanding - Cardinality({i \in 1 .. n : wire[i].kind = "Response"})
       /\ asked' = asked \cup {wire[i].tag : i \in {j \in 1 .. n : wire[j].kind = "R2t"}}
       /\ \E k \in IF useZc /\ r # "unfixed" THEN {0, 1} ELSE {0} :
            undel' = [undel EXCEPT ![cur] = @ + k]
  /\ sendWoken' = TRUE
  /\ UNCHANGED <<slotVars, cpu, sendVars, pins, hostVars, rx, recvVars, aer,
                 watchdog, sockVars>>

\* A notification arrives and wakes the send task if that is what it awaits.
KernelNotif(b) ==
  /\ cpu = "idle" /\ undel[b] > 0
  /\ undel' = [undel EXCEPT ![b] = @ - 1]
  /\ sendWoken' = (sendWoken \/ (sendPc = "reap" /\ cur = b)
                   \/ (sendPc = "next" /\ inflight # << >> /\ Head(inflight) = b))
  /\ UNCHANGED <<slotVars, cpu, sendVars, op, wire, pins, retries, hostVars, wireVars,
                 rx, recvVars, aer, watchdog, sockVars>>

---------------------------------------------------------------------------
(* The receive loop and the teardown.                                      *)

RecvRuns(pc) == recvPc = pc /\ cpu \in {"recv", "idle"}

\* After a PDU the loop goes on with the next one in its window, or awaits
\* more bytes.  The kernel may end the window anywhere.
EndPdu(rest) ==
  /\ recvPc' = "fill"
  /\ cpu' \in IF rest = << >> THEN {"idle"} ELSE {"idle", "recv"}

\* recv_loop returns and teardown starts with ConnCtx::close.
StartTeardown == recvPc' = "quiesce" /\ closing' = TRUE /\ cpu' = "recv"

\* Protocol error: recv_loop awaits the send of a TermReq before it returns.
StartTerm == recvPc' = "term" /\ cpu' = "idle" /\ UNCHANGED closing

\* handle_pdu, and the H2CData path to finish_payload: the last piece of a
\* solicited transfer delivers the command.
RecvPdu ==
  /\ RecvRuns("fill") /\ rx # << >>
  /\ rx' = Tail(rx)
  /\ LET p == Head(rx)
     IN  \/ /\ p.kind \in AllCapsules
            /\ recvPc' = "claim" /\ pdu' = p.kind /\ cpu' = "recv"
            /\ UNCHANGED <<slotVars, closing>>
         \/ /\ p.kind = "h2c" /\ state[p.tag] = "Receiving"
            /\ submit(p.tag) /\ EndPdu(Tail(rx))
            /\ UNCHANGED <<pdu, closing>>
         \/ /\ p.kind = "bad_pdu" \/ (p.kind = "h2c" /\ state[p.tag] # "Receiving")
            /\ StartTerm
            /\ UNCHANGED <<slotVars, pdu>>
         \/ /\ p.kind = "host_term"
            /\ StartTeardown
            /\ UNCHANGED <<slotVars, pdu>>
  /\ UNCHANGED <<sendVars, sendWoken, kernelVars, hostVars, wireVars, timedOut,
                 outcome, aer, watchdog, sockVars>>

\* handle_capsule_cmd up to await_tag.  An in-capsule payload may still be on
\* its way when the tag is claimed.
RecvClaim ==
  /\ RecvRuns("claim") /\ claimer = "run"
  /\ \/ /\ claim_tag
        /\ recvPc' = "route"
        /\ cpu' \in IF pdu \in {"cmd", "bad_digest"}
                      THEN {"recv", "idle"} ELSE {"recv"}
     \/ /\ park_claimer
        /\ cpu' = "idle"
        /\ UNCHANGED recvPc
  /\ UNCHANGED <<sendVars, sendWoken, kernelVars, hostVars, wireVars, rx, pdu,
                 closing, timedOut, outcome, aer, watchdog, sockVars>>

\* The rest of handle_capsule_cmd, or finish_payload / DdgstPhase::advance for
\* an in-capsule payload: submit, fail the command, or solicit its data.
RecvRoute ==
  /\ RecvRuns("route")
  /\ \E t \in filling :
       \/ /\ pdu \in {"connect", "cmd"}
          /\ submit(t) /\ UNCHANGED sendWoken
       \/ pdu = "bad_digest" /\ complete_receiving(t) /\ WakeSender
       \/ pdu = "r2t" /\ solicit(t) /\ WakeSender
  /\ EndPdu(rx)
  /\ UNCHANGED <<sendVars, kernelVars, hostVars, wireVars, rx, pdu, closing,
                 timedOut, outcome, aer, watchdog, sockVars>>

\* Awaiting bytes, the loop reads end-of-file.
RecvEof ==
  /\ recvPc \in {"fill", "route"} /\ cpu = "idle"
  /\ rx = << >> /\ (hostGone \/ sockShut)
  /\ StartTeardown
  /\ UNCHANGED <<slotVars, sendVars, sendWoken, kernelVars, hostVars, wireVars,
                 rx, pdu, timedOut, outcome, aer, watchdog, sockVars>>

TermSent ==
  /\ recvPc = "term" /\ cpu = "idle"
  /\ StartTeardown
  /\ UNCHANGED <<slotVars, sendVars, sendWoken, kernelVars, hostVars, wireVars,
                 rx, pdu, timedOut, outcome, aer, watchdog, sockVars>>

\* teardown between its two quiesce calls.
CloseSend ==
  /\ sendClosed' = TRUE /\ WakeSender
  /\ shutdown
  /\ recvPc' = "join" /\ cpu' = "recv"

\* quiesce(executing == 0): checked at once and after every sleep, until the
\* wait has lasted ten seconds.  Faulty variant: the wait is not bounded.
Quiesce(bounded) ==
  /\ RecvRuns("quiesce")
  /\ \/ /\ executing = 0
        /\ CloseSend /\ UNCHANGED timedOut
     \/ /\ executing > 0 /\ cpu = "idle" /\ bounded
        /\ timedOut' = TRUE /\ CloseSend
     \/ /\ executing > 0 /\ cpu = "recv"
        /\ cpu' = "idle"
        /\ UNCHANGED <<sendWoken, sendClosed, sockVars, recvPc, timedOut>>
  /\ UNCHANGED <<slotVars, sendPc, hand, cur, after, batch, inflight, useZc,
                 vecFixed, sendErr, kernelVars, hostVars, wireVars, rx, pdu,
                 closing, outcome, aer, watchdog>>

QuiesceForever == Quiesce(FALSE)

QuiesceExecuting == Quiesce(TRUE)

\* teardown's verdict, and the drop of conn.fd when run_queue returns.
\* Faulty variant: only the send task is looked at.
FinishSendOnly ==
  /\ outcome' = IF sendPc # "exited" THEN "leaked" ELSE "freed"
  /\ recvPc' = "done" /\ fdOpen' = FALSE /\ cpu' = "idle"

Finish ==
  /\ outcome' = IF executing > 0 \/ sendPc # "exited" THEN "leaked" ELSE "freed"
  /\ recvPc' = "done" /\ fdOpen' = FALSE /\ cpu' = "idle"

\* quiesce(send_task.is_finished()).
JoinSend ==
  /\ RecvRuns("join")
  /\ \/ sendPc = "exited" /\ Finish /\ UNCHANGED timedOut
     \/ sendPc # "exited" /\ cpu = "idle" /\ timedOut' = TRUE /\ Finish
     \/ /\ sendPc # "exited" /\ cpu = "recv" /\ cpu' = "idle"
        /\ UNCHANGED <<recvPc, timedOut, outcome, fdOpen>>
  /\ UNCHANGED <<slotVars, sendVars, sendWoken, kernelVars, hostVars, wireVars,
                 rx, pdu, closing, aer, watchdog, sockShut, staleShut>>

RecvTask ==
  \/ RecvPdu \/ RecvClaim \/ RecvRoute \/ RecvEof \/ TermSent
  \/ QuiesceExecuting \/ JoinSend

---------------------------------------------------------------------------
(* Slot tasks and the keep-alive watchdog.                                 *)

\* A slot task is polled; a command it starts may be an AER, which parks.
PollSlot(t) ==
  /\ cpu = "idle" /\ Alive
  /\ await_command(t)
  /\ \/ UNCHANGED aer
     \/ IsAdmin /\ sentCmds > 1 /\ state[t] = "Ready" /\ aer' = aer \cup {t}
  /\ UNCHANGED <<cpu, sendVars, sendWoken, kernelVars, hostVars, wireVars, rx,
                 recvVars, watchdog, sockVars>>

\* dispatch::execute returns: the backend answered, or an AER was resolved by
\* an event or by ConnCtx::close.
CompleteSlot(t) ==
  /\ cpu = "idle" /\ Alive
  /\ task[t] = "dispatch"
  /\ \E d \in BOOLEAN : (t \in aer => ~d) /\ complete(t, d)
  /\ aer' = aer \ {t}
  /\ WakeSender
  /\ UNCHANGED <<cpu, sendVars, kernelVars, hostVars, wireVars, rx, recvVars,
                 watchdog, sockVars>>

\* spawn_keepalive_watchdog: the host was silent for too long.  Faulty variant:
\* the task is not among those teardown aborts.
WatchdogOutlives ==
  /\ cpu = "idle" /\ watchdog /\ "silence" \in Faults
  /\ shutdown
  /\ watchdog' = FALSE
  /\ UNCHANGED <<slotVars, cpu, sendVars, sendWoken, kernelVars, hostVars,
                 wireVars, rx, recvVars, aer>>

WatchdogExpires ==
  /\ cpu = "idle" /\ Alive /\ watchdog /\ "silence" \in Faults
  /\ shutdown
  /\ watchdog' = FALSE
  /\ UNCHANGED <<slotVars, cpu, sendVars, sendWoken, kernelVars, hostVars,
                 wireVars, rx, recvVars, aer>>

---------------------------------------------------------------------------
(* The host: external.  It connects first, keeps to its depth, answers     *)
(* every R2T with the whole data and may leave at any time.                *)

HostSends ==
  /\ cpu = "idle" /\ ~hostGone /\ ~sockShut
  /\ \/ /\ sentCmds < MaxCmds /\ outstanding < HostDepth
        /\ sentCmds = 1 => outstanding = 0
        /\ \E k \in Capsules : rx' = Append(rx, [kind |-> k, tag |-> 0])
        /\ sentCmds' = sentCmds + 1 /\ outstanding' = outstanding + 1
     \/ /\ sentCmds <= MaxCmds
        /\ \E k \in Faults \cap {"host_term", "bad_pdu"} :
             rx' = Append(rx, [kind |-> k, tag |-> 0])
        /\ sentCmds' = MaxCmds + 1  \* nothing follows
        /\ UNCHANGED outstanding
  /\ UNCHANGED <<slotVars, cpu, sendVars, sendWoken, kernelVars, hostGone, asked,
                 recvVars, aer, watchdog, sockVars>>

HostData(t) ==
  /\ cpu = "idle" /\ ~hostGone /\ ~sockShut /\ sentCmds <= MaxCmds
  /\ t \in asked
  /\ asked' = asked \ {t}
  /\ rx' = Append(rx, [kind |-> "h2c", tag |-> t])
  /\ UNCHANGED <<slotVars, cpu, sendVars, sendWoken, kernelVars, hostVars,
                 outstanding, recvVars, aer, watchdog, sockVars>>

HostLeaves ==
  /\ cpu = "idle" /\ ~hostGone /\ "close" \in Faults
  /\ hostGone' = TRUE
  /\ rx' \in {rx, << >>}   \* a reset also discards what was not read
  /\ UNCHANGED <<slotVars, cpu, sendVars, sendWoken, kernelVars, sentCmds,
                 wireVars, recvVars, aer, watchdog, sockVars>>

ConnNext ==
  \/ SendTask \/ RecvTask \/ KernelSend \/ WatchdogExpires
  \/ HostSends \/ HostLeaves
  \/ \E b \in Batches : KernelNotif(b)
  \/ \E t \in Tags : PollSlot(t) \/ CompleteSlot(t) \/ HostData(t)

ConnSpec == ConnInit /\ [][ConnNext]_connVars

\* The executor polls every woken task, timers fire, the reactor delivers
\* every completion.  A send on a dead socket completes, pinned pages come
\* back, and an AER is resolved once ConnCtx::close has woken it.
ConnFairness ==
  /\ WF_connVars(SendTask)
  /\ WF_connVars(RecvTask)
  /\ WF_connVars(KernelSend /\ (sockShut \/ hostGone))
  /\ \A b \in Batches : WF_connVars(KernelNotif(b))
  /\ \A t \in Tags : /\ WF_connVars(PollSlot(t))
                     /\ WF_connVars(CompleteSlot(t) /\ t \in aer /\ closing)

\* In addition the host reads what it is sent and answers every R2T, and no
\* backend operation is wedged.
ServiceFairness ==
  /\ WF_connVars(KernelSend)
  /\ \A t \in Tags : WF_connVars(CompleteSlot(t)) /\ WF_connVars(HostData(t))

FairConnSpec == ConnSpec /\ ConnFairness

ServedConnSpec == ConnSpec /\ ConnFairness /\ ServiceFairness

---------------------------------------------------------------------------
(* Properties.                                                             *)

\* Slots whose buffers the kernel may read for a send: while the op of the
\* batch is in flight, and until its last zero-copy notification.
KernelReads(b) ==
  IF undel[b] > 0 \/ (cur = b /\ op = "inflight") THEN pins[b] ELSE {}

\* A tag is released, and so its buffer handed to the next command, only when
\* no send still references it: data responses wait for their notification.
NoReleaseWhilePinned ==
  \A b \in Batches : \A t \in KernelReads(b) : state[t] = "Responding"

\* The header arena and iovecs of a batch are rewritten only when the kernel
\* is through with the batch's previous send.
BatchReusedWhenQuiet ==
  /\ sendPc = "stage" => undel[cur] = 0
  /\ \A b \in Batches : undel[b] > 0 => batch[b].pend > 0 \/ (cur = b /\ op # "none")

\* Together: what the kernel may still read for a send is neither handed to
\* another command nor rewritten.
SendMemoryHeld == NoReleaseWhilePinned /\ BatchReusedWhenQuiet

\* teardown frees queue memory only when no backend operation and no send
\* references it and no task is inside one.
FreedMemoryUnreferenced ==
  outcome = "freed" =>
    /\ \A t \in Tags : state[t] # "Executing"
    /\ op = "none"
    /\ \A b \in Batches : undel[b] = 0

\* The parked send task never misses its wake: with work queued, the list
\* closed, or the oldest batch notified, it is scheduled.
SenderNotStranded ==
  (sendPc = "next" /\ cpu = "idle" /\ ~sendWoken /\ Alive) =>
    /\ work = << >> /\ ~sendClosed
    /\ inflight # << >> => ~Notified(Head(inflight))

\* Teardown always ends, by joining everything or by timing out: a wedged
\* backend or an undelivered notification cannot hold the connection.
TeardownCompletes == recvPc \in {"term", "quiesce", "join"} ~> recvPc = "done"

\* A response handed to the send path gives its tag back without any further
\* send work: "tag release must never depend on new send work arriving"
\* (next_work_reaping).  It takes a host that reads and a backend that answers;
\* the exception is a connection that is failing.
RespondingIsReleased ==
  ServiceFairness =>
    \A t \in Tags : state[t] = "Responding" ~> (state[t] = "Free" \/ closing)

\* await_tag cannot deadlock: a parked receive path is woken.  This needs a
\* host that keeps HostDepth below NSlots.
ParkedRecvWakes == claimer = "parked" ~> claimer = "run"

\* A dead send path brings the connection down: the socket is shut down "so
\* the recv loop sees EOF and teardown runs now" (spawn_send_task).
SendFailureEndsConnection == sendErr ~> recvPc = "done"

\* The queue is leaked only when one of teardown's two waits timed out.  This
\* does not hold: see the README on slots that are Ready at teardown.
LeakOnlyOnTimeout == outcome = "leaked" => timedOut

\* "fd is valid for the connection's lifetime" (spawn_keepalive_watchdog,
\* spawn_send_task): shutdown meets a descriptor number that was given back
\* only from a task that teardown leaked, never after an orderly end.
StaleShutdownOnlyAfterLeak == staleShut => outcome = "leaked"

\* The composition stays within the slot protocol: no debug_assert of
\* slotq.rs can fire, and every invariant of SlotQueue holds of it.
SlotProtocol == SlotSpec
=============================================================================
