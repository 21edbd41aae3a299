------------------------------ MODULE RecvPath ------------------------------
(***************************************************************************)
(* The receive path of one NVMe/TCP queue, from the socket to the backing  *)
(* store: the reader (RecvRing), the PDU phase machine and its zero-copy   *)
(* retention (ioutgt-nvme-tcp: recv.rs), the buffers slots lease (BufPool),*)
(* and the slot tasks that execute reads and writes against a backend      *)
(* (ioutgt-nvme: io.rs, ioutgt-backend: file.rs).                          *)
(*                                                                         *)
(* The host's side is a script: the PDUs it sends, in order.  It sends     *)
(* solicited data only once solicited, and a command only while fewer than *)
(* Depth are unanswered.  Everything on the queue thread is cooperative:   *)
(* slot tasks and the kernel's receive work run only while the receive     *)
(* task is suspended.                                                      *)
(***************************************************************************)
EXTENDS RecvRing, BufPool, SequencesExt

CONSTANTS
  Scripts,    \* the PDU sequences a host may send
  HdrLen,     \* bytes of a PDU header
  DgLen,      \* bytes of a data digest, 4 in the code
  DirectMin,  \* H2C_DIRECT_MIN
  PageSize,   \* bytes of a pool page
  Depth,      \* commands the host keeps outstanding
  NoTag       \* no transfer tag yet

VARIABLES
  script,     \* the PDUs of this behaviour
  isRing,     \* reader.is_ring()
  pc,         \* where the receive task is
  phase,      \* RecvPhase
  slice,      \* the unprocessed part of the window, in buffer cur.bid
  consumed,   \* bytes of the stream processed
  slot,       \* tag -> its command and data
  r2t,        \* command -> the transfer tag its R2T named, or NoTag
  answered,   \* commands whose response the host may have
  stored,     \* command -> the bytes the backend wrote for it, in order
  dontcache   \* FileBackend.dontcache

pathVars == <<phase, slice, consumed>>
slotVars == <<slot, r2t, answered, stored>>
recvVars == <<kernelVars, armed, cq, ringVars, readerVars>>
vars == <<recvVars, poolVars, script, isRing, pc, pathVars, slotVars, dontcache>>

-----------------------------------------------------------------------------
(* The host's stream.                                                      *)

Carries(p) == p.kind \in {"incapsule", "h2c"}
IsCommand(p) == p.kind # "h2c"
PduBytes(p) ==
  HdrLen + (IF Carries(p) THEN p.len + (IF p.dg = "none" THEN 0 ELSE DgLen)
                          ELSE 0)
\* A script names the stream position before each of its PDUs.
ASSUME ScriptsLaidOut ==
  \A s \in Scripts :
    /\ s[1].at = 0
    /\ \A i \in 2 .. Len(s) : s[i].at = s[i - 1].at + PduBytes(s[i - 1])
Before(i) == script[i].at
Total == Last(script).at + PduBytes(Last(script))
Commands == {i \in DOMAIN script : IsCommand(script[i])}

\* What the host has sent so far.
MaySend(i) ==
  IF IsCommand(script[i])
  THEN Cardinality({j \in Commands : j < i} \ answered) < Depth
  ELSE r2t[script[i].cmd] # NoTag
HostSent ==
  LET held == {i \in DOMAIN script : ~MaySend(i)}
  IN  IF held = {} THEN Total ELSE Before(CHOOSE i \in held : \A j \in held : i <= j)

-----------------------------------------------------------------------------
(* Slots.                                                                  *)

Vacant == [st |-> "free", cmd |-> 0, on |-> "none", bid |-> 0, off |-> 0,
           len |-> 0, buf |-> <<>>, got |-> 0, done |-> 0]
FreeTags == {t \in Tags : slot[t].st = "free"}
Pages(n) == IF n = 0 THEN 1 ELSE (n + PageSize - 1) \div PageSize

\* The bytes the slot's SlotData shows: the ring region it borrows, or the
\* leased (or private) buffer.
SlotBytes(t) ==
  LET s == slot[t]
  IN  IF s.on = "ring" THEN [k \in 1 .. s.len |-> cells[s.bid][s.off + k - 1]]
                       ELSE s.buf

\* lease_or_owned: a pool lease, or a private buffer when the pool is short.
leaseOrOwned(t, n) ==
  LET a == alloc(Pages(n))
  IN  IF a.segs = {}
      THEN UNCHANGED poolVars
      ELSE leased(t, a) /\ UNCHANGED waiters
LeaseKind(n) == IF alloc(Pages(n)).segs = {} THEN "own" ELSE "pool"

\* try_retain_payload: the whole payload fits in what is left of the buffer.
retainable(n) == isRing /\ n <= BufSize - slice.off

Init ==
  /\ script \in Scripts
  /\ isRing \in BOOLEAN
  /\ RingInit(isRing)
  /\ PoolInit
  /\ pc = "fill"
  /\ phase = [in |-> "header", have |-> 0]
  /\ slice = [off |-> 0, len |-> 0]
  /\ consumed = 0
  /\ slot = [t \in Tags |-> Vacant]
  /\ r2t = [i \in DOMAIN script |-> NoTag]
  /\ answered = {}
  /\ stored = [i \in DOMAIN script |-> <<>>]
  /\ dontcache = TRUE

-----------------------------------------------------------------------------
(* The kernel and the reader.                                              *)

\* The receive task is suspended: slot tasks run, and the kernel while the
\* thread is in io_uring_enter.  An ended receive task's operation is
\* cancelled before the kernel can serve it again.
Suspended == pc \in {"wait", "parked", "tag", "direct", "end", "closed"}
Receiving == pc \in {"wait", "parked", "tag"}

KernelRecv ==
  /\ Receiving
  /\ \/ \E n \in 1 .. HostSent - rcvd :
          IF isRing THEN \E more \in BOOLEAN : RecvChunk(n, more)
                    ELSE RecvScratch(n)
     \/ isRing /\ HostSent > rcvd /\ RecvNoBufs
     \/ rcvd = Total /\ RecvLast("eof")
  /\ UNCHANGED <<poolVars, script, isRing, pc, pathVars, slotVars, dontcache>>

\* The socket fails under an armed receive.
KernelFails ==
  /\ Receiving
  /\ RecvLast("error")
  /\ UNCHANGED <<poolVars, script, isRing, pc, pathVars, slotVars, dontcache>>

\* The end of a window: reader.consume, then either the direct receive of a
\* large tail or the next fill.
DirectTail ==
  /\ ~isRing
  /\ phase.in = "data"
  /\ script[phase.pdu].kind = "h2c"
  /\ phase.left >= DirectMin

Fill ==
  /\ pc = "fill"
  /\ IF DirectTail
     THEN pc' = "direct" /\ UNCHANGED recvVars
     ELSE pc' = "wait" /\ IF isRing THEN fillRing ELSE fillClassic
  /\ UNCHANGED <<poolVars, script, isRing, pathVars, slotVars, dontcache>>

\* The future of fill resumes with a completion.
OnChunk ==
  /\ pc = "wait" /\ cq # <<>>
  /\ LET c == Head(cq)
     IN  /\ c.res = "chunk"
         /\ IF isRing THEN observed(c) ELSE observedScratch(c)
         /\ slice' = [off |-> cur'.off, len |-> cur'.len]
  /\ cq' = Tail(cq)
  /\ pc' = "window"
  /\ UNCHANGED <<kernelVars, armed, provided, pending, awaiting, gen, armedGen,
                 poolVars, script, isRing, phase, consumed, slotVars, dontcache>>

\* Faulty variant: the reader parks whatever happened since it armed.
OnNoBufsParks ==
  /\ pc = "wait" /\ cq # <<>>
  /\ Head(cq).res = "nobufs"
  /\ cq' = Tail(cq)
  /\ pc' = "parked" /\ op' = FALSE /\ armedGen' = gen /\ armed' = armed
  /\ UNCHANGED <<kernelVars, ringVars, cur, poolVars, script, isRing, pathVars,
                 slotVars, dontcache>>

OnNoBufs ==
  /\ pc = "wait" /\ cq # <<>>
  /\ Head(cq).res = "nobufs"
  /\ cq' = Tail(cq)
  /\ IF mustPark
     THEN pc' = "parked" /\ op' = FALSE /\ UNCHANGED <<armedGen, armed>>
     ELSE pc' = "wait" /\ rearm
  /\ UNCHANGED <<kernelVars, ringVars, cur, poolVars, script, isRing, pathVars,
                 slotVars, dontcache>>

Unpark ==
  /\ pc = "parked"
  /\ ~mustPark
  /\ pc' = "wait"
  /\ rearm
  /\ UNCHANGED <<kernelVars, cq, ringVars, cur, poolVars, script, isRing,
                 pathVars, slotVars, dontcache>>

\* Orderly shutdown or a receive error: the receive loop returns.
OnLast ==
  /\ pc = "wait" /\ cq # <<>>
  /\ Head(cq).res \in {"eof", "error"}
  /\ cq' = Tail(cq)
  /\ pc' = IF Head(cq).res = "eof" THEN "end" ELSE "closed"
  /\ UNCHANGED <<kernelVars, armed, ringVars, readerVars, poolVars, script,
                 isRing, pathVars, slotVars, dontcache>>
-----------------------------------------------------------------------------
(* The phase machine: one step of drive_recv's inner loop.                 *)

HeaderPhase == [in |-> "header", have |-> 0]
DataPhase(t, i, base, kept) ==
  [in |-> "data", tag |-> t, pdu |-> i, base |-> base, left |-> script[i].len,
   retained |-> kept]
DigestPhase(t, i) == [in |-> "digest", tag |-> t, pdu |-> i, have |-> 0]

Smaller(a, b) == IF a < b THEN a ELSE b
advance(n) ==
  /\ slice' = [off |-> slice.off + n, len |-> slice.len - n]
  /\ consumed' = consumed + n

\* feed_header: the decoder takes header bytes; a complete header is routed.
FeedHeader ==
  /\ pc = "window" /\ slice.len > 0
  /\ phase.in = "header"
  /\ LET n == Smaller(HdrLen - phase.have, slice.len)
     IN  /\ advance(n)
         /\ phase' = IF phase.have + n < HdrLen
                     THEN [phase EXCEPT !.have = @ + n]
                     ELSE [in |-> "pdu",
                           pdu |-> CHOOSE i \in DOMAIN script :
                                     Before(i) + HdrLen = consumed + n]
  /\ UNCHANGED <<recvVars, poolVars, script, isRing, pc, slotVars, dontcache>>

EndWindow ==
  /\ pc = "window" /\ slice.len = 0
  /\ phase.in # "pdu"
  /\ pc' = "fill"
  /\ UNCHANGED <<recvVars, poolVars, script, isRing, pathVars, slotVars, dontcache>>

\* No free tag: await_tag suspends the receive task.
AwaitTag ==
  /\ pc = "window"
  /\ phase.in = "pdu" /\ IsCommand(script[phase.pdu])
  /\ FreeTags = {}
  /\ pc' = "tag"
  /\ UNCHANGED <<recvVars, poolVars, script, isRing, pathVars, slotVars, dontcache>>

\* Route a command whose header is complete to tag t.  Which free tag
\* claim_tag pops is SlotQueue's matter.
Routing(t) ==
  /\ pc \in {"window", "tag"}
  /\ phase.in = "pdu" /\ IsCommand(script[phase.pdu])
  /\ FreeTags # {} /\ t = CHOOSE u \in FreeTags : TRUE
  /\ pc' = "window"
Claimed(t, st, on) ==
  [Vacant EXCEPT !.st = st, !.cmd = phase.pdu, !.on = on,
                 !.len = script[phase.pdu].len,
                 !.buf = IF on \in {"pool", "own"}
                         THEN [k \in 1 .. script[phase.pdu].len |-> 0]
                         ELSE <<>>]

\* handle_capsule_cmd with in-capsule data: retained in the ring when it
\* fits, otherwise a leased buffer.
CapsuleInCapsule(t) ==
  LET i == phase.pdu
      n == script[i].len
      kept == retainable(n)
  IN  /\ Routing(t)
      /\ script[i].kind = "incapsule"
      /\ IF kept
         THEN /\ borrow(cur.bid)
              /\ slot' = [slot EXCEPT ![t] = [Claimed(t, "recv", "ring") EXCEPT
                                                !.bid = cur.bid, !.off = slice.off]]
              /\ UNCHANGED poolVars
         ELSE /\ leaseOrOwned(t, n)
              /\ slot' = [slot EXCEPT ![t] = Claimed(t, "recv", LeaseKind(n))]
              /\ UNCHANGED pending
      /\ phase' = DataPhase(t, i, 0, kept)
      /\ UNCHANGED <<kernelVars, armed, cq, provided, awaiting, recvOff, gen,
                     readerVars, script, isRing, slice, consumed, r2t, answered,
                     stored, dontcache>>

\* handle_capsule_cmd with host-resident data: lease and solicit.
CapsuleSolicit(t) ==
  LET i == phase.pdu
      n == script[i].len
  IN  /\ Routing(t)
      /\ script[i].kind = "solicit"
      /\ leaseOrOwned(t, n)
      /\ slot' = [slot EXCEPT ![t] = Claimed(t, "recv", LeaseKind(n))]
      /\ r2t' = [r2t EXCEPT ![i] = t]
      /\ phase' = HeaderPhase
      /\ UNCHANGED <<recvVars, script, isRing, slice, consumed, answered,
                     stored, dontcache>>

\* handle_capsule_cmd without data to receive: submit at once.
CapsulePlain(t) ==
  /\ Routing(t)
  /\ script[phase.pdu].kind = "read"
  /\ slot' = [slot EXCEPT ![t] = Claimed(t, "exec", "none")]
  /\ phase' = HeaderPhase
  /\ UNCHANGED <<recvVars, poolVars, script, isRing, slice, consumed, r2t,
                 answered, stored, dontcache>>

\* validate_h2c against the slot its transfer tag names.
ValidH2c(t, i) ==
  /\ slot[t].st = "recv"
  /\ slot[t].cmd = script[i].cmd
  /\ script[i].off = slot[t].got
  /\ script[i].off + script[i].len <= slot[t].len

\* handle_pdu for H2CData.  A PDU that carries the whole transfer is retained
\* if it fits, which drops the buffer leased when the data was solicited.
HandleH2c ==
  LET i == phase.pdu
      t == r2t[script[i].cmd]
      whole == script[i].off = 0 /\ script[i].len = slot[t].len
      kept == whole /\ retainable(script[i].len)
  IN  /\ pc = "window"
      /\ phase.in = "pdu" /\ script[i].kind = "h2c"
      /\ ValidH2c(t, i)
      /\ IF kept
         THEN /\ borrow(cur.bid)
              /\ slot' = [slot EXCEPT ![t].on = "ring", ![t].bid = cur.bid,
                                      ![t].off = slice.off, ![t].buf = <<>>]
              /\ dropLease(t)
         ELSE UNCHANGED <<pending, slot, poolVars>>
      /\ phase' = DataPhase(t, i, script[i].off, kept)
      /\ UNCHANGED <<kernelVars, armed, cq, provided, awaiting, recvOff, gen,
                     readerVars, script, isRing, pc, slice, consumed, r2t,
                     answered, stored, dontcache>>

\* A PDU that fails validation: send_term, and the receive loop returns.
RejectH2c ==
  /\ pc = "window"
  /\ phase.in = "pdu" /\ script[phase.pdu].kind = "h2c"
  /\ ~ValidH2c(r2t[script[phase.pdu].cmd], phase.pdu)
  /\ pc' = "closed"
  /\ UNCHANGED <<recvVars, poolVars, script, isRing, pathVars, slotVars, dontcache>>

\* finish_payload: the command is submitted once its transfer is complete;
\* a last PDU that leaves it incomplete ends the connection.
finished(s, i) ==
  LET got == s.got + script[i].len
  IN  [s EXCEPT !.got = got,
                !.st = IF script[i].kind = "incapsule" \/ got = s.len
                       THEN "exec" ELSE "recv"]
FinishPayload(t, i, s) ==
  /\ slot' = [slot EXCEPT ![t] = finished(s, i)]
  /\ pc' = IF finished(s, i).st = "recv" /\ script[i].last THEN "closed" ELSE
           IF pc = "direct" THEN "fill" ELSE "window"
  /\ phase' = HeaderPhase

\* The slot with n payload bytes written at the reassembly offset.
written(s, bytes) ==
  LET at == phase.base + (script[phase.pdu].len - phase.left)
  IN  [s EXCEPT !.buf = [k \in DOMAIN @ |->
         IF k \in at + 1 .. at + Len(bytes) THEN bytes[k - at] ELSE @[k]]]

\* Payload bytes arrived; `s` is the slot that holds them now.
PayloadTaken(t, n, s) ==
  LET i == phase.pdu
  IN  IF n < phase.left
      THEN /\ slot' = [slot EXCEPT ![t] = s]
           /\ phase' = [phase EXCEPT !.left = @ - n]
           /\ UNCHANGED pc
      ELSE IF script[i].dg # "none"
      THEN /\ slot' = [slot EXCEPT ![t] = s]
           /\ phase' = DigestPhase(t, i)
           /\ pc' = IF pc = "direct" THEN "fill" ELSE pc
      ELSE FinishPayload(t, i, s)

\* DataPhase::advance: a retained payload is already in place.
DataAdvance ==
  LET t == phase.tag
      n == Smaller(phase.left, slice.len)
      bytes == [k \in 1 .. n |-> cells[cur.bid][slice.off + k - 1]]
  IN  /\ pc = "window" /\ slice.len > 0
      /\ phase.in = "data"
      /\ advance(n)
      /\ PayloadTaken(t, n, IF phase.retained THEN slot[t]
                                              ELSE written(slot[t], bytes))
      /\ UNCHANGED <<recvVars, poolVars, script, isRing, r2t, answered, stored,
                     dontcache>>

\* recv_tail_direct: one completion of the receive into the slot's segments.
\* A peer that closes first ends the connection.
DirectRecv(n) ==
  LET t == phase.tag
  IN  /\ pc = "direct"
      /\ n <= Smaller(phase.left, HostSent - rcvd)
      /\ PayloadTaken(t, n, written(slot[t], [k \in 1 .. n |-> rcvd + k]))
      /\ rcvd' = rcvd + n
      /\ consumed' = consumed + n
      /\ UNCHANGED <<koff, cells, armed, cq, ringVars, readerVars, poolVars,
                     script, isRing, slice, r2t, answered, stored, dontcache>>

DirectFails ==
  /\ pc = "direct"
  /\ pc' = "closed"
  /\ UNCHANGED <<recvVars, poolVars, script, isRing, pathVars, slotVars, dontcache>>

\* DdgstPhase::advance: a mismatch fails the command instead of executing it.
DigestAdvance ==
  LET t == phase.tag
      i == phase.pdu
      n == Smaller(DgLen - phase.have, slice.len)
  IN  /\ pc = "window" /\ slice.len > 0
      /\ phase.in = "digest"
      /\ advance(n)
      /\ CASE phase.have + n < DgLen ->
                phase' = [phase EXCEPT !.have = @ + n]
                  /\ UNCHANGED <<slot, pc, answered>>
           [] phase.have + n = DgLen /\ script[i].dg = "bad" ->
                /\ slot' = [slot EXCEPT ![t].st = "resp"]
                /\ answered' = answered \cup {slot[t].cmd}
                /\ phase' = HeaderPhase
                /\ UNCHANGED pc
           [] OTHER -> FinishPayload(t, i, slot[t]) /\ UNCHANGED answered
      /\ UNCHANGED <<recvVars, poolVars, script, isRing, r2t, stored, dontcache>>

-----------------------------------------------------------------------------
(* Slot tasks: io.rs over a backend.                                       *)

completed(t) ==
  /\ slot' = [slot EXCEPT ![t].st = "resp"]
  /\ answered' = answered \cup {slot[t].cmd}

\* read: lease_await takes the pages, or parks until some are freed.
Lease(t) ==
  LET n == slot[t].len
      a == alloc(Pages(n))
  IN  /\ Suspended
      /\ slot[t].st = "exec" /\ script[slot[t].cmd].kind = "read"
      /\ slot[t].on = "none" /\ t \notin waiters
      /\ IF a.segs = {}
         THEN waiters' = waiters \cup {t} /\ UNCHANGED <<free, freePages, lease, slot>>
         ELSE leased(t, a) /\ slot' = [slot EXCEPT ![t].on = "pool"] /\ UNCHANGED waiters
      /\ UNCHANGED <<recvVars, script, isRing, pc, pathVars, r2t, answered,
                     stored, dontcache>>

InIo(t) == slot[t].st = "exec" /\ slot[t].on # "none"

\* rwv: one operation moved n bytes; a short transfer resumes after them.
Transfer(t, n) ==
  LET s == slot[t]
  IN  /\ Suspended
      /\ InIo(t)
      /\ n <= s.len - s.done
      /\ stored' = IF script[s.cmd].kind = "read" THEN stored
                   ELSE [stored EXCEPT ![s.cmd] =
                           @ \o SubSeq(SlotBytes(t), s.done + 1, s.done + n)]
      /\ IF s.done + n = s.len
         THEN completed(t)
         ELSE slot' = [slot EXCEPT ![t].done = @ + n] /\ UNCHANGED answered
      /\ UNCHANGED <<recvVars, poolVars, script, isRing, pc, pathVars, r2t,
                     dontcache>>

\* rwv: the store refuses RWF_DONTCACHE; the flag is dropped for good and the
\* same operation retried.
DropDontcache(t) ==
  /\ Suspended
  /\ InIo(t)
  /\ dontcache
  /\ dontcache' = FALSE
  /\ UNCHANGED <<recvVars, poolVars, script, isRing, pc, pathVars, slotVars>>

\* A command that fails: refused by execute or checked_len, an IO error, a
\* zero-length transfer, a failed flush after a forced-unit-access write.
Fail(t) ==
  /\ Suspended
  /\ slot[t].st = "exec" /\ t \notin waiters
  /\ completed(t)
  /\ UNCHANGED <<recvVars, poolVars, script, isRing, pc, pathVars, r2t, stored,
                 dontcache>>

\* release_tag, once the response is sent: the slot's data is dropped.
Release(t) ==
  /\ Suspended
  /\ slot[t].st = "resp"
  /\ slot' = [slot EXCEPT ![t] = Vacant]
  /\ IF slot[t].on = "ring"
     THEN release(slot[t].bid)
     ELSE UNCHANGED <<pending, provided, awaiting, recvOff, gen>>
  /\ dropLease(t)
  /\ UNCHANGED <<kernelVars, armed, cq, readerVars, script, isRing, pc, pathVars,
                 r2t, answered, stored, dontcache>>

RecvTask ==
  \/ Fill \/ OnChunk \/ OnNoBufs \/ Unpark \/ OnLast
  \/ FeedHeader \/ EndWindow \/ AwaitTag
  \/ \E t \in Tags : CapsuleInCapsule(t) \/ CapsuleSolicit(t) \/ CapsulePlain(t)
  \/ HandleH2c \/ RejectH2c \/ DataAdvance \/ DigestAdvance
DirectStep == \E n \in 1 .. BufSize : DirectRecv(n)
SlotTask(t) == Lease(t) \/ Release(t) \/ \E n \in 1 .. slot[t].len : Transfer(t, n)
Progress == KernelRecv \/ RecvTask \/ DirectStep \/ \E t \in Tags : SlotTask(t)
Next ==
  \/ Progress
  \/ KernelFails \/ DirectFails
  \/ \E t \in Tags : DropDontcache(t) \/ Fail(t)

Spec == Init /\ [][Next]_vars

\* The kernel completes what it was given and woken tasks are polled: the
\* thread does not stop while some task or completion can move.  No failure
\* is assumed to happen.
FairSpec == Spec /\ WF_vars(Progress)
-----------------------------------------------------------------------------
(* Properties.                                                             *)

\* The window the phase machine reads is the stream: its bytes are exactly
\* the next ones the host sent.  It relates the ring's running offsets
\* (recv_off), kept by the reader from completions, to where the kernel
\* really put the bytes, and it fails if a buffer is handed back while the
\* reader still reads it.
WindowIsStream ==
  pc = "window" =>
    \A k \in 0 .. slice.len - 1 : cells[cur.bid][slice.off + k] = consumed + 1 + k

\* What the backend stored for a command is a prefix of what the host sent for
\* it, and nothing at all when a digest failed: a borrowed ring region is
\* never refilled under the write (kernel_provide's debug_assert), a payload
\* is reassembled at the right offsets across windows, buffers and PDUs, and
\* a short transfer resumes where it stopped.
SentByte(c, k) ==
  LET i == CHOOSE j \in DOMAIN script :
             /\ Carries(script[j]) /\ script[j].cmd = c
             /\ k \in script[j].off + 1 .. script[j].off + script[j].len
  IN  script[i].at + HdrLen + k - script[i].off
Corrupt(c) ==
  \E i \in DOMAIN script : script[i].dg = "bad" /\ script[i].cmd = c
StoredIsSent ==
  \A c \in Commands :
    /\ \A k \in DOMAIN stored[c] : stored[c][k] = SentByte(c, k)
    /\ Corrupt(c) => stored[c] = <<>>

\* Every command the host sends is answered and its tag released, whatever
\* the chunking, the ring's exhaustion, the pool's exhaustion and the short
\* transfers, unless the connection ends: parked readers, allocators and tag
\* waiters are all woken.
EveryCommandServed ==
  <>(\/ pc = "closed"
     \/ pc = "end" /\ FreeTags = Tags /\ answered = Commands)
=============================================================================
