------------------------------ MODULE Reactor ------------------------------
(***************************************************************************)
(* The per-thread io_uring reactor: the slab of operations, the futures    *)
(* that own them, the submission and completion rings, the park hook and   *)
(* the drop-time drain (ioutgt-uring: reactor.rs, op.rs, ops.rs,           *)
(* runtime.rs).                                                            *)
(*                                                                         *)
(* One task awaits each operation.  The thread is in one place at a time   *)
(* (`pc`): running tasks, inside the flush of a full submission queue,     *)
(* reaping, blocked in io_uring_enter, on Tokio's condition variable, or   *)
(* ended.  The ring is created with DEFER_TASKRUN, so the kernel takes     *)
(* entries and posts completions only while the thread is inside a system  *)
(* call.                                                                   *)
(***************************************************************************)
EXTENDS Naturals, Sequences, FiniteSets

CONSTANTS
  Keys,        \* slab keys; the slab grows on demand, this bounds it
  Ops,         \* the operations submitted during a behaviour
  Kind,        \* op -> the ops.rs constructor that submits it
  SqEntries,   \* RingConfig::sq_entries
  MaxShots,    \* bound: CQEs of one multishot operation
  DrainRounds, \* 500 in Reactor::drop
  None         \* a vacant slab key

VARIABLES
  slab,       \* Reactor.slab: key -> OpEntry or None
  sq,         \* submission queue: operations and cancels, in order
  inflight,   \* requests the kernel holds: [key, id]
  cancelled,  \* operations an ASYNC_CANCEL found
  cq,         \* completion queue, in order
  posted,     \* op -> CQEs the kernel posted for it
  fut,        \* op -> "new" | "held" | "done" | "dropped" | "failed"
  mem,        \* op -> where its owned buffer is: "caller" | "entry" | "freed"
  ready,      \* operations whose task is scheduled
  delivered,  \* op -> CQEs its future returned
  pc,         \* where the thread is
  pushing,    \* push_sqe: the entry waiting for the flush, or None
  woken,      \* reap: a waker was woken in this pass
  dying,      \* QueueRuntime is being dropped
  rounds      \* Reactor::drop: rounds done

kernelVars == <<inflight, cancelled, cq, posted>>
taskVars == <<fut, mem, ready, delivered>>
loopVars == <<woken, dying, rounds>>
vars == <<slab, sq, kernelVars, taskVars, pc, pushing, loopVars>>

-----------------------------------------------------------------------------
(* What the constructors of ops.rs hand to submit_op.                      *)

\* Owned memory: the buffer, the two buffers of a SENDMSG, or the Timespec
\* moves into the slab entry; BufOp and SendVectored hand it back.
BufferKinds == {"read_at", "write_at", "recv", "send"}
MsgKinds == {"send_vectored"}
TimerKinds == {"sleep"}
\* One CQE and no memory of the caller's.
AcceptKinds == {"accept"}
PollKinds == {"poll_add"}
StorageKinds == {"fsync", "fallocate", "block_discard"}
\* One CQE, memory the caller keeps valid (slot buffers, iovecs).
RawRecvKinds == {"recv_raw", "recvmsg_raw"}
RawSendKinds == {"sendmsg_raw"}
RawFileKinds == {"read_at_raw", "write_at_raw"}
RawVectorKinds == {"readv_at_raw", "writev_at_raw"}
RawFixedKinds == {"readv_fixed_at_raw", "writev_fixed_at_raw"}
\* MultiOp: CQEs with F_MORE, then a terminal one.  A zero-copy send is one:
\* its result, then the notification.
AcceptStreams == {"accept_multi"}
PollStreams == {"poll_add_multi"}
RecvStreams == {"recv_multi"}
ZcSends == {"sendmsg_zc_raw", "send_zc_vec_fixed_raw"}

OwningKinds == BufferKinds \cup MsgKinds \cup TimerKinds
MultiKinds == AcceptStreams \cup PollStreams \cup RecvStreams \cup ZcSends
OpKinds ==
  OwningKinds \cup MultiKinds \cup AcceptKinds \cup PollKinds
    \cup StorageKinds \cup RawRecvKinds \cup RawSendKinds
    \cup RawFileKinds \cup RawVectorKinds \cup RawFixedKinds

Multi(o) == Kind[o] \in MultiKinds
Owns(o) == Kind[o] \in OwningKinds

\* OpEntry::new
NewEntry(o) ==
  [id |-> o, results |-> <<>>, waker |-> FALSE, terminated |-> FALSE,
   orphaned |-> FALSE]

OpEntry ==
  [id : Ops, results : Seq(Nat), waker : BOOLEAN, terminated : BOOLEAN,
   orphaned : BOOLEAN]

ASSUME ReactorConstants ==
  /\ Kind \in [Ops -> OpKinds]
  /\ SqEntries \in Nat \ {0}
  /\ MaxShots \in Nat \ {0}
  /\ DrainRounds \in Nat \ {0}
  /\ None \notin OpEntry

OpSqe(k, o) == [kind |-> "op", key |-> k, id |-> o]
CancelSqe(k) == [kind |-> "cancel", key |-> k]
IgnoreCqe == [kind |-> "ignore"]        \* user_data = IGNORE_USER_DATA

Init ==
  /\ slab = [k \in Keys |-> None]
  /\ sq = <<>>
  /\ inflight = {} /\ cancelled = {} /\ cq = <<>>
  /\ posted = [o \in Ops |-> 0]
  /\ fut = [o \in Ops |-> "new"]
  /\ mem = [o \in Ops |-> "caller"]
  /\ ready = {}
  /\ delivered = [o \in Ops |-> 0]
  /\ pc = "run"
  /\ pushing = None
  /\ woken = FALSE /\ dying = FALSE /\ rounds = 0

-----------------------------------------------------------------------------
(* Running tasks.                                                          *)

\* push_sqe: into the ring when there is room, else the thread enters the
\* kernel to flush and tries once more (FlushReturns).
pushSqe(sqe) ==
  IF Len(sq) < SqEntries
  THEN sq' = Append(sq, sqe) /\ UNCHANGED <<pc, pushing>>
  ELSE pc' = "flush" /\ pushing' = sqe /\ UNCHANGED sq

\* The entry and the resources it owns leave the slab.
dropEntry(k, where) ==
  /\ slab' = [slab EXCEPT ![k] = None]
  /\ mem' = [mem EXCEPT ![slab[k].id] = IF Owns(slab[k].id) THEN where ELSE @]

\* submit_op (Op::submit, MultiOp::submit): the entry is reserved first, its
\* key is the user_data of the request.  The awaiting task goes on to poll.
Submit(o, k) ==
  /\ pc = "run" /\ ~dying
  /\ fut[o] = "new" /\ slab[k] = None
  /\ slab' = [slab EXCEPT ![k] = NewEntry(o)]
  /\ mem' = [mem EXCEPT ![o] = IF Owns(o) THEN "entry" ELSE @]
  /\ fut' = [fut EXCEPT ![o] = "held"]
  /\ ready' = ready \cup {o}
  /\ pushSqe(OpSqe(k, o))
  /\ UNCHANGED <<kernelVars, delivered, loopVars>>

\* push_sqe after `ring.submit()`: an error, or a ring the kernel left full,
\* fails the push.  submit_op then takes the entry back out; orphan ignores
\* the failure.
FlushReturns(ok) ==
  /\ pc = "flush"
  /\ pc' = "run" /\ pushing' = None
  /\ IF ok /\ Len(sq) < SqEntries
     THEN sq' = Append(sq, pushing) /\ UNCHANGED <<slab, fut, mem, ready>>
     ELSE /\ UNCHANGED sq
          /\ IF pushing.kind = "op"
             THEN /\ dropEntry(pushing.key, "freed")
                  /\ fut' = [fut EXCEPT ![pushing.id] = "failed"]
                  /\ ready' = ready \ {pushing.id}
             ELSE UNCHANGED <<slab, fut, mem, ready>>
  /\ UNCHANGED <<kernelVars, delivered, loopVars>>

\* A poll that finds no result leaves its waker in the entry.
setWaker(o, k) ==
  /\ slab' = [slab EXCEPT ![k].waker = TRUE]
  /\ ready' = ready \ {o}
  /\ UNCHANGED <<fut, mem, delivered>>

\* Op::poll_single: the terminal result empties the entry and hands the
\* resources back.
PollSingle(o, k) ==
  /\ pc = "run" /\ o \in ready /\ fut[o] = "held" /\ ~Multi(o)
  /\ slab[k] # None /\ slab[k].id = o
  /\ IF slab[k].results = <<>>
     THEN setWaker(o, k)
     ELSE /\ dropEntry(k, "caller")
          /\ fut' = [fut EXCEPT ![o] = "done"]
          /\ delivered' = [delivered EXCEPT ![o] = Head(slab[k].results)]
          /\ ready' = ready \ {o}
  /\ UNCHANGED <<sq, kernelVars, pc, pushing, loopVars>>

\* MultiOp::poll_next: one result per poll; the entry leaves with the last.
\* (`Ready(None)` for an entry that terminated with no result queued is
\* never taken: ResultsInOrder.)
PollNext(o, k) ==
  /\ pc = "run" /\ o \in ready /\ fut[o] = "held" /\ Multi(o)
  /\ slab[k] # None /\ slab[k].id = o
  /\ IF slab[k].results = <<>>
     THEN setWaker(o, k)
     ELSE /\ delivered' = [delivered EXCEPT ![o] = Head(slab[k].results)]
          /\ IF slab[k].terminated /\ Len(slab[k].results) = 1
             THEN /\ dropEntry(k, "caller")
                  /\ fut' = [fut EXCEPT ![o] = "done"]
                  /\ ready' = ready \ {o}
             ELSE /\ slab' = [slab EXCEPT ![k].results = Tail(@)]
                  /\ UNCHANGED <<fut, mem, ready>>
  /\ UNCHANGED <<sq, kernelVars, pc, pushing, loopVars>>

\* Faulty variants of Orphan: the entry is freed at once; a future that is
\* done sends a cancel too, for the key it had.
OrphanFrees(o, k) ==
  /\ pc = "run"
  /\ fut[o] = "held" /\ slab[k] # None /\ slab[k].id = o
  /\ fut' = [fut EXCEPT ![o] = "dropped"]
  /\ ready' = ready \ {o}
  /\ dropEntry(k, "freed")
  /\ pushSqe(CancelSqe(k))
  /\ UNCHANGED <<kernelVars, delivered, loopVars>>
OrphanWhenDone(o, k) ==
  /\ pc = "run" /\ slab[k] # None
  /\ fut[o] = "done" \/ (fut[o] = "held" /\ slab[k].id = o)
  /\ fut' = [fut EXCEPT ![o] = "dropped"]
  /\ ready' = ready \ {o}
  /\ slab' = IF fut[o] = "done" THEN slab
             ELSE [slab EXCEPT ![k].orphaned = TRUE, ![k].waker = FALSE]
  /\ pushSqe(CancelSqe(k))
  /\ UNCHANGED <<kernelVars, mem, delivered, loopVars>>
\* Drop of Op and MultiOp before completion, Reactor::orphan: a terminated
\* entry goes at once, any other stays for the kernel and a cancel is queued.
Orphan(o, k) ==
  /\ pc = "run"
  /\ fut[o] = "held" /\ slab[k] # None /\ slab[k].id = o
  /\ fut' = [fut EXCEPT ![o] = "dropped"]
  /\ ready' = ready \ {o}
  /\ IF slab[k].terminated
     THEN dropEntry(k, "freed") /\ UNCHANGED <<sq, pc, pushing>>
     ELSE /\ slab' = [slab EXCEPT ![k].orphaned = TRUE, ![k].waker = FALSE]
          /\ pushSqe(CancelSqe(k))
          /\ UNCHANGED mem
  /\ UNCHANGED <<kernelVars, delivered, loopVars>>

-----------------------------------------------------------------------------
(* Parking.                                                                *)

\* on_thread_park: no task is runnable.  park begins with a reap.
Park ==
  /\ pc = "run" /\ ready = {} /\ ~dying
  /\ pc' = "reap" /\ woken' = FALSE
  /\ UNCHANGED <<slab, sq, kernelVars, taskVars, pushing, dying, rounds>>

\* Faulty variants of route: a result replaces the one queued; an orphan's
\* entry is left behind.
routeOverwrites(cqe) ==
  LET k == cqe.key
      e == slab[k]
  IN /\ slab' = [slab EXCEPT ![k] = [e EXCEPT !.results = <<cqe.n>>,
                                              !.terminated = ~cqe.more,
                                              !.waker = FALSE]]
     /\ woken' = (woken \/ e.waker)
     /\ ready' = IF e.waker THEN ready \cup {e.id} ELSE ready
     /\ UNCHANGED mem
routeKeepsOrphan(cqe) ==
  LET k == cqe.key
      e == slab[k]
  IN /\ slab' = [slab EXCEPT ![k] = [e EXCEPT !.results = Append(@, cqe.n),
                                              !.terminated = ~cqe.more,
                                              !.waker = FALSE]]
     /\ woken' = (woken \/ e.waker)
     /\ ready' = IF e.waker THEN ready \cup {e.id} ELSE ready
     /\ UNCHANGED mem
\* The body of reap's loop.  A CQE for a vacant key is a debug assertion and
\* otherwise ignored; an orphan's result is discarded, and its entry with the
\* terminal one.
route(cqe) ==
  LET k == cqe.key
      e == slab[k]
  IN IF e = None \/ (e.orphaned /\ cqe.more)
     THEN UNCHANGED <<slab, mem, ready, woken>>
     ELSE IF e.orphaned
     THEN dropEntry(k, "freed") /\ UNCHANGED <<ready, woken>>
     ELSE /\ slab' = [slab EXCEPT ![k] =
                [e EXCEPT !.results = Append(@, cqe.n),
                          !.terminated = ~cqe.more,
                          !.waker = FALSE]]
          /\ woken' = (woken \/ e.waker)
          /\ ready' = IF e.waker THEN ready \cup {e.id} ELSE ready
          /\ UNCHANGED mem

\* reap, one CQE.
ReapCqe ==
  /\ pc = "reap" /\ cq # <<>>
  /\ cq' = Tail(cq)
  /\ IF cq[1].kind = "ignore"
     THEN UNCHANGED <<slab, mem, ready, woken>>
     ELSE route(cq[1])
  /\ UNCHANGED <<sq, inflight, cancelled, posted, fut, delivered, pc, pushing,
                 dying, rounds>>

\* Faulty variant: the hook sleeps again after a reap that woke a task.
ReapEndSleeps ==
  /\ pc = "reap" /\ cq = <<>> /\ ~dying
  /\ pc' = IF \A k \in Keys : slab[k] = None THEN "condvar" ELSE "enter"
  /\ UNCHANGED <<slab, sq, kernelVars, taskVars, pushing, loopVars>>
\* park, after a reap: back to the scheduler if a waker was woken, out of the
\* hook if nothing is in flight, else wait in the kernel and reap again.
ReapEnd ==
  /\ pc = "reap" /\ cq = <<>> /\ ~dying
  /\ pc' = CASE woken -> "run"
             [] ~woken /\ (\A k \in Keys : slab[k] = None) -> "condvar"
             [] OTHER -> "enter"
  /\ UNCHANGED <<slab, sq, kernelVars, taskVars, pushing, loopVars>>

\* submit_with_args returns: a completion, the 1 s timespec, EINTR, EBUSY or
\* EAGAIN; all of them lead to the reap.
EnterReturns ==
  /\ pc = "enter"
  /\ pc' = "reap" /\ woken' = FALSE
  /\ UNCHANGED <<slab, sq, kernelVars, taskVars, pushing, dying, rounds>>

-----------------------------------------------------------------------------
(* The kernel (external).                                                  *)

InKernel == pc \in {"flush", "enter"}

\* Entries are taken in order.  A cancel looks its key up among the requests
\* in flight.
KernelTake ==
  /\ InKernel /\ sq # <<>>
  /\ sq' = Tail(sq)
  /\ IF sq[1].kind = "op"
     THEN /\ inflight' = inflight \cup {[key |-> sq[1].key, id |-> sq[1].id]}
          /\ UNCHANGED <<cancelled, cq>>
     ELSE /\ cancelled' = cancelled
               \cup {r.id : r \in {i \in inflight : i.key = sq[1].key}}
          /\ cq' = Append(cq, IgnoreCqe)
          /\ UNCHANGED inflight
  /\ UNCHANGED <<slab, posted, taskVars, pc, pushing, loopVars>>

KernelPost(r, more) ==
  /\ InKernel /\ r \in inflight
  /\ more => Multi(r.id) /\ r.id \notin cancelled /\ posted[r.id] + 1 < MaxShots
  /\ posted' = [posted EXCEPT ![r.id] = @ + 1]
  /\ cq' = Append(cq, [kind |-> "op", key |-> r.key, id |-> r.id,
                       n |-> posted[r.id] + 1, more |-> more])
  /\ inflight' = IF more THEN inflight ELSE inflight \ {r}
  /\ UNCHANGED <<slab, sq, cancelled, taskVars, pc, pushing, loopVars>>

-----------------------------------------------------------------------------
(* Dropping the runtime.                                                   *)

\* QueueRuntime's fields drop in order: the Tokio runtime cancels every task
\* (Orphan), then the reactor drains.
RuntimeDrop ==
  /\ pc = "run" /\ ~dying
  /\ dying' = TRUE /\ ready' = {}
  /\ UNCHANGED <<slab, sq, kernelVars, fut, mem, delivered, pc, pushing, woken,
                 rounds>>

\* Reactor::drop, the head of a round: done when the slab is empty, leak when
\* the rounds are used up, else wait for a completion.
DrainRound ==
  /\ dying /\ \A o \in Ops : fut[o] # "held"
  /\ \/ pc = "run"
     \/ pc = "reap" /\ cq = <<>>
  /\ IF \A k \in Keys : slab[k] = None
     THEN pc' = "gone" /\ UNCHANGED rounds
     ELSE IF rounds = DrainRounds
          THEN pc' = "leaked" /\ UNCHANGED rounds
          ELSE pc' = "enter" /\ rounds' = rounds + 1
  /\ UNCHANGED <<slab, sq, kernelVars, taskVars, pushing, woken, dying>>

-----------------------------------------------------------------------------
Scheduler ==
  \/ \E o \in Ops, k \in Keys : PollSingle(o, k) \/ PollNext(o, k)
  \/ \E ok \in BOOLEAN : FlushReturns(ok)
  \/ Park \/ ReapCqe \/ ReapEnd \/ EnterReturns \/ DrainRound

Next ==
  \/ \E o \in Ops, k \in Keys : Submit(o, k) \/ Orphan(o, k)
  \/ RuntimeDrop
  \/ Scheduler
  \/ KernelTake
  \/ \E r \in inflight, more \in BOOLEAN : KernelPost(r, more)

Spec == Init /\ [][Next]_vars

\* The thread runs when it can, dropping the runtime drops every future, and
\* the kernel takes what a blocked thread submitted and ends what was
\* cancelled.
FairSpec ==
  /\ Spec
  /\ WF_vars(Scheduler)
  /\ WF_vars(dying /\ \E o \in Ops, k \in Keys : Orphan(o, k))
  /\ SF_vars(KernelTake)
  /\ SF_vars(\E r \in inflight : r.id \in cancelled /\ KernelPost(r, FALSE))
-----------------------------------------------------------------------------
(* Properties.                                                             *)

Submitted(o) == \E i \in 1..Len(sq) : sq[i].kind = "op" /\ sq[i].id = o
InFlight(o) == \E r \in inflight : r.id = o

\* A buffer moved into an operation stays in its slab entry for as long as a
\* request pointing at it is queued or in the kernel, whatever happens to the
\* future, through key reuse and through the drop of the reactor
\* (op.rs:15-17, reactor.rs:88-90).
KernelMemoryHeld ==
  \A o \in Ops : Owns(o) /\ (Submitted(o) \/ InFlight(o)) => mem[o] = "entry"

\* A queued ASYNC_CANCEL names a slab key, and the key may be reused before
\* the kernel takes it: the cancel never ends an operation whose future is
\* still held (Reactor::orphan).
CancelHitsOrphan == \A o \in cancelled : fut[o] = "dropped"

CqeOf(i, o) == cq[i].kind = "op" /\ cq[i].id = o

\* The results queued for operation o: in its entry, under k, and after them
\* those still in the completion ring.
InOrder(k, o) ==
  LET results == slab[k].results
      reaped == delivered[o] + Len(results)
  IN /\ \A j \in 1..Len(results) : results[j] = delivered[o] + j
     /\ reaped <= posted[o]
     /\ \A n \in reaped + 1 .. posted[o] : \E i \in 1..Len(cq) : CqeOf(i, o) /\ cq[i].n = n
     /\ \A i \in 1..Len(cq) : CqeOf(i, o) =>
          /\ cq[i].key = k /\ cq[i].n \in reaped + 1 .. posted[o]
          /\ \A j \in i + 1 .. Len(cq) : CqeOf(j, o) => cq[i].n < cq[j].n

\* What the kernel posted for an operation and its future has not returned is
\* queued, in order, first in its entry and then in the completion ring: none
\* lost, none twice, none of another operation's; and an entry never terminates
\* empty, which SendZcOp::sent relies on (reap, push_result, poll_next).
ResultsInOrder ==
  \A k \in Keys : slab[k] # None /\ ~slab[k].orphaned =>
    /\ InOrder(k, slab[k].id)
    /\ slab[k].terminated => slab[k].results # <<>>

\* When the thread blocks, in the ring or on Tokio's condition variable, every
\* held operation has a waker in a slab entry and no result waiting: the
\* comment on Reactor::park says "Every live op has registered a waker".  The
\* condition variable, which no CQE can wake, is only reached with none held.
NoLostWakeup ==
  pc \in {"enter", "condvar"} =>
    \A o \in Ops : fut[o] = "held" =>
      /\ pc = "enter"
      /\ \E k \in Keys : /\ slab[k] # None /\ slab[k].id = o
                         /\ slab[k].waker /\ slab[k].results = <<>>

\* Once a cancel found the operation of a dropped future, its entry and the
\* memory it owns are reclaimed (reap), unless the reactor itself is dropped
\* and leaks what its rounds did not reach.
OrphanReclaimed ==
  \A o \in Ops :
    o \in cancelled ~> (\A k \in Keys : slab[k] # None => slab[k].id # o)
                        \/ pc = "leaked"
=============================================================================
