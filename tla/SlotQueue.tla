----------------------------- MODULE SlotQueue -----------------------------
(***************************************************************************)
(* The task-per-tag slot engine of one queue: SlotArray and SendList       *)
(* (crates/ioutgt-core/src/slotq.rs) as the NVMe/TCP queue drives them     *)
(* (crates/ioutgt-nvme-tcp/src/queue.rs).                                  *)
(*                                                                         *)
(* The receive path claims a tag, fills the slot and submits it; one       *)
(* persistent task per tag executes the command and queues a completion;   *)
(* the send path takes the completion off the send list and releases the   *)
(* tag when the response is out.  Everything runs on one thread, so every  *)
(* operation below is atomic; what interleaves is the order in which the   *)
(* executor polls the tasks.                                               *)
(*                                                                         *)
(* A lower-case operator is the effect of one method on the state, without *)
(* the method's debug_assert.  The capitalised actions of Next are the     *)
(* protocol: they add the asserted states as guards.  A module composing   *)
(* the engine with its users (TcpConnection) applies the bare effects and  *)
(* is shown to stay within Next, so the asserts cannot fire.               *)
(***************************************************************************)
EXTENDS Naturals, Sequences, FiniteSets

CONSTANT NSlots     \* SlotArray.nslots: the maximum of concurrent commands

ASSUME NSlotsAssumption == NSlots \in Nat \ {0}

Tags == 0 .. NSlots - 1

SlotState == {"Free", "Receiving", "Ready", "Executing", "Responding"}

\* SendWork.  `data` is data_len > 0: the response carries read payload.
SendWork == [kind : {"Response", "R2t"}, tag : Tags, data : BOOLEAN]

Response(t, d) == [kind |-> "Response", tag |-> t, data |-> d]
R2t(t) == [kind |-> "R2t", tag |-> t, data |-> FALSE]

VARIABLES
  state,      \* Slot.state
  freeTags,   \* SlotArray.free_tags, a stack: claims pop the last element
  executing,  \* SlotArray.executing
  claimer,    \* the recv path: "run", or "parked" in await_tag (tag_waiter set)
  filling,    \* {t}: the recv path claimed t and has not routed its capsule yet
  task,       \* slot task: "parked" (Slot.waker set), "woken", or "dispatch"
  work,       \* SendList.work, the front first
  taken       \* tags of the responses the send path took and has not released

slotVars == <<state, freeTags, executing, claimer, filling, task, work, taken>>

SlotInit ==
  /\ state = [t \in Tags |-> "Free"]
  /\ freeTags = [i \in 1 .. NSlots |-> NSlots - i]  \* (0..nslots).rev()
  /\ executing = 0
  /\ claimer = "run"
  /\ filling = {}
  /\ task = [t \in Tags |-> "woken"]                \* spawned, not yet polled
  /\ work = << >>
  /\ taken = {}

top == freeTags[Len(freeTags)]

---------------------------------------------------------------------------
(* Effects of the methods.                                                 *)

\* claim_tag, and the poll of await_tag: pop a tag, or store the waker.
claim_tag ==
  /\ freeTags # << >>
  /\ freeTags' = SubSeq(freeTags, 1, Len(freeTags) - 1)
  /\ state' = [state EXCEPT ![top] = "Receiving"]
  /\ claimer' = "run"
  /\ filling' = {top}
  /\ UNCHANGED <<executing, task, work, taken>>

park_claimer ==
  /\ freeTags = << >>
  /\ claimer' = "parked"
  /\ UNCHANGED <<state, freeTags, executing, filling, task, work, taken>>

submit(t) ==
  /\ state' = [state EXCEPT ![t] = "Ready"]
  /\ task' = [task EXCEPT ![t] = "woken"]
  /\ filling' = filling \ {t}
  /\ UNCHANGED <<freeTags, executing, claimer, work, taken>>

\* One poll of await_command by tag t's task, which starts once the
\* slot is Ready.
await_command(t) ==
  /\ task[t] = "woken"
  /\ IF state[t] = "Ready"
       THEN /\ state' = [state EXCEPT ![t] = "Executing"]
            /\ executing' = executing + 1
            /\ task' = [task EXCEPT ![t] = "dispatch"]
       ELSE /\ task' = [task EXCEPT ![t] = "parked"]
            /\ UNCHANGED <<state, executing>>
  /\ UNCHANGED <<freeTags, claimer, filling, work, taken>>

\* NvmeTcpQueue::complete (begin_respond + push); the task loops straight
\* into await_command, finds the slot Responding and parks.
complete(t, d) ==
  /\ state' = [state EXCEPT ![t] = "Responding"]
  /\ executing' = executing - 1
  /\ task' = [task EXCEPT ![t] = "parked"]
  /\ work' = Append(work, Response(t, d))
  /\ UNCHANGED <<freeTags, claimer, filling, taken>>

\* complete_receiving (respond_receiving + push): fail without dispatching.
complete_receiving(t) ==
  /\ state' = [state EXCEPT ![t] = "Responding"]
  /\ work' = Append(work, Response(t, FALSE))
  /\ filling' = filling \ {t}
  /\ UNCHANGED <<freeTags, executing, claimer, task, taken>>

\* solicit: queue an R2T, the slot stays Receiving.
solicit(t) ==
  /\ work' = Append(work, R2t(t))
  /\ filling' = filling \ {t}
  /\ UNCHANGED <<state, freeTags, executing, claimer, task, taken>>

\* SendList::poll_next / try_next with work present.
take_work ==
  /\ work # << >>
  /\ work' = Tail(work)
  /\ taken' = IF Head(work).kind = "Response" THEN taken \cup {Head(work).tag}
                                               ELSE taken
  /\ UNCHANGED <<state, freeTags, executing, claimer, filling, task>>

\* release_tag: to the free list, and the tag waiter is woken.
put_back(t, waiter) ==
  /\ state' = [state EXCEPT ![t] = "Free"]
  /\ freeTags' = Append(freeTags, t)
  /\ taken' = taken \ {t}
  /\ claimer' = waiter
  /\ UNCHANGED <<executing, filling, task, work>>

\* Faulty variant: the waiter stays parked.
release_tag_no_wake(t) == put_back(t, claimer)

release_tag(t) == put_back(t, "run")

---------------------------------------------------------------------------
(* The protocol: who may call what, with the asserted slot states.         *)

\* await_tag as the receive path polls it.  The path is serial: it is through
\* with one capsule before it claims for the next.
ClaimTag == claimer = "run" /\ filling = {} /\ (claim_tag \/ park_claimer)

\* What the receive path may finish: the capsule in its hands, or, between
\* capsules, a solicited transfer.
Deliverable(t) ==
  claimer = "run" /\ state[t] = "Receiving" /\ filling \subseteq {t}

Submit(t) == Deliverable(t) /\ submit(t)

FailReceiving(t) == Deliverable(t) /\ complete_receiving(t)

\* One R2T per command, queued when its capsule is routed.
Solicit(t) == state[t] = "Receiving" /\ filling = {t} /\ solicit(t)

PollTask(t) == await_command(t)

Complete(t) ==
  task[t] = "dispatch" /\ state[t] = "Executing"
    /\ \E d \in BOOLEAN : complete(t, d)

\* The send path never waits for the receive path.  Faulty variant: it does.
TakeWorkUnlessParked == claimer = "run" /\ take_work

TakeWork == take_work

ReleaseTag(t) == t \in taken /\ state[t] = "Responding" /\ release_tag(t)

SlotNext ==
  \/ ClaimTag
  \/ TakeWork
  \/ \E t \in Tags : Submit(t) \/ FailReceiving(t) \/ Solicit(t)
                       \/ PollTask(t) \/ Complete(t) \/ ReleaseTag(t)

SlotSpec == SlotInit /\ [][SlotNext]_slotVars

\* The executor polls every woken task and the reactor delivers every
\* backend completion; the send path ships what is queued and releases what
\* is out.  Nothing forces the host to send, so the claims and submits of the
\* receive path are not fair.
SlotFairness ==
  /\ WF_slotVars(TakeWork)
  /\ \A t \in Tags : /\ WF_slotVars(PollTask(t))
                     /\ WF_slotVars(Complete(t))
                     /\ WF_slotVars(ReleaseTag(t))

FairSlotSpec == SlotSpec /\ SlotFairness

---------------------------------------------------------------------------
(* Properties.                                                             *)

SlotTypeOK ==
  /\ state \in [Tags -> SlotState]
  /\ freeTags \in Seq(Tags)
  /\ executing \in Nat
  /\ claimer \in {"run", "parked"}
  /\ filling \in SUBSET Tags
  /\ task \in [Tags -> {"parked", "woken", "dispatch"}]
  /\ work \in Seq(SendWork)
  /\ taken \in SUBSET Tags

IsResponse(i, t) == work[i].kind = "Response" /\ work[i].tag = t

\* The free list is exact: claim_tag can hand out neither a tag still in use
\* nor the same tag twice, and no released tag is forgotten.
FreeListExact ==
  /\ \A i, j \in DOMAIN freeTags : freeTags[i] = freeTags[j] => i = j
  /\ \A t \in Tags :
       state[t] = "Free" <=> \E i \in DOMAIN freeTags : freeTags[i] = t

\* SlotArray.executing, on which teardown's quiesce decides that queue memory
\* may be freed, counts exactly the slots a backend may be working on.
ExecutingCounted ==
  executing = Cardinality({t \in Tags : state[t] = "Executing"})

\* A command handed over by submit is never left behind with its task asleep:
\* the doorbell in Slot.waker is either rung or not needed.
NoLostDoorbell ==
  \A t \in Tags : /\ state[t] = "Ready" => task[t] = "woken"
                  /\ state[t] = "Executing" <=> task[t] = "dispatch"

\* The receive path sleeps in await_tag only while no tag is free: a release
\* between its failed claim and its park would have been seen.
NoLostTagWakeup == claimer = "parked" => freeTags = << >>

\* Every Responding slot has exactly one response somewhere between complete
\* and release_tag, and nothing else has: no response is sent twice, none is
\* lost, and no tag is released by a response that is not its own.
OneResponsePerTag ==
  /\ \A i \in DOMAIN work : work[i].kind = "Response" =>
       state[work[i].tag] = "Responding" /\ work[i].tag \notin taken
  /\ \A i, j \in DOMAIN work :
       (\E t \in Tags : IsResponse(i, t) /\ IsResponse(j, t)) => i = j
  /\ \A t \in taken : state[t] = "Responding"
  /\ \A t \in Tags : state[t] = "Responding" =>
       t \in taken \/ \E i \in DOMAIN work : IsResponse(i, t)

\* An R2T leaves before the response of the same command and never after its
\* tag was released: the host is never asked for data of a finished command.
SolicitBeforeResponse ==
  \A i \in DOMAIN work : work[i].kind = "R2t" =>
    /\ work[i].tag \notin taken
    /\ state[work[i].tag] # "Free"
    /\ \A j \in DOMAIN work : IsResponse(j, work[i].tag) => i < j

\* The safety of the slot engine as a whole: tags, teardown counter, doorbells
\* and responses stay consistent with each other.
SlotSafety ==
  /\ FreeListExact /\ ExecutingCounted
  /\ NoLostDoorbell /\ NoLostTagWakeup
  /\ OneResponsePerTag /\ SolicitBeforeResponse

\* Whatever was submitted gets its response out and its tag back.
SubmittedIsReleased ==
  \A t \in Tags : state[t] = "Ready" ~> state[t] = "Free"

\* A receive path parked for a tag is always woken: "release never depends on
\* the recv path" (slotq.rs, await_tag).  It needs a command past Receiving:
\* only the host can move a slot out of that state.
ParkedClaimerWakes ==
  (claimer = "parked" /\ \E t \in Tags : state[t] # "Receiving")
    ~> claimer = "run"
=============================================================================
