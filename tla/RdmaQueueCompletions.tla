----------------------- MODULE RdmaQueueCompletions ------------------------
(***************************************************************************)
(* The steps of process_cqes keep the invariant of an RDMA queue: a        *)
(* completion is taken off the list and its command moves on, deferred     *)
(* commands are retried, and the READs that were queued are posted.  So do *)
(* those of the bootstrap.                                                 *)
(***************************************************************************)
EXTENDS RdmaQueueInvariant

-----------------------------------------------------------------------------
(* process_cqes takes one completion off its list.                         *)

\* What is left when the head of the list is taken off.
LEMMA Popped ==
  ASSUME RdmaInv, Processing, comps' = Tail(comps),
         UNCHANGED <<chain, sq, unacked, cq, staged, buf>>
  PROVE  /\ comps' \in Seq(WorkRequests) /\ Head(comps) \in WorkRequests
         /\ Head(comps) \in Done /\ Head(comps) \in Wrs /\ Head(comps) \notin ToDo
         /\ Owned(Head(comps))
         /\ ToDo' = ToDo /\ Done' = Done \ {Head(comps)} /\ Wrs' = Wrs \ {Head(comps)}
         /\ Recvs' = Recvs \ {Head(comps)} /\ LinesOK'
         /\ \A u : Quiet(u) => Quiet(u)'
  <1> DEFINE w == Head(comps)
  <1>1. phase = "steady" /\ comps # << >> /\ w.ok
    BY Zenon DEF Processing, Looping
  <1>2. RdmaTypeOK /\ LinesOK /\ ServingOK
    BY <1>1, Zenon DEF RdmaInv
  <1>3. comps \in Seq(WorkRequests) /\ Distinct(comps) /\ LinesApart
    BY <1>2, Zenon DEF RdmaTypeOK, LinesOK
  <1> HIDE DEF w
  <1>4. /\ comps' \in Seq(WorkRequests) /\ w \in WorkRequests /\ Distinct(comps')
        /\ w \in Okay(comps) /\ Okay(comps') = Okay(comps) \ {w}
    BY <1>1, <1>3, OkayTail, Zenon DEF w
  <1>5. /\ w \notin Okay(chain) /\ w \notin Okay(sq) /\ w \notin Okay(unacked)
        /\ w \notin Okay(cq) /\ w \notin Okay(staged)
    BY <1>3, <1>4, Zenon DEF LinesApart
  <1>6. w \in Done /\ w \in Wrs /\ w \notin ToDo
    BY <1>4, <1>5, Zenon DEF Done, Wrs, ToDo
  <1>7. ToDo' = ToDo
    BY Zenon DEF ToDo
  <1>8. Done' = Done \ {w}
    BY <1>4, <1>5, Zenon DEF Done
  <1>9. Wrs' = Wrs \ {w}
    BY <1>6, <1>7, <1>8, Zenon DEF Wrs
  <1>10. Recvs' = Recvs \ {w}
    BY <1>9, Zenon DEF Recvs
  <1>11. LinesApart'
    BY <1>3, <1>4, Zenon DEF LinesApart
  <1>12. LinesOK'
    BY <1>2, <1>4, <1>10, <1>11, Zenon DEF LinesOK, RecvWr
  <1>13. \A u : Quiet(u) => Quiet(u)'
    BY <1>9, Zenon DEF Quiet
  <1>14. Owned(w)
    BY <1>2, <1>6, Zenon DEF ServingOK, WrsOwned
  <1> QED BY <1>4, <1>6, <1>7, <1>8, <1>9, <1>10, <1>12, <1>13, <1>14, Zenon DEF w

\* The payload of a keyed write is in its lease, and the write may dispatch.
LEMMA OnReadInv ==
  ASSUME RdmaInv, OnRead
  PROVE  RdmaInv'
  <1> DEFINE w == Head(comps)
             t == Head(comps).low
  <1>1. /\ phase' = phase /\ UNCHANGED <<script, depth, sent, answered, buf>>
        /\ UNCHANGED <<task, cmd, data, pages, freeTags, inflight, resp>>
        /\ UNCHANGED <<responses, batch, parked, poolWait, readBatch>>
        /\ UNCHANGED <<chain, sq, unacked, cq, staged, rq, qpUp>>
        /\ UNCHANGED <<pc, thread, armed, ring, lost>>
        /\ Processing /\ w.kind = "Read" /\ phase = "steady" /\ pc = "comps"
        /\ comps' = Tail(comps) /\ state' = [state EXCEPT ![t] = "Ready"]
    BY Zenon DEF OnRead, Processing, Looping, host, nic, lists, wakeups
  <1>2. /\ RdmaTypeOK /\ SlotsOK /\ SleepOK /\ DepthOK
        /\ LinesOK /\ BuffersOK /\ RingFull /\ HandOK /\ ServingOK
    BY <1>1, Zenon DEF RdmaInv
  <1>3. /\ comps' \in Seq(WorkRequests) /\ w \in Done /\ w \in Wrs
        /\ Owned(w) /\ ToDo' = ToDo /\ Done' = Done \ {w} /\ Wrs' = Wrs \ {w}
        /\ Recvs' = Recvs \ {w} /\ LinesOK'
        /\ \A u : Quiet(u) => Quiet(u)'
    BY <1>1, Popped, Zenon
  <1> HIDE DEF w, t
  <1>4. t = w.low
    BY Zenon DEF t, w
  <1>5. t \in Tags /\ w = ReadWr(t) /\ state[t] = "Receiving"
    BY <1>1, <1>3, <1>4, Zenon DEF Owned
  <1>6. data[t] = cmd[t]
    <2>1. w.cmd = cmd[t]
      BY <1>5, Zenon DEF ReadWr, DataWr, WrId
    <2> QED BY <1>1, <1>2, <1>3, <1>4, <2>1, Zenon DEF ServingOK, ReadsFilled
  <1>7. /\ state' \in [Tags -> {"Free", "Receiving", "Ready", "Executing", "Responding"}]
        /\ state'[t] = "Ready" /\ \A u \in Tags \ {t} : state'[u] = state[u]
    BY <1>1, <1>2, <1>5, Zenon DEF RdmaTypeOK
  <1>8. RdmaTypeOK'
    BY <1>1, <1>2, <1>3, <1>7, Zenon DEF RdmaTypeOK
  <1>9. \A u \in Tags : Active(u)' <=> Active(u)
    <2>1. Active(t) /\ state'[t] # "Free"
      BY <1>5, <1>7, Zenon DEF Active
    <2> QED BY <1>7, <2>1, Zenon DEF Active
  <1>10. SlotsOK'
    <2>1. \A u \in Range(freeTags) : u \in Tags \ {t}
      <3>1. t \notin Range(freeTags)
        BY <1>2, <1>5, Zenon DEF SlotsOK
      <3> QED BY <1>2, <3>1, ListsTyped, Zenon
    <2>2. \A u \in Tags : task[u] # "idle" => u # t
      BY <1>2, <1>5, Zenon DEF SlotsOK
    <2>3. \A u \in Tags : state'[u] \in {"Ready", "Executing"} => u = t \/ state[u] \in {"Ready", "Executing"}
      BY <1>7, Zenon
    <2> QED BY <1>1, <1>2, <1>6, <1>7, <1>9, <2>1, <2>2, <2>3, Zenon DEF SlotsOK, Kind
  <1>11. DepthOK' /\ SleepOK' /\ HandOK'
    BY <1>1, <1>2, SleepKept, Zenon DEF DepthOK, Conforming, HandOK
  <1>12. \A i : Held(i)' <=> Held(i)
    <2>1. w \notin Recvs
      BY <1>1, Zenon DEF Recvs
    <2>2. Recvs' = Recvs
      BY <1>3, <2>1, Zenon
    <2> QED BY <1>1, <2>2, Zenon DEF Held, HeldArriving, HeldParked, HeldWaiting, Inline, Kind
  <1>13. BuffersOK' /\ RingFull'
    BY <1>1, <1>2, <1>12, Zenon DEF BuffersOK, RingFull, Inline, Kind
  <1>14. \A v \in Wrs' : v \in Wrs /\ (v.kind # "Recv" => v.low \in Tags \ {t})
    <2> SUFFICES ASSUME NEW v \in Wrs, v # w, v.kind # "Recv" PROVE v.low \in Tags \ {t}
      BY <1>3, Zenon
    <2>1. Owned(v) /\ v.kind \in {"Read", "Write", "Send"}
      BY <1>2, WrsTyped, Zenon DEF ServingOK, WrsOwned
    <2>2. v.kind = "Read" => v.low \in Tags /\ v = ReadWr(v.low)
      BY <2>1, Zenon DEF Owned
    <2>3. v.kind # "Read" => v.low \in Tags /\ state[v.low] = "Responding"
      BY <2>1, Zenon DEF Owned
    <2> QED BY <1>5, <2>2, <2>3, Zenon
  <1>15. WrsOwned'
    <2>1. \A v \in Wrs' : v.kind # "Recv" => state'[v.low] = state[v.low]
      BY <1>7, <1>14, Zenon
    <2> QED BY <1>1, <1>2, <1>14, <2>1, Zenon DEF ServingOK, WrsOwned, Owned, ReadWr, SendWr,
               WriteWr, DataWr, WrId
  <1>16. ReadsFilled' /\ SendFollows(chain)' /\ SendFollows(sq)'
    BY <1>1, <1>2, <1>3, Zenon DEF ServingOK, ReadsFilled
  <1>17. \A u : Quiet(u) => u # t
    <2>1. w.kind # "Recv"
      BY <1>1, Zenon
    <2> QED BY <1>3, <1>4, <2>1, Zenon DEF Quiet
  <1>18. DeferredOK'
    <2>1. \A u \in TagsOf(poolWait) \cup Range(readBatch) :
            state'[u] = "Receiving" /\ Quiet(u)'
      BY <1>2, <1>3, <1>7, <1>17, ListsTyped, Zenon DEF ServingOK, DeferredOK
    <2> QED BY <1>1, <1>2, <2>1, Zenon DEF ServingOK, DeferredOK, TagsOf
  <1>19. ResponsesOK'
    <2>1. \A r \in Range(responses) \cup Range(batch) : Answering(r)'
      BY <1>1, <1>2, <1>3, <1>7, <1>17, ListsTyped, Zenon DEF ServingOK, ResponsesOK, Answering
    <2> QED BY <1>1, <1>2, <2>1, Zenon DEF ServingOK, ResponsesOK, TagsOf
  <1>20. CommandsOK'
    BY <1>1, <1>2, <1>3, <1>9, Zenon DEF ServingOK, CommandsOK, CmdsOf
  <1>21. AnsweredOK'
    <2>1. \A u \in Tags : state'[u] \in {"Receiving", "Ready", "Executing"} =>
            state[u] \in {"Receiving", "Ready", "Executing"}
      BY <1>5, <1>7, Zenon
    <2> QED BY <1>1, <1>2, <1>3, <2>1, Zenon DEF ServingOK, AnsweredOK, CmdsOf
  <1>22. ServingOK'
    BY <1>15, <1>16, <1>18, <1>19, <1>20, <1>21, Zenon DEF ServingOK
  <1>23. phase' = "steady"
    BY <1>1, Zenon
  <1> QED BY <1>3, <1>8, <1>10, <1>11, <1>13, <1>22, <1>23, Zenon DEF RdmaInv

\* on_response_done: the last completion of a tag's response frees the tag, and
\* by then no work request of the tag is left.
LEMMA OnResponseDoneInv ==
  ASSUME RdmaInv, OnResponseDone
  PROVE  RdmaInv'
  <1> DEFINE w == Head(comps)
             t == Head(comps).low
             left == IF inflight[t] = 0 THEN 0 ELSE inflight[t] - 1
             woken == [u \in Tags |-> IF task[u] = "wait" /\ pages[t] > 0
                                        THEN "lease" ELSE task[u]]
  <1>1. /\ phase' = phase /\ UNCHANGED <<script, depth, sent, answered, buf>>
        /\ UNCHANGED <<cmd, data, resp>>
        /\ UNCHANGED <<responses, batch, parked, poolWait, readBatch>>
        /\ UNCHANGED <<chain, sq, unacked, cq, staged, rq, qpUp>>
        /\ UNCHANGED <<pc, thread, armed, ring, lost>>
        /\ Processing /\ w.kind \in {"Send", "Write"} /\ phase = "steady" /\ pc = "comps"
        /\ comps' = Tail(comps) /\ inflight' = [inflight EXCEPT ![t] = left]
        /\ \/ /\ inflight[t] <= 1 /\ state' = [state EXCEPT ![t] = "Free"]
              /\ freeTags' = <<t>> \o freeTags /\ pages' = [pages EXCEPT ![t] = 0]
              /\ task' = woken
           \/ ~(inflight[t] <= 1) /\ UNCHANGED <<state, freeTags, pages, task>>
    BY Zenon DEF OnResponseDone, Processing, Looping, lastResponse, host, nic, lists, wakeups
  <1>2. /\ RdmaTypeOK /\ SlotsOK /\ SleepOK /\ DepthOK
        /\ LinesOK /\ BuffersOK /\ RingFull /\ HandOK /\ ServingOK
    BY <1>1, Zenon DEF RdmaInv
  <1>3. /\ comps' \in Seq(WorkRequests) /\ w \in Done /\ w \in Wrs
        /\ Owned(w) /\ ToDo' = ToDo /\ Done' = Done \ {w} /\ Wrs' = Wrs \ {w}
        /\ Recvs' = Recvs \ {w} /\ LinesOK'
        /\ \A u : Quiet(u) => Quiet(u)'
    BY <1>1, Popped, Zenon
  <1> HIDE DEF w, t, left, woken
  <1>4. t = w.low
    BY Zenon DEF t, w
  <1>5. /\ t \in Tags /\ state[t] = "Responding" /\ inflight[t] > 0
        /\ w.kind = "Send" => w = SendWr(t)
        /\ w.kind = "Write" => w = WriteWr(t)
    BY <1>1, <1>3, <1>4, Zenon DEF Owned
  <1>6. /\ inflight \in [Tags -> Nat] /\ pages \in [Tags -> Nat] /\ freeTags \in Seq(Tags)
        /\ state \in [Tags -> {"Free", "Receiving", "Ready", "Executing", "Responding"}]
        /\ task \in [Tags -> {"idle", "lease", "wait", "backend", "cqe", "finish"}]
    BY <1>2, Zenon DEF RdmaTypeOK
  <1>7. left \in Nat /\ left = inflight[t] - 1 /\ (~(inflight[t] <= 1) => left > 0)
    BY <1>5, <1>6 DEF left
  <1>8. /\ inflight' \in [Tags -> Nat] /\ inflight'[t] = left
        /\ \A u \in Tags \ {t} : inflight'[u] = inflight[u]
    BY <1>1, <1>5, <1>6, <1>7, Zenon
  <1>9. /\ pages' \in [Tags -> Nat]
        /\ state' \in [Tags -> {"Free", "Receiving", "Ready", "Executing", "Responding"}]
        /\ \A u \in Tags \ {t} : state'[u] = state[u] /\ pages'[u] = pages[u]
        /\ inflight[t] <= 1 => state'[t] = "Free"
        /\ ~(inflight[t] <= 1) => state'[t] = state[t] /\ pages'[t] = pages[t]
    <2>1. /\ pages \in [Tags -> Nat]
          /\ state \in [Tags -> {"Free", "Receiving", "Ready", "Executing", "Responding"}]
      BY <1>6, Zenon
    <2>2. CASE inflight[t] <= 1
      <3>1. state' = [state EXCEPT ![t] = "Free"] /\ pages' = [pages EXCEPT ![t] = 0]
        BY <1>1, <2>2, Zenon
      <3> QED BY <1>5, <2>1, <2>2, <3>1, Zenon
    <2>3. CASE ~(inflight[t] <= 1)
      <3>1. state' = state /\ pages' = pages
        BY <1>1, <2>3, Zenon
      <3> QED BY <2>1, <2>3, <3>1, Zenon
    <2> QED BY <2>2, <2>3, Zenon
  <1>10. /\ task' \in [Tags -> {"idle", "lease", "wait", "backend", "cqe", "finish"}]
         /\ \A u \in Tags : (task[u] = "idle" => task'[u] = "idle")
                              /\ (task'[u] \in {"cqe", "finish"} => task'[u] = task[u])
    <2>1. task' = task \/ task' = woken
      BY <1>1, Zenon
    <2>2. task \in [Tags -> {"idle", "lease", "wait", "backend", "cqe", "finish"}]
      BY <1>6, Zenon
    <2> QED BY <2>1, <2>2, Zenon DEF woken
  <1>11. t \notin Range(freeTags) /\ \A u \in Range(freeTags) : u \in Tags \ {t}
    <2>1. t \notin Range(freeTags)
      BY <1>2, <1>5, Zenon DEF SlotsOK
    <2> QED BY <1>2, <2>1, ListsTyped, Zenon
  <1>12. /\ freeTags' \in Seq(Tags) /\ IsInjective(freeTags')
         /\ \A u \in Range(freeTags') : state'[u] = "Free"
    <2>1. CASE freeTags' = freeTags /\ state' = state
      BY <1>2, <1>6, <2>1, Zenon DEF SlotsOK
    <2>2. CASE inflight[t] <= 1 /\ freeTags' = <<t>> \o freeTags
      <3>1. freeTags \in Seq(Tags) /\ IsInjective(freeTags)
        BY <1>2, <1>6, Zenon DEF SlotsOK
      <3>2. /\ freeTags' \in Seq(Tags) /\ IsInjective(freeTags')
            /\ Range(freeTags') = {t} \cup Range(freeTags)
        BY <1>5, <1>11, <2>2, <3>1, PushFront, Zenon
      <3> QED BY <1>2, <1>9, <1>11, <2>2, <3>2, Zenon DEF SlotsOK
    <2> QED BY <1>1, <2>1, <2>2, Zenon
  <1>13. RdmaTypeOK'
    BY <1>1, <1>2, <1>3, <1>8, <1>9, <1>10, <1>12, Zenon DEF RdmaTypeOK
  <1>14. \A u \in Tags : /\ state'[u] # "Free" => state'[u] = state[u]
                         /\ (Active(u)' => Active(u))
    BY <1>9, Zenon DEF Active
  <1>15. SlotsOK'
    <2>1. \A u \in Tags : task[u] # "idle" => u # t
      BY <1>2, <1>5, Zenon DEF SlotsOK
    <2>2. \A u \in Tags : task'[u] # "idle" => state'[u] = "Executing"
      BY <1>2, <1>9, <1>10, <2>1, Zenon DEF SlotsOK
    <2>3. \A u \in Tags : state'[u] \in {"Ready", "Executing"} => state[u] = state'[u]
      BY <1>14, Zenon
    <2> QED BY <1>1, <1>2, <1>10, <1>12, <1>14, <2>2, <2>3, Zenon DEF SlotsOK, Kind
  <1>16. DepthOK' /\ SleepOK' /\ HandOK'
    BY <1>1, <1>2, SleepKept, Zenon DEF DepthOK, Conforming, HandOK
  <1>17. \A i : Held(i)' <=> Held(i)
    <2>1. w \notin Recvs
      BY <1>1, Zenon DEF Recvs
    <2>2. Recvs' = Recvs
      BY <1>3, <2>1, Zenon
    <2> QED BY <1>1, <2>2, Zenon DEF Held, HeldArriving, HeldParked, HeldWaiting, Inline, Kind
  <1>18. BuffersOK' /\ RingFull'
    BY <1>1, <1>2, <1>17, Zenon DEF BuffersOK, RingFull, Inline, Kind
  \* What is left of the tag's response is of the other kind.
  <1>19. ASSUME NEW v \in Wrs', v.kind # "Recv"
         PROVE  /\ v \in Wrs /\ v # w /\ v.low \in Tags /\ Owned(v)
                /\ v.kind \in {"Read", "Write", "Send"}
                /\ v.low = t => v.kind # "Read" /\ v.kind # w.kind /\ ~(inflight[t] <= 1)
    <2>1. v \in Wrs /\ v # w /\ Owned(v) /\ v.kind \in {"Read", "Write", "Send"}
      BY <1>2, <1>3, <1>19, WrsTyped, Zenon DEF ServingOK, WrsOwned
    <2>2. v.low \in Tags
      BY <2>1, Zenon DEF Owned
    <2>3. ASSUME v.low = t PROVE v.kind # "Read" /\ v.kind # w.kind
      <3>1. v.kind # "Read"
        BY <1>5, <2>1, <2>3, Zenon DEF Owned
      <3>2. (v.kind = "Send" => v = SendWr(t)) /\ (v.kind = "Write" => v = WriteWr(t))
        BY <2>1, <2>3, Zenon DEF Owned
      <3> QED BY <1>1, <1>5, <2>1, <3>1, <3>2, Zenon
    <2>4. ASSUME v.low = t PROVE inflight[t] > 1
      <3>1. \/ v.kind = "Send" /\ w.kind = "Write"
            \/ v.kind = "Write" /\ w.kind = "Send"
        BY <1>1, <2>1, <2>3, <2>4, Zenon
      <3> QED BY <1>2, <1>3, <1>4, <2>1, <2>4, <3>1, Zenon DEF ServingOK, WrsOwned
    <2>5. inflight[t] > 1 => ~(inflight[t] <= 1)
      BY <1>5, <1>6
    <2> QED BY <2>1, <2>2, <2>3, <2>4, <2>5, Zenon
  <1>20. \A v \in Wrs' : v.kind # "Recv" =>
           /\ state'[v.low] = state[v.low] /\ pages'[v.low] = pages[v.low]
           /\ inflight[v.low] > 0 => inflight'[v.low] > 0
    BY <1>7, <1>8, <1>9, <1>19, Zenon
  <1>21. WrsOwned'
    <2>1. ASSUME NEW v \in Wrs' PROVE Owned(v)'
      <3>1. CASE v.kind = "Recv"
        BY <3>1, Zenon DEF Owned
      <3>2. CASE v.kind # "Recv"
        <4>1. /\ Owned(v) /\ state'[v.low] = state[v.low] /\ pages'[v.low] = pages[v.low]
              /\ inflight[v.low] > 0 => inflight'[v.low] > 0
          BY <1>19, <1>20, <3>2, Zenon
        <4> QED BY <1>1, <4>1, Zenon DEF Owned, ReadWr, SendWr, WriteWr, DataWr, WrId
      <3> QED BY <3>1, <3>2, Zenon
    <2>2. ASSUME NEW u \in Wrs', NEW v \in Wrs', u.kind = "Send", v.kind = "Write",
                 u.low = v.low
          PROVE  inflight'[u.low] > 1
      <3>1. u.kind # "Recv" /\ v.kind # "Recv"
        BY <2>2, Zenon
      <3>2. /\ u \in Wrs /\ v \in Wrs /\ u.low \in Tags
            /\ u.low = t => u.kind # w.kind /\ v.kind # w.kind
        BY <1>19, <2>2, <3>1, Zenon
      <3>3. u.low # t
        BY <1>1, <2>2, <3>2, Zenon
      <3>4. inflight[u.low] > 1
        BY <1>2, <2>2, <3>2, Zenon DEF ServingOK, WrsOwned
      <3> QED BY <1>8, <3>2, <3>3, <3>4, Zenon
    <2> QED BY <2>1, <2>2, Zenon DEF WrsOwned
  <1>22. ReadsFilled' /\ SendFollows(chain)' /\ SendFollows(sq)'
    BY <1>1, <1>2, <1>3, Zenon DEF ServingOK, ReadsFilled
  <1>23. \A u : Quiet(u) => u # t
    <2>1. w.kind # "Recv"
      BY <1>1, Zenon
    <2> QED BY <1>3, <1>4, <2>1, Zenon DEF Quiet
  <1>24. DeferredOK'
    <2>1. \A u \in TagsOf(poolWait) \cup Range(readBatch) :
            state'[u] = "Receiving" /\ Quiet(u)'
      BY <1>2, <1>3, <1>9, <1>23, ListsTyped, Zenon DEF ServingOK, DeferredOK
    <2> QED BY <1>1, <1>2, <2>1, Zenon DEF ServingOK, DeferredOK, TagsOf
  <1>25. ResponsesOK'
    <2>1. \A r \in Range(responses) \cup Range(batch) : Answering(r)'
      BY <1>1, <1>2, <1>3, <1>9, <1>23, ListsTyped, Zenon DEF ServingOK, ResponsesOK, Answering
    <2> QED BY <1>1, <1>2, <2>1, Zenon DEF ServingOK, ResponsesOK, TagsOf
  <1>26. CommandsOK'
    BY <1>1, <1>2, <1>3, <1>14, Zenon DEF ServingOK, CommandsOK, CmdsOf
  <1>27. AnsweredOK'
    <2>1. \A u \in Tags : state'[u] \in {"Receiving", "Ready", "Executing"} =>
            state[u] \in {"Receiving", "Ready", "Executing"}
      BY <1>14, Zenon
    <2> QED BY <1>1, <1>2, <1>3, <2>1, Zenon DEF ServingOK, AnsweredOK, CmdsOf
  <1>28. ServingOK'
    BY <1>21, <1>22, <1>24, <1>25, <1>26, <1>27, Zenon DEF ServingOK
  <1>29. phase' = "steady"
    BY <1>1, Zenon
  <1> QED BY <1>3, <1>13, <1>15, <1>16, <1>18, <1>28, <1>29, Zenon DEF RdmaInv

-----------------------------------------------------------------------------
(* post_reads_batch posts a READ for each tag that was queued for one.     *)

\* flush_reads: the READs of the batch, one per tag.
LEMMA ReadsPosted ==
  ASSUME RdmaTypeOK, IsInjective(readBatch), NEW reads,
         reads = [i \in DOMAIN readBatch |-> DataWr("Read", readBatch[i])]
  PROVE  /\ reads \in Seq(WorkRequests) /\ Distinct(reads) /\ AllOkay(reads)
         /\ SendFollows(reads)
         /\ \A w \in Okay(reads) : /\ w.kind = "Read" /\ w.low \in Range(readBatch)
                                   /\ w = ReadWr(w.low)
  <1>1. readBatch \in Seq(Tags) /\ cmd \in [Tags -> Nat] /\ pages \in [Tags -> Nat]
    BY Zenon DEF RdmaTypeOK
  <1>2. Range(readBatch) \subseteq Tags
    BY <1>1, Elements, Zenon
  <1>3. \A t \in Tags : /\ ReadWr(t) \in WorkRequests /\ ReadWr(t).ok
                        /\ ReadWr(t).kind = "Read" /\ ReadWr(t).low = t
    <2>1. Tags \subseteq Nat
      BY IndexNat, Zenon
    <2> QED BY <1>1, <2>1, Zenon DEF ReadWr, DataWr, WrId, WorkRequests
  <1>4. /\ DOMAIN reads = DOMAIN readBatch
        /\ \A i \in DOMAIN readBatch :
             readBatch[i] \in Tags /\ reads[i] = ReadWr(readBatch[i])
    BY <1>2, Zenon DEF Range, ReadWr
  <1>5. reads \in Seq(WorkRequests)
    <2>1. Len(readBatch) \in Nat /\ DOMAIN readBatch = 1 .. Len(readBatch)
      BY <1>1
    <2>2. \A i \in 1 .. Len(readBatch) : DataWr("Read", readBatch[i]) \in WorkRequests
      BY <1>3, <1>4, <2>1, Zenon DEF ReadWr
    <2> QED BY <2>1, <2>2
  <1>6. ASSUME NEW w \in Range(reads)
        PROVE  /\ w.ok /\ w.kind = "Read" /\ w.low \in Range(readBatch)
               /\ w = ReadWr(w.low)
    <2>1. PICK i \in DOMAIN readBatch : w = ReadWr(readBatch[i])
      BY <1>4, Zenon DEF Range
    <2>2. readBatch[i] \in Range(readBatch) /\ readBatch[i] \in Tags
      BY <1>4, Zenon DEF Range
    <2>3. w.ok /\ w.kind = "Read" /\ w.low = readBatch[i]
      BY <1>3, <2>1, <2>2, Zenon
    <2> QED BY <2>1, <2>2, <2>3, Zenon
  <1>7. \A w \in Range(reads) : /\ w.ok /\ w.kind = "Read" /\ w.low \in Range(readBatch)
                                /\ w = ReadWr(w.low)
    BY <1>6, Zenon
  <1>8. AllOkay(reads) /\ Okay(reads) = Range(reads)
    BY <1>7, Zenon DEF AllOkay, Okay
  <1>9. Distinct(reads)
    <2>1. ASSUME NEW i \in DOMAIN readBatch, NEW j \in DOMAIN readBatch, reads[i] = reads[j]
          PROVE  i = j
      <3>1. reads[i].low = readBatch[i] /\ reads[j].low = readBatch[j]
        BY <1>3, <1>4, Zenon
      <3>2. readBatch[i] = readBatch[j]
        BY <2>1, <3>1, Zenon
      <3> QED BY <3>2, Zenon DEF IsInjective
    <2> QED BY <1>4, <2>1, Zenon DEF Distinct
  <1>10. \A w \in Range(reads) : w.kind # "Write"
    BY <1>7, Zenon
  <1>11. SendFollows(reads)
    BY <1>5, <1>10, FollowNone, Zenon
  <1> QED BY <1>5, <1>7, <1>8, <1>9, <1>11, Zenon

\* The batch of READs is posted while the queue serves.
LEMMA FlushSteady ==
  ASSUME RdmaInv, Flush, phase' = phase, phase = "steady"
  PROVE  RdmaInv'
  <1> DEFINE reads == [i \in DOMAIN readBatch |-> DataWr("Read", readBatch[i])]
  <1>1. /\ UNCHANGED <<script, depth, sent, answered, buf>>
        /\ UNCHANGED <<state, task, cmd, data, pages, freeTags, inflight, resp>>
        /\ UNCHANGED <<responses, batch, parked, poolWait>>
        /\ UNCHANGED <<chain, unacked, cq, staged, comps, rq, qpUp>>
        /\ UNCHANGED <<thread, armed, ring, lost>>
        /\ pc = "flush" /\ pc' \in {"pending", "woken"}
        /\ sq' = sq \o reads /\ readBatch' = << >>
    BY Zenon DEF Flush, host, slots, wakeups
  <1>2. /\ RdmaTypeOK /\ SlotsOK /\ SleepOK /\ DepthOK
        /\ LinesOK /\ BuffersOK /\ RingFull /\ HandOK /\ ServingOK
    BY Zenon DEF RdmaInv
  <1>3. /\ IsInjective(readBatch) /\ TagsOf(poolWait) \cap Range(readBatch) = {}
        /\ \A t \in Range(readBatch) : state[t] = "Receiving" /\ Quiet(t)
    BY <1>2, Zenon DEF ServingOK, DeferredOK
  <1>4. /\ reads \in Seq(WorkRequests) /\ Distinct(reads) /\ AllOkay(reads)
        /\ SendFollows(reads)
        /\ \A w \in Okay(reads) : /\ w.kind = "Read" /\ w.low \in Range(readBatch)
                                  /\ w = ReadWr(w.low)
    BY <1>2, <1>3, ReadsPosted, Zenon
  <1> HIDE DEF reads
  <1>5. \A w \in Okay(reads) : w.kind # "Recv" /\ w.kind # "Send" /\ w.kind # "Write"
    BY <1>4, Zenon
  <1>6. Okay(reads) \cap Wrs = {}
    BY <1>3, <1>4, <1>5, Zenon DEF Quiet
  <1>7. sq \in Seq(WorkRequests) /\ Distinct(sq) /\ AllOkay(sq) /\ SendFollows(sq)
    BY <1>2, Zenon DEF RdmaTypeOK, LinesOK, ServingOK
  <1>8. /\ sq' \in Seq(WorkRequests) /\ Distinct(sq') /\ AllOkay(sq')
        /\ Okay(sq') = Okay(sq) \cup Okay(reads)
    <2>1. Okay(sq) \cap Okay(reads) = {}
      BY <1>6, Zenon DEF Wrs, ToDo
    <2> QED BY <1>1, <1>4, <1>7, <2>1, OkayConcat, Zenon
  <1>9. SendFollows(sq')
    BY <1>1, <1>4, <1>7, FollowConcat, Zenon
  <1>10. ToDo' = ToDo \cup Okay(reads) /\ Done' = Done /\ Wrs' = Wrs \cup Okay(reads)
    BY <1>1, <1>8, Zenon DEF ToDo, Done, Wrs
  <1>11. Recvs' = Recvs
    BY <1>5, <1>10, Zenon DEF Recvs
  <1>12. readBatch' \in Seq(Tags) /\ Range(readBatch') = {} /\ IsInjective(readBatch')
    BY <1>1, EmptyList, Zenon
  <1>13. RdmaTypeOK'
    BY <1>1, <1>2, <1>8, <1>12, Zenon DEF RdmaTypeOK
  <1>14. SlotsOK' /\ DepthOK'
    BY <1>1, <1>2, SlotsKept, Zenon DEF DepthOK, Conforming
  <1>15. HandOK' /\ SleepOK'
    <2>1. comps = << >> /\ pc' # "comps"
      BY <1>1, <1>2, Zenon DEF HandOK
    <2> QED BY <1>1, <1>2, <2>1, SleepKept, Zenon DEF HandOK
  <1>16. LinesOK'
    <2>1. LinesApart
      BY <1>2, Zenon DEF LinesOK
    <2>2. LinesApart'
      BY <1>1, <1>6, <1>8, <2>1, Zenon DEF LinesApart, Wrs, ToDo, Done
    <2> QED BY <1>1, <1>2, <1>5, <1>8, <1>11, <2>2, Zenon DEF LinesOK, RecvWr
  <1>17. \A i : Held(i)' <=> Held(i)
    BY <1>1, <1>11, Zenon DEF Held, HeldArriving, HeldParked, HeldWaiting, Inline, Kind
  <1>18. BuffersOK' /\ RingFull'
    BY <1>1, <1>2, <1>17, Zenon DEF BuffersOK, RingFull, Inline, Kind
  <1>19. WrsOwned'
    <2>1. \A w \in Wrs : Owned(w)'
      BY <1>1, <1>2, Zenon DEF ServingOK, WrsOwned, Owned, ReadWr, SendWr, WriteWr, DataWr, WrId
    <2>2. \A w \in Okay(reads) : Owned(w)'
      <3>1. Range(readBatch) \subseteq Tags
        BY <1>2, ListsTyped, Zenon
      <3>2. \A t : ReadWr(t)' = ReadWr(t)
        BY <1>1, Zenon DEF ReadWr, DataWr, WrId
      <3> QED BY <1>1, <1>3, <1>4, <1>5, <3>1, <3>2, Zenon DEF Owned
    <2> QED BY <1>1, <1>2, <1>5, <1>10, <2>1, <2>2, Zenon DEF ServingOK, WrsOwned
  <1>20. ReadsFilled' /\ SendFollows(chain)'
    BY <1>1, <1>2, <1>10, Zenon DEF ServingOK, ReadsFilled
  <1>21. \A u : u \notin Range(readBatch) /\ Quiet(u) => Quiet(u)'
    BY <1>4, <1>10, Zenon DEF Quiet
  <1>22. DeferredOK'
    BY <1>1, <1>2, <1>3, <1>12, <1>21, Zenon DEF ServingOK, DeferredOK, TagsOf
  <1>23. ResponsesOK'
    <2>1. \A r \in Range(responses) \cup Range(batch) :
            Answering(r) /\ state[r.tag] = "Responding" /\ Quiet(r.tag)
      BY <1>2, Zenon DEF ServingOK, ResponsesOK, Answering
    <2>2. \A r \in Range(responses) \cup Range(batch) : r.tag \notin Range(readBatch)
      BY <1>3, <2>1, Zenon
    <2>3. \A r \in Range(responses) \cup Range(batch) : Answering(r)'
      BY <1>1, <1>21, <2>1, <2>2, Zenon DEF Answering
    <2> QED BY <1>1, <1>2, <2>3, Zenon DEF ServingOK, ResponsesOK, TagsOf
  <1>24. CommandsOK'
    BY <1>1, <1>2, <1>11, Zenon DEF ServingOK, CommandsOK, Active, CmdsOf
  <1>25. AnsweredOK'
    BY <1>1, <1>2, <1>5, <1>10, <1>11, Zenon DEF ServingOK, AnsweredOK, CmdsOf
  <1>26. ServingOK'
    BY <1>9, <1>19, <1>20, <1>22, <1>23, <1>24, <1>25, Zenon DEF ServingOK
  <1> QED BY <1>13, <1>14, <1>15, <1>16, <1>18, <1>26, Zenon DEF RdmaInv

\* The batch of READs is posted.
LEMMA FlushInv ==
  ASSUME RdmaInv, Flush
  PROVE  RdmaInv'
  <1>1. /\ thread = "awake" /\ phase = "steady" /\ phase' \in {"teardown", phase}
    BY Zenon DEF Flush, Looping, Running
  <1>2. CASE phase' = phase
    BY <1>1, <1>2, FlushSteady, Zenon
  <1>3. CASE phase' = "teardown"
    <2> DEFINE reads == [i \in DOMAIN readBatch |-> DataWr("Read", readBatch[i])]
    <2>1. /\ UNCHANGED <<script, depth, sent, answered>>
          /\ UNCHANGED <<unacked, rq, cq, buf, chain, staged, comps>>
          /\ UNCHANGED <<state, cmd, data, pages, freeTags, inflight, resp, task>>
          /\ UNCHANGED <<responses, batch, parked, poolWait, thread, armed, ring, lost>>
          /\ sq' = sq \o reads /\ readBatch' = << >>
      BY Zenon DEF Flush, host, slots, wakeups
    <2>2. RdmaTypeOK /\ ServingOK
      BY <1>1, Zenon DEF RdmaInv
    <2>3. reads \in Seq(WorkRequests)
      BY <2>2, ReadsPosted, Zenon DEF ServingOK, DeferredOK
    <2> HIDE DEF reads
    <2>4. sq \in Seq(WorkRequests) /\ comps' \in Seq(WorkRequests)
      BY <2>1, <2>2, Zenon DEF RdmaTypeOK
    <2>5. sq \o reads \in Seq(WorkRequests)
      BY <2>3, <2>4, ConcatAt, Zenon
    <2>6. sq' \in Seq(WorkRequests) /\ readBatch' \in Seq(Tags)
      BY <2>1, <2>5, EmptyList, Zenon
    <2>7. phase' \in {"teardown", "freed", "leaked"} /\ phase' # "freed"
      BY <1>3, Zenon
    <2> QED BY <1>1, <2>1, <2>4, <2>6, <2>7, Ended, Zenon
  <1> QED BY <1>1, <1>2, <1>3, Zenon

-----------------------------------------------------------------------------
(* A command is placed: it takes a tag, or a deferred write its pages.     *)

\* One buffer changes hands: it goes back to the ring, or stays held.
LEMMA BuffersPlaced ==
  ASSUME RdmaTypeOK, BuffersOK, RingFull, UNCHANGED <<script, qpUp, buf>>, NEW idx \in Bufs,
         \A i : i # idx => (Held(i)' <=> Held(i)),
         \/ rq' = rq /\ (Held(idx)' <=> Held(idx))
         \/ rq' = Append(rq, idx) /\ Held(idx) /\ ~Held(idx)',
         \A e \in Range(parked') : Inline(e.cmd) => buf[e.idx] = e.cmd,
         \A e \in Range(poolWait') : Inline(cmd'[e.tag]) => buf[e.idx] = cmd'[e.tag]
  PROVE  rq' \in Seq(Bufs) /\ BuffersOK' /\ RingFull'
  <1>1. rq \in Seq(Bufs) /\ IsInjective(rq) /\ \A i \in Range(rq) : ~Held(i)
    BY Zenon DEF RdmaTypeOK, BuffersOK
  <1>2. \A x : Inline(x)' <=> Inline(x)
    BY Zenon DEF Inline, Kind
  <1>3. CASE rq' = rq /\ (Held(idx)' <=> Held(idx))
    <2>1. \A i : Held(i)' <=> Held(i)
      BY <1>3, Zenon
    <2> QED BY <1>1, <1>2, <1>3, <2>1, Zenon DEF BuffersOK, RingFull
  <1>4. CASE rq' = Append(rq, idx) /\ Held(idx) /\ ~Held(idx)'
    <2>1. idx \notin Range(rq)
      BY <1>1, <1>4, Zenon
    <2>2. /\ rq' \in Seq(Bufs) /\ Range(rq') = Range(rq) \cup {idx} /\ IsInjective(rq')
      BY <1>1, <1>4, <2>1, PushBack
    <2>3. \A i \in Range(rq') : ~Held(i)'
      BY <1>1, <1>4, <2>1, <2>2, Zenon
    <2>4. RingFull'
      BY <1>4, <2>2, Zenon DEF RingFull
    <2> QED BY <1>2, <2>2, <2>3, <2>4, Zenon DEF BuffersOK
  <1> QED BY <1>3, <1>4, Zenon

\* A command that holds a tag from this step on keeps the others as they are.
LEMMA Placed ==
  ASSUME RdmaInv, phase = "steady", NEW t \in Tags, NEW c \in 1 .. sent, RdmaTypeOK',
         UNCHANGED <<script, sent, answered, task, inflight, resp, batch, chain, sq>>,
         Quiet(t), state[t] \in {"Free", "Receiving"}, t \notin Range(readBatch),
         Wrs' \subseteq Wrs, ToDo' = ToDo, Done' \subseteq Done,
         \A u \in Tags \ {t} : /\ state'[u] = state[u] /\ cmd'[u] = cmd[u]
                               /\ data'[u] = data[u] /\ pages'[u] = pages[u],
         cmd'[t] = c, state'[t] \in {"Receiving", "Ready", "Responding"}, c \notin answered,
         \A u \in Tags \ {t} : Active(u) => cmd[u] # c,
         \A w \in Recvs' : w.cmd # c,
         CmdsOf(parked') \subseteq CmdsOf(parked) \ {c}, OncePerCmd(parked'),
         IsInjective(freeTags'), Range(freeTags') \subseteq Range(freeTags) \ {t},
         OncePerTag(poolWait'), IsInjective(readBatch'),
         TagsOf(poolWait') \cap Range(readBatch') = {},
         \A u \in TagsOf(poolWait') \cup Range(readBatch') :
           \/ u = t /\ state'[t] = "Receiving"
           \/ u # t /\ u \in TagsOf(poolWait) \cup Range(readBatch),
         state'[t] = "Ready" /\ Kind(c) \in {"write", "inline"} => data'[t] = c,
         \/ responses' = responses
         \/ /\ responses' = Append(responses, [tag |-> t, data |-> FALSE])
            /\ state'[t] = "Responding"
  PROVE  SlotsOK' /\ ServingOK'
  <1>1. RdmaTypeOK /\ SlotsOK /\ ServingOK
    BY Zenon DEF RdmaInv
  <1>2. Recvs' \subseteq Recvs
    BY Zenon DEF Recvs
  <1>3. \A u : Quiet(u) => Quiet(u)'
    BY Zenon DEF Quiet
  <1>4. task[t] = "idle"
    BY <1>1, Zenon DEF SlotsOK
  <1>5. Active(t)' /\ \A u \in Tags \ {t} : Active(u)' <=> Active(u)
    <2>1. state'[t] # "Free"
      BY Zenon
    <2> QED BY <2>1, Zenon DEF Active
  <1>6. SlotsOK'
    <2>1. \A u \in Range(freeTags') : state'[u] = "Free"
      <3>1. \A u \in Range(freeTags') : u \in Tags \ {t} /\ state[u] = "Free"
        BY <1>1, ListsTyped, Zenon DEF SlotsOK
      <3> QED BY <3>1, Zenon
    <2>2. ASSUME NEW u \in Tags \ {t}
          PROVE  /\ task'[u] # "idle" => state'[u] = "Executing"
                 /\ state'[u] # "Free" => cmd'[u] \in 1 .. sent'
                 /\ state'[u] \in {"Ready", "Executing"} /\ Kind(cmd'[u]) \in {"write", "inline"}
                      => data'[u] = cmd'[u]
                 /\ task'[u] \in {"cqe", "finish"} /\ Kind(cmd'[u]) = "read"
                      => data'[u] = cmd'[u]
      <3>1. u \in Tags
        BY Zenon
      <3> QED BY <1>1, <2>2, <3>1, ZenonT(30) DEF SlotsOK, Active
    <2>3. /\ task'[t] = "idle" /\ state'[t] # "Executing" /\ cmd'[t] \in 1 .. sent'
          /\ state'[t] = "Ready" /\ Kind(cmd'[t]) \in {"write", "inline"} => data'[t] = cmd'[t]
      BY <1>4, Zenon
    <2>4. task'[t] \notin {"cqe", "finish"}
      BY <2>3, Zenon
    <2>5. \A x : Kind(x)' = Kind(x)
      BY Zenon DEF Kind
    <2> QED BY <2>1, <2>2, <2>3, <2>4, <2>5, Zenon DEF SlotsOK, Active
  <1>7. \A w \in Wrs : w.kind # "Recv" => w.low \in Tags \ {t}
    BY <1>1, WrsTyped, Zenon DEF ServingOK, WrsOwned, Owned, Quiet
  <1>8. WrsOwned'
    <2>1. \A w \in Wrs : w.kind # "Recv" =>
            /\ state'[w.low] = state[w.low] /\ data'[w.low] = data[w.low]
            /\ cmd'[w.low] = cmd[w.low] /\ pages'[w.low] = pages[w.low]
      BY <1>7, Zenon
    <2>2. WrsOwned
      BY <1>1, Zenon DEF ServingOK
    <2>3. ASSUME NEW w \in Wrs' PROVE Owned(w)'
      <3>1. w \in Wrs /\ Owned(w)
        BY <2>2, Zenon DEF WrsOwned
      <3>2. CASE w.kind = "Recv"
        BY <3>2, Zenon DEF Owned
      <3>3. CASE w.kind # "Recv"
        <4>1. /\ state'[w.low] = state[w.low] /\ data'[w.low] = data[w.low]
              /\ cmd'[w.low] = cmd[w.low] /\ pages'[w.low] = pages[w.low]
          BY <2>1, <3>1, <3>3, Zenon
        <4> QED BY <3>1, <4>1, Zenon DEF Owned, ReadWr, SendWr, WriteWr, DataWr, WrId
      <3> QED BY <3>2, <3>3, Zenon
    <2>4. \A v, w \in Wrs' : v.kind = "Send" /\ w.kind = "Write" /\ v.low = w.low =>
            inflight'[v.low] > 1
      BY <2>2, Zenon DEF WrsOwned
    <2> QED BY <2>3, <2>4, Zenon DEF WrsOwned
  <1>9. ReadsFilled' /\ SendFollows(chain)' /\ SendFollows(sq)'
    <2>1. \A w \in Done : w.kind = "Read" => w.low \in Tags \ {t}
      <3>1. \A w \in Done : w \in Wrs
        BY Zenon DEF Wrs
      <3>2. \A w \in Done : w.kind = "Read" => w.kind # "Recv"
        BY Zenon
      <3> QED BY <1>7, <3>1, <3>2, Zenon
    <2>2. ReadsFilled'
      BY <1>1, <2>1, Zenon DEF ServingOK, ReadsFilled
    <2> QED BY <1>1, <2>2, Zenon DEF ServingOK
  <1>10. DeferredOK'
    <2>1. \A u \in TagsOf(poolWait') \cup Range(readBatch') :
            state'[u] = "Receiving" /\ Quiet(u)'
      BY <1>1, <1>3, ListsTyped, Zenon DEF ServingOK, DeferredOK
    <2> QED BY <2>1, Zenon DEF DeferredOK
  <1>11. \A r \in Range(responses) \cup Range(batch) : r.tag \in Tags \ {t}
    <2>1. \A r \in Range(responses) \cup Range(batch) : r.tag \in Tags
      BY <1>1, ListsTyped, Zenon
    <2>2. \A r \in Range(responses) \cup Range(batch) : state[r.tag] = "Responding"
      BY <1>1, Zenon DEF ServingOK, ResponsesOK, Answering
    <2> QED BY <2>1, <2>2, Zenon
  <1>12. \A r \in Range(responses) \cup Range(batch) : Answering(r)'
    BY <1>1, <1>3, <1>11, Zenon DEF ServingOK, ResponsesOK, Answering
  <1>13. ResponsesOK'
    <2>1. CASE responses' = responses
      BY <1>1, <1>12, <2>1, Zenon DEF ServingOK, ResponsesOK, TagsOf
    <2>2. ASSUME responses' = Append(responses, [tag |-> t, data |-> FALSE]),
                 state'[t] = "Responding"
          PROVE  ResponsesOK'
      <3> DEFINE e == [tag |-> t, data |-> FALSE]
      <3>1. e \in Responses /\ e.tag = t /\ ~e.data
        BY Zenon DEF Responses
      <3>2. /\ responses \in Seq(Responses) /\ OncePerTag(responses)
            /\ OncePerTag(batch) /\ TagsOf(responses) \cap TagsOf(batch) = {}
        BY <1>1, Zenon DEF RdmaTypeOK, ServingOK, ResponsesOK
      <3>3. t \notin TagsOf(responses) /\ t \notin TagsOf(batch)
        BY <1>11, Zenon DEF TagsOf
      <3>4. responses' = Append(responses, e)
        BY <2>2, Zenon
      <3> HIDE DEF e
      <3>5. /\ OncePerTag(responses') /\ Range(responses') = Range(responses) \cup {e}
            /\ TagsOf(responses') = TagsOf(responses) \cup {t}
        BY <3>1, <3>2, <3>3, <3>4, TagsPush
      <3>6. \A r : r = e => Answering(r)'
        BY <1>3, <2>2, <3>1, Zenon DEF Answering
      <3>7. TagsOf(responses') \cap TagsOf(batch') = {}
        BY <3>2, <3>3, <3>5, Zenon
      <3> QED BY <1>12, <3>2, <3>5, <3>6, <3>7, Zenon DEF ResponsesOK
    <2> QED BY <2>1, <2>2, Zenon
  <1>14. CommandsOK'
    <2>1. CommandsOK
      BY <1>1, Zenon DEF ServingOK
    <2>2. \A w \in Recvs' : w.cmd \in 1 .. sent' /\ w.cmd \notin CmdsOf(parked')
      BY <1>2, <2>1, Zenon DEF CommandsOK
    <2>3. CmdsOf(parked') \subseteq 1 .. sent'
      BY <2>1, Zenon DEF CommandsOK
    <2>4. \A u \in Tags : Active(u)' => cmd'[u] \notin CmdsOf(parked')
      BY <1>5, <2>1, Zenon DEF CommandsOK
    <2>5. ASSUME NEW u \in Tags, NEW v \in Tags, Active(u)', Active(v)', cmd'[u] = cmd'[v]
          PROVE  u = v
      <3>1. \A x \in Tags \ {t} : Active(x)' => Active(x) /\ cmd'[x] = cmd[x] /\ cmd[x] # c
        BY <1>5, Zenon
      <3>2. CASE u # t /\ v # t
        BY <2>1, <2>5, <3>1, <3>2, Zenon DEF CommandsOK
      <3>3. CASE u = t \/ v = t
        BY <2>5, <3>1, <3>3, Zenon
      <3> QED BY <3>2, <3>3, Zenon
    <2>6. ASSUME NEW w \in Recvs', NEW u \in Tags, Active(u)' PROVE w.cmd # cmd'[u]
      <3>1. CASE u = t
        BY <3>1, Zenon
      <3>2. CASE u # t
        <4>1. Active(u) /\ cmd'[u] = cmd[u] /\ w \in Recvs
          BY <1>2, <1>5, <2>6, <3>2, Zenon
        <4> QED BY <2>1, <4>1, ZenonT(30) DEF CommandsOK
      <3> QED BY <3>1, <3>2, Zenon
    <2>7. \A v, w \in Recvs' : v.cmd = w.cmd => v = w
      BY <1>2, <2>1, Zenon DEF CommandsOK
    <2> QED BY <2>2, <2>3, <2>4, <2>5, <2>6, <2>7, Zenon DEF CommandsOK
  <1>15. AnsweredOK'
    BY <1>1, <1>2, Zenon DEF ServingOK, AnsweredOK
  <1> QED BY <1>6, <1>8, <1>9, <1>10, <1>13, <1>14, <1>15, Zenon DEF ServingOK

\* Nobody holds the buffer of a command that no arrival and no deferred write
\* names.
LEMMA FreshBuffer ==
  ASSUME LinesOK', UNCHANGED <<script, buf>>, NEW i, NEW c, buf[i] = c,
         \A w \in Recvs' : w.cmd # c,
         \A e \in Range(parked') : Inline(e.cmd) => buf[e.idx] = e.cmd /\ e.cmd # c,
         \A e \in Range(poolWait') :
           Inline(cmd'[e.tag]) => buf[e.idx] = cmd'[e.tag] /\ cmd'[e.tag] # c
  PROVE  ~Held(i)'
  <1>1. \A x : Inline(x)' <=> Inline(x)
    BY Zenon DEF Inline, Kind
  <1>2. \A w \in Recvs' : w.cmd = buf[w.low]
    <2>1. \A w \in Recvs' : w = WrId("Recv", w.low, buf[w.low], 1)
      BY Zenon DEF LinesOK, RecvWr
    <2> QED BY <2>1 DEF WrId
  <1>3. ~HeldArriving(i)'
    BY <1>2, Zenon DEF HeldArriving
  <1>4. ~HeldParked(i)' /\ ~HeldWaiting(i)'
    BY <1>1, Zenon DEF HeldParked, HeldWaiting
  <1> QED BY <1>3, <1>4, Zenon DEF Held

\* Two writes that wait for pages are two commands.
LEMMA WaitersDiffer ==
  ASSUME RdmaTypeOK, DeferredOK, CommandsOK, NEW d \in Range(poolWait), NEW e \in Range(poolWait),
         d # e
  PROVE  d.tag \in Tags /\ e.tag \in Tags /\ d.tag # e.tag /\ cmd[d.tag] # cmd[e.tag]
  <1>1. d.tag \in Tags /\ e.tag \in Tags
    BY ListsTyped, Zenon
  <1>2. d.tag # e.tag
    BY Zenon DEF DeferredOK, OncePerTag
  <1>3. state[d.tag] = "Receiving" /\ state[e.tag] = "Receiving"
    BY Zenon DEF DeferredOK, TagsOf
  <1>4. Active(d.tag) /\ Active(e.tag)
    BY <1>3, Zenon DEF Active
  <1> QED BY <1>1, <1>2, <1>4, Zenon DEF CommandsOK

\* A write that waited for pages is staged when it gets them.
LEMMA RetryStageInv ==
  ASSUME RdmaInv, RetryStage
  PROVE  RdmaInv'
  <1> DEFINE e == Head(poolWait)
             t == Head(poolWait).tag
             idx == Head(poolWait).idx
             c == cmd[Head(poolWait).tag]
  <1>1. /\ phase' = phase /\ UNCHANGED <<script, depth, sent, answered, buf>>
        /\ UNCHANGED <<task, cmd, freeTags, inflight, resp>>
        /\ UNCHANGED <<responses, batch, parked, chain, sq, unacked, cq, staged, comps, qpUp>>
        /\ UNCHANGED <<pc, thread, armed, ring, lost>>
        /\ phase = "steady" /\ poolWait # << >> /\ poolWait' = Tail(poolWait)
        /\ pages' = [pages EXCEPT ![t] = Need(c)]
        /\ \/ /\ Inline(c) /\ data' = [data EXCEPT ![t] = buf[idx]]
              /\ state' = [state EXCEPT ![t] = "Ready"] /\ rq' = Append(rq, idx)
              /\ UNCHANGED readBatch
           \/ /\ ~Inline(c) /\ readBatch' = Append(readBatch, t)
              /\ state' = [state EXCEPT ![t] = "Receiving"] /\ rq' = rq /\ UNCHANGED data
    BY Zenon DEF RetryStage, FrontFits, tryStage, tryStageInline, tryStageWrite, lease,
       postRecv, Looping, host, loop, wakeups
  <1>2. /\ RdmaTypeOK /\ SlotsOK /\ SleepOK /\ DepthOK
        /\ LinesOK /\ BuffersOK /\ RingFull /\ HandOK /\ ServingOK
    BY <1>1, Zenon DEF RdmaInv
  <1>3. /\ DeferredOK /\ CommandsOK /\ AnsweredOK
        /\ poolWait \in Seq([tag : Tags, idx : Bufs]) /\ readBatch \in Seq(Tags)
        /\ OncePerTag(poolWait) /\ IsInjective(readBatch)
        /\ TagsOf(poolWait) \cap Range(readBatch) = {}
    BY <1>2, Zenon DEF RdmaTypeOK, ServingOK, DeferredOK
  <1> HIDE DEF e, t, idx, c
  <1>4. /\ poolWait' \in Seq([tag : Tags, idx : Bufs]) /\ OncePerTag(poolWait')
        /\ e \in Range(poolWait) /\ Range(poolWait') = Range(poolWait) \ {e}
        /\ TagsOf(poolWait') = TagsOf(poolWait) \ {t}
        /\ t = e.tag /\ idx = e.idx /\ c = cmd[t]
    BY <1>1, <1>3, TagsPop, Zenon DEF e, t, idx, c
  <1>5. t \in TagsOf(poolWait) /\ t \in Tags /\ idx \in Bufs
    BY <1>2, <1>4, ListsTyped, Zenon DEF TagsOf
  <1>6. state[t] = "Receiving" /\ Quiet(t) /\ t \notin Range(readBatch)
    BY <1>3, <1>5, Zenon DEF DeferredOK
  <1>7. Active(t) /\ t \notin Range(freeTags)
    BY <1>2, <1>6, Zenon DEF Active, SlotsOK
  <1>8. /\ c \in 1 .. sent /\ c \notin answered
        /\ \A u \in Tags \ {t} : Active(u) => cmd[u] # c
        /\ c \notin CmdsOf(parked) /\ \A w \in Recvs : w.cmd # c
    BY <1>2, <1>3, <1>4, <1>5, <1>6, <1>7, Zenon DEF SlotsOK, CommandsOK, AnsweredOK
  <1>9. Need(c) \in Nat /\ c \in Nat
    BY <1>2, <1>8, NeedNat, Zenon
  <1>10. Inline(c) => buf[idx] = c
    BY <1>2, <1>4, Zenon DEF BuffersOK
  \* The slot.
  <1>11. /\ pages \in [Tags -> Nat] /\ data \in [Tags -> Nat]
         /\ state \in [Tags -> {"Free", "Receiving", "Ready", "Executing", "Responding"}]
    BY <1>2, Zenon DEF RdmaTypeOK
  <1>12. /\ pages' \in [Tags -> Nat] /\ \A u \in Tags \ {t} : pages'[u] = pages[u]
    BY <1>1, <1>5, <1>9, <1>11, Zenon
  <1>13. /\ data' \in [Tags -> Nat]
         /\ state' \in [Tags -> {"Free", "Receiving", "Ready", "Executing", "Responding"}]
         /\ \A u \in Tags \ {t} : state'[u] = state[u] /\ data'[u] = data[u]
         /\ Inline(c) => state'[t] = "Ready" /\ data'[t] = c
         /\ ~Inline(c) => state'[t] = "Receiving"
    <2>1. CASE Inline(c)
      <3>1. data' = [data EXCEPT ![t] = c] /\ state' = [state EXCEPT ![t] = "Ready"]
        BY <1>1, <1>10, <2>1, Zenon
      <3> QED BY <1>5, <1>9, <1>11, <2>1, <3>1, Zenon
    <2>2. CASE ~Inline(c)
      <3>1. data' = data /\ state' = [state EXCEPT ![t] = "Receiving"]
        BY <1>1, <2>2, Zenon
      <3> QED BY <1>5, <1>11, <2>2, <3>1, Zenon
    <2> QED BY <2>1, <2>2, Zenon
  <1>14. /\ readBatch' \in Seq(Tags) /\ IsInjective(readBatch')
         /\ TagsOf(poolWait') \cap Range(readBatch') = {}
         /\ \A u \in Range(readBatch') : \/ u = t /\ state'[t] = "Receiving"
                                         \/ u # t /\ u \in Range(readBatch)
    <2>1. CASE Inline(c)
      <3>1. readBatch' = readBatch
        BY <1>1, <2>1, Zenon
      <3> QED BY <1>3, <1>4, <1>6, <3>1, Zenon
    <2>2. CASE ~Inline(c)
      <3>1. readBatch' = Append(readBatch, t)
        BY <1>1, <2>2, Zenon
      <3>2. /\ readBatch' \in Seq(Tags) /\ IsInjective(readBatch')
            /\ Range(readBatch') = Range(readBatch) \cup {t}
        BY <1>3, <1>5, <1>6, <3>1, PushBack
      <3> QED BY <1>3, <1>4, <1>6, <1>13, <2>2, <3>2, Zenon
    <2> QED BY <2>1, <2>2, Zenon
  <1>15. /\ ToDo' = ToDo /\ Done' = Done /\ Wrs' = Wrs /\ Recvs' = Recvs
    BY <1>1, Zenon DEF ToDo, Done, Wrs, Recvs
  <1>16. LinesOK'
    BY <1>1, <1>2, <1>15, Zenon DEF LinesOK, LinesApart, RecvWr
  \* The buffer.
  <1>17. /\ \A d \in Range(parked') : Inline(d.cmd) => buf[d.idx] = d.cmd /\ d.cmd # c
         /\ \A d \in Range(poolWait') :
              Inline(cmd'[d.tag]) => buf[d.idx] = cmd'[d.tag] /\ cmd'[d.tag] # c
    <2>1. \A d \in Range(parked) : d.cmd # c
      BY <1>8, Zenon DEF CmdsOf
    <2>2. \A d \in Range(poolWait') : d \in Range(poolWait) /\ cmd[d.tag] # c
      BY <1>2, <1>3, <1>4, WaitersDiffer, Zenon
    <2> QED BY <1>1, <1>2, <2>1, <2>2, Zenon DEF BuffersOK
  <1>18. \A i : i # idx => (Held(i)' <=> Held(i))
    <2>1. \A i : (HeldArriving(i)' <=> HeldArriving(i)) /\ (HeldParked(i)' <=> HeldParked(i))
      BY <1>1, <1>15, Zenon DEF HeldArriving, HeldParked, Inline, Kind
    <2>2. \A i : i # idx => (HeldWaiting(i)' <=> HeldWaiting(i))
      BY <1>1, <1>4, Zenon DEF HeldWaiting, Inline, Kind
    <2> QED BY <2>1, <2>2, Zenon DEF Held
  <1>19. /\ rq' \in Seq(Bufs) /\ BuffersOK' /\ RingFull'
    <2>1. UNCHANGED <<script, qpUp, buf>>
      BY <1>1, Zenon
    <2>2. CASE Inline(c)
      <3>1. \A i : i = idx => ~Held(i)'
        BY <1>8, <1>10, <1>15, <1>16, <1>17, <2>1, <2>2, FreshBuffer, Zenon
      <3>2. \A i : i = idx => Held(i)
        BY <1>4, <2>2, Zenon DEF Held, HeldWaiting
      <3>3. rq' = Append(rq, idx)
        BY <1>1, <2>2, Zenon
      <3> QED BY <1>2, <1>5, <1>17, <1>18, <2>1, <3>1, <3>2, <3>3, BuffersPlaced, Zenon
    <2>3. CASE ~Inline(c)
      <3>1. \A i : Held(i)' <=> Held(i)
        <4>1. \A i : (HeldArriving(i)' <=> HeldArriving(i)) /\ (HeldParked(i)' <=> HeldParked(i))
          BY <1>1, <1>15, Zenon DEF HeldArriving, HeldParked, Inline, Kind
        <4>2. \A i : HeldWaiting(i)' <=> HeldWaiting(i)
          BY <1>1, <1>4, <2>3, Zenon DEF HeldWaiting, Inline, Kind
        <4> QED BY <4>1, <4>2, Zenon DEF Held
      <3>2. rq' = rq
        BY <1>1, <2>3, Zenon
      <3> QED BY <1>2, <1>5, <1>17, <2>1, <3>1, <3>2, BuffersPlaced, Zenon
    <2> QED BY <2>2, <2>3, Zenon
  <1>20. RdmaTypeOK'
    BY <1>1, <1>2, <1>4, <1>12, <1>13, <1>14, <1>19, Zenon DEF RdmaTypeOK
  <1>21. DepthOK' /\ SleepOK' /\ HandOK'
    BY <1>1, <1>2, SleepKept, Zenon DEF DepthOK, Conforming, HandOK
  <1>22. SlotsOK' /\ ServingOK'
    <2>1. UNCHANGED <<script, sent, answered, task, inflight, resp, batch, chain, sq>>
      BY <1>1, Zenon
    <2>2. /\ Wrs' \subseteq Wrs /\ Done' \subseteq Done /\ \A w \in Recvs' : w.cmd # c
      BY <1>8, <1>15, Zenon
    <2>3. \A u \in Tags \ {t} : /\ state'[u] = state[u] /\ cmd'[u] = cmd[u]
                                /\ data'[u] = data[u] /\ pages'[u] = pages[u]
      BY <1>1, <1>12, <1>13, Zenon
    <2>4. CmdsOf(parked') \subseteq CmdsOf(parked) \ {c} /\ OncePerCmd(parked')
      BY <1>1, <1>3, <1>8, Zenon DEF CommandsOK
    <2>5. IsInjective(freeTags') /\ Range(freeTags') \subseteq Range(freeTags) \ {t}
      BY <1>1, <1>2, <1>7, Zenon DEF SlotsOK
    <2>6. \A u \in TagsOf(poolWait') \cup Range(readBatch') :
            \/ u = t /\ state'[t] = "Receiving"
            \/ u # t /\ u \in TagsOf(poolWait) \cup Range(readBatch)
      BY <1>4, <1>14, Zenon
    <2>7. /\ state'[t] \in {"Receiving", "Ready", "Responding"}
          /\ state'[t] = "Ready" /\ Kind(c) \in {"write", "inline"} => data'[t] = c
      BY <1>13, Zenon
    <2>8. /\ cmd'[t] = c /\ responses' = responses /\ phase = "steady"
          /\ state[t] \in {"Free", "Receiving"}
      BY <1>1, <1>4, <1>6, Zenon
    <2> QED BY <1>4, <1>5, <1>6, <1>8, <1>14, <1>15, <1>20, <2>1, <2>2, <2>3, <2>4, <2>5, <2>6,
               <2>7, <2>8, Placed, Zenon
  <1>23. phase' = "steady"
    BY <1>1, Zenon
  <1> QED BY <1>16, <1>19, <1>20, <1>21, <1>22, <1>23, Zenon DEF RdmaInv

\* What route_cmd does with a command that takes the tag on top of the free
\* list: dispatch it, queue its READ, fail it, or let it wait for pages.
Outcome(t, c, idx, posted) ==
  \/ /\ UNCHANGED <<readBatch, poolWait, responses>>
     /\ state' = [state EXCEPT ![t] = "Ready"]
     /\ \/ /\ ~Inline(c) /\ Kind(c) \notin {"write", "inline"}
           /\ rq' = posted /\ UNCHANGED <<pages, data>>
        \/ /\ Inline(c) /\ rq' = Append(posted, idx)
           /\ pages' = [pages EXCEPT ![t] = Need(c)]
           /\ data' = [data EXCEPT ![t] = buf[idx]]
  \/ /\ UNCHANGED <<data, poolWait, responses>> /\ ~Inline(c) /\ rq' = posted
     /\ state' = [state EXCEPT ![t] = "Receiving"]
     /\ pages' = [pages EXCEPT ![t] = Need(c)]
     /\ readBatch' = Append(readBatch, t)
  \/ /\ UNCHANGED <<pages, data, readBatch, poolWait>>
     /\ state' = [state EXCEPT ![t] = "Responding"]
     /\ responses' = Append(responses, [tag |-> t, data |-> FALSE])
     /\ rq' = IF Inline(c) THEN Append(posted, idx) ELSE posted
  \/ /\ UNCHANGED <<pages, data, readBatch, responses>> /\ rq' = posted
     /\ state' = [state EXCEPT ![t] = "Receiving"]
     /\ poolWait' = Append(poolWait, [tag |-> t, idx |-> idx])

\* route_cmd has one of these outcomes.
LEMMA Routed ==
  ASSUME NEW t, NEW c, NEW idx, NEW posted, routeCmd(t, c, idx, posted)
  PROVE  /\ freeTags' = Tail(freeTags) /\ cmd' = [cmd EXCEPT ![t] = c]
         /\ UNCHANGED <<task, inflight, resp>>
         /\ Outcome(t, c, idx, posted)
  <1>1. freeTags' = Tail(freeTags) /\ cmd' = [cmd EXCEPT ![t] = c]
        /\ UNCHANGED <<task, inflight, resp>>
    BY Zenon DEF routeCmd
  <1>2. CASE Kind(c) \in {"read", "flush"}
    <2>1. ~Inline(c) /\ Kind(c) \notin {"write", "inline"}
      BY <1>2, Zenon DEF Inline
    <2>2. /\ state' = [state EXCEPT ![t] = "Ready"] /\ rq' = posted
          /\ UNCHANGED <<pages, data, readBatch, poolWait, responses>>
      BY <1>2, Zenon DEF routeCmd
    <2> QED BY <1>1, <2>1, <2>2, Zenon DEF Outcome
  <1>3. CASE Kind(c) \in {"badKeyed", "badInline"}
    <2>1. failRecv(t, c, idx, posted)
      BY <1>3, Zenon DEF routeCmd
    <2> QED BY <1>1, <2>1, Zenon DEF Outcome, failRecv, postRecv
  <1>4. CASE Kind(c) \in {"write", "inline"} /\ Need(c) <= freePages
    <2>1. tryStage(t, c, idx, posted) /\ UNCHANGED <<poolWait, responses>>
      BY <1>4, Zenon DEF routeCmd
    <2> QED BY <1>1, <2>1, Zenon DEF Outcome, tryStage, tryStageInline, tryStageWrite, lease, postRecv
  <1>5. CASE /\ Kind(c) \notin {"read", "flush"} /\ Kind(c) \notin {"badKeyed", "badInline"}
             /\ ~(Kind(c) \in {"write", "inline"} /\ Need(c) <= freePages)
    <2>1. /\ poolWait' = Append(poolWait, [tag |-> t, idx |-> idx])
          /\ state' = [state EXCEPT ![t] = "Receiving"] /\ rq' = posted
          /\ UNCHANGED <<pages, data, readBatch, responses>>
      BY <1>5, Zenon DEF routeCmd
    <2> QED BY <1>1, <2>1, Zenon DEF Outcome
  <1> QED BY <1>2, <1>3, <1>4, <1>5, Zenon

\* The slot the command takes.
LEMMA RoutedSlot ==
  ASSUME RdmaTypeOK, SlotsOK, freeTags # << >>, NEW t, t = Head(freeTags), NEW c \in 1 .. sent,
         NEW idx, NEW posted, routeCmd(t, c, idx, posted), Inline(c) => buf[idx] = c
  PROVE  /\ t \in Tags /\ state[t] = "Free"
         /\ freeTags' \in Seq(Tags) /\ IsInjective(freeTags')
         /\ Range(freeTags') \subseteq Range(freeTags) \ {t}
         /\ cmd' \in [Tags -> Nat] /\ data' \in [Tags -> Nat] /\ pages' \in [Tags -> Nat]
         /\ state' \in [Tags -> {"Free", "Receiving", "Ready", "Executing", "Responding"}]
         /\ \A u \in Tags \ {t} : /\ state'[u] = state[u] /\ cmd'[u] = cmd[u]
                                  /\ data'[u] = data[u] /\ pages'[u] = pages[u]
         /\ cmd'[t] = c /\ state'[t] \in {"Receiving", "Ready", "Responding"}
         /\ state'[t] = "Ready" /\ Kind(c) \in {"write", "inline"} => data'[t] = c
  <1>1. freeTags \in Seq(Tags) /\ IsInjective(freeTags) /\ \A u \in Range(freeTags) : state[u] = "Free"
    BY Zenon DEF RdmaTypeOK, SlotsOK
  <1>2. /\ t \in Tags /\ t \in Range(freeTags) /\ Tail(freeTags) \in Seq(Tags)
        /\ IsInjective(Tail(freeTags)) /\ Range(Tail(freeTags)) = Range(freeTags) \ {t}
    BY <1>1, PopFront, Zenon
  <1>3. freeTags' = Tail(freeTags) /\ cmd' = [cmd EXCEPT ![t] = c]
    BY Routed, Zenon
  <1>0. Outcome(t, c, idx, posted)
    BY Routed, Zenon
  <1>4. Need(c) \in Nat /\ c \in Nat
    BY NeedNat, Zenon
  <1>5. /\ cmd \in [Tags -> Nat] /\ data \in [Tags -> Nat] /\ pages \in [Tags -> Nat]
        /\ state \in [Tags -> {"Free", "Receiving", "Ready", "Executing", "Responding"}]
    BY Zenon DEF RdmaTypeOK
  <1>6. cmd' \in [Tags -> Nat] /\ cmd'[t] = c /\ \A u \in Tags \ {t} : cmd'[u] = cmd[u]
    BY <1>2, <1>3, <1>4, <1>5, Zenon
  <1>7. pages' = pages \/ pages' = [pages EXCEPT ![t] = Need(c)]
    BY <1>0, Zenon DEF Outcome
  <1>8. pages' \in [Tags -> Nat] /\ \A u \in Tags \ {t} : pages'[u] = pages[u]
    BY <1>2, <1>4, <1>5, <1>7, Zenon
  <1>9. data' = data \/ data' = [data EXCEPT ![t] = c]
    <2>1. data' = data \/ (Inline(c) /\ data' = [data EXCEPT ![t] = buf[idx]])
      BY <1>0, Zenon DEF Outcome
    <2> QED BY <2>1, Zenon
  <1>10. data' \in [Tags -> Nat] /\ \A u \in Tags \ {t} : data'[u] = data[u]
    BY <1>2, <1>4, <1>5, <1>9, Zenon
  <1>11. PICK st \in {"Receiving", "Ready", "Responding"} :
           /\ state' = [state EXCEPT ![t] = st]
           /\ st = "Ready" => \/ Kind(c) \notin {"write", "inline"}
                              \/ data' = [data EXCEPT ![t] = c]
    <2>1. \/ state' = [state EXCEPT ![t] = "Receiving"]
          \/ state' = [state EXCEPT ![t] = "Responding"]
          \/ /\ state' = [state EXCEPT ![t] = "Ready"]
             /\ \/ Kind(c) \notin {"write", "inline"}
                \/ Inline(c) /\ data' = [data EXCEPT ![t] = buf[idx]]
      BY <1>0, Zenon DEF Outcome
    <2>2. Inline(c) /\ data' = [data EXCEPT ![t] = buf[idx]] => data' = [data EXCEPT ![t] = c]
      BY Zenon
    <2> QED BY <2>1, <2>2, Zenon
  <1>12. /\ state' \in [Tags -> {"Free", "Receiving", "Ready", "Executing", "Responding"}]
         /\ state'[t] = st /\ \A u \in Tags \ {t} : state'[u] = state[u]
    BY <1>2, <1>5, <1>11, Zenon
  <1>13. state'[t] = "Ready" /\ Kind(c) \in {"write", "inline"} => data'[t] = c
    BY <1>2, <1>5, <1>11, <1>12, Zenon
  <1> QED BY <1>1, <1>2, <1>3, <1>6, <1>8, <1>10, <1>11, <1>12, <1>13, Zenon

\* The lists the command may join, and what becomes of the capsule's buffer.
Joins(t, c, idx, posted) ==
  /\ t \notin Range(readBatch) /\ t \notin TagsOf(poolWait)
  /\ readBatch' \in Seq(Tags) /\ poolWait' \in Seq([tag : Tags, idx : Bufs])
  /\ responses' \in Seq(Responses)
  /\ OncePerTag(poolWait') /\ IsInjective(readBatch')
  /\ TagsOf(poolWait') \cap Range(readBatch') = {}
  /\ \A u \in TagsOf(poolWait') \cup Range(readBatch') :
       \/ u = t /\ state'[t] = "Receiving"
       \/ u # t /\ u \in TagsOf(poolWait) \cup Range(readBatch)
  /\ \/ responses' = responses
     \/ /\ responses' = Append(responses, [tag |-> t, data |-> FALSE])
        /\ state'[t] = "Responding"
  /\ \/ poolWait' = poolWait /\ rq' = IF Inline(c) THEN Append(posted, idx) ELSE posted
     \/ Range(poolWait') = Range(poolWait) \cup {[tag |-> t, idx |-> idx]} /\ rq' = posted

\* route_cmd queues the command's tag in one place.
LEMMA RoutedLists ==
  ASSUME RdmaTypeOK, DeferredOK, NEW t \in Tags, ~Active(t), NEW c, NEW idx \in Bufs,
         NEW posted, routeCmd(t, c, idx, posted)
  PROVE  Joins(t, c, idx, posted)
  <1> DEFINE e == [tag |-> t, idx |-> idx]
             r == [tag |-> t, data |-> FALSE]
  <1>1. /\ readBatch \in Seq(Tags) /\ poolWait \in Seq([tag : Tags, idx : Bufs])
        /\ responses \in Seq(Responses)
        /\ state \in [Tags -> {"Free", "Receiving", "Ready", "Executing", "Responding"}]
    BY Zenon DEF RdmaTypeOK
  <1>2. /\ OncePerTag(poolWait) /\ IsInjective(readBatch)
        /\ TagsOf(poolWait) \cap Range(readBatch) = {}
    BY Zenon DEF DeferredOK
  <1>3. t \notin Range(readBatch) /\ t \notin TagsOf(poolWait)
    BY Zenon DEF DeferredOK, Active
  <1>4. e \in [tag : Tags, idx : Bufs] /\ e.tag = t /\ r \in Responses
    BY Zenon DEF Responses
  <1>5. \A s : state' = [state EXCEPT ![t] = s] => state'[t] = s
    BY <1>1, Zenon
  <1>0. Outcome(t, c, idx, posted)
    BY Routed, Zenon
  <1>6. \/ UNCHANGED <<readBatch, poolWait, responses>>
        \/ /\ UNCHANGED <<poolWait, responses>> /\ readBatch' = Append(readBatch, t)
           /\ state' = [state EXCEPT ![t] = "Receiving"]
        \/ /\ UNCHANGED <<readBatch, poolWait>> /\ responses' = Append(responses, r)
           /\ state' = [state EXCEPT ![t] = "Responding"]
        \/ /\ UNCHANGED <<readBatch, responses>> /\ poolWait' = Append(poolWait, e)
           /\ state' = [state EXCEPT ![t] = "Receiving"]
    BY <1>0, Zenon DEF Outcome
  <1>7. \/ poolWait' = poolWait /\ rq' = IF Inline(c) THEN Append(posted, idx) ELSE posted
        \/ poolWait' = Append(poolWait, e) /\ rq' = posted
    BY <1>0, Zenon DEF Outcome
  <1> HIDE DEF e, r
  <1>8. /\ Append(readBatch, t) \in Seq(Tags) /\ IsInjective(Append(readBatch, t))
        /\ Range(Append(readBatch, t)) = Range(readBatch) \cup {t}
    BY <1>1, <1>2, <1>3, PushBack
  <1>9. /\ Append(poolWait, e) \in Seq([tag : Tags, idx : Bufs])
        /\ OncePerTag(Append(poolWait, e))
        /\ Range(Append(poolWait, e)) = Range(poolWait) \cup {e}
        /\ TagsOf(Append(poolWait, e)) = TagsOf(poolWait) \cup {t}
    <2> DEFINE W == [tag : Tags, idx : Bufs]
    <2>1. /\ poolWait \in Seq(W) /\ e \in W
          /\ OncePerTag(poolWait) /\ e.tag \notin TagsOf(poolWait)
      BY <1>1, <1>2, <1>3, <1>4, Zenon
    <2> HIDE DEF W
    <2>2. /\ Append(poolWait, e) \in Seq(W)
          /\ OncePerTag(Append(poolWait, e))
          /\ Range(Append(poolWait, e)) = Range(poolWait) \cup {e}
          /\ TagsOf(Append(poolWait, e)) = TagsOf(poolWait) \cup {e.tag}
      BY <2>1, TagsPush
    <2> QED BY <1>4, <2>2, Zenon DEF W
  <1>10. Append(responses, r) \in Seq(Responses)
    BY <1>1, <1>4, PushBack, Zenon
  <1>11. /\ readBatch' \in Seq(Tags) /\ poolWait' \in Seq([tag : Tags, idx : Bufs])
         /\ responses' \in Seq(Responses) /\ OncePerTag(poolWait') /\ IsInjective(readBatch')
    BY <1>1, <1>2, <1>6, <1>8, <1>9, <1>10, Zenon
  <1>12. /\ TagsOf(poolWait') \cap Range(readBatch') = {}
         /\ \A u \in TagsOf(poolWait') \cup Range(readBatch') :
              \/ u = t /\ state'[t] = "Receiving"
              \/ u # t /\ u \in TagsOf(poolWait) \cup Range(readBatch)
    <2>1. CASE UNCHANGED <<readBatch, poolWait>>
      BY <1>2, <1>3, <2>1, Zenon DEF TagsOf
    <2>2. CASE UNCHANGED poolWait /\ readBatch' = Append(readBatch, t) /\ state'[t] = "Receiving"
      BY <1>2, <1>3, <1>8, <2>2, Zenon DEF TagsOf
    <2>3. CASE UNCHANGED readBatch /\ poolWait' = Append(poolWait, e) /\ state'[t] = "Receiving"
      BY <1>2, <1>3, <1>9, <2>3, Zenon
    <2> QED BY <1>5, <1>6, <2>1, <2>2, <2>3, Zenon
  <1>13. \/ responses' = responses
         \/ responses' = Append(responses, r) /\ state'[t] = "Responding"
    BY <1>5, <1>6, Zenon
  <1>14. \/ poolWait' = poolWait /\ rq' = IF Inline(c) THEN Append(posted, idx) ELSE posted
         \/ Range(poolWait') = Range(poolWait) \cup {e} /\ rq' = posted
    BY <1>7, <1>9, Zenon
  <1> QED BY <1>3, <1>11, <1>12, <1>13, <1>14, Zenon DEF Joins, e, r

\* A buffer held by a command that has no tag yet.
Unrouted(i) == HeldArriving(i) \/ HeldParked(i)

\* The capsule's buffer is re-posted, or stays held with the payload in it.
LEMMA RoutedBuffer ==
  ASSUME RdmaTypeOK, BuffersOK, RingFull, DeferredOK, LinesOK', UNCHANGED <<script, qpUp, buf>>,
         NEW t \in Tags, ~Active(t), NEW c, NEW idx \in Bufs, NEW posted,
         Joins(t, c, idx, posted),
         cmd'[t] = c, \A u \in Tags \ {t} : cmd'[u] = cmd[u],
         \A u \in Tags : Active(u) => cmd[u] # c, \A w \in Recvs' : w.cmd # c,
         Range(parked') \subseteq Range(parked), c \notin CmdsOf(parked'),
         \A i : i # idx => (Unrouted(i)' <=> Unrouted(i)),
         Inline(c) => posted = rq /\ buf[idx] = c /\ Held(idx),
         ~Inline(c) => \/ posted = rq /\ (Unrouted(idx)' <=> Unrouted(idx))
                       \/ posted = Append(rq, idx) /\ buf[idx] = c /\ Held(idx)
  PROVE  rq' \in Seq(Bufs) /\ BuffersOK' /\ RingFull'
  <1> DEFINE new == [tag |-> t, idx |-> idx]
  <1>14. new.tag = t /\ new.idx = idx
    BY Zenon
  <1>15. \/ poolWait' = poolWait /\ rq' = IF Inline(c) THEN Append(posted, idx) ELSE posted
         \/ Range(poolWait') = Range(poolWait) \cup {new} /\ rq' = posted
    BY Zenon DEF Joins
  <1> HIDE DEF new
  <1>12. PICK e : /\ e.tag = t /\ e.idx = idx
                  /\ \/ poolWait' = poolWait /\ rq' = IF Inline(c) THEN Append(posted, idx) ELSE posted
                     \/ Range(poolWait') = Range(poolWait) \cup {e} /\ rq' = posted
    BY <1>14, <1>15, Zenon
  <1>1. \A x : Inline(x)' <=> Inline(x)
    BY Zenon DEF Inline, Kind
  <1>2. \A d \in Range(poolWait) :
          d.tag # t /\ cmd'[d.tag] = cmd[d.tag] /\ cmd'[d.tag] # c
    <2> SUFFICES ASSUME NEW d \in Range(poolWait)
                 PROVE  d.tag # t /\ cmd'[d.tag] = cmd[d.tag] /\ cmd'[d.tag] # c
      BY Zenon
    <2>1. d.tag \in Tags /\ state[d.tag] = "Receiving"
      BY ListsTyped, Zenon DEF DeferredOK, TagsOf
    <2>2. Active(d.tag) /\ d.tag # t
      BY <2>1, Zenon DEF Active
    <2>3. d.tag \in Tags \ {t}
      BY <2>1, <2>2, Zenon
    <2>4. cmd'[d.tag] = cmd[d.tag]
      BY <2>3, Zenon
    <2> QED BY <2>1, <2>2, <2>4, Zenon
  <1>3. \A d \in Range(parked') : d.cmd # c /\ (Inline(d.cmd) => buf[d.idx] = d.cmd)
    BY Zenon DEF CmdsOf, BuffersOK
  <1>4. \A d \in Range(poolWait') : d \in Range(poolWait) \/ d = e
    BY <1>12, Zenon
  <1>5. \A d \in Range(poolWait') : Inline(cmd'[d.tag]) => buf[d.idx] = cmd'[d.tag]
    <2>1. \A d \in Range(poolWait) : Inline(cmd[d.tag]) => buf[d.idx] = cmd[d.tag]
      BY Zenon DEF BuffersOK
    <2> QED BY <1>2, <1>4, <1>12, <2>1, Zenon
  <1>6. \A d \in Range(poolWait) : d \in Range(poolWait')
    BY <1>12, Zenon
  <1>7. \A i : i # idx \/ ~Inline(c) => (HeldWaiting(i)' <=> HeldWaiting(i))
    <2> SUFFICES ASSUME NEW i, i # idx \/ ~Inline(c)
                 PROVE  HeldWaiting(i)' <=> HeldWaiting(i)
      BY Zenon
    <2>1. ASSUME HeldWaiting(i) PROVE HeldWaiting(i)'
      BY <1>1, <1>2, <1>6, <2>1, Zenon DEF HeldWaiting
    <2>2. ASSUME HeldWaiting(i)' PROVE HeldWaiting(i)
      BY <1>1, <1>2, <1>4, <1>12, <2>2, Zenon DEF HeldWaiting
    <2> QED BY <2>1, <2>2, Zenon
  <1>8. /\ \A i : Held(i)' <=> Unrouted(i)' \/ HeldWaiting(i)'
        /\ \A i : Held(i) <=> Unrouted(i) \/ HeldWaiting(i)
    BY Zenon DEF Held, Unrouted
  <1>9. \A i : i # idx => (Held(i)' <=> Held(i))
    BY <1>7, <1>8, Zenon
  <1>10. buf[idx] = c /\ (poolWait' = poolWait \/ ~Inline(c)) => ~Held(idx)'
    <2> SUFFICES ASSUME buf[idx] = c, poolWait' = poolWait \/ ~Inline(c) PROVE ~Held(idx)'
      BY Zenon
    <2>1. \A d \in Range(poolWait') :
            Inline(cmd'[d.tag]) => buf[d.idx] = cmd'[d.tag] /\ cmd'[d.tag] # c
      BY <1>2, <1>4, <1>5, <1>12, Zenon
    <2> QED BY <1>3, <2>1, FreshBuffer, Zenon
  <1>11. \/ rq' = rq /\ (Held(idx)' <=> Held(idx))
         \/ rq' = Append(rq, idx) /\ Held(idx) /\ ~Held(idx)'
    <2>1. CASE Inline(c) /\ poolWait' = poolWait /\ rq' = Append(posted, idx)
      BY <1>10, <2>1, Zenon
    <2>2. CASE Inline(c) /\ Range(poolWait') = Range(poolWait) \cup {e} /\ rq' = posted
      <3>1. e \in Range(poolWait') /\ e.idx = idx /\ Inline(cmd[e.tag])'
        BY <1>1, <1>12, <2>2, Zenon
      <3>2. HeldWaiting(idx)'
        BY <3>1, Zenon DEF HeldWaiting
      <3> QED BY <1>8, <2>2, <3>2, Zenon
    <2>3. CASE ~Inline(c) /\ posted = rq /\ (Unrouted(idx)' <=> Unrouted(idx))
      BY <1>7, <1>8, <1>12, <2>3, Zenon
    <2>4. CASE ~Inline(c) /\ posted = Append(rq, idx) /\ buf[idx] = c /\ Held(idx)
      BY <1>10, <1>12, <2>4, Zenon
    <2> QED BY <1>12, <2>1, <2>2, <2>3, <2>4, Zenon
  <1> QED BY <1>3, <1>5, <1>9, <1>11, BuffersPlaced, Zenon

\* A command on its way to the tag: it leaves the place where it waited, an
\* arrival or the parking lot, and nothing else moves.
Leaving(t, c, idx, posted) ==
  /\ freeTags # << >> /\ t = Head(freeTags) /\ phase = "steady" /\ phase' = phase /\ c \in 1 .. sent
  /\ UNCHANGED <<script, depth, sent, answered, buf, batch, chain, sq, unacked, cq, staged>>
  /\ UNCHANGED <<qpUp, thread, armed, ring, lost>> /\ (pc' = pc \/ pc' # "comps")
  /\ comps' \in Seq(WorkRequests) /\ HandOK' /\ LinesOK'
  /\ ToDo' = ToDo /\ Done' \subseteq Done /\ Wrs' \subseteq Wrs
  /\ c \notin answered /\ \A u \in Tags : Active(u) => cmd[u] # c
  /\ \A w \in Recvs' : w.cmd # c
  /\ parked' \in Seq([cmd : Nat, idx : Bufs]) /\ OncePerCmd(parked')
  /\ CmdsOf(parked') \subseteq CmdsOf(parked) \ {c} /\ Range(parked') \subseteq Range(parked)
  /\ \A i : i # idx => (Unrouted(i)' <=> Unrouted(i))
  /\ Inline(c) => posted = rq /\ buf[idx] = c /\ Held(idx)
  /\ ~Inline(c) => \/ posted = rq /\ \A i : i = idx => (Unrouted(i)' <=> Unrouted(i))
                   \/ posted = Append(rq, idx) /\ buf[idx] = c /\ Held(idx)

\* It goes into the slot, and as it waited in one place the slot is now its only
\* one.
LEMMA RouteInv ==
  ASSUME RdmaInv, NEW t, NEW c, NEW idx \in Bufs,
         NEW posted, routeCmd(t, c, idx, posted), Leaving(t, c, idx, posted)
  PROVE  RdmaInv'
  <1>1. /\ RdmaTypeOK /\ SlotsOK /\ SleepOK /\ DepthOK
        /\ BuffersOK /\ RingFull /\ ServingOK /\ DeferredOK /\ WrsOwned
    BY Zenon DEF RdmaInv, ServingOK, Leaving
  <1>2. /\ UNCHANGED <<script, sent, answered, task, inflight, resp, batch, chain, sq>>
        /\ c \in 1 .. sent /\ (Inline(c) => buf[idx] = c)
    BY Routed, Zenon DEF Leaving
  <1>4. /\ t \in Tags /\ state[t] = "Free" /\ ~Active(t)
        /\ freeTags' \in Seq(Tags) /\ IsInjective(freeTags')
        /\ Range(freeTags') \subseteq Range(freeTags) \ {t}
        /\ cmd' \in [Tags -> Nat] /\ data' \in [Tags -> Nat] /\ pages' \in [Tags -> Nat]
        /\ state' \in [Tags -> {"Free", "Receiving", "Ready", "Executing", "Responding"}]
        /\ \A u \in Tags \ {t} : /\ state'[u] = state[u] /\ cmd'[u] = cmd[u]
                                 /\ data'[u] = data[u] /\ pages'[u] = pages[u]
        /\ cmd'[t] = c /\ state'[t] \in {"Receiving", "Ready", "Responding"}
        /\ state'[t] = "Ready" /\ Kind(c) \in {"write", "inline"} => data'[t] = c
    <2>1. freeTags # << >> /\ t = Head(freeTags)
      BY Zenon DEF Leaving
    <2> QED BY <1>1, <1>2, <2>1, RoutedSlot, Zenon DEF Active
  <1>5. Joins(t, c, idx, posted)
    BY <1>1, <1>4, RoutedLists, Zenon
  <1>6. rq' \in Seq(Bufs) /\ BuffersOK' /\ RingFull'
    <2>1. /\ UNCHANGED <<script, qpUp, buf>> /\ c \notin CmdsOf(parked') /\ LinesOK'
          /\ \A u \in Tags : Active(u) => cmd[u] # c
          /\ \A w \in Recvs' : w.cmd # c
          /\ Range(parked') \subseteq Range(parked)
          /\ \A i : i # idx => (Unrouted(i)' <=> Unrouted(i))
          /\ Inline(c) => posted = rq /\ buf[idx] = c /\ Held(idx)
          /\ ~Inline(c) => \/ posted = rq /\ (Unrouted(idx)' <=> Unrouted(idx))
                           \/ posted = Append(rq, idx) /\ buf[idx] = c /\ Held(idx)
      BY Zenon DEF Leaving
    <2>2. /\ cmd'[t] = c /\ \A u \in Tags \ {t} : cmd'[u] = cmd[u]
          /\ t \in Tags /\ ~Active(t)
      BY <1>4, Zenon
    <2> QED BY <1>1, <1>5, <2>1, <2>2, RoutedBuffer, Zenon
  <1>7. RdmaTypeOK'
    <2>1. /\ UNCHANGED <<script, depth, sent, answered, buf, batch, chain, sq, unacked, cq>>
          /\ UNCHANGED <<staged, lost, phase>> /\ comps' \in Seq(WorkRequests)
          /\ parked' \in Seq([cmd : Nat, idx : Bufs])
      BY Zenon DEF Leaving
    <2> QED BY <1>1, <1>2, <1>4, <1>5, <1>6, <2>1, Zenon DEF Joins, RdmaTypeOK
  <1>8. DepthOK' /\ SleepOK' /\ HandOK' /\ LinesOK'
    BY <1>1, SleepKept, Zenon DEF DepthOK, Conforming, Leaving
  <1>9. Quiet(t)
    <2>1. state[t] \in {"Free", "Ready", "Executing"}
      BY <1>4, Zenon
    <2> QED BY <1>1, <2>1, QuietTag
  <1>10. SlotsOK' /\ ServingOK'
    <2>1. /\ phase = "steady" /\ ToDo' = ToDo /\ Done' \subseteq Done /\ Wrs' \subseteq Wrs
          /\ c \notin answered /\ \A u \in Tags \ {t} : Active(u) => cmd[u] # c
          /\ \A w \in Recvs' : w.cmd # c
          /\ OncePerCmd(parked') /\ CmdsOf(parked') \subseteq CmdsOf(parked) \ {c}
      BY Zenon DEF Leaving
    <2>2. state[t] \in {"Free", "Receiving"}
      BY <1>4, Zenon
    <2>3. /\ t \notin Range(readBatch) /\ OncePerTag(poolWait') /\ IsInjective(readBatch')
          /\ TagsOf(poolWait') \cap Range(readBatch') = {}
          /\ \A u \in TagsOf(poolWait') \cup Range(readBatch') :
               \/ u = t /\ state'[t] = "Receiving"
               \/ u # t /\ u \in TagsOf(poolWait) \cup Range(readBatch)
          /\ \/ responses' = responses
             \/ /\ responses' = Append(responses, [tag |-> t, data |-> FALSE])
                /\ state'[t] = "Responding"
      BY <1>5, Zenon DEF Joins
    <2> QED BY <1>2, <1>4, <1>7, <1>9, <2>1, <2>2, <2>3, Placed, Zenon
  <1>11. phase' = "steady"
    BY Zenon DEF Leaving
  <1> QED BY <1>6, <1>7, <1>8, <1>10, <1>11, Zenon DEF RdmaInv

\* The oldest parked command takes a freed tag.
LEMMA UnparkInv ==
  ASSUME RdmaInv, Unpark
  PROVE  RdmaInv'
  <1>1. /\ UNCHANGED <<phase, script, depth, sent, answered, buf, batch, chain, sq, unacked>>
        /\ UNCHANGED <<cq, staged, comps, wants, qpUp, thread, armed, ring, lost>>
        /\ phase = "steady" /\ comps = << >>
        /\ \/ /\ parked # << >> /\ freeTags # << >> /\ pc' = "unpark" /\ parked' = Tail(parked)
              /\ routeCmd(Head(freeTags), Head(parked).cmd, Head(parked).idx, rq)
           \/ pc' = "flush" /\ UNCHANGED <<rq, slots, responses, parked, poolWait, readBatch>>
    BY Zenon DEF Unpark, Looping, host, wakeups
  <1>2. /\ RdmaTypeOK /\ SlotsOK /\ SleepOK
        /\ LinesOK /\ BuffersOK /\ HandOK /\ CommandsOK /\ AnsweredOK
    BY <1>1, Zenon DEF RdmaInv, ServingOK
  <1>3. pc' # "comps" /\ HandOK'
    BY <1>1, Zenon DEF HandOK
  <1>4. CASE UNCHANGED <<rq, slots, responses, parked, poolWait, readBatch>>
    <2>1. SleepOK'
      BY <1>1, <1>2, <1>3, SleepKept, Zenon
    <2>2. UNCHANGED <<state, cmd, data, pages, freeTags, inflight, resp, task>>
      BY <1>4, Zenon DEF slots
    <2> QED BY <1>1, <1>3, <1>4, <2>1, <2>2, OnlyControl, Zenon
  <1>5. CASE /\ parked # << >> /\ freeTags # << >> /\ parked' = Tail(parked)
             /\ routeCmd(Head(freeTags), Head(parked).cmd, Head(parked).idx, rq)
    <2>1. PICK e, t : e = Head(parked) /\ t = Head(freeTags)
      BY Zenon
    <2>2. /\ parked' \in Seq([cmd : Nat, idx : Bufs]) /\ OncePerCmd(parked')
          /\ e \in Range(parked) /\ Range(parked') = Range(parked) \ {e}
          /\ CmdsOf(parked') = CmdsOf(parked) \ {e.cmd} /\ e.cmd \in CmdsOf(parked)
      <3>1. parked \in Seq([cmd : Nat, idx : Bufs]) /\ OncePerCmd(parked)
        BY <1>2, Zenon DEF RdmaTypeOK, CommandsOK
      <3> QED BY <1>5, <2>1, <3>1, CmdsPop, Zenon
    <2>3. e.idx \in Bufs
      BY <1>2, <2>2, ListsTyped, Zenon
    <2>4. ToDo' = ToDo /\ Done' = Done /\ Wrs' = Wrs /\ Recvs' = Recvs
      BY <1>1, Zenon DEF ToDo, Done, Wrs, Recvs
    <2>5. LinesOK'
      BY <1>1, <1>2, <2>4, Zenon DEF LinesOK, LinesApart, RecvWr
    <2>6. /\ e.cmd \in 1 .. sent /\ e.cmd \notin answered
          /\ \A u \in Tags : Active(u) => cmd[u] # e.cmd
          /\ \A w \in Recvs' : w.cmd # e.cmd
      BY <1>2, <2>2, <2>4, Zenon DEF CommandsOK, AnsweredOK
    <2>7. \A x : Inline(x)' <=> Inline(x)
      BY <1>1, Zenon DEF Inline, Kind
    <2>8. \A i : i # e.idx \/ ~Inline(e.cmd) => (Unrouted(i)' <=> Unrouted(i))
      <3>1. \A i : HeldArriving(i)' <=> HeldArriving(i)
        BY <2>4, Zenon DEF HeldArriving
      <3>2. \A i : i # e.idx \/ ~Inline(e.cmd) => (HeldParked(i)' <=> HeldParked(i))
        BY <2>2, <2>7, Zenon DEF HeldParked
      <3> QED BY <3>1, <3>2, Zenon DEF Unrouted
    <2>9. Inline(e.cmd) => buf[e.idx] = e.cmd /\ Held(e.idx)
      BY <1>2, <2>2, Zenon DEF BuffersOK, Held, HeldParked
    <2>10. comps' \in Seq(WorkRequests)
      BY <1>1, EmptyList, Zenon
    <2>11. Leaving(t, e.cmd, e.idx, rq)
      <3>1. /\ freeTags # << >> /\ t = Head(freeTags) /\ phase = "steady" /\ phase' = phase
            /\ UNCHANGED <<script, depth, sent, answered, buf, batch, chain, sq, unacked, cq>>
            /\ UNCHANGED <<staged, qpUp, thread, armed, ring, lost>>
        BY <1>1, <1>5, <2>1, Zenon
      <3>2. /\ ToDo' = ToDo /\ Done' \subseteq Done /\ Wrs' \subseteq Wrs
            /\ CmdsOf(parked') \subseteq CmdsOf(parked) \ {e.cmd}
            /\ Range(parked') \subseteq Range(parked)
        BY <2>2, <2>4, Zenon
      <3> QED BY <1>3, <2>2, <2>5, <2>6, <2>8, <2>9, <2>10, <3>1, <3>2, Zenon DEF Leaving
    <2>12. routeCmd(t, e.cmd, e.idx, rq)
      BY <1>5, <2>1, Zenon
    <2> QED BY <2>3, <2>11, <2>12, RouteInv, Zenon
  <1> QED BY <1>1, <1>4, <1>5, Zenon

\* The capsule in hand: the command it carries is nowhere else.
LEMMA Arrived ==
  ASSUME RdmaInv, Processing, comps' = Tail(comps),
         UNCHANGED <<script, sent, chain, sq, unacked, cq, staged, buf>>,
         NEW w, w = Head(comps), w.kind = "Recv"
  PROVE  /\ comps' \in Seq(WorkRequests) /\ w.low \in Bufs /\ w.cmd = buf[w.low] /\ w \in Recvs
         /\ ToDo' = ToDo /\ Done' \subseteq Done /\ Wrs' \subseteq Wrs
         /\ Recvs' = Recvs \ {w} /\ LinesOK' /\ \A u : Quiet(u) => Quiet(u)'
         /\ w.cmd \in 1 .. sent /\ w.cmd \notin answered /\ w.cmd \notin CmdsOf(parked)
         /\ \A u \in Tags : Active(u) => cmd[u] # w.cmd
         /\ \A v \in Recvs' : v.cmd # w.cmd
         /\ \A i : i # w.low => (HeldArriving(i)' <=> HeldArriving(i))
         /\ HeldArriving(w.low)
  <1>1. LinesOK /\ CommandsOK /\ AnsweredOK
    BY Zenon DEF RdmaInv, ServingOK, Processing, Looping
  <1>2. /\ comps' \in Seq(WorkRequests) /\ w \in Wrs
        /\ ToDo' = ToDo /\ Done' = Done \ {w} /\ Wrs' = Wrs \ {w}
        /\ Recvs' = Recvs \ {w} /\ LinesOK' /\ \A u : Quiet(u) => Quiet(u)'
    BY Popped, Zenon
  <1>3. w \in Recvs
    BY <1>2, Zenon DEF Recvs
  <1>4. w.low \in Bufs /\ w = WrId("Recv", w.low, buf[w.low], 1)
    BY <1>1, <1>3, Zenon DEF LinesOK, RecvWr
  <1>5. w.cmd = buf[w.low]
    BY <1>4 DEF WrId
  <1>6. /\ w.cmd \in 1 .. sent /\ w.cmd \notin answered /\ w.cmd \notin CmdsOf(parked)
        /\ \A u \in Tags : Active(u) => cmd[u] # w.cmd
    BY <1>1, <1>3, Zenon DEF CommandsOK, AnsweredOK
  <1>7. \A v \in Recvs' : v.cmd # w.cmd
    BY <1>1, <1>2, <1>3, Zenon DEF CommandsOK
  <1>8. \A i : i # w.low => (HeldArriving(i)' <=> HeldArriving(i))
    BY <1>2, Zenon DEF HeldArriving
  <1>9. HeldArriving(w.low)
    BY <1>3, Zenon DEF HeldArriving
  <1>10. Done' \subseteq Done /\ Wrs' \subseteq Wrs
    BY <1>2, Zenon
  <1> QED BY <1>2, <1>3, <1>4, <1>5, <1>6, <1>7, <1>8, <1>9, <1>10, Zenon

\* Every tag is taken: the command waits in the parking lot.
LEMMA ParksInv ==
  ASSUME RdmaInv, OnRecv, freeTags = << >>
  PROVE  RdmaInv'
  <1>1. PICK w : w = Head(comps)
    BY Zenon
  <1>2. PICK idx, c : idx = w.low /\ c = w.cmd
    BY Zenon
  <1>3. /\ phase' = phase /\ UNCHANGED <<script, depth, sent, answered, buf, batch>>
        /\ UNCHANGED <<chain, sq, unacked, cq, staged>>
        /\ UNCHANGED <<qpUp, thread, armed, ring, lost, pc>>
        /\ Processing /\ w.kind = "Recv" /\ phase = "steady" /\ pc = "comps"
        /\ comps' = Tail(comps)
    BY <1>1, Zenon DEF OnRecv, Processing, Looping, host, wakeups
  <1>4. /\ UNCHANGED <<state, task, cmd, data, pages, freeTags, inflight, resp>>
        /\ UNCHANGED <<responses, poolWait, readBatch>>
        /\ parked' = Append(parked, [cmd |-> buf[idx], idx |-> idx])
        /\ rq' = IF Inline(buf[idx]) THEN rq ELSE Append(rq, idx)
    BY <1>1, <1>2, Zenon DEF OnRecv, holdsCapsule, postRecv, slots
  <1>5. /\ RdmaTypeOK /\ SlotsOK /\ SleepOK /\ DepthOK
        /\ LinesOK /\ BuffersOK /\ RingFull /\ HandOK /\ ServingOK
    BY <1>3, Zenon DEF RdmaInv
  <1>6. /\ comps' \in Seq(WorkRequests) /\ idx \in Bufs /\ c = buf[idx]
        /\ ToDo' = ToDo /\ Done' \subseteq Done /\ Wrs' \subseteq Wrs
        /\ Recvs' = Recvs \ {w} /\ LinesOK' /\ \A u : Quiet(u) => Quiet(u)'
        /\ c \in 1 .. sent /\ c \notin answered /\ c \notin CmdsOf(parked)
        /\ \A u \in Tags : Active(u) => cmd[u] # c
        /\ \A v \in Recvs' : v.cmd # c
        /\ \A i : i # idx => (HeldArriving(i)' <=> HeldArriving(i))
        /\ HeldArriving(idx)
    BY <1>1, <1>2, <1>3, Arrived, Zenon
  <1>7. PICK e : e = [cmd |-> c, idx |-> idx]
    BY Zenon
  <1>8. e.cmd = c /\ e.idx = idx /\ e \in [cmd : Nat, idx : Bufs]
    BY <1>6, <1>7
  <1>9. /\ parked' \in Seq([cmd : Nat, idx : Bufs]) /\ OncePerCmd(parked')
        /\ Range(parked') = Range(parked) \cup {e}
        /\ CmdsOf(parked') = CmdsOf(parked) \cup {c}
    <2> DEFINE W == [cmd : Nat, idx : Bufs]
    <2>1. /\ parked \in Seq(W) /\ OncePerCmd(parked) /\ e \in W /\ e.cmd \notin CmdsOf(parked)
          /\ parked' = Append(parked, e)
      BY <1>4, <1>5, <1>6, <1>7, <1>8, Zenon DEF RdmaTypeOK, ServingOK, CommandsOK
    <2> HIDE DEF W
    <2>2. /\ Append(parked, e) \in Seq(W) /\ OncePerCmd(Append(parked, e))
          /\ Range(Append(parked, e)) = Range(parked) \cup {e}
          /\ CmdsOf(Append(parked, e)) = CmdsOf(parked) \cup {e.cmd}
      BY <2>1, CmdsPush
    <2> QED BY <1>8, <2>1, <2>2, Zenon DEF W
  \* The buffer.
  <1>10. \A x : Inline(x)' <=> Inline(x)
    BY <1>3, Zenon DEF Inline, Kind
  <1>11. \A d \in Range(poolWait) : cmd[d.tag] # c
    <2>1. \A d \in Range(poolWait) : d.tag \in Tags /\ state[d.tag] = "Receiving"
      BY <1>5, ListsTyped, Zenon DEF ServingOK, DeferredOK, TagsOf
    <2>2. \A d \in Range(poolWait) : Active(d.tag)
      BY <2>1, Zenon DEF Active
    <2> QED BY <1>6, <2>1, <2>2, Zenon
  <1>12. /\ \A d \in Range(parked') : Inline(d.cmd) => buf[d.idx] = d.cmd
         /\ \A d \in Range(poolWait') : Inline(cmd'[d.tag]) =>
              buf[d.idx] = cmd'[d.tag] /\ cmd'[d.tag] # c
         /\ ~Inline(c) => \A d \in Range(parked') : Inline(d.cmd) => d.cmd # c
    BY <1>4, <1>5, <1>6, <1>8, <1>9, <1>11, Zenon DEF BuffersOK
  <1>13. \A i : HeldWaiting(i)' <=> HeldWaiting(i)
    BY <1>4, <1>10, Zenon DEF HeldWaiting
  <1>14. /\ \A i : i # idx => (HeldParked(i)' <=> HeldParked(i))
         /\ Inline(c) => HeldParked(idx)'
    BY <1>8, <1>9, <1>10, Zenon DEF HeldParked
  <1>15. /\ \A i : i # idx => (Held(i)' <=> Held(i))
         /\ Held(idx) /\ (Inline(c) => Held(idx)')
    BY <1>6, <1>13, <1>14, Zenon DEF Held
  <1>16. UNCHANGED <<script, qpUp, buf>>
    BY <1>3, Zenon
  <1>17. ~Inline(c) => ~Held(idx)'
    BY <1>6, <1>12, <1>16, FreshBuffer, Zenon
  <1>18. rq' \in Seq(Bufs) /\ BuffersOK' /\ RingFull'
    <2>1. \/ rq' = rq /\ (Held(idx)' <=> Held(idx))
          \/ rq' = Append(rq, idx) /\ Held(idx) /\ ~Held(idx)'
      BY <1>4, <1>6, <1>15, <1>17, Zenon
    <2>2. \A d \in Range(poolWait') : Inline(cmd'[d.tag]) => buf[d.idx] = cmd'[d.tag]
      BY <1>12, Zenon
    <2> QED BY <1>5, <1>6, <1>12, <1>15, <1>16, <2>1, <2>2, BuffersPlaced, Zenon
  <1>19. RdmaTypeOK'
    BY <1>3, <1>4, <1>5, <1>6, <1>9, <1>18, Zenon DEF RdmaTypeOK
  <1>20. SlotsOK' /\ DepthOK' /\ SleepOK' /\ HandOK'
    BY <1>3, <1>4, <1>5, SlotsKept, SleepKept, Zenon DEF DepthOK, Conforming, HandOK
  \* What is served.
  <1>21. WrsOwned' /\ ReadsFilled' /\ SendFollows(chain)' /\ SendFollows(sq)'
    BY <1>3, <1>4, <1>5, <1>6, Zenon DEF ServingOK, WrsOwned, Owned, ReadsFilled, ReadWr, SendWr,
       WriteWr, DataWr, WrId
  <1>22. DeferredOK'
    BY <1>4, <1>5, <1>6, Zenon DEF ServingOK, DeferredOK, TagsOf
  <1>23. ResponsesOK'
    BY <1>3, <1>4, <1>5, <1>6, Zenon DEF ServingOK, ResponsesOK, TagsOf, Answering
  <1>24. \A u : Active(u)' <=> Active(u)
    BY <1>4, Zenon DEF Active
  <1>25. CommandsOK'
    BY <1>3, <1>4, <1>5, <1>6, <1>9, <1>24, Zenon DEF ServingOK, CommandsOK
  <1>26. AnsweredOK'
    BY <1>3, <1>4, <1>5, <1>6, <1>9, Zenon DEF ServingOK, AnsweredOK
  <1>27. ServingOK' /\ phase' = "steady"
    BY <1>3, <1>21, <1>22, <1>23, <1>25, <1>26, Zenon DEF ServingOK
  <1> QED BY <1>6, <1>18, <1>19, <1>20, <1>27, Zenon DEF RdmaInv

\* The completion of a RECV: a command arrives.
LEMMA OnRecvInv ==
  ASSUME RdmaInv, OnRecv
  PROVE  RdmaInv'
  <1>1. CASE freeTags = << >>
    BY <1>1, ParksInv, Zenon
  <1>2. CASE freeTags # << >>
    <2>1. PICK w, t : w = Head(comps) /\ t = Head(freeTags)
      BY Zenon
    <2>2. PICK idx, c : idx = w.low /\ c = w.cmd
      BY Zenon
    <2>3. /\ phase' = phase /\ UNCHANGED <<script, depth, sent, answered, buf, batch>>
          /\ UNCHANGED <<chain, sq, unacked, cq, staged>>
          /\ UNCHANGED <<qpUp, thread, armed, ring, lost, pc>>
          /\ Processing /\ w.kind = "Recv" /\ phase = "steady" /\ pc = "comps"
          /\ comps' = Tail(comps)
      BY <2>1, Zenon DEF OnRecv, Processing, Looping, host, wakeups
    <2>4. PICK posted : /\ posted = IF Inline(buf[idx]) THEN rq ELSE Append(rq, idx)
                        /\ routeCmd(t, buf[idx], idx, posted) /\ UNCHANGED parked
      BY <1>2, <2>1, <2>2, Zenon DEF OnRecv, holdsCapsule, postRecv
    <2>5. /\ comps' \in Seq(WorkRequests) /\ idx \in Bufs /\ c = buf[idx]
          /\ ToDo' = ToDo /\ Done' \subseteq Done /\ Wrs' \subseteq Wrs /\ LinesOK'
          /\ c \in 1 .. sent /\ c \notin answered /\ c \notin CmdsOf(parked)
          /\ \A u \in Tags : Active(u) => cmd[u] # c
          /\ \A v \in Recvs' : v.cmd # c
          /\ \A i : i # idx => (HeldArriving(i)' <=> HeldArriving(i))
          /\ HeldArriving(idx)
      BY <2>1, <2>2, <2>3, Arrived, Zenon
    <2>6. /\ parked' \in Seq([cmd : Nat, idx : Bufs]) /\ OncePerCmd(parked')
          /\ CmdsOf(parked') \subseteq CmdsOf(parked) \ {c} /\ Range(parked') \subseteq Range(parked)
      <3>1. RdmaTypeOK /\ CommandsOK
        BY <2>3, Zenon DEF RdmaInv, ServingOK
      <3>2. parked \in Seq([cmd : Nat, idx : Bufs]) /\ OncePerCmd(parked)
        BY <3>1, Zenon DEF RdmaTypeOK, CommandsOK
      <3> QED BY <2>4, <2>5, <3>2, Zenon
    <2>7. \A i : i # idx => (Unrouted(i)' <=> Unrouted(i))
      <3>1. \A i : HeldParked(i)' <=> HeldParked(i)
        BY <2>3, <2>4, Zenon DEF HeldParked, Inline, Kind
      <3> QED BY <2>5, <3>1, Zenon DEF Unrouted
    <2>8. /\ Inline(c) => posted = rq /\ buf[idx] = c /\ Held(idx)
          /\ ~Inline(c) => posted = Append(rq, idx) /\ buf[idx] = c /\ Held(idx)
      BY <2>4, <2>5, Zenon DEF Held
    <2>9. HandOK'
      BY <2>3, Zenon DEF HandOK
    <2>10. Leaving(t, c, idx, posted)
      <3>1. /\ freeTags # << >> /\ t = Head(freeTags) /\ phase = "steady" /\ phase' = phase
            /\ UNCHANGED <<script, depth, sent, answered, buf, batch, chain, sq, unacked, cq>>
            /\ UNCHANGED <<staged, qpUp, thread, armed, ring, lost, pc>>
        BY <1>2, <2>1, <2>3, Zenon
      <3> QED BY <2>5, <2>6, <2>7, <2>8, <2>9, <3>1, Zenon DEF Leaving
    <2>11. routeCmd(t, c, idx, posted)
      BY <2>4, <2>5, Zenon
    <2> QED BY <2>5, <2>10, <2>11, RouteInv, Zenon
  <1> QED BY <1>1, <1>2, Zenon

-----------------------------------------------------------------------------
(* await_bootstrap found the Connect capsule, or the READ of its data.     *)

\* It is the only work request of the queue.
LEMMA BootFound ==
  ASSUME RdmaInv, phase = "boot", cq # << >>, NEW w, w = Head(cq), w.ok
  PROVE  /\ sq = << >> /\ unacked = << >> /\ sent = 1
         /\ Wrs = {w} /\ w \in WorkRequests /\ w.cmd \in 1 .. sent
  <1>1. RdmaTypeOK /\ BootOK
    BY Zenon DEF RdmaInv
  <1>2. cq \in Seq(WorkRequests) /\ \A i \in DOMAIN cq : cq[i].ok => i = 1
    BY <1>1, Zenon DEF RdmaTypeOK, BootOK
  <1>3. 1 \in DOMAIN cq /\ cq[1] = w /\ w \in WorkRequests
    BY <1>2
  <1>4. Okay(cq) = {w}
    BY <1>2, <1>3, Zenon DEF Okay, Range
  <1>5. sq = << >> /\ unacked = << >> /\ sent = 1
    BY <1>1, <1>4, Zenon DEF BootOK
  <1>6. Okay(sq) = {} /\ Okay(unacked) = {} /\ Okay(chain) = {} /\ Okay(staged) = {} /\ Okay(comps) = {}
    BY <1>1, <1>5, OkayEmpty, Zenon DEF BootOK
  <1>7. Wrs = {w}
    BY <1>4, <1>6, Zenon DEF Wrs, ToDo, Done
  <1>8. w.cmd \in 1 .. sent
    BY <1>1, <1>7, Zenon DEF BootOK
  <1> QED BY <1>3, <1>5, <1>7, <1>8, Zenon

\* What it posts next is the only one again.
LEMMA BootPosts ==
  ASSUME NEW v \in WorkRequests, v.ok, v.kind # "Recv", sq' = Append(<< >>, v),
         unacked' = << >>, chain' = << >>, staged' = << >>, comps' = << >>, cq' = << >>
  PROVE  /\ sq' \in Seq(WorkRequests) /\ sq' = <<v>> /\ Len(sq') = 1 /\ Range(sq') = {v}
         /\ ToDo' = {v} /\ Done' = {} /\ Wrs' = {v} /\ Recvs' = {} /\ LinesOK'
         /\ Okay(cq') = {}
  <1>1. /\ sq' = <<v>> /\ sq' \in Seq(WorkRequests) /\ Distinct(sq') /\ Okay(sq') = {v}
        /\ AllOkay(sq') /\ Len(sq') = 1
    BY OneCompletion, Zenon
  <1>2. Range(sq') = {v}
    BY <1>1, OneElement, Zenon
  <1>3. \A s : s = << >> => s \in Seq(WorkRequests) /\ Distinct(s) /\ Okay(s) = {} /\ AllOkay(s)
    BY OkayEmpty, Zenon
  <1>4. /\ Okay(chain') = {} /\ Okay(unacked') = {} /\ Okay(cq') = {} /\ Okay(staged') = {}
        /\ Okay(comps') = {}
        /\ Distinct(chain') /\ Distinct(unacked') /\ Distinct(cq') /\ Distinct(staged')
        /\ Distinct(comps') /\ AllOkay(chain') /\ AllOkay(unacked')
    BY <1>3, Zenon
  <1>5. ToDo' = {v} /\ Done' = {} /\ Wrs' = {v}
    BY <1>1, <1>4, Zenon DEF ToDo, Done, Wrs
  <1>6. Recvs' = {}
    BY <1>5, Zenon DEF Recvs
  <1>7. LinesApart'
    BY <1>4, Zenon DEF LinesApart
  <1>8. LinesOK'
    BY <1>1, <1>4, <1>6, <1>7, Zenon DEF LinesOK
  <1> QED BY <1>1, <1>2, <1>4, <1>5, <1>6, <1>8, Zenon

\* The capsule's buffer goes back to the ring.
LEMMA BootBuffers ==
  ASSUME RdmaTypeOK, BuffersOK, RingFull, UNCHANGED <<script, qpUp, buf>>, Recvs' = {},
         parked = << >>, parked' = << >>, poolWait = << >>, poolWait' = << >>,
         \/ rq' = rq /\ Recvs = {}
         \/ \E w : Recvs = {w} /\ w.low \in Bufs /\ rq' = Append(rq, w.low)
  PROVE  rq' \in Seq(Bufs) /\ BuffersOK' /\ RingFull'
  <1>1. Range(parked) = {} /\ Range(parked') = {} /\ Range(poolWait) = {} /\ Range(poolWait') = {}
    BY EmptyList, Zenon
  <1>2. \A i : ~Held(i)' /\ (Held(i) <=> HeldArriving(i))
    BY <1>1, Zenon DEF Held, HeldArriving, HeldParked, HeldWaiting
  <1>3. CASE rq' = rq /\ Recvs = {}
    <2>1. \A i : ~Held(i)
      BY <1>2, <1>3, Zenon DEF HeldArriving
    <2> QED BY <1>1, <1>2, <1>3, <2>1, Zenon DEF RdmaTypeOK, BuffersOK, RingFull
  <1>4. ASSUME NEW w, Recvs = {w}, w.low \in Bufs, rq' = Append(rq, w.low)
        PROVE  rq' \in Seq(Bufs) /\ BuffersOK' /\ RingFull'
    <2>1. PICK idx \in Bufs : idx = w.low
      BY <1>4, Zenon
    <2>2. \A i : HeldArriving(i) <=> i = idx
      BY <1>4, <2>1, Zenon DEF HeldArriving
    <2>3. rq' = Append(rq, idx) /\ Held(idx) /\ ~Held(idx)'
      BY <1>2, <1>4, <2>1, <2>2, Zenon
    <2>4. \A i : i # idx => (Held(i)' <=> Held(i))
      BY <1>2, <2>2, Zenon
    <2> QED BY <1>1, <2>1, <2>3, <2>4, BuffersPlaced, Zenon
  <1> QED BY <1>3, <1>4, Zenon

\* The Connect takes the first tag, and its CQE is the first response.
LEMMA ConnectedServes ==
  ASSUME RdmaTypeOK, SlotsOK, BootOK, NEW c \in 1 .. sent, connected(c),
         UNCHANGED <<script, sent, answered, chain>>,
         UNCHANGED <<responses, batch, parked, poolWait, readBatch>>,
         NEW t, t = Head(freeTags), NEW v, v = WrId("Send", t, c, 1),
         sq' \in Seq(WorkRequests), Range(sq') = {v},
         ToDo' = {v}, Done' = {}, Wrs' = {v}, Recvs' = {}
  PROVE  /\ freeTags' \in Seq(Tags) /\ cmd' \in [Tags -> Nat] /\ resp' \in [Tags -> Nat]
         /\ inflight' \in [Tags -> Nat]
         /\ state' \in [Tags -> {"Free", "Receiving", "Ready", "Executing", "Responding"}]
         /\ UNCHANGED <<task, data, pages>>
         /\ SlotsOK' /\ ServingOK'
  <1>1. /\ freeTags # << >> /\ freeTags \in Seq(Tags) /\ IsInjective(freeTags)
        /\ cmd \in [Tags -> Nat] /\ resp \in [Tags -> Nat] /\ inflight \in [Tags -> Nat]
        /\ state \in [Tags -> {"Free", "Receiving", "Ready", "Executing", "Responding"}]
        /\ \A u \in Tags : state[u] = "Free" /\ task[u] = "idle"
    BY Zenon DEF RdmaTypeOK, SlotsOK, BootOK
  <1>2. /\ freeTags' = Tail(freeTags) /\ state' = [state EXCEPT ![t] = "Responding"]
        /\ cmd' = [cmd EXCEPT ![t] = c] /\ resp' = [resp EXCEPT ![t] = c]
        /\ inflight' = [inflight EXCEPT ![t] = 1] /\ UNCHANGED <<task, data, pages>>
    BY Zenon DEF connected
  <1>3. /\ t \in Tags /\ freeTags' \in Seq(Tags) /\ IsInjective(freeTags')
        /\ Range(freeTags') = Range(freeTags) \ {t}
    BY <1>1, <1>2, PopFront, Zenon
  <1>4. /\ cmd' \in [Tags -> Nat] /\ resp' \in [Tags -> Nat] /\ cmd'[t] = c /\ resp'[t] = c
    BY <1>1, <1>2, <1>3
  <1>5. inflight' \in [Tags -> Nat] /\ inflight'[t] > 0
    BY <1>1, <1>2, <1>3
  <1>6. /\ state' \in [Tags -> {"Free", "Receiving", "Ready", "Executing", "Responding"}]
        /\ state'[t] = "Responding" /\ \A u \in Tags \ {t} : state'[u] = "Free"
    BY <1>1, <1>2, <1>3, Zenon
  <1>7. \A u \in Tags : Active(u)' => u = t
    BY <1>6, Zenon DEF Active
  <1>8. SlotsOK'
    <2>1. \A u \in Range(freeTags') : state'[u] = "Free"
      BY <1>3, <1>6, ListsTyped, Zenon
    <2>2. \A u \in Tags : state'[u] \notin {"Ready", "Executing"}
      BY <1>6, Zenon
    <2>3. \A u \in Tags : task'[u] = "idle"
      BY <1>1, <1>2, Zenon
    <2>4. \A u \in Tags : task'[u] \notin {"cqe", "finish"}
      BY <2>3, Zenon
    <2>5. \A u \in Tags : Active(u)' => cmd'[u] \in 1 .. sent'
      BY <1>4, <1>7, Zenon
    <2> QED BY <1>3, <2>1, <2>2, <2>3, <2>4, <2>5, Zenon DEF SlotsOK
  <1>9. v.kind = "Send" /\ v.low = t /\ v.cmd = c
    BY Zenon DEF WrId
  <1>10. WrsOwned'
    <2>1. \A w \in Wrs' : Owned(w)'
      <3> SUFFICES ASSUME NEW w, w = v PROVE Owned(w)'
        BY Zenon
      <3>1. w.kind # "Read" /\ w.kind # "Write"
        BY <1>9, Zenon
      <3>2. w = SendWr(w.low)' /\ w.low = t
        BY <1>4, <1>9, Zenon DEF SendWr
      <3>3. /\ w.low \in Tags /\ state'[w.low] = "Responding"
            /\ resp'[w.low] = cmd'[w.low] /\ inflight'[w.low] > 0
        BY <1>3, <1>4, <1>5, <1>6, <3>2, Zenon
      <3> QED BY <3>1, <3>2, <3>3, Zenon DEF Owned
    <2>2. \A w \in Wrs' : w.kind # "Write"
      BY <1>9, Zenon
    <2> QED BY <2>1, <2>2, Zenon DEF WrsOwned
  <1>11. ReadsFilled' /\ SendFollows(sq')
    <2>1. \A w \in Range(sq') : w.kind # "Write"
      BY <1>9, Zenon
    <2> QED BY <2>1, FollowNone, Zenon DEF ReadsFilled
  <1>12. /\ chain' = << >> /\ responses' = << >> /\ batch' = << >> /\ parked' = << >>
         /\ poolWait' = << >> /\ readBatch' = << >> /\ answered' = {}
    BY Zenon DEF BootOK
  <1>13. \A s : s = << >> => /\ TagsOf(s) = {} /\ CmdsOf(s) = {} /\ OncePerTag(s) /\ OncePerCmd(s)
                             /\ IsInjective(s) /\ Range(s) = {} /\ SendFollows(s)
    <2> SUFFICES ASSUME NEW s, s = << >>
                 PROVE  /\ TagsOf(s) = {} /\ CmdsOf(s) = {} /\ OncePerTag(s) /\ OncePerCmd(s)
                        /\ IsInjective(s) /\ Range(s) = {} /\ SendFollows(s)
      BY Zenon
    <2>1. IsInjective(s) /\ Range(s) = {} /\ s \in Seq(WorkRequests)
      BY EmptyList, Zenon
    <2>2. SendFollows(s)
      BY <2>1, FollowNone, Zenon
    <2> QED BY <2>1, <2>2, Zenon DEF TagsOf, CmdsOf, OncePerTag, OncePerCmd
  <1>14. DeferredOK' /\ SendFollows(chain')
    BY <1>12, <1>13, Zenon DEF DeferredOK
  <1>15. ResponsesOK'
    BY <1>12, <1>13, Zenon DEF ResponsesOK
  <1>16. CommandsOK'
    BY <1>7, <1>12, <1>13, Zenon DEF CommandsOK
  <1>17. AnsweredOK'
    BY <1>12, <1>13, Zenon DEF AnsweredOK
  <1>18. ServingOK'
    BY <1>10, <1>11, <1>14, <1>15, <1>16, <1>17, Zenon DEF ServingOK
  <1> QED BY <1>2, <1>3, <1>4, <1>5, <1>6, <1>8, <1>18, Zenon

\* The bootstrap's completions: the Connect and its answer.
LEMMA BootCompletionInv ==
  ASSUME RdmaInv, BootCompletion
  PROVE  RdmaInv'
  <1>1. PICK w : w = Head(cq)
    BY Zenon
  <1>2. /\ UNCHANGED <<script, depth, sent, answered, armed, qpUp, unacked, buf>>
        /\ UNCHANGED <<responses, batch, chain, parked, poolWait, readBatch>>
        /\ UNCHANGED <<comps, staged, thread, ring, lost>>
        /\ phase = "boot" /\ thread = "awake" /\ cq # << >> /\ w.ok /\ w.kind = wants /\ cq' = << >>
    BY <1>1, Zenon DEF BootCompletion, Running, host, lists, wakeups
  <1>3. /\ RdmaTypeOK /\ SlotsOK /\ SleepOK /\ DepthOK
        /\ LinesOK /\ BuffersOK /\ RingFull /\ HandOK /\ BootOK
    BY <1>2, Zenon DEF RdmaInv
  <1>4. /\ sq = << >> /\ unacked = << >> /\ sent = 1
        /\ Wrs = {w} /\ w \in WorkRequests /\ w.cmd \in 1 .. sent
    BY <1>1, <1>2, BootFound, Zenon
  <1>5. PICK c \in 1 .. sent : c = w.cmd
    BY <1>4, Zenon
  <1>6. /\ chain' = << >> /\ staged' = << >> /\ comps' = << >> /\ unacked' = << >>
        /\ responses' = << >> /\ batch' = << >> /\ readBatch' = << >>
        /\ parked = << >> /\ parked' = << >> /\ poolWait = << >> /\ poolWait' = << >>
        /\ freeTags # << >> /\ answered' = {} /\ wants \in {"Recv", "Read"}
    BY <1>2, <1>3, <1>4, Zenon DEF BootOK
  <1>7. wants = "Recv" => w.low \in Bufs /\ buf[w.low] = c /\ Recvs = {w}
    <2> SUFFICES ASSUME wants = "Recv" PROVE w.low \in Bufs /\ buf[w.low] = c /\ Recvs = {w}
      BY Zenon
    <2>1. Recvs = {w}
      BY <1>2, <1>4, Zenon DEF Recvs
    <2>2. w.low \in Bufs /\ w = WrId("Recv", w.low, buf[w.low], 1)
      BY <1>3, <2>1, Zenon DEF LinesOK, RecvWr
    <2>3. w.cmd = buf[w.low]
      BY <2>2 DEF WrId
    <2> QED BY <1>5, <2>1, <2>2, <2>3, Zenon
  <1>8. wants = "Read" => Recvs = {}
    BY <1>2, <1>4, Zenon DEF Recvs
  <1>9. /\ \/ wants = "Recv" /\ rq' = Append(rq, w.low)
           \/ wants = "Read" /\ rq' = rq
        /\ \/ /\ sq' = Append(sq, readCdata(c)) /\ wants' = "Read" /\ UNCHANGED <<phase, slots>>
           \/ connected(c)
    <2>1. CASE wants = "Recv"
      <3>1. /\ rq' = Append(rq, w.low)
            /\ \/ /\ sq' = Append(sq, readCdata(buf[w.low])) /\ wants' = "Read"
                  /\ UNCHANGED <<phase, slots>>
               \/ connected(buf[w.low])
        BY <1>1, <2>1, Zenon DEF BootCompletion, postRecv
      <3>2. buf[w.low] = c
        BY <1>7, <2>1, Zenon
      <3> QED BY <2>1, <3>1, <3>2, Zenon
    <2>2. CASE wants = "Read"
      <3>1. wants # "Recv"
        BY <2>2, Zenon
      <3>2. connected(w.cmd) /\ UNCHANGED rq
        BY <1>1, <3>1, Zenon DEF BootCompletion
      <3> QED BY <1>5, <2>2, <3>2, Zenon
    <2> QED BY <1>6, <2>1, <2>2, Zenon
  <1>10. ASSUME Recvs' = {} PROVE rq' \in Seq(Bufs) /\ BuffersOK' /\ RingFull'
    <2>1. \/ rq' = rq /\ Recvs = {}
          \/ \E x : Recvs = {x} /\ x.low \in Bufs /\ rq' = Append(rq, x.low)
      BY <1>7, <1>8, <1>9, Zenon
    <2>2. UNCHANGED <<script, qpUp, buf>>
      BY <1>2, Zenon
    <2> QED BY <1>3, <1>6, <1>10, <2>1, <2>2, BootBuffers, Zenon
  <1>11. DepthOK' /\ HandOK'
    BY <1>2, <1>3, <1>6, Zenon DEF DepthOK, Conforming, HandOK
  <1>12. SleepOK'
    BY <1>2, Zenon DEF SleepOK
  <1>13. c \in Nat
    BY <1>4, <1>5
  <1>14. CASE sq' = Append(sq, readCdata(c)) /\ wants' = "Read" /\ UNCHANGED <<phase, slots>>
    <2>1. PICK v : v = readCdata(c)
      BY Zenon
    <2>2. v \in WorkRequests /\ v.ok /\ v.kind = "Read" /\ v.kind # "Recv" /\ v.cmd = c
      BY <1>13, <2>1, Zenon DEF readCdata, WrId, WorkRequests
    <2>3. sq' = Append(<< >>, v)
      BY <1>4, <1>14, <2>1, Zenon
    <2>4. /\ sq' \in Seq(WorkRequests) /\ Len(sq') = 1
          /\ Wrs' = {v} /\ Recvs' = {} /\ LinesOK' /\ Okay(cq') = {}
      BY <1>2, <1>6, <2>2, <2>3, BootPosts, Zenon
    <2>5. rq' \in Seq(Bufs) /\ BuffersOK' /\ RingFull'
      BY <1>10, <2>4, Zenon
    <2>6. UNCHANGED <<phase, state, task, cmd, data, pages, freeTags, inflight, resp>>
      BY <1>14, Zenon DEF slots
    <2>7. RdmaTypeOK'
      <3>1. /\ cq' \in Seq(WorkRequests)
        BY <1>2, EmptyList, Zenon
      <3> QED BY <1>2, <1>3, <2>4, <2>5, <2>6, <3>1, Zenon DEF RdmaTypeOK
    <2>8. SlotsOK'
      BY <1>2, <1>3, <2>6, SlotsKept, Zenon
    <2>9. BootOK'
      <3>1. Len(sq') + Len(unacked') <= sent' /\ sent' <= 1 /\ sent' # 0
        BY <1>2, <1>4, <2>4
      <3>2. \A i \in DOMAIN cq' : cq'[i].ok => i = 1
        BY <1>2, EmptyList, Zenon
      <3>3. AllOkay(cq')
        BY <1>2, OkayEmpty, Zenon
      <3>4. \A u \in Wrs' : u.kind = wants' /\ u.cmd \in 1 .. sent'
        BY <1>2, <1>14, <2>2, <2>4, Zenon
      <3>5. \A u \in Tags : state'[u] = "Free" /\ task'[u] = "idle"
        BY <1>3, <2>6, Zenon DEF BootOK
      <3>6. freeTags' # << >> /\ wants' \in {"Recv", "Read"} /\ Okay(cq') = {}
        BY <1>6, <1>14, <2>4, <2>6, Zenon
      <3> QED BY <1>6, <3>1, <3>2, <3>3, <3>4, <3>5, <3>6, Zenon DEF BootOK
    <2>10. phase' = "boot"
      BY <1>2, <2>6, Zenon
    <2> QED BY <1>11, <1>12, <2>4, <2>5, <2>7, <2>8, <2>9, <2>10 DEF RdmaInv
  <1>15. CASE connected(c)
    <2>1. PICK t : t = Head(freeTags)
      BY Zenon
    <2>2. PICK v : v = WrId("Send", t, c, 1)
      BY Zenon
    <2>3. sq' = Append(<< >>, v) /\ phase' = "steady"
      BY <1>4, <1>15, <2>1, <2>2, Zenon DEF connected
    <2>4. t \in Tags /\ t \in Nat
      <3>1. t \in Tags
        BY <1>3, <1>6, <2>1, PopFront, Zenon DEF RdmaTypeOK, SlotsOK
      <3> QED BY <3>1, IndexNat, Zenon
    <2>5. v \in WorkRequests /\ v.ok /\ v.kind # "Recv"
      BY <1>13, <2>2, <2>4, Zenon DEF WrId, WorkRequests
    <2>6. /\ sq' \in Seq(WorkRequests) /\ Range(sq') = {v}
          /\ ToDo' = {v} /\ Done' = {} /\ Wrs' = {v} /\ Recvs' = {} /\ LinesOK'
      BY <1>2, <1>6, <2>3, <2>5, BootPosts, Zenon
    <2>7. rq' \in Seq(Bufs) /\ BuffersOK' /\ RingFull'
      BY <1>10, <2>6, Zenon
    <2>8. /\ freeTags' \in Seq(Tags) /\ cmd' \in [Tags -> Nat] /\ resp' \in [Tags -> Nat]
          /\ inflight' \in [Tags -> Nat]
          /\ state' \in [Tags -> {"Free", "Receiving", "Ready", "Executing", "Responding"}]
          /\ UNCHANGED <<task, data, pages>>
          /\ SlotsOK' /\ ServingOK'
      BY <1>2, <1>3, <1>15, <2>1, <2>2, <2>6, ConnectedServes, Zenon
    <2>9. RdmaTypeOK'
      <3>1. cq' \in Seq(WorkRequests)
        BY <1>2, EmptyList, Zenon
      <3> QED BY <1>2, <1>3, <2>3, <2>6, <2>7, <2>8, <3>1, Zenon DEF RdmaTypeOK
    <2> QED BY <1>11, <1>12, <2>3, <2>6, <2>7, <2>8, <2>9 DEF RdmaInv
  <1> QED BY <1>9, <1>14, <1>15, Zenon

=============================================================================
