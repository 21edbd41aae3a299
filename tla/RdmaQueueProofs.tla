-------------------------- MODULE RdmaQueueProofs --------------------------
(***************************************************************************)
(* Proofs, for any queue depth, pool size and sequence of commands, that a *)
(* work request always belongs to the command it was posted for, that a    *)
(* write dispatches with its own payload, that a host that keeps to the    *)
(* negotiated depth fits into the RECV ring and the parking lot, that the  *)
(* queue thread sleeps with a wake source, and that the arena is freed     *)
(* with no backend operation outstanding.                                  *)
(***************************************************************************)
EXTENDS RdmaQueueCompletions, FiniteSetTheorems

-----------------------------------------------------------------------------
(* The host's depth.                                                       *)

\* The commands the host waits for.
Unanswered == (1 .. sent) \ answered

\* Commands are numbered as they are sent, so those unanswered can be counted.
LEMMA UnansweredCount ==
  ASSUME RdmaTypeOK
  PROVE  /\ IsFiniteSet(Unanswered) /\ Cardinality(Unanswered) = Outstanding
         /\ Outstanding \in Nat /\ sent \in Nat /\ Cardinality(answered) \in Nat
  <1>1. sent \in Nat /\ answered \in SUBSET (1 .. sent)
    BY DEF RdmaTypeOK
  <1>2. IsFiniteSet(1 .. sent) /\ Cardinality(1 .. sent) = sent
    BY <1>1, FS_Interval
  <1>3. (1 .. sent) \cap answered = answered
    BY <1>1, Zenon
  <1>4. IsFiniteSet(Unanswered) /\ Cardinality(Unanswered) = sent - Cardinality(answered)
    <2>1. /\ IsFiniteSet((1 .. sent) \ answered)
          /\ Cardinality((1 .. sent) \ answered)
               = Cardinality(1 .. sent) - Cardinality((1 .. sent) \cap answered)
      BY <1>2, FS_Difference, Zenon
    <2> QED BY <1>2, <1>3, <2>1, Zenon DEF Unanswered
  <1>5. Cardinality(Unanswered) \in Nat
    BY <1>4, FS_CardinalityType, Zenon
  <1>6. Cardinality(answered) \in Nat
    BY <1>1, <1>2, FS_Subset, FS_CardinalityType, Zenon
  <1> QED BY <1>1, <1>4, <1>5, <1>6, Zenon DEF Outstanding

\* A response only makes room.
LEMMA ExecutesDepth ==
  ASSUME RdmaInv, NicExecutes
  PROVE  DepthOK'
  <1>1. RdmaTypeOK /\ DepthOK
    BY Zenon DEF RdmaInv
  <1>2. /\ UNCHANGED <<sent, depth>>
        /\ answered' = answered \/ \E x : answered' = answered \cup {x}
    BY Zenon DEF NicExecutes
  <1>3. /\ IsFiniteSet(answered) /\ Cardinality(answered) \in Nat
        /\ sent \in Nat /\ NSlots \in Nat
    <2>1. sent \in Nat /\ answered \in SUBSET (1 .. sent) /\ IsFiniteSet(1 .. sent)
      <3>1. sent \in Nat /\ answered \in SUBSET (1 .. sent)
        BY <1>1, SMTT(20) DEF RdmaTypeOK
      <3>2. 1 \in Int /\ sent \in Int
        BY <3>1
      <3> QED BY <3>1, <3>2, FS_Interval, Zenon
    <2> QED BY <2>1, RdmaAssumption, FS_Subset, FS_CardinalityType, Zenon
  <1>4. IsFiniteSet(answered') /\ Cardinality(answered) <= Cardinality(answered')
    <2>1. CASE answered' = answered
      BY <1>3, <2>1
    <2>2. CASE \E x : answered' = answered \cup {x}
      <3>1. PICK x : answered' = answered \cup {x}
        BY <2>2, Zenon
      <3>2. IsFiniteSet(answered')
        BY <1>3, <3>1, FS_AddElement, Zenon
      <3>3. answered \in SUBSET answered'
        BY <3>1, Zenon
      <3> QED BY <3>2, <3>3, FS_Subset, Zenon
    <2> QED BY <1>2, <2>1, <2>2, Zenon
  <1>5. Cardinality(answered') \in Nat
    BY <1>4, FS_CardinalityType, Zenon
  <1> QED BY <1>1, <1>2, <1>3, <1>4, <1>5 DEF DepthOK, Conforming

\* A conforming host sends only below its depth, and the first command alone.
LEMMA HostSendDepth ==
  ASSUME RdmaInv, HostSend
  PROVE  DepthOK' /\ (phase = "boot" => sent = 0)
  <1>1. RdmaTypeOK /\ (phase = "boot" => BootOK)
    BY Zenon DEF RdmaInv
  <1>2. /\ UNCHANGED <<depth, answered>> /\ sent' = sent + 1
        /\ Outstanding < IF 1 \in answered THEN depth ELSE 1
    BY Zenon DEF HostSend
  <1>3. sent \in Nat /\ Outstanding \in Nat /\ Cardinality(answered) \in Nat
    BY <1>1, UnansweredCount, Zenon
  <1>4. depth \in Nat /\ NSlots \in Nat \ {0}
    BY <1>1, RdmaAssumption DEF RdmaTypeOK
  <1>5. depth <= NSlots => Outstanding < NSlots
    BY <1>2, <1>3, <1>4
  <1>6. DepthOK'
    BY <1>2, <1>3, <1>4, <1>5 DEF DepthOK, Conforming, Outstanding
  <1>7. ASSUME phase = "boot" PROVE sent = 0
    <2>1. answered = {} /\ Cardinality({}) = 0
      BY <1>1, <1>7, FS_EmptySet, Zenon DEF BootOK
    <2>2. 1 \notin answered /\ Cardinality(answered) = 0
      BY <2>1
    <2> QED BY <1>2, <1>3, <2>2 DEF Outstanding
  <1> QED BY <1>6, <1>7, Zenon

-----------------------------------------------------------------------------
(* The initial state and the step.                                         *)

\* Every RECV buffer is posted, and every tag free, in ascending order.
LEMMA Ascending ==
  ASSUME NEW s, s = [i \in 1 .. NSlots |-> i - 1]
  PROVE  /\ s \in Seq(0 .. NSlots - 1) /\ s # << >> /\ IsInjective(s)
         /\ Range(s) = 0 .. NSlots - 1
  <1>1. NSlots \in Nat /\ NSlots > 0
    BY RdmaAssumption
  <1>2. s \in [1 .. NSlots -> 0 .. NSlots - 1]
    BY <1>1
  <1>3. s \in Seq(0 .. NSlots - 1)
    BY <1>1, <1>2
  <1>4. s # << >>
    <2>1. 1 \in DOMAIN s
      BY <1>1, <1>2
    <2> QED BY <2>1, EmptyList, Zenon
  <1>5. IsInjective(s)
    <2>1. \A i, j \in DOMAIN s : s[i] = s[j] => i = j
      BY <1>1
    <2> QED BY <2>1, Zenon DEF IsInjective
  <1>6. \A x \in 0 .. NSlots - 1 : x + 1 \in DOMAIN s /\ s[x + 1] = x
    BY <1>1
  <1>7. \A i \in DOMAIN s : s[i] \in 0 .. NSlots - 1
    BY <1>2, Zenon
  <1>8. Range(s) = 0 .. NSlots - 1
    <2>1. \A x \in Range(s) : x \in 0 .. NSlots - 1
      BY <1>7, Zenon DEF Range
    <2>2. \A x \in 0 .. NSlots - 1 : x \in Range(s)
      BY <1>6, Zenon DEF Range
    <2> QED BY <2>1, <2>2, Zenon
  <1> QED BY <1>3, <1>4, <1>5, <1>8, Zenon

\* The invariant holds when the queue pair is connected.
LEMMA RdmaInit ==
  ASSUME Init
  PROVE  RdmaInv
  <1>1. PICK s \in Scripts :
          script = s.cmds /\ depth = s.depth /\ may = s.may /\ poll = s.poll
    BY Zenon DEF Init
  <1>2. /\ sent = 0 /\ answered = {} /\ lost = 0 /\ qpUp = TRUE
        /\ sq = << >> /\ unacked = << >> /\ cq = << >> /\ chain = << >>
        /\ staged = << >> /\ comps = << >>
        /\ responses = << >> /\ batch = << >>
        /\ parked = << >> /\ poolWait = << >> /\ readBatch = << >>
        /\ phase = "boot" /\ pc = "pending" /\ wants = "Recv" /\ thread = "awake"
    BY Zenon DEF Init
  <1>3. /\ rq = [i \in 1 .. NSlots |-> i - 1] /\ freeTags = [i \in 1 .. NSlots |-> i - 1]
        /\ buf = [i \in Bufs |-> 0] /\ state = [t \in Tags |-> "Free"]
        /\ task = [t \in Tags |-> "idle"] /\ cmd = [t \in Tags |-> 0]
        /\ data = [t \in Tags |-> 0] /\ pages = [t \in Tags |-> 0]
        /\ inflight = [t \in Tags |-> 0] /\ resp = [t \in Tags |-> 0]
    BY Zenon DEF Init, prime
  <1>4. /\ script \in Seq([kind : Kinds, n : 0 .. NPages]) /\ depth \in Nat
    BY <1>1, RdmaAssumption, Zenon
  <1>5. /\ rq \in Seq(Bufs) /\ IsInjective(rq) /\ Range(rq) = Bufs
        /\ freeTags \in Seq(Tags) /\ IsInjective(freeTags) /\ freeTags # << >>
        /\ Range(freeTags) = Tags
    BY <1>3, Ascending, Zenon DEF Bufs, Tags
  <1>6. 0 \in Nat
    OBVIOUS
  <1>7. /\ buf \in [Bufs -> Nat] /\ cmd \in [Tags -> Nat] /\ data \in [Tags -> Nat]
        /\ pages \in [Tags -> Nat] /\ inflight \in [Tags -> Nat] /\ resp \in [Tags -> Nat]
    BY <1>3, <1>6
  <1>8. /\ state \in [Tags -> {"Free", "Receiving", "Ready", "Executing", "Responding"}]
        /\ task \in [Tags -> {"idle", "lease", "wait", "backend", "cqe", "finish"}]
        /\ \A t \in Tags : state[t] = "Free" /\ task[t] = "idle"
    BY <1>3
  <1>9. sent \in 0 .. Len(script) /\ answered \in SUBSET (1 .. sent)
    BY <1>2, <1>4
  <1>10. RdmaTypeOK
    BY <1>2, <1>4, <1>5, <1>6, <1>7, <1>8, <1>9, EmptyList, Zenon DEF RdmaTypeOK
  <1>11. SlotsOK
    <2>1. \A t \in Tags : state[t] \notin {"Ready", "Executing"} /\ task[t] \notin {"cqe", "finish"}
      BY <1>8
    <2> QED BY <1>5, <1>8, <2>1, Zenon DEF SlotsOK, Active
  <1>12. DepthOK
    <2>1. Cardinality(answered) = 0
      BY <1>2, FS_EmptySet, Zenon
    <2> QED BY <1>2, <2>1, RdmaAssumption DEF DepthOK
  <1>13. SleepOK /\ HandOK
    BY <1>2 DEF SleepOK, HandOK
  <1>14. /\ Okay(sq) = {} /\ Okay(unacked) = {} /\ Okay(cq) = {} /\ Okay(chain) = {}
         /\ Okay(staged) = {} /\ Okay(comps) = {}
         /\ Distinct(sq) /\ Distinct(unacked) /\ Distinct(cq) /\ Distinct(chain)
         /\ Distinct(staged) /\ Distinct(comps)
         /\ AllOkay(chain) /\ AllOkay(sq) /\ AllOkay(unacked) /\ AllOkay(cq)
    BY <1>2, OkayEmpty, Zenon
  <1>15. Wrs = {} /\ Recvs = {}
    BY <1>14, Zenon DEF Wrs, ToDo, Done, Recvs
  <1>16. LinesOK
    BY <1>14, <1>15, Zenon DEF LinesOK, LinesApart
  <1>17. \A i : ~Held(i)
    <2>1. Range(parked) = {} /\ Range(poolWait) = {}
      BY <1>2, EmptyList, Zenon
    <2> QED BY <1>15, <2>1, Zenon DEF Held, HeldArriving, HeldParked, HeldWaiting
  <1>18. BuffersOK /\ RingFull
    <2>1. Range(parked) = {} /\ Range(poolWait) = {}
      BY <1>2, EmptyList, Zenon
    <2> QED BY <1>5, <1>17, <2>1, Zenon DEF BuffersOK, RingFull
  <1>19. BootOK
    <2>1. Len(sq) + Len(unacked) <= sent /\ sent <= 1
      BY <1>2
    <2>2. \A i \in DOMAIN cq : cq[i].ok => i = 1
      BY <1>2, EmptyList, Zenon
    <2> QED BY <1>2, <1>5, <1>8, <1>14, <1>15, <2>1, <2>2, Zenon DEF BootOK
  <1> QED BY <1>2, <1>10, <1>11, <1>12, <1>13, <1>16, <1>18, <1>19 DEF RdmaInv

\* The park probe keeps the invariant.
LEMMA ParkInv ==
  ASSUME RdmaInv, Park
  PROVE  RdmaInv'
  BY ParkReapInv, ParkProbeInv, ParkArmInv, ParkRedrainInv, BootSleepInv, WakeInv, Zenon DEF Park

\* The bootstrap keeps it.
LEMMA BootInv ==
  ASSUME RdmaInv, Boot
  PROVE  RdmaInv'
  BY BootAcknowledgeInv, BootCompletionInv, BootEndsInv, Zenon DEF Boot

\* The reap loop keeps it.
LEMMA LoopInv ==
  ASSUME RdmaInv, Loop
  PROVE  RdmaInv'
  <1>1. CASE TakeEvent \/ TakeStaged \/ TakeBackstop
    BY <1>1, DrainInv, Zenon DEF TakeEvent, TakeStaged, TakeBackstop, Looping, Running
  <1>2. CASE TakeStop \/ PostFails
    BY <1>2, LeaveInv, Zenon DEF TakeStop, PostFails, Looping, Running
  <1>3. CASE TakeResponse \/ LoopPends \/ CollectResponses \/ ConstructResponse \/ PostResponses
    BY <1>3, TakeResponseInv, LoopPendsInv, CollectResponsesInv, ConstructResponseInv,
       PostResponsesInv, Zenon
  <1> QED BY <1>1, <1>2, <1>3, Zenon DEF Loop

\* process_cqes keeps it.
LEMMA ProcessCqesInv ==
  ASSUME RdmaInv, ProcessCqes
  PROVE  RdmaInv'
  <1>1. CASE CompFails \/ Overflow
    BY <1>1, LeaveInv, Zenon DEF CompFails, Overflow, Processing, Looping, Running
  <1>2. CASE OnRecv \/ OnRead \/ OnResponseDone
    BY <1>2, OnRecvInv, OnReadInv, OnResponseDoneInv, Zenon
  <1>3. CASE RetryStage \/ Unpark \/ Flush
    BY <1>3, RetryStageInv, UnparkInv, FlushInv, Zenon
  <1> QED BY <1>1, <1>2, <1>3, Zenon DEF ProcessCqes

\* Every step keeps the invariant.
LEMMA RdmaStep ==
  ASSUME RdmaInv, [Next]_vars
  PROVE  RdmaInv'
  <1>1. CASE HostSend \/ QpFails \/ CmDisconnected \/ ControllerRemoved \/ BackstopExpires
    BY <1>1, HostSendInv, HostSendDepth, QpFailsInv, CmDisconnectedInv, ControllerRemovedInv,
       BackstopExpiresInv, Zenon
  <1>2. CASE Adapter
    BY <1>2, NicExecutesInv, ExecutesDepth, NicCompletesInv, NicFlushesInv, Zenon DEF Adapter
  <1>3. CASE \E t \in Tags : BackendCompletes(t)
    BY <1>3, BackendCompletesInv, Zenon
  <1>4. CASE \E t \in Tags : Task(t)
    BY <1>4, StartInv, LeaseInv, FinishInv, Zenon DEF Task
  <1>5. CASE Park \/ Boot
    BY <1>5, ParkInv, BootInv, Zenon
  <1>6. CASE Loop \/ ProcessCqes
    BY <1>6, LoopInv, ProcessCqesInv, Zenon
  <1>7. CASE Teardown
    BY <1>7, TeardownInv, Zenon
  <1>8. CASE UNCHANGED vars
    <2>1. /\ UNCHANGED <<phase, script, depth, sent, answered>>
          /\ UNCHANGED <<sq, unacked, rq, cq, buf, chain, staged, comps>>
          /\ UNCHANGED <<state, cmd, data, pages, freeTags, inflight, resp, task>>
          /\ UNCHANGED <<responses, batch, parked, poolWait, readBatch, wants, lost>>
          /\ UNCHANGED <<qpUp, pc, thread, armed, ring>>
      BY <1>8, Zenon DEF vars, host, nic, slots, lists, loop, wakeups
    <2>2. SleepOK' /\ (HandOK => HandOK')
      BY <2>1, SleepKept, Zenon DEF RdmaInv, HandOK
    <2> QED BY <2>1, <2>2, OnlyControl, Zenon
  <1> QED BY <1>1, <1>2, <1>3, <1>4, <1>5, <1>6, <1>7, <1>8, Zenon DEF Next

-----------------------------------------------------------------------------
(* The commands the host waits for, and the buffers they hold.             *)

\* An arrival carries the command of its buffer.
LEMMA ArrivalOf ==
  ASSUME LinesOK, NEW i, HeldArriving(i)
  PROVE  \E w \in Recvs : w.low = i /\ w.cmd = buf[i]
  <1>1. PICK w \in Recvs : w.low = i
    BY Zenon DEF HeldArriving
  <1>2. w = WrId("Recv", w.low, buf[w.low], 1)
    BY Zenon DEF LinesOK, RecvWr
  <1>3. w.cmd = buf[i]
    BY <1>1, <1>2 DEF WrId
  <1> QED BY <1>1, <1>3, Zenon

\* While the queue boots only the Connect capsule holds a buffer.
LEMMA BootHolds ==
  ASSUME RdmaInv, phase = "boot", NEW i, Held(i)
  PROVE  /\ HeldArriving(i) /\ answered = {} /\ \A w \in Recvs : w.cmd \in 1 .. sent
         /\ \A v, w \in Recvs : v = w
  <1>1. LinesOK /\ BootOK
    BY Zenon DEF RdmaInv
  <1>2. Range(parked) = {} /\ Range(poolWait) = {}
    BY <1>1, EmptyList, Zenon DEF BootOK
  <1>3. HeldArriving(i)
    BY <1>2, Zenon DEF Held, HeldParked, HeldWaiting
  <1>4. Okay(chain) = {} /\ Okay(staged) = {} /\ Okay(comps) = {}
    BY <1>1, OkayEmpty, Zenon DEF BootOK
  <1>5. \A w \in Recvs : w \in Okay(cq)
    BY <1>1, <1>4, Zenon DEF Recvs, Wrs, ToDo, Done, LinesOK
  <1>6. \A v, w \in Okay(cq) : v = w
    <2>1. \A w \in Okay(cq) : w = cq[1]
      BY <1>1, Zenon DEF BootOK, Okay, Range
    <2> QED BY <2>1, Zenon
  <1>7. answered = {} /\ \A w \in Recvs : w.cmd \in 1 .. sent
    BY <1>1, Zenon DEF BootOK, Recvs
  <1> QED BY <1>3, <1>5, <1>6, <1>7, Zenon

\* A held buffer holds the capsule of a command the host waits for.
LEMMA HeldUnanswered ==
  ASSUME RdmaInv, phase \in {"boot", "steady"}, NEW i, Held(i)
  PROVE  buf[i] \in Unanswered
  <1>1. LinesOK /\ BuffersOK /\ SlotsOK /\ RdmaTypeOK
    BY Zenon DEF RdmaInv
  <1>2. CASE phase = "boot"
    BY <1>1, <1>2, BootHolds, ArrivalOf, Zenon DEF Unanswered
  <1>3. CASE phase = "steady"
    <2>1. CommandsOK /\ AnsweredOK /\ DeferredOK
      BY <1>3, Zenon DEF RdmaInv, ServingOK
    <2>2. CASE HeldArriving(i)
      BY <1>1, <2>1, <2>2, ArrivalOf, Zenon DEF CommandsOK, AnsweredOK, Unanswered
    <2>3. CASE HeldParked(i)
      BY <1>1, <2>1, <2>3, Zenon DEF HeldParked, CommandsOK, AnsweredOK, BuffersOK, CmdsOf,
         Unanswered
    <2>4. CASE HeldWaiting(i)
      <3>1. PICK e \in Range(poolWait) : e.idx = i /\ Inline(cmd[e.tag])
        BY <2>4, Zenon DEF HeldWaiting
      <3>2. e.tag \in Tags /\ state[e.tag] = "Receiving" /\ buf[i] = cmd[e.tag]
        BY <1>1, <2>1, <3>1, ListsTyped, Zenon DEF DeferredOK, TagsOf, BuffersOK
      <3>3. Active(e.tag)
        BY <3>2, Zenon DEF Active
      <3> QED BY <1>1, <2>1, <3>2, <3>3, Zenon DEF SlotsOK, AnsweredOK, Unanswered
    <2> QED BY <2>2, <2>3, <2>4, Zenon DEF Held
  <1> QED BY <1>2, <1>3, Zenon

\* A command waits in one place, so it holds one buffer.
LEMMA HeldOnce ==
  ASSUME RdmaInv, phase \in {"boot", "steady"}, NEW i, NEW j, Held(i), Held(j), buf[i] = buf[j]
  PROVE  i = j
  <1>1. LinesOK /\ BuffersOK /\ SlotsOK /\ RdmaTypeOK
    BY Zenon DEF RdmaInv
  <1>2. CASE phase = "boot"
    <2>1. /\ HeldArriving(i) /\ HeldArriving(j)
          /\ \A v, w \in Recvs : v = w
      BY <1>2, BootHolds, Zenon
    <2>2. PICK v \in Recvs : v.low = i
      BY <2>1, Zenon DEF HeldArriving
    <2>3. PICK w \in Recvs : w.low = j
      BY <2>1, Zenon DEF HeldArriving
    <2>4. v = w
      BY <2>1, Zenon
    <2> QED BY <2>2, <2>3, <2>4, Zenon
  <1>3. CASE phase = "steady"
    <2>1. CommandsOK /\ DeferredOK
      BY <1>3, Zenon DEF RdmaInv, ServingOK
    <2>2. \A k : HeldParked(k) => \E e \in Range(parked) : e.idx = k /\ e.cmd = buf[k]
      BY <1>1, Zenon DEF HeldParked, BuffersOK
    <2>3. \A k : HeldWaiting(k) => \E e \in Range(poolWait) :
            e.idx = k /\ cmd[e.tag] = buf[k] /\ e.tag \in Tags /\ Active(e.tag)
      <3>1. \A e \in Range(poolWait) : e.tag \in Tags /\ state[e.tag] = "Receiving"
        BY <1>1, <2>1, ListsTyped, Zenon DEF DeferredOK, TagsOf
      <3>2. \A e \in Range(poolWait) : Active(e.tag)
        BY <3>1, Zenon DEF Active
      <3> QED BY <1>1, <3>1, <3>2, Zenon DEF HeldWaiting, BuffersOK
    <2>4. \A k : HeldArriving(k) => \E w \in Recvs : w.low = k /\ w.cmd = buf[k]
      BY <1>1, ArrivalOf, Zenon
    <2>5. ASSUME NEW k, NEW l, buf[k] = buf[l], HeldArriving(k), Held(l) PROVE k = l
      <3>1. PICK w \in Recvs : w.low = k /\ w.cmd = buf[k]
        BY <2>4, <2>5, Zenon
      <3>2. CASE HeldArriving(l)
        <4>1. PICK v \in Recvs : v.low = l /\ v.cmd = buf[l]
          BY <2>4, <3>2, Zenon
        <4>2. v = w
          BY <2>1, <2>5, <3>1, <4>1, Zenon DEF CommandsOK
        <4> QED BY <3>1, <4>1, <4>2, Zenon
      <3>3. CASE HeldParked(l)
        <4>1. PICK e \in Range(parked) : e.idx = l /\ e.cmd = buf[l]
          BY <2>2, <3>3, Zenon
        <4>2. e.cmd \in CmdsOf(parked) /\ w.cmd \notin CmdsOf(parked)
          BY <2>1, Zenon DEF CommandsOK, CmdsOf
        <4> QED BY <2>5, <3>1, <4>1, <4>2, Zenon
      <3>4. CASE HeldWaiting(l)
        <4>1. PICK e \in Range(poolWait) :
                e.idx = l /\ cmd[e.tag] = buf[l] /\ e.tag \in Tags /\ Active(e.tag)
          BY <2>3, <3>4, Zenon
        <4>2. w.cmd # cmd[e.tag]
          BY <2>1, <4>1, Zenon DEF CommandsOK
        <4> QED BY <2>5, <3>1, <4>1, <4>2, Zenon
      <3> QED BY <2>5, <3>2, <3>3, <3>4, Zenon DEF Held
    <2>6. ASSUME NEW k, NEW l, buf[k] = buf[l], HeldParked(k), HeldParked(l) \/ HeldWaiting(l)
          PROVE  k = l
      <3>1. PICK e \in Range(parked) : e.idx = k /\ e.cmd = buf[k]
        BY <2>2, <2>6, Zenon
      <3>2. CASE HeldParked(l)
        <4>1. PICK d \in Range(parked) : d.idx = l /\ d.cmd = buf[l]
          BY <2>2, <3>2, Zenon
        <4>2. d = e
          BY <2>1, <2>6, <3>1, <4>1, Zenon DEF CommandsOK, OncePerCmd
        <4> QED BY <3>1, <4>1, <4>2, Zenon
      <3>3. CASE HeldWaiting(l)
        <4>1. PICK d \in Range(poolWait) :
                d.idx = l /\ cmd[d.tag] = buf[l] /\ d.tag \in Tags /\ Active(d.tag)
          BY <2>3, <3>3, Zenon
        <4>2. e.cmd \in CmdsOf(parked) /\ cmd[d.tag] \notin CmdsOf(parked)
          BY <2>1, <4>1, Zenon DEF CommandsOK, CmdsOf
        <4> QED BY <2>6, <3>1, <4>1, <4>2, Zenon
      <3> QED BY <2>6, <3>2, <3>3, Zenon
    <2>7. ASSUME NEW k, NEW l, buf[k] = buf[l], HeldWaiting(k), HeldWaiting(l) PROVE k = l
      <3>1. PICK d \in Range(poolWait) :
              d.idx = k /\ cmd[d.tag] = buf[k] /\ d.tag \in Tags /\ Active(d.tag)
        BY <2>3, <2>7, Zenon
      <3>2. PICK e \in Range(poolWait) :
              e.idx = l /\ cmd[e.tag] = buf[l] /\ e.tag \in Tags /\ Active(e.tag)
        BY <2>3, <2>7, Zenon
      <3>3. d.tag = e.tag
        BY <2>1, <2>7, <3>1, <3>2, Zenon DEF CommandsOK
      <3> QED BY <2>1, <3>1, <3>2, <3>3, Zenon DEF DeferredOK, OncePerTag
    <2> QED BY <2>5, <2>6, <2>7, Zenon DEF Held
  <1> QED BY <1>2, <1>3, Zenon

-----------------------------------------------------------------------------
(* What the invariant says of the queue.                                   *)

\* The RECV ring is deep enough: were it empty, every buffer would be held by
\* an unanswered command of its own.
LEMMA RingDeepEnough == RdmaInv => RecvAlwaysPosted
  <1> SUFFICES ASSUME RdmaInv, qpUp, phase \in {"boot", "steady"}, Outstanding < NSlots,
                      rq = << >>
               PROVE  FALSE
    BY Zenon DEF RecvAlwaysPosted
  <1>1. RdmaTypeOK /\ RingFull
    BY Zenon DEF RdmaInv
  <1>2. \A i \in Bufs : Held(i)
    <2>1. Range(rq) = {}
      BY EmptyList, Zenon
    <2> QED BY <1>1, <2>1, Zenon DEF RingFull
  <1>3. \A i \in Bufs : buf[i] \in Unanswered
    BY <1>2, HeldUnanswered, Zenon
  <1>4. buf \in [Bufs -> Unanswered]
    BY <1>1, <1>3, Zenon DEF RdmaTypeOK
  <1>5. IsFiniteSet(Bufs) /\ Cardinality(Bufs) = NSlots
    <2>1. NSlots \in Nat \ {0}
      BY RdmaAssumption, Zenon
    <2>2. NSlots - 1 \in Int /\ 0 \in Int /\ ~(0 > NSlots - 1) /\ NSlots - 1 - 0 + 1 = NSlots
      BY <2>1
    <2> QED BY <2>2, FS_Interval, Zenon DEF Bufs
  <1>6. IsFiniteSet(Unanswered) /\ Cardinality(Unanswered) < Cardinality(Bufs)
    BY <1>1, <1>5, UnansweredCount, Zenon
  <1>7. \E i, j \in Bufs : i # j /\ buf[i] = buf[j]
    BY <1>4, <1>5, <1>6, FS_PigeonHole, Zenon
  <1> QED BY <1>2, <1>7, HeldOnce, Zenon

\* The parking lot is deep enough: the arrival in hand and the parked commands
\* are all unanswered, and all different.
LEMMA ParkingLotDeepEnough == RdmaInv => ParkingLotHolds
  <1> SUFFICES ASSUME RdmaInv, Conforming, Processing, Head(comps).kind = "Recv"
               PROVE  Len(parked) < ParkingLot
    BY Zenon DEF ParkingLotHolds
  <1>1. RdmaTypeOK /\ DepthOK /\ phase = "steady" /\ comps # << >> /\ Head(comps).ok
    BY Zenon DEF RdmaInv, Processing, Looping
  <1>2. CommandsOK /\ AnsweredOK
    BY <1>1, Zenon DEF RdmaInv, ServingOK
  <1>3. PICK w : w = Head(comps)
    BY Zenon
  <1>4. w \in Recvs
    <2>1. comps \in Seq(WorkRequests)
      BY <1>1, Zenon DEF RdmaTypeOK
    <2>2. w \in Range(comps)
      <3>1. 1 \in DOMAIN comps /\ Head(comps) = comps[1]
        BY <1>1, <2>1
      <3> QED BY <1>3, <3>1, Zenon DEF Range
    <2> QED BY <1>1, <1>3, <2>2, Zenon DEF Recvs, Wrs, Done, Okay
  <1> DEFINE T == Unanswered \ {w.cmd}
             f == [i \in DOMAIN parked |-> parked[i].cmd]
  <1>5. w.cmd \in Unanswered
    BY <1>2, <1>4, Zenon DEF CommandsOK, AnsweredOK, Unanswered
  <1>6. \A e \in Range(parked) : e.cmd \in T
    BY <1>2, <1>4, Zenon DEF CommandsOK, AnsweredOK, Unanswered, CmdsOf
  <1>7. f \in [DOMAIN parked -> T]
    BY <1>6, Zenon DEF Range
  <1>8. IsFiniteSet(T) /\ Cardinality(T) = Outstanding - 1
    <2>1. /\ IsFiniteSet(T)
          /\ Cardinality(T) = IF w.cmd \in Unanswered THEN Cardinality(Unanswered) - 1
                              ELSE Cardinality(Unanswered)
      BY <1>1, UnansweredCount, FS_RemoveElement, Zenon
    <2> QED BY <1>1, <1>5, <2>1, UnansweredCount, Zenon
  <1>9. /\ DOMAIN parked = 1 .. Len(parked) /\ Len(parked) \in Nat
    BY <1>1 DEF RdmaTypeOK
  <1>10. IsFiniteSet(DOMAIN parked) /\ Cardinality(DOMAIN parked) = Len(parked)
    <2>1. /\ 1 \in Int /\ Len(parked) \in Int
          /\ (IF 1 > Len(parked) THEN 0 ELSE Len(parked) - 1 + 1) = Len(parked)
      BY <1>9
    <2> QED BY <1>9, <2>1, FS_Interval, Zenon
  <1>11. \A i, j \in DOMAIN parked : f[i] = f[j] => i = j
    <2>1. SUFFICES ASSUME NEW i \in DOMAIN parked, NEW j \in DOMAIN parked,
                          parked[i].cmd = parked[j].cmd
                   PROVE  i = j
      BY Zenon
    <2>2. parked[i] \in Range(parked) /\ parked[j] \in Range(parked)
      BY Zenon DEF Range
    <2>3. parked[i] = parked[j]
      BY <1>2, <2>1, <2>2, Zenon DEF CommandsOK, OncePerCmd
    <2> QED BY <1>2, <2>3, Zenon DEF CommandsOK, OncePerCmd, IsInjective
  <1> HIDE DEF f, T
  <1>12. ~(Cardinality(T) < Cardinality(DOMAIN parked))
    BY <1>7, <1>8, <1>10, <1>11, FS_PigeonHole, Zenon
  <1>13. /\ Outstanding \in Nat /\ sent \in Nat /\ Cardinality(answered) \in Nat
         /\ NSlots \in Nat /\ sent <= NSlots + Cardinality(answered)
    BY <1>1, UnansweredCount, RdmaAssumption DEF DepthOK
  <1>14. Outstanding <= NSlots
    BY <1>13 DEF Outstanding
  <1> QED BY <1>8, <1>9, <1>10, <1>12, <1>13, <1>14 DEF ParkingLot

\* Everything posted or completed is on one of the lines, the send queue first.
LEMMA PostedLines ==
  ASSUME RdmaTypeOK, NEW i \in DOMAIN Posted, Posted[i].ok
  PROVE  /\ Posted[i] \in Wrs
         /\ i <= Len(sq) => i \in DOMAIN sq /\ Posted[i] = sq[i]
  <1>1. PICK W : W = WorkRequests
    BY Zenon
  <1>2. /\ sq \in Seq(W) /\ unacked \in Seq(W) /\ cq \in Seq(W) /\ staged \in Seq(W)
        /\ comps \in Seq(W)
    BY <1>1, Zenon DEF RdmaTypeOK
  <1>3. PICK s1 : s1 = sq \o unacked
    BY Zenon
  <1>4. PICK s2 : s2 = s1 \o cq
    BY Zenon
  <1>5. PICK s3 : s3 = s2 \o staged
    BY Zenon
  <1>6. Posted = s3 \o comps
    BY <1>3, <1>4, <1>5, Zenon DEF Posted
  <1>7. s1 \in Seq(W) /\ Range(s1) = Range(sq) \cup Range(unacked)
    BY <1>2, <1>3, Joined
  <1>8. s2 \in Seq(W) /\ Range(s2) = Range(s1) \cup Range(cq)
    BY <1>2, <1>4, <1>7, Joined
  <1>9. s3 \in Seq(W) /\ Range(s3) = Range(s2) \cup Range(staged)
    BY <1>2, <1>5, <1>8, Joined
  <1>10. Range(Posted) = Range(s3) \cup Range(comps)
    BY <1>2, <1>6, <1>9, Joined
  <1>11. Posted[i] \in Range(Posted)
    BY Zenon DEF Range
  <1>12. Posted[i] \in Wrs
    BY <1>7, <1>8, <1>9, <1>10, <1>11, Zenon DEF Wrs, ToDo, Done, Okay
  <1>13. ASSUME i <= Len(sq) PROVE i \in DOMAIN sq /\ Posted[i] = sq[i]
    <2>1. Posted \in Seq(W)
      BY <1>2, <1>6, <1>9, Joined
    <2>2. i \in Nat \ {0} /\ DOMAIN sq = 1 .. Len(sq) /\ Len(sq) \in Nat
      BY <1>2, <2>1
    <2>3. i \in DOMAIN sq
      BY <1>13, <2>2
    <2>4. i \in DOMAIN s1 /\ s1[i] = sq[i]
      BY <1>2, <1>3, <2>3, ConcatAt
    <2>5. i \in DOMAIN s2 /\ s2[i] = s1[i]
      BY <1>2, <1>4, <1>7, <2>4, ConcatAt, Zenon
    <2>6. i \in DOMAIN s3 /\ s3[i] = s2[i]
      BY <1>2, <1>5, <1>8, <2>5, ConcatAt
    <2>7. Posted[i] = s3[i]
      BY <1>2, <1>6, <1>9, <2>6, ConcatAt
    <2> QED BY <2>3, <2>4, <2>5, <2>6, <2>7, Zenon
  <1> QED BY <1>12, <1>13, Zenon

\* The SEND behind a posted WRITE is not executed, so its command is not
\* answered.
LEMMA WriteBeforeAnswer ==
  ASSUME RdmaInv, phase = "steady", NEW i \in DOMAIN sq, sq[i].kind = "Write",
         cmd[sq[i].low] = sq[i].cmd
  PROVE  sq[i].cmd \notin answered
  <1>1. LinesOK /\ WrsOwned /\ SendFollows(sq) /\ AnsweredOK
    BY Zenon DEF RdmaInv, ServingOK
  <1>2. PICK v : v = sq[i + 1]
    BY Zenon
  <1>3. i + 1 \in DOMAIN sq /\ v.kind = "Send" /\ v.low = sq[i].low
    BY <1>1, <1>2, Zenon DEF SendFollows
  <1>4. v \in ToDo /\ v \in Wrs
    BY <1>1, <1>2, <1>3, Zenon DEF LinesOK, AllOkay, ToDo, Wrs, Okay, Range
  <1>5. v = SendWr(v.low)
    BY <1>1, <1>3, <1>4, Zenon DEF WrsOwned, Owned
  <1>6. v.cmd = cmd[v.low]
    BY <1>5 DEF SendWr, WrId
  <1> QED BY <1>1, <1>3, <1>4, <1>6, Zenon DEF AnsweredOK

\* What the invariant says of a work request is what its handler relies on.
LEMMA OwnersKept == RdmaInv => WorkRequestsOwned
  <1> SUFFICES ASSUME RdmaInv, phase = "steady", NEW i \in DOMAIN Posted,
                      NEW w, w = Posted[i], w.ok, w.kind # "Recv"
               PROVE  /\ cmd[w.low] = w.cmd
                      /\ state[w.low] = IF w.kind = "Read" THEN "Receiving" ELSE "Responding"
                      /\ w.kind = "Send" => resp[w.low] = w.cmd
                      /\ w.kind = "Write" => data[w.low] = w.cmd /\ pages[w.low] = w.n
                      /\ w.kind = "Write" /\ i <= Len(sq) => w.cmd \notin answered
    BY Zenon DEF WorkRequestsOwned, Live
  <1>1. RdmaTypeOK /\ WrsOwned
    BY Zenon DEF RdmaInv, ServingOK
  <1>2. w \in Wrs /\ (i <= Len(sq) => i \in DOMAIN sq /\ w = sq[i])
    BY <1>1, PostedLines, Zenon
  <1>3. Owned(w)
    BY <1>1, <1>2, Zenon DEF WrsOwned
  <1>4. w.kind \in {"Recv", "Read", "Write", "Send"}
    BY <1>1, <1>2, WrsTyped
  <1>5. CASE w.kind = "Read"
    <2>1. w = ReadWr(w.low) /\ state[w.low] = "Receiving"
      BY <1>3, <1>5, Zenon DEF Owned
    <2>2. cmd[w.low] = w.cmd
      BY <2>1 DEF ReadWr, DataWr, WrId
    <2> QED BY <1>5, <2>1, <2>2
  <1>6. CASE w.kind = "Send"
    <2>1. w = SendWr(w.low) /\ state[w.low] = "Responding" /\ resp[w.low] = cmd[w.low]
      BY <1>3, <1>6, Zenon DEF Owned
    <2>2. cmd[w.low] = w.cmd
      BY <2>1 DEF SendWr, WrId
    <2> QED BY <1>6, <2>1, <2>2, Zenon
  <1>7. CASE w.kind = "Write"
    <2>1. w = WriteWr(w.low) /\ state[w.low] = "Responding" /\ data[w.low] = cmd[w.low]
      BY <1>3, <1>7, Zenon DEF Owned
    <2>2. cmd[w.low] = w.cmd /\ pages[w.low] = w.n
      BY <2>1 DEF WriteWr, DataWr, WrId
    <2>3. i <= Len(sq) => w.cmd \notin answered
      BY <1>2, <1>7, <2>2, WriteBeforeAnswer, Zenon
    <2> QED BY <1>7, <2>1, <2>2, <2>3, Zenon
  <1> QED BY <1>4, <1>5, <1>6, <1>7, Zenon

-----------------------------------------------------------------------------
(* The theorems.                                                           *)

\* The inductive invariant of the queue holds in every state, whatever the
\* commands, the depth, the pool and the faults.
THEOREM RdmaInvariant == Spec => []RdmaInv
  BY RdmaInit, RdmaStep, PTL DEF Spec

\* A write never dispatches with another command's payload (handle_recv,
\* try_stage_inline, submit_pending).
THEOREM WritesDispatchOwnData == Spec => []DispatchedWithOwnData
  <1>1. RdmaInv => DispatchedWithOwnData
    <2>1. \A t \in Executing : t \in Tags /\ state[t] \in {"Ready", "Executing"}
      BY Zenon DEF Executing
    <2> QED BY <2>1, Zenon DEF RdmaInv, SlotsOK, DispatchedWithOwnData
  <1> QED BY <1>1, RdmaInvariant, PTL

\* A work request in flight, or its completion, finds its tag, its staged CQE
\* and its lease as they were when it was posted, and a WRITE still to be
\* executed belongs to a command the host holds no CQE of
\* (post_responses_batch, on_response_done).
THEOREM WorkRequestsAlwaysOwned == Spec => []WorkRequestsOwned
  BY OwnersKept, RdmaInvariant, PTL

\* A host that keeps to the negotiated depth always finds a posted RECV, and
\* its arrivals never overrun the parking lot (handle_recv, park_recv).
THEOREM ConformingHostAlwaysFits == Spec => []ConformingHostFits
  <1>1. RdmaInv => ConformingHostFits
    BY RingDeepEnough, ParkingLotDeepEnough, Zenon DEF ConformingHostFits
  <1> QED BY <1>1, RdmaInvariant, PTL

\* The queue thread sleeps only with the CQ armed and empty or its event
\* raised, unless the provider lost an event (install_park_probe).
THEOREM SleepsWithWakeSource == Spec => []SleepHasWakeSource
  <1>1. RdmaInv => SleepHasWakeSource
    BY Zenon DEF RdmaInv, SleepOK, SleepHasWakeSource, Live
  <1> QED BY <1>1, RdmaInvariant, PTL

\* The arena is freed with no backend operation outstanding (teardown).
THEOREM ArenaAlwaysFreedQuiet == Spec => []ArenaFreedQuiet
  <1>1. RdmaInv => ArenaFreedQuiet
    BY Zenon DEF RdmaInv, ArenaFreedQuiet
  <1> QED BY <1>1, RdmaInvariant, PTL
=============================================================================
