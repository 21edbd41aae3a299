------------------------ MODULE RdmaQueueInvariant -------------------------
(***************************************************************************)
(* The inductive invariant of an RDMA queue, the lemmas every part of its  *)
(* proof uses, and the steps of the slot tasks, of the adapter and of the  *)
(* host, and those that take responses to the send queue.                  *)
(*                                                                         *)
(* A work request is on one of six lines: constructed, posted, executed,   *)
(* completed, staged by the probe, or being processed.  It only moves from *)
(* line to line, so each exists once, and what it names (tag, buffer,      *)
(* command) is read off the slot it was built from.  The same holds for    *)
(* commands, which arrive, wait for a tag or hold one, and for RECV        *)
(* buffers, which are posted, or held by an arrival or a deferred write.   *)
(***************************************************************************)
EXTENDS RdmaQueue, TLAPS

WorkRequests ==
  [kind : {"Recv", "Read", "Write", "Send"}, low : Nat, cmd : Nat, n : Nat, ok : BOOLEAN]
Responses == [tag : Tags, data : BOOLEAN]

RdmaTypeOK ==
  /\ script \in Seq([kind : Kinds, n : 0 .. NPages]) /\ depth \in Nat
  /\ sent \in 0 .. Len(script) /\ answered \in SUBSET (1 .. sent)
  /\ sq \in Seq(WorkRequests) /\ unacked \in Seq(WorkRequests)
  /\ cq \in Seq(WorkRequests) /\ staged \in Seq(WorkRequests)
  /\ comps \in Seq(WorkRequests) /\ chain \in Seq(WorkRequests)
  /\ rq \in Seq(Bufs) /\ buf \in [Bufs -> Nat]
  /\ state \in [Tags -> {"Free", "Receiving", "Ready", "Executing", "Responding"}]
  /\ task \in [Tags -> {"idle", "lease", "wait", "backend", "cqe", "finish"}]
  /\ cmd \in [Tags -> Nat] /\ data \in [Tags -> Nat] /\ pages \in [Tags -> Nat]
  /\ inflight \in [Tags -> Nat] /\ resp \in [Tags -> Nat]
  /\ freeTags \in Seq(Tags)
  /\ responses \in Seq(Responses) /\ batch \in Seq(Responses)
  /\ parked \in Seq([cmd : Nat, idx : Bufs])
  /\ poolWait \in Seq([tag : Tags, idx : Bufs])
  /\ readBatch \in Seq(Tags)
  /\ phase \in {"boot", "steady", "teardown", "freed", "leaked"} /\ lost \in Nat

-----------------------------------------------------------------------------
(* The lines of work requests.                                             *)

\* The work requests of a line that have not failed; each is on it once.
Okay(line) == {w \in Range(line) : w.ok}
Distinct(line) == \A i, j \in DOMAIN line : line[i].ok /\ line[i] = line[j] => i = j
AllOkay(line) == \A w \in Range(line) : w.ok

\* Not executed yet, and executed.
ToDo == Okay(chain) \cup Okay(sq)
Done == Okay(unacked) \cup Okay(cq) \cup Okay(staged) \cup Okay(comps)
Wrs == ToDo \cup Done
Recvs == {w \in Wrs : w.kind = "Recv"}

RecvWr(i) == WrId("Recv", i, buf[i], 1)
SendWr(t) == WrId("Send", t, cmd[t], 1)
ReadWr(t) == DataWr("Read", t)
WriteWr(t) == DataWr("Write", t)

\* No work request is on two lines.
LinesApart ==
  /\ Okay(chain) \cap (Okay(sq) \cup Okay(unacked) \cup Okay(cq) \cup Okay(staged)
                         \cup Okay(comps)) = {}
  /\ Okay(sq) \cap (Okay(unacked) \cup Okay(cq) \cup Okay(staged) \cup Okay(comps)) = {}
  /\ Okay(unacked) \cap (Okay(cq) \cup Okay(staged) \cup Okay(comps)) = {}
  /\ Okay(cq) \cap (Okay(staged) \cup Okay(comps)) = {}
  /\ Okay(staged) \cap Okay(comps) = {}

\* Nor twice on one; what is posted has not failed yet, RECVs go to the
\* completion queue directly, and each carries the capsule of its buffer.
LinesOK ==
  /\ LinesApart
  /\ Distinct(chain) /\ Distinct(sq) /\ Distinct(unacked)
  /\ Distinct(cq) /\ Distinct(staged) /\ Distinct(comps)
  /\ AllOkay(chain) /\ AllOkay(sq) /\ AllOkay(unacked)
  /\ \A w \in Okay(chain) \cup Okay(sq) \cup Okay(unacked) : w.kind # "Recv"
  /\ \A w \in Recvs : w.low \in Bufs /\ w = RecvWr(w.low)

\* What a work request is, and the state of the slot it belongs to.
Owned(w) ==
  /\ w.kind = "Read" =>
       w.low \in Tags /\ w = ReadWr(w.low) /\ state[w.low] = "Receiving"
  /\ w.kind = "Send" =>
       /\ w.low \in Tags /\ w = SendWr(w.low) /\ state[w.low] = "Responding"
       /\ resp[w.low] = cmd[w.low] /\ inflight[w.low] > 0
  /\ w.kind = "Write" =>
       /\ w.low \in Tags /\ w = WriteWr(w.low) /\ state[w.low] = "Responding"
       /\ data[w.low] = cmd[w.low] /\ inflight[w.low] > 0

\* Past the bootstrap every work request is owned, and a tag with a WRITE and a
\* SEND out counts two.
WrsOwned ==
  /\ \A w \in Wrs : Owned(w)
  /\ \A v, w \in Wrs : v.kind = "Send" /\ w.kind = "Write" /\ v.low = w.low =>
       inflight[v.low] > 1

\* A READ that was executed has filled the lease.
ReadsFilled == \A w \in Done : w.kind = "Read" => data[w.low] = w.cmd

\* A WRITE is followed by the SEND of its command.
SendFollows(line) ==
  \A i \in DOMAIN line : line[i].kind = "Write" =>
    /\ i + 1 \in DOMAIN line
    /\ line[i + 1].kind = "Send" /\ line[i + 1].low = line[i].low

\* No work request of the tag is out.
Quiet(t) == \A w \in Wrs : w.kind # "Recv" => w.low # t

-----------------------------------------------------------------------------
(* The deferred commands and the responses.                                *)

TagsOf(s) == {e.tag : e \in Range(s)}
CmdsOf(s) == {e.cmd : e \in Range(s)}
OncePerTag(s) == IsInjective(s) /\ \A d, e \in Range(s) : d.tag = e.tag => d = e
OncePerCmd(s) == IsInjective(s) /\ \A d, e \in Range(s) : d.cmd = e.cmd => d = e

\* A tag that waits for pages or for its READ to be posted is Receiving, waits
\* once, and has no READ out.
DeferredOK ==
  /\ OncePerTag(poolWait) /\ IsInjective(readBatch)
  /\ TagsOf(poolWait) \cap Range(readBatch) = {}
  /\ \A t \in TagsOf(poolWait) \cup Range(readBatch) : state[t] = "Receiving" /\ Quiet(t)

\* A staged response is its tag's only one and nothing of it is posted; data
\* goes with it only when the lease holds it.
Answering(r) ==
  /\ state[r.tag] = "Responding" /\ Quiet(r.tag) /\ cmd[r.tag] \notin answered
  /\ r.data => data[r.tag] = cmd[r.tag]

ResponsesOK ==
  /\ OncePerTag(responses) /\ OncePerTag(batch)
  /\ TagsOf(responses) \cap TagsOf(batch) = {}
  /\ \A r \in Range(responses) \cup Range(batch) : Answering(r)

-----------------------------------------------------------------------------
(* The commands, the RECV buffers and the slots.                           *)

Active(t) == state[t] # "Free"

\* A command that was sent arrives, is parked or holds a tag, one of the
\* three, and in one place.
CommandsOK ==
  /\ \A w \in Recvs : w.cmd \in 1 .. sent /\ w.cmd \notin CmdsOf(parked)
  /\ \A v, w \in Recvs : v.cmd = w.cmd => v = w
  /\ CmdsOf(parked) \subseteq 1 .. sent /\ OncePerCmd(parked)
  /\ \A t \in Tags : Active(t) => cmd[t] \notin CmdsOf(parked)
  /\ \A t, u \in Tags : Active(t) /\ Active(u) /\ cmd[t] = cmd[u] => t = u
  /\ \A w \in Recvs, t \in Tags : Active(t) => w.cmd # cmd[t]

\* The host holds no CQE of a command that is not answered yet.
AnsweredOK ==
  /\ \A w \in Recvs : w.cmd \notin answered
  /\ CmdsOf(parked) \cap answered = {}
  /\ \A t \in Tags : state[t] \in {"Receiving", "Ready", "Executing"} =>
       cmd[t] \notin answered
  /\ \A w \in ToDo : w.kind = "Send" => w.cmd \notin answered

\* A buffer is held by an arrival, or by a write whose payload is in it.
HeldArriving(i) == \E w \in Recvs : w.low = i
HeldParked(i) == \E e \in Range(parked) : e.idx = i /\ Inline(e.cmd)
HeldWaiting(i) == \E e \in Range(poolWait) : e.idx = i /\ Inline(cmd[e.tag])
Held(i) == HeldArriving(i) \/ HeldParked(i) \/ HeldWaiting(i)

\* A posted buffer is not held, and a held one keeps its capsule.
BuffersOK ==
  /\ IsInjective(rq)
  /\ \A i \in Range(rq) : ~Held(i)
  /\ \A e \in Range(parked) : Inline(e.cmd) => buf[e.idx] = e.cmd
  /\ \A e \in Range(poolWait) : Inline(cmd[e.tag]) => buf[e.idx] = cmd[e.tag]

\* With the QP up no buffer is lost.
RingFull == qpUp => \A i \in Bufs : i \in Range(rq) \/ Held(i)

\* The free list holds free tags once; a slot in use names a command that was
\* sent, and its task is inside it only while it executes; a write that may
\* dispatch has its payload, and a finished read its data.
SlotsOK ==
  /\ IsInjective(freeTags)
  /\ \A t \in Range(freeTags) : state[t] = "Free"
  /\ \A t \in Tags : task[t] # "idle" => state[t] = "Executing"
  /\ \A t \in Tags : Active(t) => cmd[t] \in 1 .. sent
  /\ \A t \in Tags :
       state[t] \in {"Ready", "Executing"} /\ Kind(cmd[t]) \in {"write", "inline"}
         => data[t] = cmd[t]
  /\ \A t \in Tags :
       task[t] \in {"cqe", "finish"} /\ Kind(cmd[t]) = "read" => data[t] = cmd[t]

-----------------------------------------------------------------------------
(* The bootstrap, the depth and the sleep.                                 *)

\* While the queue boots at most one thing is under way: the Connect capsule,
\* or the READ of its data.
BootOK ==
  /\ \A t \in Tags : state[t] = "Free" /\ task[t] = "idle"
  /\ chain = << >> /\ staged = << >> /\ comps = << >>
  /\ responses = << >> /\ batch = << >>
  /\ parked = << >> /\ poolWait = << >> /\ readBatch = << >>
  /\ freeTags # << >> /\ answered = {}
  /\ sent <= 1 /\ (sent = 0 => wants = "Recv") /\ wants \in {"Recv", "Read"}
  /\ Len(sq) + Len(unacked) <= sent
  /\ Okay(cq) # {} => sq = << >> /\ unacked = << >> /\ sent = 1
  /\ \A i \in DOMAIN cq : cq[i].ok => i = 1
  /\ qpUp => AllOkay(cq)
  /\ \A w \in Wrs : w.kind = wants /\ w.cmd \in 1 .. sent

ServingOK ==
  /\ WrsOwned /\ ReadsFilled /\ SendFollows(chain) /\ SendFollows(sq)
  /\ DeferredOK /\ ResponsesOK /\ CommandsOK /\ AnsweredOK

\* A host that keeps to the depth has at most that many commands unanswered.
DepthOK == Conforming => sent <= NSlots + Cardinality(answered)

\* Only process_cqes has completions in hand.
HandOK == pc # "comps" => comps = << >>

\* The probe runs when the reap loop pends; it sleeps with a wake source.
SleepOK ==
  /\ thread \in {"arming", "armed"} => phase = "steady" /\ pc # "comps"
  /\ thread = "armed" => armed \/ "event" \in ring \/ lost > 0
  /\ phase = "steady" /\ thread = "asleep" =>
       (armed /\ cq = << >>) \/ "event" \in ring \/ lost > 0

RdmaInv ==
  /\ RdmaTypeOK /\ SlotsOK /\ DepthOK /\ SleepOK
  /\ phase \in {"boot", "steady"} => LinesOK /\ BuffersOK /\ RingFull /\ HandOK
  /\ phase = "boot" => BootOK
  /\ phase = "steady" => ServingOK
  /\ phase = "freed" => \A t \in Tags : task[t] = "idle"

-----------------------------------------------------------------------------
(* Lists, as the ring, the free list and the deferred queues use them.     *)

\* Vec::push and VecDeque::push_back.
LEMMA AppendAt ==
  ASSUME NEW S, NEW s \in Seq(S), NEW e \in S
  PROVE  /\ Append(s, e) \in Seq(S) /\ Len(s) \in Nat
         /\ DOMAIN s = 1 .. Len(s) /\ DOMAIN Append(s, e) = 1 .. Len(s) + 1
         /\ Append(s, e)[Len(s) + 1] = e
         /\ \A i \in DOMAIN s : i \in DOMAIN Append(s, e) /\ Append(s, e)[i] = s[i]
         /\ \A i \in DOMAIN Append(s, e) :
              \/ i \in DOMAIN s /\ Append(s, e)[i] = s[i]
              \/ i = Len(s) + 1 /\ i \notin DOMAIN s /\ Append(s, e)[i] = e
         /\ Len(s) + 1 \in DOMAIN Append(s, e)
  OBVIOUS

\* VecDeque::pop_front.
LEMMA TailAt ==
  ASSUME NEW S, NEW s \in Seq(S), s # << >>
  PROVE  /\ Tail(s) \in Seq(S) /\ Head(s) \in S /\ Head(s) = s[1] /\ 1 \in DOMAIN s
         /\ \A i \in DOMAIN Tail(s) :
              i + 1 \in DOMAIN s /\ i + 1 # 1 /\ Tail(s)[i] = s[i + 1]
         /\ \A i, j \in DOMAIN Tail(s) : i + 1 = j + 1 => i = j
         /\ \A i \in DOMAIN s : i = 1 \/ \E j \in DOMAIN Tail(s) : i = j + 1
  <1>1. /\ Tail(s) \in Seq(S) /\ Head(s) \in S /\ Head(s) = s[1] /\ 1 \in DOMAIN s
        /\ Len(s) \in Nat \ {0} /\ DOMAIN s = 1 .. Len(s)
        /\ DOMAIN Tail(s) = 1 .. Len(s) - 1
        /\ \A i \in 1 .. Len(s) - 1 : Tail(s)[i] = s[i + 1]
    OBVIOUS
  <1>2. \A i \in DOMAIN s : i # 1 => i - 1 \in DOMAIN Tail(s) /\ i = (i - 1) + 1
    BY <1>1
  <1>3. \A i \in DOMAIN s : i = 1 \/ \E j \in DOMAIN Tail(s) : i = j + 1
    BY <1>2, Zenon
  <1>4. \A i \in DOMAIN Tail(s) : i + 1 \in DOMAIN s /\ i + 1 # 1
    BY <1>1
  <1>5. \A i, j \in DOMAIN Tail(s) : i + 1 = j + 1 => i = j
    BY <1>1
  <1> QED BY <1>1, <1>3, <1>4, <1>5, Zenon

\* One list after the other.
LEMMA ConcatAt ==
  ASSUME NEW S, NEW s \in Seq(S), NEW t \in Seq(S)
  PROVE  /\ s \o t \in Seq(S)
         /\ \A i \in DOMAIN s : i \in DOMAIN (s \o t) /\ (s \o t)[i] = s[i]
         /\ \A i \in DOMAIN t :
              /\ Len(s) + i \in DOMAIN (s \o t) /\ (s \o t)[Len(s) + i] = t[i]
         /\ \A i \in DOMAIN (s \o t) :
              \/ i \in DOMAIN s /\ (s \o t)[i] = s[i]
              \/ \E j \in DOMAIN t : i = Len(s) + j /\ (s \o t)[i] = t[j]
  <1>1. /\ s \o t \in Seq(S) /\ Len(s) \in Nat /\ Len(t) \in Nat
        /\ DOMAIN s = 1 .. Len(s) /\ DOMAIN t = 1 .. Len(t)
        /\ DOMAIN (s \o t) = 1 .. Len(s) + Len(t)
        /\ \A i \in 1 .. Len(s) : (s \o t)[i] = s[i]
        /\ \A i \in Len(s) + 1 .. Len(s) + Len(t) : (s \o t)[i] = t[i - Len(s)]
    OBVIOUS
  <1>2. ASSUME NEW i \in DOMAIN (s \o t)
        PROVE  \/ i \in DOMAIN s /\ (s \o t)[i] = s[i]
               \/ \E j \in DOMAIN t : i = Len(s) + j /\ (s \o t)[i] = t[j]
    <2>1. CASE i <= Len(s)
      BY <1>1, <2>1
    <2>2. CASE i > Len(s)
      <3>1. /\ i - Len(s) \in DOMAIN t /\ i = Len(s) + (i - Len(s))
            /\ (s \o t)[i] = t[i - Len(s)]
        BY <1>1, <2>2
      <3> QED BY <3>1, Zenon
    <2> QED BY <1>1, <2>1, <2>2
  <1>3. \A i \in DOMAIN s : i \in DOMAIN (s \o t) /\ (s \o t)[i] = s[i]
    BY <1>1
  <1>4. \A i \in DOMAIN t : Len(s) + i \in DOMAIN (s \o t) /\ (s \o t)[Len(s) + i] = t[i]
    BY <1>1
  <1> QED BY <1>1, <1>2, <1>3, <1>4, Zenon

\* The elements of a list that grows or shrinks by one, or takes over another.
LEMMA PushBack ==
  ASSUME NEW S, NEW s \in Seq(S), NEW e \in S
  PROVE  /\ Append(s, e) \in Seq(S)
         /\ Range(Append(s, e)) = Range(s) \cup {e}
         /\ IsInjective(s) /\ e \notin Range(s) => IsInjective(Append(s, e))
  <1> DEFINE q == Append(s, e)
             n == Len(s) + 1
  <1>1. /\ q \in Seq(S) /\ n \in DOMAIN q /\ q[n] = e
        /\ \A i \in DOMAIN s : i \in DOMAIN q /\ q[i] = s[i]
        /\ \A i \in DOMAIN q : \/ i \in DOMAIN s /\ q[i] = s[i]
                               \/ i = n /\ i \notin DOMAIN s /\ q[i] = e
    BY AppendAt, Zenon
  <1> HIDE DEF q, n
  <1>2. Range(q) = Range(s) \cup {e}
    BY <1>1, Zenon DEF Range
  <1>3. ASSUME IsInjective(s), e \notin Range(s) PROVE IsInjective(q)
    BY <1>1, <1>3, Zenon DEF IsInjective, Range
  <1> QED BY <1>1, <1>2, <1>3, Zenon DEF q

\* Taking the head off a list.
LEMMA Shrunk ==
  ASSUME NEW S, NEW s \in Seq(S), s # << >>
  PROVE  /\ Head(s) \in S /\ Tail(s) \in Seq(S) /\ Head(s) \in Range(s)
         /\ Range(s) = Range(Tail(s)) \cup {Head(s)}
  <1> DEFINE q == Tail(s)
  <1>1. /\ q \in Seq(S) /\ Head(s) \in S /\ Head(s) = s[1] /\ 1 \in DOMAIN s
        /\ \A i \in DOMAIN q : i + 1 \in DOMAIN s /\ q[i] = s[i + 1]
        /\ \A i \in DOMAIN s : i = 1 \/ \E j \in DOMAIN q : i = j + 1
    BY TailAt
  <1> HIDE DEF q
  <1>2. ASSUME NEW i \in DOMAIN q PROVE q[i] \in Range(s)
    <2>1. i + 1 \in DOMAIN s /\ q[i] = s[i + 1]
      BY <1>1, Zenon
    <2> QED BY <2>1, Zenon DEF Range
  <1>3. ASSUME NEW i \in DOMAIN s PROVE s[i] \in Range(q) \cup {Head(s)}
    <2>1. CASE i = 1
      BY <1>1, <2>1, Zenon
    <2>2. CASE i # 1
      <3>1. PICK j \in DOMAIN q : i = j + 1
        BY <1>1, <2>2, Zenon
      <3>2. q[j] = s[i]
        BY <1>1, <3>1, Zenon
      <3> QED BY <3>2, Zenon DEF Range
    <2> QED BY <2>1, <2>2, Zenon
  <1>4. Head(s) \in Range(s)
    BY <1>1, Zenon DEF Range
  <1>5. Range(q) \subseteq Range(s)
    BY <1>2, Zenon DEF Range
  <1>6. Range(s) \subseteq Range(q) \cup {Head(s)}
    BY <1>3, Zenon DEF Range
  <1> QED BY <1>1, <1>4, <1>5, <1>6, Zenon DEF q

\* Taking the head off a list without repetitions.
LEMMA PopFront ==
  ASSUME NEW S, NEW s \in Seq(S), s # << >>, IsInjective(s)
  PROVE  /\ Head(s) \in S /\ Tail(s) \in Seq(S) /\ Head(s) \in Range(s)
         /\ Range(Tail(s)) = Range(s) \ {Head(s)} /\ IsInjective(Tail(s))
  <1> DEFINE q == Tail(s)
  <1>1. /\ q \in Seq(S) /\ Head(s) \in S /\ Head(s) = s[1] /\ 1 \in DOMAIN s
        /\ \A i \in DOMAIN q : i + 1 \in DOMAIN s /\ i + 1 # 1 /\ q[i] = s[i + 1]
        /\ \A i, j \in DOMAIN q : i + 1 = j + 1 => i = j
    BY TailAt, Zenon
  <1>2. \A i, j \in DOMAIN s : s[i] = s[j] => i = j
    BY Zenon DEF IsInjective
  <1>3. Head(s) \in Range(s) /\ Range(s) = Range(q) \cup {Head(s)}
    BY Shrunk, Zenon
  <1> HIDE DEF q
  <1>4. IsInjective(q)
    BY <1>1, <1>2, Zenon DEF IsInjective
  <1>5. ASSUME NEW i \in DOMAIN q PROVE q[i] # Head(s)
    <2>1. i + 1 \in DOMAIN s /\ i + 1 # 1 /\ q[i] = s[i + 1]
      BY <1>1, Zenon
    <2> QED BY <1>1, <1>2, <2>1, Zenon
  <1>6. Head(s) \notin Range(q)
    BY <1>5, Zenon DEF Range
  <1> QED BY <1>1, <1>3, <1>4, <1>6, Zenon DEF q

\* Two lists, one behind the other.
LEMMA Joined ==
  ASSUME NEW S, NEW s \in Seq(S), NEW t \in Seq(S)
  PROVE  /\ s \o t \in Seq(S) /\ Range(s \o t) = Range(s) \cup Range(t)
         /\ IsInjective(s) /\ IsInjective(t) /\ Range(s) \cap Range(t) = {}
              => IsInjective(s \o t)
  <1> DEFINE q == s \o t
  <1>1. /\ q \in Seq(S)
        /\ \A i \in DOMAIN s : i \in DOMAIN q /\ q[i] = s[i]
        /\ \A i \in DOMAIN t : Len(s) + i \in DOMAIN q /\ q[Len(s) + i] = t[i]
        /\ \A i \in DOMAIN q :
             \/ i \in DOMAIN s /\ q[i] = s[i]
             \/ \E j \in DOMAIN t : i = Len(s) + j /\ q[i] = t[j]
    BY ConcatAt
  <1> HIDE DEF q
  <1>2. Range(q) = Range(s) \cup Range(t)
    <2>1. ASSUME NEW i \in DOMAIN q PROVE q[i] \in Range(s) \cup Range(t)
      BY <1>1, Zenon DEF Range
    <2>2. ASSUME NEW i \in DOMAIN s PROVE s[i] \in Range(q)
      BY <1>1, Zenon DEF Range
    <2>3. ASSUME NEW i \in DOMAIN t PROVE t[i] \in Range(q)
      BY <1>1, Zenon DEF Range
    <2> QED BY <2>1, <2>2, <2>3, Zenon DEF Range
  <1>3. ASSUME IsInjective(s), IsInjective(t), Range(s) \cap Range(t) = {},
               NEW i \in DOMAIN q, NEW j \in DOMAIN q, q[i] = q[j]
        PROVE  i = j
    <2>1. CASE i \in DOMAIN s /\ q[i] = s[i]
      <3>1. q[i] \in Range(s)
        BY <2>1, Zenon DEF Range
      <3>2. j \in DOMAIN s /\ q[j] = s[j]
        BY <1>1, <1>3, <3>1, ZenonT(60) DEF Range
      <3> QED BY <1>3, <2>1, <3>2, Zenon DEF IsInjective
    <2>2. CASE \E k \in DOMAIN t : i = Len(s) + k /\ q[i] = t[k]
      <3>1. PICK k \in DOMAIN t : i = Len(s) + k /\ q[i] = t[k]
        BY <2>2, Zenon
      <3>2. q[i] \in Range(t)
        BY <3>1, Zenon DEF Range
      <3>3. PICK m \in DOMAIN t : j = Len(s) + m /\ q[j] = t[m]
        BY <1>1, <1>3, <3>2, Zenon DEF Range
      <3>4. k = m
        BY <1>3, <3>1, <3>3, Zenon DEF IsInjective
      <3> QED BY <3>1, <3>3, <3>4, Zenon
    <2> QED BY <1>1, <2>1, <2>2, Zenon
  <1>4. IsInjective(s) /\ IsInjective(t) /\ Range(s) \cap Range(t) = {} => IsInjective(q)
    BY <1>3, Zenon DEF IsInjective
  <1> QED BY <1>1, <1>2, <1>4, Zenon DEF q

\* The empty list.
LEMMA EmptyList ==
  /\ \A S : << >> \in Seq(S)
  /\ DOMAIN << >> = {} /\ Range(<< >>) = {} /\ IsInjective(<< >>)
  <1>1. \A S : << >> \in Seq(S)
    OBVIOUS
  <1>2. DOMAIN << >> = {}
    OBVIOUS
  <1> QED BY <1>1, <1>2, Zenon DEF Range, IsInjective

\* A list of one.
LEMMA OneElement ==
  ASSUME NEW S, NEW e \in S
  PROVE  <<e>> \in Seq(S) /\ Range(<<e>>) = {e} /\ IsInjective(<<e>>)
  <1>1. <<e>> \in Seq(S) /\ DOMAIN <<e>> = {1} /\ <<e>>[1] = e
    OBVIOUS
  <1> QED BY <1>1, Zenon DEF Range, IsInjective

\* SlotArray::release, the free list written top first.
LEMMA PushFront ==
  ASSUME NEW S, NEW s \in Seq(S), NEW e \in S, IsInjective(s), e \notin Range(s)
  PROVE  /\ <<e>> \o s \in Seq(S) /\ IsInjective(<<e>> \o s)
         /\ Range(<<e>> \o s) = {e} \cup Range(s)
  <1> DEFINE one == <<e>>
  <1>1. one \in Seq(S) /\ Range(one) = {e} /\ IsInjective(one)
    BY OneElement, Zenon
  <1> HIDE DEF one
  <1>2. /\ one \o s \in Seq(S) /\ Range(one \o s) = Range(one) \cup Range(s)
        /\ IsInjective(one) /\ IsInjective(s) /\ Range(one) \cap Range(s) = {}
             => IsInjective(one \o s)
    BY <1>1, Joined, Zenon
  <1>3. Range(one) \cap Range(s) = {}
    BY <1>1, Zenon
  <1> QED BY <1>1, <1>2, <1>3, Zenon DEF one

\* What is on a line after it grew, shrank or took over another.
LEMMA OkayAppend ==
  ASSUME NEW s \in Seq(WorkRequests), NEW w \in WorkRequests, w.ok,
         Distinct(s), w \notin Okay(s)
  PROVE  /\ Append(s, w) \in Seq(WorkRequests) /\ Distinct(Append(s, w))
         /\ Okay(Append(s, w)) = Okay(s) \cup {w}
         /\ AllOkay(s) => AllOkay(Append(s, w))
  <1> DEFINE q == Append(s, w)
             n == Len(s) + 1
  <1>1. /\ n \in DOMAIN q /\ q[n] = w
        /\ \A i \in DOMAIN s : i \in DOMAIN q /\ q[i] = s[i]
        /\ \A i \in DOMAIN q : \/ i \in DOMAIN s /\ q[i] = s[i]
                               \/ i = n /\ i \notin DOMAIN s /\ q[i] = w
    BY AppendAt, Zenon
  <1>2. q \in Seq(WorkRequests) /\ Range(q) = Range(s) \cup {w}
    BY PushBack
  <1> HIDE DEF q, n
  <1>3. Okay(q) = Okay(s) \cup {w}
    BY <1>2, Zenon DEF Okay
  <1>4. Distinct(q)
    BY <1>1, Zenon DEF Distinct, Okay, Range
  <1>5. AllOkay(s) => AllOkay(q)
    BY <1>2, Zenon DEF AllOkay
  <1> QED BY <1>2, <1>3, <1>4, <1>5, Zenon DEF q

\* A completion is taken off the front of a line.
LEMMA OkayTail ==
  ASSUME NEW s \in Seq(WorkRequests), s # << >>, Distinct(s)
  PROVE  /\ Tail(s) \in Seq(WorkRequests) /\ Head(s) \in WorkRequests
         /\ Distinct(Tail(s)) /\ Okay(Tail(s)) \subseteq Okay(s)
         /\ Head(s).ok => Head(s) \in Okay(s) /\ Okay(Tail(s)) = Okay(s) \ {Head(s)}
         /\ AllOkay(s) => Head(s).ok /\ AllOkay(Tail(s))
  <1> DEFINE q == Tail(s)
  <1>1. /\ Head(s) = s[1] /\ 1 \in DOMAIN s
        /\ \A i \in DOMAIN q : i + 1 \in DOMAIN s /\ i + 1 # 1 /\ q[i] = s[i + 1]
        /\ \A i, j \in DOMAIN q : i + 1 = j + 1 => i = j
    BY TailAt, Zenon
  <1>2. /\ q \in Seq(WorkRequests) /\ Head(s) \in WorkRequests /\ Head(s) \in Range(s)
        /\ Range(s) = Range(q) \cup {Head(s)}
    BY Shrunk, Zenon
  <1> HIDE DEF q
  <1>3. Distinct(q)
    <2> SUFFICES ASSUME NEW i \in DOMAIN q, NEW j \in DOMAIN q, q[i].ok, q[i] = q[j]
                 PROVE  i = j
      BY Zenon DEF Distinct
    <2>1. /\ i + 1 \in DOMAIN s /\ q[i] = s[i + 1]
          /\ j + 1 \in DOMAIN s /\ q[j] = s[j + 1]
      BY <1>1, Zenon
    <2>2. i + 1 = j + 1
      BY <2>1, Zenon DEF Distinct
    <2> QED BY <1>1, <2>2, Zenon
  <1>4. ASSUME NEW i \in DOMAIN q, Head(s).ok PROVE q[i] # Head(s)
    <2>1. i + 1 \in DOMAIN s /\ i + 1 # 1 /\ q[i] = s[i + 1]
      BY <1>1, Zenon
    <2> QED BY <1>1, <1>4, <2>1, Zenon DEF Distinct
  <1>5. Head(s).ok => Head(s) \notin Range(q)
    BY <1>4, Zenon DEF Range
  <1>6. Head(s).ok => Head(s) \in Okay(s) /\ Okay(q) = Okay(s) \ {Head(s)}
    BY <1>2, <1>5, Zenon DEF Okay
  <1>7. Okay(q) \subseteq Okay(s)
    BY <1>2, Zenon DEF Okay
  <1>8. AllOkay(s) => Head(s).ok /\ AllOkay(q)
    BY <1>2, Zenon DEF AllOkay
  <1> QED BY <1>2, <1>3, <1>6, <1>7, <1>8, Zenon DEF q

\* One line is put behind another, as a poll or a post does.
LEMMA OkayConcat ==
  ASSUME NEW s \in Seq(WorkRequests), NEW t \in Seq(WorkRequests),
         Distinct(s), Distinct(t), Okay(s) \cap Okay(t) = {}
  PROVE  /\ s \o t \in Seq(WorkRequests) /\ Distinct(s \o t)
         /\ Okay(s \o t) = Okay(s) \cup Okay(t)
         /\ AllOkay(s) /\ AllOkay(t) => AllOkay(s \o t)
  <1> DEFINE q == s \o t
  <1>1. \A i \in DOMAIN q :
          \/ i \in DOMAIN s /\ q[i] = s[i]
          \/ \E j \in DOMAIN t : i = Len(s) + j /\ q[i] = t[j]
    BY ConcatAt
  <1>2. q \in Seq(WorkRequests) /\ Range(q) = Range(s) \cup Range(t)
    BY Joined
  <1> HIDE DEF q
  <1>3. Okay(q) = Okay(s) \cup Okay(t)
    BY <1>2, Zenon DEF Okay
  <1>4. Distinct(q)
    <2> SUFFICES ASSUME NEW i \in DOMAIN q, NEW j \in DOMAIN q, q[i].ok, q[i] = q[j]
                 PROVE  i = j
      BY Zenon DEF Distinct
    <2>1. CASE i \in DOMAIN s /\ q[i] = s[i]
      <3>1. q[i] \in Okay(s)
        BY <2>1, Zenon DEF Okay, Range
      <3>2. q[i] \notin Range(t)
        BY <3>1, Zenon DEF Okay
      <3>3. j \in DOMAIN s /\ q[j] = s[j]
        BY <1>1, <3>2, Zenon DEF Range
      <3> QED BY <2>1, <3>3, Zenon DEF Distinct
    <2>2. CASE \E k \in DOMAIN t : i = Len(s) + k /\ q[i] = t[k]
      <3>1. PICK k \in DOMAIN t : i = Len(s) + k /\ q[i] = t[k]
        BY <2>2, Zenon
      <3>2. q[i] \in Okay(t)
        BY <3>1, Zenon DEF Okay, Range
      <3>3. q[i] \notin Range(s)
        BY <3>2, Zenon DEF Okay
      <3>4. PICK m \in DOMAIN t : j = Len(s) + m /\ q[j] = t[m]
        BY <1>1, <3>3, Zenon DEF Range
      <3>5. k = m
        BY <3>1, <3>4, Zenon DEF Distinct
      <3> QED BY <3>1, <3>4, <3>5, Zenon
    <2> QED BY <1>1, <2>1, <2>2, Zenon
  <1>5. AllOkay(s) /\ AllOkay(t) => AllOkay(q)
    BY <1>2, Zenon DEF AllOkay
  <1> QED BY <1>2, <1>3, <1>4, <1>5, Zenon DEF q

\* An empty line.
LEMMA OkayEmpty ==
  /\ << >> \in Seq(WorkRequests) /\ Distinct(<< >>) /\ Okay(<< >>) = {} /\ AllOkay(<< >>)
  BY EmptyList, Zenon DEF Distinct, Okay, AllOkay

\* The same for lists whose entries differ in their tag, or in their command.
LEMMA TagsPush ==
  ASSUME NEW S, NEW s \in Seq(S), NEW e \in S, OncePerTag(s), e.tag \notin TagsOf(s)
  PROVE  /\ Append(s, e) \in Seq(S) /\ OncePerTag(Append(s, e))
         /\ Range(Append(s, e)) = Range(s) \cup {e}
         /\ TagsOf(Append(s, e)) = TagsOf(s) \cup {e.tag}
  <1> DEFINE q == Append(s, e)
  <1>1. /\ q \in Seq(S) /\ Range(q) = Range(s) \cup {e}
        /\ IsInjective(s) /\ e \notin Range(s) => IsInjective(q)
    BY PushBack
  <1> HIDE DEF q
  <1>2. \A d \in Range(s) : d.tag # e.tag
    BY Zenon DEF TagsOf
  <1>3. OncePerTag(q)
    BY <1>1, <1>2, Zenon DEF OncePerTag
  <1>4. TagsOf(q) = TagsOf(s) \cup {e.tag}
    BY <1>1, Zenon DEF TagsOf
  <1> QED BY <1>1, <1>3, <1>4, Zenon DEF q

\* Taking the head off a list with one entry per tag.
LEMMA TagsPop ==
  ASSUME NEW S, NEW s \in Seq(S), s # << >>, OncePerTag(s)
  PROVE  /\ Tail(s) \in Seq(S) /\ OncePerTag(Tail(s))
         /\ Head(s) \in S /\ Head(s) \in Range(s)
         /\ Range(Tail(s)) = Range(s) \ {Head(s)}
         /\ TagsOf(Tail(s)) = TagsOf(s) \ {Head(s).tag}
  <1> DEFINE q == Tail(s)
             e == Head(s)
  <1>1. /\ q \in Seq(S) /\ e \in S /\ e \in Range(s) /\ Range(q) = Range(s) \ {e}
        /\ IsInjective(q)
    BY PopFront, Zenon DEF OncePerTag
  <1> HIDE DEF q, e
  <1>2. \A d \in Range(s) : d.tag = e.tag => d = e
    BY <1>1, Zenon DEF OncePerTag
  <1>3. OncePerTag(q)
    BY <1>1, Zenon DEF OncePerTag
  <1>4. TagsOf(q) = TagsOf(s) \ {e.tag}
    BY <1>1, <1>2, Zenon DEF TagsOf
  <1> QED BY <1>1, <1>3, <1>4, Zenon DEF q, e

\* Joining two lists with one entry per tag.
LEMMA TagsJoin ==
  ASSUME NEW S, NEW s \in Seq(S), NEW t \in Seq(S), OncePerTag(s), OncePerTag(t),
         TagsOf(s) \cap TagsOf(t) = {}
  PROVE  /\ s \o t \in Seq(S) /\ OncePerTag(s \o t)
         /\ Range(s \o t) = Range(s) \cup Range(t)
  <1> DEFINE q == s \o t
  <1>1. /\ q \in Seq(S) /\ Range(q) = Range(s) \cup Range(t)
        /\ IsInjective(s) /\ IsInjective(t) /\ Range(s) \cap Range(t) = {} => IsInjective(q)
    BY Joined, Zenon
  <1> HIDE DEF q
  <1>2. \A d \in Range(s), e \in Range(t) : d.tag # e.tag
    BY Zenon DEF TagsOf
  <1>3. OncePerTag(q)
    BY <1>1, <1>2, Zenon DEF OncePerTag
  <1> QED BY <1>1, <1>3, Zenon DEF q

\* Parking a command at the end of the lot.
LEMMA CmdsPush ==
  ASSUME NEW S, NEW s \in Seq(S), NEW e \in S, OncePerCmd(s), e.cmd \notin CmdsOf(s)
  PROVE  /\ Append(s, e) \in Seq(S) /\ OncePerCmd(Append(s, e))
         /\ Range(Append(s, e)) = Range(s) \cup {e}
         /\ CmdsOf(Append(s, e)) = CmdsOf(s) \cup {e.cmd}
  <1> DEFINE q == Append(s, e)
  <1>1. /\ q \in Seq(S) /\ Range(q) = Range(s) \cup {e}
        /\ IsInjective(s) /\ e \notin Range(s) => IsInjective(q)
    BY PushBack
  <1> HIDE DEF q
  <1>2. \A d \in Range(s) : d.cmd # e.cmd
    BY Zenon DEF CmdsOf
  <1>3. OncePerCmd(q)
    BY <1>1, <1>2, Zenon DEF OncePerCmd
  <1>4. CmdsOf(q) = CmdsOf(s) \cup {e.cmd}
    BY <1>1, Zenon DEF CmdsOf
  <1> QED BY <1>1, <1>3, <1>4, Zenon DEF q

\* Taking the oldest command out of the lot.
LEMMA CmdsPop ==
  ASSUME NEW S, NEW s \in Seq(S), s # << >>, OncePerCmd(s)
  PROVE  /\ Tail(s) \in Seq(S) /\ OncePerCmd(Tail(s))
         /\ Head(s) \in S /\ Head(s) \in Range(s)
         /\ Range(Tail(s)) = Range(s) \ {Head(s)}
         /\ CmdsOf(Tail(s)) = CmdsOf(s) \ {Head(s).cmd}
         /\ Head(s).cmd \in CmdsOf(s)
  <1> DEFINE q == Tail(s)
             e == Head(s)
  <1>1. /\ q \in Seq(S) /\ e \in S /\ e \in Range(s) /\ Range(q) = Range(s) \ {e}
        /\ IsInjective(q)
    BY PopFront, Zenon DEF OncePerCmd
  <1> HIDE DEF q, e
  <1>2. \A d \in Range(s) : d.cmd = e.cmd => d = e
    BY <1>1, Zenon DEF OncePerCmd
  <1>3. OncePerCmd(q)
    BY <1>1, Zenon DEF OncePerCmd
  <1>4. CmdsOf(q) = CmdsOf(s) \ {e.cmd} /\ e.cmd \in CmdsOf(s)
    BY <1>1, <1>2, Zenon DEF CmdsOf
  <1> QED BY <1>1, <1>3, <1>4, Zenon DEF q, e

\* A WRITE stays next to its SEND.
LEMMA FollowTail ==
  ASSUME NEW s \in Seq(WorkRequests), s # << >>, SendFollows(s)
  PROVE  SendFollows(Tail(s))
  <1>1. /\ Len(s) \in Nat \ {0} /\ DOMAIN s = 1 .. Len(s)
        /\ DOMAIN Tail(s) = 1 .. Len(s) - 1
        /\ \A i \in 1 .. Len(s) - 1 : Tail(s)[i] = s[i + 1]
    OBVIOUS
  <1> DEFINE q == Tail(s)
  <1> HIDE DEF q
  <1> SUFFICES ASSUME NEW i \in DOMAIN q, q[i].kind = "Write"
               PROVE  /\ i + 1 \in DOMAIN q
                      /\ q[i + 1].kind = "Send" /\ q[i + 1].low = q[i].low
    BY Zenon DEF SendFollows, q
  <1>2. i + 1 \in DOMAIN s /\ s[i + 1] = q[i] /\ i \in Nat /\ DOMAIN q = 1 .. Len(s) - 1
    BY <1>1 DEF q
  <1>3. /\ (i + 1) + 1 \in DOMAIN s /\ s[(i + 1) + 1].kind = "Send"
        /\ s[(i + 1) + 1].low = q[i].low
    BY <1>2, Zenon DEF SendFollows
  <1>4. i + 1 \in 1 .. Len(s) - 1
    BY <1>1, <1>2, <1>3
  <1>5. q[i + 1] = s[(i + 1) + 1]
    BY <1>1, <1>4, Zenon DEF q
  <1> QED BY <1>2, <1>3, <1>4, <1>5, Zenon

\* A chain is posted behind what is on the send queue.
LEMMA FollowConcat ==
  ASSUME NEW s \in Seq(WorkRequests), NEW t \in Seq(WorkRequests),
         SendFollows(s), SendFollows(t)
  PROVE  SendFollows(s \o t)
  <1> DEFINE q == s \o t
  <1>1. /\ \A i \in DOMAIN s : i \in DOMAIN q /\ q[i] = s[i]
        /\ \A i \in DOMAIN t : Len(s) + i \in DOMAIN q /\ q[Len(s) + i] = t[i]
        /\ \A i \in DOMAIN q :
             \/ i \in DOMAIN s /\ q[i] = s[i]
             \/ \E j \in DOMAIN t : i = Len(s) + j /\ q[i] = t[j]
    BY ConcatAt
  <1>2. \A j \in DOMAIN t : (Len(s) + j) + 1 = Len(s) + (j + 1)
    OBVIOUS
  <1> HIDE DEF q
  <1> SUFFICES ASSUME NEW i \in DOMAIN q, q[i].kind = "Write"
               PROVE  /\ i + 1 \in DOMAIN q
                      /\ q[i + 1].kind = "Send" /\ q[i + 1].low = q[i].low
    BY Zenon DEF SendFollows, q
  <1>3. CASE i \in DOMAIN s /\ q[i] = s[i]
    <2>1. i + 1 \in DOMAIN s /\ s[i + 1].kind = "Send" /\ s[i + 1].low = s[i].low
      BY <1>3, Zenon DEF SendFollows
    <2> QED BY <1>1, <1>3, <2>1, Zenon
  <1>4. CASE \E j \in DOMAIN t : i = Len(s) + j /\ q[i] = t[j]
    <2>1. PICK j \in DOMAIN t : i = Len(s) + j /\ q[i] = t[j]
      BY <1>4, Zenon
    <2>2. j + 1 \in DOMAIN t /\ t[j + 1].kind = "Send" /\ t[j + 1].low = t[j].low
      BY <2>1, Zenon DEF SendFollows
    <2>3. i + 1 = Len(s) + (j + 1)
      BY <1>2, <2>1, Zenon
    <2>4. Len(s) + (j + 1) \in DOMAIN q /\ q[Len(s) + (j + 1)] = t[j + 1]
      BY <1>1, <2>2, Zenon
    <2> QED BY <2>1, <2>2, <2>3, <2>4, Zenon
  <1> QED BY <1>1, <1>3, <1>4, Zenon

\* Where no WRITE is, none lacks its SEND.
LEMMA FollowNone ==
  ASSUME NEW s \in Seq(WorkRequests), \A w \in Range(s) : w.kind # "Write"
  PROVE  SendFollows(s)
  BY Zenon DEF SendFollows, Range

-----------------------------------------------------------------------------
(* Steps that move no work request and no command.                         *)

\* The state of the slots, the lines and the deferred lists stays; the thread,
\* the reap loop's control point and the slot tasks' awaits may change, and
\* responses join the batch.
LEMMA Batched ==
  ASSUME RdmaInv, phase' = phase,
         UNCHANGED <<script, depth, sent, answered>>,
         UNCHANGED <<sq, unacked, rq, cq, buf, chain, staged, comps>>,
         UNCHANGED <<state, cmd, data, pages, freeTags, inflight, resp>>,
         UNCHANGED <<parked, poolWait, readBatch, wants>>,
         responses' \in Seq(Responses), batch' \in Seq(Responses),
         phase = "boot" => UNCHANGED <<responses, batch>>,
         phase = "steady" =>
           /\ OncePerTag(responses') /\ OncePerTag(batch')
           /\ TagsOf(responses') \cap TagsOf(batch') = {}
           /\ Range(responses') \cup Range(batch') \subseteq Range(responses) \cup Range(batch),
         task' \in [Tags -> {"idle", "lease", "wait", "backend", "cqe", "finish"}],
         \A t \in Tags : task[t] = "idle" => task'[t] = "idle",
         qpUp' => qpUp, lost' \in Nat,
         HandOK => HandOK', SlotsOK', SleepOK'
  PROVE  RdmaInv'
  <1>1. RdmaTypeOK'
    BY Zenon DEF RdmaInv, RdmaTypeOK, WorkRequests, Responses
  <1>2. DepthOK'
    BY Zenon DEF RdmaInv, DepthOK, Conforming
  <1>3. Wrs' = Wrs /\ Recvs' = Recvs
    BY Zenon DEF Wrs, ToDo, Done, Recvs, Okay
  <1>4. LinesOK => LinesOK'
    BY <1>3, Zenon DEF LinesOK, LinesApart, Distinct, AllOkay, Okay, RecvWr
  <1>5. \A i : Held(i)' <=> Held(i)
    BY <1>3, Zenon DEF Held, HeldArriving, HeldParked, HeldWaiting, Inline, Kind
  <1>6. (BuffersOK => BuffersOK') /\ (RingFull => RingFull')
    BY <1>5, Zenon DEF BuffersOK, RingFull, Inline, Kind
  <1>7. phase = "boot" /\ BootOK => BootOK'
    BY <1>3, Zenon DEF BootOK, AllOkay, Okay
  <1>8. WrsOwned => WrsOwned'
    BY <1>3, ZenonT(30) DEF WrsOwned, Owned, ReadWr, SendWr, WriteWr, DataWr, WrId
  <1>9. /\ ReadsFilled => ReadsFilled'
        /\ SendFollows(chain) => SendFollows(chain)'
        /\ SendFollows(sq) => SendFollows(sq)'
    BY Zenon DEF ReadsFilled, ToDo, Done, Okay, SendFollows
  <1>10. \A t : Quiet(t) => Quiet(t)'
    BY <1>3, Zenon DEF Quiet
  <1>11. DeferredOK => DeferredOK'
    BY <1>10, Zenon DEF DeferredOK, TagsOf
  <1>14. phase = "steady" /\ ResponsesOK => ResponsesOK'
    BY <1>10, Zenon DEF ResponsesOK, Answering
  <1>12. (CommandsOK => CommandsOK') /\ (AnsweredOK => AnsweredOK')
    BY <1>3, Zenon DEF CommandsOK, AnsweredOK, ToDo, Done, Active, Okay, CmdsOf
  <1>13. phase = "steady" /\ ServingOK => ServingOK'
    BY <1>8, <1>9, <1>11, <1>12, <1>14, Zenon DEF ServingOK
  <1> QED BY <1>1, <1>2, <1>4, <1>6, <1>7, <1>13, Zenon DEF RdmaInv

\* A step that leaves work requests, slots' contents and lists alone keeps the
\* invariant if it keeps what is said of tasks and of the sleep.
LEMMA Framed ==
  ASSUME RdmaInv, phase' = phase,
         UNCHANGED <<script, depth, sent, answered>>,
         UNCHANGED <<sq, unacked, rq, cq, buf, chain, staged, comps>>,
         UNCHANGED <<state, cmd, data, pages, freeTags, inflight, resp>>,
         UNCHANGED <<responses, batch, parked, poolWait, readBatch, wants>>,
         task' \in [Tags -> {"idle", "lease", "wait", "backend", "cqe", "finish"}],
         \A t \in Tags : task[t] = "idle" => task'[t] = "idle",
         qpUp' => qpUp, lost' \in Nat,
         HandOK => HandOK', SlotsOK', SleepOK'
  PROVE  RdmaInv'
  <1>1. responses' \in Seq(Responses) /\ batch' \in Seq(Responses)
    BY Zenon DEF RdmaInv, RdmaTypeOK
  <1>2. phase = "steady" =>
          /\ OncePerTag(responses') /\ OncePerTag(batch')
          /\ TagsOf(responses') \cap TagsOf(batch') = {}
    BY Zenon DEF RdmaInv, ServingOK, ResponsesOK
  <1> QED BY <1>1, <1>2, Batched, Zenon

\* What is said of slots depends on slots and script alone.
LEMMA SlotsKept ==
  ASSUME SlotsOK, UNCHANGED <<script, sent, state, task, cmd, data, freeTags>>
  PROVE  SlotsOK'
  BY Zenon DEF SlotsOK, Active, Kind

\* What is said of the sleep depends on thread, notification and ring alone.
LEMMA SleepKept ==
  ASSUME SleepOK, UNCHANGED <<thread, armed, cq, ring, lost, phase>>,
         pc' = pc \/ pc' # "comps"
  PROVE  SleepOK'
  BY Zenon DEF SleepOK

\* A completion that enters an armed queue leaves the event, or its loss.
LEMMA Notified ==
  ASSUME SleepOK, lost \in Nat, Notify, UNCHANGED <<thread, phase, pc>>
  PROVE  SleepOK' /\ lost' \in Nat
  <1>1. lost + 1 \in Nat /\ lost + 1 > 0
    OBVIOUS
  <1>2. CASE ~armed /\ UNCHANGED <<armed, ring, lost>>
    BY <1>2, Zenon DEF SleepOK
  <1>3. CASE ring' = ring \cup {"event"} /\ UNCHANGED lost
    BY <1>3, Zenon DEF SleepOK
  <1>4. CASE lost' = lost + 1
    BY <1>1, <1>4, Zenon DEF SleepOK
  <1> QED BY <1>2, <1>3, <1>4, Zenon DEF Notify

\* Nor does a task move.
LEMMA OnlyControl ==
  ASSUME RdmaInv, UNCHANGED <<phase, script, depth, sent, answered>>,
         UNCHANGED <<sq, unacked, rq, cq, buf, chain, staged, comps>>,
         UNCHANGED <<state, cmd, data, pages, freeTags, inflight, resp, task>>,
         UNCHANGED <<responses, batch, parked, poolWait, readBatch, wants, lost>>,
         qpUp' => qpUp, HandOK => HandOK', SleepOK'
  PROVE  RdmaInv'
  <1>1. RdmaTypeOK /\ SlotsOK
    BY Zenon DEF RdmaInv
  <1>2. /\ task' \in [Tags -> {"idle", "lease", "wait", "backend", "cqe", "finish"}]
        /\ lost' \in Nat
    BY <1>1, Zenon DEF RdmaTypeOK
  <1>3. SlotsOK'
    BY <1>1, SlotsKept, Zenon
  <1> QED BY <1>2, <1>3, Framed, Zenon

\* The queue pair goes to error: nothing is promised of what it holds.
LEMMA QpFailsInv ==
  ASSUME RdmaInv, QpFails
  PROVE  RdmaInv'
  <1>1. /\ UNCHANGED <<phase, script, depth, sent, answered>>
        /\ UNCHANGED <<sq, unacked, rq, cq, buf, chain, staged, comps>>
        /\ UNCHANGED <<state, cmd, data, pages, freeTags, inflight, resp, task>>
        /\ UNCHANGED <<responses, batch, parked, poolWait, readBatch, wants, lost>>
        /\ qpUp' => qpUp
    BY Zenon DEF QpFails, host, nic, slots, lists, loop, wakeups
  <1>2. SleepOK'
    BY <1>1, SleepKept, Zenon DEF RdmaInv, QpFails, nic, loop, wakeups
  <1>3. HandOK => HandOK'
    BY <1>1, Zenon DEF HandOK, QpFails, loop
  <1> QED BY <1>1, <1>2, <1>3, OnlyControl, Zenon

\* A CM disconnect sets the stop flag and wakes the loop.
LEMMA CmDisconnectedInv ==
  ASSUME RdmaInv, CmDisconnected
  PROVE  RdmaInv'
  <1>1. /\ UNCHANGED <<phase, script, depth, sent, answered>>
        /\ UNCHANGED <<sq, unacked, rq, cq, buf, chain, staged, comps>>
        /\ UNCHANGED <<state, cmd, data, pages, freeTags, inflight, resp, task>>
        /\ UNCHANGED <<responses, batch, parked, poolWait, readBatch, wants, lost>>
        /\ qpUp' => qpUp
    BY Zenon DEF CmDisconnected, host, nic, slots, lists, loop, wakeups
  <1>2. SleepOK'
    BY <1>1, SleepKept, Zenon DEF RdmaInv, CmDisconnected, nic, loop, wakeups
  <1>3. HandOK => HandOK'
    BY <1>1, Zenon DEF HandOK, CmDisconnected, loop
  <1> QED BY <1>1, <1>2, <1>3, OnlyControl, Zenon

\* The removal of the controller only raises a flag.
LEMMA ControllerRemovedInv ==
  ASSUME RdmaInv, ControllerRemoved
  PROVE  RdmaInv'
  <1>1. /\ UNCHANGED <<phase, script, depth, sent, answered>>
        /\ UNCHANGED <<sq, unacked, rq, cq, buf, chain, staged, comps>>
        /\ UNCHANGED <<state, cmd, data, pages, freeTags, inflight, resp, task>>
        /\ UNCHANGED <<responses, batch, parked, poolWait, readBatch, wants, lost>>
        /\ qpUp' => qpUp
    BY Zenon DEF ControllerRemoved, host, nic, slots, lists, loop, wakeups
  <1>2. SleepOK'
    BY <1>1, SleepKept, Zenon DEF RdmaInv, ControllerRemoved, nic, loop, wakeups
  <1>3. HandOK => HandOK'
    BY <1>1, Zenon DEF HandOK, ControllerRemoved, loop
  <1> QED BY <1>1, <1>2, <1>3, OnlyControl, Zenon

\* The reap loop hands over to the reactor.
LEMMA LoopPendsInv ==
  ASSUME RdmaInv, LoopPends
  PROVE  RdmaInv'
  <1>1. /\ UNCHANGED <<phase, script, depth, sent, answered>>
        /\ UNCHANGED <<sq, unacked, rq, cq, buf, chain, staged, comps>>
        /\ UNCHANGED <<state, cmd, data, pages, freeTags, inflight, resp, task>>
        /\ UNCHANGED <<responses, batch, parked, poolWait, readBatch, wants, lost>>
        /\ qpUp' => qpUp
    BY Zenon DEF LoopPends, host, nic, slots, lists, loop, wakeups
  <1>2. SleepOK'
    BY <1>1, SleepKept, Zenon DEF RdmaInv, LoopPends, nic, loop, wakeups
  <1>3. HandOK => HandOK'
    BY <1>1, Zenon DEF HandOK, LoopPends, loop
  <1> QED BY <1>1, <1>2, <1>3, OnlyControl, Zenon

\* The backstop timer is another wake source.
LEMMA BackstopExpiresInv ==
  ASSUME RdmaInv, BackstopExpires
  PROVE  RdmaInv'
  <1>1. /\ UNCHANGED <<phase, script, depth, sent, answered>>
        /\ UNCHANGED <<sq, unacked, rq, cq, buf, chain, staged, comps>>
        /\ UNCHANGED <<state, cmd, data, pages, freeTags, inflight, resp, task>>
        /\ UNCHANGED <<responses, batch, parked, poolWait, readBatch, wants, lost>>
        /\ qpUp' => qpUp
    BY Zenon DEF BackstopExpires, host, nic, slots, lists, loop, wakeups
  <1>2. SleepOK'
    BY <1>1, Zenon DEF RdmaInv, SleepOK, BackstopExpires, nic, loop, wakeups
  <1>3. HandOK => HandOK'
    BY <1>1, Zenon DEF HandOK, BackstopExpires, loop
  <1> QED BY <1>1, <1>2, <1>3, OnlyControl, Zenon

\* The park probe arms the notification before it polls again.
LEMMA ParkArmInv ==
  ASSUME RdmaInv, ParkArm
  PROVE  RdmaInv'
  <1>1. /\ UNCHANGED <<phase, script, depth, sent, answered>>
        /\ UNCHANGED <<sq, unacked, rq, cq, buf, chain, staged, comps>>
        /\ UNCHANGED <<state, cmd, data, pages, freeTags, inflight, resp, task>>
        /\ UNCHANGED <<responses, batch, parked, poolWait, readBatch, wants, lost>>
        /\ qpUp' => qpUp
    BY Zenon DEF ParkArm, host, nic, slots, lists, loop, wakeups
  <1>2. SleepOK'
    BY <1>1, Zenon DEF RdmaInv, SleepOK, ParkArm, nic, loop, wakeups
  <1>3. HandOK => HandOK'
    BY <1>1, Zenon DEF HandOK, ParkArm, loop
  <1> QED BY <1>1, <1>2, <1>3, OnlyControl, Zenon

\* The thread wakes.
LEMMA WakeInv ==
  ASSUME RdmaInv, Wake
  PROVE  RdmaInv'
  <1>1. /\ UNCHANGED <<phase, script, depth, sent, answered>>
        /\ UNCHANGED <<sq, unacked, rq, cq, buf, chain, staged, comps>>
        /\ UNCHANGED <<state, cmd, data, pages, freeTags, inflight, resp, task>>
        /\ UNCHANGED <<responses, batch, parked, poolWait, readBatch, wants, lost>>
        /\ qpUp' => qpUp
    BY Zenon DEF Wake, host, nic, slots, lists, loop, wakeups
  <1>2. SleepOK'
    BY <1>1, Zenon DEF RdmaInv, SleepOK, Wake, nic, loop, wakeups
  <1>3. HandOK => HandOK'
    BY <1>1, Zenon DEF HandOK, Wake, loop
  <1> QED BY <1>1, <1>2, <1>3, OnlyControl, Zenon

\* cq::wait acknowledges the event and arms again, before the drain.
LEMMA BootAcknowledgeInv ==
  ASSUME RdmaInv, BootAcknowledge
  PROVE  RdmaInv'
  <1>1. /\ UNCHANGED <<phase, script, depth, sent, answered>>
        /\ UNCHANGED <<sq, unacked, rq, cq, buf, chain, staged, comps>>
        /\ UNCHANGED <<state, cmd, data, pages, freeTags, inflight, resp, task>>
        /\ UNCHANGED <<responses, batch, parked, poolWait, readBatch, wants, lost>>
        /\ qpUp' => qpUp
    BY Zenon DEF BootAcknowledge, host, nic, slots, lists, loop, wakeups
  <1>2. SleepOK'
    BY <1>1, Zenon DEF RdmaInv, SleepOK, BootAcknowledge, nic, loop, wakeups, Running
  <1>3. HandOK => HandOK'
    BY <1>1, Zenon DEF HandOK, BootAcknowledge, loop
  <1> QED BY <1>1, <1>2, <1>3, OnlyControl, Zenon

\* The bootstrap sleeps on the channel.
LEMMA BootSleepInv ==
  ASSUME RdmaInv, BootSleep
  PROVE  RdmaInv'
  <1>1. /\ UNCHANGED <<phase, script, depth, sent, answered>>
        /\ UNCHANGED <<sq, unacked, rq, cq, buf, chain, staged, comps>>
        /\ UNCHANGED <<state, cmd, data, pages, freeTags, inflight, resp, task>>
        /\ UNCHANGED <<responses, batch, parked, poolWait, readBatch, wants, lost>>
        /\ qpUp' => qpUp
    BY Zenon DEF BootSleep, host, nic, slots, lists, loop, wakeups
  <1>2. SleepOK'
    BY <1>1, Zenon DEF SleepOK, BootSleep
  <1>3. HandOK => HandOK'
    BY <1>1, Zenon DEF HandOK, BootSleep, loop
  <1> QED BY <1>1, <1>2, <1>3, OnlyControl, Zenon

\* Nothing past the bootstrap and the reap loop depends on the lines.
LEMMA Ended ==
  ASSUME RdmaInv, thread = "awake", phase' \in {"teardown", "freed", "leaked"},
         UNCHANGED <<script, depth, sent, answered>>,
         UNCHANGED <<unacked, rq, cq, buf, chain, staged>>,
         UNCHANGED <<state, cmd, data, pages, freeTags, inflight, resp, task>>,
         UNCHANGED <<responses, batch, parked, poolWait, thread, armed, ring, lost>>,
         sq' \in Seq(WorkRequests), comps' \in Seq(WorkRequests), readBatch' \in Seq(Tags),
         phase' = "freed" => \A t \in Tags : task[t] = "idle"
  PROVE  RdmaInv'
  <1>1. RdmaTypeOK'
    BY Zenon DEF RdmaInv, RdmaTypeOK
  <1>2. DepthOK' /\ SleepOK'
    BY Zenon DEF RdmaInv, DepthOK, Conforming, SleepOK
  <1>3. SlotsOK'
    BY SlotsKept, Zenon DEF RdmaInv
  <1> QED BY <1>1, <1>2, <1>3, Zenon DEF RdmaInv

\* The loop breaks and teardown begins, whatever is left on the lists.
LEMMA LeaveInv ==
  ASSUME RdmaInv, thread = "awake", leave
  PROVE  RdmaInv'
  <1>1. /\ phase' = "teardown" /\ comps' = << >>
        /\ UNCHANGED <<script, depth, sent, answered>>
        /\ UNCHANGED <<sq, unacked, rq, cq, buf, chain, staged>>
        /\ UNCHANGED <<state, cmd, data, pages, freeTags, inflight, resp, task>>
        /\ UNCHANGED <<responses, batch, parked, poolWait, readBatch>>
        /\ UNCHANGED <<thread, armed, ring, lost>>
    BY Zenon DEF leave, host, nic, slots, lists
  <1>2. sq' \in Seq(WorkRequests) /\ readBatch' \in Seq(Tags)
    BY <1>1, Zenon DEF RdmaInv, RdmaTypeOK
  <1>3. comps' \in Seq(WorkRequests)
    BY <1>1, EmptyList, Zenon
  <1> QED BY <1>1, <1>2, <1>3, Ended, Zenon

\* Teardown waits for the backend before it frees the arena.
LEMMA TeardownInv ==
  ASSUME RdmaInv, Teardown
  PROVE  RdmaInv'
  <1>1. /\ thread = "awake" /\ phase' \in {"freed", "leaked"}
        /\ phase' = "freed" => Executing = {}
        /\ UNCHANGED <<script, depth, sent, answered>>
        /\ UNCHANGED <<sq, unacked, rq, cq, buf, chain, staged, comps>>
        /\ UNCHANGED <<state, cmd, data, pages, freeTags, inflight, resp, task>>
        /\ UNCHANGED <<responses, batch, parked, poolWait, readBatch>>
        /\ UNCHANGED <<thread, armed, ring, lost>>
    BY Zenon DEF Teardown, Freed, TimesOut, Running, host, nic, slots, lists, wakeups
  <1>2. /\ sq' \in Seq(WorkRequests) /\ comps' \in Seq(WorkRequests)
        /\ readBatch' \in Seq(Tags)
    BY <1>1, Zenon DEF RdmaInv, RdmaTypeOK
  <1>3. Executing = {} => \A t \in Tags : task[t] = "idle"
    BY Zenon DEF RdmaInv, SlotsOK, Executing
  <1> QED BY <1>1, <1>2, <1>3, Ended, Zenon

\* The bootstrap found the CQ drained, or a failed completion, which ends the queue.
LEMMA BootEndsInv ==
  ASSUME RdmaInv, BootEnds
  PROVE  RdmaInv'
  <1>1. /\ UNCHANGED <<script, depth, sent, answered>>
        /\ UNCHANGED <<sq, unacked, rq, cq, buf, chain, staged, comps>>
        /\ UNCHANGED <<state, cmd, data, pages, freeTags, inflight, resp, task>>
        /\ UNCHANGED <<responses, batch, parked, poolWait, readBatch, wants>>
        /\ UNCHANGED <<thread, armed, ring, lost, qpUp>>
        /\ thread = "awake" /\ phase = "boot" /\ phase' \in {"boot", "freed"}
    BY Zenon DEF BootEnds, Running, host, nic, slots, lists, wakeups
  <1>2. RdmaTypeOK /\ BootOK /\ SleepOK
    BY <1>1, Zenon DEF RdmaInv
  <1>3. comps = << >> /\ \A t \in Tags : task[t] = "idle"
    BY <1>2, Zenon DEF BootOK
  <1>4. CASE phase' = "boot"
    <2>1. SleepOK' /\ HandOK'
      BY <1>1, <1>2, <1>3, <1>4, Zenon DEF SleepOK, HandOK
    <2>2. phase' = phase
      BY <1>1, <1>4, Zenon
    <2> QED BY <1>1, <2>1, <2>2, OnlyControl, Zenon
  <1>5. CASE phase' = "freed"
    <2>1. /\ sq' \in Seq(WorkRequests) /\ comps' \in Seq(WorkRequests)
          /\ readBatch' \in Seq(Tags)
      BY <1>1, <1>2, Zenon DEF RdmaTypeOK
    <2> QED BY <1>1, <1>3, <1>5, <2>1, Ended, Zenon
  <1> QED BY <1>1, <1>4, <1>5, Zenon

\* The reactor reaps its ring: the loop or a slot task wakes.
LEMMA ParkReapInv ==
  ASSUME RdmaInv, ParkReap
  PROVE  RdmaInv'
  <1>1. /\ UNCHANGED <<phase, script, depth, sent, answered>>
        /\ UNCHANGED <<sq, unacked, rq, cq, buf, chain, staged, comps>>
        /\ UNCHANGED <<state, cmd, data, pages, freeTags, inflight, resp>>
        /\ UNCHANGED <<responses, batch, parked, poolWait, readBatch, wants>>
        /\ UNCHANGED <<qpUp, lost, thread>>
        /\ thread = "awake" /\ pc = "pending" /\ pc' \in {"woken", pc}
        /\ task' = [t \in Tags |-> IF task[t] = "cqe" THEN "finish" ELSE task[t]]
    BY Zenon DEF ParkReap, Running, Idle, host, nic, lists
  <1>2. RdmaTypeOK /\ SlotsOK
    BY Zenon DEF RdmaInv
  <1>3. task' \in [Tags -> {"idle", "lease", "wait", "backend", "cqe", "finish"}]
    BY <1>1, <1>2, Zenon DEF RdmaTypeOK
  <1>4. \A t \in Tags : /\ task'[t] = "idle" <=> task[t] = "idle"
                        /\ task'[t] \in {"cqe", "finish"} => task[t] \in {"cqe", "finish"}
    BY <1>1, Zenon
  <1>5. SlotsOK'
    BY <1>1, <1>2, <1>4, Zenon DEF SlotsOK, Active, Kind
  <1>6. SleepOK' /\ (HandOK => HandOK')
    BY <1>1, Zenon DEF SleepOK, HandOK
  <1>7. lost' \in Nat
    BY <1>1, <1>2, Zenon DEF RdmaTypeOK
  <1> QED BY <1>1, <1>3, <1>4, <1>5, <1>6, <1>7, Framed, Zenon

-----------------------------------------------------------------------------
(* Steps of the slot tasks.                                                *)

\* A tag and a RECV buffer are known by their index, which a work request id holds.
LEMMA IndexNat == Tags \subseteq Nat /\ Bufs \subseteq Nat
  <1>1. NSlots \in Nat
    BY RdmaAssumption, Zenon
  <1> QED BY <1>1 DEF Tags, Bufs

\* What is in a list is of its type.
LEMMA Elements ==
  ASSUME NEW S, NEW s \in Seq(S)
  PROVE  Range(s) \subseteq S
  BY DEF Range

\* What the lists of the queue hold.
LEMMA ListsTyped ==
  ASSUME RdmaTypeOK
  PROVE  /\ Range(freeTags) \subseteq Tags /\ Range(readBatch) \subseteq Tags
         /\ Range(rq) \subseteq Bufs
         /\ \A e \in Range(poolWait) : e.tag \in Tags /\ e.idx \in Bufs
         /\ \A e \in Range(parked) : e.cmd \in Nat /\ e.idx \in Bufs
         /\ \A r \in Range(responses) \cup Range(batch) :
              r.tag \in Tags /\ r.data \in BOOLEAN
         /\ TagsOf(poolWait) \subseteq Tags
  <1>1. /\ Range(freeTags) \subseteq Tags /\ Range(readBatch) \subseteq Tags
        /\ Range(rq) \subseteq Bufs
        /\ Range(poolWait) \subseteq [tag : Tags, idx : Bufs]
        /\ Range(parked) \subseteq [cmd : Nat, idx : Bufs]
        /\ Range(responses) \subseteq Responses /\ Range(batch) \subseteq Responses
    BY Elements, Zenon DEF RdmaTypeOK
  <1>2. /\ \A e \in [tag : Tags, idx : Bufs] : e.tag \in Tags /\ e.idx \in Bufs
        /\ \A e \in [cmd : Nat, idx : Bufs] : e.cmd \in Nat /\ e.idx \in Bufs
        /\ \A r \in Responses : r.tag \in Tags /\ r.data \in BOOLEAN
    BY Zenon DEF Responses
  <1>3. \A e \in Range(poolWait) : e.tag \in Tags /\ e.idx \in Bufs
    BY <1>1, <1>2, Zenon
  <1>4. /\ \A e \in Range(parked) : e.cmd \in Nat /\ e.idx \in Bufs
        /\ \A r \in Range(responses) \cup Range(batch) :
             r.tag \in Tags /\ r.data \in BOOLEAN
    BY <1>1, <1>2, Zenon
  <1> QED BY <1>1, <1>3, <1>4, Zenon DEF TagsOf

\* What the lines hold.
LEMMA WrsTyped ==
  ASSUME RdmaTypeOK
  PROVE  /\ Wrs \subseteq WorkRequests
         /\ \A w \in Wrs : w.kind \in {"Recv", "Read", "Write", "Send"} /\ w.ok
  <1>1. \A s \in Seq(WorkRequests) : Range(s) \subseteq WorkRequests
    BY Elements, Zenon
  <1>2. \A s \in Seq(WorkRequests) : Okay(s) \subseteq WorkRequests
    BY <1>1, Zenon DEF Okay
  <1>3. Wrs \subseteq WorkRequests
    BY <1>2, Zenon DEF Wrs, ToDo, Done, RdmaTypeOK
  <1>4. \A w \in WorkRequests : w.kind \in {"Recv", "Read", "Write", "Send"}
    BY Zenon DEF WorkRequests
  <1>5. \A w \in Wrs : w.ok
    BY Zenon DEF Wrs, ToDo, Done, Okay
  <1> QED BY <1>3, <1>4, <1>5, Zenon

\* Only a tag that receives or responds has work requests out.
LEMMA QuietTag ==
  ASSUME RdmaTypeOK, WrsOwned, NEW t, state[t] \in {"Free", "Ready", "Executing"}
  PROVE  Quiet(t)
  <1> SUFFICES ASSUME NEW w \in Wrs, w.kind # "Recv" PROVE w.low # t
    BY Zenon DEF Quiet
  <1>1. w.kind \in {"Read", "Write", "Send"} /\ Owned(w)
    BY WrsTyped, Zenon DEF WrsOwned
  <1>2. state[w.low] \in {"Receiving", "Responding"}
    BY <1>1, Zenon DEF Owned
  <1> QED BY <1>2, Zenon

\* What a tag's work requests and its place in the lists say of it stays true
\* when another tag's state, data or lease changes.
LEMMA SlotStep ==
  ASSUME RdmaInv, NEW t \in Tags, state[t] \in {"Ready", "Executing"},
         phase \in {"steady", "teardown", "leaked"}, phase' = phase,
         UNCHANGED <<script, depth, sent, answered>>,
         UNCHANGED <<sq, unacked, rq, cq, buf, chain, staged, comps>>,
         UNCHANGED <<cmd, freeTags, inflight, resp, batch, parked, poolWait, readBatch>>,
         \A u \in Tags \ {t} :
           state'[u] = state[u] /\ data'[u] = data[u] /\ pages'[u] = pages[u],
         \/ responses' = responses /\ state'[t] = "Executing"
         \/ \E d \in BOOLEAN : /\ responses' = Append(responses, [tag |-> t, data |-> d])
                               /\ state'[t] = "Responding" /\ (d => data'[t] = cmd[t]),
         qpUp' => qpUp, RdmaTypeOK', HandOK => HandOK', SlotsOK', SleepOK'
  PROVE  RdmaInv'
  <1>1. DepthOK'
    BY Zenon DEF RdmaInv, DepthOK, Conforming
  <1>2. Wrs' = Wrs /\ Recvs' = Recvs
    BY Zenon DEF Wrs, ToDo, Done, Recvs, Okay
  <1>3. LinesOK => LinesOK'
    BY <1>2, Zenon DEF LinesOK, LinesApart, Distinct, AllOkay, Okay, RecvWr
  <1>4. \A i : Held(i)' <=> Held(i)
    BY <1>2, Zenon DEF Held, HeldArriving, HeldParked, HeldWaiting, Inline, Kind
  <1>5. (BuffersOK => BuffersOK') /\ (RingFull => RingFull')
    BY <1>4, Zenon DEF BuffersOK, RingFull, Inline, Kind
  <1>6. ASSUME phase = "steady" PROVE ServingOK'
    <2>0. RdmaTypeOK /\ ServingOK /\ WrsOwned
      BY <1>6, Zenon DEF RdmaInv, ServingOK
    <2>1. RdmaTypeOK /\ ServingOK /\ Quiet(t)
      BY <2>0, QuietTag
    <2>2. \A w \in Wrs : w.kind # "Recv" => w.low \in Tags \ {t}
      BY <2>1, WrsTyped, Zenon DEF ServingOK, WrsOwned, Owned, Quiet
    <2>3. \A w \in Wrs : w.kind # "Recv" =>
            /\ state'[w.low] = state[w.low] /\ data'[w.low] = data[w.low]
            /\ pages'[w.low] = pages[w.low]
      BY <2>2, Zenon
    <2>4. WrsOwned'
      <3>1. ASSUME NEW w \in Wrs PROVE Owned(w)'
        <4>1. Owned(w)
          BY <2>0, Zenon DEF WrsOwned
        <4>2. CASE w.kind = "Recv"
          BY <4>2, Zenon DEF Owned
        <4>3. CASE w.kind # "Recv"
          <5>1. /\ state'[w.low] = state[w.low] /\ data'[w.low] = data[w.low]
                /\ pages'[w.low] = pages[w.low]
            BY <2>3, <4>3, Zenon
          <5>2. /\ ReadWr(w.low)' = ReadWr(w.low) /\ SendWr(w.low)' = SendWr(w.low)
                /\ WriteWr(w.low)' = WriteWr(w.low)
            BY <5>1, Zenon DEF ReadWr, SendWr, WriteWr, DataWr, WrId
          <5> QED BY <4>1, <5>1, <5>2, Zenon DEF Owned
        <4> QED BY <4>2, <4>3, Zenon
      <3> QED BY <1>2, <2>0, <3>1, Zenon DEF WrsOwned
    <2>5. ReadsFilled'
      <3>1. Done' = Done /\ Done \subseteq Wrs
        BY Zenon DEF Done, Wrs
      <3>2. ReadsFilled
        BY <2>1, Zenon DEF ServingOK
      <3> QED BY <2>3, <3>1, <3>2, Zenon DEF ReadsFilled
    <2>6. SendFollows(chain)' /\ SendFollows(sq)'
      BY <2>1, Zenon DEF ServingOK, SendFollows
    <2>7. \A u : Quiet(u) => Quiet(u)'
      BY <1>2, Zenon DEF Quiet
    <2>8. \A u \in TagsOf(poolWait) \cup Range(readBatch) : u \in Tags
      BY <2>1, ListsTyped, Zenon
    <2>9. DeferredOK'
      <3>1. \A u \in TagsOf(poolWait) \cup Range(readBatch) : u \in Tags \ {t}
        BY <2>1, <2>8, Zenon DEF ServingOK, DeferredOK
      <3>2. \A u \in TagsOf(poolWait) \cup Range(readBatch) :
              state'[u] = "Receiving" /\ Quiet(u)'
        BY <2>1, <2>7, <3>1, Zenon DEF ServingOK, DeferredOK
      <3> QED BY <2>1, <3>2, Zenon DEF ServingOK, DeferredOK, TagsOf
    <2>10. \A r \in Range(responses) \cup Range(batch) : r.tag \in Tags \ {t}
      <3>2. \A r \in Range(responses) \cup Range(batch) : r.tag \in Tags
        BY <2>1, ListsTyped, Zenon
      <3>3. \A r \in Range(responses) \cup Range(batch) : state[r.tag] = "Responding"
        BY <2>1, Zenon DEF ServingOK, ResponsesOK, Answering
      <3> QED BY <3>2, <3>3, Zenon
    <2>11. \A r \in Range(responses) \cup Range(batch) : Answering(r)'
      BY <2>1, <2>7, <2>10, Zenon DEF ServingOK, ResponsesOK, Answering
    <2>12. ResponsesOK'
      <3>1. CASE responses' = responses
        BY <2>1, <2>11, <3>1, Zenon DEF ServingOK, ResponsesOK, TagsOf
      <3>2. ASSUME NEW d \in BOOLEAN, responses' = Append(responses, [tag |-> t, data |-> d]),
                   state'[t] = "Responding", d => data'[t] = cmd[t]
            PROVE  ResponsesOK'
        <4> DEFINE e == [tag |-> t, data |-> d]
        <4>1. e \in Responses /\ e.tag = t /\ e.data = d
          BY Zenon DEF Responses
        <4>2. responses \in Seq(Responses) /\ OncePerTag(responses)
          BY <2>1, Zenon DEF RdmaTypeOK, ServingOK, ResponsesOK
        <4>3. t \notin TagsOf(responses) /\ t \notin TagsOf(batch)
          BY <2>10, Zenon DEF TagsOf
        <4>4. responses' = Append(responses, e)
          BY <3>2, Zenon
        <4> HIDE DEF e
        <4>5. /\ OncePerTag(responses') /\ Range(responses') = Range(responses) \cup {e}
              /\ TagsOf(responses') = TagsOf(responses) \cup {t}
          BY <4>1, <4>2, <4>3, <4>4, TagsPush
        <4>6. cmd[t] \notin answered
          BY <2>1, Zenon DEF ServingOK, AnsweredOK, ToDo, Done
        <4>7. Answering(e)'
          BY <2>1, <2>7, <3>2, <4>1, <4>6, Zenon DEF Answering
        <4>8. OncePerTag(batch) /\ TagsOf(responses) \cap TagsOf(batch) = {}
          BY <2>1, Zenon DEF ServingOK, ResponsesOK
        <4>9. TagsOf(responses') \cap TagsOf(batch') = {}
          BY <4>3, <4>5, <4>8, Zenon
        <4> QED BY <2>11, <4>5, <4>7, <4>8, <4>9, Zenon DEF ResponsesOK
      <3> QED BY <3>1, <3>2, Zenon
    <2>13. \A u \in Tags : Active(u)' <=> Active(u)
      <3>1. Active(t) /\ Active(t)'
        BY Zenon DEF Active
      <3>2. \A u \in Tags \ {t} : Active(u)' <=> Active(u)
        BY Zenon DEF Active
      <3> QED BY <3>1, <3>2, Zenon
    <2>14. CommandsOK'
      BY <1>2, <2>1, <2>13, Zenon DEF ServingOK, CommandsOK, CmdsOf
    <2>15. AnsweredOK'
      <3>1. \A u \in Tags : state'[u] \in {"Receiving", "Ready", "Executing"} =>
              state[u] \in {"Receiving", "Ready", "Executing"}
        BY Zenon
      <3> QED BY <1>2, <2>1, <3>1, Zenon DEF ServingOK, AnsweredOK, ToDo, Done, CmdsOf, Okay
    <2> QED BY <2>4, <2>5, <2>6, <2>9, <2>12, <2>14, <2>15, Zenon DEF ServingOK
  <1> QED BY <1>1, <1>3, <1>5, <1>6, Zenon DEF RdmaInv

\* What a command that was sent asks for.
LEMMA NeedNat ==
  ASSUME RdmaTypeOK, NEW c \in 1 .. sent
  PROVE  Need(c) \in Nat /\ Kind(c) \in Kinds /\ c \in Nat
  <1>1. script \in Seq([kind : Kinds, n : 0 .. NPages]) /\ sent \in 0 .. Len(script)
    BY Zenon DEF RdmaTypeOK
  <1>2. c \in 1 .. Len(script) /\ c \in Nat
    BY <1>1
  <1>3. script[c] \in [kind : Kinds, n : 0 .. NPages]
    <2>1. DOMAIN script = 1 .. Len(script)
      BY <1>1
    <2>2. script[c] \in Range(script)
      BY <1>2, <2>1, Zenon DEF Range
    <2> QED BY <1>1, <2>2, Elements, Zenon
  <1> QED BY <1>2, <1>3 DEF Need, Kind

\* The backend finishes an operation.
LEMMA BackendCompletesInv ==
  ASSUME RdmaInv, NEW t \in Tags, BackendCompletes(t)
  PROVE  RdmaInv'
  <1>1. /\ task[t] = "backend" /\ task' = [task EXCEPT ![t] = "cqe"]
        /\ data' = IF Kind(cmd[t]) = "read" THEN [data EXCEPT ![t] = cmd[t]] ELSE data
        /\ UNCHANGED <<script, depth, sent, answered>>
        /\ UNCHANGED <<sq, unacked, rq, cq, buf, chain, staged, comps, qpUp>>
        /\ UNCHANGED <<cmd, freeTags, inflight, resp, batch, parked, poolWait, readBatch>>
        /\ UNCHANGED <<thread, armed, ring, lost, wants, phase>>
        /\ UNCHANGED <<state, pages, responses, pc>>
    BY Zenon DEF BackendCompletes, host, nic, lists, loop, wakeups
  <1>2. RdmaTypeOK /\ SlotsOK /\ SleepOK
    BY Zenon DEF RdmaInv
  <1>3. /\ state[t] = "Executing" /\ phase \in {"steady", "teardown", "leaked"}
    <2>1. task[t] # "idle"
      BY <1>1, Zenon
    <2>2. phase \notin {"boot", "freed"}
      BY <2>1, Zenon DEF RdmaInv, BootOK
    <2>3. phase \in {"boot", "steady", "teardown", "freed", "leaked"}
      BY <1>2, Zenon DEF RdmaTypeOK
    <2> QED BY <1>2, <2>1, <2>2, <2>3, Zenon DEF SlotsOK
  <1>4. /\ data' \in [Tags -> Nat]
        /\ task' \in [Tags -> {"idle", "lease", "wait", "backend", "cqe", "finish"}]
    BY <1>1, <1>2, Zenon DEF RdmaTypeOK
  <1>5. \A u \in Tags \ {t} : data'[u] = data[u] /\ task'[u] = task[u]
    BY <1>1, <1>2, Zenon DEF RdmaTypeOK
  <1>6. /\ Kind(cmd[t]) = "read" => data'[t] = cmd[t]
        /\ Kind(cmd[t]) # "read" => data'[t] = data[t]
    BY <1>1, <1>2, Zenon DEF RdmaTypeOK
  <1>7. RdmaTypeOK'
    BY <1>1, <1>2, <1>4, Zenon DEF RdmaTypeOK
  <1>8. SlotsOK'
    BY <1>1, <1>2, <1>3, <1>5, <1>6 DEF SlotsOK, Active, Kind
  <1>9. SleepOK' /\ (HandOK => HandOK')
    BY <1>1, <1>2, Zenon DEF SleepOK, HandOK
  <1> QED BY <1>1, <1>3, <1>5, <1>7, <1>8, <1>9, SlotStep, Zenon

\* A slot task starts on its command.
LEMMA StartInv ==
  ASSUME RdmaInv, NEW t \in Tags, Start(t)
  PROVE  RdmaInv'
  <1>1. /\ state[t] = "Ready" /\ state' = [state EXCEPT ![t] = "Executing"]
        /\ task' = [task EXCEPT ![t] = IF Kind(cmd[t]) = "read" THEN "lease" ELSE "backend"]
        /\ UNCHANGED <<script, depth, sent, answered>>
        /\ UNCHANGED <<sq, unacked, rq, cq, buf, chain, staged, comps, qpUp>>
        /\ UNCHANGED <<cmd, freeTags, inflight, resp, batch, parked, poolWait, readBatch>>
        /\ UNCHANGED <<thread, armed, ring, lost, wants, phase>>
        /\ UNCHANGED <<data, pages, responses, pc>> /\ phase \in {"steady", "teardown"}
    BY Zenon DEF Start, TaskMayRun, host, nic, lists, loop, wakeups
  <1>2. RdmaTypeOK /\ SlotsOK /\ SleepOK
    BY Zenon DEF RdmaInv
  <1>3. /\ state' \in [Tags -> {"Free", "Receiving", "Ready", "Executing", "Responding"}]
        /\ task' \in [Tags -> {"idle", "lease", "wait", "backend", "cqe", "finish"}]
    BY <1>1, <1>2, Zenon DEF RdmaTypeOK
  <1>4. /\ \A u \in Tags \ {t} : state'[u] = state[u] /\ task'[u] = task[u]
        /\ state'[t] = "Executing" /\ task'[t] \in {"lease", "backend"}
    BY <1>1, <1>2, Zenon DEF RdmaTypeOK
  <1>5. RdmaTypeOK'
    BY <1>1, <1>2, <1>3, Zenon DEF RdmaTypeOK
  <1>6. SlotsOK'
    <2>1. t \notin Range(freeTags)
      BY <1>1, <1>2, Zenon DEF SlotsOK
    <2>2. \A u \in Range(freeTags) : u \in Tags \ {t}
      BY <1>2, <2>1, ListsTyped, Zenon
    <2> QED BY <1>1, <1>2, <1>4, <2>2 DEF SlotsOK, Active, Kind
  <1>7. SleepOK' /\ (HandOK => HandOK')
    BY <1>1, <1>2, Zenon DEF SleepOK, HandOK
  <1> QED BY <1>1, <1>4, <1>5, <1>6, <1>7, SlotStep, Zenon

\* A slot task leases pages, or queues for them.
LEMMA LeaseInv ==
  ASSUME RdmaInv, NEW t \in Tags, Lease(t)
  PROVE  RdmaInv'
  <1>1. /\ task[t] = "lease"
        /\ \/ pages' = [pages EXCEPT ![t] = Need(cmd[t])] /\ task' = [task EXCEPT ![t] = "backend"]
           \/ pages' = pages /\ task' = [task EXCEPT ![t] = "wait"]
        /\ UNCHANGED <<script, depth, sent, answered>>
        /\ UNCHANGED <<sq, unacked, rq, cq, buf, chain, staged, comps, qpUp>>
        /\ UNCHANGED <<cmd, freeTags, inflight, resp, batch, parked, poolWait, readBatch>>
        /\ UNCHANGED <<thread, armed, ring, lost, wants, phase>>
        /\ UNCHANGED <<state, data, responses, pc>> /\ phase \in {"steady", "teardown"}
    BY Zenon DEF Lease, lease, TaskMayRun, host, nic, lists, loop, wakeups
  <1>2. RdmaTypeOK /\ SlotsOK /\ SleepOK
    BY Zenon DEF RdmaInv
  <1>3. state[t] = "Executing" /\ cmd[t] \in 1 .. sent
    BY <1>1, <1>2, Zenon DEF SlotsOK, Active
  <1>4. Need(cmd[t]) \in Nat
    BY <1>2, <1>3, NeedNat, Zenon
  <1>5. /\ pages' \in [Tags -> Nat]
        /\ task' \in [Tags -> {"idle", "lease", "wait", "backend", "cqe", "finish"}]
    <2>1. pages \in [Tags -> Nat] /\ task \in [Tags -> {"idle", "lease", "wait", "backend", "cqe", "finish"}]
      BY <1>2, Zenon DEF RdmaTypeOK
    <2> QED BY <1>1, <1>4, <2>1, Zenon
  <1>6. /\ \A u \in Tags \ {t} : pages'[u] = pages[u] /\ task'[u] = task[u]
        /\ task'[t] \in {"wait", "backend"}
    BY <1>1, <1>2, Zenon DEF RdmaTypeOK
  <1>7. RdmaTypeOK'
    BY <1>1, <1>2, <1>5, Zenon DEF RdmaTypeOK
  <1>8. SlotsOK'
    BY <1>1, <1>2, <1>3, <1>6, Zenon DEF SlotsOK, Active, Kind
  <1>9. SleepOK' /\ (HandOK => HandOK')
    BY <1>1, <1>2, Zenon DEF SleepOK, HandOK
  <1> QED BY <1>1, <1>3, <1>6, <1>7, <1>8, <1>9, SlotStep, Zenon

\* A slot task is done and queues its response.
LEMMA FinishInv ==
  ASSUME RdmaInv, NEW t \in Tags, Finish(t)
  PROVE  RdmaInv'
  <1>1. /\ task[t] = "finish" /\ state' = [state EXCEPT ![t] = "Responding"]
        /\ task' = [task EXCEPT ![t] = "idle"]
        /\ \E ok \in BOOLEAN :
             responses' = Append(responses, [tag |-> t, data |-> ok /\ Kind(cmd[t]) = "read"])
        /\ pc' = pc \/ (pc = "pending" /\ pc' = "woken")
        /\ UNCHANGED <<script, depth, sent, answered>>
        /\ UNCHANGED <<sq, unacked, rq, cq, buf, chain, staged, comps, qpUp>>
        /\ UNCHANGED <<cmd, freeTags, inflight, resp, batch, parked, poolWait, readBatch>>
        /\ UNCHANGED <<thread, armed, ring, lost, wants, phase>>
        /\ UNCHANGED <<data, pages>> /\ phase \in {"steady", "teardown"}
    BY Zenon DEF Finish, TaskMayRun, host, nic, wakeups
  <1>2. RdmaTypeOK /\ SlotsOK /\ SleepOK
    BY Zenon DEF RdmaInv
  <1>3. PICK d \in BOOLEAN : /\ responses' = Append(responses, [tag |-> t, data |-> d])
                             /\ d => Kind(cmd[t]) = "read"
    BY <1>1, Zenon
  <1>4. /\ state' \in [Tags -> {"Free", "Receiving", "Ready", "Executing", "Responding"}]
        /\ task' \in [Tags -> {"idle", "lease", "wait", "backend", "cqe", "finish"}]
    BY <1>1, <1>2, Zenon DEF RdmaTypeOK
  <1>5. /\ \A u \in Tags \ {t} : state'[u] = state[u] /\ task'[u] = task[u]
        /\ state'[t] = "Responding" /\ task'[t] = "idle"
    BY <1>1, <1>2, Zenon DEF RdmaTypeOK
  <1>6. responses' \in Seq(Responses)
    <2>1. [tag |-> t, data |-> d] \in Responses /\ responses \in Seq(Responses)
      BY <1>2, Zenon DEF RdmaTypeOK, Responses
    <2> QED BY <1>3, <2>1, PushBack, Zenon
  <1>7. state[t] = "Executing"
    BY <1>1, <1>2, Zenon DEF SlotsOK
  <1>8. d => data'[t] = cmd[t]
    BY <1>1, <1>2, <1>3, Zenon DEF SlotsOK
  <1>9. RdmaTypeOK'
    BY <1>1, <1>2, <1>4, <1>6, Zenon DEF RdmaTypeOK
  <1>10. SlotsOK'
    <2>1. t \notin Range(freeTags)
      BY <1>2, <1>7, Zenon DEF SlotsOK
    <2>2. \A u \in Range(freeTags) : u \in Tags \ {t}
      BY <1>2, <2>1, ListsTyped, Zenon
    <2>3. cmd[t] \in 1 .. sent
      BY <1>2, <1>7, Zenon DEF SlotsOK, Active
    <2> QED BY <1>1, <1>2, <1>5, <2>2, <2>3 DEF SlotsOK, Active, Kind
  <1>11. SleepOK' /\ (HandOK => HandOK')
    BY <1>1, <1>2, Zenon DEF SleepOK, HandOK
  <1> QED BY <1>1, <1>3, <1>5, <1>7, <1>8, <1>9, <1>10, <1>11, SlotStep, Zenon

-----------------------------------------------------------------------------
(* Work requests move from line to line.                                   *)

\* A step that adds no work request and undoes none keeps what is known of
\* each.
LEMMA Moved ==
  ASSUME RdmaInv, phase' = phase, phase \in {"boot", "steady"},
         UNCHANGED <<script, depth, sent, answered, buf, wants>>,
         UNCHANGED <<state, task, cmd, data, pages, freeTags, inflight, resp>>,
         UNCHANGED <<responses, batch, parked, poolWait, readBatch>>,
         sq' \in Seq(WorkRequests), unacked' \in Seq(WorkRequests),
         cq' \in Seq(WorkRequests), staged' \in Seq(WorkRequests),
         comps' \in Seq(WorkRequests), chain' \in Seq(WorkRequests),
         \/ rq' = rq /\ qpUp' = qpUp /\ Wrs' = Wrs
         \/ rq' = << >> /\ ~qpUp' /\ Wrs' \subseteq Wrs,
         LinesOK', HandOK', SleepOK', lost' \in Nat,
         phase = "boot" => BootOK',
         phase = "steady" => /\ ToDo' \subseteq ToDo /\ Done' \subseteq Wrs
                             /\ ReadsFilled' /\ SendFollows(chain)' /\ SendFollows(sq)'
  PROVE  RdmaInv'
  <1>1. RdmaTypeOK'
    <2>1. RdmaTypeOK
      BY Zenon DEF RdmaInv
    <2>2. rq' \in Seq(Bufs)
      BY <2>1, EmptyList, Zenon DEF RdmaTypeOK
    <2> QED BY <2>1, <2>2, Zenon DEF RdmaTypeOK
  <1>2. DepthOK'
    BY Zenon DEF RdmaInv, DepthOK, Conforming
  <1>3. SlotsOK'
    BY SlotsKept, Zenon DEF RdmaInv
  <1>4. Wrs' \subseteq Wrs /\ Recvs' \subseteq Recvs
    BY Zenon DEF Recvs
  <1>5. \A i : Held(i)' => Held(i)
    BY <1>4, Zenon DEF Held, HeldArriving, HeldParked, HeldWaiting, Inline, Kind
  <1>6. BuffersOK'
    BY <1>5, EmptyList, Zenon DEF RdmaInv, BuffersOK, Inline, Kind
  <1>7. RingFull'
    <2>1. CASE rq' = rq /\ qpUp' = qpUp /\ Wrs' = Wrs
      <3>1. Recvs' = Recvs
        BY <2>1, Zenon DEF Recvs
      <3>2. \A i : Held(i) => Held(i)'
        BY <3>1, Zenon DEF Held, HeldArriving, HeldParked, HeldWaiting, Inline, Kind
      <3> QED BY <2>1, <3>2, Zenon DEF RdmaInv, RingFull
    <2>2. CASE ~qpUp'
      BY <2>2, Zenon DEF RingFull
    <2> QED BY <2>1, <2>2, Zenon
  <1>8. ASSUME phase = "steady" PROVE ServingOK'
    <2>1. ServingOK
      BY <1>8, Zenon DEF RdmaInv
    <2>2. WrsOwned'
      BY <1>4, <2>1, Zenon DEF ServingOK, WrsOwned, Owned, ReadWr, SendWr, WriteWr, DataWr,
         WrId
    <2>3. \A t : Quiet(t) => Quiet(t)'
      BY <1>4, Zenon DEF Quiet
    <2>4. DeferredOK' /\ ResponsesOK'
      BY <2>1, <2>3, Zenon DEF ServingOK, DeferredOK, ResponsesOK, Answering, TagsOf
    <2>5. CommandsOK'
      BY <1>4, <2>1, Zenon DEF ServingOK, CommandsOK, Active, CmdsOf
    <2>6. AnsweredOK'
      BY <1>4, <1>8, <2>1, Zenon DEF ServingOK, AnsweredOK, CmdsOf
    <2> QED BY <1>8, <2>2, <2>4, <2>5, <2>6, Zenon DEF ServingOK
  <1> QED BY <1>1, <1>2, <1>3, <1>6, <1>7, <1>8, Zenon DEF RdmaInv

\* A line of successful requests that has none is empty.
LEMMA NothingOkay ==
  ASSUME NEW s \in Seq(WorkRequests), AllOkay(s), Okay(s) = {}
  PROVE  s = << >>
  <1>1. Range(s) = {}
    BY Zenon DEF AllOkay, Okay
  <1>2. DOMAIN s = {}
    BY <1>1, Zenon DEF Range
  <1> QED BY <1>2

\* The first completion of the bootstrap.
LEMMA OneCompletion ==
  ASSUME NEW w \in WorkRequests, w.ok
  PROVE  /\ Append(<< >>, w) = <<w>> /\ <<w>> \in Seq(WorkRequests) /\ Distinct(<<w>>)
         /\ Okay(<<w>>) = {w} /\ AllOkay(<<w>>) /\ Len(<<w>>) = 1
         /\ \A i \in DOMAIN <<w>> : i = 1
  <1>1. <<w>> \in Seq(WorkRequests) /\ Range(<<w>>) = {w}
    BY OneElement, Zenon
  <1>2. Append(<< >>, w) = <<w>> /\ Len(<<w>>) = 1 /\ \A i \in DOMAIN <<w>> : i = 1
    OBVIOUS
  <1> QED BY <1>1, <1>2, Zenon DEF Distinct, Okay, AllOkay

\* The adapter reports the oldest executed request.
LEMMA NicCompletesInv ==
  ASSUME RdmaInv, NicCompletes
  PROVE  RdmaInv'
  <1> DEFINE w == Head(unacked)
  <1>1. /\ phase' = phase /\ phase \in {"boot", "steady"}
        /\ UNCHANGED <<script, depth, sent, answered, buf, wants>>
        /\ UNCHANGED <<state, task, cmd, data, pages, freeTags, inflight, resp>>
        /\ UNCHANGED <<responses, batch, parked, poolWait, readBatch>>
        /\ UNCHANGED <<chain, sq, staged, comps, rq, qpUp, pc, thread>>
        /\ qpUp /\ unacked # << >> /\ Notify
        /\ cq' = Append(cq, w) /\ unacked' = Tail(unacked)
    BY Zenon DEF NicCompletes, host, slots, lists, loop
  <1>2. RdmaTypeOK /\ LinesOK /\ SleepOK /\ HandOK
    BY <1>1, Zenon DEF RdmaInv
  <1>3. /\ sq \in Seq(WorkRequests) /\ unacked \in Seq(WorkRequests)
        /\ cq \in Seq(WorkRequests) /\ staged \in Seq(WorkRequests)
        /\ comps \in Seq(WorkRequests) /\ chain \in Seq(WorkRequests) /\ lost \in Nat
    BY <1>2, Zenon DEF RdmaTypeOK
  <1>4. Distinct(unacked) /\ Distinct(cq) /\ AllOkay(unacked) /\ LinesApart
    BY <1>2, Zenon DEF LinesOK
  <1> HIDE DEF w
  <1>5. /\ unacked' \in Seq(WorkRequests) /\ w \in WorkRequests /\ w.ok
        /\ Distinct(unacked') /\ w \in Okay(unacked)
        /\ Okay(unacked') = Okay(unacked) \ {w} /\ AllOkay(unacked')
    BY <1>1, <1>3, <1>4, OkayTail, Zenon DEF w
  <1>6. w \notin Okay(cq)
    BY <1>4, <1>5, Zenon DEF LinesApart
  <1>7. cq' \in Seq(WorkRequests) /\ Distinct(cq') /\ Okay(cq') = Okay(cq) \cup {w}
    BY <1>1, <1>3, <1>4, <1>5, <1>6, OkayAppend, Zenon
  <1>8. ToDo' = ToDo /\ Done' = Done /\ Wrs' = Wrs
    BY <1>1, <1>5, <1>7, Zenon DEF ToDo, Done, Wrs
  <1>9. LinesOK'
    <2>1. LinesApart'
      BY <1>1, <1>4, <1>5, <1>7 DEF LinesApart
    <2>2. Okay(unacked') \subseteq Okay(unacked) /\ Recvs' = Recvs
      BY <1>5, <1>8, Zenon DEF Recvs
    <2> QED BY <1>1, <1>2, <1>5, <1>7, <2>1, <2>2, Zenon DEF LinesOK, RecvWr
  <1>10. SleepOK' /\ lost' \in Nat
    BY <1>1, <1>2, <1>3, Notified, Zenon
  <1>11. HandOK'
    BY <1>1, <1>2, Zenon DEF HandOK
  <1>12. ASSUME phase = "steady"
         PROVE  ReadsFilled' /\ SendFollows(chain)' /\ SendFollows(sq)'
    <2>1. ReadsFilled /\ SendFollows(chain) /\ SendFollows(sq)
      BY <1>12, Zenon DEF RdmaInv, ServingOK
    <2> QED BY <1>1, <1>8, <2>1, Zenon DEF ReadsFilled
  <1>13. ASSUME phase = "boot" PROVE BootOK'
    <2>1. BootOK
      BY <1>13, Zenon DEF RdmaInv
    <2>2. AllOkay(cq) /\ Okay(cq) = {}
      BY <1>1, <2>1, Zenon DEF BootOK
    <2>3. cq = << >>
      BY <1>3, <2>2, NothingOkay, Zenon
    <2>4. cq' = <<w>>
      BY <1>1, <1>5, <2>3, OneCompletion, Zenon
    <2>5. sent <= 1 /\ Len(sq) + Len(unacked) <= sent /\ sent \in 0 .. Len(script)
      BY <1>2, <2>1, Zenon DEF BootOK, RdmaTypeOK
    <2>6. /\ Len(sq) \in Nat /\ Len(unacked) \in Nat \ {0}
          /\ Len(unacked') = Len(unacked) - 1
      BY <1>1, <1>3
    <2>9. Len(sq) = 0 /\ Len(unacked') = 0 /\ sent = 1
      BY <2>5, <2>6
    <2>7. sq = << >> /\ unacked' = << >> /\ Len(sq') + Len(unacked') <= sent'
      BY <1>1, <1>3, <1>5, <2>9
    <2>8. AllOkay(cq') /\ \A i \in DOMAIN cq' : i = 1
      BY <1>5, <2>4, OneCompletion, Zenon
    <2> QED BY <1>1, <1>8, <2>1, <2>7, <2>8, <2>9, Zenon DEF BootOK
  <1>14. Done \subseteq Wrs
    BY Zenon DEF Wrs
  <1> QED BY <1>1, <1>3, <1>5, <1>7, <1>8, <1>9, <1>10, <1>11, <1>12, <1>13, <1>14, Moved,
             Zenon

\* What is flushed has failed.
LEMMA Flushed ==
  ASSUME NEW s \in Seq(WorkRequests)
  PROVE  LET f == [i \in DOMAIN s |-> [s[i] EXCEPT !.ok = FALSE]]
         IN  /\ f \in Seq(WorkRequests) /\ Okay(f) = {} /\ Distinct(f)
             /\ \A i \in DOMAIN f : ~f[i].ok
  <1> DEFINE f == [i \in DOMAIN s |-> [s[i] EXCEPT !.ok = FALSE]]
  <1>1. /\ DOMAIN f = DOMAIN s /\ DOMAIN s = 1 .. Len(s) /\ Len(s) \in Nat
        /\ \A i \in DOMAIN s : s[i] \in WorkRequests
    OBVIOUS
  <1>2. \A w \in WorkRequests : [w EXCEPT !.ok = FALSE] \in WorkRequests
    BY Zenon DEF WorkRequests
  <1>3. \A w \in WorkRequests : ~[w EXCEPT !.ok = FALSE].ok
    BY Zenon DEF WorkRequests
  <1>4. \A i \in DOMAIN f : f[i] \in WorkRequests /\ ~f[i].ok
    BY <1>1, <1>2, <1>3, Zenon
  <1> HIDE DEF f
  <1>5. f \in Seq(WorkRequests)
    <2>1. f = [i \in 1 .. Len(s) |-> f[i]]
      BY <1>1, Zenon DEF f
    <2> QED BY <1>1, <1>4, <2>1
  <1>6. Okay(f) = {} /\ Distinct(f)
    BY <1>4, Zenon DEF Okay, Distinct, Range
  <1> QED BY <1>4, <1>5, <1>6, Zenon DEF f

\* The adapter flushes what was posted after the queue pair failed.
LEMMA NicFlushesInv ==
  ASSUME RdmaInv, NicFlushes
  PROVE  RdmaInv'
  <1> DEFINE recvs == [i \in DOMAIN rq |-> WrId("Recv", rq[i], 0, 1)]
             posted == unacked \o sq \o recvs
             failed == [i \in DOMAIN posted |-> [posted[i] EXCEPT !.ok = FALSE]]
  <1>1. /\ phase' = phase /\ phase \in {"boot", "steady"}
        /\ UNCHANGED <<script, depth, sent, answered, buf, wants>>
        /\ UNCHANGED <<state, task, cmd, data, pages, freeTags, inflight, resp>>
        /\ UNCHANGED <<responses, batch, parked, poolWait, readBatch>>
        /\ UNCHANGED <<chain, staged, comps, qpUp, pc, thread>>
        /\ ~qpUp /\ Notify
        /\ cq' = cq \o failed /\ unacked' = << >> /\ sq' = << >> /\ rq' = << >>
    BY Zenon DEF NicFlushes, host, slots, lists, loop
  <1>2. RdmaTypeOK /\ LinesOK /\ SleepOK /\ HandOK
    BY <1>1, Zenon DEF RdmaInv
  <1>3. /\ sq \in Seq(WorkRequests) /\ unacked \in Seq(WorkRequests)
        /\ cq \in Seq(WorkRequests) /\ staged \in Seq(WorkRequests)
        /\ comps \in Seq(WorkRequests) /\ chain \in Seq(WorkRequests)
        /\ rq \in Seq(Bufs) /\ lost \in Nat
    BY <1>2, Zenon DEF RdmaTypeOK
  <1>4. posted \in Seq(WorkRequests)
    <2>1. \A i \in Bufs : WrId("Recv", i, 0, 1) \in WorkRequests
      BY IndexNat, Zenon DEF WrId, WorkRequests
    <2>2. /\ DOMAIN recvs = 1 .. Len(rq) /\ Len(rq) \in Nat
          /\ \A i \in DOMAIN rq : rq[i] \in Bufs
      BY <1>3
    <2>3. \A i \in DOMAIN recvs : recvs[i] \in WorkRequests
      BY <2>1, <2>2, Zenon
    <2>4. recvs = [i \in 1 .. Len(rq) |-> recvs[i]]
      BY <2>2, Zenon
    <2> HIDE DEF recvs
    <2>5. recvs \in Seq(WorkRequests)
      BY <2>2, <2>3, <2>4
    <2> QED BY <1>3, <2>5
  <1> HIDE DEF posted
  <1>5. /\ failed \in Seq(WorkRequests) /\ Okay(failed) = {} /\ Distinct(failed)
        /\ \A i \in DOMAIN failed : ~failed[i].ok
    BY <1>4, Flushed, Zenon
  <1> HIDE DEF failed
  <1>6. /\ cq' \in Seq(WorkRequests) /\ Distinct(cq') /\ Okay(cq') = Okay(cq)
    <2>1. Distinct(cq) /\ Okay(cq) \cap Okay(failed) = {}
      BY <1>2, <1>5, Zenon DEF LinesOK
    <2>2. /\ cq \o failed \in Seq(WorkRequests) /\ Distinct(cq \o failed)
          /\ Okay(cq \o failed) = Okay(cq) \cup Okay(failed)
      BY <1>3, <1>5, <2>1, OkayConcat, Zenon
    <2> QED BY <1>1, <1>5, <2>2, Zenon
  <1>7. \A i \in DOMAIN cq' : cq'[i].ok => i \in DOMAIN cq /\ cq'[i] = cq[i]
    <2>1. \A i \in DOMAIN (cq \o failed) :
            \/ i \in DOMAIN cq /\ (cq \o failed)[i] = cq[i]
            \/ \E j \in DOMAIN failed : (cq \o failed)[i] = failed[j]
      <3> DEFINE q == cq \o failed
      <3>3. cq \in Seq(WorkRequests) /\ failed \in Seq(WorkRequests)
        BY <1>3, <1>5, Zenon
      <3>1. \A i \in DOMAIN q :
              \/ i \in DOMAIN cq /\ q[i] = cq[i]
              \/ \E j \in DOMAIN failed : i = Len(cq) + j /\ q[i] = failed[j]
        BY <3>3, ConcatAt
      <3> HIDE DEF q
      <3>2. \A i \in DOMAIN q : \/ i \in DOMAIN cq /\ q[i] = cq[i]
                               \/ \E j \in DOMAIN failed : q[i] = failed[j]
        BY <3>1, Zenon
      <3> QED BY <3>2, Zenon DEF q
    <2> QED BY <1>1, <1>5, <2>1, Zenon
  <1>8. /\ Okay(sq') = {} /\ Okay(unacked') = {}
        /\ Distinct(sq') /\ Distinct(unacked') /\ AllOkay(sq') /\ AllOkay(unacked')
        /\ sq' \in Seq(WorkRequests) /\ unacked' \in Seq(WorkRequests)
    BY <1>1, OkayEmpty, Zenon
  <1>9. ToDo' \subseteq ToDo /\ Done' \subseteq Done /\ Wrs' \subseteq Wrs /\ Done \subseteq Wrs
    BY <1>1, <1>6, <1>8, Zenon DEF ToDo, Done, Wrs
  <1>10. LinesOK'
    <2>1. LinesApart
      BY <1>2, Zenon DEF LinesOK
    <2>2. LinesApart'
      BY <1>1, <1>6, <1>8, <2>1, Zenon DEF LinesApart
    <2>3. Recvs' \subseteq Recvs
      BY <1>9, Zenon DEF Recvs
    <2> QED BY <1>1, <1>2, <1>6, <1>8, <2>2, <2>3, Zenon DEF LinesOK, RecvWr
  <1>11. SleepOK' /\ lost' \in Nat
    BY <1>1, <1>2, <1>3, Notified, Zenon
  <1>12. HandOK'
    BY <1>1, <1>2, Zenon DEF HandOK
  <1>13. ASSUME phase = "steady"
         PROVE  ReadsFilled' /\ SendFollows(chain)' /\ SendFollows(sq)'
    <2>1. ReadsFilled /\ SendFollows(chain)
      BY <1>13, Zenon DEF RdmaInv, ServingOK
    <2>2. SendFollows(sq)'
      BY <1>1, EmptyList, Zenon DEF SendFollows
    <2> QED BY <1>1, <1>9, <2>1, <2>2, Zenon DEF ReadsFilled
  <1>14. ASSUME phase = "boot" PROVE BootOK'
    <2>1. BootOK
      BY <1>14, Zenon DEF RdmaInv
    <2>2. \A i \in DOMAIN cq' : cq'[i].ok => i = 1
      BY <1>7, <2>1, Zenon DEF BootOK
    <2>3. sent \in 0 .. Len(script) /\ Len(script) \in Nat
      BY <1>2 DEF RdmaTypeOK
    <2>4. Len(sq') + Len(unacked') <= sent'
      BY <1>1, <2>3
    <2> QED BY <1>1, <1>6, <1>9, <2>1, <2>2, <2>4, Zenon DEF BootOK
  <1> QED BY <1>1, <1>3, <1>6, <1>8, <1>9, <1>10, <1>11, <1>12, <1>13, <1>14, Moved, Zenon

\* The probe stages what it drained behind what it staged before.
LEMMA StageInv ==
  ASSUME RdmaInv, NEW asleep, stage(asleep), phase = "steady", pc # "comps", SleepOK'
  PROVE  RdmaInv'
  <1>1. /\ phase' = phase /\ UNCHANGED <<script, depth, sent, answered, buf, wants>>
        /\ UNCHANGED <<state, task, cmd, data, pages, freeTags, inflight, resp>>
        /\ UNCHANGED <<responses, batch, parked, poolWait, readBatch>>
        /\ UNCHANGED <<chain, sq, unacked, comps, rq, qpUp, lost>>
        /\ staged' = staged \o cq /\ cq' = << >>
    BY Zenon DEF stage, host, slots, lists
  <1>2. RdmaTypeOK /\ LinesOK /\ HandOK /\ ServingOK
    BY Zenon DEF RdmaInv
  <1>3. /\ sq \in Seq(WorkRequests) /\ unacked \in Seq(WorkRequests)
        /\ cq \in Seq(WorkRequests) /\ staged \in Seq(WorkRequests)
        /\ comps \in Seq(WorkRequests) /\ chain \in Seq(WorkRequests) /\ lost \in Nat
    BY <1>2, Zenon DEF RdmaTypeOK
  <1>4. LinesApart /\ Distinct(staged) /\ Distinct(cq) /\ Okay(staged) \cap Okay(cq) = {}
    BY <1>2, Zenon DEF LinesOK, LinesApart
  <1>5. /\ staged' \in Seq(WorkRequests) /\ Distinct(staged')
        /\ Okay(staged') = Okay(staged) \cup Okay(cq)
    BY <1>1, <1>3, <1>4, OkayConcat, Zenon
  <1>6. cq' \in Seq(WorkRequests) /\ Okay(cq') = {} /\ Distinct(cq')
    BY <1>1, OkayEmpty, Zenon
  <1>7. ToDo' = ToDo /\ Done' = Done /\ Wrs' = Wrs /\ Recvs' = Recvs /\ Done \subseteq Wrs
    BY <1>1, <1>5, <1>6, Zenon DEF ToDo, Done, Wrs, Recvs
  <1>8. LinesApart'
    BY <1>1, <1>4, <1>5, <1>6, Zenon DEF LinesApart
  <1>9. LinesOK'
    BY <1>1, <1>2, <1>5, <1>6, <1>7, <1>8, Zenon DEF LinesOK, RecvWr
  <1>10. HandOK'
    BY <1>1, <1>2, Zenon DEF HandOK
  <1>11. ReadsFilled' /\ SendFollows(chain)' /\ SendFollows(sq)'
    BY <1>1, <1>2, <1>7, Zenon DEF ServingOK, ReadsFilled
  <1> QED BY <1>1, <1>3, <1>5, <1>6, <1>7, <1>9, <1>10, <1>11, Moved, Zenon

\* The probe polls into the staging list.
LEMMA ParkProbeInv ==
  ASSUME RdmaInv, ParkProbe
  PROVE  RdmaInv'
  <1> DEFINE asleep == IF ~poll \/ AllFree THEN {"arming"} ELSE {"awake"}
  <1>1. /\ stage(asleep) /\ phase = "steady" /\ pc = "pending" /\ phase' = phase
        /\ thread' \in IF cq # << >> THEN {"awake"} ELSE asleep
        /\ pc' = IF cq # << >> THEN "woken" ELSE pc
    BY Zenon DEF ParkProbe, Idle, stage
  <1>2. thread' \in {"awake", "arming"} /\ pc' # "comps"
    BY <1>1, Zenon
  <1>3. SleepOK'
    BY <1>1, <1>2, Zenon DEF SleepOK
  <1> HIDE DEF asleep
  <1> QED BY <1>1, <1>3, StageInv, Zenon

\* The queue was armed at the first drain; what it held then is drained now.
LEMMA ParkRedrainInv ==
  ASSUME RdmaInv, ParkRedrain
  PROVE  RdmaInv'
  <1> DEFINE asleep == IF poll THEN {"asleep", "awake"} ELSE {"asleep"}
  <1>1. /\ stage(asleep) /\ thread = "armed" /\ phase' = phase
        /\ thread' \in IF cq # << >> THEN {"awake"} ELSE asleep
        /\ cq' = << >> /\ UNCHANGED <<armed, ring, lost>>
    BY Zenon DEF ParkRedrain, stage
  <1>2. SleepOK
    BY Zenon DEF RdmaInv
  <1>3. /\ armed \/ "event" \in ring \/ lost > 0
        /\ phase = "steady" /\ pc # "comps"
    BY <1>1, <1>2, Zenon DEF SleepOK
  <1>4. thread' \in {"asleep", "awake"}
    BY <1>1, Zenon
  <1>5. SleepOK'
    BY <1>1, <1>3, <1>4, Zenon DEF SleepOK
  <1> HIDE DEF asleep
  <1> QED BY <1>1, <1>3, <1>5, StageInv, Zenon

\* drain_into takes the staged completions and the rest of the queue in hand.
LEMMA DrainInv ==
  ASSUME RdmaInv, drain, phase = "steady", thread = "awake", pc = "woken"
  PROVE  RdmaInv'
  <1>1. /\ phase' = phase /\ UNCHANGED <<script, depth, sent, answered, buf, wants>>
        /\ UNCHANGED <<state, task, cmd, data, pages, freeTags, inflight, resp>>
        /\ UNCHANGED <<responses, batch, parked, poolWait, readBatch>>
        /\ UNCHANGED <<chain, sq, unacked, rq, qpUp, lost, thread>> /\ pc' = "comps"
        /\ comps' = staged \o cq /\ staged' = << >> /\ cq' = << >>
    BY Zenon DEF drain, host, slots, lists
  <1>2. RdmaTypeOK /\ LinesOK /\ HandOK /\ ServingOK
    BY Zenon DEF RdmaInv
  <1>3. /\ sq \in Seq(WorkRequests) /\ unacked \in Seq(WorkRequests)
        /\ cq \in Seq(WorkRequests) /\ staged \in Seq(WorkRequests)
        /\ chain \in Seq(WorkRequests) /\ lost \in Nat
    BY <1>2, Zenon DEF RdmaTypeOK
  <1>4. LinesApart /\ Distinct(staged) /\ Distinct(cq) /\ Okay(staged) \cap Okay(cq) = {}
    BY <1>2, Zenon DEF LinesOK, LinesApart
  <1>5. /\ comps' \in Seq(WorkRequests) /\ Distinct(comps')
        /\ Okay(comps') = Okay(staged) \cup Okay(cq)
    BY <1>1, <1>3, <1>4, OkayConcat, Zenon
  <1>6. /\ cq' \in Seq(WorkRequests) /\ Okay(cq') = {} /\ Distinct(cq')
        /\ staged' \in Seq(WorkRequests) /\ Okay(staged') = {} /\ Distinct(staged')
    BY <1>1, OkayEmpty, Zenon
  <1>7. Okay(comps) = {}
    <2>1. comps = << >>
      BY <1>2, Zenon DEF HandOK
    <2> QED BY <2>1, OkayEmpty, Zenon
  <1>8. ToDo' = ToDo /\ Done' = Done /\ Wrs' = Wrs /\ Recvs' = Recvs /\ Done \subseteq Wrs
    BY <1>1, <1>5, <1>6, <1>7, Zenon DEF ToDo, Done, Wrs, Recvs
  <1>9. LinesApart'
    BY <1>1, <1>4, <1>5, <1>6, Zenon DEF LinesApart
  <1>10. LinesOK'
    BY <1>1, <1>2, <1>5, <1>6, <1>8, <1>9, Zenon DEF LinesOK, RecvWr
  <1>11. HandOK' /\ SleepOK'
    BY <1>1, Zenon DEF HandOK, SleepOK
  <1>12. ReadsFilled' /\ SendFollows(chain)' /\ SendFollows(sq)'
    BY <1>1, <1>2, <1>8, Zenon DEF ServingOK, ReadsFilled
  <1> QED BY <1>1, <1>3, <1>5, <1>6, <1>8, <1>10, <1>11, <1>12, Moved, Zenon

\* The chain of the batch goes to the send queue.
LEMMA PostResponsesInv ==
  ASSUME RdmaInv, PostResponses
  PROVE  RdmaInv'
  <1>1. /\ phase' = phase /\ UNCHANGED <<script, depth, sent, answered, buf, wants>>
        /\ UNCHANGED <<state, task, cmd, data, pages, freeTags, inflight, resp>>
        /\ UNCHANGED <<responses, batch, parked, poolWait, readBatch>>
        /\ UNCHANGED <<cq, staged, comps, unacked, rq, qpUp, lost, thread>>
        /\ sq' = sq \o chain /\ chain' = << >>
        /\ phase = "steady" /\ thread = "awake" /\ pc = "post"
    BY Zenon DEF PostResponses, Looping, Running, host, slots, wakeups
  <1>2. RdmaTypeOK /\ LinesOK /\ HandOK /\ ServingOK
    BY <1>1, Zenon DEF RdmaInv
  <1>3. /\ sq \in Seq(WorkRequests) /\ unacked \in Seq(WorkRequests)
        /\ cq \in Seq(WorkRequests) /\ staged \in Seq(WorkRequests)
        /\ comps \in Seq(WorkRequests) /\ chain \in Seq(WorkRequests) /\ lost \in Nat
    BY <1>2, Zenon DEF RdmaTypeOK
  <1>4. /\ LinesApart /\ Distinct(sq) /\ Distinct(chain) /\ Okay(sq) \cap Okay(chain) = {}
        /\ AllOkay(sq) /\ AllOkay(chain)
    BY <1>2, Zenon DEF LinesOK, LinesApart
  <1>5. /\ sq' \in Seq(WorkRequests) /\ Distinct(sq')
        /\ Okay(sq') = Okay(sq) \cup Okay(chain) /\ AllOkay(sq')
    BY <1>1, <1>3, <1>4, OkayConcat, Zenon
  <1>6. chain' \in Seq(WorkRequests) /\ Okay(chain') = {} /\ Distinct(chain') /\ AllOkay(chain')
    BY <1>1, OkayEmpty, Zenon
  <1>7. ToDo' = ToDo /\ Done' = Done /\ Wrs' = Wrs /\ Recvs' = Recvs /\ Done \subseteq Wrs
    BY <1>1, <1>5, <1>6, Zenon DEF ToDo, Done, Wrs, Recvs
  <1>8. LinesApart'
    BY <1>1, <1>4, <1>5, <1>6, Zenon DEF LinesApart
  <1>9. LinesOK'
    BY <1>1, <1>2, <1>5, <1>6, <1>7, <1>8, Zenon DEF LinesOK, RecvWr
  <1>10. HandOK' /\ SleepOK'
    BY <1>1, <1>2, Zenon DEF HandOK, SleepOK
  <1>11. SendFollows(sq')
    BY <1>1, <1>2, <1>3, FollowConcat, Zenon DEF ServingOK
  <1>12. ReadsFilled' /\ SendFollows(chain)'
    BY <1>1, <1>2, <1>7, EmptyList, Zenon DEF ServingOK, ReadsFilled, SendFollows
  <1> QED BY <1>1, <1>3, <1>5, <1>6, <1>7, <1>9, <1>10, <1>11, <1>12, Moved, Zenon

-----------------------------------------------------------------------------
(* Responses: taken, collected and built into work requests.               *)

\* One response is taken from the batch.
LEMMA TakeResponseInv ==
  ASSUME RdmaInv, TakeResponse
  PROVE  RdmaInv'
  <1> DEFINE r == Head(responses)
  <1>1. /\ phase' = phase /\ UNCHANGED <<script, depth, sent, answered>>
        /\ UNCHANGED <<sq, unacked, rq, cq, buf, chain, staged, comps>>
        /\ UNCHANGED <<state, cmd, data, pages, freeTags, inflight, resp, task>>
        /\ UNCHANGED <<parked, poolWait, readBatch, wants>>
        /\ UNCHANGED <<qpUp, lost, thread, armed, ring>>
        /\ responses # << >> /\ batch' = <<r>> /\ responses' = Tail(responses)
        /\ phase = "steady" /\ pc = "woken" /\ pc' = "yield"
    BY Zenon DEF TakeResponse, Looping, host, nic, slots, wakeups
  <1>2. RdmaTypeOK /\ SlotsOK /\ SleepOK /\ ServingOK
    BY <1>1, Zenon DEF RdmaInv
  <1>3. responses \in Seq(Responses) /\ OncePerTag(responses)
    BY <1>2, Zenon DEF RdmaTypeOK, ServingOK, ResponsesOK
  <1> HIDE DEF r
  <1>4. /\ responses' \in Seq(Responses) /\ OncePerTag(responses')
        /\ r \in Responses /\ r \in Range(responses)
        /\ Range(responses') = Range(responses) \ {r}
        /\ TagsOf(responses') = TagsOf(responses) \ {r.tag}
    BY <1>1, <1>3, TagsPop, Zenon DEF r
  <1>5. batch' \in Seq(Responses) /\ Range(batch') = {r} /\ IsInjective(batch')
    BY <1>1, <1>4, OneElement, Zenon
  <1>6. OncePerTag(batch') /\ TagsOf(batch') = {r.tag}
    BY <1>5, Zenon DEF OncePerTag, TagsOf
  <1>7. /\ TagsOf(responses') \cap TagsOf(batch') = {}
        /\ Range(responses') \cup Range(batch') \subseteq Range(responses) \cup Range(batch)
    BY <1>4, <1>5, <1>6, Zenon
  <1>8. /\ task' \in [Tags -> {"idle", "lease", "wait", "backend", "cqe", "finish"}]
        /\ lost' \in Nat /\ \A t \in Tags : task[t] = "idle" => task'[t] = "idle"
    BY <1>1, <1>2, Zenon DEF RdmaTypeOK
  <1>9. SlotsOK' /\ SleepOK' /\ (HandOK => HandOK')
    BY <1>1, <1>2, SlotsKept, SleepKept, Zenon DEF HandOK
  <1>10. phase # "boot" /\ (qpUp' => qpUp)
    BY <1>1, Zenon
  <1> QED BY <1>1, <1>4, <1>5, <1>6, <1>7, <1>8, <1>9, <1>10, Batched, Zenon

\* The responses queued so far become the batch.
LEMMA CollectResponsesInv ==
  ASSUME RdmaInv, CollectResponses
  PROVE  RdmaInv'
  <1>1. /\ phase' = phase /\ UNCHANGED <<script, depth, sent, answered>>
        /\ UNCHANGED <<sq, unacked, rq, cq, buf, chain, staged, comps>>
        /\ UNCHANGED <<state, cmd, data, pages, freeTags, inflight, resp, task>>
        /\ UNCHANGED <<parked, poolWait, readBatch, wants>>
        /\ UNCHANGED <<qpUp, lost, thread, armed, ring>>
        /\ batch' = batch \o responses /\ responses' = << >>
        /\ phase = "steady" /\ pc = "yield" /\ pc' = "post"
    BY Zenon DEF CollectResponses, Looping, host, nic, slots, wakeups
  <1>2. RdmaTypeOK /\ SlotsOK /\ SleepOK /\ ServingOK
    BY <1>1, Zenon DEF RdmaInv
  <1>3. /\ responses \in Seq(Responses) /\ OncePerTag(responses)
        /\ batch \in Seq(Responses) /\ OncePerTag(batch)
        /\ TagsOf(batch) \cap TagsOf(responses) = {}
    BY <1>2, Zenon DEF RdmaTypeOK, ServingOK, ResponsesOK
  <1>4. /\ batch' \in Seq(Responses) /\ OncePerTag(batch')
        /\ Range(batch') = Range(batch) \cup Range(responses)
    BY <1>1, <1>3, TagsJoin
  <1>5. /\ responses' \in Seq(Responses) /\ Range(responses') = {} /\ IsInjective(responses')
    BY <1>1, EmptyList, Zenon
  <1>6. /\ OncePerTag(responses') /\ TagsOf(responses') \cap TagsOf(batch') = {}
        /\ Range(responses') \cup Range(batch') \subseteq Range(responses) \cup Range(batch)
    BY <1>4, <1>5, Zenon DEF OncePerTag, TagsOf
  <1>7. /\ task' \in [Tags -> {"idle", "lease", "wait", "backend", "cqe", "finish"}]
        /\ lost' \in Nat /\ \A t \in Tags : task[t] = "idle" => task'[t] = "idle"
    BY <1>1, <1>2, Zenon DEF RdmaTypeOK
  <1>8. SlotsOK' /\ SleepOK' /\ (HandOK => HandOK')
    BY <1>1, <1>2, SlotsKept, SleepKept, Zenon DEF HandOK
  <1>9. phase # "boot" /\ (qpUp' => qpUp)
    BY <1>1, Zenon
  <1> QED BY <1>1, <1>4, <1>5, <1>6, <1>7, <1>8, <1>9, Batched, Zenon

\* The WRITE of the data, if any, and then the SEND of the CQE.
LEMMA WrsOfResponse ==
  ASSUME RdmaTypeOK, NEW r \in Responses
  PROVE  /\ wrsOf(r) \in Seq(WorkRequests) /\ Distinct(wrsOf(r)) /\ AllOkay(wrsOf(r))
         /\ Okay(wrsOf(r)) = IF r.data THEN {WriteWr(r.tag), SendWr(r.tag)}
                                       ELSE {SendWr(r.tag)}
         /\ SendFollows(wrsOf(r))
  <1> DEFINE a == WriteWr(r.tag)
             b == SendWr(r.tag)
  <1>1. /\ r.tag \in Tags /\ r.data \in BOOLEAN
        /\ cmd[r.tag] \in Nat /\ pages[r.tag] \in Nat /\ r.tag \in Nat
    <2>1. r.tag \in Tags /\ r.data \in BOOLEAN
      BY Zenon DEF Responses
    <2>2. cmd \in [Tags -> Nat] /\ pages \in [Tags -> Nat]
      BY Zenon DEF RdmaTypeOK
    <2>3. r.tag \in Nat
      BY <2>1, IndexNat, Zenon
    <2> QED BY <2>1, <2>2, <2>3, Zenon
  <1>2. /\ a \in WorkRequests /\ b \in WorkRequests /\ a.ok /\ b.ok /\ a # b
        /\ a.kind = "Write" /\ b.kind = "Send" /\ a.low = r.tag /\ b.low = r.tag
    BY <1>1, Zenon DEF WriteWr, SendWr, DataWr, WrId, WorkRequests
  <1>3. wrsOf(r) = IF r.data THEN <<a, b>> ELSE <<b>>
    BY Zenon DEF wrsOf, WriteWr, SendWr, DataWr
  <1> HIDE DEF a, b
  <1>4. CASE r.data
    <2>1. wrsOf(r) = <<a, b>>
      BY <1>3, <1>4, Zenon
    <2>2. /\ <<a, b>> \in Seq(WorkRequests) /\ DOMAIN <<a, b>> = {1, 2}
          /\ <<a, b>>[1] = a /\ <<a, b>>[2] = b
      BY <1>2
    <2>3. Range(<<a, b>>) = {a, b}
      BY <2>2, Zenon DEF Range
    <2>4. Okay(<<a, b>>) = {a, b} /\ AllOkay(<<a, b>>) /\ Distinct(<<a, b>>)
      BY <1>2, <2>2, <2>3, Zenon DEF Okay, AllOkay, Distinct
    <2>5. SendFollows(<<a, b>>)
      BY <1>2, <2>2 DEF SendFollows
    <2> QED BY <1>4, <2>1, <2>2, <2>4, <2>5, Zenon DEF a, b
  <1>5. CASE ~r.data
    <2>1. wrsOf(r) = <<b>>
      BY <1>3, <1>5, Zenon
    <2>2. /\ <<b>> \in Seq(WorkRequests) /\ Distinct(<<b>>)
          /\ Okay(<<b>>) = {b} /\ AllOkay(<<b>>)
      BY <1>2, OneCompletion, Zenon
    <2>3. SendFollows(<<b>>)
      BY <1>2 DEF SendFollows
    <2> QED BY <1>5, <2>1, <2>2, <2>3, Zenon DEF b
  <1> QED BY <1>4, <1>5, Zenon

\* A response becomes a SEND, after the WRITE of its data if it has any.
LEMMA ConstructResponseInv ==
  ASSUME RdmaInv, ConstructResponse
  PROVE  RdmaInv'
  <1> DEFINE r == Head(batch)
             t == r.tag
             new == wrsOf(r)
  <1>1. /\ phase' = phase /\ UNCHANGED <<script, depth, sent, answered>>
        /\ UNCHANGED <<sq, unacked, rq, cq, buf, staged, comps>>
        /\ UNCHANGED <<state, task, cmd, data, pages, freeTags>>
        /\ UNCHANGED <<responses, parked, poolWait, readBatch, wants>>
        /\ UNCHANGED <<qpUp, lost, thread, armed, ring, pc>>
        /\ chain' = chain \o new /\ resp' = [resp EXCEPT ![t] = cmd[t]]
        /\ inflight' = [inflight EXCEPT ![t] = IF r.data THEN 2 ELSE 1]
        /\ batch # << >> /\ batch' = Tail(batch)
        /\ phase = "steady"
    BY Zenon DEF ConstructResponse, Looping, host, nic, loop, wakeups
  <1>2. /\ RdmaTypeOK /\ SlotsOK /\ SleepOK /\ DepthOK
        /\ LinesOK /\ BuffersOK /\ RingFull /\ HandOK /\ ServingOK
    BY <1>1, Zenon DEF RdmaInv
  <1>3. batch \in Seq(Responses) /\ OncePerTag(batch)
    BY <1>2, Zenon DEF RdmaTypeOK, ServingOK, ResponsesOK
  <1> HIDE DEF r
  <1>4. /\ batch' \in Seq(Responses) /\ OncePerTag(batch')
        /\ r \in Responses /\ r \in Range(batch)
        /\ Range(batch') = Range(batch) \ {r} /\ TagsOf(batch') = TagsOf(batch) \ {t}
    BY <1>1, <1>3, TagsPop, Zenon DEF r
  <1>5. /\ new \in Seq(WorkRequests) /\ Distinct(new) /\ AllOkay(new) /\ SendFollows(new)
        /\ Okay(new) = IF r.data THEN {WriteWr(t), SendWr(t)} ELSE {SendWr(t)}
    BY <1>2, <1>4, WrsOfResponse, Zenon
  <1>6. Answering(r)
    BY <1>2, <1>4, Zenon DEF ServingOK, ResponsesOK
  <1> HIDE DEF new
  <1>7. /\ t \in Tags /\ state[t] = "Responding" /\ Quiet(t) /\ cmd[t] \notin answered
        /\ r.data \in BOOLEAN /\ (r.data => data[t] = cmd[t])
    BY <1>4, <1>6, Zenon DEF Answering, Responses
  <1> HIDE DEF t
  <1>8. /\ resp' \in [Tags -> Nat] /\ inflight' \in [Tags -> Nat]
        /\ resp'[t] = cmd[t] /\ inflight'[t] > 0 /\ (r.data => inflight'[t] > 1)
        /\ \A u \in Tags \ {t} : resp'[u] = resp[u] /\ inflight'[u] = inflight[u]
    <2>1. /\ resp \in [Tags -> Nat] /\ inflight \in [Tags -> Nat] /\ cmd[t] \in Nat
      BY <1>2, <1>7, Zenon DEF RdmaTypeOK
    <2>2. /\ resp' \in [Tags -> Nat] /\ resp'[t] = cmd[t]
          /\ \A u \in Tags \ {t} : resp'[u] = resp[u]
      BY <1>1, <1>7, <2>1, Zenon
    <2>3. PICK k \in {1, 2} : inflight' = [inflight EXCEPT ![t] = k] /\ (r.data => k = 2)
      BY <1>1, Zenon
    <2>4. /\ inflight' \in [Tags -> Nat] /\ inflight'[t] = k
          /\ \A u \in Tags \ {t} : inflight'[u] = inflight[u]
      BY <1>7, <2>1, <2>3
    <2> QED BY <2>2, <2>3, <2>4
  <1>9. /\ \A w \in Okay(new) : w.low = t /\ w.kind \in {"Write", "Send"}
        /\ \A w \in Okay(new) : w.kind = "Write" => r.data /\ w = WriteWr(t)
        /\ \A w \in Okay(new) : w.kind = "Send" => w = SendWr(t) /\ w.cmd = cmd[t]
    BY <1>5, <1>7 DEF WriteWr, SendWr, DataWr, WrId
  <1>10. Okay(new) \cap Wrs = {}
    BY <1>7, <1>9, Zenon DEF Quiet
  <1>11. chain \in Seq(WorkRequests) /\ Distinct(chain) /\ AllOkay(chain) /\ SendFollows(chain)
    BY <1>2, Zenon DEF RdmaTypeOK, LinesOK, ServingOK
  <1>12. /\ chain' \in Seq(WorkRequests) /\ Distinct(chain') /\ AllOkay(chain')
         /\ Okay(chain') = Okay(chain) \cup Okay(new)
    <2>1. Okay(chain) \cap Okay(new) = {}
      BY <1>10, Zenon DEF Wrs, ToDo
    <2> QED BY <1>1, <1>5, <1>11, <2>1, OkayConcat, Zenon
  <1>13. SendFollows(chain')
    BY <1>1, <1>5, <1>11, FollowConcat, Zenon
  <1>14. ToDo' = ToDo \cup Okay(new) /\ Done' = Done /\ Wrs' = Wrs \cup Okay(new)
    BY <1>1, <1>12, Zenon DEF ToDo, Done, Wrs
  <1>15. Recvs' = Recvs
    BY <1>9, <1>14, Zenon DEF Recvs
  <1>16. RdmaTypeOK'
    BY <1>1, <1>2, <1>4, <1>8, <1>12, Zenon DEF RdmaTypeOK
  <1>17. SlotsOK' /\ SleepOK' /\ DepthOK' /\ HandOK'
    BY <1>1, <1>2, SlotsKept, SleepKept, Zenon DEF DepthOK, Conforming, HandOK
  <1>18. LinesOK'
    <2>1. LinesApart
      BY <1>2, Zenon DEF LinesOK
    <2>2. LinesApart'
      BY <1>1, <1>10, <1>12, <2>1, Zenon DEF LinesApart, Wrs, ToDo, Done
    <2>3. \A w \in Okay(new) : w.kind # "Recv"
      BY <1>9, Zenon
    <2> QED BY <1>1, <1>2, <1>12, <1>15, <2>2, <2>3, Zenon DEF LinesOK, RecvWr
  <1>19. \A i : Held(i)' <=> Held(i)
    BY <1>1, <1>15, Zenon DEF Held, HeldArriving, HeldParked, HeldWaiting, Inline, Kind
  <1>20. BuffersOK' /\ RingFull'
    BY <1>1, <1>2, <1>19, Zenon DEF BuffersOK, RingFull, Inline, Kind
  <1>21. \A w \in Wrs : w.kind # "Recv" => w.low # t
    BY <1>7, Zenon DEF Quiet
  <1>22. WrsOwned'
    <2>1. WrsOwned
      BY <1>2, Zenon DEF ServingOK
    <2>2. ASSUME NEW w \in Wrs PROVE Owned(w)'
      <3>1. Owned(w) /\ (w.kind # "Recv" => w.low # t)
        BY <1>21, <2>1, Zenon DEF WrsOwned
      <3> QED BY <1>1, <1>8, <3>1, Zenon DEF Owned, ReadWr, SendWr, WriteWr, DataWr, WrId
    <2>3. ASSUME NEW w \in Okay(new) PROVE Owned(w)'
      <3>1. w.low = t /\ w.kind \in {"Write", "Send"}
        BY <1>9, Zenon
      <3>2. \A u : SendWr(u)' = SendWr(u) /\ WriteWr(u)' = WriteWr(u)
        BY <1>1, Zenon DEF SendWr, WriteWr, DataWr, WrId
      <3>3. state'[t] = "Responding" /\ resp'[t] = cmd'[t]
        BY <1>1, <1>7, <1>8, Zenon
      <3>4. CASE w.kind = "Write"
        <4>1. w = WriteWr(t) /\ data'[t] = cmd'[t]
          BY <1>1, <1>7, <1>9, <3>4, Zenon
        <4> QED BY <1>7, <1>8, <3>1, <3>2, <3>3, <3>4, <4>1, Zenon DEF Owned
      <3>5. CASE w.kind = "Send"
        <4>1. w = SendWr(t)
          BY <1>9, <3>5, Zenon
        <4> QED BY <1>7, <1>8, <3>1, <3>2, <3>3, <3>5, <4>1, Zenon DEF Owned
      <3> QED BY <3>1, <3>4, <3>5, Zenon
    <2>4. ASSUME NEW v \in Wrs', NEW w \in Wrs', v.kind = "Send", w.kind = "Write", v.low = w.low
          PROVE  inflight'[v.low] > 1
      <3>1. CASE w \in Okay(new)
        BY <1>8, <1>9, <2>4, <3>1, Zenon
      <3>2. CASE w \in Wrs
        <4>1. w.low # t /\ w.low \in Tags
          BY <1>21, <2>1, <2>4, <3>2, Zenon DEF WrsOwned, Owned
        <4>2. v \in Wrs
          BY <1>9, <1>14, <2>4, <4>1, Zenon
        <4>3. inflight[v.low] > 1
          BY <2>1, <2>4, <3>2, <4>2, Zenon DEF WrsOwned
        <4> QED BY <1>8, <2>4, <4>1, <4>3, Zenon
      <3> QED BY <1>14, <3>1, <3>2, Zenon
    <2> QED BY <1>14, <2>2, <2>3, <2>4, Zenon DEF WrsOwned
  <1>23. \A u : u # t /\ Quiet(u) => Quiet(u)'
    BY <1>9, <1>14, Zenon DEF Quiet
  <1>24. DeferredOK'
    <2>1. DeferredOK
      BY <1>2, Zenon DEF ServingOK
    <2>2. \A u \in TagsOf(poolWait) \cup Range(readBatch) : u # t
      BY <1>7, <2>1, Zenon DEF DeferredOK
    <2> QED BY <1>1, <1>23, <2>1, <2>2, Zenon DEF DeferredOK
  <1>25. ResponsesOK'
    <2>1. ResponsesOK
      BY <1>2, Zenon DEF ServingOK
    <2>2. t \in TagsOf(batch)
      BY <1>4, Zenon DEF TagsOf, t
    <2>3. \A e \in Range(responses) \cup Range(batch') : e.tag # t
      BY <1>4, <2>1, <2>2, Zenon DEF ResponsesOK, TagsOf
    <2>4. \A e \in Range(responses) \cup Range(batch') : Answering(e)'
      BY <1>1, <1>4, <1>23, <2>1, <2>3, Zenon DEF ResponsesOK, Answering
    <2> QED BY <1>1, <1>4, <2>1, <2>4, Zenon DEF ResponsesOK
  <1>26. CommandsOK'
    BY <1>1, <1>2, <1>15, Zenon DEF ServingOK, CommandsOK, Active
  <1>27. AnsweredOK'
    BY <1>1, <1>2, <1>7, <1>9, <1>14, <1>15, Zenon DEF ServingOK, AnsweredOK
  <1>28. ReadsFilled' /\ SendFollows(sq)'
    BY <1>1, <1>2, <1>14, Zenon DEF ServingOK, ReadsFilled
  <1>29. ServingOK'
    BY <1>13, <1>22, <1>24, <1>25, <1>26, <1>27, <1>28, Zenon DEF ServingOK
  <1>30. phase' = "steady"
    BY <1>1, Zenon
  <1> QED BY <1>16, <1>17, <1>18, <1>20, <1>29, <1>30, Zenon DEF RdmaInv

-----------------------------------------------------------------------------
(* The adapter executes the head of the send queue.                        *)

\* The oldest request of the send queue moves to the executed ones.
LEMMA Executed ==
  ASSUME RdmaInv, NicExecutes
  PROVE  /\ sq' \in Seq(WorkRequests) /\ unacked' \in Seq(WorkRequests)
         /\ Head(sq) \in Okay(sq) /\ Head(sq) \in WorkRequests /\ Head(sq).kind # "Recv"
         /\ ToDo' = ToDo \ {Head(sq)} /\ Done' = Done \cup {Head(sq)} /\ Wrs' = Wrs
         /\ Recvs' = Recvs /\ LinesOK'
  <1> DEFINE w == Head(sq)
  <1>1. /\ UNCHANGED <<chain, cq, staged, comps, buf>> /\ phase \in {"boot", "steady"}
        /\ sq # << >> /\ unacked' = Append(unacked, w) /\ sq' = Tail(sq)
    BY Zenon DEF NicExecutes, lists, loop
  <1>2. RdmaTypeOK /\ LinesOK
    BY <1>1, Zenon DEF RdmaInv
  <1>3. /\ sq \in Seq(WorkRequests) /\ unacked \in Seq(WorkRequests)
        /\ Distinct(sq) /\ AllOkay(sq) /\ Distinct(unacked) /\ AllOkay(unacked) /\ LinesApart
    BY <1>2, Zenon DEF RdmaTypeOK, LinesOK
  <1> HIDE DEF w
  <1>4. /\ sq' \in Seq(WorkRequests) /\ w \in WorkRequests /\ w.ok
        /\ Distinct(sq') /\ w \in Okay(sq) /\ Okay(sq') = Okay(sq) \ {w} /\ AllOkay(sq')
    BY <1>1, <1>3, OkayTail, Zenon DEF w
  <1>5. w \notin Okay(unacked) /\ w \notin Okay(chain) /\ w.kind # "Recv"
    BY <1>2, <1>3, <1>4, Zenon DEF LinesApart, LinesOK
  <1>6. /\ unacked' \in Seq(WorkRequests) /\ Distinct(unacked')
        /\ Okay(unacked') = Okay(unacked) \cup {w} /\ AllOkay(unacked')
    BY <1>1, <1>3, <1>4, <1>5, OkayAppend, Zenon
  <1>7. ToDo' = ToDo \ {w} /\ Done' = Done \cup {w}
    BY <1>1, <1>4, <1>5, <1>6, Zenon DEF ToDo, Done
  <1>8. w \in ToDo
    BY <1>4, Zenon DEF ToDo
  <1>9. Wrs' = Wrs
    BY <1>7, <1>8, Zenon DEF Wrs
  <1>10. Recvs' = Recvs
    BY <1>9, Zenon DEF Recvs
  <1>11. LinesApart'
    BY <1>1, <1>3, <1>4, <1>5, <1>6 DEF LinesApart
  <1>12. \A v \in Okay(chain') \cup Okay(sq') \cup Okay(unacked') : v.kind # "Recv"
    BY <1>1, <1>2, <1>4, <1>5, <1>6, Zenon DEF LinesOK
  <1>13. LinesOK'
    BY <1>1, <1>2, <1>4, <1>6, <1>10, <1>11, <1>12, ZenonT(30) DEF LinesOK, RecvWr
  <1> QED BY <1>4, <1>5, <1>6, <1>7, <1>9, <1>10, <1>13, Zenon DEF w

\* A READ fills the lease of a tag that is Receiving; a SEND hands the host the
\* CQE of a tag's command, which no other place names.
LEMMA ExecutesSteady ==
  ASSUME RdmaInv, NicExecutes, phase = "steady", DepthOK'
  PROVE  RdmaInv'
  <1> DEFINE w == Head(sq)
             t == Head(sq).low
  <1>1. /\ phase' = phase /\ UNCHANGED <<script, depth, sent, buf, wants>>
        /\ UNCHANGED <<state, task, cmd, pages, freeTags, inflight, resp>>
        /\ UNCHANGED <<responses, batch, parked, poolWait, readBatch>>
        /\ UNCHANGED <<chain, cq, staged, comps, rq, qpUp, pc, thread, armed, ring, lost>>
        /\ sq # << >> /\ sq' = Tail(sq)
        /\ data' = IF w.kind = "Read" THEN [data EXCEPT ![t] = w.cmd] ELSE data
        /\ answered' = IF w.kind = "Send" THEN answered \cup {resp[t]} ELSE answered
    BY Zenon DEF NicExecutes, lists, loop, wakeups
  <1>2. /\ RdmaTypeOK /\ SlotsOK /\ SleepOK /\ DepthOK
        /\ LinesOK /\ BuffersOK /\ RingFull /\ HandOK /\ ServingOK
    BY <1>1, Zenon DEF RdmaInv
  <1>3. /\ sq' \in Seq(WorkRequests) /\ unacked' \in Seq(WorkRequests)
        /\ w \in Okay(sq) /\ w \in WorkRequests /\ w.kind # "Recv"
        /\ ToDo' = ToDo \ {w} /\ Done' = Done \cup {w} /\ Wrs' = Wrs
        /\ Recvs' = Recvs /\ LinesOK'
    BY Executed, Zenon
  <1>4. w \in ToDo /\ w \in Wrs
    BY <1>3, Zenon DEF ToDo, Wrs
  <1>5. Owned(w) /\ w.kind \in {"Read", "Write", "Send"}
    BY <1>2, <1>3, <1>4, WrsTyped, Zenon DEF ServingOK, WrsOwned
  <1> HIDE DEF w, t
  <1>6. t = w.low
    BY Zenon DEF t, w
  <1>7. /\ t \in Tags /\ state[t] \in {"Receiving", "Responding"} /\ w.cmd = cmd[t]
        /\ w.kind = "Read" => state[t] = "Receiving"
        /\ w.kind = "Send" => w = SendWr(t) /\ state[t] = "Responding" /\ resp[t] = cmd[t]
    BY <1>5, <1>6, SMTT(20) DEF Owned, ReadWr, SendWr, WriteWr, DataWr, WrId
  <1>8. cmd[t] \in 1 .. sent /\ Active(t) /\ cmd[t] \in Nat
    BY <1>2, <1>7, NeedNat, Zenon DEF SlotsOK, Active
  \* The two functions that may change.
  <1>9. /\ data' \in [Tags -> Nat]
        /\ \A u \in Tags : data'[u] = data[u] \/ (w.kind = "Read" /\ u = t /\ data'[u] = cmd[u])
        /\ w.kind = "Read" => data'[t] = cmd[t]
    <2>1. data \in [Tags -> Nat]
      BY <1>2, Zenon DEF RdmaTypeOK
    <2>2. CASE w.kind = "Read"
      <3>1. data' = [data EXCEPT ![t] = cmd[t]]
        BY <1>1, <1>7, <2>2, Zenon
      <3> QED BY <1>7, <1>8, <2>1, <2>2, <3>1, Zenon
    <2>3. CASE w.kind # "Read"
      BY <1>1, <2>1, <2>3, Zenon
    <2> QED BY <2>2, <2>3, Zenon
  <1>10. /\ answered \subseteq answered' /\ answered' \subseteq answered \cup {cmd[t]}
         /\ (w.kind # "Send" => answered' = answered)
    BY <1>1, <1>7, Zenon
  <1>11. answered' \in SUBSET (1 .. sent)
    BY <1>2, <1>8, <1>10, Zenon DEF RdmaTypeOK
  <1>12. RdmaTypeOK'
    BY <1>1, <1>2, <1>3, <1>9, <1>11, ZenonT(30) DEF RdmaTypeOK
  <1>13. SlotsOK'
    BY <1>1, <1>2, <1>9, Zenon DEF SlotsOK, Active, Kind
  <1>14. SleepOK' /\ HandOK'
    BY <1>1, <1>2, SleepKept, Zenon DEF HandOK
  <1>15. \A i : Held(i)' <=> Held(i)
    BY <1>1, <1>3, Zenon DEF Held, HeldArriving, HeldParked, HeldWaiting, Inline, Kind
  <1>16. BuffersOK' /\ RingFull'
    BY <1>1, <1>2, <1>15, Zenon DEF BuffersOK, RingFull, Inline, Kind
  <1>17. \A u : Quiet(u) => Quiet(u)' /\ u # t
    BY <1>3, <1>4, <1>6, Zenon DEF Quiet
  <1>18. WrsOwned'
    <2>1. \A v \in Wrs : Owned(v)'
      <3> SUFFICES ASSUME NEW v \in Wrs PROVE Owned(v)'
        BY Zenon
      <3>1. Owned(v)
        BY <1>2, Zenon DEF ServingOK, WrsOwned
      <3>2. v.kind = "Write" => data'[v.low] = cmd[v.low]
        BY <1>9, <3>1, Zenon DEF Owned
      <3> QED BY <1>1, <3>1, <3>2, Zenon DEF Owned, ReadWr, SendWr, WriteWr, DataWr, WrId
    <2> QED BY <1>1, <1>2, <1>3, <2>1, Zenon DEF ServingOK, WrsOwned
  <1>19. ReadsFilled'
    <2> SUFFICES ASSUME NEW v \in Done', v.kind = "Read" PROVE data'[v.low] = v.cmd
      BY Zenon DEF ReadsFilled
    <2>1. v \in Wrs
      BY <1>3, <1>4, Zenon DEF Wrs
    <2>2. v.low \in Tags /\ v.cmd = cmd[v.low]
      BY <1>2, <2>1 DEF ServingOK, WrsOwned, Owned, ReadWr, DataWr, WrId
    <2>3. v # w => data[v.low] = v.cmd
      BY <1>2, <1>3, Zenon DEF ServingOK, ReadsFilled
    <2> QED BY <1>6, <1>9, <2>2, <2>3, Zenon
  <1>20. SendFollows(sq)' /\ SendFollows(chain)'
    BY <1>1, <1>2, FollowTail, Zenon DEF ServingOK, RdmaTypeOK
  <1>21. DeferredOK'
    BY <1>1, <1>2, <1>17, Zenon DEF ServingOK, DeferredOK, TagsOf
  \* No other command has the number of the answered one.
  <1>22. \A u \in Tags : Active(u) /\ u # t => cmd[u] # cmd[t]
    BY <1>2, <1>7, <1>8, Zenon DEF ServingOK, CommandsOK
  <1>23. ResponsesOK'
    <2>1. ASSUME NEW r \in Range(responses) \cup Range(batch) PROVE Answering(r)'
      <3>1. Answering(r) /\ r.tag \in Tags
        BY <1>2, ListsTyped, Zenon DEF ServingOK, ResponsesOK
      <3>2. Active(r.tag)
        BY <3>1, Zenon DEF Answering, Active
      <3>3. cmd[r.tag] \notin answered'
        BY <1>10, <1>17, <1>22, <3>1, <3>2, Zenon DEF Answering
      <3>4. r.data => data'[r.tag] = cmd[r.tag]
        BY <1>9, <3>1, Zenon DEF Answering
      <3> QED BY <1>1, <1>17, <3>1, <3>3, <3>4, Zenon DEF Answering
    <2> QED BY <1>1, <1>2, <2>1, Zenon DEF ServingOK, ResponsesOK, TagsOf
  <1>24. CommandsOK'
    BY <1>1, <1>2, <1>3, Zenon DEF ServingOK, CommandsOK, Active, CmdsOf
  <1>25. AnsweredOK'
    <2>1. \A v \in Recvs : v.cmd \notin answered'
      BY <1>2, <1>7, <1>8, <1>10, Zenon DEF ServingOK, CommandsOK, AnsweredOK
    <2>2. CmdsOf(parked) \cap answered' = {}
      <3>1. cmd[t] \notin CmdsOf(parked) /\ CmdsOf(parked) \cap answered = {}
        BY <1>2, <1>7, <1>8, Zenon DEF ServingOK, CommandsOK, AnsweredOK
      <3> QED BY <1>10, <3>1, Zenon
    <2>3. ASSUME NEW u \in Tags, state[u] \in {"Receiving", "Ready", "Executing"}
          PROVE  cmd[u] \notin answered'
      <3>1. cmd[u] \notin answered
        BY <1>2, <2>3, Zenon DEF ServingOK, AnsweredOK
      <3>2. CASE w.kind = "Send"
        BY <1>7, <1>10, <1>22, <2>3, <3>1, <3>2, Zenon DEF Active
      <3>3. CASE w.kind # "Send"
        BY <1>10, <3>1, <3>3, Zenon
      <3> QED BY <3>2, <3>3, Zenon
    <2>4. ASSUME NEW v \in ToDo', v.kind = "Send" PROVE v.cmd \notin answered'
      <3>1. v \in Wrs /\ v \in ToDo /\ v # w
        BY <1>3, Zenon DEF Wrs
      <3>2. v.cmd \notin answered
        BY <1>2, <2>4, <3>1, Zenon DEF ServingOK, AnsweredOK
      <3>3. v.low \in Tags /\ v = SendWr(v.low) /\ state[v.low] = "Responding"
        BY <1>2, <2>4, <3>1, Zenon DEF ServingOK, WrsOwned, Owned
      <3>4. v.cmd = cmd[v.low] /\ Active(v.low)
        BY <3>3 DEF SendWr, WrId, Active
      <3>5. w.kind = "Send" => v.low # t
        BY <1>7, <3>1, <3>3, Zenon
      <3> QED BY <1>10, <1>22, <3>2, <3>3, <3>4, <3>5, Zenon
    <2> QED BY <1>1, <1>3, <2>1, <2>2, <2>3, <2>4, Zenon DEF AnsweredOK, CmdsOf
  <1>26. ServingOK'
    BY <1>18, <1>19, <1>20, <1>21, <1>23, <1>24, <1>25, Zenon DEF ServingOK
  <1>27. phase' = "steady"
    BY <1>1, Zenon
  <1> QED BY <1>3, <1>12, <1>13, <1>14, <1>16, <1>26, <1>27, Zenon DEF RdmaInv

\* The adapter executes a request; a SEND answers its command.
LEMMA NicExecutesInv ==
  ASSUME RdmaInv, NicExecutes, DepthOK'
  PROVE  RdmaInv'
  <1>1. phase \in {"boot", "steady"}
    BY Zenon DEF NicExecutes
  <1>2. CASE phase = "boot"
    <2> DEFINE w == Head(sq)
    <2>1. RdmaTypeOK /\ LinesOK /\ SleepOK /\ HandOK /\ BootOK
      BY <1>2, Zenon DEF RdmaInv
    <2>2. /\ sq' \in Seq(WorkRequests) /\ unacked' \in Seq(WorkRequests)
          /\ w \in Okay(sq) /\ ToDo' = ToDo \ {w} /\ Done' = Done \cup {w}
          /\ Wrs' = Wrs /\ LinesOK'
      BY Executed, Zenon
    <2>3. w.kind \in {"Recv", "Read"}
      BY <2>1, <2>2, Zenon DEF BootOK, Wrs, ToDo
    <2>4. /\ phase' = phase /\ UNCHANGED <<script, depth, sent, answered, buf, wants>>
          /\ UNCHANGED <<state, task, cmd, data, pages, freeTags, inflight, resp>>
          /\ UNCHANGED <<responses, batch, parked, poolWait, readBatch>>
          /\ UNCHANGED <<chain, cq, staged, comps, rq, qpUp, pc, thread, armed, ring, lost>>
          /\ sq # << >> /\ sq' = Tail(sq) /\ unacked' = Append(unacked, w)
      BY <1>2, <2>3, Zenon DEF NicExecutes, lists, loop, wakeups
    <2>5. HandOK' /\ SleepOK'
      BY <2>1, <2>4, SleepKept, Zenon DEF HandOK
    <2>6. /\ sq \in Seq(WorkRequests) /\ unacked \in Seq(WorkRequests)
          /\ cq' \in Seq(WorkRequests) /\ staged' \in Seq(WorkRequests)
          /\ comps' \in Seq(WorkRequests) /\ chain' \in Seq(WorkRequests) /\ lost' \in Nat
          /\ sent \in 0 .. Len(script) /\ Len(sq) + Len(unacked) <= sent
      BY <2>1, <2>4, Zenon DEF RdmaTypeOK, BootOK
    <2> HIDE DEF w
    <2>7. Len(sq') + Len(unacked') <= sent
      <3>1. /\ Len(sq) \in Nat /\ Len(unacked) \in Nat
            /\ Len(sq') = Len(sq) - 1 /\ Len(unacked') = Len(unacked) + 1
        BY <2>4, <2>6
      <3> QED BY <2>6, <3>1
    <2>8. Okay(cq) = {}
      BY <2>1, <2>4, Zenon DEF BootOK
    <2>9. BootOK'
      BY <2>1, <2>2, <2>4, <2>7, <2>8, Zenon DEF BootOK
    <2>10. phase # "steady"
      BY <1>2, Zenon
    <2> QED BY <1>2, <2>2, <2>4, <2>5, <2>6, <2>9, <2>10, Moved, Zenon
  <1>3. CASE phase = "steady"
    BY <1>3, ExecutesSteady, Zenon
  <1> QED BY <1>1, <1>2, <1>3, Zenon

-----------------------------------------------------------------------------
(* A capsule arrives: a new command, in a buffer that nobody holds.        *)

\* A capsule of the host consumes the oldest RECV.
LEMMA HostSendInv ==
  ASSUME RdmaInv, HostSend, DepthOK', phase = "boot" => sent = 0
  PROVE  RdmaInv'
  <1> DEFINE idx == Head(rq)
             c == sent + 1
             w == WrId("Recv", idx, c, 1)
  <1>1. /\ phase' = phase /\ phase \in {"boot", "steady"}
        /\ UNCHANGED <<script, depth, answered, wants>>
        /\ UNCHANGED <<state, task, cmd, data, pages, freeTags, inflight, resp>>
        /\ UNCHANGED <<responses, batch, parked, poolWait, readBatch>>
        /\ UNCHANGED <<chain, sq, unacked, staged, comps, qpUp, pc, thread>>
        /\ qpUp /\ rq # << >> /\ rq' = Tail(rq) /\ sent < Len(script) /\ sent' = c
        /\ Outstanding < IF 1 \in answered THEN depth ELSE 1
        /\ buf' = [buf EXCEPT ![idx] = c] /\ cq' = Append(cq, w) /\ Notify
    BY Zenon DEF HostSend, slots, lists, loop
  <1>2. /\ RdmaTypeOK /\ SlotsOK /\ SleepOK /\ DepthOK
        /\ LinesOK /\ BuffersOK /\ RingFull /\ HandOK
    BY <1>1, Zenon DEF RdmaInv
  <1>3. /\ rq \in Seq(Bufs) /\ IsInjective(rq) /\ buf \in [Bufs -> Nat]
        /\ cq \in Seq(WorkRequests) /\ sent \in 0 .. Len(script) /\ lost \in Nat
        /\ script \in Seq([kind : Kinds, n : 0 .. NPages]) /\ depth \in Nat
        /\ answered \in SUBSET (1 .. sent)
    BY <1>2, Zenon DEF RdmaTypeOK, BuffersOK
  <1>4. /\ sent \in Nat /\ c \in Nat /\ c \in 0 .. Len(script) /\ c \notin 1 .. sent
        /\ \A k \in 1 .. sent : k \in 1 .. c
        /\ c \in 1 .. c /\ c # 0
    BY <1>1, <1>3
  <1> HIDE DEF idx, c
  <1>5. /\ idx \in Bufs /\ idx \in Range(rq) /\ rq' \in Seq(Bufs) /\ IsInjective(rq')
        /\ Range(rq') = Range(rq) \ {idx}
    BY <1>1, <1>3, PopFront, Zenon DEF idx
  <1>6. ~Held(idx)
    BY <1>2, <1>5, Zenon DEF BuffersOK
  <1>7. /\ w \in WorkRequests /\ w.ok /\ w.kind = "Recv" /\ w.low = idx /\ w.cmd = c
        /\ w.n = 1
    <2>1. /\ w = [kind |-> "Recv", low |-> idx, cmd |-> c, n |-> 1, ok |-> TRUE]
      BY Zenon DEF w, WrId
    <2>2. idx \in Nat
      BY <1>5, IndexNat, Zenon
    <2> HIDE DEF w
    <2> QED BY <1>4, <2>1, <2>2, Zenon DEF WorkRequests
  <1> HIDE DEF w
  <1>8. w \notin Wrs
    BY <1>6, <1>7, Zenon DEF Held, HeldArriving, Recvs
  <1>9. /\ cq' \in Seq(WorkRequests) /\ Distinct(cq') /\ Okay(cq') = Okay(cq) \cup {w}
    <2>1. Distinct(cq) /\ w \notin Okay(cq)
      BY <1>2, <1>8, Zenon DEF LinesOK, Wrs, Done
    <2> QED BY <1>1, <1>3, <1>7, <2>1, OkayAppend, Zenon
  <1>10. ToDo' = ToDo /\ Done' = Done \cup {w} /\ Wrs' = Wrs \cup {w}
    BY <1>1, <1>9, Zenon DEF ToDo, Done, Wrs
  <1>11. Recvs' = Recvs \cup {w}
    BY <1>7, <1>10, Zenon DEF Recvs
  <1>12. /\ buf' \in [Bufs -> Nat] /\ buf'[idx] = c
         /\ \A i \in Bufs \ {idx} : buf'[i] = buf[i]
    BY <1>1, <1>3, <1>4, <1>5, Zenon
  <1>13. answered' \in SUBSET (1 .. sent') /\ sent' \in 0 .. Len(script)
    BY <1>1, <1>3, <1>4, Zenon
  <1>14. SleepOK' /\ lost' \in Nat
    BY <1>1, <1>2, <1>3, Notified, Zenon
  <1>15. RdmaTypeOK'
    BY <1>1, <1>2, <1>5, <1>9, <1>12, <1>13, <1>14, Zenon DEF RdmaTypeOK
  <1>16. SlotsOK' /\ HandOK'
    BY <1>1, <1>2, <1>4, Zenon DEF SlotsOK, Active, Kind, HandOK
  <1>17. \A v \in Recvs : v.low \in Bufs \ {idx} /\ v = RecvWr(v.low)
    BY <1>2, <1>6, Zenon DEF LinesOK, Held, HeldArriving
  <1>18. LinesOK'
    <2>1. LinesApart
      BY <1>2, Zenon DEF LinesOK
    <2>2. LinesApart'
      BY <1>1, <1>8, <1>9, <2>1 DEF LinesApart, Wrs, ToDo, Done
    <2>3. \A v \in Recvs : v.low \in Bufs /\ v = RecvWr(v.low)'
      BY <1>12, <1>17, Zenon DEF RecvWr
    <2>4. \A v : v = w => v.low \in Bufs /\ v = RecvWr(v.low)'
      <3>1. w = WrId("Recv", idx, c, 1)
        BY Zenon DEF w
      <3>2. \A v : v = w => v.low = idx /\ v = WrId("Recv", idx, buf'[idx], 1)
        BY <1>7, <1>12, <3>1, Zenon
      <3> QED BY <1>5, <3>2, Zenon DEF RecvWr
    <2> QED BY <1>1, <1>2, <1>7, <1>9, <1>11, <2>2, <2>3, <2>4, Zenon DEF LinesOK
  <1>19. \A i : Held(i)' <=> (Held(i) \/ i = idx)
    <2>1. \A i : HeldArriving(i)' <=> (HeldArriving(i) \/ i = idx)
      BY <1>7, <1>11, Zenon DEF HeldArriving
    <2>2. \A i : (HeldParked(i)' <=> HeldParked(i)) /\ (HeldWaiting(i)' <=> HeldWaiting(i))
      BY <1>1, Zenon DEF HeldParked, HeldWaiting, Inline, Kind
    <2> QED BY <2>1, <2>2, Zenon DEF Held
  <1>20. BuffersOK'
    <2>1. \A e \in Range(parked) : Inline(e.cmd) => e.idx \in Bufs \ {idx} /\ buf[e.idx] = e.cmd
      BY <1>2, <1>6, ListsTyped, Zenon DEF Held, HeldParked, BuffersOK
    <2>2. \A e \in Range(poolWait) :
            Inline(cmd[e.tag]) => e.idx \in Bufs \ {idx} /\ buf[e.idx] = cmd[e.tag]
      BY <1>2, <1>6, ListsTyped, Zenon DEF Held, HeldWaiting, BuffersOK
    <2>3. \A x : Inline(x)' <=> Inline(x)
      BY <1>1, Zenon DEF Inline, Kind
    <2>4. \A e \in Range(parked) : Inline(e.cmd) => buf'[e.idx] = e.cmd
      BY <1>12, <2>1, Zenon
    <2>5. \A e \in Range(poolWait) : Inline(cmd[e.tag]) => buf'[e.idx] = cmd[e.tag]
      BY <1>12, <2>2, Zenon
    <2>6. \A i \in Range(rq') : ~Held(i)'
      BY <1>2, <1>5, <1>19, Zenon DEF BuffersOK
    <2> QED BY <1>1, <1>5, <2>3, <2>4, <2>5, <2>6, Zenon DEF BuffersOK
  <1>21. RingFull'
    BY <1>1, <1>2, <1>5, <1>19, Zenon DEF RingFull
  <1>22. ASSUME phase = "steady" PROVE ServingOK'
    <2>1. ServingOK
      BY <1>22, Zenon DEF RdmaInv
    <2>2. WrsOwned'
      <3>1. \A v \in Wrs : Owned(v)'
        BY <1>1, <2>1, Zenon DEF ServingOK, WrsOwned, Owned, ReadWr, SendWr, WriteWr, DataWr,
           WrId
      <3>2. \A v : v.kind = "Recv" => Owned(v)'
        BY Zenon DEF Owned
      <3>3. w.kind # "Send" /\ w.kind # "Write"
        BY <1>7, Zenon
      <3> QED BY <1>1, <1>7, <1>10, <2>1, <3>1, <3>2, <3>3, Zenon DEF ServingOK, WrsOwned
    <2>3. ReadsFilled' /\ SendFollows(chain)' /\ SendFollows(sq)'
      <3>1. w.kind # "Read"
        BY <1>7, Zenon
      <3> QED BY <1>1, <1>10, <2>1, <3>1, Zenon DEF ServingOK, ReadsFilled
    <2>4. \A u : Quiet(u) => Quiet(u)'
      BY <1>7, <1>10, Zenon DEF Quiet
    <2>5. DeferredOK' /\ ResponsesOK'
      BY <1>1, <2>1, <2>4, Zenon DEF ServingOK, DeferredOK, ResponsesOK, Answering, TagsOf
    <2>6. c \notin CmdsOf(parked) /\ \A t \in Tags : Active(t) => cmd[t] # c
      BY <1>2, <1>4, <2>1, Zenon DEF ServingOK, CommandsOK, SlotsOK
    <2>7. \A v \in Recvs : v.cmd # c
      BY <1>4, <2>1, Zenon DEF ServingOK, CommandsOK
    <2>8. CommandsOK'
      <3>1. \A v \in Recvs' : v.cmd \in 1 .. sent' /\ v.cmd \notin CmdsOf(parked)
        BY <1>1, <1>4, <1>7, <1>11, <2>1, <2>6, Zenon DEF ServingOK, CommandsOK
      <3>2. \A u, v \in Recvs' : u.cmd = v.cmd => u = v
        BY <1>7, <1>11, <2>1, <2>7, Zenon DEF ServingOK, CommandsOK
      <3>3. CmdsOf(parked) \subseteq 1 .. sent' /\ OncePerCmd(parked)
        BY <1>1, <1>4, <2>1, Zenon DEF ServingOK, CommandsOK
      <3>4. \A v \in Recvs', t \in Tags : Active(t) => v.cmd # cmd[t]
        BY <1>7, <1>11, <2>1, <2>6, Zenon DEF ServingOK, CommandsOK
      <3> QED BY <1>1, <2>1, <3>1, <3>2, <3>3, <3>4, Zenon DEF ServingOK, CommandsOK, Active
    <2>9. AnsweredOK'
      <3>1. c \notin answered
        BY <1>3, <1>4, Zenon
      <3> QED BY <1>1, <1>7, <1>10, <1>11, <2>1, <3>1, Zenon DEF ServingOK, AnsweredOK
    <2> QED BY <2>2, <2>3, <2>5, <2>8, <2>9, Zenon DEF ServingOK
  <1>23. ASSUME phase = "boot" PROVE BootOK'
    <2>1. BootOK
      BY <1>23, Zenon DEF RdmaInv
    <2>2. answered = {} /\ sent <= 1 /\ Len(sq) + Len(unacked) <= sent
      BY <2>1, Zenon DEF BootOK
    <2>4. sent = 0
      BY <1>23, Zenon
    <2>5. c = 1
      BY <2>4 DEF c
    <2>6. Okay(cq) = {} /\ AllOkay(cq) /\ wants = "Recv"
      BY <1>1, <2>1, <2>4 DEF BootOK
    <2>7. cq = << >>
      BY <1>3, <2>6, NothingOkay, Zenon
    <2>8. cq' = <<w>>
      BY <1>1, <1>7, <2>7, OneCompletion, Zenon
    <2>9. AllOkay(cq') /\ \A i \in DOMAIN cq' : i = 1
      BY <1>7, <2>8, OneCompletion, Zenon
    <2>10. sq = << >> /\ unacked = << >> /\ Len(sq) + Len(unacked) = 0
      <3>1. sq \in Seq(WorkRequests) /\ unacked \in Seq(WorkRequests)
        BY <1>2, Zenon DEF RdmaTypeOK
      <3>2. Len(sq) = 0 /\ Len(unacked) = 0
        BY <2>2, <2>4, <3>1
      <3> QED BY <3>1, <3>2
    <2>11. Wrs = {}
      <3>1. \A v \in Wrs : v.cmd \in 1 .. 0
        BY <2>1, <2>4, Zenon DEF BootOK
      <3> QED BY <3>1
    <2>12. \A v \in Wrs' : v.kind = wants' /\ v.cmd \in 1 .. sent'
      BY <1>1, <1>4, <1>7, <1>10, <2>6, <2>11, Zenon
    <2>13. sent' = 1 /\ Len(sq') + Len(unacked') <= sent'
      BY <1>1, <2>5, <2>10
    <2>14. sent' <= 1 /\ sent' # 0
      BY <2>13
    <2>15. /\ \A t \in Tags : state[t] = "Free" /\ task[t] = "idle"
           /\ chain = << >> /\ staged = << >> /\ comps = << >>
           /\ responses = << >> /\ batch = << >>
           /\ parked = << >> /\ poolWait = << >> /\ readBatch = << >>
           /\ freeTags # << >> /\ answered = {} /\ wants \in {"Recv", "Read"}
      BY <2>1, Zenon DEF BootOK
    <2>16. /\ \A t \in Tags : state'[t] = "Free" /\ task'[t] = "idle"
           /\ chain' = << >> /\ staged' = << >> /\ comps' = << >>
           /\ responses' = << >> /\ batch' = << >>
           /\ parked' = << >> /\ poolWait' = << >> /\ readBatch' = << >>
           /\ freeTags' # << >> /\ answered' = {} /\ wants' \in {"Recv", "Read"}
           /\ sq' = << >> /\ unacked' = << >>
      BY <1>1, <2>10, <2>15
    <2> QED BY <2>9, <2>12, <2>13, <2>14, <2>16, Zenon DEF BootOK
  <1> QED BY <1>1, <1>14, <1>15, <1>16, <1>18, <1>20, <1>21, <1>22, <1>23, Zenon DEF RdmaInv

=============================================================================
