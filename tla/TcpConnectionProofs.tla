------------------------ MODULE TcpConnectionProofs ------------------------
(***************************************************************************)
(* Proofs of the slot engine's safety invariants, for any number of slots; *)
(* and, for any queue depth, batch size and number of commands, that the   *)
(* connection stays within the slot protocol, that what the kernel may     *)
(* still read for a send is neither reused nor freed, that the send task   *)
(* sleeps only while there is nothing for it to do, and that a shutdown    *)
(* never meets a closed descriptor after an orderly end.                   *)
(*                                                                         *)
(* The invariants of the slot engine are mutually dependent: that a        *)
(* claimed tag is really Free needs the free list to be exact, which needs *)
(* a released tag to be Responding, which needs the one-response           *)
(* invariant.  Their conjunction SlotInv is inductive as it stands.        *)
(*                                                                         *)
(* The slot protocol and the send path depend on each other: a batch may   *)
(* release its tags because the slot engine handed each response out once, *)
(* and the slot engine stays consistent because a batch releases only what *)
(* it was handed.  ConnInv says where every response taken off the send    *)
(* list is (in hand or in one place of one batch), which batch the send    *)
(* task may touch at each of its steps, and which notifications a batch    *)
(* still waits for.                                                        *)
(***************************************************************************)
EXTENDS TcpConnection, FiniteSetTheorems, SequenceTheorems, TLAPS

-----------------------------------------------------------------------------
(* Sequences as the batches and the in-flight list use them.               *)

\* Vec::push and VecDeque::push_back.
LEMMA PushBack ==
  ASSUME NEW S, NEW s \in Seq(S), NEW e \in S
  PROVE  /\ Append(s, e) \in Seq(S)
         /\ Range(Append(s, e)) = Range(s) \cup {e}
         /\ IsInjective(s) /\ e \notin Range(s) => IsInjective(Append(s, e))
  <1>1. /\ Append(s, e) \in Seq(S) /\ Len(s) \in Nat
        /\ DOMAIN s = 1 .. Len(s) /\ DOMAIN Append(s, e) = 1 .. Len(s) + 1
        /\ Append(s, e)[Len(s) + 1] = e
        /\ \A i \in 1 .. Len(s) : Append(s, e)[i] = s[i]
    OBVIOUS
  <1>2. Range(Append(s, e)) = Range(s) \cup {e}
    BY <1>1 DEF Range
  <1>3. ASSUME IsInjective(s), e \notin Range(s) PROVE IsInjective(Append(s, e))
    BY <1>1, <1>3 DEF IsInjective, Range
  <1> QED BY <1>1, <1>2, <1>3, Zenon

\* VecDeque::pop_front, and the walk over the tags to release.
LEMMA PopFront ==
  ASSUME NEW S, NEW s \in Seq(S), s # << >>
  PROVE  /\ Head(s) \in S /\ Tail(s) \in Seq(S)
         /\ Range(s) = Range(Tail(s)) \cup {Head(s)}
         /\ IsInjective(s) => Head(s) \notin Range(Tail(s)) /\ IsInjective(Tail(s))
  <1>1. /\ Head(s) \in S /\ Tail(s) \in Seq(S) /\ Len(s) \in Nat \ {0}
        /\ DOMAIN s = 1 .. Len(s) /\ DOMAIN Tail(s) = 1 .. Len(s) - 1
        /\ Head(s) = s[1]
        /\ \A i \in 1 .. Len(s) - 1 : Tail(s)[i] = s[i + 1]
    OBVIOUS
  <1>2. \A i \in 1 .. Len(s) : i # 1 => i - 1 \in 1 .. Len(s) - 1 /\ Tail(s)[i - 1] = s[i]
    BY <1>1
  <1>3. Range(s) = Range(Tail(s)) \cup {Head(s)}
    <2>1. ASSUME NEW i \in 1 .. Len(s), i # 1
          PROVE  s[i] \in Range(Tail(s))
      <3>1. i - 1 \in DOMAIN Tail(s) /\ Tail(s)[i - 1] = s[i]
        BY <1>1, <1>2, <2>1, Zenon
      <3> QED BY <3>1, Zenon DEF Range
    <2>2. \A x \in Range(Tail(s)) : x \in Range(s)
      BY <1>1 DEF Range
    <2>3. Head(s) \in Range(s)
      BY <1>1 DEF Range
    <2> QED BY <1>1, <2>1, <2>2, <2>3, ZenonT(30) DEF Range
  <1>4. ASSUME IsInjective(s)
        PROVE  Head(s) \notin Range(Tail(s)) /\ IsInjective(Tail(s))
    BY <1>1, <1>4 DEF IsInjective, Range
  <1> QED BY <1>1, <1>3, <1>4, Zenon

\* An empty list has no elements.
LEMMA EmptyRange == Range(<< >>) = {} /\ IsInjective(<< >>)
  BY DEF Range, IsInjective

\* StreamSender has two batches, so two of them in flight are all of them.
LEMMA TwoBatches ==
  ASSUME NEW s \in Seq(Batches), IsInjective(s)
  PROVE  /\ Cardinality(Batches) = 2
         /\ Len(s) \in {0, 1, 2}
         /\ Len(s) # 2 => \E b \in Batches :
               /\ \A i \in DOMAIN s : s[i] # b
               /\ \A c \in Batches : c < b => \E i \in DOMAIN s : s[i] = c
  <1>1. Cardinality(Batches) = 2
    <2>1. IsFiniteSet({0}) /\ Cardinality({0}) = 1
      BY FS_Singleton, Zenon
    <2>2. 1 \notin {0} /\ {0} \cup {1} = Batches
      BY DEF Batches
    <2>3. Cardinality({0} \cup {1}) = Cardinality({0}) + 1
      BY <2>1, <2>2, FS_AddElement, Zenon
    <2>4. Cardinality(Batches) = 1 + 1
      BY <2>1, <2>2, <2>3, Zenon
    <2> QED BY <2>4
  <1>2. Len(s) \in {0, 1, 2}
    <2> SUFFICES ASSUME Len(s) \notin {0, 1, 2} PROVE FALSE
      BY Zenon
    <2>0. Len(s) \in Nat /\ DOMAIN s = 1 .. Len(s)
      OBVIOUS
    <2>1. 1 \in DOMAIN s /\ 2 \in DOMAIN s /\ 3 \in DOMAIN s
      BY <2>0
    <2>2. s[1] # s[2] /\ s[1] # s[3] /\ s[2] # s[3]
      BY <2>1 DEF IsInjective
    <2> QED BY <2>1, <2>2 DEF Batches
  <1>3. ASSUME Len(s) # 2
        PROVE  \E b \in Batches :
               /\ \A i \in DOMAIN s : s[i] # b
               /\ \A c \in Batches : c < b => \E i \in DOMAIN s : s[i] = c
    BY <1>2, <1>3 DEF Batches
  <1> QED BY <1>1, <1>2, <1>3, Zenon

-----------------------------------------------------------------------------
(* The slot engine.                                                        *)

SlotInv ==
  /\ SlotTypeOK
  /\ FreeListExact
  /\ ExecutingCounted
  /\ NoLostDoorbell
  /\ NoLostTagWakeup
  /\ OneResponsePerTag
  /\ SolicitBeforeResponse

\* A step that changes nothing of the slot engine keeps its invariant.
LEMMA SlotKept == SlotInv /\ UNCHANGED slotVars => SlotInv'
  BY DEF slotVars, SlotInv, SlotTypeOK, FreeListExact,
    ExecutingCounted, NoLostDoorbell, NoLostTagWakeup, OneResponsePerTag,
    SolicitBeforeResponse, IsResponse

\* A step that moves no slot, tag or response keeps the lists.
LEMMA ListsKept ==
  ASSUME FreeListExact, ExecutingCounted, NoLostTagWakeup, OneResponsePerTag,
         SolicitBeforeResponse, UNCHANGED <<state, freeTags, executing, claimer, work, taken>>
  PROVE  FreeListExact' /\ ExecutingCounted' /\ NoLostTagWakeup' /\ OneResponsePerTag'
         /\ SolicitBeforeResponse'
  BY DEF FreeListExact, ExecutingCounted, NoLostTagWakeup, OneResponsePerTag,
    SolicitBeforeResponse, IsResponse

\* The tag set is finite, so counting slots makes sense.
LEMMA TagsFinite == IsFiniteSet(Tags)
  <1>1. NSlots - 1 \in Int /\ 0 \in Int
    BY NSlotsAssumption
  <1> QED BY <1>1, FS_Interval, Zenon DEF Tags

\* Moving one slot into (out of) Executing changes the count by one; this is
\* what await_command and begin_respond do to SlotArray.executing.
LEMMA CountIn ==
  ASSUME NEW S \in SUBSET Tags, NEW t \in Tags, t \notin S
  PROVE  Cardinality(S \cup {t}) = Cardinality(S) + 1
  <1>1. IsFiniteSet(S)
    BY TagsFinite, FS_Subset, Zenon
  <1> QED BY <1>1, FS_AddElement, Zenon

\* One tag less in a set of tags.
LEMMA CountOut ==
  ASSUME NEW S \in SUBSET Tags, NEW t \in S
  PROVE  /\ Cardinality(S \ {t}) = Cardinality(S) - 1
         /\ Cardinality(S) \in Nat \ {0}
  <1>1. IsFiniteSet(S)
    BY TagsFinite, FS_Subset, Zenon
  <1>2. Cardinality(S) \in Nat /\ Cardinality(S) # 0
    BY <1>1, FS_CardinalityType, FS_EmptySet, Zenon
  <1> QED BY <1>1, <1>2, FS_RemoveElement, Zenon

\* What Vec::pop leaves of the free list.
LEMMA PopProperties ==
  ASSUME NEW S, NEW s \in Seq(S), s # << >>
  PROVE  LET p == SubSeq(s, 1, Len(s) - 1)
         IN  /\ p \in Seq(S)
             /\ Len(p) = Len(s) - 1
             /\ \A i \in 1 .. Len(s) - 1 : p[i] = s[i]
  <1> DEFINE n == Len(s) - 1
  <1>1. n \in Nat /\ \A i \in 1 .. n : s[i] \in S
    OBVIOUS
  <1> HIDE DEF n
  <1>2. 1 \in Int /\ n \in Int /\ (1 <= n \/ n = 0)
    BY <1>1
  <1>3. /\ SubSeq(s, 1, n) \in Seq(S)
        /\ Len(SubSeq(s, 1, n)) = IF 1 <= n THEN n - 1 + 1 ELSE 0
        /\ \A i \in 1 .. n - 1 + 1 : SubSeq(s, 1, n)[i] = s[1 + i - 1]
    BY <1>1, <1>2, SubSeqProperties
  <1>4. Len(SubSeq(s, 1, n)) = n
    BY <1>1, <1>2, <1>3
  <1>5. \A i \in 1 .. n : SubSeq(s, 1, n)[i] = s[i]
    BY <1>1, <1>3
  <1> QED BY <1>3, <1>4, <1>5, Zenon DEF n

\* A new queue: every tag free, nobody working, nothing to send.
LEMMA SlotInitInv == SlotInit => SlotInv
  <1> SUFFICES ASSUME SlotInit PROVE SlotInv
    BY Zenon
  <1> USE NSlotsAssumption
  <1>1. SlotTypeOK
    <2>1. freeTags \in [1 .. NSlots -> Tags]
      BY DEF SlotInit, Tags
    <2>2. freeTags \in Seq(Tags)
      BY <2>1
    <2> QED BY <2>2 DEF SlotInit, SlotTypeOK, SlotState
  <1>2. FreeListExact
    <2>1. DOMAIN freeTags = 1 .. NSlots
      BY Zenon DEF SlotInit
    <2>2. \A i, j \in DOMAIN freeTags : freeTags[i] = freeTags[j] => i = j
      BY <2>1 DEF SlotInit
    <2>3. ASSUME NEW t \in Tags PROVE \E i \in DOMAIN freeTags : freeTags[i] = t
      <3>1. NSlots - t \in DOMAIN freeTags /\ freeTags[NSlots - t] = t
        BY <2>1 DEF SlotInit, Tags
      <3> QED BY <3>1, Zenon
    <2> QED BY <2>2, <2>3, Zenon DEF SlotInit, FreeListExact
  <1>3. ExecutingCounted
    <2>1. {t \in Tags : state[t] = "Executing"} = {}
      BY Zenon DEF SlotInit
    <2> QED BY <2>1, FS_EmptySet, Zenon DEF SlotInit, ExecutingCounted
  <1>4. NoLostDoorbell /\ NoLostTagWakeup
    BY Zenon DEF SlotInit, NoLostDoorbell, NoLostTagWakeup
  <1>5. OneResponsePerTag /\ SolicitBeforeResponse
    BY DEF SlotInit, OneResponsePerTag, SolicitBeforeResponse
  <1> QED BY <1>1, <1>2, <1>3, <1>4, <1>5, Zenon DEF SlotInv

\* Every item of the send list names a slot.
LEMMA WorkTags ==
  ASSUME SlotTypeOK
  PROVE  \A i \in DOMAIN work : work[i].tag \in Tags
  <1>1. \A i \in DOMAIN work : work[i] \in SendWork
    BY DEF SlotTypeOK
  <1> QED BY <1>1, Zenon DEF SendWork

\* A move that neither starts nor ends a response disturbs no response.
LEMMA ResponsesKept ==
  ASSUME SlotTypeOK, OneResponsePerTag, SolicitBeforeResponse, NEW t \in Tags,
         NEW s \in {"Receiving", "Ready", "Executing"},
         state[t] # "Responding",
         state' = [state EXCEPT ![t] = s],
         UNCHANGED <<work, taken>>
  PROVE  OneResponsePerTag' /\ SolicitBeforeResponse'
  <1>1. /\ state'[t] = s
        /\ \A u \in Tags : u # t => state'[u] = state[u]
        /\ s # "Free" /\ s # "Responding"
    BY Zenon DEF SlotTypeOK
  <1>2. \A u \in taken : u \in Tags
    BY Zenon DEF SlotTypeOK
  <1>3. OneResponsePerTag'
    BY <1>1, <1>2, WorkTags DEF OneResponsePerTag, IsResponse
  <1>4. SolicitBeforeResponse'
    BY <1>1, WorkTags, Zenon DEF SolicitBeforeResponse, IsResponse
  <1> QED BY <1>3, <1>4, Zenon

\* Both complete and complete_receiving move a slot without a response to
\* Responding and append its response.
Responds(t, d) ==
  /\ state[t] \in {"Receiving", "Executing"}
  /\ state' = [state EXCEPT ![t] = "Responding"]
  /\ work' = Append(work, Response(t, d))
  /\ taken' = taken

\* A tag that starts responding has no response queued yet.
LEMMA RespondingAppended ==
  ASSUME SlotTypeOK, OneResponsePerTag, SolicitBeforeResponse,
         NEW t \in Tags, NEW d \in BOOLEAN, Responds(t, d)
  PROVE  OneResponsePerTag' /\ SolicitBeforeResponse'
  <1> USE DEF SlotTypeOK, Responds
  <1>1. /\ Response(t, d) \in SendWork
        /\ Response(t, d).kind = "Response" /\ Response(t, d).tag = t
    BY Zenon DEF SendWork, Response
  <1>2. /\ work' \in Seq(SendWork) /\ Len(work') = Len(work) + 1
        /\ work'[Len(work) + 1] = Response(t, d)
        /\ \A i \in 1 .. Len(work) : work'[i] = work[i]
    BY <1>1
  <1>3. /\ DOMAIN work = 1 .. Len(work) /\ Len(work) \in Nat
        /\ DOMAIN work' = 1 .. Len(work) + 1
    BY <1>2
  <1>4. t \notin taken /\ \A i \in DOMAIN work : ~IsResponse(i, t)
    BY Zenon DEF OneResponsePerTag, IsResponse
  <1>5. OneResponsePerTag'
    <2>1. \A i \in DOMAIN work' : work'[i].kind = "Response" =>
            state'[work'[i].tag] = "Responding" /\ work'[i].tag \notin taken'
      BY <1>1, <1>2, <1>3, <1>4, WorkTags DEF OneResponsePerTag, IsResponse
    <2>2. \A i, j \in DOMAIN work' :
            (\E u \in Tags : IsResponse(i, u)' /\ IsResponse(j, u)') => i = j
      BY <1>1, <1>2, <1>3, <1>4 DEF OneResponsePerTag, IsResponse
    <2>3. \A u \in taken' : state'[u] = "Responding"
      BY Zenon DEF OneResponsePerTag
    <2>4. \A u \in Tags : state'[u] = "Responding" =>
            u \in taken' \/ \E i \in DOMAIN work' : IsResponse(i, u)'
      <3>1. \E i \in DOMAIN work' : IsResponse(i, t)'
        <4>1. Len(work) + 1 \in DOMAIN work'
          BY <1>3
        <4> QED BY <1>1, <1>2, <4>1, Zenon DEF IsResponse
      <3>2. ASSUME NEW u \in Tags, u # t, state'[u] = "Responding"
            PROVE  u \in taken' \/ \E i \in DOMAIN work' : IsResponse(i, u)'
        <4>1. state[u] = "Responding"
          BY <3>2, Zenon
        <4>2. CASE u \in taken
          BY <4>2, Zenon
        <4>3. ASSUME NEW i \in DOMAIN work, IsResponse(i, u)
              PROVE  i \in DOMAIN work' /\ IsResponse(i, u)'
          BY <4>3, <1>2, <1>3 DEF IsResponse
        <4> QED BY <4>1, <4>2, <4>3, Zenon DEF OneResponsePerTag
      <3> QED BY <3>1, <3>2, Zenon
    <2> QED BY <2>1, <2>2, <2>3, <2>4, Zenon DEF OneResponsePerTag, IsResponse
  <1>6. SolicitBeforeResponse'
    BY <1>1, <1>2, <1>3, <1>4, WorkTags DEF SolicitBeforeResponse, IsResponse
  <1> QED BY <1>5, <1>6, Zenon

---------------------------------------------------------------------------
(* One lemma per action: each keeps SlotInv.                               *)

\* claim_tag hands out a Free tag; parking happens on an empty list only.
LEMMA ClaimTagInv == SlotInv /\ ClaimTag => SlotInv'
  <1> SUFFICES ASSUME SlotInv, ClaimTag PROVE SlotInv'
    BY Zenon
  <1> USE DEF SlotInv, SlotTypeOK, ClaimTag
  <1>1. CASE claim_tag
    <2> DEFINE n == Len(freeTags)
    <2>1. n \in Nat \ {0} /\ top \in Tags /\ state[top] = "Free"
      BY <1>1 DEF claim_tag, top, FreeListExact
    <2>2. /\ freeTags' \in Seq(Tags)
          /\ Len(freeTags') = n - 1
          /\ \A i \in 1 .. n - 1 : freeTags'[i] = freeTags[i]
      <3>1. freeTags' = SubSeq(freeTags, 1, n - 1)
        BY <1>1, Zenon DEF claim_tag
      <3> QED BY <2>1, <3>1, PopProperties
    <2>3. SlotTypeOK'
      BY <1>1, <2>1, <2>2, Zenon DEF claim_tag, SlotState
    <2>4. FreeListExact'
      <3>1. DOMAIN freeTags = 1 .. n /\ DOMAIN freeTags' = 1 .. n - 1
        BY <2>1, <2>2
      <3>2. \A i \in DOMAIN freeTags' :
              i \in DOMAIN freeTags /\ freeTags'[i] = freeTags[i] /\ i # n
        BY <2>1, <2>2, <3>1
      <3>3. \A i, j \in DOMAIN freeTags' :
              freeTags'[i] = freeTags'[j] => i = j
        BY <2>1, <3>2, Zenon DEF FreeListExact
      <3>4. ASSUME NEW i \in DOMAIN freeTags' PROVE freeTags'[i] # top
        <4>1. n \in DOMAIN freeTags
          BY <2>1, <3>1
        <4>2. top = freeTags[n]
          BY Zenon DEF top
        <4>3. i \in DOMAIN freeTags /\ freeTags'[i] = freeTags[i] /\ i # n
          BY <3>2, Zenon
        <4>4. freeTags[i] # freeTags[n]
          BY <4>1, <4>3, Zenon DEF FreeListExact
        <4> QED BY <4>2, <4>3, <4>4, Zenon
      <3>5. ASSUME NEW t \in Tags, state[t] = "Free", t # top
            PROVE  \E i \in DOMAIN freeTags' : freeTags'[i] = t
        <4>1. PICK i \in DOMAIN freeTags : freeTags[i] = t
          BY <3>5, Zenon DEF FreeListExact
        <4>2. i # n
          BY <4>1, <3>5, Zenon DEF top
        <4> QED BY <4>1, <4>2, <3>1, <2>1, <2>2
      <3>6. ASSUME NEW t \in Tags, NEW i \in DOMAIN freeTags', freeTags'[i] = t
            PROVE  state[t] = "Free"
        BY <2>1, <3>6, <3>2, Zenon DEF FreeListExact
      <3>7. state' = [state EXCEPT ![top] = "Receiving"]
        BY <1>1, Zenon DEF claim_tag
      <3> QED BY <2>1, <3>3, <3>4, <3>5, <3>6, <3>7 DEF FreeListExact
    <2>5. {t \in Tags : state[t] = "Executing"}'
            = {t \in Tags : state[t] = "Executing"}
      BY <1>1, <2>1, Zenon DEF claim_tag
    <2>6. ExecutingCounted'
      BY <1>1, <2>5, Zenon DEF claim_tag, ExecutingCounted
    <2>7. NoLostDoorbell' /\ NoLostTagWakeup'
      BY <1>1, <2>1, Zenon DEF claim_tag, NoLostDoorbell, NoLostTagWakeup
    <2>8. OneResponsePerTag' /\ SolicitBeforeResponse'
      BY <1>1, <2>1, ResponsesKept, Zenon DEF claim_tag
    <2> QED BY <2>3, <2>4, <2>6, <2>7, <2>8, Zenon
  <1>2. CASE park_claimer
    BY <1>2 DEF park_claimer, FreeListExact, ExecutingCounted, NoLostDoorbell,
      NoLostTagWakeup, OneResponsePerTag, SolicitBeforeResponse, IsResponse
  <1> QED BY <1>1, <1>2, Zenon

\* submit rings the doorbell of a task that cannot be in dispatch.
LEMMA SubmitInv ==
  ASSUME NEW t \in Tags, SlotInv, Submit(t) PROVE SlotInv'
  <1> USE DEF SlotInv, SlotTypeOK, Submit, Deliverable, submit
  <1>1. SlotTypeOK' /\ NoLostDoorbell' /\ NoLostTagWakeup'
    BY Zenon DEF SlotState, NoLostDoorbell, NoLostTagWakeup
  <1>2. FreeListExact'
    BY Zenon DEF FreeListExact
  <1>3. {u \in Tags : state[u] = "Executing"}'
          = {u \in Tags : state[u] = "Executing"}
    BY Zenon
  <1>4. ExecutingCounted'
    BY <1>3, Zenon DEF ExecutingCounted
  <1>5. OneResponsePerTag' /\ SolicitBeforeResponse'
    BY ResponsesKept, Zenon
  <1> QED BY <1>1, <1>2, <1>4, <1>5, Zenon

\* A transport failure answers the command from Receiving: its response is
\* the only one and comes after its R2T.
LEMMA FailReceivingInv ==
  ASSUME NEW t \in Tags, SlotInv, FailReceiving(t) PROVE SlotInv'
  <1> USE DEF SlotInv, SlotTypeOK, FailReceiving, Deliverable, complete_receiving
  <1>1. SlotTypeOK' /\ NoLostDoorbell' /\ NoLostTagWakeup'
    BY DEF SlotState, SendWork, Response, NoLostDoorbell, NoLostTagWakeup
  <1>2. FreeListExact'
    BY Zenon DEF FreeListExact
  <1>3. {u \in Tags : state[u] = "Executing"}'
          = {u \in Tags : state[u] = "Executing"}
    BY Zenon
  <1>4. ExecutingCounted'
    BY <1>3, Zenon DEF ExecutingCounted
  <1>5. OneResponsePerTag' /\ SolicitBeforeResponse'
    BY RespondingAppended, Zenon DEF Responds
  <1> QED BY <1>1, <1>2, <1>4, <1>5, Zenon

\* The completion of a dispatched command, likewise; the count goes down with
\* the slot that leaves Executing.
LEMMA CompleteInv ==
  ASSUME NEW t \in Tags, SlotInv, Complete(t) PROVE SlotInv'
  <1> USE DEF SlotInv, SlotTypeOK
  <1>1. PICK d \in BOOLEAN : complete(t, d)
    BY Zenon DEF Complete
  <1>2. task[t] = "dispatch" /\ state[t] = "Executing"
    BY Zenon DEF Complete
  <1>3. /\ {u \in Tags : state[u] = "Executing"}'
             = {u \in Tags : state[u] = "Executing"} \ {t}
        /\ t \in {u \in Tags : state[u] = "Executing"}
    BY <1>1, <1>2, Zenon DEF complete
  <1>4. ExecutingCounted' /\ executing' \in Nat
    <2> DEFINE E == {u \in Tags : state[u] = "Executing"}
    <2>1. Cardinality(E \ {t}) = Cardinality(E) - 1 /\ Cardinality(E) \in Nat \ {0}
      BY <1>3, CountOut, Zenon
    <2>2. executing' = executing - 1 /\ executing = Cardinality(E)
      BY <1>1, Zenon DEF ExecutingCounted, complete
    <2>3. executing' = Cardinality(E \ {t}) /\ executing' \in Nat
      BY <2>1, <2>2
    <2> QED BY <1>3, <2>3, Zenon DEF ExecutingCounted
  <1>5. SlotTypeOK' /\ NoLostDoorbell' /\ NoLostTagWakeup'
    BY <1>1, <1>2, <1>4
      DEF complete, SlotState, SendWork, Response, NoLostDoorbell, NoLostTagWakeup
  <1>6. FreeListExact'
    BY <1>1, <1>2, Zenon DEF complete, FreeListExact
  <1>7. OneResponsePerTag' /\ SolicitBeforeResponse'
    BY <1>1, <1>2, RespondingAppended, Zenon DEF complete, Responds
  <1> QED BY <1>4, <1>5, <1>6, <1>7, Zenon

\* Soliciting appends an R2T for a slot that has no response yet.
LEMMA SolicitInv ==
  ASSUME NEW t \in Tags, SlotInv, Solicit(t) PROVE SlotInv'
  <1> USE DEF SlotInv, SlotTypeOK, Solicit, solicit
  <1>1. /\ R2t(t) \in SendWork /\ R2t(t).kind = "R2t" /\ R2t(t).tag = t
        /\ work' = Append(work, R2t(t))
    BY Zenon DEF SendWork, R2t
  <1>2. /\ work' \in Seq(SendWork) /\ Len(work') = Len(work) + 1
        /\ work'[Len(work) + 1] = R2t(t)
        /\ \A i \in 1 .. Len(work) : work'[i] = work[i]
    BY <1>1
  <1>3. SlotTypeOK' /\ NoLostDoorbell' /\ NoLostTagWakeup' /\ FreeListExact'
        /\ ExecutingCounted'
    BY <1>2 DEF NoLostDoorbell, NoLostTagWakeup, FreeListExact, ExecutingCounted
  <1>4. /\ DOMAIN work = 1 .. Len(work) /\ Len(work) \in Nat
        /\ DOMAIN work' = 1 .. Len(work) + 1
    BY <1>2
  <1>5. t \notin taken /\ \A i \in DOMAIN work : ~IsResponse(i, t)
    BY Zenon DEF OneResponsePerTag, IsResponse
  <1>6. OneResponsePerTag'
    BY <1>1, <1>2, <1>4 DEF OneResponsePerTag, IsResponse
  <1>7. SolicitBeforeResponse'
    BY <1>1, <1>2, <1>4, <1>5 DEF SolicitBeforeResponse, IsResponse
  <1> QED BY <1>3, <1>6, <1>7, Zenon

\* Polling a slot task: it starts a Ready command or goes to sleep on a slot
\* that is not Ready.
LEMMA PollTaskInv ==
  ASSUME NEW t \in Tags, SlotInv, PollTask(t) PROVE SlotInv'
  <1> USE DEF SlotInv, SlotTypeOK, PollTask, await_command
  <1>1. CASE state[t] = "Ready"
    <2>1. /\ {u \in Tags : state[u] = "Executing"}'
               = {u \in Tags : state[u] = "Executing"} \cup {t}
          /\ t \notin {u \in Tags : state[u] = "Executing"}
      BY <1>1, Zenon
    <2>2. {u \in Tags : state[u] = "Executing"} \in SUBSET Tags
      BY Zenon
    <2>3. ExecutingCounted'
      BY <1>1, <2>1, <2>2, CountIn, Zenon DEF ExecutingCounted
    <2>4. SlotTypeOK' /\ NoLostDoorbell' /\ NoLostTagWakeup'
      BY <1>1 DEF SlotState, NoLostDoorbell, NoLostTagWakeup
    <2>5. FreeListExact'
      BY <1>1 DEF FreeListExact
    <2>6. OneResponsePerTag' /\ SolicitBeforeResponse'
      BY <1>1, ResponsesKept, Zenon
    <2> QED BY <2>3, <2>4, <2>5, <2>6, Zenon
  <1>2. CASE state[t] # "Ready"
    <2>1. UNCHANGED <<state, freeTags, executing, claimer, filling, work, taken>>
      BY <1>2, Zenon
    <2>2. SlotTypeOK' /\ NoLostDoorbell'
      BY <1>2, Zenon DEF NoLostDoorbell
    <2> QED BY <2>1, <2>2, ListsKept, Zenon
  <1> QED BY <1>1, <1>2, Zenon

\* Taking the front of the send list moves the one response of its tag into
\* the send path's hands, or drops an R2T.
LEMMA TakeWorkInv == SlotInv /\ TakeWork => SlotInv'
  <1> SUFFICES ASSUME SlotInv, TakeWork PROVE SlotInv'
    BY Zenon
  <1> USE DEF SlotInv, SlotTypeOK, TakeWork, take_work
  <1>1. /\ work # << >> /\ Head(work) = work[1] /\ Head(work) \in SendWork
        /\ 1 \in DOMAIN work /\ Len(work) \in Nat \ {0}
        /\ DOMAIN work = 1 .. Len(work)
    OBVIOUS
  <1>2. /\ work' \in Seq(SendWork) /\ Len(work') = Len(work) - 1
        /\ DOMAIN work' = 1 .. Len(work) - 1
        /\ \A i \in DOMAIN work' : i + 1 \in DOMAIN work /\ work'[i] = work[i + 1]
    BY <1>1
  <1>3. Head(work).tag \in Tags
    BY <1>1, Zenon DEF SendWork
  <1>4. SlotTypeOK' /\ NoLostDoorbell' /\ NoLostTagWakeup' /\ FreeListExact'
        /\ ExecutingCounted'
    BY <1>2, <1>3
      DEF NoLostDoorbell, NoLostTagWakeup, FreeListExact, ExecutingCounted
  <1>5. \A i \in DOMAIN work : i # 1 => i - 1 \in DOMAIN work' /\ work'[i - 1] = work[i]
    BY <1>1, <1>2
  <1>6. CASE work[1].kind = "Response"
    <2> DEFINE h == work[1].tag
    <2>1. /\ taken' = taken \cup {h} /\ h \in Tags /\ h \notin taken
          /\ state[h] = "Responding"
          /\ \A i \in DOMAIN work : IsResponse(i, h) => i = 1
      BY <1>1, <1>3, <1>6 DEF OneResponsePerTag, IsResponse
    <2>2. \A i \in DOMAIN work : work[i].kind = "R2t" => work[i].tag # h
      BY <1>1, <1>3, <1>6, SMTT(20) DEF SolicitBeforeResponse, IsResponse
    <2> HIDE DEF h
    <2>3. OneResponsePerTag'
      <3>1. \A i \in DOMAIN work' : work'[i].kind = "Response" =>
              state'[work'[i].tag] = "Responding" /\ work'[i].tag \notin taken'
        BY <1>1, <1>2, <2>1 DEF OneResponsePerTag, IsResponse
      <3>2. \A i, j \in DOMAIN work' :
              (\E u \in Tags : IsResponse(i, u)' /\ IsResponse(j, u)') => i = j
        BY <1>1, <1>2, SMTT(20) DEF OneResponsePerTag, IsResponse
      <3>3. \A u \in taken' : state'[u] = "Responding"
        BY <2>1, Zenon DEF OneResponsePerTag
      <3>4. \A u \in Tags : state'[u] = "Responding" =>
              u \in taken' \/ \E i \in DOMAIN work' : IsResponse(i, u)'
        <4> SUFFICES ASSUME NEW u \in Tags, state'[u] = "Responding",
                            u # h, u \notin taken
                     PROVE  \E i \in DOMAIN work' : IsResponse(i, u)'
          BY <2>1, Zenon
        <4>1. PICK i \in DOMAIN work : IsResponse(i, u)
          BY Zenon DEF OneResponsePerTag
        <4>2. i # 1
          BY <4>1, Zenon DEF IsResponse, h
        <4>3. i - 1 \in DOMAIN work' /\ work'[i - 1] = work[i]
          BY <4>2, <1>5, Zenon
        <4> QED BY <4>1, <4>3, Zenon DEF IsResponse
      <3> QED BY <3>1, <3>2, <3>3, <3>4, Zenon DEF OneResponsePerTag, IsResponse
    <2>4. SolicitBeforeResponse'
      BY <1>1, <1>2, <2>1, <2>2, SMTT(20) DEF SolicitBeforeResponse, IsResponse
    <2> QED BY <1>4, <2>3, <2>4, Zenon
  <1>7. CASE work[1].kind # "Response"
    <2>1. taken' = taken /\ state' = state
      BY <1>1, <1>7, Zenon
    <2>2. OneResponsePerTag'
      <3>1. \A i \in DOMAIN work' : work'[i].kind = "Response" =>
              state'[work'[i].tag] = "Responding" /\ work'[i].tag \notin taken'
        BY <1>1, <1>2, <2>1 DEF OneResponsePerTag
      <3>2. \A i, j \in DOMAIN work' :
              (\E u \in Tags : IsResponse(i, u)' /\ IsResponse(j, u)') => i = j
        BY <1>1, <1>2, SMTT(20) DEF OneResponsePerTag, IsResponse
      <3>3. \A u \in taken' : state'[u] = "Responding"
        BY <2>1, Zenon DEF OneResponsePerTag
      <3>4. \A u \in Tags : state'[u] = "Responding" =>
              u \in taken' \/ \E i \in DOMAIN work' : IsResponse(i, u)'
        <4> SUFFICES ASSUME NEW u \in Tags, state[u] = "Responding", u \notin taken
                     PROVE  \E i \in DOMAIN work' : IsResponse(i, u)'
          BY <2>1, Zenon
        <4>1. PICK i \in DOMAIN work : IsResponse(i, u)
          BY Zenon DEF OneResponsePerTag
        <4>2. i # 1
          BY <4>1, <1>7, Zenon DEF IsResponse
        <4>3. i - 1 \in DOMAIN work' /\ work'[i - 1] = work[i]
          BY <4>2, <1>5, Zenon
        <4> QED BY <4>1, <4>3, Zenon DEF IsResponse
      <3> QED BY <3>1, <3>2, <3>3, <3>4, Zenon DEF OneResponsePerTag, IsResponse
    <2>3. SolicitBeforeResponse'
      BY <1>1, <1>2, <2>1 DEF SolicitBeforeResponse, IsResponse
    <2> QED BY <1>4, <2>2, <2>3, Zenon
  <1> QED BY <1>6, <1>7, Zenon

\* Releasing puts back a tag that is on neither list, and wakes the claimer.
LEMMA ReleaseTagInv ==
  ASSUME NEW t \in Tags, SlotInv, ReleaseTag(t) PROVE SlotInv'
  <1> USE DEF SlotInv, SlotTypeOK, ReleaseTag, release_tag, put_back
  <1>1. /\ freeTags' \in Seq(Tags) /\ Len(freeTags') = Len(freeTags) + 1
        /\ freeTags'[Len(freeTags) + 1] = t
        /\ DOMAIN freeTags = 1 .. Len(freeTags) /\ Len(freeTags) \in Nat
        /\ DOMAIN freeTags' = 1 .. Len(freeTags) + 1
        /\ \A i \in DOMAIN freeTags : freeTags'[i] = freeTags[i]
    OBVIOUS
  <1>2. SlotTypeOK' /\ NoLostDoorbell' /\ NoLostTagWakeup'
    BY <1>1, Zenon DEF SlotState, NoLostDoorbell, NoLostTagWakeup
  <1>3. \A i \in DOMAIN freeTags : freeTags[i] # t
    BY Zenon DEF FreeListExact
  <1>4. FreeListExact'
    <2>1. \A i, j \in DOMAIN freeTags' : freeTags'[i] = freeTags'[j] => i = j
      BY <1>1, <1>3 DEF FreeListExact
    <2>2. ASSUME NEW u \in Tags
          PROVE  state'[u] = "Free" <=> \E i \in DOMAIN freeTags' : freeTags'[i] = u
      <3>1. CASE u = t
        <4>1. state'[u] = "Free"
          BY <3>1, Zenon
        <4>2. Len(freeTags) + 1 \in DOMAIN freeTags'
          BY <1>1
        <4> QED BY <1>1, <3>1, <4>1, <4>2, Zenon
      <3>2. CASE u # t
        BY <1>1, <3>2 DEF FreeListExact
      <3> QED BY <3>1, <3>2, Zenon
    <2> QED BY <2>1, <2>2, Zenon DEF FreeListExact
  <1>5. {u \in Tags : state[u] = "Executing"}'
          = {u \in Tags : state[u] = "Executing"}
    BY Zenon
  <1>6. ExecutingCounted'
    BY <1>5, Zenon DEF ExecutingCounted
  <1>7. OneResponsePerTag'
    BY WorkTags DEF OneResponsePerTag, IsResponse
  <1>8. SolicitBeforeResponse'
    BY WorkTags, Zenon DEF SolicitBeforeResponse, IsResponse
  <1> QED BY <1>2, <1>4, <1>6, <1>7, <1>8, Zenon

---------------------------------------------------------------------------
(* The theorems.                                                           *)

\* Every step of the protocol keeps the invariant; a user of the engine that
\* stays within the protocol inherits it.
LEMMA SlotStepInv == SlotInv /\ [SlotNext]_slotVars => SlotInv'
  <1> SUFFICES ASSUME SlotInv, [SlotNext]_slotVars PROVE SlotInv'
    BY Zenon
  <1>1. CASE ClaimTag
    BY <1>1, ClaimTagInv, Zenon
  <1>2. CASE TakeWork
    BY <1>2, TakeWorkInv, Zenon
  <1>3. ASSUME NEW t \in Tags,
               \/ Submit(t) \/ FailReceiving(t) \/ Solicit(t)
               \/ PollTask(t) \/ Complete(t) \/ ReleaseTag(t)
        PROVE  SlotInv'
    BY <1>3, SubmitInv, FailReceivingInv, SolicitInv, PollTaskInv,
       CompleteInv, ReleaseTagInv, Zenon
  <1>4. CASE UNCHANGED slotVars
    BY <1>4, SlotKept, Zenon
  <1> QED BY <1>1, <1>2, <1>3, <1>4, Zenon DEF SlotNext

\* Every reachable state of the slot engine satisfies the whole invariant.
THEOREM SlotQueueCorrect == SlotSpec => []SlotInv
  BY SlotInitInv, SlotStepInv, PTL DEF SlotSpec

\* claim_tag never hands out a tag in use and release_tag never loses one.
THEOREM FreeListAlwaysExact == SlotSpec => []FreeListExact
  BY SlotQueueCorrect, PTL DEF SlotInv

\* The counter on which teardown decides to free queue memory is exact.
THEOREM ExecutingAlwaysCounted == SlotSpec => []ExecutingCounted
  BY SlotQueueCorrect, PTL DEF SlotInv

\* A submitted command always has its slot task scheduled.
THEOREM DoorbellNeverLost == SlotSpec => []NoLostDoorbell
  BY SlotQueueCorrect, PTL DEF SlotInv

\* The receive path is never asleep in await_tag with a free tag to claim.
THEOREM TagWakeupNeverLost == SlotSpec => []NoLostTagWakeup
  BY SlotQueueCorrect, PTL DEF SlotInv

\* No response is duplicated or lost between complete and release_tag.
THEOREM ResponsesAreUnique == SlotSpec => []OneResponsePerTag
  BY SlotQueueCorrect, PTL DEF SlotInv

\* No R2T follows the response of its command or outlives its tag.
THEOREM SolicitsAreTimely == SlotSpec => []SolicitBeforeResponse
  BY SlotQueueCorrect, PTL DEF SlotInv

\* All of it together, as the model checker looks at it: the slot engine of
\* slotq.rs keeps its free list, its executing counter, its doorbells and its
\* work list consistent for every queue depth.
THEOREM SlotEngineSafe == SlotSpec => []SlotSafety
  <1>1. SlotInv => SlotSafety
    BY Zenon DEF SlotInv, SlotSafety
  <1> QED BY <1>1, SlotQueueCorrect, PTL

-----------------------------------------------------------------------------
(* The connection over it.                                                 *)

Batch == [cqe : Seq(Tags), notif : Seq(Tags), items : Nat, pend : Nat]

Pdus == [kind : AllCapsules \cup AllFaults \cup {"h2c"}, tag : Tags]

\* The types of what the invariant is about; the counters of the host and of
\* the retries bound the model only.
ConnTypeOK ==
  /\ cpu \in {"idle", "send", "recv"}
  /\ sendPc \in {"next", "acquire", "stage", "ship", "retire", "reap",
                 "recycle", "drain", "exited"}
  /\ hand = << >> \/ \E w \in SendWork : hand = <<w>>
  /\ cur \in Batches
  /\ after \in {"next", "acquire", "drain"}
  /\ batch \in [Batches -> Batch]
  /\ inflight \in Seq(Batches)
  /\ undel \in [Batches -> Nat]
  /\ pins \in [Batches -> SUBSET Tags]
  /\ rx \in Seq(Pdus)
  /\ recvPc \in {"fill", "claim", "route", "term", "quiesce", "join", "done"}

---------------------------------------------------------------------------
(* The inductive invariant.                                                *)

\* The receive path fills at most one slot, and an R2T carries no payload.
FillingOne == \A t \in filling : state[t] = "Receiving" /\ filling = {t}

R2tsBare == \A i \in DOMAIN work : work[i].kind = "R2t" => ~work[i].data

\* Where the receive path may be parked, and where it holds a slot.
RecvOK ==
  /\ claimer = "parked" => recvPc = "claim"
  /\ recvPc \in {"fill", "claim", "term"} => filling = {}

\* What the teardown's verdict rests on.
OutcomeOK ==
  /\ recvPc # "done" => outcome = "none" /\ fdOpen
  /\ recvPc = "done" => outcome \in {"freed", "leaked"}
  /\ outcome = "freed" => sendPc = "exited" /\ executing = 0
  /\ staleShut => outcome = "leaked"

InFlight(b) == b \in Range(inflight)

\* The send task works on batch cur.
AtBatch == sendPc \in {"stage", "ship", "retire", "reap", "recycle"}

\* The send task is on its way out and reaps every batch.
Leaving ==
  sendPc \in {"drain", "exited"} \/ (sendPc \in {"reap", "recycle"} /\ after = "drain")

\* A batch is in flight once, and not while the send task works on it; an op
\* is out exactly while the task awaits it.
BatchesPlaced ==
  /\ sendPc = "ship" <=> op # "none"
  /\ IsInjective(inflight)
  /\ AtBatch => ~InFlight(cur)
  /\ sendPc = "exited" => inflight = << >>

\* A batch with notifications to await is in flight, worked on, or waits for
\* the drain.
PendingPlaced ==
  \A b \in Batches : batch[b].pend > 0 =>
    \/ InFlight(b) /\ sendPc # "exited"
    \/ AtBatch /\ cur = b
    \/ Leaving /\ sendPc # "exited"

\* A notification still out is stashed in its batch, or the op that announces
\* it has not been looked at.
NotifsStashed ==
  /\ \A b \in Batches : undel[b] > 0 =>
       batch[b].pend > 0 \/ (cur = b /\ sendPc = "ship" /\ useZc)
  /\ sendPc \in {"stage", "recycle"} => undel[cur] = 0

CqeTags(b) == Range(batch[b].cqe)
NotifTags(b) == Range(batch[b].notif)
BatchTags(b) == CqeTags(b) \cup NotifTags(b)

\* Every tag a batch will release is a taken response that is in one place
\* only, and so is the response in hand.
TagsHeld ==
  /\ \A b \in Batches :
       /\ BatchTags(b) \subseteq taken
       /\ CqeTags(b) \cap NotifTags(b) = {}
       /\ IsInjective(batch[b].cqe) /\ IsInjective(batch[b].notif)
       /\ \A c \in Batches : c # b => BatchTags(b) \cap BatchTags(c) = {}
  /\ hand # << >> =>
       /\ hand[1].kind = "R2t" => ~hand[1].data
       /\ hand[1].kind = "Response" =>
            hand[1].tag \in taken /\ \A b \in Batches : hand[1].tag \notin BatchTags(b)

\* The buffers a batch pins belong to tags that wait for its notifications.
PinsHeld == \A b \in Batches : pins[b] \subseteq NotifTags(b)

\* The send task sleeps at the top of its loop only with nothing to do,
\* whoever runs.
SenderAwake ==
  (sendPc = "next" /\ cpu # "send" /\ ~sendWoken /\ Alive) =>
    /\ work = << >> /\ ~sendClosed
    /\ inflight # << >> => ~Notified(Head(inflight))

SendInv ==
  BatchesPlaced /\ PendingPlaced /\ NotifsStashed /\ TagsHeld /\ PinsHeld

ConnInv ==
  /\ SlotInv /\ FillingOne /\ R2tsBare
  /\ ConnTypeOK /\ RecvOK /\ OutcomeOK /\ SendInv /\ SenderAwake

---------------------------------------------------------------------------
(* The slot protocol keeps what the connection adds to its invariant.      *)

\* The receive path fills one slot at a time, and R2Ts carry no payload.
LEMMA SlotExtrasKept ==
  ASSUME SlotInv, FillingOne, R2tsBare, [SlotNext]_slotVars
  PROVE  FillingOne' /\ R2tsBare'
  <1> USE DEF FillingOne, R2tsBare
  <1>0. SlotTypeOK
    BY Zenon DEF SlotInv
  <1>1. CASE ClaimTag
    <2>1. CASE claim_tag
      <3>1. top \in Tags
        BY <1>0, <2>1 DEF claim_tag, top, SlotTypeOK
      <3> QED BY <1>0, <2>1, <3>1, Zenon DEF claim_tag, SlotTypeOK
    <2>2. CASE park_claimer
      BY <2>2, Zenon DEF park_claimer
    <2> QED BY <1>1, <2>1, <2>2, Zenon DEF ClaimTag
  <1>2. CASE TakeWork
    BY <1>0, <1>2 DEF TakeWork, take_work, SlotTypeOK
  <1>3. ASSUME NEW t \in Tags, Submit(t)
        PROVE  FillingOne' /\ R2tsBare'
    BY <1>3, Zenon DEF Submit, submit, Deliverable
  <1>4. ASSUME NEW t \in Tags, FailReceiving(t)
        PROVE  FillingOne' /\ R2tsBare'
    <2>1. filling' = {}
      BY <1>4, Zenon DEF FailReceiving, complete_receiving, Deliverable
    <2>2. R2tsBare'
      BY <1>0, <1>4 DEF FailReceiving, complete_receiving, SlotTypeOK, Response
    <2> QED BY <2>1, <2>2, Zenon
  <1>5. ASSUME NEW t \in Tags, Solicit(t)
        PROVE  FillingOne' /\ R2tsBare'
    <2>1. filling' = {}
      BY <1>5, Zenon DEF Solicit, solicit
    <2>2. R2tsBare'
      BY <1>0, <1>5 DEF Solicit, solicit, SlotTypeOK, R2t
    <2> QED BY <2>1, <2>2, Zenon
  <1>6. ASSUME NEW t \in Tags, PollTask(t)
        PROVE  FillingOne' /\ R2tsBare'
    BY <1>0, <1>6, Zenon DEF PollTask, await_command, SlotTypeOK
  <1>7. ASSUME NEW t \in Tags, Complete(t)
        PROVE  FillingOne' /\ R2tsBare'
    <2>1. PICK d \in BOOLEAN : complete(t, d)
      BY <1>7, Zenon DEF Complete
    <2>2. FillingOne'
      BY <1>0, <1>7, <2>1, Zenon DEF Complete, complete, SlotTypeOK
    <2>3. R2tsBare'
      BY <1>0, <2>1 DEF complete, SlotTypeOK, Response
    <2> QED BY <2>2, <2>3, Zenon
  <1>8. ASSUME NEW t \in Tags, ReleaseTag(t)
        PROVE  FillingOne' /\ R2tsBare'
    BY <1>0, <1>8, Zenon DEF ReleaseTag, release_tag, put_back, SlotTypeOK
  <1>9. CASE UNCHANGED slotVars
    BY <1>9, Zenon DEF slotVars
  <1> QED BY <1>1, <1>2, <1>3, <1>4, <1>5, <1>6, <1>7, <1>8, <1>9, Zenon DEF SlotNext

---------------------------------------------------------------------------
(* What an action leaves alone keeps its part of the invariant.            *)

\* A new connection.
LEMMA ConnInitInv == ConnInit => ConnInv
  <1> SUFFICES ASSUME ConnInit PROVE ConnInv
    BY Zenon
  <1> USE DEF ConnInit
  <1>1. SlotInv
    BY SlotInitInv, Zenon
  <1>2. filling = {} /\ work = << >> /\ taken = {} /\ claimer = "run"
    BY Zenon DEF SlotInit
  <1>3. FillingOne /\ R2tsBare
    BY <1>2 DEF FillingOne, R2tsBare
  <1>4. EmptyBatch \in Batch /\ 0 \in Batches
    BY DEF EmptyBatch, Batch, Batches
  <1>5. ConnTypeOK
    BY <1>4 DEF ConnTypeOK
  <1>6. RecvOK /\ OutcomeOK /\ SenderAwake
    BY <1>2, Zenon DEF RecvOK, OutcomeOK, SenderAwake
  <1>7. \A b \in Batches : /\ batch[b].pend = 0 /\ undel[b] = 0 /\ pins[b] = {}
                           /\ batch[b].cqe = << >> /\ batch[b].notif = << >>
    BY Zenon DEF EmptyBatch
  <1>8. \A b \in Batches : ~(batch[b].pend > 0) /\ ~(undel[b] > 0)
    BY <1>7
  <1>9. BatchesPlaced /\ PendingPlaced /\ NotifsStashed
    BY <1>8, EmptyRange, Zenon DEF BatchesPlaced, PendingPlaced, NotifsStashed, AtBatch
  <1>10. TagsHeld /\ PinsHeld
    BY <1>7, EmptyRange, Zenon DEF TagsHeld, PinsHeld, BatchTags, CqeTags, NotifTags
  <1> QED BY <1>1, <1>3, <1>5, <1>6, <1>9, <1>10, Zenon DEF ConnInv, SendInv

sendCore ==
  <<sendPc, hand, cur, after, batch, inflight, useZc, op, undel, pins, taken>>

\* A step that leaves the send path alone.
LEMMA SendKept ==
  ASSUME SendInv, UNCHANGED sendCore PROVE SendInv'
  BY Zenon DEF sendCore, SendInv, BatchesPlaced, PendingPlaced, NotifsStashed, TagsHeld,
    PinsHeld, AtBatch, Leaving, InFlight, BatchTags, CqeTags, NotifTags

\* A step of another task, with or without a wake of the send task.
LEMMA AwakeKept ==
  ASSUME SenderAwake, cpu # "send", Alive' => Alive,
         UNCHANGED <<sendPc, inflight, batch, undel>>,
         WakeSender \/ UNCHANGED <<sendWoken, work, sendClosed>>
  PROVE  SenderAwake'
  BY Zenon DEF SenderAwake, Notified, WakeSender

\* A step that neither finishes the teardown nor shuts the socket down.
LEMMA OutcomeKept ==
  ASSUME OutcomeOK, UNCHANGED <<outcome, fdOpen, staleShut>>,
         (recvPc' = "done") <=> (recvPc = "done"),
         outcome = "freed" => UNCHANGED <<sendPc, executing>>
  PROVE  OutcomeOK'
  BY Zenon DEF OutcomeOK

\* libc::shutdown finds the descriptor open, or the task that calls it was
\* leaked.
LEMMA ShutdownOutcome ==
  ASSUME OutcomeOK, ConnTypeOK, shutdown, Alive,
         outcome' = outcome, (recvPc' = "done") <=> (recvPc = "done")
  PROVE  OutcomeOK'
  BY Zenon DEF OutcomeOK, shutdown, Alive

\* A step outside the send task.
LEMMA OtherStep ==
  ASSUME ConnInv, [SlotNext]_slotVars, UNCHANGED sendCore, cpu # "send",
         cpu' \in {"idle", "recv"}, rx' \in Seq(Pdus),
         recvPc' \in {"fill", "claim", "route", "term", "quiesce", "join", "done"},
         RecvOK', OutcomeOK', Alive' => Alive,
         WakeSender \/ UNCHANGED <<sendWoken, work, sendClosed>>
  PROVE  ConnInv'
  <1>1. SlotInv' /\ FillingOne' /\ R2tsBare'
    BY SlotStepInv, SlotExtrasKept, Zenon DEF ConnInv
  <1>2. SendInv'
    BY SendKept, Zenon DEF ConnInv
  <1>3. SenderAwake'
    BY AwakeKept, Zenon DEF ConnInv, sendCore
  <1>4. ConnTypeOK'
    BY Zenon DEF ConnInv, ConnTypeOK, sendCore
  <1> QED BY <1>1, <1>2, <1>3, <1>4, Zenon DEF ConnInv

---------------------------------------------------------------------------
(* The receive loop and the teardown.                                      *)

\* A PDU of the host: a solicited transfer is submitted only from Receiving.
LEMMA RecvPduInv == ConnInv /\ RecvPdu => ConnInv' /\ [SlotNext]_slotVars
  <1> SUFFICES ASSUME ConnInv, RecvPdu PROVE ConnInv' /\ [SlotNext]_slotVars
    BY Zenon
  <1>1. /\ recvPc = "fill" /\ cpu \in {"recv", "idle"} /\ rx # << >> /\ rx' = Tail(rx)
        /\ UNCHANGED <<sendPc, sendClosed, hand, cur, after, batch, inflight, useZc,
                       sendWoken, op, undel, pins, outcome, fdOpen, staleShut>>
    BY Zenon DEF RecvPdu, RecvRuns, sendVars, kernelVars, sockVars
  <1>2. filling = {} /\ claimer = "run" /\ outcome = "none" /\ rx \in Seq(Pdus)
    BY <1>1, Zenon DEF ConnInv, RecvOK, OutcomeOK, ConnTypeOK, SlotInv, SlotTypeOK
  <1>3. Head(rx) \in Pdus /\ rx' \in Seq(Pdus)
    BY <1>1, <1>2, PopFront, Zenon
  <1>4. Head(rx).tag \in Tags
    BY <1>3, Zenon DEF Pdus
  <1>5. /\ recvPc' \in {"claim", "fill", "term", "quiesce"} /\ cpu' \in {"idle", "recv"}
        /\ \/ UNCHANGED slotVars
           \/ /\ state[Head(rx).tag] = "Receiving" /\ submit(Head(rx).tag)
              /\ recvPc' = "fill"
    BY <1>1, Zenon DEF RecvPdu, EndPdu, StartTerm, StartTeardown
  <1>6. [SlotNext]_slotVars
    BY <1>2, <1>4, <1>5, Zenon DEF SlotNext, Submit, Deliverable
  <1>7. UNCHANGED <<work, taken, claimer>> /\ filling' = {}
    BY <1>2, <1>5, Zenon DEF slotVars, submit
  <1>8. RecvOK' /\ OutcomeOK'
    BY <1>1, <1>2, <1>5, <1>7, OutcomeKept, Zenon DEF ConnInv, RecvOK
  <1> QED BY <1>1, <1>2, <1>3, <1>5, <1>6, <1>7, <1>8, OtherStep, Zenon DEF sendCore, Alive

\* await_tag: a tag for the capsule, or the loop parks.
LEMMA RecvClaimInv == ConnInv /\ RecvClaim => ConnInv' /\ [SlotNext]_slotVars
  <1> SUFFICES ASSUME ConnInv, RecvClaim PROVE ConnInv' /\ [SlotNext]_slotVars
    BY Zenon
  <1>1. /\ recvPc = "claim" /\ cpu \in {"recv", "idle"} /\ claimer = "run" /\ rx' = rx
        /\ UNCHANGED <<sendPc, sendClosed, hand, cur, after, batch, inflight, useZc,
                       sendWoken, op, undel, pins, outcome, fdOpen, staleShut>>
    BY Zenon DEF RecvClaim, RecvRuns, sendVars, kernelVars, sockVars
  <1>2. filling = {} /\ outcome = "none" /\ rx' \in Seq(Pdus)
    BY <1>1, Zenon DEF ConnInv, RecvOK, OutcomeOK, ConnTypeOK
  <1>3. /\ cpu' \in {"idle", "recv"}
        /\ \/ claim_tag /\ recvPc' = "route"
           \/ park_claimer /\ recvPc' = "claim"
    BY <1>1, Zenon DEF RecvClaim
  <1>4. [SlotNext]_slotVars
    BY <1>1, <1>2, <1>3, Zenon DEF SlotNext, ClaimTag
  <1>5. /\ UNCHANGED <<work, taken>>
        /\ recvPc' = "route" => claimer' = "run"
        /\ recvPc' = "claim" => filling' = filling
    BY <1>3, Zenon DEF claim_tag, park_claimer
  <1>6. RecvOK' /\ OutcomeOK'
    BY <1>1, <1>2, <1>3, <1>5, OutcomeKept, Zenon DEF ConnInv, RecvOK
  <1> QED BY <1>1, <1>2, <1>3, <1>4, <1>5, <1>6, OtherStep, Zenon DEF sendCore, Alive

\* The claimed slot is submitted, failed or solicited.
LEMMA RecvRouteInv == ConnInv /\ RecvRoute => ConnInv' /\ [SlotNext]_slotVars
  <1> SUFFICES ASSUME ConnInv, RecvRoute PROVE ConnInv' /\ [SlotNext]_slotVars
    BY Zenon
  <1>1. /\ recvPc = "route" /\ cpu \in {"recv", "idle"} /\ rx' = rx
        /\ recvPc' = "fill" /\ cpu' \in {"idle", "recv"}
        /\ UNCHANGED <<sendPc, sendClosed, hand, cur, after, batch, inflight, useZc,
                       op, undel, pins, outcome, fdOpen, staleShut>>
    BY Zenon DEF RecvRoute, RecvRuns, EndPdu, sendVars, kernelVars, sockVars
  <1>2. claimer = "run" /\ outcome = "none" /\ rx' \in Seq(Pdus)
    BY <1>1, Zenon DEF ConnInv, RecvOK, OutcomeOK, ConnTypeOK, SlotInv, SlotTypeOK
  <1>3. PICK t \in filling :
          \/ submit(t) /\ UNCHANGED sendWoken
          \/ complete_receiving(t) /\ WakeSender
          \/ solicit(t) /\ WakeSender
    BY Zenon DEF RecvRoute
  <1>4. t \in Tags /\ state[t] = "Receiving" /\ filling = {t}
    BY Zenon DEF ConnInv, SlotInv, SlotTypeOK, FillingOne
  <1>5. [SlotNext]_slotVars
    BY <1>2, <1>3, <1>4, Zenon DEF SlotNext, Submit, FailReceiving, Solicit, Deliverable
  <1>6. taken' = taken /\ claimer' = claimer /\ filling' = {}
        /\ (WakeSender \/ UNCHANGED <<sendWoken, work>>)
    BY <1>3, <1>4, Zenon DEF submit, complete_receiving, solicit
  <1>7. RecvOK' /\ OutcomeOK'
    BY <1>1, <1>2, <1>6, OutcomeKept, Zenon DEF ConnInv, RecvOK
  <1> QED BY <1>1, <1>2, <1>5, <1>6, <1>7, OtherStep, Zenon DEF sendCore, Alive

\* The loop ends, on end-of-file or after its TermReq.
LEMMA RecvEndInv ==
  ASSUME ConnInv, RecvEof \/ TermSent PROVE ConnInv' /\ UNCHANGED slotVars
  <1>1. /\ recvPc \in {"fill", "route", "term"} /\ cpu = "idle" /\ rx' = rx
        /\ recvPc' = "quiesce" /\ cpu' = "recv"
        /\ UNCHANGED <<sendPc, sendClosed, hand, cur, after, batch, inflight, useZc,
                       sendWoken, op, undel, pins, outcome, fdOpen, staleShut>>
        /\ UNCHANGED slotVars
    BY Zenon DEF RecvEof, TermSent, StartTeardown, sendVars, kernelVars, sockVars
  <1>2. claimer = "run" /\ outcome = "none" /\ rx' \in Seq(Pdus)
    BY <1>1, Zenon DEF ConnInv, RecvOK, OutcomeOK, ConnTypeOK, SlotInv, SlotTypeOK
  <1>3. UNCHANGED <<work, taken, claimer>>
    BY <1>1, Zenon DEF slotVars
  <1>4. RecvOK' /\ OutcomeOK'
    BY <1>1, <1>2, <1>3, OutcomeKept, Zenon DEF ConnInv, RecvOK
  <1> QED BY <1>1, <1>2, <1>3, <1>4, OtherStep, Zenon DEF sendCore, Alive

\* The first wait of the teardown, and the close of the send list after it:
\* the descriptor is still open.
LEMMA QuiesceInv == ConnInv /\ QuiesceExecuting => ConnInv' /\ UNCHANGED slotVars
  <1> SUFFICES ASSUME ConnInv, QuiesceExecuting PROVE ConnInv' /\ UNCHANGED slotVars
    BY Zenon
  <1>1. /\ recvPc = "quiesce" /\ cpu \in {"recv", "idle"} /\ rx' = rx
        /\ UNCHANGED <<sendPc, hand, cur, after, batch, inflight, useZc,
                       op, undel, pins, outcome>>
        /\ UNCHANGED slotVars
        /\ cpu' \in {"idle", "recv"} /\ recvPc' \in {"quiesce", "join"}
        /\ \/ UNCHANGED <<sendWoken, sendClosed, fdOpen, staleShut>>
           \/ WakeSender /\ shutdown
    BY Zenon DEF QuiesceExecuting, Quiesce, CloseSend, RecvRuns, sockVars, kernelVars
  <1>2. /\ claimer = "run" /\ outcome = "none" /\ rx' \in Seq(Pdus)
        /\ OutcomeOK /\ ConnTypeOK /\ Alive
    BY <1>1, Zenon DEF ConnInv, RecvOK, OutcomeOK, ConnTypeOK, SlotInv, SlotTypeOK, Alive
  <1>3. UNCHANGED <<work, taken, claimer>>
    BY <1>1, Zenon DEF slotVars
  <1>4. RecvOK' /\ OutcomeOK'
    BY <1>1, <1>2, <1>3, OutcomeKept, ShutdownOutcome, Zenon DEF RecvOK
  <1> QED BY <1>1, <1>2, <1>3, <1>4, OtherStep, Zenon DEF sendCore

\* The second wait and the verdict: the queue is freed only once the send
\* task has ended and no slot executes.
LEMMA JoinSendInv == ConnInv /\ JoinSend => ConnInv' /\ UNCHANGED slotVars
  <1> SUFFICES ASSUME ConnInv, JoinSend PROVE ConnInv' /\ UNCHANGED slotVars
    BY Zenon
  <1>1. /\ recvPc = "join" /\ cpu \in {"recv", "idle"} /\ rx' = rx
        /\ UNCHANGED <<sendPc, hand, cur, after, batch, inflight, useZc, sendClosed,
                       sendWoken, op, undel, pins, staleShut>>
        /\ UNCHANGED slotVars
        /\ cpu' = "idle"
        /\ Finish \/ UNCHANGED <<recvPc, outcome, fdOpen>>
    BY Zenon DEF JoinSend, Finish, RecvRuns, sendVars, kernelVars
  <1>2. /\ claimer = "run" /\ outcome = "none" /\ rx' \in Seq(Pdus)
        /\ OutcomeOK /\ executing \in Nat /\ Alive
    BY <1>1, Zenon DEF ConnInv, RecvOK, OutcomeOK, ConnTypeOK, SlotInv, SlotTypeOK, Alive
  <1>3. UNCHANGED <<work, taken, claimer, executing>>
    BY <1>1, Zenon DEF slotVars
  <1>4. ~(executing > 0) => executing = 0
    BY <1>2
  <1>5. /\ OutcomeOK' /\ recvPc' \in {"join", "done"}
    <2>1. CASE Finish
      BY <1>1, <1>2, <1>3, <1>4, <2>1, Zenon DEF Finish, OutcomeOK
    <2>2. CASE UNCHANGED <<recvPc, outcome, fdOpen>>
      BY <1>1, <1>2, <1>3, <2>2, OutcomeKept, Zenon
    <2> QED BY <1>1, <2>1, <2>2, Zenon
  <1>6. RecvOK'
    BY <1>2, <1>3, <1>5, Zenon DEF RecvOK
  <1> QED BY <1>1, <1>2, <1>3, <1>5, <1>6, OtherStep, Zenon DEF sendCore

---------------------------------------------------------------------------
(* The slot tasks, the watchdog, the host and the kernel.                  *)

\* A slot task is polled.
LEMMA PollSlotInv ==
  ASSUME ConnInv, NEW t \in Tags, PollSlot(t)
  PROVE  ConnInv' /\ [SlotNext]_slotVars
  <1>1. /\ cpu = "idle" /\ Alive /\ await_command(t) /\ rx' = rx /\ cpu' = cpu
        /\ UNCHANGED <<sendPc, sendClosed, hand, cur, after, batch, inflight, useZc, recvPc,
                       sendWoken, op, undel, pins, outcome, fdOpen, staleShut>>
    BY Zenon DEF PollSlot, sendVars, kernelVars, recvVars, sockVars
  <1>2. [SlotNext]_slotVars
    BY <1>1, Zenon DEF SlotNext, PollTask
  <1>3. UNCHANGED <<work, taken, claimer, filling>>
    BY <1>1, Zenon DEF await_command
  <1>4. RecvOK' /\ OutcomeOK' /\ rx' \in Seq(Pdus) /\ recvPc' = recvPc
    BY <1>1, <1>3, OutcomeKept, Zenon DEF ConnInv, ConnTypeOK, RecvOK, Alive
  <1>5. recvPc \in {"fill", "claim", "route", "term", "quiesce", "join", "done"}
    BY Zenon DEF ConnInv, ConnTypeOK
  <1> QED BY <1>1, <1>2, <1>3, <1>4, <1>5, OtherStep, Zenon DEF sendCore

\* A command is answered: its slot was Executing, and the send task is woken.
LEMMA CompleteSlotInv ==
  ASSUME ConnInv, NEW t \in Tags, CompleteSlot(t)
  PROVE  ConnInv' /\ [SlotNext]_slotVars
  <1>1. PICK d \in BOOLEAN : complete(t, d)
    BY Zenon DEF CompleteSlot
  <1>2. /\ cpu = "idle" /\ Alive /\ task[t] = "dispatch" /\ rx' = rx /\ cpu' = cpu
        /\ WakeSender
        /\ UNCHANGED <<sendPc, sendClosed, hand, cur, after, batch, inflight, useZc, recvPc,
                       op, undel, pins, outcome, fdOpen, staleShut>>
    BY Zenon DEF CompleteSlot, sendVars, kernelVars, recvVars, sockVars
  <1>3. state[t] = "Executing"
    BY <1>2, Zenon DEF ConnInv, SlotInv, NoLostDoorbell
  <1>4. [SlotNext]_slotVars
    BY <1>1, <1>2, <1>3, Zenon DEF SlotNext, Complete
  <1>5. UNCHANGED <<taken, claimer, filling>>
    BY <1>1, Zenon DEF complete
  <1>6. RecvOK' /\ OutcomeOK' /\ rx' \in Seq(Pdus)
    BY <1>2, <1>5, OutcomeKept, Zenon DEF ConnInv, ConnTypeOK, RecvOK, Alive
  <1>7. recvPc \in {"fill", "claim", "route", "term", "quiesce", "join", "done"}
    BY Zenon DEF ConnInv, ConnTypeOK
  <1> QED BY <1>2, <1>4, <1>5, <1>6, <1>7, OtherStep, Zenon DEF sendCore

\* The watchdog and the host touch neither the slots nor the send path.
LEMMA OutsideInv ==
  ASSUME ConnInv,
         \/ WatchdogExpires \/ HostSends \/ HostLeaves
         \/ \E t \in Tags : HostData(t)
  PROVE  ConnInv' /\ UNCHANGED slotVars
  <1>1. /\ cpu = "idle" /\ cpu' = cpu
        /\ UNCHANGED <<sendPc, sendClosed, hand, cur, after, batch, inflight, useZc, recvPc,
                       sendWoken, op, undel, pins, outcome>>
        /\ UNCHANGED slotVars
        /\ (Alive /\ shutdown) \/ UNCHANGED <<fdOpen, staleShut>>
    BY Zenon DEF WatchdogExpires, HostSends, HostLeaves, HostData,
      sendVars, kernelVars, recvVars, sockVars
  <1>2. UNCHANGED <<work, taken, claimer, filling, executing>>
    BY <1>1, Zenon DEF slotVars
  <1>3. RecvOK' /\ OutcomeOK'
    BY <1>1, <1>2, OutcomeKept, ShutdownOutcome, Zenon DEF ConnInv, RecvOK
  <1>4. rx \in Seq(Pdus)
        /\ recvPc \in {"fill", "claim", "route", "term", "quiesce", "join", "done"}
    BY Zenon DEF ConnInv, ConnTypeOK
  <1>5. \/ rx' = rx \/ rx' = << >>
        \/ \E k \in Capsules \cup Faults : rx' = Append(rx, [kind |-> k, tag |-> 0])
        \/ \E t \in Tags : rx' = Append(rx, [kind |-> "h2c", tag |-> t])
    BY Zenon DEF WatchdogExpires, HostSends, HostLeaves, HostData
  <1>6. ASSUME NEW p \in Pdus PROVE Append(rx, p) \in Seq(Pdus)
    BY <1>4, PushBack, Zenon
  <1>7. 0 \in Tags
    BY NSlotsAssumption DEF Tags
  <1>8. /\ \A k \in Capsules \cup Faults : [kind |-> k, tag |-> 0] \in Pdus
        /\ \A t \in Tags : [kind |-> "h2c", tag |-> t] \in Pdus
    BY <1>7, ConnAssumption, Zenon DEF Pdus
  <1>9. rx' \in Seq(Pdus)
    <2>1. << >> \in Seq(Pdus)
      OBVIOUS
    <2> QED BY <1>4, <1>5, <1>6, <1>8, <2>1, Zenon
  <1> QED BY <1>1, <1>2, <1>3, <1>4, <1>9, OtherStep, Zenon DEF sendCore, Alive

\* A send completes.  Its notification, if it has one, is out before the send
\* task has looked at the result.
LEMMA KernelSendInv == ConnInv /\ KernelSend => ConnInv' /\ UNCHANGED slotVars
  <1> SUFFICES ASSUME ConnInv, KernelSend PROVE ConnInv' /\ UNCHANGED slotVars
    BY Zenon
  <1>1. /\ op = "inflight" /\ op' \in Retried \cup {"done", "err"} /\ cpu = "idle"
        /\ sendWoken' = TRUE
        /\ UNCHANGED <<cpu, sendPc, sendClosed, hand, cur, after, batch, inflight, useZc, recvPc,
                       pins, outcome, fdOpen, staleShut, rx>>
        /\ UNCHANGED slotVars
    BY Zenon DEF KernelSend, sendVars, recvVars, sockVars
  <1>2. PICK k \in {0, 1} : (useZc \/ k = 0) /\ undel' = [undel EXCEPT ![cur] = @ + k]
    BY Zenon DEF KernelSend
  <1>3. sendPc = "ship" /\ ConnTypeOK /\ SendInv
    BY <1>1, Zenon DEF ConnInv, SendInv, BatchesPlaced
  <1>4. UNCHANGED <<state, executing, work, taken, claimer, filling>>
    BY <1>1, Zenon DEF slotVars
  <1>5. /\ undel' \in [Batches -> Nat]
        /\ \A b \in Batches : undel'[b] > 0 => undel[b] > 0 \/ (b = cur /\ useZc)
    BY <1>2, <1>3 DEF ConnTypeOK
  <1>6. NotifsStashed'
    BY <1>1, <1>3, <1>5, Zenon DEF SendInv, NotifsStashed
  <1>7. op' # "none" /\ op # "none"
    BY <1>1, Zenon DEF Retried
  <1>8. BatchesPlaced' /\ PendingPlaced' /\ TagsHeld' /\ PinsHeld'
    BY <1>1, <1>3, <1>4, <1>7, Zenon DEF SendInv, BatchesPlaced, PendingPlaced, TagsHeld, PinsHeld,
      AtBatch, Leaving, InFlight, BatchTags, CqeTags, NotifTags
  <1>9. ConnTypeOK' /\ RecvOK' /\ OutcomeOK' /\ SenderAwake'
    BY <1>1, <1>3, <1>4, <1>5, Zenon DEF ConnInv, ConnTypeOK, RecvOK, OutcomeOK, SenderAwake
  <1>10. SlotInv' /\ FillingOne' /\ R2tsBare'
    BY <1>1, SlotStepInv, SlotExtrasKept, Zenon DEF ConnInv
  <1> QED BY <1>1, <1>6, <1>8, <1>9, <1>10, Zenon DEF ConnInv, SendInv

\* A notification arrives: the send task is woken if it awaits the batch.
LEMMA KernelNotifInv ==
  ASSUME ConnInv, NEW b \in Batches, KernelNotif(b)
  PROVE  ConnInv' /\ UNCHANGED slotVars
  <1>1. /\ cpu = "idle" /\ undel[b] > 0 /\ undel' = [undel EXCEPT ![b] = @ - 1]
        /\ sendWoken' = (sendWoken \/ (sendPc = "reap" /\ cur = b)
                         \/ (sendPc = "next" /\ inflight # << >> /\ Head(inflight) = b))
        /\ UNCHANGED <<cpu, sendPc, sendClosed, hand, cur, after, batch, inflight, useZc, recvPc,
                       op, pins, outcome, fdOpen, staleShut, rx>>
        /\ UNCHANGED slotVars
    BY Zenon DEF KernelNotif, sendVars, recvVars, sockVars
  <1>2. ConnTypeOK /\ SendInv
    BY Zenon DEF ConnInv
  <1>3. UNCHANGED <<state, executing, work, taken, claimer, filling>>
    BY <1>1, Zenon DEF slotVars
  <1>4. /\ undel' \in [Batches -> Nat]
        /\ \A c \in Batches : undel'[c] > 0 => undel[c] > 0
        /\ \A c \in Batches : undel[c] = 0 => undel'[c] = 0
        /\ \A c \in Batches : c # b => undel'[c] = undel[c]
    BY <1>1, <1>2 DEF ConnTypeOK
  <1>5. NotifsStashed'
    BY <1>1, <1>2, <1>4, Zenon DEF SendInv, NotifsStashed, ConnTypeOK
  <1>6. BatchesPlaced' /\ PendingPlaced' /\ TagsHeld' /\ PinsHeld'
    BY <1>1, <1>2, <1>3, Zenon DEF SendInv, BatchesPlaced, PendingPlaced, TagsHeld, PinsHeld,
      AtBatch, Leaving, InFlight, BatchTags, CqeTags, NotifTags
  <1>7. ConnTypeOK' /\ RecvOK' /\ OutcomeOK'
    BY <1>1, <1>2, <1>3, <1>4, ZenonT(20) DEF ConnInv, ConnTypeOK, RecvOK, OutcomeOK
  <1>8. SenderAwake'
    <2>1. inflight # << >> => Head(inflight) \in Batches
      BY <1>2, PopFront, Zenon DEF ConnTypeOK
    <2> QED BY <1>1, <1>3, <1>4, <2>1, Zenon DEF ConnInv, SenderAwake, Notified, Alive
  <1>9. SlotInv' /\ FillingOne' /\ R2tsBare'
    BY <1>1, SlotStepInv, SlotExtrasKept, Zenon DEF ConnInv
  <1> QED BY <1>1, <1>5, <1>6, <1>7, <1>8, <1>9, Zenon DEF ConnInv, SendInv

---------------------------------------------------------------------------
(* The send task.                                                          *)

\* What a step of the send task need not care about.
LEMMA SendStep ==
  ASSUME ConnInv, [SlotNext]_slotVars, Alive,
         UNCHANGED <<recvPc, outcome, fdOpen, staleShut, filling>>,
         claimer' \in {claimer, "run"},
         ConnTypeOK', SendInv', SenderAwake'
  PROVE  ConnInv'
  <1>1. SlotInv' /\ FillingOne' /\ R2tsBare'
    BY SlotStepInv, SlotExtrasKept, Zenon DEF ConnInv
  <1>2. RecvOK' /\ OutcomeOK'
    BY OutcomeKept, Zenon DEF ConnInv, RecvOK, Alive
  <1> QED BY <1>1, <1>2, Zenon DEF ConnInv

\* Taking the front of the send list: no batch holds its tag yet.
LEMMA TakeHeld ==
  ASSUME ConnInv, take_work, hand = << >>, hand' = <<Head(work)>>, batch' = batch
  PROVE  /\ \E w \in SendWork : hand' = <<w>>
         /\ TagsHeld' /\ TakeWork /\ UNCHANGED <<claimer, filling>>
  <1>1. /\ work # << >> /\ work \in Seq(SendWork) /\ TagsHeld /\ UNCHANGED <<claimer, filling>>
        /\ taken' = IF Head(work).kind = "Response" THEN taken \cup {Head(work).tag} ELSE taken
    BY Zenon DEF ConnInv, SlotInv, SlotTypeOK, SendInv, take_work
  <1>2. Head(work) = work[1] /\ 1 \in DOMAIN work /\ Head(work) \in SendWork
    BY <1>1
  <1>3. /\ work[1].kind = "Response" => work[1].tag \notin taken
        /\ work[1].kind = "R2t" => ~work[1].data
    BY <1>2, Zenon DEF ConnInv, SlotInv, OneResponsePerTag, R2tsBare
  <1>4. hand' # << >> /\ hand'[1] = Head(work)
    BY Zenon
  <1>5. TagsHeld'
    BY <1>1, <1>2, <1>3, <1>4, Zenon DEF TagsHeld, BatchTags, CqeTags, NotifTags
  <1> QED BY <1>1, <1>2, <1>5, Zenon DEF TakeWork

\* The top of the loop: the carry, or the next item.
LEMMA NextWorkInv == ConnInv /\ NextWork => ConnInv' /\ [SlotNext]_slotVars
  <1> SUFFICES ASSUME ConnInv, NextWork PROVE ConnInv' /\ [SlotNext]_slotVars
    BY Zenon
  <1>1. /\ sendPc = "next" /\ Alive /\ sendPc' = "acquire" /\ cpu' = "send"
        /\ UNCHANGED <<cur, after, batch, inflight, useZc, op, undel, pins,
                       rx, recvPc, outcome, fdOpen, staleShut>>
        /\ \/ hand # << >> /\ UNCHANGED <<slotVars, hand>>
           \/ hand = << >> /\ take_work /\ hand' = <<Head(work)>>
    BY Zenon DEF NextWork, SendRuns, GoOn, others, kernelVars, recvVars, sockVars
  <1>2. ConnTypeOK /\ SendInv
    BY Zenon DEF ConnInv
  <1>3. /\ [SlotNext]_slotVars /\ TagsHeld' /\ claimer' = claimer /\ filling' = filling
        /\ hand' = << >> \/ \E w \in SendWork : hand' = <<w>>
    <2>1. CASE hand # << >> /\ UNCHANGED <<slotVars, hand>>
      BY <1>1, <1>2, <2>1, Zenon
        DEF SendInv, TagsHeld, BatchTags, CqeTags, NotifTags, slotVars, ConnTypeOK
    <2>2. CASE hand = << >> /\ take_work /\ hand' = <<Head(work)>>
      BY <1>1, <2>2, TakeHeld, Zenon DEF SlotNext
    <2> QED BY <1>1, <2>1, <2>2, Zenon
  <1>4. ConnTypeOK'
    BY <1>1, <1>2, <1>3, Zenon DEF ConnTypeOK
  <1>5. BatchesPlaced' /\ PendingPlaced' /\ NotifsStashed' /\ PinsHeld'
    BY <1>1, <1>2, Zenon DEF SendInv, BatchesPlaced, PendingPlaced, NotifsStashed, PinsHeld,
      AtBatch, Leaving, InFlight, NotifTags
  <1>6. SenderAwake'
    BY <1>1, Zenon DEF SenderAwake
  <1> QED BY <1>1, <1>3, <1>4, <1>5, <1>6, SendStep, Zenon DEF SendInv

\* The oldest batch in flight becomes the batch at hand.
LEMMA FrontTaken ==
  ASSUME ConnInv, inflight # << >>, cur' = Head(inflight), inflight' = Tail(inflight)
  PROVE  /\ cur' \in Batches /\ inflight' \in Seq(Batches) /\ IsInjective(inflight')
         /\ ~InFlight(cur)'
         /\ InFlight(cur')
         /\ \A b \in Batches : InFlight(b) => b \in Range(inflight') \/ b = cur'
  <1>1. inflight \in Seq(Batches) /\ IsInjective(inflight)
    BY Zenon DEF ConnInv, ConnTypeOK, SendInv, BatchesPlaced
  <1>2. /\ Head(inflight) \in Batches /\ Tail(inflight) \in Seq(Batches)
        /\ Range(inflight) = Range(Tail(inflight)) \cup {Head(inflight)}
        /\ Head(inflight) \notin Range(Tail(inflight)) /\ IsInjective(Tail(inflight))
    BY <1>1, PopFront, Zenon
  <1> QED BY <1>2, Zenon DEF InFlight

\* What a step that leaves the slots and the tags of the batches alone keeps.
LEMMA TagsKept ==
  ASSUME ConnInv, UNCHANGED <<taken, hand, pins>>,
         \A b \in Batches : /\ batch'[b].cqe = batch[b].cqe
                            /\ batch'[b].notif = batch[b].notif
  PROVE  TagsHeld' /\ PinsHeld'
  <1>1. /\ \A b \in Batches : /\ CqeTags(b)' = CqeTags(b) /\ NotifTags(b)' = NotifTags(b)
                              /\ BatchTags(b)' = BatchTags(b)
    BY Zenon DEF CqeTags, NotifTags, BatchTags
  <1>2. \A b \in Batches :
          /\ IsInjective(batch[b].cqe) => IsInjective(batch'[b].cqe)
          /\ IsInjective(batch[b].notif) => IsInjective(batch'[b].notif)
    BY Zenon
  <1>3. TagsHeld'
    BY <1>1, <1>2, Zenon DEF ConnInv, SendInv, TagsHeld
  <1>4. PinsHeld'
    BY <1>1, Zenon DEF ConnInv, SendInv, PinsHeld
  <1> QED BY <1>3, <1>4, Zenon

\* Without work the send task drains, recycles the oldest batch if it is
\* notified, or parks.
LEMMA NextIdleInv == ConnInv /\ NextIdle => ConnInv' /\ UNCHANGED slotVars
  <1> SUFFICES ASSUME ConnInv, NextIdle PROVE ConnInv' /\ UNCHANGED slotVars
    BY Zenon
  <1>1. /\ sendPc = "next" /\ Alive /\ work = << >>
        /\ UNCHANGED <<sendClosed, hand, batch, useZc, op, undel, pins,
                       rx, recvPc, outcome, fdOpen, staleShut>>
        /\ UNCHANGED slotVars
    BY Zenon DEF NextIdle, SendRuns, others, kernelVars, recvVars, sockVars
  <1>2. \/ sendPc' = "drain" /\ cpu' = "send" /\ UNCHANGED <<cur, after, inflight>>
        \/ /\ inflight # << >> /\ Notified(Head(inflight))
           /\ cur' = Head(inflight) /\ inflight' = Tail(inflight)
           /\ sendPc' = "recycle" /\ after' = "next" /\ cpu' = "send"
        \/ /\ ~sendClosed /\ (inflight # << >> => ~Notified(Head(inflight)))
           /\ cpu' = "idle" /\ UNCHANGED <<sendPc, cur, after, inflight>>
    BY Zenon DEF NextIdle, GoOn, Yield
  <1>3. ConnTypeOK /\ SendInv /\ BatchesPlaced /\ PendingPlaced /\ NotifsStashed
    BY Zenon DEF ConnInv, SendInv
  <1>4. UNCHANGED <<taken, claimer, filling, work>>
    BY <1>1, Zenon DEF slotVars
  <1>5. TagsHeld' /\ PinsHeld'
    BY <1>1, <1>4, TagsKept, Zenon
  <1>6. \A b \in Batches : undel[b] > 0 => batch[b].pend > 0
    BY <1>1, <1>3, Zenon DEF NotifsStashed
  <1>7. CASE sendPc' = "drain" /\ cpu' = "send" /\ UNCHANGED <<cur, after, inflight>>
    <2>1. ConnTypeOK' /\ SenderAwake'
      BY <1>1, <1>3, <1>7, Zenon DEF ConnTypeOK, SenderAwake
    <2>2. BatchesPlaced' /\ PendingPlaced' /\ NotifsStashed'
      BY <1>1, <1>3, <1>6, <1>7, Zenon
        DEF BatchesPlaced, PendingPlaced, NotifsStashed, AtBatch, Leaving, InFlight
    <2> QED BY <1>1, <1>4, <1>5, <2>1, <2>2, SendStep, Zenon DEF SendInv
  <1>8. CASE /\ inflight # << >> /\ Notified(Head(inflight))
             /\ cur' = Head(inflight) /\ inflight' = Tail(inflight)
             /\ sendPc' = "recycle" /\ after' = "next" /\ cpu' = "send"
    <2>1. /\ cur' \in Batches /\ inflight' \in Seq(Batches) /\ IsInjective(inflight')
          /\ ~InFlight(cur)'
          /\ \A b \in Batches : InFlight(b) => b \in Range(inflight') \/ b = cur'
      BY <1>8, FrontTaken, Zenon
    <2>2. ConnTypeOK' /\ SenderAwake'
      BY <1>1, <1>3, <1>8, <2>1, Zenon DEF ConnTypeOK, SenderAwake
    <2>3. undel[cur'] = 0
      <3>1. undel[cur'] \in Nat /\ batch[cur'].pend \in Nat
        BY <1>3, <2>1, Zenon DEF ConnTypeOK, Batch
      <3>2. undel[cur'] = 0 \/ batch[cur'].pend = 0
        BY <1>8, Zenon DEF Notified
      <3> QED BY <1>6, <2>1, <3>1, <3>2
    <2>4. BatchesPlaced' /\ NotifsStashed'
      BY <1>1, <1>3, <1>6, <1>8, <2>1, <2>3, Zenon
        DEF BatchesPlaced, NotifsStashed, AtBatch, InFlight
    <2>5. PendingPlaced'
      BY <1>1, <1>3, <1>8, <2>1, Zenon DEF PendingPlaced, AtBatch, Leaving, InFlight
    <2> QED BY <1>1, <1>4, <1>5, <2>2, <2>4, <2>5, SendStep, Zenon DEF SendInv
  <1>9. CASE /\ ~sendClosed /\ (inflight # << >> => ~Notified(Head(inflight)))
             /\ cpu' = "idle" /\ UNCHANGED <<sendPc, cur, after, inflight>>
    <2>1. ConnTypeOK' /\ SenderAwake'
      BY <1>1, <1>3, <1>4, <1>9, Zenon DEF ConnTypeOK, SenderAwake, Notified
    <2>2. SendInv'
      BY <1>1, <1>3, <1>4, <1>9, SendKept, Zenon DEF sendCore
    <2> QED BY <1>1, <1>4, <2>1, <2>2, SendStep, Zenon
  <1> QED BY <1>2, <1>7, <1>8, <1>9, Zenon

\* acquire: a batch that is not in flight has no notification to await.
LEMMA AcquireInv == ConnInv /\ Acquire => ConnInv' /\ UNCHANGED slotVars
  <1> SUFFICES ASSUME ConnInv, Acquire PROVE ConnInv' /\ UNCHANGED slotVars
    BY Zenon
  <1>1. /\ sendPc = "acquire" /\ Alive /\ cpu' = "send"
        /\ UNCHANGED <<hand, batch, useZc, op, undel, pins,
                       rx, recvPc, outcome, fdOpen, staleShut>>
        /\ UNCHANGED slotVars
    BY Zenon DEF Acquire, SendRuns, GoOn, recvVars, sockVars
  <1>2. ConnTypeOK /\ SendInv /\ BatchesPlaced /\ PendingPlaced /\ NotifsStashed
    BY Zenon DEF ConnInv, SendInv
  <1>3. UNCHANGED <<taken, claimer, filling, work>>
    BY <1>1, Zenon DEF slotVars
  <1>4. TagsHeld' /\ PinsHeld' /\ SenderAwake'
    BY <1>1, <1>3, TagsKept, Zenon DEF SenderAwake
  <1>5. /\ \A b \in Batches : undel[b] > 0 => batch[b].pend > 0
        /\ \A b \in Batches : batch[b].pend > 0 => InFlight(b)
    BY <1>1, <1>2, Zenon DEF NotifsStashed, PendingPlaced, AtBatch, Leaving
  <1>6. inflight \in Seq(Batches) /\ IsInjective(inflight)
    BY <1>2, Zenon DEF ConnTypeOK, BatchesPlaced
  <1>7. CASE Len(inflight) = Cardinality(Batches)
    <2>1. /\ cur' = Head(inflight) /\ inflight' = Tail(inflight)
          /\ sendPc' = "reap" /\ after' = "acquire"
      BY <1>7, Zenon DEF Acquire
    <2>2. inflight # << >>
      BY <1>6, <1>7, TwoBatches
    <2>3. /\ cur' \in Batches /\ inflight' \in Seq(Batches) /\ IsInjective(inflight')
          /\ ~InFlight(cur)'
          /\ \A b \in Batches : InFlight(b) => b \in Range(inflight') \/ b = cur'
      BY <2>1, <2>2, FrontTaken, Zenon
    <2>4. ConnTypeOK'
      BY <1>1, <1>2, <2>1, <2>3, Zenon DEF ConnTypeOK
    <2>5. BatchesPlaced' /\ NotifsStashed' /\ PendingPlaced'
      BY <1>1, <1>2, <1>5, <2>1, <2>3, Zenon
        DEF BatchesPlaced, NotifsStashed, PendingPlaced, AtBatch, Leaving, InFlight
    <2> QED BY <1>1, <1>3, <1>4, <2>4, <2>5, SendStep, Zenon DEF SendInv
  <1>8. CASE Len(inflight) # Cardinality(Batches)
    <2> DEFINE Unused(b) == /\ \A i \in DOMAIN inflight : inflight[i] # b
                            /\ \A c \in Batches : c < b =>
                                 \E i \in DOMAIN inflight : inflight[i] = c
    <2>1. /\ cur' = CHOOSE b \in Batches : Unused(b)
          /\ sendPc' = "stage" /\ UNCHANGED <<after, inflight>>
      BY <1>8, Zenon DEF Acquire
    <2>2. \E b \in Batches : Unused(b)
      BY <1>6, <1>8, TwoBatches, Zenon
    <2>3. cur' \in Batches /\ Unused(cur')
      BY <2>1, <2>2, Zenon
    <2>4. ~InFlight(cur')
      BY <2>3, Zenon DEF InFlight, Range
    <2>5. undel[cur'] = 0
      <3>1. undel[cur'] \in Nat
        BY <1>2, <2>3, Zenon DEF ConnTypeOK
      <3> QED BY <1>5, <2>3, <2>4, <3>1
    <2>6. ConnTypeOK'
      BY <1>1, <1>2, <2>1, <2>3, Zenon DEF ConnTypeOK
    <2>7. BatchesPlaced' /\ NotifsStashed' /\ PendingPlaced'
      BY <1>1, <1>2, <1>5, <2>1, <2>4, <2>5, Zenon
        DEF BatchesPlaced, NotifsStashed, PendingPlaced, AtBatch, Leaving, InFlight
    <2> QED BY <1>1, <1>3, <1>4, <2>6, <2>7, SendStep, Zenon DEF SendInv
  <1> QED BY <1>7, <1>8, Zenon

\* A new count of stashed notifications for the batch at hand.
LEMMA PendSet ==
  ASSUME ConnTypeOK, NEW n \in Nat, batch' = [batch EXCEPT ![cur].pend = n]
  PROVE  /\ batch' \in [Batches -> Batch] /\ batch'[cur].pend = n
         /\ \A b \in Batches : /\ batch'[b].cqe = batch[b].cqe
                               /\ batch'[b].notif = batch[b].notif
                               /\ b # cur => batch'[b] = batch[b]
  <1>1. cur \in Batches /\ batch \in [Batches -> Batch]
    BY Zenon DEF ConnTypeOK
  <1> QED BY <1>1, Zenon DEF Batch

\* reap: with every stashed notification in, none is out.
LEMMA ReapInv == ConnInv /\ Reap => ConnInv' /\ UNCHANGED slotVars
  <1> SUFFICES ASSUME ConnInv, Reap PROVE ConnInv' /\ UNCHANGED slotVars
    BY Zenon
  <1>1. /\ sendPc = "reap" /\ Alive
        /\ UNCHANGED <<hand, cur, after, inflight, useZc, op, undel, pins,
                       rx, recvPc, outcome, fdOpen, staleShut>>
        /\ UNCHANGED slotVars
    BY Zenon DEF Reap, SendRuns, others, kernelVars, recvVars, sockVars
  <1>2. ConnTypeOK /\ SendInv /\ BatchesPlaced /\ PendingPlaced /\ NotifsStashed
    BY Zenon DEF ConnInv, SendInv
  <1>3. UNCHANGED <<taken, claimer, filling, work>>
    BY <1>1, Zenon DEF slotVars
  <1>4. CASE Notified(cur)
    <2>1. batch' = [batch EXCEPT ![cur].pend = 0] /\ sendPc' = "recycle" /\ cpu' = "send"
      BY <1>4, Zenon DEF Reap, GoOn
    <2>2. /\ batch' \in [Batches -> Batch] /\ batch'[cur].pend = 0 /\ cur \in Batches
          /\ \A b \in Batches : /\ batch'[b].cqe = batch[b].cqe
                                /\ batch'[b].notif = batch[b].notif
                                /\ b # cur => batch'[b] = batch[b]
      <3>1. 0 \in Nat
        BY Zenon
      <3> QED BY <1>2, <2>1, <3>1, PendSet, Zenon DEF ConnTypeOK
    <2>3. undel[cur] = 0
      <3>1. undel[cur] \in Nat /\ batch[cur].pend \in Nat
        BY <1>2, <2>2, Zenon DEF ConnTypeOK, Batch
      <3>2. undel[cur] > 0 => batch[cur].pend > 0
        BY <1>1, <1>2, <2>2, Zenon DEF NotifsStashed
      <3>3. undel[cur] = 0 \/ batch[cur].pend = 0
        BY <1>4, Zenon DEF Notified
      <3> QED BY <3>1, <3>2, <3>3
    <2>4. ~(undel[cur] > 0) /\ ~(batch'[cur].pend > 0)
      BY <2>2, <2>3
    <2>5. TagsHeld' /\ PinsHeld' /\ SenderAwake'
      <3>1. TagsHeld' /\ PinsHeld'
        BY <1>1, <1>3, <2>2, TagsKept, Zenon
      <3>2. SenderAwake'
        BY <2>1, Zenon DEF SenderAwake
      <3> QED BY <3>1, <3>2, Zenon
    <2>6. ConnTypeOK'
      BY <1>1, <1>2, <2>1, <2>2, Zenon DEF ConnTypeOK
    <2>7. BatchesPlaced' /\ NotifsStashed'
      BY <1>1, <1>2, <2>1, <2>2, <2>3, <2>4, Zenon
        DEF BatchesPlaced, NotifsStashed, AtBatch, InFlight
    <2>8. PendingPlaced'
      BY <1>1, <1>2, <2>1, <2>2, <2>4, Zenon DEF PendingPlaced, AtBatch, Leaving, InFlight
    <2> QED BY <1>1, <1>3, <2>5, <2>6, <2>7, <2>8, SendStep, Zenon DEF SendInv
  <1>5. CASE ~Notified(cur)
    <2>1. UNCHANGED <<batch, sendPc>> /\ cpu' = "idle"
      BY <1>5, Zenon DEF Reap, Yield
    <2>2. SendInv'
      BY <1>1, <1>2, <1>3, <2>1, SendKept, Zenon DEF sendCore
    <2>3. ConnTypeOK' /\ SenderAwake'
      BY <1>1, <1>2, <2>1, Zenon DEF ConnTypeOK, SenderAwake
    <2> QED BY <1>1, <1>3, <2>2, <2>3, SendStep, Zenon
  <1> QED BY <1>4, <1>5, Zenon

\* A tag that a batch holds is a taken response: releasing it is a step of the
\* slot protocol.
LEMMA ReleaseHeld ==
  ASSUME ConnInv, NEW b \in Batches, NEW t \in BatchTags(b), release_tag(t)
  PROVE  /\ [SlotNext]_slotVars /\ taken' = taken \ {t}
         /\ claimer' = "run" /\ filling' = filling
  <1>1. t \in taken
    BY Zenon DEF ConnInv, SendInv, TagsHeld
  <1>2. t \in Tags /\ state[t] = "Responding"
    BY <1>1, Zenon DEF ConnInv, SlotInv, SlotTypeOK, OneResponsePerTag
  <1> QED BY <1>1, <1>2, Zenon DEF SlotNext, ReleaseTag, release_tag, put_back

\* Tags leave a batch, some of them released: what stays is still held once.
LEMMA TagsShrink ==
  ASSUME ConnInv, NEW T, hand' = hand, taken' = taken \ T, T \subseteq BatchTags(cur),
         \A b \in Batches : /\ CqeTags(b)' \subseteq CqeTags(b) \ T
                            /\ NotifTags(b)' \subseteq NotifTags(b) \ T
                            /\ IsInjective(batch'[b].cqe) /\ IsInjective(batch'[b].notif)
  PROVE  TagsHeld'
  <1>1. TagsHeld /\ cur \in Batches
    BY Zenon DEF ConnInv, SendInv, ConnTypeOK
  <1>2. \A b \in Batches : BatchTags(b)' \subseteq BatchTags(b) \ T
    BY Zenon DEF BatchTags
  <1>3. ASSUME NEW b \in Batches
        PROVE  /\ BatchTags(b)' \subseteq taken'
               /\ CqeTags(b)' \cap NotifTags(b)' = {}
               /\ IsInjective(batch'[b].cqe) /\ IsInjective(batch'[b].notif)
               /\ \A c \in Batches : c # b => BatchTags(b)' \cap BatchTags(c)' = {}
    <2>1. /\ BatchTags(b) \subseteq taken /\ CqeTags(b) \cap NotifTags(b) = {}
          /\ \A c \in Batches : c # b => BatchTags(b) \cap BatchTags(c) = {}
      BY <1>1, Zenon DEF TagsHeld
    <2>2. BatchTags(b)' \subseteq taken' /\ CqeTags(b)' \cap NotifTags(b)' = {}
      BY <1>2, <2>1, Zenon
    <2>3. \A c \in Batches : c # b => BatchTags(b)' \cap BatchTags(c)' = {}
      BY <1>2, <2>1, Zenon
    <2> QED BY <2>2, <2>3, Zenon
  <1>4. hand' # << >> =>
          /\ hand'[1].kind = "R2t" => ~hand'[1].data
          /\ hand'[1].kind = "Response" =>
               hand'[1].tag \in taken' /\ \A b \in Batches : hand'[1].tag \notin BatchTags(b)'
    <2> SUFFICES ASSUME hand # << >>
                 PROVE  /\ hand[1].kind = "R2t" => ~hand[1].data
                        /\ hand[1].kind = "Response" =>
                             /\ hand[1].tag \in taken'
                             /\ \A b \in Batches : hand[1].tag \notin BatchTags(b)'
      BY Zenon
    <2>1. /\ hand[1].kind = "R2t" => ~hand[1].data
          /\ hand[1].kind = "Response" =>
               hand[1].tag \in taken /\ \A b \in Batches : hand[1].tag \notin BatchTags(b)
      BY <1>1, Zenon DEF TagsHeld
    <2> QED BY <1>1, <1>2, <2>1, Zenon
  <1> QED BY <1>3, <1>4, Zenon DEF TagsHeld, BatchTags, CqeTags, NotifTags

\* recycle: the notif-gated tags go back one by one, then the batch is reset.
LEMMA RecycleInv == ConnInv /\ Recycle => ConnInv' /\ [SlotNext]_slotVars
  <1> SUFFICES ASSUME ConnInv, Recycle PROVE ConnInv' /\ [SlotNext]_slotVars
    BY Zenon
  <1>1. /\ sendPc = "recycle" /\ Alive /\ cpu' = "send"
        /\ pins' = [pins EXCEPT ![cur] = IF undel[cur] = 0 THEN {} ELSE @]
        /\ UNCHANGED <<hand, cur, after, inflight, useZc, op, undel,
                       rx, recvPc, outcome, fdOpen, staleShut>>
    BY Zenon DEF Recycle, SendRuns, GoOn, recvVars, sockVars
  <1>2. ConnTypeOK /\ SendInv /\ BatchesPlaced /\ PendingPlaced /\ NotifsStashed
        /\ TagsHeld /\ PinsHeld
    BY Zenon DEF ConnInv, SendInv
  <1>3. /\ cur \in Batches /\ batch \in [Batches -> Batch] /\ undel[cur] = 0
        /\ pins \in [Batches -> SUBSET Tags]
        /\ batch[cur].notif \in Seq(Tags) /\ batch[cur].cqe \in Seq(Tags)
        /\ IsInjective(batch[cur].notif) /\ IsInjective(batch[cur].cqe)
    BY <1>1, <1>2, Zenon DEF ConnTypeOK, NotifsStashed, Batch, TagsHeld
  <1>4. /\ pins' \in [Batches -> SUBSET Tags] /\ pins'[cur] = {}
        /\ \A b \in Batches : b # cur => pins'[b] = pins[b]
    BY <1>1, <1>3, Zenon
  <1>5. SenderAwake'
    BY <1>1, Zenon DEF SenderAwake
  <1>6. CASE batch[cur].notif # << >>
    <2> DEFINE t == Head(batch[cur].notif)
    <2>1. /\ release_tag(t) /\ sendPc' = sendPc
          /\ batch' = [batch EXCEPT ![cur].notif = Tail(@)]
      BY <1>6, Zenon DEF Recycle
    <2>2. /\ Tail(batch[cur].notif) \in Seq(Tags) /\ t \in NotifTags(cur)
          /\ Range(Tail(batch[cur].notif)) = NotifTags(cur) \ {t}
          /\ IsInjective(Tail(batch[cur].notif))
      <3> DEFINE q == batch[cur].notif
      <3>1. /\ Tail(q) \in Seq(Tags) /\ Range(q) = Range(Tail(q)) \cup {Head(q)}
            /\ Head(q) \notin Range(Tail(q)) /\ IsInjective(Tail(q))
        BY <1>3, <1>6, PopFront, Zenon
      <3> QED BY <3>1, Zenon DEF NotifTags
    <2>3. /\ batch' \in [Batches -> Batch]
          /\ batch'[cur].notif = Tail(batch[cur].notif) /\ batch'[cur].cqe = batch[cur].cqe
          /\ \A b \in Batches : batch'[b].pend = batch[b].pend
          /\ \A b \in Batches : b # cur => batch'[b] = batch[b]
      BY <1>3, <2>1, <2>2, ZenonT(20) DEF Batch
    <2>4. t \in BatchTags(cur) /\ t \notin CqeTags(cur)
          /\ \A b \in Batches : b # cur => t \notin BatchTags(b)
      BY <1>2, <1>3, <2>2, Zenon DEF TagsHeld, BatchTags
    <2>5. /\ [SlotNext]_slotVars /\ taken' = taken \ {t}
          /\ claimer' = "run" /\ filling' = filling
      BY <1>3, <2>1, <2>4, ReleaseHeld, Zenon
    <2>6. \A b \in Batches : /\ CqeTags(b)' \subseteq CqeTags(b) \ {t}
                             /\ NotifTags(b)' \subseteq NotifTags(b) \ {t}
                             /\ IsInjective(batch'[b].cqe) /\ IsInjective(batch'[b].notif)
      <3>1. /\ CqeTags(cur)' \subseteq CqeTags(cur) \ {t}
            /\ NotifTags(cur)' \subseteq NotifTags(cur) \ {t}
            /\ IsInjective(batch'[cur].cqe) /\ IsInjective(batch'[cur].notif)
        BY <1>1, <1>3, <2>2, <2>3, <2>4, Zenon DEF CqeTags, NotifTags
      <3>2. ASSUME NEW b \in Batches, b # cur
            PROVE  /\ CqeTags(b)' \subseteq CqeTags(b) \ {t}
                   /\ NotifTags(b)' \subseteq NotifTags(b) \ {t}
                   /\ IsInjective(batch'[b].cqe) /\ IsInjective(batch'[b].notif)
        BY <1>2, <2>3, <2>4, <3>2, ZenonT(60) DEF TagsHeld, BatchTags, CqeTags, NotifTags
      <3> QED BY <1>1, <3>1, <3>2, Zenon DEF CqeTags, NotifTags
    <2>7. TagsHeld'
      BY <1>1, <2>4, <2>5, <2>6, TagsShrink, Zenon
    <2>8. PinsHeld'
      BY <1>2, <1>3, <1>4, <2>3, Zenon DEF PinsHeld, NotifTags
    <2>9. ConnTypeOK'
      BY <1>1, <1>2, <1>4, <2>1, <2>3, Zenon DEF ConnTypeOK
    <2>10. BatchesPlaced' /\ PendingPlaced' /\ NotifsStashed'
      BY <1>1, <1>2, <2>1, <2>3, Zenon
        DEF BatchesPlaced, PendingPlaced, NotifsStashed, AtBatch, Leaving, InFlight
    <2> QED BY <1>1, <1>5, <2>5, <2>7, <2>8, <2>9, <2>10, SendStep, Zenon DEF SendInv
  <1>7. CASE batch[cur].notif = << >>
    <2>1. /\ UNCHANGED slotVars /\ sendPc' = after
          /\ batch' = [batch EXCEPT ![cur] = EmptyBatch]
      BY <1>7, Zenon DEF Recycle
    <2>2. EmptyBatch \in Batch /\ EmptyBatch.pend = 0 /\ EmptyBatch.cqe = << >>
          /\ EmptyBatch.notif = << >>
      BY DEF EmptyBatch, Batch
    <2>3. /\ batch' \in [Batches -> Batch] /\ ~(batch'[cur].pend > 0)
          /\ batch'[cur].cqe = << >> /\ batch'[cur].notif = << >>
          /\ \A b \in Batches : b # cur => batch'[b] = batch[b]
      BY <1>3, <2>1, <2>2
    <2>4. UNCHANGED <<taken, claimer, filling>>
      BY <2>1, Zenon DEF slotVars
    <2>5. ASSUME NEW b \in Batches
          PROVE  /\ CqeTags(b)' \subseteq CqeTags(b) \ {}
                 /\ NotifTags(b)' \subseteq NotifTags(b) \ {}
                 /\ IsInjective(batch'[b].cqe) /\ IsInjective(batch'[b].notif)
      BY <1>2, <2>3, EmptyRange, Zenon DEF TagsHeld, CqeTags, NotifTags
    <2>6. TagsHeld'
      <3>1. taken' = taken \ {}
        BY <2>4, Zenon
      <3> QED BY <1>1, <2>5, <3>1, TagsShrink, Zenon
    <2>7. PinsHeld'
      BY <1>2, <1>3, <1>4, <2>3, Zenon DEF PinsHeld, NotifTags
    <2>8. ConnTypeOK' /\ after \in {"next", "acquire", "drain"}
      BY <1>1, <1>2, <1>4, <2>1, <2>3, Zenon DEF ConnTypeOK
    <2>9. /\ \A b \in Batches : undel[b] > 0 => batch[b].pend > 0 /\ b # cur
      <3>1. ~(undel[cur] > 0)
        BY <1>3
      <3> QED BY <1>1, <1>2, <3>1, Zenon DEF NotifsStashed
    <2>10. BatchesPlaced' /\ NotifsStashed'
      BY <1>1, <1>2, <1>3, <2>1, <2>3, <2>8, <2>9, Zenon
        DEF BatchesPlaced, NotifsStashed, AtBatch, InFlight
    <2>11. PendingPlaced'
      BY <1>1, <1>2, <2>1, <2>3, <2>8, Zenon DEF PendingPlaced, AtBatch, Leaving, InFlight
    <2> QED BY <1>1, <1>5, <2>1, <2>4, <2>6, <2>7, <2>8, <2>10, <2>11, SendStep, Zenon
              DEF SendInv
  <1> QED BY <1>6, <1>7, Zenon

\* stage_batch: the item in hand goes to the list that release_class names.
LEMMA StageItemInv == ConnInv /\ StageItem => ConnInv' /\ UNCHANGED slotVars
  <1> SUFFICES ASSUME ConnInv, StageItem PROVE ConnInv' /\ UNCHANGED slotVars
    BY Zenon
  <1> DEFINE w == Head(hand)
             c == release_class(w)
             q == batch[cur]
  <1>1. /\ sendPc = "stage" /\ Alive /\ cpu' = "send" /\ hand # << >> /\ hand' = << >>
        /\ batch' = [batch EXCEPT ![cur] = Staged(q, w)]
        /\ pins' = [pins EXCEPT ![cur] = IF w.data THEN @ \cup {w.tag} ELSE @]
        /\ UNCHANGED <<sendPc, cur, after, inflight, useZc, op, undel,
                       rx, recvPc, outcome, fdOpen, staleShut>>
        /\ UNCHANGED slotVars
    BY Zenon DEF StageItem, StageOne, SendRuns, GoOn, recvVars, sockVars
  <1>2. ConnTypeOK /\ BatchesPlaced /\ PendingPlaced /\ NotifsStashed /\ TagsHeld /\ PinsHeld
    BY Zenon DEF ConnInv, SendInv
  <1>3. UNCHANGED <<taken, claimer, filling>>
    BY <1>1, Zenon DEF slotVars
  <1>4. w \in SendWork /\ w = hand[1]
    <2>1. PICK x \in SendWork : hand = <<x>>
      BY <1>1, <1>2, Zenon DEF ConnTypeOK
    <2> QED BY <2>1
  <1>5. /\ w.tag \in Tags /\ w.kind \in {"Response", "R2t"}
        /\ cur \in Batches /\ batch \in [Batches -> Batch] /\ q \in Batch
        /\ q.cqe \in Seq(Tags) /\ q.notif \in Seq(Tags)
        /\ pins \in [Batches -> SUBSET Tags]
    BY <1>2, <1>4, Zenon DEF ConnTypeOK, SendWork, Batch
  <1>6. /\ w.kind = "R2t" => ~w.data /\ c = "NoRelease"
        /\ w.kind = "Response" =>
             /\ c = IF w.data THEN "AtNotif" ELSE "AtCqe"
             /\ w.tag \in taken /\ \A b \in Batches : w.tag \notin BatchTags(b)
    BY <1>1, <1>2, <1>4, Zenon DEF TagsHeld, release_class
  <1>7. /\ Append(q.cqe, w.tag) \in Seq(Tags) /\ Append(q.notif, w.tag) \in Seq(Tags)
        /\ Range(Append(q.cqe, w.tag)) = Range(q.cqe) \cup {w.tag}
        /\ Range(Append(q.notif, w.tag)) = Range(q.notif) \cup {w.tag}
        /\ IsInjective(q.cqe) /\ w.tag \notin Range(q.cqe) => IsInjective(Append(q.cqe, w.tag))
        /\ IsInjective(q.notif) /\ w.tag \notin Range(q.notif)
             => IsInjective(Append(q.notif, w.tag))
    <2>1. ASSUME NEW v \in Seq(Tags)
          PROVE  /\ Append(v, w.tag) \in Seq(Tags)
                 /\ Range(Append(v, w.tag)) = Range(v) \cup {w.tag}
                 /\ IsInjective(v) /\ w.tag \notin Range(v) => IsInjective(Append(v, w.tag))
      BY <1>5, PushBack, Zenon
    <2> HIDE DEF q, w
    <2> QED BY <1>5, <2>1, Zenon
  <1>8. /\ batch' \in [Batches -> Batch]
        /\ batch'[cur].cqe = IF c = "AtCqe" THEN Append(q.cqe, w.tag) ELSE q.cqe
        /\ batch'[cur].notif = IF c = "AtNotif" THEN Append(q.notif, w.tag) ELSE q.notif
        /\ \A b \in Batches : batch'[b].pend = batch[b].pend
        /\ \A b \in Batches : b # cur => batch'[b] = batch[b]
    <2> DEFINE r == Staged(q, w)
    <2>1. batch' = [batch EXCEPT ![cur] = r]
      BY <1>1, Zenon
    <2>4. r = [q EXCEPT !.items = @ + 1,
                        !.cqe = IF c = "AtCqe" THEN Append(@, w.tag) ELSE @,
                        !.notif = IF c = "AtNotif" THEN Append(@, w.tag) ELSE @]
      BY Zenon DEF Staged
    <2> HIDE DEF c, w
    <2>2. /\ q.items + 1 \in Nat
          /\ (IF c = "AtCqe" THEN Append(q.cqe, w.tag) ELSE q.cqe) \in Seq(Tags)
          /\ (IF c = "AtNotif" THEN Append(q.notif, w.tag) ELSE q.notif) \in Seq(Tags)
      BY <1>5, <1>7 DEF Batch
    <2> HIDE DEF q, r
    <2>3. /\ r \in Batch /\ r.pend = q.pend
          /\ r.cqe = IF c = "AtCqe" THEN Append(q.cqe, w.tag) ELSE q.cqe
          /\ r.notif = IF c = "AtNotif" THEN Append(q.notif, w.tag) ELSE q.notif
      BY <1>5, <2>2, <2>4, Zenon DEF Batch
    <2> QED BY <1>5, <2>1, <2>3, Zenon DEF q
  <1>9. /\ pins' \in [Batches -> SUBSET Tags]
        /\ pins'[cur] = IF w.data THEN pins[cur] \cup {w.tag} ELSE pins[cur]
        /\ \A b \in Batches : b # cur => pins'[b] = pins[b]
    BY <1>1, <1>5, Zenon
  <1> HIDE DEF c, w, q
  <1>10. /\ \A b \in Batches : b # cur => /\ CqeTags(b)' = CqeTags(b)
                                         /\ NotifTags(b)' = NotifTags(b)
                                         /\ BatchTags(b)' = BatchTags(b)
         /\ CqeTags(cur)' = Range(batch'[cur].cqe) /\ NotifTags(cur)' = Range(batch'[cur].notif)
         /\ BatchTags(cur)' = CqeTags(cur)' \cup NotifTags(cur)'
    BY <1>1, <1>8, Zenon DEF CqeTags, NotifTags, BatchTags
  <1>11. /\ CqeTags(cur) = Range(q.cqe) /\ NotifTags(cur) = Range(q.notif)
         /\ CqeTags(cur) \cap NotifTags(cur) = {}
         /\ IsInjective(q.cqe) /\ IsInjective(q.notif)
         /\ BatchTags(cur) = CqeTags(cur) \cup NotifTags(cur)
    BY <1>2, <1>5, Zenon DEF TagsHeld, CqeTags, NotifTags, BatchTags, q
  <1>12. /\ BatchTags(cur)' \subseteq taken' /\ CqeTags(cur)' \cap NotifTags(cur)' = {}
         /\ IsInjective(batch'[cur].cqe) /\ IsInjective(batch'[cur].notif)
         /\ \A b \in Batches : b # cur => BatchTags(b) \cap BatchTags(cur)' = {}
         /\ pins'[cur] \subseteq NotifTags(cur)'
    <2>1. /\ BatchTags(cur) \subseteq taken /\ pins[cur] \subseteq NotifTags(cur)
          /\ \A b \in Batches : b # cur => BatchTags(b) \cap BatchTags(cur) = {}
      BY <1>2, <1>5, Zenon DEF TagsHeld, PinsHeld
    <2>2. CASE w.kind = "R2t"
      <3>1. batch'[cur].cqe = q.cqe /\ batch'[cur].notif = q.notif /\ pins'[cur] = pins[cur]
        BY <1>6, <1>8, <1>9, <2>2, Zenon
      <3> QED BY <1>3, <1>10, <1>11, <2>1, <3>1, Zenon
    <2>3. CASE w.kind = "Response" /\ w.data
      <3>1. /\ batch'[cur].cqe = q.cqe /\ batch'[cur].notif = Append(q.notif, w.tag)
            /\ pins'[cur] = pins[cur] \cup {w.tag}
        BY <1>6, <1>8, <1>9, <2>3
      <3>2. CqeTags(cur)' = CqeTags(cur) /\ NotifTags(cur)' = NotifTags(cur) \cup {w.tag}
        BY <1>7, <1>10, <1>11, <3>1, Zenon
      <3>3. /\ w.tag \in taken /\ \A b \in Batches : w.tag \notin BatchTags(b)
            /\ w.tag \notin BatchTags(cur)
        BY <1>5, <1>6, <2>3, Zenon
      <3>4. IsInjective(batch'[cur].cqe) /\ IsInjective(batch'[cur].notif)
        BY <1>7, <1>11, <3>1, <3>3, Zenon
      <3>5. BatchTags(cur)' = BatchTags(cur) \cup {w.tag}
        BY <1>10, <1>11, <3>2, Zenon
      <3>6. CqeTags(cur)' \cap NotifTags(cur)' = {} /\ pins'[cur] \subseteq NotifTags(cur)'
        BY <1>11, <2>1, <3>1, <3>2, <3>3, ZenonT(60)
      <3>7. BatchTags(cur)' \subseteq taken'
        BY <1>3, <2>1, <3>3, <3>5, Zenon
      <3>8. ASSUME NEW b \in Batches, b # cur
            PROVE  BatchTags(b) \cap BatchTags(cur)' = {}
        <4>1. BatchTags(b) \cap BatchTags(cur) = {} /\ w.tag \notin BatchTags(b)
          BY <2>1, <3>3, <3>8, Zenon
        <4> QED BY <3>5, <4>1, Zenon
      <3> QED BY <3>4, <3>6, <3>7, <3>8, Zenon
    <2>4. CASE w.kind = "Response" /\ ~w.data
      <3>1. /\ batch'[cur].cqe = Append(q.cqe, w.tag) /\ batch'[cur].notif = q.notif
            /\ pins'[cur] = pins[cur]
        BY <1>6, <1>8, <1>9, <2>4
      <3>2. CqeTags(cur)' = CqeTags(cur) \cup {w.tag} /\ NotifTags(cur)' = NotifTags(cur)
        BY <1>7, <1>10, <1>11, <3>1, Zenon
      <3>3. /\ w.tag \in taken /\ \A b \in Batches : w.tag \notin BatchTags(b)
            /\ w.tag \notin BatchTags(cur)
        BY <1>5, <1>6, <2>4, Zenon
      <3>4. IsInjective(batch'[cur].cqe) /\ IsInjective(batch'[cur].notif)
        BY <1>7, <1>11, <3>1, <3>3, Zenon
      <3>5. BatchTags(cur)' = BatchTags(cur) \cup {w.tag}
        BY <1>10, <1>11, <3>2, Zenon
      <3>6. CqeTags(cur)' \cap NotifTags(cur)' = {} /\ pins'[cur] \subseteq NotifTags(cur)'
        BY <1>11, <2>1, <3>1, <3>2, <3>3, ZenonT(30)
      <3>7. BatchTags(cur)' \subseteq taken'
        BY <1>3, <2>1, <3>3, <3>5, Zenon
      <3>8. ASSUME NEW b \in Batches, b # cur
            PROVE  BatchTags(b) \cap BatchTags(cur)' = {}
        <4>1. BatchTags(b) \cap BatchTags(cur) = {} /\ w.tag \notin BatchTags(b)
          BY <2>1, <3>3, <3>8, Zenon
        <4> QED BY <3>5, <4>1, Zenon
      <3> QED BY <3>4, <3>6, <3>7, <3>8, Zenon
    <2> QED BY <1>5, <2>2, <2>3, <2>4, Zenon
  <1>13. TagsHeld'
    <2>1. ASSUME NEW b \in Batches
          PROVE  /\ BatchTags(b)' \subseteq taken'
                 /\ CqeTags(b)' \cap NotifTags(b)' = {}
                 /\ IsInjective(batch'[b].cqe) /\ IsInjective(batch'[b].notif)
                 /\ \A d \in Batches : d # b => BatchTags(b)' \cap BatchTags(d)' = {}
      <3>1. CASE b = cur
        <4>1. BatchTags(b)' = BatchTags(cur)' /\ CqeTags(b)' = CqeTags(cur)'
              /\ NotifTags(b)' = NotifTags(cur)'
          BY <1>1, <3>1, Zenon DEF BatchTags, CqeTags, NotifTags
        <4> QED BY <1>10, <1>12, <3>1, <4>1, Zenon
      <3>2. CASE b # cur
        <4>1. /\ BatchTags(b) \subseteq taken /\ CqeTags(b) \cap NotifTags(b) = {}
              /\ IsInjective(batch[b].cqe) /\ IsInjective(batch[b].notif)
              /\ \A d \in Batches : d # b => BatchTags(b) \cap BatchTags(d) = {}
          BY <1>2, Zenon DEF TagsHeld
        <4>2. ASSUME NEW d \in Batches, d # b
              PROVE  BatchTags(b)' \cap BatchTags(d)' = {}
          <5>1. CASE d = cur
            <6>1. BatchTags(d)' = BatchTags(cur)'
              BY <1>1, <5>1, Zenon DEF BatchTags, CqeTags, NotifTags
            <6> QED BY <1>10, <1>12, <3>2, <6>1, Zenon
          <5>2. CASE d # cur
            BY <1>10, <3>2, <4>1, <4>2, <5>2, Zenon
          <5> QED BY <5>1, <5>2, Zenon
        <4> QED BY <1>3, <1>8, <1>10, <3>2, <4>1, <4>2, Zenon
      <3> QED BY <3>1, <3>2, Zenon
    <2> QED BY <1>1, <2>1, Zenon DEF TagsHeld, BatchTags, CqeTags, NotifTags
  <1>14. PinsHeld'
    <2>1. ASSUME NEW b \in Batches PROVE pins'[b] \subseteq Range(batch'[b].notif)
      <3>1. CASE b = cur
        BY <1>10, <1>12, <3>1, Zenon
      <3>2. CASE b # cur
        BY <1>2, <1>8, <1>9, <3>2, Zenon DEF PinsHeld, NotifTags
      <3> QED BY <3>1, <3>2, Zenon
    <2> QED BY <2>1, Zenon DEF PinsHeld, NotifTags
  <1>15. ConnTypeOK' /\ SenderAwake'
    BY <1>1, <1>2, <1>8, <1>9, Zenon DEF ConnTypeOK, SenderAwake
  <1>16. BatchesPlaced' /\ PendingPlaced' /\ NotifsStashed'
    BY <1>1, <1>2, <1>8, Zenon
      DEF BatchesPlaced, PendingPlaced, NotifsStashed, AtBatch, Leaving, InFlight
  <1> QED BY <1>1, <1>3, <1>13, <1>14, <1>15, <1>16, SendStep, Zenon DEF SendInv

\* try_next while the batch has room.
LEMMA StageMoreInv == ConnInv /\ StageMore => ConnInv' /\ [SlotNext]_slotVars
  <1> SUFFICES ASSUME ConnInv, StageMore PROVE ConnInv' /\ [SlotNext]_slotVars
    BY Zenon
  <1>1. /\ sendPc = "stage" /\ Alive /\ cpu' = "send"
        /\ hand = << >> /\ take_work /\ hand' = <<Head(work)>>
        /\ UNCHANGED <<sendPc, cur, after, batch, inflight, useZc, op, undel, pins,
                       rx, recvPc, outcome, fdOpen, staleShut>>
    BY Zenon DEF StageMore, SendRuns, GoOn, others, kernelVars, recvVars, sockVars
  <1>2. ConnTypeOK /\ BatchesPlaced /\ PendingPlaced /\ NotifsStashed /\ PinsHeld
    BY Zenon DEF ConnInv, SendInv
  <1>3. /\ [SlotNext]_slotVars /\ TagsHeld' /\ claimer' = claimer /\ filling' = filling
        /\ \E w \in SendWork : hand' = <<w>>
    BY <1>1, TakeHeld, Zenon DEF SlotNext
  <1>4. ConnTypeOK' /\ SenderAwake'
    BY <1>1, <1>2, <1>3, Zenon DEF ConnTypeOK, SenderAwake
  <1>5. BatchesPlaced' /\ PendingPlaced' /\ NotifsStashed' /\ PinsHeld'
    BY <1>1, <1>2, Zenon DEF BatchesPlaced, PendingPlaced, NotifsStashed, PinsHeld,
      AtBatch, Leaving, InFlight, NotifTags
  <1> QED BY <1>1, <1>3, <1>4, <1>5, SendStep, Zenon DEF SendInv

\* The op of the batch is issued.
LEMMA ShipInv == ConnInv /\ Ship => ConnInv' /\ UNCHANGED slotVars
  <1> SUFFICES ASSUME ConnInv, Ship PROVE ConnInv' /\ UNCHANGED slotVars
    BY Zenon
  <1>1. /\ sendPc = "stage" /\ Alive /\ cpu' = "idle" /\ sendPc' = "ship" /\ op' = "inflight"
        /\ UNCHANGED <<hand, cur, after, batch, inflight, undel, pins,
                       rx, recvPc, outcome, fdOpen, staleShut>>
        /\ UNCHANGED slotVars
    BY Zenon DEF Ship, SendRuns, Yield, recvVars, sockVars
  <1>2. ConnTypeOK /\ BatchesPlaced /\ PendingPlaced /\ NotifsStashed
    BY Zenon DEF ConnInv, SendInv
  <1>3. UNCHANGED <<taken, claimer, filling>>
    BY <1>1, Zenon DEF slotVars
  <1>4. TagsHeld' /\ PinsHeld'
    BY <1>1, <1>3, TagsKept, Zenon
  <1>5. ConnTypeOK' /\ SenderAwake'
    BY <1>1, <1>2, Zenon DEF ConnTypeOK, SenderAwake
  <1>6. BatchesPlaced' /\ PendingPlaced' /\ NotifsStashed'
    BY <1>1, <1>2, Zenon
      DEF BatchesPlaced, PendingPlaced, NotifsStashed, AtBatch, Leaving, InFlight
  <1> QED BY <1>1, <1>3, <1>4, <1>5, <1>6, SendStep, Zenon DEF SendInv

\* ship_batch after a completion: its notification is stashed whatever the
\* result is, so none is forgotten by a retry or an error.
LEMMA ShippedInv == ConnInv /\ Shipped => ConnInv' /\ UNCHANGED slotVars
  <1> SUFFICES ASSUME ConnInv, Shipped PROVE ConnInv' /\ UNCHANGED slotVars
    BY Zenon
  <1>1. /\ sendPc = "ship" /\ Alive /\ op # "none" /\ op # "inflight"
        /\ batch' = [batch EXCEPT ![cur].pend = IF useZc THEN @ + 1 ELSE @]
        /\ UNCHANGED <<hand, cur, after, inflight, undel, pins,
                       rx, recvPc, outcome, fdOpen, staleShut>>
        /\ UNCHANGED slotVars
    BY Zenon DEF Shipped, SendRuns, recvVars, sockVars
  <1>2. \/ sendPc' = "retire" /\ op' = "none" /\ cpu' = "send"
        \/ sendPc' = "drain" /\ op' = "none" /\ cpu' = "send"
        \/ sendPc' = "ship" /\ op' = "inflight" /\ cpu' = "idle"
    BY <1>1, Zenon DEF Shipped, GoOn, Yield
  <1>3. ConnTypeOK /\ BatchesPlaced /\ PendingPlaced /\ NotifsStashed
    BY Zenon DEF ConnInv, SendInv
  <1>4. cur \in Batches /\ batch[cur].pend \in Nat
    BY <1>3, Zenon DEF ConnTypeOK, Batch
  <1> DEFINE n == IF useZc THEN batch[cur].pend + 1 ELSE batch[cur].pend
  <1>5. n \in Nat /\ (useZc => n > 0) /\ (batch[cur].pend > 0 => n > 0)
    BY <1>4
  <1>6. batch' = [batch EXCEPT ![cur].pend = n]
    BY <1>1, Zenon
  <1> HIDE DEF n
  <1>7. /\ batch' \in [Batches -> Batch] /\ batch'[cur].pend = n
        /\ \A b \in Batches : /\ batch'[b].cqe = batch[b].cqe
                              /\ batch'[b].notif = batch[b].notif
                              /\ b # cur => batch'[b] = batch[b]
    BY <1>3, <1>5, <1>6, PendSet, Zenon
  <1>8. UNCHANGED <<taken, claimer, filling>>
    BY <1>1, Zenon DEF slotVars
  <1>9. TagsHeld' /\ PinsHeld'
    BY <1>1, <1>7, <1>8, TagsKept, Zenon
  <1>10. ConnTypeOK' /\ SenderAwake'
    BY <1>1, <1>2, <1>3, <1>7, Zenon DEF ConnTypeOK, SenderAwake
  <1>11. \A b \in Batches : undel[b] > 0 => batch'[b].pend > 0
    BY <1>3, <1>5, <1>7, Zenon DEF NotifsStashed
  <1>12. BatchesPlaced' /\ NotifsStashed'
    BY <1>1, <1>2, <1>3, <1>11, Zenon DEF BatchesPlaced, NotifsStashed, AtBatch, InFlight
  <1>13. PendingPlaced'
    BY <1>1, <1>2, <1>3, <1>7, Zenon DEF PendingPlaced, AtBatch, Leaving, InFlight
  <1> QED BY <1>1, <1>8, <1>9, <1>10, <1>12, <1>13, SendStep, Zenon DEF SendInv

\* retire: the tags that waited for the completion, then the batch itself.
LEMMA RetireInv == ConnInv /\ Retire => ConnInv' /\ [SlotNext]_slotVars
  <1> SUFFICES ASSUME ConnInv, Retire PROVE ConnInv' /\ [SlotNext]_slotVars
    BY Zenon
  <1>1. /\ sendPc = "retire" /\ Alive /\ cpu' = "send"
        /\ UNCHANGED <<hand, cur, useZc, op, undel, pins,
                       rx, recvPc, outcome, fdOpen, staleShut>>
    BY Zenon DEF Retire, SendRuns, GoOn, others, kernelVars, recvVars, sockVars
  <1>2. ConnTypeOK /\ SendInv /\ BatchesPlaced /\ PendingPlaced /\ NotifsStashed
        /\ TagsHeld /\ PinsHeld
    BY Zenon DEF ConnInv, SendInv
  <1>3. /\ cur \in Batches /\ batch \in [Batches -> Batch]
        /\ batch[cur].notif \in Seq(Tags) /\ batch[cur].cqe \in Seq(Tags)
        /\ batch[cur].pend \in Nat /\ undel[cur] \in Nat
        /\ IsInjective(batch[cur].notif) /\ IsInjective(batch[cur].cqe)
    BY <1>2, Zenon DEF ConnTypeOK, Batch, TagsHeld
  <1>4. SenderAwake'
    BY <1>1, Zenon DEF SenderAwake
  <1>5. \A b \in Batches : undel[b] > 0 => batch[b].pend > 0
    BY <1>1, <1>2, Zenon DEF NotifsStashed
  <1>6. CASE batch[cur].cqe # << >>
    <2> DEFINE t == Head(batch[cur].cqe)
    <2>1. /\ release_tag(t) /\ UNCHANGED <<sendPc, after, inflight>>
          /\ batch' = [batch EXCEPT ![cur].cqe = Tail(@)]
      BY <1>6, Zenon DEF Retire
    <2>2. /\ Tail(batch[cur].cqe) \in Seq(Tags) /\ t \in CqeTags(cur)
          /\ Range(Tail(batch[cur].cqe)) = CqeTags(cur) \ {t}
          /\ IsInjective(Tail(batch[cur].cqe))
      <3> DEFINE q == batch[cur].cqe
      <3>1. /\ Tail(q) \in Seq(Tags) /\ Range(q) = Range(Tail(q)) \cup {Head(q)}
            /\ Head(q) \notin Range(Tail(q)) /\ IsInjective(Tail(q))
        BY <1>3, <1>6, PopFront, Zenon
      <3> QED BY <3>1, Zenon DEF CqeTags
    <2>3. /\ batch' \in [Batches -> Batch]
          /\ batch'[cur].cqe = Tail(batch[cur].cqe)
          /\ \A b \in Batches : batch'[b].pend = batch[b].pend
          /\ \A b \in Batches : batch'[b].notif = batch[b].notif
          /\ \A b \in Batches : b # cur => batch'[b] = batch[b]
      BY <1>3, <2>1, <2>2, ZenonT(20) DEF Batch
    <2>4. t \in BatchTags(cur) /\ t \notin NotifTags(cur)
          /\ \A b \in Batches : b # cur => t \notin BatchTags(b)
      BY <1>2, <1>3, <2>2, Zenon DEF TagsHeld, BatchTags
    <2>5. /\ [SlotNext]_slotVars /\ taken' = taken \ {t}
          /\ claimer' = "run" /\ filling' = filling
      BY <1>3, <2>1, <2>4, ReleaseHeld, Zenon
    <2>6. \A b \in Batches : /\ CqeTags(b)' \subseteq CqeTags(b) \ {t}
                             /\ NotifTags(b)' \subseteq NotifTags(b) \ {t}
                             /\ IsInjective(batch'[b].cqe) /\ IsInjective(batch'[b].notif)
      <3>1. /\ CqeTags(cur)' \subseteq CqeTags(cur) \ {t}
            /\ NotifTags(cur)' \subseteq NotifTags(cur) \ {t}
            /\ IsInjective(batch'[cur].cqe) /\ IsInjective(batch'[cur].notif)
        BY <1>1, <1>3, <2>2, <2>3, <2>4, Zenon DEF CqeTags, NotifTags
      <3>2. ASSUME NEW b \in Batches, b # cur
            PROVE  /\ CqeTags(b)' \subseteq CqeTags(b) \ {t}
                   /\ NotifTags(b)' \subseteq NotifTags(b) \ {t}
                   /\ IsInjective(batch'[b].cqe) /\ IsInjective(batch'[b].notif)
        BY <1>2, <2>3, <2>4, <3>2, ZenonT(60) DEF TagsHeld, BatchTags, CqeTags, NotifTags
      <3> QED BY <1>1, <3>1, <3>2, Zenon DEF CqeTags, NotifTags
    <2>7. TagsHeld'
      BY <1>1, <2>4, <2>5, <2>6, TagsShrink, Zenon
    <2>8. PinsHeld'
      BY <1>1, <1>2, <2>3, Zenon DEF PinsHeld, NotifTags
    <2>9. ConnTypeOK'
      BY <1>1, <1>2, <2>1, <2>3, Zenon DEF ConnTypeOK
    <2>10. BatchesPlaced' /\ PendingPlaced' /\ NotifsStashed'
      BY <1>1, <1>2, <2>1, <2>3, Zenon
        DEF BatchesPlaced, PendingPlaced, NotifsStashed, AtBatch, Leaving, InFlight
    <2> QED BY <1>1, <1>4, <2>5, <2>7, <2>8, <2>9, <2>10, SendStep, Zenon DEF SendInv
  <1>7. CASE batch[cur].cqe = << >>
    <2>1. /\ UNCHANGED slotVars /\ batch' = batch
          /\ IF batch[cur].pend = 0
               THEN sendPc' = "recycle" /\ after' = "next" /\ inflight' = inflight
               ELSE sendPc' = "next" /\ inflight' = Append(inflight, cur) /\ after' = after
      BY <1>7, Zenon DEF Retire
    <2>2. UNCHANGED <<taken, claimer, filling>>
      BY <2>1, Zenon DEF slotVars
    <2>3. TagsHeld' /\ PinsHeld'
      BY <1>1, <2>1, <2>2, TagsKept, Zenon
    <2>4. CASE batch[cur].pend = 0
      <3>1. undel[cur] = 0
        BY <1>3, <1>5, <2>4
      <3>2. ConnTypeOK'
        BY <1>1, <1>2, <2>1, <2>4, Zenon DEF ConnTypeOK
      <3>3. BatchesPlaced' /\ PendingPlaced' /\ NotifsStashed'
        BY <1>1, <1>2, <1>5, <2>1, <2>4, <3>1, Zenon
          DEF BatchesPlaced, PendingPlaced, NotifsStashed, AtBatch, Leaving, InFlight
      <3> QED BY <1>1, <1>4, <2>1, <2>2, <2>3, <3>2, <3>3, SendStep, Zenon DEF SendInv
    <2>5. CASE batch[cur].pend # 0
      <3>1. inflight \in Seq(Batches) /\ IsInjective(inflight) /\ cur \notin Range(inflight)
        BY <1>1, <1>2, Zenon DEF ConnTypeOK, BatchesPlaced, AtBatch, InFlight
      <3>2. /\ inflight' \in Seq(Batches) /\ IsInjective(inflight')
            /\ Range(inflight') = Range(inflight) \cup {cur}
        <4> DEFINE q == Append(inflight, cur)
        <4>1. inflight' = q
          BY <2>1, <2>5, Zenon
        <4>2. cur \in Batches
          BY <1>3, Zenon
        <4>3. q \in Seq(Batches) /\ IsInjective(q) /\ Range(q) = Range(inflight) \cup {cur}
          BY <3>1, <4>2, PushBack, ZenonT(60)
        <4> HIDE DEF q
        <4> QED BY <4>1, <4>3, Zenon
      <3>3. ConnTypeOK'
        BY <1>1, <1>2, <2>1, <2>5, <3>2, Zenon DEF ConnTypeOK
      <3>4. BatchesPlaced' /\ NotifsStashed'
        BY <1>1, <1>2, <1>5, <2>1, <2>5, <3>2, Zenon
          DEF BatchesPlaced, NotifsStashed, AtBatch, InFlight
      <3>5. PendingPlaced'
        BY <1>1, <1>2, <2>1, <2>5, <3>2, Zenon DEF PendingPlaced, AtBatch, Leaving, InFlight
      <3> QED BY <1>1, <1>4, <2>1, <2>2, <2>3, <3>3, <3>4, <3>5, SendStep, Zenon DEF SendInv
    <2> QED BY <2>4, <2>5, Zenon
  <1> QED BY <1>6, <1>7, Zenon

\* drain: every batch is reaped before the task ends, and only then the
\* socket is shut down.
LEMMA DrainInv == ConnInv /\ Drain => ConnInv' /\ UNCHANGED slotVars
  <1> SUFFICES ASSUME ConnInv, Drain PROVE ConnInv' /\ UNCHANGED slotVars
    BY Zenon
  <1> DEFINE rest == {b \in Batches : batch[b] # EmptyBatch}
  <1>1. /\ sendPc = "drain" /\ Alive
        /\ UNCHANGED <<batch, useZc, op, undel, pins, rx, recvPc, outcome>>
        /\ UNCHANGED slotVars
    BY Zenon DEF Drain, Draining, SendRuns, others, kernelVars, recvVars
  <1>2. \/ /\ inflight # << >> /\ cur' = Head(inflight) /\ inflight' = Tail(inflight)
           /\ sendPc' = "reap" /\ after' = "drain" /\ cpu' = "send"
           /\ UNCHANGED <<hand, fdOpen, staleShut>>
        \/ /\ inflight = << >> /\ rest # {} /\ inflight' = inflight
           /\ cur' = CHOOSE b \in rest : \A c \in rest : b <= c
           /\ sendPc' = "reap" /\ after' = "drain" /\ cpu' = "send"
           /\ UNCHANGED <<hand, fdOpen, staleShut>>
        \/ /\ inflight = << >> /\ rest = {} /\ sendPc' = "exited" /\ hand' = << >>
           /\ cpu' = "idle" /\ UNCHANGED <<cur, after, inflight>>
           /\ shutdown \/ UNCHANGED <<fdOpen, staleShut>>
    BY Zenon DEF Drain, Draining, GoOn, Yield, sockVars
  <1>3. /\ ConnTypeOK /\ BatchesPlaced /\ PendingPlaced /\ NotifsStashed
        /\ TagsHeld /\ PinsHeld
    BY Zenon DEF ConnInv, SendInv
  <1>4. UNCHANGED <<taken, claimer, filling, executing>>
    BY <1>1, Zenon DEF slotVars
  <1>5. \A b \in Batches : undel[b] > 0 => batch[b].pend > 0
    BY <1>1, <1>3, Zenon DEF NotifsStashed
  <1>6. CASE /\ inflight # << >> /\ cur' = Head(inflight) /\ inflight' = Tail(inflight)
             /\ sendPc' = "reap" /\ after' = "drain" /\ cpu' = "send"
             /\ UNCHANGED <<hand, fdOpen, staleShut>>
    <2>1. /\ cur' \in Batches /\ inflight' \in Seq(Batches) /\ IsInjective(inflight')
          /\ ~InFlight(cur)'
      BY <1>6, FrontTaken, Zenon
    <2>2. ConnTypeOK' /\ SenderAwake'
      BY <1>1, <1>3, <1>6, <2>1, Zenon DEF ConnTypeOK, SenderAwake
    <2>3. TagsHeld' /\ PinsHeld'
      BY <1>1, <1>4, <1>6, TagsKept, Zenon
    <2>4. BatchesPlaced' /\ PendingPlaced' /\ NotifsStashed'
      BY <1>1, <1>3, <1>5, <1>6, <2>1, Zenon
        DEF BatchesPlaced, PendingPlaced, NotifsStashed, AtBatch, Leaving, InFlight
    <2> QED BY <1>1, <1>4, <1>6, <2>2, <2>3, <2>4, SendStep, Zenon DEF SendInv
  <1>7. CASE /\ inflight = << >> /\ rest # {} /\ inflight' = inflight
             /\ cur' = CHOOSE b \in rest : \A c \in rest : b <= c
             /\ sendPc' = "reap" /\ after' = "drain" /\ cpu' = "send"
             /\ UNCHANGED <<hand, fdOpen, staleShut>>
    <2>1. cur' \in Batches
      <3>1. rest \subseteq Batches
        BY Zenon
      <3> HIDE DEF rest
      <3>2. \E b \in rest : \A c \in rest : b <= c
        <4>1. rest # {} /\ rest \subseteq {0, 1}
          BY <1>7, <3>1, Zenon DEF Batches
        <4>2. 0 <= 0 /\ 0 <= 1 /\ 1 <= 1
          OBVIOUS
        <4>3. 0 \in rest => \A c \in rest : 0 <= c
          BY <4>1, <4>2, Zenon
        <4>4. 0 \notin rest => 1 \in rest /\ \A c \in rest : 1 <= c
          BY <4>1, <4>2, Zenon
        <4> QED BY <4>3, <4>4, Zenon
      <3>3. (CHOOSE b \in rest : \A c \in rest : b <= c) \in rest
        BY <3>2, Zenon
      <3> QED BY <1>7, <3>1, <3>3, Zenon
    <2>2. ~InFlight(cur)' /\ IsInjective(inflight')
      BY <1>7, EmptyRange, Zenon DEF InFlight
    <2>3. ConnTypeOK' /\ SenderAwake'
      BY <1>1, <1>3, <1>7, <2>1, Zenon DEF ConnTypeOK, SenderAwake
    <2>4. TagsHeld' /\ PinsHeld'
      BY <1>1, <1>4, <1>7, TagsKept, Zenon
    <2>5. BatchesPlaced' /\ PendingPlaced' /\ NotifsStashed'
      BY <1>1, <1>3, <1>5, <1>7, <2>1, <2>2, Zenon
        DEF BatchesPlaced, PendingPlaced, NotifsStashed, AtBatch, Leaving, InFlight
    <2> QED BY <1>1, <1>4, <1>7, <2>3, <2>4, <2>5, SendStep, Zenon DEF SendInv
  <1>8. CASE /\ inflight = << >> /\ rest = {} /\ sendPc' = "exited" /\ hand' = << >>
             /\ cpu' = "idle" /\ UNCHANGED <<cur, after, inflight>>
             /\ shutdown \/ UNCHANGED <<fdOpen, staleShut>>
    <2>1. \A b \in Batches : ~(batch[b].pend > 0)
      <3>1. \A b \in Batches : batch[b] = EmptyBatch
        BY <1>8, Zenon
      <3>2. ~(EmptyBatch.pend > 0)
        BY DEF EmptyBatch
      <3> QED BY <3>1, <3>2, Zenon
    <2>2. ConnTypeOK' /\ SenderAwake'
      BY <1>1, <1>3, <1>8, Zenon DEF ConnTypeOK, SenderAwake
    <2>3. BatchesPlaced' /\ PendingPlaced' /\ NotifsStashed'
      BY <1>1, <1>3, <1>5, <1>8, <2>1, Zenon
        DEF BatchesPlaced, PendingPlaced, NotifsStashed, AtBatch, InFlight
    <2>4. TagsHeld' /\ PinsHeld'
      BY <1>1, <1>3, <1>4, <1>8, Zenon
        DEF TagsHeld, PinsHeld, BatchTags, CqeTags, NotifTags
    <2>5. OutcomeOK' /\ RecvOK'
      BY <1>1, <1>3, <1>4, <1>8, OutcomeKept, ShutdownOutcome, Zenon DEF ConnInv, RecvOK, Alive
    <2>6. SlotInv' /\ FillingOne' /\ R2tsBare'
      BY <1>1, SlotStepInv, SlotExtrasKept, Zenon DEF ConnInv
    <2> QED BY <1>1, <2>2, <2>3, <2>4, <2>5, <2>6, Zenon DEF ConnInv, SendInv
  <1> QED BY <1>2, <1>6, <1>7, <1>8, Zenon

---------------------------------------------------------------------------
(* The theorems.                                                           *)

\* Every step keeps the invariant and is a step of the slot protocol, or
\* leaves the slots alone.
LEMMA ConnStep ==
  ConnInv /\ [ConnNext]_connVars => ConnInv' /\ [SlotNext]_slotVars
  <1> SUFFICES ASSUME ConnInv, [ConnNext]_connVars PROVE ConnInv' /\ [SlotNext]_slotVars
    BY Zenon
  <1>1. CASE SendTask
    BY <1>1, NextWorkInv, NextIdleInv, AcquireInv, ReapInv, RecycleInv, StageItemInv,
       StageMoreInv, ShipInv, ShippedInv, RetireInv, DrainInv, Zenon DEF SendTask
  <1>2. CASE RecvTask
    BY <1>2, RecvPduInv, RecvClaimInv, RecvRouteInv, RecvEndInv, QuiesceInv, JoinSendInv,
       Zenon DEF RecvTask
  <1>3. CASE KernelSend \/ \E b \in Batches : KernelNotif(b)
    BY <1>3, KernelSendInv, KernelNotifInv, Zenon
  <1>4. CASE WatchdogExpires \/ HostSends \/ HostLeaves \/ \E t \in Tags : HostData(t)
    BY <1>4, OutsideInv, Zenon
  <1>5. CASE \E t \in Tags : PollSlot(t) \/ CompleteSlot(t)
    BY <1>5, PollSlotInv, CompleteSlotInv, Zenon
  <1>6. CASE UNCHANGED connVars
    <2>1. /\ UNCHANGED sendCore /\ UNCHANGED slotVars
          /\ UNCHANGED <<cpu, sendWoken, sendClosed, rx, recvPc, outcome, fdOpen, staleShut,
                         work, claimer, filling, executing>>
      BY <1>6, Zenon DEF connVars, sendCore, sendVars, kernelVars, recvVars, sockVars, slotVars
    <2>2. SlotInv' /\ FillingOne' /\ R2tsBare' /\ SendInv'
      BY <2>1, SlotStepInv, SlotExtrasKept, SendKept, Zenon DEF ConnInv
    <2>3. ConnTypeOK' /\ RecvOK' /\ OutcomeOK' /\ SenderAwake'
      <3>1. ConnTypeOK /\ RecvOK /\ OutcomeOK /\ SenderAwake
        BY Zenon DEF ConnInv
      <3>2. ConnTypeOK'
        BY <2>1, <3>1, Zenon DEF sendCore, ConnTypeOK
      <3>3. RecvOK' /\ OutcomeOK'
        BY <2>1, <3>1, Zenon DEF sendCore, RecvOK, OutcomeOK
      <3>4. SenderAwake'
        BY <2>1, <3>1, Zenon DEF sendCore, SenderAwake, Notified, Alive
      <3> QED BY <3>2, <3>3, <3>4, Zenon
    <2> QED BY <2>1, <2>2, <2>3, Zenon DEF ConnInv
  <1> QED BY <1>1, <1>2, <1>3, <1>4, <1>5, <1>6, Zenon DEF ConnNext

\* Every reachable state of a connection satisfies the invariant.
THEOREM ConnectionInvariant == ConnSpec => []ConnInv
  <1>1. ConnInv /\ [ConnNext]_connVars => ConnInv'
    BY ConnStep, Zenon
  <1> QED BY <1>1, ConnInitInv, PTL DEF ConnSpec

\* The receive loop, the slot tasks, the send path and the teardown together
\* use the slot engine only as its debug_asserts allow: every tag released
\* is a response taken off the send list once, and every slot submitted,
\* failed or solicited was claimed by the receive path.
THEOREM WithinSlotProtocol == ConnSpec => SlotProtocol
  <1>1. ConnInit => SlotInit
    BY Zenon DEF ConnInit
  <1>2. ConnInv /\ [ConnNext]_connVars => [SlotNext]_slotVars
    BY ConnStep, Zenon
  <1> QED BY <1>1, <1>2, ConnectionInvariant, PTL DEF ConnSpec, SlotProtocol, SlotSpec

\* The kernel may read a slot's buffer for a send only while the slot is
\* Responding, and a batch is staged again only when the notifications of its
\* last send have arrived.
THEOREM SendMemoryAlwaysHeld == ConnSpec => []SendMemoryHeld
  <1>1. ConnInv => SendMemoryHeld
    <2> SUFFICES ASSUME ConnInv PROVE SendMemoryHeld
      BY Zenon
    <2>1. NoReleaseWhilePinned
      <3> SUFFICES ASSUME NEW b \in Batches, NEW t \in KernelReads(b)
                   PROVE  state[t] = "Responding"
        BY Zenon DEF NoReleaseWhilePinned
      <3>1. t \in pins[b]
        BY Zenon DEF KernelReads
      <3>2. t \in taken
        BY <3>1, Zenon DEF ConnInv, SendInv, PinsHeld, TagsHeld, BatchTags
      <3> QED BY <3>2, Zenon DEF ConnInv, SlotInv, OneResponsePerTag
    <2>2. BatchReusedWhenQuiet
      BY Zenon DEF BatchReusedWhenQuiet, ConnInv, SendInv, NotifsStashed, BatchesPlaced
    <2> QED BY <2>1, <2>2, Zenon DEF SendMemoryHeld
  <1> QED BY <1>1, ConnectionInvariant, PTL

\* teardown frees the queue only with no backend operation, no send and no
\* notification outstanding.
THEOREM FreedMemoryQuiet == ConnSpec => []FreedMemoryUnreferenced
  <1>1. ConnInv => FreedMemoryUnreferenced
    <2> SUFFICES ASSUME ConnInv, outcome = "freed"
                 PROVE  /\ \A t \in Tags : state[t] # "Executing"
                        /\ op = "none"
                        /\ \A b \in Batches : undel[b] = 0
      BY Zenon DEF FreedMemoryUnreferenced
    <2>1. sendPc = "exited" /\ executing = 0
      BY Zenon DEF ConnInv, OutcomeOK
    <2>2. ASSUME NEW t \in Tags, state[t] = "Executing" PROVE FALSE
      <3> DEFINE E == {u \in Tags : state[u] = "Executing"}
      <3>1. t \in E /\ E \in SUBSET Tags
        BY <2>2, Zenon
      <3>2. Cardinality(E) \in Nat \ {0}
        BY <3>1, CountOut, Zenon
      <3>3. executing = Cardinality(E)
        BY Zenon DEF ConnInv, SlotInv, ExecutingCounted
      <3> QED BY <2>1, <3>2, <3>3, Zenon
    <2>3. op = "none"
      BY <2>1, Zenon DEF ConnInv, SendInv, BatchesPlaced
    <2>4. ASSUME NEW b \in Batches PROVE undel[b] = 0
      <3>1. ~(undel[b] > 0)
        BY <2>1, Zenon DEF ConnInv, SendInv, NotifsStashed, PendingPlaced, AtBatch
      <3>2. undel[b] \in Nat
        BY Zenon DEF ConnInv, ConnTypeOK
      <3> QED BY <3>1, <3>2
    <2> QED BY <2>2, <2>3, <2>4, Zenon
  <1> QED BY <1>1, ConnectionInvariant, PTL

\* The parked send task is scheduled whenever there is work, the list is
\* closed or the oldest batch is notified: next_work_reaping misses no wake.
THEOREM SenderNeverStranded == ConnSpec => []SenderNotStranded
  <1>1. ConnInv => SenderNotStranded
    BY Zenon DEF ConnInv, SenderAwake, SenderNotStranded
  <1> QED BY <1>1, ConnectionInvariant, PTL

\* A shutdown of a descriptor that was closed comes only from a task that
\* teardown leaked.
THEOREM StaleShutdownsFromLeaks == ConnSpec => []StaleShutdownOnlyAfterLeak
  <1>1. ConnInv => StaleShutdownOnlyAfterLeak
    BY Zenon DEF ConnInv, OutcomeOK, StaleShutdownOnlyAfterLeak
  <1> QED BY <1>1, ConnectionInvariant, PTL

=============================================================================
