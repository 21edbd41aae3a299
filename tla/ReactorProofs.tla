--------------------------- MODULE ReactorProofs ----------------------------
(***************************************************************************)
(* Proofs, for any number of operations, slab keys and ring entries, of    *)
(* what the reactor promises: the memory of an operation outlives its      *)
(* request, a cancel never hits an operation whose future is held, results *)
(* arrive once and in order, and no wakeup is lost.                        *)
(*                                                                         *)
(* None of them is inductive.  The invariant follows a request from the    *)
(* push through the two rings: wherever it is, its key leads to the entry  *)
(* it was submitted with, so a key is reused only after its last CQE; and  *)
(* a cancel precedes, in the submission ring, every request that reuses    *)
(* its key.                                                                *)
(***************************************************************************)
EXTENDS Reactor, TLAPS

Requests == [key : Keys, id : Ops]
Sqes == [kind : {"op"}, key : Keys, id : Ops] \cup [kind : {"cancel"}, key : Keys]
Cqes == [kind : {"op"}, key : Keys, id : Ops, n : Nat, more : BOOLEAN]
          \cup [kind : {"ignore"}]

ReactorTypeOK ==
  /\ slab \in [Keys -> OpEntry \cup {None}]
  /\ sq \in Seq(Sqes) /\ cq \in Seq(Cqes)
  /\ inflight \in SUBSET Requests /\ cancelled \in SUBSET Ops
  /\ posted \in [Ops -> Nat] /\ delivered \in [Ops -> Nat]
  /\ fut \in [Ops -> {"new", "held", "done", "dropped", "failed"}]
  /\ mem \in [Ops -> {"caller", "entry", "freed"}]
  /\ ready \in SUBSET Ops
  /\ pc \in {"run", "flush", "reap", "enter", "condvar", "gone", "leaked"}
  /\ pc = "flush" => pushing \in Sqes
  /\ woken \in BOOLEAN /\ dying \in BOOLEAN

Occupied(k) == slab[k] # None

\* The entry under k is the one o was submitted with, and o may still complete.
Pending(k, o) == Occupied(k) /\ slab[k].id = o /\ ~slab[k].terminated

\* One entry per operation; an orphan is exactly an entry of a dropped future.
EntriesOwned ==
  \A k \in Keys : Occupied(k) =>
    /\ fut[slab[k].id] = IF slab[k].orphaned THEN "dropped" ELSE "held"
    /\ Owns(slab[k].id) => mem[slab[k].id] = "entry"
    /\ slab[k].results # <<>> /\ ~Multi(slab[k].id) => slab[k].terminated
    /\ \A j \in Keys : Occupied(j) /\ slab[j].id = slab[k].id => j = k

FuturesServed ==
  \A o \in Ops :
    /\ fut[o] = "new" => posted[o] = 0 /\ delivered[o] = 0
    /\ fut[o] = "held" => \E k \in Keys : Occupied(k) /\ slab[k].id = o

\* A request in the submission ring has not completed and is there only once.
QueuedPending ==
  \A i \in 1..Len(sq) : sq[i].kind = "op" =>
    /\ Pending(sq[i].key, sq[i].id) /\ posted[sq[i].id] = 0
    /\ \A r \in inflight : r.id # sq[i].id
    /\ \A j \in 1..Len(sq) : sq[j].kind = "op" /\ sq[j].id = sq[i].id => j = i

\* So has one that waits for the flush, which is in no ring yet.
PushedPending ==
  pc = "flush" /\ pushing.kind = "op" =>
    /\ Pending(pushing.key, pushing.id) /\ posted[pushing.id] = 0
    /\ fut[pushing.id] = "held"
    /\ \A r \in inflight : r.id # pushing.id
    /\ \A i \in 1..Len(sq) : sq[i].kind = "op" => sq[i].id # pushing.id

InFlightPending == \A r \in inflight : Pending(r.key, r.id)

\* A CQE finds its entry; after the one without F_MORE nothing follows.
CompletedPending ==
  \A i \in 1..Len(cq) : cq[i].kind = "op" =>
    /\ Pending(cq[i].key, cq[i].id) /\ posted[cq[i].id] > 0
    /\ IF cq[i].more
       THEN Multi(cq[i].id)
       ELSE /\ \A r \in inflight : r.id # cq[i].id
            /\ \A j \in i + 1 .. Len(cq) : cq[j].kind = "op" => cq[j].id # cq[i].id

\* What a queued cancel can find when the kernel takes it was dropped.
CancelsAimed ==
  /\ \A o \in cancelled : fut[o] = "dropped"
  /\ \A i \in 1..Len(sq) : sq[i].kind = "cancel" =>
       /\ \A r \in inflight : r.key = sq[i].key => fut[r.id] = "dropped"
       /\ \A j \in 1 .. i - 1 :
            sq[j].kind = "op" /\ sq[j].key = sq[i].key => fut[sq[j].id] = "dropped"
  /\ pc = "flush" /\ pushing.kind = "cancel" =>
       /\ \A r \in inflight : r.key = pushing.key => fut[r.id] = "dropped"
       /\ \A j \in 1..Len(sq) :
            sq[j].kind = "op" /\ sq[j].key = pushing.key => fut[sq[j].id] = "dropped"

\* A held operation is scheduled or will be by its next CQE.
TasksWoken ==
  /\ ~dying => \A k \in Keys : Occupied(k) /\ ~slab[k].orphaned =>
       slab[k].id \in ready \/ (slab[k].waker /\ slab[k].results = <<>>)
  /\ dying \/ pc \in {"enter", "condvar"} \/ (pc = "reap" /\ ~woken) => ready = {}
  /\ dying /\ pc \in {"reap", "enter", "condvar"} => \A o \in Ops : fut[o] # "held"
  /\ pc = "condvar" => \A k \in Keys : ~Occupied(k)

ReactorInv ==
  /\ ReactorTypeOK /\ EntriesOwned /\ FuturesServed
  /\ QueuedPending /\ PushedPending /\ InFlightPending /\ CompletedPending
  /\ CancelsAimed /\ TasksWoken /\ ResultsInOrder

-----------------------------------------------------------------------------
(* The rings.                                                              *)

\* A push to a ring goes last and leaves the others in place.
LEMMA AppendAt ==
  ASSUME NEW S, NEW s \in Seq(S), NEW e \in S
  PROVE  /\ Append(s, e) \in Seq(S) /\ Len(s) \in Nat /\ Len(Append(s, e)) = Len(s) + 1
         /\ \A i \in 1..Len(s) : Append(s, e)[i] = s[i]
         /\ Append(s, e)[Len(s) + 1] = e
  OBVIOUS

\* Taking the head of a ring moves the others one place up.
LEMMA TailAt ==
  ASSUME NEW S, NEW s \in Seq(S), s # <<>>
  PROVE  /\ Tail(s) \in Seq(S) /\ Len(s) \in Nat \ {0} /\ Len(Tail(s)) = Len(s) - 1
         /\ \A i \in 1 .. Len(s) - 1 : Tail(s)[i] = s[i + 1]
         /\ s[1] \in S /\ Head(s) = s[1]
  OBVIOUS

\* A ring without entries is empty.
LEMMA LengthZero ==
  ASSUME NEW S, NEW s \in Seq(S)
  PROVE  Len(s) = 0 <=> s = <<>>
  OBVIOUS

\* What a submission queue entry holds.
LEMMA SqeFields ==
  ASSUME NEW e \in Sqes
  PROVE  /\ e.key \in Keys
         /\ e.kind = "op" \/ e.kind = "cancel"
         /\ e.kind = "op" => e.id \in Ops
  BY Zenon DEF Sqes

\* What a completion queue entry holds.
LEMMA CqeFields ==
  ASSUME NEW c \in Cqes
  PROVE  /\ c.kind = "op" \/ c.kind = "ignore"
         /\ c.kind = "op" => /\ c.key \in Keys /\ c.id \in Ops /\ c.n \in Nat
                            /\ c.more \in BOOLEAN
  BY Zenon DEF Cqes

\* The two entries the reactor pushes.
LEMMA MadeSqes ==
  ASSUME NEW k \in Keys, NEW o \in Ops
  PROVE  /\ OpSqe(k, o) \in Sqes /\ OpSqe(k, o).kind = "op"
         /\ OpSqe(k, o).key = k /\ OpSqe(k, o).id = o
         /\ CancelSqe(k) \in Sqes /\ CancelSqe(k).kind = "cancel"
         /\ CancelSqe(k).key = k
  BY Zenon DEF OpSqe, CancelSqe, Sqes

\* An entry as Reactor::submit inserts it.
LEMMA NewEntryFields ==
  ASSUME NEW o \in Ops
  PROVE  /\ NewEntry(o) \in OpEntry /\ NewEntry(o) # None
         /\ NewEntry(o).id = o /\ NewEntry(o).results = <<>>
         /\ NewEntry(o).waker = FALSE /\ NewEntry(o).terminated = FALSE
         /\ NewEntry(o).orphaned = FALSE
  <1>1. NewEntry(o) \in OpEntry
    BY DEF NewEntry, OpEntry
  <1>2. None \notin OpEntry
    BY ReactorConstants, Zenon
  <1> QED BY <1>1, <1>2, Zenon DEF NewEntry

\* What an occupied slab entry holds.
LEMMA EntryFields ==
  ASSUME ReactorTypeOK, NEW k \in Keys, Occupied(k)
  PROVE  /\ slab[k] \in OpEntry /\ slab[k].id \in Ops /\ slab[k].results \in Seq(Nat)
         /\ slab[k].waker \in BOOLEAN /\ slab[k].terminated \in BOOLEAN
         /\ slab[k].orphaned \in BOOLEAN
  BY Zenon DEF ReactorTypeOK, Occupied, OpEntry

\* What the rings and the kernel hold is well formed.
LEMMA RingTypes ==
  ASSUME ReactorTypeOK
  PROVE  /\ Len(sq) \in Nat /\ Len(cq) \in Nat
         /\ \A i \in 1..Len(sq) :
              /\ sq[i] \in Sqes /\ sq[i].key \in Keys
              /\ sq[i].kind = "op" \/ sq[i].kind = "cancel"
              /\ sq[i].kind = "op" => sq[i].id \in Ops
         /\ \A i \in 1..Len(cq) :
              /\ cq[i] \in Cqes /\ (cq[i].kind = "op" \/ cq[i].kind = "ignore")
              /\ cq[i].kind = "op" => /\ cq[i].key \in Keys /\ cq[i].id \in Ops
                                     /\ cq[i].n \in Nat /\ cq[i].more \in BOOLEAN
         /\ \A r \in inflight : r \in Requests /\ r.key \in Keys /\ r.id \in Ops
  <1>1. sq \in Seq(Sqes) /\ cq \in Seq(Cqes) /\ inflight \in SUBSET Requests
    BY Zenon DEF ReactorTypeOK
  <1>2. \A i \in 1..Len(sq) : sq[i] \in Sqes
    BY <1>1
  <1>3. \A i \in 1..Len(cq) : cq[i] \in Cqes
    BY <1>1
  <1> QED BY <1>1, <1>2, <1>3, SqeFields, CqeFields DEF Requests

\* Nothing is above zero that is zero.
LEMMA ZeroNotAbove == ~(0 > 0)
  OBVIOUS

\* A ring's positions after the first are positions of it.
LEMMA AfterFirst ==
  ASSUME NEW n \in Nat, NEW i \in 2..n
  PROVE  i \in 1..n /\ i # 1 /\ i \in 1 + 1 .. n
  OBVIOUS

\* Two positions that move to the same one are the same.
LEMMA SameShift ==
  ASSUME NEW n, NEW i \in 1..n, NEW j \in 1..n, i + 1 = j + 1
  PROVE  i = j
  OBVIOUS

\* Nothing follows the last position of a ring.
LEMMA NoneAfterLast ==
  ASSUME NEW n \in Nat, NEW j \in (n + 1) + 1 .. n + 1
  PROVE  FALSE
  OBVIOUS

\* The kernel's push to the completion ring goes last.
LEMMA CqAppended ==
  ASSUME ReactorTypeOK, NEW c \in Cqes, cq' = Append(cq, c)
  PROVE  /\ cq' \in Seq(Cqes) /\ Len(cq) \in Nat /\ Len(cq') = Len(cq) + 1
         /\ Len(cq) + 1 \in 1..Len(cq') /\ cq'[Len(cq) + 1] = c
         /\ \A i \in 1..Len(cq) : i \in 1..Len(cq') /\ cq'[i] = cq[i]
         /\ \A i \in 1..Len(cq') : i \in 1..Len(cq) \/ i = Len(cq) + 1
         /\ \A i \in 1..Len(cq), j \in 1..Len(cq') :
              j \in i + 1 .. Len(cq') /\ j \in 1..Len(cq) => j \in i + 1 .. Len(cq)
         /\ \A i \in 1..Len(cq) : \A j \in i + 1 .. Len(cq') : j \in 1..Len(cq')
  <1>1. cq \in Seq(Cqes)
    BY Zenon DEF ReactorTypeOK
  <1>2. /\ Append(cq, c) \in Seq(Cqes) /\ Len(cq) \in Nat /\ Len(Append(cq, c)) = Len(cq) + 1
        /\ \A i \in 1..Len(cq) : Append(cq, c)[i] = cq[i]
        /\ Append(cq, c)[Len(cq) + 1] = c
    BY <1>1, AppendAt, Zenon
  <1> QED BY <1>2

\* Who owns an entry depends on the entries, the futures and the memory.
LEMMA EntriesKept ==
  ASSUME EntriesOwned, UNCHANGED <<slab, fut, mem>>
  PROVE  EntriesOwned'
  BY DEF EntriesOwned, Occupied

\* A future is served as long as its entry stays.
LEMMA FuturesKept ==
  ASSUME FuturesServed, UNCHANGED <<fut, posted, delivered>>,
         \A j \in Keys : Occupied(j) => Occupied(j)' /\ slab'[j].id = slab[j].id
  PROVE  FuturesServed'
  BY DEF FuturesServed

\* Who is woken depends on the entries, the run queue and the loop.
LEMMA TasksKept ==
  ASSUME TasksWoken, UNCHANGED <<slab, fut, ready, pc, woken, dying>>
  PROVE  TasksWoken'
  BY DEF TasksWoken, Occupied

\* The order of the results depends on the entries and the completion ring.
LEMMA ResultsKept ==
  ASSUME ResultsInOrder, UNCHANGED <<slab, cq, posted, delivered>>
  PROVE  ResultsInOrder'
  BY DEF ResultsInOrder, InOrder, CqeOf

\* An operation that completed is no longer in the submission ring.
LEMMA CompletedNotQueued ==
  ASSUME QueuedPending, NEW o, posted[o] > 0
  PROVE  \A i \in 1..Len(sq) : sq[i].kind = "op" => sq[i].id # o
  BY ZeroNotAbove, Zenon DEF QueuedPending

\* One that did not complete is not in the completion ring.
LEMMA QueuedNotCompleted ==
  ASSUME CompletedPending, NEW o, posted[o] = 0
  PROVE  \A i \in 1..Len(cq) : cq[i].kind = "op" => cq[i].id # o
  BY ZeroNotAbove, Zenon DEF CompletedPending

\* push_sqe, whichever way it goes: what was in the ring stays where it was, and
\* the entry is at its end or waits for the flush.
LEMMA PushFacts ==
  ASSUME ReactorTypeOK, pc = "run", NEW e \in Sqes, pushSqe(e)
  PROVE  /\ sq' \in Seq(Sqes)
         /\ \A i \in 1..Len(sq) : i \in 1..Len(sq') /\ sq'[i] = sq[i]
         /\ \A i \in 1..Len(sq') : i \in 1..Len(sq) \/ (i = Len(sq) + 1 /\ sq'[i] = e)
         /\ pc' \in {"run", "flush"}
         /\ pc' = "flush" => pushing' = e /\ sq' = sq
  <1>1. CASE Len(sq) < SqEntries
    <2>1. sq' = Append(sq, e) /\ pc' = pc
      BY <1>1, Zenon DEF pushSqe
    <2>2. sq \in Seq(Sqes)
      BY Zenon DEF ReactorTypeOK
    <2> QED BY <2>1, <2>2, AppendAt
  <1>2. CASE ~(Len(sq) < SqEntries)
    <2>1. sq' = sq /\ pc' = "flush" /\ pushing' = e
      BY <1>2, Zenon DEF pushSqe
    <2> QED BY <2>1, Zenon DEF ReactorTypeOK
  <1> QED BY <1>1, <1>2, Zenon

-----------------------------------------------------------------------------
(* Every step preserves the invariant.                                     *)

\* The order of an operation's results depends on its entry's results and on
\* the completion ring.
LEMMA SameOrder ==
  ASSUME NEW k \in Keys, NEW o \in Ops, InOrder(k, o),
         slab'[k].results = slab[k].results,
         delivered'[o] = delivered[o], posted'[o] = posted[o], cq' = cq
  PROVE  InOrder(k, o)'
  BY Zenon DEF InOrder, CqeOf

\* A cancel stays aimed: what was dropped stays dropped.
LEMMA CancelsStay ==
  ASSUME ReactorInv, \A o \in Ops : fut[o] = "dropped" => fut'[o] = "dropped"
  PROVE  /\ \A o \in cancelled : fut'[o] = "dropped"
         /\ \A i \in 1..Len(sq) : sq[i].kind = "cancel" =>
              /\ \A r \in inflight : r.key = sq[i].key => fut'[r.id] = "dropped"
              /\ \A j \in 1 .. i - 1 :
                   sq[j].kind = "op" /\ sq[j].key = sq[i].key => fut'[sq[j].id] = "dropped"
  <1>1. ReactorTypeOK
    BY Zenon DEF ReactorInv
  <1>2. \A o \in cancelled : fut'[o] = "dropped"
    BY Zenon DEF ReactorInv, ReactorTypeOK, CancelsAimed
  <1>3. ASSUME NEW i \in 1..Len(sq), sq[i].kind = "cancel"
        PROVE  /\ \A r \in inflight : r.key = sq[i].key => fut'[r.id] = "dropped"
               /\ \A j \in 1 .. i - 1 :
                    sq[j].kind = "op" /\ sq[j].key = sq[i].key => fut'[sq[j].id] = "dropped"
    <2>1. \A r \in inflight : r.key = sq[i].key => fut'[r.id] = "dropped"
      BY <1>1, <1>3, RingTypes, Zenon DEF ReactorInv, CancelsAimed
    <2>2. \A j \in 1 .. i - 1 : j \in 1..Len(sq)
      BY <1>1, RingTypes
    <2> QED BY <1>1, <1>3, <2>1, <2>2, RingTypes, Zenon DEF ReactorInv, CancelsAimed
  <1> QED BY <1>2, <1>3, Zenon

\* Reactor::submit takes a free key and pushes the request.
LEMMA SubmitInv ==
  ASSUME ReactorInv, NEW o \in Ops, NEW k \in Keys, Submit(o, k)
  PROVE  ReactorInv'
  <1>1. /\ pc = "run" /\ ~dying /\ fut[o] = "new" /\ slab[k] = None
        /\ slab' = [slab EXCEPT ![k] = NewEntry(o)]
        /\ mem' = [mem EXCEPT ![o] = IF Owns(o) THEN "entry" ELSE @]
        /\ fut' = [fut EXCEPT ![o] = "held"] /\ ready' = ready \cup {o}
        /\ pushSqe(OpSqe(k, o))
        /\ UNCHANGED <<inflight, cancelled, cq, posted, delivered, woken, dying>>
    BY Zenon DEF Submit, kernelVars, loopVars
  <1>2. ReactorTypeOK
    BY Zenon DEF ReactorInv
  <1>3. /\ sq' \in Seq(Sqes)
        /\ \A i \in 1..Len(sq) : i \in 1..Len(sq') /\ sq'[i] = sq[i]
        /\ \A i \in 1..Len(sq') :
             i \in 1..Len(sq) \/ (i = Len(sq) + 1 /\ sq'[i] = OpSqe(k, o))
        /\ pc' \in {"run", "flush"}
        /\ pc' = "flush" => pushing' = OpSqe(k, o) /\ sq' = sq
    BY <1>1, <1>2, MadeSqes, PushFacts, Zenon
  <1>4. ReactorTypeOK'
    <2>1. slab' \in [Keys -> OpEntry \cup {None}]
      BY <1>1, <1>2, NewEntryFields, Zenon DEF ReactorTypeOK
    <2>2. /\ fut' \in [Ops -> {"new", "held", "done", "dropped", "failed"}]
          /\ mem' \in [Ops -> {"caller", "entry", "freed"}]
          /\ ready' \in SUBSET Ops
      BY <1>1, <1>2, Zenon DEF ReactorTypeOK
    <2>3. pc' = "flush" => pushing' \in Sqes
      BY <1>3, MadeSqes
    <2> QED BY <1>1, <1>2, <1>3, <2>1, <2>2, <2>3, Zenon DEF ReactorTypeOK
  <1>5. \A j \in Keys : /\ j # k => slab'[j] = slab[j]
                        /\ Occupied(j) => j # k /\ slab[j].id # o
    BY <1>1, <1>2, Zenon DEF ReactorInv, ReactorTypeOK, EntriesOwned, Occupied
  <1>6. slab'[k] = NewEntry(o)
    BY <1>1, <1>2, Zenon DEF ReactorTypeOK
  <1>7. \A j \in Keys, p \in Ops : Pending(j, p) => Pending(j, p)' /\ p # o
    BY <1>5, Zenon DEF Pending, Occupied
  <1>8. EntriesOwned'
    <2> SUFFICES ASSUME NEW j \in Keys, Occupied(j)'
                 PROVE  /\ fut'[slab'[j].id] = IF slab'[j].orphaned THEN "dropped" ELSE "held"
                        /\ Owns(slab'[j].id) => mem'[slab'[j].id] = "entry"
                        /\ slab'[j].results # <<>> /\ ~Multi(slab'[j].id) => slab'[j].terminated
                        /\ \A l \in Keys : Occupied(l)' /\ slab'[l].id = slab'[j].id => l = j
      BY Zenon DEF EntriesOwned
    <2>1. CASE j = k
      <3>1. /\ slab'[k].id = o /\ ~slab'[k].orphaned /\ slab'[k].results = <<>>
            /\ fut'[o] = "held" /\ (Owns(o) => mem'[o] = "entry")
        BY <1>1, <1>2, <1>6, NewEntryFields, Zenon DEF ReactorTypeOK
      <3>2. \A l \in Keys : Occupied(l)' /\ slab'[l].id = o => l = k
        BY <1>5, Zenon DEF Occupied
      <3> QED BY <2>1, <3>1, <3>2, Zenon
    <2>2. CASE j # k
      <3>1. Occupied(j) /\ slab'[j] = slab[j] /\ slab[j].id \in Ops /\ slab[j].id # o
        BY <2>2, <1>2, <1>5, EntryFields, Zenon DEF Occupied
      <3>2. fut'[slab[j].id] = fut[slab[j].id] /\ mem'[slab[j].id] = mem[slab[j].id]
        BY <3>1, <1>1, <1>2, Zenon DEF ReactorTypeOK
      <3>3. ASSUME NEW l \in Keys, Occupied(l)', slab'[l].id = slab'[j].id PROVE l = j
        <4>1. l # k
          BY <1>6, <3>1, <3>3, NewEntryFields, Zenon
        <4> QED BY <4>1, <1>5, <3>1, <3>3 DEF ReactorInv, EntriesOwned, Occupied
      <3> QED BY <3>1, <3>2, <3>3, Zenon DEF ReactorInv, EntriesOwned
    <2> QED BY <2>1, <2>2, Zenon
  <1>9. FuturesServed'
    <2>1. Occupied(k)' /\ slab'[k].id = o /\ fut'[o] = "held"
      BY <1>1, <1>2, <1>6, NewEntryFields, Zenon DEF ReactorTypeOK, Occupied
    <2>2. \A p \in Ops \ {o} : fut'[p] = fut[p]
      BY <1>1, <1>2, Zenon DEF ReactorTypeOK
    <2>3. \A j \in Keys : Occupied(j) => Occupied(j)' /\ slab'[j].id = slab[j].id
      BY <1>5, Zenon DEF Occupied
    <2>4. fut'[o] # "new"
      BY <2>1, Zenon
    <2> QED BY <1>1, <2>1, <2>2, <2>3, <2>4 DEF ReactorInv, FuturesServed
  <1>10. InFlightPending'
    BY <1>1, <1>2, <1>7, Zenon DEF ReactorInv, ReactorTypeOK, InFlightPending, Requests
  <1>11. Pending(k, o)' /\ posted'[o] = 0
    BY <1>1, <1>6, NewEntryFields, Zenon DEF Pending, Occupied, ReactorInv, FuturesServed
  <1>12. /\ \A r \in inflight : r.id # o
         /\ \A i \in 1..Len(sq) : sq[i].kind = "op" => sq[i].id # o
         /\ \A i \in 1..Len(cq) : cq[i].kind = "op" => cq[i].id # o
    BY <1>2, <1>7, RingTypes, Zenon DEF ReactorInv, InFlightPending, QueuedPending, CompletedPending
  <1>13. QueuedPending'
    <2> SUFFICES ASSUME NEW i \in 1..Len(sq'), sq'[i].kind = "op"
                 PROVE  /\ Pending(sq[i].key, sq[i].id)' /\ posted'[sq'[i].id] = 0
                        /\ \A r \in inflight' : r.id # sq'[i].id
                        /\ \A j \in 1..Len(sq') :
                             sq'[j].kind = "op" /\ sq'[j].id = sq'[i].id => j = i
      BY Zenon DEF QueuedPending
    <2>1. CASE i \in 1..Len(sq)
      <3>1. /\ sq'[i] = sq[i] /\ sq[i].id \in Ops /\ sq[i].key \in Keys
            /\ Pending(sq[i].key, sq[i].id) /\ posted[sq[i].id] = 0
            /\ \A r \in inflight : r.id # sq[i].id
            /\ \A j \in 1..Len(sq) : sq[j].kind = "op" /\ sq[j].id = sq[i].id => j = i
        BY <2>1, <1>2, <1>3, RingTypes, Zenon DEF ReactorInv, QueuedPending
      <3>2. Pending(sq[i].key, sq[i].id)'
        BY <3>1, <1>7, Zenon
      <3>3. ASSUME NEW j \in 1..Len(sq'), sq'[j].kind = "op", sq'[j].id = sq'[i].id PROVE j = i
        BY <3>1, <3>3, <2>1, <1>3, <1>12, MadeSqes
      <3> QED BY <3>1, <3>2, <3>3, <1>1, Zenon
    <2>2. CASE i = Len(sq) + 1 /\ sq'[i] = OpSqe(k, o)
      BY <2>2, <1>1, <1>3, <1>11, <1>12, MadeSqes, SMTT(20)
    <2> QED BY <1>3, <2>1, <2>2, Zenon
  <1>14. PushedPending'
    BY <1>1, <1>2, <1>3, <1>11, <1>12, MadeSqes DEF ReactorTypeOK, PushedPending
  <1>15. CompletedPending'
    BY <1>1, <1>2, <1>7, CqeFields DEF ReactorInv, ReactorTypeOK, CompletedPending
  <1>16. CancelsAimed'
    <2>1. \A p \in Ops : fut[p] = "dropped" => fut'[p] = "dropped"
      BY <1>1, <1>2, Zenon DEF ReactorTypeOK
    <2>2. \A p \in cancelled' : fut'[p] = "dropped"
      BY <1>1, <1>2, <2>1, Zenon DEF ReactorInv, CancelsAimed, ReactorTypeOK
    <2>3. ASSUME NEW i \in 1..Len(sq'), sq'[i].kind = "cancel"
          PROVE  /\ \A r \in inflight' : r.key = sq'[i].key => fut'[r.id] = "dropped"
                 /\ \A j \in 1 .. i - 1 :
                      sq'[j].kind = "op" /\ sq'[j].key = sq'[i].key => fut'[sq'[j].id] = "dropped"
      <3>1. i \in 1..Len(sq) /\ sq'[i] = sq[i] /\ Len(sq) \in Nat
        BY <1>2, <1>3, <2>3, MadeSqes, RingTypes
      <3>2. \A j \in 1 .. i - 1 : j \in 1..Len(sq) /\ sq'[j] = sq[j]
        BY <1>3, <3>1
      <3>3. /\ \A r \in inflight : r.key = sq[i].key => fut'[r.id] = "dropped"
            /\ \A j \in 1 .. i - 1 :
                 sq[j].kind = "op" /\ sq[j].key = sq[i].key => fut'[sq[j].id] = "dropped"
        BY <2>1, <2>3, <3>1, CancelsStay, Zenon
      <3> QED BY <1>1, <3>1, <3>2, <3>3, Zenon
    <2> QED BY <1>3, <2>2, <2>3, MadeSqes, Zenon DEF CancelsAimed
  <1>17. TasksWoken'
    <2>1. slab'[k].id = o /\ slab'[k].results = <<>>
      BY <1>6, NewEntryFields, Zenon
    <2>2. \A j \in Keys : j # k /\ Occupied(j)' => Occupied(j) /\ slab'[j] = slab[j]
      BY <1>5, Zenon DEF Occupied
    <2>3. \A j \in Keys : Occupied(j)' /\ ~slab'[j].orphaned =>
            slab'[j].id \in ready' \/ (slab'[j].waker /\ slab'[j].results = <<>>)
      BY <1>1, <2>1, <2>2 DEF ReactorInv, TasksWoken
    <2>4. /\ pc' # "reap" /\ pc' # "enter" /\ pc' # "condvar" /\ ~dying'
      BY <1>1, <1>3, Zenon
    <2> QED BY <2>3, <2>4, Zenon DEF TasksWoken
  <1>18. ResultsInOrder'
    <2> SUFFICES ASSUME NEW j \in Keys, Occupied(j)', ~slab'[j].orphaned
                 PROVE  /\ InOrder(j, slab[j].id)'
                        /\ slab'[j].terminated => slab'[j].results # <<>>
      BY Zenon DEF ResultsInOrder, Occupied
    <2>1. CASE j = k
      <3>1. posted'[o] = 0 /\ delivered'[o] = 0
        BY <1>1, Zenon DEF ReactorInv, FuturesServed
      <3>2. InOrder(k, o)'
        <4>0. slab'[k].results = <<>>
          BY <1>6, NewEntryFields, Zenon
        <4>1. Len(slab'[k].results) = 0
          BY <4>0
        <4>2. \A i \in 1..Len(cq') : ~CqeOf(i, o)'
          BY <1>1, <1>12, Zenon DEF CqeOf
        <4> QED BY <3>1, <4>1, <4>2 DEF InOrder
      <3> QED BY <2>1, <3>2, <1>6, NewEntryFields, Zenon
    <2>2. CASE j # k
      BY <2>2, <1>1, <1>2, <1>5, EntryFields, SameOrder, Zenon DEF ReactorInv, ResultsInOrder, Occupied
    <2> QED BY <2>1, <2>2, Zenon
  <1> QED BY <1>4, <1>8, <1>9, <1>10, <1>13, <1>14, <1>15, <1>16, <1>17, <1>18, Zenon DEF ReactorInv

\* Steps of the loop alone: what the hook, the drop and the drain do to pc.
LEMMA LoopInv ==
  ASSUME ReactorInv, pc' # "flush" \/ (pc = "flush" /\ pushing' = pushing), TasksWoken',
         pc' \in {"run", "flush", "reap", "enter", "condvar", "gone", "leaked"},
         woken' \in BOOLEAN, dying' \in BOOLEAN, ready' \in SUBSET Ops,
         UNCHANGED <<slab, sq, inflight, cancelled, cq, posted, delivered, fut, mem>>
  PROVE  ReactorInv'
  <1>1. ReactorTypeOK'
    BY Zenon DEF ReactorInv, ReactorTypeOK
  <1>2. EntriesOwned' /\ FuturesServed' /\ InFlightPending'
    BY DEF ReactorInv, EntriesOwned, FuturesServed, InFlightPending, Pending, Occupied
  <1>3. QueuedPending' /\ PushedPending' /\ CompletedPending'
    BY DEF ReactorInv, QueuedPending, PushedPending, CompletedPending, Pending, Occupied
  <1>4. CancelsAimed'
    BY DEF ReactorInv, CancelsAimed
  <1>5. ResultsInOrder'
    BY DEF ReactorInv, ResultsInOrder, InOrder, CqeOf
  <1> QED BY <1>1, <1>2, <1>3, <1>4, <1>5, Zenon DEF ReactorInv

\* No request, and no CQE, of operation o is on its way.
Unreferenced(o) ==
  /\ \A i \in 1..Len(sq) : sq[i].kind = "op" => sq[i].id # o
  /\ \A r \in inflight : r.id # o
  /\ \A i \in 1..Len(cq) : cq[i].kind = "op" => cq[i].id # o

\* Nothing in the rings or the kernel refers to a terminated entry.
LEMMA TerminatedUnreferenced ==
  ASSUME ReactorInv, NEW k \in Keys, Occupied(k), slab[k].terminated
  PROVE  Unreferenced(slab[k].id)
  <1>1. \A j \in Keys, o \in Ops : Pending(j, o) => o # slab[k].id
    BY Zenon DEF ReactorInv, EntriesOwned, Pending
  <1>2. ReactorTypeOK
    BY Zenon DEF ReactorInv
  <1> QED BY <1>1, <1>2, RingTypes, Zenon
          DEF ReactorInv, QueuedPending, InFlightPending, CompletedPending, Unreferenced

\* Requests keep leading to their entries while the only operations that leave
\* the slab, or end, are ones nothing refers to any more.
LEMMA RequestsKept ==
  ASSUME ReactorInv, cq' = cq, UNCHANGED <<inflight, posted>>,
         \A i \in 1..Len(sq') : sq'[i].kind = "op" => i \in 1..Len(sq) /\ sq'[i] = sq[i],
         \A k \in Keys, o \in Ops : Pending(k, o) => Pending(k, o)' \/ Unreferenced(o)
  PROVE  QueuedPending' /\ InFlightPending' /\ CompletedPending'
  <1>1. ReactorTypeOK
    BY Zenon DEF ReactorInv
  <1>2. InFlightPending'
    BY <1>1, RingTypes, Zenon DEF ReactorInv, InFlightPending, Unreferenced
  <1>3. \A i \in 1..Len(cq) : cq[i].kind = "op" => Pending(cq[i].key, cq[i].id)'
    BY <1>1, RingTypes, Zenon DEF ReactorInv, CompletedPending, Unreferenced
  <1>4. CompletedPending'
    BY <1>3, Zenon DEF ReactorInv, CompletedPending
  <1>5. \A i \in 1..Len(sq) : sq[i].kind = "op" =>
          \A k \in Keys, o \in Ops : sq[i].key = k /\ sq[i].id = o => Pending(k, o)'
    BY <1>1, RingTypes DEF ReactorInv, QueuedPending, Unreferenced
  <1>6. QueuedPending'
    BY <1>1, <1>5, RingTypes DEF ReactorInv, QueuedPending
  <1> QED BY <1>2, <1>4, <1>6, Zenon

\* Cancels stay aimed while the rings stay and no future comes back.
LEMMA CancelsKept ==
  ASSUME ReactorInv, pc' # "flush", UNCHANGED <<sq, inflight, cancelled>>,
         \A o \in Ops : fut[o] = "dropped" => fut'[o] = "dropped"
  PROVE  CancelsAimed'
  BY CancelsStay DEF CancelsAimed

\* An entry nothing refers to leaves the slab: a poll took its last result, a
\* terminated operation was dropped, or its push failed.
LEMMA DropInv ==
  ASSUME ReactorInv, ReactorTypeOK', pc' = "run",
         NEW k \in Keys, Occupied(k), NEW o \in Ops, o = slab[k].id, Unreferenced(o),
         slab' = [slab EXCEPT ![k] = None], fut'[o] \in {"done", "dropped", "failed"},
         fut[o] # "dropped", ready' = ready \ {o},
         \A p \in Ops \ {o} : /\ fut'[p] = fut[p] /\ mem'[p] = mem[p]
                              /\ delivered'[p] = delivered[p],
         UNCHANGED <<sq, inflight, cancelled, cq, posted, dying>>
  PROVE  ReactorInv'
  <1>1. ReactorTypeOK
    BY Zenon DEF ReactorInv
  <1>2. \A j \in Keys : Occupied(j)' => /\ j # k /\ Occupied(j) /\ slab'[j] = slab[j]
                                        /\ slab[j].id \in Ops \ {o}
    BY <1>1, EntryFields DEF ReactorInv, ReactorTypeOK, EntriesOwned, Occupied
  <1>3. \A j \in Keys : Occupied(j) /\ slab[j].id # o => Occupied(j)' /\ slab'[j] = slab[j]
    BY <1>1, Zenon DEF ReactorTypeOK, Occupied
  <1>4. EntriesOwned'
    <2> SUFFICES ASSUME NEW j \in Keys, Occupied(j)'
                 PROVE  /\ fut'[slab'[j].id] = IF slab'[j].orphaned THEN "dropped" ELSE "held"
                        /\ Owns(slab'[j].id) => mem'[slab'[j].id] = "entry"
                        /\ slab'[j].results # <<>> /\ ~Multi(slab'[j].id)
                             => slab'[j].terminated
                        /\ \A i \in Keys : Occupied(i)' /\ slab'[i].id = slab'[j].id => i = j
      BY Zenon DEF EntriesOwned
    <2>1. Occupied(j) /\ slab'[j] = slab[j] /\ slab[j].id \in Ops \ {o}
      BY <1>2, Zenon
    <2> QED BY <1>2, <2>1 DEF ReactorInv, EntriesOwned
  <1>5. FuturesServed'
    <2> SUFFICES ASSUME NEW p \in Ops
                 PROVE  /\ fut'[p] = "new" => posted'[p] = 0 /\ delivered'[p] = 0
                        /\ fut'[p] = "held" => \E j \in Keys : Occupied(j)' /\ slab'[j].id = p
      BY Zenon DEF FuturesServed
    <2>1. CASE p = o
      BY <2>1, Zenon
    <2>2. CASE p # o
      BY <2>2, <1>3 DEF ReactorInv, FuturesServed
    <2> QED BY <2>1, <2>2, Zenon
  <1>6. \A j \in Keys, p \in Ops : Pending(j, p) => Pending(j, p)' \/ Unreferenced(p)
    BY <1>3 DEF Pending
  <1>7. QueuedPending' /\ InFlightPending' /\ CompletedPending'
    BY <1>6, RequestsKept, Zenon
  <1>8. PushedPending'
    BY Zenon DEF PushedPending
  <1>9. CancelsAimed'
    BY CancelsKept, Zenon
  <1>10. TasksWoken'
    BY <1>2 DEF ReactorInv, TasksWoken
  <1>11. ResultsInOrder'
    <2> SUFFICES ASSUME NEW j \in Keys, Occupied(j)', ~slab'[j].orphaned
                 PROVE  /\ InOrder(j, slab[j].id)'
                        /\ slab'[j].terminated => slab'[j].results # <<>>
      BY Zenon DEF ResultsInOrder, Occupied
    <2> QED BY <1>2, SameOrder DEF ReactorInv, ResultsInOrder, Occupied
  <1> QED BY <1>4, <1>5, <1>7, <1>8, <1>9, <1>10, <1>11, Zenon DEF ReactorInv

\* A poll leaves the entry of a held operation in the slab.
LEMMA PollInv ==
  ASSUME ReactorInv, ReactorTypeOK', pc' = "run",
         NEW k \in Keys, Occupied(k), NEW o \in Ops, o = slab[k].id, fut[o] = "held",
         \A j \in Keys \ {k} : slab'[j] = slab[j],
         Occupied(k)', slab'[k].id = o, ~slab'[k].orphaned,
         slab'[k].terminated = slab[k].terminated,
         slab'[k].results # <<>> => slab[k].results # <<>>,
         slab'[k].terminated => slab'[k].results # <<>>, InOrder(k, o)',
         o \in ready' \/ (slab'[k].waker /\ slab'[k].results = <<>>),
         ready' \in SUBSET ready,
         \A p \in Ops \ {o} : /\ p \in ready => p \in ready'
                              /\ delivered'[p] = delivered[p],
         UNCHANGED <<sq, inflight, cancelled, cq, posted, dying, fut, mem>>
  PROVE  ReactorInv'
  <1>1. ReactorTypeOK
    BY Zenon DEF ReactorInv
  <1>2. \A j \in Keys : /\ Occupied(j)' = Occupied(j)
                        /\ Occupied(j) => /\ slab'[j].id = slab[j].id
                                          /\ slab'[j].terminated = slab[j].terminated
    BY Zenon DEF Occupied
  <1>3. ~slab[k].orphaned
    BY Zenon DEF ReactorInv, EntriesOwned
  <1>4. \A j \in Keys \ {k} : Occupied(j) => slab[j].id \in Ops \ {o}
    BY <1>1, EntryFields, Zenon DEF ReactorInv, EntriesOwned
  <1>5. EntriesOwned'
    <2> SUFFICES ASSUME NEW j \in Keys, Occupied(j)'
                 PROVE  /\ fut'[slab'[j].id] = IF slab'[j].orphaned THEN "dropped" ELSE "held"
                        /\ Owns(slab'[j].id) => mem'[slab'[j].id] = "entry"
                        /\ slab'[j].results # <<>> /\ ~Multi(slab'[j].id)
                             => slab'[j].terminated
                        /\ \A i \in Keys : Occupied(i)' /\ slab'[i].id = slab'[j].id => i = j
      BY Zenon DEF EntriesOwned
    <2>1. CASE j = k
      BY <2>1, <1>2 DEF ReactorInv, EntriesOwned
    <2>2. CASE j # k
      BY <2>2, <1>2 DEF ReactorInv, EntriesOwned
    <2> QED BY <2>1, <2>2, Zenon
  <1>6. FuturesServed'
    BY <1>2 DEF ReactorInv, FuturesServed
  <1>7. \A j \in Keys, p \in Ops : Pending(j, p) => Pending(j, p)'
    BY <1>2, Zenon DEF Pending
  <1>8. QueuedPending' /\ InFlightPending' /\ CompletedPending'
    BY <1>7, RequestsKept, Zenon
  <1>9. PushedPending'
    BY Zenon DEF PushedPending
  <1>10. CancelsAimed'
    BY CancelsKept, Zenon
  <1>11. TasksWoken'
    <2>1. ASSUME NEW j \in Keys, Occupied(j)', ~slab'[j].orphaned, ~dying
          PROVE  slab'[j].id \in ready' \/ (slab'[j].waker /\ slab'[j].results = <<>>)
      <3>1. CASE j = k
        BY <3>1, Zenon
      <3>2. CASE j # k
        BY <2>1, <3>2, <1>2, <1>4 DEF ReactorInv, TasksWoken
      <3> QED BY <3>1, <3>2, Zenon
    <2>2. dying => ready' = {}
      BY Zenon DEF ReactorInv, TasksWoken
    <2> QED BY <2>1, <2>2, Zenon DEF TasksWoken
  <1>12. ResultsInOrder'
    <2> SUFFICES ASSUME NEW j \in Keys, Occupied(j)', ~slab'[j].orphaned
                 PROVE  /\ InOrder(j, slab[j].id)'
                        /\ slab'[j].terminated => slab'[j].results # <<>>
      BY Zenon DEF ResultsInOrder, Occupied
    <2>1. CASE j = k
      BY <2>1, Zenon
    <2>2. CASE j # k
      <3>1. slab'[j] = slab[j] /\ Occupied(j) /\ slab[j].id \in Ops \ {o}
        BY <2>2, <1>2, <1>4, Zenon
      <3>2. InOrder(j, slab[j].id) /\ (slab[j].terminated => slab[j].results # <<>>)
        BY <3>1, Zenon DEF ReactorInv, ResultsInOrder, Occupied
      <3> QED BY <3>1, <3>2, SameOrder, Zenon
    <2> QED BY <2>1, <2>2, Zenon
  <1> QED BY <1>5, <1>6, <1>8, <1>9, <1>10, <1>11, <1>12, Zenon DEF ReactorInv

\* A poll without a result leaves a waker in the entry.
LEMMA WakerInv ==
  ASSUME ReactorInv, NEW o \in Ops, NEW k \in Keys, pc = "run", fut[o] = "held",
         slab[k] # None, slab[k].id = o, slab[k].results = <<>>, setWaker(o, k),
         UNCHANGED <<sq, kernelVars, pc, pushing, loopVars>>
  PROVE  ReactorInv'
  <1>1. /\ slab' = [slab EXCEPT ![k].waker = TRUE] /\ ready' = ready \ {o}
        /\ UNCHANGED <<sq, inflight, cancelled, cq, posted, dying, woken, fut, mem,
                       delivered, pc, pushing>>
    BY Zenon DEF setWaker, kernelVars, loopVars
  <1>2. ReactorTypeOK /\ Occupied(k)
    BY Zenon DEF ReactorInv, Occupied
  <1>3. /\ slab[k] \in OpEntry /\ slab \in [Keys -> OpEntry \cup {None}]
        /\ None \notin OpEntry
    BY <1>2, EntryFields, ReactorConstants, Zenon DEF ReactorTypeOK
  <1>4. /\ slab'[k] \in OpEntry /\ slab'[k].id = o /\ slab'[k].waker
        /\ slab'[k].results = slab[k].results /\ slab'[k].terminated = slab[k].terminated
        /\ slab'[k].orphaned = slab[k].orphaned
        /\ \A j \in Keys \ {k} : slab'[j] = slab[j]
    BY <1>1, <1>3, Zenon DEF OpEntry
  <1>5. slab' \in [Keys -> OpEntry \cup {None}]
    BY <1>1, <1>3, <1>4, Zenon
  <1>6. ReactorTypeOK'
    BY <1>1, <1>2, <1>5, Zenon DEF ReactorTypeOK
  <1>7. ~slab[k].orphaned
    BY <1>2, Zenon DEF ReactorInv, EntriesOwned
  <1>8. InOrder(k, o) /\ ~slab[k].terminated
    BY <1>7, Zenon DEF ReactorInv, ResultsInOrder
  <1>9. InOrder(k, o)'
    BY <1>1, <1>4, <1>8, SameOrder, Zenon
  <1>10. Occupied(k)' /\ ~slab'[k].orphaned /\ ~slab'[k].terminated
    BY <1>3, <1>4, <1>7, <1>8, Zenon DEF Occupied
  <1>11. ready' \in SUBSET ready /\ \A p \in Ops \ {o} : p \in ready => p \in ready'
    BY <1>1, Zenon
  <1> QED BY <1>1, <1>2, <1>4, <1>6, <1>8, <1>9, <1>10, <1>11, PollInv, Zenon

\* The last result of an operation is returned, or its future dropped after it.
LEMMA LastInv ==
  ASSUME ReactorInv, NEW o \in Ops, NEW k \in Keys, pc = "run", fut[o] = "held",
         slab[k] # None, slab[k].id = o, slab[k].terminated,
         NEW w \in {"caller", "freed"}, dropEntry(k, w),
         NEW f \in {"done", "dropped"}, fut' = [fut EXCEPT ![o] = f],
         NEW d \in Nat, delivered' = [delivered EXCEPT ![o] = d],
         ready' = ready \ {o}, UNCHANGED <<sq, kernelVars, pc, pushing, loopVars>>
  PROVE  ReactorInv'
  <1>1. /\ slab' = [slab EXCEPT ![k] = None]
        /\ mem' = [mem EXCEPT ![o] = IF Owns(o) THEN w ELSE @]
        /\ UNCHANGED <<sq, inflight, cancelled, cq, posted, dying, woken, pc, pushing>>
    BY Zenon DEF dropEntry, kernelVars, loopVars
  <1>2. ReactorTypeOK /\ Occupied(k)
    BY Zenon DEF ReactorInv, Occupied
  <1>3. /\ slab' \in [Keys -> OpEntry \cup {None}]
        /\ mem' \in [Ops -> {"caller", "entry", "freed"}]
        /\ fut' \in [Ops -> {"new", "held", "done", "dropped", "failed"}]
        /\ delivered' \in [Ops -> Nat] /\ ready' \in SUBSET Ops
    BY <1>1, <1>2, Zenon DEF ReactorTypeOK
  <1>4. ReactorTypeOK'
    BY <1>1, <1>2, <1>3, Zenon DEF ReactorTypeOK
  <1>5. Unreferenced(o)
    BY <1>2, TerminatedUnreferenced, Zenon
  <1>6. /\ fut'[o] \in {"done", "dropped", "failed"}
        /\ \A p \in Ops \ {o} : /\ fut'[p] = fut[p] /\ mem'[p] = mem[p]
                                 /\ delivered'[p] = delivered[p]
    BY <1>1, <1>2, Zenon DEF ReactorTypeOK
  <1> QED BY <1>1, <1>2, <1>4, <1>5, <1>6, DropInv, Zenon

\* The poll of a future with one completion.
LEMMA PollSingleInv ==
  ASSUME ReactorInv, NEW o \in Ops, NEW k \in Keys, PollSingle(o, k)
  PROVE  ReactorInv'
  <1>1. CASE slab[k].results = <<>>
    BY <1>1, WakerInv, Zenon DEF PollSingle
  <1>2. CASE slab[k].results # <<>>
    <2>1. slab[k].results \in Seq(Nat) /\ slab[k].terminated
      BY <1>2, EntryFields, Zenon DEF ReactorInv, EntriesOwned, PollSingle, Occupied
    <2>2. Head(slab[k].results) \in Nat
      BY <1>2, <2>1
    <2> QED BY <1>2, <2>1, <2>2, LastInv, Zenon DEF PollSingle
  <1> QED BY <1>1, <1>2, Zenon

\* The poll of a future with many.
LEMMA PollNextInv ==
  ASSUME ReactorInv, NEW o \in Ops, NEW k \in Keys, PollNext(o, k)
  PROVE  ReactorInv'
  <1>1. CASE slab[k].results = <<>>
    BY <1>1, WakerInv, Zenon DEF PollNext
  <1>2. CASE slab[k].results # <<>>
    <2>0. /\ pc = "run" /\ o \in ready /\ fut[o] = "held" /\ slab[k].id = o
          /\ Occupied(k) /\ ReactorTypeOK
          /\ delivered' = [delivered EXCEPT ![o] = Head(slab[k].results)]
          /\ UNCHANGED <<sq, inflight, cancelled, cq, posted, pc, pushing, woken, dying>>
      BY <1>2, Zenon DEF PollNext, ReactorInv, kernelVars, loopVars, Occupied
    <2>1. slab[k].results \in Seq(Nat) /\ slab[k] \in OpEntry
      BY <2>0, EntryFields, Zenon
    <2>2. Head(slab[k].results) \in Nat
      BY <1>2, <2>1
    <2>3. CASE slab[k].terminated /\ Len(slab[k].results) = 1
      BY <1>2, <2>2, <2>3, LastInv, Zenon DEF PollNext
    <2>4. CASE ~(slab[k].terminated /\ Len(slab[k].results) = 1)
      <3> DEFINE r == slab[k].results
      <3>1. /\ slab' = [slab EXCEPT ![k].results = Tail(@)]
            /\ UNCHANGED <<fut, mem, ready>>
        BY <1>2, <2>4, Zenon DEF PollNext
      <3>2. /\ slab \in [Keys -> OpEntry \cup {None}] /\ None \notin OpEntry
            /\ delivered \in [Ops -> Nat] /\ posted \in [Ops -> Nat]
        BY <2>0, ReactorConstants, Zenon DEF ReactorTypeOK
      <3>3. /\ Tail(r) \in Seq(Nat) /\ Len(r) \in Nat \ {0} /\ Len(Tail(r)) = Len(r) - 1
            /\ \A i \in 1 .. Len(r) - 1 : Tail(r)[i] = r[i + 1]
            /\ Head(r) = r[1]
        BY <1>2, <2>1, TailAt, Zenon
      <3>4. /\ slab'[k] \in OpEntry /\ slab'[k].id = o /\ slab'[k].results = Tail(r)
            /\ slab'[k].terminated = slab[k].terminated
            /\ slab'[k].orphaned = slab[k].orphaned
            /\ \A j \in Keys \ {k} : slab'[j] = slab[j]
        BY <2>0, <2>1, <3>1, <3>2, <3>3, Zenon DEF OpEntry
      <3>5. ~slab[k].orphaned
        BY <2>0, Zenon DEF ReactorInv, EntriesOwned
      <3>6. /\ InOrder(k, o)
        BY <2>0, <3>5, Zenon DEF ReactorInv, ResultsInOrder, Occupied
      <3>7. delivered'[o] = delivered[o] + 1
        <4>1. r[1] = delivered[o] + 1
          BY <3>3, <3>6 DEF InOrder
        <4> QED BY <2>0, <3>2, <3>3, <4>1, Zenon
      <3>8. InOrder(k, o)'
        <4>1. delivered'[o] + Len(slab'[k].results) = delivered[o] + Len(r)
          BY <3>2, <3>3, <3>4, <3>7
        <4>2. \A j \in 1..Len(slab'[k].results) :
                slab'[k].results[j] = delivered'[o] + j
          BY <3>2, <3>3, <3>4, <3>6, <3>7 DEF InOrder
        <4>3. posted' = posted /\ cq' = cq
          BY <2>0, Zenon
        <4> HIDE DEF r
        <4>4. r = slab[k].results
          BY Zenon DEF r
        <4> QED BY <3>6, <4>1, <4>2, <4>3, <4>4, Zenon DEF InOrder, CqeOf
      <3>9. slab'[k].terminated => slab'[k].results # <<>>
        <4>1. slab'[k].terminated => Len(Tail(r)) # 0
          BY <2>4, <3>3, <3>4
        <4> QED BY <3>3, <3>4, <4>1, LengthZero, Zenon
      <3>10. slab' \in [Keys -> OpEntry \cup {None}]
        BY <3>1, <3>2, <3>4, Zenon
      <3>11. delivered' \in [Ops -> Nat]
        BY <2>0, <2>2, <3>2, Zenon
      <3>12. ReactorTypeOK'
        BY <2>0, <3>1, <3>10, <3>11, Zenon DEF ReactorTypeOK
      <3>13. Occupied(k)' /\ ~slab'[k].orphaned
        BY <3>2, <3>4, <3>5, Zenon DEF Occupied
      <3>14. ready' \in SUBSET ready /\ \A p \in Ops \ {o} : p \in ready => p \in ready'
        BY <3>1, Zenon
      <3>15. \A p \in Ops \ {o} : delivered'[p] = delivered[p]
        BY <2>0, <3>2, Zenon
      <3>16. o \in ready'
        BY <2>0, <3>1, Zenon
      <3> HIDE DEF r
      <3> QED BY <1>2, <2>0, <3>1, <3>4, <3>8, <3>9, <3>12, <3>13, <3>14, <3>15, <3>16,
                 PollInv, Zenon
    <2> QED BY <2>3, <2>4, Zenon
  <1> QED BY <1>1, <1>2, Zenon

\* Reactor::orphan keeps the entry for its last CQE, and cancels.
LEMMA OrphanInv ==
  ASSUME ReactorInv, NEW o \in Ops, NEW k \in Keys, Orphan(o, k)
  PROVE  ReactorInv'
  <1>1. /\ pc = "run" /\ fut[o] = "held" /\ slab[k] # None /\ slab[k].id = o
        /\ fut' = [fut EXCEPT ![o] = "dropped"] /\ ready' = ready \ {o}
        /\ UNCHANGED <<inflight, cancelled, cq, posted, delivered, woken, dying>>
    BY Zenon DEF Orphan, kernelVars, loopVars
  <1>2. ReactorTypeOK /\ Occupied(k)
    BY <1>1, Zenon DEF ReactorInv, Occupied
  <1>3. CASE slab[k].terminated
    <2>1. delivered[o] \in Nat /\ delivered' = [delivered EXCEPT ![o] = delivered[o]]
      BY <1>1, <1>2, Zenon DEF ReactorTypeOK
    <2> QED BY <1>1, <1>3, <2>1, LastInv, Zenon DEF Orphan
  <1>4. CASE ~slab[k].terminated
    <2>1. /\ slab' = [slab EXCEPT ![k].orphaned = TRUE, ![k].waker = FALSE]
          /\ pushSqe(CancelSqe(k)) /\ mem' = mem
      BY <1>4, Zenon DEF Orphan
    <2>2. /\ sq' \in Seq(Sqes)
          /\ \A i \in 1..Len(sq) : i \in 1..Len(sq') /\ sq'[i] = sq[i]
          /\ \A i \in 1..Len(sq') :
               i \in 1..Len(sq) \/ (i = Len(sq) + 1 /\ sq'[i] = CancelSqe(k))
          /\ pc' \in {"run", "flush"}
          /\ pc' = "flush" => pushing' = CancelSqe(k) /\ sq' = sq
          /\ CancelSqe(k) \in Sqes /\ CancelSqe(k).kind = "cancel" /\ CancelSqe(k).key = k
      BY <1>1, <1>2, <2>1, PushFacts, MadeSqes
    <2>3. /\ slab[k] \in OpEntry /\ slab \in [Keys -> OpEntry \cup {None}]
          /\ None \notin OpEntry
          /\ fut \in [Ops -> {"new", "held", "done", "dropped", "failed"}]
      BY <1>2, EntryFields, ReactorConstants, Zenon DEF ReactorTypeOK
    <2>4. /\ slab'[k] \in OpEntry /\ slab'[k].id = o /\ slab'[k].orphaned
          /\ slab'[k].results = slab[k].results /\ slab'[k].terminated = slab[k].terminated
          /\ \A j \in Keys \ {k} : slab'[j] = slab[j]
      BY <1>1, <2>1, <2>3, Zenon DEF OpEntry
    <2>5. \A j \in Keys : /\ Occupied(j)' = Occupied(j)
                          /\ Occupied(j) => /\ slab'[j].id = slab[j].id
                                            /\ slab'[j].results = slab[j].results
                                            /\ slab'[j].terminated = slab[j].terminated
      BY <1>1, <1>2, <2>3, <2>4 DEF Occupied
    <2>6. fut'[o] = "dropped" /\ \A p \in Ops \ {o} : fut'[p] = fut[p]
      BY <1>1, <2>3, Zenon
    <2>7. \A j \in Keys \ {k} : Occupied(j) => slab[j].id \in Ops \ {o}
      BY <1>1, <1>2, EntryFields, Zenon DEF ReactorInv, EntriesOwned
    <2>8. ReactorTypeOK'
      <3>1. slab' \in [Keys -> OpEntry \cup {None}]
        BY <2>1, <2>3, <2>4, Zenon
      <3>2. fut' \in [Ops -> {"new", "held", "done", "dropped", "failed"}]
        BY <1>1, <2>3, Zenon
      <3> QED BY <1>1, <1>2, <2>1, <2>2, <3>1, <3>2, Zenon DEF ReactorTypeOK
    <2>9. EntriesOwned'
      <3> SUFFICES ASSUME NEW j \in Keys, Occupied(j)'
                   PROVE  /\ fut'[slab'[j].id] = IF slab'[j].orphaned THEN "dropped" ELSE "held"
                          /\ Owns(slab'[j].id) => mem'[slab'[j].id] = "entry"
                          /\ slab'[j].results # <<>> /\ ~Multi(slab'[j].id)
                               => slab'[j].terminated
                          /\ \A i \in Keys : Occupied(i)' /\ slab'[i].id = slab'[j].id => i = j
        BY Zenon DEF EntriesOwned
      <3>1. \A i \in Keys : Occupied(i)' /\ slab'[i].id = slab'[j].id => i = j
        BY <2>5, Zenon DEF ReactorInv, EntriesOwned
      <3>2. /\ Owns(slab[j].id) => mem[slab[j].id] = "entry"
            /\ slab[j].results # <<>> /\ ~Multi(slab[j].id) => slab[j].terminated
            /\ fut[slab[j].id] = IF slab[j].orphaned THEN "dropped" ELSE "held"
        BY <2>5, Zenon DEF ReactorInv, EntriesOwned
      <3>3. mem' = mem
        BY <2>1, Zenon
      <3>4. CASE j = k
        BY <2>4, <2>6, <3>1, <3>2, <3>3, <3>4, <1>1, SMTT(20)
      <3>5. CASE j # k
        BY <2>4, <2>5, <2>6, <2>7, <3>1, <3>2, <3>3, <3>5, SMTT(20)
      <3> QED BY <3>4, <3>5, Zenon
    <2>10. FuturesServed'
      BY <1>1, <2>5, <2>6 DEF ReactorInv, FuturesServed
    <2>11. \A j \in Keys, p \in Ops : Pending(j, p) => Pending(j, p)'
      BY <2>5, Zenon DEF Pending
    <2>12. QueuedPending' /\ InFlightPending' /\ CompletedPending'
      <3>1. \A i \in 1..Len(sq') : sq'[i].kind = "op" => i \in 1..Len(sq) /\ sq'[i] = sq[i]
        BY <2>2, Zenon
      <3> QED BY <1>1, <2>11, <3>1, RequestsKept, Zenon
    <2>13. PushedPending'
      BY <2>2, Zenon DEF PushedPending
    <2>14. CancelsAimed'
      <3>1. \A p \in Ops : fut[p] = "dropped" => fut'[p] = "dropped"
        BY <2>6, Zenon
      <3>2. \A r \in inflight : r.key = k => fut'[r.id] = "dropped"
        BY <1>1, <2>6, Zenon DEF ReactorInv, InFlightPending, Pending
      <3>3. \A j \in 1..Len(sq) : sq[j].kind = "op" /\ sq[j].key = k => fut'[sq[j].id] = "dropped"
        BY <1>1, <2>6, Zenon DEF ReactorInv, QueuedPending, Pending
      <3>4. Len(sq) \in Nat
        BY <1>2, RingTypes, Zenon
      <3>5. ASSUME NEW i \in 1..Len(sq'), sq'[i].kind = "cancel"
            PROVE  /\ \A r \in inflight : r.key = sq'[i].key => fut'[r.id] = "dropped"
                   /\ \A j \in 1 .. i - 1 :
                        sq'[j].kind = "op" /\ sq'[j].key = sq'[i].key
                          => fut'[sq'[j].id] = "dropped"
        <4>1. \A j \in 1 .. i - 1 : j \in 1..Len(sq) /\ sq'[j] = sq[j]
          BY <2>2, <3>4
        <4>2. CASE i \in 1..Len(sq)
          <5>1. sq'[i] = sq[i] /\ sq[i].kind = "cancel"
            BY <2>2, <3>5, <4>2, Zenon
          <5>2. /\ \A r \in inflight : r.key = sq[i].key => fut'[r.id] = "dropped"
                /\ \A j \in 1 .. i - 1 :
                     sq[j].kind = "op" /\ sq[j].key = sq[i].key => fut'[sq[j].id] = "dropped"
            BY <3>1, <4>2, <5>1, CancelsStay, Zenon
          <5> QED BY <4>1, <5>1, <5>2, Zenon
        <4>3. CASE i \notin 1..Len(sq)
          <5>1. sq'[i].key = k
            BY <2>2, <4>3, Zenon
          <5> QED BY <3>2, <3>3, <4>1, <5>1, Zenon
        <4> QED BY <4>2, <4>3, Zenon
      <3>6. \A p \in cancelled : fut'[p] = "dropped"
        BY <3>1, CancelsStay, Zenon
      <3>7. pc' = "flush" => pushing'.key = k /\ sq' = sq
        BY <2>2, Zenon
      <3> QED BY <1>1, <3>2, <3>3, <3>5, <3>6, <3>7 DEF CancelsAimed
    <2>15. TasksWoken'
      <3>1. ASSUME NEW j \in Keys, Occupied(j)', ~slab'[j].orphaned, ~dying
            PROVE  slab'[j].id \in ready' \/ (slab'[j].waker /\ slab'[j].results = <<>>)
        BY <1>1, <2>4, <2>5, <2>7, <3>1, Zenon DEF ReactorInv, TasksWoken
      <3>2. dying => ready' = {}
        BY <1>1, Zenon DEF ReactorInv, TasksWoken
      <3> QED BY <1>1, <2>2, <3>1, <3>2, Zenon DEF TasksWoken
    <2>16. ResultsInOrder'
      <3> SUFFICES ASSUME NEW j \in Keys, Occupied(j)', ~slab'[j].orphaned
                   PROVE  /\ InOrder(j, slab[j].id)'
                          /\ slab'[j].terminated => slab'[j].results # <<>>
        BY Zenon DEF ResultsInOrder, Occupied
      <3>1. j # k /\ slab'[j] = slab[j] /\ Occupied(j) /\ slab[j].id \in Ops
        BY <2>4, <2>5, <2>7, Zenon
      <3>2. InOrder(j, slab[j].id) /\ (slab[j].terminated => slab[j].results # <<>>)
        BY <3>1, Zenon DEF ReactorInv, ResultsInOrder, Occupied
      <3> QED BY <1>1, <3>1, <3>2, SameOrder, Zenon
    <2> QED BY <2>8, <2>9, <2>10, <2>12, <2>13, <2>14, <2>15, <2>16, Zenon DEF ReactorInv
  <1> QED BY <1>3, <1>4, Zenon

\* The flush of a full submission queue ends and the push goes on.
LEMMA FlushReturnsInv ==
  ASSUME ReactorInv, NEW ok \in BOOLEAN, FlushReturns(ok)
  PROVE  ReactorInv'
  <1>1. /\ pc = "flush" /\ pc' = "run"
        /\ UNCHANGED <<inflight, cancelled, cq, posted, delivered, woken, dying>>
    BY Zenon DEF FlushReturns, kernelVars, loopVars
  <1>2. ReactorTypeOK /\ pushing \in Sqes
    BY <1>1, Zenon DEF ReactorInv, ReactorTypeOK
  <1>3. CASE ok /\ Len(sq) < SqEntries
    <2>1. sq' = Append(sq, pushing) /\ UNCHANGED <<slab, fut, mem, ready>>
      BY <1>3, Zenon DEF FlushReturns
    <2>2. /\ sq' \in Seq(Sqes) /\ Len(sq) \in Nat /\ Len(sq') = Len(sq) + 1
          /\ \A i \in 1..Len(sq) : sq'[i] = sq[i]
          /\ sq'[Len(sq) + 1] = pushing
      BY <1>2, <2>1, AppendAt DEF ReactorTypeOK
    <2>3. \A i \in 1..Len(sq') :
            (i \in 1..Len(sq) /\ sq'[i] = sq[i]) \/ (i = Len(sq) + 1 /\ sq'[i] = pushing)
      BY <2>2
    <2>4. ReactorTypeOK'
      BY <1>1, <1>2, <2>1, <2>2, Zenon DEF ReactorTypeOK
    <2>5. EntriesOwned' /\ FuturesServed' /\ InFlightPending' /\ PushedPending'
      BY <1>1, <2>1
         DEF ReactorInv, EntriesOwned, FuturesServed, InFlightPending, PushedPending,
             Pending, Occupied
    <2>6. CompletedPending'
      BY <1>1, <2>1, Zenon DEF ReactorInv, CompletedPending, Pending, Occupied
    <2>7. QueuedPending'
      <3>1. \A j, o : Pending(j, o)' = Pending(j, o)
        BY <2>1, Zenon DEF Pending, Occupied
      <3> SUFFICES ASSUME NEW i \in 1..Len(sq'), sq'[i].kind = "op"
                   PROVE  /\ Pending(sq'[i].key, sq'[i].id) /\ posted[sq'[i].id] = 0
                          /\ \A r \in inflight : r.id # sq'[i].id
                          /\ \A j \in 1..Len(sq') :
                               sq'[j].kind = "op" /\ sq'[j].id = sq'[i].id => j = i
        BY <1>1, <3>1, Zenon DEF QueuedPending
      <3>2. CASE i \in 1..Len(sq)
        BY <1>1, <2>2, <2>3, <3>2 DEF ReactorInv, QueuedPending, PushedPending
      <3>3. CASE i \notin 1..Len(sq)
        BY <1>1, <2>2, <2>3, <3>3, Zenon DEF ReactorInv, PushedPending
      <3> QED BY <3>2, <3>3, Zenon
    <2>8. CancelsAimed'
      <3>1. ASSUME NEW i \in 1..Len(sq'), sq'[i].kind = "cancel"
            PROVE  /\ \A r \in inflight : r.key = sq'[i].key => fut[r.id] = "dropped"
                   /\ \A j \in 1 .. i - 1 :
                        sq'[j].kind = "op" /\ sq'[j].key = sq'[i].key
                          => fut[sq'[j].id] = "dropped"
        <4>1. \A j \in 1 .. i - 1 : j \in 1..Len(sq) /\ sq'[j] = sq[j]
          BY <2>2, SMTT(20)
        <4>2. CASE i \in 1..Len(sq)
          <5>1. sq'[i] = sq[i] /\ sq[i].kind = "cancel"
            BY <2>2, <3>1, <4>2, Zenon
          <5> QED BY <4>1, <4>2, <5>1 DEF ReactorInv, CancelsAimed
        <4>3. CASE i \notin 1..Len(sq)
          <5>1. sq'[i] = pushing /\ pushing.kind = "cancel"
            BY <2>3, <3>1, <4>3, Zenon
          <5>2. /\ \A r \in inflight : r.key = pushing.key => fut[r.id] = "dropped"
                /\ \A j \in 1..Len(sq) :
                     sq[j].kind = "op" /\ sq[j].key = pushing.key => fut[sq[j].id] = "dropped"
            BY <1>1, <5>1, Zenon DEF ReactorInv, CancelsAimed
          <5> QED BY <4>1, <5>1, <5>2, Zenon
        <4> QED BY <4>2, <4>3, Zenon
      <3>2. \A p \in cancelled : fut[p] = "dropped"
        BY Zenon DEF ReactorInv, CancelsAimed
      <3> QED BY <1>1, <2>1, <3>1, <3>2, ZenonT(30) DEF CancelsAimed
    <2>9. TasksWoken'
      BY <1>1, <2>1, Zenon DEF ReactorInv, TasksWoken, Occupied
    <2>10. ResultsInOrder'
      <3> SUFFICES ASSUME NEW j \in Keys, slab[j] # None, ~slab[j].orphaned
                   PROVE  /\ InOrder(j, slab[j].id)'
                          /\ slab[j].terminated => slab[j].results # <<>>
        BY <2>1, Zenon DEF ResultsInOrder
      <3>1. slab[j].id \in Ops
        BY <1>2, EntryFields, Zenon DEF Occupied
      <3> QED BY <1>1, <2>1, <3>1, SameOrder, Zenon DEF ReactorInv, ResultsInOrder
    <2> QED BY <2>4, <2>5, <2>6, <2>7, <2>8, <2>9, <2>10, Zenon DEF ReactorInv
  <1>4. CASE ~(ok /\ Len(sq) < SqEntries) /\ pushing.kind = "op"
    <2> DEFINE k == pushing.key
               o == pushing.id
    <2>1. /\ sq' = sq /\ dropEntry(k, "freed")
          /\ fut' = [fut EXCEPT ![o] = "failed"] /\ ready' = ready \ {o}
      BY <1>4, Zenon DEF FlushReturns
    <2>2. /\ k \in Keys /\ o \in Ops /\ Pending(k, o) /\ posted[o] = 0 /\ fut[o] = "held"
          /\ \A r \in inflight : r.id # o
          /\ \A i \in 1..Len(sq) : sq[i].kind = "op" => sq[i].id # o
      BY <1>1, <1>2, <1>4, SqeFields, Zenon DEF ReactorInv, PushedPending
    <2> HIDE DEF k, o
    <2>3. Occupied(k) /\ slab[k].id = o
      BY <2>2, Zenon DEF Pending
    <2>4. /\ slab' = [slab EXCEPT ![k] = None]
          /\ mem' = [mem EXCEPT ![o] = IF Owns(o) THEN "freed" ELSE @]
      BY <2>1, <2>3, Zenon DEF dropEntry
    <2>5. Unreferenced(o)
      <3>1. \A i \in 1..Len(cq) : cq[i].kind = "op" => cq[i].id # o
        BY <2>2, QueuedNotCompleted, Zenon DEF ReactorInv
      <3> QED BY <2>2, <3>1, Zenon DEF Unreferenced
    <2>6. /\ slab' \in [Keys -> OpEntry \cup {None}]
          /\ mem' \in [Ops -> {"caller", "entry", "freed"}]
          /\ fut' \in [Ops -> {"new", "held", "done", "dropped", "failed"}]
          /\ ready' \in SUBSET Ops
      BY <1>2, <2>1, <2>4, Zenon DEF ReactorTypeOK
    <2>7. ReactorTypeOK'
      BY <1>1, <1>2, <2>1, <2>6, Zenon DEF ReactorTypeOK
    <2>8. fut'[o] = "failed" /\ \A p \in Ops \ {o} : fut'[p] = fut[p] /\ mem'[p] = mem[p]
      BY <1>2, <2>1, <2>2, <2>4, Zenon DEF ReactorTypeOK
    <2> QED BY <1>1, <2>1, <2>2, <2>3, <2>4, <2>5, <2>7, <2>8, DropInv, Zenon
  <1>5. CASE ~(ok /\ Len(sq) < SqEntries) /\ pushing.kind # "op"
    <2>1. UNCHANGED <<slab, sq, fut, mem, ready>>
      BY <1>5, Zenon DEF FlushReturns
    <2>2. TasksWoken'
      BY <1>1, <2>1, Zenon DEF ReactorInv, TasksWoken, Occupied
    <2>3. /\ woken' \in BOOLEAN /\ dying' \in BOOLEAN /\ ready' \in SUBSET Ops
      BY <1>1, <1>2, <2>1, Zenon DEF ReactorTypeOK
    <2> QED BY <1>1, <2>1, <2>2, <2>3, LoopInv, Zenon
  <1> QED BY <1>3, <1>4, <1>5, Zenon


-----------------------------------------------------------------------------
(* The kernel.                                                             *)

\* The kernel takes a request: it goes from the ring to the kernel.
LEMMA KernelTakeOpInv ==
  ASSUME ReactorInv, KernelTake, sq[1].kind = "op"
  PROVE  ReactorInv'
  <1> DEFINE q == [key |-> sq[1].key, id |-> sq[1].id]
  <1>1. /\ pc \in {"flush", "enter"} /\ sq # <<>> /\ sq' = Tail(sq)
        /\ inflight' = inflight \cup {q}
        /\ UNCHANGED <<slab, cancelled, cq, posted, fut, mem, ready, delivered, pc, pushing,
                       woken, dying>>
    BY Zenon DEF KernelTake, InKernel, taskVars, loopVars
  <1>2. ReactorTypeOK
    BY Zenon DEF ReactorInv
  <1>3. /\ sq' \in Seq(Sqes) /\ Len(sq) \in Nat \ {0} /\ Len(sq') = Len(sq) - 1
        /\ \A i \in 1..Len(sq') : i + 1 \in 2..Len(sq) /\ sq'[i] = sq[i + 1]
    <2>1. sq \in Seq(Sqes)
      BY <1>2, Zenon DEF ReactorTypeOK
    <2>2. Tail(sq) \in Seq(Sqes) /\ Len(sq) \in Nat \ {0} /\ Len(Tail(sq)) = Len(sq) - 1
      BY <1>1, <2>1, TailAt, Zenon
    <2> QED BY <1>1, <2>1, <2>2, TailAt
  <1>4. /\ q \in Requests /\ q.key = sq[1].key /\ q.id = sq[1].id
        /\ Pending(q.key, q.id) /\ posted[q.id] = 0
        /\ \A j \in 2..Len(sq) : sq[j].kind = "op" => sq[j].id # q.id
    <2>1. sq[1].key \in Keys /\ sq[1].id \in Ops /\ 1 \in 1..Len(sq)
      BY <1>2, <1>3, RingTypes
    <2>2. /\ Pending(sq[1].key, sq[1].id) /\ posted[sq[1].id] = 0
          /\ \A j \in 1..Len(sq) : sq[j].kind = "op" /\ sq[j].id = sq[1].id => j = 1
      BY <2>1, Zenon DEF ReactorInv, QueuedPending
    <2> QED BY <1>3, <2>1, <2>2 DEF Requests
  <1> HIDE DEF q
  <1>5. ReactorTypeOK'
    BY <1>1, <1>2, <1>3, <1>4, Zenon DEF ReactorTypeOK
  <1>6. \A j, o : Pending(j, o)' = Pending(j, o)
    BY <1>1, Zenon DEF Pending, Occupied
  <1>7. EntriesOwned' /\ FuturesServed' /\ TasksWoken'
    <2>1. \A j \in Keys : Occupied(j) => Occupied(j)' /\ slab'[j].id = slab[j].id
      BY <1>1, Zenon DEF Occupied
    <2> QED BY <1>1, <2>1, EntriesKept, FuturesKept, TasksKept, Zenon DEF ReactorInv
  <1>8. InFlightPending'
    BY <1>1, <1>4, <1>6, Zenon DEF ReactorInv, InFlightPending
  <1>9. QueuedPending'
    <2> SUFFICES ASSUME NEW i \in 1..Len(sq'), sq'[i].kind = "op"
                 PROVE  /\ Pending(sq'[i].key, sq'[i].id) /\ posted[sq'[i].id] = 0
                        /\ \A r \in inflight' : r.id # sq'[i].id
                        /\ \A j \in 1..Len(sq') :
                             sq'[j].kind = "op" /\ sq'[j].id = sq'[i].id => j = i
      BY <1>1, <1>6, Zenon DEF QueuedPending
    <2>1. /\ i + 1 \in 1..Len(sq) /\ sq'[i] = sq[i + 1] /\ sq[i + 1].kind = "op"
          /\ sq[i + 1].id # q.id
      BY <1>3, <1>4, AfterFirst, Zenon
    <2>2. /\ Pending(sq'[i].key, sq'[i].id) /\ posted[sq'[i].id] = 0
          /\ \A r \in inflight : r.id # sq'[i].id
          /\ \A j \in 1..Len(sq) : sq[j].kind = "op" /\ sq[j].id = sq'[i].id => j = i + 1
      <3>1. QueuedPending
        BY Zenon DEF ReactorInv
      <3> QED BY <2>1, <3>1, Zenon DEF QueuedPending
    <2>3. ASSUME NEW j \in 1..Len(sq'), sq'[j].kind = "op", sq'[j].id = sq'[i].id
          PROVE  j = i
      <3>1. j + 1 \in 1..Len(sq) /\ sq'[j] = sq[j + 1]
        BY <1>3, AfterFirst, Zenon
      <3>2. j + 1 = i + 1
        BY <2>2, <2>3, <3>1, Zenon
      <3> QED BY <3>2, SameShift, Zenon
    <2> QED BY <1>1, <2>1, <2>2, <2>3, Zenon
  <1>10. PushedPending'
    <2> SUFFICES ASSUME pc = "flush", pushing.kind = "op"
                 PROVE  /\ Pending(pushing.key, pushing.id) /\ posted[pushing.id] = 0
                        /\ fut[pushing.id] = "held"
                        /\ \A r \in inflight' : r.id # pushing.id
                        /\ \A i \in 1..Len(sq') : sq'[i].kind = "op" => sq'[i].id # pushing.id
      BY <1>1, <1>6, Zenon DEF PushedPending
    <2>1. /\ Pending(pushing.key, pushing.id) /\ posted[pushing.id] = 0
          /\ fut[pushing.id] = "held"
          /\ \A r \in inflight : r.id # pushing.id
          /\ \A i \in 1..Len(sq) : sq[i].kind = "op" => sq[i].id # pushing.id
      BY Zenon DEF ReactorInv, PushedPending
    <2>2. 1 \in 1..Len(sq)
      BY <1>3
    <2>3. q.id # pushing.id
      BY <1>4, <2>1, <2>2, Zenon
    <2>4. \A i \in 1..Len(sq') : i + 1 \in 1..Len(sq) /\ sq'[i] = sq[i + 1]
      BY <1>3, AfterFirst, Zenon
    <2> QED BY <1>1, <2>1, <2>3, <2>4, Zenon
  <1>11. CompletedPending'
    <2>1. \A i \in 1..Len(cq) : cq[i].kind = "op" => cq[i].id # q.id
      BY <1>4, QueuedNotCompleted, Zenon DEF ReactorInv
    <2> QED BY <1>1, <1>6, <2>1, Zenon DEF ReactorInv, CompletedPending
  <1>12. CancelsAimed'
    <2>1. ASSUME NEW i \in 1..Len(sq'), sq'[i].kind = "cancel"
          PROVE  /\ \A r \in inflight' : r.key = sq'[i].key => fut[r.id] = "dropped"
                 /\ \A j \in 1 .. i - 1 :
                      sq'[j].kind = "op" /\ sq'[j].key = sq'[i].key
                        => fut[sq'[j].id] = "dropped"
      <3>1. i + 1 \in 1..Len(sq) /\ sq'[i] = sq[i + 1]
        BY <1>3, AfterFirst, Zenon
      <3>2. /\ \A r \in inflight : r.key = sq'[i].key => fut[r.id] = "dropped"
            /\ \A j \in 1 .. (i + 1) - 1 :
                 sq[j].kind = "op" /\ sq[j].key = sq'[i].key => fut[sq[j].id] = "dropped"
        BY <2>1, <3>1, Zenon DEF ReactorInv, CancelsAimed
      <3>3. 1 \in 1 .. (i + 1) - 1
        BY <1>3
      <3>4. q.key = sq'[i].key => fut[q.id] = "dropped"
        BY <1>4, <3>2, <3>3, Zenon
      <3>5. \A j \in 1 .. i - 1 : j + 1 \in 1 .. (i + 1) - 1 /\ sq'[j] = sq[j + 1]
        BY <1>3, SMTT(20)
      <3> QED BY <1>1, <3>2, <3>4, <3>5, ZenonT(20)
    <2>2. ASSUME pc = "flush", pushing.kind = "cancel"
          PROVE  /\ \A r \in inflight' : r.key = pushing.key => fut[r.id] = "dropped"
                 /\ \A j \in 1..Len(sq') :
                      sq'[j].kind = "op" /\ sq'[j].key = pushing.key
                        => fut[sq'[j].id] = "dropped"
      <3>1. 1 \in 1..Len(sq)
        BY <1>3
      <3>2. /\ \A r \in inflight : r.key = pushing.key => fut[r.id] = "dropped"
            /\ \A j \in 1..Len(sq) :
                 sq[j].kind = "op" /\ sq[j].key = pushing.key => fut[sq[j].id] = "dropped"
        BY <2>2, Zenon DEF ReactorInv, CancelsAimed
      <3>3. \A j \in 1..Len(sq') : j + 1 \in 1..Len(sq) /\ sq'[j] = sq[j + 1]
        BY <1>3, AfterFirst, Zenon
      <3>4. q.key = pushing.key => fut[q.id] = "dropped"
        BY <1>4, <3>1, <3>2, Zenon
      <3>5. inflight' = inflight \cup {q}
        BY <1>1, Zenon
      <3> QED BY <3>2, <3>3, <3>4, <3>5, Zenon
    <2>3. \A p \in cancelled : fut[p] = "dropped"
      BY Zenon DEF ReactorInv, CancelsAimed
    <2> QED BY <1>1, <2>1, <2>2, <2>3, ZenonT(30) DEF CancelsAimed
  <1>13. ResultsInOrder'
    BY <1>1, ResultsKept, Zenon DEF ReactorInv
  <1> QED BY <1>5, <1>7, <1>8, <1>9, <1>10, <1>11, <1>12, <1>13, Zenon DEF ReactorInv

\* A CQE of no operation, or of another one, leaves the order as it was.
LEMMA OrderAppended ==
  ASSUME ReactorTypeOK, NEW k \in Keys, NEW o \in Ops, InOrder(k, o),
         NEW c \in Cqes, cq' = Append(cq, c), ~(c.kind = "op" /\ c.id = o),
         slab'[k].results = slab[k].results,
         delivered'[o] = delivered[o], posted'[o] = posted[o]
  PROVE  InOrder(k, o)'
  <1>1. /\ Len(cq) \in Nat /\ Len(cq') = Len(cq) + 1 /\ cq'[Len(cq) + 1] = c
        /\ \A i \in 1..Len(cq) : i \in 1..Len(cq') /\ cq'[i] = cq[i]
    BY CqAppended, Zenon
  <1>2. \A i \in 1..Len(cq') : CqeOf(i, o)' => i \in 1..Len(cq) /\ cq'[i] = cq[i] /\ CqeOf(i, o)
    BY <1>1, CqAppended, Zenon DEF CqeOf
  <1>3. \A i \in 1..Len(cq) : CqeOf(i, o) => i \in 1..Len(cq') /\ cq'[i] = cq[i] /\ CqeOf(i, o)'
    BY <1>1, Zenon DEF CqeOf
  <1> DEFINE m == delivered[o] + Len(slab[k].results)
  <1>4. \A n \in m + 1 .. posted[o] : \E i \in 1..Len(cq') : CqeOf(i, o)' /\ cq'[i].n = n
    <2>1. \A n \in m + 1 .. posted[o] : \E i \in 1..Len(cq) : CqeOf(i, o) /\ cq[i].n = n
      BY Zenon DEF InOrder
    <2> QED BY <1>3, <2>1, ZenonT(30)
  <1>5. \A i \in 1..Len(cq') : CqeOf(i, o)' =>
          /\ cq'[i].key = k /\ cq'[i].n \in m + 1 .. posted[o]
          /\ \A j \in i + 1 .. Len(cq') : CqeOf(j, o)' => cq'[i].n < cq'[j].n
    <2> SUFFICES ASSUME NEW i \in 1..Len(cq'), CqeOf(i, o)'
                 PROVE  /\ cq'[i].key = k /\ cq'[i].n \in m + 1 .. posted[o]
                        /\ \A j \in i + 1 .. Len(cq') : CqeOf(j, o)' => cq'[i].n < cq'[j].n
      BY Zenon
    <2>1. i \in 1..Len(cq) /\ cq'[i] = cq[i] /\ CqeOf(i, o)
      BY <1>2, Zenon
    <2>2. /\ cq[i].key = k /\ cq[i].n \in m + 1 .. posted[o]
          /\ \A j \in i + 1 .. Len(cq) : CqeOf(j, o) => cq[i].n < cq[j].n
      BY <2>1, Zenon DEF InOrder
    <2>3. \A j \in i + 1 .. Len(cq') : CqeOf(j, o)' =>
            j \in i + 1 .. Len(cq) /\ cq'[j] = cq[j] /\ CqeOf(j, o)
      BY <1>2, <2>1, CqAppended, Zenon
    <2> QED BY <2>1, <2>2, <2>3, Zenon
  <1> QED BY <1>4, <1>5, Zenon DEF InOrder

\* The kernel takes a cancel: its key leads to an orphan or to nothing.
LEMMA KernelTakeCancelInv ==
  ASSUME ReactorInv, KernelTake, sq[1].kind # "op"
  PROVE  ReactorInv'
  <1>1. /\ pc \in {"flush", "enter"} /\ sq # <<>> /\ sq' = Tail(sq)
        /\ cancelled' = cancelled \cup {r.id : r \in {x \in inflight : x.key = sq[1].key}}
        /\ cq' = Append(cq, IgnoreCqe)
        /\ UNCHANGED <<slab, inflight, posted, fut, mem, ready, delivered, pc, pushing,
                       woken, dying>>
    BY Zenon DEF KernelTake, InKernel, taskVars, loopVars
  <1>2. ReactorTypeOK /\ sq \in Seq(Sqes) /\ cq \in Seq(Cqes)
    BY Zenon DEF ReactorInv, ReactorTypeOK
  <1>3. /\ sq' \in Seq(Sqes) /\ Len(sq) \in Nat \ {0} /\ Len(sq') = Len(sq) - 1
        /\ \A i \in 1..Len(sq') : i + 1 \in 2..Len(sq) /\ sq'[i] = sq[i + 1]
    <2>1. Tail(sq) \in Seq(Sqes) /\ Len(sq) \in Nat \ {0} /\ Len(Tail(sq)) = Len(sq) - 1
      BY <1>1, <1>2, TailAt, Zenon
    <2> QED BY <1>1, <1>2, <2>1, TailAt
  <1>4. IgnoreCqe \in Cqes /\ IgnoreCqe.kind = "ignore"
    BY Zenon DEF IgnoreCqe, Cqes
  <1>5. /\ cq' \in Seq(Cqes) /\ Len(cq) \in Nat /\ Len(cq') = Len(cq) + 1
        /\ \A i \in 1..Len(cq) : cq'[i] = cq[i]
        /\ \A i \in 1..Len(cq') : cq'[i].kind = "op" => i \in 1..Len(cq) /\ cq'[i] = cq[i]
    <2>1. /\ cq' \in Seq(Cqes) /\ Len(cq) \in Nat /\ Len(cq') = Len(cq) + 1
          /\ \A i \in 1..Len(cq) : cq'[i] = cq[i]
          /\ cq'[Len(cq) + 1] = IgnoreCqe
      BY <1>1, <1>2, <1>4, CqAppended, Zenon
    <2> QED BY <1>1, <1>2, <1>4, <2>1, CqAppended, Zenon
  <1>6. \A r \in inflight : r.key = sq[1].key => fut[r.id] = "dropped" /\ r.id \in Ops
    <2>1. 1 \in 1..Len(sq) /\ sq[1].kind = "cancel"
      <3>1. Len(sq) >= 1
        BY <1>3
      <3>2. 1 \in 1..Len(sq)
        BY <1>3, <3>1
      <3> QED BY <1>2, <3>2, RingTypes, Zenon
    <2> QED BY <1>2, <2>1, RingTypes, Zenon DEF ReactorInv, CancelsAimed
  <1>7. cancelled' \in SUBSET Ops /\ \A o \in cancelled' : fut[o] = "dropped"
    BY <1>1, <1>2, <1>6 DEF ReactorInv, ReactorTypeOK, CancelsAimed
  <1>8. ReactorTypeOK'
    BY <1>1, <1>2, <1>3, <1>5, <1>7, Zenon DEF ReactorTypeOK
  <1>9. \A j, o : Pending(j, o)' = Pending(j, o)
    BY <1>1, Zenon DEF Pending, Occupied
  <1>10. EntriesOwned' /\ FuturesServed' /\ TasksWoken' /\ InFlightPending'
    <2>1. \A j \in Keys : Occupied(j) => Occupied(j)' /\ slab'[j].id = slab[j].id
      BY <1>1, Zenon DEF Occupied
    <2>2. InFlightPending'
      BY <1>1, <1>9, Zenon DEF ReactorInv, InFlightPending
    <2> QED BY <1>1, <2>1, <2>2, EntriesKept, FuturesKept, TasksKept, Zenon DEF ReactorInv
  <1>11. QueuedPending'
    <2> SUFFICES ASSUME NEW i \in 1..Len(sq'), sq'[i].kind = "op"
                 PROVE  /\ Pending(sq'[i].key, sq'[i].id) /\ posted[sq'[i].id] = 0
                        /\ \A r \in inflight : r.id # sq'[i].id
                        /\ \A j \in 1..Len(sq') :
                             sq'[j].kind = "op" /\ sq'[j].id = sq'[i].id => j = i
      BY <1>1, <1>9, Zenon DEF QueuedPending
    <2>1. i + 1 \in 1..Len(sq) /\ sq'[i] = sq[i + 1] /\ sq[i + 1].kind = "op"
      BY <1>3
    <2>2. /\ Pending(sq'[i].key, sq'[i].id) /\ posted[sq'[i].id] = 0
          /\ \A r \in inflight : r.id # sq'[i].id
          /\ \A j \in 1..Len(sq) : sq[j].kind = "op" /\ sq[j].id = sq'[i].id => j = i + 1
      <3>1. QueuedPending
        BY Zenon DEF ReactorInv
      <3> QED BY <2>1, <3>1, Zenon DEF QueuedPending
    <2>3. ASSUME NEW j \in 1..Len(sq'), sq'[j].kind = "op", sq'[j].id = sq'[i].id
          PROVE  j = i
      <3>1. j + 1 \in 1..Len(sq) /\ sq'[j] = sq[j + 1]
        BY <1>3, AfterFirst, Zenon
      <3>2. j + 1 = i + 1
        BY <2>2, <2>3, <3>1, Zenon
      <3> QED BY <3>2, SameShift, Zenon
    <2> QED BY <2>2, <2>3, Zenon
  <1>12. PushedPending'
    <2> SUFFICES ASSUME pc = "flush", pushing.kind = "op"
                 PROVE  /\ Pending(pushing.key, pushing.id) /\ posted[pushing.id] = 0
                        /\ fut[pushing.id] = "held"
                        /\ \A r \in inflight : r.id # pushing.id
                        /\ \A i \in 1..Len(sq') : sq'[i].kind = "op" => sq'[i].id # pushing.id
      BY <1>1, <1>9, Zenon DEF PushedPending
    <2> QED BY <1>3 DEF ReactorInv, PushedPending
  <1>13. CompletedPending'
    <2> SUFFICES ASSUME NEW i \in 1..Len(cq'), cq'[i].kind = "op"
                 PROVE  /\ Pending(cq'[i].key, cq'[i].id) /\ posted[cq'[i].id] > 0
                        /\ IF cq'[i].more
                           THEN Multi(cq'[i].id)
                           ELSE /\ \A r \in inflight : r.id # cq'[i].id
                                /\ \A j \in i + 1 .. Len(cq') :
                                     cq'[j].kind = "op" => cq'[j].id # cq'[i].id
      BY <1>1, <1>9, Zenon DEF CompletedPending
    <2>1. i \in 1..Len(cq) /\ cq'[i] = cq[i]
      BY <1>5, Zenon
    <2>2. \A j \in i + 1 .. Len(cq') : cq'[j].kind = "op" =>
            j \in i + 1 .. Len(cq) /\ cq'[j] = cq[j]
      BY <1>5
    <2> QED BY <2>1, <2>2 DEF ReactorInv, CompletedPending
  <1>14. CancelsAimed'
    <2>1. ASSUME NEW i \in 1..Len(sq'), sq'[i].kind = "cancel"
          PROVE  /\ \A r \in inflight : r.key = sq'[i].key => fut[r.id] = "dropped"
                 /\ \A j \in 1 .. i - 1 :
                      sq'[j].kind = "op" /\ sq'[j].key = sq'[i].key
                        => fut[sq'[j].id] = "dropped"
      <3>1. i + 1 \in 1..Len(sq) /\ sq'[i] = sq[i + 1] /\ i \in Nat
        BY <1>3
      <3>2. /\ \A r \in inflight : r.key = sq'[i].key => fut[r.id] = "dropped"
            /\ \A j \in 1 .. (i + 1) - 1 :
                 sq[j].kind = "op" /\ sq[j].key = sq'[i].key => fut[sq[j].id] = "dropped"
        BY <2>1, <3>1, Zenon DEF ReactorInv, CancelsAimed
      <3>3. \A j \in 1 .. i - 1 : j + 1 \in 1 .. (i + 1) - 1 /\ sq'[j] = sq[j + 1]
        BY <1>3
      <3> QED BY <3>2, <3>3, SMTT(20)
    <2>2. ASSUME pc = "flush", pushing.kind = "cancel"
          PROVE  /\ \A r \in inflight : r.key = pushing.key => fut[r.id] = "dropped"
                 /\ \A j \in 1..Len(sq') :
                      sq'[j].kind = "op" /\ sq'[j].key = pushing.key
                        => fut[sq'[j].id] = "dropped"
      BY <1>3, <2>2 DEF ReactorInv, CancelsAimed
    <2> QED BY <1>1, <1>7, <2>1, <2>2, ZenonT(20) DEF CancelsAimed
  <1>15. ResultsInOrder'
    <2> SUFFICES ASSUME NEW j \in Keys, Occupied(j)', ~slab'[j].orphaned
                 PROVE  /\ InOrder(j, slab[j].id)'
                        /\ slab'[j].terminated => slab'[j].results # <<>>
      BY Zenon DEF ResultsInOrder, Occupied
    <2>1. slab'[j] = slab[j] /\ Occupied(j) /\ slab[j].id \in Ops
      BY <1>1, <1>2, EntryFields, Zenon DEF Occupied
    <2>2. InOrder(j, slab[j].id) /\ (slab[j].terminated => slab[j].results # <<>>)
      BY <2>1, Zenon DEF ReactorInv, ResultsInOrder, Occupied
    <2> QED BY <1>1, <1>2, <1>4, <2>1, <2>2, OrderAppended, Zenon
  <1> QED BY <1>8, <1>10, <1>11, <1>12, <1>13, <1>14, <1>15, Zenon DEF ReactorInv

\* A number up to the next that is not the next.
LEMMA NotLast ==
  ASSUME NEW m \in Nat, NEW p \in Nat, NEW n \in m + 1 .. p + 1, n # p + 1
  PROVE  n \in m + 1 .. p
  OBVIOUS

\* The next number is above the ones before.
LEMMA NextNumber ==
  ASSUME NEW m \in Nat, NEW p \in Nat, m <= p
  PROVE  /\ p + 1 \in m + 1 .. p + 1 /\ m <= p + 1
         /\ \A n \in m + 1 .. p : n < p + 1 /\ n \in m + 1 .. p + 1
  OBVIOUS

\* The next CQE of an operation goes after its others.
LEMMA OrderPosted ==
  ASSUME ReactorTypeOK, NEW k \in Keys, NEW o \in Ops, InOrder(k, o), Occupied(k),
         NEW c \in Cqes, cq' = Append(cq, c),
         c.kind = "op", c.id = o, c.key = k, c.n = posted[o] + 1,
         slab'[k].results = slab[k].results,
         delivered'[o] = delivered[o], posted'[o] = posted[o] + 1
  PROVE  InOrder(k, o)'
  <1>1. /\ Len(cq) \in Nat /\ Len(cq') = Len(cq) + 1 /\ cq'[Len(cq) + 1] = c
        /\ \A i \in 1..Len(cq) : i \in 1..Len(cq') /\ cq'[i] = cq[i]
    BY CqAppended, Zenon
  <1>2. posted[o] \in Nat /\ delivered[o] \in Nat /\ slab[k].results \in Seq(Nat)
    BY EntryFields, Zenon DEF ReactorTypeOK
  <1> DEFINE m == delivered[o] + Len(slab[k].results)
  <1>0. PICK L : L = Len(cq) + 1
    BY Zenon
  <1>30. Len(slab[k].results) \in Nat
    BY <1>2
  <1>31. m <= posted[o]
    BY Zenon DEF InOrder
  <1>3. m \in Nat /\ m <= posted[o]
    BY <1>2, <1>30, <1>31
  <1>4. L \in 1..Len(cq') /\ CqeOf(L, o)' /\ cq'[L].n = posted[o] + 1 /\ cq'[L].key = k
    <2>1. L \in 1..Len(cq') /\ cq'[L] = c
      BY <1>0, CqAppended, Zenon
    <2> QED BY <2>1, Zenon DEF CqeOf
  <1>5. \A i \in 1..Len(cq) : CqeOf(i, o)' = CqeOf(i, o) /\ cq'[i] = cq[i] /\ i \in 1..Len(cq')
    BY <1>1, Zenon DEF CqeOf
  <1>6. \A n \in m + 1 .. posted[o] : \E i \in 1..Len(cq) : CqeOf(i, o) /\ cq[i].n = n
    BY Zenon DEF InOrder
  <1>7. \A i \in 1..Len(cq) : CqeOf(i, o) =>
          /\ cq[i].key = k /\ cq[i].n \in m + 1 .. posted[o]
          /\ \A j \in i + 1 .. Len(cq) : CqeOf(j, o) => cq[i].n < cq[j].n
    BY Zenon DEF InOrder
  <1>8. \A i \in 1..Len(cq') : i \in 1..Len(cq) \/ i = L
    BY <1>0, CqAppended, Zenon
  <1>9. delivered'[o] + Len(slab'[k].results) = m
    BY Zenon
  <1>10. \A j \in 1..Len(slab'[k].results) : slab'[k].results[j] = delivered'[o] + j
    BY Zenon DEF InOrder
  <1> HIDE DEF m
  <1>11. \A n \in m + 1 .. posted'[o] : \E i \in 1..Len(cq') : CqeOf(i, o)' /\ cq'[i].n = n
    <2> SUFFICES ASSUME NEW n \in m + 1 .. posted[o] + 1
                 PROVE  \E i \in 1..Len(cq') : CqeOf(i, o)' /\ cq'[i].n = n
      BY Zenon
    <2>1. CASE n = posted[o] + 1
      BY <1>4, <2>1, Zenon
    <2>2. CASE n # posted[o] + 1
      <3>0. posted[o] \in Nat
        BY <1>2, Zenon
      <3>1. n \in m + 1 .. posted[o]
        BY <1>3, <2>2, <3>0, NotLast, Zenon
      <3>2. PICK i \in 1..Len(cq) : CqeOf(i, o) /\ cq[i].n = n
        BY <1>6, <3>1, Zenon
      <3> QED BY <1>5, <3>2, Zenon
    <2> QED BY <2>1, <2>2, Zenon
  <1>12. \A i \in 1..Len(cq') : CqeOf(i, o)' =>
           /\ cq'[i].key = k /\ cq'[i].n \in m + 1 .. posted'[o]
           /\ \A j \in i + 1 .. Len(cq') : CqeOf(j, o)' => cq'[i].n < cq'[j].n
    <2> SUFFICES ASSUME NEW i \in 1..Len(cq'), CqeOf(i, o)'
                 PROVE  /\ cq'[i].key = k /\ cq'[i].n \in m + 1 .. posted'[o]
                        /\ \A j \in i + 1 .. Len(cq') : CqeOf(j, o)' => cq'[i].n < cq'[j].n
      BY Zenon
    <2>1. CASE i = L
      <3>1. \A j \in i + 1 .. Len(cq') : FALSE
        BY <1>0, <1>1, <2>1, NoneAfterLast, Zenon
      <3> QED BY <1>2, <1>3, <1>4, <2>1, <3>1, NextNumber, Zenon
    <2>2. CASE i # L
      <3>1. i \in 1..Len(cq) /\ CqeOf(i, o) /\ cq'[i] = cq[i]
        BY <1>5, <1>8, <2>2, Zenon
      <3>2. /\ cq[i].key = k /\ cq[i].n \in m + 1 .. posted[o]
            /\ \A j \in i + 1 .. Len(cq) : CqeOf(j, o) => cq[i].n < cq[j].n
        BY <1>7, <3>1, Zenon
      <3>3. cq[i].n < posted[o] + 1 /\ cq[i].n \in m + 1 .. posted'[o]
        BY <1>2, <1>3, <3>2, NextNumber, Zenon
      <3>4. ASSUME NEW j \in i + 1 .. Len(cq'), CqeOf(j, o)'
            PROVE  cq[i].n < cq'[j].n
        <4>1. CASE j = L
          BY <1>4, <3>3, <4>1, Zenon
        <4>2. CASE j # L
          <5>1. j \in i + 1 .. Len(cq) /\ j \in 1..Len(cq)
            BY <1>8, <3>1, <4>2, CqAppended, Zenon
          <5> QED BY <1>5, <3>2, <3>4, <5>1, Zenon
        <4> QED BY <4>1, <4>2, Zenon
      <3> QED BY <3>1, <3>2, <3>3, <3>4, Zenon
    <2> QED BY <2>1, <2>2, Zenon
  <1>13. m <= posted'[o]
    BY <1>2, <1>3, NextNumber, Zenon
  <1> QED BY <1>9, <1>10, <1>11, <1>12, <1>13, SMTT(40) DEF InOrder

\* The kernel posts a completion, perhaps the last of its request.
LEMMA KernelPostInv ==
  ASSUME ReactorInv, NEW r \in inflight, NEW more \in BOOLEAN, KernelPost(r, more)
  PROVE  ReactorInv'
  <1> DEFINE c == [kind |-> "op", key |-> r.key, id |-> r.id, n |-> posted[r.id] + 1,
                   more |-> more]
             k == r.key
             o == r.id
  <1>1. /\ more => Multi(o)
        /\ posted' = [posted EXCEPT ![o] = @ + 1] /\ cq' = Append(cq, c)
        /\ inflight' = IF more THEN inflight ELSE inflight \ {r}
        /\ UNCHANGED <<slab, sq, cancelled, fut, mem, ready, delivered, pc, pushing,
                       woken, dying>>
    BY Zenon DEF KernelPost, InKernel, taskVars, loopVars
  <1>2. /\ ReactorTypeOK /\ cq \in Seq(Cqes) /\ posted \in [Ops -> Nat]
        /\ inflight \in SUBSET Requests
    BY Zenon DEF ReactorInv, ReactorTypeOK
  <1>3. k \in Keys /\ o \in Ops
    BY <1>2, RingTypes, Zenon
  <1>4. /\ c \in Cqes /\ c.kind = "op" /\ c.key = k /\ c.id = o /\ c.n = posted[o] + 1
        /\ c.more = more
    BY <1>2, <1>3 DEF Cqes
  <1> HIDE DEF c, k, o
  <1>5. /\ cq' \in Seq(Cqes) /\ Len(cq) \in Nat /\ Len(cq') = Len(cq) + 1
        /\ \A i \in 1..Len(cq) : cq'[i] = cq[i]
        /\ cq'[Len(cq) + 1] = c
    BY <1>1, <1>2, <1>4, CqAppended, Zenon
  <1>6. /\ posted' \in [Ops -> Nat] /\ posted'[o] = posted[o] + 1 /\ posted'[o] > 0
        /\ \A p \in Ops \ {o} : posted'[p] = posted[p]
    BY <1>1, <1>2, <1>3
  <1>7. inflight' \in SUBSET inflight /\ inflight' \in SUBSET Requests
    BY <1>1, <1>2, Zenon
  <1>8. ReactorTypeOK'
    BY <1>1, <1>2, <1>5, <1>6, <1>7, Zenon DEF ReactorTypeOK
  <1>9. \A j, p : Pending(j, p)' = Pending(j, p)
    BY <1>1, Zenon DEF Pending, Occupied
  <1>10. Pending(k, o)
    BY Zenon DEF ReactorInv, InFlightPending, k, o
  <1>11. fut[o] # "new"
    BY <1>3, <1>10, Zenon DEF ReactorInv, EntriesOwned, Pending
  <1>12. EntriesOwned' /\ TasksWoken'
    BY <1>1, Zenon DEF ReactorInv, EntriesOwned, TasksWoken, Occupied
  <1>13. FuturesServed'
    BY <1>1, <1>6, <1>11, Zenon DEF ReactorInv, FuturesServed, Occupied
  <1>14. InFlightPending'
    BY <1>7, <1>9, Zenon DEF ReactorInv, InFlightPending
  <1>15. QueuedPending'
    <2> SUFFICES ASSUME NEW i \in 1..Len(sq), sq[i].kind = "op"
                 PROVE  /\ Pending(sq[i].key, sq[i].id) /\ posted'[sq[i].id] = 0
                        /\ \A x \in inflight' : x.id # sq[i].id
                        /\ \A j \in 1..Len(sq) : sq[j].kind = "op" /\ sq[j].id = sq[i].id => j = i
      BY <1>1, <1>9, Zenon DEF QueuedPending
    <2>1. sq[i].id \in Ops \ {o}
      BY <1>2, RingTypes, Zenon DEF ReactorInv, QueuedPending, o
    <2> QED BY <1>6, <1>7, <2>1, Zenon DEF ReactorInv, QueuedPending
  <1>16. PushedPending'
    <2> SUFFICES ASSUME pc = "flush", pushing.kind = "op"
                 PROVE  /\ Pending(pushing.key, pushing.id) /\ posted'[pushing.id] = 0
                        /\ fut[pushing.id] = "held"
                        /\ \A x \in inflight' : x.id # pushing.id
                        /\ \A i \in 1..Len(sq) : sq[i].kind = "op" => sq[i].id # pushing.id
      BY <1>1, <1>9, Zenon DEF PushedPending
    <2>1. pushing.id \in Ops
      BY <1>2, SqeFields, Zenon DEF ReactorTypeOK
    <2>2. pushing.id # o
      BY Zenon DEF ReactorInv, PushedPending, o
    <2> QED BY <1>6, <1>7, <2>1, <2>2, Zenon DEF ReactorInv, PushedPending
  <1>17. ~more => \A x \in inflight' : x.id # o
    <2> SUFFICES ASSUME ~more, NEW x \in inflight, x.id = o
                 PROVE  x = r
      BY <1>1, Zenon
    <2>1. x \in Requests /\ r \in Requests /\ x.key \in Keys
      BY <1>2, RingTypes, Zenon
    <2>2. Pending(x.key, o)
      BY Zenon DEF ReactorInv, InFlightPending
    <2>3. x.key = k
      BY <1>3, <1>10, <2>1, <2>2, Zenon DEF ReactorInv, EntriesOwned, Pending
    <2> QED BY <2>1, <2>3 DEF Requests, k, o
  <1>18. CompletedPending'
    <2> SUFFICES ASSUME NEW i \in 1..Len(cq'), cq'[i].kind = "op"
                 PROVE  /\ Pending(cq'[i].key, cq'[i].id) /\ posted'[cq'[i].id] > 0
                        /\ IF cq'[i].more
                           THEN Multi(cq'[i].id)
                           ELSE /\ \A x \in inflight' : x.id # cq'[i].id
                                /\ \A j \in i + 1 .. Len(cq') :
                                     cq'[j].kind = "op" => cq'[j].id # cq'[i].id
      BY <1>1, <1>9, Zenon DEF CompletedPending
    <2>1. CASE i \in 1..Len(cq)
      <3>1. /\ Pending(cq[i].key, cq[i].id) /\ posted[cq[i].id] > 0
            /\ cq[i].more => Multi(cq[i].id)
            /\ ~cq[i].more => /\ \A x \in inflight : x.id # cq[i].id
                             /\ \A j \in i + 1 .. Len(cq) :
                                  cq[j].kind = "op" => cq[j].id # cq[i].id
        BY <1>5, <2>1, Zenon DEF ReactorInv, CompletedPending
      <3>2. cq'[i] = cq[i] /\ cq[i].id \in Ops
        BY <1>2, <1>5, <2>1, RingTypes, Zenon
      <3>3. posted'[cq[i].id] > 0
        BY <1>6, <3>1, <3>2, Zenon
      <3>4. ASSUME ~cq[i].more, NEW j \in i + 1 .. Len(cq'), cq'[j].kind = "op"
            PROVE  cq'[j].id # cq[i].id
        <4>1. CASE j \in i + 1 .. Len(cq)
          BY <1>5, <2>1, <3>1, <3>4, <4>1
        <4>2. CASE j \notin i + 1 .. Len(cq)
          <5>1. cq'[j] = c
            BY <1>5, <2>1, <4>2
          <5> QED BY <1>4, <3>1, <3>4, <5>1, Zenon DEF o
        <4> QED BY <4>1, <4>2, Zenon
      <3> QED BY <1>7, <3>1, <3>2, <3>3, <3>4, Zenon
    <2>2. CASE i \notin 1..Len(cq)
      <3>1. cq'[i] = c /\ \A j \in i + 1 .. Len(cq') : FALSE
        BY <1>5, <2>2
      <3>2. CASE more
        BY <1>1, <1>4, <1>6, <1>10, <3>1, <3>2, Zenon
      <3>3. CASE ~more
        BY <1>4, <1>6, <1>10, <1>17, <3>1, <3>3, Zenon
      <3> QED BY <3>2, <3>3, Zenon
    <2> QED BY <2>1, <2>2, Zenon
  <1>19. CancelsAimed'
    BY <1>1, <1>7 DEF ReactorInv, CancelsAimed
  <1>20. ResultsInOrder'
    <2> SUFFICES ASSUME NEW j \in Keys, Occupied(j)', ~slab'[j].orphaned
                 PROVE  /\ InOrder(j, slab[j].id)'
                        /\ slab'[j].terminated => slab'[j].results # <<>>
      BY Zenon DEF ResultsInOrder, Occupied
    <2>1. slab'[j] = slab[j] /\ Occupied(j) /\ slab[j].id \in Ops
      BY <1>1, <1>2, EntryFields, Zenon DEF Occupied
    <2>2. InOrder(j, slab[j].id) /\ (slab[j].terminated => slab[j].results # <<>>)
      BY <2>1, Zenon DEF ReactorInv, ResultsInOrder, Occupied
    <2>3. CASE slab[j].id = o
      <3>1. j = k
        BY <1>3, <1>10, <2>1, <2>3, Zenon DEF ReactorInv, EntriesOwned, Pending
      <3>2. InOrder(k, o) /\ Occupied(k) /\ c.n = posted[o] + 1
        BY <1>4, <2>1, <2>2, <2>3, <3>1, Zenon
      <3>3. /\ slab'[k].results = slab[k].results /\ delivered'[o] = delivered[o]
            /\ posted'[o] = posted[o] + 1 /\ cq' = Append(cq, c)
        BY <1>1, <1>6, Zenon
      <3>4. InOrder(k, o)'
        BY <1>2, <1>3, <1>4, <3>2, <3>3, OrderPosted, Zenon
      <3> QED BY <2>1, <2>2, <2>3, <3>1, <3>4, Zenon
    <2>4. CASE slab[j].id # o
      BY <1>1, <1>2, <1>4, <1>6, <2>1, <2>2, <2>4, OrderAppended, Zenon
    <2> QED BY <2>3, <2>4, Zenon
  <1> QED BY <1>8, <1>12, <1>13, <1>14, <1>15, <1>16, <1>18, <1>19, <1>20, Zenon DEF ReactorInv

-----------------------------------------------------------------------------
(* The reap.                                                               *)

\* The first CQE leaves the completion ring.
LEMMA ReapTail ==
  ASSUME ReactorTypeOK, cq # <<>>, cq' = Tail(cq)
  PROVE  /\ cq' \in Seq(Cqes) /\ Len(cq) \in Nat \ {0} /\ Len(cq') = Len(cq) - 1
         /\ 1 \in 1..Len(cq)
         /\ \A i \in 1..Len(cq') : i + 1 \in 2..Len(cq) /\ i + 1 \in 1..Len(cq)
                                  /\ cq'[i] = cq[i + 1]
  <1>1. cq \in Seq(Cqes)
    BY Zenon DEF ReactorTypeOK
  <1>2. Tail(cq) \in Seq(Cqes) /\ Len(cq) \in Nat \ {0} /\ Len(Tail(cq)) = Len(cq) - 1
    BY <1>1, TailAt, Zenon
  <1> QED BY <1>1, <1>2, TailAt

\* Reaping another operation's CQE keeps an operation's results in order.
LEMMA OrderReapedOther ==
  ASSUME ReactorTypeOK, NEW k \in Keys, NEW o \in Ops, InOrder(k, o),
         cq # <<>>, cq' = Tail(cq), ~CqeOf(1, o),
         slab'[k].results = slab[k].results,
         delivered'[o] = delivered[o], posted'[o] = posted[o]
  PROVE  InOrder(k, o)'
  <1>1. /\ Len(cq) \in Nat \ {0} /\ Len(cq') = Len(cq) - 1
        /\ \A i \in 1..Len(cq') : i + 1 \in 1..Len(cq) /\ cq'[i] = cq[i + 1]
    BY ReapTail, Zenon
  <1>2. \A i \in 1..Len(cq') : CqeOf(i, o)' => CqeOf(i + 1, o)
    BY <1>1, Zenon DEF CqeOf
  <1>3. \A i \in 1..Len(cq) : CqeOf(i, o) =>
          i - 1 \in 1..Len(cq') /\ CqeOf(i - 1, o)' /\ cq'[i - 1] = cq[i]
    <2> SUFFICES ASSUME NEW i \in 1..Len(cq), CqeOf(i, o)
                 PROVE  i - 1 \in 1..Len(cq') /\ CqeOf(i - 1, o)' /\ cq'[i - 1] = cq[i]
      BY Zenon
    <2>1. i # 1
      BY Zenon
    <2>2. i - 1 \in 1..Len(cq') /\ (i - 1) + 1 = i
      BY <1>1, <2>1
    <2> QED BY <1>1, <2>2, Zenon DEF CqeOf
  <1> DEFINE m == delivered[o] + Len(slab[k].results)
  <1>4. \A n \in m + 1 .. posted[o] : \E i \in 1..Len(cq) : CqeOf(i, o) /\ cq[i].n = n
    BY Zenon DEF InOrder
  <1>5. \A i \in 1..Len(cq) : CqeOf(i, o) =>
          /\ cq[i].key = k /\ cq[i].n \in m + 1 .. posted[o]
          /\ \A j \in i + 1 .. Len(cq) : CqeOf(j, o) => cq[i].n < cq[j].n
    BY Zenon DEF InOrder
  <1>6. m <= posted[o] /\ \A j \in 1..Len(slab[k].results) : slab[k].results[j] = delivered[o] + j
    BY Zenon DEF InOrder
  <1>7. \A n \in m + 1 .. posted[o] : \E i \in 1..Len(cq') : CqeOf(i, o)' /\ cq'[i].n = n
    <2> SUFFICES ASSUME NEW n \in m + 1 .. posted[o]
                 PROVE  \E i \in 1..Len(cq') : CqeOf(i, o)' /\ cq'[i].n = n
      BY Zenon
    <2>1. PICK i \in 1..Len(cq) : CqeOf(i, o) /\ cq[i].n = n
      BY <1>4, Zenon
    <2> QED BY <1>3, <2>1, Zenon
  <1>8. ASSUME NEW i \in 1..Len(cq'), CqeOf(i, o)'
        PROVE  /\ cq'[i].key = k /\ cq'[i].n \in m + 1 .. posted[o]
               /\ \A j \in i + 1 .. Len(cq') : CqeOf(j, o)' => cq'[i].n < cq'[j].n
    <2> HIDE DEF m
    <2>1. i + 1 \in 1..Len(cq) /\ CqeOf(i + 1, o) /\ cq'[i] = cq[i + 1]
      BY <1>1, <1>2, <1>8, Zenon
    <2>2. /\ cq[i + 1].key = k /\ cq[i + 1].n \in m + 1 .. posted[o]
          /\ \A j \in (i + 1) + 1 .. Len(cq) : CqeOf(j, o) => cq[i + 1].n < cq[j].n
      BY <1>5, <2>1, Zenon
    <2>3. ASSUME NEW j \in i + 1 .. Len(cq'), CqeOf(j, o)'
          PROVE  cq[i + 1].n < cq'[j].n
      <3>1. j \in 1..Len(cq') /\ j + 1 \in (i + 1) + 1 .. Len(cq)
        BY <1>1
      <3>2. CqeOf(j + 1, o) /\ cq'[j] = cq[j + 1]
        BY <1>1, <1>2, <2>3, <3>1, Zenon
      <3> QED BY <2>2, <3>1, <3>2, Zenon
    <2> QED BY <2>1, <2>2, <2>3, Zenon
  <1> QED BY <1>6, <1>7, <1>8, Zenon DEF InOrder

\* The first CQE of an operation is the next of its results.
LEMMA OrderReaped ==
  ASSUME ReactorTypeOK, NEW k \in Keys, NEW o \in Ops, InOrder(k, o), Occupied(k),
         cq # <<>>, cq' = Tail(cq), CqeOf(1, o),
         slab'[k].results = Append(slab[k].results, cq[1].n),
         delivered'[o] = delivered[o], posted'[o] = posted[o]
  PROVE  InOrder(k, o)'
  <1>1. /\ Len(cq) \in Nat \ {0} /\ Len(cq') = Len(cq) - 1 /\ 1 \in 1..Len(cq)
        /\ \A i \in 1..Len(cq') : i + 1 \in 1..Len(cq) /\ cq'[i] = cq[i + 1]
    BY ReapTail, Zenon
  <1>2. posted[o] \in Nat /\ delivered[o] \in Nat /\ slab[k].results \in Seq(Nat)
    BY EntryFields, Zenon DEF ReactorTypeOK
  <1>3. PICK m \in Nat : m = delivered[o] + Len(slab[k].results)
    BY <1>2
  <1>4. /\ m <= posted[o]
        /\ \A n \in m + 1 .. posted[o] : \E i \in 1..Len(cq) : CqeOf(i, o) /\ cq[i].n = n
        /\ \A j \in 1..Len(slab[k].results) : slab[k].results[j] = delivered[o] + j
    BY <1>3, Zenon DEF InOrder
  <1>5. \A i \in 1..Len(cq) : CqeOf(i, o) =>
          /\ cq[i].key = k /\ cq[i].n \in m + 1 .. posted[o]
          /\ \A j \in i + 1 .. Len(cq) : CqeOf(j, o) => cq[i].n < cq[j].n
    BY <1>3, Zenon DEF InOrder
  <1>6. /\ cq[1].n \in m + 1 .. posted[o]
        /\ \A j \in 2..Len(cq) : CqeOf(j, o) => cq[1].n < cq[j].n
    BY <1>1, <1>5
  <1>7. cq[1].n = m + 1 /\ m + 1 <= posted[o]
    <2>1. m + 1 \in m + 1 .. posted[o]
      BY <1>2, <1>6
    <2>2. PICK i \in 1..Len(cq) : CqeOf(i, o) /\ cq[i].n = m + 1
      BY <1>4, <2>1, Zenon
    <2>3. CASE i = 1
      BY <2>1, <2>2, <2>3
    <2>4. CASE i # 1
      <3>1. i \in 2..Len(cq)
        BY <1>1, <2>4
      <3>2. cq[1].n < m + 1
        BY <1>6, <2>2, <3>1, Zenon
      <3> QED BY <1>2, <1>6, <3>2
    <2> QED BY <2>3, <2>4, Zenon
  <1>8. /\ Len(slab'[k].results) = Len(slab[k].results) + 1
        /\ \A j \in 1..Len(slab[k].results) : slab'[k].results[j] = slab[k].results[j]
        /\ slab'[k].results[Len(slab[k].results) + 1] = m + 1
    BY <1>2, <1>7, AppendAt
  <1>9. PICK l \in Nat : l = Len(slab[k].results)
    BY <1>2
  <1>10. /\ delivered'[o] + Len(slab'[k].results) = m + 1
         /\ \A j \in 1..Len(slab'[k].results) : slab'[k].results[j] = delivered'[o] + j
    <2>1. m = delivered[o] + l /\ Len(slab'[k].results) = l + 1 /\ delivered[o] \in Nat
      BY <1>2, <1>3, <1>8, <1>9, Zenon
    <2>2. ASSUME NEW j \in 1 .. l + 1
          PROVE  slab'[k].results[j] = delivered[o] + j
      <3>1. CASE j = l + 1
        BY <1>8, <1>9, <2>1, <3>1, SMTT(20)
      <3>2. CASE j # l + 1
        <4>1. j \in 1..l
          BY <3>2
        <4> QED BY <1>4, <1>8, <1>9, <4>1, Zenon
      <3> QED BY <3>1, <3>2, Zenon
    <2>3. delivered[o] + (l + 1) = m + 1
      BY <2>1
    <2> QED BY <2>1, <2>2, <2>3, Zenon
  <1>11. ASSUME NEW n \in (m + 1) + 1 .. posted[o]
         PROVE  \E i \in 1..Len(cq') : CqeOf(i, o)' /\ cq'[i].n = n
    <2>1. n \in m + 1 .. posted[o] /\ n # m + 1
      BY <1>2
    <2>2. PICK i \in 1..Len(cq) : CqeOf(i, o) /\ cq[i].n = n
      BY <1>4, <2>1, Zenon
    <2>3. PICK h \in 1..Len(cq') : i = h + 1
      <3>1. i # 1
        BY <1>7, <2>1, <2>2, Zenon
      <3>2. i - 1 \in 1..Len(cq') /\ i = (i - 1) + 1
        BY <1>1, <3>1
      <3> QED BY <3>2, Zenon
    <2>4. CqeOf(h, o)' /\ cq'[h].n = n
      BY <1>1, <2>2, <2>3, Zenon DEF CqeOf
    <2> QED BY <2>4, Zenon
  <1>12. ASSUME NEW i \in 1..Len(cq'), CqeOf(i, o)'
         PROVE  /\ cq'[i].key = k /\ cq'[i].n \in (m + 1) + 1 .. posted[o]
                /\ \A j \in i + 1 .. Len(cq') : CqeOf(j, o)' => cq'[i].n < cq'[j].n
    <2>1. i + 1 \in 1..Len(cq) /\ CqeOf(i + 1, o) /\ cq'[i] = cq[i + 1] /\ i + 1 \in 2..Len(cq)
      BY <1>1, <1>12 DEF CqeOf
    <2>2. /\ cq[i + 1].key = k /\ cq[i + 1].n \in m + 1 .. posted[o]
          /\ \A j \in (i + 1) + 1 .. Len(cq) : CqeOf(j, o) => cq[i + 1].n < cq[j].n
      BY <1>5, <2>1, Zenon
    <2>3. cq[i + 1].n \in (m + 1) + 1 .. posted[o]
      <3>1. m + 1 < cq[i + 1].n
        BY <1>6, <1>7, <2>1, Zenon
      <3> QED BY <1>2, <2>2, <3>1
    <2>4. ASSUME NEW j \in i + 1 .. Len(cq'), CqeOf(j, o)'
          PROVE  cq[i + 1].n < cq'[j].n
      <3>1. j \in 1..Len(cq') /\ j + 1 \in (i + 1) + 1 .. Len(cq)
        BY <1>1
      <3>2. CqeOf(j + 1, o) /\ cq'[j] = cq[j + 1]
        BY <1>1, <2>4, <3>1, Zenon DEF CqeOf
      <3> QED BY <2>2, <3>1, <3>2, Zenon
    <2> QED BY <2>1, <2>2, <2>3, <2>4, Zenon
  <1> QED BY <1>7, <1>10, <1>11, <1>12, Zenon DEF InOrder

\* What holds after any CQE is reaped: the rings lead to the same entries.
LEMMA ReapKept ==
  ASSUME ReactorInv, pc' # "flush", cq # <<>>, cq' = Tail(cq),
         UNCHANGED <<sq, inflight, cancelled, posted, fut>>,
         \A k \in Keys, o \in Ops : Pending(k, o) => Pending(k, o)' \/ Unreferenced(o)'
  PROVE  QueuedPending' /\ PushedPending' /\ InFlightPending' /\ CompletedPending'
         /\ CancelsAimed'
  <1>1. ReactorTypeOK
    BY Zenon DEF ReactorInv
  <1>2. PushedPending' /\ CancelsAimed'
    BY CancelsKept, Zenon DEF PushedPending
  <1>3. InFlightPending'
    <2>1. \A r \in inflight : ~Unreferenced(r.id)'
      BY Zenon DEF Unreferenced
    <2> QED BY <1>1, <2>1, RingTypes, Zenon DEF ReactorInv, InFlightPending
  <1>4. QueuedPending'
    <2>1. \A i \in 1..Len(sq), o \in Ops : sq[i].kind = "op" /\ sq[i].id = o => ~Unreferenced(o)'
      BY Zenon DEF Unreferenced
    <2>2. \A i \in 1..Len(sq) : sq[i].kind = "op" =>
            \A k \in Keys, o \in Ops : sq[i].key = k /\ sq[i].id = o => Pending(k, o)'
      BY <1>1, <2>1, RingTypes, Zenon DEF ReactorInv, QueuedPending
    <2> QED BY <1>1, <2>2, RingTypes, SMTT(20) DEF ReactorInv, QueuedPending
  <1>5. CompletedPending'
    <2>1. /\ Len(cq) \in Nat \ {0} /\ Len(cq') = Len(cq) - 1
          /\ \A i \in 1..Len(cq') : i + 1 \in 1..Len(cq) /\ cq'[i] = cq[i + 1]
      BY <1>1, ReapTail, Zenon
    <2> SUFFICES ASSUME NEW i \in 1..Len(cq'), cq'[i].kind = "op"
                 PROVE  /\ Pending(cq[i].key, cq[i].id)' /\ posted[cq'[i].id] > 0
                        /\ IF cq'[i].more
                           THEN Multi(cq'[i].id)
                           ELSE /\ \A r \in inflight : r.id # cq'[i].id
                                /\ \A j \in i + 1 .. Len(cq') :
                                     cq'[j].kind = "op" => cq'[j].id # cq'[i].id
      BY Zenon DEF CompletedPending
    <2>2. /\ i + 1 \in 1..Len(cq) /\ cq'[i] = cq[i + 1] /\ cq[i + 1].kind = "op"
          /\ cq[i + 1].key \in Keys /\ cq[i + 1].id \in Ops
      BY <1>1, <2>1, RingTypes, Zenon
    <2>3. PICK k \in Keys, o \in Ops : cq'[i].key = k /\ cq'[i].id = o
      BY <2>2, Zenon
    <2>4. /\ Pending(k, o) /\ posted[o] > 0
          /\ IF cq'[i].more
             THEN Multi(o)
             ELSE /\ \A r \in inflight : r.id # o
                  /\ \A j \in (i + 1) + 1 .. Len(cq) : cq[j].kind = "op" => cq[j].id # o
      BY <2>2, <2>3, Zenon DEF ReactorInv, CompletedPending
    <2>5. ~Unreferenced(o)'
      BY <2>3, Zenon DEF Unreferenced
    <2>6. Pending(k, o)'
      BY <2>4, <2>5, Zenon
    <2>7. \A j \in i + 1 .. Len(cq') : j + 1 \in (i + 1) + 1 .. Len(cq) /\ cq'[j] = cq[j + 1]
      BY <2>1
    <2>8. Pending(cq[i].key, cq[i].id)'
      BY <2>3, <2>6, Zenon
    <2> QED BY <2>3, <2>4, <2>7, <2>8, Zenon
  <1> QED BY <1>2, <1>3, <1>4, <1>5, Zenon

\* The results of the operations the CQE is not of.
LEMMA OthersInOrder ==
  ASSUME ReactorInv, NEW k \in Keys, Occupied(k), ~slab[k].orphaned,
         cq # <<>>, cq' = Tail(cq), ~CqeOf(1, slab[k].id), slab'[k] = slab[k],
         UNCHANGED <<posted, delivered>>
  PROVE  /\ InOrder(k, slab[k].id)'
         /\ slab'[k].terminated => slab'[k].results # <<>>
  <1>1. ReactorTypeOK
    BY Zenon DEF ReactorInv
  <1>2. PICK o \in Ops : o = slab[k].id
    BY <1>1, EntryFields, Zenon
  <1>3. InOrder(k, o) /\ (slab[k].terminated => slab[k].results # <<>>)
    BY <1>2, Zenon DEF ReactorInv, ResultsInOrder, Occupied
  <1>4. InOrder(k, o)'
    BY <1>1, <1>2, <1>3, OrderReapedOther, Zenon
  <1> QED BY <1>2, <1>3, <1>4, Zenon

\* A CQE that changes no entry: of a cancel, or of an orphan that goes on.
LEMMA ReapSkipInv ==
  ASSUME ReactorInv, ReapCqe, UNCHANGED <<slab, mem, ready, woken>>,
         \A k \in Keys : Occupied(k) /\ ~slab[k].orphaned => ~CqeOf(1, slab[k].id)
  PROVE  ReactorInv'
  <1>1. /\ pc = "reap" /\ cq # <<>> /\ cq' = Tail(cq)
        /\ UNCHANGED <<sq, inflight, cancelled, posted, fut, delivered, pc, pushing, dying>>
    BY Zenon DEF ReapCqe
  <1>2. ReactorTypeOK
    BY Zenon DEF ReactorInv
  <1>3. cq' \in Seq(Cqes)
    BY <1>1, <1>2, ReapTail, Zenon
  <1>4. ReactorTypeOK'
    BY <1>1, <1>2, <1>3, ZenonT(30) DEF ReactorTypeOK
  <1>5. EntriesOwned' /\ FuturesServed' /\ TasksWoken'
    BY <1>1, ZenonT(20) DEF ReactorInv, EntriesOwned, FuturesServed, TasksWoken, Occupied
  <1>6. \A k, o : Pending(k, o)' = Pending(k, o)
    BY Zenon DEF Pending, Occupied
  <1>7. QueuedPending' /\ PushedPending' /\ InFlightPending' /\ CompletedPending'
        /\ CancelsAimed'
    BY <1>1, <1>6, ReapKept, Zenon
  <1>8. ResultsInOrder'
    <2> SUFFICES ASSUME NEW j \in Keys, Occupied(j)', ~slab'[j].orphaned
                 PROVE  /\ InOrder(j, slab[j].id)'
                        /\ slab'[j].terminated => slab'[j].results # <<>>
      BY Zenon DEF ResultsInOrder, Occupied
    <2>1. Occupied(j) /\ ~slab[j].orphaned /\ slab'[j] = slab[j]
      BY Zenon DEF Occupied
    <2> QED BY <1>1, <2>1, OthersInOrder, Zenon
  <1> QED BY <1>4, <1>5, <1>7, <1>8, Zenon DEF ReactorInv

\* The terminal CQE of an orphan: its entry and memory go.
LEMMA ReapOrphanInv ==
  ASSUME ReactorInv, ReapCqe, NEW k \in Keys, NEW o \in Ops, Pending(k, o),
         slab[k].orphaned, CqeOf(1, o), ~cq[1].more,
         dropEntry(k, "freed"), UNCHANGED <<ready, woken>>
  PROVE  ReactorInv'
  <1>1. /\ pc = "reap" /\ cq # <<>> /\ cq' = Tail(cq)
        /\ UNCHANGED <<sq, inflight, cancelled, posted, fut, delivered, pc, pushing, dying>>
    BY Zenon DEF ReapCqe
  <1>2. ReactorTypeOK /\ Occupied(k) /\ slab[k].id = o
    BY Zenon DEF ReactorInv, Pending
  <1>3. /\ slab' = [slab EXCEPT ![k] = None]
        /\ mem' = [mem EXCEPT ![o] = IF Owns(o) THEN "freed" ELSE @]
    BY <1>2, Zenon DEF dropEntry
  <1>4. /\ cq' \in Seq(Cqes) /\ Len(cq) \in Nat \ {0} /\ 1 \in 1..Len(cq)
        /\ \A i \in 1..Len(cq') : i + 1 \in 2..Len(cq) /\ cq'[i] = cq[i + 1]
    BY <1>1, <1>2, ReapTail, Zenon
  <1>5. /\ slab' \in [Keys -> OpEntry \cup {None}]
        /\ mem' \in [Ops -> {"caller", "entry", "freed"}]
    BY <1>2, <1>3, Zenon DEF ReactorTypeOK
  <1>6. ReactorTypeOK'
    BY <1>1, <1>2, <1>4, <1>5, Zenon DEF ReactorTypeOK
  <1>7. \A j \in Keys : Occupied(j)' => /\ j # k /\ Occupied(j) /\ slab'[j] = slab[j]
                                        /\ slab[j].id \in Ops \ {o}
    BY <1>2, <1>3, EntryFields, Zenon DEF ReactorInv, ReactorTypeOK, EntriesOwned, Occupied
  <1>8. \A j \in Keys : Occupied(j) /\ slab[j].id # o => Occupied(j)' /\ slab'[j] = slab[j]
    BY <1>2, <1>3, Zenon DEF ReactorTypeOK, Occupied
  <1>9. \A p \in Ops \ {o} : mem'[p] = mem[p]
    BY <1>2, <1>3, Zenon DEF ReactorTypeOK
  <1>10. fut[o] = "dropped"
    BY <1>2, Zenon DEF ReactorInv, EntriesOwned
  <1>11. EntriesOwned'
    <2> SUFFICES ASSUME NEW j \in Keys, Occupied(j)'
                 PROVE  /\ fut'[slab'[j].id] = IF slab'[j].orphaned THEN "dropped" ELSE "held"
                        /\ Owns(slab'[j].id) => mem'[slab'[j].id] = "entry"
                        /\ slab'[j].results # <<>> /\ ~Multi(slab'[j].id)
                             => slab'[j].terminated
                        /\ \A i \in Keys : Occupied(i)' /\ slab'[i].id = slab'[j].id => i = j
      BY Zenon DEF EntriesOwned
    <2>1. Occupied(j) /\ slab'[j] = slab[j] /\ slab[j].id \in Ops \ {o}
      BY <1>7, Zenon
    <2>2. /\ fut[slab[j].id] = IF slab[j].orphaned THEN "dropped" ELSE "held"
          /\ Owns(slab[j].id) => mem[slab[j].id] = "entry"
          /\ slab[j].results # <<>> /\ ~Multi(slab[j].id) => slab[j].terminated
          /\ \A i \in Keys : Occupied(i) /\ slab[i].id = slab[j].id => i = j
      BY <2>1, Zenon DEF ReactorInv, EntriesOwned
    <2>3. fut' = fut /\ mem'[slab[j].id] = mem[slab[j].id]
      BY <1>1, <1>9, <2>1, Zenon
    <2>4. \A i \in Keys : Occupied(i)' => Occupied(i) /\ slab'[i] = slab[i]
      BY <1>7, Zenon
    <2> QED BY <2>1, <2>2, <2>3, <2>4, Zenon
  <1>12. FuturesServed'
    <2> SUFFICES ASSUME NEW p \in Ops
                 PROVE  /\ fut'[p] = "new" => posted'[p] = 0 /\ delivered'[p] = 0
                        /\ fut'[p] = "held" => \E j \in Keys : Occupied(j)' /\ slab'[j].id = p
      BY Zenon DEF FuturesServed
    <2>1. CASE p = o
      BY <1>1, <1>10, <2>1, Zenon
    <2>2. CASE p # o
      <3>1. /\ fut[p] = "new" => posted[p] = 0 /\ delivered[p] = 0
            /\ fut[p] = "held" => \E j \in Keys : Occupied(j) /\ slab[j].id = p
        BY Zenon DEF ReactorInv, FuturesServed
      <3> QED BY <1>1, <1>8, <2>2, <3>1, Zenon
    <2> QED BY <2>1, <2>2, Zenon
  <1>13. Unreferenced(o)'
    <2>1. /\ posted[o] > 0 /\ \A r \in inflight : r.id # o
          /\ \A j \in 1 + 1 .. Len(cq) : cq[j].kind = "op" => cq[j].id # o
      BY <1>4, Zenon DEF ReactorInv, CompletedPending, CqeOf
    <2>2. \A i \in 1..Len(sq) : sq[i].kind = "op" => sq[i].id # o
      BY <2>1, CompletedNotQueued, Zenon DEF ReactorInv
    <2>3. \A i \in 1..Len(cq') : cq'[i].kind = "op" => cq'[i].id # o
      BY <1>4, <2>1, AfterFirst, Zenon
    <2> QED BY <1>1, <2>1, <2>2, <2>3, Zenon DEF Unreferenced
  <1>14. \A j \in Keys, p \in Ops : Pending(j, p) => Pending(j, p)' \/ Unreferenced(p)'
    BY <1>8, <1>13, Zenon DEF Pending
  <1>15. QueuedPending' /\ PushedPending' /\ InFlightPending' /\ CompletedPending'
         /\ CancelsAimed'
    BY <1>1, <1>14, ReapKept, Zenon
  <1>16. TasksWoken'
    BY <1>1, <1>7, Zenon DEF ReactorInv, TasksWoken
  <1>17. ResultsInOrder'
    <2> SUFFICES ASSUME NEW j \in Keys, Occupied(j)', ~slab'[j].orphaned
                 PROVE  /\ InOrder(j, slab[j].id)'
                        /\ slab'[j].terminated => slab'[j].results # <<>>
      BY Zenon DEF ResultsInOrder, Occupied
    <2>1. Occupied(j) /\ ~slab[j].orphaned /\ slab'[j] = slab[j] /\ ~CqeOf(1, slab[j].id)
      BY <1>7, Zenon DEF CqeOf
    <2> QED BY <1>1, <2>1, OthersInOrder, Zenon
  <1> QED BY <1>6, <1>11, <1>12, <1>15, <1>16, <1>17, Zenon DEF ReactorInv

\* A CQE of a held operation: its result is queued and its task woken.
LEMMA ReapResultInv ==
  ASSUME ReactorInv, ReapCqe, NEW k \in Keys, NEW o \in Ops, Pending(k, o),
         ~slab[k].orphaned, CqeOf(1, o), cq[1].key = k
  PROVE  ReactorInv'
  <1>1. /\ pc = "reap" /\ cq # <<>> /\ cq' = Tail(cq)
        /\ UNCHANGED <<sq, inflight, cancelled, posted, fut, delivered, pc, pushing, dying>>
    BY Zenon DEF ReapCqe
  <1>2. ReactorTypeOK /\ Occupied(k) /\ slab[k].id = o /\ ~slab[k].terminated
    BY Zenon DEF ReactorInv, Pending
  <1>3. /\ slab' = [slab EXCEPT ![k] = [slab[k] EXCEPT !.results = Append(@, cq[1].n),
                                                      !.terminated = ~cq[1].more,
                                                      !.waker = FALSE]]
        /\ woken' = (woken \/ slab[k].waker)
        /\ ready' = IF slab[k].waker THEN ready \cup {o} ELSE ready
        /\ mem' = mem
    BY <1>2, Zenon DEF ReapCqe, route, CqeOf, Occupied
  <1>4. /\ cq' \in Seq(Cqes) /\ Len(cq) \in Nat \ {0} /\ 1 \in 1..Len(cq)
        /\ \A i \in 1..Len(cq') : i + 1 \in 2..Len(cq) /\ cq'[i] = cq[i + 1]
    BY <1>1, <1>2, ReapTail, Zenon
  <1>5. cq[1].n \in Nat /\ cq[1].more \in BOOLEAN
    BY <1>2, <1>4, RingTypes, Zenon DEF CqeOf
  <1>6. /\ slab[k] \in OpEntry /\ slab[k].results \in Seq(Nat) /\ slab[k].waker \in BOOLEAN
        /\ slab \in [Keys -> OpEntry \cup {None}] /\ None \notin OpEntry
        /\ woken \in BOOLEAN /\ ready \in SUBSET Ops
    BY <1>2, EntryFields, ReactorConstants, Zenon DEF ReactorTypeOK
  <1>7. Append(slab[k].results, cq[1].n) \in Seq(Nat) /\ Append(slab[k].results, cq[1].n) # <<>>
    BY <1>5, <1>6
  <1>8. /\ slab'[k] \in OpEntry /\ slab'[k].id = o
        /\ slab'[k].results = Append(slab[k].results, cq[1].n)
        /\ slab'[k].terminated = ~cq[1].more /\ slab'[k].orphaned = slab[k].orphaned
        /\ \A j \in Keys \ {k} : slab'[j] = slab[j]
    BY <1>2, <1>3, <1>5, <1>6, <1>7, Zenon DEF OpEntry
  <1>9. slab' \in [Keys -> OpEntry \cup {None}]
    BY <1>3, <1>6, <1>8, Zenon
  <1>10. woken' \in BOOLEAN /\ ready' \in SUBSET Ops
    BY <1>3, <1>6, Zenon
  <1>11. ReactorTypeOK'
    BY <1>1, <1>2, <1>3, <1>4, <1>9, <1>10, Zenon DEF ReactorTypeOK
  <1>12. \A j \in Keys : /\ Occupied(j)' = Occupied(j)
                         /\ Occupied(j) => slab'[j].id = slab[j].id
    BY <1>2, <1>6, <1>8, Zenon DEF Occupied
  <1>13. \A j \in Keys \ {k} : Occupied(j) => slab[j].id \in Ops \ {o}
    BY <1>2, EntryFields, Zenon DEF ReactorInv, EntriesOwned
  <1>14. /\ cq[1].more => Multi(o)
         /\ posted[o] > 0
         /\ ~cq[1].more => /\ \A r \in inflight : r.id # o
                          /\ \A j \in 1 + 1 .. Len(cq) : cq[j].kind = "op" => cq[j].id # o
    BY <1>4, Zenon DEF ReactorInv, CompletedPending, CqeOf
  <1>15. EntriesOwned'
    <2> SUFFICES ASSUME NEW j \in Keys, Occupied(j)'
                 PROVE  /\ fut'[slab'[j].id] = IF slab'[j].orphaned THEN "dropped" ELSE "held"
                        /\ Owns(slab'[j].id) => mem'[slab'[j].id] = "entry"
                        /\ slab'[j].results # <<>> /\ ~Multi(slab'[j].id)
                             => slab'[j].terminated
                        /\ \A i \in Keys : Occupied(i)' /\ slab'[i].id = slab'[j].id => i = j
      BY Zenon DEF EntriesOwned
    <2>1. \A i \in Keys : Occupied(i)' /\ slab'[i].id = slab'[j].id => i = j
      <3>1. \A i \in Keys : Occupied(i) /\ slab[i].id = slab[j].id => i = j
        BY <1>12, Zenon DEF ReactorInv, EntriesOwned
      <3> QED BY <1>12, <3>1, Zenon
    <2>2. /\ Owns(slab[j].id) => mem[slab[j].id] = "entry"
          /\ slab[j].results # <<>> /\ ~Multi(slab[j].id) => slab[j].terminated
          /\ fut[slab[j].id] = IF slab[j].orphaned THEN "dropped" ELSE "held"
      BY <1>12, Zenon DEF ReactorInv, EntriesOwned
    <2>3. mem' = mem /\ fut' = fut
      BY <1>1, <1>3, Zenon
    <2>4. CASE j = k
      BY <1>2, <1>8, <1>14, <2>1, <2>2, <2>3, <2>4, Zenon
    <2>5. CASE j # k
      BY <1>8, <2>1, <2>2, <2>3, <2>5, ZenonT(30)
    <2> QED BY <2>4, <2>5, Zenon
  <1>16. FuturesServed'
    BY <1>1, <1>12, FuturesKept, Zenon DEF ReactorInv
  <1>17. \A j \in Keys, p \in Ops : Pending(j, p) => Pending(j, p)' \/ Unreferenced(p)'
    <2> SUFFICES ASSUME NEW j \in Keys, NEW p \in Ops, Pending(j, p)
                 PROVE  Pending(j, p)' \/ Unreferenced(p)'
      BY Zenon
    <2>1. CASE j # k
      BY <1>8, <1>12, <2>1, Zenon DEF Pending
    <2>2. CASE j = k /\ cq[1].more
      BY <1>8, <1>12, <2>2, Zenon DEF Pending
    <2>3. CASE j = k /\ ~cq[1].more
      <3>1. p = o
        BY <1>2, <2>3, Zenon DEF Pending
      <3>2. \A i \in 1..Len(sq) : sq[i].kind = "op" => sq[i].id # o
        BY <1>14, CompletedNotQueued, Zenon DEF ReactorInv
      <3>3. \A i \in 1..Len(cq') : cq'[i].kind = "op" => cq'[i].id # o
        BY <1>4, <1>14, <2>3, AfterFirst, Zenon
      <3> QED BY <1>1, <1>14, <2>3, <3>1, <3>2, <3>3, Zenon DEF Unreferenced
    <2> QED BY <2>1, <2>2, <2>3, Zenon
  <1>18. QueuedPending' /\ PushedPending' /\ InFlightPending' /\ CompletedPending'
         /\ CancelsAimed'
    BY <1>1, <1>17, ReapKept, Zenon
  <1>19. TasksWoken'
    <2>1. ASSUME NEW j \in Keys, Occupied(j)', ~slab'[j].orphaned, ~dying
          PROVE  slab'[j].id \in ready' \/ (slab'[j].waker /\ slab'[j].results = <<>>)
      <3>1. slab[j].id \in ready \/ (slab[j].waker /\ slab[j].results = <<>>)
        BY <1>8, <1>12, <2>1, Zenon DEF ReactorInv, TasksWoken
      <3>2. CASE j = k
        BY <1>2, <1>3, <1>8, <3>1, <3>2
      <3>3. CASE j # k
        BY <1>3, <1>8, <3>1, <3>3
      <3> QED BY <3>2, <3>3, Zenon
    <2>2. ~dying
      BY <1>1, <1>2, Zenon DEF ReactorInv, TasksWoken, EntriesOwned
    <2>3. ~woken' => ready' = {}
      BY <1>1, <1>3, Zenon DEF ReactorInv, TasksWoken
    <2> QED BY <1>1, <2>1, <2>2, <2>3, Zenon DEF ReactorInv, TasksWoken
  <1>20. ResultsInOrder'
    <2> SUFFICES ASSUME NEW j \in Keys, Occupied(j)', ~slab'[j].orphaned
                 PROVE  /\ InOrder(j, slab[j].id)'
                        /\ slab'[j].terminated => slab'[j].results # <<>>
      BY Zenon DEF ResultsInOrder, Occupied
    <2>1. CASE j = k
      <3>1. InOrder(k, o)
        BY <1>2, Zenon DEF ReactorInv, ResultsInOrder, Occupied
      <3>2. InOrder(k, o)'
        BY <1>1, <1>2, <1>8, <3>1, OrderReaped, Zenon
      <3> QED BY <1>7, <1>8, <2>1, <3>2, Zenon
    <2>2. CASE j # k
      <3>1. Occupied(j) /\ slab'[j] = slab[j] /\ ~slab[j].orphaned /\ ~CqeOf(1, slab[j].id)
        BY <1>8, <1>12, <1>13, <2>2, Zenon DEF CqeOf
      <3> QED BY <1>1, <3>1, OthersInOrder, Zenon
    <2> QED BY <2>1, <2>2, Zenon
  <1> QED BY <1>11, <1>15, <1>16, <1>18, <1>19, <1>20, Zenon DEF ReactorInv

\* Reactor::reap routes one CQE to its entry, or reclaims the entry.
LEMMA ReapCqeInv ==
  ASSUME ReactorInv, ReapCqe
  PROVE  ReactorInv'
  <1>1. ReactorTypeOK /\ cq # <<>> /\ cq' = Tail(cq)
    BY Zenon DEF ReactorInv, ReapCqe
  <1>2. 1 \in 1..Len(cq)
    BY <1>1, ReapTail, Zenon
  <1>3. CASE cq[1].kind = "ignore"
    <2>1. \A k \in Keys : ~CqeOf(1, slab[k].id)
      BY <1>3, Zenon DEF CqeOf
    <2> QED BY <1>3, <2>1, ReapSkipInv, Zenon DEF ReapCqe
  <1>4. CASE cq[1].kind # "ignore"
    <2>1. PICK k \in Keys, o \in Ops : cq[1].kind = "op" /\ cq[1].key = k /\ cq[1].id = o
      BY <1>1, <1>2, <1>4, RingTypes, Zenon
    <2>2. Pending(k, o) /\ CqeOf(1, o)
      BY <1>2, <2>1, Zenon DEF ReactorInv, CompletedPending, CqeOf
    <2>3. route(cq[1]) /\ slab[k] # None /\ slab[k].id = o
      BY <1>4, <2>2, Zenon DEF ReapCqe, Pending, Occupied
    <2>4. CASE ~slab[k].orphaned
      BY <2>1, <2>2, <2>4, ReapResultInv, Zenon
    <2>5. CASE slab[k].orphaned /\ cq[1].more
      <3>1. UNCHANGED <<slab, mem, ready, woken>>
        BY <2>1, <2>3, <2>5, Zenon DEF route
      <3>2. \A j \in Keys : Occupied(j) /\ ~slab[j].orphaned => ~CqeOf(1, slab[j].id)
        <4>1. \A j \in Keys : Occupied(j) /\ slab[j].id = slab[k].id => j = k
          BY <2>3, Zenon DEF ReactorInv, EntriesOwned, Occupied
        <4> QED BY <2>1, <2>3, <2>5, <4>1, Zenon DEF CqeOf
      <3> QED BY <3>1, <3>2, ReapSkipInv, Zenon
    <2>6. CASE slab[k].orphaned /\ ~cq[1].more
      <3>1. dropEntry(k, "freed") /\ UNCHANGED <<ready, woken>>
        BY <2>1, <2>3, <2>6, Zenon DEF route
      <3> QED BY <2>2, <2>6, <3>1, ReapOrphanInv, Zenon
    <2> QED BY <2>4, <2>5, <2>6, Zenon
  <1> QED BY <1>3, <1>4, Zenon

\* The steps of the loop that touch no operation.
LEMMA LoopStepInv ==
  ASSUME ReactorInv, Park \/ ReapEnd \/ EnterReturns \/ RuntimeDrop \/ DrainRound
                     \/ UNCHANGED vars
  PROVE  ReactorInv'
  <1>1. /\ woken \in BOOLEAN /\ dying \in BOOLEAN /\ ready \in SUBSET Ops
        /\ pc \in {"run", "flush", "reap", "enter", "condvar", "gone", "leaked"}
    BY Zenon DEF ReactorInv, ReactorTypeOK
  <1>2. TasksWoken
    BY Zenon DEF ReactorInv
  <1>3. CASE Park
    <2>1. TasksWoken'
      BY <1>2, <1>3, Zenon DEF Park, TasksWoken, Occupied, kernelVars, taskVars
    <2> QED BY <1>1, <1>3, <2>1, LoopInv, Zenon DEF Park, kernelVars, taskVars
  <1>4. CASE ReapEnd
    <2>1. /\ UNCHANGED <<slab, sq, inflight, cancelled, cq, posted, delivered, fut, mem,
                         ready, woken, dying>>
          /\ pc = "reap" /\ ~dying
          /\ \/ woken /\ pc' = "run"
             \/ ~woken /\ pc' = "condvar" /\ \A k \in Keys : ~Occupied(k)
             \/ ~woken /\ pc' = "enter"
      BY <1>1, <1>4, Zenon DEF ReapEnd, Occupied, kernelVars, taskVars, loopVars
    <2>2. TasksWoken'
      BY <1>2, <2>1, Zenon DEF TasksWoken, Occupied
    <2> QED BY <1>1, <2>1, <2>2, LoopInv, Zenon
  <1>5. CASE EnterReturns
    <2>1. TasksWoken'
      BY <1>2, <1>5, Zenon DEF EnterReturns, TasksWoken, Occupied, kernelVars, taskVars
    <2> QED BY <1>1, <1>5, <2>1, LoopInv, Zenon DEF EnterReturns, kernelVars, taskVars
  <1>6. CASE RuntimeDrop
    <2>1. TasksWoken'
      BY <1>2, <1>6, Zenon DEF RuntimeDrop, TasksWoken, Occupied, kernelVars
    <2> QED BY <1>1, <1>6, <2>1, LoopInv, Zenon DEF RuntimeDrop, kernelVars
  <1>7. CASE DrainRound
    <2>1. /\ UNCHANGED <<slab, sq, inflight, cancelled, cq, posted, delivered, fut, mem,
                         ready, woken, dying>>
          /\ pc' \in {"gone", "leaked", "enter"} /\ dying /\ \A o \in Ops : fut[o] # "held"
      BY <1>7, Zenon DEF DrainRound, kernelVars, taskVars
    <2>2. TasksWoken'
      BY <1>2, <2>1, Zenon DEF TasksWoken, Occupied
    <2> QED BY <1>1, <2>1, <2>2, LoopInv, Zenon
  <1>8. CASE UNCHANGED vars
    <2>1. UNCHANGED <<slab, sq, inflight, cancelled, cq, posted, delivered, fut, mem, ready,
                      woken, dying, pc, pushing>>
      BY <1>8, Zenon DEF vars, kernelVars, taskVars, loopVars
    <2>2. TasksWoken'
      BY <1>2, <2>1, Zenon DEF TasksWoken, Occupied
    <2> QED BY <1>1, <2>1, <2>2, LoopInv, Zenon
  <1> QED BY <1>3, <1>4, <1>5, <1>6, <1>7, <1>8, Zenon

-----------------------------------------------------------------------------
(* The theorems.                                                           *)

\* The invariant holds of a new reactor.
LEMMA InitInv == Init => ReactorInv
  <1> SUFFICES ASSUME Init PROVE ReactorInv
    BY Zenon
  <1>1. \A k \in Keys : ~Occupied(k)
    BY Zenon DEF Init, Occupied
  <1>2. Len(sq) = 0 /\ Len(cq) = 0 /\ inflight = {} /\ pc = "run"
    BY Zenon DEF Init
  <1>3. ReactorTypeOK
    <2>1. sq \in Seq(Sqes) /\ cq \in Seq(Cqes)
      BY DEF Init
    <2> QED BY <2>1, Zenon DEF Init, ReactorTypeOK
  <1>4. EntriesOwned /\ FuturesServed /\ TasksWoken
    BY <1>1, Zenon DEF Init, EntriesOwned, FuturesServed, TasksWoken
  <1>5. QueuedPending /\ PushedPending /\ InFlightPending /\ CompletedPending
    BY <1>2 DEF QueuedPending, PushedPending, InFlightPending, CompletedPending
  <1>6. CancelsAimed
    BY <1>2, SMTT(20) DEF Init, CancelsAimed
  <1>7. ResultsInOrder
    BY <1>1, Zenon DEF ResultsInOrder, Occupied
  <1> QED BY <1>3, <1>4, <1>5, <1>6, <1>7, Zenon DEF ReactorInv

\* Every step of tasks, loop and kernel preserves it.
LEMMA NextInv == ReactorInv /\ [Next]_vars => ReactorInv'
  <1> SUFFICES ASSUME ReactorInv, [Next]_vars PROVE ReactorInv'
    BY Zenon
  <1>1. ASSUME NEW o \in Ops, NEW k \in Keys,
               Submit(o, k) \/ Orphan(o, k) \/ PollSingle(o, k) \/ PollNext(o, k)
        PROVE  ReactorInv'
    BY <1>1, SubmitInv, OrphanInv, PollSingleInv, PollNextInv, Zenon
  <1>2. ASSUME NEW ok \in BOOLEAN, FlushReturns(ok)
        PROVE  ReactorInv'
    BY <1>2, FlushReturnsInv, Zenon
  <1>3. CASE ReapCqe
    BY <1>3, ReapCqeInv, Zenon
  <1>4. CASE KernelTake
    BY <1>4, KernelTakeOpInv, KernelTakeCancelInv, Zenon
  <1>5. ASSUME NEW r \in inflight, NEW more \in BOOLEAN, KernelPost(r, more)
        PROVE  ReactorInv'
    BY <1>5, KernelPostInv, Zenon
  <1>6. CASE Park \/ ReapEnd \/ EnterReturns \/ RuntimeDrop \/ DrainRound \/ UNCHANGED vars
    BY <1>6, LoopStepInv, Zenon
  <1> QED BY <1>1, <1>2, <1>3, <1>4, <1>5, <1>6, Zenon DEF Next, Scheduler

\* Wherever a request of the ring is, its key leads to the entry it was submitted
\* with; cancels precede the reuse of their key (reactor.rs).
THEOREM ReactorInvariant == Spec => []ReactorInv
  BY InitInv, NextInv, PTL DEF Spec

\* A buffer moved into an operation (op.rs) stays in its slab entry while a
\* request that points at it is queued or in the kernel, for any number of
\* operations, keys, ring entries and drain rounds.
THEOREM MemoryHeld == Spec => []KernelMemoryHeld
  <1>1. ReactorInv => KernelMemoryHeld
    <2> SUFFICES ASSUME ReactorInv, NEW o \in Ops, Owns(o), Submitted(o) \/ InFlight(o)
                 PROVE  mem[o] = "entry"
      BY Zenon DEF KernelMemoryHeld
    <2>1. ReactorTypeOK
      BY Zenon DEF ReactorInv
    <2>2. PICK k \in Keys : Pending(k, o)
      BY <2>1, RingTypes, Zenon DEF ReactorInv, QueuedPending, InFlightPending, Submitted, InFlight
    <2> QED BY <2>2, Zenon DEF ReactorInv, EntriesOwned, Pending
  <1> QED BY <1>1, ReactorInvariant, PTL

\* An ASYNC_CANCEL, which names a slab key that may be reused before the kernel
\* looks at it, never ends an operation whose future is held (Reactor::orphan).
THEOREM CancelAim == Spec => []CancelHitsOrphan
  <1>1. ReactorInv => CancelHitsOrphan
    BY Zenon DEF ReactorInv, CancelsAimed, CancelHitsOrphan
  <1> QED BY <1>1, ReactorInvariant, PTL

\* Every CQE of an operation reaches its future, once, in the order posted, and
\* an entry never terminates empty (reap, push_result, poll_single, poll_next).
THEOREM ResultsOrdered == Spec => []ResultsInOrder
  <1>1. ReactorInv => ResultsInOrder
    BY Zenon DEF ReactorInv
  <1> QED BY <1>1, ReactorInvariant, PTL

\* The thread never blocks while a held operation has a result or no waker
\* (Reactor::park).
THEOREM WakeupsKept == Spec => []NoLostWakeup
  <1>1. ReactorInv => NoLostWakeup
    <2> SUFFICES ASSUME ReactorInv, pc \in {"enter", "condvar"},
                        NEW o \in Ops, fut[o] = "held"
                 PROVE  /\ pc = "enter"
                        /\ \E k \in Keys : /\ slab[k] # None /\ slab[k].id = o
                                           /\ slab[k].waker /\ slab[k].results = <<>>
      BY Zenon DEF NoLostWakeup
    <2>1. PICK k \in Keys : Occupied(k) /\ slab[k].id = o
      BY Zenon DEF ReactorInv, FuturesServed
    <2>2. ~slab[k].orphaned
      BY <2>1, Zenon DEF ReactorInv, EntriesOwned
    <2>3. ~dying /\ ready = {} /\ pc # "condvar"
      BY <2>1, Zenon DEF ReactorInv, TasksWoken
    <2>4. slab[k].waker /\ slab[k].results = <<>>
      BY <2>1, <2>2, <2>3, Zenon DEF ReactorInv, TasksWoken
    <2> QED BY <2>1, <2>3, <2>4, Zenon DEF Occupied
  <1> QED BY <1>1, ReactorInvariant, PTL
=============================================================================
