-------------------------- MODULE HarnessInvariant --------------------------
(***************************************************************************)
(* The inductive invariant behind PoolOutlivesConns, the lemmas every part *)
(* of its proof uses, and the steps of the accept loop and of the control  *)
(* thread, which preserve it.  PoolOutlivesConns is not inductive.  It     *)
(* needs to know that a new incarnation's mailboxes are fresh, that no     *)
(* Shutdown is on its way to the pool that is up, that the accept queue    *)
(* holds connections without a permit, and that a Conn message and its     *)
(* permit exist once.                                                      *)
(***************************************************************************)
EXTENDS Harness, FiniteSetTheorems, TLAPS

Stages == {"new", "backlog", "rejected", "dropped", "icreq", "connect", "sent",
           "running", "open", "leaked", "ended"}
StatsMsgs == [op : {"Stats"}, n : Nat, clear : BOOLEAN]
Msgs == {ConnMsg(c) : c \in Conns} \cup {NsChanged, Shutdown} \cup StatsMsgs
Queries == [n : Nat, th : Nat, clear : BOOLEAN, wait : BOOLEAN, on : BOOLEAN]
Letters == [to : Int \X Int, msg : Msgs, pushed : BOOLEAN]

PoolTypeOK ==
  /\ sc \in Scenarios
  /\ conn \in [Conns -> Stages] /\ home \in [Conns -> Nat]
  /\ backlog \in Seq(Conns) /\ held \in SUBSET Conns
  /\ pools \in Nat /\ pool \in 0 .. pools
  /\ mail \in [Slots -> Seq(Msgs)] /\ outbox \in Seq(Letters)
  /\ query \in Queries /\ DOMAIN thr = Slots

\* ConnPermits counts exactly the permits that exist.
PermitsCounted == active = Cardinality(Holders) /\ active <= MaxConnections

HoldersAtHome == \A c \in Holders : home[c] = pool /\ pool # 0

\* Nothing ever happened to the threads and mailboxes of a later incarnation.
LaterPoolsFresh ==
  /\ \A c \in Conns : home[c] <= pools
  /\ \A s \in Slots : s[1] > pools => thr[s] = "none" /\ mail[s] = <<>>
  /\ \A k \in 1 .. Len(outbox) : outbox[k].to[1] <= pools

\* No Shutdown was received by, or is on its way to, a thread of the pool.
PoolNotShutDown ==
  /\ \A s \in Slots : s[1] = pool =>
       /\ thr[s] # "exited"
       /\ \A i \in 1 .. Len(mail[s]) : mail[s][i].op # "Shutdown"
  /\ \A k \in 1 .. Len(outbox) :
       outbox[k].msg.op = "Shutdown" => outbox[k].to[1] # pool

\* A connection waits in one place of the accept queue, or with the CM thread.
WaitingOnce ==
  /\ \A i \in 1 .. Len(backlog) : conn[backlog[i]] = "backlog" /\ backlog[i] \notin held
  /\ \A i, j \in 1 .. Len(backlog) : backlog[i] = backlog[j] => i = j
  /\ \A c \in held : conn[c] = "backlog"

\* A Conn message is in one place, and its connection is in no other stage.
SentOnce ==
  /\ \A s \in Slots : \A i \in 1 .. Len(mail[s]) :
       mail[s][i].op = "Conn" => conn[mail[s][i].c] = "sent"
  /\ \A s, u \in Slots : \A i \in 1 .. Len(mail[s]), j \in 1 .. Len(mail[u]) :
       (mail[s][i].op = "Conn" /\ mail[u][j].op = "Conn" /\ mail[s][i].c = mail[u][j].c)
         => s = u /\ i = j
  /\ \A k \in 1 .. Len(outbox) : outbox[k].msg.op = "Conn" =>
       /\ Len(outbox) = 1
       /\ ~outbox[k].pushed =>
            /\ conn[outbox[k].msg.c] = "sent"
            /\ \A s \in Slots : \A i \in 1 .. Len(mail[s]) :
                 mail[s][i].op = "Conn" => mail[s][i].c # outbox[k].msg.c

PoolInv ==
  /\ PoolTypeOK /\ PermitsCounted /\ HoldersAtHome /\ LaterPoolsFresh
  /\ PoolNotShutDown /\ WaitingOnce /\ SentOnce

-----------------------------------------------------------------------------
(* Facts about the data.                                                   *)

\* The first part of a slot is a pool incarnation.
LEMMA SlotPools == \A s \in Slots : s[1] \in Nat
  BY HarnessAssumption DEF Slots

\* A scenario says how many IO threads there are and which queue a connection is.
LEMMA ScenarioTypes ==
  ASSUME sc \in Scenarios PROVE sc.nio \in Nat /\ sc.qid \in [Conns -> Nat]
  BY HarnessAssumption

\* The four kinds of ThreadMsg are told apart by their tag.
LEMMA MsgOps ==
  /\ \A c \in Conns : ConnMsg(c).op = "Conn" /\ ConnMsg(c).c = c /\ ConnMsg(c) \in Msgs
  /\ NsChanged.op = "NsChanged" /\ NsChanged \in Msgs
  /\ Shutdown.op = "Shutdown" /\ Shutdown \in Msgs
  /\ \A m \in StatsMsgs : m.op = "Stats" /\ m \in Msgs
  /\ \A m \in Msgs : m.op = "Conn" => m.c \in Conns
  BY DEF Msgs, StatsMsgs, ConnMsg, NsChanged, Shutdown

\* What the control thread has to send are messages.
LEMMA OutboxTypes ==
  ASSUME PoolTypeOK
  PROVE  \A k \in 1 .. Len(outbox) : outbox[k] \in Letters /\ outbox[k].msg \in Msgs
  <1>1. \A k \in 1 .. Len(outbox) : outbox[k] \in Letters
    BY DEF PoolTypeOK
  <1>2. \A l \in Letters : l.msg \in Msgs
    BY Zenon DEF Letters
  <1> QED BY <1>1, <1>2, Zenon

\* A push leaves what was queued in place and goes last.
LEMMA AppendFacts ==
  ASSUME NEW S, NEW q \in Seq(S), NEW x \in S
  PROVE  /\ Append(q, x) \in Seq(S) /\ Len(Append(q, x)) = Len(q) + 1
         /\ Append(q, x)[Len(q) + 1] = x
         /\ \A i \in 1 .. Len(q) : Append(q, x)[i] = q[i]
  OBVIOUS

\* A pop moves what is left one place up.
LEMMA TailFacts ==
  ASSUME NEW S, NEW q \in Seq(S), q # <<>>
  PROVE  /\ Len(q) \in Nat \ {0} /\ Head(q) = q[1] /\ q[1] \in S
         /\ Tail(q) \in Seq(S) /\ Len(Tail(q)) = Len(q) - 1
         /\ \A i \in 1 .. Len(q) - 1 : Tail(q)[i] = q[i + 1]
  OBVIOUS

\* What waits in a mailbox are messages.
LEMMA MailTypes ==
  ASSUME PoolTypeOK
  PROVE  \A s \in Slots : \A i \in 1 .. Len(mail[s]) :
           mail[s][i] \in Msgs /\ (mail[s][i].op = "Conn" => mail[s][i].c \in Conns)
  <1>1. \A s \in Slots : mail[s] \in Seq(Msgs)
    BY Zenon DEF PoolTypeOK
  <1>2. \A s \in Slots : \A i \in 1 .. Len(mail[s]) : mail[s][i] \in Msgs
    BY <1>1
  <1> QED BY <1>2, MsgOps, Zenon

\* No pool is one of the incarnations.
LEMMA NoPool == \A n \in Nat : 0 \in 0 .. n
  OBVIOUS

\* A step of no permit, pool, letter or mailbox.
LEMMA PartsKept ==
  ASSUME PermitsCounted, HoldersAtHome, LaterPoolsFresh, PoolNotShutDown, SentOnce,
         UNCHANGED <<conn, home, pool, pools, active, mail, outbox, thr>>
  PROVE  PermitsCounted' /\ HoldersAtHome' /\ LaterPoolsFresh' /\ PoolNotShutDown' /\ SentOnce'
  BY DEF PermitsCounted, Holders, HoldersAtHome, LaterPoolsFresh, PoolNotShutDown,
     SentOnce, Slots

\* Letters that carry no connection disturb none that was sent.
LEMMA NoConnSent ==
  ASSUME SentOnce, UNCHANGED <<mail, conn>>,
         \A k \in 1 .. Len(outbox') : outbox'[k].msg.op # "Conn"
  PROVE  SentOnce'
  BY DEF SentOnce, Slots

\* The one letter of a connection that is in no mailbox.
LEMMA SentFirst ==
  ASSUME SentOnce, UNCHANGED mail, NEW c, conn'[c] = "sent",
         Len(outbox') = 1, outbox'[1].msg.c = c, \A k \in 1 .. Len(outbox') : k = 1,
         \A s \in Slots : \A i \in 1 .. Len(mail[s]) :
           mail[s][i].op = "Conn" => mail[s][i].c # c /\ conn'[mail[s][i].c] = "sent"
  PROVE  SentOnce'
  <1>1. Slots' = Slots
    BY Zenon DEF Slots
  <1>2. \A s, u \in Slots : \A i \in 1 .. Len(mail[s]), j \in 1 .. Len(mail[u]) :
          (mail[s][i].op = "Conn" /\ mail[u][j].op = "Conn" /\ mail[s][i].c = mail[u][j].c)
            => s = u /\ i = j
    BY Zenon DEF SentOnce
  <1> QED BY <1>1, <1>2 DEF SentOnce

\* A connection is handed to a thread named by two integers.
LEMMA SlotOfType ==
  ASSUME PoolTypeOK, NEW c \in Conns, sc.qid[c] = 0 \/ sc.nio # 0
  PROVE  slotOf(c) \in Int \X Int /\ slotOf(c)[1] = home[c]
  <1>1. sc.nio \in Nat /\ sc.qid[c] \in Nat
    BY ScenarioTypes, Zenon DEF PoolTypeOK
  <1> DEFINE n == sc.nio  q == sc.qid[c]
  <1>2. q # 0 => ((q - 1) % n) + 1 \in Int
    <2> HIDE DEF n, q
    <2> QED BY <1>1 DEF n, q
  <1>3. threadOf(c) \in Int
    BY <1>1, <1>2 DEF threadOf, Admin
  <1> QED BY <1>3 DEF slotOf, PoolTypeOK

-----------------------------------------------------------------------------
(* Permits.                                                                *)

\* The permits held can be counted.
LEMMA HoldersFinite == IsFiniteSet(Holders) /\ Cardinality(Holders) \in Nat
  <1>1. Holders \subseteq Conns
    BY Zenon DEF Holders
  <1> QED BY <1>1, HarnessAssumption, FS_Subset, FS_CardinalityType, Zenon

\* A step of one connection that neither takes nor drops a permit.
LEMMA PermitKept ==
  ASSUME PoolTypeOK, PermitsCounted, NEW c \in Conns, NEW st,
         conn' = [conn EXCEPT ![c] = st],
         conn[c] \in Permitted <=> st \in Permitted, UNCHANGED active
  PROVE  PermitsCounted' /\ Holders' = Holders
  <1>1. Holders' = Holders
    BY Zenon DEF Holders, PoolTypeOK
  <1> QED BY <1>1, Zenon DEF PermitsCounted

\* ConnPermit::drop.
LEMMA PermitDropped ==
  ASSUME PoolTypeOK, PermitsCounted, NEW c \in Conns, NEW st,
         conn' = [conn EXCEPT ![c] = st],
         conn[c] \in Permitted, st \notin Permitted, active' = active - 1
  PROVE  PermitsCounted' /\ Holders' = Holders \ {c}
  <1>1. Holders' = Holders \ {c} /\ c \in Holders
    BY Zenon DEF Holders, PoolTypeOK
  <1>2. Cardinality(Holders \ {c}) = Cardinality(Holders) - 1
    BY <1>1, HoldersFinite, FS_RemoveElement, Zenon
  <1>3. active' = Cardinality(Holders')
    BY <1>1, <1>2, Zenon DEF PermitsCounted
  <1>4. active' <= MaxConnections
    BY HoldersFinite, HarnessAssumption DEF PermitsCounted
  <1> QED BY <1>1, <1>3, <1>4, Zenon DEF PermitsCounted

\* ConnPermits::acquire.
LEMMA PermitTaken ==
  ASSUME PoolTypeOK, PermitsCounted, NEW c \in Conns, NEW st,
         conn' = [conn EXCEPT ![c] = st], ~(active + 1 > MaxConnections),
         conn[c] \notin Permitted, st \in Permitted, active' = active + 1
  PROVE  PermitsCounted' /\ Holders' = Holders \cup {c}
  <1>1. Holders' = Holders \cup {c} /\ c \notin Holders
    BY Zenon DEF Holders, PoolTypeOK
  <1>2. Cardinality(Holders \cup {c}) = Cardinality(Holders) + 1
    BY <1>1, HoldersFinite, FS_AddElement, Zenon
  <1>3. active' = Cardinality(Holders')
    BY <1>1, <1>2, Zenon DEF PermitsCounted
  <1>4. active' <= MaxConnections
    BY HoldersFinite, HarnessAssumption DEF PermitsCounted
  <1> QED BY <1>1, <1>3, <1>4, Zenon DEF PermitsCounted

-----------------------------------------------------------------------------
(* Initial states, and steps that the invariant does not look at.          *)

\* The invariant holds before the first accept.
LEMMA PoolInitInv == Init => PoolInv
  <1> SUFFICES ASSUME Init PROVE PoolInv
    BY Zenon
  <1> USE DEF Init
  <1>1. PoolTypeOK
    BY DEF PoolTypeOK, Stages, NoQuery, Queries
  <1>2. Holders = {}
    BY Zenon DEF Holders, Permitted
  <1>3. PermitsCounted
    BY <1>2, FS_EmptySet, HarnessAssumption DEF PermitsCounted
  <1>4. HoldersAtHome
    BY <1>2, Zenon DEF HoldersAtHome
  <1>5. LaterPoolsFresh /\ PoolNotShutDown /\ WaitingOnce /\ SentOnce
    BY DEF LaterPoolsFresh, PoolNotShutDown, WaitingOnce, SentOnce
  <1> QED BY <1>1, <1>3, <1>4, <1>5, Zenon DEF PoolInv

poolVars == <<sc, conn, home, backlog, held, pool, pools, active, outbox, mail>>

\* A step that moves no connection, permit, mailbox or thread keeps the invariant.
LEMMA PoolStutter ==
  ASSUME PoolInv, UNCHANGED poolVars, UNCHANGED <<thr, query>>
  PROVE  PoolInv'
  BY DEF poolVars, PoolInv, PoolTypeOK, PermitsCounted, Holders, HoldersAtHome,
     LaterPoolsFresh, PoolNotShutDown, WaitingOnce, SentOnce, Slots

\* GET_STATS bookkeeping on the control thread.
LEMMA QueryInv ==
  ASSUME PoolInv, UNCHANGED poolVars, UNCHANGED thr, query' \in Queries
  PROVE  PoolInv'
  BY DEF poolVars, PoolInv, PoolTypeOK, PermitsCounted, Holders, HoldersAtHome,
     LaterPoolsFresh, PoolNotShutDown, WaitingOnce, SentOnce, Slots

\* GET_STATS going on to the next thread leaves a query.
LEMMA AdvanceType ==
  ASSUME PoolTypeOK PROVE advance(query) \in Queries
  <1>1. sc.nio \in Nat
    BY ScenarioTypes, Zenon DEF PoolTypeOK
  <1> DEFINE more == query.th < sc.nio
             next == IF more THEN query.th + 1 ELSE query.th
  <1>2. query.th \in Nat
    BY Zenon DEF PoolTypeOK, Queries
  <1>3. more \in BOOLEAN /\ next \in Nat
    BY <1>1, <1>2
  <1>4. advance(query) = [query EXCEPT !.wait = FALSE, !.on = more, !.th = next]
    BY Zenon DEF advance
  <1>5. query \in Queries
    BY Zenon DEF PoolTypeOK
  <1> HIDE DEF more, next
  <1>6. [query EXCEPT !.wait = FALSE, !.on = more, !.th = next] \in Queries
    BY Zenon, <1>3, <1>5 DEF Queries
  <1> QED BY <1>4, <1>6, Zenon

\* Conn messages are looked at through the connections in stage "sent".
LEMMA SentKept ==
  ASSUME PoolTypeOK, SentOnce, UNCHANGED <<mail, outbox>>,
         \A d \in Conns : conn[d] = "sent" => conn'[d] = "sent"
  PROVE  SentOnce'
  <1>1. \A s \in Slots : \A i \in 1 .. Len(mail[s]) :
          mail[s][i].op = "Conn" => mail[s][i].c \in Conns
    BY MsgOps DEF PoolTypeOK
  <1>2. \A k \in 1 .. Len(outbox) :
          outbox[k].msg.op = "Conn" => outbox[k].msg.c \in Conns
    BY OutboxTypes, MsgOps, Zenon
  <1>3. \A s \in Slots : \A i \in 1 .. Len(mail'[s]) :
          mail'[s][i].op = "Conn" => conn'[mail'[s][i].c] = "sent"
    BY <1>1, Zenon DEF SentOnce
  <1>4. \A k \in 1 .. Len(outbox') : outbox'[k].msg.op = "Conn" =>
          /\ Len(outbox') = 1
          /\ ~outbox'[k].pushed =>
               /\ conn'[outbox'[k].msg.c] = "sent"
               /\ \A s \in Slots : \A i \in 1 .. Len(mail'[s]) :
                    mail'[s][i].op = "Conn" => mail'[s][i].c # outbox'[k].msg.c
    BY <1>2 DEF SentOnce
  <1>5. \A s, u \in Slots : \A i \in 1 .. Len(mail'[s]), j \in 1 .. Len(mail'[u]) :
          (mail'[s][i].op = "Conn" /\ mail'[u][j].op = "Conn" /\ mail'[s][i].c = mail'[u][j].c)
            => s = u /\ i = j
    BY DEF SentOnce
  <1> QED BY <1>3, <1>4, <1>5, Zenon DEF SentOnce, Slots

\* Arming and waking change a thread that stays up.
LEMMA ThreadStateInv ==
  ASSUME PoolInv, NEW s \in Slots, thr[s] \in {"poll", "armed"},
         NEW st, st # "exited", thr' = [thr EXCEPT ![s] = st],
         UNCHANGED poolVars, UNCHANGED query
  PROVE  PoolInv'
  <1> USE DEF poolVars, PoolInv
  <1>1. /\ PoolTypeOK' /\ PermitsCounted' /\ HoldersAtHome' /\ WaitingOnce' /\ SentOnce'
    <2>1. PoolTypeOK'
      BY Zenon DEF PoolTypeOK, Slots
    <2>2. PermitsCounted' /\ HoldersAtHome'
      BY Zenon DEF PermitsCounted, Holders, HoldersAtHome
    <2>3. WaitingOnce'
      BY Zenon DEF WaitingOnce
    <2>4. SentOnce'
      BY SentKept, Zenon
    <2> QED BY <2>1, <2>2, <2>3, <2>4, Zenon
  <1>2. LaterPoolsFresh'
    BY Zenon DEF LaterPoolsFresh, PoolTypeOK, Slots
  <1>3. PoolNotShutDown'
    BY Zenon DEF PoolNotShutDown, PoolTypeOK, Slots
  <1> QED BY <1>1, <1>2, <1>3, Zenon

-----------------------------------------------------------------------------
(* Steps of one connection that leave mailboxes and the pool alone.        *)

\* What is left to show about a stage change is what it does to the permits.
LEMMA StageChange ==
  ASSUME PoolInv, NEW c \in Conns, NEW st \in Stages,
         conn[c] \notin {"sent", "backlog"}, conn' = [conn EXCEPT ![c] = st],
         UNCHANGED <<sc, home, backlog, held, pool, pools, outbox, mail, thr, query>>
  PROVE  PoolTypeOK' /\ LaterPoolsFresh' /\ PoolNotShutDown' /\ WaitingOnce' /\ SentOnce'
  <1> USE DEF PoolInv
  <1>1. PoolTypeOK'
    BY Zenon DEF PoolTypeOK, Slots
  <1>2. LaterPoolsFresh' /\ PoolNotShutDown'
    BY Zenon DEF LaterPoolsFresh, PoolNotShutDown, Slots
  <1>3. WaitingOnce'
    BY DEF WaitingOnce, PoolTypeOK
  <1>4. \A d \in Conns : conn[d] = "sent" => conn'[d] = "sent"
    BY Zenon DEF PoolTypeOK
  <1>5. SentOnce'
    BY <1>4, SentKept, Zenon
  <1> QED BY <1>1, <1>2, <1>3, <1>5, Zenon

\* accept_handshake and on_ctx: the permit stays with the connection.
LEMMA AdvanceConnInv ==
  ASSUME PoolInv, NEW c \in Conns, IcExchange(c) \/ OpenCtx(c)
  PROVE  PoolInv'
  <1>1. PICK st \in {"connect", "open"} :
          /\ conn[c] \in {"icreq", "running"} /\ conn' = [conn EXCEPT ![c] = st]
          /\ UNCHANGED <<sc, home, backlog, held, pool, pools, outbox, mail, thr, query, active>>
    BY Zenon DEF IcExchange, OpenCtx, source, control, boxes, stats
  <1>2. PermitsCounted' /\ Holders' = Holders
    BY Zenon, <1>1, PermitKept DEF PoolInv, Permitted
  <1>3. HoldersAtHome'
    BY <1>1, <1>2, Zenon DEF PoolInv, HoldersAtHome
  <1> QED BY Zenon, <1>1, <1>2, <1>3, StageChange DEF PoolInv, Stages

\* A failed handshake and the end of run_queue drop the permit.
LEMMA EndConnInv ==
  ASSUME PoolInv, NEW c \in Conns,
         HandshakeFails(c) \/ \E how \in {"ended", "leaked"} : EndQueue(c, how)
  PROVE  PoolInv'
  <1>1. PICK st \in {"ended", "leaked"} :
          /\ conn[c] \in {"icreq", "connect", "running", "open"}
          /\ conn' = [conn EXCEPT ![c] = st] /\ active' = active - 1
          /\ UNCHANGED <<sc, home, backlog, held, pool, pools, outbox, mail, thr, query>>
    BY Zenon DEF HandshakeFails, EndQueue, source, boxes, stats
  <1>2. PermitsCounted' /\ Holders' = Holders \ {c}
    BY Zenon, <1>1, PermitDropped DEF PoolInv, Permitted
  <1>3. HoldersAtHome'
    BY <1>1, <1>2, Zenon DEF PoolInv, HoldersAtHome
  <1> QED BY ZenonT(40), <1>1, <1>2, <1>3, StageChange DEF PoolInv, Stages

-----------------------------------------------------------------------------
(* The way into the accept queue.                                          *)

\* A connection that is new is nowhere yet.
LEMMA NewConnNowhere ==
  ASSUME PoolInv, NEW c \in Conns, conn[c] = "new"
  PROVE  c \notin held /\ \A i \in 1 .. Len(backlog) : backlog[i] # c
  BY Zenon DEF PoolInv, WaitingOnce

\* The facts a change of the accept queue does not touch.
LEMMA QueueingKeeps ==
  ASSUME PoolInv, NEW c \in Conns, NEW st \in {"backlog", "rejected", "dropped"},
         conn[c] \in {"new", "backlog"}, conn' = [conn EXCEPT ![c] = st],
         UNCHANGED <<sc, home, pool, pools, active, outbox, mail, thr, query>>
  PROVE  /\ PermitsCounted' /\ HoldersAtHome' /\ LaterPoolsFresh' /\ PoolNotShutDown'
         /\ SentOnce'
         /\ conn' \in [Conns -> Stages]
  <1>1. PermitsCounted' /\ Holders' = Holders
    BY Zenon, PermitKept DEF PoolInv, Permitted
  <1>2. HoldersAtHome'
    BY <1>1, Zenon DEF PoolInv, HoldersAtHome
  <1>3. LaterPoolsFresh' /\ PoolNotShutDown'
    BY Zenon DEF PoolInv, LaterPoolsFresh, PoolNotShutDown, Slots
  <1>4. \A d \in Conns : conn[d] = "sent" => conn'[d] = "sent"
    BY Zenon DEF PoolInv, PoolTypeOK
  <1>5. SentOnce'
    BY <1>4, SentKept, Zenon DEF PoolInv
  <1>6. conn' \in [Conns -> Stages]
    BY Zenon DEF PoolInv, PoolTypeOK, Stages
  <1> QED BY <1>1, <1>2, <1>3, <1>5, <1>6, Zenon

\* A connection in the listener's queue has no permit.
LEMMA TcpArrivesInv ==
  ASSUME PoolInv, NEW c \in Conns, TcpArrives(c) PROVE PoolInv'
  <1> USE DEF TcpArrives, control, boxes, stats
  <1>1. /\ PermitsCounted' /\ HoldersAtHome' /\ LaterPoolsFresh' /\ PoolNotShutDown'
        /\ SentOnce' /\ conn' \in [Conns -> Stages]
    BY Zenon, QueueingKeeps
  <1>2. /\ backlog' \in Seq(Conns) /\ Len(backlog') = Len(backlog) + 1
        /\ backlog'[Len(backlog) + 1] = c
        /\ \A i \in 1 .. Len(backlog) : backlog'[i] = backlog[i]
    BY AppendFacts DEF PoolInv, PoolTypeOK
  <1>3. PoolTypeOK'
    BY <1>1, <1>2, Zenon DEF PoolInv, PoolTypeOK, Slots
  <1>4. Len(backlog) \in Nat
    BY DEF PoolInv, PoolTypeOK
  <1>5. WaitingOnce'
    BY <1>2, <1>4, NewConnNowhere DEF PoolInv, PoolTypeOK, WaitingOnce
  <1> QED BY <1>1, <1>3, <1>5, Zenon DEF PoolInv

\* Nor has a connect request the CM thread forwarded.
LEMMA CmConnectRequestInv ==
  ASSUME PoolInv, NEW c \in Conns, CmConnectRequest(c) PROVE PoolInv'
  <1> USE DEF CmConnectRequest, control, boxes, stats
  <1>1. /\ PermitsCounted' /\ HoldersAtHome' /\ LaterPoolsFresh' /\ PoolNotShutDown'
        /\ SentOnce' /\ conn' \in [Conns -> Stages]
    BY Zenon, QueueingKeeps
  <1>2. PoolTypeOK'
    BY <1>1, Zenon DEF PoolInv, PoolTypeOK, Slots
  <1>3. \A d \in Conns \ {c} : conn'[d] = conn[d]
    BY Zenon DEF PoolInv, PoolTypeOK
  <1>4. c \notin held /\ \A i \in 1 .. Len(backlog) : backlog[i] \in Conns \ {c}
    BY NewConnNowhere DEF PoolInv, PoolTypeOK
  <1>5. WaitingOnce'
    BY <1>3, <1>4 DEF PoolInv, PoolTypeOK, WaitingOnce
  <1> QED BY <1>1, <1>2, <1>5, Zenon DEF PoolInv

\* A request the CM thread rejects never had one.
LEMMA CmRejectsInv ==
  ASSUME PoolInv, NEW c \in Conns, CmRejects(c) PROVE PoolInv'
  <1> USE DEF CmRejects, source, control, boxes, stats
  <1>1. /\ PermitsCounted' /\ HoldersAtHome' /\ LaterPoolsFresh' /\ PoolNotShutDown'
        /\ SentOnce' /\ conn' \in [Conns -> Stages]
    BY Zenon, QueueingKeeps
  <1>2. PoolTypeOK'
    BY <1>1, Zenon DEF PoolInv, PoolTypeOK, Slots
  <1>3. \A d \in Conns \ {c} : conn'[d] = conn[d]
    BY Zenon DEF PoolInv, PoolTypeOK
  <1>4. c \notin held /\ \A i \in 1 .. Len(backlog) : backlog[i] \in Conns \ {c}
    BY NewConnNowhere DEF PoolInv, PoolTypeOK
  <1>5. WaitingOnce'
    BY <1>3, <1>4 DEF PoolInv, PoolTypeOK, WaitingOnce
  <1> QED BY <1>1, <1>2, <1>5, Zenon DEF PoolInv

\* The CM thread's connection moves into the channel.
LEMMA CmForwardsInv ==
  ASSUME PoolInv, CmForwards PROVE PoolInv'
  <1> USE DEF CmForwards, control, boxes, stats
  <1>1. PICK c \in held : backlog' = Append(backlog, c)
    BY Zenon
  <1>2. c \in Conns /\ Len(backlog) \in Nat
    BY DEF PoolInv, PoolTypeOK
  <1>3. /\ backlog' \in Seq(Conns) /\ Len(backlog') = Len(backlog) + 1
        /\ backlog'[Len(backlog) + 1] = c
        /\ \A i \in 1 .. Len(backlog) : backlog'[i] = backlog[i]
    BY <1>1, <1>2, AppendFacts DEF PoolInv, PoolTypeOK
  <1>4. PoolTypeOK'
    BY <1>3, Zenon DEF PoolInv, PoolTypeOK, Slots
  <1>5. WaitingOnce'
    BY <1>2, <1>3, SMTT(20) DEF PoolInv, WaitingOnce
  <1>6. /\ PermitsCounted' /\ HoldersAtHome' /\ LaterPoolsFresh' /\ PoolNotShutDown'
        /\ SentOnce'
    BY PartsKept, Zenon DEF PoolInv
  <1> QED BY <1>4, <1>5, <1>6, Zenon DEF PoolInv

-----------------------------------------------------------------------------
(* Accepting.                                                              *)

\* ensure_pool_up: the incarnation in use afterwards is the old one, or a
\* fresh one that nobody has told anything.
LEMMA EnsurePool ==
  ASSUME PoolInv, ensurePoolUp, UNCHANGED <<mail, outbox>>
  PROVE  /\ pools' \in Nat /\ pool' \in 1 .. pools' /\ pools <= pools'
         /\ DOMAIN thr' = Slots
         /\ pool # 0 => pool' = pool
         /\ \A s \in Slots : s[1] > pools' => thr'[s] = "none"
         /\ PoolNotShutDown'
  <1> USE SlotPools
  <1>1. CASE pool # 0 /\ UNCHANGED <<pool, pools, thr>>
    BY <1>1 DEF PoolInv, PoolTypeOK, LaterPoolsFresh, PoolNotShutDown, Slots
  <1>2. ASSUME NEW F, pool = 0, spawnPool(F)
        PROVE  /\ pools' \in Nat /\ pool' \in 1 .. pools' /\ pools <= pools'
               /\ DOMAIN thr' = Slots
               /\ \A s \in Slots : s[1] > pools' => thr'[s] = "none"
               /\ PoolNotShutDown'
    <2> USE <1>2 DEF spawnPool
    <2>1. pools \in Nat /\ pools' = pools + 1 /\ pool' = pools + 1 /\ DOMAIN thr' = Slots
      BY Zenon DEF PoolInv, PoolTypeOK
    <2>2. \A s \in Slots : s[1] > pools' => thr'[s] = "none"
      BY <2>1 DEF PoolInv, LaterPoolsFresh
    <2>3. \A s \in Slots : s[1] = pool' => thr'[s] # "exited" /\ mail[s] = <<>>
      BY <2>1 DEF PoolInv, LaterPoolsFresh
    <2>4. \A k \in 1 .. Len(outbox) : outbox[k].to[1] # pool'
      <3>1. \A k \in 1 .. Len(outbox) : outbox[k].to[1] <= pools
        BY Zenon DEF PoolInv, LaterPoolsFresh
      <3>2. ~(pools + 1 <= pools)
        BY <2>1
      <3> QED BY <2>1, <3>1, <3>2, Zenon
    <2>5. PoolNotShutDown'
      BY <2>3, <2>4 DEF PoolNotShutDown, Slots
    <2> QED BY <2>1, <2>2, <2>5
  <1> QED BY Zenon, <1>1, <1>2 DEF ensurePoolUp

\* The head of the accept queue leaves it.
LEMMA DequeueKeeps ==
  ASSUME PoolInv, backlog # <<>>, backlog' = Tail(backlog), NEW st,
         conn' = [conn EXCEPT ![Head(backlog)] = st], st # "sent", UNCHANGED held
  PROVE  /\ Head(backlog) \in Conns /\ conn[Head(backlog)] = "backlog"
         /\ backlog' \in Seq(Conns) /\ WaitingOnce'
         /\ \A d \in Conns : conn[d] = "sent" => conn'[d] = "sent"
  <1> DEFINE c == Head(backlog)
  <1>1. /\ Len(backlog) \in Nat \ {0} /\ c = backlog[1] /\ c \in Conns
        /\ backlog' \in Seq(Conns) /\ Len(backlog') = Len(backlog) - 1
        /\ \A i \in 1 .. Len(backlog) - 1 : backlog'[i] = backlog[i + 1]
    BY TailFacts DEF PoolInv, PoolTypeOK
  <1>2. conn[c] = "backlog" /\ c \notin held
    BY <1>1 DEF PoolInv, WaitingOnce
  <1>3. \A i \in 1 .. Len(backlog') : backlog[i + 1] # c /\ backlog[i + 1] \in Conns
    BY <1>1 DEF PoolInv, PoolTypeOK, WaitingOnce
  <1>4. \A d \in Conns \ {c} : conn'[d] = conn[d]
    BY Zenon DEF PoolInv, PoolTypeOK
  <1>5. WaitingOnce'
    <2>1. \A i \in 1 .. Len(backlog') : conn'[backlog'[i]] = "backlog" /\ backlog'[i] \notin held
      BY <1>1, <1>3, <1>4 DEF PoolInv, WaitingOnce
    <2>2. \A i, j \in 1 .. Len(backlog') : backlog'[i] = backlog'[j] => i = j
      <3>1. \A i, j \in 1 .. Len(backlog') : backlog[i + 1] = backlog[j + 1] => i + 1 = j + 1
        BY <1>1 DEF PoolInv, WaitingOnce
      <3> QED BY <1>1, <3>1
    <2>3. \A d \in held : conn'[d] = "backlog"
      BY <1>2, <1>4, Zenon DEF PoolInv, PoolTypeOK, WaitingOnce
    <2> QED BY <2>1, <2>2, <2>3, Zenon DEF WaitingOnce
  <1>6. \A d \in Conns : conn[d] = "sent" => conn'[d] = "sent"
    BY <1>2, <1>4, Zenon
  <1> QED BY <1>1, <1>2, <1>5, <1>6, Zenon

\* handle_accept.
LEMMA AcceptInv ==
  ASSUME PoolInv, Accept PROVE PoolInv'
  <1> DEFINE c == Head(backlog)
  <1> USE DEF Accept, Accepted, source, stats
  <1>0. PICK st \in {"dropped", "icreq", "connect"} : conn' = [conn EXCEPT ![c] = st]
    BY Zenon
  <1>1. /\ c \in Conns /\ conn[c] = "backlog"
        /\ backlog' \in Seq(Conns) /\ WaitingOnce'
        /\ \A d \in Conns : conn[d] = "sent" => conn'[d] = "sent"
    BY Zenon, <1>0, DequeueKeeps
  <1>2. /\ pools' \in Nat /\ pool' \in 1 .. pools' /\ pools <= pools'
        /\ DOMAIN thr' = Slots
        /\ pool # 0 => pool' = pool
        /\ \A s \in Slots : s[1] > pools' => thr'[s] = "none"
        /\ PoolNotShutDown'
    BY EnsurePool, Zenon
  <1>3. SentOnce'
    BY <1>1, SentKept, Zenon DEF PoolInv
  <1>4. conn' \in [Conns -> Stages]
    BY <1>0, Zenon DEF PoolInv, PoolTypeOK, Stages
  <1>5. home' \in [Conns -> Nat] /\ \A d \in Conns : home'[d] = home[d] \/ home'[d] = pool'
    BY <1>2 DEF PoolInv, PoolTypeOK
  <1>6. PoolTypeOK'
    BY <1>1, <1>2, <1>4, <1>5 DEF PoolInv, PoolTypeOK, Slots
  <1>7. LaterPoolsFresh'
    <2>1. \A d \in Conns : home'[d] <= pools'
      <3>1. pools \in Nat /\ \A d \in Conns : home[d] \in Nat /\ home[d] <= pools
        BY Zenon DEF PoolInv, PoolTypeOK, LaterPoolsFresh
      <3>2. \A d \in Conns : home[d] <= pools'
        BY <3>1, <1>2
      <3>3. pool' <= pools'
        BY <1>2
      <3> HIDE DEF Accept
      <3> QED BY <3>2, <3>3, <1>5, Zenon
    <2>2. \A s \in Slots : s[1] > pools' => mail[s] = <<>>
      BY <1>2, SlotPools DEF PoolInv, PoolTypeOK, LaterPoolsFresh
    <2>3. \A k \in 1 .. Len(outbox) : outbox[k].to[1] <= pools'
      BY DEF Between
    <2> QED BY <1>2, <2>1, <2>2, <2>3, Zenon DEF LaterPoolsFresh, Slots
  <1>8. PermitsCounted' /\ HoldersAtHome'
    <2>1. CASE active + 1 > MaxConnections
      <3>1. PermitsCounted' /\ Holders' = Holders
        BY Zenon, <1>1, <2>1, PermitKept DEF PoolInv, Permitted
      <3> QED BY <2>1, <3>1, <1>2, Zenon DEF PoolInv, HoldersAtHome
    <2>2. CASE ~(active + 1 > MaxConnections)
      <3>1. PICK s2 \in {"icreq", "connect"} : conn' = [conn EXCEPT ![c] = s2]
        BY <2>2, Zenon
      <3>2. PermitsCounted' /\ Holders' = Holders \cup {c}
        BY Zenon, <1>1, <2>2, <3>1, PermitTaken DEF PoolInv, Permitted
      <3>3. home' = [home EXCEPT ![c] = pool'] /\ pool' # 0
        BY <2>2, <1>2
      <3>4. \A d \in Holders \ {c} : home'[d] = pool'
        BY <3>3, <1>2, Zenon DEF PoolInv, HoldersAtHome, Holders, PoolTypeOK
      <3>5. home'[c] = pool'
        BY <1>1, <3>3, Zenon DEF PoolInv, PoolTypeOK
      <3> QED BY <3>2, <3>3, <3>4, <3>5, Zenon DEF HoldersAtHome
    <2> QED BY <2>1, <2>2, Zenon
  <1> QED BY <1>1, <1>2, <1>3, <1>6, <1>7, <1>8, Zenon DEF PoolInv

\* A connection dropped because no pool could be built keeps no permit.
LEMMA AcceptWithoutPoolInv ==
  ASSUME PoolInv, AcceptWithoutPool PROVE PoolInv'
  <1> DEFINE c == Head(backlog)
  <1> USE DEF AcceptWithoutPool, Accepted, boxes, stats
  <1>1. /\ c \in Conns /\ conn[c] = "backlog"
        /\ backlog' \in Seq(Conns) /\ WaitingOnce'
    BY Zenon, DequeueKeeps
  <1>2. /\ PermitsCounted' /\ HoldersAtHome' /\ LaterPoolsFresh' /\ PoolNotShutDown'
        /\ SentOnce' /\ conn' \in [Conns -> Stages]
    BY Zenon, <1>1, QueueingKeeps
  <1>3. PoolTypeOK'
    BY <1>1, <1>2, Zenon DEF PoolInv, PoolTypeOK, Slots
  <1> QED BY <1>1, <1>2, <1>3, Zenon DEF PoolInv

-----------------------------------------------------------------------------
(* The control thread sends.                                               *)

\* One message to one thread.
LEMMA OneLetter ==
  ASSUME NEW to \in Int \X Int, NEW m \in Msgs
  PROVE  LET o == <<letter(to, m)>>
         IN  /\ o \in Seq(Letters) /\ Len(o) = 1
             /\ o[1].to = to /\ o[1].msg = m /\ o[1].pushed = FALSE
  <1>1. letter(to, m) \in Letters
    BY Zenon DEF letter, Letters
  <1>2. letter(to, m).to = to /\ letter(to, m).msg = m /\ letter(to, m).pushed = FALSE
    BY Zenon DEF letter
  <1> QED BY <1>1, <1>2

\* A nudge or a stats request to a thread of the pool that is up.
LEMMA AskPoolInv ==
  ASSUME PoolInv, NEW t \in Int, NEW m \in Msgs, m.op \notin {"Conn", "Shutdown"},
         outbox' = <<letter(<<pool, t>>, m)>>, query' \in Queries,
         UNCHANGED <<sc, conn, home, backlog, held, pool, pools, active, mail, thr>>
  PROVE  PoolInv'
  <1>1. <<pool, t>> \in Int \X Int /\ <<pool, t>>[1] = pool /\ pool <= pools
    BY DEF PoolInv, PoolTypeOK
  <1>2. /\ outbox' \in Seq(Letters) /\ Len(outbox') = 1
        /\ outbox'[1].to[1] = pool /\ outbox'[1].msg = m
    BY Zenon, <1>1, OneLetter
  <1>3. PoolTypeOK'
    BY <1>2, Zenon DEF PoolInv, PoolTypeOK, Slots
  <1>4. PermitsCounted' /\ HoldersAtHome' /\ WaitingOnce'
    BY Zenon DEF PoolInv, PermitsCounted, Holders, HoldersAtHome, WaitingOnce
  <1>5. \A k \in 1 .. Len(outbox') : k = 1
    BY <1>2, SMTT(20)
  <1>6. LaterPoolsFresh' /\ PoolNotShutDown'
    BY <1>1, <1>2, <1>5, Zenon DEF PoolInv, LaterPoolsFresh, PoolNotShutDown, Slots
  <1>7. SentOnce'
    BY <1>2, <1>5, NoConnSent, Zenon DEF PoolInv
  <1> QED BY <1>3, <1>4, <1>6, <1>7, Zenon DEF PoolInv

\* notify_ns_changed.
LEMMA NsEditInv ==
  ASSUME PoolInv, NsEdit PROVE PoolInv'
  <1> USE DEF NsEdit, source, control, boxes, stats
  <1>1. CASE pool = 0
    <2>1. UNCHANGED poolVars /\ UNCHANGED <<thr, query>>
      BY <1>1, Zenon DEF poolVars, Between
    <2> QED BY <2>1, PoolStutter, Zenon
  <1>2. CASE pool # 0
    <2>1. outbox' = <<letter(<<pool, Admin>>, NsChanged)>> /\ Admin \in Int
      BY <1>2 DEF Admin
    <2>2. query' \in Queries
      BY Zenon DEF PoolInv, PoolTypeOK
    <2> QED BY <2>1, <2>2, MsgOps, AskPoolInv, Zenon
  <1> QED BY <1>1, <1>2, Zenon

\* GET_STATS starts, and touches no connection.
LEMMA GetStatsInv ==
  ASSUME PoolInv, NEW z \in BOOLEAN, GetStats(z) PROVE PoolInv'
  <1> USE DEF GetStats, source, control, boxes
  <1>1. query.n + 1 \in Nat
    BY DEF PoolInv, PoolTypeOK, Queries
  <1>2. query' \in Queries
    BY <1>1, Zenon DEF Queries, Admin
  <1>3. UNCHANGED poolVars /\ UNCHANGED thr
    BY Zenon DEF poolVars
  <1> QED BY <1>2, <1>3, QueryInv, Zenon

\* ThreadMsg::Stats, or a zeroed reply.
LEMMA AskThreadInv ==
  ASSUME PoolInv, AskThread PROVE PoolInv'
  <1> USE DEF AskThread, source, control, boxes
  <1>1. CASE pool = 0
    <2>1. query' \in Queries
      BY <1>1, AdvanceType, Zenon DEF PoolInv
    <2>2. UNCHANGED poolVars /\ UNCHANGED thr
      BY <1>1, Zenon DEF poolVars
    <2> QED BY <2>1, <2>2, QueryInv, Zenon
  <1>2. CASE pool # 0
    <2>1. query \in Queries
      BY Zenon DEF PoolInv, PoolTypeOK
    <2>2. query.n \in Nat /\ query.th \in Int /\ query.clear \in BOOLEAN
      BY <2>1 DEF Queries
    <2>3. StatsMsg(query.n, query.clear) \in StatsMsgs
      BY <2>2, Zenon DEF StatsMsg, StatsMsgs
    <2>4. query' \in Queries
      <3>1. [query EXCEPT !.wait = TRUE] \in Queries
        BY Zenon, <2>1 DEF Queries
      <3> QED BY Zenon, <1>2, <3>1
    <2> QED BY <1>2, <2>2, <2>3, <2>4, MsgOps, AskPoolInv, Zenon
  <1> QED BY <1>1, <1>2, Zenon

\* GET_STATS gives a thread up, and touches no connection.
LEMMA StatsTimeoutInv ==
  ASSUME PoolInv, StatsTimeout PROVE PoolInv'
  <1> USE DEF StatsTimeout, source, control, boxes
  <1>1. query' \in Queries
    BY AdvanceType, Zenon DEF PoolInv
  <1>2. UNCHANGED poolVars /\ UNCHANGED thr
    BY Zenon DEF poolVars
  <1> QED BY <1>1, <1>2, QueryInv, Zenon

\* The end of the handshake task.
LEMMA HandshakeDoneInv ==
  ASSUME PoolInv, NEW c \in Conns, HandshakeDone(c) PROVE PoolInv'
  <1> USE DEF HandshakeDone, source, boxes, stats
  <1>1. CASE sc.qid[c] # 0 /\ sc.nio = 0
    <2>1. /\ conn[c] = "connect" /\ conn' = [conn EXCEPT ![c] = "ended"]
          /\ active' = active - 1 /\ UNCHANGED outbox
      BY <1>1, Zenon DEF route
    <2>2. PermitsCounted' /\ Holders' = Holders \ {c}
      BY Zenon, <2>1, PermitDropped DEF PoolInv, Permitted
    <2>3. HoldersAtHome'
      BY <2>2, Zenon DEF PoolInv, HoldersAtHome
    <2> QED BY Zenon, <2>1, <2>2, <2>3, StageChange DEF PoolInv, Stages
  <1>2. CASE sc.qid[c] = 0 \/ sc.nio # 0
    <2>1. /\ conn[c] = "connect" /\ conn' = [conn EXCEPT ![c] = "sent"]
          /\ outbox = <<>> /\ outbox' = <<letter(slotOf(c), ConnMsg(c))>> /\ UNCHANGED active
      BY <1>2, Zenon DEF route, Between
    <2>2. PermitsCounted' /\ Holders' = Holders
      BY Zenon, <2>1, PermitKept DEF PoolInv, Permitted
    <2>3. slotOf(c) \in Int \X Int /\ slotOf(c)[1] = home[c]
      BY <1>2, SlotOfType, Zenon DEF PoolInv
    <2>4. ConnMsg(c) \in Msgs /\ ConnMsg(c).op = "Conn" /\ ConnMsg(c).c = c
      BY MsgOps, Zenon
    <2>5. /\ outbox' \in Seq(Letters) /\ Len(outbox') = 1
          /\ outbox'[1].to[1] = home[c] /\ outbox'[1].msg = ConnMsg(c)
      BY ZenonT(40), <2>1, <2>3, <2>4, OneLetter
    <2>6. \A k \in 1 .. Len(outbox') : k = 1
      BY <2>5
    <2>7. PoolTypeOK'
      BY <2>1, <2>5, Zenon DEF PoolInv, PoolTypeOK, Stages, Slots
    <2>8. HoldersAtHome' /\ LaterPoolsFresh' /\ PoolNotShutDown'
      BY <2>2, <2>4, <2>5, <2>6, Zenon
      DEF PoolInv, HoldersAtHome, LaterPoolsFresh, PoolNotShutDown, Slots
    <2>9. WaitingOnce'
      BY <2>1 DEF PoolInv, PoolTypeOK, WaitingOnce
    <2>10. \A d \in Conns : conn[d] = "sent" => conn'[d] = "sent"
      BY <2>1, Zenon DEF PoolInv, PoolTypeOK
    <2>11. \A s \in Slots : \A i \in 1 .. Len(mail[s]) :
             mail[s][i].op = "Conn" => /\ mail[s][i].c \in Conns \ {c}
                                       /\ conn'[mail[s][i].c] = "sent"
      <3>1. \A s \in Slots : \A i \in 1 .. Len(mail[s]) :
              mail[s][i].op = "Conn" => mail[s][i].c \in Conns
        BY MailTypes, Zenon DEF PoolInv
      <3>2. \A s \in Slots : \A i \in 1 .. Len(mail[s]) :
              mail[s][i].op = "Conn" => conn[mail[s][i].c] = "sent"
        BY Zenon DEF PoolInv, SentOnce
      <3> QED BY <2>1, <2>10, <3>1, <3>2, Zenon
    <2>12. conn'[c] = "sent"
      BY <2>1, Zenon DEF PoolInv, PoolTypeOK
    <2>13. SentOnce'
      <3>1. SentOnce /\ UNCHANGED mail
        BY Zenon DEF PoolInv
      <3> HIDE DEF HandshakeDone
      <3>2. outbox'[1].msg.c = c
        BY <2>4, <2>5, Zenon
      <3>3. \A s \in Slots : \A i \in 1 .. Len(mail[s]) :
              mail[s][i].op = "Conn" => mail[s][i].c # c /\ conn'[mail[s][i].c] = "sent"
        BY <2>11, Zenon
      <3>4. Len(outbox') = 1
        BY <2>5, Zenon
      <3> QED BY <2>6, <2>12, <3>1, <3>2, <3>3, <3>4, SentFirst, ZenonT(30)
    <2> QED BY <2>2, <2>7, <2>8, <2>9, <2>13, Zenon DEF PoolInv
  <1> QED BY <1>1, <1>2, ScenarioTypes, Zenon DEF PoolInv, PoolTypeOK

\* maybe_teardown: with no permit out, every thread of the pool is told to
\* shut down, and the pool is down.
LEMMA IdleTickInv ==
  ASSUME PoolInv, IdleTick PROVE PoolInv'
  <1> USE DEF IdleTick, source, boxes, stats
  <1>1. CASE UNCHANGED <<pool, outbox>>
    <2>1. UNCHANGED poolVars /\ UNCHANGED <<thr, query>>
      BY <1>1, Zenon DEF poolVars
    <2> QED BY <2>1, PoolStutter, Zenon
  <1>2. CASE active = 0 /\ pool # 0 /\ teardownPool
    <2> DEFINE to(i) == <<pool, IF i <= sc.nio THEN i ELSE Admin>>
    <2>1. Holders = {}
      BY Zenon, <1>2, HoldersFinite, FS_EmptySet DEF PoolInv, PermitsCounted
    <2>2. pool' = 0 /\ outbox' = [i \in 1 .. sc.nio + 1 |-> letter(to(i), Shutdown)]
      BY <1>2, Zenon DEF teardownPool
    <2>3. sc.nio \in Nat /\ pool \in Nat /\ pool <= pools
      BY ScenarioTypes DEF PoolInv, PoolTypeOK
    <2>4. \A i \in 1 .. sc.nio + 1 : to(i) \in Int \X Int /\ to(i)[1] = pool
      BY <2>3 DEF Admin
    <2>5. \A i \in 1 .. sc.nio + 1 :
            /\ letter(to(i), Shutdown) \in Letters
            /\ letter(to(i), Shutdown).to = to(i)
            /\ letter(to(i), Shutdown).msg.op = "Shutdown"
      BY <2>4, MsgOps, Zenon DEF letter, Letters
    <2> HIDE DEF to
    <2>6. outbox' \in Seq(Letters) /\ Len(outbox') = sc.nio + 1
      <3>1. outbox' \in [1 .. sc.nio + 1 -> Letters]
        BY <2>2, <2>5, Zenon
      <3>2. sc.nio + 1 \in Nat
        BY <2>3
      <3> HIDE DEF IdleTick
      <3> QED BY <3>1, <3>2
    <2>7. \A k \in 1 .. Len(outbox') : outbox'[k].to[1] = pool /\ outbox'[k].msg.op = "Shutdown"
      BY Zenon, <2>2, <2>4, <2>5, <2>6
    <2>8. PoolTypeOK'
      BY <2>2, <2>3, <2>6, NoPool, Zenon DEF PoolInv, PoolTypeOK, Slots
    <2>9. PermitsCounted' /\ HoldersAtHome' /\ WaitingOnce'
      BY <2>1, Zenon DEF PoolInv, PermitsCounted, Holders, HoldersAtHome, WaitingOnce
    <2>10. LaterPoolsFresh'
      BY <2>3, <2>7, Zenon DEF PoolInv, LaterPoolsFresh, Slots
    <2>11. PoolNotShutDown'
      <3>1. \A s \in Slots : s[1] # 0
        BY HarnessAssumption, SMTT(20) DEF Slots
      <3> QED BY Zenon, <1>2, <2>2, <2>7, <3>1 DEF PoolNotShutDown, Slots
    <2>12. SentOnce'
      <3>1. \A k \in 1 .. Len(outbox') : outbox'[k].msg.op # "Conn"
        BY <2>7, Zenon
      <3>2. mail' = mail /\ conn' = conn
        BY Zenon
      <3> HIDE DEF IdleTick
      <3> QED BY <3>1, <3>2, NoConnSent, Zenon DEF PoolInv
    <2> QED BY <2>8, <2>9, <2>10, <2>11, <2>12, Zenon DEF PoolInv
  <1> QED BY <1>1, <1>2, Zenon

\* MailboxSender::send pushes the first letter.
LEMMA CtlPushInv ==
  ASSUME PoolInv, CtlPush PROVE PoolInv'
  <1> DEFINE l == Head(outbox)
  <1> USE DEF CtlPush, source, control, stats
  <1>1. /\ Len(outbox) \in Nat \ {0} /\ l = outbox[1] /\ l \in Letters
        /\ l.msg \in Msgs /\ ~l.pushed
    BY TailFacts, OutboxTypes DEF PoolInv, PoolTypeOK
  <1>2. \A s \in Slots : mail'[s] = IF s = l.to THEN Append(mail[s], l.msg) ELSE mail[s]
    BY Zenon DEF PoolInv, PoolTypeOK
  <1>3. /\ outbox' \in Seq(Letters) /\ Len(outbox') = Len(outbox)
        /\ outbox'[1].pushed
        /\ \A k \in 1 .. Len(outbox) :
             outbox'[k].to = outbox[k].to /\ outbox'[k].msg = outbox[k].msg
    <2>1. [l EXCEPT !.pushed = TRUE] \in Letters
      BY Zenon, <1>1 DEF Letters
    <2>2. /\ [l EXCEPT !.pushed = TRUE].to = l.to /\ [l EXCEPT !.pushed = TRUE].msg = l.msg
          /\ [l EXCEPT !.pushed = TRUE].pushed
      BY <1>1, Zenon DEF Letters
    <2>3. outbox' = [outbox EXCEPT ![1] = [l EXCEPT !.pushed = TRUE]]
      BY <1>1, Zenon
    <2>4. outbox \in Seq(Letters)
      BY Zenon DEF PoolInv, PoolTypeOK
    <2> DEFINE m == [l EXCEPT !.pushed = TRUE]
    <2> HIDE DEF m, CtlPush
    <2>5. outbox' = [outbox EXCEPT ![1] = m] /\ m \in Letters
      BY <2>1, <2>3, Zenon DEF m
    <2>6. outbox' \in Seq(Letters) /\ Len(outbox') = Len(outbox) /\ outbox'[1] = m
      BY <1>1, <2>4, <2>5
    <2>7. \A k \in 1 .. Len(outbox) : k # 1 => outbox'[k] = outbox[k]
      BY <1>1, <2>4, <2>5
    <2> QED BY Zenon, <1>1, <2>2, <2>6, <2>7 DEF m
  <1>4. \A s \in Slots : mail[s] \in Seq(Msgs) /\ Len(mail[s]) \in Nat
    BY DEF PoolInv, PoolTypeOK
  <1>5. \A s \in Slots :
          /\ mail'[s] \in Seq(Msgs)
          /\ Len(mail'[s]) = IF s = l.to THEN Len(mail[s]) + 1 ELSE Len(mail[s])
          /\ s = l.to => mail'[s][Len(mail[s]) + 1] = l.msg
          /\ \A i \in 1 .. Len(mail[s]) : mail'[s][i] = mail[s][i]
    <2> HIDE DEF CtlPush, l
    <2> SUFFICES ASSUME NEW s \in Slots
                 PROVE  /\ mail'[s] \in Seq(Msgs)
                        /\ Len(mail'[s]) = IF s = l.to THEN Len(mail[s]) + 1 ELSE Len(mail[s])
                        /\ s = l.to => mail'[s][Len(mail[s]) + 1] = l.msg
                        /\ \A i \in 1 .. Len(mail[s]) : mail'[s][i] = mail[s][i]
      BY Zenon
    <2>1. mail[s] \in Seq(Msgs) /\ l.msg \in Msgs
      BY <1>1, <1>4, Zenon
    <2>2. CASE s = l.to
      <3>1. mail'[s] = Append(mail[s], l.msg)
        BY Zenon, <1>2, <2>2
      <3> QED BY <2>1, <2>2, <3>1, AppendFacts
    <2>3. CASE s # l.to
      BY <1>2, <2>1, <2>3, Zenon
    <2> QED BY <2>2, <2>3, Zenon
  <1>6. PoolTypeOK'
    <2>1. mail' \in [Slots -> Seq(Msgs)]
      BY Zenon, <1>5 DEF PoolInv, PoolTypeOK
    <2> QED BY <1>3, <2>1, Zenon DEF PoolInv, PoolTypeOK, Slots
  <1>7. PermitsCounted' /\ HoldersAtHome' /\ WaitingOnce'
    BY Zenon DEF PoolInv, PermitsCounted, Holders, HoldersAtHome, WaitingOnce
  <1>8. LaterPoolsFresh'
    <2>1. l.to[1] <= pools
      BY <1>1 DEF PoolInv, LaterPoolsFresh
    <2>2. \A s \in Slots : s[1] > pools => s # l.to
      BY <2>1, SlotPools DEF PoolInv, PoolTypeOK
    <2> QED BY <1>2, <1>3, <2>2, Zenon DEF PoolInv, LaterPoolsFresh, Slots
  <1> HIDE DEF l
  <1>9. PoolNotShutDown'
    <2>0. UNCHANGED <<pool, thr>>
      BY Zenon
    <2>1. l.msg.op = "Shutdown" => l.to[1] # pool
      BY <1>1 DEF PoolInv, PoolNotShutDown
    <2> HIDE DEF CtlPush
    <2>2. \A s \in Slots : s[1] = pool =>
            \A i \in 1 .. Len(mail'[s]) : mail'[s][i].op # "Shutdown"
      <3> SUFFICES ASSUME NEW s \in Slots, s[1] = pool, NEW i \in 1 .. Len(mail'[s])
                   PROVE  mail'[s][i].op # "Shutdown"
        BY Zenon
      <3>1. CASE i \in 1 .. Len(mail[s])
        BY <1>5, <3>1 DEF PoolInv, PoolNotShutDown
      <3>2. CASE s = l.to /\ i = Len(mail[s]) + 1
        BY <1>5, <2>1, <3>2, Zenon
      <3> QED BY <1>4, <1>5, <3>1, <3>2
    <2> QED BY <1>3, <2>0, <2>2, Zenon DEF PoolInv, PoolNotShutDown, Slots
  <1>10. SentOnce'
    <2> DEFINE at(s, i) == i \in 1 .. Len(mail[s])
    <2>1. \A s \in Slots : \A i \in 1 .. Len(mail'[s]) :
            \/ at(s, i) /\ mail'[s][i] = mail[s][i]
            \/ s = l.to /\ i = Len(mail[s]) + 1 /\ mail'[s][i] = l.msg
      BY <1>4, <1>5, SMTT(20)
    <2>2. l.msg.op = "Conn" =>
            /\ Len(outbox) = 1 /\ conn[l.msg.c] = "sent"
            /\ \A s \in Slots : \A i \in 1 .. Len(mail[s]) :
                 mail[s][i].op = "Conn" => mail[s][i].c # l.msg.c
      BY <1>1 DEF PoolInv, SentOnce
    <2>3. \A k \in 1 .. Len(outbox') : outbox'[k].msg.op = "Conn" =>
            Len(outbox') = 1 /\ outbox'[k].pushed
      BY <1>1, <1>3 DEF PoolInv, SentOnce
    <2>4. UNCHANGED conn /\ Slots' = Slots
      BY Zenon DEF Slots
    <2> HIDE DEF CtlPush
    <2>5. \A s \in Slots : \A i \in 1 .. Len(mail'[s]) :
            mail'[s][i].op = "Conn" => conn'[mail'[s][i].c] = "sent"
      BY <2>1, <2>2, <2>4, SMTT(20) DEF PoolInv, SentOnce
    <2>6. \A s, u \in Slots : \A i \in 1 .. Len(mail'[s]), j \in 1 .. Len(mail'[u]) :
            (mail'[s][i].op = "Conn" /\ mail'[u][j].op = "Conn"
               /\ mail'[s][i].c = mail'[u][j].c) => s = u /\ i = j
      <3> SUFFICES ASSUME NEW s \in Slots, NEW u \in Slots,
                          NEW i \in 1 .. Len(mail'[s]), NEW j \in 1 .. Len(mail'[u]),
                          mail'[s][i].op = "Conn", mail'[u][j].op = "Conn",
                          mail'[s][i].c = mail'[u][j].c
                   PROVE  s = u /\ i = j
        OBVIOUS
      <3>1. CASE at(s, i) /\ mail'[s][i] = mail[s][i] /\ at(u, j) /\ mail'[u][j] = mail[u][j]
        BY <3>1 DEF PoolInv, SentOnce
      <3>2. CASE mail'[s][i] = l.msg /\ at(u, j) /\ mail'[u][j] = mail[u][j]
        BY <2>2, <3>2, Zenon
      <3>3. CASE at(s, i) /\ mail'[s][i] = mail[s][i] /\ mail'[u][j] = l.msg
        BY <2>2, <3>3, Zenon
      <3> QED BY <2>1, <3>1, <3>2, <3>3, SMTT(20)
    <2> QED BY <2>3, <2>4, <2>5, <2>6, Zenon DEF SentOnce
  <1> QED BY <1>6, <1>7, <1>8, <1>9, <1>10, Zenon DEF PoolInv

\* The letter is gone once its doorbell is written.
LEMMA CtlRingInv ==
  ASSUME PoolInv, CtlRing PROVE PoolInv'
  <1> USE DEF CtlRing, source, control, stats
  <1>1. /\ Len(outbox) \in Nat \ {0} /\ outbox' \in Seq(Letters)
        /\ Len(outbox') = Len(outbox) - 1
        /\ \A k \in 1 .. Len(outbox) - 1 : outbox'[k] = outbox[k + 1]
    BY TailFacts, Zenon DEF PoolInv, PoolTypeOK
  <1>2. PoolTypeOK'
    BY <1>1, Zenon DEF PoolInv, PoolTypeOK, Slots
  <1>3. PermitsCounted' /\ HoldersAtHome' /\ WaitingOnce'
    BY Zenon DEF PoolInv, PermitsCounted, Holders, HoldersAtHome, WaitingOnce
  <1>4. LaterPoolsFresh' /\ PoolNotShutDown'
    BY <1>1 DEF PoolInv, LaterPoolsFresh, PoolNotShutDown, Slots
  <1>5. \A k \in 1 .. Len(outbox') : outbox'[k].msg.op # "Conn"
    <2>1. \A k \in 1 .. Len(outbox') : k + 1 \in 1 .. Len(outbox) /\ Len(outbox) # 1
      BY <1>1
    <2>2. \A k \in 1 .. Len(outbox) : outbox[k].msg.op = "Conn" => Len(outbox) = 1
      BY Zenon DEF PoolInv, SentOnce
    <2> QED BY <1>1, <2>1, <2>2, Zenon
  <1>6. SentOnce'
    BY <1>5, NoConnSent, Zenon DEF PoolInv
  <1> QED BY <1>2, <1>3, <1>4, <1>6, Zenon DEF PoolInv
=============================================================================
