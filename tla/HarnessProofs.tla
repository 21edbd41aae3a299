--------------------------- MODULE HarnessProofs ----------------------------
(***************************************************************************)
(* Proofs, for any number of connections, threads and pool incarnations,   *)
(* of what the harness promises: a connection that holds a permit belongs  *)
(* to the pool that is up, and no thread of that pool was told to shut     *)
(* down; no message is slept on; the pool waits out its grace period; and  *)
(* no controller that kept the notice misses a namespace change.           *)
(***************************************************************************)
EXTENDS HarnessInvariant

-----------------------------------------------------------------------------
(* A queue thread receives.                                                *)

\* Where a message of mail' was before the head of mail[s] was popped.
Off(u, s) == IF u = s THEN 1 ELSE 0

Popped(s) ==
  /\ mail' \in [Slots -> Seq(Msgs)]
  /\ 1 \in 1 .. Len(mail[s])
  /\ \A u \in Slots : \A i \in 1 .. Len(mail'[u]) :
       /\ i + Off(u, s) \in 1 .. Len(mail[u]) /\ mail'[u][i] = mail[u][i + Off(u, s)]
       /\ u = s => i + Off(u, s) # 1

\* Receiving a message pops it off one mailbox and leaves the others alone.
LEMMA TakeFacts ==
  ASSUME PoolTypeOK, NEW s \in Slots, mail[s] # <<>>, mail' = [mail EXCEPT ![s] = Tail(@)]
  PROVE  /\ Popped(s) /\ mail[s][1] \in Msgs /\ Head(mail[s]) = mail[s][1]
         /\ \A u \in Slots : u # s => mail'[u] = mail[u]
  <1> DEFINE q == mail[s]
  <1>1. mail'[s] = Tail(q) /\ \A u \in Slots : u # s => mail'[u] = mail[u]
    BY Zenon DEF PoolTypeOK
  <1>2. q \in Seq(Msgs) /\ q # <<>>
    BY Zenon DEF PoolTypeOK
  <1>3. /\ Len(q) \in Nat \ {0} /\ Head(q) = q[1] /\ q[1] \in Msgs
        /\ Tail(q) \in Seq(Msgs) /\ Len(Tail(q)) = Len(q) - 1
        /\ \A i \in 1 .. Len(q) - 1 : Tail(q)[i] = q[i + 1]
    <2> HIDE DEF q
    <2> QED BY <1>2, TailFacts, Zenon
  <1>4. mail' \in [Slots -> Seq(Msgs)]
    BY <1>1, <1>3, Zenon DEF PoolTypeOK
  <1>5. \A u \in Slots : Len(mail[u]) \in Nat
    BY DEF PoolTypeOK
  <1>6. Popped(s)
    BY <1>1, <1>3, <1>4, <1>5 DEF Popped, Off
  <1> QED BY <1>1, <1>3, <1>6, Zenon

\* Popping a message leaves what is told about the other Conn messages; the
\* connection of a popped Conn may change its stage.
LEMMA SentAfterTake ==
  ASSUME PoolTypeOK, SentOnce, NEW s \in Slots, Popped(s), UNCHANGED <<sc, outbox>>,
         \A d \in Conns : conn[d] = "sent" =>
           conn'[d] = "sent" \/ (mail[s][1].op = "Conn" /\ mail[s][1].c = d)
  PROVE  SentOnce'
  <1>1. Slots' = Slots /\ outbox' = outbox
    BY Zenon DEF Slots
  <1>2. \A u \in Slots : \A i \in 1 .. Len(mail'[u]) : mail'[u][i].op = "Conn" =>
          /\ mail'[u][i].c \in Conns
          /\ mail[s][1].op = "Conn" => mail'[u][i].c # mail[s][1].c
    <2> SUFFICES ASSUME NEW u \in Slots, NEW i \in 1 .. Len(mail'[u]),
                        mail'[u][i].op = "Conn"
                 PROVE  /\ mail'[u][i].c \in Conns
                        /\ mail[s][1].op = "Conn" => mail'[u][i].c # mail[s][1].c
      BY Zenon
    <2>1. i + Off(u, s) \in 1 .. Len(mail[u]) /\ mail'[u][i] = mail[u][i + Off(u, s)]
      BY Zenon DEF Popped
    <2>2. mail'[u][i].c \in Conns
      BY MsgOps DEF Popped
    <2>3. u # s \/ i + Off(u, s) # 1
      BY Zenon DEF Popped
    <2>4. 1 \in 1 .. Len(mail[s])
      BY Zenon DEF Popped
    <2>5. mail[s][1].op = "Conn" => mail'[u][i].c # mail[s][1].c
      BY <2>1, <2>3, <2>4, SMTT(20) DEF SentOnce
    <2> QED BY <2>2, <2>5, Zenon
  <1>3. \A u \in Slots : \A i \in 1 .. Len(mail'[u]) :
          mail'[u][i].op = "Conn" => conn'[mail'[u][i].c] = "sent"
    <2> SUFFICES ASSUME NEW u \in Slots, NEW i \in 1 .. Len(mail'[u]),
                        mail'[u][i].op = "Conn"
                 PROVE  conn'[mail'[u][i].c] = "sent"
      BY Zenon
    <2>1. i + Off(u, s) \in 1 .. Len(mail[u]) /\ mail'[u][i] = mail[u][i + Off(u, s)]
      BY Zenon DEF Popped
    <2>2. conn[mail'[u][i].c] = "sent"
      BY <2>1 DEF SentOnce
    <2> QED BY <1>2, <2>2
  <1>4. \A u, v \in Slots : \A i \in 1 .. Len(mail'[u]), j \in 1 .. Len(mail'[v]) :
          (mail'[u][i].op = "Conn" /\ mail'[v][j].op = "Conn"
             /\ mail'[u][i].c = mail'[v][j].c) => u = v /\ i = j
    <2> SUFFICES ASSUME NEW u \in Slots, NEW v \in Slots,
                        NEW i \in 1 .. Len(mail'[u]), NEW j \in 1 .. Len(mail'[v]),
                        mail'[u][i].op = "Conn", mail'[v][j].op = "Conn",
                        mail'[u][i].c = mail'[v][j].c
                 PROVE  u = v /\ i = j
      OBVIOUS
    <2>1. /\ i + Off(u, s) \in 1 .. Len(mail[u]) /\ mail'[u][i] = mail[u][i + Off(u, s)]
          /\ j + Off(v, s) \in 1 .. Len(mail[v]) /\ mail'[v][j] = mail[v][j + Off(v, s)]
      BY Zenon DEF Popped
    <2>2. u = v /\ i + Off(u, s) = j + Off(v, s)
      BY <2>1, SMTT(20) DEF SentOnce
    <2> QED BY <2>2 DEF Off
  <1>5. \A k \in 1 .. Len(outbox) : outbox[k].msg.op = "Conn" =>
          /\ Len(outbox) = 1
          /\ ~outbox[k].pushed =>
               /\ conn'[outbox[k].msg.c] = "sent"
               /\ \A u \in Slots : \A i \in 1 .. Len(mail'[u]) :
                    mail'[u][i].op = "Conn" => mail'[u][i].c # outbox[k].msg.c
    <2> SUFFICES ASSUME NEW k \in 1 .. Len(outbox), outbox[k].msg.op = "Conn"
                 PROVE  /\ Len(outbox) = 1
                        /\ ~outbox[k].pushed =>
                             /\ conn'[outbox[k].msg.c] = "sent"
                             /\ \A u \in Slots : \A i \in 1 .. Len(mail'[u]) :
                                  mail'[u][i].op = "Conn" => mail'[u][i].c # outbox[k].msg.c
      BY Zenon
    <2>1. outbox[k].msg.c \in Conns
      BY OutboxTypes, MsgOps, Zenon
    <2>2. Len(outbox) = 1
      BY Zenon DEF SentOnce
    <2>3. ~outbox[k].pushed => conn[outbox[k].msg.c] = "sent"
      BY Zenon DEF SentOnce
    <2>4. ~outbox[k].pushed =>
            \A u \in Slots : \A i \in 1 .. Len(mail[u]) :
              mail[u][i].op = "Conn" => mail[u][i].c # outbox[k].msg.c
      BY Zenon DEF SentOnce
    <2>5. ~outbox[k].pushed => conn'[outbox[k].msg.c] = "sent"
      BY <2>1, <2>3, <2>4 DEF Popped
    <2>6. ~outbox[k].pushed =>
            \A u \in Slots : \A i \in 1 .. Len(mail'[u]) :
              mail'[u][i].op = "Conn" => mail'[u][i].c # outbox[k].msg.c
      BY <2>4, SMTT(20) DEF Popped
    <2> QED BY <2>2, <2>5, <2>6, Zenon
  <1> QED BY <1>1, <1>3, <1>4, <1>5 DEF SentOnce

\* What holds of the mailboxes after a pop.
LEMMA MailAfterTake ==
  ASSUME PoolInv, NEW s \in Slots, Popped(s), UNCHANGED <<pool, pools>>
  PROVE  /\ s[1] <= pools
         /\ \A u \in Slots : u[1] > pools => mail'[u] = <<>>
         /\ \A u \in Slots : u[1] = pool =>
              \A i \in 1 .. Len(mail'[u]) : mail'[u][i].op # "Shutdown"
  <1>1. s[1] <= pools
    <2>1. mail[s] # <<>>
      BY DEF Popped
    <2> QED BY <2>1, SlotPools DEF PoolInv, PoolTypeOK, LaterPoolsFresh
  <1>2. ASSUME NEW u \in Slots, u[1] > pools PROVE mail'[u] = <<>>
    <2>1. u # s /\ mail[u] = <<>>
      BY <1>1, <1>2, SlotPools DEF PoolInv, PoolTypeOK, LaterPoolsFresh
    <2>2. mail'[u] \in Seq(Msgs) /\ \A i \in 1 .. Len(mail'[u]) : FALSE
      BY <2>1 DEF Popped, Off
    <2> QED BY <2>2
  <1>3. ASSUME NEW u \in Slots, u[1] = pool, NEW i \in 1 .. Len(mail'[u])
        PROVE  mail'[u][i].op # "Shutdown"
    BY <1>3 DEF Popped, PoolInv, PoolNotShutDown
  <1> QED BY <1>1, <1>2, <1>3, Zenon

\* A pop brings no Shutdown to the pool that is up, nor mail to a later one.
LEMMA FreshAfterTake ==
  ASSUME PoolInv, NEW s \in Slots, Popped(s), UNCHANGED <<home, pool, pools, outbox, thr>>
  PROVE  LaterPoolsFresh' /\ PoolNotShutDown'
  <1>1. /\ \A u \in Slots : u[1] > pools => mail'[u] = <<>>
        /\ \A u \in Slots : u[1] = pool =>
             \A i \in 1 .. Len(mail'[u]) : mail'[u][i].op # "Shutdown"
    BY MailAfterTake, Zenon
  <1>2. /\ Slots' = Slots /\ pool' = pool /\ pools' = pools
        /\ thr' = thr /\ outbox' = outbox /\ home' = home
    BY Zenon DEF Slots
  <1>3. LaterPoolsFresh'
    BY <1>1, <1>2, Zenon DEF PoolInv, LaterPoolsFresh
  <1>4. PoolNotShutDown'
    BY <1>1, <1>2, Zenon DEF PoolInv, PoolNotShutDown
  <1> QED BY <1>3, <1>4, Zenon

\* AdminMsg::NsChanged and a stats request are taken.
LEMMA TakeRequestInv ==
  ASSUME PoolInv, NEW s \in Slots, Popped(s), query' \in Queries,
         UNCHANGED <<sc, conn, home, backlog, held, pool, pools, active, outbox, thr>>
  PROVE  PoolInv'
  <1>1. PoolTypeOK'
    BY Zenon DEF PoolInv, PoolTypeOK, Popped, Slots
  <1>2. PermitsCounted' /\ HoldersAtHome' /\ WaitingOnce'
    BY Zenon DEF PoolInv, PermitsCounted, Holders, HoldersAtHome, WaitingOnce
  <1>3. LaterPoolsFresh' /\ PoolNotShutDown'
    BY FreshAfterTake, Zenon
  <1>4. SentOnce'
    BY SentAfterTake, Zenon DEF PoolInv
  <1> QED BY <1>1, <1>2, <1>3, <1>4, Zenon DEF PoolInv

\* A thread takes a nudge: no connection or permit moves.
LEMMA TakeNsChangedInv ==
  ASSUME PoolInv, NEW s \in Slots, TakeNsChanged(s) PROVE PoolInv'
  <1>1. Popped(s)
    BY Zenon, TakeFacts DEF TakeNsChanged, Takes, PoolInv
  <1> QED BY <1>1, TakeRequestInv, Zenon
      DEF TakeNsChanged, source, control, stats, PoolInv, PoolTypeOK

\* A thread answers GET_STATS: no connection or permit moves.
LEMMA TakeStatsInv ==
  ASSUME PoolInv, NEW s \in Slots, TakeStats(s) PROVE PoolInv'
  <1>1. Popped(s)
    BY ZenonT(40), TakeFacts DEF TakeStats, Takes, PoolInv
  <1>2. query' \in Queries
    BY AdvanceType, Zenon DEF TakeStats, PoolInv, PoolTypeOK
  <1> QED BY <1>1, <1>2, TakeRequestInv, Zenon DEF TakeStats, source, control

\* Who waits to be accepted keeps waiting.
LEMMA WaitingKept ==
  ASSUME PoolTypeOK, WaitingOnce, UNCHANGED <<backlog, held>>,
         \A d \in Conns : conn[d] = "backlog" => conn'[d] = "backlog"
  PROVE  WaitingOnce'
  <1>1. \A i \in 1 .. Len(backlog) : backlog[i] \in Conns
    BY DEF PoolTypeOK
  <1> QED BY <1>1, Zenon DEF PoolTypeOK, WaitingOnce

\* The thread takes a connection over, permit included.
LEMMA TakeConnInv ==
  ASSUME PoolInv, NEW s \in Slots, TakeConn(s) PROVE PoolInv'
  <1> DEFINE c == Head(mail[s]).c
  <1>1. /\ Popped(s) /\ Head(mail[s]) = mail[s][1] /\ mail[s][1] \in Msgs
        /\ mail[s][1].op = "Conn"
    BY ZenonT(40), TakeFacts DEF TakeConn, Takes, PoolInv
  <1>2. c = mail[s][1].c /\ c \in Conns /\ conn[c] = "sent"
    <2>1. c = mail[s][1].c /\ c \in Conns
      BY <1>1, MsgOps, Zenon
    <2> QED BY <1>1, <2>1 DEF PoolInv, SentOnce, Popped
  <1>3. /\ conn' = [conn EXCEPT ![c] = "running"]
        /\ UNCHANGED <<sc, home, backlog, held, pool, pools, active, outbox, thr, query>>
    BY Zenon DEF TakeConn, source, control
  <1> HIDE DEF c
  <1>4. PermitsCounted' /\ Holders' = Holders
    BY Zenon, <1>2, <1>3, PermitKept DEF PoolInv, Permitted
  <1>5. PoolTypeOK'
    BY ZenonT(40), <1>1, <1>3 DEF PoolInv, PoolTypeOK, Popped, Stages, Slots
  <1>6. HoldersAtHome' /\ LaterPoolsFresh' /\ PoolNotShutDown'
    <2>1. UNCHANGED <<home, pool, pools, outbox, thr>>
      BY <1>3, Zenon
    <2>2. HoldersAtHome'
      BY <1>4, <2>1, Zenon DEF PoolInv, HoldersAtHome
    <2> QED BY <1>1, <2>1, <2>2, FreshAfterTake, Zenon
  <1>7. \A d \in Conns : d # c => conn'[d] = conn[d]
    BY <1>3, Zenon DEF PoolInv, PoolTypeOK
  <1>8. WaitingOnce'
    <2>1. UNCHANGED <<backlog, held>>
      BY <1>3, Zenon
    <2>2. \A d \in Conns : conn[d] = "backlog" => conn'[d] = "backlog"
      BY <1>2, <1>7, Zenon
    <2> QED BY <2>1, <2>2, WaitingKept, Zenon DEF PoolInv
  <1>9. SentOnce'
    <2>1. UNCHANGED <<sc, outbox>>
      BY <1>3, Zenon
    <2>2. \A d \in Conns : conn[d] = "sent" =>
            conn'[d] = "sent" \/ (mail[s][1].op = "Conn" /\ mail[s][1].c = d)
      BY <1>1, <1>2, <1>7, Zenon
    <2> QED BY <1>1, <2>1, <2>2, SentAfterTake, Zenon DEF PoolInv
  <1> QED BY <1>4, <1>5, <1>6, <1>8, <1>9, Zenon DEF PoolInv

\* A queue thread ends with its tasks, and their permits are dropped.
LEMMA ThreadEnds ==
  ASSUME PoolInv, NEW s \in Slots, NEW how, threadEnds(s, how),
         UNCHANGED <<sc, home, backlog, held, pool, pools>>
  PROVE  /\ PermitsCounted' /\ HoldersAtHome' /\ WaitingOnce'
         /\ conn' \in [Conns -> Stages]
         /\ \A d \in Conns : conn[d] = "sent" => conn'[d] = "sent"
         /\ thr' = [thr EXCEPT ![s] = how]
  <1> DEFINE tasks == {c \in Conns : conn[c] \in {"running", "open", "leaked"} /\ slotOf(c) = s}
  <1>1. /\ conn' = [c \in Conns |-> IF c \in tasks THEN "ended" ELSE conn[c]]
        /\ active' = active - Cardinality(tasks \cap Holders)
        /\ thr' = [thr EXCEPT ![s] = how]
    BY Zenon DEF threadEnds
  <1>2. \A c \in tasks : conn[c] \in {"running", "open", "leaked"}
    BY Zenon
  <1>3. \A c \in Conns : conn[c] \in Stages
    BY Zenon DEF PoolInv, PoolTypeOK
  <1> HIDE DEF tasks
  <1>4. Holders' = Holders \ tasks
    BY <1>1, Zenon DEF Holders, Permitted
  <1>5. /\ Cardinality(Holders \ tasks) = Cardinality(Holders) - Cardinality(Holders \cap tasks)
        /\ Cardinality(Holders \cap tasks) \in Nat
    <2>1. IsFiniteSet(Holders \cap tasks)
      BY HoldersFinite, FS_Subset, Zenon
    <2> QED BY Zenon, <2>1, HoldersFinite, FS_Difference, FS_CardinalityType
  <1>6. tasks \cap Holders = Holders \cap tasks
    BY Zenon
  <1>7. PermitsCounted'
    <2>1. active' = Cardinality(Holders')
      BY ZenonT(40), <1>1, <1>4, <1>5, <1>6 DEF PoolInv, PermitsCounted
    <2>2. active' <= MaxConnections
      <3> DEFINE a == Cardinality(Holders)
                 b == Cardinality(Holders \cap tasks)
      <3>1. a \in Nat /\ b \in Nat /\ a <= MaxConnections /\ active' = a - b
        <4>1. active = a /\ a <= MaxConnections
          BY Zenon DEF PoolInv, PermitsCounted
        <4>2. b = Cardinality(tasks \cap Holders)
          BY <1>6, Zenon
        <4> QED BY <1>1, <1>5, <4>1, <4>2, HoldersFinite, Zenon
      <3> HIDE DEF a, b
      <3> QED BY <3>1, HarnessAssumption
    <2> QED BY <2>1, <2>2, Zenon DEF PermitsCounted
  <1>8. HoldersAtHome'
    BY <1>4, Zenon DEF PoolInv, HoldersAtHome
  <1>9. conn' \in [Conns -> Stages]
    BY <1>1, <1>3, Zenon DEF Stages
  <1>10. \A d \in Conns : conn[d] \in {"sent", "backlog"} => conn'[d] = conn[d]
    BY <1>1, <1>2, Zenon
  <1>11. WaitingOnce'
    BY <1>10, WaitingKept, Zenon DEF PoolInv
  <1> QED BY <1>1, <1>7, <1>8, <1>9, <1>10, <1>11, Zenon

\* Only a thread of a pool that is down ever takes a Shutdown.
LEMMA TakeShutdownInv ==
  ASSUME PoolInv, NEW s \in Slots, TakeShutdown(s) PROVE PoolInv'
  <1> USE DEF TakeShutdown, source
  <1>1. /\ Popped(s) /\ Head(mail[s]) = mail[s][1] /\ mail[s][1].op = "Shutdown"
    BY Zenon, TakeFacts DEF Takes, PoolInv
  <1>2. /\ PermitsCounted' /\ HoldersAtHome' /\ WaitingOnce'
        /\ conn' \in [Conns -> Stages]
        /\ \A d \in Conns : conn[d] = "sent" => conn'[d] = "sent"
        /\ thr' = [thr EXCEPT ![s] = "exited"]
    BY ThreadEnds, Zenon
  <1>3. s[1] # pool
    BY <1>1, Zenon DEF PoolInv, PoolNotShutDown, Popped
  <1>4. UNCHANGED <<sc, home, backlog, held, pool, pools, outbox, query>>
    BY Zenon
  <1> HIDE DEF TakeShutdown
  <1>5. \A u \in Slots : u # s => thr'[u] = thr[u]
    BY <1>2, Zenon DEF PoolInv, PoolTypeOK
  <1>6. PoolTypeOK'
    BY <1>1, <1>2, <1>4, Zenon DEF PoolInv, PoolTypeOK, Popped, Slots
  <1>7. \A u \in Slots : u[1] > pools => u # s
    BY <1>1, <1>4, MailAfterTake, SlotPools DEF PoolInv, PoolTypeOK
  <1>8. LaterPoolsFresh'
    BY <1>1, <1>4, <1>5, <1>7, MailAfterTake, Zenon DEF PoolInv, LaterPoolsFresh, Slots
  <1>9. PoolNotShutDown'
    BY <1>1, <1>3, <1>4, <1>5, MailAfterTake, Zenon DEF PoolInv, PoolNotShutDown, Slots
  <1>10. SentOnce'
    BY <1>1, <1>2, <1>4, SentAfterTake, Zenon DEF PoolInv
  <1> QED BY <1>2, <1>6, <1>8, <1>9, <1>10, Zenon DEF PoolInv

\* A thread whose mailbox fails ends, and sends nothing.
LEMMA MailboxFailsInv ==
  ASSUME PoolInv, NEW s \in Slots, MailboxFails(s) PROVE PoolInv'
  <1> USE DEF MailboxFails, source
  <1>1. /\ PermitsCounted' /\ HoldersAtHome' /\ WaitingOnce'
        /\ conn' \in [Conns -> Stages]
        /\ \A d \in Conns : conn[d] = "sent" => conn'[d] = "sent"
        /\ thr' = [thr EXCEPT ![s] = "dead"]
    BY ThreadEnds, Zenon
  <1>2. UNCHANGED <<sc, home, backlog, held, pool, pools, outbox, query, mail>> /\ thr[s] = "armed"
    BY Zenon
  <1> HIDE DEF MailboxFails
  <1>3. thr'[s] = "dead" /\ \A u \in Slots : u # s => thr'[u] = thr[u]
    BY <1>1, Zenon DEF PoolInv, PoolTypeOK
  <1>4. PoolTypeOK'
    BY <1>1, <1>2, Zenon DEF PoolInv, PoolTypeOK, Slots
  <1>5. LaterPoolsFresh' /\ PoolNotShutDown'
    BY <1>2, <1>3 DEF PoolInv, LaterPoolsFresh, PoolNotShutDown, Slots
  <1>6. SentOnce'
    BY <1>1, <1>2, SentKept, Zenon DEF PoolInv
  <1> QED BY <1>1, <1>4, <1>5, <1>6, Zenon DEF PoolInv

-----------------------------------------------------------------------------
(* Every step.                                                             *)

\* Admin events and counters touch nothing of the pool.
LEMMA BystanderInv ==
  ASSUME PoolInv, NEW c \in Conns,
         \/ CmDisconnected(c) \/ CountCommand(c) \/ PostAer(c) \/ CompleteAer(c)
         \/ ReadChangedLog(c) \/ Rescan(c) \/ (\E on \in BOOLEAN : SetAec(c, on))
  PROVE  PoolInv'
  <1>1. UNCHANGED poolVars /\ UNCHANGED <<thr, query>>
    BY Zenon DEF CmDisconnected, CountCommand, PostAer, CompleteAer, ReadChangedLog, Rescan, SetAec,
       admin, poolVars, source, control, boxes, stats
  <1> QED BY <1>1, PoolStutter, Zenon

\* Every step preserves the invariant of the pool.
LEMMA PoolStep ==
  ASSUME PoolInv, [Next]_vars PROVE PoolInv'
  <1>1. CASE UNCHANGED vars
    <2>1. UNCHANGED poolVars /\ UNCHANGED <<thr, query>>
      BY <1>1, Zenon DEF vars, poolVars, source, control, boxes, stats
    <2> QED BY <2>1, PoolStutter, Zenon
  <1>2. ASSUME NEW c \in Conns, TcpArrives(c) \/ CmConnectRequest(c) \/ CmRejects(c)
        PROVE  PoolInv'
    BY <1>2, TcpArrivesInv, CmConnectRequestInv, CmRejectsInv, Zenon
  <1>3. ASSUME NEW c \in Conns,
               \/ CmDisconnected(c) \/ CountCommand(c) \/ PostAer(c) \/ CompleteAer(c)
               \/ ReadChangedLog(c) \/ Rescan(c) \/ (\E on \in BOOLEAN : SetAec(c, on))
        PROVE  PoolInv'
    BY <1>3, BystanderInv, Zenon
  <1>4. ASSUME NEW c \in Conns,
               \/ IcExchange(c) \/ OpenCtx(c) \/ HandshakeDone(c) \/ HandshakeFails(c)
               \/ \E how \in {"ended", "leaked"} : EndQueue(c, how)
        PROVE  PoolInv'
    BY <1>4, AdvanceConnInv, EndConnInv, HandshakeDoneInv, Zenon
  <1>5. CASE CmForwards \/ Accept \/ AcceptWithoutPool \/ IdleTick
    BY <1>5, CmForwardsInv, AcceptInv, AcceptWithoutPoolInv, IdleTickInv, Zenon
  <1>6. CASE CmThreadEnds
    <2>1. UNCHANGED poolVars /\ UNCHANGED <<thr, query>>
      BY <1>6, Zenon DEF CmThreadEnds, poolVars, source, control, boxes, stats
    <2> QED BY <2>1, PoolStutter, Zenon
  <1>7. CASE NsEdit \/ AskThread \/ StatsTimeout \/ \E clear \in BOOLEAN : GetStats(clear)
    BY <1>7, NsEditInv, AskThreadInv, StatsTimeoutInv, GetStatsInv, Zenon
  <1>8. CASE SendSteps
    BY <1>8, CtlPushInv, CtlRingInv, Zenon DEF SendSteps
  <1>9. ASSUME NEW s \in Slots, ThreadArm(s) \/ ThreadWake(s) PROVE PoolInv'
    <2>1. PICK st \in {"poll", "armed"} :
            /\ thr' = [thr EXCEPT ![s] = st] /\ thr[s] \in {"poll", "armed"}
            /\ UNCHANGED poolVars /\ UNCHANGED query
      BY <1>9, Zenon DEF ThreadArm, ThreadWake, poolVars, source, control, stats
    <2> QED BY Zenon, <2>1, ThreadStateInv
  <1>10. ASSUME NEW s \in Slots, ThreadSteps(s) \/ MailboxFails(s) PROVE PoolInv'
    BY <1>9, <1>10, TakeConnInv, TakeNsChangedInv, TakeStatsInv, TakeShutdownInv,
       MailboxFailsInv DEF ThreadSteps
  <1> QED BY <1>1, <1>2, <1>3, <1>4, <1>5, <1>6, <1>7, <1>8, <1>10, Zenon DEF Next

\* The pool, its permits and its mailboxes stay consistent: ensure_pool,
\* teardown_pool, the permits and the two-step send of every message.
THEOREM PoolConsistent == Spec => []PoolInv
  <1>1. Init => PoolInv
    BY PoolInitInv, Zenon
  <1>2. PoolInv /\ [Next]_vars => PoolInv'
    BY PoolStep, Zenon
  <1> QED BY <1>1, <1>2, PTL DEF Spec

\* teardown_pool never takes a thread away from a connection: whatever the
\* number of connections, threads and incarnations of the pool, every holder of
\* a permit is served by the pool that is up, and no thread of it was told to
\* shut down.
THEOREM PoolOutlivesItsConns == Spec => []PoolOutlivesConns
  <1>1. PoolInv => PoolOutlivesConns
    <2> SUFFICES ASSUME PoolInv PROVE PoolOutlivesConns
      BY Zenon
    <2>1. ASSUME NEW s \in Slots, s[1] = pool PROVE Shutdown \notin Range(mail[s])
      <3>1. \A i \in DOMAIN mail[s] : mail[s][i].op # "Shutdown"
        BY <2>1 DEF PoolInv, PoolTypeOK, PoolNotShutDown
      <3> QED BY <3>1, MsgOps DEF Range
    <2> QED BY <2>1, Zenon DEF PoolInv, PermitsCounted, HoldersAtHome, PoolNotShutDown, PoolOutlivesConns
  <1> QED BY <1>1, PoolConsistent, PTL

-----------------------------------------------------------------------------
(* The doorbells.                                                          *)

MailInv == PoolInv /\ NoLostMail /\ DOMAIN bell = Slots

\* A step that fills no mailbox and puts no thread with mail to sleep.
LEMMA MailKept ==
  ASSUME MailInv, PoolInv', bell' = bell, outbox' = outbox \/ outbox = <<>>,
         \A s \in Slots : thr'[s] = "armed" /\ mail'[s] # <<>>
                           => thr[s] = "armed" /\ mail[s] # <<>>
  PROVE  MailInv'
  BY Zenon DEF MailInv, NoLostMail, Slots

\* Steps that leave threads and mailboxes alone, and find the outbox empty if
\* they fill it.
LEMMA BystanderMail ==
  ASSUME [Next]_vars
  PROVE  \/ UNCHANGED <<thr, mail, bell>> /\ (outbox' = outbox \/ outbox = <<>>)
         \/ Accept \/ SendSteps \/ \E s \in Slots : ThreadSteps(s) \/ MailboxFails(s)
  <1>1. CASE UNCHANGED vars
    BY <1>1, Zenon DEF vars, boxes
  <1>2. ASSUME NEW c \in Conns,
               \/ TcpArrives(c) \/ CmConnectRequest(c) \/ CmRejects(c) \/ CmDisconnected(c)
               \/ IcExchange(c) \/ HandshakeDone(c) \/ HandshakeFails(c)
               \/ OpenCtx(c) \/ CountCommand(c)
               \/ \E how \in {"ended", "leaked"} : EndQueue(c, how)
        PROVE  UNCHANGED <<thr, mail, bell>> /\ (outbox' = outbox \/ outbox = <<>>)
    BY <1>2, Zenon DEF TcpArrives, CmConnectRequest, CmRejects, CmDisconnected, IcExchange,
       HandshakeDone, HandshakeFails, OpenCtx, CountCommand, EndQueue, boxes, Between
  <1>3. ASSUME NEW c \in Conns,
               \/ PostAer(c) \/ CompleteAer(c) \/ ReadChangedLog(c) \/ Rescan(c)
               \/ \E on \in BOOLEAN : SetAec(c, on)
        PROVE  UNCHANGED <<thr, mail, bell>> /\ outbox' = outbox
    BY <1>3, Zenon DEF PostAer, CompleteAer, ReadChangedLog, Rescan, SetAec, admin, boxes
  <1>4. ASSUME CmForwards \/ CmThreadEnds \/ AcceptWithoutPool \/ IdleTick \/ NsEdit
               \/ AskThread \/ StatsTimeout \/ \E clear \in BOOLEAN : GetStats(clear)
        PROVE  UNCHANGED <<thr, mail, bell>> /\ (outbox' = outbox \/ outbox = <<>>)
    BY <1>4, Zenon DEF CmForwards, CmThreadEnds, AcceptWithoutPool, IdleTick, NsEdit, AskThread,
       StatsTimeout, GetStats, boxes, Between
  <1> QED BY <1>1, <1>2, <1>3, <1>4, Zenon DEF Next

\* A thread that takes a message is awake.
LEMMA TakeMail ==
  ASSUME MailInv, PoolInv', NEW s \in Slots, NEW op, Takes(s, op), UNCHANGED <<bell, outbox>>,
         thr' = thr \/ thr' = [thr EXCEPT ![s] = "exited"]
  PROVE  MailInv'
  <1>1. mail \in [Slots -> Seq(Msgs)] /\ DOMAIN thr = Slots
    BY Zenon DEF MailInv, PoolInv, PoolTypeOK
  <1>2. \A u \in Slots \ {s} : mail'[u] = mail[u] /\ thr'[u] = thr[u]
    BY <1>1, Zenon DEF Takes
  <1>3. thr'[s] # "armed"
    BY <1>1, Zenon DEF Takes
  <1> QED BY <1>2, <1>3, MailKept, Zenon

\* Every step keeps a doorbell behind the mail of a sleeping thread.
LEMMA MailStep ==
  ASSUME MailInv, [Next]_vars, PoolInv' PROVE MailInv'
  <1>0. /\ PoolTypeOK /\ mail \in [Slots -> Seq(Msgs)] /\ DOMAIN thr = Slots
        /\ outbox \in Seq(Letters) /\ DOMAIN bell = Slots
    BY Zenon DEF MailInv, PoolInv, PoolTypeOK
  <1>1. CASE UNCHANGED <<thr, mail, bell>> /\ (outbox' = outbox \/ outbox = <<>>)
    BY <1>1, MailKept, Zenon
  <1>2. CASE Accept
    <2>1. bell' = bell /\ mail' = mail /\ outbox' = outbox
      BY <1>2, Zenon DEF Accept
    <2>2. \A s \in Slots : thr'[s] = "armed" => thr[s] = "armed"
      BY <1>0, <1>2, Zenon DEF Accept, ensurePoolUp, spawnPool
    <2> QED BY <2>1, <2>2, MailKept, Zenon
  <1>3. CASE CtlPush
    <2> DEFINE l == outbox[1]
    <2>1. /\ outbox # <<>> /\ ~l.pushed /\ mail' = [mail EXCEPT ![l.to] = Append(@, l.msg)]
          /\ outbox' = [outbox EXCEPT ![1].pushed = TRUE] /\ UNCHANGED <<bell, thr>>
      BY <1>0, <1>3, TailFacts, Zenon DEF CtlPush
    <2>2. Len(outbox) \in Nat \ {0} /\ l \in Letters
      BY <1>0, <2>1, TailFacts, Zenon
    <2>3. outbox' # <<>> /\ Head(outbox').pushed /\ Head(outbox').to = l.to
      BY <1>0, <2>1, <2>2 DEF Letters
    <2>4. \A s \in Slots : thr[s] = "armed" /\ mail[s] # <<>> => bell[s]
      BY <1>0, <2>1, TailFacts, Zenon DEF MailInv, NoLostMail
    <2>5. \A s \in Slots : s # l.to => mail'[s] = mail[s]
      BY <1>0, <2>1, Zenon
    <2> QED BY <2>1, <2>3, <2>4, <2>5, Zenon DEF MailInv, NoLostMail, Slots
  <1>4. CASE CtlRing
    <2>1. /\ bell' = [bell EXCEPT ![Head(outbox).to] = TRUE] /\ UNCHANGED <<mail, thr>>
      BY <1>4, Zenon DEF CtlRing
    <2>2. \A s \in Slots : bell[s] \/ s = Head(outbox).to => bell'[s]
      BY <1>0, <2>1, Zenon
    <2>3. DOMAIN bell' = Slots
      BY <1>0, <2>1, Zenon
    <2> QED BY <2>1, <2>2, <2>3, Zenon DEF MailInv, NoLostMail, Slots
  <1>5. ASSUME NEW s \in Slots, ThreadArm(s) PROVE MailInv'
    <2>1. /\ thr' = [thr EXCEPT ![s] = "armed"] /\ mail[s] = <<>>
          /\ UNCHANGED <<mail, bell, outbox>>
      BY <1>5, Zenon DEF ThreadArm
    <2>2. \A u \in Slots \ {s} : thr'[u] = thr[u]
      BY <1>0, <2>1, Zenon
    <2> QED BY <2>1, <2>2, MailKept, Zenon
  <1>6. ASSUME NEW s \in Slots, ThreadWake(s) PROVE MailInv'
    <2>1. /\ thr' = [thr EXCEPT ![s] = "poll"] /\ bell' = [bell EXCEPT ![s] = FALSE]
          /\ UNCHANGED <<mail, outbox>>
      BY <1>6, Zenon DEF ThreadWake
    <2>2. /\ thr'[s] = "poll" /\ DOMAIN bell' = Slots
          /\ \A u \in Slots \ {s} : thr'[u] = thr[u] /\ bell'[u] = bell[u]
      BY <1>0, <2>1, Zenon
    <2> QED BY <2>1, <2>2 DEF MailInv, NoLostMail, Slots
  <1>7. ASSUME NEW s \in Slots, TakeConn(s) \/ TakeNsChanged(s) \/ TakeStats(s)
        PROVE  MailInv'
    <2>1. PICK op \in {"Conn", "NsChanged", "Stats"} : Takes(s, op)
      BY <1>7, Zenon DEF TakeConn, TakeNsChanged, TakeStats
    <2>2. UNCHANGED <<bell, outbox, thr>>
      BY <1>7, Zenon DEF TakeConn, TakeNsChanged, TakeStats
    <2> QED BY <2>1, <2>2, TakeMail, Zenon
  <1>8. ASSUME NEW s \in Slots, TakeShutdown(s) PROVE MailInv'
    BY <1>8, TakeMail, Zenon DEF TakeShutdown, threadEnds
  <1>9. ASSUME NEW s \in Slots, MailboxFails(s) PROVE MailInv'
    <2>1. thr' = [thr EXCEPT ![s] = "dead"] /\ UNCHANGED <<bell, outbox, mail>>
      BY <1>9, Zenon DEF MailboxFails, threadEnds
    <2>2. thr'[s] = "dead" /\ \A u \in Slots \ {s} : thr'[u] = thr[u]
      BY <1>0, <2>1, Zenon
    <2> QED BY <2>1, <2>2, MailKept, Zenon
  <1> QED BY <1>1, <1>2, <1>3, <1>4, <1>5, <1>6, <1>7, <1>8, <1>9, BystanderMail, Zenon
          DEF SendSteps, ThreadSteps

\* A doorbell is never lost: Mailbox::recv looks at the queue before it arms the
\* read, and a sender writes the eventfd after its push, so no thread sleeps on a
\* mailbox with a message and no count to read.
THEOREM MailArrives == Spec => []NoLostMail
  <1>1. Init => MailInv
    BY PoolInitInv, Zenon DEF Init, MailInv, NoLostMail
  <1>2. MailInv /\ [Next]_vars => MailInv'
    BY MailStep, PoolStep, Zenon DEF MailInv
  <1>3. MailInv => NoLostMail
    BY Zenon DEF MailInv
  <1> QED BY <1>1, <1>2, <1>3, PTL DEF Spec

-----------------------------------------------------------------------------
(* The idle clock.                                                         *)

\* The idle clock never runs ahead of the time no connection was active.
IdleInv ==
  /\ quiet \in Nat /\ idle \in Nat \cup {NoIdle}
  /\ idle # NoIdle => idle < quiet

\* Only the accept loop and the tick touch the clocks and the pool.
LEMMA ClockSteps ==
  ASSUME [Next]_vars
  PROVE  UNCHANGED <<idle, quiet, pool>> \/ Accept \/ AcceptWithoutPool \/ IdleTick
  <1>1. CASE UNCHANGED vars
    BY <1>1, Zenon DEF vars, control
  <1>2. ASSUME NEW c \in Conns,
               \/ TcpArrives(c) \/ CmConnectRequest(c) \/ CmRejects(c) \/ CmDisconnected(c)
               \/ IcExchange(c) \/ HandshakeDone(c) \/ HandshakeFails(c)
               \/ OpenCtx(c) \/ CountCommand(c)
               \/ \E how \in {"ended", "leaked"} : EndQueue(c, how)
        PROVE  UNCHANGED <<idle, quiet, pool>>
    BY <1>2, Zenon DEF TcpArrives, CmConnectRequest, CmRejects, CmDisconnected, IcExchange,
       HandshakeDone, HandshakeFails, OpenCtx, CountCommand, EndQueue, control
  <1>3. ASSUME NEW c \in Conns,
               \/ PostAer(c) \/ CompleteAer(c) \/ ReadChangedLog(c) \/ Rescan(c)
               \/ \E on \in BOOLEAN : SetAec(c, on)
        PROVE  UNCHANGED <<idle, quiet, pool>>
    BY <1>3, Zenon DEF PostAer, CompleteAer, ReadChangedLog, Rescan, SetAec, admin, control
  <1>4. ASSUME CmForwards \/ CmThreadEnds \/ NsEdit \/ AskThread \/ StatsTimeout \/ SendSteps
               \/ \E clear \in BOOLEAN : GetStats(clear)
        PROVE  UNCHANGED <<idle, quiet, pool>>
    BY <1>4, Zenon DEF CmForwards, CmThreadEnds, NsEdit, AskThread, StatsTimeout, GetStats,
       SendSteps, CtlPush, CtlRing, control
  <1>5. ASSUME NEW s \in Slots, ThreadSteps(s) \/ MailboxFails(s)
        PROVE  UNCHANGED <<idle, quiet, pool>>
    BY <1>5, Zenon DEF ThreadSteps, ThreadArm, ThreadWake, TakeConn, TakeNsChanged, TakeStats,
       TakeShutdown, MailboxFails, control
  <1> QED BY <1>1, <1>2, <1>3, <1>4, <1>5, Zenon DEF Next

\* Every step keeps the idle clock at or behind the time without connections.
LEMMA IdleStep ==
  ASSUME IdleInv, [Next]_vars
  PROVE  IdleInv' /\ (pool # 0 /\ pool' = 0 => quiet >= Grace)
  <1>0. Grace \in Nat
    BY HarnessAssumption, Zenon
  <1>1. CASE UNCHANGED <<idle, quiet, pool>>
    BY <1>1, Zenon DEF IdleInv
  <1>2. CASE Accept
    <2>1. idle' = NoIdle /\ (quiet' = quiet \/ quiet' = 0)
      BY <1>2, Zenon DEF Accept, restartIdle
    <2>2. pool # 0 => pool' = pool
      BY <1>2, Zenon DEF Accept, ensurePoolUp
    <2> QED BY <2>1, <2>2 DEF IdleInv, NoIdle
  <1>3. CASE AcceptWithoutPool
    BY <1>3, Zenon DEF AcceptWithoutPool, restartIdle, IdleInv, NoIdle
  <1>4. CASE IdleTick
    <2> DEFINE since == IF idle = NoIdle THEN 0 ELSE idle + 1
    <2>1. since \in Nat /\ since <= quiet
      BY DEF IdleInv, NoIdle
    <2>2. CASE May("idle") /\ pool # 0 /\ active = 0
      <3>1. quiet' = IF quiet > Grace THEN quiet ELSE quiet + 1
        BY <1>4, <2>2 DEF IdleTick
      <3>2. IF since >= Grace THEN pool' = 0 /\ idle' = NoIdle ELSE idle' = since /\ pool' = pool
        BY <1>4, <2>2, Zenon DEF IdleTick, teardownPool
      <3> HIDE DEF since
      <3> QED BY <1>0, <2>1, <3>1, <3>2 DEF IdleInv, NoIdle
    <2>3. CASE ~(May("idle") /\ pool # 0 /\ active = 0)
      <3>1. quiet' \in {quiet, 0, quiet + 1}
        BY <1>4, Zenon DEF IdleTick
      <3>2. idle' = NoIdle /\ pool' = pool
        BY <1>4, <2>3, Zenon DEF IdleTick
      <3> QED BY <3>1, <3>2 DEF IdleInv, NoIdle
    <2> QED BY <2>2, <2>3, Zenon
  <1> QED BY <1>1, <1>2, <1>3, <1>4, ClockSteps, Zenon

\* maybe_teardown takes the pool down only after a whole grace period without an
\* active connection, whatever is accepted, refused and closed meanwhile.
THEOREM TeardownWaits == Spec => GraceRespected
  <1>1. Init => IdleInv
    BY DEF Init, IdleInv
  <1>2. IdleInv /\ [Next]_vars =>
          IdleInv' /\ [pool # 0 /\ pool' = 0 => quiet >= Grace]_vars
    BY IdleStep, Zenon
  <1> QED BY <1>1, <1>2, PTL DEF Spec, GraceRespected

-----------------------------------------------------------------------------
(* The namespace-change notice.                                            *)

Admins == [aec : BOOLEAN, changed : BOOLEAN, event : BOOLEAN, aer : BOOLEAN,
           told : BOOLEAN, scan : BOOLEAN, seen : Nat, kept : BOOLEAN]

\* The stages after a queue's dispatch context was built.
Started == {"open", "leaked", "ended"}

\* The host will look at the namespace table again.
WillScan(x) == x.scan \/ (x.changed /\ (x.event \/ x.told))

\* The nudge is on its way to thread s, or the thread is gone.
Nudged(s) ==
  \/ \E i \in 1 .. Len(mail[s]) : mail[s][i] = NsChanged
  \/ \E i \in 1 .. Len(outbox) : outbox[i] = letter(s, NsChanged)
  \/ thr[s] = "dead"

Behind(c) == conn[c] = "open" /\ sc.qid[c] = 0 /\ ctl[c].kept /\ ctl[c].seen < version

NsInv ==
  /\ PoolInv /\ pools <= MaxPools
  /\ ctl \in [Conns -> Admins] /\ version \in Nat
  /\ \A c \in Conns : /\ ctl[c].kept => ctl[c].aec
                      /\ conn[c] \notin Started => ctl[c].scan
                      /\ Behind(c) => WillScan(ctl[c]) \/ Nudged(slotOf(c))

\* An open admin queue is on the admin thread of the pool that is up.
LEMMA OpenSlot ==
  ASSUME PoolInv, pools <= MaxPools, NEW c \in Conns, conn[c] = "open", sc.qid[c] = 0
  PROVE  slotOf(c) = <<pool, Admin>> /\ slotOf(c) \in Slots /\ pool # 0 /\ home[c] = pool
  <1>1. c \in Holders
    BY Zenon DEF Holders, Permitted
  <1>2. home[c] = pool /\ pool # 0
    BY <1>1, Zenon DEF PoolInv, HoldersAtHome
  <1>3. slotOf(c) = <<pool, Admin>>
    BY <1>2, Zenon DEF slotOf, threadOf
  <1>4. pool \in 1 .. MaxPools /\ Admin \in 0 .. MaxIo
    BY <1>2, HarnessAssumption DEF PoolInv, PoolTypeOK, Admin
  <1> QED BY <1>2, <1>3, <1>4 DEF Slots

\* Contexts are built by OpenCtx only and are not unbuilt.
StageMove(c) ==
  /\ conn[c] \in Started => conn'[c] \in Started
  /\ conn'[c] = "open" => conn[c] \in {"open", "running"}

\* One connection moves, and none opens but from running.
LEMMA OneMove ==
  ASSUME PoolInv, NEW c \in Conns, NEW x, conn' = [conn EXCEPT ![c] = x],
         conn[c] \in Started => x \in Started,
         x = "open" => conn[c] \in {"open", "running"}
  PROVE  \A d \in Conns : StageMove(d)
  <1>1. conn \in [Conns -> Stages]
    BY Zenon DEF PoolInv, PoolTypeOK
  <1>2. conn'[c] = x /\ \A d \in Conns \ {c} : conn'[d] = conn[d]
    BY <1>1, Zenon
  <1> QED BY <1>2, Zenon DEF StageMove

\* A step that touches no controller and no nudge.
LEMMA NsKept ==
  ASSUME NsInv, PoolInv', pools' <= MaxPools, UNCHANGED <<sc, ctl, version>>,
         \A c \in Conns : StageMove(c),
         \A c \in Conns : conn'[c] = "open" => home'[c] = home[c],
         \A s \in Slots : Nudged(s) => Nudged(s)'
  PROVE  NsInv'
  <1>1. ASSUME NEW c \in Conns PROVE conn'[c] \notin Started => ctl'[c].scan
    BY Zenon DEF NsInv, StageMove
  <1>2. ASSUME NEW c \in Conns, Behind(c)'
        PROVE  WillScan(ctl[c])' \/ Nudged(slotOf(c))'
    <2>1. CASE conn[c] = "open"
      <3>1. Behind(c) /\ sc.qid[c] = 0
        BY <1>2, <2>1, Zenon DEF Behind
      <3>2. WillScan(ctl[c]) \/ Nudged(slotOf(c))
        BY <3>1, Zenon DEF NsInv
      <3>3. slotOf(c) \in Slots
        BY <2>1, <3>1, OpenSlot, Zenon DEF NsInv
      <3>4. slotOf(c)' = slotOf(c)
        BY <1>2, Zenon DEF slotOf, threadOf, Behind
      <3>5. WillScan(ctl[c]) => WillScan(ctl[c])'
        BY Zenon DEF WillScan
      <3>6. PICK s \in Slots : s = slotOf(c)
        BY <3>3, Zenon
      <3>7. Nudged(s) => Nudged(s)'
        BY Zenon
      <3>8. Nudged(slotOf(c)) => Nudged(s)
        BY <3>6, Zenon
      <3>9. Nudged(s)' => Nudged(slotOf(c))'
        BY <3>4, <3>6, Zenon DEF Nudged
      <3> QED BY <3>2, <3>5, <3>7, <3>8, <3>9, Zenon
    <2>2. CASE conn[c] # "open"
      <3>1. conn[c] = "running"
        BY <1>2, <2>2, Zenon DEF Behind, StageMove
      <3>2. conn[c] \notin Started
        BY <3>1, Zenon DEF Started
      <3> QED BY <3>2, Zenon DEF NsInv, WillScan
    <2> QED BY <2>1, <2>2, Zenon
  <1> QED BY <1>1, <1>2, Zenon DEF NsInv

\* A nudge stays where it is while mailboxes and sends do.
LEMMA NudgeKept ==
  ASSUME UNCHANGED <<mail, thr>>, outbox' = outbox \/ outbox = <<>>
  PROVE  \A s \in Slots : Nudged(s) => Nudged(s)'
  <1>1. CASE outbox' = outbox
    BY <1>1, Zenon DEF Nudged
  <1>2. CASE outbox = <<>>
    <2>1. \A i \in 1 .. Len(outbox) : FALSE
      BY <1>2
    <2> QED BY <2>1, Zenon DEF Nudged
  <1> QED BY <1>1, <1>2, Zenon

\* No connection moves.
LEMMA StaySame ==
  ASSUME conn' = conn PROVE \A c \in Conns : StageMove(c)
  BY Zenon DEF StageMove

\* Steps of the connection sources and of one connection.
LEMMA ConnSteps ==
  ASSUME PoolInv, NEW c \in Conns,
         \/ TcpArrives(c) \/ CmConnectRequest(c) \/ CmRejects(c) \/ CmDisconnected(c)
         \/ IcExchange(c) \/ HandshakeDone(c) \/ HandshakeFails(c)
         \/ OpenCtx(c) \/ CountCommand(c)
         \/ \E how \in {"ended", "leaked"} : EndQueue(c, how)
  PROVE  /\ \A d \in Conns : StageMove(d)
         /\ UNCHANGED <<sc, ctl, version, pools, home, mail, thr>>
         /\ outbox' = outbox \/ outbox = <<>>
  <1>1. /\ UNCHANGED <<sc, ctl, version, pools, home, mail, thr>>
        /\ outbox' = outbox \/ outbox = <<>>
    <2>1. CASE \/ TcpArrives(c) \/ CmConnectRequest(c) \/ CmRejects(c) \/ CmDisconnected(c)
      BY <2>1, Zenon DEF TcpArrives, CmConnectRequest, CmRejects, CmDisconnected, boxes,
         nsvars, control
    <2>2. CASE IcExchange(c) \/ HandshakeDone(c) \/ HandshakeFails(c)
      BY <2>2, Zenon DEF IcExchange, HandshakeDone, HandshakeFails, boxes, nsvars, control,
         Between
    <2>3. CASE OpenCtx(c) \/ CountCommand(c) \/ \E how \in {"ended", "leaked"} : EndQueue(c, how)
      BY <2>3, Zenon DEF OpenCtx, CountCommand, EndQueue, boxes, nsvars, control
    <2> QED BY <2>1, <2>2, <2>3, Zenon
  <1>2. CASE CmDisconnected(c) \/ CountCommand(c)
    <2>1. conn' = conn
      BY <1>2, Zenon DEF CmDisconnected, CountCommand
    <2> QED BY <1>1, <2>1, StaySame, Zenon
  <1>3. CASE TcpArrives(c) \/ CmConnectRequest(c) \/ CmRejects(c)
    <2>1. conn[c] \notin Started
      BY <1>3, Zenon DEF TcpArrives, CmConnectRequest, CmRejects, Started
    <2>2. PICK x \in {"backlog", "rejected"} : conn' = [conn EXCEPT ![c] = x]
      BY <1>3, Zenon DEF TcpArrives, CmConnectRequest, CmRejects
    <2>3. x # "open"
      BY Zenon
    <2> QED BY <1>1, <2>1, <2>2, <2>3, OneMove, Zenon
  <1>4. CASE IcExchange(c) \/ HandshakeDone(c) \/ HandshakeFails(c)
    <2>1. conn[c] \notin Started
      BY <1>4, Zenon DEF IcExchange, HandshakeDone, HandshakeFails, Started
    <2>2. PICK x \in {"connect", "sent", "ended"} : conn' = [conn EXCEPT ![c] = x]
      BY <1>4, Zenon DEF IcExchange, HandshakeDone, HandshakeFails, route
    <2>3. x # "open"
      BY Zenon
    <2> QED BY <1>1, <2>1, <2>2, <2>3, OneMove, Zenon
  <1>5. CASE OpenCtx(c)
    <2>1. conn[c] = "running" /\ conn' = [conn EXCEPT ![c] = "open"]
      BY <1>5, Zenon DEF OpenCtx
    <2>2. conn[c] \notin Started /\ conn[c] \in {"open", "running"}
      BY <2>1, Zenon DEF Started
    <2> QED BY <1>1, <2>1, <2>2, OneMove, Zenon
  <1>6. ASSUME NEW how \in {"ended", "leaked"}, EndQueue(c, how)
        PROVE  \A d \in Conns : StageMove(d)
    <2>1. conn' = [conn EXCEPT ![c] = how] /\ how \in Started /\ how # "open"
      BY <1>6, Zenon DEF EndQueue, Started
    <2> QED BY <2>1, OneMove, Zenon
  <1> QED BY <1>1, <1>2, <1>3, <1>4, <1>5, <1>6, Zenon

\* Steps of the control thread that concern no connection.
LEMMA ControlSteps ==
  ASSUME \/ CmForwards \/ CmThreadEnds \/ IdleTick \/ AskThread \/ StatsTimeout
         \/ \E clear \in BOOLEAN : GetStats(clear)
  PROVE  /\ \A d \in Conns : StageMove(d)
         /\ UNCHANGED <<sc, ctl, version, pools, home, mail, thr>>
         /\ outbox' = outbox \/ outbox = <<>>
  <1>1. CASE CmForwards \/ CmThreadEnds
    BY <1>1, StaySame, Zenon DEF CmForwards, CmThreadEnds, boxes, nsvars, control
  <1>2. CASE IdleTick
    BY <1>2, StaySame, Zenon DEF IdleTick, boxes, nsvars, control, Between
  <1>3. CASE AskThread \/ StatsTimeout \/ \E clear \in BOOLEAN : GetStats(clear)
    BY <1>3, StaySame, Zenon DEF AskThread, StatsTimeout, GetStats, boxes, nsvars, control, Between
  <1> QED BY <1>1, <1>2, <1>3, Zenon

\* An accept starts no queue and hides no namespace change.
LEMMA AcceptNs ==
  ASSUME NsInv, PoolInv', Accept \/ AcceptWithoutPool
  PROVE  NsInv'
  <1> DEFINE c == Head(backlog)
  <1>0. PoolInv /\ PoolTypeOK /\ pools <= MaxPools
    BY Zenon DEF NsInv, PoolInv
  <1>1. backlog # <<>> /\ UNCHANGED <<sc, ctl, version, mail, outbox>>
    BY Zenon DEF Accept, AcceptWithoutPool, Accepted, nsvars, boxes
  <1>2. c \in Conns /\ conn[c] = "backlog"
    <2>1. c = backlog[1] /\ 1 \in 1 .. Len(backlog) /\ backlog[1] \in Conns
      BY <1>0, <1>1, TailFacts DEF PoolTypeOK
    <2> QED BY <1>0, <2>1, Zenon DEF PoolInv, WaitingOnce
  <1>3. PICK x \in {"dropped", "icreq", "connect"} : conn' = [conn EXCEPT ![c] = x]
    BY Zenon DEF Accept, AcceptWithoutPool
  <1>4. home' = home \/ home' = [home EXCEPT ![c] = pool']
    BY Zenon DEF Accept, AcceptWithoutPool
  <1>5. \A d \in Conns : StageMove(d)
    <2>1. conn[c] \notin Started /\ x # "open"
      BY <1>2, Zenon DEF Started
    <2> QED BY <1>0, <1>2, <1>3, <2>1, OneMove, Zenon
  <1>6. \A d \in Conns : conn'[d] = "open" => home'[d] = home[d]
    <2>1. conn \in [Conns -> Stages] /\ home \in [Conns -> Nat]
      BY <1>0, Zenon DEF PoolTypeOK
    <2>2. conn'[c] # "open"
      BY <1>2, <1>3, <2>1, Zenon
    <2> QED BY <1>2, <1>4, <2>1, <2>2, Zenon
  <1>7. /\ pools' <= MaxPools
        /\ \A s \in Slots : thr[s] = "dead" => thr'[s] = "dead"
    <2>1. CASE UNCHANGED <<pools, thr>>
      BY <1>0, <2>1, Zenon
    <2>2. CASE pools < MaxPools /\ \E failed \in SUBSET Threads : spawnPool(failed)
      <3>1. pools \in Nat /\ MaxPools \in Nat
        BY <1>0, HarnessAssumption, Zenon DEF PoolTypeOK
      <3>2. pools' = pools + 1 /\ \A s \in Slots : s[1] # pools + 1 => thr'[s] = thr[s]
        BY <2>2, Zenon DEF spawnPool
      <3>3. \A s \in Slots : s[1] = pools + 1 => thr[s] = "none"
        BY <1>0, <3>1, SMTT(20) DEF PoolInv, LaterPoolsFresh
      <3>4. pools' <= MaxPools
        BY <2>2, <3>1, <3>2
      <3>5. \A s \in Slots : thr[s] = "dead" => s[1] # pools + 1
        BY <3>3, Zenon
      <3> QED BY <3>2, <3>4, <3>5, Zenon
    <2>3. CASE Accept
      <3>1. \/ UNCHANGED <<pools, thr>>
            \/ pools < MaxPools /\ spawnPool({})
            \/ pools < MaxPools /\ \E t \in Threads : spawnPool({t})
        BY <2>3, Zenon DEF Accept, ensurePoolUp
      <3>2. \A t \in Threads : {t} \in SUBSET Threads
        BY Zenon
      <3>3. {} \in SUBSET Threads
        BY Zenon
      <3> QED BY <2>1, <2>2, <3>1, <3>2, <3>3, Zenon
    <2>4. CASE AcceptWithoutPool
      BY <2>1, <2>4, Zenon DEF AcceptWithoutPool, boxes
    <2> QED BY <2>3, <2>4, Zenon
  <1>8. \A s \in Slots : Nudged(s) => Nudged(s)'
    BY <1>1, <1>7, Zenon DEF Nudged
  <1> QED BY <1>1, <1>5, <1>6, <1>7, <1>8, NsKept, Zenon

\* A step that changes one controller's own state.
LEMMA AdminNs ==
  ASSUME NsInv, PoolInv', NEW c \in Conns, NEW x \in Admins, admin(c, x),
         x.kept => x.aec,
         conn[c] = "open",
         ctl[c].scan => x.scan \/ ~(x.seen < version),
         x.kept /\ x.seen < version /\ (WillScan(ctl[c]) \/ ~(ctl[c].kept /\ ctl[c].seen < version))
           => WillScan(x)
  PROVE  NsInv'
  <1>1. /\ ctl' = [ctl EXCEPT ![c] = x]
        /\ UNCHANGED <<sc, conn, home, pools, mail, thr, outbox, version>>
    BY Zenon DEF admin, control, boxes
  <1>2. ctl \in [Conns -> Admins] /\ pools <= MaxPools /\ version \in Nat
    BY Zenon DEF NsInv
  <1>3. ctl'[c] = x /\ (\A d \in Conns \ {c} : ctl'[d] = ctl[d]) /\ ctl' \in [Conns -> Admins]
    BY <1>1, <1>2, Zenon
  <1>4. conn[c] \in Started
    BY Zenon DEF Started
  <1>5. ASSUME NEW d \in Conns
        PROVE  /\ ctl'[d].kept => ctl'[d].aec
               /\ conn'[d] \notin Started => ctl'[d].scan
    <2>1. CASE d = c
      BY <1>1, <1>3, <1>4, <2>1, Zenon
    <2>2. CASE d # c
      BY <1>1, <1>3, <2>2, Zenon DEF NsInv
    <2> QED BY <2>1, <2>2, Zenon
  <1>6. \A d \in Conns : Nudged(slotOf(d)) => Nudged(slotOf(d))'
    BY <1>1, Zenon DEF Nudged, slotOf, threadOf
  <1>7. ASSUME NEW d \in Conns, Behind(d)'
        PROVE  WillScan(ctl[d])' \/ Nudged(slotOf(d))'
    <2>1. CASE d = c
      <3>1. x.kept /\ x.seen < version /\ sc.qid[c] = 0
        BY <1>1, <1>3, <1>7, <2>1, Zenon DEF Behind
      <3>2. WillScan(ctl[c]) \/ Nudged(slotOf(c)) \/ ~(ctl[c].kept /\ ctl[c].seen < version)
        BY <3>1, Zenon DEF NsInv, Behind
      <3>3. WillScan(ctl[c])' <=> WillScan(x)
        BY <1>3, Zenon DEF WillScan
      <3> QED BY <1>6, <2>1, <3>1, <3>2, <3>3, Zenon
    <2>2. CASE d # c
      <3>1. Behind(d) /\ (WillScan(ctl[d]) => WillScan(ctl[d])')
        BY <1>1, <1>3, <1>7, <2>2, Zenon DEF Behind, WillScan
      <3> QED BY <1>6, <3>1, Zenon DEF NsInv
    <2> QED BY <2>1, <2>2, Zenon
  <1> QED BY <1>1, <1>2, <1>3, <1>5, <1>7, Zenon DEF NsInv

\* What an admin queue does with its notice keeps or shows the change.
LEMMA AdminSteps ==
  ASSUME NsInv, PoolInv', NEW c \in Conns,
         \/ PostAer(c) \/ CompleteAer(c) \/ ReadChangedLog(c) \/ Rescan(c)
         \/ \E on \in BOOLEAN : SetAec(c, on)
  PROVE  NsInv'
  <1>0. /\ ctl[c] \in Admins /\ (ctl[c].kept => ctl[c].aec) /\ version \in Nat
        /\ conn[c] = "open"
    BY Zenon DEF NsInv, OpenAdmin, PostAer, CompleteAer, ReadChangedLog, Rescan, SetAec
  <1>1. CASE PostAer(c)
    <2> DEFINE x == [ctl[c] EXCEPT !.aer = TRUE]
    <2>1. x \in Admins /\ x.kept = ctl[c].kept /\ x.aec = ctl[c].aec /\ x.seen = ctl[c].seen
          /\ WillScan(x) = WillScan(ctl[c]) /\ x.scan = ctl[c].scan
      BY <1>0, Zenon DEF Admins, WillScan
    <2>2. admin(c, x)
      BY <1>1, Zenon DEF PostAer
    <2> HIDE DEF x
    <2> QED BY <1>0, <2>1, <2>2, AdminNs, Zenon
  <1>2. CASE CompleteAer(c)
    <2> DEFINE x == [ctl[c] EXCEPT !.aer = FALSE, !.event = FALSE, !.told = TRUE]
    <2>1. x \in Admins /\ x.kept = ctl[c].kept /\ x.aec = ctl[c].aec /\ x.seen = ctl[c].seen
          /\ (WillScan(ctl[c]) => WillScan(x)) /\ x.scan = ctl[c].scan
      BY <1>0, Zenon DEF Admins, WillScan
    <2>2. admin(c, x)
      BY <1>2, Zenon DEF CompleteAer
    <2> HIDE DEF x
    <2> QED BY <1>0, <2>1, <2>2, AdminNs, Zenon
  <1>3. CASE ReadChangedLog(c)
    <2> DEFINE x == [ctl[c] EXCEPT !.told = FALSE, !.changed = FALSE, !.scan = @ \/ ctl[c].changed]
    <2>1. x \in Admins /\ x.kept = ctl[c].kept /\ x.aec = ctl[c].aec /\ x.seen = ctl[c].seen
          /\ (WillScan(ctl[c]) => WillScan(x)) /\ (ctl[c].scan => x.scan)
      BY <1>0, Zenon DEF Admins, WillScan
    <2>2. admin(c, x)
      BY <1>3, Zenon DEF ReadChangedLog
    <2> HIDE DEF x
    <2> QED BY <1>0, <2>1, <2>2, AdminNs, Zenon
  <1>4. CASE Rescan(c)
    <2> DEFINE x == [ctl[c] EXCEPT !.scan = FALSE, !.seen = version]
    <2>1. x \in Admins /\ x.kept = ctl[c].kept /\ x.aec = ctl[c].aec /\ x.seen = version
      BY <1>0, Zenon DEF Admins
    <2>2. admin(c, x)
      BY <1>4, Zenon DEF Rescan
    <2>3. ~(version < version)
      BY <1>0
    <2> HIDE DEF x
    <2> QED BY <1>0, <2>1, <2>2, <2>3, AdminNs, Zenon
  <1>5. ASSUME NEW on \in BOOLEAN, SetAec(c, on) PROVE NsInv'
    <2> DEFINE x == [ctl[c] EXCEPT !.aec = on, !.kept = FALSE]
    <2>1. x \in Admins /\ x.kept = FALSE /\ x.scan = ctl[c].scan
      BY <1>0, Zenon DEF Admins
    <2>2. admin(c, x)
      BY <1>5, Zenon DEF SetAec
    <2> HIDE DEF x
    <2> QED BY <1>0, <2>1, <2>2, AdminNs, Zenon
  <1> QED BY <1>1, <1>2, <1>3, <1>4, <1>5, Zenon

\* A namespace edit nudges every thread with a live controller.
LEMMA NsEditNs ==
  ASSUME NsInv, PoolInv', NsEdit PROVE NsInv'
  <1>1. /\ version' = version + 1
        /\ outbox' = IF pool = 0 THEN <<>> ELSE <<letter(<<pool, Admin>>, NsChanged)>>
        /\ UNCHANGED <<sc, conn, home, pools, ctl>>
    BY Zenon DEF NsEdit, control
  <1>2. version' \in Nat /\ pools' <= MaxPools /\ ctl' \in [Conns -> Admins]
    BY <1>1 DEF NsInv
  <1>3. ASSUME NEW c \in Conns, Behind(c)' PROVE Nudged(slotOf(c))'
    <2>1. conn[c] = "open" /\ sc.qid[c] = 0 /\ slotOf(c)' = slotOf(c)
      BY <1>1, <1>3, Zenon DEF Behind, slotOf, threadOf
    <2>2. pool # 0 /\ slotOf(c) = <<pool, Admin>>
      BY <2>1, OpenSlot, Zenon DEF NsInv
    <2>3. outbox' = <<letter(slotOf(c)', NsChanged)>>
      BY <1>1, <2>1, <2>2, Zenon
    <2>4. Len(outbox') = 1 /\ outbox'[1] = letter(slotOf(c)', NsChanged)
      BY <2>3, Zenon
    <2>5. 1 \in 1 .. Len(outbox')
      BY <2>4
    <2> QED BY <2>4, <2>5, Zenon DEF Nudged, letter, NsChanged
  <1>4. \A c \in Conns : /\ ctl'[c].kept => ctl'[c].aec
                         /\ conn'[c] \notin Started => ctl'[c].scan
    BY <1>1, Zenon DEF NsInv
  <1> QED BY <1>2, <1>3, <1>4, Zenon DEF NsInv

\* The nudge moves from the outbox into the mailbox.
LEMMA SendNs ==
  ASSUME NsInv, PoolInv', SendSteps PROVE NsInv'
  <1>0. /\ mail \in [Slots -> Seq(Msgs)] /\ outbox \in Seq(Letters) /\ pools <= MaxPools
        /\ PoolTypeOK
    BY Zenon DEF NsInv, PoolInv, PoolTypeOK
  <1>1. outbox # <<>> /\ UNCHANGED <<sc, conn, home, pools, thr, ctl, version>>
    BY Zenon DEF SendSteps, CtlPush, CtlRing, control, nsvars
  <1>2. Len(outbox) \in Nat \ {0} /\ Head(outbox) = outbox[1] /\ outbox[1] \in Letters
    BY <1>0, <1>1, TailFacts, Zenon
  <1>3. \A s : letter(s, NsChanged).pushed = FALSE /\ letter(s, NsChanged).to = s
               /\ letter(s, NsChanged).msg = NsChanged
    BY Zenon DEF letter
  <1>4. CASE CtlPush
    <2>1. /\ ~outbox[1].pushed /\ outbox' = [outbox EXCEPT ![1].pushed = TRUE]
          /\ mail' = [mail EXCEPT ![outbox[1].to] = Append(@, outbox[1].msg)]
      BY <1>2, <1>4, Zenon DEF CtlPush
    <2>2. Len(outbox') = Len(outbox) /\ \A i \in 2 .. Len(outbox) : outbox'[i] = outbox[i]
      BY <1>0, <1>2, <2>1
    <2>3. outbox[1].msg \in Msgs
      BY <1>2, Zenon DEF Letters
    <2>4. ASSUME NEW s \in Slots, NEW i \in 1 .. Len(mail[s]), mail[s][i] = NsChanged
          PROVE  \E j \in 1 .. Len(mail'[s]) : mail'[s][j] = NsChanged
      <3>1. CASE s = outbox[1].to
        <4>1. mail'[s] = Append(mail[s], outbox[1].msg) /\ mail[s] \in Seq(Msgs)
          BY <1>0, <2>1, <3>1, Zenon
        <4>2. i \in 1 .. Len(mail'[s]) /\ mail'[s][i] = mail[s][i]
          BY <2>3, <4>1, AppendFacts
        <4> QED BY <2>4, <4>2, Zenon
      <3>2. CASE s # outbox[1].to
        <4>1. mail'[s] = mail[s]
          BY <1>0, <2>1, <3>2, Zenon
        <4> QED BY <2>4, <4>1, Zenon
      <3> QED BY <3>1, <3>2, Zenon
    <2>5. ASSUME NEW s \in Slots, NEW i \in 1 .. Len(outbox), outbox[i] = letter(s, NsChanged)
          PROVE  Nudged(s)'
      <3>1. CASE i = 1
        <4>1. outbox[1].to = s /\ outbox[1].msg = NsChanged
          BY <1>3, <2>5, <3>1, Zenon
        <4>2. mail'[s] = Append(mail[s], NsChanged) /\ mail[s] \in Seq(Msgs)
          BY <1>0, <2>1, <4>1, Zenon
        <4>3. Len(mail[s]) \in Nat /\ Len(mail'[s]) = Len(mail[s]) + 1
              /\ mail'[s][Len(mail[s]) + 1] = NsChanged
          BY <2>3, <4>1, <4>2, AppendFacts, SMTT(20)
        <4>4. Len(mail[s]) + 1 \in 1 .. Len(mail'[s])
          BY <4>3
        <4> QED BY <4>3, <4>4, Zenon DEF Nudged, NsChanged
      <3>2. CASE i # 1
        <4>1. i \in 2 .. Len(outbox) /\ i \in 1 .. Len(outbox')
          BY <1>2, <2>2, <3>2
        <4>2. outbox'[i] = letter(s, NsChanged)
          BY <2>2, <2>5, <4>1, Zenon
        <4> QED BY <4>1, <4>2, Zenon DEF Nudged, letter, NsChanged
      <3> QED BY <3>1, <3>2, Zenon
    <2>6. \A s \in Slots : Nudged(s) => Nudged(s)'
      BY <1>1, <2>4, <2>5, Zenon DEF Nudged
    <2> QED BY <1>0, <1>1, <2>6, NsKept, StaySame, Zenon
  <1>5. CASE CtlRing
    <2>1. outbox[1].pushed /\ outbox' = Tail(outbox) /\ mail' = mail
      BY <1>2, <1>5, Zenon DEF CtlRing
    <2>2. /\ Len(outbox') = Len(outbox) - 1
          /\ \A i \in 1 .. Len(outbox) - 1 : outbox'[i] = outbox[i + 1]
      BY <1>0, <1>1, <2>1, TailFacts, Zenon
    <2>3. ASSUME NEW s \in Slots, NEW i \in 1 .. Len(outbox), outbox[i] = letter(s, NsChanged)
          PROVE  Nudged(s)'
      <3>1. i # 1
        BY <1>3, <2>1, <2>3, Zenon
      <3>2. i - 1 \in 1 .. Len(outbox) - 1 /\ i - 1 \in 1 .. Len(outbox') /\ (i - 1) + 1 = i
        BY <1>2, <2>2, <3>1
      <3>3. outbox'[i - 1] = letter(s, NsChanged)
        BY <2>2, <2>3, <3>2, Zenon
      <3> QED BY <3>2, <3>3, Zenon DEF Nudged, letter, NsChanged
    <2>4. \A s \in Slots : Nudged(s) => Nudged(s)'
      BY <1>1, <2>1, <2>3, Zenon DEF Nudged
    <2> QED BY <1>0, <1>1, <2>4, NsKept, StaySame, Zenon
  <1> QED BY <1>4, <1>5, Zenon DEF SendSteps

\* A thread that takes another message leaves the nudge in its mailbox.
LEMMA NudgeStays ==
  ASSUME PoolTypeOK, NEW s \in Slots, NEW op, Takes(s, op), op # "NsChanged", outbox' = outbox,
         \A u \in Slots : thr[u] = "dead" => thr'[u] = "dead"
  PROVE  \A u \in Slots : Nudged(u) => Nudged(u)'
  <1>1. /\ mail[s] # <<>> /\ Head(mail[s]).op = op /\ mail' = [mail EXCEPT ![s] = Tail(@)]
        /\ mail \in [Slots -> Seq(Msgs)] /\ mail[s] \in Seq(Msgs)
    BY Zenon DEF Takes, PoolTypeOK
  <1>2. /\ Len(mail[s]) \in Nat \ {0} /\ Head(mail[s]) = mail[s][1]
        /\ Len(Tail(mail[s])) = Len(mail[s]) - 1
        /\ \A i \in 1 .. Len(mail[s]) - 1 : Tail(mail[s])[i] = mail[s][i + 1]
    BY <1>1, TailFacts, Zenon
  <1>3. mail'[s] = Tail(mail[s]) /\ \A u \in Slots \ {s} : mail'[u] = mail[u]
    BY <1>1, Zenon
  <1>4. ASSUME NEW i \in 1 .. Len(mail[s]), mail[s][i] = NsChanged
        PROVE  \E j \in 1 .. Len(mail'[s]) : mail'[s][j] = NsChanged
    <2>1. i # 1
      BY <1>1, <1>2, <1>4, MsgOps, Zenon
    <2>2. i - 1 \in 1 .. Len(mail[s]) - 1 /\ (i - 1) + 1 = i
      BY <1>2, <2>1
    <2>3. mail'[s][i - 1] = NsChanged /\ i - 1 \in 1 .. Len(mail'[s])
      BY <1>2, <1>3, <1>4, <2>2, Zenon
    <2> QED BY <2>3, Zenon
  <1>5. ASSUME NEW u \in Slots, NEW i \in 1 .. Len(mail[u]), mail[u][i] = NsChanged
        PROVE  \E j \in 1 .. Len(mail'[u]) : mail'[u][j] = NsChanged
    BY <1>3, <1>4, <1>5, Zenon
  <1> QED BY <1>5, Zenon DEF Nudged

\* The tasks of a thread that ends, end.
LEMMA EndsMove ==
  ASSUME PoolInv, NEW s \in Slots, NEW how \in {"exited", "dead"}, thr[s] # "dead",
         threadEnds(s, how)
  PROVE  /\ \A c \in Conns : StageMove(c)
         /\ \A u \in Slots : thr[u] = "dead" => thr'[u] = "dead"
  <1>1. \A c \in Conns : conn'[c] = conn[c] \/ conn'[c] = "ended"
    BY Zenon DEF threadEnds
  <1>2. "ended" \in Started /\ "ended" # "open"
    BY Zenon DEF Started
  <1>3. \A c \in Conns : StageMove(c)
    BY <1>1, <1>2, Zenon DEF StageMove
  <1>4. thr' = [thr EXCEPT ![s] = how] /\ DOMAIN thr = Slots
    BY Zenon DEF threadEnds, PoolInv, PoolTypeOK
  <1> QED BY <1>3, <1>4, Zenon

\* A thread's steps other than taking a nudge lose none.
LEMMA ThreadNs ==
  ASSUME NsInv, PoolInv', NEW s \in Slots,
         ThreadArm(s) \/ ThreadWake(s) \/ TakeConn(s) \/ TakeStats(s) \/ TakeShutdown(s)
           \/ MailboxFails(s)
  PROVE  NsInv'
  <1>0. PoolInv /\ PoolTypeOK /\ DOMAIN thr = Slots /\ pools <= MaxPools
    BY Zenon DEF NsInv, PoolInv, PoolTypeOK
  <1>1. UNCHANGED <<sc, home, pools, ctl, version, outbox>>
    <2>1. CASE ThreadArm(s) \/ ThreadWake(s) \/ TakeConn(s) \/ TakeStats(s)
      BY <2>1, Zenon DEF ThreadArm, ThreadWake, TakeConn, TakeStats, control, nsvars
    <2>2. CASE TakeShutdown(s) \/ MailboxFails(s)
      BY <2>2, Zenon DEF TakeShutdown, MailboxFails, nsvars
    <2> QED BY <2>1, <2>2, Zenon
  <1>2. CASE ThreadArm(s) \/ ThreadWake(s)
    <2>1. conn' = conn /\ mail' = mail
      BY <1>2, Zenon DEF ThreadArm, ThreadWake
    <2>2. thr[s] # "dead" /\ (thr' = [thr EXCEPT ![s] = "armed"] \/ thr' = [thr EXCEPT ![s] = "poll"])
      BY <1>2, Zenon DEF ThreadArm, ThreadWake
    <2>3. \A u \in Slots : thr[u] = "dead" => thr'[u] = "dead"
      BY <1>0, <2>2, Zenon
    <2>4. \A u \in Slots : Nudged(u) => Nudged(u)'
      BY <1>1, <2>1, <2>3, Zenon DEF Nudged
    <2> QED BY <1>0, <1>1, <2>1, <2>4, NsKept, StaySame, Zenon
  <1>3. CASE TakeStats(s)
    <2>1. conn' = conn /\ thr' = thr /\ Takes(s, "Stats")
      BY <1>3, Zenon DEF TakeStats
    <2>2. \A u \in Slots : Nudged(u) => Nudged(u)'
      BY <1>0, <1>1, <2>1, NudgeStays, Zenon
    <2> QED BY <1>0, <1>1, <2>1, <2>2, NsKept, StaySame, Zenon
  <1>4. CASE TakeConn(s)
    <2>1. /\ thr' = thr /\ Takes(s, "Conn")
          /\ conn' = [conn EXCEPT ![Head(mail[s]).c] = "running"]
      BY <1>4, Zenon DEF TakeConn
    <2>2. \A u \in Slots : Nudged(u) => Nudged(u)'
      BY <1>0, <1>1, <2>1, NudgeStays, Zenon
    <2>3. /\ mail[s] \in Seq(Msgs) /\ mail[s] # <<>> /\ Head(mail[s]).op = "Conn"
      BY <1>0, <2>1, Zenon DEF Takes, PoolTypeOK
    <2>4. Head(mail[s]) = mail[s][1] /\ mail[s][1] \in Msgs /\ 1 \in 1 .. Len(mail[s])
      BY <2>3, TailFacts
    <2>5. Head(mail[s]).c \in Conns /\ conn[Head(mail[s]).c] = "sent"
      <3>1. mail[s][1].op = "Conn" /\ mail[s][1].c \in Conns
        BY <2>3, <2>4, MsgOps, Zenon
      <3>2. \A i \in 1 .. Len(mail[s]) : mail[s][i].op = "Conn" => conn[mail[s][i].c] = "sent"
        BY <1>0, Zenon DEF PoolInv, SentOnce
      <3> QED BY <2>4, <3>1, <3>2, Zenon
    <2>6. conn[Head(mail[s]).c] \notin Started
      BY <2>5, Zenon DEF Started
    <2>7. \A d \in Conns : StageMove(d)
      <3>1. PICK x : x = "running"
        BY Zenon
      <3>2. x # "open" /\ conn' = [conn EXCEPT ![Head(mail[s]).c] = x]
        BY <2>1, <3>1, Zenon
      <3> QED BY <1>0, <2>5, <2>6, <3>2, OneMove, Zenon
    <2> QED BY <1>0, <1>1, <2>2, <2>7, NsKept, Zenon
  <1>5. CASE TakeShutdown(s)
    <2>1. Takes(s, "Shutdown") /\ threadEnds(s, "exited") /\ thr[s] # "dead"
      BY <1>5, Zenon DEF TakeShutdown, Takes
    <2>2. /\ \A c \in Conns : StageMove(c)
          /\ \A u \in Slots : thr[u] = "dead" => thr'[u] = "dead"
      BY <1>0, <2>1, EndsMove, Zenon
    <2>3. \A u \in Slots : Nudged(u) => Nudged(u)'
      BY <1>0, <1>1, <2>1, <2>2, NudgeStays, Zenon
    <2> QED BY <1>0, <1>1, <2>2, <2>3, NsKept, Zenon
  <1>6. CASE MailboxFails(s)
    <2>1. mail' = mail /\ threadEnds(s, "dead") /\ thr[s] # "dead"
      BY <1>6, Zenon DEF MailboxFails
    <2>2. /\ \A c \in Conns : StageMove(c)
          /\ \A u \in Slots : thr[u] = "dead" => thr'[u] = "dead"
      BY <1>0, <2>1, EndsMove, Zenon
    <2>3. \A u \in Slots : Nudged(u) => Nudged(u)'
      BY <1>1, <2>1, <2>2, Zenon DEF Nudged
    <2> QED BY <1>0, <1>1, <2>2, <2>3, NsKept, Zenon
  <1> QED BY <1>2, <1>3, <1>4, <1>5, <1>6, Zenon

\* Firing the notice leaves an enabled controller with a scan to do.
LEMMA FireFacts ==
  ASSUME NEW x \in Admins
  PROVE  /\ fire(x) \in Admins /\ fire(x).kept = x.kept /\ fire(x).aec = x.aec
         /\ fire(x).scan = x.scan /\ (x.aec => WillScan(fire(x)))
  BY Zenon DEF fire, Admins, WillScan

\* A nudge that is taken fires the notice of every controller on the thread.
LEMMA TakeNsChangedNs ==
  ASSUME NsInv, PoolInv', NEW s \in Slots, TakeNsChanged(s)
  PROVE  NsInv'
  <1> DEFINE Fired(c) == sc.qid[c] = 0 /\ Alive(c) /\ home[c] = s[1]
  <1>1. /\ ctl' = [c \in Conns |-> IF Fired(c) THEN fire(ctl[c]) ELSE ctl[c]]
        /\ Takes(s, "NsChanged")
        /\ UNCHANGED <<sc, conn, home, pools, thr, outbox, version>>
    BY Zenon DEF TakeNsChanged, control
  <1>2. /\ PoolInv /\ pools <= MaxPools /\ version \in Nat /\ ctl \in [Conns -> Admins]
        /\ mail \in [Slots -> Seq(Msgs)]
    BY Zenon DEF NsInv, PoolInv, PoolTypeOK
  <1>3. \A c \in Conns : /\ Fired(c) => ctl'[c] = fire(ctl[c])
                         /\ ~Fired(c) => ctl'[c] = ctl[c]
                         /\ ctl[c] \in Admins
    BY <1>1, <1>2, Zenon
  <1>4. \A c \in Conns : ctl'[c] \in Admins /\ ctl'[c].kept = ctl[c].kept
                         /\ ctl'[c].aec = ctl[c].aec /\ ctl'[c].scan = ctl[c].scan
    BY <1>3, FireFacts, Zenon
  <1>5. ctl' \in [Conns -> Admins]
    BY <1>1, <1>4, Zenon
  <1>6. \A c \in Conns : /\ ctl'[c].kept => ctl'[c].aec
                         /\ conn'[c] \notin Started => ctl'[c].scan
    BY <1>1, <1>4, Zenon DEF NsInv
  <1>7. ASSUME NEW c \in Conns, Behind(c)'
        PROVE  WillScan(ctl[c])' \/ Nudged(slotOf(c))'
    <2>1. conn[c] = "open" /\ sc.qid[c] = 0 /\ ctl'[c].kept /\ ctl'[c].seen < version
      BY <1>1, <1>7, Zenon DEF Behind
    <2>2. CASE Fired(c)
      <3>1. ctl[c].aec
        BY <1>4, <2>1, Zenon DEF NsInv
      <3>2. WillScan(ctl'[c])
        BY <1>3, <2>2, <3>1, FireFacts, Zenon
      <3> QED BY <3>2, Zenon DEF WillScan
    <2>3. CASE ~Fired(c)
      <3>1. ctl'[c] = ctl[c] /\ home[c] # s[1]
        BY <1>3, <2>1, <2>3, Zenon DEF Alive
      <3>2. Behind(c) /\ (WillScan(ctl[c]) => WillScan(ctl[c])')
        BY <1>4, <2>1, <3>1, Zenon DEF Behind, WillScan
      <3>3. slotOf(c) \in Slots /\ slotOf(c) = <<home[c], Admin>>
        BY <1>2, <2>1, OpenSlot, Zenon
      <3>4. slotOf(c) # s
        BY <3>1, <3>3
      <3>5. mail'[slotOf(c)] = mail[slotOf(c)] /\ slotOf(c)' = slotOf(c)
        BY <1>1, <1>2, <3>3, <3>4, Zenon DEF Takes, slotOf, threadOf
      <3>6. Nudged(slotOf(c)) => Nudged(slotOf(c))'
        BY <1>1, <3>5, Zenon DEF Nudged
      <3> QED BY <3>2, <3>6, Zenon DEF NsInv
    <2> QED BY <2>2, <2>3, Zenon
  <1> QED BY <1>1, <1>2, <1>5, <1>6, <1>7, Zenon DEF NsInv

\* Every step keeps each unseen change known to the controller or on its way.
LEMMA NsStep ==
  ASSUME NsInv, [Next]_vars, PoolInv' PROVE NsInv'
  <1>0. PoolInv /\ pools <= MaxPools
    BY Zenon DEF NsInv
  <1>1. ASSUME /\ \A d \in Conns : StageMove(d)
               /\ UNCHANGED <<sc, ctl, version, pools, home, mail, thr>>
               /\ outbox' = outbox \/ outbox = <<>>
        PROVE  NsInv'
    BY <1>0, <1>1, NudgeKept, NsKept, Zenon
  <1>2. CASE UNCHANGED vars
    <2>1. UNCHANGED <<sc, conn, ctl, version, pools, home, mail, thr, outbox>>
      BY <1>2, Zenon DEF vars, boxes, nsvars, control
    <2> QED BY <1>1, <2>1, StaySame, Zenon
  <1>3. ASSUME NEW c \in Conns,
               \/ TcpArrives(c) \/ CmConnectRequest(c) \/ CmRejects(c) \/ CmDisconnected(c)
               \/ IcExchange(c) \/ HandshakeDone(c) \/ HandshakeFails(c)
               \/ OpenCtx(c) \/ CountCommand(c)
               \/ \E how \in {"ended", "leaked"} : EndQueue(c, how)
        PROVE  NsInv'
    BY <1>0, <1>1, <1>3, ConnSteps, Zenon
  <1>4. ASSUME \/ CmForwards \/ CmThreadEnds \/ IdleTick \/ AskThread \/ StatsTimeout
               \/ \E clear \in BOOLEAN : GetStats(clear)
        PROVE  NsInv'
    BY <1>1, <1>4, ControlSteps, Zenon
  <1>5. ASSUME NEW s \in Slots, ThreadSteps(s) \/ MailboxFails(s) PROVE NsInv'
    BY <1>5, ThreadNs, TakeNsChangedNs, Zenon DEF ThreadSteps
  <1> QED BY <1>2, <1>3, <1>4, <1>5, AdminSteps, AcceptNs, NsEditNs, SendNs, Zenon DEF Next

\* No namespace change is lost: an admin queue whose host kept the notice
\* enabled has a scan to do, a notice queued or delivered with the Changed-NS
\* mark set, or the nudge still on its way (notify_ns_changed, fire_ns_changed,
\* the AER path and Get Log Page), whatever is torn down and rebuilt meanwhile.
THEOREM NsChangesArrive == Spec => []NoLostNsChange
  <1>1. Init => NsInv
    <2> SUFFICES ASSUME Init PROVE NsInv
      BY Zenon
    <2>1. PoolInv
      BY PoolInitInv, Zenon
    <2>2. /\ newAdmin \in Admins /\ newAdmin.kept /\ newAdmin.aec /\ newAdmin.scan
      BY Zenon DEF newAdmin, Admins
    <2>3. ctl = [c \in Conns |-> newAdmin] /\ version = 0 /\ pools = 0
      BY Zenon DEF Init
    <2>4. \A c \in Conns : ctl[c] = newAdmin
      BY <2>3, Zenon
    <2>5. ctl \in [Conns -> Admins] /\ version \in Nat /\ pools <= MaxPools
      BY <2>2, <2>3, HarnessAssumption, SMTT(20)
    <2> QED BY <2>1, <2>2, <2>4, <2>5, Zenon DEF NsInv, WillScan
  <1>2. NsInv /\ [Next]_vars => NsInv'
    BY NsStep, PoolStep, Zenon DEF NsInv
  <1>3. NsInv => NoLostNsChange
    <2> SUFFICES ASSUME NsInv, NEW c \in Conns, Behind(c), ~WillScan(ctl[c])
                 PROVE  \/ NsChanged \in Range(mail[slotOf(c)])
                        \/ \E i \in DOMAIN outbox : outbox[i] = letter(slotOf(c), NsChanged)
                        \/ thr[slotOf(c)] = "dead"
      BY Zenon DEF NoLostNsChange, Behind, WillScan
    <2>1. slotOf(c) \in Slots
      BY OpenSlot, Zenon DEF NsInv, Behind
    <2>2. mail[slotOf(c)] \in Seq(Msgs) /\ outbox \in Seq(Letters)
      BY <2>1, Zenon DEF NsInv, PoolInv, PoolTypeOK
    <2>3. DOMAIN mail[slotOf(c)] = 1 .. Len(mail[slotOf(c)]) /\ DOMAIN outbox = 1 .. Len(outbox)
      BY <2>2
    <2>4. Nudged(slotOf(c))
      BY Zenon DEF NsInv
    <2> QED BY <2>3, <2>4, Zenon DEF Nudged, Range
  <1> QED BY <1>1, <1>2, <1>3, PTL DEF Spec
=============================================================================
