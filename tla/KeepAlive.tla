----------------------------- MODULE KeepAlive -----------------------------
(***************************************************************************)
(* Traffic-based keep-alive of one controller: the watchdog of the admin   *)
(* queue, the traffic beacons of its IO queues and the flag they share     *)
(* (nvme-tcp/src/connection.rs, nvme/src/dispatch.rs, core/src/registry.rs *)
(* ).  Every queue is on a thread of its own.  Time passes in unit steps;  *)
(* a sleep ends at its deadline or up to MaxLag later.                     *)
(***************************************************************************)
EXTENDS Integers

CONSTANTS
  IoQueues,   \* the IO queues of the controller
  TickMin,    \* KEEPALIVE_TICK_MIN
  TickMax,    \* KEEPALIVE_TICK_MAX
  Katos,      \* keep-alive timeouts a host asks for at Connect
  NewKatos,   \* timeouts it may set later with Set Features
  MaxLag,     \* bound: how late a sleep ends
  AgeCap      \* bound: beyond this age nothing is compared any more

\* A sleep is never late by more than a timeout.
ASSUME KeepAliveAssumption ==
  /\ TickMin \in Nat \ {0} /\ TickMax \in Nat /\ TickMin <= TickMax
  /\ Katos \subseteq Nat /\ NewKatos \subseteq Nat
  /\ MaxLag \in Nat /\ AgeCap \in Nat
  /\ \A k \in Katos \cup NewKatos : /\ k = 0 \/ MaxLag <= k
                                   /\ 2 * k + 5 * (TickMax + MaxLag) < AgeCap

VARIABLES
  kato,       \* AdminState.kato_ms
  entryKato,  \* ControllerEntry.kato_ms, -1 before the admin Connect
  silent,     \* time since AdminState.last_heard
  flag,       \* the controller's TrafficFlag
  watchdog,   \* time to the end of the watchdog's sleep
  expired,    \* the watchdog has shut the connection down
  queue,      \* IO queue: "none", "setup" (no Connect yet), "live", "gone"
  ioKato,     \* IoState.kato_ms
  publishes,  \* IoState.traffic is set
  mark,       \* NvmeTcpQueue.traffic: commands since the last beacon
  beacon,     \* time to the end of the beacon's sleep; Off when it ended
  gap,        \* time since the host last showed itself on any queue
  kept        \* the host has shown itself within every timeout

kaVars == <<kato, entryKato, silent, flag, watchdog, expired, queue, ioKato,
            publishes, mark, beacon, gap, kept>>

ioVars == <<queue, ioKato, publishes, mark, beacon>>

Off == 0 - MaxLag - 1

Least(a, b) == IF a <= b THEN a ELSE b

Clamp(n, lo, hi) == IF n < lo THEN lo ELSE Least(n, hi)

keepalive_tick(k) == IF k = 0 THEN TickMax ELSE Clamp(k \div 2, TickMin, TickMax)

Older(n) == Least(n + 1, AgeCap)

KaInit ==
  /\ kato = 0 /\ entryKato = 0 - 1 /\ silent = 0 /\ flag = FALSE
  /\ watchdog = keepalive_tick(0) /\ expired = FALSE
  /\ queue = [q \in IoQueues |-> "none"] /\ ioKato = [q \in IoQueues |-> 0]
  /\ publishes = [q \in IoQueues |-> FALSE] /\ mark = [q \in IoQueues |-> FALSE]
  /\ beacon = [q \in IoQueues |-> Off] /\ gap = 0 /\ kept = TRUE

---------------------------------------------------------------------------
(* The host's commands.                                                    *)

\* dispatch::execute on the admin queue, whatever the command.
Heard == ~expired /\ silent' = 0 /\ gap' = 0

\* Admin Connect: the timeout goes to the controller and to its registry entry.
AdminConnects ==
  /\ entryKato < 0 /\ Heard
  /\ \E k \in Katos : kato' = k /\ entryKato' = k
  /\ UNCHANGED <<flag, watchdog, expired, ioVars, kept>>

AdminCommand ==
  /\ entryKato >= 0 /\ Heard
  /\ UNCHANGED <<kato, entryKato, flag, watchdog, expired, ioVars, kept>>

\* Set Features KATO: the controller's own timeout, and nothing else.
SetKato ==
  /\ entryKato >= 0 /\ Heard
  /\ \E k \in NewKatos \ {kato} : kato' = k
  /\ UNCHANGED <<entryKato, flag, watchdog, expired, ioVars, kept>>

\* A new IO queue: its Connect is submitted and its beacon task started.
OpenQueue(q) ==
  /\ ~expired /\ entryKato >= 0 /\ queue[q] = "none"
  /\ queue' = [queue EXCEPT ![q] = "setup"]
  /\ mark' = [mark EXCEPT ![q] = TRUE]
  /\ beacon' = [beacon EXCEPT ![q] = TickMin]
  /\ UNCHANGED <<kato, entryKato, silent, flag, watchdog, expired, ioKato,
                 publishes, gap, kept>>

\* The IO queue's Connect executes, and only now is the queue one of the
\* controller's: it takes its timeout from the registry entry, and the flag
\* if there is a timeout.
ConnectQueue(q) ==
  /\ ~expired /\ queue[q] = "setup"
  /\ queue' = [queue EXCEPT ![q] = "live"]
  /\ ioKato' = [ioKato EXCEPT ![q] = entryKato]
  /\ publishes' = [publishes EXCEPT ![q] = entryKato # 0]
  /\ gap' = 0
  /\ UNCHANGED <<kato, entryKato, silent, flag, watchdog, expired, mark, beacon, kept>>

\* NvmeTcpQueue::submit.
IoCommand(q) ==
  /\ ~expired /\ queue[q] = "live"
  /\ mark' = [mark EXCEPT ![q] = TRUE]
  /\ gap' = 0
  /\ UNCHANGED <<kato, entryKato, silent, flag, watchdog, expired, queue, ioKato,
                 publishes, beacon, kept>>

\* ConnCtx::close on an IO queue: "itself a sign of life".  Faulty variant:
\* without the last tick.
CloseQueueSilently(q) ==
  /\ ~expired /\ queue[q] = "live"
  /\ queue' = [queue EXCEPT ![q] = "gone"]
  /\ beacon' = [beacon EXCEPT ![q] = Off] /\ mark' = [mark EXCEPT ![q] = FALSE]
  /\ gap' = 0
  /\ UNCHANGED <<kato, entryKato, silent, flag, watchdog, expired, ioKato, publishes, kept>>

CloseQueue(q) ==
  /\ ~expired /\ queue[q] = "live"
  /\ queue' = [queue EXCEPT ![q] = "gone"]
  /\ flag' = (flag \/ publishes[q])
  /\ beacon' = [beacon EXCEPT ![q] = Off] /\ mark' = [mark EXCEPT ![q] = FALSE]
  /\ gap' = 0
  /\ UNCHANGED <<kato, entryKato, silent, watchdog, expired, ioKato, publishes, kept>>

---------------------------------------------------------------------------
(* The timers.                                                             *)

\* One round of the traffic beacon: nothing to do yet, nothing ever, or
\* forward the mark; then sleep again, at the floor before Connect.
Beacon(q) ==
  /\ ~expired /\ beacon[q] \in (0 - MaxLag) .. 0
  /\ LET sleep == IF queue[q] = "setup" THEN TickMin ELSE keepalive_tick(ioKato[q])
     IN  \/ /\ ~publishes[q] /\ queue[q] = "setup"
            /\ beacon' = [beacon EXCEPT ![q] = sleep]
            /\ UNCHANGED <<flag, mark>>
         \/ /\ ~publishes[q] /\ queue[q] = "live"
            /\ beacon' = [beacon EXCEPT ![q] = Off]
            /\ UNCHANGED <<flag, mark>>
         \/ /\ publishes[q]
            /\ flag' = (flag \/ mark[q])
            /\ mark' = [mark EXCEPT ![q] = FALSE]
            /\ beacon' = [beacon EXCEPT ![q] = sleep]
  /\ UNCHANGED <<kato, entryKato, silent, watchdog, expired, queue, ioKato,
                 publishes, gap, kept>>

\* keepalive_expired with a patience of n: consume the flag, or judge the
\* silence; then the watchdog sleeps again or ends.
Judge(n) ==
  /\ ~expired /\ watchdog \in (0 - MaxLag) .. 0
  /\ watchdog' = keepalive_tick(kato)
  /\ \/ kato = 0 /\ UNCHANGED <<flag, silent, expired>>
     \/ kato # 0 /\ flag /\ flag' = FALSE /\ silent' = 0 /\ UNCHANGED expired
     \/ kato # 0 /\ ~flag /\ expired' = (silent > n) /\ UNCHANGED <<flag, silent>>
  /\ UNCHANGED <<kato, entryKato, ioVars, gap, kept>>

\* Faulty variant: ten timeouts of patience.
WatchdogWakesLax == Judge(10 * kato + keepalive_tick(kato))

WatchdogWakes == Judge(kato * 2 + keepalive_tick(kato))

\* A sleep that is due ends within MaxLag.  The host breaks its side when it
\* lets more than a timeout pass in silence.
Passes ==
  /\ ~expired /\ watchdog > 0 - MaxLag
  /\ \A q \in IoQueues : beacon[q] # Off => beacon[q] > 0 - MaxLag
  /\ kept' = (kept /\ (kato = 0 \/ gap < kato))
  /\ silent' = Older(silent) /\ gap' = Older(gap)
  /\ watchdog' = watchdog - 1
  /\ beacon' = [q \in IoQueues |-> IF beacon[q] = Off THEN Off ELSE beacon[q] - 1]
  /\ UNCHANGED <<kato, entryKato, flag, expired, queue, ioKato, publishes, mark>>

KaNext ==
  \/ AdminConnects \/ AdminCommand \/ SetKato \/ WatchdogWakes \/ Passes
  \/ \E q \in IoQueues : \/ OpenQueue(q) \/ ConnectQueue(q) \/ IoCommand(q)
                         \/ CloseQueue(q) \/ Beacon(q)

KaSpec == KaInit /\ [][KaNext]_kaVars

---------------------------------------------------------------------------
(* Properties.                                                             *)

\* A host heard from within every timeout, on whichever queue, is never taken
\* for dead: "a busy Linux host stops sending Keep Alives" and must survive.
\* Without the exceptions of SteadyHostLives this does not hold.
ActiveHostLives == expired => ~kept

\* It does hold for every host that connects with a timeout and does not later set
\* one with a shorter tick than its IO queues publish at.
SteadyHostLives ==
  expired /\ kept =>
    entryKato = 0 \/ keepalive_tick(kato) < keepalive_tick(entryKato)

\* A host that went silent is noticed in bounded time, whatever timeout it set
\* last: the mark of its last command holds the verdict back by at most one
\* round of a beacon and one of the watchdog, both perhaps still asleep for an
\* older timeout; then come the watchdog's patience and its next round.
DeadHostNoticed ==
  kato # 0 /\ ~expired =>
    gap <= 2 * (TickMax + MaxLag) + 2 * kato + 2 * keepalive_tick(kato) + MaxLag
=============================================================================
