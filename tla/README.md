# ioutgt in TLA+

ioutgt is a userspace NVMe over Fabrics target (NVMe/TCP and NVMe/RDMA) on
io_uring.  This directory models its concurrent core in TLA+, checks the model
with TLC on small instances and proves the main invariants with TLAPS for
instances of any size.  Source paths below are relative to `src/crates/`.

## The system

A **control thread** accepts connections, runs the handshake and serves the
control socket.  One **admin queue thread** and N **IO queue threads** each run a
single-threaded executor over an io_uring reactor; a mailbox is the only way in
from another thread.  An NVMe queue lives on one thread for its whole life.

| Part | Source | State | Operations | Hard behaviour |
|---|---|---|---|---|
| Slot engine | `ioutgt-core/src/slotq.rs` | slots, free list, executing count, send list, wakers | claim, submit, await, complete, release, push, next | lost wakeups, tag reuse, one response per tag |
| TCP receive | `ioutgt-nvme-tcp/src/recv.rs` | phase, payload in progress, tag in hand | one step per PDU | waiting for a tag while holding the socket; digest failures |
| TCP send | `ioutgt-stream/src/lib.rs`, `ioutgt-nvme-tcp/src/send.rs` | two batches, in-flight list, notifications | stage, ship, retire, reap, recycle, drain | pages pinned after completion; short, refused, failing sends |
| Connection | `ioutgt-nvme-tcp/src/connection.rs` | tasks, descriptor | run, quiesce, teardown, watchdog, beacon | free or leak while operations are in flight |
| Namespaces | `ioutgt-core/src/subsystem.rs` | table, generation, per-queue caches | add, remove, get | stale cache, torn read |
| Keep-alive | `ioutgt-nvme/src/dispatch.rs`, connection | deadline, traffic flag, marks | command, beacon, verdict, close | verdict racing traffic of other threads |
| Registry, fabrics | `ioutgt-core/src/registry.rs`, `ioutgt-nvme/src/fabrics_exec.rs`, `controller.rs` | controllers, queue ids, CC/CSTS | Connect, Property, install, remove | controller id reuse, late IO Connect |
| Async events | `ioutgt-nvme/src/admin.rs`, `dispatch.rs` | event queue, parked AERs, changed flag | AER, log page, nudge | change during registration or reading |
| Payload pool | `ioutgt-core/src/pool.rs` | free runs, leases, waiters | alloc, free, reserve | fragmentation, waiters starved |
| Buffer ring | `ioutgt-uring/src/bufring.rs`, `ioutgt-stream/src/reader.rs` | borrow counts, offsets, ring | provide, borrow, release, advance | buffer given back while borrowed |
| Reactor | `ioutgt-uring/src/reactor.rs`, `op.rs` | op slab, parked wakers | submit, reap, orphan, drain | drop before completion |
| Thread pool | `ioutgt-harness/src/lib.rs` | senders, idle timer, live connections | spawn, accept, tear down | accept racing an idle teardown |
| RDMA queue | `ioutgt-nvme-rdma/src/target.rs` | receive credits, deferred commands, work requests | bootstrap, completions, respond, teardown | completions in any order, credits |

`PROJECT.json` lists every part, with what is not modelled and why.

A thread switches tasks only at an `await`.  The interleavings that matter
inside one queue are therefore those of task runs with one another and with
kernel completions, host PDUs and timers; between threads they are those of the
mailbox, the registry lock, the namespace lock and generation, and the flag.

## Modules

| Module | Models |
|---|---|
| `SlotQueue` | the slot engine: states, free list, wakers of slot tasks and of `await_tag`, send list |
| `TcpConnection` | EXTENDS `SlotQueue`: receive loop, slot tasks, double-buffered send task, teardown; kernel and host external |
| `RecvRing` | the provided-buffer ring and the reader over it |
| `BufPool` | the page arena slots lease payload buffers from |
| `RecvPath` | composes `RecvRing` and `BufPool` with the PDU phase machine, slot tasks and the file backend's transfer loop |
| `Reactor` | the op slab, the futures that own entries, both rings, parking, the drop-time drain |
| `RdmaQueue` | one RDMA queue: bootstrap, reap loop, park probe, backstop, teardown |
| `Harness` | control thread, mailboxes, queue threads, permits, idle teardown, namespace nudges, GET_STATS |
| `NsTable`, `NsRegister` | the namespace table with its generation-validated caches, and the atomic register they promise to be |
| `FileStore` | EXTENDS `NsTable`: file descriptors and the fixed-file table of each reactor |
| `KeepAlive` | watchdog, beacons and the shared flag, in discrete time |
| `Registry` | controller ids, Connect on admin and IO queues, CC/CSTS, admin teardown, the IO watchdog |
| `TcpConnectionProofs` | theorems of the slot engine and of the connection over it |
| `RdmaQueueInvariant`, `RdmaQueueCompletions`, `RdmaQueueProofs` | the invariant of an RDMA queue, with the steps of slot tasks, adapter, host and `process_responses`; the bootstrap and `process_cqes`; the host's depth and the theorems |
| `ReactorProofs` | theorems of `Reactor` |
| `HarnessInvariant`, `HarnessProofs` | the pool's invariant, and the theorems of `Harness` |
| `ControlPlaneProofs` | theorems of `NsTable`, `Registry` and `KeepAlive` |
| `MC*` | instances for TLC |

**Conventions.**  A lower-case operator is the bare effect of a method of the
same name.  A capitalised action adds, as its guard, the state the code asserts
or waits for.  An operator commented "Faulty variant" is a plausible bug placed
before the operator it would replace; no specification uses it.

**`SlotQueue`.**  `state` is `Slot.state`, `freeTags` the LIFO free list,
`executing` the counter teardown trusts, `task[t]` whether the slot task is
parked, woken or inside `dispatch::execute`, `claimer` whether the receive path
sleeps in `await_tag`, `work` the `SendList`, `taken` the tags whose response
left the list.

**`TcpConnection`.**  `cpu` is the executor: while a task is in the middle of a
run nothing else moves.  `sendPc` names the phases of `StreamSender`
(`next_work_reaping`, `acquire`, `stage_batch`, `ship_batch`, `drain`), `batch`
the two `GatherSendBatch`es, `undel` and `pins` what the kernel still owes and
reads.  `recvPc` names the receive loop's awaits and the stages of `teardown`.
A payload is reduced to its kind: none or intact in the capsule, failing its
digest, or to be solicited.

**`RecvPath`.**  Here the payload is kept: the stream is 1, 2, 3, ... and a byte
is its position, so that a byte stored twice, skipped or overwritten shows.  The
host follows a script of PDUs, cut by the kernel in every way.  The reader runs
over the provided-buffer ring or, in classic mode, over a buffer of its own.

**`Reactor`.**  `pc` is where the thread is.  The ring has DEFER_TASKRUN, so the
kernel moves only while the thread is inside a system call.  `slab` maps a key to
its entry, `fut` and `mem` say who holds the future and the buffer of an
operation, `posted` and `delivered` count its completions.

**`RdmaQueue`.**  `pc` keeps the other tasks out while a handler walks a list,
one action per element.  A work request is on one line after another: `chain`
(constructed on the send guard, not posted), `sq`, `unacked` (executed), `cq`,
`staged` (drained by the park probe), `comps` (in `process_cqes`' hands).  The
adapter, external, completes work requests in any order allowed by the queue
pair.  Responses go the same way in three steps: collected after the yield, built
one by one, posted together or not at all.

**`Harness`.**  `conn[c]` is how far a connection has come, `home[c]` the pool
incarnation it was accepted for, `pool` the one that is up (0: none).  `mail` and
`bell` are the mailboxes and eventfds; a send is two steps, the push and the
ring, and `outbox` is what the control thread has still to send.  `ctl[c]` is the
notice state of an admin queue.  `listed`, `retired` and `done` are the command
counts a thread reports.

**`NsTable`.**  A change is three steps, all in the write lock: the new table,
the generation, the unlock.  A lookup is two: the generation load, and the
snapshot if the cache is stale.

**`FileStore`.**  A file's descriptor is closed when the last table map holding
its namespace goes; the kernel may give its number to the next file opened.

**`KeepAlive`.**  `silent` is the age of `last_heard`, `gap` the time since the
host last showed itself; `kept` says that it has done so within every timeout.
An IO queue belongs to the controller from the execution of its Connect.  The
close of an IO queue counts as a sign of life, as the code says.  A sleep ends at
its deadline or up to `MaxLag` later.

**`Registry`.**  `entry` is the map of controllers; the ghost `owner` tells two
controllers apart that had the same id.  An IO connection carries the id it read
from a live controller; its Connect may run after that controller has gone.  A
host's choice of queue id covers 0 and one past the maximum.

## Runs

| Run | Instance | Shows |
|---|---|---|
| `slot_engine` | 3 tags | free list exact, executing counted, no lost doorbell or tag wakeup, one response per tag, R2T before response; submitted commands finish and a parked receive path is woken |
| `tcp_send` | 3 tags, zero-copy, batches of 2, 4 commands, one retry, send errors | nothing is reused while the kernel may read it; the send task is never stranded; the connection implements the slot protocol (`SlotSpec`) |
| `tcp_teardown` | admin queue, 2 tags, every fault | teardown ends, and frees only what nothing references; a descriptor number is used after its end only by what was leaked; responding tags come back |
| `recv_path` | 2 tags, two 3-byte ring buffers, 5 pages of which 1 is reserved, 6 scripts, both reader modes | the window is the stream, the store holds what was sent, the pool loses and doubles no page, every command is served |
| `reactor` | 2 keys, 3 operations (owned receive, multishot poll, zero-copy send), 2 submission entries | memory stays with the kernel, cancels hit orphans only, results arrive once and in order, no wakeup lost, orphans reclaimed |
| `rdma_queue` | 2 slots, 3 pages, one lost event, one fault, 12 host scripts | commands run with their own data, work requests keep their tag, rings and parking lot are deep enough, the thread sleeps with a wake source, the arena is freed quiet, commands are answered, a disconnect ends the queue |
| `harness` | 3 connections, 2 permits, at most 1 IO thread, 2 pool incarnations, 2 edits, 8 scenarios | no connection meets a pool going down, no mail, namespace change or count is lost, the grace period is kept, an idle pool goes down |
| `ns_table` | 2 queues, 2 namespaces, 2 additions | caches coherent, lookups atomic (`NsRegister`), every lookup ends |
| `keepalive` | 2 IO queues, timeouts below, inside and above the tick's range, Set Features | a host heard within every timeout is not expired, unless it connected without one or later set one with a shorter tick; a silent host is expired within a stated bound |
| `registry` | 3 admin connections over 2 ids, 2 IO connections, 2 hosts | ids exclusive, entries reaped, IO queues distinct, "busy" only when full, and the IO watchdog spares the queues of live controllers |

The runs expected to be violated show where the source's own words and its code
part:

| Run | Claim in the source | What happens |
|---|---|---|
| `tcp_send_error_wedge` | `connection.rs:291`: after a send failure the receive loop sees EOF and teardown runs now | the failed batch's tags are never released; a receive loop parked in `await_tag` never looks at the socket |
| `stale_fixed_file` | `reactor.rs:687`: no unregister is needed, backend descriptors outlive every reactor | REMOVE_NAMESPACE closes a descriptor while the thread lives; the number is reused and the memoised index still names the old file |

Other places where a statement in the source is stronger than the code, met while
modelling.  No run keeps them:

- `recv.rs:651` says `await_tag` cannot deadlock even with an over-submitting
  host.  With every tag waiting for H2CData, the parked loop is the one that
  would read that data.
- `connection.rs:315` says the queue is leaked on timeout.  A slot submitted and
  not yet polled is not counted by `quiesce`, and the queue is leaked without
  one (`LeakOnlyOnTimeout` of `TcpConnection`).
- `dispatch.rs:337` says everything but Connect and Property needs an enabled
  controller.  A CC write with EN clear and a shutdown notification
  (`controller.rs:61`) leaves CSTS.RDY set (`ReadyIsEnabled` of `Registry`).
- `connection.rs:262` says that with a timeout of 0 at Connect there is no
  watchdog to feed.  Set Features arms it later and the IO queues do not feed it
  (`ActiveHostLives` of `KeepAlive`; `SteadyHostLives` excepts it).
- RDMA `target.rs:664`: the bootstrap waits for completions alone, so a host that
  disconnects before its Connect capsule leaves the queue waiting.
  `DisconnectEndsSteadyQueue` is about the queue past its bootstrap.

### Bounds

Three tags are the fewest with one tag in each of the receive, execute and
respond stages.  Two batches are the code's own number; a batch of two holds a
data response with its release deferred to the notification and another
released at completion; four commands fill, recycle and refill both.  In the
teardown run one outstanding command of each kind, over an AER, meets every
fault in every stage.

Ring buffers of three bytes with headers and digests of one are cut inside and
between headers, payloads and digests; two of them run out while one is
borrowed.  Five pages make a read and a write compete and fragment.  Three
operations over two keys reuse a key while the cancel for its last owner is
queued, and two submission entries make a push meet a full ring.  Two RDMA slots
with the slack at zero make the ring and the parking lot exactly as deep as the
host's depth.  Three connections over two permits make an accept wait; two pool
incarnations let a teardown race the next accept; each scenario enables some of
the optional events so that what they interact with is explored in full.

Three admin connections over two ids refuse, wrap and reuse.  Two readers show
that one cache's refresh does not help the other, and two additions with any
removals give a table that changes during a lookup, and changes back.
Keep-alive uses a floor of 2, a ceiling of 3 and timeouts on both sides of each;
ages stop growing at `AgeCap`, above every value they are compared with.

### Fairness

The executor polls every woken task and the reactor delivers every completion:
weak fairness on tasks and kernel steps.  A send is only certain to complete once
the socket is shut down or the peer is gone.  In `Reactor` the kernel takes what a
blocked thread submitted and ends what was cancelled (strong fairness, since it
moves only during a system call).  In `RdmaQueue` the adapter executes what is
posted and timers expire.  In `Harness` the accept loop, the idle tick, pending
sends and the threads' mailbox loops go on.  In `NsTable` a reader that waits for
the lock gets it if it is free again and again (strong fairness): the one writer
is the control thread, which holds it for a few instructions per control request.
Nothing is assumed of hosts.  Deadlock checking is off where the host may simply
stop sending, or the connection has ended or expired.

## Proofs

Every theorem holds for all values of the constants allowed by the named
assumption of its module.

**`TcpConnectionProofs`, the slot engine**, for any `NSlots >= 1`: `SlotQueueCorrect` is
`SlotSpec => []SlotInv`, and one theorem per invariant follows, with
`SlotEngineSafe` for all of them.  The invariants need each other: a claimed tag
is Free because the free list is exact; the list stays exact because a released
tag is Responding; that comes from one response per tag.  Their conjunction
`SlotInv`, with the type invariant, is inductive as it stands.  The counting of
Executing slots rests on finite-set cardinality, the free list and the send list
on lemmas about removing one element.

**`TcpConnectionProofs`, the connection**, for any queue depth, batch size, script
of commands and choice of faults.  The slot engine stays consistent because a
batch releases only what it was handed, and a batch may release because the
engine handed each response out once; so the two are proved together.  `ConnInv`
(`ConnectionInvariant`) is `SlotInv` with

- where responses are (`TagsHeld`): every tag a batch will release was taken off
  the send list and is in one place of one batch, or in hand;
- where batches are (`BatchesPlaced`, `PendingPlaced`): in flight once, and not
  while the send task works on it; one with notifications to await is in flight,
  worked on or left to the drain;
- what the kernel holds (`NotifsStashed`, `PinsHeld`): a notification still out is
  counted by its batch, or the operation that announces it has not been looked
  at; a pinned buffer belongs to a tag that waits for that notification;
- `SenderAwake`, which is `SenderNotStranded` in the middle of runs too;
- where the receive path may hold a slot, and what teardown's verdict rests on.

From it come `SendMemoryAlwaysHeld`, `SenderNeverStranded`, `FreedMemoryQuiet`,
`StaleShutdownsFromLeaks`, and `WithinSlotProtocol`: every step of the connection
is a step of `SlotSpec` or leaves the engine alone, so the theorems about the
engine hold in the connection.

**`RdmaQueueInvariant`, `RdmaQueueCompletions`, `RdmaQueueProofs`**, for any queue
depth, pool, script, faults and number of lost events.  `RdmaInv` (`RdmaInvariant`)
says where everything is:

- work requests (`LinesOK`, `WrsOwned`): none is on two lines or twice on one, and
  each is what its slot says now (tag, command, pages), with the slot in the
  state that waits for it; a tag with a WRITE and a SEND out counts two;
  an executed READ has filled its lease; behind a posted WRITE is the SEND of
  the same command;
- deferred commands and responses (`DeferredOK`, `ResponsesOK`): each tag waits
  once, with no work request out;
- commands (`CommandsOK`, `AnsweredOK`): one that was sent is arriving, parked or
  in a slot, in one place only, and not answered before its SEND;
- RECV buffers (`BuffersOK`, `RingFull`): a posted one is not held, a held one keeps
  its capsule, and none is lost while the queue pair is up;
- slots (`SlotsOK`), the bootstrap, where at most one thing is under way
  (`BootOK`), the host's depth (`DepthOK`) and the sleep (`SleepOK`).

`WorkRequestsOwned` needs nearly all of it: a tag may be reused only because its
completions are out once and are counted.  `WorkRequestsAlwaysOwned`,
`WritesDispatchOwnData`, `SleepsWithWakeSource` and `ArenaAlwaysFreedQuiet` follow
from `RdmaInv` directly.  `ConformingHostAlwaysFits` is a pigeonhole argument on
it.  With the ring empty every buffer would be held by an unanswered command of
its own, and those are fewer than the buffers; with the parking lot full the
parked commands and the arrival in hand would be more unanswered commands than
the depth allows.

**`ControlPlaneProofs`, the namespace table**, for any set of queues and
namespaces: `NsInv` adds to coherence that no cache or loaded generation is ahead
of the table's, that a refresh under way loaded a generation at or before the
current one, and that a swap changes one entry.  `CacheAlwaysCoherent` and the
refinement `CacheImplementsRegister` follow: a change takes effect at its bump, a
lookup at its generation load or at its snapshot.

**`ControlPlaneProofs`, the registry**, for any slice of ids and any number of
connections: `RegistryInv` adds to the checked invariants that a live IO queue
has the id of the controller it serves as long as that controller lives; without
it a new controller might find an old one's queue under its id.
`RefusalMeansFull` rests on arithmetic: the wrapped scan visits every id of the
slice (`ScanIsComplete`).

**`ControlPlaneProofs`, the keep-alive**, for any timeouts, tick range and set of
IO queues.  `KaInv` (`KeepAliveInvariant`) has two halves.  For
`DeadHostsNoticed`: behind a mark there is a sign of life no older than the
beacon has slept, behind the flag one no older than a beacon's and the watchdog's
sleep; so `gap` is ahead of `silent` by at most two sleeps, and `silent` is
bounded by the last verdict.  For `SteadyHostsLive`: what the admin queue has not
heard of is in the flag, or marked on a live queue whose beacon runs at the
entry's tick, and the first such mark came within a timeout of the last thing
heard (`Unheard`).  This half needs `MaxLag <= k` for every nonzero timeout `k`:
with timers later than a whole timeout the patience of two timeouts and a tick
would not do.

**`HarnessInvariant`, `HarnessProofs`**, for any number of connections, IO threads,
pool incarnations and scenarios.  `PoolOutlivesConns` is not inductive;
`PoolInv` (`PoolConsistent`) adds that the mailboxes of incarnations to come are
empty, that no Shutdown is on its way to the pool that is up, that the accept
queue holds each waiting connection once and without a permit, and that a Conn
message and its permit exist once.  On it rest

- `PoolOutlivesItsConns`: what `teardown_pool` relies on;
- `MailArrives`: a sleeping thread with mail has its doorbell rung, or its sender
  is between push and ring;
- `TeardownWaits`, an action property: the idle clock is never ahead of the time
  without connections, so the pool goes down only after the grace period;
- `NsChangesArrive`: a controller that keeps the notice and is behind the table
  has a scan to do, a notice, or a nudge in its mailbox, in the outbox, or on a
  dead thread.  Needed besides: a controller that kept the notice has it enabled,
  and a queue not yet started has its first scan before it.

**`ReactorProofs`**, for any operations, keys and ring sizes.
`ReactorInv` follows a request: pushed or being pushed, in the submission ring,
in the kernel or in its last completion, its key leads to the entry it was
submitted with, so a key is reused only after the last completion; and a cancel
precedes in the submission ring every request that reuses its key.  From it come
`MemoryHeld`, `CancelAim`, `ResultsOrdered` and `WakeupsKept`.

**Only model-checked.**

- Liveness everywhere: fairness and ENABLED are beyond the prover.
- `CountsKept` of `Harness`: it is about a sum over a set, defined by a fold, and
  what a fold computes needs induction over data.
- `RecvPath` and `BufPool`: `StoredIsSent` and `WindowIsStream` are about sums of
  lengths along a script, and the pool's allocation about cardinalities of
  unions of runs.
- `QueuesSized` of `RdmaQueue`: the send queue's load is a fold over its work
  requests, each with the pages of its lease.

## Not modelled

Wire encodings, Identify and log-page layout, CPU placement and counters (data,
no concurrent control); range checks and DSM parsing; the memory and null
backends; the verbs bindings (hardware); RDMA address resolution; command line
and start-up; the test client.  `advance_iovecs` is taken as advancing by what was
sent.  `PROJECT.json` gives the reason for each.
