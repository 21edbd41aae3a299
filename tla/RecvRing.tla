------------------------------ MODULE RecvRing ------------------------------
(***************************************************************************)
(* The provided-buffer receive ring of one connection and the reader that  *)
(* draws from it (ioutgt-uring: bufring.rs, ops.rs RecvMultiOp;            *)
(* ioutgt-stream: reader.rs).                                              *)
(*                                                                         *)
(* The byte stream is the sequence 1, 2, ..., so a byte is its position.   *)
(* The kernel fills the provided buffers in ring order, each incrementally *)
(* across completions; F_BUF_MORE is clear on the completion that fills    *)
(* the buffer up.  A multishot receive runs ahead of the reader: it can    *)
(* exhaust the ring, and report it, before the reader sees the first chunk.*)
(***************************************************************************)
EXTENDS Naturals, Sequences

CONSTANTS
  NBufs,    \* NBUFS, 2 in the code
  BufSize,  \* BufRing.buf_size, also the scratch size
  NoChunk   \* no chunk in hand

VARIABLES
  provided,  \* bids the kernel holds, in ring order
  koff,      \* the kernel's fill offset in the head buffer
  cells,     \* buffer -> offset -> the byte there (0: nothing yet)
  rcvd,      \* bytes taken from the socket
  armed,     \* a receive is in flight
  cq,        \* its completions, not yet seen
  pending,   \* BufRing.pending: borrows per buffer
  awaiting,  \* BufRing.awaiting
  recvOff,   \* BufRing.recv_off
  gen,       \* BufRing.provide_gen
  op,        \* RingMode.op is Some
  armedGen,  \* RingMode.armed_gen
  cur        \* RingMode.cur: the chunk in hand, or NoChunk

kernelVars == <<koff, cells, rcvd>>
ringVars == <<provided, pending, awaiting, recvOff, gen>>
readerVars == <<op, armedGen, cur>>

Bids == 0 .. NBufs - 1
Scratch == NBufs  \* the reader's own buffer in classic mode
Buffers == 0 .. NBufs
Chunk == [bid: Buffers, off: 0 .. BufSize - 1, len: 1 .. BufSize,
          bufMore: BOOLEAN]

\* BufRing::build provides every buffer; StreamReader::new or new_ring.
RingInit(ring) ==
  /\ provided = [i \in 1 .. (IF ring THEN NBufs ELSE 0) |-> i - 1]
  /\ koff = 0
  /\ cells = [b \in Buffers |-> [i \in 0 .. BufSize - 1 |-> 0]]
  /\ rcvd = 0
  /\ armed = FALSE
  /\ cq = <<>>
  /\ pending = [b \in Bids |-> 0]
  /\ awaiting = [b \in Bids |-> FALSE]
  /\ recvOff = [b \in Bids |-> 0]
  /\ gen = IF ring THEN NBufs ELSE 0
  /\ op = FALSE
  /\ armedGen = 0
  /\ cur = NoChunk

-----------------------------------------------------------------------------
(* The kernel side of a receive.                                           *)

\* The n bytes after rcvd land in buffer b at offset `off`.
landed(b, off, n) ==
  /\ cells' = [cells EXCEPT ![b] =
                 [i \in 0 .. BufSize - 1 |->
                    IF i \in off .. off + n - 1 THEN rcvd + 1 + i - off
                                                ELSE @[i]]]
  /\ rcvd' = rcvd + n

\* A completion of the multishot receive with n bytes.  `more` is F_MORE:
\* the kernel may end the multishot with any completion.
RecvChunk(n, more) ==
  /\ armed
  /\ provided # <<>>
  /\ n <= BufSize - koff
  /\ LET b == Head(provided)
         full == koff + n = BufSize
     IN  /\ landed(b, koff, n)
         /\ cq' = Append(cq, [res |-> "chunk", bid |-> b, len |-> n,
                              more |-> more, bufMore |-> ~full])
         /\ provided' = IF full THEN Tail(provided) ELSE provided
         /\ koff' = IF full THEN 0 ELSE koff + n
  /\ armed' = more
  /\ UNCHANGED <<pending, awaiting, recvOff, gen, readerVars>>

\* ops::recv on the scratch buffer: one completion.
RecvScratch(n) ==
  /\ armed
  /\ n <= BufSize
  /\ landed(Scratch, 0, n)
  /\ cq' = Append(cq, [res |-> "chunk", bid |-> Scratch, len |-> n,
                       more |-> FALSE, bufMore |-> TRUE])
  /\ armed' = FALSE
  /\ UNCHANGED <<koff, ringVars, readerVars>>

\* Data for a receive that finds no buffer: -ENOBUFS ends the multishot.
RecvNoBufs ==
  /\ armed
  /\ provided = <<>>
  /\ cq' = Append(cq, [res |-> "nobufs"])
  /\ armed' = FALSE
  /\ UNCHANGED <<kernelVars, ringVars, readerVars>>

\* The peer closed, or the socket failed: a terminal completion.
RecvLast(res) ==
  /\ armed
  /\ cq' = Append(cq, [res |-> res])
  /\ armed' = FALSE
  /\ UNCHANGED <<kernelVars, ringVars, readerVars>>

-----------------------------------------------------------------------------
(* BufRing.                                                                *)

\* kernel_provide.
provide(b) ==
  /\ provided' = Append(provided, b)
  /\ awaiting' = [awaiting EXCEPT ![b] = FALSE]
  /\ recvOff' = [recvOff EXCEPT ![b] = 0]
  /\ gen' = gen + 1

borrow(b) == pending' = [pending EXCEPT ![b] = @ + 1]

release(b) ==
  /\ pending' = [pending EXCEPT ![b] = @ - 1]
  /\ IF pending[b] = 1 /\ awaiting[b]
     THEN provide(b)
     ELSE UNCHANGED <<provided, awaiting, recvOff, gen>>

\* Faulty variant: the buffer goes back under the writes that borrow it.
recvDoneEager(b) == provide(b)

\* recv_done.
recvDone(b) ==
  IF pending[b] = 0
  THEN provide(b)
  ELSE /\ awaiting' = [awaiting EXCEPT ![b] = TRUE]
       /\ UNCHANGED <<provided, recvOff, gen>>

-----------------------------------------------------------------------------
(* The reader.                                                             *)

\* RingMode::fill_bid up to its await: a drained chunk that completed its
\* buffer hands the buffer back, and a receive is armed if none is.
fillRing ==
  /\ IF cur # NoChunk /\ ~cur.bufMore
     THEN recvDone(cur.bid)
     ELSE UNCHANGED <<provided, awaiting, recvOff, gen>>
  /\ cur' = NoChunk
  /\ op' = TRUE
  /\ IF op THEN UNCHANGED <<armedGen, armed>>
           ELSE armedGen' = gen' /\ armed' = TRUE
  /\ UNCHANGED <<kernelVars, cq, pending>>

\* ClassicMode::fill up to its await.
fillClassic ==
  /\ armed' = TRUE
  /\ UNCHANGED <<kernelVars, cq, ringVars, readerVars>>

\* Faulty variant: the running offset is taken after it is advanced.
observedLate(c) ==
  LET off == recvOff[c.bid] + (IF c.bufMore THEN c.len ELSE 0)
  IN  /\ recvOff' = [recvOff EXCEPT ![c.bid] = off]
      /\ op' = c.more
      /\ cur' = [bid |-> c.bid, off |-> off % BufSize, len |-> c.len,
                 bufMore |-> c.bufMore]

\* A chunk returned to fill_bid.
observed(c) ==
  /\ recvOff' = IF c.bufMore THEN [recvOff EXCEPT ![c.bid] = @ + c.len]
                             ELSE recvOff
  /\ op' = c.more
  /\ cur' = [bid |-> c.bid, off |-> recvOff[c.bid], len |-> c.len,
             bufMore |-> c.bufMore]

\* The receive of ClassicMode::fill returned: the window is the scratch
\* buffer's prefix.
observedScratch(c) ==
  /\ cur' = [bid |-> Scratch, off |-> 0, len |-> c.len, bufMore |-> TRUE]
  /\ UNCHANGED <<recvOff, op>>

\* -ENOBUFS in fill_bid: the dead receive is dropped, and armed again at once
\* if a buffer came back since it was armed.
rearm ==
  /\ op' = TRUE
  /\ armedGen' = gen
  /\ armed' = TRUE

\* wait_for_provide parks the reader until a buffer has been provided since
\* the receive was armed.
mustPark == gen = armedGen
=============================================================================
