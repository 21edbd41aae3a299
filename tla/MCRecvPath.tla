----------------------------- MODULE MCRecvPath -----------------------------
(* A small instance of RecvPath: two tags, two 3-byte ring buffers, PDU    *)
(* headers and digests of one byte, payloads of up to three.               *)
EXTENDS RecvPath

Pdu(at, kind, len, cmd, off, last, dg) ==
  [at |-> at, kind |-> kind, len |-> len, cmd |-> cmd, off |-> off,
   last |-> last, dg |-> dg]
InCapsule(at, i, len, dg) == Pdu(at, "incapsule", len, i, 0, TRUE, dg)
Solicit(at, i, len) == Pdu(at, "solicit", len, i, 0, TRUE, "none")
ReadCmd(at, i, len) == Pdu(at, "read", len, i, 0, TRUE, "none")
H2c(at, c, off, len, last, dg) == Pdu(at, "h2c", len, c, off, last, dg)

MCScripts == {
  \* writes with their data in the capsule
  <<InCapsule(0, 1, 1, "none"), InCapsule(2, 2, 1, "none"),
    InCapsule(4, 3, 3, "none")>>,
  \* a solicited write in two PDUs, its buffer and a read's competing for pages
  <<Solicit(0, 1, 3), ReadCmd(1, 2, 2), H2c(2, 1, 0, 1, FALSE, "good"),
    H2c(5, 1, 1, 2, TRUE, "none")>>,
  \* a solicited write in one, and two reads the pool cannot serve together
  <<Solicit(0, 1, 2), H2c(1, 1, 0, 2, TRUE, "good"), ReadCmd(5, 3, 3),
    ReadCmd(6, 4, 2)>>,
  \* writes that borrow the whole ring, and a read that has to wait for it
  <<InCapsule(0, 1, 2, "none"), InCapsule(3, 2, 2, "none"), ReadCmd(6, 3, 1)>>,
  \* a digest that fails, and a transfer that ends short
  <<InCapsule(0, 1, 1, "bad"), Solicit(3, 2, 3), H2c(4, 2, 0, 2, TRUE, "none")>>,
  \* data at another offset than the one expected
  <<Solicit(0, 1, 2), H2c(1, 1, 1, 1, TRUE, "none")>> }
=============================================================================
