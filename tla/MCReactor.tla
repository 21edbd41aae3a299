----------------------------- MODULE MCReactor -----------------------------
(* TLC instance of Reactor: three operations of three shapes, two keys, so *)
(* that a key is reused while a cancel for its last owner is queued.       *)
EXTENDS Reactor, TLC

CONSTANTS k1, k2, recv, poll, zc

MCKind == recv :> "recv" @@ poll :> "poll_add" @@ zc :> "sendmsg_zc_raw"
=============================================================================
