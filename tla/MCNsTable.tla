----------------------------- MODULE MCNsTable -----------------------------
(* NsTable with two queues and two namespace ids, for TLC.                 *)
EXTENDS NsTable
=============================================================================
