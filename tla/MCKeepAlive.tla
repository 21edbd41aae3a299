---------------------------- MODULE MCKeepAlive ----------------------------
(* KeepAlive for TLC.                                                      *)
EXTENDS KeepAlive
=============================================================================
