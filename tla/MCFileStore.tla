---------------------------- MODULE MCFileStore ----------------------------
(* FileStore with two queue threads, for TLC.                              *)
EXTENDS FileStore
=============================================================================
