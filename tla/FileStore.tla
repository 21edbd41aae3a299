----------------------------- MODULE FileStore -----------------------------
(***************************************************************************)
(* The files behind the namespaces: the namespace table and its caches     *)
(* (NsTable) composed with the file backend's descriptors                  *)
(* (crates/ioutgt-backend/src/file.rs) and with the fixed-file table each  *)
(* IO queue thread's reactor keeps (crates/ioutgt-uring/src/reactor.rs).   *)
(* An instance i of NsTable is a Namespace whose backend opened a file of  *)
(* its own; its descriptor is closed when the last Arc of a table map that *)
(* holds it goes: the subsystem's, a queue's cache, or a command's.        *)
(***************************************************************************)
EXTENDS NsTable, Functions, TLC

CONSTANTS
  Fds,        \* descriptor numbers the process may hand out, not 0
  FileSlots,  \* entries of a ring's fixed-file table
  MaxCalls    \* bound: file operations of one command

VARIABLES
  fdOf,       \* FileBackend.fd of every instance; 0 if closed or not yet made
  memo,       \* Reactor.file_index_cache: fd -> index, 0 for None
  fixed,      \* the ring's fixed-file table: index -> the file's instance, or 0
  cmd,        \* the command the queue executes
  reached     \* the file its last operation was addressed to

fileVars == <<fdOf, memo, fixed, cmd, reached>>
fsVars == <<nsVars, fileVars>>

Instances == 1 .. MaxChanges
NoCmd == [step |-> "none", op |-> "none", ns |-> 0, left |-> 0]
NoMemo == [fd \in {} |-> 0]
EmptyFiles == [k \in 1 .. FileSlots |-> 0]

FsInit ==
  /\ NsInit
  /\ fdOf = [i \in Instances |-> 0]
  /\ memo = [r \in Readers |-> NoMemo]
  /\ fixed = [r \in Readers |-> EmptyFiles]
  /\ cmd = [r \in Readers |-> NoCmd]
  /\ reached = [r \in Readers |-> 0]

Executing(r) == cmd[r].step \in {"issue", "flight"}

\* The instances some Arc of a table map keeps alive.  A command holds the map
\* its lookup returned until it ends.
Live ==
  Range(table)
    \cup UNION {Range(cacheMap[r]) : r \in Readers}
    \cup UNION {Range(got[r]) : r \in {q \in Readers : Executing(q)}}

\* Dropping the last Arc drops the FileBackend, whose OwnedFd closes.
Release == fdOf' = [i \in Instances |-> IF i \in Live' THEN fdOf[i] ELSE 0]

---------------------------------------------------------------------------
(* The control thread: AddNamespace and RemoveNamespace.                   *)

\* build_backend opens the file under a number that is free, whether or not
\* O_DIRECT had to be given up for a second open.
AddNamespace(n) ==
  /\ add_namespace(n)
  /\ \E fd \in Fds \ Range(fdOf) : fdOf' = [fdOf EXCEPT ![made'] = fd]
  /\ UNCHANGED <<memo, fixed, cmd, reached>>

RemoveNamespace(n) ==
  /\ remove_namespace(n)
  /\ UNCHANGED <<memo, fixed, cmd, reached>>
  /\ Release

Unlock == (bump \/ unlock) /\ UNCHANGED fileVars

---------------------------------------------------------------------------
(* An IO queue thread: io::execute, one command at a time.                 *)

Start(r) ==
  /\ cmd[r].step = "none" /\ Lookup(r)
  /\ cmd' = [cmd EXCEPT ![r].step = "lookup"]
  /\ UNCHANGED <<fdOf, memo, fixed, reached>>

\* NsCache::get; a refresh drops the map the cache held.
Get(r) ==
  /\ load(r) \/ refresh(r)
  /\ UNCHANGED <<memo, fixed, cmd, reached>>
  /\ Release

\* The command's namespace in the map: none ends it with INVALID_NS.  A read or
\* write and a flush resolve their file once; a discard once per range, write
\* zeroes once per mode and then once per chunk.
Dispatch(r) ==
  /\ cmd[r].step = "lookup" /\ pc[r] = "idle"
  /\ \E n \in Nsids :
       IF got[r][n] = 0
         THEN cmd' = [cmd EXCEPT ![r] = NoCmd]
         ELSE \E op \in {"rw", "flush", "discard", "zeroes"} :
                cmd' = [cmd EXCEPT ![r] =
                  [step |-> "issue", op |-> op, ns |-> got[r][n],
                   left |-> IF op \in {"discard", "zeroes"} THEN MaxCalls ELSE 1]]
  /\ UNCHANGED <<nsVars, memo, fixed, reached>>
  /\ Release

\* register_file takes a free index; the kernel may refuse it, or none be left.
FreeFiles(r) == {k \in 1 .. FileSlots : fixed[r][k] = 0}

RegisterFile(r, fd, file) ==
  \/ \E k \in FreeFiles(r) :
       /\ fixed' = [fixed EXCEPT ![r][k] = file]
       /\ memo' = [memo EXCEPT ![r] = (fd :> k) @@ @]
       /\ reached' = [reached EXCEPT ![r] = file]
  \/ /\ memo' = [memo EXCEPT ![r] = (fd :> 0) @@ @]
     /\ reached' = [reached EXCEPT ![r] = file]
     /\ UNCHANGED fixed

\* The file the kernel finds: through the memoised index, if there is one, and
\* else through the descriptor, the namespace's own while a map holds it.
UseMemo(r, fd, file) ==
  /\ reached' = [reached EXCEPT ![r] =
       IF memo[r][fd] # 0 THEN fixed[r][memo[r][fd]] ELSE file]
  /\ UNCHANGED <<memo, fixed>>

\* backend_fd and fixed_file_index, and the submission that uses the answer.
BackendFd(r) ==
  LET file == cmd[r].ns
      fd == fdOf[file]
  IN IF fd \in DOMAIN memo[r] THEN UseMemo(r, fd, file)
                              ELSE RegisterFile(r, fd, file)

Issue(r) ==
  /\ cmd[r].step = "issue" /\ BackendFd(r)
  /\ cmd' = [cmd EXCEPT ![r].step = "flight", ![r].left = @ - 1]
  /\ UNCHANGED <<nsVars, fdOf>>

Continue(r, op) ==
  /\ cmd[r].step = "flight" /\ cmd[r].op = op /\ cmd[r].left > 0
  /\ cmd' = [cmd EXCEPT ![r].step = "issue"]
  /\ UNCHANGED <<nsVars, fdOf, memo, fixed, reached>>

\* A range is deallocated, or the store declined the hint: on to the next one.
discard(r) == Continue(r, "discard")

\* A mode is not supported: the next mode, or else zeroes written in chunks.
write_zeroes(r) == Continue(r, "zeroes")

\* The last operation completes, or one fails for good; the map is let go.  (A
\* short read or write resumes on the file it had and changes nothing here.)
Finish(r) ==
  /\ cmd[r].step = "flight"
  /\ cmd' = [cmd EXCEPT ![r] = NoCmd]
  /\ UNCHANGED <<nsVars, memo, fixed, reached>>
  /\ Release

\* The queue's connection ends and takes its NsCache with it; the thread serves
\* its next connection with an empty one, on the same reactor.
Disconnect(r) ==
  /\ cmd[r].step = "none" /\ cacheMap[r] # NoMap
  /\ cacheMap' = [cacheMap EXCEPT ![r] = NoMap]
  /\ cacheGen' = [cacheGen EXCEPT ![r] = 0]
  /\ UNCHANGED <<tableVars, pc, loaded, got, memo, fixed, cmd, reached>>
  /\ Release

\* An idle pool goes down and comes up again: the thread has a new reactor, and
\* the old ring's registrations are gone.
Rebuild(r) ==
  /\ cmd[r].step = "none" /\ cacheMap[r] = NoMap /\ memo[r] # NoMemo
  /\ memo' = [memo EXCEPT ![r] = NoMemo]
  /\ fixed' = [fixed EXCEPT ![r] = EmptyFiles]
  /\ UNCHANGED <<nsVars, fdOf, cmd, reached>>

FsNext ==
  \/ \E n \in Nsids : AddNamespace(n) \/ RemoveNamespace(n)
  \/ Unlock
  \/ \E r \in Readers :
       \/ Start(r) \/ Get(r) \/ Dispatch(r) \/ Issue(r)
       \/ discard(r) \/ write_zeroes(r) \/ Finish(r)
       \/ Disconnect(r) \/ Rebuild(r)

FsSpec == FsInit /\ [][FsNext]_fsVars

---------------------------------------------------------------------------
(* Properties.                                                             *)

\* Every file operation reaches the file of the namespace the command named.
\* It is what fixed_file_index promises by never unregistering: "backend fds
\* ... outlive every reactor" (reactor.rs).
IoReachesOwnFile ==
  \A r \in Readers : cmd[r].step = "flight" => reached[r] = cmd[r].ns
=============================================================================
