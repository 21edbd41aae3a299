----------------------------- MODULE NsRegister -----------------------------
(***************************************************************************)
(* What the namespace table promises its readers: a command that looks up  *)
(* its namespace sees the table as it was at one instant of its lookup.    *)
(* NsTable shows that the generation-validated cache keeps the promise.    *)
(***************************************************************************)
EXTENDS Naturals

CONSTANTS
  Readers,   \* the IO queues
  Nsids      \* namespace ids

VARIABLES
  table,     \* nsid -> instance of the namespace, 0 if there is none
  looking,   \* readers in the middle of a lookup
  got        \* what each reader's last lookup returned

regVars == <<table, looking, got>>

NoTable == [n \in Nsids |-> 0]

RegInit == table = NoTable /\ looking = {} /\ got = [r \in Readers |-> NoTable]

\* One namespace comes, with a backend of its own, or goes.
Change ==
  /\ \E n \in Nsids : /\ table' = [table EXCEPT ![n] = table'[n]]
                       /\ table[n] = 0 <=> table'[n] # 0
  /\ UNCHANGED <<looking, got>>

Begin(r) ==
  /\ r \notin looking
  /\ looking' = looking \cup {r}
  /\ UNCHANGED <<table, got>>

Return(r) ==
  /\ r \in looking
  /\ looking' = looking \ {r}
  /\ got' = [got EXCEPT ![r] = table]
  /\ UNCHANGED table

RegNext == Change \/ \E r \in Readers : Begin(r) \/ Return(r)

RegSpec == RegInit /\ [][RegNext]_regVars
=============================================================================
