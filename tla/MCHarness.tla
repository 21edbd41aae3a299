----------------------------- MODULE MCHarness -----------------------------
EXTENDS Harness

Scenario(transport, nio, arrive, qid, may) ==
  [transport |-> transport, nio |-> nio, arrive |-> arrive, qid |-> qid, may |-> may]

\* Connection 1 is an admin queue, the others IO queues; or all are admin queues.
Mixed == [c \in Conns |-> c - 1]
AllAdmin == [c \in Conns |-> 0]

\* Each scenario lets some of the optional events happen, so that what they
\* interact with is explored in full and the rest is not multiplied by it.
MCScenarios == {
  Scenario("tcp", 1, {1, 2}, Mixed, {"idle", "leak"}),
  Scenario("tcp", 1, {1, 2, 3}, Mixed, {}),
  Scenario("tcp", 0, {1, 2, 3}, Mixed, {"idle", "fault"}),
  Scenario("rdma", 1, {1, 2}, Mixed, {"reject", "fault"}),
  Scenario("tcp", 0, {1}, AllAdmin, {"idle", "ns", "mask", "fault"}),
  Scenario("tcp", 0, {1, 2}, AllAdmin, {"stats", "leak"}),
  Scenario("rdma", 0, {1, 2}, AllAdmin, {"idle"}),
  Scenario("tcp", 0, {1, 2}, AllAdmin, {"idle", "stats"})}
=============================================================================
