---------------------------- MODULE MCRdmaQueue ----------------------------
(* Instances of RdmaQueue for TLC. *)
EXTENDS RdmaQueue

Connect == [kind |-> "inlineConnect", n |-> 0]
AdminConnect == [kind |-> "keyedConnect", n |-> 0]
Flush1 == [kind |-> "flush", n |-> 0]
Bad(kind) == [kind |-> kind, n |-> 0]
Rd(n) == [kind |-> "read", n |-> n]
Wr(n) == [kind |-> "write", n |-> n]
In(n) == [kind |-> "inline", n |-> n]

Host(cmds, events, spins) ==
  [cmds |-> cmds, depth |-> NSlots, may |-> events, poll |-> spins]
Greedy(cmds) ==
  [cmds |-> cmds, depth |-> 2 * NSlots + 1, may |-> {}, poll |-> FALSE]

\* In-capsule and keyed writes that contend with reads for the pages; rejected
\* commands; each disturbance of the queue; a host that ignores the depth.
MCScripts ==
  { Host(<<Connect, Rd(2), In(2), In(2), Flush1>>, {}, FALSE),
    Host(<<Connect, Wr(2), Wr(2), Rd(2), Rd(1)>>, {}, FALSE),
    Host(<<Connect, Rd(2), In(2), Wr(1)>>, {}, TRUE),
    Host(<<AdminConnect, Bad("badInline"), Bad("badKeyed")>>, {"qp"}, FALSE),
    Host(<<Connect, Bad("badInline"), Rd(1), Flush1>>, {}, FALSE),
    Host(<<Connect, Wr(1)>>, {"timer", "lost"}, FALSE),
    Host(<<Connect, In(1)>>, {"timer", "lost"}, TRUE),
    Host(<<Connect, Flush1>>, {"timer", "stop", "wedge"}, FALSE),
    Host(<<Connect, Wr(2), Rd(2)>>, {"post", "qp"}, FALSE),
    Host(<<Connect>>, {"timer", "lost", "qp"}, FALSE),
    Host(<<Connect, Flush1>>, {"timer", "ctrl"}, FALSE),
    Greedy(<<Connect>> \o [i \in 1 .. 2 * NSlots |-> Bad("badKeyed")]) }
=============================================================================
