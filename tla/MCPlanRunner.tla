---------------------------- MODULE MCPlanRunner ----------------------------
(* PlanRunner for TLC. *)
EXTENDS PlanRunner

Plain == [done |-> FALSE, failed |-> FALSE, reassign |-> FALSE, ignorePins |-> FALSE,
          limit |-> 0]

\* One invocation: two transports on one box, the first with two threads.  The
\* first cell may run anywhere, the second is restricted to the two.
OneRun == [w \in Threads |-> "r1"]
TwoAndOne == [w \in Threads |-> IF w = "c" THEN "t2" ELSE "t1"]
OneBox == [t \in Clients |-> "b1"]
Unsharded == [r \in Runs |-> 0]
PoolAndRestricted ==
    {[fleet |-> Clients, allowed |-> [c \in Cells |-> IF c = 1 THEN {} ELSE Clients]]}
PlainOnly == {Plain}

\* Every cell has a key of its own, or the cells are variants that differ only by
\* their clients.
OwnKeys == [c \in Cells |-> c]
OneKey == [c \in Cells |-> 1]

\* Two shards side by side, over three invocations.  The first shard's plan has
\* two transports, the second shard one thread.  The two cells are variants of
\* one: the first may run anywhere, the second on the first transport only.
ShardRun == [w \in Threads |-> IF w = "c" THEN "r2" ELSE "r1"]
ShardClient == [w \in Threads |-> IF w = "b" THEN "t2" ELSE "t1"]
Halves == [r \in Runs |-> IF r = "r1" THEN 0 ELSE 1]
Variants ==
    {[fleet |-> Clients, allowed |-> [c \in Cells |-> IF c = 1 THEN {} ELSE {"t1"}]]}
Reruns == {Plain, [done |-> TRUE, failed |-> TRUE, reassign |-> TRUE,
                   ignorePins |-> FALSE, limit |-> 1]}

=============================================================================
