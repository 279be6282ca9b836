------------------------------- MODULE MCAmqp -------------------------------
(***************************************************************************)
(* Small instances of AmqpConsumer.                                        *)
(***************************************************************************)
EXTENDS AmqpRefinement, MCMessages

\* The users share out among the queues: what one worker handles concerns no other.
Partitioned ==
  w1 :> (Messages \cap {m1, m2, m3, m5}) @@ w2 :> (Messages \cap {m4, m6})

ASSUME PartitionedIsExclusive ==
  Serves = Partitioned => ExclusiveUsers /\ ExclusiveEvents /\ OneQueue

\* In the queue of u1 and u3, m5 is first.  The others are not ordered.
PoisonFirst == [m \in Messages |-> IF m = m5 THEN 0 ELSE 1]

NoOrder == [m \in Messages |-> 0]

\* Every worker is a replica of the same consumer.
Replicated == [w \in Workers |-> Messages]
=============================================================================
