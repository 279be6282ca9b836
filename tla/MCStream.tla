------------------------------ MODULE MCStream ------------------------------
(***************************************************************************)
(* Small instances of StreamConsumer: two partitions, the events of a user *)
(* in one of them.                                                         *)
(***************************************************************************)
EXTENDS StreamConsumer, MCMessages

MCLog ==
  [w \in Workers |->
     SelectSeq(IF w = w1 THEN <<m1, m3, m2>> ELSE <<m6, m5>>,
               LAMBDA m : m \in Messages)]

MCServes == [w \in Workers |-> {MCLog[w][i] : i \in DOMAIN MCLog[w]}]

ASSUME PartitionsAreExclusive == ExclusiveUsers /\ ExclusiveEvents
=============================================================================
