--------------------------- MODULE AmqpRefinement ---------------------------
(***************************************************************************)
(* AmqpConsumer implements AtomicProcessing if its two writes are one      *)
(* transaction, failures are recorded, and no two workers serve one user.  *)
(* Meanwhile calls fail, channels are lost, processes are stopped, die and *)
(* start again, and messages are delivered again or are duplicates.        *)
(***************************************************************************)
EXTENDS AmqpConsumer

\* No two workers consume one queue, and a message is in one queue.
OneQueue == \A v, w \in Workers : v # w => Serves[v] \cap Serves[w] = {}

\* The service if, besides, it has a context that it can record failures with.
AtomicSpec == Init /\ [][Next /\ Undivided /\ Uncancelled']_vars

\* Workers that have written the document and not yet the row.  The promise
\* is that the two are one step, so until the row is there the document is
\* still the one that was read.
Between(u) == {w \in Workers : HalfWritten(w) /\ UserId[msg[w]] = u}

Documents ==
  [u \in Users |->
     IF Between(u) = {} THEN meta[u] ELSE base[CHOOSE w \in Between(u) : TRUE]]

\* The messages whose type may have rules of a kind.
WithRules(kind) ==
  {m \in Messages : EventType[m] \in VolatileRules \/ InitialRules[EventType[m]] = kind}

Promise == INSTANCE AtomicProcessing
             WITH docs <- Documents,
                  WithOperations <- WithRules("ops"),
                  WithoutOperations <- WithRules("noOps")

\* The deliveries implement the event flow of the README, document and row in
\* one step (RecordSuccess); what it takes is said above.
ImplementsPromise == Promise!Spec
=============================================================================
