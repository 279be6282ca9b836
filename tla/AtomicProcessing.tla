-------------------------- MODULE AtomicProcessing --------------------------
(***************************************************************************)
(* What the service promises (README, "Event flow"), without workers,      *)
(* reads or channels: an event is skipped if it was processed; otherwise   *)
(* it updates the document of its user and gets its processed_events row   *)
(* in one step, or only gets the row, or is recorded in failed_events; a   *)
(* message is forgotten only when one of these happened.                   *)
(*                                                                         *)
(* AmqpConsumer implements it if the two writes of RecordSuccess are one   *)
(* transaction and one user's events are handled by one worker             *)
(* (AmqpRefinement).                                                       *)
(***************************************************************************)
EXTENDS Naturals

CONSTANTS
  Messages, EventIds, Users, None, EventId, UserId,
  WithOperations,    \* messages whose rules may have operations to apply
  WithoutOperations  \* messages whose rules may have none to apply

VARIABLES
  processed,  \* event ids with a processed_events row
  anonymous,  \* messages without an id that have one
  failed,     \* failed[m]: failed_events rows of m
  docs,       \* docs[u][m]: the effects of m in the document of u
  users,      \* users that have a row
  settled     \* messages that will not be delivered again

vars == <<processed, anonymous, failed, docs, users, settled>>

Init ==
  /\ processed = {}
  /\ anonymous = {}
  /\ failed = [m \in Messages |-> 0]
  /\ docs = [u \in Users |-> [m \in Messages |-> 0]]
  /\ users \subseteq Users
  /\ settled = {}

Processed(m) == EventId[m] # None /\ EventId[m] \in processed

Mark(m) ==
  /\ m \notin settled /\ ~Processed(m)
  /\ IF EventId[m] = None
     THEN anonymous' = anonymous \cup {m} /\ UNCHANGED processed
     ELSE processed' = processed \cup {EventId[m]} /\ UNCHANGED anonymous

\* Step 6 of the event flow: document and row in one transaction.
Apply(m) ==
  /\ m \in WithOperations
  /\ UserId[m] \in users
  /\ Mark(m)
  /\ docs' = [docs EXCEPT ![UserId[m]][m] = @ + 1]
  /\ UNCHANGED <<failed, users, settled>>

\* No rule of the event has an operation to apply.
MarkOnly(m) ==
  /\ m \in WithoutOperations
  /\ Mark(m)
  /\ UNCHANGED <<failed, docs, users, settled>>

\* An event that cannot be processed is kept for inspection.
Reject(m) ==
  /\ m \notin settled
  /\ failed' = [failed EXCEPT ![m] = @ + 1]
  /\ UNCHANGED <<processed, anonymous, docs, users, settled>>

Settle(m) ==
  /\ Processed(m) \/ m \in anonymous \/ failed[m] > 0
  /\ settled' = settled \cup {m}
  /\ UNCHANGED <<processed, anonymous, failed, docs, users>>

Next == \E m \in Messages : Apply(m) \/ MarkOnly(m) \/ Reject(m) \/ Settle(m)

Spec == Init /\ [][Next]_vars
=============================================================================
