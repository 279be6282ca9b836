---------------------------- MODULE AmqpConsumer ----------------------------
(***************************************************************************)
(* The queue consumers: Consumer.Consume, the delivery handler and the     *)
(* worker life cycle of internal/bootstrap (Run, runConsumerWorkers,       *)
(* makeAMQPHandler), around the handler of ProcessEvent.                   *)
(*                                                                         *)
(* A worker is one consumer goroutine.  Serves[w] is the content of the    *)
(* queue it consumes: the workers of one process consume different queues, *)
(* the replicas of the service share them.  The context and the channel    *)
(* that the workers of one process share are kept per worker here, which   *)
(* only allows more: what ends them all at once is one step for each.      *)
(*                                                                         *)
(* The broker pushes messages ahead of their handling, as many as the      *)
(* prefetch count of Qos lets it, and keeps each until it is acknowledged  *)
(* on the channel it was pushed to.  When that channel closes they are     *)
(* back in the queue, while the client may go on handing out those it has. *)
(* A requeued message takes its old place in the queue.                    *)
(***************************************************************************)
EXTENDS ProcessEvent, FiniteSets

CONSTANTS
  Prefetch,  \* the prefetch count of a consumer; 0 is no limit
  Position   \* Position[m]: the place of m in its queue; messages with the
             \* same one come in any order

ASSUME QueueTyped == Prefetch \in Nat /\ Position \in [Messages -> Nat]

VARIABLES
  ready,    \* messages in their queue, pushed to no open channel
  window,   \* window[w]: messages pushed to w and not yet handed to its handler
  settled,  \* messages the broker forgot: acknowledged
  link,     \* link[w]: the channel of w is open
  mode      \* mode[w]: Consume is running, has returned, or w's process is down

broker == <<ready, window, settled>>
vars == <<processVars, broker, link, mode>>

TypeOK ==
  /\ ProcessTypeOK
  /\ ready \subseteq Messages
  /\ window \in [Workers -> SUBSET Messages]
  /\ settled \subseteq Messages
  /\ link \in [Workers -> BOOLEAN]
  /\ mode \in [Workers -> {"consuming", "returned", "down"}]
  /\ \A w \in Workers :
       /\ window[w] \subseteq Serves[w]
       /\ mode[w] # "consuming" => pc[w] = "idle"
       /\ mode[w] = "down" => ~link[w] /\ window[w] = {}

Init ==
  /\ ProcessInit
  /\ ready = Messages
  /\ window = [w \in Workers |-> {}]
  /\ settled = {}
  /\ link = [w \in Workers |-> TRUE]
  /\ mode = [w \in Workers |-> "consuming"]

-----------------------------------------------------------------------------
(***************************************************************************)
(* Deliveries.                                                             *)
(***************************************************************************)

\* The messages the broker waits for an answer about from w.
Outstanding(w) == IF link[w] THEN window[w] \cup ({msg[w]} \ {None}) ELSE {}

\* Mutation of HasRoom: the next message only after an answer to the last one.
HasRoomForOne(w) == Outstanding(w) = {}

HasRoom(w) == Prefetch = 0 \/ Cardinality(Outstanding(w)) < Prefetch

\* The broker pushes the first message of the queue.  It does so as long as
\* the channel is open, although Consume may have returned.
Push(w, m) ==
  /\ link[w] /\ HasRoom(w)
  /\ m \in ready \cap Serves[w]
  /\ \A n \in ready \cap Serves[w] : Position[m] <= Position[n]
  /\ ready' = ready \ {m}
  /\ window' = [window EXCEPT ![w] = @ \cup {m}]
  /\ UNCHANGED <<processVars, settled, link, mode>>

\* The select of Consume picks a delivery; it may do so although the context
\* is cancelled, since Go chooses among the ready cases at random, and although
\* the channel is closed and the message requeued: the client has it.
Deliver(w, m) ==
  /\ mode[w] = "consuming"
  /\ m \in window[w]
  /\ Handle(w, m)
  /\ window' = [window EXCEPT ![w] = @ \ {m}]
  /\ UNCHANGED <<ctx, ready, settled, link, mode>>

\* An answer counts on the channel of the delivery only, while it is open.
Valid(w) == link[w]

\* The handler returned nil: d.Ack(false), whose error is discarded.  On a
\* closed channel it has no effect.
Acknowledge(w) ==
  /\ pc[w] = "ack"
  /\ Return(w)
  /\ settled' = IF Valid(w) THEN settled \cup {msg[w]} ELSE settled
  /\ UNCHANGED <<store, environment, ctx, faults, ready, window, link, mode>>

\* Mutation of Requeued: the error path returns without a Nack.
RequeuedNever(w) == {}

Requeued(w) == IF Valid(w) THEN {msg[w]} ELSE {}

\* The handler returned an error: d.Nack(false, true), back to the queue.
NegAcknowledge(w) ==
  /\ pc[w] = "nack"
  /\ Return(w)
  /\ ready' = ready \cup Requeued(w)
  /\ UNCHANGED <<store, environment, ctx, faults, window, settled, link, mode>>

-----------------------------------------------------------------------------
(***************************************************************************)
(* The life of a consumer.                                                 *)
(***************************************************************************)

\* Consume returns between two deliveries: the context is cancelled or the
\* channel of deliveries was closed.  The goroutine ends with it.
ConsumeReturns(w) ==
  /\ mode[w] = "consuming" /\ pc[w] = "idle"
  /\ ctx[w] = "cancelled" \/ ~link[w]
  /\ mode' = [mode EXCEPT ![w] = "returned"]
  /\ UNCHANGED <<processVars, broker, link>>

\* The channel of w is no more and what it had not answered is requeued.
Unlink(w) ==
  /\ link' = [link EXCEPT ![w] = FALSE]
  /\ ready' = ready \cup Outstanding(w)

\* The connection breaks or the broker closes the channel.  A handler that is
\* running goes on.  Nothing opens another channel.
LoseChannel(w) ==
  /\ link[w] /\ mode[w] # "down"
  /\ Fault("channel")
  /\ Unlink(w)
  /\ UNCHANGED <<store, environment, worker, ctx, window, settled, mode>>

\* SIGTERM: Run cancels the context that every handler call uses.
Shutdown(w) ==
  /\ mode[w] # "down" /\ ctx[w] = "live"
  /\ Fault("shutdown")
  /\ ctx' = [ctx EXCEPT ![w] = "cancelled"]
  /\ UNCHANGED <<store, environment, worker, broker, link, mode>>

\* Run waits for the workers, closes the channel and returns.
Exit(w) ==
  /\ mode[w] = "returned" /\ ctx[w] = "cancelled"
  /\ mode' = [mode EXCEPT ![w] = "down"]
  /\ Unlink(w)
  /\ window' = [window EXCEPT ![w] = {}]
  /\ UNCHANGED <<processVars, settled>>

\* The process dies where it is.
Crash(w) ==
  /\ mode[w] # "down"
  /\ Fault("crash")
  /\ Return(w)
  /\ mode' = [mode EXCEPT ![w] = "down"]
  /\ Unlink(w)
  /\ window' = [window EXCEPT ![w] = {}]
  /\ UNCHANGED <<store, environment, ctx, settled>>

\* Whatever supervises the process starts it again: New and Run.
Restart(w) ==
  /\ mode[w] = "down"
  /\ mode' = [mode EXCEPT ![w] = "consuming"]
  /\ link' = [link EXCEPT ![w] = TRUE]
  /\ ctx' = [ctx EXCEPT ![w] = "live"]
  /\ UNCHANGED <<store, environment, worker, faults, broker>>

-----------------------------------------------------------------------------
Running(w) == ProcessStep(w) /\ UNCHANGED <<broker, link, mode>>

Worker(w) ==
  \/ \E m \in Messages : Push(w, m) \/ Deliver(w, m)
  \/ Running(w)
  \/ Acknowledge(w)
  \/ NegAcknowledge(w)
  \/ ConsumeReturns(w)
  \/ LoseChannel(w)
  \/ Shutdown(w)
  \/ Exit(w)
  \/ Crash(w)
  \/ Restart(w)

Next ==
  \/ \E w \in Workers : Worker(w)
  \/ Others /\ UNCHANGED <<broker, link, mode>>

\* The goroutine is scheduled, database calls return (an error at worst), and
\* a process that exited or died is started again; one that only lost its
\* channel is not.  The broker does not pass over for ever a message that is
\* the first of its queue whenever there is room, and the client hands out
\* what it has in the order it came.  ConsumeReturns is one of the two cases
\* of a select, chosen at random when both are ready: not for ever the other.
Proceed(w) ==
  \/ Running(w)
  \/ Acknowledge(w)
  \/ NegAcknowledge(w)
  \/ Exit(w)
  \/ Restart(w)

Fairness ==
  \A w \in Workers :
    /\ \A m \in Serves[w] : SF_vars(Push(w, m)) /\ SF_vars(Deliver(w, m))
    /\ SF_vars(ConsumeReturns(w))
    /\ WF_vars(Proceed(w))

Spec == Init /\ [][Next]_vars

FairSpec == Spec /\ Fairness

\* The service if its two writes were one transaction (see Undivided).
UndividedSpec == Init /\ [][Next /\ Undivided]_vars

-----------------------------------------------------------------------------
(***************************************************************************)
(* Properties of the deliveries.                                           *)
(***************************************************************************)

\* The workers whose open channel has m unanswered.
Holders(m) == {w \in Workers : m \in Outstanding(w)}

\* A message is in exactly one place: in its queue, with one consumer whose
\* channel can still answer it, waiting there or being handled, or settled.
\* Through crashes, lost channels and what their clients still hand out, none
\* is lost and none is in two places (Ack, Nack and the requeueing of
\* rabbitmq.go and makeAMQPHandler).
Conservation ==
  /\ \A m \in Messages :
       /\ m \in ready => m \notin settled /\ Holders(m) = {}
       /\ m \in settled => Holders(m) = {}
       /\ m \notin ready \cup settled => Holders(m) # {}
       /\ \A v, w \in Holders(m) : v = w
  /\ \A w \in Workers : link[w] => msg[w] \notin window[w]

\* No failure of a call, no lost answer, no crash and no racing replica makes
\* the service acknowledge an applicable event that has no processed_events
\* row: every error path of ProcessEvent on such an event must nack.
AckedIsProcessed ==
  \A m \in settled : Applicable(m) => Recorded(m)

\* An acknowledged message left a row, in processed_events or failed_events:
\* "On parse failure, records failed event and returns nil (ack)"
\* (rabbitmq_consumer.go:29) and the four failed_events paths of ProcessEvent.
AckedIsRecorded ==
  \A m \in settled : Recorded(m) \/ failed[m] > 0

\* An event whose result json.Marshal rejects is requeued for ever.
Hopeless(m) ==
  /\ Body[m] = "event" /\ UserId[m] # None
  /\ InitialRules[EventType[m]] = "unmarshalable"

\* Every other message is settled in the end: the handler never waits for
\* another one, nacked messages come back, a cancelled or dead worker is
\* replaced, and the hopeless messages before it in the queue leave it room,
\* as long as they are fewer than the prefetch count.
EventuallySettled == <>(\A m \in Messages : Hopeless(m) \/ m \in settled)
=============================================================================
