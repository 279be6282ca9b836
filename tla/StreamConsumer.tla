--------------------------- MODULE StreamConsumer ---------------------------
(***************************************************************************)
(* The super stream consumer (internal/infrastructure/messaging,           *)
(* stream_consumer.go) around the handler of ProcessEvent.                 *)
(*                                                                         *)
(* A worker is the consumer of one partition.  The partition is a log that *)
(* nothing is removed from: there is no acknowledgement, only a position   *)
(* that moves on whatever the handler returns, and an offset that is       *)
(* stored after a success.  Every start of the service reads the log from  *)
(* its first message (OffsetSpecification{}.First()), so a message comes   *)
(* again exactly when the process was started again, handled or not.       *)
(*                                                                         *)
(* The handler runs on context.Background(): ctx stays "live".             *)
(***************************************************************************)
EXTENDS ProcessEvent, Sequences

CONSTANTS
  Log,    \* Log[w]: the messages of the partition w reads, in order
  Empty   \* messages without a body

ASSUME LogTyped ==
  /\ DOMAIN Log = Workers
  /\ \A w \in Workers : Log[w] \in Seq(Messages) /\ Serves[w] = {Log[w][i] : i \in DOMAIN Log[w]}

ASSUME EmptyTyped == Empty \subseteq {m \in Messages : Body[m] = "notJson"}

VARIABLES
  position,  \* position[w]: how many messages w was handed since it started
  stored,    \* stored[w]: the offset the broker keeps for w
  mode       \* mode[w]: "reading"; "detached", its connection is lost;
             \* "closing", Close was called; or "down", its process is

vars == <<processVars, position, stored, mode>>

TypeOK ==
  /\ ProcessTypeOK
  /\ position \in [Workers -> Nat]
  /\ stored \in [Workers -> Nat]
  /\ mode \in [Workers -> {"reading", "detached", "closing", "down"}]
  /\ \A w \in Workers :
       /\ position[w] <= Len(Log[w])
       /\ stored[w] <= Len(Log[w])
       /\ ctx[w] = "live"
       /\ pc[w] # "idle" => mode[w] # "down" /\ msg[w] = Log[w][position[w]]

Init ==
  /\ ProcessInit
  /\ position = [w \in Workers |-> 0]
  /\ stored = [w \in Workers |-> 0]
  /\ mode = [w \in Workers |-> "reading"]

-----------------------------------------------------------------------------
(***************************************************************************)
(* One message after the other.                                            *)
(***************************************************************************)

\* The client hands w the next message of its partition.  Close stops the
\* fetching, not what was fetched already.
HandOut(w) ==
  /\ mode[w] \in {"reading", "closing"}
  /\ pc[w] = "idle"
  /\ position[w] < Len(Log[w])
  /\ position' = [position EXCEPT ![w] = @ + 1]

\* Consumer.StoreOffset may fail; its error is logged at most.
StoreOffset(w, offset) ==
  stored' = [stored EXCEPT ![w] = offset] \/ UNCHANGED stored

Receive(w) ==
  LET m == Log[w][position[w] + 1] IN
  /\ HandOut(w)
  /\ m \notin Empty
  /\ Handle(w, m)
  /\ UNCHANGED <<ctx, stored, mode>>

\* A message without a body is not handled at all.
Skip(w) ==
  /\ HandOut(w)
  /\ Log[w][position[w] + 1] \in Empty
  /\ StoreOffset(w, position[w] + 1)
  /\ UNCHANGED <<processVars, mode>>

\* Mutation of Success: the offset of the message after it is stored.
SuccessStoresNext(w) ==
  /\ pc[w] = "ack"
  /\ Return(w)
  /\ StoreOffset(w, position[w] + 1)
  /\ UNCHANGED <<store, environment, ctx, faults, position, mode>>

\* The handler returned nil.
Success(w) ==
  /\ pc[w] = "ack"
  /\ Return(w)
  /\ StoreOffset(w, position[w])
  /\ UNCHANGED <<store, environment, ctx, faults, position, mode>>

\* The handler returned an error: it is logged, and the next message is next.
Failure(w) ==
  /\ pc[w] = "nack"
  /\ Return(w)
  /\ UNCHANGED <<store, environment, ctx, faults, position, stored, mode>>

-----------------------------------------------------------------------------
(***************************************************************************)
(* The life of a consumer.                                                 *)
(***************************************************************************)

\* The connection of the partition is lost; nothing opens another one.
Detach(w) ==
  /\ mode[w] = "reading"
  /\ Fault("channel")
  /\ mode' = [mode EXCEPT ![w] = "detached"]
  /\ UNCHANGED <<store, environment, worker, ctx, position, stored>>

\* SIGTERM: Run cancels its context and the goroutine that waits for that
\* calls Close.  A handler that is running goes on.
Close(w) ==
  /\ mode[w] \in {"reading", "detached"}
  /\ mode' = [mode EXCEPT ![w] = "closing"]
  /\ UNCHANGED <<processVars, position, stored>>

\* Run returns when the queue workers did; it does not wait for a handler of
\* the stream.  An exit that cuts a handler off counts as a failure, for the
\* bound's sake.
Exit(w) ==
  /\ mode[w] = "closing"
  /\ \/ pc[w] = "idle" /\ UNCHANGED faults
     \/ pc[w] # "idle" /\ Fault("crash")
  /\ Return(w)
  /\ mode' = [mode EXCEPT ![w] = "down"]
  /\ UNCHANGED <<store, environment, ctx, position, stored>>

\* The process dies where it is.
Crash(w) ==
  /\ mode[w] \in {"reading", "detached"}
  /\ Fault("crash")
  /\ Return(w)
  /\ mode' = [mode EXCEPT ![w] = "down"]
  /\ UNCHANGED <<store, environment, ctx, position, stored>>

\* Mutation of Restart: the log is read on from the offset stored.
RestartAtStored(w) ==
  /\ mode[w] = "down"
  /\ mode' = [mode EXCEPT ![w] = "reading"]
  /\ position' = [position EXCEPT ![w] = stored[w]]
  /\ UNCHANGED <<processVars, stored>>

\* NewSuperStreamConsumer in a new process: from the first message.
Restart(w) ==
  /\ mode[w] = "down"
  /\ mode' = [mode EXCEPT ![w] = "reading"]
  /\ position' = [position EXCEPT ![w] = 0]
  /\ UNCHANGED <<processVars, stored>>

-----------------------------------------------------------------------------
Running(w) == ProcessStep(w) /\ UNCHANGED <<position, stored, mode>>

Worker(w) ==
  \/ Receive(w)
  \/ Skip(w)
  \/ Running(w)
  \/ Success(w)
  \/ Failure(w)
  \/ Detach(w)
  \/ Close(w)
  \/ Exit(w)
  \/ Crash(w)
  \/ Restart(w)

Next ==
  \/ \E w \in Workers : Worker(w)
  \/ Others /\ UNCHANGED <<position, stored, mode>>

Spec == Init /\ [][Next]_vars

-----------------------------------------------------------------------------
AtEnd(w) == mode[w] # "down" /\ pc[w] = "idle" /\ position[w] = Len(Log[w])

\* A failed message does not come again while the process lives, so all that
\* brings it back is the next start.  As long as the service is started again
\* now and then and gets through its partitions, every applicable event is
\* processed in the end, whatever failed meanwhile: no offset that was stored
\* past a failed message may keep it from being read.
ReplayedIsProcessed ==
  (\A w \in Workers : []<>AtEnd(w) /\ []<>(mode[w] = "down"))
    => \A m \in Messages : Applicable(m) => <>Recorded(m)
=============================================================================
