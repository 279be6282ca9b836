----------------------------- MODULE Bootstrap -----------------------------
(***************************************************************************)
(* The life of one service process (internal/bootstrap, app.go): main      *)
(* loads the configuration, New opens the databases, the AMQP connection   *)
(* and the super stream; Run starts a consumer goroutine for each enabled  *)
(* event source on a queue named after it, waits for a signal and shuts    *)
(* down.  The goroutines share one AMQP channel, which the broker closes   *)
(* when any operation on it fails, and meet Run again in a WaitGroup.      *)
(*                                                                         *)
(* What a goroutine does with a message is the matter of AmqpConsumer and  *)
(* StreamConsumer; here it is only whether it is at work.                  *)
(***************************************************************************)
EXTENDS Config, Sequences, FiniteSets

CONSTANTS
  Environments, \* the pairs [os, file] of what is set when the process starts
  Databases,  \* the databases there are
  Topics,     \* the rows of event_sources: topic names, sequences of characters
  Enabled,    \* those with enabled = true
  BadTopics,  \* topics whose declaration the broker refuses, e.g. because the
              \* exchange exists with another type
  Plain,      \* the small letters, the digits and '_'
  Lower,      \* Lower[c]: the small letter of the capital c
  MaxFaults   \* bound: how many calls fail, or connections break

ASSUME TopicsTyped ==
  IsFiniteSet(Topics) /\ Enabled \subseteq Topics /\ BadTopics \subseteq Topics /\ MaxFaults \in Nat

\* The name of a topic that has no character to keep.
Default == <<"d", "e", "f", "a", "u", "l", "t">>

ASSUME NamesTyped ==
  /\ Topics \subseteq Seq(STRING)
  /\ \A i \in DOMAIN Default : Default[i] \in Plain
  /\ Plain \cap DOMAIN Lower = {}

VARIABLES
  environment,  \* what is set when the process starts
  cfg,        \* the configuration, once it is loaded
  at,         \* where main is, or how the process ended
  todo,       \* the sources Run has still to set up
  channel,    \* the AMQP channel: "none", "open", "broken" or "closed" by Close
  window,     \* the prefetch count in force on it
  stream,     \* the stream consumer: "none", "open", "closed"
  worker,     \* worker[t]: the goroutine of source t
  closer,     \* the goroutine that waits for the context to close the stream
  wg,         \* the WaitGroup's counter
  cancelled,  \* Run's context
  faults      \* failures so far

settings == <<environment, cfg, window>>
vars == <<settings, at, todo, channel, stream, worker, closer, wg, cancelled, faults>>

InNew == {"load", "setupDB", "setupUsersDB", "newConsumer", "newStream"}
InRun == {"startStream", "listEnabled", "ensureQueues", "waitSignal",
          "waitWorkers", "closeConsumer", "closeStream"}
Ends == {"newFailed", "runFailed", "stopped", "killed"}

Live == at \notin Ends

\* How many prefetch counts there are: the protocol has two bytes for one.
Uint16 == 65536

\* The goroutines that Run waits for.
AtWork == {t \in Topics : worker[t] \in {"spawned", "consuming", "handling"}}
CloserAtWork == closer \in {"waiting", "closing"}

\* The counter of the WaitGroup is the number of these goroutines: one more and
\* Wait never returns, one less and it returns under a goroutine or Done panics
\* (wg.Add and the deferred wg.Done of runConsumerWorkers).
TypeOK ==
  /\ at \in InNew \cup InRun \cup Ends
  /\ todo \subseteq Topics
  /\ channel \in {"none", "open", "broken", "closed"}
  /\ window \in Nat /\ window < Uint16
  /\ stream \in {"none", "open", "closed"}
  /\ worker \in [Topics -> {"none", "spawned", "consuming", "handling", "done"}]
  /\ closer \in {"none", "waiting", "closing", "done"}
  /\ wg \in Nat
  /\ wg = Cardinality(AtWork) + (IF CloserAtWork THEN 1 ELSE 0)
  /\ cancelled \in BOOLEAN
  /\ faults \in 0..MaxFaults

Init ==
  /\ environment \in Environments
  /\ cfg = <<>>
  /\ window = 0
  /\ at = "load"
  /\ todo = {}
  /\ channel = "none"
  /\ stream = "none"
  /\ worker = [t \in Topics |-> "none"]
  /\ closer = "none"
  /\ wg = 0
  /\ cancelled = FALSE
  /\ faults = 0

Fault == faults < MaxFaults /\ faults' = faults + 1

goroutines == <<worker, closer, wg, cancelled>>

-----------------------------------------------------------------------------
(***************************************************************************)
(* New.  Each step works, or New returns an error and main exits.          *)
(***************************************************************************)

\* config.Load, which has a value for everything.
LoadConfig ==
  /\ at = "load"
  /\ at' = "setupDB"
  /\ cfg' = Load(environment.os, environment.file)
  /\ UNCHANGED <<environment, window, todo, channel, stream, goroutines, faults>>

\* A database is opened, migrated and pinged.  Opening one that is not there
\* fails like any other step.
Connects(database) == database \in Databases /\ UNCHANGED faults
Fails(database) == IF database \in Databases THEN Fault ELSE UNCHANGED faults

SetupDB ==
  /\ at = "setupDB"
  /\ \/ Connects(cfg.database) /\ at' = "setupUsersDB"
     \/ Fails(cfg.database) /\ at' = "newFailed"
  /\ UNCHANGED <<settings, todo, channel, stream, goroutines>>

\* The configuration always names a database, so that this is always another
\* connection: setupUsersDB never falls back on the primary database.
SetupUsersDB ==
  /\ at = "setupUsersDB"
  /\ \/ Connects(cfg.usersDB) /\ at' = "newConsumer"
     \/ Fails(cfg.usersDB) /\ at' = "newFailed"
  /\ UNCHANGED <<settings, todo, channel, stream, goroutines>>

\* Dial, Channel and Qos; what was opened before an error is closed again.
\* What is left of the prefetch count in two bytes is sent, and 0 is no limit.
NewConsumer ==
  /\ at = "newConsumer"
  /\ \/ /\ at' = "newStream" /\ channel' = "open"
        /\ window' = cfg.prefetch % Uint16
        /\ UNCHANGED faults
     \/ at' = "newFailed" /\ Fault /\ UNCHANGED <<channel, window>>
  /\ UNCHANGED <<environment, cfg, todo, stream, goroutines>>

StreamConfigured == cfg.streamEnabled /\ cfg.superStreamName # ""

\* Mutation of AfterStreamError: the AMQP connection is left open.
AfterStreamErrorLeaks == "open"

\* consumer.Close.
AfterStreamError == "closed"

\* The stream consumer, if the configuration has one; on an error the AMQP
\* consumer is closed.
NewStream ==
  /\ at = "newStream"
  /\ \/ /\ at' = "startStream"
        /\ stream' = IF StreamConfigured THEN "open" ELSE "none"
        /\ UNCHANGED <<channel, faults>>
     \/ /\ StreamConfigured /\ Fault
        /\ at' = "newFailed" /\ channel' = AfterStreamError /\ UNCHANGED stream
  /\ UNCHANGED <<settings, todo, goroutines>>

-----------------------------------------------------------------------------
(***************************************************************************)
(* Run.                                                                    *)
(***************************************************************************)

\* Mutation of Add: forgotten.
AddForgotten == wg' = wg

Add == wg' = wg + 1

\* Mutation of AddCloser: the goroutine is not counted.
AddCloserForgotten == wg' = wg

AddCloser == Add

\* A goroutine that will close the stream consumer, which already reads.
StartStream ==
  /\ at = "startStream"
  /\ at' = "listEnabled"
  /\ \/ stream = "open" /\ closer' = "waiting" /\ AddCloser
     \/ stream = "none" /\ UNCHANGED <<closer, wg>>
  /\ UNCHANGED <<settings, todo, channel, stream, worker, cancelled, faults>>

\* On an error Run returns at once, and main exits with everything open.
ListEnabled ==
  /\ at = "listEnabled"
  /\ \/ at' = "ensureQueues" /\ todo' = Enabled /\ UNCHANGED <<cancelled, faults>>
     \/ at' = "runFailed" /\ Fault /\ cancelled' = TRUE /\ UNCHANGED todo
  /\ UNCHANGED <<settings, channel, stream, worker, closer, wg>>

\* Mutation of Kept: '_' is dropped like '.'.
KeptWithout(c) == c \in (Plain \ {"_"}) \cup DOMAIN Lower

\* Letters, digits and '_' are kept, every other character is dropped.
Kept(c) == c \in Plain \cup DOMAIN Lower

Lowered(c) == IF c \in DOMAIN Lower THEN Lower[c] ELSE c

\* sanitizeQueueName, one character after the other, behind the same prefix for
\* every topic.
QueueName(topic) ==
  LET kept[n \in 0..Len(topic)] ==
        IF n = 0 THEN <<>>
        ELSE IF Kept(topic[n]) THEN Append(kept[n - 1], Lowered(topic[n])) ELSE kept[n - 1]
      name == kept[Len(topic)]
  IN  IF name = <<>> THEN Default ELSE name

\* Consumer.EnsureQueue gets an error: the broker refuses to declare the
\* exchange or the queue of t, or to bind them, and closes the channel.
Refused(t) ==
  \/ t \in BadTopics /\ UNCHANGED faults
  \/ Fault

\* Exchange, queue and binding of a source, then its goroutine.  An error of
\* the broker closes the channel; the loop goes on with the next source.
EnsureQueue(t) ==
  /\ at = "ensureQueues" /\ t \in todo
  /\ todo' = todo \ {t}
  /\ \/ /\ channel = "open" /\ t \notin BadTopics
        /\ worker' = [worker EXCEPT ![t] = "spawned"]
        /\ Add
        /\ UNCHANGED <<channel, faults>>
     \/ /\ channel = "open" /\ Refused(t)
        /\ channel' = "broken"
        /\ UNCHANGED <<worker, wg>>
     \/ channel # "open" /\ UNCHANGED <<channel, worker, wg, faults>>
  /\ UNCHANGED <<settings, at, stream, closer, cancelled>>

\* signal.Notify, after every source had its turn.
AwaitSignal ==
  /\ at = "ensureQueues" /\ todo = {}
  /\ at' = "waitSignal"
  /\ UNCHANGED <<settings, todo, channel, stream, goroutines, faults>>

\* Mutation of Cancel: the context is left to the deferred cancel.
CancelDeferred == cancelled' = cancelled

Cancel == cancelled' = TRUE

\* SIGINT or SIGTERM: cancel the context, then wait.
Stop ==
  /\ at = "waitSignal"
  /\ at' = "waitWorkers"
  /\ Cancel
  /\ UNCHANGED <<settings, todo, channel, stream, worker, closer, wg, faults>>

\* A signal that comes before Notify, or any other death, takes all with it.
Kill ==
  /\ Live
  /\ at' = "killed"
  /\ UNCHANGED <<settings, todo, channel, stream, goroutines, faults>>

AllDone ==
  /\ at = "waitWorkers" /\ wg = 0
  /\ at' = "closeConsumer"
  /\ UNCHANGED <<settings, todo, channel, stream, goroutines, faults>>

\* Consumer.Close: the channel is set to nil.
CloseConsumer ==
  /\ at = "closeConsumer"
  /\ at' = "closeStream"
  /\ channel' = "closed"
  /\ UNCHANGED <<settings, todo, stream, goroutines, faults>>

\* A second Close of the stream consumer finds its fields nil.
CloseStream ==
  /\ at = "closeStream"
  /\ at' = "stopped"
  /\ stream' = IF stream = "open" THEN "closed" ELSE stream
  /\ UNCHANGED <<settings, todo, channel, goroutines, faults>>

Main ==
  \/ LoadConfig \/ SetupDB \/ SetupUsersDB \/ NewConsumer \/ NewStream
  \/ StartStream \/ ListEnabled \/ (\E t \in Topics : EnsureQueue(t)) \/ AwaitSignal
  \/ AllDone \/ CloseConsumer \/ CloseStream

-----------------------------------------------------------------------------
(***************************************************************************)
(* The goroutines.                                                         *)
(***************************************************************************)

main == <<settings, at, todo, stream, closer, cancelled>>

WorkerTo(t, place) == worker' = [worker EXCEPT ![t] = place]

\* Mutation of Done: called, and deferred as well.
DoneTwice == wg' = wg - 2

Done == wg' = wg - 1

\* basic.consume on the shared channel; its error ends the goroutine.
StartConsume(t) ==
  /\ Live /\ worker[t] = "spawned"
  /\ \/ channel = "open" /\ WorkerTo(t, "consuming") /\ UNCHANGED <<channel, wg, faults>>
     \/ /\ channel = "open" /\ Fault /\ channel' = "broken"
        /\ WorkerTo(t, "done") /\ Done
     \/ channel # "open" /\ WorkerTo(t, "done") /\ Done /\ UNCHANGED <<channel, faults>>
  /\ UNCHANGED main

\* A delivery, be the context cancelled or the channel broken meanwhile: some
\* are already at the client.
Deliver(t) ==
  /\ Live /\ worker[t] = "consuming"
  /\ channel \in {"open", "broken"}
  /\ WorkerTo(t, "handling")
  /\ UNCHANGED <<main, channel, wg, faults>>

Handled(t) ==
  /\ Live /\ worker[t] = "handling"
  /\ WorkerTo(t, "consuming")
  /\ UNCHANGED <<main, channel, wg, faults>>

ConsumeReturns(t) ==
  /\ Live /\ worker[t] = "consuming"
  /\ cancelled \/ channel # "open"
  /\ WorkerTo(t, "done")
  /\ Done
  /\ UNCHANGED <<main, channel, faults>>

\* The goroutine of the stream: <-ctx.Done(), then Close.
CloserWakes ==
  /\ Live /\ closer = "waiting" /\ cancelled
  /\ closer' = "closing"
  /\ UNCHANGED <<settings, at, todo, channel, stream, worker, wg, cancelled, faults>>

CloserDone ==
  /\ Live /\ closer = "closing"
  /\ closer' = "done"
  /\ stream' = "closed"
  /\ Done
  /\ UNCHANGED <<settings, at, todo, channel, worker, cancelled, faults>>

\* The connection breaks; nothing opens another one.
LoseChannel ==
  /\ Live /\ channel = "open"
  /\ Fault
  /\ channel' = "broken"
  /\ UNCHANGED <<settings, at, todo, stream, goroutines>>

Next ==
  \/ Main
  \/ Stop
  \/ Kill
  \/ \E t \in Topics : StartConsume(t) \/ Deliver(t) \/ Handled(t) \/ ConsumeReturns(t)
  \/ CloserWakes
  \/ CloserDone
  \/ LoseChannel

Spec == Init /\ [][Next]_vars

\* main and every goroutine are scheduled and every call returns; nobody has
\* to send a signal.  ConsumeReturns is one case of a select: chosen when
\* offered again and again.
Fairness ==
  /\ WF_vars(Main)
  /\ WF_vars(CloserWakes)
  /\ WF_vars(CloserDone)
  /\ \A t \in Topics :
       /\ WF_vars(StartConsume(t))
       /\ WF_vars(Handled(t))
       /\ SF_vars(ConsumeReturns(t))

FairSpec == Spec /\ Fairness

-----------------------------------------------------------------------------
\* Close sets the channel to nil without regard to Consume, which reads it
\* without the mutex: Close may only come when no goroutine uses or will use
\* the channel, the one just spawned included (wg in Run, runConsumerWorkers).
CloseAfterWork ==
  at \in {"closeConsumer", "closeStream", "stopped"}
    => \A t \in Topics : worker[t] \in {"none", "done"}

\* SuperStreamConsumer.Close checks and clears its fields without a lock and
\* is called from two goroutines: never at the same time.
OneCloser == at = "closeStream" => closer \notin {"waiting", "closing"}

\* When New returns an error, and when Run ends after a signal, neither of the
\* connections to the broker is left open, whichever step failed (those to the
\* databases are left to the end of the process).
NothingLeftOpen ==
  at \in {"newFailed", "stopped"} => channel # "open" /\ stream # "open"

\* The text of a variable: the environment's, even when it is empty, and only
\* then the file's ("Values from the OS environment take precedence; if unset,
\* variables are loaded from .env", config.go:69).
Given(key) ==
  LET os == environment.os
      file == environment.file
  IN  IF key \in DOMAIN os THEN os[key] ELSE IF key \in DOMAIN file THEN file[key] ELSE ""

\* A process that got through New runs what its environment asks for, whatever
\* the file says besides: the super stream if it is enabled and named, on the
\* broker of the queues unless one of the two has an address of its own, and a
\* prefetch count that the protocol can carry (README, "Configuration").
RunsAsConfigured ==
  at \in InRun =>
    /\ stream = "none" <=>
         Given("RABBITMQ_STREAM_ENABLED") # "true" \/ Given("RABBITMQ_SUPER_STREAM_NAME") = ""
    /\ IF Given("RABBITMQ_URL") # "" THEN cfg.amqp = [url |-> Given("RABBITMQ_URL")]
       ELSE Given("RABBITMQ_STREAM_HOST") = "" => cfg.stream = cfg.amqp
    /\ LET text == Given("RABBITMQ_PREFETCH") IN
       text \in DOMAIN Number /\ 0 <= Number[text] /\ Number[text] < Uint16
         => window = Number[text]

\* The letters, digits and '_' of a name, by their places.
Significant(s) == {i \in DOMAIN s : s[i] \in Plain \cup DOMAIN Lower}

\* Which of them is at place i; and what there is of a name, up to case.
Rank(s, i) == Cardinality({j \in Significant(s) : j <= i})
Text(s) == {<<Rank(s, i), Lowered(s[i])>> : i \in Significant(s)}

\* A name without any counts as "default".
Spelled(s) == IF Significant(s) = {} THEN Default ELSE s

\* Two goroutines share a queue, and then the events of both topics compete,
\* only if the names of the topics differ in nothing but case and characters
\* that are no letter, no digit and no '_' (sanitizeQueueName).
QueuesApart ==
  \A s, t \in Topics :
    /\ {worker[s], worker[t]} \subseteq {"spawned", "consuming", "handling"}
    /\ QueueName(s) = QueueName(t)
    => Text(Spelled(s)) = Text(Spelled(t))

\* After a signal the process ends, whatever the goroutines are doing, and
\* whatever broke before: nobody waits for a goroutine that nobody ends.
ShutdownCompletes == at = "waitWorkers" ~> at \in Ends

\* "Consume runs the handler for each delivery until ctx is cancelled"
\* (rabbitmq.go:55): no consumer is gone before.
ConsumesUntilCancelled ==
  Live => \A t \in Topics : worker[t] = "done" => cancelled
=============================================================================
