# User metadata service: TLA+ specifications

The service consumes events from RabbitMQ (queues, optionally a super stream),
evaluates the metadata rules of each event's type, applies the operations they
produce to `users.meta_data` of the event's user, and keeps two tables of what
happened: `processed_events` (idempotency) and `failed_events`. This directory
holds TLA+ models of it, the TLC runs that check them on small instances, and
theorems about them proved with TLAPS. `PROJECT.json` maps every definition to
the lines it stands for.

## Inventory

| Component | State | Operations | Interacts with | Hard about it | What makes it correct |
|---|---|---|---|---|---|
| Message handler and use case (`rabbitmq_consumer.go`, `process_event.go`) | none; locals across database calls | `Handle`, `ProcessEvent` | idempotency service, repositories, rule engine; called by each consumer goroutine | five to six calls on two databases, each of which may fail, with no common transaction; the document is read early and written back whole | an acknowledged event left a row; no effect lost; none applied twice |
| Idempotency service, transactions | `processed_events` | `Exists`, `RecordProcessedOnly`, `RecordSuccess` | both databases | two writes, a crash or failure between them, a failed call that took effect | row implies effect; effect at most once |
| Repositories | `users`, `failed_events`, rules | reads and writes | other applications write users and rules | rows that vanish, JSON columns | failures are recorded |
| AMQP consumer (`rabbitmq.go`, `makeAMQPHandler`) | deliveries, prefetch window, channel | `Consume`, Ack, Nack | broker, handler | redelivery, requeueing, lost channels with deliveries still at the client, a window full of hopeless messages | every message in one place; every message settled in the end |
| Super stream consumer (`stream_consumer.go`) | position, stored offset | `handleMessages`, `StoreOffset`, `Close` | broker, handler | no redelivery of what failed; everything again at each start | replays add nothing to a processed event and bring back what failed |
| Process life cycle (`app.go`, `main.go`) | goroutines, WaitGroup, context, connections | `New`, `Run` | everything | partial failure of the start, one channel for all queues, shutdown | nothing closed under a goroutine, nothing left open, shutdown completes |
| Event sources, queue set-up | `event_sources`, exchanges, queues | `ListEnabled`, `EnsureQueue` | broker | a refused declaration, name collisions | one source does not harm another |
| Rule repository (`metadata_rule_repository.go`) | `metadata_rules`, actions | `FindByEventTypeAndVersion` | rule engine | versions that are NULL or empty, orders the query leaves open | what is stored depends on the table, not on the order of its rows |
| Rule engine (`rule_engine.go`) | document under evaluation | `EvaluateRules`, conditions, value sources, `applyOpToMap` | executor | values shared between document and operations, numeric coercions | evaluated document equals stored one; result is what the rules mean |
| Metadata executor (`metadata_executor.go`) | document being computed | `ComputeResult`, `applyOp` | rule engine's operations | aliasing maps and slices, zero as "missing" | an operation changes its own key only |
| Configuration (`config.go`) | environment, `.env` | `Load` | `New` | two places for each variable, texts that are empty or do not parse, defaults that hide a mistake | a process runs what its environment asks for |
| Mappers, entities, ports, logger | none that changes | | | | not modelled: no state and no interleaving |

## The modules

| Module | Models |
|---|---|
| `ProcessEvent` | the handler, one action per database call, and the properties of the two databases |
| `AmqpConsumer` | `ProcessEvent` under queue consumers: the prefetch window, deliveries, Ack/Nack, lost channels, shutdown, crash, restart |
| `StreamConsumer` | `ProcessEvent` under the partitions of a super stream |
| `AtomicProcessing` | abstract: the event flow of the repository's README, document and row in one step |
| `AmqpRefinement` | the mapping from `AmqpConsumer` to `AtomicProcessing` |
| `Config` | what `Load` makes of the environment and `.env` |
| `Bootstrap` | one process from `Load` and `New` to its end: connections, queues and their names, goroutines, WaitGroup, shared channel, signal |
| `Document` | JSON values, Go values on a heap of objects and backing arrays, paths, comparison |
| `RuleRepository` | the rows of `metadata_rules` an event selects, and the orders they may come in |
| `RuleSemantics` | what a table of rules means for an event: one operation after the other, on plain JSON values, without sharing |
| `RuleEngine` | `FindByEventTypeAndVersion`, `EvaluateRules` and `ComputeResult` over the heap |
| `ProcessEventProofs` | lemmas about the handler, for both consumers |
| `AmqpConsumerProofs`, `AmqpRefinementProofs` | theorems about the queue consumers: deliveries, acknowledgements and documents; the refinement |
| `StreamConsumerProofs` | theorems about the stream consumer |
| `BootstrapProofs` | theorems about the process, its configuration and the names of its queues |
| `RuleEngineProofs` | theorems about the heap of the rule engine |
| `RuleMeaningProofs` | what the evaluation of one action does to the document, and why the order of a table does not matter |
| `RuleResultProofs` | what all of them do to the document that is stored |
| `MCMessages`, `MCAmqp`, `MCStream`, `MCBootstrap`, `MCRules` | instances for TLC |

### Correspondence with the code

*Handler.* `pc[w]` names the database call the goroutine `w` makes next. One
action is one call together with the code up to the next call: `CheckProcessed`
(`Exists`, `resolveUserID`), `FindRules`, `GetMetaData` (with `EvaluateRules`
and `ComputeResult`, which are pure), `UpdateMetaData` and `CreateProcessed`
(the two writes of `RecordSuccess`; the second one alone is
`RecordProcessedOnly`), `RecordFailed` (`CreateFromError`, whose error is
discarded). Each early return of the code is a branch to `ack` (nil) or `nack`
(an error). `msg`, `plan` and `base` are the locals: event, rules, document.

*Failures.* A call replies or errs: because the database fails (bounded by
`MaxFaults`) or because the context was cancelled. A write that errs may or
may not have been applied. `Fallible` says which calls and which events
(`channel`, `shutdown`, `crash`) a run lets fail.

*Documents.* `meta[u][m]` counts how often the operations of message `m` are in
the stored document of user `u`: what a counter kept by `increment` shows. This
tells a lost update (a decrease) and a double application (2) from a correct
one, and no more; what the operations do to a document is the matter of
`RuleEngine`. Rules come as what they amount to: none, no operation,
operations, or a result `json.Marshal` rejects.

*Broker.* `ready` is the content of the queues. The broker pushes the first
message of a queue (`Push`; `Position` orders them, and a requeued message takes
its old place) to a consumer whose channel is open and whose unanswered
messages are fewer than `Prefetch` (Qos; 0 is no limit). `window[w]` is what was
pushed and waits in the client; `Deliver` is the `select` of `Consume` taking one
of them, and `Outstanding(w)` is what the broker waits for an answer about. A
channel that closes gives all of it back at once, while the client still hands
out what it holds and its handler goes on: these are deliveries whose Ack and
Nack have no effect (`Valid`). Context, channel and process are kept per worker,
where the workers of one process share them: this allows more behaviours, and
each shared event is one step per worker.

*Stream.* `position[w]` moves with each message handed out, whatever the handler
returns; `stored[w]` is the offset stored after a success, which no start of
the service reads: each begins at the first message. Handlers run on
`context.Background()`, so only the end of the process stops them.

*Process.* `at` is the place of `main`; `worker[t]` is the goroutine of an event
source, `closer` the one that closes the stream; `wg` is the counter of the
WaitGroup. An error on the shared channel breaks it for all (`channel =
"broken"`), as AMQP has it.

*Configuration.* An environment is a pair of functions from variables to their
text, what the process was started with and the file; `LoadConfig` is the first
step and evaluates `Config!Load`. `Number` gives the integers of the texts that
parse. The databases that exist, the stream consumer that is created and the
prefetch count in force (`window`, a uint16) follow from `cfg`. The users
database is always configured: `Load` has a default for its name, so the
single-database mode is not reached, and opening a database that does not exist
fails. Topics are sequences of characters, and `QueueName` goes through them as
`sanitizeQueueName` does, one after the other: small letters, digits and `_`
(`Plain`) are kept, capitals become small letters (`Lower`), everything else is
dropped, and a topic of which nothing is left gets the name `default`.

*Rules.* Both copies of the document are decoded from the column `meta_data`; NULL
and what is no JSON object is read as an empty document (`Unmarshalled`). `Find`
selects the rows; `BeginRule` takes any row of the highest
priority left (`ORDER BY priority DESC` and nothing else), and `Evaluate` any of
its actions left: `Preload` has no order, and the column `execution_order` is
read by nothing. Objects are references into `heap`, lists are slices
(reference, length) of backing arrays with spare capacity, so that what Go
shares is shared in the model. `evaluated`/`metaMap` follow `EvaluateRules`,
`ops`/`meta`/`applied` follow `ComputeResult`. Conditions and templates are taken
already parsed, numbers are integers (floats in the code: the operations used
are exact on them).

## What the runs show

| Run | Shows |
|---|---|
| `amqp_partitioned` | One queue per user, two workers, one queue with an event at its head that is requeued for ever. Any database call may fail with or without effect, workers are stopped or die anywhere, twice. `EffectsAreStable`: no effect is lost. `ProcessedIsFinal`: nothing is added once an event has its row. `ProcessedIsApplied`: the row implies the operations. `EventuallySettled`: every other message is settled, as long as the hopeless ones are fewer than the prefetch count. |
| `amqp_replicas` | Two replicas of one queue, rules and users edited meanwhile, lost channels, crashes, deliveries that are stale. `Conservation`: every message is in its queue, with one consumer, or settled. `AckedIsProcessed`: an applicable event is acknowledged only with its row. `AckedIsRecorded`: any message only with a row in one of the tables. `DeletedStaysDeleted`: a user deleted under a handler does not come back. |
| `amqp_atomic` | The two writes are one transaction and no handler records a failure with its context cancelled (`AtomicSpec`); otherwise calls fail, channels are lost, processes are stopped and die, before and after an event is applied. The consumers implement `AtomicProcessing` (`ImplementsPromise`), and an event that has an id is applied at most once (`AppliedAtMostOnce`). |
| `stream` | Two partitions, read again by every process. Replays add nothing to a processed event, and an event that failed is processed by a later start (`ReplayedIsProcessed`), as long as starts go on and get through the log. |
| `bootstrap` | Six environments, from `Load` to the end of the process. `CloseAfterWork`: the channel is set to nil only when no goroutine uses it or will. `OneCloser`: the stream is never closed by two goroutines at once. `NothingLeftOpen`: a failed `New` and a completed `Run` leave no connection to the broker. `RunsAsConfigured`: stream, brokers and prefetch count are those the variables ask for. `QueuesApart`: two topics share a queue only if they differ in nothing but case and dropped characters, where a topic without any other character counts as `default`. `ShutdownCompletes`. |
| `rules` | Every table of four of thirteen actions in one rule, and every part of a catalogue of six rules, for events with and without a version, in every order the query leaves open. `StoredIsEvaluated`: the document stored is the one later conditions saw. `EvaluationIsMeaning`: an action sees the effects of those before it and does to the document what `RuleSemantics` says of it. `ResultIsMeaning`: the document stored is what all actions evaluated make of the one that was read. `ResultIsOfTable`: it is what the table means by its priorities, whatever the order of the rest, when the actions of one priority do not concern each other. `KeyLevel`: an operation changes no other key. |

Six runs end in a violation; each is a disagreement between the code and what
the repository says (the quotes are under `findings`):

| Run | Disagreement |
|---|---|
| `amqp_shutdown` | Document and row are not one transaction: a SIGTERM between them makes the next process apply the event again. |
| `amqp_lost_update` | Two replicas with two events of one user: the later write erases the effect of the earlier one, and both events count as processed. |
| `amqp_bad_body` | A body that is not JSON does not fit the JSON column of `failed_events`; it is acknowledged and kept nowhere. |
| `bootstrap_refused` | A source the broker refuses closes the channel of all: every consumer ends and the process waits for a signal. A lost connection does the same. |
| `rules_sharing` | A key set to an object of the document shares it: a merge into one changes the other. |
| `rules_status` | `event.data.status == "active"` holds for every status: strings that are no numbers compare as 0. |

Hence the positive results hold under these conditions, each made explicit in a
configuration or a specification: the events of a user and the duplicates of an
event reach one worker (`amqp_partitioned`, `amqp_atomic`, `stream`); nothing
comes between the two writes, and events have an id (`AppliedAtMostOnce`; the
first of them for `ImplementsPromise` too); `CreateFromError` does not fail, bodies are JSON and no
handler is at `recordFailed` with its context cancelled (`AckedIsRecorded`,
`ImplementsPromise`; `amqp_replicas` has no shutdown); channels are not lost
(`EventuallySettled`); no value is an object or list of the document, no
condition compares strings, and actions of one priority do not concern each
other where the order is open (`rules`, where `min` also treats a stored 0 as the
code does).

Other behaviour that a reader should know of is in the models and in no
violated run. An event without an id gets a new key in every call of `EventID`:
a redelivery applies it again, even if document and row were one transaction, and so
does every start for the stream's events of this kind; `AppliedAtMostOnce` is about
events with an id, and the stream run has no others. Two replicas with two copies
of one event may both find it unprocessed and apply it twice. A SIGTERM while
`CreateFromError` runs makes its insert fail on the cancelled context; the message
is acknowledged and kept nowhere. Actions of one rule come in any order, whatever
their `execution_order`. The minimum of a stored 0 and a larger number is the larger
one. An event whose user is deleted between the read and the
update is marked as processed although nothing was written. A rule whose
version is NULL is not found for events with a version; `Concerns` takes this
reading of the query. Topics that differ only in case or in dropped characters
share a queue. An event whose result `json.Marshal`
rejects is requeued for ever; `EventuallySettled` fails with as many of them in
one queue as the prefetch count, the messages behind them are never pushed. A
`CLASSIFIED8_DATABASE` that is unset does not mean `DATABASE` for both (README,
line 50) but the default `classified8`: `New` fails if there is none. With
`RABBITMQ_URL` alone the stream consumer still connects to `RABBITMQ_HOST` or
`localhost`.

### Bounds

* Messages (`MCMessages`): two duplicates of one event, a second event of the
  same user, an event without an id of another user, one of a third user, and a
  body that is no event. Four of them at a time are enough for two workers to
  hold two conflicting messages while others wait.
* Workers: two. In the replica runs both may hold messages of one user. In the
  partitioned runs each has its own users: what a property says of a user or an
  event there concerns one worker at a time, its failures, its restarts and the
  rows, while the other runs in between on the same tables.
* Messages of a run: `amqp_partitioned` has two duplicates and a hopeless event at the
  first worker and a body that is no event at the second; `amqp_atomic` has the other
  event of the duplicates' user and one without an id in place of the hopeless one.
* Queue: in `amqp_partitioned` the prefetch count is 2, so that a hopeless message
  at the head leaves room for one other; the rest has one place in the queue,
  in any order. In the other runs the count is 1 and the order open.
* `MaxFaults` 1 or 2: one failure to interrupt a handler, a second to interrupt
  its retry. Counters in the store grow only with failures in these runs.
* Stream: closing and restarting is not bounded; only an exit that cuts off a
  handler counts as a failure. `failed` would grow with every replay of an
  event that cannot be processed, so the stream run has none.
* Bootstrap: five enabled sources. Two pairs have one queue name (`a.b`, which the
  broker refuses, and `A-b`; `.`, of which nothing is kept, and `default`), and
  one differs from the first pair by a kept `_`. A disabled source; two more failures. Six
  environments: nothing set; everything set in both places; texts that are
  empty or no number; a URL; a stream host; a database that does not exist.
  Prefetch counts 0, 5, -1 and 65537.
* Rules: a list that grows by `append` doubles its array up to 256 elements and has
  none to spare beyond, in the model and in the theorems. The proofs use no more
  of `Capacity` than that the elements fit.
* Rules: four actions of one rule, or up to six rules; an aliasing needs at most
  three actions (set, set, merge). Three columns: NULL, a list (both read as an
  empty document), and a document with a number, an object and a list with spare
  capacity; the list of the event has spare capacity too, so that the copies of the
  document that it is set in append to one array. The catalogue has a rule
  for each case of the query (version empty, NULL, equal, another; disabled;
  another type), two of one priority, and one with two equal actions.

No run checks for deadlock: each system rests when all messages are settled,
the process has ended or the document is computed.

### Fairness

`AmqpConsumer`: weak fairness of `Proceed`, a worker's own steps: the Go scheduler
runs every goroutine, a database call returns, with an error at worst, `Run`
returns after its workers, and a process that ended is started again by whatever
supervises it. A process that only lost its channel is not restarted: it does
not end. Strong fairness of `Push`: the place in the window comes and goes, and
the broker does not pass over for ever a message that is first whenever there is
room. Strong fairness of `Deliver`: the client's channel is first in, first out,
which the model leaves out, and a message in it has its turn. `ConsumeReturns`
has strong fairness: with the context cancelled and a delivery waiting, both
cases of the `select` are ready and Go picks at random, so the case is not passed
over for ever. `Bootstrap` assumes the same of its goroutines, and no signal.
`ReplayedIsProcessed` needs no fairness: it states what it assumes of restarts in
its own premise.

## What is proved

For every set of workers, messages, users, rules and event sources, every prefetch
count and queue order, and any number of failures (`MaxFaults` is any natural
number). The assumptions are those of the modules, which TLC evaluates on every
run: `ConstantsTyped` and `NoneIsNothing` of `ProcessEvent`, `QueueTyped` of
`AmqpConsumer`, `LogTyped` and `EmptyTyped` of `StreamConsumer`, `NumberTyped` of `Config`,
`TopicsTyped` of `Bootstrap` (the table of sources is finite), `NamesTyped` of the
same (topics are finite sequences of characters, those of `default` are kept as they
are, and a capital is no small letter) and `RulesTyped` of `RuleEngine` (an event is a
JSON object, a document a JSON value, and what an object holds is at most two
levels deep; priorities are integers).

| Theorem | Statement | Further assumption |
|---|---|---|
| `TypeCorrect` | `Spec => []TypeOK` | |
| `Conserved` | `Spec => []Conservation` | |
| `AckedProcessed` | `Spec => []AckedIsProcessed` | |
| `AckedRecorded` | `Spec /\ []Uncancelled => []AckedIsRecorded` | `FailuresRecorded` |
| `DeletedStays` | `Spec => []DeletedStaysDeleted` | |
| `EffectsStable` | `Spec => EffectsAreStable` | `ExclusiveUsers` |
| `ProcessedFinal` | `Spec => ProcessedIsFinal` | `ExclusiveUsers`, `ExclusiveEvents` |
| `ProcessedApplied` | `Spec => []ProcessedIsApplied` | `ExclusiveUsers` |
| `AppliedOnce` | `UndividedSpec => []AppliedAtMostOnce` | `ExclusiveEvents` |
| `Implements` | `AtomicSpec => ImplementsPromise` | `ExclusiveUsers`, `ExclusiveEvents`, `OneQueue`, `FailuresRecorded`, `VolatileUsers = {}` |
| `StreamTypeCorrect` | `Spec => []TypeOK` of `StreamConsumer` | |
| `StreamProcessedFinal` | `Spec => ProcessedIsFinal`, of the stream | `ExclusiveUsers`, `ExclusiveEvents` |
| `StreamProcessedApplied` | `Spec => []ProcessedIsApplied`, of the stream | `ExclusiveUsers` |
| `StreamEffectsStable` | `Spec => EffectsAreStable`, of the stream | `ExclusiveUsers` |
| `BootstrapTypeCorrect` | `Spec => []TypeOK` of `Bootstrap`: the counter of the WaitGroup is the number of goroutines at work | |
| `ClosedAfterWork` | `Spec => []CloseAfterWork` | |
| `OnlyOneCloser` | `Spec => []OneCloser` | |
| `AllClosed` | `Spec => []NothingLeftOpen` | |
| `AsConfigured` | `Spec => []RunsAsConfigured` | |
| `SameQueueSameText` | `Spec => []QueuesApart` | |
| `KeysApart` | `Spec => KeyLevel` | `[]NoSharing` |
| `EvaluationMeant` | `Spec => EvaluationIsMeaning` | `[]Shallow`, `[]NoStrings` |
| `ResultMeant` | `Spec => []ResultIsMeaning` | `[]Shallow`, `[]NoStrings` |
| `TableMeant` | `Spec => []ResultIsOfTable` | `[]Shallow`, `[]NoStrings` |
| `StoredEvaluated` | `Spec => []StoredIsEvaluated` | `[]Shallow` |

What is assumed further, and why:

* `ExclusiveUsers`, `ExclusiveEvents`: the events of a user, the duplicates of an
  event, are one worker's. `amqp_lost_update` shows that no theorem about
  documents can do without.
* `Undivided`, in `UndividedSpec` and `AtomicSpec`: a premise about steps. An UPDATE
  that errs had no effect, and what comes after one that took effect is the INSERT
  of the row, which takes effect too, although its reply may be lost and the
  context cancelled. Everything else that can fail does, before, after and at
  other workers: a message whose event was applied is handled again after a lost
  reply, a lost channel, a SIGTERM or a crash. `amqp_shutdown` shows what happens
  without.
* `FailuresRecorded`: `CreateFromError` is not made to fail and bodies are JSON.
  `Uncancelled`: no handler is at `recordFailed` with its context cancelled. The
  handler discards the error of `CreateFromError`; `amqp_bad_body` shows the
  consequence.
* `OneQueue`: no two workers share a queue. `VolatileUsers = {}`: no user row
  comes or goes. With rows that go, `Implements` is false: an UPDATE of no row
  is no error, and the event's row follows with the document gone.
* `NoSharing`: no action takes an object or a list of the document for its value.
  `rules_sharing` shows that `KeyLevel` is false otherwise. The tables of the run
  `rules` have no such action; the objects and lists of an event they do use.
* `Shallow`: nor is an object or a list appended to a list. Documents of the model
  are two levels deep, and such an operation would make a third: this one is a
  limit of the model, not of the code. The values of an event that are set, merged
  or compared may be of any kind.
* `NoStrings`: no condition compares two strings. `rules_status` shows that the
  result is not what the rules mean otherwise. What is stored is what was
  evaluated all the same: `StoredEvaluated` does without.

These three are about the actions that are evaluated with the document they find,
so they are premises about a behaviour and not about a table: whether a path of
the document leads to a scalar depends on the actions before.

The instances satisfy them: `MCAmqp` and `MCStream` state the exclusivity of their
queues and partitions as an `ASSUME`, and the constants of `amqp_atomic` are such
that all those of `Implements` hold together.

*One handler, two consumers* (`ProcessEventProofs`). Both consumers run the same
handler and differ in who calls it again. `HandlerStep` is what either does to the
state of `ProcessEvent`: a handler starts, calls a database, returns, a context
is cancelled, or somebody edits rules and users. Each consumer has a lemma
`HandlerView` that its steps are such steps; what is proved of `HandlerStep` then
serves both. `Locality` says that a step concerns one worker.

*Types.* `TypeOK` is inductive because it relates `pc` to the locals: a worker
past `resolveUserID` has an event with a user, so `UserId[msg[w]]` is an index
of `meta`; one at `ack` or `nack` has a message.

*Conservation* is inductive with `TypeOK`: the proof goes action by action. Ack,
Nack, a lost channel, a crash and an exit are all of one form (lemma `Release`):
a worker stops holding a set of messages, each of which is ready or settled in
the same step. What a stale delivery hands out is held by nobody.

*Acknowledgements.* `AckedIsProcessed` does not say what a handler about to
acknowledge knows. The invariant adds `AckOnlyRecorded` (a handler of an
applicable event never goes to `RecordFailed`, and reaches `ack` only with the
row) and `Static` (rules and users that nobody edits stay as they were), and
rests on rows never being deleted (`RowsStay`). `AckedIsRecorded` is about any
message: its invariant is `Answered` (a handler at `ack` has left a row in one of
the tables); a handler that reaches it from `recordFailed` has left one because its
context is live (`Uncancelled`).

*Documents.* A step preserves `EffectsStay` if the document about to be written
holds all that is stored. `Fresh` says so of every worker at `update`; it is
preserved because no other worker writes the same user (`Served` and
`ExclusiveUsers`). `Unprocessed` extends the answer of `Exists` to the end of the
handler, with `ExclusiveEvents`. `Written` says that at `insert` the operations of
the event are in the document; with `EffectsStay` they stay until the row is
there and ever after (`ProcessedApplied`). `DeletedStaysDeleted` is inductive with
the types: an update of a user without a row writes nothing.

*At most once.* `AppliedAtMostOnce` bounds counters that several handlers raise,
one after the other. `Once` adds that an event whose operations are in a document,
or in one a handler has read, is `Done`: it has its row, or is with a handler
between the two writes (`HalfWritten`). `Planned` says that such a handler has an
event with operations. `Undivided` is used twice: an update that raises a counter
leads to `insert`, and from there the row follows (`RowFollows`); what is done
stays so (`DoneStays`), and `Unprocessed` keeps a handler from adding the
operations of an event that is. Events without an id have no row to be found by,
and for them the bound is false under the same premise.

*The refinement* (`AmqpRefinementProofs`). The promise sees the document of a user
change when the row of the event is inserted: until then `Documents` shows what
the worker between the two writes has read. So `CreateProcessed` is `Apply` if the handler has operations and `MarkOnly` if the rules
have none (`WithRules`, which `PlanHolds` keeps: what a handler plans is what the rules of
its event may be), `RecordFailed` is `Reject`, `Acknowledge` on an open channel is `Settle`,
and every other step, `UpdateMetaData` included, changes nothing
(`StepSimulation`). The invariant of the mapping adds to those above `Unsettled`
(what a worker has was not answered before, which is where `OneQueue` and
`Conservation` are needed) and `Writing` (between the two writes the user has a row,
and the document is what was read and the event's operations: else the step of
the row would show something other than `Apply`). `Undivided` leaves a handler
between the two writes no way out but the row (`BeforeRow`).

*The life cycle* (`BootstrapProofs`). That nothing is closed under a goroutine
follows from the WaitGroup, but `CloseAfterWork` does not know what it counts. The
inductive invariant `IInv` adds `Counting` (the counter is the number of
goroutines at work, a cardinality), `NotBegun` (a source has no goroutine before
its turn, else `Add` would count one twice) and `AllEnded` (once `Wait` has
returned there are none); `Opened` says what is open where `main` is.

*The configuration.* `RunsAsConfigured` compares what runs with the texts of
`environment`; what `Load` made of them in between is `cfg`. The invariant
`Configured` keeps, from `LoadConfig` on, what `cfg` is, and, from the step that
creates it on, where the stream consumer goes and which `uint16` the prefetch
count became. `GetEnvGiven` and `Loaded` are the lemmas about `Config`: a variable
that is set, in the process before the file, is what is loaded.

*Queue names.* `QueuesApart` compares topics without going through them: `Text` of a
name is the set of its letters, digits and `_` up to case, each with its rank, the
number of such places up to it. `QueueName` is a loop. Lemma `LoopKeeps` is its
invariant, proved by induction on the number of characters read: what is kept of
the first `n`, as a set of places and characters, is the text of these `n`. So the
name of a topic determines its text (`NameIsText`), and two topics of one name
have one text. That `default` stands for two things, itself and nothing, is why
the property says `Spelled`.

*The heap* (`RuleEngineProofs`). `TypeOK` of `RuleEngine` asks for a cell for each
reference, and is not inductive: a reference that stands for an object in one
value and for a slice in another would lose its elements when the object is
written. `Sound` excludes it, and says that objects hold scalars. `Numbered` says
that the references which the evaluations and operations to come will take are
free. What an operation may do to the heap is lemma `ApplySound`: it changes no
cell but that of its key's value, adds no cell but a new one (`Touched`), and
the key gets a scalar, the operation's value, a new reference, or the one it had
(`ComesFrom`). For `KeyLevel` the invariant is `Apart`: no two keys of a document
have the same reference, nor two operations, nor an operation not yet applied and
the document it will be applied to. The two documents do share references with
operations, and in this way with each other; this is why a merge into an object
that came with an event is seen in both.

*One action* (`RuleMeaningProofs`). `Json` gives what a value denotes in a heap. The
lemma `ApplyMeaning` says that `ApplyOp` on the heap does to the JSON of a document
what `Changed` of `RuleSemantics` does: for the key of the operation by cases, an
append in place and one that moves the list to a larger array among them; for
the other keys because the only cell written is that of this key (`Touched`), and
by `Apart` no other key has it. Values are resolved and conditions evaluated alike on
the heap and on the JSON of it (`ConditionMeaning`, where `NoStrings` is needed).

*All actions* (`RuleResultProofs`). The operations are applied a second time, to a
copy that by then shares objects and lists with them and with the first copy.
When the first of them is applied, its object may hold what later ones have merged
into it, so that the second copy is not, step by step, what the first was. The
invariant is about a history: `D[i]` is the document after `i` operations, as it was
when the `i`-th was evaluated, and `J[i]` the value that operation had then; both are
witnesses of an existential, chosen when an operation is made. `Agrees` compares a
value with one of the past, up to the fields that an operation to come
merges into its key (`Later`). `History` says that the operations not yet
applied agree with `J` (`Coming`) and the second copy with `D[applied]` (`Computing`).
An operation that is applied takes its own fields off the exceptions (`ApplyAgrees`);
after the last there are none (`AllApplied`). That `D[Len(ops)]` is the meaning of
the actions evaluated is an induction over them, whose step is lemma
`EvaluateMeaning`; that a recursive function gives what it should for a longer
sequence is itself an induction over data, done with well-founded sets of
numbers (`RunsAgree`, `MeaningOfAppend`, in `RuleMeaningProofs`), since the induction
theorems of the library cannot be instantiated.

*All orders.* `ResultMeant` speaks of the actions as they were evaluated; `TableMeant`
of the table alone. It takes two arguments. The first is about the engine: the
actions evaluated are those of the table, each once, by priority. The control
state does not remember which rule an action was of, so the invariant `InTurn` is
about a history again: the actions evaluated with their rules (`Behind`), the rule
whose actions are left (`Begun`), and what is to come (`Ahead`), which is the rest
of the table and of no higher priority. At the end nothing is to come
(`AllInOrder`). The second is about the meaning: a step looks at the keys the action
reads and changes its own (`StepIsLocal`, `StepLeaves`), so two actions that do not
concern each other may change places (`StepsCommute`). In any order by priority,
therefore, an action that may come last can be moved there (`MovedLast`), and by
induction on the number of actions two such orders give one document
(`OrdersAgree`). Actions of one priority that do concern each other are excluded
by the property's own premise, `Independent`: there the document depends on the
order in which the database returned the rows, and `execution_order`, which is to
say what it should be, is read by nothing.

*The two copies.* For `StoredIsEvaluated` the first copy must not be disturbed by what
is written for the second. They share only what one operation put into both
(`SharedByBoth`), and since then the operations of that key have only added to it,
or it would have been replaced in the first copy (`Live`): so what is merged into a
shared object is already in it, or a merge still to come overwrites it, and what is
appended to a shared list is the element that is there (`Mapped`, `ApplyMapped`).

Only model-checked, and why:

* Liveness (`EventuallySettled`, `ReplayedIsProcessed`, `ShutdownCompletes`): the
  prover does not do fairness.

Every invariant and every action property that a passing run checks is a theorem,
under the assumptions in the table.

## Not modelled

* Mappers, entities and ports: field-by-field copies and interfaces. The
  logger: output.
* Of the configuration, the pool sizes and lifetimes, the log level and the names
  of tables: they have the same form as the others and change nothing in the
  model. `SHUTDOWN_TIMEOUT`, `WORKERS` and `BATCH_SIZE` are read and used by
  nothing, so that a shutdown has no deadline.
* The parsing of conditions and templates; float rounding.
* The rule cache of the repository's README (lines 8, 15, 80 and 134) does not exist in
  the code: rules are read from the database for each event, as modelled.
* `UpdateMetaDataTx`, `Create` of processed events and `ListAllEnabled` have no
  caller.
* Queues and bindings outlive a process; a source that is disabled between two
  starts keeps both, and its queue fills. `Bootstrap` is one process.

## Plan

Done, in this order: `ProcessEvent` and `AmqpConsumer`, their first theorems,
`AtomicProcessing` and the refinement, the rule engine, `StreamConsumer`,
`Bootstrap`, the prefetch window and stale deliveries, the rule repository, the
configuration and the queue names, the theorems about `Bootstrap`, those about the
handler for both consumers, the refinement, those about the rule engine's heap,
about one action, about the document that is stored, about the order of a table and
about the names of queues.

Left:

1. An abstract specification that `AmqpConsumer` implements while users' rows come
   and go. The promise itself has to change for it: a row that is deleted and
   added again between a handler's read and its write gets the old document back.
2. An abstract specification for the stream consumer, whose promise is about the
   starts of the service: what failed is read again.
