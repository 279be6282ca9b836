-------------------------- MODULE BootstrapProofs --------------------------
(***************************************************************************)
(* Theorems about Bootstrap, for every set of event sources, environment   *)
(* and number of failures: what the WaitGroup counts, and with it that the *)
(* shutdown closes the consumers after the last goroutine has ended.       *)
(***************************************************************************)
EXTENDS Bootstrap, FiniteSetTheorems, WellFoundedInduction, TLAPS

\* The counter of the WaitGroup is the number of goroutines that Run waits for.
Counting == wg = Cardinality(AtWork) + (IF CloserAtWork THEN 1 ELSE 0)

\* A goroutine is started once: before its turn there is none.
NotBegun ==
  /\ at \in InNew \cup {"newFailed", "startStream"} => closer = "none"
  /\ at \in InNew \cup {"newFailed", "startStream", "listEnabled"} =>
       \A t \in Topics : worker[t] = "none"
  /\ \A t \in todo : worker[t] = "none"
  /\ at # "ensureQueues" => at = "killed" \/ todo = {}

\* Once Wait has returned they have all ended.
AllEnded ==
  at \in {"closeConsumer", "closeStream", "stopped"} => AtWork = {} /\ ~CloserAtWork

\* What New and the shutdown have opened or closed when they are where they are.
Opened ==
  /\ at \in {"load", "setupDB", "setupUsersDB", "newConsumer"} => channel = "none"
  /\ at \in InNew => stream = "none"
  /\ at = "newFailed" => channel # "open" /\ stream = "none"
  /\ at \in {"closeStream", "stopped"} => channel = "closed"
  /\ at = "stopped" => stream # "open"
  /\ at \in InNew \ {"load"} => cfg.prefetch \in Int

Types ==
  /\ at \in InNew \cup InRun \cup Ends
  /\ todo \subseteq Topics
  /\ channel \in {"none", "open", "broken", "closed"}
  /\ window \in Nat /\ window < Uint16
  /\ stream \in {"none", "open", "closed"}
  /\ worker \in [Topics -> {"none", "spawned", "consuming", "handling", "done"}]
  /\ closer \in {"none", "waiting", "closing", "done"}
  /\ faults \in 0..MaxFaults

Flag == cancelled \in BOOLEAN

IInv == Types /\ Flag /\ Counting /\ NotBegun /\ AllEnded /\ Opened

-----------------------------------------------------------------------------
USE DEF Live, InNew, InRun, Ends, Fault, goroutines, settings, main

LEMMA InitHolds == Init => IInv
<1> SUFFICES ASSUME Init PROVE IInv
  OBVIOUS
<1>0. Types
  <2>1. /\ at = "load" /\ todo = {} /\ channel = "none" /\ window = 0 /\ stream = "none"
        /\ worker = [t \in Topics |-> "none"] /\ closer = "none"
        /\ faults = 0 /\ 0 < Uint16
    BY DEF Init, Uint16
  <2>2. QED
    BY <2>1, TopicsTyped DEF Types
<1>1. Flag
  BY Zenon DEF Init, Flag
<1>1a. NotBegun /\ AllEnded /\ Opened
  BY DEF Init, NotBegun, AllEnded, Opened
<1>2. AtWork = {} /\ ~CloserAtWork
  BY DEF Init, AtWork, CloserAtWork
<1>3. Counting
  BY <1>2, FS_EmptySet DEF Counting, Init
<1>4. QED
  BY <1>0, <1>1, <1>1a, <1>3 DEF IInv

\* What was loaded for the prefetch count is a number.
LEMMA PrefetchIsNumber ==
  ASSUME NEW os, NEW file
  PROVE  Load(os, file).prefetch \in Int
<1> DEFINE env == LoadEnvFile(os, file)
<1>1. Load(os, file).prefetch = GetEnvInt(env, "RABBITMQ_PREFETCH", 10)
  BY DEF Load
<1>2. GetEnvInt(env, "RABBITMQ_PREFETCH", 10) \in Int
  <2> DEFINE text == GetEnv(env, "RABBITMQ_PREFETCH", "")
  <2>1. GetEnvInt(env, "RABBITMQ_PREFETCH", 10) =
          IF text \in DOMAIN Number THEN Number[text] ELSE 10
    BY Zenon DEF GetEnvInt
  <2> HIDE DEF text, env
  <2>2. QED
    BY <2>1, NumberTyped
<1>3. QED
  BY <1>1, <1>2

\* What is sent of a prefetch count is one.
LEMMA Sent ==
  ASSUME NEW n \in Int
  PROVE  /\ n % Uint16 \in Nat /\ n % Uint16 < Uint16
         /\ 0 <= n /\ n < Uint16 => n % Uint16 = n
BY DEF Uint16

LEMMA TypesStep ==
  ASSUME Types, Opened, [Next]_vars
  PROVE  Types'
<1>1. CASE LoadConfig \/ SetupDB \/ SetupUsersDB \/ NewConsumer \/ NewStream
  BY <1>1, TopicsTyped, Sent DEF Types, LoadConfig, SetupDB, SetupUsersDB, NewConsumer, NewStream,
     Connects, Fails, AfterStreamError, Opened
<1>2. CASE StartStream \/ ListEnabled \/ AwaitSignal \/ AllDone \/ CloseConsumer \/ CloseStream
  <2>1. CASE StartStream
    BY <2>1 DEF Types, StartStream
  <2>2. CASE ListEnabled
    BY <2>2, TopicsTyped DEF Types, ListEnabled
  <2>3. CASE AwaitSignal \/ AllDone
    BY <2>3 DEF Types, AwaitSignal, AllDone
  <2>4. CASE CloseConsumer \/ CloseStream
    BY <2>4 DEF Types, CloseConsumer, CloseStream
  <2>5. QED
    BY <1>2, <2>1, <2>2, <2>3, <2>4
<1>3. ASSUME NEW t \in Topics, EnsureQueue(t)
      PROVE  Types'
  BY <1>3, TopicsTyped DEF Types, EnsureQueue, Refused
<1>4. CASE Stop \/ Kill \/ CloserWakes \/ CloserDone \/ LoseChannel
  <2>1. CASE Stop \/ Kill
    BY <2>1 DEF Types, Stop, Kill, Cancel
  <2>2. CASE CloserWakes \/ CloserDone
    BY <2>2 DEF Types, CloserWakes, CloserDone
  <2>3. CASE LoseChannel
    BY <2>3, TopicsTyped DEF Types, LoseChannel
  <2>4. QED
    BY <1>4, <2>1, <2>2, <2>3
<1>5. ASSUME NEW t \in Topics,
             StartConsume(t) \/ Deliver(t) \/ Handled(t) \/ ConsumeReturns(t)
      PROVE  Types'
  BY <1>5, TopicsTyped DEF Types, StartConsume, Deliver, Handled, ConsumeReturns, WorkerTo
<1>6. CASE UNCHANGED vars
  BY <1>6 DEF Types, vars
<1>7. QED
  BY <1>1, <1>2, <1>3, <1>4, <1>5, <1>6 DEF Next, Main

\* One goroutine more, one less.
LEMMA WorkBegins ==
  ASSUME Types, NEW t \in Topics, t \notin AtWork, worker' = [worker EXCEPT ![t] = "spawned"]
  PROVE  Cardinality(AtWork') = Cardinality(AtWork) + 1
<1>1. IsFiniteSet(AtWork)
  BY TopicsTyped, FS_Subset DEF AtWork
<1>2. AtWork' = AtWork \cup {t}
  BY DEF AtWork, Types
<1>3. QED
  BY <1>1, <1>2, FS_AddElement

LEMMA WorkEnds ==
  ASSUME Types, NEW t \in AtWork, worker' = [worker EXCEPT ![t] = "done"]
  PROVE  Cardinality(AtWork') = Cardinality(AtWork) - 1
<1>1. IsFiniteSet(AtWork)
  BY TopicsTyped, FS_Subset DEF AtWork
<1>2. AtWork' = AtWork \ {t}
  BY DEF AtWork, Types
<1>3. QED
  BY <1>1, <1>2, FS_RemoveElement

LEMMA WorkCounted ==
  ASSUME Types
  PROVE  Cardinality(AtWork) \in Nat /\ (Cardinality(AtWork) = 0 => AtWork = {})
<1>1. IsFiniteSet(AtWork)
  BY TopicsTyped, FS_Subset DEF AtWork
<1>2. QED
  BY <1>1, FS_CardinalityType, FS_EmptySet

LEMMA CountingStep ==
  ASSUME Types, Counting, NotBegun, [Next]_vars
  PROVE  Counting'
<1> USE WorkCounted
<1>1. CASE StartStream
  <2>1. AtWork' = AtWork /\ ~CloserAtWork
    BY <1>1 DEF StartStream, AtWork, CloserAtWork, NotBegun
  <2>2. QED
    BY <1>1, <2>1 DEF StartStream, Counting, CloserAtWork, AddCloser, Add
<1>2. ASSUME NEW t \in Topics, EnsureQueue(t)
      PROVE  Counting'
  <2>1. CASE UNCHANGED <<worker, wg>>
    BY <1>2, <2>1 DEF EnsureQueue, Counting, AtWork, CloserAtWork
  <2>2. CASE worker' = [worker EXCEPT ![t] = "spawned"] /\ Add
    <3>1. t \notin AtWork
      BY <1>2 DEF EnsureQueue, NotBegun, AtWork
    <3>2. Cardinality(AtWork') = Cardinality(AtWork) + 1
      BY <2>2, <3>1, WorkBegins
    <3>3. QED
      BY <1>2, <2>2, <3>2 DEF EnsureQueue, Counting, CloserAtWork, Add
  <2>3. QED
    BY <1>2, <2>1, <2>2 DEF EnsureQueue
<1>3. ASSUME NEW t \in Topics, WorkerTo(t, "done"), Done, t \in AtWork, UNCHANGED closer
      PROVE  Counting'
  <2>1. Cardinality(AtWork') = Cardinality(AtWork) - 1
    BY <1>3, WorkEnds DEF WorkerTo
  <2>2. QED
    BY <1>3, <2>1 DEF Counting, CloserAtWork, Done
<1>4. ASSUME NEW t \in Topics, NEW place \in {"consuming", "handling"},
             WorkerTo(t, place), t \in AtWork, UNCHANGED <<closer, wg>>
      PROVE  Counting'
  <2>1. AtWork' = AtWork
    BY <1>4 DEF WorkerTo, AtWork
  <2>2. QED
    BY <1>4, <2>1 DEF Counting, CloserAtWork
<1>5. ASSUME NEW t \in Topics,
             StartConsume(t) \/ Deliver(t) \/ Handled(t) \/ ConsumeReturns(t)
      PROVE  Counting'
  <2>1. t \in AtWork /\ UNCHANGED closer
    BY <1>5 DEF StartConsume, Deliver, Handled, ConsumeReturns, AtWork
  <2>2. \/ WorkerTo(t, "done") /\ Done
        \/ WorkerTo(t, "consuming") /\ UNCHANGED wg
        \/ WorkerTo(t, "handling") /\ UNCHANGED wg
    BY <1>5 DEF StartConsume, Deliver, Handled, ConsumeReturns
  <2>3. QED
    BY <1>3, <1>4, <2>1, <2>2
<1>6. CASE CloserDone
  <2>1. AtWork' = AtWork /\ CloserAtWork /\ ~CloserAtWork'
    BY <1>6 DEF CloserDone, AtWork, CloserAtWork
  <2>2. QED
    BY <1>6, <2>1 DEF CloserDone, Counting, Done
<1>7. ASSUME UNCHANGED <<worker, wg>>, CloserAtWork' <=> CloserAtWork
      PROVE  Counting'
  BY <1>7 DEF Counting, AtWork
<1>8. CASE CloserWakes
  BY <1>7, <1>8 DEF CloserWakes, CloserAtWork
<1>9. CASE UNCHANGED <<worker, wg, closer>>
  BY <1>7, <1>9 DEF CloserAtWork
<1>10. CASE \/ LoadConfig \/ SetupDB \/ SetupUsersDB \/ NewConsumer \/ NewStream
            \/ ListEnabled \/ AwaitSignal \/ AllDone \/ CloseConsumer \/ CloseStream
            \/ Stop \/ Kill \/ LoseChannel \/ UNCHANGED vars
  BY <1>9, <1>10 DEF LoadConfig, SetupDB, SetupUsersDB, NewConsumer, NewStream, ListEnabled,
     AwaitSignal, AllDone, CloseConsumer, CloseStream, Stop, Kill, LoseChannel, vars
<1>11. QED
  BY <1>1, <1>2, <1>5, <1>6, <1>8, <1>10 DEF Next, Main

LEMMA FlagStep ==
  ASSUME Flag, [Next]_vars
  PROVE  Flag'
<1>1. CASE cancelled' = cancelled
  BY Zenon, <1>1 DEF Flag
<1>2. CASE cancelled' = TRUE
  BY Zenon, <1>2 DEF Flag
<1>3. ASSUME Next PROVE cancelled' = cancelled \/ cancelled' = TRUE
  BY <1>3 DEF Next, Main, LoadConfig, SetupDB, SetupUsersDB, NewConsumer, NewStream,
     StartStream, ListEnabled, EnsureQueue, AwaitSignal, AllDone, CloseConsumer, CloseStream,
     Stop, Cancel, Kill, StartConsume, Deliver, Handled, ConsumeReturns, CloserWakes,
     CloserDone, LoseChannel
<1>4. QED
  BY <1>1, <1>2, <1>3 DEF vars

\* What a step of a goroutine says of the rest: it is one at work, and main
\* stays where it is.
LEMMA WorkerStep ==
  ASSUME NEW t \in Topics,
         StartConsume(t) \/ Deliver(t) \/ Handled(t) \/ ConsumeReturns(t)
  PROVE  /\ t \in AtWork /\ Live
         /\ \E place : worker' = [worker EXCEPT ![t] = place]
         /\ UNCHANGED main
         /\ channel' \in {channel, "broken"} /\ (channel # "open" => channel' = channel)
  BY DEF StartConsume, Deliver, Handled, ConsumeReturns, WorkerTo, AtWork

LEMMA NotBegunStep ==
  ASSUME Types, NotBegun, [Next]_vars
  PROVE  NotBegun'
<1>1. CASE LoadConfig \/ SetupDB \/ SetupUsersDB \/ NewConsumer \/ NewStream
  BY <1>1 DEF NotBegun, LoadConfig, SetupDB, SetupUsersDB, NewConsumer, NewStream
<1>2. CASE StartStream
  BY <1>2 DEF NotBegun, StartStream
<1>3. CASE ListEnabled
  BY <1>3, TopicsTyped DEF NotBegun, ListEnabled
<1>4. ASSUME NEW t \in Topics, EnsureQueue(t)
      PROVE  NotBegun'
  <2>1. at' = "ensureQueues" /\ at = "ensureQueues" /\ todo' = todo \ {t}
        /\ (worker' = worker \/ worker' = [worker EXCEPT ![t] = "spawned"])
    BY <1>4 DEF EnsureQueue
  <2>2. QED
    BY <2>1 DEF NotBegun, Types
<1>5. CASE AwaitSignal \/ Stop \/ AllDone \/ CloseConsumer \/ CloseStream
  BY <1>5 DEF NotBegun, AwaitSignal, Stop, AllDone, CloseConsumer, CloseStream
<1>6. CASE Kill \/ LoseChannel \/ UNCHANGED vars
  BY <1>6 DEF NotBegun, Kill, LoseChannel, vars
<1>7. ASSUME NEW t \in Topics,
             StartConsume(t) \/ Deliver(t) \/ Handled(t) \/ ConsumeReturns(t)
      PROVE  NotBegun'
  <2>1. /\ t \in AtWork
        /\ \E place : worker' = [worker EXCEPT ![t] = place]
        /\ UNCHANGED <<at, todo, closer>>
    BY <1>7, WorkerStep
  <2>2. QED
    BY <2>1 DEF NotBegun, Types, AtWork
<1>8. CASE CloserWakes \/ CloserDone
  BY <1>8 DEF NotBegun, CloserWakes, CloserDone
<1>9. QED
  BY <1>1, <1>2, <1>3, <1>4, <1>5, <1>6, <1>7, <1>8 DEF Next, Main

LEMMA AllEndedStep ==
  ASSUME Types, Counting, AllEnded, [Next]_vars
  PROVE  AllEnded'
<1>1. CASE AllDone
  <2>1. Cardinality(AtWork) = 0 /\ ~CloserAtWork
    BY <1>1, WorkCounted DEF AllDone, Counting
  <2>2. AtWork = {}
    BY <2>1, WorkCounted
  <2>3. AtWork' = AtWork /\ (CloserAtWork' <=> CloserAtWork)
    BY <1>1 DEF AllDone, AtWork, CloserAtWork
  <2>4. QED
    BY <2>1, <2>2, <2>3 DEF AllEnded
<1>2. CASE CloseConsumer \/ CloseStream \/ UNCHANGED vars
  BY <1>2 DEF AllEnded, CloseConsumer, CloseStream, AtWork, CloserAtWork, vars
<1>3. CASE \/ LoadConfig \/ SetupDB \/ SetupUsersDB \/ NewConsumer \/ NewStream
           \/ StartStream \/ ListEnabled \/ AwaitSignal \/ Stop \/ Kill
  BY <1>3 DEF AllEnded, LoadConfig, SetupDB, SetupUsersDB, NewConsumer, NewStream,
     StartStream, ListEnabled, AwaitSignal, Stop, Kill
<1>4. ASSUME NEW t \in Topics, EnsureQueue(t)
      PROVE  AllEnded'
  BY <1>4 DEF AllEnded, EnsureQueue
<1>5. ASSUME NEW t \in Topics,
             StartConsume(t) \/ Deliver(t) \/ Handled(t) \/ ConsumeReturns(t)
      PROVE  AllEnded'
  BY <1>5, WorkerStep DEF AllEnded
<1>6. CASE CloserWakes \/ CloserDone
  BY <1>6 DEF AllEnded, CloserWakes, CloserDone, CloserAtWork
<1>7. CASE LoseChannel
  BY <1>7 DEF AllEnded, LoseChannel, AtWork, CloserAtWork
<1>8. QED
  BY <1>1, <1>2, <1>3, <1>4, <1>5, <1>6, <1>7 DEF Next, Main

LEMMA OpenedStep ==
  ASSUME Types, NotBegun, Opened, [Next]_vars
  PROVE  Opened'
<1>1. CASE LoadConfig
  <2>1. cfg'.prefetch \in Int
    BY <1>1, PrefetchIsNumber DEF LoadConfig
  <2>2. QED
    BY <1>1, <2>1 DEF Opened, LoadConfig
<1>2. CASE SetupDB \/ SetupUsersDB \/ NewConsumer
  BY <1>2 DEF Opened, SetupDB, SetupUsersDB, NewConsumer
<1>3. CASE NewStream
  BY <1>3 DEF Opened, NewStream, AfterStreamError
<1>4. CASE CloseConsumer \/ CloseStream
  BY <1>4 DEF Opened, CloseConsumer, CloseStream, Types
<1>5. CASE StartStream \/ ListEnabled \/ AwaitSignal \/ Stop \/ Kill \/ AllDone \/ UNCHANGED vars
  BY <1>5 DEF Opened, StartStream, ListEnabled, AwaitSignal, Stop, Kill, AllDone, vars
<1>6. ASSUME NEW t \in Topics, EnsureQueue(t)
      PROVE  Opened'
  BY <1>6 DEF Opened, EnsureQueue
<1>7. ASSUME NEW t \in Topics,
             StartConsume(t) \/ Deliver(t) \/ Handled(t) \/ ConsumeReturns(t)
      PROVE  Opened'
  <2>1. /\ Live /\ UNCHANGED <<at, cfg, stream>>
        /\ channel' \in {channel, "broken"} /\ (channel # "open" => channel' = channel)
    BY <1>7, WorkerStep
  <2>2. QED
    BY <2>1 DEF Opened
<1>8. CASE CloserWakes \/ CloserDone
  BY <1>8 DEF Opened, NotBegun, CloserWakes, CloserDone
<1>9. CASE LoseChannel
  BY <1>9 DEF Opened, LoseChannel
<1>10. QED
  BY <1>1, <1>2, <1>3, <1>4, <1>5, <1>6, <1>7, <1>8, <1>9 DEF Next, Main

\* IInv is inductive: what the WaitGroup counts needs to know that no goroutine
\* is started twice, and that they have ended needs what the WaitGroup counts.
THEOREM Inductive == Spec => []IInv
<1>1. Init => IInv
  BY InitHolds
<1>2. IInv /\ [Next]_vars => IInv'
  <2> SUFFICES ASSUME IInv, [Next]_vars
               PROVE  IInv'
    OBVIOUS
  <2>1. Types /\ Flag /\ Counting /\ NotBegun /\ AllEnded /\ Opened
    BY DEF IInv
  <2>2. Types' /\ Flag'
    BY <2>1, TypesStep, FlagStep
  <2>3. Counting' /\ NotBegun'
    BY <2>1, CountingStep, NotBegunStep
  <2>4. AllEnded' /\ Opened'
    BY <2>1, AllEndedStep, OpenedStep
  <2>5. QED
    BY <2>2, <2>3, <2>4 DEF IInv
<1>3. QED
  BY <1>1, <1>2, PTL DEF Spec

-----------------------------------------------------------------------------
\* Every variable keeps its type, the prefetch count fits the protocol, and the
\* WaitGroup's counter is the number of the goroutines that Run waits for, those
\* just spawned and the one that closes the stream included.
THEOREM BootstrapTypeCorrect == Spec => []TypeOK
<1>1. IInv => TypeOK
  <2> SUFFICES ASSUME IInv PROVE TypeOK
    OBVIOUS
  <2>1. Types /\ Flag /\ Counting
    BY DEF IInv
  <2>2. wg \in Nat
    BY <2>1, WorkCounted DEF Counting
  <2>3. QED
    BY <2>1, <2>2 DEF Types, Flag, Counting, TypeOK
<1>2. QED
  BY <1>1, Inductive, PTL

\* Consumer.Close comes when no goroutine uses the channel, nor will (app.go:
\* wg.Add before each go statement, wg.Wait before Close).
THEOREM ClosedAfterWork == Spec => []CloseAfterWork
<1>1. IInv => CloseAfterWork
  BY DEF IInv, Types, AllEnded, AtWork, CloseAfterWork
<1>2. QED
  BY <1>1, Inductive, PTL

\* The two calls of SuperStreamConsumer.Close are never concurrent.
THEOREM OnlyOneCloser == Spec => []OneCloser
<1>1. IInv => OneCloser
  BY DEF IInv, AllEnded, CloserAtWork, OneCloser
<1>2. QED
  BY <1>1, Inductive, PTL

\* A failed New and a shutdown leave neither connection open, whatever failed
\* on the way.
THEOREM AllClosed == Spec => []NothingLeftOpen
<1>1. IInv => NothingLeftOpen
  BY DEF IInv, Opened, NothingLeftOpen
<1>2. QED
  BY <1>1, Inductive, PTL

-----------------------------------------------------------------------------
(***************************************************************************)
(* The configuration.                                                      *)
(***************************************************************************)

\* The environment variables come before the file, the default after both.
LEMMA GetEnvGiven ==
  ASSUME NEW key, NEW default, NEW env,
         env = LoadEnvFile(environment.os, environment.file)
  PROVE  GetEnv(env, key, default) = IF Given(key) # "" THEN Given(key) ELSE default
<1> DEFINE os == environment.os
           file == environment.file
<1>1. env = [k \in (DOMAIN os) \cup (DOMAIN file) |->
               IF k \in DOMAIN os THEN os[k] ELSE file[k]]
  BY DEF LoadEnvFile
<1>2. Given(key) = IF key \in DOMAIN os THEN os[key]
                   ELSE IF key \in DOMAIN file THEN file[key] ELSE ""
  BY DEF Given
<1> HIDE DEF os, file
<1>3. QED
  BY <1>1, <1>2 DEF GetEnv

\* What Load makes of the variables that RunsAsConfigured speaks of.
LEMMA Loaded ==
  ASSUME cfg = Load(environment.os, environment.file)
  PROVE  /\ StreamConfigured <=> /\ Given("RABBITMQ_STREAM_ENABLED") = "true"
                                 /\ Given("RABBITMQ_SUPER_STREAM_NAME") # ""
         /\ Given("RABBITMQ_URL") # "" => cfg.amqp = [url |-> Given("RABBITMQ_URL")]
         /\ Given("RABBITMQ_URL") = "" /\ Given("RABBITMQ_STREAM_HOST") = ""
              => cfg.stream = cfg.amqp
         /\ Given("RABBITMQ_PREFETCH") \in DOMAIN Number
              => cfg.prefetch = Number[Given("RABBITMQ_PREFETCH")]
<1> DEFINE env == LoadEnvFile(environment.os, environment.file)
           loaded == Load(environment.os, environment.file)
           user == GetEnv(env, "RABBITMQ_USER", "guest")
           host == GetEnv(env, "RABBITMQ_HOST", "localhost")
<1>1. /\ loaded.amqp = BuildRabbitMQURL(env)
      /\ loaded.prefetch = GetEnvInt(env, "RABBITMQ_PREFETCH", 10)
      /\ loaded.superStreamName = GetEnv(env, "RABBITMQ_SUPER_STREAM_NAME", "")
      /\ loaded.stream = [user |-> user,
                          host |-> GetEnv(env, "RABBITMQ_STREAM_HOST", host)]
  BY DEF Load
<1>2. loaded.streamEnabled <=> GetEnv(env, "RABBITMQ_STREAM_ENABLED", "false") = "true"
  BY DEF Load
<1>3. \A key, default : GetEnv(env, key, default) =
        IF Given(key) # "" THEN Given(key) ELSE default
  BY GetEnvGiven
<1>4. cfg = loaded
  OBVIOUS
<1> HIDE DEF env, loaded, user, host
<1>5. StreamConfigured <=> /\ Given("RABBITMQ_STREAM_ENABLED") = "true"
                           /\ Given("RABBITMQ_SUPER_STREAM_NAME") # ""
  <2>1. GetEnv(env, "RABBITMQ_STREAM_ENABLED", "false") = "true"
          <=> Given("RABBITMQ_STREAM_ENABLED") = "true"
    <3>1. GetEnv(env, "RABBITMQ_STREAM_ENABLED", "false") =
            IF Given("RABBITMQ_STREAM_ENABLED") # "" THEN Given("RABBITMQ_STREAM_ENABLED")
            ELSE "false"
      BY Zenon, <1>3
    <3>2. QED
      BY <3>1
  <2>2. GetEnv(env, "RABBITMQ_SUPER_STREAM_NAME", "") = Given("RABBITMQ_SUPER_STREAM_NAME")
    BY <1>3
  <2>3. StreamConfigured <=> loaded.streamEnabled /\ loaded.superStreamName # ""
    BY Zenon, <1>4 DEF StreamConfigured
  <2>4. QED
    BY Zenon, <1>1, <1>2, <2>1, <2>2, <2>3
<1>6. ASSUME Given("RABBITMQ_URL") # ""
      PROVE  cfg.amqp = [url |-> Given("RABBITMQ_URL")]
  <2>1. env["RABBITMQ_URL"] = Given("RABBITMQ_URL") /\ GetEnv(env, "RABBITMQ_URL", "") # ""
    BY <1>3, <1>6 DEF GetEnv
  <2>2. BuildRabbitMQURL(env) = [url |-> env["RABBITMQ_URL"]]
    BY <2>1 DEF BuildRabbitMQURL
  <2>3. QED
    BY <1>1, <1>4, <2>1, <2>2
<1>7. ASSUME Given("RABBITMQ_URL") = "", Given("RABBITMQ_STREAM_HOST") = ""
      PROVE  cfg.stream = cfg.amqp
  <2>1. GetEnv(env, "RABBITMQ_URL", "") = ""
    BY <1>3, <1>7
  <2>2. BuildRabbitMQURL(env) = [user |-> user, host |-> host]
    BY <2>1 DEF BuildRabbitMQURL, user, host
  <2>3. GetEnv(env, "RABBITMQ_STREAM_HOST", host) = host
    BY <1>3, <1>7
  <2>4. QED
    BY <1>1, <1>4, <2>2, <2>3
<1>8. ASSUME Given("RABBITMQ_PREFETCH") \in DOMAIN Number
      PROVE  cfg.prefetch = Number[Given("RABBITMQ_PREFETCH")]
  <2>1. GetEnv(env, "RABBITMQ_PREFETCH", "") = Given("RABBITMQ_PREFETCH")
    BY <1>3
  <2>2. GetEnvInt(env, "RABBITMQ_PREFETCH", 10) = Number[Given("RABBITMQ_PREFETCH")]
    BY <1>8, <2>1 DEF GetEnvInt
  <2>3. QED
    BY <1>1, <1>4, <2>2
<1>9. QED
  BY <1>5, <1>6, <1>7, <1>8

\* What the process has taken from its configuration when it gets to Run.
Configured ==
  /\ at \notin {"load", "killed"} => cfg = Load(environment.os, environment.file)
  /\ at \in {"newStream"} \cup InRun => window = cfg.prefetch % Uint16
  /\ at \in InRun => (stream = "none" <=> ~StreamConfigured)
  /\ closer # "none" => stream # "none"

LEMMA SameStream ==
  ASSUME UNCHANGED cfg
  PROVE  StreamConfigured' <=> StreamConfigured
BY Zenon DEF StreamConfigured

LEMMA ConfiguredStep ==
  ASSUME IInv, Configured, [Next]_vars
  PROVE  Configured'
<1>0. Opened /\ NotBegun /\ Types
  BY DEF IInv
<1>1. CASE LoadConfig
  BY <1>0, <1>1 DEF LoadConfig, Configured, NotBegun
<1>2. CASE SetupDB \/ SetupUsersDB \/ NewConsumer
  BY <1>0, <1>2 DEF SetupDB, SetupUsersDB, NewConsumer, Configured, NotBegun
<1>3. CASE NewStream
  <2>1. /\ at = "newStream" /\ UNCHANGED <<settings, closer>> /\ closer = "none"
        /\ \/ at' = "newFailed"
           \/ at' = "startStream" /\ stream' = IF StreamConfigured THEN "open" ELSE "none"
    BY <1>0, <1>3 DEF NewStream, NotBegun
  <2>2. QED
    BY <2>1, SameStream DEF Configured
<1>4. CASE StartStream
  BY <1>4, SameStream DEF StartStream, Configured
<1>5. CASE \/ ListEnabled \/ AwaitSignal \/ AllDone \/ CloseConsumer \/ CloseStream
           \/ Stop \/ Kill \/ LoseChannel \/ (\E t \in Topics : EnsureQueue(t))
           \/ UNCHANGED vars
  <2>1. /\ UNCHANGED <<settings, closer>> /\ (stream' = stream \/ at' = "stopped")
        /\ \/ at' \in {"runFailed", "stopped"} /\ at \in InRun
           \/ at' = "killed"
           \/ at' = at
           \/ at' \in InRun /\ at \in InRun
        /\ stream # "none" => stream' # "none"
    BY <1>5 DEF ListEnabled, AwaitSignal, AllDone, CloseConsumer, CloseStream, Stop,
                Kill, LoseChannel, EnsureQueue, vars
  <2>2. QED
    BY <2>1, SameStream DEF Configured
<1>6. ASSUME NEW t \in Topics,
             StartConsume(t) \/ Deliver(t) \/ Handled(t) \/ ConsumeReturns(t)
      PROVE  Configured'
  <2>1. UNCHANGED <<settings, at, stream, closer>>
    BY <1>6, WorkerStep
  <2>2. QED
    BY <2>1, SameStream DEF Configured
<1>7. CASE CloserWakes \/ CloserDone
  <2>1. /\ UNCHANGED <<settings, at>> /\ closer # "none"
        /\ stream' = stream \/ stream' = "closed"
    BY <1>7 DEF CloserWakes, CloserDone
  <2>2. QED
    BY <2>1, SameStream DEF Configured
<1>8. QED
  BY <1>1, <1>2, <1>3, <1>4, <1>5, <1>6, <1>7 DEF Next, Main

\* Whatever the environment and the file set, a process that got through New has
\* the stream consumer, the brokers and the prefetch count they ask for.
THEOREM AsConfigured == Spec => []RunsAsConfigured
<1>1. Init => Configured
  BY DEF Init, Configured
<1>2. IInv /\ Configured /\ [Next]_vars => Configured'
  BY ConfiguredStep
<1>3. Configured => RunsAsConfigured
  <2> SUFFICES ASSUME Configured, at \in InRun
               PROVE  RunsAsConfigured
    BY DEF RunsAsConfigured
  <2>1. /\ cfg = Load(environment.os, environment.file)
        /\ window = cfg.prefetch % Uint16
        /\ stream = "none" <=> ~StreamConfigured
    BY DEF Configured
  <2>2. stream = "none" <=>
          Given("RABBITMQ_STREAM_ENABLED") # "true" \/ Given("RABBITMQ_SUPER_STREAM_NAME") = ""
    BY Zenon, <2>1, Loaded
  <2>3. /\ Given("RABBITMQ_URL") # "" => cfg.amqp = [url |-> Given("RABBITMQ_URL")]
        /\ Given("RABBITMQ_URL") = "" /\ Given("RABBITMQ_STREAM_HOST") = ""
             => cfg.stream = cfg.amqp
    BY Zenon, <2>1, Loaded
  <2>4. ASSUME NEW text, text = Given("RABBITMQ_PREFETCH"), text \in DOMAIN Number,
               0 <= Number[text], Number[text] < Uint16
        PROVE  window = Number[text]
    <3>1. cfg.prefetch = Number[text]
      BY Zenon, <2>1, <2>4, Loaded
    <3>2. Number[text] \in Int
      BY <2>4, NumberTyped
    <3>3. QED
      BY <2>1, <2>4, <3>1, <3>2, Sent
  <2>5. QED
    BY Zenon, <2>2, <2>3, <2>4 DEF RunsAsConfigured
<1>4. QED
  BY <1>1, <1>2, <1>3, Inductive, PTL DEF Spec

-----------------------------------------------------------------------------
(***************************************************************************)
(* The names of the queues.                                                *)
(***************************************************************************)

LEMMA Induction ==
  ASSUME NEW S, 0 \in S, \A n \in Nat : n \in S => n + 1 \in S
  PROVE  Nat \subseteq S
<1> DEFINE T == Nat \ S
           R == OpToRel(<, Nat)
<1> SUFFICES ASSUME T # {} PROVE FALSE
  OBVIOUS
<1>1. IsWellFoundedOn(R, Nat)
  BY NatLessThanWellFounded
<1>2. \A n, m \in Nat : <<m, n>> \in R <=> m < n
  BY DEF OpToRel
<1> HIDE DEF R
<1>3. PICK n \in T : \A m \in T : ~(<<m, n>> \in R)
  BY <1>1, WFMin
<1>4. n \in Nat /\ n # 0 /\ n - 1 \in Nat /\ n - 1 < n /\ (n - 1) + 1 = n
  OBVIOUS
<1>5. n - 1 \in S
  BY <1>2, <1>3, <1>4
<1>6. QED
  BY <1>4, <1>5

\* What sanitizeQueueName has of a name after n characters: f[n].
Loop(s, n, f) ==
  f = [m \in 0..n |->
         IF m = 0 THEN <<>>
         ELSE IF Kept(s[m]) THEN Append(f[m - 1], Lowered(s[m])) ELSE f[m - 1]]

LEMMA LoopExists ==
  ASSUME NEW s, NEW n \in Nat
  PROVE  \E f : Loop(s, n, f)
<1> DEFINE S == {m \in Nat : \E f : Loop(s, m, f)}
<1>1. 0 \in S
  <2>1. Loop(s, 0, [m \in 0..0 |-> <<>>])
    BY DEF Loop
  <2>2. QED
    BY <2>1
<1>2. ASSUME NEW m \in Nat, m \in S PROVE m + 1 \in S
  <2>1. PICK f : Loop(s, m, f)
    BY <1>2
  <2> DEFINE x == IF Kept(s[m + 1]) THEN Append(f[m], Lowered(s[m + 1])) ELSE f[m]
             g == [i \in 0..(m + 1) |-> IF i = m + 1 THEN x ELSE f[i]]
  <2>2. \A i \in 0..m : f[i] = IF i = 0 THEN <<>> ELSE
          IF Kept(s[i]) THEN Append(f[i - 1], Lowered(s[i])) ELSE f[i - 1]
    BY <2>1 DEF Loop
  <2> HIDE DEF x
  <2>3. g[m + 1] = x /\ m + 1 # 0 /\ (m + 1) - 1 = m /\ g[m] = f[m]
    OBVIOUS
  <2>4. \A i \in 0..m : g[i] = f[i] /\ (i # 0 => g[i - 1] = f[i - 1])
    OBVIOUS
  <2>5. g = [i \in 0..(m + 1) |-> g[i]] /\ \A i \in 0..(m + 1) : i = m + 1 \/ i \in 0..m
    OBVIOUS
  <2> HIDE DEF g
  <2>6. \A i \in 0..(m + 1) : g[i] = IF i = 0 THEN <<>> ELSE
          IF Kept(s[i]) THEN Append(g[i - 1], Lowered(s[i])) ELSE g[i - 1]
    BY <2>2, <2>3, <2>4, <2>5 DEF x
  <2>7. Loop(s, m + 1, g)
    BY <2>5, <2>6 DEF Loop
  <2>8. QED
    BY <2>7
<1> HIDE DEF S
<1>3. Nat \subseteq S
  BY <1>1, <1>2, Induction
<1>4. QED
  BY <1>3 DEF S

LEMMA NameIs ==
  ASSUME NEW s, Len(s) \in Nat
  PROVE  \E f : /\ Loop(s, Len(s), f)
                /\ QueueName(s) = IF f[Len(s)] = <<>> THEN Default ELSE f[Len(s)]
<1> DEFINE f == CHOOSE g : Loop(s, Len(s), g)
<1>1. Loop(s, Len(s), f)
  BY LoopExists
<1>2. QueueName(s) = IF f[Len(s)] = <<>> THEN Default ELSE f[Len(s)]
  BY DEF QueueName, Loop
<1> HIDE DEF f
<1>3. QED
  BY <1>1, <1>2

\* The characters of a sequence, each with its place.
Graph(s) == {<<k, s[k]>> : k \in 1..Len(s)}

LEMMA GraphOfAppend ==
  ASSUME NEW S, NEW s \in Seq(S), NEW c \in S
  PROVE  Graph(Append(s, c)) = Graph(s) \cup {<<Len(s) + 1, c>>}
<1>1. /\ Len(s) \in Nat /\ Len(Append(s, c)) = Len(s) + 1 /\ Append(s, c)[Len(s) + 1] = c
      /\ \A k \in 1..Len(s) : Append(s, c)[k] = s[k]
  OBVIOUS
<1>2. 1..(Len(s) + 1) = 1..Len(s) \cup {Len(s) + 1}
  BY <1>1
<1>3. QED
  BY <1>1, <1>2 DEF Graph

\* The loop keeps the significant characters, in their order and in lower case.
LEMMA LoopKeeps ==
  ASSUME NEW s \in Seq(STRING), NEW f, Loop(s, Len(s), f)
  PROVE  /\ Graph(f[Len(s)]) = Text(s)
         /\ f[Len(s)] = <<>> <=> Significant(s) = {}
<1> DEFINE C == {Lowered(s[i]) : i \in 1..Len(s)}
           Upto(n) == {i \in Significant(s) : i <= n}
           Holds(n) == /\ f[n] \in Seq(C) /\ IsFiniteSet(Upto(n))
                       /\ Len(f[n]) = Cardinality(Upto(n))
                       /\ Graph(f[n]) = {<<Rank(s, i), Lowered(s[i])>> : i \in Upto(n)}
           S == {n \in Nat : n <= Len(s) => Holds(n)}
<1>1. Len(s) \in Nat /\ DOMAIN s = 1..Len(s)
  OBVIOUS
<1>2. \A n \in 0..Len(s) : f[n] = IF n = 0 THEN <<>> ELSE
        IF Kept(s[n]) THEN Append(f[n - 1], Lowered(s[n])) ELSE f[n - 1]
  BY DEF Loop
<1>3. 0 \in S
  <2>1. f[0] = <<>>
    BY <1>1, <1>2
  <2>2. Upto(0) = {}
    BY <1>1 DEF Significant
  <2>3. Graph(<<>>) = {}
    BY DEF Graph
  <2> HIDE DEF C, Upto
  <2>4. f[0] \in Seq(C) /\ Len(f[0]) = 0 /\ IsFiniteSet({}) /\ Cardinality({}) = 0
    BY <2>1, FS_EmptySet
  <2>5. {<<Rank(s, i), Lowered(s[i])>> : i \in Upto(0)} = {}
    BY <2>2
  <2>6. QED
    BY <2>1, <2>2, <2>3, <2>4, <2>5
<1>4. ASSUME NEW n \in Nat, n \in S PROVE n + 1 \in S
  <2> SUFFICES ASSUME n + 1 <= Len(s) PROVE Holds(n + 1)
    OBVIOUS
  <2>1. Holds(n) /\ n + 1 \in 1..Len(s)
    BY <1>1, <1>4
  <2>2. f[n + 1] = IF Kept(s[n + 1]) THEN Append(f[n], Lowered(s[n + 1])) ELSE f[n]
    <3>1. n + 1 \in 0..Len(s) /\ n + 1 # 0 /\ (n + 1) - 1 = n
      BY <2>1
    <3>2. QED
      BY <1>2, <3>1
  <2>3. n + 1 \in Significant(s) <=> Kept(s[n + 1])
    BY <1>1, <2>1 DEF Significant, Kept
  <2>4. CASE Kept(s[n + 1])
    <3> DEFINE c == Lowered(s[n + 1])
    <3>1. Upto(n + 1) = Upto(n) \cup {n + 1} /\ n + 1 \notin Upto(n)
      BY <1>1, <2>3, <2>4 DEF Significant
    <3>2. /\ IsFiniteSet(Upto(n + 1))
          /\ Cardinality(Upto(n + 1)) = Cardinality(Upto(n)) + 1
      <4> DEFINE U == Upto(n)
      <4>1. IsFiniteSet(U) /\ Upto(n + 1) = U \cup {n + 1} /\ n + 1 \notin U
        BY <2>1, <3>1
      <4> HIDE DEF U
      <4>2. /\ IsFiniteSet(U \cup {n + 1})
            /\ Cardinality(U \cup {n + 1}) = Cardinality(U) + 1
        BY <4>1, FS_AddElement
      <4> HIDE DEF Upto
      <4>3. QED
        BY <4>1, <4>2 DEF U
    <3>3. Rank(s, n + 1) = Len(f[n]) + 1
      BY <2>1, <3>2 DEF Rank
    <3>4. c \in C
      BY <2>1
    <3>5. f[n + 1] = Append(f[n], c)
      BY <2>2, <2>4
    <3> HIDE DEF C, Upto, c
    <3>6. f[n + 1] \in Seq(C) /\ Len(f[n + 1]) = Len(f[n]) + 1
      BY <2>1, <3>4, <3>5
    <3>7. Graph(f[n + 1]) = Graph(f[n]) \cup {<<Len(f[n]) + 1, c>>}
      BY <2>1, <3>4, <3>5, GraphOfAppend
    <3>8. {<<Rank(s, i), Lowered(s[i])>> : i \in Upto(n + 1)} =
            {<<Rank(s, i), Lowered(s[i])>> : i \in Upto(n)} \cup {<<Rank(s, n + 1), c>>}
      BY <3>1 DEF c
    <3>9. QED
      BY <2>1, <3>2, <3>3, <3>6, <3>7, <3>8
  <2>5. CASE ~Kept(s[n + 1])
    <3>1. Upto(n + 1) = Upto(n)
      BY <1>1, <2>3, <2>5 DEF Significant
    <3> HIDE DEF C, Upto
    <3>2. QED
      BY <2>1, <2>2, <2>5, <3>1
  <2>6. QED
    BY <2>4, <2>5
<1> HIDE DEF S
<1>5. Len(s) \in S
  BY <1>1, <1>3, <1>4, Induction
<1>6. Holds(Len(s)) /\ Upto(Len(s)) = Significant(s)
  BY <1>1, <1>5 DEF S, Significant
<1>7. f[Len(s)] = <<>> <=> Significant(s) = {}
  <2>1. f[Len(s)] \in Seq(C) /\ Len(f[Len(s)]) = Cardinality(Significant(s))
        /\ IsFiniteSet(Significant(s))
    BY <1>6
  <2>2. f[Len(s)] = <<>> <=> Len(f[Len(s)]) = 0
    <3> HIDE DEF C
    <3>1. QED
      BY <2>1
  <2>3. QED
    BY <2>1, <2>2, FS_EmptySet
<1>8. QED
  BY <1>6, <1>7 DEF Text

\* All of "default" is significant, and in lower case.
LEMMA DefaultText == Graph(Default) = Text(Default)
<1>1. DOMAIN Default = 1..7 /\ Len(Default) = 7
  BY DEF Default
<1>2. Significant(Default) = 1..7
  BY <1>1, NamesTyped DEF Significant
<1>3. \A i \in 1..7 : Lowered(Default[i]) = Default[i]
  BY <1>1, NamesTyped DEF Lowered
<1>4. ASSUME NEW i \in 1..7
      PROVE  Rank(Default, i) = i
  <2>1. {j \in Significant(Default) : j <= i} = 1..i
    BY <1>2
  <2>2. Cardinality(1..i) = i
    <3>1. 1 \in Int /\ i \in Int /\ 1 <= i
      OBVIOUS
    <3>2. Cardinality(1..i) = i - 1 + 1
      BY <3>1, FS_Interval
    <3>3. QED
      BY <3>2
  <2>3. QED
    BY <2>1, <2>2 DEF Rank
<1>5. QED
  BY <1>1, <1>2, <1>3, <1>4 DEF Graph, Text

\* A queue is named by the text of its topic.
LEMMA NameIsText ==
  ASSUME NEW s \in Seq(STRING)
  PROVE  Graph(QueueName(s)) = Text(Spelled(s))
<1>1. PICK f : /\ Loop(s, Len(s), f)
               /\ QueueName(s) = IF f[Len(s)] = <<>> THEN Default ELSE f[Len(s)]
  BY NameIs
<1>2. QED
  BY <1>1, LoopKeeps, DefaultText DEF Spelled

\* Topics that share a queue differ in nothing but case and characters that are
\* dropped, whatever the topics are (sanitizeQueueName).
THEOREM SameQueueSameText == Spec => []QueuesApart
<1>1. QueuesApart
  BY NameIsText, NamesTyped DEF QueuesApart
<1>2. QED
  BY <1>1, PTL
=============================================================================
