------------------------ MODULE StreamConsumerProofs ------------------------
(***************************************************************************)
(* Theorems about StreamConsumer, for every set of partitions, every log   *)
(* and every number of failures and restarts.                              *)
(***************************************************************************)
EXTENDS StreamConsumer, ProcessEventProofs

USE DEF AfterDecoding, AfterRules, AfterError, Errs, Exists

\* A partition has a length.
LEMMA LogLength ==
  ASSUME NEW w \in Workers
  PROVE  Len(Log[w]) \in Nat /\ 0 <= Len(Log[w])
<1>1. Log[w] \in Seq(Messages)
  BY LogTyped
<1>2. Len(Log[w]) \in Nat
  BY <1>1
<1>3. QED
  BY <1>2

\* The next message of a partition is one of its messages.
LEMMA NextMessage ==
  ASSUME NEW w \in Workers, NEW i \in Nat, i < Len(Log[w])
  PROVE  Log[w][i + 1] \in Serves[w]
<1>1. Log[w] \in Seq(Messages) /\ Serves[w] = {Log[w][j] : j \in DOMAIN Log[w]}
  BY LogTyped
<1>2. i + 1 \in 1..Len(Log[w]) /\ DOMAIN Log[w] = 1..Len(Log[w])
  BY <1>1
<1>3. QED
  BY <1>1, <1>2

\* What the handlers see of a step of the stream consumers.
LEMMA HandlerView ==
  ASSUME TypeOK, [Next]_vars
  PROVE  HandlerStep
<1>0. /\ ProcessTypeOK /\ Typed(ctx, faults)
      /\ \A w \in Workers : position[w] \in Nat
  BY DEF TypeOK, ProcessTypeOK, Typed
<1>1. ASSUME NEW w \in Workers, Receive(w)
      PROVE  HandlerStep
  <2>1. Log[w][position[w] + 1] \in Serves[w]
    BY <1>0, <1>1, NextMessage DEF Receive, HandOut
  <2>2. QED
    BY <1>1, <2>1 DEF Receive, HandlerStep
<1>2. ASSUME NEW w \in Workers, Running(w)
      PROVE  HandlerStep
  BY <1>2 DEF Running, HandlerStep
<1>3. ASSUME NEW w \in Workers, Success(w) \/ Failure(w) \/ Exit(w) \/ Crash(w)
      PROVE  HandlerStep
  <2>1. faults' \in 0..MaxFaults
    BY <1>0, <1>3, FaultType DEF Success, Failure, Exit, Crash
  <2>2. Return(w) /\ UNCHANGED <<store, environment, ctx>>
    BY <1>3 DEF Success, Failure, Exit, Crash
  <2>3. QED
    BY <1>0, <2>1, <2>2 DEF HandlerStep, Typed
<1>4. ASSUME NEW w \in Workers, Detach(w)
      PROVE  HandlerStep
  <2>1. faults' \in 0..MaxFaults
    BY <1>0, <1>4, FaultType DEF Detach
  <2>2. QED
    BY <1>0, <1>4, <2>1 DEF Detach, HandlerStep, Typed
<1>5. CASE UNCHANGED processVars
  BY <1>0, <1>5 DEF processVars, HandlerStep, Typed
<1>6. ASSUME NEW w \in Workers, Skip(w) \/ Close(w) \/ Restart(w)
      PROVE  HandlerStep
  BY <1>5, <1>6 DEF Skip, Close, Restart
<1>7. CASE UNCHANGED vars
  BY <1>5, <1>7 DEF vars
<1>8. QED
  BY <1>1, <1>2, <1>3, <1>4, <1>6, <1>7 DEF Next, Worker, HandlerStep

-----------------------------------------------------------------------------
\* Every step of a partition and of its environment keeps the types.
LEMMA TypeStep ==
  ASSUME TypeOK, [Next]_vars
  PROVE  TypeOK'
<1> USE DEF TypeOK
<1>0. ProcessTypeOK' /\ \A w \in Workers : Len(Log[w]) \in Nat
  BY HandlerView, HandlerType, LogLength
<1>1. ASSUME NEW w \in Workers, Receive(w)
      PROVE  TypeOK'
  <2>1. /\ position' = [position EXCEPT ![w] = @ + 1] /\ position[w] < Len(Log[w])
        /\ msg' = [msg EXCEPT ![w] = Log[w][position[w] + 1]]
        /\ \A v \in Workers \ {w} : pc'[v] = pc[v]
        /\ mode[w] # "down" /\ UNCHANGED <<ctx, stored, mode>>
    BY <1>1 DEF Receive, HandOut, Handle, Goto, ProcessTypeOK
  <2>2. msg \in [Workers -> Messages \cup {None}]
    BY DEF ProcessTypeOK
  <2>3. QED
    BY <1>0, <2>1, <2>2
<1>2. ASSUME NEW w \in Workers, Skip(w)
      PROVE  TypeOK'
  <2>1. /\ position' = [position EXCEPT ![w] = @ + 1] /\ position[w] < Len(Log[w])
        /\ stored' = stored \/ stored' = [stored EXCEPT ![w] = position[w] + 1]
        /\ pc[w] = "idle" /\ UNCHANGED <<ctx, msg, pc, mode>>
    BY <1>2 DEF Skip, HandOut, StoreOffset, processVars, worker
  <2>2. stored' \in [Workers -> Nat] /\ \A v \in Workers : stored'[v] <= Len(Log[v])
    <3>1. position[w] + 1 \in Nat /\ position[w] + 1 <= Len(Log[w])
      BY <1>0, <2>1
    <3>2. stored' \in [Workers -> Nat]
      BY <2>1, <3>1
    <3>3. ASSUME NEW v \in Workers
          PROVE  stored'[v] <= Len(Log[v])
      BY <2>1, <3>1
    <3>4. QED
      BY <3>2, <3>3
  <2>3. position' \in [Workers -> Nat] /\ \A v \in Workers : position'[v] <= Len(Log[v])
    BY <1>0, <2>1
  <2>4. QED
    BY <1>0, <2>1, <2>2, <2>3
<1>3. ASSUME NEW w \in Workers, Running(w)
      PROVE  TypeOK'
  <2>1. /\ pc[w] # "idle" /\ \A v \in Workers \ {w} : pc'[v] = pc[v]
        /\ UNCHANGED <<ctx, msg, position, stored, mode>>
    BY <1>3 DEF Running, ProcessStep, CheckProcessed, FindRules, GetMetaData,
                UpdateMetaData, CreateProcessed, RecordFailed, Goto, ProcessTypeOK
  <2>2. QED
    BY <1>0, <2>1
<1>4. ASSUME NEW w \in Workers, Success(w) \/ Failure(w) \/ Exit(w) \/ Crash(w)
      PROVE  TypeOK'
  <2>1. /\ pc'[w] = "idle" /\ UNCHANGED <<ctx, position>>
        /\ \A v \in Workers \ {w} : pc'[v] = pc[v] /\ msg'[v] = msg[v]
    BY <1>4 DEF Success, Failure, Exit, Crash, Return, Goto, ProcessTypeOK
  <2>2. stored' = stored \/ stored' = [stored EXCEPT ![w] = position[w]]
    BY <1>4 DEF Success, Failure, Exit, Crash, StoreOffset
  <2>3. stored' \in [Workers -> Nat] /\ \A v \in Workers : stored'[v] <= Len(Log[v])
    <3>1. stored' \in [Workers -> Nat]
      BY <2>2
    <3>2. ASSUME NEW v \in Workers
          PROVE  stored'[v] <= Len(Log[v])
      BY <2>2
    <3>3. QED
      BY <3>1, <3>2
  <2>4. mode' = mode \/ mode' = [mode EXCEPT ![w] = "down"]
    BY <1>4 DEF Success, Failure, Exit, Crash
  <2>5. QED
    BY <1>0, <2>1, <2>3, <2>4
<1>5. ASSUME NEW w \in Workers, Detach(w) \/ Close(w)
      PROVE  TypeOK'
  <2>1. /\ UNCHANGED <<ctx, msg, pc, position, stored>> /\ mode[w] # "down"
        /\ mode' = [mode EXCEPT ![w] = "detached"] \/ mode' = [mode EXCEPT ![w] = "closing"]
    BY <1>5 DEF Detach, Close, processVars, worker
  <2>2. QED
    BY <1>0, <2>1
<1>6. ASSUME NEW w \in Workers, Restart(w)
      PROVE  TypeOK'
  <2>1. /\ UNCHANGED <<ctx, msg, pc, stored>> /\ pc[w] = "idle"
        /\ mode' = [mode EXCEPT ![w] = "reading"]
        /\ position' = [position EXCEPT ![w] = 0]
    BY <1>6 DEF Restart, processVars, worker
  <2>2. QED
    BY <1>0, <2>1
<1>7. CASE UNCHANGED <<worker, ctx, position, stored, mode>>
  BY <1>0, <1>7 DEF worker
<1>8. ASSUME Others, UNCHANGED <<position, stored, mode>>
      PROVE  TypeOK'
  BY <1>7, <1>8 DEF Others, EditRules, ChangeUser
<1>9. CASE UNCHANGED vars
  BY <1>7, <1>9 DEF vars, processVars
<1>10. QED
  BY <1>1, <1>2, <1>3, <1>4, <1>5, <1>6, <1>8, <1>9 DEF Next, Worker

\* Type correctness: in particular the message a handler runs on is the one at
\* the position of its partition, in a process that is not down.
THEOREM StreamTypeCorrect == Spec => []TypeOK
<1>1. Init => TypeOK
  <2>1. Init => ProcessTypeOK
    BY ConstantsTyped
    DEF Init, ProcessInit, ProcessTypeOK, NoEffects, Places, Calls, RuleSets
  <2>2. Init => /\ position \in [Workers -> Nat]
                /\ stored \in [Workers -> Nat]
                /\ \A w \in Workers : position[w] = 0 /\ stored[w] = 0
                /\ \A w \in Workers : ctx[w] = "live" /\ pc[w] = "idle"
                /\ mode \in [Workers -> {"reading", "detached", "closing", "down"}]
    BY DEF Init, ProcessInit
  <2>3. ASSUME Init, NEW w \in Workers
        PROVE  position[w] <= Len(Log[w]) /\ stored[w] <= Len(Log[w])
    BY <2>2, <2>3, LogLength
  <2>4. QED
    BY <2>1, <2>2, <2>3 DEF TypeOK
<1>2. TypeOK /\ [Next]_vars => TypeOK'
  BY TypeStep
<1>3. QED
  BY <1>1, <1>2, PTL DEF Spec

-----------------------------------------------------------------------------
(***************************************************************************)
(* The documents.  Every start of the service reads the log from its first *)
(* message again, and a failed message is passed over until then.          *)
(***************************************************************************)

\* With the events of a user and the duplicates of an event in one partition,
\* an event that has its row is never applied again, however often the log is
\* read from its first message.
THEOREM StreamProcessedFinal ==
  ASSUME ExclusiveUsers, ExclusiveEvents
  PROVE  Spec => ProcessedIsFinal
<1>1. Init => Fresh /\ Unprocessed
  BY DEF Init, ProcessInit, Fresh, Unprocessed
<1>2. TypeOK /\ Fresh /\ Unprocessed /\ [Next]_vars => Fresh' /\ Unprocessed'
  BY HandlerView, FreshStep, UnprocessedStep DEF TypeOK
<1>3. TypeOK /\ Fresh /\ Unprocessed /\ [Next]_vars => [ProcessedStays]_<<processed, meta>>
  BY HandlerView, FinalStep DEF TypeOK
<1>4. QED
  BY <1>1, <1>2, <1>3, StreamTypeCorrect, PTL DEF Spec, ProcessedIsFinal

\* With the events of a user in one partition, a row of an event with
\* operations implies that they are in the document: an exit that does not wait
\* for the handler, a crash or a failed write in between does not break it.
THEOREM StreamProcessedApplied ==
  ASSUME ExclusiveUsers
  PROVE  Spec => []ProcessedIsApplied
<1> DEFINE Inv == Fresh /\ Static /\ Written /\ ProcessedIsApplied
<1>1. Init => Inv
  BY DEF Init, ProcessInit, Fresh, Static, Written, ProcessedIsApplied
<1>2. TypeOK /\ Inv /\ [Next]_vars => Inv'
  <2> SUFFICES ASSUME TypeOK, Inv, [Next]_vars
               PROVE  Inv'
    OBVIOUS
  <2>1. ProcessTypeOK /\ HandlerStep
    BY HandlerView DEF TypeOK
  <2>2. Fresh' /\ Static' /\ EffectsStay
    BY <2>1, FreshStep, StaticStep, StayStep
  <2>3. Written' /\ ProcessedIsApplied'
    BY <2>1, <2>2, WrittenStep, AppliedStep
  <2>4. QED
    BY <2>2, <2>3
<1>3. Inv => ProcessedIsApplied
  OBVIOUS
<1>4. QED
  BY <1>1, <1>2, <1>3, StreamTypeCorrect, PTL DEF Spec

\* No update of a document is lost, however often the log is read again and
\* whatever fails or dies meanwhile.
THEOREM StreamEffectsStable ==
  ASSUME ExclusiveUsers
  PROVE  Spec => EffectsAreStable
<1>1. Init => Fresh
  BY DEF Init, ProcessInit, Fresh
<1>2. TypeOK /\ Fresh /\ [Next]_vars => Fresh'
  BY HandlerView, FreshStep DEF TypeOK
<1>3. TypeOK /\ Fresh /\ [Next]_vars => [EffectsStay]_<<meta, users>>
  BY HandlerView, StayStep DEF TypeOK
<1>4. QED
  BY <1>1, <1>2, <1>3, StreamTypeCorrect, PTL DEF Spec, EffectsAreStable
=============================================================================
