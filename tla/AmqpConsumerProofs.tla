------------------------- MODULE AmqpConsumerProofs -------------------------
(***************************************************************************)
(* Theorems about AmqpConsumer, for every set of workers, messages, users  *)
(* and rules, every assignment of queues to workers and every number of    *)
(* failures.                                                               *)
(***************************************************************************)
EXTENDS AmqpConsumer, ProcessEventProofs

\* Small operators of the handler and the broker that every proof looks into.
USE DEF AfterDecoding, AfterRules, AfterError, Errs, Exists, Valid, Requeued

\* What the handlers see of a step of the deliveries.
LEMMA HandlerView ==
  ASSUME TypeOK, [Next]_vars
  PROVE  HandlerStep
<1>0. ProcessTypeOK /\ Typed(ctx, faults)
  BY DEF TypeOK, ProcessTypeOK, Typed
<1>1. ASSUME NEW w \in Workers, NEW m \in Messages, Deliver(w, m)
      PROVE  HandlerStep
  BY <1>1 DEF Deliver, HandlerStep, TypeOK
<1>2. ASSUME NEW w \in Workers, Running(w)
      PROVE  HandlerStep
  BY <1>2 DEF Running, HandlerStep
<1>3. ASSUME NEW w \in Workers, Acknowledge(w) \/ NegAcknowledge(w) \/ Crash(w)
      PROVE  HandlerStep
  <2>1. faults' \in 0..MaxFaults
    BY <1>0, <1>3, FaultType DEF Acknowledge, NegAcknowledge, Crash
  <2>2. Return(w) /\ UNCHANGED <<store, environment, ctx>>
    BY <1>3 DEF Acknowledge, NegAcknowledge, Crash
  <2>3. QED
    BY <1>0, <2>1, <2>2 DEF HandlerStep, Typed
<1>4. ASSUME NEW w \in Workers, LoseChannel(w) \/ Shutdown(w) \/ Restart(w)
      PROVE  HandlerStep
  <2>1. faults' \in 0..MaxFaults
    BY <1>0, <1>4, FaultType DEF LoseChannel, Shutdown, Restart
  <2>2. ctx' \in [Workers -> {"live", "cancelled"}]
    BY <1>0, <1>4 DEF LoseChannel, Shutdown, Restart, Typed
  <2>3. UNCHANGED <<store, environment, worker>>
    BY <1>4 DEF LoseChannel, Shutdown, Restart
  <2>4. QED
    BY <2>1, <2>2, <2>3 DEF HandlerStep, Typed
<1>5. CASE UNCHANGED processVars
  BY <1>0, <1>5 DEF processVars, HandlerStep, Typed
<1>6. ASSUME NEW w \in Workers,
             ConsumeReturns(w) \/ Exit(w) \/ \E m \in Messages : Push(w, m)
      PROVE  HandlerStep
  BY <1>5, <1>6 DEF ConsumeReturns, Exit, Push
<1>7. CASE UNCHANGED vars
  BY <1>5, <1>7 DEF vars
<1>8. QED
  BY <1>1, <1>2, <1>3, <1>4, <1>6, <1>7 DEF Next, Worker, HandlerStep

\* What a step is for one worker.
LEMMA WorkerView ==
  ASSUME TypeOK, [Next]_vars, NEW w \in Workers
  PROVE  \/ \E m \in Messages : Deliver(w, m)
         \/ Running(w)
         \/ Acknowledge(w) \/ NegAcknowledge(w) \/ Crash(w)
         \/ /\ pc'[w] = pc[w] /\ msg'[w] = msg[w]
            /\ plan'[w] = plan[w] /\ base'[w] = base[w]
BY DEF Next, Worker, Push, Deliver, Handle, Running, ProcessStep, CheckProcessed,
       FindRules, GetMetaData, UpdateMetaData, CreateProcessed, RecordFailed,
       Acknowledge, NegAcknowledge, ConsumeReturns, LoseChannel, Shutdown, Exit,
       Crash, Restart, Return, Goto, Others, EditRules, ChangeUser, vars,
       processVars, worker, TypeOK, ProcessTypeOK

\* What the broker waits for answers about are messages.
LEMMA OutstandingType ==
  ASSUME TypeOK, NEW w \in Workers
  PROVE  Outstanding(w) \subseteq Messages
BY DEF Outstanding, TypeOK, ProcessTypeOK

-----------------------------------------------------------------------------
\* Every step of the service and of its environment keeps the types.
LEMMA TypeStep ==
  ASSUME TypeOK, [Next]_vars
  PROVE  TypeOK'
<1> USE DEF TypeOK, broker
<1>0. ProcessTypeOK'
  BY HandlerView, HandlerType
<1>1. ASSUME NEW w \in Workers, \E m \in Messages : Push(w, m) \/ Deliver(w, m)
      PROVE  TypeOK'
  <2>1. pc'[w] = pc[w] \/ mode[w] = "consuming"
    BY <1>1 DEF Push, Deliver, processVars, worker
  <2>2. \A v \in Workers \ {w} : pc'[v] = pc[v]
    BY <1>1 DEF Push, Deliver, Handle, Goto, ProcessTypeOK, processVars, worker
  <2>3. mode[w] = "down" => ~link[w] /\ window[w] = {}
    OBVIOUS
  <2>4. QED
    BY <1>0, <1>1, <2>1, <2>2, <2>3 DEF Push, Deliver
<1>2. ASSUME NEW w \in Workers, Running(w)
      PROVE  TypeOK'
  <2>1. pc[w] # "idle" /\ \A v \in Workers \ {w} : pc'[v] = pc[v]
    BY <1>2 DEF Running, ProcessStep, CheckProcessed, FindRules, GetMetaData,
                UpdateMetaData, CreateProcessed, RecordFailed, Goto, ProcessTypeOK
  <2>2. QED
    BY <1>0, <1>2, <2>1 DEF Running
<1>3. ASSUME NEW w \in Workers, Acknowledge(w) \/ NegAcknowledge(w)
      PROVE  TypeOK'
  <2>1. msg[w] \in Messages
    BY <1>3, Busy DEF Acknowledge, NegAcknowledge
  <2>2. \A v \in Workers : pc'[v] = "idle" \/ pc'[v] = pc[v]
    BY <1>3 DEF Acknowledge, NegAcknowledge, Return, Goto, ProcessTypeOK
  <2>3. QED
    BY <1>0, <1>3, <2>1, <2>2 DEF Acknowledge, NegAcknowledge
<1>4. ASSUME NEW w \in Workers, ConsumeReturns(w) \/ Exit(w) \/ Restart(w)
      PROVE  TypeOK'
  <2>1. UNCHANGED pc /\ pc[w] = "idle"
    BY <1>4 DEF ConsumeReturns, Exit, Restart, processVars, worker
  <2>2. QED
    BY <1>0, <1>4, <2>1, OutstandingType DEF ConsumeReturns, Exit, Restart, Unlink
<1>5. ASSUME NEW w \in Workers, LoseChannel(w) \/ Shutdown(w)
      PROVE  TypeOK'
  <2>1. UNCHANGED pc
    BY <1>5 DEF LoseChannel, Shutdown, worker
  <2>2. QED
    BY <1>0, <1>5, <2>1, OutstandingType DEF LoseChannel, Shutdown, Unlink
<1>6. ASSUME NEW w \in Workers, Crash(w)
      PROVE  TypeOK'
  <2>1. pc'[w] = "idle" /\ \A v \in Workers \ {w} : pc'[v] = pc[v]
    BY <1>6 DEF Crash, Return, Goto, ProcessTypeOK
  <2>2. QED
    BY <1>0, <1>6, <2>1, OutstandingType DEF Crash, Unlink
<1>7. ASSUME Others, UNCHANGED <<broker, link, mode>>
      PROVE  TypeOK'
  <2>1. UNCHANGED pc
    BY <1>7 DEF Others, EditRules, ChangeUser, worker
  <2>2. QED
    BY <1>0, <1>7, <2>1
<1>8. CASE UNCHANGED vars
  BY <1>0, <1>8 DEF vars, processVars, worker
<1>9. QED
  BY <1>1, <1>2, <1>3, <1>4, <1>5, <1>6, <1>7, <1>8 DEF Next, Worker

\* Type correctness: in particular a handler has a message of its own queue
\* exactly while it runs, and past resolveUserID it is an event with a user.
THEOREM TypeCorrect == Spec => []TypeOK
<1>1. Init => TypeOK
  BY ConstantsTyped
  DEF Init, TypeOK, ProcessInit, ProcessTypeOK, NoEffects, Places, Calls, RuleSets
<1>2. TypeOK /\ [Next]_vars => TypeOK'
  BY TypeStep
<1>3. QED
  BY <1>1, <1>2, PTL DEF Spec

-----------------------------------------------------------------------------
\* What the handler and the other writers leave alone: the messages held.
LEMMA RunningHolds ==
  ASSUME NEW w, Running(w)
  PROVE  UNCHANGED <<msg, link, broker>>
BY DEF Running, ProcessStep, CheckProcessed, FindRules, GetMetaData,
       UpdateMetaData, CreateProcessed, RecordFailed

LEMMA SameHolders ==
  ASSUME Conservation, UNCHANGED <<msg, link, broker>>
  PROVE  Conservation'
BY DEF Conservation, Holders, Outstanding, broker

\* A closed channel answers for no message.
LEMMA Unlinked ==
  ASSUME TypeOK, NEW w \in Workers, Unlink(w)
  PROVE  ~link'[w] /\ Outstanding(w)' = {}
<1>1. link'[w] = FALSE
  BY DEF Unlink, TypeOK
<1>2. QED
  BY <1>1 DEF Outstanding

\* Moving the messages S that w alone holds, or that nobody holds, to another
\* place: what the steps of Conservation have in common.
LEMMA Release ==
  ASSUME Conservation, NEW w \in Workers, NEW S \in SUBSET Outstanding(w),
         Outstanding(w)' = Outstanding(w) \ S,
         \A v \in Workers \ {w} : Outstanding(v)' = Outstanding(v),
         \/ ready' = ready \cup S /\ settled' = settled
         \/ ready' = ready /\ settled' = settled \cup S,
         \A v \in Workers : link'[v] => msg'[v] \notin window'[v]
  PROVE  Conservation'
<1> SUFFICES ASSUME NEW m \in Messages
             PROVE  /\ m \in ready' => m \notin settled' /\ Holders(m)' = {}
                    /\ m \in settled' => Holders(m)' = {}
                    /\ m \notin ready' \cup settled' => Holders(m)' # {}
                    /\ \A u, v \in Holders(m)' : u = v
  BY DEF Conservation
<1>1. CASE m \in S
  <2>1. w \in Holders(m)
    BY <1>1 DEF Holders
  <2>2. Holders(m) = {w} /\ m \notin ready /\ m \notin settled
    BY <2>1 DEF Conservation
  <2>3. Holders(m)' = {}
    BY <1>1, <2>2 DEF Holders
  <2>4. QED
    BY <1>1, <2>2, <2>3
<1>2. CASE m \notin S
  <2>1. Holders(m)' = Holders(m)
    BY <1>2 DEF Holders
  <2>2. /\ m \in ready' <=> m \in ready
        /\ m \in settled' <=> m \in settled
    BY <1>2
  <2>3. QED
    BY <2>1, <2>2 DEF Conservation
<1>3. QED
  BY <1>1, <1>2

\* Pushes, answers, lost channels and crashes move a message from one place to
\* another.
LEMMA ConservationStep ==
  ASSUME TypeOK, Conservation, [Next]_vars
  PROVE  Conservation'
<1> USE DEF TypeOK, ProcessTypeOK
<1>0. ASSUME NEW w \in Workers, NEW m \in Messages, Push(w, m)
      PROVE  Conservation'
  <2>1. /\ ready' = ready \ {m} /\ m \in ready /\ link[w]
        /\ UNCHANGED <<settled, link, msg>>
        /\ window' = [window EXCEPT ![w] = @ \cup {m}]
    BY <1>0 DEF Push, processVars, worker
  <2>2. Holders(m) = {} /\ m \notin settled
    BY <2>1 DEF Conservation
  <2>3. Outstanding(w)' = Outstanding(w) \cup {m}
    BY <2>1 DEF Outstanding
  <2>4. \A v \in Workers \ {w} : Outstanding(v)' = Outstanding(v)
    BY <2>1 DEF Outstanding
  <2>5. Holders(m)' = {w}
    BY <2>2, <2>3, <2>4 DEF Holders
  <2>6. \A n \in Messages \ {m} : Holders(n)' = Holders(n)
    <3>1. \A n \in Messages \ {m}, v \in Workers :
            n \in Outstanding(v)' <=> n \in Outstanding(v)
      BY <2>3, <2>4
    <3>2. QED
      BY <3>1 DEF Holders
  <2>7. \A v \in Workers : link'[v] => msg'[v] \notin window'[v]
    <3>1. msg[w] # m
      BY <2>1, <2>2, NoneIsNothing DEF Holders, Outstanding
    <3>2. QED
      BY <2>1, <3>1 DEF Conservation
  <2>8. ASSUME NEW n \in Messages
        PROVE  /\ n \in ready' => n \notin settled' /\ Holders(n)' = {}
               /\ n \in settled' => Holders(n)' = {}
               /\ n \notin ready' \cup settled' => Holders(n)' # {}
               /\ \A u, v \in Holders(n)' : u = v
    <3>1. CASE n = m
      BY <3>1, <2>1, <2>2, <2>5
    <3>2. CASE n # m
      BY <3>2, <2>1, <2>6 DEF Conservation
    <3>3. QED
      BY <3>1, <3>2
  <2>9. QED
    BY <2>7, <2>8 DEF Conservation
<1>1. ASSUME NEW w \in Workers, NEW m \in Messages, Deliver(w, m)
      PROVE  Conservation'
  <2>1. /\ m \in window[w] /\ msg[w] = None
        /\ UNCHANGED <<ready, settled, link>>
        /\ window' = [window EXCEPT ![w] = @ \ {m}]
        /\ msg' = [msg EXCEPT ![w] = m]
    BY <1>1 DEF Deliver, Handle
  <2>a. Outstanding(w)' = Outstanding(w)
    <3>1. msg'[w] = m /\ window'[w] = window[w] \ {m} /\ m # None
      BY <2>1, NoneIsNothing
    <3>2. window'[w] \cup ({msg'[w]} \ {None}) = window[w] \cup ({msg[w]} \ {None})
      BY <2>1, <3>1
    <3>3. QED
      BY <2>1, <3>2 DEF Outstanding
  <2>b. \A v \in Workers \ {w} : Outstanding(v)' = Outstanding(v)
    BY <2>1 DEF Outstanding
  <2>2. \A v \in Workers : Outstanding(v)' = Outstanding(v)
    BY <2>a, <2>b
  <2>3. \A n \in Messages : Holders(n)' = Holders(n)
    BY <2>2 DEF Holders
  <2>4. QED
    BY <2>1, <2>3 DEF Conservation
<1>2. ASSUME NEW w \in Workers, Running(w)
      PROVE  Conservation'
  BY <1>2, RunningHolds, SameHolders
<1>3. ASSUME NEW w \in Workers, Acknowledge(w) \/ NegAcknowledge(w)
      PROVE  Conservation'
  <2> DEFINE S == IF link[w] THEN {msg[w]} ELSE {}
  <2>1. /\ msg' = [msg EXCEPT ![w] = None] /\ UNCHANGED <<link, window>>
        /\ msg[w] \in Messages
    BY <1>3, Busy DEF Acknowledge, NegAcknowledge, Return
  <2>2. \/ ready' = ready \cup S /\ settled' = settled
        \/ ready' = ready /\ settled' = settled \cup S
    BY <1>3 DEF Acknowledge, NegAcknowledge
  <2>3. S \subseteq Outstanding(w)
    BY <2>1, NoneIsNothing DEF Outstanding
  <2>4. Outstanding(w)' = Outstanding(w) \ S
    BY <2>1 DEF Outstanding, Conservation
  <2>5. \A v \in Workers \ {w} : Outstanding(v)' = Outstanding(v)
    BY <2>1 DEF Outstanding
  <2>6. \A v \in Workers : link'[v] => msg'[v] \notin window'[v]
    BY <2>1, NoneIsNothing DEF Conservation
  <2> HIDE DEF S
  <2>7. QED
    BY <2>2, <2>3, <2>4, <2>5, <2>6, Release
<1>4. ASSUME NEW w \in Workers, ConsumeReturns(w) \/ Shutdown(w)
      PROVE  Conservation'
  BY <1>4, SameHolders DEF ConsumeReturns, Shutdown, processVars, worker
<1>5. ASSUME NEW w \in Workers, Restart(w)
      PROVE  Conservation'
  <2>1. /\ UNCHANGED <<msg, ready, settled, window>>
        /\ msg[w] = None /\ window[w] = {}
        /\ \A v \in Workers \ {w} : link'[v] = link[v]
    BY <1>5 DEF Restart, worker, broker
  <2>a. Outstanding(w) = {} /\ Outstanding(w)' = {}
    BY <2>1 DEF Outstanding
  <2>b. \A v \in Workers \ {w} : Outstanding(v)' = Outstanding(v)
    BY <2>1 DEF Outstanding
  <2>2. \A v \in Workers : Outstanding(v)' = Outstanding(v)
    BY <2>a, <2>b
  <2>3. \A n \in Messages : Holders(n)' = Holders(n)
    BY <2>2 DEF Holders
  <2>4. \A v \in Workers : link'[v] => msg'[v] \notin window'[v]
    BY <2>1 DEF Conservation
  <2>5. QED
    BY <2>1, <2>3, <2>4 DEF Conservation
<1>6. ASSUME NEW w \in Workers, LoseChannel(w) \/ Crash(w) \/ Exit(w)
      PROVE  Conservation'
  <2>1. /\ link' = [link EXCEPT ![w] = FALSE] /\ UNCHANGED settled
        /\ ready' = ready \cup Outstanding(w)
        /\ \A v \in Workers \ {w} : msg'[v] = msg[v] /\ window'[v] = window[v]
    BY <1>6 DEF LoseChannel, Crash, Exit, Unlink, Return, processVars, worker
  <2>2. Outstanding(w)' = {}
    BY <1>6, Unlinked DEF LoseChannel, Crash, Exit
  <2>a. ~link'[w] /\ \A v \in Workers \ {w} : link'[v] = link[v]
    BY <1>6, Unlinked DEF LoseChannel, Crash, Exit, Unlink
  <2>3. \A v \in Workers \ {w} : Outstanding(v)' = Outstanding(v)
    BY <2>1, <2>a DEF Outstanding
  <2>4. \A v \in Workers : link'[v] => msg'[v] \notin window'[v]
    BY <2>1, <2>a DEF Conservation
  <2>5. Outstanding(w)' = Outstanding(w) \ Outstanding(w)
    BY <2>2
  <2> DEFINE S == Outstanding(w)
  <2>6. /\ S \subseteq Outstanding(w) /\ Outstanding(w)' = Outstanding(w) \ S
        /\ ready' = ready \cup S /\ settled' = settled
    BY <2>1, <2>5
  <2> HIDE DEF S
  <2>7. QED
    BY <2>3, <2>4, <2>6, Release
<1>7. ASSUME Others, UNCHANGED <<broker, link, mode>>
      PROVE  Conservation'
  BY <1>7, SameHolders DEF Others, EditRules, ChangeUser, worker
<1>8. CASE UNCHANGED vars
  BY <1>8, SameHolders DEF vars, processVars, worker
<1>9. QED
  BY <1>0, <1>1, <1>2, <1>3, <1>4, <1>5, <1>6, <1>7, <1>8 DEF Next, Worker

\* No message is lost and none is delivered to two open channels at once,
\* whatever crashes, channel losses and zombie handlers there are.
THEOREM Conserved == Spec => []Conservation
<1>1. Init => Conservation
  BY NoneIsNothing DEF Init, ProcessInit, Conservation, Holders, Outstanding
<1>2. TypeOK /\ Conservation /\ [Next]_vars => Conservation'
  BY ConservationStep
<1>3. QED
  BY <1>1, <1>2, TypeCorrect, PTL DEF Spec

-----------------------------------------------------------------------------
(***************************************************************************)
(* Acknowledged means processed.  The invariant says where an applicable   *)
(* event can be: never where it would only be recorded as failed, and on   *)
(* its way to an Ack only with its row.                                    *)
(***************************************************************************)

AckInv == Static /\ AckOnlyRecorded /\ AckedIsProcessed

\* Only what a handler answered with nil is settled.
LEMMA SettledChange ==
  ASSUME TypeOK, [Next]_vars, NEW m \in settled', m \notin settled
  PROVE  \E w \in Workers : Acknowledge(w) /\ m = msg[w]
BY DEF Next, Worker, Push, Deliver, Running, Acknowledge, NegAcknowledge,
       ConsumeReturns, LoseChannel, Shutdown, Exit, Crash, Restart, vars, broker

LEMMA AckStep ==
  ASSUME TypeOK, AckInv, [Next]_vars
  PROVE  AckInv'
<1>1. ProcessTypeOK /\ HandlerStep
  BY HandlerView DEF TypeOK
<1>2. Static' /\ AckOnlyRecorded'
  BY <1>1, StaticStep, AckOnlyRecordedStep DEF AckInv
<1>3. ASSUME NEW m \in settled', Applicable(m)
      PROVE  Recorded(m)'
  <2>1. CASE m \in settled
    BY <1>1, <1>3, <2>1, RowsStay DEF AckInv, AckedIsProcessed
  <2>2. ASSUME NEW w \in Workers, Acknowledge(w), m = msg[w]
        PROVE  Recorded(m)
    BY <1>3, <2>2 DEF Acknowledge, AckInv, AckOnlyRecorded
  <2>3. QED
    BY <1>1, <2>1, <2>2, SettledChange, RowsStay
<1>4. AckedIsProcessed'
  BY <1>3 DEF AckedIsProcessed, Applicable
<1>5. QED
  BY <1>2, <1>4 DEF AckInv

\* An applicable event is acknowledged only once it is in processed_events:
\* no failing call, lost reply, crash, shutdown or second replica changes it.
THEOREM AckedProcessed == Spec => []AckedIsProcessed
<1>1. Init => AckInv
  BY DEF Init, ProcessInit, AckInv, Static, AckOnlyRecorded, AckedIsProcessed
<1>2. TypeOK /\ AckInv /\ [Next]_vars => AckInv'
  BY AckStep
<1>3. AckInv => AckedIsProcessed
  BY DEF AckInv
<1>4. QED
  BY <1>1, <1>2, <1>3, TypeCorrect, PTL DEF Spec

-----------------------------------------------------------------------------
(***************************************************************************)
(* Acknowledged means recorded.                                            *)
(***************************************************************************)

RecordedInv == Answered /\ AckedIsRecorded

LEMMA RecordedStep ==
  ASSUME FailuresRecorded, TypeOK, Uncancelled, RecordedInv, [Next]_vars
  PROVE  RecordedInv'
<1>1. ProcessTypeOK /\ HandlerStep
  BY HandlerView DEF TypeOK
<1>2. Answered'
  BY <1>1, AnsweredStep DEF RecordedInv
<1>3. ASSUME NEW m \in settled'
      PROVE  Recorded(m)' \/ failed'[m] > 0
  <2>1. m \in Messages
    BY TypeStep DEF TypeOK
  <2>2. ASSUME NEW w \in Workers, Acknowledge(w), m = msg[w]
        PROVE  Recorded(m) \/ failed[m] > 0
    BY <2>2 DEF Acknowledge, RecordedInv, Answered
  <2>3. Recorded(m) \/ failed[m] > 0
    BY <2>2, SettledChange DEF RecordedInv, AckedIsRecorded
  <2>4. QED
    BY <1>1, <2>1, <2>3, RowsStay, FailedChange
<1>4. AckedIsRecorded'
  BY <1>3 DEF AckedIsRecorded
<1>5. QED
  BY <1>2, <1>4 DEF RecordedInv

\* As long as the recording of failures works, in a context that is not cancelled,
\* an acknowledged message left a row, in processed_events or failed_events:
\* through every other failing call, SIGTERM, lost channel, crash and edit of
\* rules and users, with any number of replicas.
THEOREM AckedRecorded ==
  ASSUME FailuresRecorded
  PROVE  Spec /\ []Uncancelled => []AckedIsRecorded
<1>1. Init => RecordedInv
  BY DEF Init, ProcessInit, RecordedInv, Answered, AckedIsRecorded
<1>2. TypeOK /\ Uncancelled /\ RecordedInv /\ [Next]_vars => RecordedInv'
  BY RecordedStep
<1>3. RecordedInv => AckedIsRecorded
  BY DEF RecordedInv
<1>4. QED
  BY <1>1, <1>2, <1>3, TypeCorrect, PTL DEF Spec

-----------------------------------------------------------------------------
(***************************************************************************)
(* What the queue consumers write to the documents of users.meta_data.     *)
(***************************************************************************)

\* With any number of replicas, a row that was deleted between the read of its
\* document and the update does not come back with the old document.
THEOREM DeletedStays == Spec => []DeletedStaysDeleted
<1>1. Init => DeletedStaysDeleted
  BY DEF Init, ProcessInit, DeletedStaysDeleted
<1>2. TypeOK /\ DeletedStaysDeleted /\ [Next]_vars => DeletedStaysDeleted'
  BY HandlerView, DeletedStep DEF TypeOK
<1>3. QED
  BY <1>1, <1>2, TypeCorrect, PTL DEF Spec

-----------------------------------------------------------------------------
(***************************************************************************)
(* The events of a user, and the duplicates of an event, are handled by    *)
(* one worker (ExclusiveUsers, ExclusiveEvents); whatever fails.           *)
(***************************************************************************)

\* With one worker for each user, no step removes an effect from a document
\* whose row stays: no update is lost, whatever fails or is delivered again.
THEOREM EffectsStable ==
  ASSUME ExclusiveUsers
  PROVE  Spec => EffectsAreStable
<1>1. Init => Fresh
  BY DEF Init, ProcessInit, Fresh
<1>2. TypeOK /\ Fresh /\ [Next]_vars => Fresh'
  BY HandlerView, FreshStep DEF TypeOK
<1>3. TypeOK /\ Fresh /\ [Next]_vars => [EffectsStay]_<<meta, users>>
  BY HandlerView, StayStep DEF TypeOK
<1>4. QED
  BY <1>1, <1>2, <1>3, TypeCorrect, PTL DEF Spec, EffectsAreStable

\* With one worker for each user and each event, an event that has its row is
\* never applied again: not by a duplicate, a redelivery or a restarted worker.
THEOREM ProcessedFinal ==
  ASSUME ExclusiveUsers, ExclusiveEvents
  PROVE  Spec => ProcessedIsFinal
<1>1. Init => Fresh /\ Unprocessed
  BY DEF Init, ProcessInit, Fresh, Unprocessed
<1>2. TypeOK /\ Fresh /\ Unprocessed /\ [Next]_vars => Fresh' /\ Unprocessed'
  BY HandlerView, FreshStep, UnprocessedStep DEF TypeOK
<1>3. TypeOK /\ Fresh /\ Unprocessed /\ [Next]_vars => [ProcessedStays]_<<processed, meta>>
  BY HandlerView, FinalStep DEF TypeOK
<1>4. QED
  BY <1>1, <1>2, <1>3, TypeCorrect, PTL DEF Spec, ProcessedIsFinal

\* With one worker for each user, a processed_events row of an event with
\* operations implies that they are in the document: none of the failures
\* between the two writes, and no later write, breaks it.
THEOREM ProcessedApplied ==
  ASSUME ExclusiveUsers
  PROVE  Spec => []ProcessedIsApplied
<1> DEFINE Inv == Fresh /\ Static /\ Written /\ ProcessedIsApplied
<1>1. Init => Inv
  BY DEF Init, ProcessInit, Fresh, Static, Written, ProcessedIsApplied
<1>2. TypeOK /\ Inv /\ [Next]_vars => Inv'
  <2> SUFFICES ASSUME TypeOK, Inv, [Next]_vars
               PROVE  Inv'
    OBVIOUS
  <2>1. ProcessTypeOK /\ HandlerStep
    BY HandlerView DEF TypeOK
  <2>2. Fresh' /\ Static' /\ EffectsStay
    BY <2>1, FreshStep, StaticStep, StayStep
  <2>3. Written' /\ ProcessedIsApplied'
    BY <2>1, <2>2, WrittenStep, AppliedStep
  <2>4. QED
    BY <2>2, <2>3
<1>3. Inv => ProcessedIsApplied
  OBVIOUS
<1>4. QED
  BY <1>1, <1>2, <1>3, TypeCorrect, PTL DEF Spec

-----------------------------------------------------------------------------
(***************************************************************************)
(* Once.  An event with an id is protected by its row, if its operations   *)
(* are never in the document without it or on the way to it.               *)
(***************************************************************************)

\* If the two writes of RecordSuccess are one transaction and one worker handles
\* the duplicates of an event, the operations of an event that has an id are in
\* the documents at most once: through every redelivery after a lost reply, a
\* lost channel, a SIGTERM or a crash, and edits of rules and users.
THEOREM AppliedOnce ==
  ASSUME ExclusiveEvents
  PROVE  UndividedSpec => []AppliedAtMostOnce
<1> DEFINE Inv == Unprocessed /\ Planned /\ Once
<1>1. Init => Inv
  <2>1. Init => \A m \in Messages : ~Carried(m)
    BY DEF Init, ProcessInit, NoEffects, Carried
  <2>2. Init => Unprocessed /\ Planned
    BY DEF Init, ProcessInit, Unprocessed, Planned
  <2>3. Init => Once
    BY <2>1 DEF Init, ProcessInit, NoEffects, Once
  <2>4. QED
    BY <2>2, <2>3
<1>2. TypeOK /\ Inv /\ [Next /\ Undivided]_vars => Inv'
  <2> SUFFICES ASSUME TypeOK, Inv, [Next /\ Undivided]_vars
               PROVE  Inv'
    OBVIOUS
  <2>1. ProcessTypeOK /\ HandlerStep
    BY HandlerView DEF TypeOK
  <2>2. Undivided
    BY DEF Undivided, HalfWritten, vars, processVars, worker
  <2>3. QED
    BY <2>1, <2>2, UnprocessedStep, PlannedStep, OnceStep
<1>3. TypeOK /\ Inv => AppliedAtMostOnce
  BY OnceImplies DEF TypeOK
<1>4. [Next /\ Undivided]_vars => [Next]_vars
  OBVIOUS
<1> HIDE DEF Inv
<1>5. QED
  BY <1>1, <1>2, <1>3, <1>4, TypeCorrect, PTL DEF Spec, UndividedSpec

=============================================================================
