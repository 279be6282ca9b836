------------------------ MODULE AmqpRefinementProofs ------------------------
(***************************************************************************)
(* AmqpConsumer implements AtomicProcessing: every step of the deliveries  *)
(* is a step of the promise or leaves it alone.                            *)
(*                                                                         *)
(*   CreateProcessed  is  Apply, after an update, or MarkOnly              *)
(*   RecordFailed     is  Reject                                           *)
(*   Acknowledge      is  Settle, on an open channel                       *)
(*                                                                         *)
(* UpdateMetaData changes nothing that the promise sees: the document it   *)
(* writes counts from the row on (Documents).                              *)
(***************************************************************************)
EXTENDS AmqpRefinement, AmqpConsumerProofs

USE DEF AfterDecoding, AfterRules, AfterError, Errs, Exists, Valid, Requeued

-----------------------------------------------------------------------------
(***************************************************************************)
(* The invariant of the mapping.                                           *)
(***************************************************************************)

\* The message that is handled is not among those that wait for the handler,
\* not even after its channel closed and it was requeued.
NotAgain == \A w \in Workers : msg[w] \notin window[w]

LEMMA NotAgainStep ==
  ASSUME TypeOK, Conservation, NotAgain, [Next]_vars
  PROVE  NotAgain'
<1> SUFFICES ASSUME NEW w \in Workers
             PROVE  msg'[w] \notin window'[w]
  BY DEF NotAgain
<1>0. /\ msg[w] \notin window[w] /\ None \notin window'[w]
      /\ msg \in [Workers -> Messages \cup {None}]
      /\ window \in [Workers -> SUBSET Messages]
  <2>1. TypeOK'
    BY TypeStep
  <2>2. QED
    BY <2>1, NoneIsNothing DEF NotAgain, TypeOK, ProcessTypeOK
<1>1. ASSUME NEW m \in Messages, Push(w, m)
      PROVE  msg'[w] \notin window'[w]
  <2>1. link[w] /\ m \in ready /\ UNCHANGED msg /\ window'[w] = window[w] \cup {m}
    BY <1>0, <1>1 DEF Push, processVars, worker
  <2>2. w \notin Holders(m)
    BY <2>1 DEF Conservation
  <2>3. msg[w] # m
    BY <2>1, <2>2, NoneIsNothing DEF Holders, Outstanding
  <2>4. QED
    BY <1>0, <2>1, <2>3
<1>2. CASE msg'[w] = msg[w] /\ window'[w] \subseteq window[w]
  BY <1>0, <1>2
<1>3. ASSUME NEW m \in Messages, Deliver(w, m)
      PROVE  msg'[w] \notin window'[w]
  BY <1>0, <1>3 DEF Deliver, Handle
<1>4. CASE msg'[w] = None
  BY <1>0, <1>4
<1>5. QED
  BY <1>0, <1>1, <1>2, <1>3, <1>4
  DEF Next, Worker, Push, Deliver, Handle, Running, ProcessStep, CheckProcessed,
      FindRules, GetMetaData, UpdateMetaData, CreateProcessed, RecordFailed,
      Acknowledge, NegAcknowledge, ConsumeReturns, LoseChannel, Shutdown, Exit,
      Crash, Restart, Return, Others, EditRules, ChangeUser, vars, processVars,
      worker, broker

\* What a worker has, waiting or in its handler, was not answered before.
Unsettled ==
  \A w \in Workers :
    /\ pc[w] # "idle" => msg[w] \notin settled
    /\ window[w] \cap settled = {}

LEMMA UnsettledStep ==
  ASSUME OneQueue, TypeOK, Conservation, NotAgain, Unsettled, [Next]_vars
  PROVE  Unsettled'
<1>0. ProcessTypeOK /\ ProcessTypeOK'
  BY HandlerView, HandlerType DEF TypeOK
<1>1. ASSUME NEW v \in Workers, Acknowledge(v)
      PROVE  Unsettled'
  <2>1. /\ msg[v] \in Serves[v] /\ msg[v] \notin window[v]
        /\ window' = window /\ settled' \subseteq settled \cup {msg[v]}
        /\ pc' = [pc EXCEPT ![v] = "idle"] /\ msg' = [msg EXCEPT ![v] = None]
    BY <1>0, <1>1, Busy DEF Acknowledge, Return, Goto, NotAgain
  <2>2. ASSUME NEW w \in Workers \ {v}
        PROVE  msg[v] \notin window[w] /\ msg[v] \notin Serves[w]
    BY <2>1 DEF OneQueue, TypeOK
  <2>3. ASSUME NEW w \in Workers, pc'[w] # "idle"
        PROVE  msg'[w] \notin settled'
    <3>1. w # v /\ pc[w] # "idle" /\ msg'[w] = msg[w]
      BY <1>0, <2>1, <2>3 DEF ProcessTypeOK
    <3>2. msg[w] \in Serves[w] /\ msg[w] \notin settled
      BY <1>0, <3>1, Busy DEF Unsettled
    <3>3. QED
      BY <2>1, <2>2, <3>1, <3>2
  <2>4. ASSUME NEW w \in Workers
        PROVE  window'[w] \cap settled' = {}
    BY <2>1, <2>2 DEF Unsettled
  <2>5. QED
    BY <2>3, <2>4 DEF Unsettled
<1>2. CASE UNCHANGED settled
  <2>1. ASSUME NEW w \in Workers
        PROVE  window'[w] \cap settled' = {}
    <3>1. ASSUME NEW m \in Messages, Push(w, m)
          PROVE  m \notin settled
      BY <3>1 DEF Push, Conservation
    <3>2. \/ window'[w] \subseteq window[w]
          \/ \E m \in Messages : Push(w, m) /\ window'[w] = window[w] \cup {m}
      BY DEF Next, Worker, Push, Deliver, Running, Acknowledge, NegAcknowledge,
             ConsumeReturns, LoseChannel, Shutdown, Exit, Crash, Restart, vars,
             broker, TypeOK
    <3>3. QED
      BY <1>2, <3>1, <3>2 DEF Unsettled
  <2>2. ASSUME NEW w \in Workers, pc'[w] # "idle"
        PROVE  msg'[w] \notin settled'
    <3>1. ASSUME NEW m \in Messages, Deliver(w, m)
          PROVE  msg'[w] \notin settled
      BY <1>0, <3>1 DEF Deliver, Handle, Unsettled, ProcessTypeOK
    <3>2. CASE Running(w)
      <4>1. pc[w] # "idle" /\ msg' = msg
        BY <3>2, RunningHolds
        DEF Running, ProcessStep, CheckProcessed, FindRules, GetMetaData,
            UpdateMetaData, CreateProcessed, RecordFailed
      <4>2. QED
        BY <1>2, <4>1 DEF Unsettled
    <3>3. CASE Acknowledge(w) \/ NegAcknowledge(w) \/ Crash(w)
      BY <1>0, <2>2, <3>3
      DEF Acknowledge, NegAcknowledge, Crash, Return, Goto, ProcessTypeOK
    <3>4. CASE pc'[w] = pc[w] /\ msg'[w] = msg[w]
      BY <1>2, <2>2, <3>4 DEF Unsettled
    <3>5. QED
      BY <1>2, <3>1, <3>2, <3>3, <3>4, WorkerView
  <2>3. QED
    BY <2>1, <2>2 DEF Unsettled
<1>3. QED
  BY <1>1, <1>2
  DEF Next, Worker, Push, Deliver, Running, NegAcknowledge, ConsumeReturns,
      LoseChannel, Shutdown, Exit, Crash, Restart, vars, broker

\* What a handler is about to do is in the rules of its event's type.
PlanHolds ==
  \A w \in Workers :
    /\ pc[w] \in {"getMeta", "update", "insert"}
         => EventType[msg[w]] \in VolatileRules \/ plan[w] = InitialRules[EventType[msg[w]]]
    /\ pc[w] = "insert" => plan[w] \in {"noOps", "ops"}

LEMMA PlanHoldsStep ==
  ASSUME ProcessTypeOK, Static, Planned, PlanHolds, HandlerStep
  PROVE  PlanHolds'
<1> SUFFICES ASSUME NEW w \in Workers, pc'[w] \in {"getMeta", "update", "insert"}
             PROVE  /\ \/ EventType[msg'[w]] \in VolatileRules
                       \/ plan'[w] = InitialRules[EventType[msg'[w]]]
                    /\ pc'[w] = "insert" => plan'[w] \in {"noOps", "ops"}
  BY DEF PlanHolds
<1>1. CASE FindRules(w)
  <2>1. EventType[msg[w]] \in Types
    BY <1>1, Busy, ConstantsTyped DEF FindRules
  <2>2. QED
    BY <1>1, <2>1 DEF FindRules, Goto, Static, ProcessTypeOK
<1>2. CASE GetMetaData(w) \/ UpdateMetaData(w)
  BY <1>2 DEF GetMetaData, AfterEvaluation, UpdateMetaData, Goto, ProcessTypeOK,
              PlanHolds, Planned
<1>3. ~(CheckProcessed(w) \/ CreateProcessed(w) \/ RecordFailed(w))
  BY DEF CheckProcessed, CreateProcessed, RecordFailed, Goto, ProcessTypeOK
<1>4. ~\E m \in Serves[w] : Handle(w, m)
  BY DEF Handle, Goto, ProcessTypeOK
<1>5. QED
  BY <1>1, <1>2, <1>3, <1>4, Locality DEF ProcessStep, PlanHolds

\* From the read of a document on its user has a row, and after the update the
\* document is what was written.
Writing ==
  \A w \in Workers :
    /\ pc[w] \in {"update", "insert"} => UserId[msg[w]] \in users
    /\ HalfWritten(w) => meta[UserId[msg[w]]] = NewMeta(w)

LEMMA WritingStep ==
  ASSUME VolatileUsers = {}, ExclusiveUsers, ProcessTypeOK, Writing, HandlerStep
  PROVE  Writing' /\ UNCHANGED users
<1>0. UNCHANGED users /\ ~\E u \in Users : ChangeUser(u)
  BY UsersChange DEF ChangeUser
<1> SUFFICES ASSUME NEW w \in Workers, pc'[w] \in {"update", "insert"}
             PROVE  /\ UserId[msg'[w]] \in users'
                    /\ HalfWritten(w)' => meta'[UserId[msg'[w]]] = NewMeta(w)'
  BY <1>0 DEF Writing, HalfWritten
<1>1. CASE GetMetaData(w)
  BY <1>0, <1>1 DEF GetMetaData, AfterEvaluation, Goto, ProcessTypeOK, HalfWritten
<1>2. CASE UpdateMetaData(w)
  <2>1. /\ pc[w] = "update" /\ WriteMeta(w) /\ UNCHANGED <<msg, plan, base>>
    BY <1>2 DEF UpdateMetaData, Goto, ProcessTypeOK
  <2>2. UserId[msg[w]] \in users /\ UserId[msg[w]] \in Users
    BY <2>1 DEF Writing, ProcessTypeOK, Calls
  <2>3. meta'[UserId[msg[w]]] = NewMeta(w)
    BY <2>1, <2>2 DEF WriteMeta, ProcessTypeOK
  <2>4. NewMeta(w)' = NewMeta(w)
    BY <2>1 DEF NewMeta
  <2>5. QED
    BY <1>0, <2>1, <2>2, <2>3, <2>4
<1>3. ~(CheckProcessed(w) \/ FindRules(w) \/ CreateProcessed(w) \/ RecordFailed(w))
  BY DEF CheckProcessed, FindRules, CreateProcessed, RecordFailed, Goto, ProcessTypeOK
<1>4. ~\E m \in Serves[w] : Handle(w, m)
  BY DEF Handle, Goto, ProcessTypeOK
<1>5. CASE /\ pc'[w] = pc[w] /\ msg'[w] = msg[w]
           /\ plan'[w] = plan[w] /\ base'[w] = base[w]
  <2>1. UserId[msg[w]] \in users
    BY <1>5 DEF Writing
  <2>2. NewMeta(w)' = NewMeta(w)
    BY <1>5 DEF NewMeta
  <2>3. ASSUME HalfWritten(w)
        PROVE  meta'[UserId[msg[w]]] = meta[UserId[msg[w]]]
    <3>1. ASSUME NEW v \in Workers, UpdateMetaData(v)
          PROVE  meta'[UserId[msg[w]]] = meta[UserId[msg[w]]]
      <4>1. v # w /\ msg[v] \in Serves[v] /\ msg[w] \in Serves[w]
        BY <2>3, <3>1, Busy DEF UpdateMetaData, HalfWritten
      <4>2. UserId[msg[w]] \in Users
        BY <2>3 DEF ProcessTypeOK, Calls, HalfWritten
      <4>3. UserId[msg[w]] # UserId[msg[v]]
        BY <4>1, <4>2, NoneIsNothing DEF ExclusiveUsers
      <4>4. QED
        BY <3>1, <4>2, <4>3, UpdateEffect DEF ProcessTypeOK
    <3>2. QED
      BY <1>0, <3>1, DocumentChange
  <2>4. QED
    BY <1>0, <1>5, <2>1, <2>2, <2>3 DEF Writing, HalfWritten
<1>6. QED
  BY <1>1, <1>2, <1>3, <1>4, <1>5, Locality DEF ProcessStep

-----------------------------------------------------------------------------
(***************************************************************************)
(* The mapping.                                                            *)
(***************************************************************************)

LEMMA ChooseOnly ==
  ASSUME NEW S, NEW x, S = {x}
  PROVE  (CHOOSE y \in S : TRUE) = x
OBVIOUS

\* At most one worker is between the two writes to a document.
LEMMA BetweenAlone ==
  ASSUME ExclusiveUsers, ProcessTypeOK, NEW u \in Users, NEW w \in Between(u)
  PROVE  Between(u) = {w}
<1>1. ASSUME NEW v \in Between(u)
      PROVE  v = w
  <2>1. /\ v \in Workers /\ w \in Workers /\ UserId[msg[v]] = u /\ UserId[msg[w]] = u
        /\ pc[v] # "idle" /\ pc[w] # "idle"
    BY <1>1 DEF Between, HalfWritten
  <2>2. msg[v] \in Serves[v] /\ msg[w] \in Serves[w] /\ u # None
    BY <2>1, Busy, NoneIsNothing
  <2>3. QED
    BY <2>1, <2>2 DEF ExclusiveUsers
<1>2. QED
  BY <1>1

\* Between the writes the promise still sees the document that was read.
LEMMA DocumentBetween ==
  ASSUME ExclusiveUsers, ProcessTypeOK, NEW u \in Users, NEW w \in Between(u)
  PROVE  Documents[u] = base[w]
BY BetweenAlone, ChooseOnly DEF Documents

\* A step that leaves the documents, and who is between the writes to them,
\* leaves what the promise sees of them.
LEMMA SameDocuments ==
  ASSUME UNCHANGED meta,
         \A u \in Users : Between(u)' = Between(u),
         \A u \in Users : \A w \in Between(u) : base'[w] = base[w]
  PROVE  UNCHANGED Documents
<1>1. ASSUME NEW u \in Users
      PROVE  Documents'[u] = Documents[u]
  BY DEF Documents
<1>2. QED
  BY <1>1 DEF Documents

\* Only the two writes of RecordSuccess change that.
LEMMA DocumentsElsewhere ==
  ASSUME VolatileUsers = {}, TypeOK, Writing, Undivided, [Next]_vars,
         \A w \in Workers : UpdateMetaData(w) => UNCHANGED meta /\ pc'[w] # "insert",
         \A w \in Workers : CreateProcessed(w) => plan[w] # "ops"
  PROVE  UNCHANGED Documents
<1>0. ProcessTypeOK /\ HandlerStep
  BY HandlerView DEF TypeOK
<1>1. UNCHANGED meta
  BY <1>0, DocumentChange DEF ChangeUser
<1>2. ASSUME NEW w \in Workers
      PROVE  \/ /\ pc'[w] = pc[w] /\ msg'[w] = msg[w]
                /\ plan'[w] = plan[w] /\ base'[w] = base[w]
             \/ ~HalfWritten(w) /\ ~HalfWritten(w)'
  <2>1. CASE HalfWritten(w)
    <3>1. pc'[w] = "insert"
      BY <2>1 DEF Undivided, HalfWritten
    <3>2. ~ProcessStep(w) /\ ~\E m \in Serves[w] : Handle(w, m)
      BY <1>0, <2>1, <3>1
      DEF HalfWritten, ProcessStep, CheckProcessed, FindRules, GetMetaData,
          UpdateMetaData, CreateProcessed, RecordFailed, Handle, Goto, ProcessTypeOK
    <3>3. QED
      BY <1>0, <3>1, <3>2, Locality
  <2>2. CASE ~HalfWritten(w) /\ HalfWritten(w)'
    <3>1. ~ProcessStep(w)
      BY <1>0, <2>2
      DEF HalfWritten, ProcessStep, CheckProcessed, FindRules, GetMetaData,
          AfterEvaluation, UpdateMetaData, CreateProcessed, RecordFailed, Goto,
          ProcessTypeOK
    <3>2. ~\E m \in Serves[w] : Handle(w, m)
      BY <1>0, <2>2 DEF HalfWritten, Handle, Goto, ProcessTypeOK
    <3>3. QED
      BY <1>0, <2>2, <3>1, <3>2, Locality DEF HalfWritten
  <2>3. QED
    BY <2>1, <2>2
<1>3. ASSUME NEW u \in Users
      PROVE  Between(u)' = Between(u)
  BY <1>2 DEF Between, HalfWritten
<1>4. ASSUME NEW u \in Users, NEW w \in Between(u)
      PROVE  base'[w] = base[w]
  BY <1>2 DEF Between
<1>5. QED
  BY <1>1, <1>3, <1>4, SameDocuments

\* The update of the document is not seen yet.
LEMMA UpdateUnseen ==
  ASSUME VolatileUsers = {}, ExclusiveUsers, ProcessTypeOK, Fresh, Planned, Writing,
         NEW w \in Workers, UpdateMetaData(w), pc'[w] = "insert"
  PROVE  UNCHANGED Documents
<1> DEFINE U == UserId[msg[w]]
<1>1. /\ pc[w] = "update" /\ plan[w] = "ops" /\ WriteMeta(w)
      /\ UNCHANGED <<msg, plan, base>> /\ pc' = [pc EXCEPT ![w] = "insert"]
      /\ U \in Users /\ U \in users
  BY DEF UpdateMetaData, Planned, Writing, Goto, ProcessTypeOK, Calls
<1>2. meta[U] = base[w]
  BY <1>1 DEF Fresh
<1>3. ASSUME NEW u \in Users, u = U
      PROVE  Between(u) = {} /\ Between(u)' = {w}
  <2>1. ASSUME NEW v \in Between(u)
        PROVE  FALSE
    <3>1. v \in Workers /\ UserId[msg[v]] = u /\ pc[v] = "insert"
      BY <2>1 DEF Between, HalfWritten
    <3>2. msg[v] \in Serves[v] /\ msg[w] \in Serves[w] /\ v # w /\ u # None
      BY <1>1, <3>1, Busy, NoneIsNothing
    <3>3. QED
      BY <1>3, <3>1, <3>2 DEF ExclusiveUsers
  <2>2. w \in Between(u)'
    BY <1>1, <1>3 DEF Between, HalfWritten, ProcessTypeOK
  <2>3. ASSUME NEW v \in Between(u)', v # w
        PROVE  v \in Between(u)
    BY <1>1, <2>3 DEF Between, HalfWritten, ProcessTypeOK
  <2>4. QED
    BY <2>1, <2>2, <2>3
<1>4. ASSUME NEW u \in Users
      PROVE  Documents'[u] = Documents[u]
  <2>1. CASE u = U
    <3>1. Documents[u] = meta[u]
      BY <1>3, <2>1 DEF Documents
    <3>2. Documents'[u] = base'[w]
      BY <1>3, <2>1, ChooseOnly DEF Documents
    <3>3. QED
      BY <1>1, <1>2, <2>1, <3>1, <3>2
  <2>2. CASE u # U
    <3>1. Between(u)' = Between(u)
      BY <1>1, <2>2 DEF Between, HalfWritten, ProcessTypeOK
    <3>2. meta'[u] = meta[u]
      BY <1>1, <2>2 DEF WriteMeta, ProcessTypeOK
    <3>3. QED
      BY <1>1, <3>1, <3>2 DEF Documents
  <2>3. QED
    BY <2>1, <2>2
<1>5. QED
  BY <1>4 DEF Documents

\* The row makes it seen.
LEMMA RowSeen ==
  ASSUME ExclusiveUsers, ProcessTypeOK, Writing, NEW w \in Workers,
         CreateProcessed(w), plan[w] = "ops"
  PROVE  Documents' = [Documents EXCEPT ![UserId[msg[w]]][msg[w]] = @ + 1]
<1> DEFINE U == UserId[msg[w]]
<1>1. /\ pc[w] = "insert" /\ \E p \in {"ack", "nack"} : pc' = [pc EXCEPT ![w] = p]
      /\ UNCHANGED <<meta, msg, plan, base>> /\ U \in Users
  BY DEF CreateProcessed, Goto, ProcessTypeOK, Calls
<1>2. w \in Between(U) /\ meta[U] = NewMeta(w)
  BY <1>1 DEF Between, HalfWritten, Writing
<1>3. Between(U) = {w} /\ Documents[U] = base[w]
  BY <1>1, <1>2, BetweenAlone, DocumentBetween
<1>4. ASSUME NEW u \in Users, u = U
      PROVE  Between(u)' = {}
  <2>1. \A v \in Between(u)' : v # w /\ v \in Between(u)
    BY <1>1 DEF Between, HalfWritten, ProcessTypeOK
  <2>2. QED
    BY <1>3, <1>4, <2>1
<1>5. ASSUME NEW u \in Users, u = U
      PROVE  Documents'[u] = [Documents[u] EXCEPT ![msg[w]] = @ + 1]
  <2>1. Documents'[u] = meta'[u]
    BY <1>4, <1>5 DEF Documents
  <2>2. QED
    BY <1>1, <1>2, <1>3, <1>5, <2>1 DEF NewMeta
<1>6. ASSUME NEW u \in Users, u # U
      PROVE  Documents'[u] = Documents[u]
  <2>1. Between(u)' = Between(u)
    BY <1>1, <1>6 DEF Between, HalfWritten, ProcessTypeOK
  <2>2. QED
    BY <1>1, <2>1 DEF Documents
<1>7. /\ Documents = [u \in Users |-> Documents[u]]
      /\ Documents' = [u \in Users |-> Documents'[u]]
  BY DEF Documents
<1>8. QED
  BY <1>1, <1>5, <1>6, <1>7

-----------------------------------------------------------------------------
(***************************************************************************)
(* Steps of the deliveries as steps of the promise.                        *)
(***************************************************************************)

MappingInv ==
  /\ NotAgain /\ Unsettled /\ Answered
  /\ Static /\ Fresh /\ Unprocessed /\ Planned /\ PlanHolds /\ Writing

\* A call of a handler moves this handler only, and to another place.
LEMMA CallMoves ==
  ASSUME ProcessTypeOK, NEW w \in Workers, ProcessStep(w)
  PROVE  /\ pc[w] \in Calls /\ UNCHANGED users
         /\ \E p \in Calls \cup {"ack", "nack"} : p # pc[w] /\ pc' = [pc EXCEPT ![w] = p]
BY DEF ProcessStep, CheckProcessed, FindRules, GetMetaData, AfterEvaluation,
       UpdateMetaData, CreateProcessed, RecordFailed, Goto, Calls, environment,
       ProcessTypeOK

\* A call of a handler leaves the deliveries, the users and every other handler
\* alone.
LEMMA CallAlone ==
  ASSUME TypeOK, [Next]_vars, NEW w \in Workers, ProcessStep(w)
  PROVE  /\ UNCHANGED <<users, settled>>
         /\ \A v \in Workers \ {w} : ~ProcessStep(v)
         /\ msg[w] \in Messages /\ msg[w] \in Serves[w]
<1>1. ProcessTypeOK /\ pc[w] \in Calls /\ UNCHANGED users
  BY CallMoves DEF TypeOK
<1>2. pc'[w] # pc[w] /\ pc'[w] # "idle" /\ \A v \in Workers \ {w} : pc'[v] = pc[v]
  BY <1>1, CallMoves DEF Calls, ProcessTypeOK
<1>3. Running(w)
  BY <1>1, <1>2, WorkerView
  DEF Deliver, Handle, Acknowledge, NegAcknowledge, Crash, Return, Goto, Calls,
      ProcessTypeOK
<1>4. ASSUME NEW v \in Workers \ {w}, ProcessStep(v)
      PROVE  FALSE
  BY <1>1, <1>2, <1>4, CallMoves DEF ProcessTypeOK
<1>5. msg[w] \in Messages /\ msg[w] \in Serves[w]
  BY <1>1, Busy DEF Calls
<1>6. QED
  BY <1>1, <1>3, <1>4, <1>5 DEF Running, broker

\* What an insertion finds.
LEMMA BeforeRow ==
  ASSUME TypeOK, MappingInv, [Next]_vars, NEW w \in Workers, CreateProcessed(w)
  PROVE  /\ ProcessStep(w) /\ UNCHANGED <<failed, users, settled>>
         /\ msg[w] \in Messages /\ msg[w] \notin settled /\ ~HasRow(msg[w])
         /\ UserId[msg[w]] \in users
         /\ plan[w] \in {"noOps", "ops"} /\ msg[w] \in WithRules(plan[w])
<1>1. ProcessStep(w) /\ pc[w] = "insert"
  BY DEF CreateProcessed, ProcessStep
<1>2. UNCHANGED <<failed, users, settled>> /\ msg[w] \in Messages
  BY <1>1, CallAlone DEF CreateProcessed
<1>3. msg[w] \notin settled /\ ~HasRow(msg[w]) /\ UserId[msg[w]] \in users
  BY <1>1 DEF MappingInv, Unsettled, Unprocessed, Writing
<1>4. plan[w] \in {"noOps", "ops"} /\ msg[w] \in WithRules(plan[w])
  BY <1>1, <1>2 DEF MappingInv, PlanHolds, WithRules
<1>5. QED
  BY <1>1, <1>2, <1>3, <1>4

\* RecordSuccess, with its two writes, is Apply.
LEMMA RowIsApply ==
  ASSUME ExclusiveUsers, TypeOK, MappingInv, Undivided, [Next]_vars,
         NEW w \in Workers, CreateProcessed(w), plan[w] = "ops"
  PROVE  Promise!Apply(msg[w])
<1>1. AddRow(msg[w])
  BY DEF Undivided, HalfWritten, CreateProcessed, Goto, TypeOK, ProcessTypeOK
<1>2. Documents' = [Documents EXCEPT ![UserId[msg[w]]][msg[w]] = @ + 1]
  BY RowSeen DEF MappingInv, TypeOK
<1>3. QED
  BY <1>1, <1>2, BeforeRow
  DEF Promise!Apply, Promise!Mark, Promise!Processed, AddRow, HasRow

\* RecordProcessedOnly is MarkOnly, or nothing if the call fails.
LEMMA RowIsMark ==
  ASSUME VolatileUsers = {}, TypeOK, MappingInv, Undivided, [Next]_vars,
         NEW w \in Workers, CreateProcessed(w), plan[w] # "ops"
  PROVE  Promise!MarkOnly(msg[w]) \/ UNCHANGED Promise!vars
<1>1. \A v \in Workers : ~UpdateMetaData(v) /\ (CreateProcessed(v) => plan[v] # "ops")
  BY BeforeRow, CallAlone DEF ProcessStep, UpdateMetaData, CreateProcessed
<1>2. UNCHANGED Documents
  BY <1>1, DocumentsElsewhere DEF MappingInv
<1>3. CASE AddRow(msg[w])
  BY <1>2, <1>3, BeforeRow
  DEF Promise!MarkOnly, Promise!Mark, Promise!Processed, AddRow, HasRow
<1>4. CASE UNCHANGED <<processed, anonymous>>
  BY <1>2, <1>4, BeforeRow DEF Promise!vars
<1>5. QED
  BY <1>3, <1>4 DEF CreateProcessed

\* The row in failed_events is Reject.
LEMMA RecordIsReject ==
  ASSUME VolatileUsers = {}, FailuresRecorded, Uncancelled, TypeOK, MappingInv,
         Undivided, [Next]_vars, NEW w \in Workers, RecordFailed(w)
  PROVE  Promise!Reject(msg[w])
<1>1. ProcessStep(w) /\ pc[w] = "recordFailed"
  BY DEF RecordFailed, ProcessStep
<1>2. UNCHANGED <<processed, anonymous, users, settled>> /\ msg[w] \in Messages
  BY <1>1, CallAlone DEF RecordFailed
<1>3. AddFailed(msg[w])
  BY <1>1 DEF RecordFailed, FailuresRecorded, Fault, Uncancelled
<1>4. failed' = [failed EXCEPT ![msg[w]] = @ + 1]
  BY <1>2, <1>3 DEF AddFailed, FailuresRecorded
<1>5. \A v \in Workers : ~UpdateMetaData(v) /\ ~CreateProcessed(v)
  BY <1>1, CallAlone DEF ProcessStep, UpdateMetaData, CreateProcessed
<1>6. UNCHANGED Documents
  BY <1>5, DocumentsElsewhere DEF MappingInv
<1>7. msg[w] \notin settled
  BY <1>1 DEF MappingInv, Unsettled
<1>8. QED
  BY <1>2, <1>4, <1>6, <1>7 DEF Promise!Reject

\* An acknowledgement that counts is Settle.
LEMMA AckIsSettle ==
  ASSUME VolatileUsers = {}, TypeOK, MappingInv, Undivided, [Next]_vars,
         NEW w \in Workers, Acknowledge(w), link[w]
  PROVE  Promise!Settle(msg[w]) /\ msg[w] \in Messages
<1>1. /\ pc[w] = "ack" /\ settled' = settled \cup {msg[w]}
      /\ UNCHANGED <<processed, anonymous, failed, users>>
      /\ pc' = [pc EXCEPT ![w] = "idle"]
  BY DEF Acknowledge, Return, Goto, store, environment
<1>2. Recorded(msg[w]) \/ failed[msg[w]] > 0
  BY <1>1 DEF MappingInv, Answered
<1>3. \A v \in Workers : ~UpdateMetaData(v) /\ ~CreateProcessed(v)
  BY <1>1 DEF UpdateMetaData, CreateProcessed, Goto, TypeOK, ProcessTypeOK
<1>4. UNCHANGED Documents
  BY <1>3, DocumentsElsewhere DEF MappingInv
<1>5. msg[w] \in Messages
  BY <1>1, Busy DEF TypeOK
<1>6. QED
  BY <1>1, <1>2, <1>4, <1>5 DEF Promise!Settle, Promise!Processed, Recorded, HasRow

\* Every other step is none of the promise's business.
LEMMA OtherIsStutter ==
  ASSUME VolatileUsers = {}, ExclusiveUsers, TypeOK, MappingInv, Undivided,
         [Next]_vars,
         \A w \in Workers : /\ ~CreateProcessed(w) /\ ~RecordFailed(w)
                            /\ ~(Acknowledge(w) /\ link[w])
  PROVE  UNCHANGED Promise!vars
<1>0. ProcessTypeOK /\ HandlerStep
  BY HandlerView DEF TypeOK
<1>1. UNCHANGED <<processed, anonymous>>
  BY <1>0, RowChange
<1>2. UNCHANGED failed
  BY <1>0 DEF HandlerStep, Handle, ProcessStep, CheckProcessed, FindRules, GetMetaData,
         UpdateMetaData, Others, EditRules, ChangeUser, store
<1>3. UNCHANGED settled
  BY DEF Next, Worker, Push, Deliver, Running, Acknowledge, NegAcknowledge,
       ConsumeReturns, LoseChannel, Shutdown, Exit, Crash, Restart, vars, broker
<1>4. UNCHANGED users
  BY <1>0, WritingStep DEF MappingInv
<1>5. UNCHANGED Documents
  <2>1. ASSUME NEW w \in Workers, UpdateMetaData(w), pc'[w] = "insert"
        PROVE  UNCHANGED Documents
    BY <1>0, <2>1, UpdateUnseen DEF MappingInv
  <2>2. ASSUME \A w \in Workers : UpdateMetaData(w) => pc'[w] # "insert"
        PROVE  UNCHANGED Documents
    <3>1. \A w \in Workers : UpdateMetaData(w) => UNCHANGED meta
      BY <1>0, <2>2 DEF UpdateMetaData, Undivided, Goto, ProcessTypeOK
    <3>2. QED
      BY <2>2, <3>1, DocumentsElsewhere DEF MappingInv
  <2>3. QED
    BY <2>1, <2>2
<1>6. QED
  BY <1>1, <1>2, <1>3, <1>4, <1>5 DEF Promise!vars

\* Every step is one of those, or none of the promise's business.
LEMMA StepSimulation ==
  ASSUME VolatileUsers = {}, ExclusiveUsers, FailuresRecorded, Uncancelled,
         TypeOK, MappingInv, Undivided, [Next]_vars
  PROVE  [Promise!Next]_(Promise!vars)
<1>1. ASSUME NEW w \in Workers, CreateProcessed(w)
      PROVE  [Promise!Next]_(Promise!vars)
  BY <1>1, BeforeRow, RowIsApply, RowIsMark DEF Promise!Next
<1>2. ASSUME NEW w \in Workers, RecordFailed(w)
      PROVE  Promise!Next
  <2>1. msg[w] \in Messages
    BY <1>2, CallAlone DEF ProcessStep
  <2>2. QED
    BY <1>2, <2>1, RecordIsReject DEF Promise!Next
<1>3. ASSUME NEW w \in Workers, Acknowledge(w), link[w]
      PROVE  Promise!Next
  BY <1>3, AckIsSettle DEF Promise!Next
<1>4. QED
  BY <1>1, <1>2, <1>3, OtherIsStutter

\* The invariant of the mapping is kept.
LEMMA MappingStep ==
  ASSUME VolatileUsers = {}, ExclusiveUsers, ExclusiveEvents, FailuresRecorded,
         Uncancelled, OneQueue, TypeOK, Conservation, MappingInv, [Next]_vars
  PROVE  MappingInv'
<1>0. ProcessTypeOK /\ HandlerStep
  BY HandlerView DEF TypeOK
<1>1. NotAgain' /\ Unsettled' /\ Answered'
  BY <1>0, NotAgainStep, UnsettledStep, AnsweredStep DEF MappingInv
<1>2. Static' /\ Fresh' /\ Unprocessed'
  BY <1>0, StaticStep, FreshStep, UnprocessedStep DEF MappingInv
<1>3. Planned' /\ PlanHolds' /\ Writing'
  BY <1>0, PlannedStep, PlanHoldsStep, WritingStep DEF MappingInv
<1>4. QED
  BY <1>1, <1>2, <1>3 DEF MappingInv

\* If the two writes of RecordSuccess were one transaction, failures can be
\* recorded, and one worker handles the events of a user and the duplicates of an
\* event, the service does what the README says of it: document and row in one
\* step, at most once for an event, with operations and row or without both, and
\* no message is forgotten before.  Calls may fail, channels be lost, processes be
\* stopped, die and start again, and messages be delivered again or be
\* duplicates, in any number.
THEOREM Implements ==
  ASSUME VolatileUsers = {}, ExclusiveUsers, ExclusiveEvents, OneQueue,
         FailuresRecorded
  PROVE  AtomicSpec => ImplementsPromise
<1>1. Init => Promise!Init /\ MappingInv /\ Uncancelled
  <2> SUFFICES ASSUME Init
               PROVE  Promise!Init /\ MappingInv /\ Uncancelled
    OBVIOUS
  <2>1. \A u \in Users : Between(u) = {}
    BY DEF Init, ProcessInit, Between, HalfWritten
  <2>2. Documents = [u \in Users |-> [m \in Messages |-> 0]]
    BY <2>1 DEF Init, ProcessInit, Documents, NoEffects
  <2>3. Promise!Init
    BY <2>2, ConstantsTyped DEF Promise!Init, Init, ProcessInit
  <2>4. NotAgain /\ Unsettled /\ Answered /\ Uncancelled
    BY NoneIsNothing
    DEF Init, ProcessInit, NotAgain, Unsettled, Answered, Uncancelled
  <2>5. Static /\ Fresh /\ Unprocessed /\ Planned /\ PlanHolds /\ Writing
    BY DEF Init, ProcessInit, Static, Fresh, Unprocessed, Planned, PlanHolds, Writing,
           HalfWritten
  <2>6. QED
    BY <2>3, <2>4, <2>5 DEF MappingInv
<1> DEFINE Step == Next /\ Undivided /\ Uncancelled'
<1>2. [Step]_vars => [Next]_vars
  OBVIOUS
<1>3. Uncancelled /\ [Step]_vars => Uncancelled' /\ Undivided
  BY DEF Uncancelled, Undivided, HalfWritten, vars, processVars, worker
<1>4. TypeOK /\ Conservation /\ Uncancelled /\ MappingInv /\ [Step]_vars => MappingInv'
  BY MappingStep
<1>5. TypeOK /\ Uncancelled /\ MappingInv /\ [Step]_vars => [Promise!Next]_(Promise!vars)
  BY <1>3, StepSimulation
<1> HIDE DEF Step
<1>6. AtomicSpec => Init /\ [][Step]_vars
  BY DEF AtomicSpec, Step
<1>7. QED
  BY <1>1, <1>2, <1>3, <1>4, <1>5, <1>6, TypeCorrect, Conserved, PTL
  DEF Spec, ImplementsPromise, Promise!Spec

=============================================================================
