-------------------------- MODULE ProcessEventProofs --------------------------
(***************************************************************************)
(* What the handler and the other writers of the databases can do, for     *)
(* every way of delivering messages to it: the lemmas that the theorems    *)
(* about the queue consumer and about the stream consumer rest on.         *)
(***************************************************************************)
EXTENDS ProcessEvent, TLAPS

\* Small operators of the handler that every proof looks into.
USE DEF AfterDecoding, AfterRules, AfterError, Errs, Exists

\* A step as the handlers see it: one of them is given a message, makes a call
\* or is gone; or something happens to a consumer between two of their steps
\* (a push, a lost channel, SIGTERM, a restart); or another writer comes by.
Typed(context, count) ==
  context \in [Workers -> {"live", "cancelled"}] /\ count \in 0..MaxFaults

HandlerStep ==
  \/ \E w \in Workers : \E m \in Serves[w] : Handle(w, m) /\ UNCHANGED ctx
  \/ \E w \in Workers : ProcessStep(w)
  \/ /\ \E w \in Workers : Return(w)
     /\ UNCHANGED <<store, environment>> /\ Typed(ctx', faults')
  \/ UNCHANGED <<store, environment, worker>> /\ Typed(ctx', faults')
  \/ Others

-----------------------------------------------------------------------------
(***************************************************************************)
(* Types.                                                                  *)
(***************************************************************************)

\* What a finished or dead handler leaves behind is well typed (Return).
LEMMA ReturnType ==
  ASSUME ProcessTypeOK, NEW w \in Workers, Return(w),
         UNCHANGED <<store, environment>>, Typed(ctx', faults')
  PROVE  ProcessTypeOK'
<1>1. /\ pc' = [pc EXCEPT ![w] = "idle"]
      /\ msg' = [msg EXCEPT ![w] = None]
      /\ plan' = [plan EXCEPT ![w] = "none"]
      /\ base' = [base EXCEPT ![w] = NoEffects]
  BY DEF Return, Goto
<1>2. NoEffects \in [Messages -> Nat]
  BY DEF NoEffects
<1>3. QED
  BY <1>1, <1>2 DEF ProcessTypeOK, Places, Calls, RuleSets, store, environment, Typed

\* The faults counted stay within the bound whatever fails and whatever a
\* call does.
LEMMA FaultType ==
  ASSUME ProcessTypeOK, NEW kind, UNCHANGED faults \/ Fault(kind)
  PROVE  faults' \in 0..MaxFaults
<1>1. faults \in 0..MaxFaults /\ MaxFaults \in Nat
  BY ConstantsTyped DEF ProcessTypeOK
<1>2. QED
  BY <1>1 DEF Fault

LEMMA OutcomeType ==
  ASSUME ProcessTypeOK, NEW w, NEW call, Replies(w) \/ Errs(w, call)
  PROVE  faults' \in 0..MaxFaults
BY FaultType DEF Replies, Errs

\* A worker that is not idle has a message of its own queue.
LEMMA Busy ==
  ASSUME ProcessTypeOK, NEW w \in Workers, pc[w] # "idle"
  PROVE  msg[w] \in Messages /\ msg[w] \in Serves[w]
BY ConstantsTyped DEF ProcessTypeOK

\* A step of a handler that leaves it with a message keeps the types if what
\* it writes is typed and the calls of an event with a user stay its own.
LEMMA GotoType ==
  ASSUME ProcessTypeOK, NEW w \in Workers, pc[w] # "idle",
         NEW p \in Calls \cup {"ack", "nack"}, Goto(w, p),
         p \in Calls \ {"recordFailed"} => Body[msg[w]] = "event",
         p \in Calls \ {"exists", "recordFailed"} => UserId[msg[w]] \in Users,
         UNCHANGED <<environment, msg, ctx>>,
         faults' \in 0..MaxFaults,
         processed' \subseteq EventIds, anonymous' \subseteq Messages,
         failed' \in [Messages -> Nat], meta' \in [Users -> [Messages -> Nat]],
         plan' \in [Workers -> RuleSets], base' \in [Workers -> [Messages -> Nat]]
  PROVE  ProcessTypeOK'
BY DEF ProcessTypeOK, Goto, Places, Calls, environment

\* Each database call of the handler keeps the types (process_event.go).
LEMMA ProcessStepType ==
  ASSUME ProcessTypeOK, NEW w \in Workers, ProcessStep(w)
  PROVE  ProcessTypeOK'
<1>1. CASE CheckProcessed(w)
  <2>1. faults' \in 0..MaxFaults
    BY <1>1, OutcomeType DEF CheckProcessed
  <2>2. PICK p \in {"ack", "nack", "recordFailed", "findRules"} :
          /\ Goto(w, p)
          /\ p = "findRules" => UserId[msg[w]] # None
    BY <1>1 DEF CheckProcessed
  <2>3. msg[w] \in Messages
    BY <1>1, Busy DEF CheckProcessed
  <2>4. p = "findRules" => Body[msg[w]] = "event" /\ UserId[msg[w]] \in Users
    BY <1>1, <2>2, <2>3, ConstantsTyped DEF CheckProcessed, ProcessTypeOK, Calls
  <2>5. QED
    BY <1>1, <2>1, <2>2, <2>4, GotoType
    DEF CheckProcessed, ProcessTypeOK, Calls, store
<1>2. CASE FindRules(w)
  <2>1. faults' \in 0..MaxFaults
    BY <1>2, OutcomeType DEF FindRules
  <2>2. plan' \in [Workers -> RuleSets]
    BY <1>2, Busy, ConstantsTyped DEF FindRules, ProcessTypeOK
  <2>3. PICK p \in {"nack", "recordFailed", "getMeta"} : Goto(w, p)
    BY <1>2 DEF FindRules
  <2>4. QED
    BY <1>2, <2>1, <2>2, <2>3, GotoType DEF FindRules, ProcessTypeOK, Calls, store
<1>3. CASE GetMetaData(w)
  <2>1. faults' \in 0..MaxFaults
    BY <1>3, OutcomeType DEF GetMetaData
  <2>2. base' \in [Workers -> [Messages -> Nat]]
    BY <1>3 DEF GetMetaData, ProcessTypeOK
  <2>3. PICK p \in {"nack", "recordFailed", "update", "insert"} : Goto(w, p)
    BY <1>3 DEF GetMetaData, AfterEvaluation
  <2>4. QED
    BY <1>3, <2>1, <2>2, <2>3, GotoType DEF GetMetaData, ProcessTypeOK, Calls, store
<1>4. CASE UpdateMetaData(w)
  <2>1. faults' \in 0..MaxFaults
    BY <1>4, OutcomeType DEF UpdateMetaData
  <2>2. NewMeta(w) \in [Messages -> Nat]
    BY <1>4, Busy DEF UpdateMetaData, NewMeta, ProcessTypeOK
  <2>3. meta' \in [Users -> [Messages -> Nat]]
    BY <1>4, <2>2 DEF UpdateMetaData, WriteMeta, ProcessTypeOK
  <2>4. PICK p \in {"nack", "insert"} : Goto(w, p)
    BY <1>4 DEF UpdateMetaData
  <2>5. QED
    BY <1>4, <2>1, <2>3, <2>4, GotoType DEF UpdateMetaData, ProcessTypeOK, Calls
<1>5. CASE CreateProcessed(w)
  <2>1. faults' \in 0..MaxFaults
    BY <1>5, OutcomeType DEF CreateProcessed
  <2>2. processed' \subseteq EventIds /\ anonymous' \subseteq Messages
    BY <1>5, Busy, ConstantsTyped DEF CreateProcessed, AddRow, ProcessTypeOK
  <2>3. PICK p \in {"ack", "nack"} : Goto(w, p)
    BY <1>5 DEF CreateProcessed
  <2>4. QED
    BY <1>5, <2>1, <2>2, <2>3, GotoType DEF CreateProcessed, ProcessTypeOK, Calls
<1>6. CASE RecordFailed(w)
  <2>1. faults' \in 0..MaxFaults
    BY <1>6, OutcomeType DEF RecordFailed
  <2>2. failed' \in [Messages -> Nat]
    BY <1>6, Busy DEF RecordFailed, AddFailed, ProcessTypeOK
  <2>3. QED
    BY <1>6, <2>1, <2>2, GotoType DEF RecordFailed, ProcessTypeOK, Calls
<1>7. QED
  BY <1>1, <1>2, <1>3, <1>4, <1>5, <1>6 DEF ProcessStep

\* So does the delivery of a message (rabbitmq_consumer.go, Handle).
LEMMA HandleType ==
  ASSUME ProcessTypeOK, NEW w \in Workers, NEW m \in Serves[w], Handle(w, m),
         UNCHANGED ctx
  PROVE  ProcessTypeOK'
<1>1. PICK p \in {"exists", "recordFailed"} :
        /\ Goto(w, p)
        /\ p = "exists" => Body[m] = "event"
  BY DEF Handle
<1>2. m \in Messages /\ m # None
  BY NoneIsNothing, ConstantsTyped
<1>3. QED
  BY <1>1, <1>2 DEF Handle, Goto, ProcessTypeOK, Places, Calls, store, environment

\* And the other writers of the databases.
LEMMA OthersType ==
  ASSUME ProcessTypeOK, Others
  PROVE  ProcessTypeOK'
<1>1. ASSUME NEW t \in Types, EditRules(t)
      PROVE  ProcessTypeOK'
  BY <1>1 DEF EditRules, ProcessTypeOK, store, worker
<1>2. ASSUME NEW u \in Users, ChangeUser(u)
      PROVE  ProcessTypeOK'
  BY <1>2 DEF ChangeUser, ProcessTypeOK, worker, NoEffects
<1>3. QED
  BY <1>1, <1>2 DEF Others

\* And what happens to a consumer between the steps of its handler.
LEMMA FrameType ==
  ASSUME ProcessTypeOK, UNCHANGED <<store, environment, worker>>,
         Typed(ctx', faults')
  PROVE  ProcessTypeOK'
BY DEF ProcessTypeOK, store, environment, worker, Typed

\* So every step as the handlers see it keeps the types.
LEMMA HandlerType ==
  ASSUME ProcessTypeOK, HandlerStep
  PROVE  ProcessTypeOK'
BY HandleType, ProcessStepType, ReturnType, FrameType, OthersType DEF HandlerStep

-----------------------------------------------------------------------------
(***************************************************************************)
(* Who changes what.                                                       *)
(***************************************************************************)

\* A step concerns at most the handler that takes it.
LEMMA Locality ==
  ASSUME ProcessTypeOK, HandlerStep, NEW w \in Workers
  PROVE  \/ \E m \in Serves[w] : Handle(w, m)
         \/ ProcessStep(w)
         \/ pc'[w] = "idle"
         \/ /\ pc'[w] = pc[w] /\ msg'[w] = msg[w]
            /\ plan'[w] = plan[w] /\ base'[w] = base[w]
BY DEF HandlerStep, Handle, ProcessStep, CheckProcessed, FindRules, GetMetaData,
       UpdateMetaData, CreateProcessed, RecordFailed, Return, Goto, Others,
       EditRules, ChangeUser, worker, ProcessTypeOK

\* Documents change only when a worker updates one or a row goes.
LEMMA DocumentChange ==
  ASSUME HandlerStep
  PROVE  \/ UNCHANGED meta
         \/ \E w \in Workers : UpdateMetaData(w) /\ meta' # meta
         \/ \E u \in Users : ChangeUser(u)
BY DEF HandlerStep, Handle, ProcessStep, CheckProcessed, FindRules, GetMetaData,
       CreateProcessed, RecordFailed, Others, EditRules, store

\* An update writes one document whole, or none.
LEMMA UpdateEffect ==
  ASSUME ProcessTypeOK, NEW w \in Workers, UpdateMetaData(w)
  PROVE  \/ UNCHANGED meta
         \/ /\ UserId[msg[w]] \in users \cap Users
            /\ meta' = [meta EXCEPT ![UserId[msg[w]]] = NewMeta(w)]
BY DEF UpdateMetaData, WriteMeta, ProcessTypeOK, Calls

\* Rows of processed_events are only added, and only by CreateProcessed.
LEMMA RowChange ==
  ASSUME HandlerStep
  PROVE  \/ UNCHANGED <<processed, anonymous>>
         \/ \E w \in Workers : CreateProcessed(w) /\ AddRow(msg[w])
BY DEF HandlerStep, Handle, ProcessStep, CheckProcessed, FindRules, GetMetaData,
       UpdateMetaData, CreateProcessed, RecordFailed, Others, EditRules,
       ChangeUser, store

\* No row of processed_events is ever deleted.
LEMMA RowsStay ==
  ASSUME HandlerStep, NEW m
  PROVE  /\ HasRow(m) => HasRow(m)'
         /\ Recorded(m) => Recorded(m)'
<1>1. processed \subseteq processed' /\ anonymous \subseteq anonymous'
  BY RowChange DEF AddRow
<1>2. QED
  BY <1>1 DEF Recorded, HasRow

\* A user's row is added or deleted by the other application only.
LEMMA UsersChange ==
  ASSUME HandlerStep
  PROVE  \/ UNCHANGED users
         \/ \E u \in Users : ChangeUser(u)
BY DEF HandlerStep, Handle, ProcessStep, CheckProcessed, FindRules, GetMetaData,
       UpdateMetaData, CreateProcessed, RecordFailed, Others, EditRules,
       environment

\* What nobody edits stays what it was.
Static ==
  /\ \A t \in Types \ VolatileRules : rules[t] = InitialRules[t]
  /\ InitialUsers \ VolatileUsers \subseteq users

LEMMA StaticStep ==
  ASSUME ProcessTypeOK, Static, HandlerStep
  PROVE  Static'
<1>1. CASE UNCHANGED <<users, rules>>
  BY <1>1 DEF Static
<1>2. CASE Others
  <2>1. ASSUME NEW t \in Types, EditRules(t)
        PROVE  Static'
    BY <2>1 DEF EditRules, Static, ProcessTypeOK
  <2>2. ASSUME NEW u \in Users, ChangeUser(u)
        PROVE  Static'
    BY <2>2 DEF ChangeUser, Static
  <2>3. QED
    BY <1>2, <2>1, <2>2 DEF Others
<1>3. QED
  BY <1>1, <1>2
  DEF HandlerStep, Handle, ProcessStep, CheckProcessed, FindRules, GetMetaData,
      UpdateMetaData, CreateProcessed, RecordFailed, environment

-----------------------------------------------------------------------------
(***************************************************************************)
(* A row that is gone stays without a document, whoever had read it.       *)
(***************************************************************************)

LEMMA DeletedStep ==
  ASSUME ProcessTypeOK, DeletedStaysDeleted, HandlerStep
  PROVE  DeletedStaysDeleted'
<1> SUFFICES ASSUME NEW u \in Users, u \notin users'
             PROVE  meta'[u] = NoEffects
  BY DEF DeletedStaysDeleted, NoEffects
<1>1. ASSUME NEW x \in Users, ChangeUser(x)
      PROVE  meta'[u] = NoEffects
  BY <1>1 DEF ChangeUser, DeletedStaysDeleted, ProcessTypeOK
<1>2. CASE UNCHANGED users
  <2>1. meta[u] = NoEffects
    BY <1>2 DEF DeletedStaysDeleted
  <2>2. ASSUME NEW w \in Workers, UpdateMetaData(w)
        PROVE  meta'[u] = meta[u]
    BY <1>2, <2>2, UpdateEffect DEF ProcessTypeOK
  <2>3. QED
    BY <1>1, <2>1, <2>2, DocumentChange
<1>3. QED
  BY <1>1, <1>2, UsersChange

-----------------------------------------------------------------------------
(***************************************************************************)
(* No update is lost.                                                      *)
(***************************************************************************)

\* Between the read of a document and its update nobody else added to it, and
\* only the deletion of the row took something away.
Fresh ==
  \A w \in Workers : pc[w] = "update" =>
    /\ \A m \in Messages : meta[UserId[msg[w]]][m] <= base[w][m]
    /\ UserId[msg[w]] \notin VolatileUsers => meta[UserId[msg[w]]] = base[w]

LEMMA FreshStep ==
  ASSUME ExclusiveUsers, ProcessTypeOK, Fresh, HandlerStep
  PROVE  Fresh'
<1> SUFFICES ASSUME NEW w \in Workers, pc'[w] = "update",
                    NEW u, u = UserId[msg'[w]]
             PROVE  /\ \A m \in Messages : meta'[u][m] <= base'[w][m]
                    /\ u \notin VolatileUsers => meta'[u] = base'[w]
  BY DEF Fresh
<1>0. u \in Users /\ ProcessTypeOK'
  BY HandlerType DEF ProcessTypeOK, Calls
<1>1. CASE ProcessStep(w)
  <2>1. GetMetaData(w)
    BY <1>1 DEF ProcessStep, CheckProcessed, FindRules, UpdateMetaData,
                CreateProcessed, RecordFailed, Goto, ProcessTypeOK
  <2>2. base'[w] = meta[u] /\ meta' = meta
    BY <2>1 DEF GetMetaData, Goto, store, ProcessTypeOK
  <2>3. QED
    BY <1>0, <2>2 DEF ProcessTypeOK
<1>2. CASE pc'[w] = pc[w] /\ msg'[w] = msg[w] /\ base'[w] = base[w] /\ ~ProcessStep(w)
  <2>1. CASE UNCHANGED meta
    BY <1>2, <2>1 DEF Fresh
  <2>2. ASSUME NEW v \in Workers, UpdateMetaData(v), v # w
        PROVE  meta'[u] = meta[u]
    <3>1. msg[v] \in Serves[v] /\ msg[w] \in Serves[w]
      BY <1>2, <2>2, Busy DEF UpdateMetaData
    <3>2. u # UserId[msg[v]]
      BY <1>0, <1>2, <2>2, <3>1, NoneIsNothing DEF ExclusiveUsers
    <3>3. UNCHANGED meta \/ meta' = [meta EXCEPT ![UserId[msg[v]]] = NewMeta(v)]
      BY <2>2, UpdateEffect
    <3>4. QED
      BY <1>0, <3>2, <3>3 DEF ProcessTypeOK
  <2>3. ASSUME NEW x \in Users, ChangeUser(x)
        PROVE  \/ meta'[u] = meta[u]
               \/ meta'[u] = NoEffects /\ u \in VolatileUsers
    BY <1>0, <2>3 DEF ChangeUser, ProcessTypeOK
  <2>4. ~UpdateMetaData(w)
    BY <1>2 DEF ProcessStep
  <2>5. \/ meta'[u] = meta[u]
        \/ meta'[u] = NoEffects /\ u \in VolatileUsers
    BY <2>1, <2>2, <2>3, <2>4, DocumentChange
  <2>6. base[w] \in [Messages -> Nat]
    BY DEF ProcessTypeOK
  <2>7. QED
    BY <1>2, <2>5, <2>6 DEF Fresh, NoEffects
<1>3. ~\E m \in Serves[w] : Handle(w, m)
  BY DEF Handle, Goto, ProcessTypeOK
<1>4. QED
  BY <1>1, <1>2, <1>3, Locality

\* An update writes back what was read and one effect more, and what was read
\* is still what is there.
LEMMA StayStep ==
  ASSUME ProcessTypeOK, Fresh, HandlerStep
  PROVE  EffectsStay
<1> SUFFICES ASSUME NEW u \in users \cap users', NEW m \in Messages
             PROVE  meta'[u][m] >= meta[u][m]
  BY DEF EffectsStay
<1> USE DEF ProcessTypeOK
<1>1. ASSUME NEW w \in Workers, UpdateMetaData(w)
      PROVE  meta'[u][m] >= meta[u][m]
  <2>1. pc[w] = "update" /\ msg[w] \in Messages
    BY <1>1, Busy DEF UpdateMetaData
  <2>2. NewMeta(w)[m] >= base[w][m]
    BY <2>1 DEF NewMeta
  <2>3. \/ UNCHANGED meta
        \/ /\ UserId[msg[w]] \in Users
           /\ meta' = [meta EXCEPT ![UserId[msg[w]]] = NewMeta(w)]
    BY <1>1, UpdateEffect
  <2>4. CASE u = UserId[msg[w]] /\ meta'[u] = NewMeta(w)
    <3>1. meta[u][m] <= base[w][m]
      BY <2>1, <2>4 DEF Fresh
    <3>2. NewMeta(w) \in [Messages -> Nat]
      BY <2>1 DEF NewMeta
    <3>3. QED
      BY <2>2, <2>4, <3>1, <3>2
  <2>5. QED
    BY <2>3, <2>4
<1>2. ASSUME NEW x \in Users, ChangeUser(x)
      PROVE  meta'[u][m] >= meta[u][m]
  BY <1>2 DEF ChangeUser
<1>3. QED
  BY <1>1, <1>2, DocumentChange

-----------------------------------------------------------------------------
(***************************************************************************)
(* An event with a row is not applied again.                               *)
(***************************************************************************)

\* Past the check for it, the event being handled still has no row.
Unprocessed ==
  \A w \in Workers :
    pc[w] \in {"findRules", "getMeta", "update", "insert"} => ~HasRow(msg[w])

LEMMA UnprocessedStep ==
  ASSUME ExclusiveEvents, ProcessTypeOK, Unprocessed, HandlerStep
  PROVE  Unprocessed'
<1> SUFFICES ASSUME NEW w \in Workers, NEW m, m = msg'[w],
                    pc'[w] \in {"findRules", "getMeta", "update", "insert"}
             PROVE  ~HasRow(m)'
  BY DEF Unprocessed, HasRow
<1>1. ASSUME NEW v \in Workers, CreateProcessed(v)
      PROVE  ~HasRow(m)'
  <2>1. v # w /\ pc'[w] = pc[w] /\ m = msg[w]
    BY <1>1 DEF CreateProcessed, Goto, ProcessTypeOK
  <2>2. msg[v] \in Serves[v] /\ m \in Serves[w]
    BY <1>1, <2>1, Busy DEF CreateProcessed
  <2>3. EventId[m] = None \/ EventId[m] # EventId[msg[v]]
    BY <2>1, <2>2 DEF ExclusiveEvents
  <2>4. ~HasRow(m)
    BY <2>1 DEF Unprocessed
  <2>5. QED
    BY <1>1, <2>3, <2>4 DEF CreateProcessed, AddRow, HasRow
<1>2. CASE ~\E v \in Workers : CreateProcessed(v)
  <2>1. UNCHANGED processed
    BY <1>2, RowChange
  <2>2. CASE ProcessStep(w)
    BY <1>2, <2>1, <2>2
    DEF ProcessStep, CheckProcessed, FindRules, GetMetaData, UpdateMetaData,
        RecordFailed, Goto, ProcessTypeOK, Unprocessed, HasRow
  <2>3. CASE pc'[w] = pc[w] /\ m = msg[w]
    BY <2>1, <2>3 DEF Unprocessed, HasRow
  <2>4. ~\E n \in Serves[w] : Handle(w, n)
    BY DEF Handle, Goto, ProcessTypeOK
  <2>5. QED
    BY <2>2, <2>3, <2>4, Locality
<1>3. QED
  BY <1>1, <1>2

\* An update adds the effect of the message handled, whose event has no row,
\* and writes back every other effect as it is.
LEMMA FinalStep ==
  ASSUME ProcessTypeOK, Fresh, Unprocessed, HandlerStep
  PROVE  ProcessedStays
<1> SUFFICES ASSUME NEW u \in Users \ VolatileUsers, NEW m \in Messages, HasRow(m)
             PROVE  meta'[u][m] <= meta[u][m]
  BY DEF ProcessedStays
<1>0. meta[u][m] \in Nat
  BY DEF ProcessTypeOK
<1>1. ASSUME NEW w \in Workers, UpdateMetaData(w)
      PROVE  meta'[u][m] <= meta[u][m]
  <2>1. pc[w] = "update" /\ m # msg[w]
    BY <1>1 DEF UpdateMetaData, Unprocessed
  <2>2. \/ UNCHANGED meta
        \/ meta' = [meta EXCEPT ![UserId[msg[w]]] = NewMeta(w)]
    BY <1>1, UpdateEffect
  <2>3. NewMeta(w)[m] = base[w][m]
    BY <2>1 DEF NewMeta, ProcessTypeOK
  <2>4. u = UserId[msg[w]] => base[w] = meta[u]
    BY <2>1 DEF Fresh
  <2>5. meta'[u] = meta[u] \/ (u = UserId[msg[w]] /\ meta'[u] = NewMeta(w))
    BY <2>2 DEF ProcessTypeOK
  <2>6. QED
    BY <1>0, <2>3, <2>4, <2>5
<1>2. ASSUME NEW x \in Users, ChangeUser(x)
      PROVE  meta'[u][m] <= meta[u][m]
  <2>1. u # x /\ (UNCHANGED meta \/ meta' = [meta EXCEPT ![x] = NoEffects])
    BY <1>2 DEF ChangeUser
  <2>2. meta'[u] = meta[u]
    BY <2>1 DEF ProcessTypeOK
  <2>3. QED
    BY <1>0, <2>2
<1>3. UNCHANGED meta => meta'[u][m] <= meta[u][m]
  BY <1>0
<1>4. QED
  BY <1>1, <1>2, <1>3, DocumentChange

-----------------------------------------------------------------------------
(***************************************************************************)
(* A row comes with the operations of its event.                           *)
(***************************************************************************)

\* The row of an event with operations is inserted after its document.
Written ==
  \A w \in Workers :
    pc[w] # "idle" /\ HasOperations(msg[w]) =>
      /\ pc[w] \in {"getMeta", "update", "insert"} => plan[w] = "ops"
      /\ pc[w] = "insert" => meta[UserId[msg[w]]][msg[w]] > 0

\* The effects on a user that stays, stay.
LEMMA DurableEffect ==
  ASSUME Static, Static', EffectsStay, NEW m \in Messages, Applicable(m)
  PROVE  /\ UserId[m] \in users
         /\ meta'[UserId[m]][m] >= meta[UserId[m]][m]
BY DEF Static, Applicable, EffectsStay

\* The update of an event with operations leaves them in the document.
LEMMA UpdateWrites ==
  ASSUME ProcessTypeOK, Static, NEW w \in Workers, UpdateMetaData(w),
         pc'[w] = "insert", Applicable(msg[w])
  PROVE  meta'[UserId[msg[w]]][msg[w]] > 0
<1>1. /\ pc[w] = "update" /\ msg[w] \in Messages
      /\ UserId[msg[w]] \in users /\ UserId[msg[w]] \in Users
  BY Busy DEF UpdateMetaData, Static, Applicable, ProcessTypeOK
<1>2. meta' = [meta EXCEPT ![UserId[msg[w]]] = NewMeta(w)]
  BY <1>1 DEF UpdateMetaData, Goto, WriteMeta, ProcessTypeOK
<1>3. NewMeta(w)[msg[w]] = base[w][msg[w]] + 1 /\ base[w][msg[w]] \in Nat
  BY <1>1 DEF NewMeta, ProcessTypeOK
<1>4. meta'[UserId[msg[w]]] = NewMeta(w)
  BY <1>1, <1>2 DEF ProcessTypeOK
<1>5. QED
  BY <1>3, <1>4

LEMMA WrittenStep ==
  ASSUME ProcessTypeOK, Static, Static', EffectsStay, Written, HandlerStep
  PROVE  Written'
<1> SUFFICES ASSUME NEW w \in Workers, NEW m \in Messages, m = msg'[w],
                    pc'[w] # "idle", HasOperations(m)
             PROVE  /\ pc'[w] \in {"getMeta", "update", "insert"} => plan'[w] = "ops"
                    /\ pc'[w] = "insert" => meta'[UserId[m]][m] > 0
  <2>1. \A w \in Workers : pc'[w] # "idle" => msg'[w] \in Messages
    BY HandlerType DEF ProcessTypeOK
  <2>2. QED
    BY <2>1 DEF Written, HasOperations, Applicable
<1> USE DEF ProcessTypeOK
<1>0. Applicable(m) /\ InitialRules[EventType[m]] = "ops"
  BY DEF HasOperations
<1>1. CASE \E n \in Serves[w] : Handle(w, n)
  BY <1>1 DEF Handle, Goto
<1>2. CASE /\ pc'[w] = pc[w] /\ msg'[w] = msg[w]
           /\ plan'[w] = plan[w]
  <2>1. meta'[UserId[m]][m] >= meta[UserId[m]][m]
    BY <1>0, DurableEffect
  <2>2. /\ pc[w] \in {"getMeta", "update", "insert"} => plan[w] = "ops"
        /\ pc[w] = "insert" => meta[UserId[m]][m] > 0
    BY <1>2 DEF Written
  <2>3. UserId[m] \in Users /\ meta[UserId[m]][m] \in Nat
    BY <1>0, DurableEffect
  <2>4. meta'[UserId[m]][m] \in Nat
    BY <2>3, HandlerType
  <2>5. QED
    BY <1>2, <2>1, <2>2, <2>3, <2>4
<1>3. CASE ProcessStep(w)
  <2>0. m = msg[w]
    BY <1>3 DEF ProcessStep, CheckProcessed, FindRules, GetMetaData,
                UpdateMetaData, CreateProcessed, RecordFailed
  <2>1. CASE CheckProcessed(w) \/ CreateProcessed(w) \/ RecordFailed(w)
    BY <2>1 DEF CheckProcessed, CreateProcessed, RecordFailed, Goto
  <2>2. CASE FindRules(w)
    <3>1. rules[EventType[m]] = "ops"
      BY <1>0, ConstantsTyped DEF Static, Applicable
    <3>2. QED
      BY <2>0, <2>2, <3>1 DEF FindRules, Goto
  <2>3. CASE GetMetaData(w)
    <3>1. plan'[w] = "ops"
      BY <2>0, <2>3 DEF GetMetaData, Written
    <3>2. pc'[w] # "insert"
      BY <2>3, <3>1 DEF GetMetaData, Goto, AfterEvaluation
    <3>3. QED
      BY <3>1, <3>2
  <2>4. CASE UpdateMetaData(w)
    <3>1. plan'[w] = "ops"
      BY <2>0, <2>4 DEF UpdateMetaData, Written
    <3>2. pc'[w] = "insert" => meta'[UserId[m]][m] > 0
      BY <1>0, <2>0, <2>4, UpdateWrites
    <3>3. QED
      BY <3>1, <3>2
  <2>5. QED
    BY <1>3, <2>1, <2>2, <2>3, <2>4 DEF ProcessStep
<1>4. QED
  BY <1>1, <1>2, <1>3, Locality

LEMMA AppliedStep ==
  ASSUME ProcessTypeOK, Static, Static', EffectsStay, Written, ProcessedIsApplied,
         HandlerStep
  PROVE  ProcessedIsApplied'
<1> SUFFICES ASSUME NEW e \in processed',
                    \A m \in Messages : EventId[m] = e => HasOperations(m)
             PROVE  \E m \in Messages : EventId[m] = e /\ meta'[UserId[m]][m] > 0
  BY DEF ProcessedIsApplied, HasOperations, Applicable
<1>1. PICK m \in Messages :
        EventId[m] = e /\ Applicable(m) /\ meta[UserId[m]][m] > 0
  <2>1. CASE e \in processed
    BY <2>1 DEF ProcessedIsApplied, HasOperations
  <2>2. CASE e \notin processed
    <3>1. PICK w \in Workers : CreateProcessed(w) /\ EventId[msg[w]] = e
      BY <2>2, RowChange DEF AddRow
    <3>2. msg[w] \in Messages /\ pc[w] = "insert"
      BY <3>1, Busy DEF CreateProcessed
    <3>3. QED
      BY <3>1, <3>2 DEF Written, HasOperations
  <2>3. QED
    BY <2>1, <2>2
<1>2. meta'[UserId[m]][m] >= meta[UserId[m]][m] /\ UserId[m] \in users
  BY <1>1, DurableEffect
<1>3. meta[UserId[m]][m] \in Nat /\ meta'[UserId[m]][m] \in Nat
  BY <1>2, HandlerType DEF ProcessTypeOK
<1>4. QED
  BY <1>1, <1>2, <1>3

-----------------------------------------------------------------------------
(***************************************************************************)
(* What a handler that returned nil has left behind.                       *)
(***************************************************************************)

\* An applicable event is never only recorded as failed, and it is on its way
\* to an Ack only with its row.
AckOnlyRecorded ==
  \A w \in Workers :
    pc[w] # "idle" /\ Applicable(msg[w]) =>
      /\ pc[w] # "recordFailed"
      /\ pc[w] = "ack" => Recorded(msg[w])

\* The calls of the handler send an applicable event to an Ack only past
\* CreateProcessed or a row that was found.
LEMMA AckRunning ==
  ASSUME ProcessTypeOK, Static, AckOnlyRecorded, NEW w \in Workers,
         ProcessStep(w), Applicable(msg[w])
  PROVE  /\ pc'[w] # "recordFailed"
         /\ pc'[w] = "ack" => Recorded(msg[w])'
<1> USE DEF ProcessTypeOK, Goto
<1>0. msg[w] \in Messages /\ pc[w] # "recordFailed" /\ msg' = msg
  BY Busy DEF ProcessStep, CheckProcessed, FindRules, GetMetaData,
              UpdateMetaData, CreateProcessed, RecordFailed, AckOnlyRecorded
<1>1. CASE CheckProcessed(w)
  BY <1>0, <1>1, NoneIsNothing, ConstantsTyped
  DEF CheckProcessed, Applicable, Recorded, HasRow, store
<1>2. CASE FindRules(w)
  <2>1. rules[EventType[msg[w]]] # "none"
    BY <1>0, ConstantsTyped DEF Static, Applicable
  <2>2. QED
    BY <1>2, <2>1 DEF FindRules
<1>3. CASE GetMetaData(w)
  BY <1>3 DEF GetMetaData, AfterEvaluation, Static, Applicable
<1>4. CASE UpdateMetaData(w)
  BY <1>4 DEF UpdateMetaData
<1>5. CASE CreateProcessed(w)
  BY <1>0, <1>5 DEF CreateProcessed, AddRow, Recorded, HasRow
<1>6. QED
  BY <1>0, <1>1, <1>2, <1>3, <1>4, <1>5 DEF ProcessStep, RecordFailed

LEMMA AckOnlyRecordedStep ==
  ASSUME ProcessTypeOK, Static, AckOnlyRecorded, HandlerStep
  PROVE  AckOnlyRecorded'
<1> SUFFICES ASSUME NEW w \in Workers, pc'[w] # "idle", Applicable(msg'[w])
             PROVE  /\ pc'[w] # "recordFailed"
                    /\ pc'[w] = "ack" => Recorded(msg[w])'
  BY DEF AckOnlyRecorded, Applicable
<1>1. CASE pc'[w] = pc[w] /\ msg'[w] = msg[w]
  BY <1>1, RowsStay DEF AckOnlyRecorded, Recorded, HasRow
<1>2. CASE \E m \in Serves[w] : Handle(w, m)
  BY <1>2 DEF Handle, Goto, Applicable, ProcessTypeOK
<1>3. CASE ProcessStep(w)
  <2>1. msg' = msg
    BY <1>3 DEF ProcessStep, CheckProcessed, FindRules, GetMetaData,
                UpdateMetaData, CreateProcessed, RecordFailed
  <2>2. Applicable(msg[w])
    BY <2>1
  <2>3. QED
    BY <1>3, <2>2, AckRunning
<1>4. QED
  BY <1>1, <1>2, <1>3, Locality

\* Rows of failed_events are only added, and only by RecordFailed.
LEMMA FailedChange ==
  ASSUME ProcessTypeOK, HandlerStep, NEW m \in Messages, failed[m] > 0
  PROVE  failed'[m] > 0
<1>1. ASSUME NEW w \in Workers, RecordFailed(w)
      PROVE  failed'[m] > 0
  BY <1>1, Busy DEF RecordFailed, AddFailed, ProcessTypeOK
<1>2. UNCHANGED failed \/ \E w \in Workers : RecordFailed(w)
  BY DEF HandlerStep, Handle, ProcessStep, CheckProcessed, FindRules, GetMetaData,
         UpdateMetaData, CreateProcessed, Others, EditRules, ChangeUser, store
<1>3. QED
  BY <1>1, <1>2

\* A handler returns nil only when its message has a row of either kind.
Answered ==
  \A w \in Workers : pc[w] = "ack" => Recorded(msg[w]) \/ failed[msg[w]] > 0

LEMMA AnsweredStep ==
  ASSUME FailuresRecorded, ProcessTypeOK, Uncancelled, Answered, HandlerStep
  PROVE  Answered'
<1> SUFFICES ASSUME NEW w \in Workers, pc'[w] = "ack", NEW m, m = msg'[w]
             PROVE  Recorded(m)' \/ failed'[m] > 0
  BY DEF Answered, Recorded, HasRow
<1>0. m \in Messages
  <2>1. ProcessTypeOK'
    BY HandlerType
  <2>2. QED
    BY <2>1 DEF ProcessTypeOK
<1>1. CASE pc'[w] = pc[w] /\ msg'[w] = msg[w]
  BY <1>0, <1>1, RowsStay, FailedChange DEF Answered
<1>2. CASE ProcessStep(w)
  <2>1. m = msg[w] /\ pc[w] # "ack"
    BY <1>2 DEF ProcessStep, CheckProcessed, FindRules, GetMetaData,
                UpdateMetaData, CreateProcessed, RecordFailed
  <2>2. CASE CheckProcessed(w)
    BY <1>0, <2>1, <2>2 DEF CheckProcessed, Goto, ProcessTypeOK, Recorded, HasRow, store
  <2>3. CASE FindRules(w) \/ GetMetaData(w) \/ UpdateMetaData(w)
    BY <2>3 DEF FindRules, GetMetaData, UpdateMetaData, AfterEvaluation, Goto, ProcessTypeOK
  <2>4. CASE CreateProcessed(w)
    BY <1>0, <2>1, <2>4 DEF CreateProcessed, AddRow, Goto, ProcessTypeOK, Recorded, HasRow
  <2>5. CASE RecordFailed(w)
    <3>1. AddFailed(m)
      BY <2>1, <2>5 DEF RecordFailed, Fault, FailuresRecorded, Uncancelled
    <3>2. failed' = [failed EXCEPT ![m] = @ + 1]
      BY <1>0, <3>1 DEF AddFailed, FailuresRecorded
    <3>3. QED
      BY <1>0, <3>2 DEF ProcessTypeOK
  <2>6. QED
    BY <1>2, <2>2, <2>3, <2>4, <2>5 DEF ProcessStep
<1>3. ~\E n \in Serves[w] : Handle(w, n)
  BY DEF Handle, Goto, ProcessTypeOK
<1>4. QED
  BY <1>1, <1>2, <1>3, Locality

-----------------------------------------------------------------------------
(***************************************************************************)
(* The operations of an event are applied once.                            *)
(***************************************************************************)

\* The operations of m are in a document, or in one that was read and may be
\* written back.
Carried(m) ==
  \/ \E u \in Users : meta[u][m] > 0
  \/ \E w \in Workers : base[w][m] > 0

\* m's event has its row, or the row follows.
Done(m) ==
  \/ HasRow(m)
  \/ \E w \in Workers : HalfWritten(w) /\ EventId[msg[w]] = EventId[m]

Once ==
  /\ \A u \in Users, m \in Messages : EventId[m] # None => meta[u][m] <= 1
  /\ \A w \in Workers, m \in Messages : EventId[m] # None => base[w][m] <= 1
  /\ \A m \in Messages : EventId[m] # None /\ Carried(m) => Done(m)
  /\ \A m, n \in Messages :
       m # n /\ EventId[m] # None /\ EventId[m] = EventId[n]
         => ~(Carried(m) /\ Carried(n))

\* Only operations are written to a document.
Planned == \A w \in Workers : pc[w] = "update" => plan[w] = "ops"

LEMMA PlannedStep ==
  ASSUME ProcessTypeOK, Planned, HandlerStep
  PROVE  Planned'
<1> SUFFICES ASSUME NEW w \in Workers, pc'[w] = "update"
             PROVE  plan'[w] = "ops"
  BY DEF Planned
<1>1. CASE ProcessStep(w)
  BY <1>1 DEF ProcessStep, CheckProcessed, FindRules, GetMetaData, AfterEvaluation,
              UpdateMetaData, CreateProcessed, RecordFailed, Goto, ProcessTypeOK
<1>2. ~\E m \in Serves[w] : Handle(w, m)
  BY DEF Handle, Goto, ProcessTypeOK
<1>3. QED
  BY <1>1, <1>2, Locality DEF Planned

\* A handler's copy of a document is one that it reads.
LEMMA CopyChange ==
  ASSUME ProcessTypeOK, HandlerStep, NEW w \in Workers
  PROVE  base'[w] = base[w] \/ base'[w] = NoEffects \/ base'[w] \in {meta[u] : u \in Users}
<1>1. CASE \E v \in Workers : GetMetaData(v)
  BY <1>1 DEF GetMetaData, ProcessTypeOK, Calls
<1>2. CASE ~\E v \in Workers : GetMetaData(v)
  BY <1>2 DEF HandlerStep, Handle, ProcessStep, CheckProcessed, FindRules,
              UpdateMetaData, CreateProcessed, RecordFailed, Return, Others,
              EditRules, ChangeUser, worker, ProcessTypeOK
<1>3. QED
  BY <1>1, <1>2

\* Nothing becomes carried but the message of an update.
LEMMA CarriedBy ==
  ASSUME ProcessTypeOK, HandlerStep, NEW m \in Messages, Carried(m)'
  PROVE  Carried(m) \/ \E w \in Workers : UpdateMetaData(w) /\ msg[w] = m
<1> USE DEF ProcessTypeOK
<1>1. ASSUME NEW u \in Users, meta'[u][m] > 0, ~Carried(m)
      PROVE  \E w \in Workers : UpdateMetaData(w) /\ msg[w] = m
  <2>1. meta[u][m] = 0
    BY <1>1 DEF Carried
  <2>2. ~\E x \in Users : ChangeUser(x)
    BY <1>1, <2>1 DEF ChangeUser, NoEffects
  <2>3. PICK w \in Workers : UpdateMetaData(w) /\ meta' # meta
    BY <1>1, <2>1, <2>2, DocumentChange
  <2>4. meta'[u] = NewMeta(w) \/ meta'[u] = meta[u]
    BY <2>3, UpdateEffect
  <2>5. base[w][m] = 0
    BY <1>1 DEF Carried
  <2>6. m = msg[w]
    BY <1>1, <2>1, <2>4, <2>5 DEF NewMeta
  <2>7. QED
    BY <2>3, <2>6
<1>2. ASSUME NEW w \in Workers, base'[w][m] > 0, ~Carried(m)
      PROVE  FALSE
  <2>1. base[w][m] = 0 /\ \A u \in Users : meta[u][m] = 0
    BY <1>2 DEF Carried
  <2>2. base'[w] = base[w] \/ base'[w] = NoEffects \/ base'[w] \in {meta[u] : u \in Users}
    BY CopyChange
  <2>3. QED
    BY <1>2, <2>1, <2>2 DEF NoEffects
<1>3. QED
  BY <1>1, <1>2 DEF Carried

\* The message of an update, if it has an id, is not carried yet, nor is any
\* duplicate of it.
LEMMA FirstUpdate ==
  ASSUME ExclusiveEvents, ProcessTypeOK, Unprocessed, Once,
         NEW w \in Workers, pc[w] = "update", EventId[msg[w]] # None,
         NEW n \in Messages, EventId[n] = EventId[msg[w]]
  PROVE  ~Carried(n)
<1>1. msg[w] \in Serves[w] /\ ~HasRow(n)
  BY Busy DEF Unprocessed, HasRow
<1>2. ASSUME NEW v \in Workers, HalfWritten(v)
      PROVE  EventId[msg[v]] # EventId[n]
  BY <1>1, <1>2, Busy DEF ExclusiveEvents, HalfWritten
<1>3. QED
  BY <1>1, <1>2 DEF Once, Done

\* An update that shows is followed by the row.
LEMMA RowFollows ==
  ASSUME ProcessTypeOK, Undivided, Planned, NEW w \in Workers, UpdateMetaData(w),
         meta' # meta
  PROVE  HalfWritten(w)' /\ msg' = msg
<1>1. pc[w] = "update" /\ pc'[w] = "insert" /\ UNCHANGED <<msg, plan>>
  BY DEF UpdateMetaData, Undivided, Goto, ProcessTypeOK
<1>2. QED
  BY <1>1 DEF HalfWritten, Planned

\* m's event stays done.
LEMMA DoneStays ==
  ASSUME ProcessTypeOK, HandlerStep, Undivided,
         NEW m \in Messages, EventId[m] # None, Done(m)
  PROVE  Done(m)'
<1>1. CASE HasRow(m)
  BY <1>1, RowsStay DEF Done
<1>2. ASSUME NEW w \in Workers, HalfWritten(w), EventId[msg[w]] = EventId[m]
      PROVE  Done(m)'
  <2>1. CASE AddRow(msg[w])
    BY <1>2, <2>1 DEF AddRow, Done, HasRow
  <2>2. CASE pc'[w] = "insert"
    <3>1. ~ProcessStep(w) /\ ~\E n \in Serves[w] : Handle(w, n)
      BY <1>2, <2>2
      DEF HalfWritten, ProcessStep, CheckProcessed, FindRules, GetMetaData,
          UpdateMetaData, CreateProcessed, RecordFailed, Handle, Goto, ProcessTypeOK
    <3>2. HalfWritten(w)' /\ msg'[w] = msg[w]
      BY <1>2, <2>2, <3>1, Locality DEF HalfWritten
    <3>3. QED
      BY <1>2, <3>2 DEF Done
  <2>3. QED
    BY <1>2, <2>1, <2>2 DEF Undivided
<1>3. QED
  BY <1>1, <1>2 DEF Done

\* Documents and copies of documents stay single.
LEMMA SingleStep ==
  ASSUME ExclusiveEvents, ProcessTypeOK, Unprocessed, Once, HandlerStep,
         NEW m \in Messages, EventId[m] # None
  PROVE  /\ \A u \in Users : meta'[u][m] <= 1
         /\ \A w \in Workers : base'[w][m] <= 1
<1> USE DEF ProcessTypeOK
<1>1. ASSUME NEW u \in Users
      PROVE  meta'[u][m] <= 1
  <2>1. ASSUME NEW w \in Workers, UpdateMetaData(w)
        PROVE  meta'[u][m] <= 1
    <3>1. meta'[u] = meta[u] \/ meta'[u] = NewMeta(w)
      BY <2>1, UpdateEffect
    <3>2. m = msg[w] => base[w][m] = 0
      BY <1>1, <2>1, FirstUpdate DEF UpdateMetaData, Carried
    <3>3. NewMeta(w)[m] <= 1
      BY <3>2 DEF NewMeta, Once
    <3>4. QED
      BY <3>1, <3>3 DEF Once
  <2>2. ASSUME NEW x \in Users, ChangeUser(x)
        PROVE  meta'[u][m] <= 1
    <3>1. meta'[u] = meta[u] \/ meta'[u] = NoEffects
      BY <2>2 DEF ChangeUser
    <3>2. QED
      BY <3>1 DEF NoEffects, Once
  <2>3. QED
    BY <2>1, <2>2, DocumentChange DEF Once
<1>2. ASSUME NEW w \in Workers
      PROVE  base'[w][m] <= 1
  <2>1. base'[w] = base[w] \/ base'[w] = NoEffects \/ base'[w] \in {meta[u] : u \in Users}
    BY CopyChange
  <2>2. QED
    BY <2>1 DEF NoEffects, Once
<1>3. QED
  BY <1>1, <1>2

LEMMA OnceStep ==
  ASSUME ExclusiveEvents, ProcessTypeOK, Unprocessed, Planned, Once, HandlerStep,
         Undivided
  PROVE  Once'
<1>1. ASSUME NEW m \in Messages, EventId[m] # None, Carried(m)'
      PROVE  Done(m)'
  <2>1. CASE Carried(m)
    BY <1>1, <2>1, DoneStays DEF Once
  <2>2. ASSUME NEW w \in Workers, UpdateMetaData(w), msg[w] = m, ~Carried(m)
        PROVE  Done(m)'
    <3>1. meta' # meta
      BY <1>1, <2>2 DEF Carried, UpdateMetaData
    <3>2. HalfWritten(w)' /\ msg' = msg
      BY <2>2, <3>1, RowFollows
    <3>3. QED
      BY <2>2, <3>2 DEF Done
  <2>3. QED
    BY <1>1, <2>1, <2>2, CarriedBy
<1>2. ASSUME NEW m \in Messages, NEW n \in Messages, m # n,
             EventId[m] # None, EventId[m] = EventId[n], Carried(m)', Carried(n)'
      PROVE  FALSE
  <2>1. \/ Carried(m)
        \/ \E w \in Workers : UpdateMetaData(w) /\ msg[w] = m
    BY <1>2, CarriedBy
  <2>2. \/ Carried(n)
        \/ \E w \in Workers : UpdateMetaData(w) /\ msg[w] = n
    BY <1>2, CarriedBy
  <2>3. ASSUME NEW w \in Workers, UpdateMetaData(w), msg[w] = m \/ msg[w] = n
        PROVE  ~Carried(m) /\ ~Carried(n)
    BY <1>2, <2>3, FirstUpdate DEF UpdateMetaData
  <2>4. ~(Carried(m) /\ Carried(n))
    BY <1>2 DEF Once
  <2>5. ASSUME NEW v \in Workers, UpdateMetaData(v), msg[v] = m,
               NEW w \in Workers, UpdateMetaData(w), msg[w] = n
        PROVE  FALSE
    <3>1. pc[v] = "update" /\ pc[w] = "update" /\ msg[v] # msg[w]
      BY <1>2, <2>5 DEF UpdateMetaData
    <3>2. \E p \in {"insert", "nack"} : pc' = [pc EXCEPT ![v] = p]
      BY <2>5 DEF UpdateMetaData, Goto
    <3>3. pc'[w] = "insert" \/ pc'[w] = "nack"
      BY <2>5 DEF UpdateMetaData, Goto, ProcessTypeOK
    <3>4. QED
      BY <3>1, <3>2, <3>3 DEF ProcessTypeOK
  <2>6. QED
    BY <2>1, <2>2, <2>3, <2>4, <2>5
<1>3. QED
  BY <1>1, <1>2, SingleStep DEF Once

\* What the invariant is for.
LEMMA OnceImplies ==
  ASSUME ProcessTypeOK, Once
  PROVE  AppliedAtMostOnce
<1> SUFFICES ASSUME NEW u \in Users, NEW m \in Messages, NEW n \in Messages,
                    EventId[m] # None, EventId[n] # None
             PROVE  /\ meta[u][m] <= 1
                    /\ m # n /\ EventId[m] = EventId[n] => meta[u][m] + meta[u][n] <= 1
  BY DEF AppliedAtMostOnce
<1>1. meta[u][m] \in Nat /\ meta[u][n] \in Nat /\ meta[u][m] <= 1 /\ meta[u][n] <= 1
  BY DEF ProcessTypeOK, Once
<1>2. ASSUME m # n, EventId[m] = EventId[n]
      PROVE  meta[u][m] = 0 \/ meta[u][n] = 0
  <2>1. ~Carried(m) \/ ~Carried(n)
    BY <1>2 DEF Once
  <2>2. QED
    BY <1>1, <2>1 DEF Carried
<1>3. QED
  BY <1>1, <1>2

=============================================================================
