---------------------------- MODULE ProcessEvent ----------------------------
(***************************************************************************)
(* The process-event use case of the user metadata service: the message    *)
(* handler (internal/interfaces/messaging), the use case itself            *)
(* (internal/application/usecase), the idempotency service and the          *)
(* repositories it drives.                                                 *)
(*                                                                         *)
(* A worker runs the handler on one message at a time.  Every database     *)
(* call of the code is one step here, so the steps of two workers and the  *)
(* failures of single calls interleave exactly where they can in the       *)
(* program; the code between two calls is pure and belongs to the step     *)
(* before it.  The modules of the delivery protocols extend this one: they *)
(* say when a worker is handed a message (Handle) and what happens when    *)
(* the handler returns (pc = "ack" or "nack", then Return).                *)
(*                                                                         *)
(* Data.  A user's meta_data document is abstracted to the effects it      *)
(* carries: meta[u][m] counts how many times the operations computed for   *)
(* message m are in the stored document of user u.  It is what a counter   *)
(* kept with "increment", or a list kept with "append", shows of m.        *)
(***************************************************************************)
EXTENDS Naturals

CONSTANTS
  Workers,        \* goroutines running the handler
  Messages,       \* messages published to the broker
  Serves,         \* Serves[w]: the messages of the queue or partition w consumes
  EventIds,       \* values of the "id" field
  Users,          \* user ids
  Types,          \* (event_type, event_version) pairs
  None,           \* an absent id, user or message
  Body,           \* Body[m]: what the bytes of m are, see Bodies
  EventId,        \* EventId[m]: its "id", or None when empty
  UserId,         \* UserId[m]: its "user_id", or None when missing or uuid.Nil
  EventType,      \* EventType[m]: its type and version
  InitialRules,   \* the rules of each type at the start, see RuleSets
  InitialUsers,   \* the users that have a row at the start
  VolatileRules,  \* types whose rules an administrator edits meanwhile
  VolatileUsers,  \* users whose row another application adds or deletes
  Fallible,       \* what may fail, see FaultKinds
  MaxFaults       \* bound: how many failures a behaviour has

\* "event" decodes into domain.Event; "notEvent" is JSON that does not (a
\* user_id that is no UUID, say); "notJson" is not even JSON.
Bodies == {"event", "notEvent", "notJson"}

\* What the rules of a type come to: no enabled rule; rules whose conditions
\* leave no operation; rules that produce operations; rules whose result
\* json.Marshal rejects (a static "NaN").
RuleSets == {"none", "noOps", "ops", "unmarshalable"}

\* The database calls, by the pc of the worker that makes them.
Calls == {"exists", "findRules", "getMeta", "update", "insert", "recordFailed"}

\* A call that may fail, or something that happens to the process or its
\* channel.
FaultKinds == Calls \cup {"channel", "shutdown", "crash"}

ASSUME ConstantsTyped ==
  /\ Serves \in [Workers -> SUBSET Messages]
  /\ Body \in [Messages -> Bodies]
  /\ EventId \in [Messages -> EventIds \cup {None}]
  /\ UserId \in [Messages -> Users \cup {None}]
  /\ EventType \in [Messages -> Types]
  /\ InitialRules \in [Types -> RuleSets]
  /\ InitialUsers \subseteq Users
  /\ VolatileRules \subseteq Types
  /\ VolatileUsers \subseteq Users
  /\ Fallible \subseteq FaultKinds
  /\ MaxFaults \in Nat

ASSUME NoneIsNothing ==
  /\ None \notin Messages
  /\ None \notin EventIds
  /\ None \notin Users

VARIABLES
  processed,  \* event ids that have a processed_events row
  anonymous,  \* messages without an id that have one, under a generated key
  failed,     \* failed[m]: the number of failed_events rows with m's payload
  meta,       \* meta[u][m], see above
  users,      \* users that have a row in the users table
  rules,      \* rules[t]: the enabled rules of type t
  pc,         \* pc[w]: the call worker w makes next, or what it returned
  msg,        \* msg[w]: the message it handles
  plan,       \* plan[w]: the rules it loaded
  base,       \* base[w]: the meta_data it read
  ctx,        \* ctx[w]: "live", or "cancelled": the context it was given
  faults      \* the failures so far

store == <<processed, anonymous, failed, meta>>
environment == <<users, rules>>
worker == <<pc, msg, plan, base>>
processVars == <<store, environment, worker, ctx, faults>>

NoEffects == [m \in Messages |-> 0]

Places == Calls \cup {"idle", "ack", "nack"}

ProcessTypeOK ==
  /\ processed \subseteq EventIds
  /\ anonymous \subseteq Messages
  /\ failed \in [Messages -> Nat]
  /\ meta \in [Users -> [Messages -> Nat]]
  /\ users \subseteq Users
  /\ rules \in [Types -> RuleSets]
  /\ pc \in [Workers -> Places]
  /\ msg \in [Workers -> Messages \cup {None}]
  /\ plan \in [Workers -> RuleSets]
  /\ base \in [Workers -> [Messages -> Nat]]
  /\ ctx \in [Workers -> {"live", "cancelled"}]
  /\ faults \in 0..MaxFaults
  /\ \A w \in Workers :
       /\ pc[w] # "idle" <=> msg[w] # None
       /\ msg[w] # None => msg[w] \in Serves[w]
       /\ pc[w] \in Calls \ {"recordFailed"} => Body[msg[w]] = "event"
       /\ pc[w] \in Calls \ {"exists", "recordFailed"} => UserId[msg[w]] \in Users

ProcessInit ==
  /\ processed = {}
  /\ anonymous = {}
  /\ failed = [m \in Messages |-> 0]
  /\ meta = [u \in Users |-> NoEffects]
  /\ users = InitialUsers
  /\ rules = InitialRules
  /\ pc = [w \in Workers |-> "idle"]
  /\ msg = [w \in Workers |-> None]
  /\ plan = [w \in Workers |-> "none"]
  /\ base = [w \in Workers |-> NoEffects]
  /\ ctx = [w \in Workers |-> "live"]
  /\ faults = 0

-----------------------------------------------------------------------------
(***************************************************************************)
(* Keys, rows and documents.                                               *)
(***************************************************************************)

\* An event without an id gets a new UUID in every call of EventID, so its
\* row is never found again.
HasRow(m) == EventId[m] # None /\ EventId[m] \in processed

\* A processed_events row was written for m, found again or not.
Recorded(m) == HasRow(m) \/ m \in anonymous

\* The row of m's event is written.
AddRow(m) ==
  IF EventId[m] = None
  THEN anonymous' = anonymous \cup {m} /\ UNCHANGED processed
  ELSE processed' = processed \cup {EventId[m]} /\ UNCHANGED anonymous

NewMetaFromScratch(w) == [NoEffects EXCEPT ![msg[w]] = 1]

\* ComputeResult: the operations of the message applied to the document read.
NewMeta(w) == [base[w] EXCEPT ![msg[w]] = @ + 1]

\* Mutation of WriteMeta: the row is inserted if it is not there.
WriteMetaUpserts(w) == meta' = [meta EXCEPT ![UserId[msg[w]]] = NewMeta(w)]

\* UPDATE ... SET meta_data WHERE id: no row, no change and no error.
WriteMeta(w) ==
  LET u == UserId[msg[w]] IN
  meta' = IF u \in users THEN [meta EXCEPT ![u] = NewMeta(w)] ELSE meta

\* INSERT INTO failed_events: its payload column is JSON and not null, so a
\* body that is not JSON cannot be stored.
AddFailed(m) ==
  failed' = IF Body[m] = "notJson" THEN failed ELSE [failed EXCEPT ![m] = @ + 1]

-----------------------------------------------------------------------------
(***************************************************************************)
(* The outcome of a call.  It replies; or it errs, because the context is  *)
(* cancelled or the database fails.  A write that errs may have been       *)
(* applied all the same: the reply to its COMMIT was lost, or the          *)
(* cancellation arrived during the call.                                   *)
(***************************************************************************)

Goto(w, place) == pc' = [pc EXCEPT ![w] = place]

Fault(kind) ==
  /\ kind \in Fallible
  /\ faults < MaxFaults
  /\ faults' = faults + 1

Replies(w) == ctx[w] = "live" /\ UNCHANGED faults

\* Mutations of AfterError: an error is taken for success or not looked at.
ExistsErrorAcked(call) == IF call \in {"exists", "recordFailed"} THEN "ack" ELSE "nack"
UpdateUnchecked(call) == IF call = "update" THEN "insert" ELSE "nack"
InsertUnchecked(call) == IF call \in {"insert", "recordFailed"} THEN "ack" ELSE "nack"

\* Every error is returned, but the one of CreateFromError, which is discarded.
AfterError(call) == IF call = "recordFailed" THEN "ack" ELSE "nack"

Errs(w, call) ==
  /\ \/ ctx[w] = "cancelled" /\ UNCHANGED faults
     \/ ctx[w] = "live" /\ Fault(call)
  /\ Goto(w, AfterError(call))

-----------------------------------------------------------------------------
(***************************************************************************)
(* The handler.                                                            *)
(***************************************************************************)

\* Mutation of AfterDecoding: the error of json.Unmarshal is not looked at.
AfterDecodingAny(m) == "exists"

AfterDecoding(m) == IF Body[m] = "event" THEN "exists" ELSE "recordFailed"

\* RabbitMQConsumer.Handle: decode the body; a body that is no event is only
\* recorded as failed.
Handle(w, m) ==
  /\ pc[w] = "idle"
  /\ msg' = [msg EXCEPT ![w] = m]
  /\ Goto(w, AfterDecoding(m))
  /\ UNCHANGED <<store, environment, plan, base, faults>>

\* Mutation of Exists: the row is not looked for.
ExistsNever(m) == FALSE

Exists(m) == HasRow(m)

\* idempotency.Exists, then resolveUserID: a known event is skipped, one
\* without a user is recorded as failed.
CheckProcessed(w) ==
  /\ pc[w] = "exists"
  /\ \/ Replies(w) /\ Exists(msg[w]) /\ Goto(w, "ack")
     \/ Replies(w) /\ ~Exists(msg[w])
        /\ Goto(w, IF UserId[msg[w]] = None THEN "recordFailed" ELSE "findRules")
     \/ Errs(w, "exists")
  /\ UNCHANGED <<store, environment, msg, plan, base, ctx>>

\* Mutation of AfterRules: an event without rules is just acknowledged.
AfterRulesAcked(r) == IF r = "none" THEN "ack" ELSE "getMeta"

AfterRules(r) == IF r = "none" THEN "recordFailed" ELSE "getMeta"

\* ruleRepo.FindByEventTypeAndVersion: the rules as they are now, there is no
\* cache; an event without any is recorded as failed.
FindRules(w) ==
  /\ pc[w] = "findRules"
  /\ \/ /\ Replies(w)
        /\ plan' = [plan EXCEPT ![w] = rules[EventType[msg[w]]]]
        /\ Goto(w, AfterRules(plan'[w]))
     \/ Errs(w, "findRules") /\ UNCHANGED plan
  /\ UNCHANGED <<store, environment, msg, base, ctx>>

\* EvaluateRules and ComputeResult decide what follows the read.
AfterEvaluation(w) ==
  IF plan[w] = "ops" THEN "update"
  ELSE IF plan[w] = "noOps" THEN "insert" ELSE "nack"

\* getUserMetaAndMap: the document is read outside any transaction and kept
\* until the update; a user without a row makes the event fail.
GetMetaData(w) ==
  LET u == UserId[msg[w]] IN
  /\ pc[w] = "getMeta"
  /\ \/ /\ Replies(w) /\ u \in users
        /\ base' = [base EXCEPT ![w] = meta[u]]
        /\ Goto(w, AfterEvaluation(w))
     \/ Replies(w) /\ u \notin users /\ Goto(w, "recordFailed") /\ UNCHANGED base
     \/ Errs(w, "getMeta") /\ UNCHANGED base
  /\ UNCHANGED <<store, environment, msg, plan, ctx>>

\* RecordSuccess, first half: the users table, on its own connection.
UpdateMetaData(w) ==
  /\ pc[w] = "update"
  /\ \/ Replies(w) /\ WriteMeta(w) /\ Goto(w, "insert")
     \/ Errs(w, "update") /\ (WriteMeta(w) \/ UNCHANGED meta)
  /\ UNCHANGED <<processed, anonymous, failed, environment, msg, plan, base, ctx>>

\* RecordProcessedOnly and the second half of RecordSuccess: a transaction of
\* one INSERT, which a row under the same primary key makes fail.
CreateProcessed(w) ==
  /\ pc[w] = "insert"
  /\ \/ Replies(w) /\ ~HasRow(msg[w]) /\ AddRow(msg[w]) /\ Goto(w, "ack")
     \/ Replies(w) /\ HasRow(msg[w]) /\ Goto(w, "nack") /\ UNCHANGED <<processed, anonymous>>
     \/ /\ Errs(w, "insert")
        /\ AddRow(msg[w]) \/ UNCHANGED <<processed, anonymous>>
  /\ UNCHANGED <<failed, meta, environment, msg, plan, base, ctx>>

\* failedEventRepo.CreateFromError: whatever it returns is discarded.
RecordFailed(w) ==
  /\ pc[w] = "recordFailed"
  /\ \/ Replies(w) /\ AddFailed(msg[w]) /\ Goto(w, "ack")
     \/ Errs(w, "recordFailed") /\ (AddFailed(msg[w]) \/ UNCHANGED failed)
  /\ UNCHANGED <<processed, anonymous, meta, environment, msg, plan, base, ctx>>

ProcessStep(w) ==
  \/ CheckProcessed(w)
  \/ FindRules(w)
  \/ GetMetaData(w)
  \/ UpdateMetaData(w)
  \/ CreateProcessed(w)
  \/ RecordFailed(w)

\* The handler's frame is gone: it returned, or its process died.
Return(w) ==
  /\ Goto(w, "idle")
  /\ msg' = [msg EXCEPT ![w] = None]
  /\ plan' = [plan EXCEPT ![w] = "none"]
  /\ base' = [base EXCEPT ![w] = NoEffects]

-----------------------------------------------------------------------------
(***************************************************************************)
(* The other writers of the two databases.                                 *)
(***************************************************************************)

\* An administrator changes the rules of a type; they are read at each event.
EditRules(t) ==
  /\ t \in VolatileRules
  /\ \E r \in RuleSets : rules' = [rules EXCEPT ![t] = r]
  /\ UNCHANGED <<store, users, worker, ctx, faults>>

\* The application that owns the users table deletes or adds a row.
ChangeUser(u) ==
  /\ u \in VolatileUsers
  /\ \/ u \in users /\ users' = users \ {u} /\ meta' = [meta EXCEPT ![u] = NoEffects]
     \/ u \notin users /\ users' = users \cup {u} /\ UNCHANGED meta
  /\ UNCHANGED <<processed, anonymous, failed, rules, worker, ctx, faults>>

Others ==
  \/ \E t \in Types : EditRules(t)
  \/ \E u \in Users : ChangeUser(u)

-----------------------------------------------------------------------------
(***************************************************************************)
(* Properties of the documents.                                            *)
(***************************************************************************)

\* m is an event of a user whose row stays, of a type whose rules stay and can
\* be applied: nothing but a failure may keep it from being processed.
Applicable(m) ==
  /\ Body[m] = "event"
  /\ UserId[m] \in InitialUsers \ VolatileUsers
  /\ EventType[m] \notin VolatileRules
  /\ InitialRules[EventType[m]] \in {"noOps", "ops"}

\* What keeps two workers apart: the events of one user, or the duplicates of
\* one event, all go to one queue or partition that one worker consumes.
ExclusiveUsers ==
  \A v, w \in Workers : \A m \in Serves[v], n \in Serves[w] :
    v # w => UserId[m] = None \/ UserId[m] # UserId[n]

ExclusiveEvents ==
  \A v, w \in Workers : \A m \in Serves[v], n \in Serves[w] :
    v # w => EventId[m] = None \/ EventId[m] # EventId[n]

\* RecordSuccess has written the document and not yet the row.
HalfWritten(w) == pc[w] = "insert" /\ plan[w] = "ops"

\* A step that could be one of a service whose two writes are one transaction:
\* an UPDATE that errs had no effect, and what comes after one that did is the
\* INSERT, which takes effect, if only its reply is lost or the context is
\* cancelled meanwhile.  Everywhere else anything may fail, stop or die.
Undivided ==
  \A w \in Workers :
    /\ pc[w] = "update" => pc'[w] \in {"update", "insert"} \/ UNCHANGED meta
    /\ HalfWritten(w) => pc'[w] = "insert" \/ (CreateProcessed(w) /\ AddRow(msg[w]))

\* CreateFromError has no reason to fail: the database works and the payload
\* is JSON, and, in every state, no handler is there with its context cancelled.
FailuresRecorded ==
  /\ "recordFailed" \notin Fallible
  /\ \A m \in Messages : Body[m] # "notJson"

Uncancelled == \A w \in Workers : pc[w] = "recordFailed" => ctx[w] = "live"

\* The service only adds to a user's document: no step removes an effect that
\* is in it, unless the row itself goes.  The document is read long before it
\* is written back whole (GetMetaData, UpdateMetaData), so this is about
\* everything written in between: what the handler of another worker writes
\* is lost, unless one worker has all events of the user.
EffectsStay ==
  \A u \in users \cap users', m \in Messages : meta'[u][m] >= meta[u][m]
EffectsAreStable == [][EffectsStay]_<<meta, users>>

\* Once an event has its processed_events row, no delivery of any of its
\* duplicates adds to the document again, whatever was in flight when the
\* row was written (idempotency.Exists against RecordSuccess).  A row that is
\* deleted and added meanwhile may get back an old document.
ProcessedStays ==
  \A u \in Users \ VolatileUsers, m \in Messages :
    HasRow(m) => meta'[u][m] <= meta[u][m]
ProcessedIsFinal == [][ProcessedStays]_<<processed, meta>>

\* A user whose row was deleted, whenever that was between the read of the
\* document and its update, does not come back as a row with the old document
\* (UpdateMetaData is an UPDATE and no upsert).
DeletedStaysDeleted == \A u \in Users \ users : meta[u] = NoEffects

\* The messages of event e all have operations to apply for a user that stays.
HasOperations(m) == Applicable(m) /\ InitialRules[EventType[m]] = "ops"

\* The processed_events row is written last (RecordSuccess): with it, the
\* operations of one of the event's messages are in the document, and none of
\* the failures in between lets the row come without them.
ProcessedIsApplied ==
  \A e \in processed :
    LET copies == {m \in Messages : EventId[m] = e} IN
    (\A m \in copies : HasOperations(m))
      => \E m \in copies : meta[UserId[m]][m] > 0

\* Idempotency: the operations of an event that has an id are in the document
\* at most once, be it delivered again or published twice.  "Atomic
\* transaction: update users.meta_data and insert into processed_events"
\* (README).
AppliedAtMostOnce ==
  \A u \in Users : \A m, n \in {k \in Messages : EventId[k] # None} :
    /\ meta[u][m] <= 1
    /\ m # n /\ EventId[m] = EventId[n] => meta[u][m] + meta[u][n] <= 1
=============================================================================
