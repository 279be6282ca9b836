----------------------------- MODULE RuleEngine -----------------------------
(***************************************************************************)
(* FindByEventTypeAndVersion, RuleEngine.EvaluateRules and then            *)
(* MetadataExecutor.ComputeResult, for one event.                          *)
(*                                                                         *)
(* The stored document is decoded twice.  The actions of the rules are     *)
(* evaluated one after the other against the first copy, metaMap, and each *)
(* that applies is recorded as an operation and applied to metaMap at once *)
(* (applyOpToMap), so that later actions see it.  Then the operations are  *)
(* applied to the second copy, meta (applyOp), which is what is stored.    *)
(* The two copies are distinct, but an operation's value is shared by the  *)
(* operation and every document it was put into.                           *)
(***************************************************************************)
EXTENDS RuleSemantics

CONSTANTS
  Stored,    \* the JSON values the column meta_data of a user may have
  Tables,    \* the sets of rows metadata_rules may hold
  Events     \* what the rules of an event are found by: its type and version

\* A path below "event" or "metadata".
IsPath(p) ==
  /\ IsSequence(p) /\ Len(p) >= 2
  /\ \/ p[1] = "event" /\ p[2] \in DOMAIN Event
     \/ p[1] = "metadata"

\* A static value is a number or a string (parseValue).
IsAction(a) ==
  /\ \A c \in a.cond : IsPath(c.path)
  /\ IF a.source = "static" THEN Scalar(a.template) ELSE IsPath(a.template)
  /\ a.source \in {"static", "event", "metadata"}
  /\ a.source # "static" => a.source = a.template[1]

ASSUME RulesTyped ==
  /\ \A column \in Stored : column.kind = "object" =>
       IsFunction(column.fields) /\ \A k \in DOMAIN column.fields : IsJson(column.fields[k])
  /\ \A name \in DOMAIN Event : IsJson(Event[name])
  /\ \A t \in Tables : \A r \in t :
       r.priority \in Int /\ \A a \in r.actions : IsAction(a)

VARIABLES
  rows,      \* the table of rules
  event,     \* the type and the version of the event
  found,     \* the rules found and not yet begun
  left,      \* the actions left of the rule begun last
  stored,    \* the document as it was read from currentMeta
  evaluated, \* the actions evaluated so far, in order
  metaMap,   \* the document they are evaluated against
  ops,       \* the operations they made
  meta,      \* the document the operations are applied to
  applied,   \* how many of them were
  phase,     \* "find", "evaluate", "compute" or "done"
  heap

table == <<rows, event, found, left>>
vars == <<table, stored, evaluated, metaMap, ops, meta, applied, phase, heap>>

\* What both decoders make of the column: NULL, and whatever is no object, is
\* an empty document.
Unmarshalled(column) == IF column.kind = "object" THEN column.fields ELSE <<>>

\* json.Unmarshal of a document: its objects and arrays get new references.
Decoded(json, copy) == [k \in DOMAIN json |-> Value(json[k], <<copy, k>>)]
DecodedCells(json, copies) ==
  [ref \in copies \X {k \in DOMAIN json : ~Scalar(json[k])} |-> Cell(json[ref[2]])]

Init ==
  /\ rows \in Tables
  /\ event \in Events
  /\ found = {}
  /\ left = {}
  /\ \E column \in Stored : stored = Unmarshalled(column)
  /\ evaluated = <<>>
  /\ metaMap = Decoded(stored, "metaMap")
  /\ ops = <<>>
  /\ meta = Decoded(stored, "meta")
  /\ applied = 0
  /\ phase = "find"
  /\ heap = DecodedCells(stored, {"metaMap", "meta"})

-----------------------------------------------------------------------------
(***************************************************************************)
(* Applying an operation to a document.  The result is the value of its    *)
(* key afterwards and the heap; fresh is a reference not in use.           *)
(***************************************************************************)

\* append(slice, v): in place when the backing array has room.
Appended(slice, v, h, fresh) ==
  IF slice.len < Len(h[slice.ref])
  THEN [value |-> Slice(slice.ref, slice.len + 1),
        heap  |-> [h EXCEPT ![slice.ref][slice.len + 1] = v]]
  ELSE [value |-> Slice(fresh, slice.len + 1),
        heap  |-> Put(h, fresh, Pad(Append(SubSeq(h[slice.ref], 1, slice.len), v)))]

\* Every entry of the object v is stored in the object at ref.
Merged(ref, v, h) ==
  [value |-> Object(ref),
   heap  |-> IF v.kind = "object" THEN [h EXCEPT ![ref] = Over(h[v.ref], @)] ELSE h]

\* The value of the key and the heap after op on the value old of its key.
NewValue(op, old, h, fresh) ==
  CASE op.op = "increment" ->
         [value |-> Num(UtilToFloat(old) + UtilToFloat(op.value)), heap |-> h]
    [] op.op = "append" ->
         IF old.kind = "array" THEN Appended(old, op.value, h, fresh)
         ELSE [value |-> Slice(fresh, 1), heap |-> Put(h, fresh, Pad(<<op.value>>))]
    [] op.op = "merge" ->
         IF old.kind = "object" THEN Merged(old.ref, op.value, h)
         ELSE Merged(fresh, op.value, Put(h, fresh, <<>>))
    [] OTHER -> [value |-> op.value, heap |-> h]

\* Mutation of Keeps: max compares the wrong way round.
KeepsSmaller(op, old) ==
  LET a == UtilToFloat(old)
      b == UtilToFloat(op.value) IN
  \/ op.op = "max" /\ b >= a
  \/ op.op = "min" /\ a # 0 /\ b >= a

\* max and min change nothing unless the new number is the one to keep; for
\* min a stored 0, like a missing value, is always replaced.
Keeps(op, old) ==
  LET a == UtilToFloat(old)
      b == UtilToFloat(op.value) IN
  \/ op.op = "max" /\ b <= a
  \/ op.op = "min" /\ a # 0 /\ b >= a

ApplyOp(op, doc, h, fresh) ==
  LET old == At(doc, op.key)
      new == NewValue(IF op.op \in {"max", "min"}
                      THEN [op EXCEPT !.value = Num(UtilToFloat(@))] ELSE op,
                      old, h, fresh)
  IN  CASE op.op = "remove" -> [doc |-> Without(doc, op.key), heap |-> h]
        [] Keeps(op, old) -> [doc |-> doc, heap |-> h]
        [] OTHER -> [doc |-> Put(doc, op.key, new.value), heap |-> new.heap]

-----------------------------------------------------------------------------
(***************************************************************************)
(* EvaluateRules.                                                          *)
(***************************************************************************)

\* Mutation of EventRef: the event is decoded once.
EventRefOnce(name) == <<"event", name>>

\* The event is decoded anew for each condition and each value.
EventRef(name) == <<"event", Len(evaluated)>>

FromEvent(name) == Value(Event[name], EventRef(name))

\* Mutation of Lookup: the document is the one that was read.
LookupStored(path) ==
  IF path[1] = "event" THEN FromEvent(path[2])
  ELSE GetByPath(Decoded(stored, "metaMap"), Tail(path), heap)

Lookup(path) ==
  IF path[1] = "event" THEN FromEvent(path[2])
  ELSE GetByPath(metaMap, Tail(path), heap)

\* EvaluateCondition: an action has no condition or one comparison.
EvaluateCondition(a) ==
  \A c \in a.cond : Compare(Lookup(c.path), c.cmp, c.rhs)

\* ResolveValue, and the heap with what it decoded.
ResolveValue(a) == IF a.source = "static" THEN a.template ELSE Lookup(a.template)

ResolvedHeap(a) ==
  IF a.source = "event" /\ ~Scalar(Event[a.template[2]])
  THEN Over(heap, [ref \in {EventRef(a.template[2])} |-> Cell(Event[a.template[2]])])
  ELSE heap

\* Without rules for it ProcessEvent records the event as failed.
Find ==
  /\ phase = "find"
  /\ found' = {r \in rows : Matches(r, event)}
  /\ phase' = IF found' = {} THEN "done" ELSE "evaluate"
  /\ UNCHANGED <<rows, event, left, stored, evaluated, metaMap, ops, meta, applied, heap>>

\* The rules are evaluated in the order the query returned them, each one
\* with its actions in the order Preload did: any, it has no ORDER BY.
BeginRule(r) ==
  /\ phase = "evaluate" /\ left = {}
  /\ r \in Foremost(found)
  /\ found' = found \ {r}
  /\ left' = r.actions
  /\ UNCHANGED <<rows, event, stored, evaluated, metaMap, ops, meta, applied, phase, heap>>

\* Mutation of AppliedToMap: the operation is recorded only.
AppliedToMapNot(op, h, fresh) == [doc |-> metaMap, heap |-> h]

\* applyOpToMap.
AppliedToMap(op, h, fresh) == ApplyOp(op, metaMap, h, fresh)

\* One action of a rule: skipped, or made an operation and applied at once.
Evaluate(a) ==
  /\ phase = "evaluate" /\ a \in left
  /\ left' = left \ {a}
  /\ evaluated' = Append(evaluated, a)
  /\ \/ ~EvaluateCondition(a) /\ UNCHANGED <<metaMap, ops, heap>>
     \/ /\ EvaluateCondition(a)
        /\ LET op == [key |-> a.key, op |-> a.op, value |-> ResolveValue(a)]
               result == AppliedToMap(op, ResolvedHeap(a), <<"new", Len(evaluated)>>)
           IN  /\ ops' = Append(ops, op)
               /\ metaMap' = result.doc
               /\ heap' = result.heap
  /\ UNCHANGED <<rows, event, found, stored, meta, applied, phase>>

\* There are no more actions.  ProcessEvent stores a document only when there
\* are operations.
Evaluated ==
  /\ phase = "evaluate" /\ left = {} /\ found = {}
  /\ phase' = IF ops = <<>> THEN "done" ELSE "compute"
  /\ UNCHANGED <<table, stored, evaluated, metaMap, ops, meta, applied, heap>>

-----------------------------------------------------------------------------
(***************************************************************************)
(* ComputeResult.                                                          *)
(***************************************************************************)
Compute ==
  /\ phase = "compute" /\ applied < Len(ops)
  /\ LET result == ApplyOp(ops[applied + 1], meta, heap, <<"result", applied>>)
     IN  meta' = result.doc /\ heap' = result.heap
  /\ applied' = applied + 1
  /\ UNCHANGED <<table, stored, evaluated, metaMap, ops, phase>>

Computed ==
  /\ phase = "compute" /\ applied = Len(ops)
  /\ phase' = "done"
  /\ UNCHANGED <<table, stored, evaluated, metaMap, ops, meta, applied, heap>>

Next ==
  \/ Find
  \/ \E r \in found : BeginRule(r)
  \/ \E a \in left : Evaluate(a)
  \/ Evaluated
  \/ Compute
  \/ Computed

Spec == Init /\ [][Next]_vars

-----------------------------------------------------------------------------
\* A value of a document or an operation is a scalar or denotes a cell of the
\* heap, a slice no more than its backing array holds.
WellFormed(v) ==
  /\ v.kind = "object" => v.ref \in DOMAIN heap
  /\ v.kind = "array" => v.ref \in DOMAIN heap /\ v.len <= Len(heap[v.ref])

\* Nothing dangles: not in the documents and not in the operations, whose
\* values outlive the document they were read from.
TypeOK ==
  /\ found \subseteq rows
  /\ phase \in {"find", "evaluate", "compute", "done"}
  /\ applied \in 0..Len(ops) /\ Len(ops) <= Len(evaluated)
  /\ \A k \in DOMAIN metaMap : WellFormed(metaMap[k])
  /\ \A k \in DOMAIN meta : WellFormed(meta[k])
  /\ \A i \in DOMAIN ops : WellFormed(ops[i].value)

\* The document that is stored is the one its conditions and values were
\* evaluated against: applyOpToMap and applyOp, run on separate copies with
\* shared values, come to the same.
StoredIsEvaluated ==
  phase = "done" => JsonDoc(meta, heap) = JsonDoc(metaMap, heap)

\* The stored document is what the rules mean.  "Compute new meta_data from
\* current JSONB and operations" (README).
ResultIsMeaning ==
  phase = "done" => JsonDoc(meta, heap) = Meaning(stored, evaluated)

\* The stored document is the one the table of rules means for the event,
\* higher priorities first, in whatever order the database returned what the
\* query leaves open, if the actions of one priority do not concern each
\* other ("ordered by priority desc", metadata_rule_repository.go:22).
ResultIsOfTable ==
  phase = "done" /\ Independent(rows, event)
    => {JsonDoc(meta, heap)} = {Meaning(stored, s) : s \in Orders(rows, event)}

\* No action to come takes an object or a list of the document for its value.
NoSharing ==
  \A a \in left : a.source = "metadata" => Scalar(ResolveValue(a))

\* Nor is an object or a list appended: documents are two levels deep.
Shallow ==
  NoSharing /\ \A a \in left : a.op = "append" => Scalar(ResolveValue(a))

\* No action to come compares two strings.
NoStrings ==
  \A a \in left : \A c \in a.cond : ~(Lookup(c.path).kind = "str" /\ c.rhs.kind = "str")

\* The document after an action is evaluated is what the action means for the
\* document before: whatever is shared and written in place, an action sees the
\* effects of those before it (applyOpToMap) and nothing else.
StepIsMeant ==
  evaluated' # evaluated =>
    JsonDoc(metaMap, heap)' = Step(JsonDoc(metaMap, heap), Last(evaluated'))
EvaluationIsMeaning == [][StepIsMeant]_vars

\* "MetadataOperation is a single key-level operation" (metadata_operation.go):
\* applying one changes no other key of the document it is applied to.
OtherKeysStay ==
  /\ applied' # applied =>
       \A k \in (DOMAIN meta \cup DOMAIN meta') \ {ops[applied'].key} :
         At(JsonDoc(meta, heap)', k) = At(JsonDoc(meta, heap), k)
  /\ Len(ops') > Len(ops) =>
       \A k \in (DOMAIN metaMap \cup DOMAIN metaMap') \ {Last(ops').key} :
         At(JsonDoc(metaMap, heap)', k) = At(JsonDoc(metaMap, heap), k)
KeyLevel == [][OtherKeysStay]_vars
=============================================================================
