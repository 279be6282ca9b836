--------------------------- MODULE RuleSemantics ---------------------------
(***************************************************************************)
(* What the rules of an event mean (README, "Event flow" 4 and 5, and      *)
(* "Operations"), on JSON values: each action whose condition holds of the *)
(* event and of the document so far changes one key of the document.       *)
(* There are no references here and one document only.                     *)
(***************************************************************************)
EXTENDS Document, RuleRepository

CONSTANT Event   \* Event[name]: the JSON value of the event at a path

Number(j) == IF j.kind = "num" THEN j.n ELSE 0
Fields(j) == IF j.kind = "object" THEN j.fields ELSE <<>>
Elements(j) == IF j.kind = "array" THEN j.elems ELSE <<>>

Found(doc, path) ==
  IF path[1] = "event" THEN Event[path[2]]
  ELSE LET j == At(doc, path[2]) IN
       IF Len(path) > 2 /\ j.kind = "object" THEN At(j.fields, path[3]) ELSE j

\* A string equals the same string; a string that is a number is a number.
Same(a, b) ==
  IF {a.kind, b.kind} = {"str"} THEN a.s = b.s ELSE Eq(a, b)

Meant(c, doc) ==
  LET found == Found(doc, c.path) IN
  \/ c.cmp = "==" /\ Same(found, c.rhs)
  \/ c.cmp = "!=" /\ ~Same(found, c.rhs)
  \/ c.cmp \notin {"==", "!="} /\ Compare(found, c.cmp, c.rhs)

Given(a, doc) == IF a.source = "static" THEN a.template ELSE Found(doc, a.template)

\* The document after an action that applies, given its value j.  An operation
\* of another name is a set.  For min a stored 0 is a missing value, as the code
\* has it.
Changed(doc, a, j) ==
  LET old == At(doc, a.key) IN
  CASE a.op = "increment" -> Put(doc, a.key, Num(Number(old) + Number(j)))
    [] a.op = "append"    -> Put(doc, a.key, JArray(Append(Elements(old), j)))
    [] a.op = "merge"     -> Put(doc, a.key, JObject(Over(Fields(j), Fields(old))))
    [] a.op = "remove"    -> Without(doc, a.key)
    [] a.op = "max"       -> IF Number(j) <= Number(old)
                             THEN doc ELSE Put(doc, a.key, Num(Number(j)))
    [] a.op = "min"       -> IF Number(old) # 0 /\ Number(j) >= Number(old)
                             THEN doc ELSE Put(doc, a.key, Num(Number(j)))
    [] OTHER              -> Put(doc, a.key, j)

Step(doc, a) ==
  IF \A c \in a.cond : Meant(c, doc) THEN Changed(doc, a, Given(a, doc)) ELSE doc

\* The document after all actions.
Meaning(doc, actions) ==
  LET after[n \in 0..Len(actions)] ==
        IF n = 0 THEN doc ELSE Step(after[n - 1], actions[n])
  IN  after[Len(actions)]

-----------------------------------------------------------------------------
\* A rule is for the events of its type: all of them, those of its version,
\* or, without a version, those that have none either.
Concerns(rule, event) ==
  /\ rule.enabled
  /\ rule.type = event.type
  /\ rule.version \in {"", event.version} \/ (rule.version = Unset /\ event.version = "")

\* The actions of a table of rules for an event, each with its rule.
Applicable(rows, event) ==
  UNION {{[rule |-> r, action |-> a] : a \in r.actions} : r \in {r \in rows : Concerns(r, event)}}

\* They are meant to apply by priority; the sequences of actions in such an order.
Orders(rows, event) ==
  {[i \in DOMAIN s |-> s[i].action] :
     s \in {t \in SetToSeqs(Applicable(rows, event)) :
              \A i, j \in DOMAIN t : i < j => t[i].rule.priority >= t[j].rule.priority}}

\* The keys an action looks at, besides its own.
Reads(a) ==
  {c.path[2] : c \in {c \in a.cond : c.path[1] = "metadata"}}
    \cup (IF a.source = "metadata" THEN {a.template[2]} ELSE {})

\* Where no order is promised, the actions do not concern each other.
Independent(rows, event) ==
  \A x, y \in Applicable(rows, event) :
    x # y /\ x.rule.priority = y.rule.priority
      => y.action.key \notin Reads(x.action) \cup {x.action.key}
=============================================================================
