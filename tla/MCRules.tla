------------------------------- MODULE MCRules -------------------------------
(***************************************************************************)
(* Small instances of RuleEngine.  A document has a counter, an object, a  *)
(* list and a status; an event an amount, an object, a list and a status.  *)
(***************************************************************************)
EXTENDS RuleEngine

Active == Str("active", 0)
Blocked == Str("blocked", 0)

\* The column: NULL, a list by mistake, a document.
MCStored ==
  { Null, JArray(<<Num(1)>>),
    JObject([count |-> Num(2), profile |-> JObject([x |-> Num(1)]),
             list |-> JArray(<<Num(1), Num(2), Num(3)>>)]) }

MCEvent ==
  [amount |-> Num(2), object |-> JObject([x |-> Num(5), y |-> Num(6)]),
   details |-> JObject([x |-> Num(8)]), list |-> JArray(<<Num(7), Num(7), Num(8)>>),
   status |-> Active, missing |-> Null]

If(path, cmp, rhs) == {[path |-> path, cmp |-> cmp, rhs |-> rhs]}
Always == {}

Act(op, key, source, template, cond) ==
  [op |-> op, key |-> key, source |-> source, template |-> template, cond |-> cond, order |-> 0]

Static(op, key, j, cond) == Act(op, key, "static", j, cond)
OfEvent(op, key, name, cond) == Act(op, key, "event", <<"event", name>>, cond)
OfMetadata(op, key, path, cond) == Act(op, key, "metadata", <<"metadata">> \o path, cond)

\* Every operation; values that are static, of the event, or scalars of the
\* document; conditions on numbers.
ScalarActions ==
  { OfEvent("set", "profile", "object", Always),
    OfEvent("merge", "profile", "object", If(<<"metadata", "count">>, ">=", Num(2))),
    OfEvent("set", "other", "object", Always),
    OfEvent("merge", "other", "details", Always),
    OfEvent("increment", "count", "amount", Always),
    Static("append", "list", Num(4), If(<<"event", "amount">>, "!=", Num(3))),
    OfEvent("set", "list", "list", Always),
    Static("remove", "profile", Null, If(<<"metadata", "profile", "y">>, "==", Num(6))),
    OfEvent("max", "count", "amount", Always),
    Static("min", "count", Num(1), If(<<"metadata", "list">>, "<", Num(1))),
    OfMetadata("set", "other", <<"count">>, Always),
    OfMetadata("append", "list", <<"profile", "x">>, Always),
    Static("set", "count", Num(9), If(<<"event", "amount">>, "=", Num(2))) }

\* Values that are objects or lists of the document.
SharingActions ==
  { OfMetadata("set", "other", <<"profile">>, Always),
    OfEvent("merge", "other", "object", Always),
    OfEvent("merge", "profile", "object", Always) }

\* The example of the README: event.data.status == "active".
StatusActions ==
  { OfEvent("increment", "count", "amount", If(<<"event", "status">>, "==", Active)),
    OfEvent("increment", "count", "amount", If(<<"event", "status">>, "==", Blocked)) }

MCEvents == {[type |-> "created", version |-> v] : v \in {"", "1", "2"}}

Rule(id, type, version, enabled, priority, actions) ==
  [id |-> id, type |-> type, version |-> version, enabled |-> enabled,
   priority |-> priority, actions |-> actions]

OneRule(actions) == {Rule(1, "created", "1", TRUE, 0, actions)}

\* Rules that must be told apart or kept in order.
Catalogue ==
  { Rule(1, "created", "", TRUE, 2, {OfEvent("set", "profile", "object", Always)}),
    Rule(2, "created", "1", TRUE, 1,
         {Static("remove", "profile", Null, If(<<"metadata", "profile", "y">>, "==", Num(6))),
          Static("append", "list", Num(4), Always)}),
    Rule(3, "created", Unset, TRUE, 1, {OfMetadata("set", "other", <<"profile", "x">>, Always)}),
    Rule(4, "created", "", FALSE, 3, {OfEvent("set", "other", "status", Always)}),
    Rule(5, "updated", "", TRUE, 3, {OfEvent("set", "other", "amount", Always)}),
    Rule(6, "created", "2", TRUE, 2,
         {[Static("increment", "count", Num(1), Always) EXCEPT !.order = i] : i \in {1, 2}}) }

\* Every order of four of the actions, in one rule, and every part of the
\* catalogue.
ScalarTables ==
  {OneRule(actions) : actions \in kSubset(4, ScalarActions)} \cup SUBSET Catalogue

SharingTables == {OneRule(SharingActions)}
StatusTables == {OneRule(StatusActions)}
=============================================================================
