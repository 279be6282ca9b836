--------------------------- MODULE RuleRepository ---------------------------
(***************************************************************************)
(* MetadataRuleRepository (internal/infrastructure/repository): the rows   *)
(* of metadata_rules that FindByEventTypeAndVersion selects for an event,  *)
(* and the order in which it may return them.                              *)
(*                                                                         *)
(* A row is a record [id, type, version, enabled, priority, actions] whose *)
(* actions are its rows of metadata_rule_actions, each with its order, the *)
(* column execution_order.                                                 *)
(***************************************************************************)
EXTENDS Integers

Unset == "NULL"   \* the version of a row whose event_version is NULL

\* A condition on a NULL column is not true: a row with no version at all is
\* found for events without a version only, one with an empty version for all.
Matches(row, event) ==
  /\ row.type = event.type /\ row.enabled
  /\ IF event.version # ""
     THEN row.version \in {"", event.version}
     ELSE row.version \in {"", Unset}

\* Mutation of Foremost: ORDER BY priority.
ForemostAscending(found) == {r \in found : \A s \in found : r.priority <= s.priority}

\* ORDER BY priority DESC: the rows that may come next.  Rows of one priority
\* come in any order.
Foremost(found) == {r \in found : \A s \in found : r.priority >= s.priority}
=============================================================================
