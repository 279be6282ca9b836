\* Rules without references between keys. It ends when the document is computed.
SPECIFICATION Spec
CONSTANTS
  Stored <- MCStored
  Event <- MCEvent
  Tables <- ScalarTables
  Events <- MCEvents
INVARIANT StoredIsEvaluated
INVARIANT ResultIsMeaning
INVARIANT ResultIsOfTable
PROPERTY EvaluationIsMeaning
PROPERTY KeyLevel
CHECK_DEADLOCK FALSE
