\* A condition on a string.
SPECIFICATION Spec
CONSTANTS
  Stored <- MCStored
  Event <- MCEvent
  Tables <- StatusTables
  Events <- MCEvents
INVARIANT ResultIsMeaning
CHECK_DEADLOCK FALSE
