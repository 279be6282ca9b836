\* A key set to an object of the document.
SPECIFICATION Spec
CONSTANTS
  Stored <- MCStored
  Event <- MCEvent
  Tables <- SharingTables
  Events <- MCEvents
PROPERTY KeyLevel
CHECK_DEADLOCK FALSE
