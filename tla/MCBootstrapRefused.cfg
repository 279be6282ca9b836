\* One source is refused, no other failure.
SPECIFICATION Spec
CONSTANTS
  Environments <- MCEnvironments
  Databases <- MCDatabases
  Number <- MCNumber
  Topics <- MCTopics
  Enabled <- MCEnabled
  BadTopics <- MCBadTopics
  Plain <- MCPlain
  Lower <- MCLower
  MaxFaults = 0
INVARIANT ConsumesUntilCancelled
CHECK_DEADLOCK FALSE
