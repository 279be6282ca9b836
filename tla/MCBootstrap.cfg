\* A refused source, two more failures anywhere, a signal or a death at any time.
SPECIFICATION FairSpec
CONSTANTS
  Environments <- MCEnvironments
  Databases <- MCDatabases
  Number <- MCNumber
  Topics <- MCTopics
  Enabled <- MCEnabled
  BadTopics <- MCBadTopics
  Plain <- MCPlain
  Lower <- MCLower
  MaxFaults = 2
INVARIANT TypeOK
INVARIANT CloseAfterWork
INVARIANT OneCloser
INVARIANT NothingLeftOpen
INVARIANT RunsAsConfigured
INVARIANT QueuesApart
PROPERTY ShutdownCompletes
CHECK_DEADLOCK FALSE
