\* One queue per user, two workers, one queue with a hopeless message at its head, every failure but a lost channel.
\* The system rests when every message is settled.
SPECIFICATION FairSpec
CONSTANTS
  w1 = w1
  w2 = w2
  m1 = m1
  m2 = m2
  m3 = m3
  m4 = m4
  m5 = m5
  m6 = m6
  e1 = e1
  e3 = e3
  e5 = e5
  u1 = u1
  u2 = u2
  u3 = u3
  t1 = t1
  t2 = t2
  t3 = t3
  None = None
  Workers = {w1, w2}
  EventIds = {e1, e3, e5}
  Users = {u1, u2, u3}
  Types = {t1, t2, t3}
  Body <- MCBody
  EventId <- MCEventId
  UserId <- MCUserId
  EventType <- MCEventType
  Messages = {m1, m2, m5, m6}
  Prefetch = 2
  Position <- PoisonFirst
  Serves <- Partitioned
  InitialRules <- PoisonRules
  InitialUsers = {u1, u2, u3}
  VolatileRules = {}
  VolatileUsers = {}
  Fallible = {"exists", "findRules", "getMeta", "update", "insert", "recordFailed", "shutdown", "crash"}
  MaxFaults = 2
INVARIANT ProcessedIsApplied
PROPERTY EffectsAreStable
PROPERTY ProcessedIsFinal
PROPERTY EventuallySettled
CHECK_DEADLOCK FALSE
