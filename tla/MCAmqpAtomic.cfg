\* The two writes are one transaction; everything fails, stops and dies around it.
SPECIFICATION AtomicSpec
CONSTANTS
  w1 = w1
  w2 = w2
  m1 = m1
  m2 = m2
  m3 = m3
  m4 = m4
  m5 = m5
  m6 = m6
  e1 = e1
  e3 = e3
  e5 = e5
  u1 = u1
  u2 = u2
  u3 = u3
  t1 = t1
  t2 = t2
  t3 = t3
  None = None
  Workers = {w1, w2}
  EventIds = {e1, e3, e5}
  Users = {u1, u2, u3}
  Types = {t1, t2, t3}
  Body <- MCBody
  EventId <- MCEventId
  UserId <- MCUserId
  EventType <- MCEventType
  Messages = {m1, m2, m3, m4, m6}
  Prefetch = 1
  Position <- NoOrder
  Serves <- Partitioned
  InitialRules <- MCRules
  InitialUsers = {u1, u2, u3}
  VolatileRules = {}
  VolatileUsers = {}
  Fallible = {"exists", "findRules", "getMeta", "update", "insert", "channel", "shutdown", "crash"}
  MaxFaults = 2
INVARIANT AppliedAtMostOnce
PROPERTY ImplementsPromise
CHECK_DEADLOCK FALSE
