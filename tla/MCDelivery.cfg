SPECIFICATION MCSpec
CONSTANTS
  r1 = r1
  r2 = r2
  app1 = app1
  app2 = app2
  wait1 = wait1
  A = A
  B = B
  Dest <- MCDest
  Streams = {app1, app2}
  Collectors = {wait1}
  Capacity = 3
  MaxTries = 2
  MaxRevision = 6
  Intent <- MCIntent
  Mark <- MCMark
  Place <- MCPlace
  Foreign <- MCForeign
  Holdings <- MCHoldings
  Routing <- MCRouting
  Instant <- MCInstant
  Unreadable <- NoForeign
  MaxFaults = 1
  h1 = h1
  h2 = h2
  h3 = h3
  Host = {h1, h2, h3}
  Asker = {1, 2, 3}
  Readings <- MCReadings
  Impatient = {1}
  Credentialed = {h3}
  FetchSlots = 2
  CacheSlots = 1
  LastSecond = 1
  Absent = Absent
INVARIANTS
  DeliveryExact
  CohortExact
PROPERTIES
  ResultArrives
  NoEditOverwritten
  EditsSettle
  EveryAskerAnswered
  InformationHonest
CHECK_DEADLOCK FALSE
