SPECIFICATION MCSpec
CONSTANTS
  r1 = r1
  r2 = r2
  alice = alice
  bob = bob
  Intents = {1, 2}
  Relays = {r1}
  Author <- OneAuthor
  Guarded = {}
  Lazy = {}
  MaxAttempts = 2
  MaxGlobal = 2
  Apps <- FaultApps
  A = A
  B = B
  Key = {A, B}
  SessionKey = A
  NoKey = NoKey
  Operation = {o1, o2}
  MaxToken = 4
  MaxGeneration = 3
  MaxInstance = 4
  MaxCapabilities = 2
  Scope <- MCScope
INVARIANTS
  ForeignSound
PROPERTIES
  FaultsContained
  KeepsPromise
  VerdictCurrent
  ForeignEnds
CHECK_DEADLOCK FALSE
