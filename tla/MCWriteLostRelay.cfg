SPECIFICATION Spec
CONSTANTS
  r1 = r1
  r2 = r2
  alice = alice
  bob = bob
  Intents = {1}
  Relays = {r1, r2}
  Author <- OneAuthor
  Guarded = {}
  Lazy = {}
  MaxAttempts = 2
  MaxGlobal = 2
  Apps <- LostApps
INVARIANTS
  SettledEverywhere
