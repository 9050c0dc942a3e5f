SPECIFICATION FairSpec
CONSTANTS
  r1 = r1
  r2 = r2
  alice = alice
  bob = bob
  Intents = {1, 2}
  Relays = {r1}
  Author <- TwoAuthors
  Guarded <- AliceSession
  Lazy <- AliceSession
  MaxAttempts = 1
  MaxGlobal = 2
  Apps <- AuthApps
INVARIANTS
  CapsHold
PROPERTIES
  SignedSettles
