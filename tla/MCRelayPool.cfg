SPECIFICATION MCSpec
CONSTANTS
    pub = pub
    user = user
    dur = dur
    eph = eph
    req = req
    Sessions = {pub, user}
    Protected = {user}
    Public <- MCPublic
    KeyBefore <- MCKeyBefore
    Durables = {dur}
    Ephemerals = {eph}
    Requests = {req}
    MaxRelays = 1
    MaxWorker = 3
    MaxAttempt = 1
    MaxHeard = 2
    CommandCap = 1
    EventCap = 2
    BatchCap = 2
    InboxCap = 1
CHECK_DEADLOCK FALSE
INVARIANTS
    HandoffsResolved
    NeverCrosses
    ConnectionsApart
    LinkConverges

    
