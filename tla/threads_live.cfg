SPECIFICATION Spec
CONSTANTS
    s1 = s1  s2 = s2  a1 = a1  b1 = b1
    Sessions = {s1}
    Callers = {a1}
    Boots = {b1}
    NoBoot = NoBoot
    NoThread = NoThread
    kMaxPendingRequests = 2
    max_sessions = 1
    MaxQueue = 2
PROPERTIES EverySubmitAnswered StopReturns DeadIncarnationFenced
