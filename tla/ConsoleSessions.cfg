SPECIFICATION FairConsole
CONSTANTS
    Callers = {c1, c2, s1, b}
    Mutators = {m1, m2}
    x = x
    y = y
    Containers = {x, y}
    None = None
    MaxEpoch = 4
    MaxVersion = 1
    StatusSockets = {s1}
    LogSockets = {l1}
    Broadcaster = b
    Sessions = {k1, k2}
    Changers = {w1, w2}
    MaxPending = 1
    Interval = 1
    Lease = 2
    MaxTime = 2
    MaxEdits = 2
    MaxChanges = 2
INVARIANTS
    AnswersAreFresh
    EnvKeepsEveryChange
PROPERTIES
    CallersNotHeld
    LeaseHolds
CONSTRAINT Scope
CHECK_DEADLOCK FALSE
