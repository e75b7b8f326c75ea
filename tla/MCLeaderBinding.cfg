SPECIFICATION Scenes
CONSTANTS
    Names = {a, b, c}
    Payloads = {p, q}
    Counters = {pending}
    Callers = {c1}
    Workers = {w1}
    NoName = NoName
    MaxVersion = 5
    MaxRevision = 2
    MaxCount = 1
    MaxSceneVersion = 4
    MaxStoreEvents = 8
    Projects = {r, s}
    FanoutLimit = 2
    MaxEvents = 3
    MaxFaults = 2
    Mails = {m1}
    Poller = w1
SYMMETRY Symmetry
INVARIANTS RebindSafe DrainSafe FanoutSafe NoMailLost
PROPERTY DrainIsMonotone
CHECK_DEADLOCK FALSE
