SPECIFICATION Spec
CONSTANTS
    Names = {a, b, c}
    Payloads = {p}
    Counters = {pending}
    Callers = {c1}
    Workers = {w1}
    NoName = NoName
    MaxVersion = 4
    MaxRevision = 2
    MaxCount = 1
PROPERTY RebindOnlyWhenDrained
