SPECIFICATION Spec
CONSTANTS
    Steps = {s1, s2, s3}
    Codes = {"refused"}
    Callers = {c1, c2}
    Keys = {k1, k2}
    MaxWakeups = 2
    MaxDetach = 3
    Patches = {p1, p2}
    NoPatch = none
    Foreign = foreign
    Identities = {author, peer}
    Author = author
    Appliers = {a1, a2}
    MaxLease = 3
    MaxCommits = 2
    Requests = {r1, r2}
    MaxRevision = 7
    MaxTerminalRequests = 3
    MaxShells = 3
    MaxTicketRevision = 3
    MaxMishaps = 2
SYMMETRY Symmetry
INVARIANTS
    JournalSafe Materializable
    ClaimSafe DispatchIsTrue DetachedIsUnclaimed
    ApplySafe CompletedIsApplied
    RuntimeSafe DetachedIsGone
    TerminalSafe
PROPERTIES
    RecordIsFinal EndIsFinal
CHECK_DEADLOCK FALSE
