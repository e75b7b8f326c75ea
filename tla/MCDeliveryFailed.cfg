SPECIFICATION DeliverySpec
CONSTANTS
    Patches = {p1}
    NoPatch = none
    Foreign = foreign
    Identities = {author, peer}
    Author = author
    Appliers = {a1}
    MaxLease = 2
    MaxCommits = 1
INVARIANT FailedIsNotApplied
CHECK_DEADLOCK FALSE
