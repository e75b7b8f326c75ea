SPECIFICATION MaintenanceFairSpec
CHECK_DEADLOCK FALSE
CONSTANTS
    Requests = {r1, r2}
    Generations = {g1, g2}
    Base = g1
    Install = install
    NoRequest = none
    NoGeneration = nogen
    Rebuilt = TRUE
    Mishaps = {"crash"}
    MaxMishaps = 1
PROPERTY EventuallySettled
