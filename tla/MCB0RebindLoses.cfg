SPECIFICATION Spec
CONSTANTS
    Msgs = {m1}
    Poller = Poller
    Live = Live
    Api = Api
    NoThread = NoThread
    Faults = {}
    MaxVersion = 2
    MaxGeneration = 4
    MaxFaults = 0
    MaxRestarts = 0
INVARIANT SeenIsKept
