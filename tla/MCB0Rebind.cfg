SPECIFICATION RebindSpec
CONSTANTS
    Msgs = {m1}
    Poller = Poller
    Live = Live
    Api = Api
    NoThread = NoThread
    Faults = {"mark"}
    MaxVersion = 2
    MaxGeneration = 4
    MaxFaults = 1
    MaxRestarts = 1
PROPERTIES CatchesUp EventuallyPrompted
