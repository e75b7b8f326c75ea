SPECIFICATION Progress
CONSTANTS
    EventIds = {e1, e2}
    Threads = {t1, t2}
    NoThread = NoThread
    MaxVersion = 2
    MaxStamp = 2
    MaxGeneration = 2
    Panes = {1}
    Mails = {1}
    Sayings = {a, b}
    NoText = NoText
    NoTurn = NoTurn
    NoPane = NoPane
    MaxTurns = 2
    MaxShort = 1
    MaxChatFaults = 1
    Requests = {r1, r2}
    Generations = {g1, g2}
    Base = g1
    Install = install
    NoRequest = none
    NoGeneration = nogen
    Rebuilt = FALSE
    Mishaps = {"service", "truth", "journal", "evidence", "switch", "selector", "health", "crash", "reboot"}
    MaxMishaps = 5
INVARIANTS CoreSafe LedgerIsTrue WindowSafe JournalExplainsCurrent
PROPERTIES KeepsContract NeverDropped NewestKept EventuallyDelivered ChatSettles PreparedCold EventuallySettled
CHECK_DEADLOCK FALSE
