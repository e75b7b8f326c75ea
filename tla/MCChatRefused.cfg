SPECIFICATION ChatSpec
CHECK_DEADLOCK FALSE
CONSTANTS
    Panes = {1}
    Mails = {1}
    Sayings = {a}
    NoText = notext
    NoTurn = noturn
    NoPane = nopane
    MaxTurns = 1
    MaxChatFaults = 0
INVARIANT NotifiedWasPrompted
