SPECIFICATION Scenes
CONSTANTS
    Msgs = {m1, m2}
    Poller = Poller
    Live = Live
    Api = Api
    NoThread = NoThread
    Faults = {"mark", "clear", "timeout"}
    MaxVersion = 1
    MaxGeneration = 1
    MaxFaults = 2
    MaxRestarts = 2
    question = question
    greeting = greeting
    Items = {question, greeting}
    Kind <- KindOfItems
    Targets = {t1, t2}
    Answers = {yes, no}
    Packs = {pack}
    Nobody = nobody
    MaxWorks = 2
    MaxTokens = 2
    MaxTeamFaults = 1
    Panes = {1, 2}
    Mails = {1, 2}
    Sayings = {a, b}
    NoText = NoText
    NoTurn = NoTurn
    NoPane = NoPane
    MaxTurns = 2
    MaxShort = 1
    MaxChatFaults = 1
SYMMETRY Symmetry
INVARIANTS SeenIsKept MarksAreTrue PromptedOnce RepliesSafe ConsultsSafe ChatSafe
PROPERTY NoRepromptAfterRestart
CHECK_DEADLOCK FALSE
