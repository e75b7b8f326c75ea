SPECIFICATION BoundedSpec
CONSTANTS
    Msgs = {m}
    Interrupts = {m}
    Supersedable = {m}
    Agents = {a, b}
    MaxTokens = 2
INVARIANT ReceiptsSafe
PROPERTIES ProcessedIsFinal ClaimReleased
