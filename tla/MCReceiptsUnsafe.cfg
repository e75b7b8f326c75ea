SPECIFICATION Spec
CONSTANTS
    Msgs = {m}
    Interrupts = {m}
    Supersedable = {m}
    Agents = {a, b}
    MaxTokens = 2
SYMMETRY Symmetry
PROPERTY UnsafeIsKept
