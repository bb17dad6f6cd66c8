SPECIFICATION Spec
CONSTANTS
    t1 = t1
    t2 = t2
    r1 = r1
    r2 = r2
    clipboard = clipboard
    notification = notification
    Terminals = {t1, t2}
    Recipients = {r1, r2}
    Kinds = {clipboard, notification}
    Sizes = {1, 2}
    TerminalEffects = 2
    TerminalBytes = 4
    ProcessEffects = 2
    ProcessBytes = 3
    RecipientLimit = 1
    LastGeneration = 2
    MaxAdmits = 2
    MaxCancels = 1
    Scenarios <- OneOrTwoTerminals
    None = None
INVARIANTS
    TypeOK
    BudgetExact
    NothingStaleQueued
    NeverAfterWithdrawal
    CloseSettles
    NoneStranded
PROPERTIES
    EffectsSettle
CHECK_DEADLOCK FALSE
