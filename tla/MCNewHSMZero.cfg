\* NumSessions 0 next to 1: a channel of capacity 0 holds no session.
\* Construction ends or blocks, so terminal states are expected.
CONSTANTS
    Slots = {0}
    TokenCounts = {1, 2}
    SessionNums = {0, 1}
    SymLabels = {"KG", "KT"}
    PrivLabels = {"KCAPriv"}
SPECIFICATION Spec
PROPERTY NewHSMReturns
CHECK_DEADLOCK FALSE
