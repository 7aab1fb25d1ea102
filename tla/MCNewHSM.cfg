\* One or two tokens, slots -1 to 1, one to three sessions, any choice of
\* two symmetric labels and one private label.
\* Construction ends (ready or error), so terminal states are expected.
CONSTANTS
    Slots <- MCSlots
    TokenCounts = {1, 2}
    SessionNums = {1, 2, 3}
    SymLabels = {"KG", "KT"}
    PrivLabels = {"KCAPriv"}
SPECIFICATION Spec
INVARIANT ReadyIsComplete
CHECK_DEADLOCK FALSE
