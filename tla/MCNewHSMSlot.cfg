\* A slot of -1 next to a valid one: the slot check only compares with the
\* number of tokens.  Construction ends, so terminal states are expected.
CONSTANTS
    Slots <- MCSlots
    TokenCounts = {1, 2}
    SessionNums = {1, 2, 3}
    SymLabels = {"KG", "KT"}
    PrivLabels = {"KCAPriv"}
SPECIFICATION Spec
INVARIANT NoPanic
CHECK_DEADLOCK FALSE
