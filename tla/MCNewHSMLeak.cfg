\* Valid configurations where any PKCS#11 call may fail part way through.
\* Construction ends, so terminal states are expected.
CONSTANTS
    Slots = {0}
    TokenCounts = {1, 2}
    SessionNums = {1, 2, 3}
    SymLabels = {"KG", "KT"}
    PrivLabels = {"KCAPriv"}
SPECIFICATION Spec
INVARIANT FailureClosesSessions
CHECK_DEADLOCK FALSE
