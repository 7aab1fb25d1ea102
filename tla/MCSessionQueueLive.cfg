\* Four goroutines and two sessions, so that two goroutines can be blocked
\* at once and the order of hand-off matters.  No symmetry: liveness.
CONSTANTS
    Sessions = {s1, s2}
    Workers = {w1, w2, w3, w4}
    NoSession = NoSession
SPECIFICATION FairSpec
PROPERTY WaiterServed
