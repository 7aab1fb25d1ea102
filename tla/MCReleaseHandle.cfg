CONSTANTS
    Sessions = {s1, s2}
    Workers = {w1, w2}
    NoSession = NoSession
SPECIFICATION HSpec
INVARIANT CapacityNotInflated
