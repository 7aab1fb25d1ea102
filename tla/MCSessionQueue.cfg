\* Four goroutines compete for three sessions: one of them has to block,
\* and releases race with new requests and with each other's capacity check.
CONSTANTS
    Sessions = {s1, s2, s3}
    Workers = {w1, w2, w3, w4}
    NoSession = NoSession
SPECIFICATION Spec
INVARIANT SessionsConserved
