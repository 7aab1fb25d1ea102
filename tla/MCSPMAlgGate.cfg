\* Two goroutines share one session, so one may block behind the other;
\* every registry content is tried; requests carry at most one param.
CONSTANTS
    Sessions = {s1}
    Workers = {w1, w2}
    NoSession = NoSession
    HsmPrivLabels = {"KCAPriv"}
    EndorseLabels = {"KCAPriv", "KOther"}
    Algs = {"ECDSAWithSHA256", "ECDSAWithSHA384", "ECDSAWithSHA512", "SHA256WithRSA"}
    KeyKinds = {"RSA", "EC"}
    MaxParams = 1
SPECIFICATION Spec
INVARIANT AlgorithmGate
