-------------------------------- MODULE SPMProofs --------------------------------
(***************************************************************************)
(* Proofs about the SPM operations composed with the session queue, for   *)
(* any sets of sessions, goroutines, labels and algorithms.                *)
(***************************************************************************)
EXTENDS SPM, TLAPS

SQP == INSTANCE SessionQueueProofs

(***************************************************************************)
(* Release discipline.  Each step of an operation either leaves the pool   *)
(* alone or is the pool's Cmd step (the operation returns); the deferred   *)
(* release() is the pool's Release.                                        *)
(***************************************************************************)
LEMMA ServePoolStep ==
    ASSUME NEW w \in Workers, Serve(w)
    PROVE  SQ!Cmd(w) \/ SQ!Release(w) \/ UNCHANGED poolVars
<1>1. CASE DeriveAndWrapTransportSecret(w)
    BY <1>1 DEF DeriveAndWrapTransportSecret, Return
<1>2. CASE VerifySession(w)
    BY <1>2 DEF VerifySession, Return
<1>3. CASE GenerateRandom(w)
    BY <1>3 DEF GenerateRandom, Return
<1>4. CASE GenKeyPairPreamble(w)
    BY <1>4 DEF GenKeyPairPreamble, Return
<1>5. CASE GenKeyPairStep(w)
    BY <1>5 DEF GenKeyPairStep, Return
<1>6. CASE GenSymmetricKeyStep(w)
    BY <1>6 DEF GenSymmetricKeyStep, Return
<1>7. CASE EndorseCert(w)
    BY <1>7 DEF EndorseCert, Return
<1>8. CASE SQ!Release(w) /\ UNCHANGED opVars
    BY <1>8
<1>. QED
    BY <1>1, <1>2, <1>3, <1>4, <1>5, <1>6, <1>7, <1>8 DEF Serve

LEMMA NextPoolStep == [Next]_vars => [SQ!Next]_poolVars
<1> SUFFICES ASSUME [Next]_vars PROVE [SQ!Next]_poolVars
    OBVIOUS
<1>1. ASSUME NEW w \in Workers, Request(w) PROVE SQ!Next
    BY <1>1 DEF Request, SQ!Next
<1>2. ASSUME NEW w \in Workers, Serve(w) PROVE [SQ!Next]_poolVars
    BY <1>2, ServePoolStep DEF SQ!Next
<1>3. CASE UNCHANGED vars
    BY <1>3 DEF vars
<1>. QED
    BY <1>1, <1>2, <1>3 DEF Next, poolVars, SQ!vars

\* The composed system takes and gives back sessions only as the session
\* queue does.
LEMMA QueueRefined == Spec => SQ!Spec
<1>1. Init => SQ!Init
    BY DEF Init
<1>. QED
    BY <1>1, NextPoolStep, PTL DEF Spec, SQ!Spec, poolVars, SQ!vars

(* The composed SPM conserves its sessions: each one is at every instant   *)
(* queued once or held by exactly one goroutine serving an operation.      *)
THEOREM SPMConservesSessions == Spec => []SQ!SessionsConserved
<1>1. SQ!Spec => []SQ!SessionsConserved
    <2>1. SQP!Spec => []SQP!SessionsConserved
        <3>1. SQP!IsFiniteSet(Sessions)
            BY SPMAssumption DEF IsFiniteSet, SQP!IsFiniteSet
        <3>. QED
            BY <3>1, SPMAssumption, SQP!Conservation
    <2>2. SQ!Init <=> SQP!Init
        BY DEF SQ!Init, SQP!Init, SQ!numSessions, SQP!numSessions,
               SQ!Cardinality, SQP!Cardinality, SQ!Range, SQP!Range
    <2>3. [SQ!Next]_SQ!vars <=> [SQP!Next]_SQP!vars
        BY DEF SQ!Next, SQP!Next, SQ!vars, SQP!vars, SQ!Receive, SQP!Receive,
               SQ!Block, SQP!Block, SQ!Cmd, SQP!Cmd, SQ!Release, SQP!Release,
               SQ!Insert, SQP!Insert, SQ!SendHandoff, SQP!SendHandoff,
               SQ!SendBuffer, SQP!SendBuffer, SQ!numSessions, SQP!numSessions,
               SQ!Cardinality, SQP!Cardinality
    <2>4. SQ!SessionsConserved <=> SQP!SessionsConserved
        BY DEF SQ!SessionsConserved, SQP!SessionsConserved, SQ!Holds, SQP!Holds,
               SQ!Cardinality, SQP!Cardinality
    <2>. QED
        BY <2>1, <2>2, <2>3, <2>4, PTL DEF SQ!Spec, SQP!Spec
<1>. QED
    BY <1>1, QueueRefined, PTL
(***************************************************************************)
(* The certificate of EndorseCert.                                         *)
(***************************************************************************)
\* The operation, status and certificate of each goroutine are functions
\* on the goroutines, so a step of one leaves the others' alone.
OpsDomain == DOMAIN op = Workers /\ DOMAIN resp = Workers /\ DOMAIN cert = Workers

CertInv == OpsDomain /\ EndorsedCertConsistent

(* The two switches of EndorseCert agree with RFC 5758: for every         *)
(* algorithm hashFromSignatureAlgorithm accepts, oidFromSignatureAlgorithm *)
(* returns the OID of ECDSA with the hash it picked.                      *)
LEMMA TablesAgree ==
    ASSUME NEW a \in DOMAIN hashFromSignatureAlgorithm
    PROVE  /\ hashFromSignatureAlgorithm[a] \in DOMAIN RFC5758
           /\ oidFromSignatureAlgorithm[a] = RFC5758[hashFromSignatureAlgorithm[a]]
<1>1. a \in {"ECDSAWithSHA256", "ECDSAWithSHA384", "ECDSAWithSHA512"}
    BY DEF hashFromSignatureAlgorithm
<1>2. CASE a = "ECDSAWithSHA256"
    BY <1>2 DEF hashFromSignatureAlgorithm, oidFromSignatureAlgorithm, RFC5758
<1>3. CASE a = "ECDSAWithSHA384"
    BY <1>3 DEF hashFromSignatureAlgorithm, oidFromSignatureAlgorithm, RFC5758
<1>4. CASE a = "ECDSAWithSHA512"
    BY <1>4 DEF hashFromSignatureAlgorithm, oidFromSignatureAlgorithm, RFC5758
<1>. QED
    BY <1>1, <1>2, <1>3, <1>4

\* A step that leaves operations and certificates alone and sets at most
\* the status of a goroutine that is not serving EndorseCert.
LEMMA OtherOpStep ==
    ASSUME CertInv, NEW w \in Workers, op[w] # "EndorseCert",
           UNCHANGED <<op, cert>>,
           \/ resp' = resp
           \/ \E c \in {"OK", "Internal", "Unknown"} : resp' = [resp EXCEPT ![w] = c]
    PROVE  CertInv'
BY DEF CertInv, OpsDomain, EndorsedCertConsistent

\* The steps of EndorseCert keep the invariant: a status OK comes with the
\* certificate built from the two switches.
LEMMA EndorseCertStep ==
    ASSUME CertInv, NEW w \in Workers, EndorseCert(w)
    PROVE  CertInv'
<1> DEFINE a == Head(args[w])
<1>1. UNCHANGED op /\ op[w] = "EndorseCert"
    BY DEF EndorseCert, Running
<1>2. CASE UNCHANGED cert /\ resp' = [resp EXCEPT ![w] = "Internal"]
    BY <1>1, <1>2 DEF CertInv, OpsDomain, EndorsedCertConsistent
<1>3. CASE /\ a.alg \in DOMAIN hashFromSignatureAlgorithm
           /\ resp' = [resp EXCEPT ![w] = "OK"]
           /\ cert' = [cert EXCEPT ![w] =
                          [hash |-> hashFromSignatureAlgorithm[a.alg],
                           oid  |-> oidFromSignatureAlgorithm[a.alg]]]
    <2>1. /\ hashFromSignatureAlgorithm[a.alg] \in DOMAIN RFC5758
          /\ oidFromSignatureAlgorithm[a.alg] = RFC5758[hashFromSignatureAlgorithm[a.alg]]
        BY <1>3, TablesAgree
    <2>. QED
        BY <1>1, <1>3, <2>1 DEF CertInv, OpsDomain, EndorsedCertConsistent
<1>. QED
    BY <1>2, <1>3 DEF EndorseCert, Return

LEMMA CertNext == CertInv /\ [Next]_vars => CertInv'
<1> SUFFICES ASSUME CertInv, [Next]_vars PROVE CertInv'
    OBVIOUS
<1>1. ASSUME NEW w \in Workers, Request(w) PROVE CertInv'
    BY <1>1 DEF Request, CertInv, OpsDomain, EndorsedCertConsistent
<1>2. ASSUME NEW w \in Workers, Serve(w) PROVE CertInv'
    <2>1. CASE DeriveAndWrapTransportSecret(w)
        BY <2>1, OtherOpStep DEF DeriveAndWrapTransportSecret, Return, Running
    <2>2. CASE VerifySession(w)
        BY <2>2, OtherOpStep DEF VerifySession, Return, Running
    <2>3. CASE GenerateRandom(w)
        BY <2>3, OtherOpStep DEF GenerateRandom, Return, Running
    <2>4. CASE GenKeyPairPreamble(w)
        BY <2>4, OtherOpStep DEF GenKeyPairPreamble, Return, Running
    <2>5. CASE GenKeyPairStep(w)
        BY <2>5, OtherOpStep DEF GenKeyPairStep, Return, Running
    <2>6. CASE GenSymmetricKeyStep(w)
        BY <2>6, OtherOpStep DEF GenSymmetricKeyStep, Return, Running
    <2>7. CASE EndorseCert(w)
        BY <2>7, EndorseCertStep
    <2>8. CASE SQ!Release(w) /\ UNCHANGED opVars
        BY <2>8 DEF opVars, CertInv, OpsDomain, EndorsedCertConsistent
    <2>. QED
        BY <2>1, <2>2, <2>3, <2>4, <2>5, <2>6, <2>7, <2>8, <1>2, Zenon DEF Serve
<1>3. CASE UNCHANGED vars
    BY <1>3 DEF vars, opVars, CertInv, OpsDomain, EndorsedCertConsistent
<1>. QED
    BY <1>1, <1>2, <1>3 DEF Next

(* For any goroutines, labels and requested algorithms, a certificate that *)
(* EndorseCert returns with OK names in signatureAlgorithm the RFC 5758    *)
(* OID of the hash the HSM signed with.                                   *)
THEOREM CertConsistent == Spec => []EndorsedCertConsistent
<1>1. Init => CertInv
    BY DEF Init, CertInv, OpsDomain, EndorsedCertConsistent
<1>. QED
    BY <1>1, CertNext, PTL DEF Spec, CertInv

=============================================================================
