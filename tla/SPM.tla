-------------------------------- MODULE SPM ---------------------------------
(***************************************************************************)
(* The crypto operations of the HSM type (src/unnamed/part_002), served    *)
(* concurrently by goroutines that share the session queue.  Every        *)
(* operation runs                                                          *)
(*     session, release := h.sessions.getHandle(); defer release()         *)
(* then resolves key labels in the registry (h.SymmetricKeys,              *)
(* h.PrivateKeys, filled once by NewHSM) and issues PKCS#11 calls on its   *)
(* session.  Any HSM call may fail; each early return of the code is a     *)
(* disjunct below.  The pool steps are those of SessionQueue (instance SQ);*)
(* an operation's own steps leave the pool alone and its return is the     *)
(* pool's Cmd step, so the composed system implements SQ!Spec (proved      *)
(* in SPMProofs).                                                          *)
(*                                                                         *)
(* Data is abstracted to what the properties tell apart: a request is an   *)
(* operation and its list of parameters; keys are labels; bytes are left   *)
(* out.  Derived AES keys (HKDFDeriveAES) are not tracked as HSM objects.  *)
(***************************************************************************)
EXTENDS Naturals, Sequences, FiniteSets

CONSTANTS
    Sessions, Workers, NoSession,
    HsmPrivLabels, \* labels of private keys present on the HSM token
    EndorseLabels, \* key labels EndorseCert may be asked for
    Algs,          \* x509.SignatureAlgorithm values a request may carry
    KeyKinds,      \* SigningParams.KeyParams variants: "RSA", "EC"
    MaxParams      \* longest parameter list of a request

(* The operations run after NewHSM has returned, so the pool holds a      *)
(* non-empty finite set of sessions (with NumSessions = 0 NewHSM never     *)
(* returns).                                                               *)
ASSUME SPMAssumption ==
    /\ IsFiniteSet(Sessions) /\ Sessions # {} /\ NoSession \notin Sessions
    /\ KeyKinds \subseteq {"RSA", "EC"}
    /\ MaxParams \in Nat

VARIABLES
    buf, recvq, pc, sess,  \* the session queue
    op,      \* the operation each goroutine is serving
    args,    \* its parameters not yet processed (the loop's remaining params)
    stage,   \* GenerateKeyPairAndCert: "pre" (preamble) or "loop"
    kp,      \* key pairs generated by this request and not destroyed
    touched, \* this request has issued a call to the HSM
    resp,    \* the returned status: "none" until the operation returns
    cert,    \* EndorseCert: hash signed with and OID written in the cert
    RegSym,  \* labels in h.SymmetricKeys, filled by NewHSM, then read-only
    RegPriv  \* labels in h.PrivateKeys, filled by NewHSM, then read-only

poolVars == <<buf, recvq, pc, sess>>
opVars == <<op, args, stage, kp, touched, resp, cert>>
regVars == <<RegSym, RegPriv>>
vars == <<poolVars, opVars, regVars>>

SQ == INSTANCE SessionQueue

-----------------------------------------------------------------------------
(* hashFromSignatureAlgorithm and oidFromSignatureAlgorithm: the cases of  *)
(* their switches; any other algorithm is an error.                        *)
hashFromSignatureAlgorithm ==
    [a \in {"ECDSAWithSHA256", "ECDSAWithSHA384", "ECDSAWithSHA512"} |->
        CASE a = "ECDSAWithSHA256" -> "SHA256"
          [] a = "ECDSAWithSHA384" -> "SHA384"
          [] a = "ECDSAWithSHA512" -> "SHA512"]

\* Mutant: the SHA-384 and SHA-512 OIDs swapped.
oidFromSignatureAlgorithmSwapped ==
    [a \in {"ECDSAWithSHA256", "ECDSAWithSHA384", "ECDSAWithSHA512"} |->
        CASE a = "ECDSAWithSHA256" -> <<1, 2, 840, 10045, 4, 3, 2>>
          [] a = "ECDSAWithSHA384" -> <<1, 2, 840, 10045, 4, 3, 4>>
          [] a = "ECDSAWithSHA512" -> <<1, 2, 840, 10045, 4, 3, 3>>]

oidFromSignatureAlgorithm ==
    [a \in {"ECDSAWithSHA256", "ECDSAWithSHA384", "ECDSAWithSHA512"} |->
        CASE a = "ECDSAWithSHA256" -> <<1, 2, 840, 10045, 4, 3, 2>>
          [] a = "ECDSAWithSHA384" -> <<1, 2, 840, 10045, 4, 3, 3>>
          [] a = "ECDSAWithSHA512" -> <<1, 2, 840, 10045, 4, 3, 4>>]

Ops == {"DeriveAndWrapTransportSecret", "VerifySession", "GenerateRandom",
        "GenerateKeyPairAndCert", "GenerateSymmetricKeys", "EndorseCert"}

\* Parameter lists of up to MaxParams entries drawn from S.
Lists(S) == UNION {[1..n -> S] : n \in 0..MaxParams}

\* The parameters a request for operation o may carry.
ArgsOf(o) ==
    CASE o = "GenerateSymmetricKeys"  -> Lists([seed : {"HighSecKdfSeed", "LowSecKdfSeed"}])
      [] o = "GenerateKeyPairAndCert" -> Lists([kind : KeyKinds])
      [] o = "EndorseCert" ->
            {<<[label |-> l, alg |-> a]>> : l \in EndorseLabels, a \in Algs}
      [] OTHER -> {<<>>}

NoCert == [hash |-> "none", oid |-> <<>>]

-----------------------------------------------------------------------------
\* The labels the code looks up in the registry.
SymLabels == {"KG", "KT", "HighSecKdfSeed", "LowSecKdfSeed"}
PrivLabels == {"KCAPriv"}

(* NewHSM has succeeded: the pool is full and the registry holds the       *)
(* labels of cfg.SymmetricKeys and cfg.PrivateKeys, any subset of the      *)
(* labels the operations use (the config may list fewer).                 *)
Init ==
    /\ SQ!Init
    /\ RegSym \in SUBSET SymLabels
    /\ RegPriv \in SUBSET PrivLabels
    /\ op = [w \in Workers |-> "none"]
    /\ args = [w \in Workers |-> <<>>]
    /\ stage = [w \in Workers |-> "pre"]
    /\ kp = [w \in Workers |-> 0]
    /\ touched = [w \in Workers |-> FALSE]
    /\ resp = [w \in Workers |-> "none"]
    /\ cert = [w \in Workers |-> NoCert]

\* An RPC handler calls operation o; the operation starts with getHandle.
Request(w) ==
    /\ SQ!Receive(w) \/ SQ!Block(w)
    /\ \E o \in Ops : \E a \in ArgsOf(o) :
          /\ op' = [op EXCEPT ![w] = o]
          /\ args' = [args EXCEPT ![w] = a]
    /\ stage' = [stage EXCEPT ![w] = "pre"]
    /\ kp' = [kp EXCEPT ![w] = 0]
    /\ touched' = [touched EXCEPT ![w] = FALSE]
    /\ resp' = [resp EXCEPT ![w] = "none"]
    /\ cert' = [cert EXCEPT ![w] = NoCert]

\* The operation returns status code c; the deferred release() runs next.
Return(w, c) ==
    /\ SQ!Cmd(w)
    /\ resp' = [resp EXCEPT ![w] = c]

\* The step issues at least one HSM call.
Touch(w) == touched' = [touched EXCEPT ![w] = TRUE]

\* The goroutine runs operation o on its session.
Running(w, o) == pc[w] = "cmd" /\ op[w] = o

-----------------------------------------------------------------------------
(* DeriveAndWrapTransportSecret with deriveTransportSecret: look up KG,    *)
(* FindSecretKey(kg), look up KT, FindSecretKey(kt), HKDFDeriveAES, then   *)
(* WrapAES.  Registry misses are status Internal errors; errors of the     *)
(* HSM calls are returned as they are (no gRPC code: "Unknown").           *)
DeriveAndWrapTransportSecret(w) ==
    /\ Running(w, "DeriveAndWrapTransportSecret")
    /\ \/ /\ "KG" \notin RegSym
          /\ Return(w, "Internal")
          /\ UNCHANGED touched
       \/ /\ "KG" \in RegSym
          /\ Touch(w)
          /\ \/ Return(w, "Unknown")         \* FindSecretKey(kg) fails
             \/ /\ "KT" \notin RegSym
                /\ Return(w, "Internal")
             \/ /\ "KT" \in RegSym          \* FindSecretKey(kt), HKDFDeriveAES
                /\ \/ Return(w, "Unknown")   \* or WrapAES fails
                   \/ Return(w, "OK")
    /\ UNCHANGED <<op, args, stage, kp, cert>>

(* VerifySession: look up KCAPriv, then FindPrivateKey. *)
VerifySession(w) ==
    /\ Running(w, "VerifySession")
    /\ \/ /\ "KCAPriv" \notin RegPriv
          /\ Return(w, "Internal")
          /\ UNCHANGED touched
       \/ /\ "KCAPriv" \in RegPriv
          /\ Touch(w)
          /\ \/ Return(w, "Internal")        \* FindPrivateKey fails
             \/ Return(w, "OK")
    /\ UNCHANGED <<op, args, stage, kp, cert>>

(* GenerateRandom: one HSM call, its error returned as it is. *)
GenerateRandom(w) ==
    /\ Running(w, "GenerateRandom")
    /\ Touch(w)
    /\ Return(w, "Unknown") \/ Return(w, "OK")
    /\ UNCHANGED <<op, args, stage, kp, cert>>

(* GenerateKeyPairAndCert, the preamble: look up KCAPriv, FindPrivateKey,  *)
(* Signer, look up KG, FindSecretKey; every error is Internal.             *)
GenKeyPairPreamble(w) ==
    /\ Running(w, "GenerateKeyPairAndCert")
    /\ stage[w] = "pre"
    /\ \/ /\ "KCAPriv" \notin RegPriv
          /\ Return(w, "Internal")
          /\ UNCHANGED <<touched, stage>>
       \/ /\ "KCAPriv" \in RegPriv
          /\ Touch(w)
          /\ \/ /\ Return(w, "Internal")     \* FindPrivateKey or Signer fails,
                /\ UNCHANGED stage           \* KG missing, FindSecretKey fails
             \/ /\ "KG" \in RegSym
                /\ stage' = [stage EXCEPT ![w] = "loop"]
                /\ UNCHANGED <<poolVars, resp>>
    /\ UNCHANGED <<op, args, kp, cert>>

(* GenerateKeyPairAndCert, one iteration of the loop over params:          *)
(* GenerateRSA or GenerateECDSA; ExportKey of the public key; WrapAES of   *)
(* the private key under KG; signer.CreateCertificate; then                *)
(* DestroyKeyPairObject, whose error is ignored.  An error after the key   *)
(* pair exists returns at once, without destroying it.  With no params     *)
(* left the operation returns the certificates.                            *)
GenKeyPairStep(w) ==
    /\ Running(w, "GenerateKeyPairAndCert")
    /\ stage[w] = "loop"
    /\ \/ /\ args[w] = <<>>
          /\ Return(w, "OK")
          /\ UNCHANGED <<args, kp, touched>>
       \/ /\ args[w] # <<>>
          /\ Touch(w)
          /\ \/ /\ Return(w, "Unknown")      \* GenerateRSA / GenerateECDSA fails
                /\ UNCHANGED <<args, kp>>
             \/ /\ Return(w, "Unknown")      \* ExportKey, WrapAES or
                /\ kp' = [kp EXCEPT ![w] = @ + 1]  \* CreateCertificate fails
                /\ UNCHANGED args
             \/ /\ args' = [args EXCEPT ![w] = Tail(@)]
                /\ \/ UNCHANGED kp                 \* destroyed
                   \/ kp' = [kp EXCEPT ![w] = @ + 1] \* destroy failed, ignored
                /\ UNCHANGED <<poolVars, resp>>
    /\ UNCHANGED <<op, stage, cert>>

\* Mutant: the loop over params does not advance.
GenSymmetricKeyStepStuck(w) ==
    /\ Running(w, "GenerateSymmetricKeys")
    /\ \/ /\ args[w] = <<>>
          /\ Return(w, "OK")
          /\ UNCHANGED <<args, touched>>
       \/ /\ args[w] # <<>>
          /\ Head(args[w]).seed \in RegSym
          /\ Touch(w)
          /\ UNCHANGED <<args, poolVars, resp>>
    /\ UNCHANGED <<op, stage, kp, cert>>

(* GenerateSymmetricKeys, one iteration of the loop over params: look up   *)
(* HighSecKdfSeed or LowSecKdfSeed, FindSecretKey, HKDFDeriveAES,          *)
(* ExportKey, check the exported key is an AESKey, hash it in place for    *)
(* HashedOtLcToken; every error is Internal.                               *)
GenSymmetricKeyStep(w) ==
    /\ Running(w, "GenerateSymmetricKeys")
    /\ \/ /\ args[w] = <<>>
          /\ Return(w, "OK")
          /\ UNCHANGED <<args, touched>>
       \/ /\ args[w] # <<>>
          /\ Head(args[w]).seed \notin RegSym
          /\ Return(w, "Internal")
          /\ UNCHANGED <<args, touched>>
       \/ /\ args[w] # <<>>
          /\ Head(args[w]).seed \in RegSym
          /\ Touch(w)
          /\ \/ /\ Return(w, "Internal")     \* an HSM call fails, or the
                /\ UNCHANGED args            \* key is not an AESKey
             \/ /\ args' = [args EXCEPT ![w] = Tail(@)]
                /\ UNCHANGED <<poolVars, resp>>
    /\ UNCHANGED <<op, stage, kp, cert>>

(* EndorseCert: getKeyIDByLabel (FindKeyByLabel, UID, nil check),          *)
(* FindPrivateKey, hashFromSignatureAlgorithm, SignECDSA, asn1.Marshal of  *)
(* the signature, oidFromSignatureAlgorithm, asn1.Marshal of the cert.     *)
(* Every error is Internal.  The two Marshal calls cannot fail on these    *)
(* values (big integers, a RawValue with FullBytes).                       *)
EndorseCert(w) ==
    /\ Running(w, "EndorseCert")
    /\ LET a == Head(args[w])
       IN  /\ Touch(w)
           /\ \/ /\ Return(w, "Internal")   \* FindKeyByLabel, UID or
                 /\ UNCHANGED cert          \* FindPrivateKey fails
              \/ /\ a.label \in HsmPrivLabels
                 /\ a.alg \notin DOMAIN hashFromSignatureAlgorithm
                 /\ Return(w, "Internal")
                 /\ UNCHANGED cert
              \/ /\ a.label \in HsmPrivLabels
                 /\ a.alg \in DOMAIN hashFromSignatureAlgorithm
                 /\ \/ /\ Return(w, "Internal")   \* SignECDSA fails
                       /\ UNCHANGED cert
                    \/ /\ Return(w, "OK")   \* oidFromSignatureAlgorithm has the
                       /\ cert' = [cert EXCEPT ![w] =  \* cases of the hash switch
                            [hash |-> hashFromSignatureAlgorithm[a.alg],
                             oid  |-> oidFromSignatureAlgorithm[a.alg]]]
    /\ UNCHANGED <<op, args, stage, kp>>

-----------------------------------------------------------------------------
\* Steps of goroutine w between getHandle and the end of release().
Serve(w) ==
    \/ DeriveAndWrapTransportSecret(w)
    \/ VerifySession(w)
    \/ GenerateRandom(w)
    \/ GenKeyPairPreamble(w)
    \/ GenKeyPairStep(w)
    \/ GenSymmetricKeyStep(w)
    \/ EndorseCert(w)
    \/ SQ!Release(w) /\ UNCHANGED opVars

Next == (\E w \in Workers : Request(w) \/ Serve(w)) /\ UNCHANGED regVars

(* Goroutines that hold a session are scheduled and their HSM calls       *)
(* return; requests need not arrive.                                       *)
Fairness == \A w \in Workers : WF_vars(Serve(w) /\ UNCHANGED regVars)

Spec == Init /\ [][Next]_vars
FairSpec == Spec /\ Fairness

-----------------------------------------------------------------------------
TypeOK ==
    /\ SQ!TypeOK
    /\ op \in [Workers -> Ops \cup {"none"}]
    /\ stage \in [Workers -> {"pre", "loop"}]
    /\ kp \in [Workers -> Nat]
    /\ touched \in [Workers -> BOOLEAN]
    /\ resp \in [Workers -> {"none", "OK", "Internal", "Unknown"}]

(* Every request that obtained a session, or is waiting for one, returns  *)
(* a status and gives its session back, given that goroutines holding a   *)
(* session are scheduled: no operation loops forever on its params and    *)
(* no waiter starves behind others.                                        *)
RequestCompletes ==
    \A w \in Workers :
        pc[w] \in {"blocked", "cmd"} ~> (pc[w] = "idle" /\ resp[w] # "none")

(* RFC 5758, section 3.2: the OID of ECDSA with each SHA-2 hash.           *)
RFC5758 ==
    [h \in {"SHA256", "SHA384", "SHA512"} |->
        <<1, 2, 840, 10045, 4, 3, CASE h = "SHA256" -> 2
                                    [] h = "SHA384" -> 3
                                    [] h = "SHA512" -> 4>>]

(* EndorseCert (spec 4.3.4, scenario S6): a certificate returned with OK   *)
(* names in signatureAlgorithm the OID of the hash the HSM signed with;    *)
(* the two switches, hashFromSignatureAlgorithm and                        *)
(* oidFromSignatureAlgorithm, agree.                                       *)
EndorsedCertConsistent ==
    \A w \in Workers :
        op[w] = "EndorseCert" /\ resp[w] = "OK" =>
            /\ cert[w].hash \in DOMAIN RFC5758
            /\ cert[w].oid = RFC5758[cert[w].hash]

(* Algorithm gate (spec 8, property 8; section 7): EndorseCert with a      *)
(* SignatureAlgorithm outside the three ECDSA ones fails with an input     *)
(* error (invalid-argument) without touching the HSM.                      *)
AlgorithmGate ==
    \A w \in Workers :
        /\ op[w] = "EndorseCert"
        /\ resp[w] # "none"
        /\ Head(args[w]).alg \notin DOMAIN hashFromSignatureAlgorithm
        => resp[w] = "InvalidArgument" /\ ~touched[w]

(* Spec section 3: the key pairs GenerateKeyPairAndCert creates on the     *)
(* HSM are destroyed before the operation returns, on every path.          *)
KeyPairsDestroyed ==
    \A w \in Workers :
        op[w] = "GenerateKeyPairAndCert" /\ resp[w] # "none" => kp[w] = 0

=============================================================================
