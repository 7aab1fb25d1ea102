-------------------------------- MODULE NewHSM --------------------------------
(***************************************************************************)
(* Construction of the SPM's HSM (src/unnamed/part_002): NewHSM calls       *)
(* openSessions, which loads the PKCS#11 module, lists the tokens, checks  *)
(* the slot, then opens, logs in and enqueues NumSessions sessions; NewHSM *)
(* then takes a session with getHandle and resolves the configured key     *)
(* labels with getKeyIDByLabel.  One goroutine runs it; every PKCS#11 call *)
(* may fail.  The outcome is "ready", "error" (an error returned), "panic" *)
(* (Go index out of range) or a goroutine blocked for good in getHandle.   *)
(***************************************************************************)
EXTENDS Integers, FiniteSets

CONSTANTS
    Slots,        \* HSMConfig.SlotID values to try
    TokenCounts,  \* numbers of tokens mod.Tokens() may return
    SessionNums,  \* HSMConfig.NumSessions values to try
    SymLabels,    \* labels HSMConfig.SymmetricKeys may list
    PrivLabels    \* labels HSMConfig.PrivateKeys may list

ASSUME NewHSMAssumption ==
    /\ Slots \subseteq Int
    /\ TokenCounts \subseteq Nat
    /\ SessionNums \subseteq Nat
    /\ IsFiniteSet(SymLabels) /\ IsFiniteSet(PrivLabels)
    /\ SymLabels \cap PrivLabels = {}

\* A session of the slot, from opening to its end.
SessState == {"none", "open", "loggedin", "closed"}

VARIABLES
    cfg,      \* the HSMConfig and what the HSM reports: slot, ntoks, num, sym, priv
    phase,    \* where NewHSM is
    i,        \* the loop counter of openSessions
    sess,     \* state of sessions 1..NumSessions of the slot, by opening order
    queued,   \* len(q.s): sessions 1..queued are in the channel
    symLeft,  \* configured symmetric labels not resolved yet
    privLeft, \* configured private labels not resolved yet
    reg       \* labels resolved into hsm.SymmetricKeys and hsm.PrivateKeys

vars == <<cfg, phase, i, sess, queued, symLeft, privLeft, reg>>

Configs == [slot : Slots, ntoks : TokenCounts, num : SessionNums,
            sym : SUBSET SymLabels, priv : SUBSET PrivLabels]

\* The sessions opened so far that have not been closed.
OpenSessions == {k \in 1..cfg.num : sess[k] \in {"open", "loggedin"}}

-----------------------------------------------------------------------------
Init ==
    /\ cfg \in Configs
    /\ phase = "load"
    /\ i = 0
    /\ sess = [k \in 1..cfg.num |-> "none"]
    /\ queued = 0
    /\ symLeft = cfg.sym
    /\ privLeft = cfg.priv
    /\ reg = {}

\* An error is returned; what the goroutine has opened stays as it is.
Fail == phase' = "error"

(* openSessions: pk11.Load, mod.Tokens(), then the slot check             *)
(* tokSlot >= len(toks).  A negative slot passes it and toks[tokSlot]     *)
(* panics when the first session is opened.                               *)
LoadTokens ==
    /\ phase = "load"
    /\ \/ Fail                                   \* Load or Tokens fails
       \/ /\ cfg.slot >= cfg.ntoks
          /\ Fail
       \/ /\ cfg.slot < cfg.ntoks
          /\ phase' = "open"
    /\ UNCHANGED <<cfg, i, sess, queued, symLeft, privLeft, reg>>

(* The loop of openSessions, OpenSession: index the token, open session i. *)
OpenSession ==
    /\ phase = "open"
    /\ i < cfg.num
    /\ \/ /\ cfg.slot < 0
          /\ phase' = "panic"
          /\ UNCHANGED sess
       \/ /\ cfg.slot >= 0
          /\ \/ /\ Fail
                /\ UNCHANGED sess
             \/ /\ sess' = [sess EXCEPT ![i + 1] = "open"]
                /\ phase' = "login"
    /\ UNCHANGED <<cfg, i, queued, symLeft, privLeft, reg>>

(* s.Login(pk11.NormalUser, hsmPW). *)
Login ==
    /\ phase = "login"
    /\ \/ /\ Fail
          /\ UNCHANGED sess
       \/ /\ sess' = [sess EXCEPT ![i + 1] = "loggedin"]
          /\ phase' = "insert"
    /\ UNCHANGED <<cfg, i, queued, symLeft, privLeft, reg>>

(* sessions.insert(s): the capacity check, then the send; then i++.        *)
InsertSession ==
    /\ phase = "insert"
    /\ IF queued >= cfg.num
         THEN /\ Fail
              /\ UNCHANGED <<queued, i>>
         ELSE /\ queued' = queued + 1
              /\ i' = i + 1
              /\ phase' = "open"
    /\ UNCHANGED <<cfg, sess, symLeft, privLeft, reg>>

\* Mutant: the loop of openSessions stops one session early.
GetHandleEarly ==
    /\ phase = "open"
    /\ i >= cfg.num - 1
    /\ queued > 0
    /\ queued' = queued - 1
    /\ phase' = "registry"
    /\ UNCHANGED <<cfg, i, sess, symLeft, privLeft, reg>>

(* The loop ends; NewHSM then runs getHandle, which receives from the      *)
(* channel and blocks for good when it is empty.                           *)
GetHandle ==
    /\ phase = "open"
    /\ i >= cfg.num
    /\ queued > 0
    /\ queued' = queued - 1
    /\ phase' = "registry"
    /\ UNCHANGED <<cfg, i, sess, symLeft, privLeft, reg>>

(* The loops over cfg.SymmetricKeys, then cfg.PrivateKeys: getKeyIDByLabel *)
(* (FindKeyByLabel, UID, a nil check) for one label; an error ends NewHSM. *)
(* The deferred release puts the session back on every return.             *)
Resolve ==
    /\ phase = "registry"
    /\ \E l \in IF symLeft # {} THEN symLeft ELSE privLeft :
          \/ /\ phase' = "error"
             /\ queued' = queued + 1
             /\ UNCHANGED <<symLeft, privLeft, reg>>
          \/ /\ reg' = reg \cup {l}
             /\ symLeft' = symLeft \ {l}
             /\ privLeft' = privLeft \ {l}
             /\ UNCHANGED <<phase, queued>>
    /\ UNCHANGED <<cfg, i, sess>>

\* Both loops are done: release() runs and NewHSM returns hsm.
Ready ==
    /\ phase = "registry"
    /\ symLeft = {} /\ privLeft = {}
    /\ phase' = "ready"
    /\ queued' = queued + 1
    /\ UNCHANGED <<cfg, i, sess, symLeft, privLeft, reg>>

Next == LoadTokens \/ OpenSession \/ Login \/ InsertSession \/ GetHandle
          \/ Resolve \/ Ready

(* NewHSM runs on one goroutine that the scheduler keeps running.          *)
Spec == Init /\ [][Next]_vars /\ WF_vars(Next)

-----------------------------------------------------------------------------
TypeOK ==
    /\ cfg \in Configs
    /\ phase \in {"load", "open", "login", "insert", "registry",
                  "ready", "error", "panic"}
    /\ i \in 0..cfg.num
    /\ sess \in [1..cfg.num -> SessState]
    /\ queued \in 0..cfg.num
    /\ reg \subseteq SymLabels \cup PrivLabels

(* A ready HSM has what every operation assumes (spec sections 3 and 4.1): *)
(* NumSessions sessions, each logged in and in the channel, and every      *)
(* configured label in the registry.  This is SessionQueue's and SPM's     *)
(* Init.                                                                    *)
ReadyIsComplete ==
    phase = "ready" =>
        /\ queued = cfg.num
        /\ \A k \in 1..queued : sess[k] = "loggedin"
        /\ reg = cfg.sym \cup cfg.priv

(* Spec section 4.1: when construction fails, the sessions already opened  *)
(* are closed.                                                              *)
FailureClosesSessions ==
    phase = "error" => OpenSessions = {}

(* Spec sections 4.1 and 7: a slot index out of range is a configuration   *)
(* error returned by construction, never a crash.                          *)
NoPanic == phase # "panic"

(* Spec section 7: construction either succeeds or returns an error; it    *)
(* does not wait for ever.                                                  *)
NewHSMReturns == <>(phase \in {"ready", "error", "panic"})

(***************************************************************************)
(* The inductive invariant behind ReadyIsComplete, as named parts (proved  *)
(* in NewHSMProofs).                                                        *)
(***************************************************************************)
\* In the open loop, sessions 1..i are logged in and queued; session i+1
\* is being opened, logged in and inserted.
LoopState ==
    /\ phase = "load" => i = 0 /\ queued = 0
    /\ phase \in {"open", "login", "insert"} =>
          /\ queued = i
          /\ \A k \in 1..i : sess[k] = "loggedin"
    /\ phase = "login" => i < cfg.num /\ sess[i + 1] = "open"
    /\ phase = "insert" => i < cfg.num /\ sess[i + 1] = "loggedin"

\* After the loop every session is logged in; getHandle holds one of them
\* until the return; a returned HSM has resolved every label.
HeldState ==
    /\ phase \in {"registry", "ready"} =>
        /\ \A k \in 1..cfg.num : sess[k] = "loggedin"
        /\ queued = IF phase = "registry" THEN cfg.num - 1 ELSE cfg.num
    /\ phase = "ready" => symLeft = {} /\ privLeft = {}

\* Every configured label is resolved or still to be resolved.
LabelsAccounted ==
    /\ symLeft \subseteq cfg.sym
    /\ privLeft \subseteq cfg.priv
    /\ reg \cup symLeft \cup privLeft = cfg.sym \cup cfg.priv

IInv == TypeOK /\ LoopState /\ HeldState /\ LabelsAccounted

=============================================================================
