------------------------------ MODULE NewHSMProofs ------------------------------
(***************************************************************************)
(* Proof that an HSM returned by NewHSM is complete, for every             *)
(* configuration: any slot, token count, NumSessions and label sets.       *)
(***************************************************************************)
EXTENDS NewHSM, TLAPS

USE NewHSMAssumption

LEMMA InitIInv == Init => IInv
<1> SUFFICES ASSUME Init PROVE IInv
    OBVIOUS
<1>1. cfg \in Configs /\ cfg.num \in Nat
    BY DEF Init, Configs
<1>2. TypeOK
    BY <1>1 DEF Init, TypeOK, SessState
<1>3. LoopState /\ HeldState
    BY DEF Init, LoopState, HeldState
<1>4. LabelsAccounted
    BY <1>1 DEF Init, LabelsAccounted, Configs
<1>. QED
    BY <1>2, <1>3, <1>4 DEF IInv

LEMMA NextIInv == IInv /\ [Next]_vars => IInv'
<1> SUFFICES ASSUME IInv, [Next]_vars PROVE IInv'
    OBVIOUS
<1> USE DEF IInv
<1>0. cfg \in Configs /\ cfg.num \in Nat
    BY DEF TypeOK, Configs
<1>1. CASE LoadTokens
    BY <1>0, <1>1 DEF LoadTokens, Fail, TypeOK, LoopState, HeldState,
       LabelsAccounted
<1>2. CASE OpenSession
    BY <1>0, <1>2 DEF OpenSession, Fail, TypeOK, LoopState, HeldState,
       LabelsAccounted, SessState
<1>3. CASE Login
    BY <1>0, <1>3 DEF Login, Fail, TypeOK, LoopState, HeldState,
       LabelsAccounted, SessState
<1>4. CASE InsertSession
    BY <1>0, <1>4 DEF InsertSession, Fail, TypeOK, LoopState, HeldState,
       LabelsAccounted
<1>5. CASE GetHandle
    BY <1>0, <1>5 DEF GetHandle, TypeOK, LoopState, HeldState,
       LabelsAccounted
<1>6. CASE Resolve
    <2>1. PICK l \in symLeft \cup privLeft :
             /\ phase = "registry"
             /\ \/ /\ phase' = "error"
                   /\ queued' = queued + 1
                   /\ UNCHANGED <<symLeft, privLeft, reg>>
                \/ /\ reg' = reg \cup {l}
                   /\ symLeft' = symLeft \ {l}
                   /\ privLeft' = privLeft \ {l}
                   /\ UNCHANGED <<phase, queued>>
             /\ UNCHANGED <<cfg, i, sess>>
        BY <1>6 DEF Resolve
    <2>2. CASE phase' = "error"
        BY <1>0, <2>1, <2>2 DEF TypeOK, LoopState, HeldState, LabelsAccounted
    <2>3. CASE phase' # "error"
        <3>1. /\ reg' = reg \cup {l}
              /\ symLeft' = symLeft \ {l}
              /\ privLeft' = privLeft \ {l}
              /\ UNCHANGED <<phase, queued, cfg, i, sess>>
            BY <2>1, <2>3
        <3>2. l \in cfg.sym \cup cfg.priv /\ cfg.sym \cup cfg.priv \subseteq SymLabels \cup PrivLabels
            BY <1>0, <2>1 DEF LabelsAccounted, Configs
        <3>3. TypeOK'
            BY <1>0, <3>1, <3>2 DEF TypeOK
        <3>4. LabelsAccounted'
            BY <2>1, <3>1 DEF LabelsAccounted
        <3>5. (LoopState /\ HeldState)'
            BY <2>1, <3>1 DEF LoopState, HeldState
        <3>. QED
            BY <3>3, <3>4, <3>5
    <2>. QED
        BY <2>2, <2>3
<1>7. CASE Ready
    BY <1>0, <1>7 DEF Ready, TypeOK, LoopState, HeldState,
       LabelsAccounted
<1>8. CASE UNCHANGED vars
    BY <1>0, <1>8 DEF vars, TypeOK, LoopState, HeldState, LabelsAccounted
<1>. QED
    BY <1>1, <1>2, <1>3, <1>4, <1>5, <1>6, <1>7, <1>8 DEF Next

(* NewHSM returns an HSM only with NumSessions logged-in sessions in its   *)
(* queue and every configured label in its registry, for any              *)
(* configuration: the state every HSM operation starts from.              *)
THEOREM ReadyComplete == Spec => []ReadyIsComplete
<1>1. IInv => ReadyIsComplete
    BY DEF IInv, TypeOK, HeldState, LabelsAccounted, ReadyIsComplete
<1>. QED
    BY InitIInv, NextIInv, <1>1, PTL DEF Spec
=============================================================================
