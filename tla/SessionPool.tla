----------------------------- MODULE SessionPool -----------------------------
(***************************************************************************)
(* What the session pool promises (spec section 4.1), without the channel: *)
(* a goroutine acquires a session nobody holds and later releases it.      *)
(* Waiting, the buffer's order and the two steps of insert are details of  *)
(* the implementation, SessionQueue, which refines this specification.    *)
(***************************************************************************)
EXTENDS FiniteSets

CONSTANTS Sessions, Workers, NoSession

VARIABLE owner  \* the session each goroutine holds, or NoSession

\* Sessions no goroutine holds.
Free == Sessions \ {owner[w] : w \in Workers}

Init == owner = [w \in Workers |-> NoSession]

\* acquire: take any session nobody holds.
Acquire(w) ==
    /\ owner[w] = NoSession
    /\ \E s \in Free : owner' = [owner EXCEPT ![w] = s]

\* release: give the session back.
Release(w) ==
    /\ owner[w] # NoSession
    /\ owner' = [owner EXCEPT ![w] = NoSession]

Next == \E w \in Workers : Acquire(w) \/ Release(w)

\* A holder eventually releases (the release discipline of spec 4.1).
Spec == Init /\ [][Next]_owner
FairSpec == Spec /\ \A w \in Workers : WF_owner(Release(w))

=============================================================================
