---------------------------- MODULE ReleaseHandle ----------------------------
(***************************************************************************)
(* The release function getHandle returns (src/unnamed/part_002 lines     *)
(* 65-71) is a closure over the session it handed out, and nothing stops  *)
(* its caller from calling it again.  This module adds to SessionQueue     *)
(* the handle each goroutine last obtained and a second call of its       *)
(* release: the question of spec section 8, property 2.                  *)
(***************************************************************************)
EXTENDS SessionQueue

VARIABLE
    handle  \* the session the release closure of each goroutine captured

hvars == <<vars, handle>>

HInit == Init /\ handle = [w \in Workers |-> NoSession]

(* release() called a second time by a goroutine that already released:   *)
(* the closure runs q.insert(s) again on the same s, whose only check is   *)
(* the capacity one.  A goroutine calls it at most once more.              *)
ReleaseAgain(w) ==
    /\ pc[w] = "idle"
    /\ handle[w] # NoSession
    /\ pc' = [pc EXCEPT ![w] = "insert"]
    /\ sess' = [sess EXCEPT ![w] = handle[w]]
    /\ handle' = [handle EXCEPT ![w] = NoSession]
    /\ UNCHANGED <<buf, recvq>>

(* getHandle returns the received session with its closure: s := <-q.s,   *)
(* from the buffer or handed over by a sender.                             *)
HNext ==
    \E w \in Workers :
        \/ Receive(w) /\ handle' = [handle EXCEPT ![w] = Head(buf)]
        \/ SendHandoff(w) /\ handle' = [handle EXCEPT ![Head(recvq)] = sess[w]]
        \/ (Block(w) \/ Cmd(w) \/ Insert(w) \/ SendBuffer(w)) /\ UNCHANGED handle
        \/ ReleaseAgain(w)

HSpec == HInit /\ [][HNext]_hvars

(* No double release (spec section 8, property 2): calling release twice  *)
(* on the same handle never inflates the pool beyond N, so the queued     *)
(* sessions and those loaned to running operations never exceed N.        *)
CapacityNotInflated ==
    Len(buf) + Cardinality({w \in Workers : pc[w] = "cmd"}) <= numSessions

=============================================================================
