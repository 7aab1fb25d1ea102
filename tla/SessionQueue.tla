---------------------------- MODULE SessionQueue ----------------------------
(***************************************************************************)
(* The HSM session queue of the SPM (type sessionQueue, src/unnamed/       *)
(* part_002): a Go channel of capacity numSessions that holds the          *)
(* logged-in PKCS#11 sessions, shared by the goroutines that serve RPCs.   *)
(* Every operation of the HSM type runs                                    *)
(*     session, release := h.sessions.getHandle(); defer release()         *)
(* and then issues its HSM calls on that session (ExecuteCmd).             *)
(*                                                                         *)
(* The channel is modelled with the Go runtime's semantics: a buffer buf   *)
(* (FIFO of sessions) and a queue recvq of goroutines blocked in a         *)
(* receive; a send to a channel with a blocked receiver hands the value    *)
(* directly to the first one.  release() is insert(s), whose capacity      *)
(* check and send are two separate steps, and whose error is ignored.      *)
(***************************************************************************)
EXTENDS Naturals, Sequences, FiniteSets, Functions

CONSTANTS
    Sessions,   \* the sessions opened by openSessions (numSessions of them)
    Workers,    \* goroutines that serve RPCs and borrow sessions
    NoSession   \* "no session held"

ASSUME SessionQueueAssumption ==
    /\ IsFiniteSet(Sessions)
    /\ Sessions # {}
    /\ NoSession \notin Sessions

\* q.numSessions: openSessions opens and inserts exactly this many sessions.
numSessions == Cardinality(Sessions)

VARIABLES
    buf,    \* the channel buffer q.s: a FIFO of sessions
    recvq,  \* goroutines blocked in <-q.s, in arrival order
    pc,     \* where each goroutine is
    sess    \* the session each goroutine holds (the variable s of getHandle)

vars == <<buf, recvq, pc, sess>>

\* "idle": between requests; "blocked": waiting in <-q.s; "cmd": holds a
\* session and runs its HSM calls; "insert": release() is checking the
\* capacity; "send": release() is executing q.s <- s.
PC == {"idle", "blocked", "cmd", "insert", "send"}

\* The goroutine holds a session from the queue (between getHandle and the
\* end of release).
Holds(w) == pc[w] \in {"cmd", "insert", "send"}

-----------------------------------------------------------------------------
(* The queue after openSessions: every session opened, logged in and        *)
(* inserted once, in the order they were opened.                            *)
Init ==
    /\ buf \in {f \in [1..numSessions -> Sessions] : Range(f) = Sessions}
    /\ recvq = <<>>
    /\ pc = [w \in Workers |-> "idle"]
    /\ sess = [w \in Workers |-> NoSession]

\* Mutant: a receive that reads the buffer's head without removing it.
ReceivePeek(w) ==
    /\ pc[w] = "idle"
    /\ buf # <<>>
    /\ sess' = [sess EXCEPT ![w] = Head(buf)]
    /\ pc' = [pc EXCEPT ![w] = "cmd"]
    /\ UNCHANGED <<buf, recvq>>

\* getHandle, s := <-q.s with a session in the buffer: take the oldest.
Receive(w) ==
    /\ pc[w] = "idle"
    /\ buf # <<>>
    /\ sess' = [sess EXCEPT ![w] = Head(buf)]
    /\ buf' = Tail(buf)
    /\ pc' = [pc EXCEPT ![w] = "cmd"]
    /\ UNCHANGED recvq

\* Mutant: blocked receivers served last-come first-served.
BlockLifo(w) ==
    /\ pc[w] = "idle"
    /\ buf = <<>>
    /\ recvq' = <<w>> \o recvq
    /\ pc' = [pc EXCEPT ![w] = "blocked"]
    /\ UNCHANGED <<buf, sess>>

\* getHandle, s := <-q.s on an empty buffer: the goroutine parks in recvq.
Block(w) ==
    /\ pc[w] = "idle"
    /\ buf = <<>>
    /\ recvq' = Append(recvq, w)
    /\ pc' = [pc EXCEPT ![w] = "blocked"]
    /\ UNCHANGED <<buf, sess>>

\* cmd(session): the HSM calls of the operation, ending with success or an
\* error; either way the deferred release() runs next.
Cmd(w) ==
    /\ pc[w] = "cmd"
    /\ pc' = [pc EXCEPT ![w] = "insert"]
    /\ UNCHANGED <<buf, recvq, sess>>

\* insert, the capacity check: if len(q.s) >= q.numSessions it returns an
\* error, which release() drops, so the session is lost to the pool.
Insert(w) ==
    /\ pc[w] = "insert"
    /\ IF Len(buf) >= numSessions
         THEN /\ pc' = [pc EXCEPT ![w] = "idle"]
              /\ sess' = [sess EXCEPT ![w] = NoSession]
         ELSE /\ pc' = [pc EXCEPT ![w] = "send"]
              /\ UNCHANGED sess
    /\ UNCHANGED <<buf, recvq>>

\* insert, q.s <- s with a goroutine blocked in receive: the session is
\* handed directly to the first one, which resumes holding it.
SendHandoff(w) ==
    /\ pc[w] = "send"
    /\ recvq # <<>>
    /\ LET r == Head(recvq)
       IN  /\ sess' = [sess EXCEPT ![r] = sess[w], ![w] = NoSession]
           /\ pc' = [pc EXCEPT ![r] = "cmd", ![w] = "idle"]
    /\ recvq' = Tail(recvq)
    /\ UNCHANGED buf

\* insert, q.s <- s with no receiver waiting: the session goes to the back
\* of the buffer (a send on a full channel would block).
SendBuffer(w) ==
    /\ pc[w] = "send"
    /\ recvq = <<>>
    /\ Len(buf) < numSessions
    /\ buf' = Append(buf, sess[w])
    /\ pc' = [pc EXCEPT ![w] = "idle"]
    /\ sess' = [sess EXCEPT ![w] = NoSession]
    /\ UNCHANGED recvq

\* The steps of release(), which the deferred call always completes.
Release(w) == Insert(w) \/ SendHandoff(w) \/ SendBuffer(w)

Next ==
    \E w \in Workers :
        \/ Receive(w) \/ Block(w)
        \/ Cmd(w)
        \/ Release(w)

(* A goroutine that holds a session is scheduled until it has released it *)
(* (the Go scheduler runs every runnable goroutine), and its HSM calls     *)
(* return.  New requests (Receive, Block from "idle") need not arrive.     *)
Fairness == \A w \in Workers : WF_vars(Cmd(w) \/ Release(w))

Spec == Init /\ [][Next]_vars
FairSpec == Spec /\ Fairness

-----------------------------------------------------------------------------
TypeOK ==
    /\ buf \in Seq(Sessions)
    /\ recvq \in Seq(Workers)
    /\ pc \in [Workers -> PC]
    /\ sess \in [Workers -> Sessions \cup {NoSession}]

(* Pool conservation (spec section 8, property 1: held + queued = N):     *)
(* under every interleaving of getHandle and release, each session is at  *)
(* any instant either queued exactly once or held by exactly one          *)
(* goroutine.  A session lost by a dropped insert error, queued twice, or *)
(* loaned to two goroutines breaks it.  Property 2 (release called twice) *)
(* is the ReleaseHandle module's question.                                *)
SessionsConserved ==
    \A s \in Sessions :
        Cardinality({i \in DOMAIN buf : buf[i] = s})
          + Cardinality({w \in Workers : Holds(w) /\ sess[w] = s}) = 1

(* The error of insert ("Reached maximum session queue capacity."), which  *)
(* release() ignores, is never reached: whenever a goroutine checks the    *)
(* capacity in release(), the channel has room for its session.            *)
InsertNeverRejected ==
    \A w \in Workers : pc[w] = "insert" => Len(buf) < numSessions

(***************************************************************************)
(* The inductive invariant behind SessionsConserved, as named parts         *)
(* (proved in SessionQueueProofs).                                          *)
(***************************************************************************)
\* The buffer holds no session twice.
QueuedOnce == IsInjective(buf)

\* A session held by a goroutine is not also in the buffer.
HeldNotQueued ==
    \A w \in Workers : Holds(w) => sess[w] \in Sessions /\ sess[w] \notin Range(buf)

\* No session is held by two goroutines.
LoansExclusive ==
    \A v, w \in Workers : v # w /\ Holds(v) /\ Holds(w) => sess[v] # sess[w]

\* Every session is in the buffer or held.
NoneLost ==
    \A s \in Sessions : s \in Range(buf) \/ \E w \in Workers : Holds(w) /\ sess[w] = s

\* recvq lists exactly the blocked goroutines, each once.
BlockedQueued ==
    /\ IsInjective(recvq)
    /\ \A w \in Workers : pc[w] = "blocked" <=> w \in Range(recvq)

IInv ==
    /\ TypeOK
    /\ QueuedOnce
    /\ HeldNotQueued
    /\ LoansExclusive
    /\ NoneLost
    /\ BlockedQueued

(***************************************************************************)
(* The refinement mapping to SessionPool: a goroutine owns its session     *)
(* from getHandle until release() has passed the capacity check.  In       *)
(* "send" the session is on its way back and counts as free, so a direct   *)
(* hand-off to a blocked receiver is that receiver's acquire.              *)
(***************************************************************************)
poolOwner ==
    [w \in Workers |-> IF pc[w] \in {"cmd", "insert"} THEN sess[w] ELSE NoSession]

Pool == INSTANCE SessionPool WITH owner <- poolOwner

(* No starvation in getHandle: a goroutine blocked waiting for a session   *)
(* eventually holds one, given that holders finish their HSM calls.  This  *)
(* rests on the FIFO hand-off of the channel to blocked receivers.         *)
WaiterServed ==
    \A w \in Workers : pc[w] = "blocked" ~> pc[w] = "cmd"

=============================================================================
