------------------------- MODULE SessionQueueProofs -------------------------
(***************************************************************************)
(* Proofs about the session queue for every number of sessions and         *)
(* goroutines: the type invariant, the inductive invariant IInv, and from  *)
(* it pool conservation (SessionsConserved) and the unreachability of the  *)
(* ignored insert error (InsertNeverRejected).                             *)
(***************************************************************************)
EXTENDS SessionQueue, FiniteSetTheorems, TLAPS

USE SessionQueueAssumption

(***************************************************************************)
(* A sequence of distinct sessions that misses some session s is shorter   *)
(* than the number of sessions: the channel has room for s.                *)
(***************************************************************************)
LEMMA QueueRoom ==
    ASSUME NEW b \in Seq(Sessions), IsInjective(b),
           NEW s \in Sessions, s \notin Range(b)
    PROVE  Len(b) < numSessions
<1>1. b \in Injection(1..Len(b), Sessions \ {s})
    BY DEF Injection, IsInjective, Range
<1>2. IsFiniteSet(Sessions \ {s})
      /\ Cardinality(Sessions \ {s}) = Cardinality(Sessions) - 1
    BY FS_RemoveElement
<1>3. Cardinality(1..Len(b)) <= Cardinality(Sessions \ {s})
    BY <1>1, <1>2, FS_Injection
<1>4. Cardinality(1..Len(b)) = Len(b)
    <2>1. Len(b) \in Nat /\ 1 \in Int
        OBVIOUS
    <2>2. Cardinality(1..Len(b)) = IF 1 > Len(b) THEN 0 ELSE Len(b) - 1 + 1
        BY <2>1, FS_Interval
    <2>. QED
        BY <2>1, <2>2
<1>5. Cardinality(Sessions) \in Nat
    BY FS_CardinalityType
<1>. QED
    BY <1>2, <1>3, <1>4, <1>5 DEF numSessions

(***************************************************************************)
(* Taking the head off a sequence without repetitions removes exactly the  *)
(* head from its range and leaves no repetitions.                          *)
(***************************************************************************)
LEMMA TailInjective ==
    ASSUME NEW S, NEW q \in Seq(S), q # <<>>, IsInjective(q)
    PROVE  /\ IsInjective(Tail(q))
           /\ Range(Tail(q)) = Range(q) \ {Head(q)}
           /\ Head(q) \in Range(q)
<1>1. Len(q) \in Nat \ {0} /\ Len(Tail(q)) = Len(q) - 1
      /\ DOMAIN Tail(q) = 1..Len(q) - 1 /\ DOMAIN q = 1..Len(q)
      /\ \A i \in 1..Len(q) - 1 : Tail(q)[i] = q[i + 1]
    OBVIOUS
<1>2. IsInjective(Tail(q))
    BY <1>1 DEF IsInjective
<1>3. Range(Tail(q)) \subseteq Range(q) \ {Head(q)}
    BY <1>1 DEF IsInjective, Range
<1>4. Range(q) \ {Head(q)} \subseteq Range(Tail(q))
    <2> SUFFICES ASSUME NEW j \in 1..Len(q), q[j] # Head(q)
                 PROVE  q[j] \in Range(Tail(q))
        BY DEF Range
    <2>1. j # 1 /\ j - 1 \in 1..Len(q) - 1
        BY <1>1
    <2>2. Tail(q)[j - 1] = q[j]
        BY <1>1, <2>1
    <2>. QED
        BY <1>1, <2>1, <2>2 DEF Range
<1>5. Head(q) \in Range(q)
    BY <1>1 DEF Range
<1>. QED
    BY <1>2, <1>3, <1>4, <1>5

-----------------------------------------------------------------------------
(***************************************************************************)
(* IInv is inductive.  TypeOK alone is not: SendBuffer appends sess[w] to  *)
(* the buffer, which is a session only because w holds one                *)
(* (HeldNotQueued); and the error branch of Insert is excluded only by     *)
(* QueueRoom, which needs QueuedOnce and HeldNotQueued.                    *)
(***************************************************************************)
LEMMA InitIInv == Init => IInv
<1> SUFFICES ASSUME Init PROVE IInv
    OBVIOUS
<1>1. buf \in [1..numSessions -> Sessions] /\ Range(buf) = Sessions
    BY DEF Init
<1>2. numSessions \in Nat
    BY FS_CardinalityType DEF numSessions
<1>3. IsInjective(buf)
    <2>1. buf \in Surjection(1..numSessions, Sessions)
        BY <1>1 DEF Surjection, Range
    <2>2. Cardinality(1..numSessions) = Cardinality(Sessions)
        BY <1>2, FS_Interval DEF numSessions
    <2>3. buf \in Injection(1..numSessions, Sessions)
        BY <1>2, <2>1, <2>2, FS_Interval, FS_SurjSameCardinalityImpliesInj
    <2>. QED
        BY <2>3 DEF Injection
<1>4. TypeOK
    BY <1>1, <1>2 DEF Init, TypeOK, PC
<1>5. HeldNotQueued /\ LoansExclusive /\ BlockedQueued
    BY DEF Init, HeldNotQueued, LoansExclusive, BlockedQueued, Holds, Range,
       IsInjective
<1>6. NoneLost
    BY <1>1 DEF NoneLost
<1>. QED
    BY <1>3, <1>4, <1>5, <1>6 DEF IInv, QueuedOnce

LEMMA NextIInv == IInv /\ [Next]_vars => IInv'
<1> SUFFICES ASSUME IInv, [Next]_vars PROVE IInv'
    OBVIOUS
<1> USE DEF IInv, TypeOK
<1>1. ASSUME NEW w \in Workers, Receive(w) PROVE IInv'
    <2> USE <1>1 DEF Receive
    <2>1. buf # <<>> /\ Tail(buf) \in Seq(Sessions) /\ Head(buf) \in Sessions
        OBVIOUS
    <2>2. /\ IsInjective(Tail(buf))
          /\ Range(Tail(buf)) = Range(buf) \ {Head(buf)}
          /\ Head(buf) \in Range(buf)
        BY <2>1, TailInjective DEF QueuedOnce
    <2>3. TypeOK'
        BY DEF PC
    <2>4. QueuedOnce'
        BY <2>2 DEF QueuedOnce
    <2>5. HeldNotQueued'
        BY <2>2 DEF HeldNotQueued, Holds
    <2>6. LoansExclusive'
        BY <2>2 DEF LoansExclusive, HeldNotQueued, Holds
    <2>7. NoneLost'
        BY <2>2 DEF NoneLost, Holds
    <2>8. BlockedQueued'
        BY DEF BlockedQueued
    <2>. QED
        BY <2>3, <2>4, <2>5, <2>6, <2>7, <2>8
<1>2. ASSUME NEW w \in Workers, Block(w) PROVE IInv'
    <2> USE <1>2 DEF Block
    <2>1. pc[w] = "idle" /\ w \notin Range(recvq)
        BY DEF BlockedQueued
    <2>2. Range(recvq') = Range(recvq) \cup {w}
        BY DEF Range
    <2>3. TypeOK'
        BY DEF PC
    <2>4. QueuedOnce' /\ HeldNotQueued' /\ LoansExclusive' /\ NoneLost'
        BY <2>1 DEF QueuedOnce, HeldNotQueued, LoansExclusive, NoneLost, Holds
    <2>5. IsInjective(recvq')
        BY <2>1 DEF BlockedQueued, IsInjective, Range
    <2>6. \A v \in Workers : pc'[v] = "blocked" <=> v \in Range(recvq')
        BY <2>1, <2>2 DEF BlockedQueued
    <2>. QED
        BY <2>3, <2>4, <2>5, <2>6 DEF BlockedQueued
<1>3. ASSUME NEW w \in Workers, Cmd(w) PROVE IInv'
    BY <1>3 DEF Cmd, QueuedOnce, HeldNotQueued, LoansExclusive, NoneLost,
       BlockedQueued, Holds, PC
<1>4. ASSUME NEW w \in Workers, Insert(w) PROVE IInv'
    <2>1. Len(buf) < numSessions
        BY <1>4, QueueRoom DEF Insert, HeldNotQueued, QueuedOnce, Holds
    <2>2. /\ pc' = [pc EXCEPT ![w] = "send"]
          /\ UNCHANGED <<buf, recvq, sess>>
        <3>1. numSessions \in Nat /\ Len(buf) \in Nat
            BY FS_CardinalityType DEF numSessions
        <3>. QED
            BY <1>4, <2>1, <3>1 DEF Insert
    <2>3. pc[w] = "insert" /\ Holds(w)' /\ \A v \in Workers : Holds(v)' = Holds(v)
        BY <1>4, <2>2 DEF Insert, Holds
    <2>4. TypeOK'
        BY <2>2, <2>3 DEF PC
    <2>5. QueuedOnce' /\ HeldNotQueued' /\ LoansExclusive' /\ NoneLost'
        BY <2>2, <2>3 DEF QueuedOnce, HeldNotQueued, LoansExclusive, NoneLost
    <2>6. BlockedQueued'
        BY <2>2, <2>3 DEF BlockedQueued
    <2>. QED
        BY <2>4, <2>5, <2>6
<1>5. ASSUME NEW w \in Workers, SendHandoff(w) PROVE IInv'
    <2> DEFINE r == Head(recvq)
    <2> USE <1>5 DEF SendHandoff
    <2>0. /\ IsInjective(Tail(recvq))
          /\ Range(Tail(recvq)) = Range(recvq) \ {r}
          /\ r \in Range(recvq)
        BY TailInjective DEF BlockedQueued
    <2>1. r \in Workers /\ pc[r] = "blocked" /\ r # w /\ ~Holds(r)
        BY <2>0 DEF BlockedQueued, Holds
    <2>2. Holds(w) /\ sess[w] \in Sessions /\ sess[w] \notin Range(buf)
        BY DEF Holds, HeldNotQueued
    <2>3. Range(Tail(recvq)) = Range(recvq) \ {r} /\ IsInjective(Tail(recvq))
        BY <2>0
    <2>4. TypeOK'
        <3>1. Tail(recvq) \in Seq(Workers)
            OBVIOUS
        <3>. QED
            BY <2>1, <2>2, <3>1 DEF PC
    <2>5. QueuedOnce' /\ HeldNotQueued'
        BY <2>1, <2>2 DEF QueuedOnce, HeldNotQueued, Holds
    <2>6. LoansExclusive'
        BY <2>1, <2>2 DEF LoansExclusive, Holds
    <2>7. NoneLost'
        BY <2>1, <2>2 DEF NoneLost, Holds
    <2>8. BlockedQueued'
        BY <2>1, <2>3 DEF BlockedQueued
    <2>. QED
        BY <2>4, <2>5, <2>6, <2>7, <2>8
<1>6. ASSUME NEW w \in Workers, SendBuffer(w) PROVE IInv'
    <2> USE <1>6 DEF SendBuffer
    <2>1. Holds(w) /\ sess[w] \in Sessions /\ sess[w] \notin Range(buf)
        BY DEF Holds, HeldNotQueued
    <2>2. Range(buf') = Range(buf) \cup {sess[w]}
        BY <2>1 DEF Range
    <2>3. TypeOK'
        BY <2>1 DEF PC
    <2>4. QueuedOnce'
        BY <2>1 DEF QueuedOnce, IsInjective, Range
    <2>5. HeldNotQueued'
        BY <2>1, <2>2 DEF HeldNotQueued, LoansExclusive, Holds
    <2>6. LoansExclusive'
        BY DEF LoansExclusive, Holds
    <2>7. NoneLost'
        BY <2>2 DEF NoneLost, Holds
    <2>8. BlockedQueued'
        BY DEF BlockedQueued
    <2>. QED
        BY <2>3, <2>4, <2>5, <2>6, <2>7, <2>8
<1>7. CASE UNCHANGED vars
    BY <1>7 DEF vars, QueuedOnce, HeldNotQueued, LoansExclusive, NoneLost,
       BlockedQueued, Holds
<1>. QED
    BY <1>1, <1>2, <1>3, <1>4, <1>5, <1>6, <1>7 DEF Next, Release

THEOREM IInvariant == Spec => []IInv
BY InitIInv, NextIInv, PTL DEF Spec

(* The type invariant: the buffer and recvq are sequences of sessions and  *)
(* goroutines, and every goroutine holds a session or none.                *)
THEOREM TypeCorrect == Spec => []TypeOK
BY IInvariant, PTL DEF IInv

(* The error of insert, which release() drops, is never reached: whenever *)
(* a goroutine checks the capacity in release(), there is room.            *)
THEOREM NeverRejected == Spec => []InsertNeverRejected
<1>1. IInv => InsertNeverRejected
    BY QueueRoom DEF IInv, TypeOK, InsertNeverRejected, HeldNotQueued,
       QueuedOnce, Holds
<1>. QED
    BY <1>1, IInvariant, PTL

(* Pool conservation and exclusive loans: each session is at every instant *)
(* either queued exactly once or held by exactly one goroutine.            *)
THEOREM Conservation == Spec => []SessionsConserved
<1>1. IInv => SessionsConserved
    <2> SUFFICES ASSUME IInv, NEW s \in Sessions
                 PROVE  Cardinality({i \in DOMAIN buf : buf[i] = s})
                          + Cardinality({w \in Workers : Holds(w) /\ sess[w] = s}) = 1
        BY DEF SessionsConserved
    <2> DEFINE Q == {i \in DOMAIN buf : buf[i] = s}
               H == {w \in Workers : Holds(w) /\ sess[w] = s}
    <2> USE DEF IInv, TypeOK
    <2>1. CASE s \in Range(buf)
        <3>1. PICK k \in DOMAIN buf : buf[k] = s
            BY <2>1 DEF Range
        <3>2. Q = {k}
            BY <3>1 DEF QueuedOnce, IsInjective
        <3>3. H = {}
            BY <2>1 DEF HeldNotQueued
        <3>4. Cardinality(Q) = 1
            BY <3>2, FS_Singleton
        <3>5. Cardinality(H) = 0
            BY <3>3, FS_EmptySet
        <3>. QED
            BY <3>4, <3>5
    <2>2. CASE s \notin Range(buf)
        <3>1. Q = {}
            BY <2>2 DEF Range
        <3>2. PICK v \in Workers : Holds(v) /\ sess[v] = s
            BY <2>2 DEF NoneLost
        <3>3. H = {v}
            BY <3>2 DEF LoansExclusive
        <3>4. Cardinality(Q) = 0
            BY <3>1, FS_EmptySet
        <3>5. Cardinality(H) = 1
            BY <3>3, FS_Singleton
        <3>. QED
            BY <3>4, <3>5
    <2>. QED
        BY <2>1, <2>2
<1>. QED
    BY <1>1, IInvariant, PTL

-----------------------------------------------------------------------------
(***************************************************************************)
(* Refinement: under poolOwner every step of the channel is a step of the *)
(* abstract pool or leaves the ownership alone.  Receive and SendHandoff  *)
(* are acquires (the session is free by HeldNotQueued and LoansExclusive),*)
(* Insert is the release, the other steps are stutters.                   *)
(***************************************************************************)
LEMMA InitRefines == Init => Pool!Init
BY DEF Init, Pool!Init, poolOwner

LEMMA NextRefines == IInv /\ [Next]_vars => [Pool!Next]_poolOwner
<1> SUFFICES ASSUME IInv, [Next]_vars PROVE [Pool!Next]_poolOwner
    OBVIOUS
<1> USE DEF IInv, TypeOK
<1>0. NoSession \notin Sessions
    OBVIOUS
<1>1. ASSUME NEW w \in Workers, Receive(w) PROVE [Pool!Next]_poolOwner
    <2> USE <1>1 DEF Receive
    <2>1. Head(buf) \in Sessions /\ Head(buf) \in Range(buf)
        BY DEF Range
    <2>2. Head(buf) \in Pool!Free
        BY <1>0, <2>1 DEF Pool!Free, poolOwner, HeldNotQueued, Holds
    <2>3. poolOwner[w] = NoSession
        BY DEF poolOwner
    <2>4. poolOwner' = [poolOwner EXCEPT ![w] = Head(buf)]
        BY DEF poolOwner
    <2>. QED
        BY <2>2, <2>3, <2>4 DEF Pool!Next, Pool!Acquire
<1>2. ASSUME NEW w \in Workers, Block(w) PROVE [Pool!Next]_poolOwner
    BY <1>2 DEF Block, poolOwner
<1>3. ASSUME NEW w \in Workers, Cmd(w) PROVE [Pool!Next]_poolOwner
    BY <1>3 DEF Cmd, poolOwner
<1>4. ASSUME NEW w \in Workers, Insert(w) PROVE [Pool!Next]_poolOwner
    <2>1. pc[w] = "insert" /\ sess[w] \in Sessions
        BY <1>4 DEF Insert, HeldNotQueued, Holds
    <2>2. poolOwner[w] # NoSession
        BY <1>0, <2>1 DEF poolOwner
    <2>3. poolOwner' = [poolOwner EXCEPT ![w] = NoSession]
        BY <1>4, <2>1 DEF Insert, poolOwner
    <2>. QED
        BY <2>2, <2>3 DEF Pool!Next, Pool!Release
<1>5. ASSUME NEW w \in Workers, SendHandoff(w) PROVE [Pool!Next]_poolOwner
    <2> DEFINE r == Head(recvq)
    <2> USE <1>5 DEF SendHandoff
    <2>1. r \in Range(recvq) /\ r \in Workers
        BY DEF Range
    <2>2. pc[r] = "blocked" /\ r # w /\ pc[w] = "send"
        BY <2>1 DEF BlockedQueued
    <2>3. sess[w] \in Sessions
        BY <2>2 DEF HeldNotQueued, Holds
    <2>4. sess[w] \in Pool!Free
        BY <1>0, <2>2, <2>3 DEF Pool!Free, poolOwner, LoansExclusive, Holds
    <2>5. poolOwner[r] = NoSession
        BY <2>1, <2>2 DEF poolOwner
    <2>6. poolOwner' = [poolOwner EXCEPT ![r] = sess[w]]
        BY <2>1, <2>2 DEF poolOwner
    <2>. QED
        BY <2>1, <2>4, <2>5, <2>6 DEF Pool!Next, Pool!Acquire
<1>6. ASSUME NEW w \in Workers, SendBuffer(w) PROVE [Pool!Next]_poolOwner
    BY <1>6 DEF SendBuffer, poolOwner
<1>7. CASE UNCHANGED vars
    BY <1>7 DEF vars, poolOwner
<1>. QED
    BY <1>1, <1>2, <1>3, <1>4, <1>5, <1>6, <1>7 DEF Next, Release

(* The channel-based queue implements the abstract pool for any numbers of *)
(* sessions and goroutines: getHandle only ever hands out a session no one *)
(* holds, and release() gives back the one it was handed.                  *)
THEOREM Refinement == Spec => Pool!Spec
<1>1. Init => Pool!Init
    BY InitRefines
<1>2. IInv /\ [Next]_vars => [Pool!Next]_poolOwner
    BY NextRefines
<1>. QED
    BY <1>1, <1>2, IInvariant, PTL DEF Spec, Pool!Spec

=============================================================================
