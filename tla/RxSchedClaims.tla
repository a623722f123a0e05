--------------------------- MODULE RxSchedClaims ---------------------------
(* A rakaia socket has at most two messages coming, for every number of    *)
(* sockets and connections and with failures allowed.                      *)
EXTENDS RxSchedProofs, FiniteSetTheorems

\* The pushes that have popped k from the waiter list and not yet delivered.
Popped(k) == {p \in Psocks : new_ksk[p] = k}

\* The two parts of Claims that are 0 or 1.
Busy(k) == pc[k] \notin {"create", "epoll"}
Waits(k) == IF k \in waiters_bm THEN 1 ELSE 0
Runs(k) == IF Busy(k) THEN 1 ELSE 0

\* What AtMostTwo rests on: a socket rakaia_create is still building has no claim,
\* so that the two it gets there are all it ever has at once.
ClaimOK(k) ==
    /\ IsFiniteSet(Popped(k))
    /\ Claims(k) <= 2
    /\ pc[k] = "create" => Claims(k) = 0

\* Four numbers, one of them one less, and another possibly one more.
LEMMA OneLess ==
    ASSUME NEW a \in Nat, NEW b \in Nat, NEW c \in Nat, NEW d \in Nat
    PROVE  /\ a + b + c + (d - 1) = (a + b + c + d) - 1
           /\ (a + 1) + b + c + (d - 1) = a + b + c + d
  OBVIOUS

\* A step after which socket j has the claims it had.
LEMMA ClaimFrame ==
    ASSUME NEW j \in Socks, ClaimOK(j), UNCHANGED Popped(j),
           sk_receive_queue'[j] = sk_receive_queue[j],
           j \in waiters_bm' <=> j \in waiters_bm,
           Busy(j)' <=> Busy(j), pc'[j] = "create" => pc[j] = "create"
    PROVE  ClaimOK(j)'
  <1>1. Claims(j)' = Claims(j)
    BY Zenon DEF Claims, Busy, Popped
  <1> QED BY <1>1 DEF ClaimOK

\* The pushes of every other socket are as before when new_ksk[p] is set or cleared.
LEMMA PoppedAdd ==
    ASSUME NEW j \in Socks, NEW k \in Socks, NEW p \in Psocks,
           new_ksk \in [Psocks -> Socks \cup {NULL}], new_ksk[p] = NULL, NULL \notin Socks,
           new_ksk' = [new_ksk EXCEPT ![p] = k], IsFiniteSet(Popped(j))
    PROVE  /\ j # k => Popped(j)' = Popped(j)
           /\ j = k => /\ IsFiniteSet(Popped(j)')
                       /\ Cardinality(Popped(j)') = Cardinality(Popped(j)) + 1
  <1>1. p \notin Popped(j) /\ Popped(j)' = IF j = k THEN Popped(j) \cup {p} ELSE Popped(j)
    BY DEF Popped
  <1> QED BY <1>1, FS_AddElement

LEMMA PoppedRemove ==
    ASSUME NEW j \in Socks, NEW k \in Socks, NEW p \in Psocks,
           new_ksk \in [Psocks -> Socks \cup {NULL}], new_ksk[p] = k, NULL \notin Socks,
           new_ksk' = [new_ksk EXCEPT ![p] = NULL], IsFiniteSet(Popped(j))
    PROVE  /\ j # k => Popped(j)' = Popped(j)
           /\ j = k => /\ IsFiniteSet(Popped(j)')
                       /\ Cardinality(Popped(j)') = Cardinality(Popped(j)) - 1
  <1>1. /\ Popped(j)' = IF j = k THEN Popped(j) \ {p} ELSE Popped(j)
        /\ j = k => p \in Popped(j)
    BY DEF Popped
  <1> QED BY <1>1, FS_RemoveElement

\* rakaia_queue_rcv_skb lengthens one receive queue by at most one.
LEMMA QueueRcvLen ==
    ASSUME TypeOK, NEW k \in Socks, NEW m \in Msgs, rakaia_queue_rcv_skb(k, m)
    PROVE  /\ \A j \in Socks \ {k} : sk_receive_queue'[j] = sk_receive_queue[j]
           /\ Len(sk_receive_queue'[k]) \in {Len(sk_receive_queue[k]), Len(sk_receive_queue[k]) + 1}
  <1>1. sk_receive_queue \in [Socks -> Seq(Msgs)]
    BY DEF TypeOK
  <1>2. \/ sk_receive_queue' = sk_receive_queue
        \/ sk_receive_queue' = [sk_receive_queue EXCEPT ![k] = Append(@, m)]
    BY DEF rakaia_queue_rcv_skb
  <1> QED BY <1>1, <1>2

\* The steps of a push.
LEMMA ClaimPush ==
    ASSUME TypeOK, LockInv, WaitersExact, NEW j \in Socks, ClaimOK(j),
           NEW p \in Psocks, Push(p)
    PROVE  ClaimOK(j)'
  <1>t. /\ pc \in [Socks \cup Psocks -> PushPC \cup WorkPC]
        /\ new_ksk \in [Psocks -> Socks \cup {NULL}] /\ waiters_bm \subseteq Socks
        /\ sk_receive_queue \in [Socks -> Seq(Msgs)]
        /\ ksk_waiters \in Seq(Socks)
        /\ Socks \cap Psocks = {} /\ NULL \notin Socks
    BY ConstAssumption DEF TypeOK
  <1>0. /\ Cardinality(Popped(j)) \in Nat /\ Len(sk_receive_queue[j]) \in Nat
        /\ IsFiniteSet(Popped(j))
    BY <1>t, FS_CardinalityType, SeqDomain DEF ClaimOK
  <1>s. /\ Claims(j) = Len(sk_receive_queue[j]) + Waits(j) + Runs(j) + Cardinality(Popped(j))
        /\ Claims(j)' = Len(sk_receive_queue'[j]) + Waits(j)' + Runs(j)' + Cardinality(Popped(j)')
    BY Zenon DEF Claims, Waits, Runs, Busy, Popped
  <1>b. /\ (Waits(j) = 1 /\ j \in waiters_bm) \/ (Waits(j) = 0 /\ j \notin waiters_bm)
        /\ (Waits(j)' = 1 /\ j \in waiters_bm') \/ (Waits(j)' = 0 /\ j \notin waiters_bm')
        /\ (Runs(j) = 1 /\ Busy(j)) \/ (Runs(j) = 0 /\ ~Busy(j))
        /\ (Runs(j)' = 1 /\ Busy(j)') \/ (Runs(j)' = 0 /\ ~Busy(j)')
    BY Zenon DEF Waits, Runs
  <1>f. ASSUME pc'[j] = pc[j], UNCHANGED <<new_ksk, waiters_bm, sk_receive_queue>>
        PROVE  ClaimOK(j)'
    BY <1>f, ClaimFrame DEF Popped, Busy
  <1> USE DEF rxVars, waitVars, stealVars, pushVars, GoTo
  <1>1. ASSUME PushChoose(p) \/ PushTail(p) \/ PushLock(p) \/ PushNoWaiter(p) \/ PushHandoff(p)
        PROVE  ClaimOK(j)'
    <2>1. pc'[j] = pc[j] /\ UNCHANGED <<new_ksk, waiters_bm, sk_receive_queue>>
      BY <1>1, <1>t DEF PushChoose, PushTail, PushLock, PushNoWaiter, PushHandoff
    <2> QED BY <1>f, <2>1
  <1>2. ASSUME PushAvail(p)
        PROVE  ClaimOK(j)'
    <2>1. pc'[j] = pc[j] /\ UNCHANGED sk_receive_queue
      BY <1>2, <1>t DEF PushAvail
    <2>2. CASE UNCHANGED <<new_ksk, waiters_bm>>
      BY <1>f, <2>1, <2>2
    <2>3. CASE rakaia_get_avail_sk(p, chosen[p])
      <3>1. PICK i \in DOMAIN ksk_waiters :
              /\ new_ksk' = [new_ksk EXCEPT ![p] = ksk_waiters[i]]
              /\ waiters_bm' = waiters_bm \ {ksk_waiters[i]}
        BY <2>3, Zenon DEF rakaia_get_avail_sk
      <3>2. new_ksk[p] = NULL
        BY <1>2, <1>t DEF PushAvail, LockInv, LocalsInv, PushLocalsInv
      <3> DEFINE k == ksk_waiters[i]
      <3>3. k \in Socks /\ k \in waiters_bm
        BY <1>t DEF WaitersExact, Range
      <3>4. /\ j # k => Popped(j)' = Popped(j)
            /\ j = k => /\ IsFiniteSet(Popped(j)')
                        /\ Cardinality(Popped(j)') = Cardinality(Popped(j)) + 1
        BY <1>t, <1>0, <3>1, <3>2, <3>3, PoppedAdd
      <3>5. CASE j # k
        BY <2>1, <3>1, <3>4, <3>5, ClaimFrame DEF Busy
      <3>6. CASE j = k
        <4>1. Claims(j)' = Claims(j)
          BY <1>0, <2>1, <3>1, <3>3, <3>4, <3>6, <1>s, <1>b DEF Busy
        <4> QED BY <2>1, <3>4, <3>6, <4>1 DEF ClaimOK
      <3> QED BY <3>5, <3>6
    <2> QED BY <1>2, <2>2, <2>3 DEF PushAvail
  <1>3. ASSUME PushDeliver(p)
        PROVE  ClaimOK(j)'
    <2> DEFINE k == new_ksk[p]
    <2>1. k \in Socks /\ skb[p] \in Msgs
      BY <1>3, PushLocals DEF PushDeliver
    <2>2. /\ rakaia_queue_rcv_skb(k, skb[p]) /\ new_ksk' = [new_ksk EXCEPT ![p] = NULL]
          /\ UNCHANGED waiters_bm /\ pc'[j] = pc[j]
      BY <1>3, <1>t DEF PushDeliver
    <2>3. /\ \A i \in Socks \ {k} : sk_receive_queue'[i] = sk_receive_queue[i]
          /\ Len(sk_receive_queue'[k]) \in {Len(sk_receive_queue[k]), Len(sk_receive_queue[k]) + 1}
      BY <2>1, <2>2, QueueRcvLen
    <2>4. /\ j # k => Popped(j)' = Popped(j)
          /\ j = k => /\ IsFiniteSet(Popped(j)')
                      /\ Cardinality(Popped(j)') = Cardinality(Popped(j)) - 1
      BY <1>t, <1>0, <2>1, <2>2, PoppedRemove
    <2>5. CASE j # k
      BY <2>2, <2>3, <2>4, <2>5, ClaimFrame DEF Busy
    <2>6. CASE j = k
      <3>0. Cardinality(Popped(j)') = Cardinality(Popped(j)) - 1 /\ IsFiniteSet(Popped(j)')
        BY <2>4, <2>6
      <3>1. Cardinality(Popped(j)') \in Nat
        BY <3>0, FS_CardinalityType
      <3>4. /\ Waits(j)' = Waits(j) /\ Runs(j)' = Runs(j)
            /\ Waits(j) \in Nat /\ Runs(j) \in Nat
        BY <1>b, <2>2 DEF Waits, Runs, Busy
      <3>5. \/ Len(sk_receive_queue'[j]) = Len(sk_receive_queue[j])
            \/ Len(sk_receive_queue'[j]) = Len(sk_receive_queue[j]) + 1
        BY <2>3, <2>6
      <3>3. Claims(j) \in Int
        BY <1>0, <1>s, <3>4
      <3>6. Claims(j)' = Claims(j) \/ Claims(j)' = Claims(j) - 1
        <4>1. CASE Len(sk_receive_queue'[j]) = Len(sk_receive_queue[j])
          <5>1. Claims(j)' = Len(sk_receive_queue[j]) + Waits(j) + Runs(j)
                             + (Cardinality(Popped(j)) - 1)
            BY <1>s, <3>0, <3>4, <4>1, Zenon
          <5>2. Len(sk_receive_queue[j]) + Waits(j) + Runs(j) + (Cardinality(Popped(j)) - 1)
                = (Len(sk_receive_queue[j]) + Waits(j) + Runs(j) + Cardinality(Popped(j))) - 1
            BY <1>0, <3>4, OneLess
          <5> QED BY <1>s, <5>1, <5>2, Zenon
        <4>2. CASE Len(sk_receive_queue'[j]) = Len(sk_receive_queue[j]) + 1
          <5>1. Claims(j)' = (Len(sk_receive_queue[j]) + 1) + Waits(j) + Runs(j)
                             + (Cardinality(Popped(j)) - 1)
            BY <1>s, <3>0, <3>4, <4>2, Zenon
          <5>2. (Len(sk_receive_queue[j]) + 1) + Waits(j) + Runs(j) + (Cardinality(Popped(j)) - 1)
                = Len(sk_receive_queue[j]) + Waits(j) + Runs(j) + Cardinality(Popped(j))
            BY <1>0, <3>4, OneLess
          <5> QED BY <1>s, <5>1, <5>2, Zenon
        <4> QED BY <3>5, <4>1, <4>2
      <3>2. Claims(j)' <= Claims(j) /\ Claims(j) >= 1 /\ Claims(j)' \in Int
        BY <1>0, <1>s, <3>0, <3>1, <3>3, <3>4, <3>6
      <3> QED BY <2>2, <2>4, <2>6, <3>2, <3>3 DEF ClaimOK
    <2> QED BY <2>5, <2>6
  <1> QED BY <1>1, <1>2, <1>3 DEF Push

\* The steps of a worker: a pull is paid for by the worker being busy, a receive
\* makes it busy.
LEMMA ClaimWork ==
    ASSUME TypeOK, LockInv, NEW j \in Socks, ClaimOK(j), NEW k \in Socks, Worker(k)
    PROVE  ClaimOK(j)'
  <1>t. /\ pc \in [Socks \cup Psocks -> PushPC \cup WorkPC] /\ waiters_bm \subseteq Socks
        /\ sk_receive_queue \in [Socks -> Seq(Msgs)]
    BY DEF TypeOK
  <1>0. Cardinality(Popped(j)) \in Nat /\ Len(sk_receive_queue[j]) \in Nat
    BY <1>t, FS_CardinalityType, SeqDomain DEF ClaimOK
  <1>s. /\ Claims(j) = Len(sk_receive_queue[j]) + Waits(j) + Runs(j) + Cardinality(Popped(j))
        /\ Claims(j)' = Len(sk_receive_queue'[j]) + Waits(j)' + Runs(j)' + Cardinality(Popped(j)')
    BY Zenon DEF Claims, Waits, Runs, Busy, Popped
  <1>b. /\ (Waits(j) = 1 /\ j \in waiters_bm) \/ (Waits(j) = 0 /\ j \notin waiters_bm)
        /\ (Waits(j)' = 1 /\ j \in waiters_bm') \/ (Waits(j)' = 0 /\ j \notin waiters_bm')
        /\ (Runs(j) = 1 /\ Busy(j)) \/ (Runs(j) = 0 /\ ~Busy(j))
        /\ (Runs(j)' = 1 /\ Busy(j)') \/ (Runs(j)' = 0 /\ ~Busy(j)')
    BY Zenon DEF Waits, Runs
  <1>p. UNCHANGED new_ksk /\ Popped(j)' = Popped(j)
    BY DEF Worker, Pull, Create, PullLocal, StealPick, StealReadLen, StealCompare, StealTake,
           PullDeliver, PullCheck, PullMark, Recvmsg, Sendmsg, pushVars, Popped
  <1> USE DEF rxVars, waitVars, stealVars, pushVars, GoTo
  <1>1. ASSUME PullLocal(k) \/ StealPick(k) \/ StealReadLen(k) \/ StealCompare(k)
                  \/ StealTake(k) \/ PullCheck(k)
        PROVE  ClaimOK(j)'
    <2>1. /\ UNCHANGED <<waiters_bm, sk_receive_queue>>
          /\ Busy(j)' <=> Busy(j)
          /\ pc'[j] = "create" => pc[j] = "create"
      BY <1>1, <1>t DEF Busy, PullLocal, StealPick, StealReadLen, StealCompare, StealTake,
                        PullCheck
    <2> QED BY <1>p, <2>1, ClaimFrame
  <1>2. CASE j # k
    <2>1. pc'[j] = pc[j] /\ (j \in waiters_bm' <=> j \in waiters_bm)
          /\ sk_receive_queue'[j] = sk_receive_queue[j]
      <3>1. CASE PullDeliver(k)
        BY <1>2, <1>t, <3>1, WorkLocals, QueueRcvLen DEF PullDeliver
      <3> QED BY <1>2, <1>t, <3>1 DEF Worker, Pull, Create, PullLocal, StealPick, StealReadLen,
                  StealCompare, StealTake, PullCheck, PullMark, Recvmsg, Sendmsg
    <2> QED BY <1>p, <2>1, ClaimFrame DEF Busy
  <1>3. ASSUME j = k, Create(k)
        PROVE  ClaimOK(j)'
    <2>1. Claims(j) = 0 /\ pc'[j] = "pull"
      BY <1>3, <1>t DEF Create, ClaimOK
    <2>2. /\ Len(sk_receive_queue'[j]) = Len(sk_receive_queue[j]) /\ Busy(j)' /\ ~Busy(j)
          /\ j \in waiters_bm'
      BY <1>3, <2>1 DEF Create, Busy
    <2>3. Claims(j)' <= 2
      BY <1>0, <1>p, <2>1, <2>2, <1>s, <1>b
    <2> QED BY <1>p, <2>1, <2>3 DEF ClaimOK
  <1>4. ASSUME j = k, PullDeliver(k)
        PROVE  ClaimOK(j)'
    <2>1. /\ UNCHANGED waiters_bm /\ pc[j] = "got" /\ pc'[j] = "epoll"
          /\ Len(sk_receive_queue'[j]) \in {Len(sk_receive_queue[j]), Len(sk_receive_queue[j]) + 1}
      BY <1>4, <1>t, WorkLocals, QueueRcvLen DEF PullDeliver
    <2>2. Runs(j) = 1 /\ Runs(j)' = 0 /\ Waits(j)' = Waits(j) /\ Waits(j) \in Nat
      BY <1>b, <2>1 DEF Busy, Waits
    <2>4. Claims(j) \in Int
      BY <1>0, <1>s, <2>2
    <2>5. Claims(j)' = Claims(j) \/ Claims(j)' = Claims(j) - 1
      <3>1. CASE Len(sk_receive_queue'[j]) = Len(sk_receive_queue[j])
        BY <1>0, <1>p, <1>s, <2>2, <3>1
      <3>2. CASE Len(sk_receive_queue'[j]) = Len(sk_receive_queue[j]) + 1
        BY <1>0, <1>p, <1>s, <2>2, <3>2
      <3> QED BY <2>1, <3>1, <3>2
    <2>3. Claims(j)' <= Claims(j) /\ Claims(j) \in Int /\ Claims(j)' \in Int
      BY <2>4, <2>5
    <2> QED BY <1>p, <2>1, <2>3 DEF ClaimOK
  <1>5. ASSUME j = k, PullMark(k)
        PROVE  ClaimOK(j)'
    <2>1. UNCHANGED sk_receive_queue /\ pc[j] = "mark" /\ pc'[j] = "epoll"
      BY <1>5, <1>t DEF PullMark
    <2>2. Busy(j) /\ ~Busy(j)'
      BY <2>1 DEF Busy
    <2>3. Claims(j)' <= Claims(j) /\ Claims(j) \in Int /\ Claims(j)' \in Int
      BY <1>0, <1>p, <2>1, <2>2, <1>s, <1>b
    <2> QED BY <1>p, <2>1, <2>3 DEF ClaimOK
  <1>6. ASSUME j = k, Recvmsg(k)
        PROVE  ClaimOK(j)'
    <2>1. UNCHANGED waiters_bm /\ pc[j] = "epoll" /\ pc'[j] = "process"
      BY <1>6, <1>t DEF Recvmsg
    <2>2. ~Busy(j) /\ Busy(j)'
      BY <2>1 DEF Busy
    <2>3. Len(sk_receive_queue'[j]) = Len(sk_receive_queue[j]) - 1
      BY <1>6, <1>t DEF Recvmsg
    <2>4. Claims(j)' = Claims(j)
      BY <1>0, <1>p, <2>1, <2>2, <2>3, <1>s, <1>b
    <2> QED BY <1>p, <2>1, <2>4 DEF ClaimOK
  <1>7. ASSUME j = k, Sendmsg(k)
        PROVE  ClaimOK(j)'
    <2>1. /\ UNCHANGED <<waiters_bm, sk_receive_queue>> /\ pc[j] = "process"
          /\ pc'[j] \in {"pull", "epoll"}
      BY <1>7, <1>t DEF Sendmsg
    <2>2. Busy(j)
      BY <2>1 DEF Busy
    <2>3. Claims(j)' <= Claims(j) /\ Claims(j) \in Int /\ Claims(j)' \in Int
      BY <1>0, <1>p, <2>1, <2>2, <1>s, <1>b
    <2> QED BY <1>p, <2>1, <2>3 DEF ClaimOK
  <1> QED BY <1>1, <1>2, <1>3, <1>4, <1>5, <1>6, <1>7 DEF Worker, Pull

\* No step gives a socket a third claim.
LEMMA ClaimStep ==
    ASSUME TypeOK, LockInv, WaitersExact, NEW j \in Socks, ClaimOK(j), [Next]_vars
    PROVE  ClaimOK(j)'
  <1>1. ASSUME NEW k \in Socks, NEW p \in Psocks, Attach(k, p)
        PROVE  ClaimOK(j)'
    <2>1. pc'[j] = pc[j] /\ UNCHANGED <<waiters_bm, sk_receive_queue, new_ksk>>
      BY <1>1, ConstAssumption DEF TypeOK, Attach, GoTo, waitVars, pushVars
    <2> QED BY <2>1, ClaimFrame DEF Busy, Popped
  <1>2. CASE UNCHANGED vars
    BY <1>2, ClaimFrame DEF Busy, Popped, vars, waitVars, pushVars
  <1> QED BY <1>1, <1>2, ClaimPush, ClaimWork DEF Next

LEMMA ClaimInit == Init => \A j \in Socks : ClaimOK(j)
  <1> SUFFICES ASSUME Init, NEW j \in Socks
               PROVE  ClaimOK(j)
    OBVIOUS
  <1>1. Popped(j) = {}
    BY ConstAssumption DEF Init, Popped
  <1>2. IsFiniteSet(Popped(j)) /\ Cardinality(Popped(j)) = 0
    BY <1>1, FS_EmptySet
  <1>3. ~Busy(j) /\ Len(sk_receive_queue[j]) = 0 /\ j \notin waiters_bm
    BY DEF Init, Busy
  <1>4. Claims(j) = 0
    BY <1>2, <1>3 DEF Claims, Busy, Popped
  <1> QED BY <1>2, <1>4 DEF ClaimOK

\* For every number of sockets and connections, and with deliveries and sends that
\* fail, a socket has at most two messages coming: one for the place in the waiter
\* list rakaia_create gave it, one for the first pull.
THEOREM TwoClaims == Spec => []AtMostTwo
  <1> DEFINE CInv == \A j \in Socks : ClaimOK(j)
  <1>1. Init => CInv
    BY ClaimInit
  <1>2. IInv /\ CInv /\ [Next]_vars => CInv'
    BY ClaimStep DEF IInv
  <1>3. CInv => AtMostTwo
    BY DEF ClaimOK, AtMostTwo
  <1> QED BY <1>1, <1>2, <1>3, Invariance, PTL DEF Spec
=============================================================================
