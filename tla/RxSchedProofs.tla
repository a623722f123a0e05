--------------------------- MODULE RxSchedProofs ---------------------------
(* Proofs of the safety properties of RxSched for every number of sockets, *)
(* connections and messages.  The module begins with facts about the       *)
(* queues and lists, modelled as sequences: what Append, Tail and          *)
(* list_del_init do to the elements.                                       *)
EXTENDS RxSched, Integers, TLAPS

\* What the operators on sequences return, in the form the proofs below use.
LEMMA SeqDomain ==
    ASSUME NEW S, NEW q \in Seq(S)
    PROVE  Len(q) \in Nat /\ DOMAIN q = 1..Len(q) /\ q \in [1..Len(q) -> S]
  OBVIOUS

LEMMA SeqAppend ==
    ASSUME NEW S, NEW q \in Seq(S), NEW x \in S
    PROVE  /\ Append(q, x) \in Seq(S) \ {<<>>} /\ Len(Append(q, x)) = Len(q) + 1
           /\ Append(q, x)[Len(q) + 1] = x /\ \A i \in 1..Len(q) : Append(q, x)[i] = q[i]
  OBVIOUS

LEMMA SeqTail ==
    ASSUME NEW S, NEW q \in Seq(S), q # <<>>
    PROVE  /\ Head(q) \in S /\ Tail(q) \in Seq(S) /\ Len(Tail(q)) = Len(q) - 1
           /\ \A i \in 1..Len(Tail(q)) : Tail(q)[i] = q[i + 1]
  OBVIOUS

LEMMA SeqEmpty ==
    ASSUME NEW S, NEW q \in Seq(S)
    PROVE  Len(q) = 0 <=> q = <<>>
  OBVIOUS

LEMMA SeqConcat ==
    ASSUME NEW S, NEW q \in Seq(S), NEW r \in Seq(S)
    PROVE  /\ q \o r \in Seq(S) /\ Len(q \o r) = Len(q) + Len(r)
           /\ \A i \in 1..(Len(q) + Len(r)) :
                 (q \o r)[i] = IF i <= Len(q) THEN q[i] ELSE r[i - Len(q)]
  OBVIOUS

\* The arithmetic of an index that moves down by one past position i.
LEMMA ShiftIndex ==
    ASSUME NEW i \in Int, NEW j \in Int, NEW n \in Int,
           1 <= i, i <= j, j <= n - 1
    PROVE  /\ j \in 1..((i - 1) + (n - i)) /\ ~(j <= i - 1)
           /\ j - (i - 1) \in 1..(n - i) /\ i + (j - (i - 1)) = j + 1
  OBVIOUS

\* list_del_init: removing one element shortens the list and shifts the rest.
LEMMA ListDelShape ==
    ASSUME NEW S, NEW s \in Seq(S), NEW i \in DOMAIN s
    PROVE  /\ list_del_init(s, i) \in Seq(S)
           /\ Len(list_del_init(s, i)) = Len(s) - 1
           /\ \A j \in 1..(Len(s) - 1) :
                 list_del_init(s, i)[j] = IF j < i THEN s[j] ELSE s[j + 1]
  <1>1. i \in 1..Len(s) /\ Len(s) \in Nat /\ \A j \in 1..Len(s) : s[j] \in S
    BY SeqDomain
  <1> DEFINE a == SubSeq(s, 1, i - 1)
             b == SubSeq(s, i + 1, Len(s))
  <1>2. /\ a \in Seq(S) /\ Len(a) = i - 1
        /\ \A j \in 1..(i - 1) : a[j] = s[j]
    BY <1>1
  <1>3. /\ b \in Seq(S) /\ Len(b) = Len(s) - i
        /\ \A j \in 1..(Len(s) - i) : b[j] = s[i + j]
    BY <1>1
  <1> HIDE DEF a, b
  <1>4. /\ a \o b \in Seq(S)
        /\ Len(a \o b) = Len(a) + Len(b)
        /\ \A j \in 1..(Len(a) + Len(b)) :
              (a \o b)[j] = IF j <= Len(a) THEN a[j] ELSE b[j - Len(a)]
    BY <1>2, <1>3, SeqConcat, Zenon
  <1>5. ASSUME NEW j \in 1..(Len(s) - 1)
        PROVE  (a \o b)[j] = IF j < i THEN s[j] ELSE s[j + 1]
    <2>1. CASE j < i
      <3>1. j \in 1..(Len(a) + Len(b)) /\ j <= Len(a) /\ j \in 1..(i - 1)
        BY <1>1, <1>2, <1>3, <2>1
      <3> QED BY <3>1, <2>1, <1>2, <1>4
    <2>2. CASE ~(j < i)
      <3>0. /\ i \in Int /\ Len(s) \in Int /\ j \in Int
            /\ i <= j /\ 1 <= i /\ j <= Len(s) - 1
        BY <1>1, <2>2
      <3>1. /\ j \in 1..((i - 1) + (Len(s) - i)) /\ ~(j <= i - 1)
            /\ j - (i - 1) \in 1..(Len(s) - i) /\ i + (j - (i - 1)) = j + 1
        BY <3>0, ShiftIndex
      <3>2. b[j - Len(a)] = s[j + 1]
        BY <3>1, <1>2, <1>3, Zenon
      <3>3. j \in 1..(Len(a) + Len(b)) /\ ~(j <= Len(a))
        BY <3>1, <1>2, <1>3
      <3> QED BY <3>2, <3>3, <2>2, <1>4
    <2> QED BY <2>1, <2>2, Zenon
  <1>6. list_del_init(s, i) = a \o b
    BY DEF list_del_init, a, b
  <1>7. Len(a) + Len(b) = Len(s) - 1
    BY <1>1, <1>2, <1>3
  <1> QED BY <1>4, <1>5, <1>6, <1>7

\* list_del_init of one element of a list without duplicates removes just it.
LEMMA ListDelInjective ==
    ASSUME NEW S, NEW s \in Seq(S), NEW i \in DOMAIN s, IsInjective(s)
    PROVE  /\ IsInjective(list_del_init(s, i))
           /\ Range(list_del_init(s, i)) = Range(s) \ {s[i]}
  <1> DEFINE r == list_del_init(s, i)
  <1>1. /\ i \in 1..Len(s) /\ Len(s) \in Nat /\ DOMAIN s = 1..Len(s)
    BY SeqDomain
  <1>2. /\ DOMAIN r = 1..(Len(s) - 1)
        /\ \A j \in 1..(Len(s) - 1) : r[j] = IF j < i THEN s[j] ELSE s[j + 1]
    BY ListDelShape, SeqDomain
  <1> HIDE DEF r
  <1> DEFINE at(j) == IF j < i THEN j ELSE j + 1
  <1>7. ASSUME NEW j \in 1..(Len(s) - 1)
        PROVE  at(j) \in DOMAIN s /\ r[j] = s[at(j)]
    BY <1>1, <1>2
  <1>8. ASSUME NEW j \in 1..(Len(s) - 1), NEW n \in 1..(Len(s) - 1), at(j) = at(n)
        PROVE  j = n
    BY <1>1, <1>8
  <1> HIDE DEF at
  <1>3. IsInjective(r)
    BY <1>2, <1>7, <1>8 DEF IsInjective
  <1>4. Range(r) \subseteq Range(s) \ {s[i]}
    BY <1>1, <1>2 DEF Range, IsInjective
  <1>5. ASSUME NEW j \in 1..Len(s), j # i
        PROVE  s[j] \in Range(r)
    <2>1. CASE j < i
      BY <1>1, <1>2, <2>1 DEF Range
    <2>2. CASE j > i
      <3>1. j - 1 \in 1..(Len(s) - 1) /\ r[j - 1] = s[j]
        BY <1>1, <1>2, <2>2
      <3> QED BY <3>1, <1>2 DEF Range
    <2> QED BY <1>1, <1>5, <2>1, <2>2
  <1>6. Range(s) \ {s[i]} \subseteq Range(r)
    BY <1>1, <1>5 DEF Range
  <1> QED BY <1>3, <1>4, <1>6 DEF r

\* list_add_tail of an element that is not in the list.
LEMMA AppendInjectiveSet ==
    ASSUME NEW S, NEW s \in Seq(S), NEW e \in S, e \notin Range(s), IsInjective(s)
    PROVE  /\ IsInjective(Append(s, e))
           /\ Range(Append(s, e)) = Range(s) \cup {e}
  <1>1. /\ Len(s) \in Nat /\ DOMAIN s = 1..Len(s)
        /\ DOMAIN Append(s, e) = 1..(Len(s) + 1)
        /\ \A i \in 1..Len(s) : Append(s, e)[i] = s[i]
        /\ Append(s, e)[Len(s) + 1] = e
    BY SeqAppend, SeqDomain
  <1>2. \A i \in 1..Len(s) : s[i] # e
    BY <1>1 DEF Range
  <1>3. IsInjective(Append(s, e))
    BY <1>1, <1>2 DEF IsInjective
  <1>4. Range(Append(s, e)) = Range(s) \cup {e}
    BY <1>1 DEF Range
  <1> QED BY <1>3, <1>4

\* A queue is left empty by taking the head of its only element.
LEMMA TailEmpty ==
    ASSUME NEW S, NEW s \in Seq(S), s # <<>>
    PROVE  Len(s) = 1 <=> Tail(s) = <<>>
  <1>1. Tail(s) \in Seq(S) /\ Len(Tail(s)) = Len(s) - 1
    BY SeqTail
  <1>2. Len(s) \in Nat
    BY SeqDomain
  <1>3. Len(Tail(s)) = 0 <=> Tail(s) = <<>>
    BY <1>1, SeqEmpty, Zenon
  <1> QED BY <1>1, <1>2, <1>3

\* A queue of length one is nonempty and its tail is empty.
LEMMA OneElement ==
    ASSUME NEW S, NEW s \in Seq(S), Len(s) = 1
    PROVE  s # <<>> /\ Tail(s) = <<>>
  <1>1. s # <<>>
    OBVIOUS
  <1> QED BY <1>1, TailEmpty

\* Taking the head of a queue without duplicates removes just it.
LEMMA TailInjectiveSet ==
    ASSUME NEW S, NEW s \in Seq(S), s # <<>>, IsInjective(s)
    PROVE  /\ Head(s) \in Range(s) /\ IsInjective(Tail(s))
           /\ Range(Tail(s)) = Range(s) \ {Head(s)}
  <1>1. /\ Len(s) \in Nat \ {0} /\ DOMAIN s = 1..Len(s) /\ Head(s) = s[1]
        /\ DOMAIN Tail(s) = 1..(Len(s) - 1)
        /\ \A i \in 1..(Len(s) - 1) : Tail(s)[i] = s[i + 1]
    OBVIOUS
  <1>2. \A i \in 1..(Len(s) - 1) : i + 1 \in 1..Len(s) /\ s[i + 1] # s[1]
    BY <1>1 DEF IsInjective
  <1>3. ASSUME NEW i \in 1..(Len(s) - 1), NEW j \in 1..(Len(s) - 1), Tail(s)[i] = Tail(s)[j]
        PROVE  i = j
    <2>1. i + 1 \in DOMAIN s /\ j + 1 \in DOMAIN s /\ s[i + 1] = s[j + 1]
      BY <1>1, <1>2, <1>3
    <2>2. i + 1 = j + 1
      BY <2>1 DEF IsInjective
    <2> QED BY <2>2
  <1>4. Range(Tail(s)) \subseteq Range(s) \ {Head(s)}
    BY <1>1, <1>2 DEF Range
  <1>5. ASSUME NEW i \in 1..Len(s), s[i] # s[1]
        PROVE  s[i] \in Range(Tail(s))
    <2>1. i - 1 \in 1..(Len(s) - 1) /\ (i - 1) + 1 = i
      BY <1>1, <1>5
    <2>2. Tail(s)[i - 1] = s[i]
      BY <1>1, <2>1
    <2> QED BY <1>1, <2>1, <2>2, Zenon DEF Range
  <1>6. Range(s) \ {Head(s)} \subseteq Range(Tail(s))
    BY <1>1, <1>5 DEF Range
  <1>7. Head(s) \in Range(s)
    BY <1>1 DEF Range
  <1>8. IsInjective(Tail(s))
    BY <1>1, <1>3 DEF IsInjective
  <1> QED BY <1>4, <1>6, <1>7, <1>8

\* The locals a push uses at each of its steps are a socket and a message.
LEMMA PushLocals ==
    ASSUME TypeOK, LockInv, NEW p \in Psocks
    PROVE  /\ p \in Socks \cup Psocks /\ p \notin Socks
           /\ pc[p] \in {"push", "locked", "nowaiter", "handoff"} => chosen[p] \in Socks
           /\ pc[p] \in {"handoff", "deliver"} => new_ksk[p] \in Socks
           /\ pc[p] \in {"push", "locked", "deliver"} => skb[p] \in Msgs
  BY ConstAssumption DEF TypeOK, LockInv, LocalsInv, PushLocalsInv

\* The locals a worker uses at each of its steps are a message and two sockets.
LEMMA WorkLocals ==
    ASSUME TypeOK, LockInv, NEW k \in Socks
    PROVE  /\ k \in Socks \cup Psocks /\ k \notin Psocks
           /\ pc[k] \in {"got", "process"} => skb[k] \in Msgs
           /\ pc[k] \in {"cand", "cmp", "victim"} => v1[k] \in Socks
           /\ pc[k] \in {"cand", "cmp"} => v2[k] \in Socks
  BY ConstAssumption DEF TypeOK, LockInv, LocalsInv, WorkLocalsInv

\* rakaia_queue_rcv_skb keeps the receive queues typed.
LEMMA QueueRcvType ==
    ASSUME TypeOK, NEW k \in Socks, NEW m \in Msgs, rakaia_queue_rcv_skb(k, m)
    PROVE  /\ sk_receive_queue' \in [Socks -> Seq(Msgs)]
           /\ lost' \subseteq Msgs
  <1>1. Append(sk_receive_queue[k], m) \in Seq(Msgs)
    BY DEF TypeOK
  <1>2. [sk_receive_queue EXCEPT ![k] = Append(@, m)] \in [Socks -> Seq(Msgs)]
    BY <1>1 DEF TypeOK
  <1> QED BY <1>2, Zenon DEF TypeOK, rakaia_queue_rcv_skb

\* Taking the head of a nonempty queue keeps queues and bitmap typed.
LEMMA DequeueType ==
    ASSUME TypeOK, NEW k \in Socks, rx_q[k] # <<>>, Dequeue(k)
    PROVE  /\ rx_q' \in [Socks -> Seq(Msgs)]
           /\ rx_nonempty_bm' \subseteq Socks
           /\ rx_lock' = rx_lock
           /\ Head(rx_q[k]) \in Msgs
  BY DEF TypeOK, Dequeue

\* A worker that moves to a step of its own keeps the step counters typed.
LEMMA WorkMove ==
    ASSUME TypeOK, NEW k \in Socks, NEW b \in WorkPC, pc' = [pc EXCEPT ![k] = b]
    PROVE  /\ pc' \in [Socks \cup Psocks -> PushPC \cup WorkPC]
           /\ \A q \in Psocks : pc'[q] \in PushPC
           /\ \A j \in Socks : pc'[j] \in WorkPC
  BY ConstAssumption DEF TypeOK

\* So does a push.
LEMMA PushMove ==
    ASSUME TypeOK, NEW p \in Psocks, NEW b \in PushPC, pc' = [pc EXCEPT ![p] = b]
    PROVE  /\ pc' \in [Socks \cup Psocks -> PushPC \cup WorkPC]
           /\ \A q \in Psocks : pc'[q] \in PushPC
           /\ \A j \in Socks : pc'[j] \in WorkPC
  BY ConstAssumption DEF TypeOK

\* Types are preserved by every step.
LEMMA TypeStep == TypeOK /\ LockInv /\ [Next]_vars => TypeOK'
  <1> SUFFICES ASSUME TypeOK, LockInv, [Next]_vars
               PROVE  TypeOK'
    OBVIOUS
  <1> USE DEF rxVars, waitVars, stealVars, pushVars, GoTo, PushPC, PullPC, WorkPC
  <1>1. ASSUME NEW p \in Psocks, PushChoose(p)
        PROVE  TypeOK'
    BY <1>1, PushLocals DEF TypeOK, PushChoose
  <1>2. ASSUME NEW p \in Psocks, PushTail(p)
        PROVE  TypeOK'
    <2>1. chosen[p] \in Socks /\ skb[p] \in Msgs /\ p \in Socks \cup Psocks /\ p \notin Socks
      BY <1>2, PushLocals DEF PushTail
    <2>2. rx_q' \in [Socks -> Seq(Msgs)]
      BY <1>2, <2>1 DEF PushTail, TypeOK
    <2> QED BY <1>2, <2>1, <2>2 DEF PushTail, TypeOK
  <1>3. ASSUME NEW p \in Psocks, PushLock(p)
        PROVE  TypeOK'
    BY <1>3, PushLocals, Zenon DEF TypeOK, PushLock
  <1>4. ASSUME NEW p \in Psocks, PushAvail(p)
        PROVE  TypeOK'
    <2>1. chosen[p] \in Socks /\ skb[p] \in Msgs /\ p \in Socks \cup Psocks /\ p \notin Socks
      BY <1>4, PushLocals DEF PushAvail
    <2>2. rx_q' \in [Socks -> Seq(Msgs)] /\ skb' \in [Socks \cup Psocks -> Msgs \cup {NULL}]
      BY <1>4, <2>1 DEF PushAvail, TypeOK
    <2>3. /\ pc' \in [Socks \cup Psocks -> PushPC \cup WorkPC]
          /\ \A q \in Psocks : pc'[q] \in PushPC
          /\ \A k \in Socks : pc'[k] \in WorkPC
      <3>1. CASE pc' = [pc EXCEPT ![p] = "nowaiter"]
        BY <3>1, PushMove, Zenon
      <3>2. CASE pc' = [pc EXCEPT ![p] = "handoff"]
        BY <3>2, PushMove, Zenon
      <3> QED BY <1>4, <3>1, <3>2 DEF PushAvail
    <2>4. CASE ksk_waiters = <<>> /\ UNCHANGED <<ksk_waiters, waiters_bm, new_ksk>>
      BY <1>4, <2>2, <2>3, <2>4 DEF PushAvail, TypeOK
    <2>5. CASE rakaia_get_avail_sk(p, chosen[p])
      <3>1. PICK i \in DOMAIN ksk_waiters :
              /\ new_ksk' = [new_ksk EXCEPT ![p] = ksk_waiters[i]]
              /\ ksk_waiters' = list_del_init(ksk_waiters, i)
              /\ waiters_bm' = waiters_bm \ {ksk_waiters[i]}
        BY <2>5, Zenon DEF rakaia_get_avail_sk
      <3>2. ksk_waiters' \in Seq(Socks)
        BY <3>1, ListDelShape DEF TypeOK
      <3>3. ksk_waiters[i] \in Socks
        BY <3>1 DEF TypeOK
      <3> QED BY <1>4, <2>2, <2>3, <3>1, <3>2, <3>3, Zenon DEF PushAvail, TypeOK
    <2> QED BY <1>4, <2>4, <2>5 DEF PushAvail
  <1>5. ASSUME NEW p \in Psocks, PushNoWaiter(p)
        PROVE  TypeOK'
    BY <1>5, PushLocals DEF TypeOK, PushNoWaiter
  <1>6. ASSUME NEW p \in Psocks, PushHandoff(p)
        PROVE  TypeOK'
    <2>1. chosen[p] \in Socks /\ p \in Socks \cup Psocks /\ p \notin Socks
      BY <1>6, PushLocals DEF PushHandoff
    <2>2. rx_q[chosen[p]] \in Seq(Msgs) /\ Len(rx_q[chosen[p]]) = 1
      BY <1>6, <2>1 DEF PushHandoff, TypeOK, LockInv, ListLockInv
    <2>3. Head(rx_q[chosen[p]]) \in Msgs /\ Tail(rx_q[chosen[p]]) \in Seq(Msgs)
      BY <2>2, OneElement, SeqTail
    <2> QED BY <1>6, <2>1, <2>3 DEF PushHandoff, TypeOK
  <1>7. ASSUME NEW p \in Psocks, PushDeliver(p)
        PROVE  TypeOK'
    <2>1. new_ksk[p] \in Socks /\ skb[p] \in Msgs /\ p \in Socks \cup Psocks /\ p \notin Socks
      BY <1>7, PushLocals DEF PushDeliver
    <2>2. sk_receive_queue' \in [Socks -> Seq(Msgs)] /\ lost' \subseteq Msgs
      BY <1>7, <2>1, QueueRcvType DEF PushDeliver
    <2> QED BY <1>7, <2>1, <2>2 DEF PushDeliver, TypeOK
  <1>8. ASSUME NEW k \in Socks, NEW p \in Psocks, Attach(k, p)
        PROVE  TypeOK'
    BY <1>8, ConstAssumption DEF TypeOK, Attach
  <1>9. ASSUME NEW k \in Socks, Create(k)
        PROVE  TypeOK'
    <2>1. /\ pc' \in [Socks \cup Psocks -> PushPC \cup WorkPC]
          /\ \A q \in Psocks : pc'[q] \in PushPC
          /\ \A j \in Socks : pc'[j] \in WorkPC
      BY <1>9, WorkMove, Zenon DEF Create
    <2>2. ksk_waiters' \in Seq(Socks)
      BY <1>9, SeqAppend DEF Create, TypeOK
    <2> QED BY <1>9, <2>1, <2>2 DEF TypeOK, Create
  <1>10. ASSUME NEW k \in Socks, PullLocal(k)
        PROVE  TypeOK'
    <2>1. k \in Socks \cup Psocks /\ k \notin Psocks /\ k \in Socks
      BY <1>10, WorkLocals DEF PullLocal
    <2>2. CASE rx_q[k] # <<>> /\ Dequeue(k)
               /\ pc' = [pc EXCEPT ![k] = "got"] /\ skb' = [skb EXCEPT ![k] = Head(rx_q[k])]
      BY <1>10, <2>1, <2>2, DequeueType DEF PullLocal, TypeOK
    <2>3. CASE pc' = [pc EXCEPT ![k] = "steal"] /\ UNCHANGED <<rxVars, skb>>
      BY <1>10, <2>1, <2>3 DEF PullLocal, TypeOK
    <2> QED BY <1>10, <2>2, <2>3 DEF PullLocal
  <1>11. ASSUME NEW k \in Socks, StealPick(k)
        PROVE  TypeOK'
    <2>1. CASE pc' = [pc EXCEPT ![k] = "empty"] /\ UNCHANGED <<v1, v2>>
      BY <1>11, <2>1, WorkLocals DEF TypeOK, StealPick
    <2>2. ASSUME NEW a \in rx_nonempty_bm, NEW b \in rx_nonempty_bm,
                 v1' = [v1 EXCEPT ![k] = a], v2' = [v2 EXCEPT ![k] = b],
                 pc' = [pc EXCEPT ![k] = "cand"]
          PROVE  TypeOK'
      BY <1>11, <2>2, WorkLocals, Zenon DEF TypeOK, StealPick
    <2> QED BY <1>11, <2>1, <2>2 DEF StealPick
  <1>12. ASSUME NEW k \in Socks, StealReadLen(k)
        PROVE  TypeOK'
    <2>1. v2[k] \in Socks /\ k \in Socks \cup Psocks /\ k \notin Psocks
      BY <1>12, WorkLocals DEF StealReadLen
    <2>2. Len(rx_q[v2[k]]) \in Nat
      BY <2>1, SeqDomain DEF TypeOK
    <2> QED BY <1>12, <2>1, <2>2 DEF StealReadLen, TypeOK
  <1>13. ASSUME NEW k \in Socks, StealCompare(k)
        PROVE  TypeOK'
    BY <1>13, WorkLocals, Zenon DEF TypeOK, StealCompare
  <1>14. ASSUME NEW k \in Socks, StealTake(k)
        PROVE  TypeOK'
    <2>1. k \in Socks \cup Psocks /\ k \notin Psocks /\ v1[k] \in Socks
      BY <1>14, WorkLocals DEF StealTake
    <2>2. CASE rx_q[v1[k]] # <<>> /\ Dequeue(v1[k])
               /\ pc' = [pc EXCEPT ![k] = "got"] /\ skb' = [skb EXCEPT ![k] = Head(rx_q[v1[k]])]
      BY <1>14, <2>1, <2>2, DequeueType, Zenon DEF StealTake, TypeOK
    <2>3. CASE pc' = [pc EXCEPT ![k] = "steal"] /\ UNCHANGED <<rxVars, skb>>
      BY <1>14, <2>1, <2>3, Zenon DEF StealTake, TypeOK
    <2> QED BY <1>14, <2>2, <2>3 DEF StealTake
  <1>15. ASSUME NEW k \in Socks, PullDeliver(k)
        PROVE  TypeOK'
    <2>1. skb[k] \in Msgs /\ k \in Socks \cup Psocks /\ k \notin Psocks
      BY <1>15, WorkLocals DEF PullDeliver
    <2>2. sk_receive_queue' \in [Socks -> Seq(Msgs)] /\ lost' \subseteq Msgs
      BY <1>15, <2>1, QueueRcvType DEF PullDeliver
    <2> QED BY <1>15, <2>1, <2>2 DEF PullDeliver, TypeOK
  <1>16. ASSUME NEW k \in Socks, PullCheck(k)
        PROVE  TypeOK'
    <2>1. CASE pc' = [pc EXCEPT ![k] = "pull"] /\ UNCHANGED waiters_lock
      BY <1>16, <2>1, WorkLocals DEF TypeOK, PullCheck
    <2>2. CASE pc' = [pc EXCEPT ![k] = "mark"] /\ waiters_lock' = k
      BY <1>16, <2>2, WorkLocals DEF TypeOK, PullCheck
    <2> QED BY <1>16, <2>1, <2>2 DEF PullCheck
  <1>17. ASSUME NEW k \in Socks, PullMark(k)
        PROVE  TypeOK'
    <2>1. CASE UNCHANGED <<ksk_waiters, waiters_bm>>
      BY <1>17, <2>1, WorkLocals DEF TypeOK, PullMark
    <2>2. CASE waiters_bm' = waiters_bm \cup {k} /\ ksk_waiters' = Append(ksk_waiters, k)
      BY <1>17, <2>2, WorkLocals DEF TypeOK, PullMark
    <2> QED BY <1>17, <2>1, <2>2 DEF PullMark
  <1>18. ASSUME NEW k \in Socks, Recvmsg(k)
        PROVE  TypeOK'
    BY <1>18, WorkLocals DEF TypeOK, Recvmsg
  <1>19. ASSUME NEW k \in Socks, Sendmsg(k)
        PROVE  TypeOK'
    <2>1. skb[k] \in Msgs /\ k \in Socks \cup Psocks
      BY <1>19, WorkLocals DEF Sendmsg
    <2>2. /\ pc' \in [Socks \cup Psocks -> PushPC \cup WorkPC]
          /\ \A q \in Psocks : pc'[q] \in PushPC
          /\ \A j \in Socks : pc'[j] \in WorkPC
      <3>1. CASE pc' = [pc EXCEPT ![k] = "pull"]
        BY <3>1, WorkMove, Zenon
      <3>2. CASE pc' = [pc EXCEPT ![k] = "epoll"]
        BY <3>2, WorkMove, Zenon
      <3> QED BY <1>19, <3>1, <3>2 DEF Sendmsg
    <2>3. skb' \in [Socks \cup Psocks -> Msgs \cup {NULL}] /\ done' \subseteq Msgs
      BY <1>19, <2>1 DEF Sendmsg, TypeOK
    <2> QED BY <1>19, <2>2, <2>3 DEF TypeOK, Sendmsg
  <1>20. CASE UNCHANGED vars
    BY <1>20 DEF vars, TypeOK
  <1> QED BY <1>1, <1>2, <1>3, <1>4, <1>5, <1>6, <1>7, <1>8, <1>9, <1>10, <1>11, <1>12, <1>13, <1>14, <1>15, <1>16, <1>17, <1>18, <1>19, <1>20
          DEF Next, Push, Worker, Pull

\* The locals are set and cleared together with the step counter.
LEMMA LocalsStep ==
    TypeOK /\ LockInv /\ [Next]_vars => LocalsInv'
  <1> SUFFICES ASSUME TypeOK, LockInv, [Next]_vars
               PROVE  LocalsInv'
    OBVIOUS
  <1>t. /\ pc \in [Socks \cup Psocks -> PushPC \cup WorkPC]
        /\ skb \in [Socks \cup Psocks -> Msgs \cup {NULL}]
        /\ chosen \in [Psocks -> Socks \cup {NULL}]
        /\ new_ksk \in [Psocks -> Socks \cup {NULL}]
        /\ v1 \in [Socks -> Socks \cup {NULL}]
        /\ v2 \in [Socks -> Socks \cup {NULL}]
        /\ ksk_waiters \in Seq(Socks) /\ rx_nonempty_bm \subseteq Socks
        /\ waiters_lock \in Socks \cup {NULL}
        /\ NULL \notin Socks \cup Psocks \cup Msgs /\ Socks \cap Psocks = {}
    BY ConstAssumption DEF TypeOK
  <1> USE DEF rxVars, waitVars, stealVars, pushVars, GoTo
  <1>1. ASSUME NEW p \in Psocks, PushChoose(p)
        PROVE  LocalsInv'
    <2>c. Head(unread[p]) \in Msgs
      BY <1>1, PushLocals DEF PushChoose, TypeOK
    <2>1. ASSUME NEW q \in Psocks PROVE PushLocalsInv(q)'
      BY <1>1, <1>t, <2>c DEF LockInv, LocalsInv, PushLocalsInv, WorkLocalsInv, PushChoose
    <2>2. ASSUME NEW j \in Socks PROVE WorkLocalsInv(j)'
      BY <1>1, <1>t, <2>c DEF LockInv, LocalsInv, PushLocalsInv, WorkLocalsInv, PushChoose
    <2> QED BY <2>1, <2>2 DEF LocalsInv
  <1>2. ASSUME NEW p \in Psocks, PushTail(p)
        PROVE  LocalsInv'
    <2>1. ASSUME NEW q \in Psocks PROVE PushLocalsInv(q)'
      BY <1>2, <1>t DEF LockInv, LocalsInv, PushLocalsInv, WorkLocalsInv, PushTail
    <2>2. ASSUME NEW j \in Socks PROVE WorkLocalsInv(j)'
      BY <1>2, <1>t DEF LockInv, LocalsInv, PushLocalsInv, WorkLocalsInv, PushTail
    <2> QED BY <2>1, <2>2 DEF LocalsInv
  <1>3. ASSUME NEW p \in Psocks, PushLock(p)
        PROVE  LocalsInv'
    <2>1. ASSUME NEW q \in Psocks PROVE PushLocalsInv(q)'
      BY <1>3, <1>t DEF LockInv, LocalsInv, PushLocalsInv, WorkLocalsInv, PushLock
    <2>2. ASSUME NEW j \in Socks PROVE WorkLocalsInv(j)'
      BY <1>3, <1>t DEF LockInv, LocalsInv, PushLocalsInv, WorkLocalsInv, PushLock
    <2> QED BY <2>1, <2>2 DEF LocalsInv
  <1>4. ASSUME NEW p \in Psocks, PushAvail(p)
        PROVE  LocalsInv'
    <2>1. ASSUME NEW q \in Psocks PROVE PushLocalsInv(q)'
      BY <1>4, <1>t DEF LockInv, LocalsInv, PushLocalsInv, WorkLocalsInv, PushAvail, rakaia_get_avail_sk
    <2>2. ASSUME NEW j \in Socks PROVE WorkLocalsInv(j)'
      BY <1>4, <1>t DEF LockInv, LocalsInv, PushLocalsInv, WorkLocalsInv, PushAvail, rakaia_get_avail_sk
    <2> QED BY <2>1, <2>2 DEF LocalsInv
  <1>5. ASSUME NEW p \in Psocks, PushNoWaiter(p)
        PROVE  LocalsInv'
    <2>1. ASSUME NEW q \in Psocks PROVE PushLocalsInv(q)'
      BY <1>5, <1>t DEF LockInv, LocalsInv, PushLocalsInv, WorkLocalsInv, PushNoWaiter
    <2>2. ASSUME NEW j \in Socks PROVE WorkLocalsInv(j)'
      BY <1>5, <1>t DEF LockInv, LocalsInv, PushLocalsInv, WorkLocalsInv, PushNoWaiter
    <2> QED BY <2>1, <2>2 DEF LocalsInv
  <1>6. ASSUME NEW p \in Psocks, PushHandoff(p)
        PROVE  LocalsInv'
    <2>c. chosen[p] \in Socks /\ Head(rx_q[chosen[p]]) \in Msgs
      <3>1. chosen[p] \in Socks
        BY <1>6, PushLocals DEF PushHandoff
      <3>2. rx_q[chosen[p]] \in Seq(Msgs) /\ Len(rx_q[chosen[p]]) = 1
        BY <1>6, <3>1 DEF PushHandoff, TypeOK, LockInv, ListLockInv
      <3> QED BY <3>1, <3>2
    <2>1. ASSUME NEW q \in Psocks PROVE PushLocalsInv(q)'
      BY <1>6, <1>t, <2>c DEF LockInv, LocalsInv, PushLocalsInv, WorkLocalsInv, PushHandoff
    <2>2. ASSUME NEW j \in Socks PROVE WorkLocalsInv(j)'
      BY <1>6, <1>t, <2>c DEF LockInv, LocalsInv, PushLocalsInv, WorkLocalsInv, PushHandoff
    <2> QED BY <2>1, <2>2 DEF LocalsInv
  <1>7. ASSUME NEW p \in Psocks, PushDeliver(p)
        PROVE  LocalsInv'
    <2>1. ASSUME NEW q \in Psocks PROVE PushLocalsInv(q)'
      BY <1>7, <1>t DEF LockInv, LocalsInv, PushLocalsInv, WorkLocalsInv, PushDeliver
    <2>2. ASSUME NEW j \in Socks PROVE WorkLocalsInv(j)'
      BY <1>7, <1>t DEF LockInv, LocalsInv, PushLocalsInv, WorkLocalsInv, PushDeliver
    <2> QED BY <2>1, <2>2 DEF LocalsInv
  <1>8. ASSUME NEW k \in Socks, NEW p \in Psocks, Attach(k, p)
        PROVE  LocalsInv'
    <2>1. ASSUME NEW q \in Psocks PROVE PushLocalsInv(q)'
      BY <1>8, <1>t DEF LockInv, LocalsInv, PushLocalsInv, WorkLocalsInv, Attach
    <2>2. ASSUME NEW j \in Socks PROVE WorkLocalsInv(j)'
      BY <1>8, <1>t DEF LockInv, LocalsInv, PushLocalsInv, WorkLocalsInv, Attach
    <2> QED BY <2>1, <2>2 DEF LocalsInv
  <1>9. ASSUME NEW k \in Socks, Create(k)
        PROVE  LocalsInv'
    <2>1. ASSUME NEW q \in Psocks PROVE PushLocalsInv(q)'
      BY <1>9, <1>t DEF LockInv, LocalsInv, PushLocalsInv, WorkLocalsInv, Create
    <2>2. ASSUME NEW j \in Socks PROVE WorkLocalsInv(j)'
      BY <1>9, <1>t DEF LockInv, LocalsInv, PushLocalsInv, WorkLocalsInv, Create
    <2> QED BY <2>1, <2>2 DEF LocalsInv
  <1>10. ASSUME NEW k \in Socks, PullLocal(k)
        PROVE  LocalsInv'
    <2>c. rx_q[k] # <<>> => Head(rx_q[k]) \in Msgs
      <3>1. rx_q[k] \in Seq(Msgs)
        BY DEF TypeOK
      <3> QED BY <3>1, SeqTail
    <2>d. /\ \/ pc' = [pc EXCEPT ![k] = "steal"] /\ skb' = skb
             \/ /\ pc' = [pc EXCEPT ![k] = "got"]
                /\ \E m \in Msgs : skb' = [skb EXCEPT ![k] = m]
          /\ pc[k] = "pull"
          /\ UNCHANGED <<chosen, new_ksk, v1, v2, waiters_lock>>
      BY <1>10, <2>c DEF PullLocal
    <2>1. ASSUME NEW q \in Psocks PROVE PushLocalsInv(q)'
      BY <1>t, <2>d DEF LockInv, LocalsInv, PushLocalsInv
    <2>2. ASSUME NEW j \in Socks PROVE WorkLocalsInv(j)'
      BY <1>t, <2>d DEF LockInv, LocalsInv, WorkLocalsInv
    <2> QED BY <2>1, <2>2 DEF LocalsInv
  <1>11. ASSUME NEW k \in Socks, StealPick(k)
        PROVE  LocalsInv'
    <2>1. ASSUME NEW q \in Psocks PROVE PushLocalsInv(q)'
      BY <1>11, <1>t DEF LockInv, LocalsInv, PushLocalsInv, WorkLocalsInv, StealPick
    <2>2. ASSUME NEW j \in Socks PROVE WorkLocalsInv(j)'
      BY <1>11, <1>t DEF LockInv, LocalsInv, PushLocalsInv, WorkLocalsInv, StealPick
    <2> QED BY <2>1, <2>2 DEF LocalsInv
  <1>12. ASSUME NEW k \in Socks, StealReadLen(k)
        PROVE  LocalsInv'
    <2>1. ASSUME NEW q \in Psocks PROVE PushLocalsInv(q)'
      BY <1>12, <1>t DEF LockInv, LocalsInv, PushLocalsInv, WorkLocalsInv, StealReadLen
    <2>2. ASSUME NEW j \in Socks PROVE WorkLocalsInv(j)'
      BY <1>12, <1>t DEF LockInv, LocalsInv, PushLocalsInv, WorkLocalsInv, StealReadLen
    <2> QED BY <2>1, <2>2 DEF LocalsInv
  <1>13. ASSUME NEW k \in Socks, StealCompare(k)
        PROVE  LocalsInv'
    <2>1. ASSUME NEW q \in Psocks PROVE PushLocalsInv(q)'
      BY <1>13, <1>t DEF LockInv, LocalsInv, PushLocalsInv, WorkLocalsInv, StealCompare
    <2>2. ASSUME NEW j \in Socks PROVE WorkLocalsInv(j)'
      BY <1>13, <1>t DEF LockInv, LocalsInv, PushLocalsInv, WorkLocalsInv, StealCompare
    <2> QED BY <2>1, <2>2 DEF LocalsInv
  <1>14. ASSUME NEW k \in Socks, StealTake(k)
        PROVE  LocalsInv'
    <2>c. rx_q[v1[k]] # <<>> => Head(rx_q[v1[k]]) \in Msgs
      <3>1. v1[k] \in Socks
        BY <1>14, WorkLocals DEF StealTake
      <3>2. rx_q[v1[k]] \in Seq(Msgs)
        BY <3>1 DEF TypeOK
      <3> QED BY <3>2, SeqTail
    <2>d. /\ \/ pc' = [pc EXCEPT ![k] = "steal"] /\ skb' = skb
             \/ /\ pc' = [pc EXCEPT ![k] = "got"]
                /\ \E m \in Msgs : skb' = [skb EXCEPT ![k] = m]
          /\ pc[k] = "victim" /\ v1' = [v1 EXCEPT ![k] = NULL]
          /\ UNCHANGED <<chosen, new_ksk, v2, waiters_lock>>
      BY <1>14, <2>c DEF StealTake
    <2>1. ASSUME NEW q \in Psocks PROVE PushLocalsInv(q)'
      BY <1>t, <2>d DEF LockInv, LocalsInv, PushLocalsInv
    <2>2. ASSUME NEW j \in Socks PROVE WorkLocalsInv(j)'
      BY <1>t, <2>d DEF LockInv, LocalsInv, WorkLocalsInv
    <2> QED BY <2>1, <2>2 DEF LocalsInv
  <1>15. ASSUME NEW k \in Socks, PullDeliver(k)
        PROVE  LocalsInv'
    <2>1. ASSUME NEW q \in Psocks PROVE PushLocalsInv(q)'
      BY <1>15, <1>t DEF LockInv, LocalsInv, PushLocalsInv, WorkLocalsInv, PullDeliver
    <2>2. ASSUME NEW j \in Socks PROVE WorkLocalsInv(j)'
      BY <1>15, <1>t DEF LockInv, LocalsInv, PushLocalsInv, WorkLocalsInv, PullDeliver
    <2> QED BY <2>1, <2>2 DEF LocalsInv
  <1>16. ASSUME NEW k \in Socks, PullCheck(k)
        PROVE  LocalsInv'
    <2>1. ASSUME NEW q \in Psocks PROVE PushLocalsInv(q)'
      BY <1>16, <1>t DEF LockInv, LocalsInv, PushLocalsInv, WorkLocalsInv, PullCheck
    <2>2. ASSUME NEW j \in Socks PROVE WorkLocalsInv(j)'
      BY <1>16, <1>t DEF LockInv, LocalsInv, PushLocalsInv, WorkLocalsInv, PullCheck
    <2> QED BY <2>1, <2>2 DEF LocalsInv
  <1>17. ASSUME NEW k \in Socks, PullMark(k)
        PROVE  LocalsInv'
    <2>1. ASSUME NEW q \in Psocks PROVE PushLocalsInv(q)'
      BY <1>17, <1>t DEF LockInv, LocalsInv, PushLocalsInv, WorkLocalsInv, PullMark
    <2>2. ASSUME NEW j \in Socks PROVE WorkLocalsInv(j)'
      BY <1>17, <1>t DEF LockInv, LocalsInv, PushLocalsInv, WorkLocalsInv, PullMark
    <2> QED BY <2>1, <2>2 DEF LocalsInv
  <1>18. ASSUME NEW k \in Socks, Recvmsg(k)
        PROVE  LocalsInv'
    <2>c. Head(sk_receive_queue[k]) \in Msgs
      <3>1. sk_receive_queue[k] \in Seq(Msgs) /\ sk_receive_queue[k] # <<>>
        BY <1>18 DEF Recvmsg, TypeOK
      <3> QED BY <3>1, SeqTail
    <2>1. ASSUME NEW q \in Psocks PROVE PushLocalsInv(q)'
      BY <1>18, <1>t, <2>c DEF LockInv, LocalsInv, PushLocalsInv, WorkLocalsInv, Recvmsg
    <2>2. ASSUME NEW j \in Socks PROVE WorkLocalsInv(j)'
      BY <1>18, <1>t, <2>c DEF LockInv, LocalsInv, PushLocalsInv, WorkLocalsInv, Recvmsg
    <2> QED BY <2>1, <2>2 DEF LocalsInv
  <1>19. ASSUME NEW k \in Socks, Sendmsg(k)
        PROVE  LocalsInv'
    <2>1. ASSUME NEW q \in Psocks PROVE PushLocalsInv(q)'
      BY <1>19, <1>t DEF LockInv, LocalsInv, PushLocalsInv, WorkLocalsInv, Sendmsg
    <2>2. ASSUME NEW j \in Socks PROVE WorkLocalsInv(j)'
      BY <1>19, <1>t DEF LockInv, LocalsInv, PushLocalsInv, WorkLocalsInv, Sendmsg
    <2> QED BY <2>1, <2>2 DEF LocalsInv
  <1>20. CASE UNCHANGED vars
    BY <1>20 DEF vars, LockInv, LocalsInv, PushLocalsInv, WorkLocalsInv
  <1> QED BY <1>1, <1>2, <1>3, <1>4, <1>5, <1>6, <1>7, <1>8, <1>9, <1>10, <1>11, <1>12, <1>13, <1>14, <1>15, <1>16, <1>17, <1>18, <1>19, <1>20
          DEF Next, Push, Worker, Pull

-----------------------------------------------------------------------------
(* The list locks and the bitmap of nonempty receive queues.               *)


\* A step that changes neither the queues, their locks and bits, nor the place or
\* the choice of a push keeps the list-lock discipline and the bitmap.
LEMMA RxFrame ==
    ASSUME ListLockInv, BitmapExact, UNCHANGED <<rxVars, chosen>>,
           \A q \in Psocks : pc'[q] = pc[q]
    PROVE  ListLockInv' /\ BitmapExact'
  BY DEF ListLockInv, BitmapExact, rxVars

\* Nor does a psock that goes idle from a step at which it holds no lock.
LEMMA IdleFrame ==
    ASSUME ListLockInv, BitmapExact, NEW p \in Psocks,
           pc \in [Socks \cup Psocks -> PushPC \cup WorkPC],
           pc[p] \in {"deliver", "detached"}, pc' = [pc EXCEPT ![p] = "idle"],
           UNCHANGED <<rx_q, rx_lock, rx_nonempty_bm, chosen>>
    PROVE  ListLockInv' /\ BitmapExact'
  <1>1. \A q \in Psocks : \A a \in {"locked", "nowaiter", "handoff"} :
            pc'[q] = a <=> pc[q] = a
    OBVIOUS
  <1>2. ListLockInv'
    BY <1>1 DEF ListLockInv
  <1> QED BY <1>2 DEF BitmapExact

\* The list locks exclude: a second push waits and a pull never meets a push,
\* and with that every step keeps the bitmap exact on the queues whose lock is free.
LEMMA RxStep ==
    TypeOK /\ LockInv /\ BitmapExact /\ [Next]_vars => ListLockInv' /\ BitmapExact'
  <1> SUFFICES ASSUME TypeOK, LockInv, BitmapExact, [Next]_vars
               PROVE  ListLockInv' /\ BitmapExact'
    OBVIOUS
  <1>t. /\ pc \in [Socks \cup Psocks -> PushPC \cup WorkPC]
        /\ rx_q \in [Socks -> Seq(Msgs)]
        /\ rx_lock \in [Socks -> Psocks \cup {NULL}]
        /\ rx_nonempty_bm \subseteq Socks
        /\ chosen \in [Psocks -> Socks \cup {NULL}]
        /\ NULL \notin Socks \cup Psocks \cup Msgs /\ Socks \cap Psocks = {}
    BY ConstAssumption DEF TypeOK
  <1>l. ListLockInv
    BY DEF LockInv
  <1> USE DEF rxVars, waitVars, stealVars, pushVars, GoTo
  <1>1. ASSUME NEW p \in Psocks, PushChoose(p)
        PROVE  ListLockInv' /\ BitmapExact'
    <2>1. ASSUME NEW q \in Psocks, NEW j \in Socks
          PROVE  rx_lock'[j] = q <=>
                   chosen'[q] = j /\ pc'[q] \in {"locked", "nowaiter", "handoff"}
      BY <1>1, <1>t, <1>l DEF ListLockInv, PushChoose
    <2>2. ASSUME NEW j \in Socks, rx_lock'[j] # NULL PROVE j \notin rx_nonempty_bm'
      BY <1>1, <1>t, <1>l, <2>2 DEF ListLockInv, BitmapExact, PushChoose
    <2>3. ASSUME NEW q \in Psocks
          PROVE  /\ pc'[q] = "locked" => rx_q'[chosen'[q]] = <<>>
                 /\ pc'[q] \in {"nowaiter", "handoff"} => Len(rx_q'[chosen'[q]]) = 1
      BY <1>1, <1>t, <1>l DEF ListLockInv, PushChoose
    <2>4. ASSUME NEW j \in Socks, rx_lock'[j] = NULL
          PROVE  j \in rx_nonempty_bm' <=> rx_q'[j] # <<>>
      BY <1>1, <1>t, <1>l, <2>4 DEF ListLockInv, BitmapExact, PushChoose
    <2> QED BY <2>1, <2>2, <2>3, <2>4 DEF ListLockInv, BitmapExact
  <1>2. ASSUME NEW p \in Psocks, PushTail(p)
        PROVE  ListLockInv' /\ BitmapExact'
    <2>c. chosen[p] \in Socks /\ p \in Socks \cup Psocks
      BY <1>2, PushLocals DEF PushTail
    <2>5. skb[p] \in Msgs
      BY <1>2, PushLocals DEF PushTail
    <2>6. /\ Len(Append(rx_q[chosen[p]], skb[p])) = Len(rx_q[chosen[p]]) + 1
          /\ Len(rx_q[chosen[p]]) \in Nat
          /\ Append(rx_q[chosen[p]], skb[p]) # <<>>
      BY <1>t, <2>c, <2>5
    <2>1. ASSUME NEW q \in Psocks, NEW j \in Socks
          PROVE  rx_lock'[j] = q <=>
                   chosen'[q] = j /\ pc'[q] \in {"locked", "nowaiter", "handoff"}
      BY <1>2, <1>t, <1>l, <2>c, <2>6 DEF ListLockInv, PushTail
    <2>2. ASSUME NEW j \in Socks, rx_lock'[j] # NULL PROVE j \notin rx_nonempty_bm'
      BY <1>2, <1>t, <1>l, <2>c, <2>6, <2>2 DEF ListLockInv, BitmapExact, PushTail
    <2>3. ASSUME NEW q \in Psocks
          PROVE  /\ pc'[q] = "locked" => rx_q'[chosen'[q]] = <<>>
                 /\ pc'[q] \in {"nowaiter", "handoff"} => Len(rx_q'[chosen'[q]]) = 1
      BY <1>2, <1>t, <1>l, <2>c, <2>6 DEF ListLockInv, PushTail
    <2>4. ASSUME NEW j \in Socks, rx_lock'[j] = NULL
          PROVE  j \in rx_nonempty_bm' <=> rx_q'[j] # <<>>
      BY <1>2, <1>t, <1>l, <2>c, <2>6, <2>4 DEF ListLockInv, BitmapExact, PushTail
    <2> QED BY <2>1, <2>2, <2>3, <2>4 DEF ListLockInv, BitmapExact
  <1>3. ASSUME NEW p \in Psocks, PushLock(p)
        PROVE  ListLockInv' /\ BitmapExact'
    <2>c. chosen[p] \in Socks /\ p \in Socks \cup Psocks
      BY <1>3, PushLocals DEF PushLock
    <2>1. ASSUME NEW q \in Psocks, NEW j \in Socks
          PROVE  rx_lock'[j] = q <=>
                   chosen'[q] = j /\ pc'[q] \in {"locked", "nowaiter", "handoff"}
      BY <1>3, <1>t, <1>l, <2>c DEF ListLockInv, PushLock
    <2>2. ASSUME NEW j \in Socks, rx_lock'[j] # NULL PROVE j \notin rx_nonempty_bm'
      BY <1>3, <1>t, <1>l, <2>c, <2>2 DEF ListLockInv, BitmapExact, PushLock
    <2>3. ASSUME NEW q \in Psocks
          PROVE  /\ pc'[q] = "locked" => rx_q'[chosen'[q]] = <<>>
                 /\ pc'[q] \in {"nowaiter", "handoff"} => Len(rx_q'[chosen'[q]]) = 1
      BY <1>3, <1>t, <1>l, <2>c DEF ListLockInv, PushLock
    <2>4. ASSUME NEW j \in Socks, rx_lock'[j] = NULL
          PROVE  j \in rx_nonempty_bm' <=> rx_q'[j] # <<>>
      BY <1>3, <1>t, <1>l, <2>c, <2>4 DEF ListLockInv, BitmapExact, PushLock
    <2> QED BY <2>1, <2>2, <2>3, <2>4 DEF ListLockInv, BitmapExact
  <1>4. ASSUME NEW p \in Psocks, PushAvail(p)
        PROVE  ListLockInv' /\ BitmapExact'
    <2>c. chosen[p] \in Socks /\ p \in Socks \cup Psocks
      BY <1>4, PushLocals DEF PushAvail
    <2>5. skb[p] \in Msgs
      BY <1>4, PushLocals DEF PushAvail
    <2>6. /\ Len(Append(rx_q[chosen[p]], skb[p])) = Len(rx_q[chosen[p]]) + 1
          /\ Len(rx_q[chosen[p]]) \in Nat
          /\ Append(rx_q[chosen[p]], skb[p]) # <<>>
      BY <1>t, <2>c, <2>5
    <2>1. ASSUME NEW q \in Psocks, NEW j \in Socks
          PROVE  rx_lock'[j] = q <=>
                   chosen'[q] = j /\ pc'[q] \in {"locked", "nowaiter", "handoff"}
      BY <1>4, <1>t, <1>l, <2>c, <2>6 DEF ListLockInv, PushAvail
    <2>2. ASSUME NEW j \in Socks, rx_lock'[j] # NULL PROVE j \notin rx_nonempty_bm'
      BY <1>4, <1>t, <1>l, <2>c, <2>6, <2>2 DEF ListLockInv, BitmapExact, PushAvail
    <2>3. ASSUME NEW q \in Psocks
          PROVE  /\ pc'[q] = "locked" => rx_q'[chosen'[q]] = <<>>
                 /\ pc'[q] \in {"nowaiter", "handoff"} => Len(rx_q'[chosen'[q]]) = 1
      BY <1>4, <1>t, <1>l, <2>c, <2>6 DEF ListLockInv, PushAvail
    <2>4. ASSUME NEW j \in Socks, rx_lock'[j] = NULL
          PROVE  j \in rx_nonempty_bm' <=> rx_q'[j] # <<>>
      BY <1>4, <1>t, <1>l, <2>c, <2>6, <2>4 DEF ListLockInv, BitmapExact, PushAvail
    <2> QED BY <2>1, <2>2, <2>3, <2>4 DEF ListLockInv, BitmapExact
  <1>5. ASSUME NEW p \in Psocks, PushNoWaiter(p)
        PROVE  ListLockInv' /\ BitmapExact'
    <2>c. chosen[p] \in Socks /\ p \in Socks \cup Psocks
      BY <1>5, PushLocals DEF PushNoWaiter
    <2>5. rx_q[chosen[p]] # <<>>
      BY <1>5, <1>l DEF ListLockInv, PushNoWaiter
    <2>1. ASSUME NEW q \in Psocks, NEW j \in Socks
          PROVE  rx_lock'[j] = q <=>
                   chosen'[q] = j /\ pc'[q] \in {"locked", "nowaiter", "handoff"}
      BY <1>5, <1>t, <1>l, <2>c, <2>5 DEF ListLockInv, PushNoWaiter
    <2>2. ASSUME NEW j \in Socks, rx_lock'[j] # NULL PROVE j \notin rx_nonempty_bm'
      BY <1>5, <1>t, <1>l, <2>c, <2>5, <2>2 DEF ListLockInv, BitmapExact, PushNoWaiter
    <2>3. ASSUME NEW q \in Psocks
          PROVE  /\ pc'[q] = "locked" => rx_q'[chosen'[q]] = <<>>
                 /\ pc'[q] \in {"nowaiter", "handoff"} => Len(rx_q'[chosen'[q]]) = 1
      BY <1>5, <1>t, <1>l, <2>c, <2>5 DEF ListLockInv, PushNoWaiter
    <2>4. ASSUME NEW j \in Socks, rx_lock'[j] = NULL
          PROVE  j \in rx_nonempty_bm' <=> rx_q'[j] # <<>>
      BY <1>5, <1>t, <1>l, <2>c, <2>5, <2>4 DEF ListLockInv, BitmapExact, PushNoWaiter
    <2> QED BY <2>1, <2>2, <2>3, <2>4 DEF ListLockInv, BitmapExact
  <1>6. ASSUME NEW p \in Psocks, PushHandoff(p)
        PROVE  ListLockInv' /\ BitmapExact'
    <2>c. chosen[p] \in Socks /\ p \in Socks \cup Psocks
      BY <1>6, PushLocals DEF PushHandoff
    <2>5. Len(rx_q[chosen[p]]) = 1
      BY <1>6, <1>l DEF ListLockInv, PushHandoff
    <2>6. rx_q[chosen[p]] # <<>> /\ Tail(rx_q[chosen[p]]) = <<>>
      BY <1>t, <2>c, <2>5, OneElement
    <2>1. ASSUME NEW q \in Psocks, NEW j \in Socks
          PROVE  rx_lock'[j] = q <=>
                   chosen'[q] = j /\ pc'[q] \in {"locked", "nowaiter", "handoff"}
      BY <1>6, <1>t, <1>l, <2>c, <2>5, <2>6 DEF ListLockInv, PushHandoff
    <2>2. ASSUME NEW j \in Socks, rx_lock'[j] # NULL PROVE j \notin rx_nonempty_bm'
      BY <1>6, <1>t, <1>l, <2>c, <2>5, <2>6, <2>2 DEF ListLockInv, BitmapExact, PushHandoff
    <2>3. ASSUME NEW q \in Psocks
          PROVE  /\ pc'[q] = "locked" => rx_q'[chosen'[q]] = <<>>
                 /\ pc'[q] \in {"nowaiter", "handoff"} => Len(rx_q'[chosen'[q]]) = 1
      BY <1>6, <1>t, <1>l, <2>c, <2>5, <2>6 DEF ListLockInv, PushHandoff
    <2>4. ASSUME NEW j \in Socks, rx_lock'[j] = NULL
          PROVE  j \in rx_nonempty_bm' <=> rx_q'[j] # <<>>
      BY <1>6, <1>t, <1>l, <2>c, <2>5, <2>6, <2>4 DEF ListLockInv, BitmapExact, PushHandoff
    <2> QED BY <2>1, <2>2, <2>3, <2>4 DEF ListLockInv, BitmapExact
  <1>7. ASSUME NEW p \in Psocks, PushDeliver(p)
        PROVE  ListLockInv' /\ BitmapExact'
    <2>1. /\ UNCHANGED <<rx_q, rx_lock, rx_nonempty_bm, chosen>>
          /\ pc[p] = "deliver" /\ pc' = [pc EXCEPT ![p] = "idle"]
      BY <1>7 DEF PushDeliver
    <2> QED BY <1>t, <1>l, <2>1, IdleFrame, Zenon
  <1>8. ASSUME NEW k \in Socks, NEW p \in Psocks, Attach(k, p)
        PROVE  ListLockInv' /\ BitmapExact'
    <2>1. /\ UNCHANGED <<rx_q, rx_lock, rx_nonempty_bm, chosen>>
          /\ pc[p] = "detached" /\ pc' = [pc EXCEPT ![p] = "idle"]
      BY <1>8 DEF Attach
    <2> QED BY <1>t, <1>l, <2>1, IdleFrame, Zenon
  <1>9. ASSUME NEW k \in Socks, Create(k)
        PROVE  ListLockInv' /\ BitmapExact'
    <2>1. UNCHANGED <<rxVars, chosen>> /\ \A q \in Psocks : pc'[q] = pc[q]
      BY <1>9, <1>t DEF Create
    <2> QED BY <1>l, <2>1, RxFrame
  <1>10. ASSUME NEW k \in Socks, PullLocal(k)
        PROVE  ListLockInv' /\ BitmapExact'
    <2>c. k \in Socks /\ k \in Socks \cup Psocks /\ k \notin Psocks
      BY <1>10, WorkLocals DEF PullLocal
    <2>1. CASE rx_q[k] = <<>>
      <3>1. UNCHANGED <<rxVars, chosen>> /\ \A q \in Psocks : pc'[q] = pc[q]
        BY <1>10, <1>t, <2>c, <2>1 DEF PullLocal
      <3> QED BY <1>l, <3>1, RxFrame
    <2>2. CASE rx_q[k] # <<>>
      <3>1. /\ rx_q' = [rx_q EXCEPT ![k] = Tail(rx_q[k])]
            /\ rx_nonempty_bm' = IF Len(rx_q[k]) = 1 THEN rx_nonempty_bm \ {k}
                                                        ELSE rx_nonempty_bm
            /\ rx_lock' = rx_lock /\ rx_lock[k] = NULL /\ chosen' = chosen
            /\ \A q \in Psocks : pc'[q] = pc[q]
        BY <1>10, <1>t, <2>c, <2>2 DEF PullLocal, Dequeue
      <3>2. Len(rx_q[k]) = 1 <=> Tail(rx_q[k]) = <<>>
        BY <1>t, <2>c, <2>2, TailEmpty
      <3>3. /\ \A q \in Psocks : pc[q] \in {"locked", "nowaiter", "handoff"} =>
                   chosen[q] \in Socks /\ chosen[q] # k
        <4>1. \A q \in Psocks : pc[q] \in {"locked", "nowaiter", "handoff"} => chosen[q] \in Socks
          BY PushLocals
        <4>2. \A q \in Psocks : rx_lock[k] # q
          BY <1>t, <3>1
        <4> QED BY <1>l, <2>c, <4>1, <4>2 DEF ListLockInv
      <3>4. ListLockInv'
        <4>1. \A j \in Socks : rx_lock'[j] # NULL => j \notin rx_nonempty_bm'
          BY <1>l, <3>1 DEF ListLockInv
        <4>2. ASSUME NEW q \in Psocks
              PROVE  /\ pc'[q] = "locked" => rx_q'[chosen'[q]] = <<>>
                     /\ pc'[q] \in {"nowaiter", "handoff"} => Len(rx_q'[chosen'[q]]) = 1
          BY <1>t, <1>l, <2>c, <3>1, <3>3 DEF ListLockInv
        <4>3. ASSUME NEW q \in Psocks, NEW j \in Socks
              PROVE  rx_lock'[j] = q <=>
                       chosen'[q] = j /\ pc'[q] \in {"locked", "nowaiter", "handoff"}
          BY <1>l, <3>1 DEF ListLockInv
        <4> QED BY <4>1, <4>2, <4>3 DEF ListLockInv
      <3>5. BitmapExact'
        BY <1>t, <2>c, <2>2, <3>1, <3>2 DEF BitmapExact
      <3> QED BY <3>4, <3>5
    <2> QED BY <2>1, <2>2
  <1>11. ASSUME NEW k \in Socks, StealPick(k)
        PROVE  ListLockInv' /\ BitmapExact'
    <2>1. UNCHANGED <<rxVars, chosen>> /\ \A q \in Psocks : pc'[q] = pc[q]
      BY <1>11, <1>t DEF StealPick
    <2> QED BY <1>l, <2>1, RxFrame
  <1>12. ASSUME NEW k \in Socks, StealReadLen(k)
        PROVE  ListLockInv' /\ BitmapExact'
    <2>1. UNCHANGED <<rxVars, chosen>> /\ \A q \in Psocks : pc'[q] = pc[q]
      BY <1>12, <1>t DEF StealReadLen
    <2> QED BY <1>l, <2>1, RxFrame
  <1>13. ASSUME NEW k \in Socks, StealCompare(k)
        PROVE  ListLockInv' /\ BitmapExact'
    <2>1. UNCHANGED <<rxVars, chosen>> /\ \A q \in Psocks : pc'[q] = pc[q]
      BY <1>13, <1>t DEF StealCompare
    <2> QED BY <1>l, <2>1, RxFrame
  <1>14. ASSUME NEW k \in Socks, StealTake(k)
        PROVE  ListLockInv' /\ BitmapExact'
    <2>c. v1[k] \in Socks /\ k \in Socks \cup Psocks /\ k \notin Psocks
      BY <1>14, WorkLocals DEF StealTake
    <2>1. CASE rx_q[v1[k]] = <<>>
      <3>1. UNCHANGED <<rxVars, chosen>> /\ \A q \in Psocks : pc'[q] = pc[q]
        BY <1>14, <1>t, <2>c, <2>1 DEF StealTake
      <3> QED BY <1>l, <3>1, RxFrame
    <2>2. CASE rx_q[v1[k]] # <<>>
      <3>1. /\ rx_q' = [rx_q EXCEPT ![v1[k]] = Tail(rx_q[v1[k]])]
            /\ rx_nonempty_bm' = IF Len(rx_q[v1[k]]) = 1 THEN rx_nonempty_bm \ {v1[k]}
                                                        ELSE rx_nonempty_bm
            /\ rx_lock' = rx_lock /\ rx_lock[v1[k]] = NULL /\ chosen' = chosen
            /\ \A q \in Psocks : pc'[q] = pc[q]
        BY <1>14, <1>t, <2>c, <2>2 DEF StealTake, Dequeue
      <3>2. Len(rx_q[v1[k]]) = 1 <=> Tail(rx_q[v1[k]]) = <<>>
        BY <1>t, <2>c, <2>2, TailEmpty, Zenon
      <3>3. /\ \A q \in Psocks : pc[q] \in {"locked", "nowaiter", "handoff"} =>
                   chosen[q] \in Socks /\ chosen[q] # v1[k]
        <4>1. \A q \in Psocks : pc[q] \in {"locked", "nowaiter", "handoff"} => chosen[q] \in Socks
          BY PushLocals
        <4>2. \A q \in Psocks : rx_lock[v1[k]] # q
          BY <1>t, <3>1
        <4>3. \A q \in Psocks : pc[q] \in {"locked", "nowaiter", "handoff"} => rx_lock[chosen[q]] = q
          BY <1>l, <4>1, Zenon DEF ListLockInv
        <4> QED BY <4>1, <4>2, <4>3, Zenon
      <3>4. ListLockInv'
        <4>1. \A j \in Socks : rx_lock'[j] # NULL => j \notin rx_nonempty_bm'
          BY <1>l, <3>1 DEF ListLockInv
        <4>2. ASSUME NEW q \in Psocks
              PROVE  /\ pc'[q] = "locked" => rx_q'[chosen'[q]] = <<>>
                     /\ pc'[q] \in {"nowaiter", "handoff"} => Len(rx_q'[chosen'[q]]) = 1
          BY <1>t, <1>l, <2>c, <3>1, <3>3 DEF ListLockInv
        <4>3. ASSUME NEW q \in Psocks, NEW j \in Socks
              PROVE  rx_lock'[j] = q <=>
                       chosen'[q] = j /\ pc'[q] \in {"locked", "nowaiter", "handoff"}
          BY <1>l, <3>1 DEF ListLockInv
        <4> QED BY <4>1, <4>2, <4>3 DEF ListLockInv
      <3>5. BitmapExact'
        BY <1>t, <2>c, <2>2, <3>1, <3>2 DEF BitmapExact
      <3> QED BY <3>4, <3>5
    <2> QED BY <2>1, <2>2
  <1>15. ASSUME NEW k \in Socks, PullDeliver(k)
        PROVE  ListLockInv' /\ BitmapExact'
    <2>1. UNCHANGED <<rxVars, chosen>> /\ \A q \in Psocks : pc'[q] = pc[q]
      BY <1>15, <1>t, Zenon DEF PullDeliver
    <2> QED BY <1>l, <2>1, RxFrame
  <1>16. ASSUME NEW k \in Socks, PullCheck(k)
        PROVE  ListLockInv' /\ BitmapExact'
    <2>1. UNCHANGED <<rxVars, chosen>> /\ \A q \in Psocks : pc'[q] = pc[q]
      BY <1>16, <1>t DEF PullCheck
    <2> QED BY <1>l, <2>1, RxFrame
  <1>17. ASSUME NEW k \in Socks, PullMark(k)
        PROVE  ListLockInv' /\ BitmapExact'
    <2>1. UNCHANGED <<rxVars, chosen>> /\ \A q \in Psocks : pc'[q] = pc[q]
      BY <1>17, <1>t DEF PullMark
    <2> QED BY <1>l, <2>1, RxFrame
  <1>18. ASSUME NEW k \in Socks, Recvmsg(k)
        PROVE  ListLockInv' /\ BitmapExact'
    <2>1. UNCHANGED <<rxVars, chosen>> /\ \A q \in Psocks : pc'[q] = pc[q]
      BY <1>18, <1>t DEF Recvmsg
    <2> QED BY <1>l, <2>1, RxFrame
  <1>19. ASSUME NEW k \in Socks, Sendmsg(k)
        PROVE  ListLockInv' /\ BitmapExact'
    <2>1. UNCHANGED <<rxVars, chosen>> /\ \A q \in Psocks : pc'[q] = pc[q]
      BY <1>19, <1>t DEF Sendmsg
    <2> QED BY <1>l, <2>1, RxFrame
  <1>20. CASE UNCHANGED vars
    BY <1>l, <1>20, RxFrame DEF vars
  <1> QED BY <1>1, <1>2, <1>3, <1>4, <1>5, <1>6, <1>7, <1>8, <1>9, <1>10, <1>11, <1>12, <1>13, <1>14, <1>15, <1>16, <1>17, <1>18, <1>19, <1>20
          DEF Next, Push, Worker, Pull

-----------------------------------------------------------------------------
(* The waiter list, its bitmap and the workers it accounts for.            *)


\* The waiter list and its bitmap stay as they are, and no socket goes back to
\* rakaia_create.
LEMMA WaitersFrame ==
    ASSUME WaitersExact, CreateInv, UNCHANGED <<ksk_waiters, waiters_bm>>,
           \A j \in Socks : pc'[j] = "create" => pc[j] = "create"
    PROVE  WaitersExact' /\ CreateInv'
  BY DEF WaitersExact, CreateInv


\* A socket is linked once, and the bitmap says so, after every step.
LEMMA WaitersStep ==
    TypeOK /\ WaitersExact /\ CreateInv /\ [Next]_vars => WaitersExact' /\ CreateInv'
  <1> SUFFICES ASSUME TypeOK, WaitersExact, CreateInv, [Next]_vars
               PROVE  WaitersExact' /\ CreateInv'
    OBVIOUS
  <1>t. /\ pc \in [Socks \cup Psocks -> PushPC \cup WorkPC]
        /\ ksk_waiters \in Seq(Socks)
        /\ waiters_bm \subseteq Socks
        /\ Socks \cap Psocks = {}
    BY ConstAssumption DEF TypeOK
  <1> USE DEF rxVars, waitVars, stealVars, pushVars, GoTo
  <1>1. ASSUME NEW p \in Psocks, PushChoose(p)
        PROVE  WaitersExact' /\ CreateInv'
    <2>1. /\ UNCHANGED <<ksk_waiters, waiters_bm>>
          /\ \A j \in Socks : pc'[j] = "create" => pc[j] = "create"
      BY <1>1, <1>t DEF PushChoose
    <2> QED BY <2>1, WaitersFrame
  <1>2. ASSUME NEW p \in Psocks, PushTail(p)
        PROVE  WaitersExact' /\ CreateInv'
    <2>1. /\ UNCHANGED <<ksk_waiters, waiters_bm>>
          /\ \A j \in Socks : pc'[j] = "create" => pc[j] = "create"
      BY <1>2, <1>t DEF PushTail
    <2> QED BY <2>1, WaitersFrame
  <1>3. ASSUME NEW p \in Psocks, PushLock(p)
        PROVE  WaitersExact' /\ CreateInv'
    <2>1. /\ UNCHANGED <<ksk_waiters, waiters_bm>>
          /\ \A j \in Socks : pc'[j] = "create" => pc[j] = "create"
      BY <1>3, <1>t DEF PushLock
    <2> QED BY <2>1, WaitersFrame
  <1>4. ASSUME NEW p \in Psocks, PushAvail(p)
        PROVE  WaitersExact' /\ CreateInv'
    <2>1. \A j \in Socks : pc'[j] = pc[j]
      BY <1>4, <1>t DEF PushAvail
    <2>2. CASE UNCHANGED <<ksk_waiters, waiters_bm>>
      BY <2>1, <2>2, WaitersFrame
    <2>3. CASE rakaia_get_avail_sk(p, chosen[p])
      <3>1. PICK i \in DOMAIN ksk_waiters :
              /\ ksk_waiters' = list_del_init(ksk_waiters, i)
              /\ waiters_bm' = waiters_bm \ {ksk_waiters[i]}
        BY <2>3 DEF rakaia_get_avail_sk
      <3>2. /\ IsInjective(list_del_init(ksk_waiters, i))
            /\ Range(list_del_init(ksk_waiters, i)) = Range(ksk_waiters) \ {ksk_waiters[i]}
        BY <1>t, ListDelInjective DEF WaitersExact
      <3> QED BY <2>1, <3>1, <3>2 DEF WaitersExact, CreateInv
    <2> QED BY <1>4, <2>2, <2>3 DEF PushAvail
  <1>5. ASSUME NEW p \in Psocks, PushNoWaiter(p)
        PROVE  WaitersExact' /\ CreateInv'
    <2>1. /\ UNCHANGED <<ksk_waiters, waiters_bm>>
          /\ \A j \in Socks : pc'[j] = "create" => pc[j] = "create"
      BY <1>5, <1>t DEF PushNoWaiter
    <2> QED BY <2>1, WaitersFrame
  <1>6. ASSUME NEW p \in Psocks, PushHandoff(p)
        PROVE  WaitersExact' /\ CreateInv'
    <2>1. /\ UNCHANGED <<ksk_waiters, waiters_bm>>
          /\ \A j \in Socks : pc'[j] = "create" => pc[j] = "create"
      BY <1>6, <1>t DEF PushHandoff
    <2> QED BY <2>1, WaitersFrame
  <1>7. ASSUME NEW p \in Psocks, PushDeliver(p)
        PROVE  WaitersExact' /\ CreateInv'
    <2>1. /\ UNCHANGED <<ksk_waiters, waiters_bm>>
          /\ \A j \in Socks : pc'[j] = "create" => pc[j] = "create"
      BY <1>7, <1>t DEF PushDeliver
    <2> QED BY <2>1, WaitersFrame
  <1>8. ASSUME NEW k \in Socks, NEW p \in Psocks, Attach(k, p)
        PROVE  WaitersExact' /\ CreateInv'
    <2>1. /\ UNCHANGED <<ksk_waiters, waiters_bm>>
          /\ \A j \in Socks : pc'[j] = "create" => pc[j] = "create"
      BY <1>8, <1>t DEF Attach
    <2> QED BY <2>1, WaitersFrame
  <1>9. ASSUME NEW k \in Socks, Create(k)
        PROVE  WaitersExact' /\ CreateInv'
    <2>1. k \notin Range(ksk_waiters)
      BY <1>9, <1>t DEF WaitersExact, CreateInv, Create
    <2>2. /\ IsInjective(Append(ksk_waiters, k))
            /\ Range(Append(ksk_waiters, k)) = Range(ksk_waiters) \cup {k}
      BY <1>t, <2>1, AppendInjectiveSet DEF WaitersExact
    <2>3. WaitersExact'
      BY <1>9, <1>t, <2>2 DEF WaitersExact, Create
    <2>4. CreateInv'
      BY <1>9, <1>t, <1>t DEF CreateInv, Create
    <2> QED BY <2>3, <2>4
  <1>10. ASSUME NEW k \in Socks, PullLocal(k)
        PROVE  WaitersExact' /\ CreateInv'
    <2>1. /\ UNCHANGED <<ksk_waiters, waiters_bm>>
          /\ \A j \in Socks : pc'[j] = "create" => pc[j] = "create"
      BY <1>10, <1>t DEF PullLocal
    <2> QED BY <2>1, WaitersFrame
  <1>11. ASSUME NEW k \in Socks, StealPick(k)
        PROVE  WaitersExact' /\ CreateInv'
    <2>1. /\ UNCHANGED <<ksk_waiters, waiters_bm>>
          /\ \A j \in Socks : pc'[j] = "create" => pc[j] = "create"
      BY <1>11, <1>t DEF StealPick
    <2> QED BY <2>1, WaitersFrame
  <1>12. ASSUME NEW k \in Socks, StealReadLen(k)
        PROVE  WaitersExact' /\ CreateInv'
    <2>1. /\ UNCHANGED <<ksk_waiters, waiters_bm>>
          /\ \A j \in Socks : pc'[j] = "create" => pc[j] = "create"
      BY <1>12, <1>t DEF StealReadLen
    <2> QED BY <2>1, WaitersFrame
  <1>13. ASSUME NEW k \in Socks, StealCompare(k)
        PROVE  WaitersExact' /\ CreateInv'
    <2>1. /\ UNCHANGED <<ksk_waiters, waiters_bm>>
          /\ \A j \in Socks : pc'[j] = "create" => pc[j] = "create"
      BY <1>13, <1>t DEF StealCompare
    <2> QED BY <2>1, WaitersFrame
  <1>14. ASSUME NEW k \in Socks, StealTake(k)
        PROVE  WaitersExact' /\ CreateInv'
    <2>1. /\ UNCHANGED <<ksk_waiters, waiters_bm>>
          /\ \A j \in Socks : pc'[j] = "create" => pc[j] = "create"
      BY <1>14, <1>t DEF StealTake
    <2> QED BY <2>1, WaitersFrame
  <1>15. ASSUME NEW k \in Socks, PullDeliver(k)
        PROVE  WaitersExact' /\ CreateInv'
    <2>1. /\ UNCHANGED <<ksk_waiters, waiters_bm>>
          /\ \A j \in Socks : pc'[j] = "create" => pc[j] = "create"
      BY <1>15, <1>t DEF PullDeliver
    <2> QED BY <2>1, WaitersFrame
  <1>16. ASSUME NEW k \in Socks, PullCheck(k)
        PROVE  WaitersExact' /\ CreateInv'
    <2>1. /\ UNCHANGED <<ksk_waiters, waiters_bm>>
          /\ \A j \in Socks : pc'[j] = "create" => pc[j] = "create"
      BY <1>16, <1>t DEF PullCheck
    <2> QED BY <2>1, WaitersFrame
  <1>17. ASSUME NEW k \in Socks, PullMark(k)
        PROVE  WaitersExact' /\ CreateInv'
    <2>1. CASE k \in waiters_bm
      <3>1. /\ UNCHANGED <<ksk_waiters, waiters_bm>>
            /\ \A j \in Socks : pc'[j] = "create" => pc[j] = "create"
        BY <1>17, <1>t, <2>1 DEF PullMark
      <3> QED BY <3>1, WaitersFrame
    <2>2. CASE k \notin waiters_bm
      <3>1. k \notin Range(ksk_waiters)
        BY <1>17, <2>2 DEF WaitersExact, CreateInv, PullMark
      <3>2. /\ IsInjective(Append(ksk_waiters, k))
            /\ Range(Append(ksk_waiters, k)) = Range(ksk_waiters) \cup {k}
        BY <1>t, <3>1, AppendInjectiveSet DEF WaitersExact
      <3>3. WaitersExact'
        BY <1>17, <2>2, <3>2, Zenon DEF WaitersExact, PullMark
      <3>4. CreateInv'
        BY <1>17, <2>2, <1>t DEF CreateInv, PullMark
      <3> QED BY <3>3, <3>4
    <2> QED BY <2>1, <2>2
  <1>18. ASSUME NEW k \in Socks, Recvmsg(k)
        PROVE  WaitersExact' /\ CreateInv'
    <2>1. /\ UNCHANGED <<ksk_waiters, waiters_bm>>
          /\ \A j \in Socks : pc'[j] = "create" => pc[j] = "create"
      BY <1>18, <1>t DEF Recvmsg
    <2> QED BY <2>1, WaitersFrame
  <1>19. ASSUME NEW k \in Socks, Sendmsg(k)
        PROVE  WaitersExact' /\ CreateInv'
    <2>1. /\ UNCHANGED <<ksk_waiters, waiters_bm>>
          /\ \A j \in Socks : pc'[j] = "create" => pc[j] = "create"
      BY <1>19, <1>t DEF Sendmsg
    <2> QED BY <2>1, WaitersFrame
  <1>20. CASE UNCHANGED vars
    BY <1>20, WaitersFrame DEF vars
  <1> QED BY <1>1, <1>2, <1>3, <1>4, <1>5, <1>6, <1>7, <1>8, <1>9, <1>10, <1>11, <1>12, <1>13, <1>14, <1>15, <1>16, <1>17, <1>18, <1>19, <1>20
          DEF Next, Push, Worker, Pull

\* A socket stays accounted for while nothing is taken from it.
LEMMA AccountedFrame ==
    ASSUME NEW j \in Socks, Accounted(j),
           pc'[j] = "epoll" => pc[j] = "epoll",
           sk_receive_queue[j] # <<>> => sk_receive_queue'[j] # <<>>,
           UNCHANGED <<waiters_bm, new_ksk>>
    PROVE  Accounted(j)'
  BY DEF Accounted

\* A delivery that cannot fail leaves a message with the socket.
LEMMA QueueRcvDelivers ==
    ASSUME TypeOK, NoFailure, NEW k \in Socks, NEW m \in Msgs, rakaia_queue_rcv_skb(k, m)
    PROVE  /\ sk_receive_queue'[k] # <<>>
           /\ \A j \in Socks : sk_receive_queue[j] # <<>> => sk_receive_queue'[j] # <<>>
  <1>1. sk_receive_queue \in [Socks -> Seq(Msgs)]
    BY DEF TypeOK
  <1>2. sk_receive_queue' = [sk_receive_queue EXCEPT ![k] = Append(@, m)]
    BY DEF NoFailure, rakaia_queue_rcv_skb
  <1>3. Append(sk_receive_queue[k], m) # <<>>
    BY <1>1
  <1> QED BY <1>1, <1>2, <1>3


\* Without failures every step keeps every socket accounted for.
LEMMA AccountedStep ==
    TypeOK /\ LockInv /\ WorkerAccounted /\ [Next]_vars => WorkerAccounted'
  <1> SUFFICES ASSUME TypeOK, LockInv, WorkerAccounted, [Next]_vars, NoFailure,
                      NEW j \in Socks
               PROVE  Accounted(j)'
    BY DEF WorkerAccounted, NoFailure
  <1>t. /\ pc \in [Socks \cup Psocks -> PushPC \cup WorkPC]
        /\ new_ksk \in [Psocks -> Socks \cup {NULL}]
        /\ sk_receive_queue \in [Socks -> Seq(Msgs)]
        /\ Socks \cap Psocks = {} /\ NULL \notin Socks
    BY ConstAssumption DEF TypeOK
  <1>a. Accounted(j)
    BY DEF WorkerAccounted
  <1> USE DEF rxVars, waitVars, stealVars, pushVars, GoTo
  <1>1. ASSUME NEW p \in Psocks, PushChoose(p)
        PROVE  Accounted(j)'
    <2>1. /\ pc'[j] = "epoll" => pc[j] = "epoll"
          /\ sk_receive_queue' = sk_receive_queue
          /\ UNCHANGED <<waiters_bm, new_ksk>>
      BY <1>1, <1>t DEF PushChoose
    <2> QED BY <2>1, <1>a, AccountedFrame, Zenon
  <1>2. ASSUME NEW p \in Psocks, PushTail(p)
        PROVE  Accounted(j)'
    <2>1. /\ pc'[j] = "epoll" => pc[j] = "epoll"
          /\ sk_receive_queue' = sk_receive_queue
          /\ UNCHANGED <<waiters_bm, new_ksk>>
      BY <1>2, <1>t DEF PushTail
    <2> QED BY <2>1, <1>a, AccountedFrame
  <1>3. ASSUME NEW p \in Psocks, PushLock(p)
        PROVE  Accounted(j)'
    <2>1. /\ pc'[j] = "epoll" => pc[j] = "epoll"
          /\ sk_receive_queue' = sk_receive_queue
          /\ UNCHANGED <<waiters_bm, new_ksk>>
      BY <1>3, <1>t DEF PushLock
    <2> QED BY <2>1, <1>a, AccountedFrame
  <1>4. ASSUME NEW p \in Psocks, PushAvail(p)
        PROVE  Accounted(j)'
    <2>1. pc'[j] = pc[j] /\ sk_receive_queue' = sk_receive_queue
      BY <1>4, <1>t DEF PushAvail
    <2>2. CASE UNCHANGED <<waiters_bm, new_ksk>>
      BY <2>1, <2>2, <1>a, AccountedFrame
    <2>3. CASE rakaia_get_avail_sk(p, chosen[p])
      <3>1. PICK i \in DOMAIN ksk_waiters :
              /\ new_ksk' = [new_ksk EXCEPT ![p] = ksk_waiters[i]]
              /\ waiters_bm' = waiters_bm \ {ksk_waiters[i]}
        BY <2>3, Zenon DEF rakaia_get_avail_sk
      <3>2. new_ksk[p] = NULL
        BY <1>4, <1>t DEF PushAvail, LockInv, LocalsInv, PushLocalsInv
      <3> QED BY <1>t, <2>1, <3>1, <3>2, <1>a DEF Accounted
    <2> QED BY <1>4, <2>2, <2>3 DEF PushAvail
  <1>5. ASSUME NEW p \in Psocks, PushNoWaiter(p)
        PROVE  Accounted(j)'
    <2>1. /\ pc'[j] = "epoll" => pc[j] = "epoll"
          /\ sk_receive_queue' = sk_receive_queue
          /\ UNCHANGED <<waiters_bm, new_ksk>>
      BY <1>5, <1>t DEF PushNoWaiter
    <2> QED BY <2>1, <1>a, AccountedFrame
  <1>6. ASSUME NEW p \in Psocks, PushHandoff(p)
        PROVE  Accounted(j)'
    <2>1. /\ pc'[j] = "epoll" => pc[j] = "epoll"
          /\ sk_receive_queue' = sk_receive_queue
          /\ UNCHANGED <<waiters_bm, new_ksk>>
      BY <1>6, <1>t DEF PushHandoff
    <2> QED BY <2>1, <1>a, AccountedFrame
  <1>7. ASSUME NEW p \in Psocks, PushDeliver(p)
        PROVE  Accounted(j)'
    <2>1. new_ksk[p] \in Socks /\ skb[p] \in Msgs
      BY <1>7, PushLocals, Zenon DEF PushDeliver
    <2>2. /\ sk_receive_queue'[new_ksk[p]] # <<>>
          /\ sk_receive_queue[j] # <<>> => sk_receive_queue'[j] # <<>>
      BY <1>7, <2>1, QueueRcvDelivers, Zenon DEF PushDeliver
    <2>3. /\ pc'[j] = pc[j] /\ UNCHANGED waiters_bm
          /\ \A q \in Psocks : q # p => new_ksk'[q] = new_ksk[q]
      BY <1>7, <1>t, Zenon DEF PushDeliver
    <2> QED BY <2>2, <2>3, <1>a DEF Accounted
  <1>8. ASSUME NEW k \in Socks, NEW p \in Psocks, Attach(k, p)
        PROVE  Accounted(j)'
    <2>1. /\ pc'[j] = "epoll" => pc[j] = "epoll"
          /\ sk_receive_queue' = sk_receive_queue
          /\ UNCHANGED <<waiters_bm, new_ksk>>
      BY <1>8, <1>t DEF Attach
    <2> QED BY <2>1, <1>a, AccountedFrame
  <1>9. ASSUME NEW k \in Socks, Create(k)
        PROVE  Accounted(j)'
    <2>1. /\ pc'[j] = "epoll" => pc[j] = "epoll"
          /\ waiters_bm \subseteq waiters_bm'
          /\ UNCHANGED <<sk_receive_queue, new_ksk>>
      BY <1>9, <1>t DEF Create
    <2> QED BY <2>1, <1>a DEF Accounted
  <1>10. ASSUME NEW k \in Socks, PullLocal(k)
        PROVE  Accounted(j)'
    <2>1. /\ pc'[j] = "epoll" => pc[j] = "epoll"
          /\ sk_receive_queue' = sk_receive_queue
          /\ UNCHANGED <<waiters_bm, new_ksk>>
      BY <1>10, <1>t DEF PullLocal
    <2> QED BY <2>1, <1>a, AccountedFrame
  <1>11. ASSUME NEW k \in Socks, StealPick(k)
        PROVE  Accounted(j)'
    <2>1. /\ pc'[j] = "epoll" => pc[j] = "epoll"
          /\ sk_receive_queue' = sk_receive_queue
          /\ UNCHANGED <<waiters_bm, new_ksk>>
      BY <1>11, <1>t DEF StealPick
    <2> QED BY <2>1, <1>a, AccountedFrame
  <1>12. ASSUME NEW k \in Socks, StealReadLen(k)
        PROVE  Accounted(j)'
    <2>1. /\ pc'[j] = "epoll" => pc[j] = "epoll"
          /\ sk_receive_queue' = sk_receive_queue
          /\ UNCHANGED <<waiters_bm, new_ksk>>
      BY <1>12, <1>t DEF StealReadLen
    <2> QED BY <2>1, <1>a, AccountedFrame
  <1>13. ASSUME NEW k \in Socks, StealCompare(k)
        PROVE  Accounted(j)'
    <2>1. /\ pc'[j] = "epoll" => pc[j] = "epoll"
          /\ sk_receive_queue' = sk_receive_queue
          /\ UNCHANGED <<waiters_bm, new_ksk>>
      BY <1>13, <1>t DEF StealCompare
    <2> QED BY <2>1, <1>a, AccountedFrame
  <1>14. ASSUME NEW k \in Socks, StealTake(k)
        PROVE  Accounted(j)'
    <2>1. /\ pc'[j] = "epoll" => pc[j] = "epoll"
          /\ sk_receive_queue' = sk_receive_queue
          /\ UNCHANGED <<waiters_bm, new_ksk>>
      BY <1>14, <1>t DEF StealTake
    <2> QED BY <2>1, <1>a, AccountedFrame
  <1>15. ASSUME NEW k \in Socks, PullDeliver(k)
        PROVE  Accounted(j)'
    <2>1. skb[k] \in Msgs
      BY <1>15, WorkLocals, Zenon DEF PullDeliver
    <2>2. /\ sk_receive_queue'[k] # <<>>
          /\ sk_receive_queue[j] # <<>> => sk_receive_queue'[j] # <<>>
      BY <1>15, <2>1, QueueRcvDelivers, Zenon DEF PullDeliver
    <2>3. (j # k => pc'[j] = pc[j]) /\ UNCHANGED <<waiters_bm, new_ksk>>
      BY <1>15, <1>t DEF PullDeliver
    <2> QED BY <2>2, <2>3, <1>a DEF Accounted
  <1>16. ASSUME NEW k \in Socks, PullCheck(k)
        PROVE  Accounted(j)'
    <2>1. /\ pc'[j] = "epoll" => pc[j] = "epoll"
          /\ sk_receive_queue' = sk_receive_queue
          /\ UNCHANGED <<waiters_bm, new_ksk>>
      BY <1>16, <1>t DEF PullCheck
    <2> QED BY <2>1, <1>a, AccountedFrame
  <1>17. ASSUME NEW k \in Socks, PullMark(k)
        PROVE  Accounted(j)'
    <2>1. /\ k \in waiters_bm' /\ waiters_bm \subseteq waiters_bm'
          /\ j # k => pc'[j] = pc[j]
          /\ UNCHANGED <<sk_receive_queue, new_ksk>>
      BY <1>17, <1>t DEF PullMark
    <2> QED BY <2>1, <1>a DEF Accounted
  <1>18. ASSUME NEW k \in Socks, Recvmsg(k)
        PROVE  Accounted(j)'
    <2>1. CASE j = k
      BY <1>18, <1>t, <2>1 DEF Recvmsg, Accounted
    <2>2. CASE j # k
      <3>1. /\ pc'[j] = pc[j] /\ sk_receive_queue'[j] = sk_receive_queue[j]
            /\ UNCHANGED <<waiters_bm, new_ksk>>
        BY <1>18, <1>t, <2>2 DEF Recvmsg
      <3> QED BY <3>1, <1>a, AccountedFrame
    <2> QED BY <2>1, <2>2
  <1>19. ASSUME NEW k \in Socks, Sendmsg(k)
        PROVE  Accounted(j)'
    <2>1. /\ pc'[j] = "epoll" => pc[j] = "epoll"
          /\ sk_receive_queue' = sk_receive_queue
          /\ UNCHANGED <<waiters_bm, new_ksk>>
      BY <1>19, <1>t DEF NoFailure, Sendmsg
    <2> QED BY <2>1, <1>a, AccountedFrame
  <1>20. CASE UNCHANGED vars
    BY <1>a, <1>20, AccountedFrame DEF vars
  <1> QED BY <1>1, <1>2, <1>3, <1>4, <1>5, <1>6, <1>7, <1>8, <1>9, <1>10, <1>11, <1>12, <1>13, <1>14, <1>15, <1>16, <1>17, <1>18, <1>19, <1>20
          DEF Next, Push, Worker, Pull

\* The invariant that is inductive: types, who holds which lock and local, the
\* two bitmaps, and where every idle worker is.
IInv ==
    /\ TypeOK /\ LockInv /\ BitmapExact
    /\ WaitersExact /\ CreateInv /\ WorkerAccounted

\* The module as rakaia_init leaves it: empty queues, clear bitmaps, no lock held.
LEMMA InitInv == Init => IInv
  <1> SUFFICES ASSUME Init
               PROVE  IInv
    OBVIOUS
  <1> USE ConstAssumption DEF Init
  <1>1. TypeOK
    <2>1. /\ unread \in [Psocks -> Seq(Msgs)]
          /\ rx_q \in [Socks -> Seq(Msgs)] /\ sk_receive_queue \in [Socks -> Seq(Msgs)]
          /\ ksk_waiters \in Seq(Socks)
      OBVIOUS
    <2>2. /\ pc \in [Socks \cup Psocks -> PushPC \cup WorkPC]
          /\ \A p \in Psocks : pc[p] \in PushPC
          /\ \A k \in Socks : pc[k] \in WorkPC
      BY DEF PushPC, WorkPC
    <2>3. /\ rx_lock \in [Socks -> Psocks \cup {NULL}]
          /\ skb \in [Socks \cup Psocks -> Msgs \cup {NULL}]
          /\ chosen \in [Psocks -> Socks \cup {NULL}] /\ new_ksk \in [Psocks -> Socks \cup {NULL}]
          /\ v1 \in [Socks -> Socks \cup {NULL}] /\ v2 \in [Socks -> Socks \cup {NULL}]
          /\ qlen2 \in [Socks -> Nat]
      OBVIOUS
    <2> QED BY <2>1, <2>2, <2>3 DEF TypeOK
  <1>2. LockInv
    BY DEF LockInv, ListLockInv, LocalsInv, PushLocalsInv, WorkLocalsInv
  <1>3. BitmapExact /\ CreateInv
    BY DEF BitmapExact, CreateInv
  <1>4. WaitersExact
    BY DEF WaitersExact, Range, IsInjective
  <1>5. WorkerAccounted
    BY DEF WorkerAccounted, Accounted
  <1> QED BY <1>1, <1>2, <1>3, <1>4, <1>5 DEF IInv

\* The inductive invariant holds in every reachable state.
THEOREM Invariance == Spec => []IInv
  <1>1. IInv /\ [Next]_vars => IInv'
    BY TypeStep, LocalsStep, RxStep, WaitersStep, AccountedStep DEF IInv, LockInv
  <1> QED BY InitInv, <1>1, PTL DEF Spec

\* Every variable has its type: in particular no push or pull uses a local
\* that was not set.
THEOREM TypeCorrect == Spec => []TypeOK
  <1>1. IInv => TypeOK
    BY DEF IInv
  <1> QED BY <1>1, Invariance, PTL

\* The list locks exclude, and a locked queue holds at most the one message of
\* the push that locked it (rakaiasock.c 247-272).
THEOREM LockDiscipline == Spec => []LockInv
  <1>1. IInv => LockInv
    BY DEF IInv
  <1> QED BY <1>1, Invariance, PTL

\* rx_nonempty_bm is exact on every queue whose lock is free, for any number of
\* connections and workers.
THEOREM BitmapCorrect == Spec => []BitmapExact
  <1>1. IInv => BitmapExact
    BY DEF IInv
  <1> QED BY <1>1, Invariance, PTL

\* The waiter list has no socket twice and waiters_bm is its set.
THEOREM WaitersCorrect == Spec => []WaitersExact
  <1>1. IInv => WaitersExact
    BY DEF IInv
  <1> QED BY <1>1, Invariance, PTL

\* Without failures no worker is ever forgotten.
THEOREM NoWorkerForgotten == Spec => []WorkerAccounted
  <1>1. IInv => WorkerAccounted
    BY DEF IInv
  <1> QED BY <1>1, Invariance, PTL
=============================================================================
