--------------------------- MODULE RxSchedPlaces ---------------------------
(* A message of the receive scheduler is in one place at a time, for every *)
(* number of sockets, connections and messages and with failures allowed.  *)
EXTENDS RxSchedProofs

-----------------------------------------------------------------------------
(* Where a message is.                                                     *)

\* What each place holds, before and after a step.
LEMMA HeldAt ==
    /\ \A p \in Psocks : /\ <<"unread", p>> \in Holders
                          /\ held[<<"unread", p>>] = Range(unread[p])
                          /\ held'[<<"unread", p>>] = Range(unread'[p])
    /\ \A k \in Socks : /\ <<"rx_q", k>> \in Holders
                         /\ held[<<"rx_q", k>>] = Range(rx_q[k])
                         /\ held'[<<"rx_q", k>>] = Range(rx_q'[k])
    /\ \A k \in Socks : /\ <<"sk_receive_queue", k>> \in Holders
                         /\ held[<<"sk_receive_queue", k>>] = Range(sk_receive_queue[k])
                         /\ held'[<<"sk_receive_queue", k>>] = Range(sk_receive_queue'[k])
    /\ \A t \in Socks \cup Psocks : /\ <<"skb", t>> \in Holders
                                    /\ held[<<"skb", t>>] = {skb[t]} \ {NULL}
                                    /\ held'[<<"skb", t>>] = {skb'[t]} \ {NULL}
    /\ /\ <<"lost", NULL>> \in Holders
       /\ held[<<"lost", NULL>>] = lost
       /\ held'[<<"lost", NULL>>] = lost'
    /\ /\ <<"done", NULL>> \in Holders
       /\ held[<<"done", NULL>>] = done
       /\ held'[<<"done", NULL>>] = done'
  <1>1. ASSUME NEW p \in Psocks
        PROVE  /\ <<"unread", p>> \in Holders
               /\ held[<<"unread", p>>] = Range(unread[p])
               /\ held'[<<"unread", p>>] = Range(unread'[p])
    BY DEF Holders, held
  <1>2. ASSUME NEW k \in Socks
        PROVE  /\ <<"rx_q", k>> \in Holders
               /\ held[<<"rx_q", k>>] = Range(rx_q[k])
               /\ held'[<<"rx_q", k>>] = Range(rx_q'[k])
    BY DEF Holders, held
  <1>3. ASSUME NEW k \in Socks
        PROVE  /\ <<"sk_receive_queue", k>> \in Holders
               /\ held[<<"sk_receive_queue", k>>] = Range(sk_receive_queue[k])
               /\ held'[<<"sk_receive_queue", k>>] = Range(sk_receive_queue'[k])
    BY DEF Holders, held
  <1>4. ASSUME NEW t \in Socks \cup Psocks
        PROVE  /\ <<"skb", t>> \in Holders
               /\ held[<<"skb", t>>] = {skb[t]} \ {NULL}
               /\ held'[<<"skb", t>>] = {skb'[t]} \ {NULL}
    BY DEF Holders, held
  <1>5. /\ <<"lost", NULL>> \in Holders
        /\ held[<<"lost", NULL>>] = lost
        /\ held'[<<"lost", NULL>>] = lost'
    BY DEF Holders, held
  <1>6. /\ <<"done", NULL>> \in Holders
        /\ held[<<"done", NULL>>] = done
        /\ held'[<<"done", NULL>>] = done'
    BY DEF Holders, held
  <1> QED BY <1>1, <1>2, <1>3, <1>4, <1>5, <1>6

\* There are no other places.
HolderKind(h) ==
    \/ \E p \in Psocks : h = <<"unread", p>>
    \/ \E k \in Socks : h = <<"rx_q", k>>
    \/ \E k \in Socks : h = <<"sk_receive_queue", k>>
    \/ \E t \in Socks \cup Psocks : h = <<"skb", t>>
    \/ h = <<"lost", NULL>>
    \/ h = <<"done", NULL>>

LEMMA HolderKinds ==
    ASSUME NEW h \in Holders
    PROVE  HolderKind(h)
  <1>1. CASE h \in {"unread"} \X Psocks
    BY <1>1 DEF HolderKind
  <1>2. CASE h \in {"rx_q", "sk_receive_queue"} \X Socks
    BY <1>2 DEF HolderKind
  <1>3. CASE h \in {"skb"} \X (Socks \cup Psocks)
    BY <1>3 DEF HolderKind
  <1>4. CASE h = <<"lost", NULL>> \/ h = <<"done", NULL>>
    BY <1>4 DEF HolderKind
  <1>5. \/ h \in {"unread"} \X Psocks
        \/ h \in {"rx_q", "sk_receive_queue"} \X Socks
        \/ h \in {"skb"} \X (Socks \cup Psocks)
        \/ h = <<"lost", NULL>> \/ h = <<"done", NULL>>
    BY Zenon DEF Holders
  <1> QED BY <1>1, <1>2, <1>3, <1>4, <1>5, Zenon

\* A place whose variable keeps its value holds what it held.
LEMMA HeldSame ==
    ASSUME NEW h \in Holders,
           \A p \in Psocks : h = <<"unread", p>> => unread'[p] = unread[p],
           \A k \in Socks : h = <<"rx_q", k>> => rx_q'[k] = rx_q[k],
           \A k \in Socks : h = <<"sk_receive_queue", k>>
                              => sk_receive_queue'[k] = sk_receive_queue[k],
           \A t \in Socks \cup Psocks : h = <<"skb", t>> => skb'[t] = skb[t],
           h = <<"lost", NULL>> => lost' = lost,
           h = <<"done", NULL>> => done' = done
    PROVE  held'[h] = held[h]
  <1>1. ASSUME NEW p \in Psocks, h = <<"unread", p>>
        PROVE  held'[h] = held[h]
    <2>1. held[h] = Range(unread[p]) /\ held'[h] = Range(unread'[p])
      BY <1>1, HeldAt
    <2>2. unread'[p] = unread[p]
      BY <1>1
    <2> QED BY <2>1, <2>2, Zenon
  <1>2. ASSUME NEW k \in Socks, h = <<"rx_q", k>>
        PROVE  held'[h] = held[h]
    <2>1. held[h] = Range(rx_q[k]) /\ held'[h] = Range(rx_q'[k])
      BY <1>2, HeldAt
    <2>2. rx_q'[k] = rx_q[k]
      BY <1>2
    <2> QED BY <2>1, <2>2, Zenon
  <1>3. ASSUME NEW k \in Socks, h = <<"sk_receive_queue", k>>
        PROVE  held'[h] = held[h]
    <2>1. held[h] = Range(sk_receive_queue[k]) /\ held'[h] = Range(sk_receive_queue'[k])
      BY <1>3, HeldAt
    <2>2. sk_receive_queue'[k] = sk_receive_queue[k]
      BY <1>3
    <2> QED BY <2>1, <2>2, Zenon
  <1>4. ASSUME NEW t \in Socks \cup Psocks, h = <<"skb", t>>
        PROVE  held'[h] = held[h]
    <2>1. held[h] = {skb[t]} \ {NULL} /\ held'[h] = {skb'[t]} \ {NULL}
      BY <1>4, HeldAt
    <2>2. skb'[t] = skb[t]
      BY <1>4
    <2> QED BY <2>1, <2>2, Zenon
  <1>5. ASSUME h = <<"lost", NULL>>
        PROVE  held'[h] = held[h]
    BY <1>5, HeldAt, Zenon
  <1>6. ASSUME h = <<"done", NULL>>
        PROVE  held'[h] = held[h]
    BY <1>6, HeldAt, Zenon
  <1> QED BY <1>1, <1>2, <1>3, <1>4, <1>5, <1>6, HolderKinds, Zenon DEF HolderKind

\* A step takes message m from one place to another and touches no other message.
Moves(m, src, dst) ==
    /\ src \in Holders /\ dst \in Holders /\ src # dst
    /\ m \in held[src]
    /\ held'[src] = held[src] \ {m}
    /\ held'[dst] = held[dst] \cup {m}
    /\ \A h \in Holders \ {src, dst} : held'[h] = held[h]

\* The queues without duplicates, as part of OneHolder.
NoDuplicates ==
    /\ \A p \in Psocks : IsInjective(unread[p])
    /\ \A k \in Socks : IsInjective(rx_q[k]) /\ IsInjective(sk_receive_queue[k])

\* A move keeps every message in exactly one place.
LEMMA MoveKeeps ==
    ASSUME OneHolder, NEW m \in Msgs, NEW src, NEW dst, Moves(m, src, dst), NoDuplicates'
    PROVE  OneHolder'
  <1>1. ASSUME NEW n \in Msgs
        PROVE  \E h \in Holders : n \in held'[h]
    <2>1. PICK h \in Holders : n \in held[h]
      BY DEF OneHolder
    <2>2. CASE n = m
      BY <2>2 DEF Moves
    <2>3. CASE n # m
      BY <2>1, <2>3 DEF Moves
    <2> QED BY <2>2, <2>3
  <1>2. ASSUME NEW g \in Holders, NEW h \in Holders, g # h
        PROVE  held'[g] \cap held'[h] = {}
    <2>1. ASSUME NEW a \in Holders, a # src
          PROVE  m \notin held[a]
      BY <2>1 DEF OneHolder, Moves
    <2>2. ASSUME NEW n, n \in held'[g], n \in held'[h]
          PROVE  FALSE
      <3>1. CASE n = m
        BY <1>2, <2>1, <2>2, <3>1 DEF Moves
      <3>2. CASE n # m
        <4>1. n \in held[g] /\ n \in held[h]
          BY <2>2, <3>2 DEF Moves
        <4> QED BY <1>2, <4>1 DEF OneHolder
      <3> QED BY <3>1, <3>2
    <2> QED BY <2>2
  <1>3. Holders' = Holders
    BY DEF Holders
  <1> QED BY <1>1, <1>2, <1>3 DEF OneHolder, NoDuplicates

\* Nothing moves.
LEMMA HeldFrame ==
    ASSUME UNCHANGED <<unread, rx_q, sk_receive_queue, skb, lost, done>>
    PROVE  (\A h \in Holders : held'[h] = held[h]) /\ (OneHolder => OneHolder')
  <1>1. ASSUME NEW h \in Holders
        PROVE  held'[h] = held[h]
    BY HeldSame
  <1>2. Holders' = Holders
    BY DEF Holders
  <1> QED BY <1>1, <1>2 DEF OneHolder

\* The moves into and out of a queue and a local.
LEMMA TakeHead ==
    ASSUME NEW q \in Seq(Msgs), q # <<>>, IsInjective(q)
    PROVE  /\ Head(q) \in Msgs /\ Head(q) \in Range(q) /\ IsInjective(Tail(q))
           /\ Range(Tail(q)) = Range(q) \ {Head(q)}
  BY TailInjectiveSet

LEMMA PutLast ==
    ASSUME NEW q \in Seq(Msgs), NEW m \in Msgs, m \notin Range(q), IsInjective(q)
    PROVE  /\ IsInjective(Append(q, m))
           /\ Range(Append(q, m)) = Range(q) \cup {m}
  BY AppendInjectiveSet

\* rakaia_queue_rcv_skb puts the message it is given in the receive queue of the
\* socket or drops it.
LEMMA DeliverMoves ==
    ASSUME TypeOK, OneHolder, NEW t \in Socks \cup Psocks, NEW k \in Socks, skb[t] \in Msgs,
           rakaia_queue_rcv_skb(k, skb[t]), skb' = [skb EXCEPT ![t] = NULL],
           UNCHANGED <<unread, rx_q, done>>
    PROVE  /\ NoDuplicates'
           /\ \/ Moves(skb[t], <<"skb", t>>, <<"sk_receive_queue", k>>)
              \/ Moves(skb[t], <<"skb", t>>, <<"lost", NULL>>)
  <1>t. /\ skb \in [Socks \cup Psocks -> Msgs \cup {NULL}]
        /\ sk_receive_queue \in [Socks -> Seq(Msgs)] /\ NULL \notin Msgs
    BY ConstAssumption DEF TypeOK
  <1>1. /\ <<"skb", t>> \in Holders /\ <<"sk_receive_queue", k>> \in Holders
        /\ <<"lost", NULL>> \in Holders
        /\ held[<<"skb", t>>] = {skb[t]} /\ held'[<<"skb", t>>] = {}
    BY <1>t, HeldAt
  <1>2. skb[t] \notin held[<<"sk_receive_queue", k>>] /\ skb[t] \notin held[<<"lost", NULL>>]
    BY <1>1 DEF OneHolder
  <1>3. CASE lost' = lost \cup {skb[t]} /\ UNCHANGED sk_receive_queue
    <2>1. held'[<<"lost", NULL>>] = held[<<"lost", NULL>>] \cup {skb[t]}
      BY <1>3, HeldAt
    <2>2. ASSUME NEW h \in Holders, h # <<"skb", t>>, h # <<"lost", NULL>>
          PROVE  held'[h] = held[h]
      <3>1. \A u \in Socks \cup Psocks : h = <<"skb", u>> => skb'[u] = skb[u]
        BY <1>t, <2>2
      <3> QED BY <1>3, <2>2, <3>1, HeldSame
    <2>3. NoDuplicates'
      BY <1>3 DEF NoDuplicates, OneHolder
    <2> QED BY <1>1, <2>1, <2>2, <2>3 DEF Moves
  <1>4. CASE /\ sk_receive_queue' = [sk_receive_queue EXCEPT ![k] = Append(@, skb[t])]
             /\ UNCHANGED lost
    <2>1. /\ sk_receive_queue'[k] = Append(sk_receive_queue[k], skb[t])
          /\ \A j \in Socks : j # k => sk_receive_queue'[j] = sk_receive_queue[j]
      BY <1>t, <1>4
    <2>2. /\ IsInjective(sk_receive_queue'[k])
          /\ Range(sk_receive_queue'[k]) = Range(sk_receive_queue[k]) \cup {skb[t]}
      <3>1. skb[t] \notin Range(sk_receive_queue[k]) /\ IsInjective(sk_receive_queue[k])
        BY <1>2, HeldAt DEF OneHolder
      <3> QED BY <1>t, <2>1, <3>1, PutLast
    <2>3. held'[<<"sk_receive_queue", k>>] = held[<<"sk_receive_queue", k>>] \cup {skb[t]}
      BY <2>2, HeldAt
    <2>4. ASSUME NEW h \in Holders, h # <<"skb", t>>, h # <<"sk_receive_queue", k>>
          PROVE  held'[h] = held[h]
      <3>1. \A u \in Socks \cup Psocks : h = <<"skb", u>> => skb'[u] = skb[u]
        BY <1>t, <2>4
      <3>2. \A j \in Socks : h = <<"sk_receive_queue", j>>
                                 => sk_receive_queue'[j] = sk_receive_queue[j]
        BY <2>1, <2>4
      <3> QED BY <1>4, <2>4, <3>1, <3>2, HeldSame
    <2>5. NoDuplicates'
      BY <1>4, <2>1, <2>2 DEF NoDuplicates, OneHolder
    <2> QED BY <1>1, <2>3, <2>4, <2>5 DEF Moves
  <1> QED BY <1>3, <1>4 DEF rakaia_queue_rcv_skb

\* A thread takes the head of rx_q[j] into its local.
LEMMA DequeueMoves ==
    ASSUME TypeOK, OneHolder, NEW t \in Socks \cup Psocks, NEW j \in Socks, skb[t] = NULL,
           rx_q[j] # <<>>, rx_q' = [rx_q EXCEPT ![j] = Tail(@)],
           skb' = [skb EXCEPT ![t] = Head(rx_q[j])],
           UNCHANGED <<unread, sk_receive_queue, lost, done>>
    PROVE  /\ NoDuplicates' /\ Head(rx_q[j]) \in Msgs
           /\ Moves(Head(rx_q[j]), <<"rx_q", j>>, <<"skb", t>>)
  <1>t. /\ skb \in [Socks \cup Psocks -> Msgs \cup {NULL}]
        /\ rx_q \in [Socks -> Seq(Msgs)] /\ NULL \notin Msgs
    BY ConstAssumption DEF TypeOK
  <1> DEFINE m == Head(rx_q[j])
  <1>1. /\ rx_q'[j] = Tail(rx_q[j])
        /\ \A i \in Socks : i # j => rx_q'[i] = rx_q[i]
    BY <1>t
  <1>2. /\ m \in Msgs /\ m \in Range(rx_q[j]) /\ IsInjective(rx_q'[j])
        /\ Range(rx_q'[j]) = Range(rx_q[j]) \ {m}
    BY <1>t, <1>1, TakeHead DEF OneHolder
  <1> HIDE DEF m
  <1>3. /\ <<"skb", t>> \in Holders /\ <<"rx_q", j>> \in Holders
        /\ held[<<"skb", t>>] = {} /\ held'[<<"skb", t>>] = {m}
    BY <1>t, <1>2, HeldAt DEF m
  <1>4. m \in held[<<"rx_q", j>>] /\ held'[<<"rx_q", j>>] = held[<<"rx_q", j>>] \ {m}
    BY <1>2, HeldAt
  <1>5. ASSUME NEW h \in Holders, h # <<"skb", t>>, h # <<"rx_q", j>>
        PROVE  held'[h] = held[h]
    <2>1. \A u \in Socks \cup Psocks : h = <<"skb", u>> => skb'[u] = skb[u]
      BY <1>t, <1>5
    <2>2. \A i \in Socks : h = <<"rx_q", i>> => rx_q'[i] = rx_q[i]
      BY <1>1, <1>5
    <2> QED BY <1>5, <2>1, <2>2, HeldSame
  <1>6. NoDuplicates'
    BY <1>1, <1>2 DEF NoDuplicates, OneHolder
  <1>7. Moves(m, <<"rx_q", j>>, <<"skb", t>>)
    BY <1>3, <1>4, <1>5 DEF Moves
  <1> QED BY <1>2, <1>6, <1>7 DEF m

\* A thread appends its message to rx_q[j].
LEMMA EnqueueMoves ==
    ASSUME TypeOK, OneHolder, NEW t \in Socks \cup Psocks, NEW j \in Socks, skb[t] \in Msgs,
           rx_q' = [rx_q EXCEPT ![j] = Append(@, skb[t])], skb' = [skb EXCEPT ![t] = NULL],
           UNCHANGED <<unread, sk_receive_queue, lost, done>>
    PROVE  NoDuplicates' /\ Moves(skb[t], <<"skb", t>>, <<"rx_q", j>>)
  <1>t. /\ skb \in [Socks \cup Psocks -> Msgs \cup {NULL}]
        /\ rx_q \in [Socks -> Seq(Msgs)] /\ NULL \notin Msgs
    BY ConstAssumption DEF TypeOK
  <1>1. /\ <<"skb", t>> \in Holders /\ <<"rx_q", j>> \in Holders
        /\ held[<<"skb", t>>] = {skb[t]} /\ held'[<<"skb", t>>] = {}
    BY <1>t, HeldAt
  <1>2. skb[t] \notin held[<<"rx_q", j>>]
    BY <1>1 DEF OneHolder
  <1>3. /\ rx_q'[j] = Append(rx_q[j], skb[t])
        /\ \A i \in Socks : i # j => rx_q'[i] = rx_q[i]
    BY <1>t
  <1>4. IsInjective(rx_q'[j]) /\ Range(rx_q'[j]) = Range(rx_q[j]) \cup {skb[t]}
    <2>1. skb[t] \notin Range(rx_q[j]) /\ IsInjective(rx_q[j])
      BY <1>2, HeldAt DEF OneHolder
    <2> QED BY <1>t, <1>3, <2>1, PutLast
  <1>5. held'[<<"rx_q", j>>] = held[<<"rx_q", j>>] \cup {skb[t]}
    BY <1>4, HeldAt
  <1>6. ASSUME NEW h \in Holders, h # <<"skb", t>>, h # <<"rx_q", j>>
        PROVE  held'[h] = held[h]
    <2>1. \A u \in Socks \cup Psocks : h = <<"skb", u>> => skb'[u] = skb[u]
      BY <1>t, <1>6
    <2>2. \A i \in Socks : h = <<"rx_q", i>> => rx_q'[i] = rx_q[i]
      BY <1>3, <1>6
    <2> QED BY <1>6, <2>1, <2>2, HeldSame
  <1>7. NoDuplicates'
    BY <1>3, <1>4 DEF NoDuplicates, OneHolder
  <1> QED BY <1>1, <1>5, <1>6, <1>7 DEF Moves

\* A psock takes the next message of its stream.
LEMMA ParseMoves ==
    ASSUME TypeOK, OneHolder, NEW p \in Psocks, skb[p] = NULL,
           unread[p] # <<>>, unread' = [unread EXCEPT ![p] = Tail(@)],
           skb' = [skb EXCEPT ![p] = Head(unread[p])],
           UNCHANGED <<rx_q, sk_receive_queue, lost, done>>
    PROVE  /\ NoDuplicates' /\ Head(unread[p]) \in Msgs
           /\ Moves(Head(unread[p]), <<"unread", p>>, <<"skb", p>>)
  <1>t. /\ skb \in [Socks \cup Psocks -> Msgs \cup {NULL}]
        /\ unread \in [Psocks -> Seq(Msgs)] /\ NULL \notin Msgs
    BY ConstAssumption DEF TypeOK
  <1> DEFINE m == Head(unread[p])
  <1>1. /\ unread'[p] = Tail(unread[p])
        /\ \A q \in Psocks : q # p => unread'[q] = unread[q]
    BY <1>t
  <1>2. /\ m \in Msgs /\ m \in Range(unread[p]) /\ IsInjective(unread'[p])
        /\ Range(unread'[p]) = Range(unread[p]) \ {m}
    BY <1>t, <1>1, TakeHead DEF OneHolder
  <1> HIDE DEF m
  <1>3. /\ <<"skb", p>> \in Holders /\ <<"unread", p>> \in Holders
        /\ held[<<"skb", p>>] = {} /\ held'[<<"skb", p>>] = {m}
    BY <1>t, <1>2, HeldAt DEF m
  <1>4. m \in held[<<"unread", p>>] /\ held'[<<"unread", p>>] = held[<<"unread", p>>] \ {m}
    BY <1>2, HeldAt
  <1>5. ASSUME NEW h \in Holders, h # <<"skb", p>>, h # <<"unread", p>>
        PROVE  held'[h] = held[h]
    <2>1. \A u \in Socks \cup Psocks : h = <<"skb", u>> => skb'[u] = skb[u]
      BY <1>t, <1>5
    <2>2. \A q \in Psocks : h = <<"unread", q>> => unread'[q] = unread[q]
      BY <1>1, <1>5
    <2> QED BY <1>5, <2>1, <2>2, HeldSame
  <1>6. NoDuplicates'
    BY <1>1, <1>2 DEF NoDuplicates, OneHolder
  <1>7. Moves(m, <<"unread", p>>, <<"skb", p>>)
    BY <1>3, <1>4, <1>5 DEF Moves
  <1> QED BY <1>2, <1>6, <1>7 DEF m

\* rakaia_recvmsg takes the oldest delivered message of the socket.
LEMMA RecvMoves ==
    ASSUME TypeOK, OneHolder, NEW k \in Socks, skb[k] = NULL, Recvmsg(k)
    PROVE  /\ NoDuplicates' /\ Head(sk_receive_queue[k]) \in Msgs
           /\ Moves(Head(sk_receive_queue[k]), <<"sk_receive_queue", k>>, <<"skb", k>>)
  <1>t. /\ skb \in [Socks \cup Psocks -> Msgs \cup {NULL}]
        /\ sk_receive_queue \in [Socks -> Seq(Msgs)] /\ NULL \notin Msgs
    BY ConstAssumption DEF TypeOK
  <1>u. /\ skb' = [skb EXCEPT ![k] = Head(sk_receive_queue[k])] /\ sk_receive_queue[k] # <<>>
        /\ sk_receive_queue' = [sk_receive_queue EXCEPT ![k] = Tail(@)]
        /\ UNCHANGED <<unread, rx_q, lost, done>>
    BY DEF Recvmsg, rxVars
  <1> DEFINE m == Head(sk_receive_queue[k])
  <1>1. /\ sk_receive_queue'[k] = Tail(sk_receive_queue[k])
        /\ \A i \in Socks : i # k => sk_receive_queue'[i] = sk_receive_queue[i]
    BY <1>t, <1>u
  <1>2. /\ m \in Msgs /\ m \in Range(sk_receive_queue[k]) /\ IsInjective(sk_receive_queue'[k])
        /\ Range(sk_receive_queue'[k]) = Range(sk_receive_queue[k]) \ {m}
    BY <1>t, <1>u, <1>1, TakeHead DEF OneHolder
  <1> HIDE DEF m
  <1>3. /\ <<"skb", k>> \in Holders /\ <<"sk_receive_queue", k>> \in Holders
        /\ held[<<"skb", k>>] = {} /\ held'[<<"skb", k>>] = {m}
    BY <1>t, <1>u, <1>2, HeldAt DEF m
  <1>4. /\ m \in held[<<"sk_receive_queue", k>>]
        /\ held'[<<"sk_receive_queue", k>>] = held[<<"sk_receive_queue", k>>] \ {m}
    BY <1>2, HeldAt
  <1>5. ASSUME NEW h \in Holders, h # <<"skb", k>>, h # <<"sk_receive_queue", k>>
        PROVE  held'[h] = held[h]
    <2>1. \A u \in Socks \cup Psocks : h = <<"skb", u>> => skb'[u] = skb[u]
      BY <1>t, <1>u, <1>5
    <2>2. \A i \in Socks : h = <<"sk_receive_queue", i>>
                               => sk_receive_queue'[i] = sk_receive_queue[i]
      BY <1>1, <1>5
    <2> QED BY <1>u, <1>5, <2>1, <2>2, HeldSame
  <1>6. NoDuplicates'
    BY <1>u, <1>1, <1>2 DEF NoDuplicates, OneHolder
  <1>7. Moves(m, <<"sk_receive_queue", k>>, <<"skb", k>>)
    BY <1>3, <1>4, <1>5 DEF Moves
  <1> QED BY <1>2, <1>6, <1>7 DEF m

\* The worker is done with its message.
LEMMA SendMoves ==
    ASSUME TypeOK, OneHolder, NEW k \in Socks, skb[k] \in Msgs, Sendmsg(k)
    PROVE  NoDuplicates' /\ Moves(skb[k], <<"skb", k>>, <<"done", NULL>>)
  <1>t. skb \in [Socks \cup Psocks -> Msgs \cup {NULL}] /\ NULL \notin Msgs
    BY ConstAssumption DEF TypeOK
  <1>u. /\ skb' = [skb EXCEPT ![k] = NULL] /\ done' = done \cup {skb[k]}
        /\ UNCHANGED <<unread, rx_q, sk_receive_queue, lost>>
    BY DEF Sendmsg, rxVars
  <1>1. /\ <<"skb", k>> \in Holders /\ <<"done", NULL>> \in Holders
        /\ held[<<"skb", k>>] = {skb[k]} /\ held'[<<"skb", k>>] = {}
        /\ held'[<<"done", NULL>>] = held[<<"done", NULL>>] \cup {skb[k]}
    BY <1>t, <1>u, HeldAt
  <1>2. ASSUME NEW h \in Holders, h # <<"skb", k>>, h # <<"done", NULL>>
        PROVE  held'[h] = held[h]
    <2>1. \A u \in Socks \cup Psocks : h = <<"skb", u>> => skb'[u] = skb[u]
      BY <1>t, <1>u, <1>2
    <2> QED BY <1>u, <1>2, <2>1, HeldSame
  <1>3. NoDuplicates'
    BY <1>u DEF NoDuplicates, OneHolder
  <1> QED BY <1>1, <1>2, <1>3 DEF Moves

\* The only ways a message moves.  A worker processes the message in its local
\* exactly from rakaia_recvmsg to rakaia_sendmsg.
Arrives(m) == \E p \in Psocks : Moves(m, <<"unread", p>>, <<"skb", p>>)
Requeued(m) == \E p \in Psocks : \E j \in Socks : Moves(m, <<"skb", p>>, <<"rx_q", j>>)
Taken(m) == \E t \in Socks \cup Psocks : \E j \in Socks :
                pc'[t] # "process" /\ Moves(m, <<"rx_q", j>>, <<"skb", t>>)
Delivered(m, k) == \E t \in Socks \cup Psocks :
                pc[t] # "process" /\ Moves(m, <<"skb", t>>, <<"sk_receive_queue", k>>)
Dropped(m) == \E t \in Socks \cup Psocks :
                pc[t] # "process" /\ Moves(m, <<"skb", t>>, <<"lost", NULL>>)
Received(m) == \E k \in Socks :
                /\ skb[k] = NULL /\ pc'[k] = "process"
                /\ Moves(m, <<"sk_receive_queue", k>>, <<"skb", k>>)
Sent(m) == \E k \in Socks : pc[k] = "process" /\ Moves(m, <<"skb", k>>, <<"done", NULL>>)

NoMotion == UNCHANGED <<unread, rx_q, sk_receive_queue, skb, lost, done>>

Motion ==
    \/ NoMotion
    \/ \E m \in Msgs :
          \/ Arrives(m) \/ Requeued(m) \/ Taken(m) \/ Dropped(m) \/ Received(m) \/ Sent(m)
          \/ \E k \in Socks : Delivered(m, k)

\* A worker that holds the same message before and after a step is processing it
\* before if and only if after.
ProcessFrame ==
    \A k \in Socks : skb[k] # NULL /\ skb'[k] # NULL => (pc'[k] = "process" <=> pc[k] = "process")

LEMMA InMotion ==
    ASSUME NEW m \in Msgs,
           \/ Arrives(m) \/ Requeued(m) \/ Taken(m) \/ Dropped(m) \/ Received(m) \/ Sent(m)
           \/ \E k \in Socks : Delivered(m, k)
    PROVE  Motion
  BY Zenon DEF Motion

LEMMA PushMotion ==
    ASSUME TypeOK, LockInv, OneHolder, NEW p \in Psocks, Push(p)
    PROVE  Motion /\ (NoMotion \/ NoDuplicates') /\ ProcessFrame
  <1>t. /\ pc \in [Socks \cup Psocks -> PushPC \cup WorkPC]
        /\ rx_q \in [Socks -> Seq(Msgs)]
        /\ p \in Socks \cup Psocks /\ Socks \cap Psocks = {}
    BY ConstAssumption DEF TypeOK
  <1>f. ProcessFrame
    <2>1. PICK to : pc' = [pc EXCEPT ![p] = to]
      BY Zenon DEF Push, PushChoose, PushTail, PushLock, PushAvail, PushNoWaiter, PushHandoff,
                   PushDeliver, GoTo
    <2> QED BY <1>t, <2>1 DEF ProcessFrame
  <1>l. /\ pc[p] \in {"idle", "handoff"} => skb[p] = NULL
        /\ pc[p] \in {"push", "locked", "deliver"} => skb[p] \in Msgs
        /\ pc[p] \in {"push", "locked", "handoff"} => chosen[p] \in Socks
        /\ pc[p] = "deliver" => new_ksk[p] \in Socks
    BY PushLocals DEF LockInv, LocalsInv, PushLocalsInv
  <1>1. CASE PushChoose(p)
    <2>1. NoDuplicates' /\ Head(unread[p]) \in Msgs
          /\ Moves(Head(unread[p]), <<"unread", p>>, <<"skb", p>>)
      <3>1. skb[p] = NULL
        BY <1>1, <1>l DEF PushChoose, GoTo
      <3>2. /\ unread[p] # <<>> /\ unread' = [unread EXCEPT ![p] = Tail(@)]
            /\ skb' = [skb EXCEPT ![p] = Head(unread[p])]
            /\ UNCHANGED <<rx_q, sk_receive_queue, lost, done>>
        BY <1>1 DEF PushChoose, rxVars
      <3> QED BY <3>1, <3>2, ParseMoves, Zenon
    <2>2. Arrives(Head(unread[p]))
      BY <2>1, Zenon DEF Arrives
    <2> QED BY <1>f, <2>1, <2>2, InMotion
  <1>2. CASE PushTail(p) \/ PushAvail(p)
    <2>1. /\ chosen[p] \in Socks /\ skb[p] \in Msgs
          /\ rx_q' = [rx_q EXCEPT ![chosen[p]] = Append(@, skb[p])]
          /\ skb' = [skb EXCEPT ![p] = NULL]
          /\ UNCHANGED <<unread, sk_receive_queue, lost, done>>
      BY <1>2, <1>l DEF PushTail, PushAvail, GoTo, rxVars
    <2>2. NoDuplicates' /\ Moves(skb[p], <<"skb", p>>, <<"rx_q", chosen[p]>>)
      BY <1>t, <2>1, EnqueueMoves, Zenon
    <2>3. Requeued(skb[p])
      BY <2>1, <2>2, Zenon DEF Requeued
    <2> QED BY <1>f, <2>1, <2>2, <2>3, InMotion
  <1>3. CASE PushLock(p) \/ PushNoWaiter(p)
    <2>1. NoMotion
      BY <1>3 DEF PushLock, PushNoWaiter, NoMotion, rxVars
    <2> QED BY <1>f, <2>1 DEF Motion
  <1>4. CASE PushHandoff(p)
    <2>1. /\ chosen[p] \in Socks /\ skb[p] = NULL
          /\ rx_q' = [rx_q EXCEPT ![chosen[p]] = Tail(@)]
          /\ skb' = [skb EXCEPT ![p] = Head(rx_q[chosen[p]])] /\ pc'[p] # "process"
          /\ UNCHANGED <<unread, sk_receive_queue, lost, done>>
      BY <1>4, <1>l, <1>t DEF PushHandoff, Dequeue, GoTo
    <2>2. Len(rx_q[chosen[p]]) = 1
      BY <1>4 DEF PushHandoff, GoTo, LockInv, ListLockInv
    <2>3. rx_q[chosen[p]] # <<>>
      BY <1>t, <2>1, <2>2, OneElement
    <2>4. /\ NoDuplicates' /\ Head(rx_q[chosen[p]]) \in Msgs
          /\ Moves(Head(rx_q[chosen[p]]), <<"rx_q", chosen[p]>>, <<"skb", p>>)
      BY <1>t, <2>1, <2>3, DequeueMoves, Zenon
    <2>5. Taken(Head(rx_q[chosen[p]]))
      BY <1>t, <2>1, <2>4, Zenon DEF Taken
    <2> QED BY <1>f, <2>4, <2>5, InMotion
  <1>5. CASE PushDeliver(p)
    <2>1. /\ new_ksk[p] \in Socks /\ skb[p] \in Msgs /\ rakaia_queue_rcv_skb(new_ksk[p], skb[p])
          /\ skb' = [skb EXCEPT ![p] = NULL] /\ pc[p] # "process"
          /\ UNCHANGED <<unread, rx_q, done>>
      BY <1>5, <1>l DEF PushDeliver, GoTo, rxVars
    <2>2. /\ NoDuplicates'
          /\ \/ Moves(skb[p], <<"skb", p>>, <<"sk_receive_queue", new_ksk[p]>>)
             \/ Moves(skb[p], <<"skb", p>>, <<"lost", NULL>>)
      BY <1>t, <2>1, DeliverMoves, Zenon
    <2>3. Delivered(skb[p], new_ksk[p]) \/ Dropped(skb[p])
      BY <1>t, <2>1, <2>2, Zenon DEF Delivered, Dropped
    <2> QED BY <1>f, <2>1, <2>2, <2>3, InMotion
  <1> QED BY <1>1, <1>2, <1>3, <1>4, <1>5 DEF Push

LEMMA WorkMotion ==
    ASSUME TypeOK, LockInv, OneHolder, NEW k \in Socks, Worker(k)
    PROVE  Motion /\ (NoMotion \/ NoDuplicates') /\ ProcessFrame
  <1>t. /\ pc \in [Socks \cup Psocks -> PushPC \cup WorkPC]
        /\ skb \in [Socks \cup Psocks -> Msgs \cup {NULL}]
        /\ k \in Socks \cup Psocks
    BY DEF TypeOK
  <1>l. /\ pc[k] \in {"got", "process"} => skb[k] \in Msgs
        /\ pc[k] \notin {"got", "process"} => skb[k] = NULL
        /\ pc[k] = "victim" => v1[k] \in Socks
    BY WorkLocals DEF LockInv, LocalsInv, WorkLocalsInv
  <1>f. ProcessFrame
    <2>1. \A j \in Socks \ {k} : pc'[j] = pc[j]
      BY <1>t DEF Worker, Pull, Create, PullLocal, StealPick, StealReadLen, StealCompare,
                  StealTake, PullDeliver, PullCheck, PullMark, Recvmsg, Sendmsg, GoTo
    <2>2. skb[k] = NULL \/ skb'[k] = NULL
      BY <1>t, <1>l DEF Worker, Pull, Create, PullLocal, StealPick, StealReadLen, StealCompare,
                  StealTake, PullDeliver, PullCheck, PullMark, Recvmsg, Sendmsg, GoTo
    <2> QED BY <2>1, <2>2 DEF ProcessFrame
  <1>n. ASSUME NoMotion
        PROVE  Motion /\ (NoMotion \/ NoDuplicates') /\ ProcessFrame
    BY <1>f, <1>n DEF Motion
  <1>d. ASSUME NEW j \in Socks, rx_q[j] # <<>>, Dequeue(j), skb[k] = NULL, pc'[k] # "process",
               skb' = [skb EXCEPT ![k] = Head(rx_q[j])],
               UNCHANGED <<unread, sk_receive_queue, lost, done>>
        PROVE  Motion /\ (NoMotion \/ NoDuplicates') /\ ProcessFrame
    <2>1. rx_q' = [rx_q EXCEPT ![j] = Tail(@)]
      BY <1>d DEF Dequeue
    <2>2. /\ NoDuplicates' /\ Head(rx_q[j]) \in Msgs
          /\ Moves(Head(rx_q[j]), <<"rx_q", j>>, <<"skb", k>>)
      BY <1>d, <1>t, <2>1, DequeueMoves, Zenon
    <2>3. Taken(Head(rx_q[j]))
      BY <1>d, <1>t, <2>2, Zenon DEF Taken
    <2> QED BY <1>f, <2>2, <2>3, InMotion
  <1>1. CASE Create(k) \/ StealPick(k) \/ StealReadLen(k) \/ StealCompare(k)
                \/ PullCheck(k) \/ PullMark(k)
    <2>1. NoMotion
      BY <1>1 DEF NoMotion, Create, StealPick, StealReadLen, StealCompare, PullCheck, PullMark,
                  rxVars
    <2> QED BY <1>n, <2>1
  <1>2. CASE PullLocal(k)
    <2>1. CASE rx_q[k] = <<>> /\ UNCHANGED <<rxVars, skb>>
      <3>1. NoMotion
        BY <1>2, <2>1 DEF PullLocal, NoMotion, rxVars
      <3> QED BY <1>n, <3>1
    <2>2. CASE rx_q[k] # <<>>
      <3>1. /\ Dequeue(k) /\ skb[k] = NULL /\ pc'[k] # "process"
            /\ skb' = [skb EXCEPT ![k] = Head(rx_q[k])]
            /\ UNCHANGED <<unread, sk_receive_queue, lost, done>>
        BY <1>2, <1>l, <1>t, <2>2 DEF PullLocal, GoTo
      <3> QED BY <1>d, <2>2, <3>1, Zenon
    <2> QED BY <1>2, <2>1, <2>2 DEF PullLocal
  <1>3. CASE StealTake(k)
    <2>1. CASE rx_q[v1[k]] = <<>> /\ UNCHANGED <<rxVars, skb>>
      <3>1. NoMotion
        BY <1>3, <2>1 DEF StealTake, NoMotion, rxVars
      <3> QED BY <1>n, <3>1
    <2>2. CASE rx_q[v1[k]] # <<>>
      <3>1. /\ v1[k] \in Socks /\ Dequeue(v1[k]) /\ skb[k] = NULL /\ pc'[k] # "process"
            /\ skb' = [skb EXCEPT ![k] = Head(rx_q[v1[k]])]
            /\ UNCHANGED <<unread, sk_receive_queue, lost, done>>
        BY <1>3, <1>l, <1>t, <2>2 DEF StealTake, GoTo
      <3> QED BY <1>d, <2>2, <3>1, Zenon
    <2> QED BY <1>3, <2>1, <2>2 DEF StealTake
  <1>4. CASE PullDeliver(k)
    <2>1. /\ skb[k] \in Msgs /\ rakaia_queue_rcv_skb(k, skb[k])
          /\ skb' = [skb EXCEPT ![k] = NULL] /\ pc[k] # "process"
          /\ UNCHANGED <<unread, rx_q, done>>
      BY <1>4, <1>l DEF PullDeliver, GoTo, rxVars
    <2>2. /\ NoDuplicates'
          /\ \/ Moves(skb[k], <<"skb", k>>, <<"sk_receive_queue", k>>)
             \/ Moves(skb[k], <<"skb", k>>, <<"lost", NULL>>)
      BY <1>t, <2>1, DeliverMoves, Zenon
    <2>3. Delivered(skb[k], k) \/ Dropped(skb[k])
      BY <1>t, <2>1, <2>2, Zenon DEF Delivered, Dropped
    <2> QED BY <1>f, <2>1, <2>2, <2>3, InMotion
  <1>5. CASE Recvmsg(k)
    <2>1. skb[k] = NULL /\ pc'[k] = "process"
      BY <1>5, <1>l, <1>t DEF Recvmsg, GoTo
    <2>2. /\ NoDuplicates' /\ Head(sk_receive_queue[k]) \in Msgs
          /\ Moves(Head(sk_receive_queue[k]), <<"sk_receive_queue", k>>, <<"skb", k>>)
      BY <1>5, <2>1, RecvMoves
    <2>3. Received(Head(sk_receive_queue[k]))
      BY <2>1, <2>2, Zenon DEF Received
    <2> QED BY <1>f, <2>2, <2>3, InMotion
  <1>6. CASE Sendmsg(k)
    <2>1. skb[k] \in Msgs /\ pc[k] = "process"
      BY <1>6, <1>l DEF Sendmsg, GoTo
    <2>2. NoDuplicates' /\ Moves(skb[k], <<"skb", k>>, <<"done", NULL>>)
      BY <1>6, <2>1, SendMoves
    <2>3. Sent(skb[k])
      BY <2>1, <2>2, Zenon DEF Sent
    <2> QED BY <1>f, <2>1, <2>2, <2>3, InMotion
  <1> QED BY <1>1, <1>2, <1>3, <1>4, <1>5, <1>6 DEF Worker, Pull

LEMMA StepMotion ==
    ASSUME TypeOK, LockInv, OneHolder, [Next]_vars
    PROVE  Motion /\ (NoMotion \/ NoDuplicates') /\ ProcessFrame
  <1>t. pc \in [Socks \cup Psocks -> PushPC \cup WorkPC] /\ Socks \cap Psocks = {}
    BY ConstAssumption DEF TypeOK
  <1>1. ASSUME NEW k \in Socks, NEW p \in Psocks, Attach(k, p)
        PROVE  Motion /\ NoMotion /\ ProcessFrame
    BY <1>1, <1>t DEF Attach, GoTo, rxVars, Motion, NoMotion, ProcessFrame
  <1>2. CASE UNCHANGED vars
    BY <1>2 DEF vars, rxVars, Motion, NoMotion, ProcessFrame
  <1> QED BY <1>1, <1>2, PushMotion, WorkMotion DEF Next

\* No step loses, copies or mixes up a message.
LEMMA HolderStep ==
    ASSUME TypeOK, LockInv, OneHolder, [Next]_vars
    PROVE  OneHolder'
  <1>1. CASE NoMotion
    BY <1>1, HeldFrame DEF NoMotion
  <1>2. CASE ~NoMotion
    <2>1. NoDuplicates' /\ \E m \in Msgs : \E src, dst : Moves(m, src, dst)
      BY <1>2, StepMotion DEF Motion, Arrives, Requeued, Taken, Delivered, Dropped, Received, Sent
    <2> QED BY <2>1, MoveKeeps
  <1> QED BY <1>1, <1>2

LEMMA HolderInit == Init => OneHolder
  <1> SUFFICES ASSUME Init
               PROVE  OneHolder
    OBVIOUS
  <1>1. /\ \A p \in Psocks : <<"unread", p>> \in Holders
                              /\ held[<<"unread", p>>] = Range(Stream[p])
        /\ \A h \in Holders : held[h] # {} => \E p \in Psocks : h = <<"unread", p>>
    <2>1. ASSUME NEW p \in Psocks
          PROVE  <<"unread", p>> \in Holders /\ held[<<"unread", p>>] = Range(Stream[p])
      BY HeldAt DEF Init
    <2>2. ASSUME NEW k \in Socks
          PROVE  held[<<"rx_q", k>>] = {} /\ held[<<"sk_receive_queue", k>>] = {}
      <3>1. held[<<"rx_q", k>>] = Range(<<>>) /\ held[<<"sk_receive_queue", k>>] = Range(<<>>)
        BY HeldAt DEF Init
      <3> QED BY <3>1 DEF Range
    <2>3. \A t \in Socks \cup Psocks : held[<<"skb", t>>] = {}
      BY HeldAt DEF Init
    <2>4. held[<<"lost", NULL>>] = {} /\ held[<<"done", NULL>>] = {}
      BY HeldAt DEF Init
    <2>5. ASSUME NEW h \in Holders, held[h] # {}
          PROVE  \E p \in Psocks : h = <<"unread", p>>
      BY <2>2, <2>3, <2>4, <2>5, HolderKinds DEF HolderKind
    <2> QED BY <2>1, <2>5
  <1>2. ASSUME NEW m \in Msgs
        PROVE  \E h \in Holders : m \in held[h]
    <2>1. PICK p \in Psocks : \E i \in DOMAIN Stream[p] : Stream[p][i] = m
      BY StreamAssumption
    <2>2. m \in held[<<"unread", p>>]
      BY <1>1, <2>1 DEF Range
    <2> QED BY <1>1, <2>2
  <1>s. \A p \in Psocks : \A i \in DOMAIN Stream[p] : Stream[p][i] \in Msgs
    BY ConstAssumption
  <1>u. ASSUME NEW p \in Psocks, NEW q \in Psocks, NEW i \in DOMAIN Stream[p],
               NEW j \in DOMAIN Stream[q], Stream[p][i] = Stream[q][j]
        PROVE  p = q /\ i = j
    BY <1>s, <1>u, StreamAssumption
  <1>3. ASSUME NEW g \in Holders, NEW h \in Holders, g # h
        PROVE  held[g] \cap held[h] = {}
    <2>1. ASSUME NEW m, m \in held[g], m \in held[h]
          PROVE  FALSE
      <3>1. PICK p \in Psocks : g = <<"unread", p>>
        BY <1>1, <2>1
      <3>2. PICK q \in Psocks : h = <<"unread", q>>
        BY <1>1, <2>1
      <3>3. m \in Range(Stream[p]) /\ m \in Range(Stream[q])
        BY <1>1, <2>1, <3>1, <3>2
      <3>4. p = q
        BY <1>u, <3>3 DEF Range
      <3> QED BY <1>3, <3>1, <3>2, <3>4
    <2> QED BY <2>1
  <1>4. \A p \in Psocks : IsInjective(unread[p])
    BY <1>u DEF IsInjective, Init
  <1>5. \A k \in Socks : IsInjective(rx_q[k]) /\ IsInjective(sk_receive_queue[k])
    BY DEF IsInjective, Init
  <1> QED BY <1>2, <1>3, <1>4, <1>5 DEF OneHolder
=============================================================================
