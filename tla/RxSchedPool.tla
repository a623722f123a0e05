---------------------------- MODULE RxSchedPool ----------------------------
(* Queues, bitmaps and locks together implement MsgPool, for every number  *)
(* of sockets, connections and messages and with failures allowed.         *)
EXTENDS RxSchedPlaces

\* Whatever the race between push, pull and steal, and whatever fails, every
\* message is in exactly one stream, queue, local, or the set of the processed or
\* of the dropped ones (rakaia_push_skb_single_queue, rakaia_pull, rakaia_steal_skb,
\* rakaia_queue_rcv_skb).
THEOREM MessageConserved == Spec => []OneHolder
  <1>1. IInv /\ OneHolder /\ [Next]_vars => OneHolder'
    BY HolderStep DEF IInv
  <1> QED BY <1>1, HolderInit, Invariance, PTL DEF Spec

\* A message found in one place is in no other.
LEMMA OnlyThere ==
    ASSUME TypeOK, OneHolder, NEW m \in Msgs, NEW h \in Holders, m \in held[h]
    PROVE  /\ m \in done => h = <<"done", NULL>>
           /\ m \in lost => h = <<"lost", NULL>>
           /\ \A k \in Socks : skb[k] = m => h = <<"skb", k>>
           /\ \A k \in Socks : m \in Range(sk_receive_queue[k]) => h = <<"sk_receive_queue", k>>
           /\ \A p \in Psocks : m \in Range(unread[p]) => h = <<"unread", p>>
  <1>1. ASSUME NEW g \in Holders, m \in held[g]
        PROVE  h = g
    BY <1>1 DEF OneHolder
  <1>2. m # NULL
    BY ConstAssumption
  <1>3. /\ m \in done => m \in held[<<"done", NULL>>]
        /\ m \in lost => m \in held[<<"lost", NULL>>]
    BY HeldAt
  <1>4. ASSUME NEW k \in Socks
        PROVE  /\ skb[k] = m => m \in held[<<"skb", k>>]
               /\ m \in Range(sk_receive_queue[k]) => m \in held[<<"sk_receive_queue", k>>]
    BY <1>2, HeldAt
  <1>5. \A p \in Psocks : m \in Range(unread[p]) => m \in held[<<"unread", p>>]
    BY HeldAt
  <1> QED BY <1>1, <1>3, <1>4, <1>5, HeldAt

\* The stage and the owner of a message, by the place it is in.
stageOf ==
    [h \in Holders |->
        CASE h[1] = "unread" -> "unread"
          [] h[1] = "rx_q" -> "queued"
          [] h[1] = "skb" -> IF h[2] \in Socks /\ pc[h[2]] = "process" THEN "running" ELSE "queued"
          [] h[1] = "sk_receive_queue" -> "delivered"
          [] h[1] = "lost" -> "lost"
          [] h[1] = "done" -> "done"]

ownerOf ==
    [h \in Holders |->
        IF \/ h[1] = "sk_receive_queue"
           \/ h[1] = "skb" /\ h[2] \in Socks /\ pc[h[2]] = "process"
        THEN h[2] ELSE NULL]

LEMMA PlaceAt ==
    /\ \A p \in Psocks : /\ stageOf[<<"unread", p>>] = "unread" /\ ownerOf[<<"unread", p>>] = NULL
                          /\ stageOf'[<<"unread", p>>] = "unread" /\ ownerOf'[<<"unread", p>>] = NULL
    /\ \A k \in Socks : /\ stageOf[<<"rx_q", k>>] = "queued" /\ ownerOf[<<"rx_q", k>>] = NULL
                         /\ stageOf'[<<"rx_q", k>>] = "queued" /\ ownerOf'[<<"rx_q", k>>] = NULL
    /\ \A k \in Socks : LET h == <<"sk_receive_queue", k>>
                         IN  /\ stageOf[h] = "delivered" /\ ownerOf[h] = k
                             /\ stageOf'[h] = "delivered" /\ ownerOf'[h] = k
    /\ LET h == <<"lost", NULL>>
       IN  stageOf[h] = "lost" /\ ownerOf[h] = NULL /\ stageOf'[h] = "lost" /\ ownerOf'[h] = NULL
    /\ LET h == <<"done", NULL>>
       IN  stageOf[h] = "done" /\ ownerOf[h] = NULL /\ stageOf'[h] = "done" /\ ownerOf'[h] = NULL
  <1>1. ASSUME NEW p \in Psocks
        PROVE  /\ stageOf[<<"unread", p>>] = "unread" /\ ownerOf[<<"unread", p>>] = NULL
               /\ stageOf'[<<"unread", p>>] = "unread" /\ ownerOf'[<<"unread", p>>] = NULL
    BY DEF Holders, stageOf, ownerOf
  <1>2. ASSUME NEW k \in Socks
        PROVE  /\ stageOf[<<"rx_q", k>>] = "queued" /\ ownerOf[<<"rx_q", k>>] = NULL
               /\ stageOf'[<<"rx_q", k>>] = "queued" /\ ownerOf'[<<"rx_q", k>>] = NULL
    BY DEF Holders, stageOf, ownerOf
  <1>3. ASSUME NEW k \in Socks, NEW h, h = <<"sk_receive_queue", k>>
        PROVE  /\ stageOf[h] = "delivered" /\ ownerOf[h] = k
               /\ stageOf'[h] = "delivered" /\ ownerOf'[h] = k
    BY <1>3 DEF Holders, stageOf, ownerOf
  <1>4. ASSUME NEW h, h = <<"lost", NULL>>
        PROVE  stageOf[h] = "lost" /\ ownerOf[h] = NULL /\ stageOf'[h] = "lost" /\ ownerOf'[h] = NULL
    BY <1>4 DEF Holders, stageOf, ownerOf
  <1>5. ASSUME NEW h, h = <<"done", NULL>>
        PROVE  stageOf[h] = "done" /\ ownerOf[h] = NULL /\ stageOf'[h] = "done" /\ ownerOf'[h] = NULL
    BY <1>5 DEF Holders, stageOf, ownerOf
  <1> QED BY <1>1, <1>2, <1>3, <1>4, <1>5

\* A local holds a running message while its worker processes it, else a queued one.
LEMMA LocalAt ==
    ASSUME NEW t \in Socks \cup Psocks
    PROVE  /\ IF t \in Socks /\ pc[t] = "process"
              THEN stageOf[<<"skb", t>>] = "running" /\ ownerOf[<<"skb", t>>] = t
              ELSE stageOf[<<"skb", t>>] = "queued" /\ ownerOf[<<"skb", t>>] = NULL
           /\ IF t \in Socks /\ pc'[t] = "process"
              THEN stageOf'[<<"skb", t>>] = "running" /\ ownerOf'[<<"skb", t>>] = t
              ELSE stageOf'[<<"skb", t>>] = "queued" /\ ownerOf'[<<"skb", t>>] = NULL
  BY DEF Holders, stageOf, ownerOf

StageTable ==
    \A m \in Msgs : \A h \in Holders :
        m \in held[h] => stage[m] = stageOf[h] /\ owner[m] = ownerOf[h]

\* Owner is the socket that holds the message, when there is one.
LEMMA OwnerIs ==
    ASSUME NEW m
    PROVE  /\ \A k \in Socks :
                 /\ (pc[k] = "process" /\ skb[k] = m) \/ m \in Range(sk_receive_queue[k])
                 /\ \A j \in Socks : (pc[j] = "process" /\ skb[j] = m)
                                       \/ m \in Range(sk_receive_queue[j]) => j = k
                 => Owner(m) = k
           /\ (\A k \in Socks : ~(pc[k] = "process" /\ skb[k] = m)
                                 /\ m \notin Range(sk_receive_queue[k])) => Owner(m) = NULL
  BY DEF Owner

\* Stage, one line of its CASE at a time.
LEMMA StageIs ==
    ASSUME NEW m
    PROVE  LET running == \E k \in Socks : pc[k] = "process" /\ skb[k] = m
               delivered == \E k \in Socks : m \in Range(sk_receive_queue[k])
               notread == \E p \in Psocks : m \in Range(unread[p])
           IN  /\ m \notin done /\ m \notin lost /\ ~running /\ ~delivered /\ ~notread
                  => Stage(m) = "queued"
               /\ m \notin done /\ m \notin lost /\ ~running /\ delivered /\ ~notread
                  => Stage(m) = "delivered"
               /\ m \notin done /\ m \notin lost /\ running /\ ~delivered /\ ~notread
                  => Stage(m) = "running"
               /\ m \notin done /\ m \in lost /\ ~running /\ ~delivered /\ ~notread
                  => Stage(m) = "lost"
               /\ m \in done /\ m \notin lost /\ ~running /\ ~delivered /\ ~notread
                  => Stage(m) = "done"
  <1> DEFINE running == \E k \in Socks : pc[k] = "process" /\ skb[k] = m
             delivered == \E k \in Socks : m \in Range(sk_receive_queue[k])
             notread == \E p \in Psocks : m \in Range(unread[p])
  <1>1. Stage(m) = CASE m \in done -> "done"
                     [] m \in lost -> "lost"
                     [] running -> "running"
                     [] delivered -> "delivered"
                     [] notread -> "unread"
                     [] OTHER -> "queued"
    BY DEF Stage
  <1> HIDE DEF running, delivered, notread
  <1>2. /\ m \notin done /\ m \notin lost /\ ~running /\ ~delivered /\ ~notread
           => Stage(m) = "queued"
        /\ m \notin done /\ m \notin lost /\ ~running /\ delivered /\ ~notread
           => Stage(m) = "delivered"
        /\ m \notin done /\ m \notin lost /\ running /\ ~delivered /\ ~notread
           => Stage(m) = "running"
        /\ m \notin done /\ m \in lost /\ ~running /\ ~delivered /\ ~notread
           => Stage(m) = "lost"
        /\ m \in done /\ m \notin lost /\ ~running /\ ~delivered /\ ~notread
           => Stage(m) = "done"
    BY <1>1
  <1> QED BY <1>2, Zenon DEF running, delivered, notread

LEMMA Stages == TypeOK /\ OneHolder => StageTable
  <1> SUFFICES ASSUME TypeOK, OneHolder, NEW m \in Msgs
               PROVE  \A h \in Holders :
                          m \in held[h] => stage[m] = stageOf[h] /\ owner[m] = ownerOf[h]
    BY DEF StageTable
  <1>n. NULL \notin Socks \cup Psocks \cup Msgs /\ Socks \cap Psocks = {}
    BY ConstAssumption
  <1>s. stage[m] = Stage(m) /\ owner[m] = Owner(m)
    BY DEF stage, owner
  <1>1. ASSUME NEW p \in Psocks, m \in held[<<"unread", p>>]
        PROVE  Stage(m) = "unread" /\ Owner(m) = NULL
    <2>1. /\ m \notin done /\ m \notin lost /\ m \in Range(unread[p])
          /\ \A k \in Socks : skb[k] # m /\ m \notin Range(sk_receive_queue[k])
      BY <1>1, HeldAt, OnlyThere
    <2>2. Owner(m) = NULL
      BY <2>1, OwnerIs
    <2>3. Stage(m) = "unread"
      BY <2>1 DEF Stage
    <2> QED BY <2>2, <2>3
  <1>2. ASSUME NEW k \in Socks, m \in held[<<"rx_q", k>>]
        PROVE  Stage(m) = "queued" /\ Owner(m) = NULL
    <2>1. /\ m \notin done /\ m \notin lost
          /\ \A j \in Socks : skb[j] # m /\ m \notin Range(sk_receive_queue[j])
          /\ \A p \in Psocks : m \notin Range(unread[p])
      BY <1>2, HeldAt, OnlyThere
    <2>2. Owner(m) = NULL
      BY <2>1, OwnerIs
    <2>3. Stage(m) = "queued"
      BY <2>1, StageIs
    <2> QED BY <2>2, <2>3
  <1>3. ASSUME NEW t \in Socks \cup Psocks, m \in held[<<"skb", t>>],
               ~(t \in Socks /\ pc[t] = "process")
        PROVE  Stage(m) = "queued" /\ Owner(m) = NULL
    <2>1. /\ m \notin done /\ m \notin lost
          /\ \A j \in Socks : m \notin Range(sk_receive_queue[j])
          /\ \A j \in Socks : skb[j] = m => j = t
          /\ \A p \in Psocks : m \notin Range(unread[p])
      BY <1>3, HeldAt, OnlyThere
    <2>2. Owner(m) = NULL
      BY <1>3, <2>1, OwnerIs
    <2>3. Stage(m) = "queued"
      BY <1>3, <2>1, StageIs
    <2> QED BY <2>2, <2>3
  <1>4. ASSUME NEW k \in Socks, m \in held[<<"sk_receive_queue", k>>]
        PROVE  Stage(m) = "delivered" /\ Owner(m) = k
    <2>1. /\ m \notin done /\ m \notin lost /\ m \in Range(sk_receive_queue[k])
          /\ \A j \in Socks : skb[j] # m /\ (m \in Range(sk_receive_queue[j]) => j = k)
          /\ \A p \in Psocks : m \notin Range(unread[p])
      BY <1>4, HeldAt, OnlyThere
    <2>2. Owner(m) = k
      BY <2>1, OwnerIs
    <2>3. Stage(m) = "delivered"
      <3>1. \E j \in Socks : m \in Range(sk_receive_queue[j])
        BY <2>1
      <3> QED BY <2>1, <3>1, StageIs
    <2> QED BY <2>2, <2>3
  <1>5. ASSUME NEW k \in Socks, m \in held[<<"skb", k>>], pc[k] = "process"
        PROVE  Stage(m) = "running" /\ Owner(m) = k
    <2>1. /\ m \notin done /\ m \notin lost /\ skb[k] = m
          /\ \A j \in Socks : m \notin Range(sk_receive_queue[j]) /\ (skb[j] = m => j = k)
          /\ \A p \in Psocks : m \notin Range(unread[p])
      BY <1>5, HeldAt, OnlyThere
    <2>2. Owner(m) = k
      BY <1>5, <2>1, OwnerIs
    <2>3. Stage(m) = "running"
      <3>1. \E j \in Socks : pc[j] = "process" /\ skb[j] = m
        BY <1>5, <2>1
      <3> QED BY <2>1, <3>1, StageIs
    <2> QED BY <2>2, <2>3
  <1>6. ASSUME m \in held[<<"lost", NULL>>]
        PROVE  Stage(m) = "lost" /\ Owner(m) = NULL
    <2>1. /\ m \in lost /\ m \notin done /\ \A p \in Psocks : m \notin Range(unread[p])
          /\ \A j \in Socks : skb[j] # m /\ m \notin Range(sk_receive_queue[j])
      BY <1>6, HeldAt, OnlyThere
    <2>2. Owner(m) = NULL
      BY <2>1, OwnerIs
    <2>3. Stage(m) = "lost"
      BY <2>1, StageIs
    <2> QED BY <2>2, <2>3
  <1>7. ASSUME m \in held[<<"done", NULL>>]
        PROVE  Stage(m) = "done" /\ Owner(m) = NULL
    <2>1. /\ m \in done /\ m \notin lost /\ \A p \in Psocks : m \notin Range(unread[p])
          /\ \A j \in Socks : skb[j] # m /\ m \notin Range(sk_receive_queue[j])
      BY <1>7, HeldAt, OnlyThere
    <2>2. Owner(m) = NULL
      BY <2>1, OwnerIs
    <2>3. Stage(m) = "done"
      BY <2>1, StageIs
    <2> QED BY <2>2, <2>3
  <1>8. ASSUME NEW h \in Holders, m \in held[h]
        PROVE  Stage(m) = stageOf[h] /\ Owner(m) = ownerOf[h]
    <2>1. ASSUME NEW p \in Psocks, h = <<"unread", p>>
          PROVE  Stage(m) = stageOf[h] /\ Owner(m) = ownerOf[h]
      BY <1>1, <1>8, <2>1, PlaceAt, Zenon
    <2>2. ASSUME NEW k \in Socks, h = <<"rx_q", k>>
          PROVE  Stage(m) = stageOf[h] /\ Owner(m) = ownerOf[h]
      BY <1>2, <1>8, <2>2, PlaceAt, Zenon
    <2>3. ASSUME NEW k \in Socks, h = <<"sk_receive_queue", k>>
          PROVE  Stage(m) = stageOf[h] /\ Owner(m) = ownerOf[h]
      BY <1>4, <1>8, <2>3, PlaceAt, Zenon
    <2>4. ASSUME NEW t \in Socks \cup Psocks, h = <<"skb", t>>
          PROVE  Stage(m) = stageOf[h] /\ Owner(m) = ownerOf[h]
      BY <1>3, <1>5, <1>8, <2>4, LocalAt, Zenon
    <2>5. CASE h = <<"lost", NULL>>
      BY <1>6, <1>8, <2>5, PlaceAt, Zenon
    <2>6. CASE h = <<"done", NULL>>
      BY <1>7, <1>8, <2>6, PlaceAt, Zenon
    <2> QED BY <2>1, <2>2, <2>3, <2>4, <2>5, <2>6, HolderKinds, Zenon DEF HolderKind
  <1> QED BY <1>s, <1>8, Zenon

\* A place does not change what it says of a message that stays there.
LEMMA PlaceKeeps ==
    ASSUME ProcessFrame, NEW n, NEW h \in Holders, n \in held[h], n \in held'[h]
    PROVE  stageOf'[h] = stageOf[h] /\ ownerOf'[h] = ownerOf[h]
  <1>1. ASSUME NEW p \in Psocks, h = <<"unread", p>>
        PROVE  stageOf'[h] = stageOf[h] /\ ownerOf'[h] = ownerOf[h]
    BY <1>1, PlaceAt
  <1>2. ASSUME NEW k \in Socks, h = <<"rx_q", k>> \/ h = <<"sk_receive_queue", k>>
        PROVE  stageOf'[h] = stageOf[h] /\ ownerOf'[h] = ownerOf[h]
    BY <1>2, PlaceAt
  <1>3. CASE h = <<"lost", NULL>> \/ h = <<"done", NULL>>
    BY <1>3, PlaceAt
  <1>4. ASSUME NEW t \in Socks \cup Psocks, h = <<"skb", t>>
        PROVE  stageOf'[h] = stageOf[h] /\ ownerOf'[h] = ownerOf[h]
    <2>1. skb[t] # NULL /\ skb'[t] # NULL
      BY <1>4, HeldAt
    <2>2. t \in Socks => (pc'[t] = "process" <=> pc[t] = "process")
      BY <2>1 DEF ProcessFrame
    <2> QED BY <1>4, <2>2, LocalAt, Zenon
  <1> QED BY <1>1, <1>2, <1>3, <1>4, HolderKinds, Zenon DEF HolderKind

\* A message the step does not move keeps its stage and its owner.
LEMMA OthersKeep ==
    ASSUME OneHolder, StageTable, StageTable', ProcessFrame, NEW n \in Msgs,
           \A h \in Holders : n \in held[h] => n \in held'[h]
    PROVE  stage'[n] = stage[n] /\ owner'[n] = owner[n]
  <1>1. PICK h \in Holders : n \in held[h]
    BY DEF OneHolder
  <1>2. n \in held'[h]
    BY <1>1
  <1>3. stage[n] = stageOf[h] /\ owner[n] = ownerOf[h]
    BY <1>1, Zenon DEF StageTable
  <1>4. stage'[n] = stageOf'[h] /\ owner'[n] = ownerOf'[h]
    BY <1>2, Zenon DEF StageTable
  <1> QED BY <1>1, <1>2, <1>3, <1>4, PlaceKeeps, Zenon

\* So a move changes the stage and the owner of the message it moves, at most, and
\* to those of the place it moves to.
LEMMA OneChanges ==
    ASSUME OneHolder, StageTable, StageTable', ProcessFrame,
           NEW m \in Msgs, NEW src \in Holders, NEW dst \in Holders, Moves(m, src, dst)
    PROVE  /\ stage[m] = stageOf[src] /\ owner[m] = ownerOf[src]
           /\ stage' = [stage EXCEPT ![m] = stageOf'[dst]]
           /\ owner' = [owner EXCEPT ![m] = ownerOf'[dst]]
           /\ ownerOf'[dst] = ownerOf[src] => UNCHANGED owner
           /\ stageOf'[dst] = stageOf[src] => UNCHANGED stage
  <1>1. ASSUME NEW n \in Msgs, n # m
        PROVE  stage'[n] = stage[n] /\ owner'[n] = owner[n]
    <2>1. \A h \in Holders : n \in held[h] => n \in held'[h]
      BY <1>1 DEF Moves
    <2> QED BY <2>1, OthersKeep, Zenon
  <1>2. m \in held[src] /\ m \in held'[dst]
    BY DEF Moves
  <1>3. stage[m] = stageOf[src] /\ owner[m] = ownerOf[src]
    BY <1>2, Zenon DEF StageTable
  <1>4. stage'[m] = stageOf'[dst] /\ owner'[m] = ownerOf'[dst]
    BY <1>2, Zenon DEF StageTable
  <1>5. /\ stage = [n \in Msgs |-> stage[n]] /\ stage' = [n \in Msgs |-> stage'[n]]
        /\ owner = [n \in Msgs |-> owner[n]] /\ owner' = [n \in Msgs |-> owner'[n]]
    BY DEF stage, owner
  <1> QED BY <1>1, <1>3, <1>4, <1>5

LEMMA NoneChanges ==
    ASSUME OneHolder, StageTable, StageTable', ProcessFrame, NoMotion
    PROVE  UNCHANGED <<stage, owner>>
  <1>1. ASSUME NEW n \in Msgs
        PROVE  stage'[n] = stage[n] /\ owner'[n] = owner[n]
    <2>1. \A h \in Holders : n \in held[h] => n \in held'[h]
      BY HeldFrame DEF NoMotion
    <2> QED BY <2>1, OthersKeep, Zenon
  <1>2. /\ stage = [n \in Msgs |-> stage[n]] /\ stage' = [n \in Msgs |-> stage'[n]]
        /\ owner = [n \in Msgs |-> owner[n]] /\ owner' = [n \in Msgs |-> owner'[n]]
    BY DEF stage, owner
  <1> QED BY <1>1, <1>2

\* A message in the stage "running" is in the local of the worker that owns it.
LEMMA RunningIs ==
    ASSUME OneHolder, StageTable, NEW n \in Msgs, stage[n] = "running"
    PROVE  skb[owner[n]] = n
  <1>1. PICK h \in Holders : n \in held[h]
    BY DEF OneHolder
  <1>2. stageOf[h] = "running" /\ owner[n] = ownerOf[h]
    BY <1>1, Zenon DEF StageTable
  <1>3. PICK t \in Socks \cup Psocks : h = <<"skb", t>>
    BY <1>2, HolderKinds, PlaceAt DEF HolderKind
  <1>4. owner[n] = t
    BY <1>2, <1>3, LocalAt
  <1>5. skb[t] = n
    BY <1>1, <1>3, HeldAt
  <1> QED BY <1>4, <1>5

\* Every step of the scheduler is a step of the pool or leaves it as it is.
LEMMA PoolStep ==
    ASSUME TypeOK, LockInv, OneHolder, StageTable, StageTable', [Next]_vars
    PROVE  [Pool!Next]_<<stage, owner>>
  <1>0. Motion /\ ProcessFrame
    BY StepMotion
  <1>1. CASE NoMotion
    BY <1>0, <1>1, NoneChanges
  <1>h. /\ \A p \in Psocks : <<"unread", p>> \in Holders
        /\ \A k \in Socks : <<"rx_q", k>> \in Holders /\ <<"sk_receive_queue", k>> \in Holders
        /\ \A t \in Socks \cup Psocks : <<"skb", t>> \in Holders
        /\ <<"lost", NULL>> \in Holders /\ <<"done", NULL>> \in Holders
    BY DEF Holders
  <1>n. Socks \cap Psocks = {}
    BY ConstAssumption
  <1>2. ASSUME NEW m \in Msgs, NEW src \in Holders, NEW dst \in Holders, Moves(m, src, dst)
        PROVE  /\ stage[m] = stageOf[src] /\ owner[m] = ownerOf[src]
               /\ stage' = [stage EXCEPT ![m] = stageOf'[dst]]
               /\ owner' = [owner EXCEPT ![m] = ownerOf'[dst]]
               /\ ownerOf'[dst] = ownerOf[src] => UNCHANGED owner
               /\ stageOf'[dst] = stageOf[src] => UNCHANGED stage
    BY <1>0, <1>2, OneChanges
  <1>3. ASSUME NEW m \in Msgs, Arrives(m)
        PROVE  Pool!Accept(m)
    <2>1. PICK p \in Psocks : Moves(m, <<"unread", p>>, <<"skb", p>>)
      BY <1>3 DEF Arrives
    <2>2. PICK src \in Holders, dst \in Holders : src = <<"unread", p>> /\ dst = <<"skb", p>>
      BY <1>h
    <2>3. /\ stageOf[src] = "unread" /\ ownerOf[src] = NULL
          /\ stageOf'[dst] = "queued" /\ ownerOf'[dst] = NULL
      BY <1>n, <2>2, PlaceAt, LocalAt
    <2>4. stage[m] = "unread" /\ stage' = [stage EXCEPT ![m] = "queued"] /\ UNCHANGED owner
      <3>1. Moves(m, src, dst)
        BY <2>1, <2>2
      <3> QED BY <1>2, <2>3, <3>1
    <2> QED BY <2>4 DEF Pool!Accept
  <1>4. ASSUME NEW m \in Msgs, Requeued(m)
        PROVE  UNCHANGED <<stage, owner>>
    <2>1. PICK p \in Psocks, j \in Socks : Moves(m, <<"skb", p>>, <<"rx_q", j>>)
      BY <1>4 DEF Requeued
    <2>2. PICK src \in Holders, dst \in Holders : src = <<"skb", p>> /\ dst = <<"rx_q", j>>
      BY <1>h
    <2>3. /\ stageOf[src] = "queued" /\ ownerOf[src] = NULL
          /\ stageOf'[dst] = "queued" /\ ownerOf'[dst] = NULL
      BY <1>n, <2>2, PlaceAt, LocalAt
    <2>4. UNCHANGED stage /\ UNCHANGED owner
      <3>1. Moves(m, src, dst)
        BY <2>1, <2>2
      <3> QED BY <1>2, <2>3, <3>1
    <2> QED BY <2>4
  <1>5. ASSUME NEW m \in Msgs, Taken(m)
        PROVE  UNCHANGED <<stage, owner>>
    <2>1. PICK t \in Socks \cup Psocks, j \in Socks :
              pc'[t] # "process" /\ Moves(m, <<"rx_q", j>>, <<"skb", t>>)
      BY <1>5 DEF Taken
    <2>2. PICK src \in Holders, dst \in Holders : src = <<"rx_q", j>> /\ dst = <<"skb", t>>
      BY <1>h
    <2>3. /\ stageOf[src] = "queued" /\ ownerOf[src] = NULL
          /\ stageOf'[dst] = "queued" /\ ownerOf'[dst] = NULL
      BY <2>1, <2>2, PlaceAt, LocalAt
    <2>4. UNCHANGED stage /\ UNCHANGED owner
      <3>1. Moves(m, src, dst)
        BY <2>1, <2>2
      <3> QED BY <1>2, <2>3, <3>1
    <2> QED BY <2>4
  <1>6. ASSUME NEW m \in Msgs, NEW k \in Socks, Delivered(m, k)
        PROVE  Pool!Deliver(m, k)
    <2>1. PICK t \in Socks \cup Psocks :
              pc[t] # "process" /\ Moves(m, <<"skb", t>>, <<"sk_receive_queue", k>>)
      BY <1>6 DEF Delivered
    <2>2. PICK src \in Holders, dst \in Holders : src = <<"skb", t>> /\ dst = <<"sk_receive_queue", k>>
      BY <1>h
    <2>3. /\ stageOf[src] = "queued" /\ ownerOf[src] = NULL
          /\ stageOf'[dst] = "delivered"
          /\ ownerOf'[dst] = k
      BY <2>1, <2>2, PlaceAt, LocalAt
    <2>4. /\ stage[m] = "queued" /\ stage' = [stage EXCEPT ![m] = "delivered"]
          /\ owner' = [owner EXCEPT ![m] = k]
      <3>1. Moves(m, src, dst)
        BY <2>1, <2>2
      <3> QED BY <1>2, <2>3, <3>1
    <2> QED BY <2>4 DEF Pool!Deliver
  <1>7. ASSUME NEW m \in Msgs, Dropped(m)
        PROVE  Pool!Drop(m)
    <2>1. PICK t \in Socks \cup Psocks :
              pc[t] # "process" /\ Moves(m, <<"skb", t>>, <<"lost", NULL>>)
      BY <1>7 DEF Dropped
    <2>2. PICK src \in Holders, dst \in Holders : src = <<"skb", t>> /\ dst = <<"lost", NULL>>
      BY <1>h
    <2>3. /\ stageOf[src] = "queued" /\ ownerOf[src] = NULL
          /\ stageOf'[dst] = "lost" /\ ownerOf'[dst] = NULL
      BY <2>1, <2>2, PlaceAt, LocalAt
    <2>4. stage[m] = "queued" /\ stage' = [stage EXCEPT ![m] = "lost"] /\ UNCHANGED owner
      <3>1. Moves(m, src, dst)
        BY <2>1, <2>2
      <3> QED BY <1>2, <2>3, <3>1
    <2> QED BY <2>4 DEF Pool!Drop
  <1>8. ASSUME NEW m \in Msgs, Received(m)
        PROVE  Pool!Run(m)
    <2>1. PICK k \in Socks : /\ skb[k] = NULL /\ pc'[k] = "process"
                             /\ Moves(m, <<"sk_receive_queue", k>>, <<"skb", k>>)
      BY <1>8 DEF Received
    <2>2. PICK src \in Holders, dst \in Holders : src = <<"sk_receive_queue", k>> /\ dst = <<"skb", k>>
      BY <1>h
    <2>3. /\ stageOf[src] = "delivered"
          /\ ownerOf[src] = k
          /\ stageOf'[dst] = "running" /\ ownerOf'[dst] = k
      BY <2>1, <2>2, PlaceAt, LocalAt
    <2>4. /\ stage[m] = "delivered" /\ owner[m] = k
          /\ stage' = [stage EXCEPT ![m] = "running"] /\ UNCHANGED owner
      <3>1. Moves(m, src, dst)
        BY <2>1, <2>2
      <3> QED BY <1>2, <2>3, <3>1
    <2>5. ASSUME NEW n \in Msgs, stage[n] = "running"
          PROVE  owner[n] # owner[m]
      BY <2>1, <2>4, <2>5, RunningIs, ConstAssumption
    <2> QED BY <2>4, <2>5 DEF Pool!Run
  <1>9. ASSUME NEW m \in Msgs, Sent(m)
        PROVE  Pool!Finish(m)
    <2>1. PICK k \in Socks : pc[k] = "process" /\ Moves(m, <<"skb", k>>, <<"done", NULL>>)
      BY <1>9 DEF Sent
    <2>2. PICK src \in Holders, dst \in Holders : src = <<"skb", k>> /\ dst = <<"done", NULL>>
      BY <1>h
    <2>3. /\ stageOf[src] = "running"
          /\ stageOf'[dst] = "done" /\ ownerOf'[dst] = NULL
      BY <2>1, <2>2, PlaceAt, LocalAt
    <2>4. /\ stage[m] = "running" /\ stage' = [stage EXCEPT ![m] = "done"]
          /\ owner' = [owner EXCEPT ![m] = NULL]
      <3>1. Moves(m, src, dst)
        BY <2>1, <2>2
      <3> QED BY <1>2, <2>3, <3>1
    <2> QED BY <2>4 DEF Pool!Finish
  <1> QED BY <1>0, <1>1, <1>3, <1>4, <1>5, <1>6, <1>7, <1>8, <1>9 DEF Motion, Pool!Next

LEMMA PoolInit == Init => Pool!Init
  <1> SUFFICES ASSUME Init
               PROVE  Pool!Init
    OBVIOUS
  <1>1. StageTable
    BY InitInv, HolderInit, Stages DEF IInv
  <1>2. ASSUME NEW m \in Msgs
        PROVE  stage[m] = "unread" /\ owner[m] = NULL
    <2>1. PICK p \in Psocks : \E i \in DOMAIN Stream[p] : Stream[p][i] = m
      BY StreamAssumption
    <2>2. m \in Range(unread[p])
      BY <2>1 DEF Init, Range
    <2>3. m \in held[<<"unread", p>>] /\ <<"unread", p>> \in Holders
      BY <2>2, HeldAt DEF Holders
    <2>4. stage[m] = stageOf[<<"unread", p>>] /\ owner[m] = ownerOf[<<"unread", p>>]
      BY <1>1, <2>3, Zenon DEF StageTable
    <2> QED BY <2>4, PlaceAt, Zenon
  <1>3. stage = [m \in Msgs |-> stage[m]] /\ owner = [m \in Msgs |-> owner[m]]
    BY DEF stage, owner
  <1> QED BY <1>2, <1>3 DEF Pool!Init

\* Queues, bitmaps, locks, pushes, pulls and steals implement the pool of MsgPool, for
\* any number of sockets, connections and messages and with failures: every message
\* is accepted once, delivered to at most one socket, run by the worker of that
\* socket and no other, one at a time, and finished once.
THEOREM ImplementsPool == Spec => PoolSpec
  <1>1. /\ IInv /\ OneHolder /\ StageTable /\ StageTable' /\ [Next]_vars
           => [Pool!Next]_<<stage, owner>>
    BY PoolStep DEF IInv
  <1>2. IInv /\ OneHolder => StageTable
    BY Stages DEF IInv
  <1> QED BY <1>1, <1>2, PoolInit, Invariance, MessageConserved, PTL
          DEF Spec, PoolSpec, Pool!Spec
=============================================================================
