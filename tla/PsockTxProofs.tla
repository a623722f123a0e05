--------------------------- MODULE PsockTxProofs ---------------------------
(* Proof that the send path of a connection is exclusive, for any number of *)
(* workers, any replies and any sizes.                                      *)
EXTENDS PsockTx, TLAPS

\* The threads between the cmpxchg and the clearing of tx_in_use.
Inside == {"acquired", "loop", "end_seq", "seq", "oops", "push", "clear"}

\* The types the argument needs, and the property itself: it is inductive.
TxInv ==
    /\ pc \in [Threads -> SendPC \cup TryPC]
    /\ tx_in_use \in {0, 1}
    /\ TxExclusive

\* A step that touches neither the flag nor the lock and moves one thread outside
\* the section, or inside it past the lock, keeps the invariant.
LEMMA MoveFrame ==
    ASSUME TxInv, NEW t \in Threads, NEW a, NEW b \in SendPC \cup TryPC,
           GoTo(t, a, b), UNCHANGED <<tx_in_use, csk_lock>>,
           \/ a \in SendPC \cup {"try"} /\ b \in SendPC \cup {"try"}
           \/ a \in Inside \ {"acquired"} /\ b \in Inside \ {"acquired"}
    PROVE  TxInv'
  BY DEF TxInv, TxExclusive, GoTo, Inside, SendPC, TryPC

\* Threads are the senders and the work item, and none of them is NULL.
LEMMA ThreadFacts ==
    /\ \A s \in Senders : s \in Threads
    /\ Work \in Threads
    /\ NULL \notin Threads
  BY TxAssumption DEF Threads

\* Every step keeps at most one thread inside.
LEMMA TxStep == TxInv /\ [Next]_vars => TxInv'
  <1> SUFFICES ASSUME TxInv, [Next]_vars
               PROVE  TxInv'
    OBVIOUS
  <1> USE DEF sendVars, tcpVars
  <1>1. ASSUME NEW s \in Senders, SendStart(s)
        PROVE  TxInv'
    BY <1>1, MoveFrame, ThreadFacts DEF SendStart, SendPC, TryPC
  <1>2. ASSUME NEW s \in Senders, SendRejected(s) \/ CopyChunk(s)
        PROVE  TxInv'
    <2>1. UNCHANGED <<pc, tx_in_use, csk_lock>>
      BY <1>2 DEF SendRejected, CopyChunk
    <2> QED BY <2>1 DEF TxInv, TxExclusive
  <1>3. ASSUME NEW s \in Senders, CopyLast(s)
        PROVE  TxInv'
    BY <1>3, MoveFrame, ThreadFacts DEF CopyLast, SendPC, TryPC
  <1>4. ASSUME NEW s \in Senders, CopyFails(s)
        PROVE  TxInv'
    <2>1. \/ GoTo(s, "copy", "idle")
          \/ GoTo(s, "copy", "remove")
      BY <1>4 DEF CopyFails, tcp_remove_empty_skb, GoTo
    <2>2. UNCHANGED <<tx_in_use, csk_lock>>
      BY <1>4 DEF CopyFails
    <2> QED BY <2>1, <2>2, MoveFrame, ThreadFacts DEF SendPC, TryPC
  <1>5. ASSUME NEW t \in Threads, TryAcquire(t)
        PROVE  TxInv'
    <2>1. CASE tx_in_use = 0
      BY <1>5, <2>1 DEF TxInv, TxExclusive, TryAcquire, SendPC, TryPC
    <2>2. CASE tx_in_use = 1
      BY <1>5, <2>2 DEF TxInv, TxExclusive, TryAcquire, SendPC, TryPC
    <2> QED BY <2>1, <2>2 DEF TxInv
  <1>6. ASSUME NEW t \in Threads, LockSock(t)
        PROVE  TxInv'
    BY <1>6, ThreadFacts DEF TxInv, TxExclusive, LockSock, GoTo, SendPC, TryPC
  <1>7. ASSUME NEW t \in Threads, Splice(t)
        PROVE  TxInv'
    <2>1. \/ GoTo(t, "loop", "clear")
          \/ GoTo(t, "loop", "end_seq")
      BY <1>7 DEF Splice, GoTo
    <2>2. UNCHANGED <<tx_in_use, csk_lock>>
      BY <1>7 DEF Splice
    <2> QED BY <2>1, <2>2, MoveFrame DEF Inside, SendPC, TryPC
  <1>8. ASSUME NEW t \in Threads, StoreEndSeq(t)
        PROVE  TxInv'
    BY <1>8, MoveFrame DEF StoreEndSeq, Inside, SendPC, TryPC
  <1>9. ASSUME NEW t \in Threads, StoreSeq(t)
        PROVE  TxInv'
    <2>1. \/ GoTo(t, "seq", "push")
          \/ GoTo(t, "seq", "end_seq")
      BY <1>9 DEF StoreSeq, GoTo
    <2>2. UNCHANGED <<tx_in_use, csk_lock>>
      BY <1>9 DEF StoreSeq
    <2> QED BY <2>1, <2>2, MoveFrame DEF Inside, SendPC, TryPC
  <1>10. ASSUME NEW t \in Threads, TcpPush(t)
         PROVE  TxInv'
    BY <1>10, MoveFrame DEF TcpPush, Inside, SendPC, TryPC
  <1>11. ASSUME NEW t \in Threads, Clear(t)
         PROVE  TxInv'
    BY <1>11 DEF TxInv, TxExclusive, Clear, GoTo, SendPC, TryPC
  <1>12. ASSUME NEW t \in Threads, ReleaseSock(t)
         PROVE  TxInv'
    BY <1>12, ThreadFacts DEF TxInv, TxExclusive, ReleaseSock, GoTo, SendPC, TryPC
  <1>13. CASE AckXmit \/ psock_write_space \/ UNCHANGED vars
    <2>1. UNCHANGED <<pc, tx_in_use, csk_lock>>
      BY <1>13 DEF AckXmit, psock_write_space, vars
    <2> QED BY <2>1 DEF TxInv, TxExclusive
  <1>14. CASE rakaia_tx_work
    BY <1>14, MoveFrame, ThreadFacts DEF rakaia_tx_work, SendPC, TryPC
  <1>15. ASSUME NEW s \in Senders, RemoveSkb(s)
         PROVE  TxInv'
    <2>1. \/ GoTo(s, "remove", "idle")
          \/ GoTo(s, "remove", "fault")
      BY <1>15 DEF RemoveSkb, GoTo
    <2>2. UNCHANGED <<tx_in_use, csk_lock>>
      BY <1>15 DEF RemoveSkb
    <2> QED BY <2>1, <2>2, MoveFrame, ThreadFacts DEF SendPC, TryPC
  <1>16. ASSUME NEW t \in Threads, StoreFreed(t)
         PROVE  TxInv'
    <2>1. \/ GoTo(t, "end_seq", "oops")
          \/ GoTo(t, "seq", "oops")
      BY <1>16 DEF StoreFreed, GoTo
    <2>2. UNCHANGED <<tx_in_use, csk_lock>>
      BY <1>16 DEF StoreFreed
    <2> QED BY <2>1, <2>2, MoveFrame DEF Inside, SendPC, TryPC
  <1> QED BY <1>1, <1>2, <1>3, <1>4, <1>5, <1>6, <1>7, <1>8, <1>9, <1>10, <1>11,
             <1>12, <1>13, <1>14, <1>15, <1>16
          DEF Next, rakaia_sendmsg, try_send_from_psock

\* One thread at a time moves the wait queue to the TCP queue, and the TCP socket
\* is locked by the thread inside the loop of try_send_from_psock, whatever the
\* number of workers that reply on the connection.
THEOREM SendPathExclusive == Spec => []TxExclusive
  <1>1. Init => TxInv
    BY ThreadFacts DEF Init, TxInv, TxExclusive, SendPC, TryPC
  <1>2. TxInv => TxExclusive
    BY DEF TxInv
  <1> QED BY <1>1, <1>2, TxStep, PTL DEF Spec
=============================================================================
