---------------------------- MODULE TlsTxProofs ----------------------------
(***************************************************************************)
(* The send path of the kTLS build, for any number of workers, connections *)
(* and messages: one writer at a time, a place to go on that lies inside   *)
(* its message, and a busy connection that is being written unless a write *)
(* on it has failed.                                                       *)
(***************************************************************************)
EXTENDS TlsTx, Integers, TLAPS

Types ==
    /\ replies \in [Senders -> Seq(Msgs)]
    /\ sk_write_queue \in [Senders -> Seq(Msgs)]
    /\ psock \in [Senders -> Psocks \cup {NULL}]
    /\ tx_wait_queue \in [Psocks -> Seq(Txms)]
    /\ tx_in_use \in [Psocks -> BOOLEAN]
    /\ buffered \in [Psocks -> 0..SndBuf]
    /\ pc \in [Senders -> {"idle", "write", "send", "sent", "failed"}]

(* A worker that writes owns the flag of its connection, and one whose     *)
(* write failed has left a message that was begun at the head.             *)
Owner(s) ==
    /\ Writing(s) => psock[s] \in Psocks /\ tx_in_use[psock[s]]
    /\ ~Writing(s) => psock[s] = NULL
    /\ pc[s] = "failed" => tx_wait_queue[psock[s]] # <<>> /\ Head(tx_wait_queue[psock[s]]).started

FragAt(h) == h.skb \in DOMAIN Skbs[h.msg] /\ h.off < Len(Skbs[h.msg][h.skb])

FragIn(q) == \A i \in DOMAIN q : FragAt(q[i])

IInv ==
    /\ Types
    /\ \A s \in Senders : Owner(s)
    /\ WriterExclusive
    /\ BusyMeansWritten
    /\ \A p \in Psocks : FragIn(tx_wait_queue[p])

-----------------------------------------------------------------------------
LEMMA TxmFits == \A m \in Msgs : Txm(m) \in Txms /\ FragAt(Txm(m))
BY TlsAssumption DEF Txm, Txms, FragAt

LEMMA ResumeFits ==
    ASSUME NEW h \in Txms, FragAt(h)
    PROVE  Resume(h) \in Txms /\ FragAt(Resume(h)) /\ Resume(h).started
<1>1. CASE h.started
  BY <1>1 DEF Resume
<1>2. CASE ~h.started
  <2> DEFINE g == [msg |-> h.msg, started |-> TRUE, skb |-> 1, off |-> 0]
  <2>1. g \in Txms /\ h.msg \in Msgs
    BY DEF Txms
  <2>2. FragAt(g)
    BY <2>1, TlsAssumption DEF FragAt
  <2> QED
    BY <1>2, <2>1, <2>2 DEF Resume
<1> QED
  BY <1>1, <1>2

LEMMA SingletonFits ==
    ASSUME NEW h \in Txms, FragAt(h)
    PROVE  <<h>> \in Seq(Txms) /\ FragIn(<<h>>)
BY DEF FragIn

(* Sending at most the rest of an skb leaves a place inside the message.   *)
LEMMA AdvanceFits ==
    ASSUME NEW h \in Txms, FragAt(h), NEW n \in Nat \ {0}, h.off + n <= Len(Skbs[h.msg][h.skb])
    PROVE  Advance(h, n) \in Seq(Txms) /\ FragIn(Advance(h, n))
<1>1. h.off \in Nat /\ h.skb \in Nat /\ h.msg \in Msgs
  BY DEF Txms
<1>2. CASE h.off + n < Len(Skbs[h.msg][h.skb])
  <2> DEFINE g == [h EXCEPT !.off = @ + n]
  <2>1. g \in Txms /\ g.msg = h.msg /\ g.skb = h.skb /\ g.off = h.off + n
    BY <1>1 DEF Txms
  <2>2. FragAt(g)
    BY <1>2, <2>1 DEF FragAt
  <2> QED
    BY <1>2, <2>1, <2>2, SingletonFits DEF Advance
<1>3. CASE ~(h.off + n < Len(Skbs[h.msg][h.skb])) /\ h.skb < Len(Skbs[h.msg])
  <2> DEFINE g == [msg |-> h.msg, started |-> h.started, skb |-> h.skb + 1, off |-> 0]
  <2>1. g \in Txms
    BY <1>1 DEF Txms
  <2>2. FragAt(g)
    BY <1>1, <1>3, TlsAssumption DEF FragAt
  <2> QED
    BY <1>3, <2>1, <2>2, SingletonFits DEF Advance
<1>4. CASE ~(h.off + n < Len(Skbs[h.msg][h.skb])) /\ ~(h.skb < Len(Skbs[h.msg]))
  BY <1>4 DEF Advance, FragIn
<1> QED
  BY <1>2, <1>3, <1>4

(* Queues: appending keeps the head, and the pieces of a queue fit.        *)
LEMMA AppendFits ==
    ASSUME NEW q \in Seq(Txms), FragIn(q), NEW h \in Txms, FragAt(h)
    PROVE  /\ Append(q, h) \in Seq(Txms) /\ FragIn(Append(q, h)) /\ Append(q, h) # <<>>
           /\ q # <<>> => Head(Append(q, h)) = Head(q)
BY DEF FragIn

LEMMA ConcatFits ==
    ASSUME NEW q \in Seq(Txms), FragIn(q), NEW r \in Seq(Txms), FragIn(r)
    PROVE  q \o r \in Seq(Txms) /\ FragIn(q \o r)
<1>1. q \o r \in Seq(Txms) /\ Len(q \o r) = Len(q) + Len(r)
  OBVIOUS
<1>2. ASSUME NEW i \in DOMAIN (q \o r) PROVE FragAt((q \o r)[i])
  <2>1. CASE i <= Len(q)
    BY <1>1, <1>2, <2>1 DEF FragIn
  <2>2. CASE i > Len(q)
    <3>1. i - Len(q) \in DOMAIN r /\ (q \o r)[i] = r[i - Len(q)]
      BY <1>1, <1>2, <2>2
    <3> QED
      BY <3>1 DEF FragIn
  <2> QED
    BY <1>1, <1>2, <2>1, <2>2
<1> QED
  BY <1>1, <1>2 DEF FragIn

LEMMA HeadTailFit ==
    ASSUME NEW q \in Seq(Txms), FragIn(q), q # <<>>
    PROVE  /\ Head(q) \in Txms /\ FragAt(Head(q))
           /\ Tail(q) \in Seq(Txms) /\ FragIn(Tail(q))
BY DEF FragIn

-----------------------------------------------------------------------------
(* Steps.                                                                  *)

(* A step that leaves the connections alone and moves one worker outside   *)
(* write_to_csock.                                                         *)
LEMMA OutsideStep ==
    ASSUME IInv, Types', NEW s \in Senders, UNCHANGED <<psock, tx_wait_queue, tx_in_use>>,
           pc[s] \in {"idle", "write"}, pc'[s] \in {"idle", "write"},
           \A t \in Senders \ {s} : pc'[t] = pc[t]
    PROVE  IInv'
<1>1. \A t \in Senders : (Writing(t) <=> Writing(t)') /\ (pc'[t] = "failed" <=> pc[t] = "failed")
  BY DEF Writing
<1>2. WriterExclusive'
  BY <1>1 DEF IInv, WriterExclusive
<1>3. BusyMeansWritten'
  BY DEF IInv, BusyMeansWritten
<1>4. \A t \in Senders : Owner(t)'
  BY <1>1 DEF IInv, Owner
<1> QED
  BY <1>2, <1>3, <1>4 DEF IInv

LEMMA SeqMsgs ==
    ASSUME NEW q \in Seq(Msgs), q # <<>>
    PROVE  Head(q) \in Msgs /\ Tail(q) \in Seq(Msgs)
OBVIOUS

LEMMA SendSteps ==
    ASSUME IInv, NEW s \in Senders,
           \/ Sendmsg(s) \/ SendmsgWaits(s) \/ SendmsgFails(s)
           \/ WriteNoPsock(s) \/ WriteDone(s)
    PROVE  IInv'
<1>1. CASE Sendmsg(s)
  <2>1. Head(replies[s]) \in Msgs /\ Tail(replies[s]) \in Seq(Msgs)
    BY <1>1, SeqMsgs DEF Sendmsg, IInv, Types
  <2>2. replies' \in [Senders -> Seq(Msgs)] /\ sk_write_queue' \in [Senders -> Seq(Msgs)]
    BY <1>1, <2>1 DEF Sendmsg, IInv, Types
  <2>3. /\ UNCHANGED <<psock, tx_wait_queue, tx_in_use, buffered>>
        /\ \E b \in {"idle", "write"} : pc[s] = "idle" /\ pc' = [pc EXCEPT ![s] = b]
    BY <1>1 DEF Sendmsg, GoTo, tcpVars
  <2> QED
    BY <2>2, <2>3, OutsideStep DEF IInv, Types
<1>2. CASE SendmsgFails(s)
  <2>1. replies' \in [Senders -> Seq(Msgs)]
    BY <1>2, SeqMsgs DEF SendmsgFails, IInv, Types
  <2>2. /\ UNCHANGED <<sk_write_queue, psock, tx_wait_queue, tx_in_use, buffered>>
        /\ \E b \in {"idle", "write"} : pc[s] = "idle" /\ pc' = [pc EXCEPT ![s] = b]
    BY <1>2 DEF SendmsgFails, GoTo, tcpVars
  <2> QED
    BY <2>1, <2>2, OutsideStep DEF IInv, Types
<1>3. CASE WriteNoPsock(s)
  <2>1. sk_write_queue' \in [Senders -> Seq(Msgs)]
    BY <1>3, SeqMsgs DEF WriteNoPsock, IInv, Types
  <2>2. /\ UNCHANGED <<replies, psock, tx_wait_queue, tx_in_use, buffered>>
        /\ pc[s] = "write" /\ pc' = [pc EXCEPT ![s] = "idle"]
    BY <1>3 DEF WriteNoPsock, GoTo, tcpVars
  <2> QED
    BY <2>1, <2>2, OutsideStep DEF IInv, Types
<1>4. CASE WriteDone(s)
  <2>1. /\ UNCHANGED <<replies, sk_write_queue, psock, tx_wait_queue, tx_in_use, buffered>>
        /\ pc[s] = "write" /\ pc' = [pc EXCEPT ![s] = "idle"]
    BY <1>4 DEF WriteDone, GoTo, tcpVars, sockVars
  <2> QED
    BY <2>1, OutsideStep DEF IInv, Types
<1>5. CASE SendmsgWaits(s)
  <2>1. /\ UNCHANGED <<replies, sk_write_queue, psock, tx_wait_queue, tx_in_use, buffered>>
        /\ pc[s] = "idle" /\ pc' = [pc EXCEPT ![s] = "write"]
    BY <1>5 DEF SendmsgWaits, GoTo, tcpVars
  <2> QED
    BY <2>1, OutsideStep DEF IInv, Types
<1> QED
  BY <1>1, <1>2, <1>3, <1>4, <1>5

(* The next message joins its connection's queue.                          *)
LEMMA WriteMsgStep ==
    ASSUME IInv, NEW s \in Senders, WriteMsg(s)
    PROVE  IInv'
<1> DEFINE m == Head(sk_write_queue[s])
           p == Conn[m]
<1>1. m \in Msgs /\ Tail(sk_write_queue[s]) \in Seq(Msgs) /\ p \in Psocks
  BY SeqMsgs, TlsAssumption DEF WriteMsg, IInv, Types
<1> HIDE DEF m
<1>2. /\ tx_wait_queue' = [tx_wait_queue EXCEPT ![p] = Append(@, Txm(m))]
      /\ tx_in_use' = [tx_in_use EXCEPT ![p] = TRUE]
      /\ pc[s] = "write" /\ pc' = [pc EXCEPT ![s] = IF tx_in_use[p] THEN "write" ELSE "send"]
      /\ psock' = [psock EXCEPT ![s] = IF tx_in_use[p] THEN psock[s] ELSE p]
      /\ sk_write_queue' = [sk_write_queue EXCEPT ![s] = Tail(@)]
      /\ UNCHANGED <<replies, buffered>>
  BY DEF WriteMsg, GoTo, tcpVars, m
<1>3. /\ Append(tx_wait_queue[p], Txm(m)) \in Seq(Txms) /\ FragIn(Append(tx_wait_queue[p], Txm(m)))
      /\ Append(tx_wait_queue[p], Txm(m)) # <<>>
      /\ tx_wait_queue[p] # <<>> => Head(Append(tx_wait_queue[p], Txm(m))) = Head(tx_wait_queue[p])
  BY <1>1, TxmFits, AppendFits DEF IInv, Types
<1> DEFINE q == Append(tx_wait_queue[p], Txm(m))
<1>4. tx_wait_queue'[p] = q /\ \A r \in Psocks \ {p} : tx_wait_queue'[r] = tx_wait_queue[r]
  BY <1>1, <1>2 DEF IInv, Types
<1> HIDE DEF p, q
<1>5. Types'
  BY <1>1, <1>2, <1>3 DEF IInv, Types, q
<1>6. \A r \in Psocks : FragIn(tx_wait_queue'[r])
  BY <1>3, <1>4 DEF IInv, q
<1>7. \A r \in Psocks : tx_wait_queue[r] # <<>> =>
         tx_wait_queue'[r] # <<>> /\ Head(tx_wait_queue'[r]) = Head(tx_wait_queue[r])
  BY <1>3, <1>4 DEF q
<1>8. CASE tx_in_use[p]
  <2>1. UNCHANGED <<pc, psock, tx_in_use>>
    BY <1>1, <1>2, <1>8 DEF IInv, Types
  <2>2. WriterExclusive'
    BY <2>1 DEF IInv, WriterExclusive, Writing
  <2>3. \A t \in Senders : Owner(t)'
    BY <1>7, <2>1 DEF IInv, Owner, Writing
  <2>4. BusyMeansWritten'
    BY <1>7, <2>1 DEF IInv, BusyMeansWritten
  <2> QED
    BY <1>5, <1>6, <2>2, <2>3, <2>4 DEF IInv
<1>9. CASE ~tx_in_use[p]
  <2>1. ASSUME NEW t \in Senders, Writing(t) PROVE psock[t] # p /\ psock[t] \in Psocks /\ t # s
    BY <1>2, <1>9, <2>1 DEF IInv, Owner, Writing
  <2>2. /\ pc'[s] = "send" /\ psock'[s] = p
        /\ \A t \in Senders \ {s} : pc'[t] = pc[t] /\ psock'[t] = psock[t]
    BY <1>2, <1>9 DEF IInv, Types
  <2>3. \A t \in Senders \ {s} : Writing(t)' <=> Writing(t)
    BY <2>2 DEF Writing
  <2>4. WriterExclusive'
    BY <2>1, <2>2, <2>3 DEF IInv, WriterExclusive
  <2>5. tx_in_use'[p] /\ \A r \in Psocks \ {p} : tx_in_use'[r] = tx_in_use[r]
    BY <1>1, <1>2 DEF IInv, Types
  <2>6. Owner(s)'
    BY <1>1, <2>2, <2>5 DEF Owner, Writing
  <2>7. ASSUME NEW t \in Senders \ {s} PROVE Owner(t)'
    BY <1>7, <2>1, <2>2, <2>3, <2>5 DEF IInv, Owner, Writing
  <2>8. BusyMeansWritten'
    <3> SUFFICES ASSUME NEW r \in Psocks, tx_in_use'[r], \A t \in Senders : psock'[t] # r
                 PROVE  tx_wait_queue'[r] # <<>> /\ Head(tx_wait_queue'[r]).started
      BY DEF BusyMeansWritten
    <3>1. r # p /\ tx_in_use[r]
      BY <2>2, <2>5
    <3>2. \A t \in Senders : psock[t] # r
      BY <1>2, <2>2, TlsAssumption DEF IInv, Owner, Writing
    <3> QED
      BY <1>7, <3>1, <3>2 DEF IInv, BusyMeansWritten
  <2> QED
    BY <1>5, <1>6, <2>4, <2>6, <2>7, <2>8 DEF IInv
<1> QED
  BY <1>8, <1>9

(* A worker leaves write_to_csock: it gives the connection back, or keeps  *)
(* it marked because the write failed.                                     *)
LEMMA LeaveStep ==
    ASSUME IInv, NEW s \in Senders, WriteFree(s) \/ WriteStop(s)
    PROVE  IInv'
<1> DEFINE p == psock[s]
<1>1. Writing(s) /\ p \in Psocks /\ tx_in_use[p]
  BY DEF WriteFree, WriteStop, GoTo, Writing, IInv, Owner
<1>2. /\ \E b \in BOOLEAN : /\ tx_in_use' = [tx_in_use EXCEPT ![p] = b]
                            /\ b => pc[s] = "failed"
      /\ \E a \in {"idle", "write"} : pc' = [pc EXCEPT ![s] = a]
      /\ psock' = [psock EXCEPT ![s] = NULL]
      /\ UNCHANGED <<replies, sk_write_queue, tx_wait_queue, buffered>>
  BY DEF WriteFree, WriteStop, GoTo, sockVars, tcpVars
<1>3. /\ pc'[s] \in {"idle", "write"} /\ psock'[s] = NULL
      /\ \A t \in Senders \ {s} : pc'[t] = pc[t] /\ psock'[t] = psock[t]
  BY <1>2 DEF IInv, Types
<1>4. /\ tx_in_use'[p] => pc[s] = "failed"
      /\ \A r \in Psocks \ {p} : tx_in_use'[r] = tx_in_use[r]
  BY <1>1, <1>2 DEF IInv, Types
<1> HIDE DEF p
<1>5. Types'
  BY <1>2 DEF IInv, Types
<1>6. ~Writing(s)' /\ \A t \in Senders \ {s} : Writing(t)' <=> Writing(t)
  BY <1>3 DEF Writing
<1>7. WriterExclusive'
  BY <1>3, <1>6 DEF IInv, WriterExclusive
<1>8. Owner(s)'
  BY <1>3, <1>6 DEF Owner, Writing
<1>9. ASSUME NEW t \in Senders \ {s} PROVE Owner(t)'
  <2>1. Writing(t) => psock[t] # p
    BY <1>1 DEF IInv, WriterExclusive, p
  <2> QED
    BY <1>2, <1>3, <1>4, <1>6, <2>1 DEF IInv, Owner
<1>10. BusyMeansWritten'
  <2> SUFFICES ASSUME NEW r \in Psocks, tx_in_use'[r], \A t \in Senders : psock'[t] # r
               PROVE  tx_wait_queue[r] # <<>> /\ Head(tx_wait_queue[r]).started
    BY <1>2 DEF BusyMeansWritten
  <2>1. CASE r = p
    BY <1>4, <2>1 DEF IInv, Owner, p
  <2>2. CASE r # p
    BY <1>3, <1>4, <2>2 DEF IInv, BusyMeansWritten, p
  <2> QED
    BY <2>1, <2>2
<1> QED
  BY <1>2, <1>5, <1>7, <1>8, <1>9, <1>10 DEF IInv

(* A step of the writer of a connection that changes only its queue.       *)
LEMMA WriterStep ==
    ASSUME IInv, Types', NEW s \in Senders, pc[s] = "send",
           pc'[s] \in {"send", "sent", "failed"},
           \A t \in Senders \ {s} : pc'[t] = pc[t],
           UNCHANGED <<psock, tx_in_use>>,
           \A r \in Psocks \ {psock[s]} : tx_wait_queue'[r] = tx_wait_queue[r],
           FragIn(tx_wait_queue'[psock[s]]),
           pc'[s] = "failed" => /\ tx_wait_queue'[psock[s]] # <<>>
                                /\ Head(tx_wait_queue'[psock[s]]).started
    PROVE  IInv'
<1>1. psock[s] \in Psocks /\ tx_in_use[psock[s]] /\ Writing(s)
  BY DEF IInv, Owner, Writing
<1>2. \A t \in Senders : Writing(t)' <=> Writing(t)
  BY DEF Writing
<1>3. WriterExclusive'
  BY <1>2 DEF IInv, WriterExclusive
<1>4. ASSUME NEW t \in Senders PROVE Owner(t)'
  <2>1. CASE t = s
    BY <1>1, <1>2, <2>1 DEF Owner
  <2>2. CASE t # s /\ Writing(t)
    <3>1. psock[t] \in Psocks /\ psock[t] # psock[s]
      BY <1>1, <2>2 DEF IInv, WriterExclusive, Owner
    <3> QED
      BY <1>2, <2>2, <3>1 DEF IInv, Owner
  <2>3. CASE t # s /\ ~Writing(t)
    BY <1>2, <2>3 DEF IInv, Owner, Writing
  <2> QED
    BY <2>1, <2>2, <2>3
<1>5. BusyMeansWritten'
  BY DEF IInv, BusyMeansWritten
<1>6. \A r \in Psocks : FragIn(tx_wait_queue'[r])
  BY DEF IInv
<1> QED
  BY <1>3, <1>4, <1>5, <1>6 DEF IInv

LEMMA CsockSteps ==
    ASSUME IInv, NEW s \in Senders, SendBytes(s) \/ SendFails(s) \/ SendEmpty(s)
    PROVE  IInv'
<1> DEFINE p == psock[s]
<1>1. p \in Psocks /\ pc[s] = "send" /\ tx_wait_queue[p] \in Seq(Txms) /\ FragIn(tx_wait_queue[p])
  BY DEF SendBytes, SendFails, SendEmpty, GoTo, IInv, Owner, Writing, Types
<1>2. CASE SendBytes(s)
  <2> DEFINE h == Resume(Head(tx_wait_queue[p]))
  <2>1. PICK n \in 1..(SndBuf - buffered[p]) :
           /\ h.off + n <= Len(Skbs[h.msg][h.skb])
           /\ buffered' = [buffered EXCEPT ![p] = @ + n]
           /\ tx_wait_queue' = [tx_wait_queue EXCEPT ![p] = Advance(h, n) \o Tail(@)]
    BY <1>2 DEF SendBytes
  <2>2. UNCHANGED <<replies, sk_write_queue, psock, tx_in_use, pc>> /\ tx_wait_queue[p] # <<>>
    BY <1>2 DEF SendBytes, sockVars
  <2>3. h \in Txms /\ FragAt(h) /\ Tail(tx_wait_queue[p]) \in Seq(Txms) /\ FragIn(Tail(tx_wait_queue[p]))
    BY <1>1, <2>2, HeadTailFit, ResumeFits
  <2>4. buffered[p] \in 0..SndBuf /\ SndBuf \in Nat
    BY <1>1, TlsAssumption DEF IInv, Types
  <2>5. n \in Nat \ {0} /\ buffered[p] + n \in 0..SndBuf
    BY <2>4
  <2> HIDE DEF h
  <2>6. Advance(h, n) \in Seq(Txms) /\ FragIn(Advance(h, n))
    BY <2>1, <2>3, <2>5, AdvanceFits
  <2>7. Advance(h, n) \o Tail(tx_wait_queue[p]) \in Seq(Txms)
        /\ FragIn(Advance(h, n) \o Tail(tx_wait_queue[p]))
    BY <2>3, <2>6, ConcatFits
  <2>8. /\ tx_wait_queue'[p] = Advance(h, n) \o Tail(tx_wait_queue[p])
        /\ \A r \in Psocks \ {p} : tx_wait_queue'[r] = tx_wait_queue[r]
    BY <1>1, <2>1 DEF IInv, Types
  <2>9. tx_wait_queue' \in [Psocks -> Seq(Txms)] /\ buffered' \in [Psocks -> 0..SndBuf]
    BY <2>1, <2>5, <2>7 DEF IInv, Types
  <2>10. Types'
    BY <2>2, <2>9 DEF IInv, Types
  <2> QED
    BY <1>1, <2>2, <2>7, <2>8, <2>10, WriterStep
<1>3. CASE SendFails(s)
  <2> DEFINE h == Resume(Head(tx_wait_queue[p]))
             q == <<h>> \o Tail(tx_wait_queue[p])
  <2>1. /\ tx_wait_queue' = [tx_wait_queue EXCEPT ![p] = q] /\ tx_wait_queue[p] # <<>>
        /\ pc' = [pc EXCEPT ![s] = "failed"]
        /\ UNCHANGED <<replies, sk_write_queue, psock, tx_in_use, buffered>>
    BY <1>3 DEF SendFails, GoTo, sockVars, tcpVars
  <2>2. /\ h \in Txms /\ FragAt(h) /\ h.started
        /\ Tail(tx_wait_queue[p]) \in Seq(Txms) /\ FragIn(Tail(tx_wait_queue[p]))
    BY <1>1, <2>1, HeadTailFit, ResumeFits
  <2> HIDE DEF h
  <2>3. <<h>> \in Seq(Txms) /\ FragIn(<<h>>)
    BY <2>2, SingletonFits
  <2>4. q \in Seq(Txms) /\ FragIn(q)
    BY <2>2, <2>3, ConcatFits
  <2>5. q # <<>> /\ Head(q) = h
    BY <2>2
  <2>6. tx_wait_queue'[p] = q /\ \A r \in Psocks \ {p} : tx_wait_queue'[r] = tx_wait_queue[r]
    BY <1>1, <2>1 DEF IInv, Types
  <2> HIDE DEF q
  <2>7. Types'
    BY <2>1, <2>4 DEF IInv, Types
  <2>8. pc'[s] = "failed" /\ \A t \in Senders \ {s} : pc'[t] = pc[t]
    BY <2>1 DEF IInv, Types
  <2> QED
    BY <1>1, <2>1, <2>2, <2>4, <2>5, <2>6, <2>7, <2>8, WriterStep
<1>4. CASE SendEmpty(s)
  <2>1. /\ pc' = [pc EXCEPT ![s] = "sent"]
        /\ UNCHANGED <<replies, sk_write_queue, tx_wait_queue, psock, tx_in_use, buffered>>
    BY <1>4 DEF SendEmpty, GoTo, sockVars, tcpVars
  <2>2. pc'[s] = "sent" /\ \A t \in Senders \ {s} : pc'[t] = pc[t]
    BY <2>1 DEF IInv, Types
  <2>3. Types'
    BY <2>1 DEF IInv, Types
  <2> QED
    BY <1>1, <2>1, <2>2, <2>3, WriterStep
<1> QED
  BY <1>2, <1>3, <1>4

LEMMA TcpSteps ==
    ASSUME IInv, NEW p \in Psocks, Drain(p) \/ PeerCloses(p)
    PROVE  IInv'
<1>1. UNCHANGED <<replies, sk_write_queue, psock, tx_wait_queue, tx_in_use, pc>>
  BY DEF Drain, PeerCloses, sockVars
<1>2. buffered' \in [Psocks -> 0..SndBuf]
  <2>1. CASE Drain(p)
    <3>1. 0 \in 0..SndBuf
      BY TlsAssumption
    <3>2. buffered' = [buffered EXCEPT ![p] = 0] /\ buffered \in [Psocks -> 0..SndBuf]
      BY <2>1 DEF Drain, IInv, Types
    <3> QED
      BY <3>1, <3>2
  <2>2. CASE PeerCloses(p)
    BY <2>2 DEF PeerCloses, IInv, Types
  <2> QED
    BY <2>1, <2>2
<1> QED
  BY <1>1, <1>2 DEF IInv, Types, Owner, Writing, WriterExclusive, BusyMeansWritten

-----------------------------------------------------------------------------
LEMMA InitInv == Init => IInv
<1> SUFFICES ASSUME Init PROVE IInv
  OBVIOUS
<1>1. Types
  BY TlsAssumption DEF Init, Types
<1>2. \A s \in Senders : Owner(s) /\ ~Writing(s)
  BY DEF Init, Owner, Writing
<1>3. WriterExclusive /\ BusyMeansWritten
  BY <1>2 DEF Init, WriterExclusive, BusyMeansWritten
<1>4. \A p \in Psocks : FragIn(tx_wait_queue[p])
  BY DEF Init, FragIn
<1> QED
  BY <1>1, <1>2, <1>3, <1>4 DEF IInv

LEMMA NextInv == IInv /\ [Next]_vars => IInv'
<1> SUFFICES ASSUME IInv, [Next]_vars PROVE IInv'
  OBVIOUS
<1>1. ASSUME NEW s \in Senders, SenderStep(s) PROVE IInv'
  BY <1>1, SendSteps, WriteMsgStep, LeaveStep, CsockSteps DEF SenderStep
<1>2. ASSUME NEW p \in Psocks, Drain(p) \/ PeerCloses(p) PROVE IInv'
  BY <1>2, TcpSteps
<1>3. CASE UNCHANGED vars
  BY <1>3 DEF vars, sockVars, tcpVars, IInv, Types, Owner, Writing, WriterExclusive,
              BusyMeansWritten
<1> QED
  BY <1>1, <1>2, <1>3 DEF Next

(* At most one worker is in write_to_csock of a connection, so the message *)
(* it peeked at is not freed under it (rakaiasock.c:584-610).              *)
THEOREM OneWriter == Spec => []WriterExclusive
<1>1. IInv => WriterExclusive
  BY DEF IInv
<1> QED
  BY <1>1, InitInv, NextInv, PTL DEF Spec

(* A connection marked busy is being written, or a write on it failed and  *)
(* the message it was writing is still at the head of its queue            *)
(* (rakaiasock.c:597-603).                                                 *)
THEOREM BusyIsWrittenOrFailed == Spec => []BusyMeansWritten
<1>1. IInv => BusyMeansWritten
  BY DEF IInv
<1> QED
  BY <1>1, InitInv, NextInv, PTL DEF Spec

(* The variables the argument above does not need.                         *)
MoreTypes ==
    /\ tx_wait_more \in [Senders -> BOOLEAN]
    /\ dead \subseteq Psocks
    /\ wire \in [Psocks -> Seq(Octets)]

(* What a step of write_to_csock gives to TCP is bytes of a message.       *)
LEMMA WireStep ==
    ASSUME IInv, MoreTypes, NEW s \in Senders, SendBytes(s)
    PROVE  wire' \in [Psocks -> Seq(Octets)]
<1> DEFINE p == psock[s]
           h == Resume(Head(tx_wait_queue[p]))
           skb == Skbs[h.msg][h.skb]
<1>1. p \in Psocks /\ tx_wait_queue[p] \in Seq(Txms) /\ FragIn(tx_wait_queue[p]) /\ tx_wait_queue[p] # <<>>
  BY DEF SendBytes, IInv, Owner, Writing, Types
<1>2. h \in Txms /\ FragAt(h)
  BY <1>1, HeadTailFit, ResumeFits
<1>3. PICK n \in 1..(SndBuf - buffered[p]) :
         h.off + n <= Len(skb) /\ wire' = [wire EXCEPT ![p] = @ \o SubSeq(skb, h.off + 1, h.off + n)]
  BY DEF SendBytes
<1>4. n \in Nat
  <2>1. SndBuf - buffered[p] \in Int
    BY <1>1, TlsAssumption DEF IInv, Types
  <2> QED
    BY <2>1
<1> HIDE DEF h
<1>5. skb \in Seq(Octets) /\ h.off \in Nat
  BY <1>2, TlsAssumption DEF Txms, FragAt
<1> HIDE DEF skb
<1>6. SubSeq(skb, h.off + 1, h.off + n) \in Seq(Octets)
  BY <1>3, <1>4, <1>5
<1> QED
  BY <1>1, <1>3, <1>6 DEF MoreTypes

LEMMA MoreStep == IInv /\ MoreTypes /\ [Next]_vars => MoreTypes'
<1> SUFFICES ASSUME IInv, MoreTypes, [Next]_vars PROVE MoreTypes'
  OBVIOUS
<1>1. ASSUME NEW s \in Senders, Sendmsg(s) \/ SendmsgWaits(s) \/ SendmsgFails(s)
      PROVE  MoreTypes'
  BY <1>1 DEF Sendmsg, SendmsgWaits, SendmsgFails, MoreTypes, tcpVars
<1>2. ASSUME NEW s \in Senders,
             \/ WriteMsg(s) \/ WriteNoPsock(s) \/ WriteDone(s) \/ WriteFree(s)
             \/ WriteStop(s) \/ SendFails(s) \/ SendEmpty(s)
      PROVE  MoreTypes'
  <2>1. UNCHANGED <<tx_wait_more, tcpVars>>
    BY <1>2 DEF WriteMsg, WriteNoPsock, WriteDone, WriteFree, WriteStop, SendFails, SendEmpty, sockVars
  <2> QED
    BY <2>1 DEF MoreTypes, tcpVars
<1>3. ASSUME NEW s \in Senders, SendBytes(s) PROVE MoreTypes'
  <2>1. UNCHANGED <<tx_wait_more, dead>>
    BY <1>3 DEF SendBytes, sockVars
  <2> QED
    BY <1>3, <2>1, WireStep DEF MoreTypes
<1>4. ASSUME NEW p \in Psocks, Drain(p) \/ PeerCloses(p) PROVE MoreTypes'
  BY <1>4 DEF Drain, PeerCloses, MoreTypes, sockVars
<1>5. CASE UNCHANGED vars
  BY <1>5 DEF vars, sockVars, tcpVars, MoreTypes
<1> QED
  BY <1>1, <1>2, <1>3, <1>4, <1>5 DEF Next, SenderStep

(* Every variable keeps its type, and frag_skb and frag_offset always name *)
(* a byte of the message, wherever TCP cuts a write (rakaiasock.c:486-547).*)
THEOREM PlaceInMessage == Spec => []TypeOK
<1>1. Init => MoreTypes
  BY DEF Init, MoreTypes
<1>2. IInv /\ MoreTypes => TypeOK
  BY DEF IInv, Types, MoreTypes, FragIn, FragAt, FragOK, TypeOK
<1> QED
  BY <1>1, <1>2, InitInv, NextInv, MoreStep, PTL DEF Spec
=============================================================================
