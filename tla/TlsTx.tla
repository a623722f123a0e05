------------------------------- MODULE TlsTx -------------------------------
(***************************************************************************)
(* The send path of the kTLS build: rakaia_sendmsg queues a message on its *)
(* own socket, rakaia_write_msgs moves it to the connection, and the       *)
(* worker that finds the connection free writes to it in write_to_csock    *)
(* what it and others have queued, in as many pieces as TCP takes.         *)
(*                                                                         *)
(* A write that cannot go on leaves tx_in_use set; nothing clears it.      *)
(***************************************************************************)
EXTENDS Naturals, Sequences

CONSTANTS
    Senders,   \* the rakaia sockets
    Psocks,    \* the connections
    Replies,   \* Replies[s]: the messages s sends, in order
    Conn,      \* Conn[m]: last_psock when m is sent, or NULL
    Skbs,      \* Skbs[m]: the skbs of m, each a sequence of bytes
    Batch,     \* the messages sent with MSG_BATCH
    SndBuf,    \* the bytes TCP takes before it returns EAGAIN
    MayFail,   \* whether sends and connections can fail
    NULL

Elements(q) == {q[i] : i \in DOMAIN q}

Msgs == UNION {Elements(Replies[s]) : s \in Senders}
Octets == UNION {UNION {Elements(skb) : skb \in Elements(Skbs[m])} : m \in Msgs}

ASSUME TlsAssumption ==
    /\ SndBuf \in Nat \ {0} /\ MayFail \in BOOLEAN
    /\ Replies \in [Senders -> Seq(Msgs)] /\ Batch \subseteq Msgs
    /\ NULL \notin Psocks
    /\ \A m \in Msgs : /\ Conn[m] \in Psocks \cup {NULL}
                       /\ Skbs[m] \in Seq(Seq(Octets)) /\ Skbs[m] # <<>>
                       /\ \A k \in DOMAIN Skbs[m] : Skbs[m][k] # <<>>

VARIABLES
    replies,          \* replies[s]: what s has still to send
    sk_write_queue,   \* sk_write_queue[s]: the messages queued on s
    tx_wait_more,     \* tx_wait_more[s]
    psock,            \* psock[s]: the connection s writes to
    tx_wait_queue,    \* tx_wait_queue[p]: messages, the first partly written
    tx_in_use,        \* tx_in_use[p]
    buffered,         \* buffered[p]: bytes in the send buffer of TCP
    dead,             \* the connections the peer has closed
    wire,             \* wire[p]: the bytes given to TCP
    pc

sockVars == <<replies, sk_write_queue, tx_wait_more>>
tcpVars == <<buffered, dead, wire>>
vars == <<sockVars, psock, tx_wait_queue, tx_in_use, tcpVars, pc>>

\* A queued message with its control block: frag_skb, frag_offset.
Txm(m) == [msg |-> m, started |-> FALSE, skb |-> 1, off |-> 0]

Init ==
    /\ replies = Replies
    /\ sk_write_queue = [s \in Senders |-> <<>>]
    /\ tx_wait_more = [s \in Senders |-> FALSE]
    /\ psock = [s \in Senders |-> NULL]
    /\ tx_wait_queue = [p \in Psocks |-> <<>>]
    /\ tx_in_use = [p \in Psocks |-> FALSE]
    /\ buffered = [p \in Psocks |-> 0]
    /\ dead = {}
    /\ wire = [p \in Psocks |-> <<>>]
    /\ pc = [s \in Senders |-> "idle"]

GoTo(s, from, to) ==
    /\ pc[s] = from
    /\ pc' = [pc EXCEPT ![s] = to]
-----------------------------------------------------------------------------
(* rakaia_sendmsg.                                                         *)

\* The message is copied and queued on the socket.  The queue is written out now
\* unless MSG_BATCH is set, or messages were there that no batch left.
Sendmsg(s) ==
    LET m == Head(replies[s])
        not_busy == sk_write_queue[s] = <<>>
    IN  /\ replies[s] # <<>>
        /\ replies' = [replies EXCEPT ![s] = Tail(@)]
        /\ sk_write_queue' = [sk_write_queue EXCEPT ![s] = Append(@, m)]
        /\ \/ /\ m \in Batch
              /\ GoTo(s, "idle", "idle")
              /\ tx_wait_more' = [tx_wait_more EXCEPT ![s] = TRUE]
           \/ /\ m \notin Batch /\ (tx_wait_more[s] \/ not_busy)
              /\ GoTo(s, "idle", "write")
              /\ tx_wait_more' = [tx_wait_more EXCEPT ![s] = FALSE]
           \/ /\ m \notin Batch /\ ~tx_wait_more[s] /\ ~not_busy
              /\ GoTo(s, "idle", "idle")
              /\ UNCHANGED tx_wait_more
        /\ UNCHANGED <<psock, tx_wait_queue, tx_in_use, tcpVars>>

\* No memory for the message, at its start or in the middle: rakaia_push writes out what
\* a batch left, and the send then goes on.
SendmsgWaits(s) ==
    /\ MayFail
    /\ replies[s] # <<>> /\ tx_wait_more[s]
    /\ GoTo(s, "idle", "write")
    /\ tx_wait_more' = [tx_wait_more EXCEPT ![s] = FALSE]
    /\ UNCHANGED <<replies, sk_write_queue, psock, tx_wait_queue, tx_in_use, tcpVars>>

\* out_error: the message is freed after rakaia_push wrote out what a batch left.
SendmsgFails(s) ==
    /\ MayFail
    /\ replies[s] # <<>>
    /\ replies' = [replies EXCEPT ![s] = Tail(@)]
    /\ GoTo(s, "idle", IF tx_wait_more[s] THEN "write" ELSE "idle")
    /\ tx_wait_more' = [tx_wait_more EXCEPT ![s] = FALSE]
    /\ UNCHANGED <<sk_write_queue, psock, tx_wait_queue, tx_in_use, tcpVars>>
-----------------------------------------------------------------------------
(* rakaia_write_msgs.                                                      *)

\* Mutant: a worker writes without asking whether another does.
WriteMsgAlways(s) ==
    LET m == Head(sk_write_queue[s])
        p == Conn[m]
    IN  /\ sk_write_queue[s] # <<>> /\ p # NULL
        /\ sk_write_queue' = [sk_write_queue EXCEPT ![s] = Tail(@)]
        /\ tx_wait_queue' = [tx_wait_queue EXCEPT ![p] = Append(@, Txm(m))]
        /\ tx_in_use' = [tx_in_use EXCEPT ![p] = TRUE]
        /\ GoTo(s, "write", "send")
        /\ psock' = [psock EXCEPT ![s] = p]
        /\ UNCHANGED <<replies, tx_wait_more, tcpVars>>

\* The next message joins the queue of its connection, under psock->lock, and the
\* worker goes on to write if nobody does.
WriteMsg(s) ==
    LET m == Head(sk_write_queue[s])
        p == Conn[m]
    IN  /\ sk_write_queue[s] # <<>> /\ p # NULL
        /\ sk_write_queue' = [sk_write_queue EXCEPT ![s] = Tail(@)]
        /\ tx_wait_queue' = [tx_wait_queue EXCEPT ![p] = Append(@, Txm(m))]
        /\ tx_in_use' = [tx_in_use EXCEPT ![p] = TRUE]
        /\ GoTo(s, "write", IF tx_in_use[p] THEN "write" ELSE "send")
        /\ psock' = [psock EXCEPT ![s] = IF tx_in_use[p] THEN @ ELSE p]
        /\ UNCHANGED <<replies, tx_wait_more, tcpVars>>

\* The connection is gone: return, the message is dropped and the rest stays.
WriteNoPsock(s) ==
    /\ sk_write_queue[s] # <<>> /\ Conn[Head(sk_write_queue[s])] = NULL
    /\ sk_write_queue' = [sk_write_queue EXCEPT ![s] = Tail(@)]
    /\ GoTo(s, "write", "idle")
    /\ UNCHANGED <<replies, tx_wait_more, psock, tx_wait_queue, tx_in_use, tcpVars>>

WriteDone(s) ==
    /\ sk_write_queue[s] = <<>>
    /\ GoTo(s, "write", "idle")
    /\ UNCHANGED <<sockVars, psock, tx_wait_queue, tx_in_use, tcpVars>>

\* Mutant: the connection is not given back.
WriteFreeNot(s) ==
    /\ GoTo(s, "sent", "write")
    /\ psock' = [psock EXCEPT ![s] = NULL]
    /\ UNCHANGED <<sockVars, tx_in_use, tx_wait_queue, tcpVars>>

\* After write_to_csock sent something; if it failed, tx_in_use is set again and
\* what is left on the socket stays there.
WriteFree(s) ==
    /\ GoTo(s, "sent", "write")
    /\ tx_in_use' = [tx_in_use EXCEPT ![psock[s]] = FALSE]
    /\ psock' = [psock EXCEPT ![s] = NULL]
    /\ UNCHANGED <<sockVars, tx_wait_queue, tcpVars>>

WriteStop(s) ==
    /\ GoTo(s, "failed", "idle")
    /\ tx_in_use' = [tx_in_use EXCEPT ![psock[s]] = TRUE]
    /\ psock' = [psock EXCEPT ![s] = NULL]
    /\ UNCHANGED <<sockVars, tx_wait_queue, tcpVars>>
-----------------------------------------------------------------------------
(* write_to_csock.                                                         *)

\* Mutant: a message always starts at its first byte.
ResumeFirst(h) == [h EXCEPT !.started = TRUE, !.off = 0]

\* Where the message at the head goes on: started_tx, frag_skb and frag_offset.
Resume(h) == IF h.started THEN h ELSE [msg |-> h.msg, started |-> TRUE, skb |-> 1, off |-> 0]

\* Mutant: an off-by-one at the end of an skb.
AdvanceLate(h, n) ==
    IF h.off + n <= Len(Skbs[h.msg][h.skb])
    THEN <<[h EXCEPT !.off = @ + n]>>
    ELSE IF h.skb < Len(Skbs[h.msg])
         THEN <<[h EXCEPT !.skb = @ + 1, !.off = 0]>>
         ELSE <<>>

\* The message after n more bytes: the rest of the skb, the next one, or nothing.
Advance(h, n) ==
    IF h.off + n < Len(Skbs[h.msg][h.skb])
    THEN <<[h EXCEPT !.off = @ + n]>>
    ELSE IF h.skb < Len(Skbs[h.msg])
         THEN <<[msg |-> h.msg, started |-> h.started, skb |-> h.skb + 1, off |-> 0]>>
         ELSE <<>>

\* sock_sendmsg takes n bytes; a message sent whole is dequeued and freed.
SendBytes(s) ==
    LET p == psock[s]
        h == Resume(Head(tx_wait_queue[p]))
        skb == Skbs[h.msg][h.skb]
    IN  /\ pc[s] = "send" /\ tx_wait_queue[p] # <<>> /\ p \notin dead
        /\ \E n \in 1..(SndBuf - buffered[p]) :
              /\ h.off + n <= Len(skb)
              /\ wire' = [wire EXCEPT ![p] = @ \o SubSeq(skb, h.off + 1, h.off + n)]
              /\ buffered' = [buffered EXCEPT ![p] = @ + n]
              /\ tx_wait_queue' = [tx_wait_queue EXCEPT ![p] = Advance(h, n) \o Tail(@)]
        /\ UNCHANGED <<sockVars, psock, tx_in_use, dead, pc>>

\* EAGAIN, or a hard failure: the place is kept.  (A hard failure in the first skb does
\* not store frag_skb, and nobody reads it: tx_in_use stays set.)
SendFails(s) ==
    LET p == psock[s]
    IN  /\ GoTo(s, "send", "failed")
        /\ tx_wait_queue[p] # <<>>
        /\ buffered[p] = SndBuf \/ p \in dead
        /\ tx_wait_queue' = [tx_wait_queue EXCEPT ![p] = <<Resume(Head(@))>> \o Tail(@)]
        /\ UNCHANGED <<sockVars, psock, tx_in_use, tcpVars>>

SendEmpty(s) ==
    /\ GoTo(s, "send", "sent")
    /\ tx_wait_queue[psock[s]] = <<>>
    /\ UNCHANGED <<sockVars, psock, tx_wait_queue, tx_in_use, tcpVars>>
-----------------------------------------------------------------------------
(* TCP.                                                                    *)

\* Acknowledgements free the send buffer.  sk_write_space is not ours.
Drain(p) ==
    /\ buffered[p] > 0
    /\ buffered' = [buffered EXCEPT ![p] = 0]
    /\ UNCHANGED <<sockVars, psock, tx_wait_queue, tx_in_use, dead, wire, pc>>

PeerCloses(p) ==
    /\ MayFail /\ p \notin dead
    /\ dead' = dead \cup {p}
    /\ UNCHANGED <<sockVars, psock, tx_wait_queue, tx_in_use, buffered, wire, pc>>
-----------------------------------------------------------------------------
SenderStep(s) ==
    \/ Sendmsg(s) \/ SendmsgWaits(s) \/ SendmsgFails(s)
    \/ WriteMsg(s) \/ WriteNoPsock(s) \/ WriteDone(s) \/ WriteFree(s) \/ WriteStop(s)
    \/ SendBytes(s) \/ SendFails(s) \/ SendEmpty(s)

Next ==
    \/ \E s \in Senders : SenderStep(s)
    \/ \E p \in Psocks : Drain(p) \/ PeerCloses(p)

Spec == Init /\ [][Next]_vars

\* Workers run, and TCP delivers what it was given.
Fairness ==
    /\ \A s \in Senders : WF_vars(SenderStep(s))
    /\ \A p \in Psocks : WF_vars(Drain(p))

FairSpec == Spec /\ Fairness
-----------------------------------------------------------------------------
(* Properties.                                                             *)

Txms == [msg : Msgs, started : BOOLEAN, skb : Nat \ {0}, off : Nat]

\* frag_skb and frag_offset of a queued message point at a byte of it.
FragOK ==
    \A p \in Psocks : \A i \in DOMAIN tx_wait_queue[p] :
        LET h == tx_wait_queue[p][i]
        IN  h.skb \in DOMAIN Skbs[h.msg] /\ h.off < Len(Skbs[h.msg][h.skb])

\* Every variable has its type, and where a write goes on is inside its message.
TypeOK ==
    /\ replies \in [Senders -> Seq(Msgs)]
    /\ sk_write_queue \in [Senders -> Seq(Msgs)]
    /\ tx_wait_more \in [Senders -> BOOLEAN]
    /\ psock \in [Senders -> Psocks \cup {NULL}]
    /\ tx_wait_queue \in [Psocks -> Seq(Txms)]
    /\ FragOK
    /\ tx_in_use \in [Psocks -> BOOLEAN]
    /\ buffered \in [Psocks -> 0..SndBuf]
    /\ dead \subseteq Psocks
    /\ wire \in [Psocks -> Seq(Octets)]
    /\ pc \in [Senders -> {"idle", "write", "send", "sent", "failed"}]

Writing(s) == pc[s] \in {"send", "sent", "failed"}

\* One worker at a time is in write_to_csock of a connection (rakaiasock.c:584-610), so
\* the message it has peeked at is neither freed nor written under it.
WriterExclusive ==
    \A s, t \in Senders : Writing(s) /\ Writing(t) /\ psock[s] = psock[t] => s = t

\* A connection marked busy has a worker that is writing to it, until a write on it
\* fails; from then on (rakaiasock.c:597-603) it is marked for ever, and what it was
\* writing stays at the head of its queue.
BusyMeansWritten ==
    \A p \in Psocks :
        tx_in_use[p] /\ (\A s \in Senders : psock[s] # p) =>
            tx_wait_queue[p] # <<>> /\ Head(tx_wait_queue[p]).started

\* A worker that has queued a message comes back from rakaia_sendmsg: it never waits
\* for a connection or for another worker.
SendReturns == \A s \in Senders : pc[s] # "idle" ~> pc[s] = "idle"

\* A message that met EAGAIN is sent when there is room again ("Save state to try again
\* when there's write space on the socket", rakaiasock.c:509-511).
RetriedWhenSpace ==
    \A p \in Psocks :
        tx_wait_queue[p] # <<>> /\ Head(tx_wait_queue[p]).started
        ~> tx_wait_queue[p] = <<>> \/ p \in dead
=============================================================================
