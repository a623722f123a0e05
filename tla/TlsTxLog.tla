------------------------------ MODULE TlsTxLog -----------------------------
(***************************************************************************)
(* The kTLS send path implements TxLog: what a connection has been given   *)
(* and what it still queues form the log of the messages sent on it.       *)
(***************************************************************************)
EXTENDS TlsTx, SequencesExt

Bytes(m) == FlattenSeq(Skbs[m])

\* The bytes of h still to be written.
Rest(h) ==
    LET skb == Skbs[h.msg][h.skb]
    IN  SubSeq(skb, h.off + 1, Len(skb))
        \o FlattenSeq(SubSeq(Skbs[h.msg], h.skb + 1, Len(Skbs[h.msg])))

Accepted(p) ==
    LET q == tx_wait_queue[p] IN wire[p] \o FlattenSeq([i \in DOMAIN q |-> Rest(q[i])])

Log(p) == INSTANCE TxLog WITH log <- Accepted(p), sent <- Len(wire[p])

\* What write_to_csock puts on a connection (rakaiasock.c:460-558) is the messages of
\* the workers, each whole and once, in the order in which rakaia_write_msgs queued
\* them, however TCP cuts them up and wherever a write stops.
LogSpec ==
    /\ \A p \in Psocks : Log(p)!Init
    /\ [][\A p \in Psocks : UNCHANGED <<wire[p], Accepted(p)>> \/ Log(p)!Next]_vars
=============================================================================
