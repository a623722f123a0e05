------------------------------- MODULE TxLog -------------------------------
(***************************************************************************)
(* What the send side of one connection promises, without skbs, queues or  *)
(* locks: a log of bytes to which a reply is added whole and once, and of  *)
(* which a growing prefix has been transmitted.                            *)
(***************************************************************************)
EXTENDS Naturals, Sequences

CONSTANTS
    Msgs,      \* the replies
    Bytes(_)   \* Bytes(m): the bytes of reply m

VARIABLES
    log,       \* the bytes accepted for the connection, in stream order
    sent       \* how many of them TCP has been given to transmit

Init == log = <<>> /\ sent = 0

Fresh(m) == \A i \in DOMAIN log : \A j \in DOMAIN Bytes(m) : log[i] # Bytes(m)[j]

Send(m) ==
    /\ Fresh(m)
    /\ log' = log \o Bytes(m)
    /\ UNCHANGED sent

Transmit ==
    /\ sent < sent' /\ sent' <= Len(log)
    /\ UNCHANGED log

Next == Transmit \/ \E m \in Msgs : Send(m)

vars == <<log, sent>>

Spec == Init /\ [][Next]_vars
=============================================================================
