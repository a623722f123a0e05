------------------------------ MODULE MsgPool ------------------------------
(***************************************************************************)
(* What the receive side promises, without queues, bitmaps or locks: every *)
(* message is accepted once, delivered to at most one rakaia socket, run   *)
(* by the worker of that socket and by no other, one message per worker at *)
(* a time, and finished once.  A message may be dropped instead of         *)
(* delivered, never after.                                                 *)
(***************************************************************************)
CONSTANTS Socks, Msgs, NULL

VARIABLES
    stage,  \* stage[m]: how far message m has come
    owner   \* owner[m]: the socket m was delivered to

Init ==
    /\ stage = [m \in Msgs |-> "unread"]
    /\ owner = [m \in Msgs |-> NULL]

Accept(m) ==
    /\ stage[m] = "unread"
    /\ stage' = [stage EXCEPT ![m] = "queued"]
    /\ UNCHANGED owner

Deliver(m, k) ==
    /\ stage[m] = "queued"
    /\ stage' = [stage EXCEPT ![m] = "delivered"]
    /\ owner' = [owner EXCEPT ![m] = k]

Drop(m) ==
    /\ stage[m] = "queued"
    /\ stage' = [stage EXCEPT ![m] = "lost"]
    /\ UNCHANGED owner

Run(m) ==
    /\ stage[m] = "delivered"
    /\ \A n \in Msgs : stage[n] = "running" => owner[n] # owner[m]
    /\ stage' = [stage EXCEPT ![m] = "running"]
    /\ UNCHANGED owner

Finish(m) ==
    /\ stage[m] = "running"
    /\ stage' = [stage EXCEPT ![m] = "done"]
    /\ owner' = [owner EXCEPT ![m] = NULL]

Next ==
    \E m \in Msgs :
        \/ Accept(m) \/ Drop(m) \/ Run(m) \/ Finish(m)
        \/ \E k \in Socks : Deliver(m, k)

Spec == Init /\ [][Next]_<<stage, owner>>
=============================================================================
