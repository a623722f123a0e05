---------------------------- MODULE MCPsockTx ----------------------------
(* Instances of PsockTx for TLC. *)
EXTENDS PsockTx, TLC

CONSTANTS s1, s2, m1, m2, m3

\* A reply of several skbs, whose first one can run out of fragments before it is
\* full, meets short ones. With Isn = SeqSpace - 2 the sequence numbers wrap inside
\* an skb, or at the start of one: then a failing sender can take it for empty.
Replies3 == (s1 :> <<m1>>) @@ (s2 :> <<m2, m3>>)
Size3 == (m1 :> 4) @@ (m2 :> 2) @@ (m3 :> 2)
=============================================================================
