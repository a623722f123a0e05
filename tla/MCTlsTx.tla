------------------------------ MODULE MCTlsTx ------------------------------
(* Instances of TlsTx for TLC. *)
EXTENDS TlsTxLog, TLC

CONSTANTS s1, s2, p1, p2, m1, m2, m3, m4, m5, m6

\* Two workers meet on p1 with a message of two skbs and short ones; s2 leaves a batch
\* of which one message has lost its connection.
Replies6 == (s1 :> <<m1, m4>>) @@ (s2 :> <<m3, m5, m2, m6>>)
Conn6 == (m1 :> p1) @@ (m2 :> p2) @@ (m3 :> p1) @@ (m4 :> p1)
         @@ (m5 :> NULL) @@ (m6 :> p2)
Skbs6 == (m1 :> <<<<1, 2>>, <<3>>>>) @@ (m2 :> <<<<4>>>>) @@ (m3 :> <<<<5>>>>)
         @@ (m4 :> <<<<6>>>>) @@ (m5 :> <<<<7>>>>) @@ (m6 :> <<<<8>>>>)
=============================================================================
