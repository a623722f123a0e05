---------------------------- MODULE MCRxSched ----------------------------
(* Instances of RxSched for TLC. *)
EXTENDS RxSched, TLC

CONSTANTS p1, p2, m1, m2, m3

\* Two connections that send two or three messages between them.
Stream2 == (p1 :> <<m1>>) @@ (p2 :> <<m2>>)
Stream3 == (p1 :> <<m1, m2>>) @@ (p2 :> <<m3>>)

SockSymmetry == Permutations(Socks)
=============================================================================
