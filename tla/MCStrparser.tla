---------------------------- MODULE MCStrparser ----------------------------
(* Instances of Strparser for TLC. *)
EXTENDS Strparser

\* A message of several bytes, one that is just a header, one that is longer than
\* the receive buffer allows, and one behind it that must not be delivered: a
\* header, a message, or several of them are in one skb, or cut at any place.
LensBig == <<4, 2, 5, 2>>
=============================================================================
