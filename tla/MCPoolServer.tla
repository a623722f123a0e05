---------------------------- MODULE MCPoolServer ----------------------------
(* Instances of PoolServer for TLC. *)
EXTENDS PoolServer, TLC

CONSTANTS i1, i2, w1, w2, r1, r2, r3

\* The second request comes in two pieces, the third has a bad header.
ThreeRequests == <<<<r1, TRUE>>, <<r2, FALSE>>, <<r2, TRUE>>, <<r3, TRUE>>>>

IoSymmetry == Permutations(IoThreads)
WorkerSymmetry == Permutations(IoThreads) \cup Permutations(Workers)
=============================================================================
