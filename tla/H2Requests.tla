----------------------------- MODULE H2Requests -----------------------------
(***************************************************************************)
(* What the HTTP/2 parser promises the workers, without skbs, the stream   *)
(* table or locks: the frames of a stream reach them in order and once,    *)
(* cut into messages after each frame that ends the stream.  A frame can   *)
(* only be lost while no message of its stream has been begun.             *)
(***************************************************************************)
EXTENDS Naturals, Sequences

CONSTANTS
    Streams,
    Frames,    \* the frames that belong to streams
    Ends(_)    \* Ends(f): frame f ends its stream

VARIABLES
    frames,    \* frames[s]: what the peer sent on stream s
    begun,     \* begun[s]: of these, how many are in the message being built
    cut,       \* cut[s]: of these, how many went into messages or were lost
    out        \* the messages, in order

Init ==
    /\ frames = [s \in Streams |-> <<>>]
    /\ begun = [s \in Streams |-> 0]
    /\ cut = [s \in Streams |-> 0]
    /\ out = <<>>

Send(s) ==
    /\ \E f \in Frames : frames' = [frames EXCEPT ![s] = Append(@, f)]
    /\ UNCHANGED <<begun, cut, out>>

Lose(s) ==
    /\ begun[s] = 0 /\ cut[s] < Len(frames[s])
    /\ cut' = [cut EXCEPT ![s] = @ + 1]
    /\ UNCHANGED <<frames, begun, out>>

\* The next frame joins the message, and completes it if it ends the stream.
Take(s) ==
    LET n == cut[s] + begun[s] + 1
    IN  /\ n <= Len(frames[s])
        /\ IF Ends(frames[s][n])
           THEN /\ out' = Append(out, SubSeq(frames[s], cut[s] + 1, n))
                /\ begun' = [begun EXCEPT ![s] = 0]
                /\ cut' = [cut EXCEPT ![s] = n]
           ELSE /\ begun' = [begun EXCEPT ![s] = @ + 1]
                /\ UNCHANGED <<cut, out>>
        /\ UNCHANGED frames

\* The connection is detached: what was begun is dropped.
Close ==
    /\ begun' = [s \in Streams |-> 0]
    /\ cut' = [s \in Streams |-> cut[s] + begun[s]]
    /\ UNCHANGED <<frames, out>>

Next == Close \/ \E s \in Streams : Send(s) \/ Lose(s) \/ Take(s)

Spec == Init /\ [][Next]_<<frames, begun, cut, out>>
=============================================================================
