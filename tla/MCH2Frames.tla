----------------------------- MODULE MCH2Frames -----------------------------
(* Instances of H2Frames for TLC. *)
EXTENDS H2Frames, TLC

CONSTANTS w1, w2

\* Stream 1 sees every shape of a request, stream 3 the usual one.
Frames1 ==
    {f \in StreamFrames \cup ControlFrames :
        /\ f.stream = 3 => f.type \in {"HEADERS", "DATA"} /\ f.eh /\ f.es = (f.type = "DATA")
        /\ f.stream = 0 => ~f.es}

Pings == {f \in StreamFrames \cup ControlFrames : f.type \in {"PING", "SETTINGS"}}
=============================================================================
