------------------------------ MODULE H2Frames ------------------------------
(***************************************************************************)
(* One connection of the HTTP/2 (grpc) build: the parser that sorts frames *)
(* into streams, answers control frames and returns flow-control credit in *)
(* the kernel, and the send path that carries replies and control frames.  *)
(*                                                                         *)
(* Frames are handled under the lock of the TCP socket, in softirq or in   *)
(* strp_work; the owner of tx_in_use sends under the same lock.  Workers   *)
(* append replies without it.                                              *)
(***************************************************************************)
EXTENDS Naturals, Sequences, SequencesExt, FiniteSetsExt

CONSTANTS
    Streams,           \* stream identifiers, numbers above 0
    Workers,           \* the rakaia sockets that serve the connection
    recv_conn_window,  \* the receive window announced at attach
    DataLens,          \* the payload lengths of DATA frames
    Payloads,          \* the payloads of PING frames
    PeerFrames,        \* the frames the peer uses
    Splits,            \* the types of the frames that can arrive in two pieces
    MaxFrames,         \* bound on the frames the peer sends on streams
    MaxControls,       \* bound on its other frames
    MaxEarly,          \* bound on the pieces that arrive before attach
    MaxFails,          \* bound on the allocations of skbs and streams that fail
    Releases,          \* whether the last rakaia socket is closed
    NULL

Softirq == "softirq"
Strp == "strp_work"
Tx == "tx_work"
Rel == "release"
TxThreads == Workers \cup {Tx}
Threads == TxThreads \cup {Strp, Rel}

RST_LEN == 4   \* the payload of RST_STREAM

ASSUME H2Assumption ==
    /\ Streams \subseteq Nat \ {0}
    /\ recv_conn_window \in Nat /\ recv_conn_window >= 4
    /\ DataLens \subseteq Nat
    /\ MaxFrames \in Nat /\ MaxControls \in Nat /\ MaxEarly \in Nat
    /\ MaxFails \in Nat /\ Releases \in BOOLEAN
    /\ Workers \cap {Softirq, Strp, Tx, Rel, NULL} = {}

VARIABLES
    sent,           \* sent[s]: the frames the peer sent on stream s
    open_headers,   \* the stream whose header block the peer has not ended
    peer_window,    \* the bytes of DATA the peer may still send
    rest,           \* the frame of which the peer has sent the first piece
    nframes, ncontrols,  \* how many of each the peer has sent
    attached,       \* "yes" if the callbacks are installed, "early" until the
                    \* first segment if there were bytes before that, or "no"
    rcvq,           \* the receive queue of the TCP socket, in pieces of frames
    backlog,        \* the pieces that arrived while a process owned the socket
    skb_head,       \* the frame of which some bytes are read
    streams,        \* strp->stream_storage: the frames of each open stream
    unacked,        \* bytes received and not returned as credit
    send_quota,     \* what the peer has allowed, beyond the first 65535
    rx_msgs,        \* the messages handed to the scheduler
    taken,          \* how many of them workers have received
    tx_wait_queue, tx_in_use,
    csk_lock,       \* who owns the TCP socket
    strp_work, tx_work,  \* whether the work items are queued
    stopped,        \* strp->stopped
    fails,          \* the allocations that failed
    lost,           \* credit whose WINDOW_UPDATE could not be allocated
    pc

countVars == <<nframes, ncontrols>>
peerVars == <<sent, open_headers, rest, countVars>>
recvVars == <<skb_head, streams, unacked, send_quota, rx_msgs>>
rxVars == <<recvVars, fails, lost>>
sockVars == <<attached, rcvq, backlog, stopped>>
vars == <<peerVars, peer_window, rxVars, sockVars, taken, tx_wait_queue, tx_in_use,
          csk_lock, strp_work, tx_work, pc>>

\* es is END_STREAM, or ACK for a control frame; eh is END_HEADERS.
Frame(t, s, es, eh, n) == [type |-> t, stream |-> s, es |-> es, eh |-> eh, len |-> n]

StreamFrames ==
    UNION {{Frame("HEADERS", s, es, eh, 0) : es \in BOOLEAN, eh \in BOOLEAN}
           \cup {Frame("CONTINUATION", s, FALSE, eh, 0) : eh \in BOOLEAN}
           \cup {Frame("DATA", s, es, TRUE, n) : es \in BOOLEAN, n \in DataLens}
           \cup {Frame("RST_STREAM", s, FALSE, TRUE, RST_LEN)} : s \in Streams}

\* len is the payload of a PING and the increment of a WINDOW_UPDATE.
ControlFrames ==
    {Frame("PING", 0, FALSE, TRUE, p) : p \in Payloads}
    \cup {Frame("SETTINGS", 0, ack, TRUE, 0) : ack \in BOOLEAN}
    \cup {Frame("WINDOW_UPDATE", s, FALSE, TRUE, 1) : s \in {0} \cup Streams}
    \cup {Frame("GOAWAY", 0, FALSE, TRUE, 0)}

ASSUME PeerFramesAssumption == PeerFrames \subseteq StreamFrames \cup ControlFrames

Ends(f) == f.es \/ f.type = "RST_STREAM"

Init ==
    /\ sent = [s \in Streams |-> <<>>]
    /\ open_headers = NULL
    /\ peer_window = recv_conn_window
    /\ rest = NULL
    /\ nframes = 0 /\ ncontrols = 0
    /\ attached = "no"
    /\ rcvq = <<>>
    /\ backlog = <<>>
    /\ skb_head = NULL
    /\ streams = [s \in Streams |-> <<>>]
    /\ unacked = 0
    /\ send_quota = 0
    /\ rx_msgs = <<>>
    /\ taken = 0
    /\ tx_wait_queue = <<>>
    /\ tx_in_use = 0
    /\ csk_lock = NULL
    /\ strp_work = FALSE
    /\ tx_work = FALSE
    /\ stopped = FALSE
    /\ fails = 0
    /\ lost = 0
    /\ pc = [t \in Threads |-> "idle"]

Fail(n) ==
    /\ fails + n <= MaxFails
    /\ fails' = fails + n

GoTo(t, from, to) ==
    /\ pc[t] = from
    /\ pc' = [pc EXCEPT ![t] = to]

-----------------------------------------------------------------------------
(* The peer, and TCP below the parser.                                     *)

\* What an HTTP/2 peer may send next.  A header block is not interrupted, DATA
\* stays within the window, and a stream that has ended can still be reset.
Opened(s) == sent[s] # <<>>
Ended(s) == \E i \in DOMAIN sent[s] : Ends(sent[s][i])
Reset(s) == Opened(s) /\ Last(sent[s]).type = "RST_STREAM"

PeerMay(f) ==
    CASE f.type = "HEADERS" ->
            /\ open_headers = NULL /\ ~Opened(f.stream)
            /\ \A s \in Streams : s < f.stream => Opened(s)
      [] f.type = "CONTINUATION" -> open_headers = f.stream
      [] f.type = "DATA" ->
            /\ open_headers = NULL
            /\ Opened(f.stream) /\ ~Ended(f.stream)
            /\ f.len <= peer_window
      [] f.type = "RST_STREAM" ->
            open_headers = NULL /\ Opened(f.stream) /\ ~Reset(f.stream)
      [] OTHER -> open_headers = NULL

\* Mutated Arrive: the owner of the socket is not looked at.
ArriveAlways(f, last) ==
    /\ csk_lock # Softirq
    /\ rcvq' = Append(rcvq, [frame |-> f, last |-> last])
    /\ csk_lock' = IF attached = "no" THEN csk_lock ELSE Softirq
    /\ attached' = IF attached = "no" THEN "no" ELSE "yes"
    /\ UNCHANGED backlog

\* A piece of a frame arrives.  If a process owns the socket it goes to the
\* backlog; if not, it is queued and the softirq goes on to psock_data_ready.
Arrive(f, last) ==
    LET p == [frame |-> f, last |-> last]
    IN  /\ csk_lock # Softirq
        /\ IF csk_lock = NULL
           THEN /\ rcvq' = Append(rcvq, p)
                /\ csk_lock' = IF attached = "no" THEN NULL ELSE Softirq
                /\ attached' = IF attached = "no" THEN "no" ELSE "yes"
                /\ UNCHANGED backlog
           ELSE /\ backlog' = Append(backlog, p)
                /\ UNCHANGED <<rcvq, csk_lock, attached>>

PeerFrame ==
    /\ rest = NULL /\ ~stopped
    /\ attached = "no" => Len(rcvq) < MaxEarly
    /\ \E f \in PeerFrames :
          /\ PeerMay(f)
          /\ IF f \in StreamFrames
             THEN /\ nframes < MaxFrames
                  /\ nframes' = nframes + 1
                  /\ sent' = [sent EXCEPT ![f.stream] = Append(@, f)]
                  /\ UNCHANGED ncontrols
             ELSE /\ ncontrols < MaxControls
                  /\ ncontrols' = ncontrols + 1
                  /\ UNCHANGED <<nframes, sent>>
          /\ open_headers' = IF f.eh THEN NULL ELSE f.stream
          /\ peer_window' = IF f.type = "DATA" THEN peer_window - f.len ELSE peer_window
          /\ \/ Arrive(f, TRUE) /\ UNCHANGED rest
             \/ f.type \in Splits /\ Arrive(f, FALSE) /\ rest' = f
    /\ UNCHANGED <<rxVars, stopped, taken, tx_wait_queue, tx_in_use, strp_work, tx_work,
                   pc>>

PeerRest ==
    /\ rest # NULL /\ ~stopped
    /\ Arrive(rest, TRUE)
    /\ rest' = NULL
    /\ UNCHANGED <<sent, open_headers, countVars, peer_window, rxVars, stopped, taken,
                   tx_wait_queue, tx_in_use, strp_work, tx_work, pc>>

\* Mutated ReleaseSock: strp_data_ready returns without queueing the work.
ReleaseSockNoWork ==
    /\ csk_lock' = NULL
    /\ rcvq' = rcvq \o backlog
    /\ backlog' = <<>>
    /\ attached' = IF backlog # <<>> /\ attached # "no" THEN "yes" ELSE attached
    /\ UNCHANGED strp_work

\* release_sock: the backlog is processed while the socket is still owned, so
\* psock_data_ready queues the work.
ReleaseSock ==
    /\ csk_lock' = NULL
    /\ rcvq' = rcvq \o backlog
    /\ backlog' = <<>>
    /\ IF backlog # <<>> /\ attached # "no" /\ ~stopped
       THEN strp_work' = TRUE /\ attached' = "yes"
       ELSE UNCHANGED <<strp_work, attached>>
-----------------------------------------------------------------------------
(* rakaia_attach, without a look at what is in the receive queue.          *)

\* Its error returns leave the connection as it was, unattached.
Attach ==
    /\ attached = "no" /\ ~stopped /\ csk_lock = NULL
    /\ attached' = IF rcvq = <<>> THEN "yes" ELSE "early"
    /\ UNCHANGED <<peerVars, peer_window, rxVars, rcvq, backlog, stopped, taken,
                   tx_wait_queue, tx_in_use, csk_lock, strp_work, tx_work, pc>>
-----------------------------------------------------------------------------
(* handle_h2_frame and the control frames it sends.                        *)

\* Mutated QueueControl: rakaia_schedule_tx is not called.
QueueControlOnly(c) ==
    /\ tx_wait_queue' = Append(tx_wait_queue, c)
    /\ UNCHANGED tx_work

\* A control skb is appended under tx_lock and tx_work scheduled.
QueueControl(c) ==
    /\ tx_wait_queue' = Append(tx_wait_queue, c)
    /\ tx_work' = TRUE

send_window_update(inc, ok) ==
    IF ok THEN /\ QueueControl([kind |-> "WINDOW_UPDATE", val |-> inc])
               /\ UNCHANGED lost
          ELSE /\ lost' = lost + inc
               /\ UNCHANGED <<tx_wait_queue, tx_work>>

\* The payload is read from the frame if it is not in the linear part of the skb;
\* otherwise the buffer that is copied into the reply was never written.
send_pingack(f, ok) ==
    IF ok THEN \E linear \in BOOLEAN, junk \in Payloads :
                  QueueControl([kind |-> "PING",
                                val |-> IF linear THEN junk ELSE f.len])
          ELSE UNCHANGED <<tx_wait_queue, tx_work>>

send_settings_ack(ok) ==
    IF ok THEN QueueControl([kind |-> "SETTINGS", val |-> 0])
          ELSE UNCHANGED <<tx_wait_queue, tx_work>>

\* Mutated FlowControl: unacked is not reset.
FlowControlNoReset(f, skb_ok) ==
    LET n == unacked + f.len
    IN  IF f.type \notin {"DATA", "RST_STREAM"}
        THEN skb_ok /\ UNCHANGED <<unacked, tx_wait_queue, tx_work, lost>>
        ELSE IF n >= recv_conn_window \div 4
             THEN /\ unacked' = n
                  /\ send_window_update(n, skb_ok)
             ELSE /\ unacked' = n /\ skb_ok
                  /\ UNCHANGED <<tx_wait_queue, tx_work, lost>>

\* DATA and RST_STREAM: the bytes are counted, and returned when they make a quarter
\* of the window, whether or not the update could be sent.
FlowControl(f, skb_ok) ==
    LET n == unacked + f.len
    IN  IF f.type \notin {"DATA", "RST_STREAM"}
        THEN skb_ok /\ UNCHANGED <<unacked, tx_wait_queue, tx_work, lost>>
        ELSE IF n >= recv_conn_window \div 4
             THEN /\ unacked' = 0
                  /\ send_window_update(n, skb_ok)
             ELSE /\ unacked' = n /\ skb_ok
                  /\ UNCHANGED <<tx_wait_queue, tx_work, lost>>

\* Mutated add_skb_to_stream: a flushed stream stays in the table.
add_skb_keep_stream(f, stream_ok) ==
    LET s == f.stream
        chain == Append(streams[s], f)
    IN  IF ~stream_ok
        THEN streams[s] = <<>> /\ UNCHANGED <<streams, rx_msgs>>
        ELSE IF Ends(f)
             THEN /\ rx_msgs' = Append(rx_msgs, chain)
                  /\ streams' = [streams EXCEPT ![s] = chain]
             ELSE /\ streams' = [streams EXCEPT ![s] = chain]
                  /\ UNCHANGED rx_msgs

\* The frame joins its stream, which is created if need be and flushed at its end.
\* A frame whose stream cannot be created is dropped.
add_skb_to_stream(f, stream_ok) ==
    LET s == f.stream
        chain == Append(streams[s], f)
    IN  IF ~stream_ok
        THEN streams[s] = <<>> /\ UNCHANGED <<streams, rx_msgs>>
        ELSE IF Ends(f)
             THEN /\ rx_msgs' = Append(rx_msgs, chain)
                  /\ streams' = [streams EXCEPT ![s] = <<>>]
             ELSE /\ streams' = [streams EXCEPT ![s] = chain]
                  /\ UNCHANGED rx_msgs

\* skb_ok, stream_ok: FALSE if a control skb, a stream is needed and not allocated.
handle_h2_frame(f, skb_ok, stream_ok) ==
    \/ /\ f.type \in {"RST_STREAM", "DATA", "HEADERS", "CONTINUATION"}
       /\ FlowControl(f, skb_ok)
       /\ add_skb_to_stream(f, stream_ok)
       /\ UNCHANGED send_quota
    \/ /\ f.type = "PING" /\ stream_ok
       /\ send_pingack(f, skb_ok)
       /\ UNCHANGED <<streams, unacked, send_quota, rx_msgs, lost>>
    \/ /\ f.type = "WINDOW_UPDATE" /\ skb_ok /\ stream_ok
       /\ send_quota' = IF f.stream = 0 THEN send_quota + f.len ELSE send_quota
       /\ UNCHANGED <<streams, unacked, rx_msgs, lost, tx_wait_queue, tx_work>>
    \/ /\ f.type = "SETTINGS" /\ stream_ok
       /\ IF f.es THEN skb_ok /\ UNCHANGED <<tx_wait_queue, tx_work>>
                  ELSE send_settings_ack(skb_ok)
       /\ UNCHANGED <<streams, unacked, send_quota, rx_msgs, lost>>
    \/ /\ f.type = "GOAWAY" /\ skb_ok /\ stream_ok
       /\ UNCHANGED <<streams, unacked, send_quota, rx_msgs, lost, tx_wait_queue, tx_work>>
-----------------------------------------------------------------------------
(* Reading: __strp_recv, by the softirq of an arrival or by strp_work.     *)

Reading(t) ==
    /\ csk_lock = t
    /\ t = Strp => pc[Strp] = "read" /\ ~stopped

\* One piece: it is kept if its frame is not complete, else the frame is handled.
\* The softirq returns after the last one.  The message timer is never started (the
\* receive timeout of the socket is not set), and no frame exceeds sk_rcvbuf.
ReadPiece(t) ==
    /\ Reading(t) /\ rcvq # <<>>
    /\ rcvq' = Tail(rcvq)
    /\ IF Head(rcvq).last
       THEN /\ skb_head' = NULL
            /\ \E skb_ok \in BOOLEAN, stream_ok \in BOOLEAN :
                  /\ Fail((IF skb_ok THEN 0 ELSE 1) + (IF stream_ok THEN 0 ELSE 1))
                  /\ handle_h2_frame(Head(rcvq).frame, skb_ok, stream_ok)
       ELSE /\ skb_head' = Head(rcvq).frame
            /\ UNCHANGED <<streams, unacked, send_quota, rx_msgs, fails, lost, tx_wait_queue,
                           tx_work>>
    /\ csk_lock' = IF t = Softirq /\ Len(rcvq) = 1 THEN NULL ELSE t
    /\ UNCHANGED <<peerVars, peer_window, attached, backlog, stopped, taken, tx_in_use,
                   strp_work, pc>>

\* skb_clone fails: -ENOMEM, and the work is queued to read again.
ReadFails(t) ==
    /\ Fail(1)
    /\ Reading(t) /\ rcvq # <<>>
    /\ IF t = Softirq
       THEN /\ csk_lock' = NULL
            /\ UNCHANGED <<rcvq, backlog, attached, pc>>
       ELSE /\ csk_lock' = NULL
            /\ rcvq' = rcvq \o backlog
            /\ backlog' = <<>>
            /\ pc' = [pc EXCEPT ![Strp] = "idle"]
            /\ UNCHANGED attached
    /\ strp_work' = TRUE
    /\ UNCHANGED <<peerVars, peer_window, recvVars, lost, stopped, taken, tx_wait_queue, tx_in_use,
                   tx_work>>

StrpStart ==
    /\ strp_work
    /\ GoTo(Strp, "idle", "lock")
    /\ strp_work' = FALSE
    /\ UNCHANGED <<peerVars, peer_window, rxVars, sockVars, taken, tx_wait_queue, tx_in_use,
                   csk_lock, tx_work>>

StrpLock ==
    /\ csk_lock = NULL
    /\ GoTo(Strp, "lock", "read")
    /\ csk_lock' = Strp
    /\ UNCHANGED <<peerVars, peer_window, rxVars, sockVars, taken, tx_wait_queue, tx_in_use,
                   strp_work, tx_work>>

StrpReturn ==
    /\ rcvq = <<>> \/ stopped
    /\ GoTo(Strp, "read", "idle")
    /\ ReleaseSock
    /\ UNCHANGED <<peerVars, peer_window, rxVars, stopped, taken, tx_wait_queue, tx_in_use,
                   tx_work>>
-----------------------------------------------------------------------------
(* A worker receives a message and replies; tx_work; try_send_from_psock.  *)

\* rakaia_recvmsg and rakaia_sendmsg, up to the reply's place on the wait queue, which
\* it takes under tx_lock.
Serve(w) ==
    /\ pc[Rel] = "idle"
    /\ taken < Len(rx_msgs)
    /\ GoTo(w, "idle", "try")
    /\ taken' = taken + 1
    /\ tx_wait_queue' = Append(tx_wait_queue, [kind |-> "REPLY", val |-> 0])
    /\ UNCHANGED <<peerVars, peer_window, rxVars, sockVars, tx_in_use, csk_lock, strp_work,
                   tx_work>>

\* No memory for the reply: out_error, nothing is sent.
ServeFails(w) ==
    /\ Fail(1)
    /\ pc[Rel] = "idle"
    /\ taken < Len(rx_msgs)
    /\ pc[w] = "idle"
    /\ taken' = taken + 1
    /\ UNCHANGED <<peerVars, peer_window, recvVars, lost, sockVars, tx_wait_queue,
                   tx_in_use, csk_lock, strp_work, tx_work, pc>>

TxStart ==
    /\ tx_work
    /\ GoTo(Tx, "idle", "try")
    /\ tx_work' = FALSE
    /\ UNCHANGED <<peerVars, peer_window, rxVars, sockVars, taken, tx_wait_queue, tx_in_use,
                   csk_lock, strp_work>>

TryEnter(t) ==
    /\ GoTo(t, "try", IF tx_in_use = 0 THEN "lock" ELSE "idle")
    /\ tx_in_use' = 1
    /\ UNCHANGED <<peerVars, peer_window, rxVars, sockVars, taken, tx_wait_queue, csk_lock,
                   strp_work, tx_work>>

Credit(q) ==
    FoldSeq(LAMBDA c, n : n + IF c.kind = "WINDOW_UPDATE" THEN c.val ELSE 0, 0, q)

\* lock_sock, and the iterations up to the one that finds the queue empty: all that
\* was appended by then is pushed.
TryPush(t) ==
    /\ csk_lock = NULL
    /\ GoTo(t, "lock", "clear")
    /\ csk_lock' = t
    /\ peer_window' = peer_window + Credit(tx_wait_queue)
    /\ tx_wait_queue' = <<>>
    /\ UNCHANGED <<peerVars, rxVars, sockVars, taken, tx_in_use, strp_work, tx_work>>

TryClear(t) ==
    /\ GoTo(t, "clear", "idle")
    /\ tx_in_use' = 0
    /\ ReleaseSock
    /\ UNCHANGED <<peerVars, peer_window, rxVars, stopped, taken, tx_wait_queue, tx_work>>
-----------------------------------------------------------------------------
(* release_psock, when the last rakaia socket is closed.                   *)

RelLock ==
    /\ Releases
    /\ attached # "no" /\ csk_lock = NULL
    /\ \A w \in Workers : pc[w] = "idle"
    /\ GoTo(Rel, "idle", "cancel")
    /\ csk_lock' = Rel
    /\ attached' = "no"
    /\ stopped' = TRUE
    /\ UNCHANGED <<peerVars, peer_window, rxVars, rcvq, backlog, taken, tx_wait_queue,
                   tx_in_use, strp_work, tx_work>>

\* strp_done: cancel_work_sync waits for strp_work if it runs; the streams are freed.
RelDone ==
    /\ pc[Strp] = "idle"
    /\ GoTo(Rel, "cancel", "done")
    /\ skb_head' = NULL
    /\ streams' = [s \in Streams |-> <<>>]
    /\ strp_work' = FALSE
    /\ csk_lock' = NULL
    /\ rcvq' = rcvq \o backlog
    /\ backlog' = <<>>
    /\ UNCHANGED <<peerVars, peer_window, unacked, send_quota, rx_msgs, fails, lost, attached,
                   stopped, taken, tx_wait_queue, tx_in_use, tx_work>>
-----------------------------------------------------------------------------
RxStep(t) == ReadPiece(t) \/ ReadFails(t)
StrpStep == StrpStart \/ StrpLock \/ RxStep(Strp) \/ StrpReturn
TryStep(t) == TryEnter(t) \/ TryPush(t) \/ TryClear(t)
WorkerStep(w) == Serve(w) \/ ServeFails(w) \/ TryStep(w)
TxStep == TxStart \/ TryStep(Tx)
RelStep == RelLock \/ RelDone

\* The psock is freed at the end of release_psock.
Next ==
    /\ pc[Rel] # "done"
    /\ \/ PeerFrame \/ PeerRest \/ Attach \/ StrpStep \/ RxStep(Softirq) \/ TxStep \/ RelStep
       \/ \E w \in Workers : WorkerStep(w)

Spec == Init /\ [][Next]_vars

\* The kernel runs what is runnable, TCP delivers the rest of a frame, and memory is
\* not short for ever.
Fairness ==
    /\ WF_vars(PeerRest)
    /\ WF_vars(StrpStep) /\ SF_vars(ReadPiece(Strp))
    /\ WF_vars(RxStep(Softirq))
    /\ WF_vars(TxStep)
    /\ \A w \in Workers : WF_vars(WorkerStep(w))

FairSpec == Spec /\ Fairness
-----------------------------------------------------------------------------
(* Properties.                                                             *)

Pieces == [frame : StreamFrames \cup ControlFrames, last : BOOLEAN]
Queued == [kind : {"REPLY", "WINDOW_UPDATE", "PING", "SETTINGS"}, val : Nat]

\* Every variable has its type.
TypeOK ==
    /\ sent \in [Streams -> Seq(StreamFrames)]
    /\ open_headers \in Streams \cup {NULL}
    /\ peer_window \in Nat /\ nframes \in 0..MaxFrames
    /\ ncontrols \in 0..MaxControls
    /\ {rest, skb_head} \subseteq StreamFrames \cup ControlFrames \cup {NULL}
    /\ attached \in {"no", "early", "yes"}
    /\ rcvq \in Seq(Pieces) /\ backlog \in Seq(Pieces)
    /\ streams \in [Streams -> Seq(StreamFrames)]
    /\ unacked \in 0..(recv_conn_window - 1) /\ send_quota \in Nat /\ lost \in Nat
    /\ fails \in 0..MaxFails
    /\ rx_msgs \in Seq(Seq(StreamFrames)) /\ taken \in 0..Len(rx_msgs)
    /\ tx_wait_queue \in Seq(Queued)
    /\ tx_in_use \in {0, 1}
    /\ csk_lock \in Threads \cup {Softirq, NULL}
    /\ {strp_work, tx_work, stopped} \subseteq BOOLEAN
    /\ pc \in [Threads -> {"idle", "lock", "read", "try", "clear", "cancel", "done"}]

\* The frames sent and not handled yet.
OnTheWay ==
    LET complete(q) == SelectSeq(q, LAMBDA p : p.last)
        frames(q) == [i \in DOMAIN q |-> q[i].frame]
    IN  frames(complete(rcvq \o backlog)) \o IF rest = NULL THEN <<>> ELSE <<rest>>

Sum(q, t) == FoldSeq(LAMBDA f, n : n + IF f.type = t THEN f.len ELSE 0, 0, q)

\* Flow-control credit (strparser.c:529-536): what the peer may send, what is on the
\* way, counted or being returned, and what was lost for want of memory add up to the
\* window announced at attach, plus the bytes of the RST_STREAM frames handled, which
\* the fall through of the switch counts like DATA.
CreditConserved ==
    LET resets(s) == Sum(sent[s], "RST_STREAM")
    IN  peer_window + Sum(OnTheWay, "DATA") + unacked + Credit(tx_wait_queue) + lost
        = recv_conn_window + MapThenSumSet(resets, Streams) - Sum(OnTheWay, "RST_STREAM")

\* A control frame is never left on tx_wait_queue with nobody to send it.  A reply can
\* be: it is appended without the lock of the TCP socket, in the gap between the last
\* look at the queue and the store to tx_in_use (rakaiasock.c:519-555), where frames
\* are not handled.
NoStrandedControl ==
    (\A t \in TxThreads : pc[t] = "idle") /\ ~tx_work =>
        \A i \in DOMAIN tx_wait_queue : tx_wait_queue[i].kind = "REPLY"

\* The parser implements the abstract one (strparser.c:505-582): messages are whole
\* runs of the frames of one stream, in order, each frame at most once, cut after the
\* frames with END_STREAM and RST_STREAM; only the failed creation of a stream loses
\* a frame.
Unread(s) == Len(SelectSeq(OnTheWay, LAMBDA f : f.stream = s /\ f \in StreamFrames))

Requests == INSTANCE H2Requests WITH
    Frames <- StreamFrames,
    frames <- sent,
    begun <- [s \in Streams |-> Len(streams[s])],
    cut <- [s \in Streams |-> Len(sent[s]) - Unread(s) - Len(streams[s])],
    out <- rx_msgs

RequestSpec == Requests!Spec

\* The window of the peer opens again (strparser.c:533-536, rakaiasock.c:405-411): while
\* the connection is attached and no update was lost, it has time and again more than
\* three quarters of it, so a peer that waits for credit does not wait for ever.
\* Bytes that came before attach are not read until more come.
WindowReopens ==
    []<>(\/ attached # "yes" \/ lost > 0
         \/ peer_window > recv_conn_window - recv_conn_window \div 4)

\* What arrives is read (strparser.c:904-948): neither the check of the socket lock in
\* strp_data_ready nor a failed allocation leaves bytes behind that nobody will read.
ArrivalsRead == []<>(attached # "yes" \/ rcvq \o backlog = <<>>)

\* The reply to a PING carries its payload ("Copy opaque payload", strparser.c:345).
\* The code copies the buffer it gave to skb_header_pointer and not what that returned.
PingEchoed ==
    [][\A t \in {Softirq, Strp} : ReadPiece(t) =>
          LET p == Head(rcvq)
          IN  p.last /\ p.frame.type = "PING" /\ tx_wait_queue' # tx_wait_queue
              => Last(tx_wait_queue').val = p.frame.len]_vars

\* strp_done does not wait for a work item that waits for the lock its caller holds
\* ("Note that strp_done is not called with the lower socket held.",
\* strparser.c:1064-1066).  release_psock calls it between lock_sock and release_sock.
DoneWithoutLock == ~(pc[Rel] = "cancel" /\ csk_lock = Rel /\ pc[Strp] = "lock")
=============================================================================
