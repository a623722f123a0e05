----------------------------- MODULE Strparser -----------------------------
(***************************************************************************)
(* The stream parser of one connection (plain-tcp build): it reads the TCP *)
(* receive queue skb by skb, whatever the segmentation, and hands whole    *)
(* memcached messages to the scheduler.                                    *)
(*                                                                         *)
(* It runs in softirq when data arrives (strp_data_ready) and in a work    *)
(* item (do_strp_work), always with the TCP socket locked, so that a       *)
(* segment that arrives during a read waits in the backlog: a read is not  *)
(* interleaved with another one.  Only the message timer is not under the  *)
(* lock: it may have fired and wait for the lock when it is cancelled.     *)
(*                                                                         *)
(* A byte is its position in the stream.  strp_pause is never called in    *)
(* this build and is left out.                                             *)
(***************************************************************************)
EXTENDS Integers, Sequences, SequencesExt

CONSTANTS
    Lens,         \* Lens[i]: the length of the i-th message of the stream
    HeaderLen,    \* sizeof(struct binary_header_t)
    MaxMsgSize,   \* sk_rcvbuf of the TCP socket
    MaxSeg,       \* the longest segment
    MemFails,     \* how many allocations fail
    Timeout       \* whether sk_rcvtimeo is set, so that the timer is used

ASSUME StrpAssumption ==
    /\ Lens \in Seq(Nat) /\ \A i \in DOMAIN Lens : Lens[i] >= HeaderLen
    /\ HeaderLen \in Nat \ {0} /\ MaxMsgSize \in Nat /\ MaxSeg \in Nat \ {0}
    /\ MemFails \in Nat /\ Timeout \in BOOLEAN

NoHead == [start |-> 0, accum_len |-> 0, full_len |-> -1]

VARIABLES
    arrived,      \* rcv_nxt: bytes TCP has received
    queue,        \* sk_receive_queue: the bytes left of each skb
    seq,          \* tcp_read_sock: bytes consumed
    copied_seq,   \* tp->copied_seq, which lags behind seq within an skb
    skb_head,     \* the message being assembled
    need_bytes,
    stopped,
    armed,        \* msg_timer_work is pending
    fired,        \* strp_msg_timeout runs and waits for the socket lock
    work,         \* strp->work is queued
    attached,     \* the callbacks of the TCP socket
    pc,           \* what the owner of the socket lock does next
    eaten,        \* __strp_recv has consumed bytes in this call
    desc,         \* the read descriptor: error and count, and who reads
    mem,          \* allocation failures left
    delivered     \* the messages given to rakaia_rcv_strparser

tcpVars == <<arrived, queue, seq, copied_seq>>
strpVars == <<skb_head, need_bytes, stopped, armed, fired, work>>
readVars == <<eaten, desc>>
vars == <<tcpVars, strpVars, attached, pc, readVars, mem, delivered>>

\* The position of message i; the length of the stream.
StartOf(i) == FoldSeq(+, 0, SubSeq(Lens, 1, i - 1))
StreamLen == StartOf(Len(Lens) + 1)

NoDesc == [error |-> "none", count |-> 1, by |-> "softirq"]

Init ==
    /\ arrived = 0 /\ queue = <<>> /\ seq = 0 /\ copied_seq = 0
    /\ skb_head = NoHead /\ need_bytes = 0 /\ stopped = FALSE
    /\ armed = FALSE /\ fired = FALSE /\ work = FALSE
    /\ attached = "no"
    /\ pc = "idle"
    /\ eaten = FALSE /\ desc = NoDesc
    /\ mem = MemFails
    /\ delivered = <<>>

strp_peek_len == arrived - copied_seq

\* rakaia_parse_func_strparser, with avail bytes from position start on: zero if
\* the header is not complete.  What it reads elsewhere than at the start of a
\* message is not a length.
rakaia_parse_func_strparser(start, avail) ==
    IF avail < HeaderLen THEN 0
    ELSE IF \E i \in DOMAIN Lens : StartOf(i) = start
         THEN Lens[CHOOSE i \in DOMAIN Lens : StartOf(i) = start]
         ELSE avail
-----------------------------------------------------------------------------
(* TCP and the callbacks.                                                  *)

\* One or two skbs of in-order data arrive, two when a hole is filled; then TCP
\* calls sk_data_ready.
Arrive ==
    /\ pc = "idle"
    /\ \E n \in 1..MaxSeg, two \in BOOLEAN :
          /\ arrived + n <= StreamLen
          /\ two => n > 1
          /\ arrived' = arrived + n
          /\ queue' = queue \o IF two THEN <<1, n - 1>> ELSE <<n>>
    /\ pc' = IF attached = "yes" THEN "data_ready" ELSE "idle"
    /\ UNCHANGED <<seq, copied_seq, strpVars, attached, readVars, mem, delivered>>

\* Mutated Attach: strp_check_rcv is missing.
AttachNoCheck ==
    /\ pc = "idle" /\ attached = "no"
    /\ attached' = "yes"
    /\ UNCHANGED <<tcpVars, strpVars, pc, readVars, mem, delivered>>

\* rakaia_attach: strp_init, the callbacks, and strp_check_rcv for the data that
\* is there already.
Attach ==
    /\ pc = "idle" /\ attached = "no"
    /\ attached' = "yes"
    /\ work' = TRUE
    /\ UNCHANGED <<tcpVars, skb_head, need_bytes, stopped, armed, fired, pc, readVars,
                   mem, delivered>>

StartRead(by) ==
    /\ pc' = "read"
    /\ eaten' = FALSE
    /\ desc' = [NoDesc EXCEPT !.by = by]

strp_data_ready ==
    /\ pc = "data_ready"
    /\ \/ /\ stopped \/ (need_bytes > 0 /\ strp_peek_len < need_bytes)
          /\ pc' = "idle"
          /\ UNCHANGED readVars
       \/ /\ ~stopped /\ (need_bytes > 0 => strp_peek_len >= need_bytes)
          /\ StartRead("softirq")
    /\ UNCHANGED <<tcpVars, strpVars, attached, mem, delivered>>

\* strp_wq has one thread: not while strp_msg_timeout runs.
do_strp_work ==
    /\ pc = "idle" /\ work /\ ~fired
    /\ work' = FALSE
    /\ IF stopped THEN UNCHANGED <<pc, readVars>> ELSE StartRead("work")
    /\ UNCHANGED <<tcpVars, skb_head, need_bytes, stopped, armed, fired, attached, mem,
                   delivered>>
-----------------------------------------------------------------------------
(* __strp_recv: one iteration of its loop on the first skb of the queue.   *)

Cand == Head(queue)
Started == IF skb_head = NoHead THEN [start |-> seq, accum_len |-> 0, full_len |-> 0]
                                ELSE skb_head
Avail == Started.accum_len + Cand
FullLen == IF Started.full_len # 0 THEN Started.full_len
           ELSE rakaia_parse_func_strparser(Started.start, Avail)

strp_start_timer == armed' = (armed \/ (Timeout /\ Started.accum_len = 0))

\* tcp_read_sock: n bytes of the skb are consumed; an skb left empty leaves the
\* queue, and the next one is read unless the descriptor says stop.
Consume(n) ==
    /\ seq' = seq + n
    /\ eaten' = (n < Cand)
    /\ IF n < Cand
       THEN queue' = <<Cand - n>> \o Tail(queue) /\ UNCHANGED copied_seq /\ pc' = "read"
       ELSE /\ queue' = Tail(queue)
            /\ copied_seq' = seq'
            /\ pc' = IF desc'.count = 0 \/ queue' = <<>> THEN "end" ELSE "read"
    /\ UNCHANGED <<arrived, attached, stopped, fired, work, mem>>

\* The header is not complete.
NeedHeader ==
    /\ pc = "read" /\ queue # <<>>
    /\ FullLen = 0
    /\ strp_start_timer
    /\ skb_head' = [Started EXCEPT !.accum_len = Avail]
    /\ UNCHANGED <<need_bytes, desc, delivered>>
    /\ Consume(Cand)

\* The message is not complete.  If the rest is not in the socket either, wait for
\* need_bytes and stop reading.
NeedBytes ==
    /\ pc = "read" /\ queue # <<>>
    /\ FullLen > Avail /\ FullLen <= MaxMsgSize
    /\ skb_head' = [Started EXCEPT !.accum_len = Avail, !.full_len = FullLen]
    /\ IF FullLen - Started.accum_len > strp_peek_len
       THEN /\ strp_start_timer
            /\ need_bytes' = FullLen - Avail
            /\ desc' = [desc EXCEPT !.count = 0]
       ELSE UNCHANGED <<armed, need_bytes, desc>>
    /\ UNCHANGED delivered
    /\ Consume(Cand)

\* Mutated Deliver: the bytes accumulated before are not subtracted.
DeliverForgetsAccum ==
    /\ pc = "read" /\ queue # <<>>
    /\ FullLen \in 1..Avail /\ FullLen <= MaxMsgSize
    /\ armed' = FALSE
    /\ skb_head' = NoHead
    /\ need_bytes' = 0
    /\ delivered' = Append(delivered, [start |-> Started.start, len |-> FullLen])
    /\ UNCHANGED desc
    /\ Consume(IF FullLen < Cand THEN FullLen ELSE Cand)

\* The message is complete: cancel_delayed_work, and give it to the upper layer.
Deliver ==
    /\ pc = "read" /\ queue # <<>>
    /\ FullLen \in 1..Avail /\ FullLen <= MaxMsgSize
    /\ armed' = FALSE
    /\ skb_head' = NoHead
    /\ need_bytes' = 0
    /\ delivered' = Append(delivered, [start |-> Started.start, len |-> FullLen])
    /\ UNCHANGED desc
    /\ Consume(FullLen - Started.accum_len)

\* A call that ate bytes is followed by another one for the rest of the skb.
Return ==
    /\ pc' = IF eaten THEN "read" ELSE "end"
    /\ eaten' = FALSE

\* The timer is cancelled if it is pending, and the parser stops for good.
strp_abort_strp ==
    /\ armed' = FALSE
    /\ stopped' = TRUE

\* Mutated ParserErr: the message that is too long is skipped.
ParserErrSkips ==
    /\ pc = "read" /\ queue # <<>>
    /\ FullLen > MaxMsgSize
    /\ desc' = [desc EXCEPT !.error = "emsgsize"]
    /\ skb_head' = NoHead
    /\ armed' = FALSE
    /\ stopped' = TRUE
    /\ seq' = seq + Cand
    /\ queue' = Tail(queue)
    /\ pc' = IF queue' = <<>> THEN "end" ELSE "read"
    /\ UNCHANGED <<arrived, copied_seq, need_bytes, fired, work, attached, mem, delivered,
                   eaten>>

\* The length is beyond the maximum: strp_parser_err and strp_abort_strp.
ParserErr ==
    /\ pc = "read" /\ queue # <<>>
    /\ FullLen > MaxMsgSize
    /\ desc' = [desc EXCEPT !.error = "emsgsize"]
    /\ skb_head' = NoHead
    /\ strp_abort_strp
    /\ Return
    /\ UNCHANGED <<tcpVars, need_bytes, fired, work, attached, mem, delivered>>

\* An allocation fails, here or when the head is prepared for appending.
MemFail ==
    /\ pc = "read" /\ queue # <<>>
    /\ mem > 0
    /\ mem' = mem - 1
    /\ desc' = [desc EXCEPT !.error = "enomem"]
    /\ Return
    /\ UNCHANGED <<tcpVars, strpVars, attached, delivered>>

\* The end of tcp_read_sock and of the caller of strp_read_sock.
EndRead ==
    /\ pc = "end" \/ (pc = "read" /\ queue = <<>>)
    /\ copied_seq' = seq
    /\ work' = (work \/ desc.error = "enomem")
    /\ pc' = "idle"
    /\ eaten' = FALSE /\ desc' = NoDesc
    /\ UNCHANGED <<arrived, queue, seq, skb_head, need_bytes, stopped, armed, fired,
                   attached, mem, delivered>>
-----------------------------------------------------------------------------
(* The timer and the release of the psock.                                 *)

\* The one thread of strp_wq takes up the timer, unless it is in do_strp_work.
TimerFires ==
    /\ armed /\ ~fired
    /\ pc \in {"read", "end"} => desc.by # "work"
    /\ armed' = FALSE /\ fired' = TRUE
    /\ UNCHANGED <<tcpVars, skb_head, need_bytes, stopped, work, attached, pc, readVars,
                   mem, delivered>>

\* strp_msg_timeout, once it has the lock.
strp_msg_timeout ==
    /\ pc = "idle" /\ fired
    /\ fired' = FALSE
    /\ strp_abort_strp
    /\ UNCHANGED <<tcpVars, skb_head, need_bytes, work, attached, pc, readVars, mem,
                   delivered>>

\* release_psock: the callbacks are removed and strp_stop called under the lock.
strp_stop ==
    /\ pc = "idle" /\ attached = "yes"
    /\ attached' = "stopped"
    /\ stopped' = TRUE
    /\ UNCHANGED <<tcpVars, skb_head, need_bytes, armed, fired, work, pc, readVars, mem,
                   delivered>>

\* The lock is not held: both work items are cancelled, or waited for.
strp_done ==
    /\ attached = "stopped" /\ pc = "idle" /\ ~fired
    /\ attached' = "done"
    /\ armed' = FALSE /\ work' = FALSE
    /\ skb_head' = NoHead
    /\ UNCHANGED <<tcpVars, need_bytes, stopped, fired, pc, readVars, mem, delivered>>

Next ==
    \/ Arrive \/ Attach \/ strp_data_ready \/ do_strp_work
    \/ NeedHeader \/ NeedBytes \/ Deliver \/ ParserErr \/ MemFail \/ EndRead
    \/ TimerFires \/ strp_msg_timeout \/ strp_stop \/ strp_done

Spec == Init /\ [][Next]_vars

\* A system call, a softirq and a queued work item run to their end.  Nothing
\* obliges a client to send more, or the process to attach or release.
Fairness ==
    WF_vars(\/ strp_data_ready \/ do_strp_work \/ strp_msg_timeout
            \/ NeedHeader \/ NeedBytes \/ Deliver \/ ParserErr \/ EndRead)

FairSpec == Spec /\ Fairness
-----------------------------------------------------------------------------
TypeOK ==
    /\ arrived \in 0..StreamLen /\ seq \in 0..arrived /\ copied_seq \in 0..seq
    /\ queue \in Seq(1..MaxSeg) /\ FoldSeq(+, seq, queue) = arrived
    /\ skb_head.start \in Nat /\ skb_head.start + skb_head.accum_len \in 0..seq
    /\ need_bytes \in Nat
    /\ attached \in {"no", "yes", "stopped", "done"}
    /\ pc \in {"idle", "data_ready", "read", "end"}
    /\ mem \in 0..MemFails

\* The messages given to the scheduler are the messages of the stream, in order,
\* none missing, and the parser has consumed them and the part of the next one it
\* has assembled, however TCP cut the stream, whoever reads, and after failed
\* allocations (strparser.c 168-314).
Framing ==
    /\ \A i \in DOMAIN delivered :
          i \in DOMAIN Lens /\ delivered[i] = [start |-> StartOf(i), len |-> Lens[i]]
    /\ ~stopped /\ skb_head = NoHead => seq = StartOf(Len(delivered) + 1)
    /\ ~stopped /\ skb_head # NoHead =>
          /\ skb_head.start = StartOf(Len(delivered) + 1)
          /\ seq = skb_head.start + skb_head.accum_len

\* need_bytes, because of which strp_data_ready returns without reading, is never
\* more than what the message lacks once no work item is queued to read without
\* that test; otherwise the connection would stall (strparser.c 267-291, 304,
\* 389-397).
NeedBytesBound ==
    pc = "idle" /\ ~work /\ ~stopped /\ need_bytes > 0 =>
        skb_head # NoHead /\ need_bytes <= skb_head.full_len - skb_head.accum_len

\* __strp_recv does not look at stopped, and tcp_read_sock calls it again for the
\* rest of an skb in which it aborted; no message is delivered after the abort
\* (strparser.c 37-71, 229-251).
NoDeliveryAfterStop == [][stopped => delivered' = delivered]_vars

\* A message that has arrived completely is delivered, or the parser has been
\* stopped.
WholeMessageDelivered ==
    \A i \in DOMAIN Lens :
        (attached = "yes" /\ arrived >= StartOf(i + 1)) ~> (Len(delivered) >= i \/ stopped)

\* strp_msg_timeout aborts the connection because "message assembly timed out"
\* (the comment, strparser.c 430): while a message is being assembled.
TimeoutWhileAssembling ==
    [][fired /\ ~fired' /\ ~stopped => skb_head # NoHead]_vars
=============================================================================
