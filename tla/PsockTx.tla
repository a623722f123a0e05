------------------------------ MODULE PsockTx ------------------------------
(***************************************************************************)
(* The send path of one attached connection (plain-tcp build): the workers *)
(* that reply on it in rakaia_sendmsg, the work item rakaia_tx_work, and   *)
(* the TCP layer below.                                                    *)
(*                                                                         *)
(* A sender copies its reply into a private list of skbs, appends the list *)
(* to tx_wait_queue, and tries to become the one thread that moves the     *)
(* wait queue to the TCP write queue; if another thread is at it already   *)
(* the sender relies on that thread and returns.                           *)
(***************************************************************************)
EXTENDS Naturals, Sequences, SequencesExt

CONSTANTS
    Senders,        \* the rakaia sockets that reply on this connection
    Replies,        \* Replies[s]: the messages s sends, in order
    Size,           \* Size[m]: the bytes of message m
    SizeGoal,       \* size_goal: the bytes an skb takes
    MAX_SKB_FRAGS,  \* the page fragments an skb takes
    SndBuf,         \* sk_sndbuf of a rakaia socket, in units of bytes + skbs
    MayFail,        \* whether allocations, copies and early checks can fail
    SeqSpace,       \* 2^32, the sequence numbers
    Isn,            \* write_seq when the connection is attached
    Work,           \* the work item rakaia_tx_work
    NULL

Msgs == UNION {ToSet(Replies[s]) : s \in Senders}
Threads == Senders \cup {Work}

ASSUME TxAssumption ==
    /\ Work \notin Senders /\ NULL \notin Threads
    /\ SizeGoal \in Nat \ {0} /\ MAX_SKB_FRAGS \in Nat \ {0} /\ SndBuf \in Nat
    /\ SeqSpace \in Nat \ {0} /\ Isn \in 0..(SeqSpace - 1)
    /\ MayFail \in BOOLEAN
    /\ \A m \in Msgs : Size[m] \in 1..(SeqSpace - 1)

VARIABLES
    replies,         \* replies[s]: what s has still to send
    cur_msg,         \* cur_msg[s]: skbs of the message being copied
    sk_wmem_queued,  \* sk_wmem_queued[s]: the memory charged to socket s
    tx_wait_queue,   \* skbs of whole messages, under tx_lock
    tx_in_use,       \* the flag the threads exchange
    csk_lock,        \* the owner of the TCP socket, lock_sock(csk)
    sk_write_queue,  \* the skbs TCP has still to transmit
    write_seq,       \* tp->write_seq
    cursor,          \* the skb the owner gives sequence numbers to, or 0; NULL if freed
    wire,            \* the bytes transmitted
    nospace,         \* SOCK_NOSPACE of the TCP socket
    work_pending,    \* rakaia_tx_work is queued
    victim,          \* victim[s]: the skb that s found empty, by its bytes
    lost,            \* history: an skb with data was taken for an empty one
    pc

sendVars == <<replies, cur_msg, sk_wmem_queued>>
tcpVars == <<sk_write_queue, write_seq, cursor, wire>>
removeVars == <<victim, lost>>
vars == <<sendVars, tx_wait_queue, tx_in_use, csk_lock, tcpVars, nospace,
          work_pending, removeVars, pc>>

\* Byte i of message m; the bytes of a whole message.
Bytes(m) == [i \in 1..Size[m] |-> <<m, i>>]

\* Mutated Skb: the copied bytes are not counted.
SkbUncounted(d) == [data |-> d, seq |-> 0, end_seq |-> 0]

\* A queued skb: its bytes and its control block.  While it is copied, seq
\* counts its bytes and end_seq is zero.
Skb(d) == [data |-> d, seq |-> Len(d), end_seq |-> 0]
Data(q) == FlattenSeq([i \in DOMAIN q |-> q[i].data])

Copied(s) == Len(Data(cur_msg[s]))
Charge(q) == Len(q) + Len(Data(q))

Init ==
    /\ replies = Replies
    /\ cur_msg = [s \in Senders |-> <<>>]
    /\ sk_wmem_queued = [s \in Senders |-> 0]
    /\ tx_wait_queue = <<>>
    /\ tx_in_use = 0
    /\ csk_lock = NULL
    /\ sk_write_queue = <<>>
    /\ write_seq = Isn
    /\ cursor = 0
    /\ wire = <<>>
    /\ nospace = FALSE
    /\ work_pending = FALSE
    /\ victim = [s \in Senders |-> NULL]
    /\ lost = FALSE
    /\ pc = [t \in Threads |-> "idle"]

GoTo(t, from, to) ==
    /\ pc[t] = from
    /\ pc' = [pc EXCEPT ![t] = to]
-----------------------------------------------------------------------------
(* rakaia_sendmsg: accumulate.                                             *)

SendStart(s) ==
    /\ GoTo(s, "idle", "copy")
    /\ replies[s] # <<>>
    /\ UNCHANGED <<sendVars, tx_wait_queue, tx_in_use, csk_lock, tcpVars, nospace,
                   work_pending, removeVars>>

\* The socket has an error, or last_psock is gone: out_error.
SendRejected(s) ==
    /\ MayFail
    /\ pc[s] = "idle" /\ replies[s] # <<>>
    /\ replies' = [replies EXCEPT ![s] = Tail(@)]
    /\ UNCHANGED <<cur_msg, sk_wmem_queued, tx_wait_queue, tx_in_use, csk_lock,
                   tcpVars, nospace, work_pending, pc, removeVars>>

\* skb_peek returns the first skb of cur_msg.  Data goes there if there is room
\* and a fragment to hold it: the current one grows if the first skb is also the
\* last one filled and the page goes on, else a new one is needed.
HeadFits(s, merge) ==
    /\ cur_msg[s] # <<>>
    /\ Len(Head(cur_msg[s]).data) < SizeGoal
    /\ merge => Len(cur_msg[s]) = 1
    /\ merge \/ Head(cur_msg[s]).frags < MAX_SKB_FRAGS

\* The other way to leave the tests of an iteration: label new_segment.
NewSegment(s, merge) ==
    cur_msg[s] # <<>> =>
       \/ Len(Head(cur_msg[s]).data) >= SizeGoal
       \/ ~merge /\ Head(cur_msg[s]).frags >= MAX_SKB_FRAGS

\* The first n bytes of what is left of the message of s.
Chunk(s, n) == SubSeq(Bytes(Head(replies[s])), Copied(s) + 1, Copied(s) + n)

\* cur_msg[s] after one iteration that copies n bytes.
Filled(s, n, merge) ==
    IF HeadFits(s, merge)
    THEN [cur_msg[s] EXCEPT ![1].data = @ \o Chunk(s, n),
                            ![1].frags = IF merge THEN @ ELSE @ + 1]
    ELSE Append(cur_msg[s], [data |-> Chunk(s, n), frags |-> 1])

\* The bytes one iteration can copy: what the skb takes, what the message has,
\* and what the page has left, which can be anything.
CanCopy(s, n, merge) ==
    /\ n <= Size[Head(replies[s])] - Copied(s)
    /\ \/ HeadFits(s, merge) /\ n <= SizeGoal - Len(Head(cur_msg[s]).data)
       \/ NewSegment(s, merge) /\ n <= SizeGoal /\ sk_wmem_queued[s] < SndBuf

\* One iteration of the loop, more to come.
CopyChunk(s) ==
    /\ pc[s] = "copy"
    /\ \E n \in 1..SizeGoal, merge \in BOOLEAN :
          /\ CanCopy(s, n, merge)
          /\ Copied(s) + n < Size[Head(replies[s])]
          /\ cur_msg' = [cur_msg EXCEPT ![s] = Filled(s, n, merge)]
          /\ sk_wmem_queued' = [sk_wmem_queued EXCEPT
                ![s] = @ + Charge(cur_msg'[s]) - Charge(cur_msg[s])]
    /\ UNCHANGED <<replies, tx_wait_queue, tx_in_use, csk_lock, tcpVars, nospace,
                   work_pending, pc, removeVars>>

\* Mutated CopyLast: skb_queue_splice instead of skb_queue_splice_tail.
CopyLastAtHead(s) ==
    /\ GoTo(s, "copy", "try")
    /\ \E n \in 1..SizeGoal, merge \in BOOLEAN :
          /\ CanCopy(s, n, merge)
          /\ Copied(s) + n = Size[Head(replies[s])]
          /\ tx_wait_queue' =
                [i \in DOMAIN Filled(s, n, merge) |-> Skb(Filled(s, n, merge)[i].data)]
                \o tx_wait_queue
    /\ sk_wmem_queued' = [sk_wmem_queued EXCEPT ![s] = @ - Charge(cur_msg[s])]
    /\ cur_msg' = [cur_msg EXCEPT ![s] = <<>>]
    /\ replies' = [replies EXCEPT ![s] = Tail(@)]
    /\ UNCHANGED <<tx_in_use, csk_lock, tcpVars, nospace, work_pending, removeVars>>

\* The last iteration: the memory is uncharged and, under tx_lock, the message
\* spliced to the wait queue.
CopyLast(s) ==
    /\ GoTo(s, "copy", "try")
    /\ \E n \in 1..SizeGoal, merge \in BOOLEAN :
          /\ CanCopy(s, n, merge)
          /\ Copied(s) + n = Size[Head(replies[s])]
          /\ tx_wait_queue' = tx_wait_queue \o
                [i \in DOMAIN Filled(s, n, merge) |-> Skb(Filled(s, n, merge)[i].data)]
    /\ sk_wmem_queued' = [sk_wmem_queued EXCEPT ![s] = @ - Charge(cur_msg[s])]
    /\ cur_msg' = [cur_msg EXCEPT ![s] = <<>>]
    /\ replies' = [replies EXCEPT ![s] = Tail(@)]
    /\ UNCHANGED <<tx_in_use, csk_lock, tcpVars, nospace, work_pending, removeVars>>

\* tcp_remove_empty_skb(csk), called without the socket lock, in two steps: the
\* test of the last skb of the write queue, and its removal if it looks empty.
tcp_remove_empty_skb(s) ==
    LET q == sk_write_queue
    IN  IF q # <<>> /\ q[Len(q)].seq = q[Len(q)].end_seq
        THEN /\ pc' = [pc EXCEPT ![s] = "remove"]
             /\ victim' = [victim EXCEPT ![s] = q[Len(q)].data]
        ELSE /\ pc' = [pc EXCEPT ![s] = "idle"]
             /\ UNCHANGED victim

\* The skb is unlinked and freed, while the owner of the socket may be at work on
\* it.  One that has left the write queue meanwhile is linked elsewhere, or freed.
RemoveSkb(s) ==
    /\ pc[s] = "remove"
    /\ \/ \E i \in DOMAIN sk_write_queue :
             /\ sk_write_queue[i].data = victim[s]
             /\ sk_write_queue' = RemoveAt(sk_write_queue, i)
             /\ cursor' = IF cursor = NULL \/ cursor < i THEN cursor
                          ELSE IF cursor = i THEN NULL ELSE cursor - 1
             /\ pc' = [pc EXCEPT ![s] = "idle"]
       \/ /\ \A i \in DOMAIN sk_write_queue : sk_write_queue[i].data # victim[s]
          /\ pc' = [pc EXCEPT ![s] = "fault"]
          /\ UNCHANGED <<sk_write_queue, cursor>>
    /\ victim' = [victim EXCEPT ![s] = NULL]
    /\ lost' = TRUE
    /\ UNCHANGED <<sendVars, tx_wait_queue, tx_in_use, csk_lock, write_seq, wire, nospace,
                   work_pending>>

\* wait_for_space, or a fault of the copy.  sk_stream_wait_memory never waits,
\* the timeout of a nonblocking call is zero.  An skb allocated in the failing
\* iteration is in cur_msg.  Only if bytes were copied are the skbs freed and the
\* memory uncharged.  The socket does not pull.
CopyFails(s) ==
    /\ pc[s] = "copy"
    /\ \/ MayFail
       \/ ~\E n \in 1..SizeGoal, merge \in BOOLEAN : CanCopy(s, n, merge)
    /\ \E allocated \in BOOLEAN, full \in BOOLEAN :
          /\ allocated => sk_wmem_queued[s] < SndBuf /\ \E merge \in BOOLEAN : NewSegment(s, merge)
          /\ sk_wmem_queued' = [sk_wmem_queued EXCEPT
                ![s] = IF Copied(s) > 0 THEN @ - Charge(cur_msg[s])
                                        ELSE @ + (IF allocated THEN 1 ELSE 0)]
          /\ full \/ MayFail
          /\ nospace' = (nospace \/ full)
    /\ cur_msg' = [cur_msg EXCEPT ![s] = <<>>]
    /\ replies' = [replies EXCEPT ![s] = Tail(@)]
    /\ tcp_remove_empty_skb(s)
    /\ UNCHANGED <<tx_wait_queue, tx_in_use, csk_lock, tcpVars, work_pending, lost>>
-----------------------------------------------------------------------------
(* try_send_from_psock, run by thread t.                                   *)

\* Mutated TryAcquire: atomic_set instead of atomic_cmpxchg.
TryAcquireAlways(t) ==
    /\ GoTo(t, "try", "acquired")
    /\ tx_in_use' = 1
    /\ UNCHANGED <<sendVars, tx_wait_queue, csk_lock, tcpVars, nospace, work_pending, removeVars>>

\* atomic_cmpxchg(&psock->tx_in_use, 0, 1).
TryAcquire(t) ==
    /\ pc[t] = "try"
    /\ pc' = [pc EXCEPT ![t] = IF tx_in_use = 0 THEN "acquired" ELSE "idle"]
    /\ tx_in_use' = 1
    /\ UNCHANGED <<sendVars, tx_wait_queue, csk_lock, tcpVars, nospace, work_pending, removeVars>>

LockSock(t) ==
    /\ GoTo(t, "acquired", "loop")
    /\ csk_lock = NULL
    /\ csk_lock' = t
    /\ UNCHANGED <<sendVars, tx_wait_queue, tx_in_use, tcpVars, nospace, work_pending, removeVars>>

\* Mutated Splice: the loop over the skbs starts at the head of the write queue.
SpliceFromFirst(t) ==
    /\ pc[t] = "loop"
    /\ \/ /\ tx_wait_queue = <<>>
          /\ pc' = [pc EXCEPT ![t] = "clear"]
          /\ UNCHANGED <<tx_wait_queue, sk_write_queue, cursor>>
       \/ /\ tx_wait_queue # <<>>
          /\ sk_write_queue' = sk_write_queue \o tx_wait_queue
          /\ cursor' = 1
          /\ tx_wait_queue' = <<>>
          /\ pc' = [pc EXCEPT ![t] = "end_seq"]
    /\ UNCHANGED <<sendVars, tx_in_use, csk_lock, write_seq, wire, nospace, work_pending, removeVars>>

\* Under tx_lock: leave the loop if the wait queue is empty, else splice it.
Splice(t) ==
    /\ pc[t] = "loop"
    /\ \/ /\ tx_wait_queue = <<>>
          /\ pc' = [pc EXCEPT ![t] = "clear"]
          /\ UNCHANGED <<tx_wait_queue, sk_write_queue, cursor>>
       \/ /\ tx_wait_queue # <<>>
          /\ sk_write_queue' = sk_write_queue \o tx_wait_queue
          /\ cursor' = Len(sk_write_queue) + 1
          /\ tx_wait_queue' = <<>>
          /\ pc' = [pc EXCEPT ![t] = "end_seq"]
    /\ UNCHANGED <<sendVars, tx_in_use, csk_lock, write_seq, wire, nospace, work_pending, removeVars>>

\* The loop over the spliced skbs: the two stores to the control block are two
\* steps, for tcp_remove_empty_skb reads it without the lock.
StoreEndSeq(t) ==
    /\ GoTo(t, "end_seq", "seq")
    /\ cursor # NULL
    /\ sk_write_queue' = [sk_write_queue EXCEPT
          ![cursor].end_seq = (write_seq + sk_write_queue[cursor].seq) % SeqSpace]
    /\ UNCHANGED <<sendVars, tx_wait_queue, tx_in_use, csk_lock, write_seq, cursor, wire,
                   nospace, work_pending, removeVars>>

StoreSeq(t) ==
    /\ pc[t] = "seq"
    /\ cursor # NULL
    /\ sk_write_queue' = [sk_write_queue EXCEPT ![cursor].seq = write_seq]
    /\ write_seq' = sk_write_queue[cursor].end_seq
    /\ IF cursor = Len(sk_write_queue)
       THEN cursor' = 0 /\ pc' = [pc EXCEPT ![t] = "push"]
       ELSE cursor' = cursor + 1 /\ pc' = [pc EXCEPT ![t] = "end_seq"]
    /\ UNCHANGED <<sendVars, tx_wait_queue, tx_in_use, csk_lock, wire, nospace, work_pending, removeVars>>

\* The skb was freed under the loop: its next pointer is NULL, or another's.
StoreFreed(t) ==
    /\ pc[t] \in {"end_seq", "seq"}
    /\ cursor = NULL
    /\ pc' = [pc EXCEPT ![t] = "oops"]
    /\ UNCHANGED <<sendVars, tx_wait_queue, tx_in_use, csk_lock, tcpVars, nospace, work_pending,
                   removeVars>>

\* TCP transmits some skbs of the write queue.
Transmit(n) ==
    /\ wire' = wire \o Data(SubSeq(sk_write_queue, 1, n))
    /\ sk_write_queue' = SubSeq(sk_write_queue, n + 1, Len(sk_write_queue))

\* tcp_push and sk_flush_backlog, then the next round.
TcpPush(t) ==
    /\ GoTo(t, "push", "loop")
    /\ \E n \in 0..Len(sk_write_queue) : Transmit(n)
    /\ UNCHANGED <<sendVars, tx_wait_queue, tx_in_use, csk_lock, write_seq, cursor, nospace,
                   work_pending, removeVars>>

\* atomic_set(&psock->tx_in_use, 0), with the socket still locked.
Clear(t) ==
    /\ GoTo(t, "clear", "release")
    /\ tx_in_use' = 0
    /\ UNCHANGED <<sendVars, tx_wait_queue, csk_lock, tcpVars, nospace, work_pending, removeVars>>

\* Mutated ReleaseSock: release_sock is missing.
ReleaseSockKeeps(t) ==
    /\ GoTo(t, "release", "idle")
    /\ UNCHANGED <<sendVars, tx_wait_queue, tx_in_use, csk_lock, tcpVars, nospace, work_pending, removeVars>>

ReleaseSock(t) ==
    /\ GoTo(t, "release", "idle")
    /\ csk_lock' = NULL
    /\ UNCHANGED <<sendVars, tx_wait_queue, tx_in_use, tcpVars, nospace, work_pending, removeVars>>
-----------------------------------------------------------------------------
(* The layers around it.                                                   *)

\* An ACK that finds the socket unlocked lets TCP transmit one more skb.
AckXmit ==
    /\ csk_lock = NULL /\ sk_write_queue # <<>>
    /\ Transmit(1)
    /\ UNCHANGED <<sendVars, tx_wait_queue, tx_in_use, csk_lock, write_seq, cursor, nospace,
                   work_pending, pc, removeVars>>

\* TCP calls sk_write_space of a socket that ran out of space: queue_work.
psock_write_space ==
    /\ nospace
    /\ work_pending' = TRUE
    /\ UNCHANGED <<sendVars, tx_wait_queue, tx_in_use, csk_lock, tcpVars, nospace, pc, removeVars>>

rakaia_tx_work ==
    /\ GoTo(Work, "idle", "try")
    /\ work_pending
    /\ work_pending' = FALSE
    /\ UNCHANGED <<sendVars, tx_wait_queue, tx_in_use, csk_lock, tcpVars, nospace, removeVars>>

try_send_from_psock(t) ==
    \/ TryAcquire(t) \/ LockSock(t) \/ Splice(t) \/ StoreEndSeq(t) \/ StoreSeq(t)
    \/ StoreFreed(t) \/ TcpPush(t) \/ Clear(t) \/ ReleaseSock(t)

rakaia_sendmsg(s) ==
    \/ SendStart(s) \/ SendRejected(s) \/ CopyChunk(s) \/ CopyLast(s) \/ CopyFails(s)
    \/ RemoveSkb(s)

Next ==
    \/ \E s \in Senders : rakaia_sendmsg(s)
    \/ \E t \in Threads : try_send_from_psock(t)
    \/ AckXmit \/ psock_write_space \/ rakaia_tx_work

Spec == Init /\ [][Next]_vars

\* A thread inside rakaia_sendmsg or try_send_from_psock is scheduled, and a
\* queued work item runs.  Nothing obliges a worker to send another reply.
Fairness ==
    /\ \A s \in Senders : WF_vars(CopyChunk(s) \/ CopyLast(s) \/ CopyFails(s) \/ RemoveSkb(s))
    /\ \A t \in Threads : WF_vars(try_send_from_psock(t))
    /\ WF_vars(rakaia_tx_work)

FairSpec == Spec /\ Fairness
-----------------------------------------------------------------------------
SendPC == {"idle", "copy", "remove", "fault"}
TryPC ==
    {"try", "acquired", "loop", "end_seq", "seq", "oops", "push", "clear", "release"}

TypeOK ==
    /\ \A s \in Senders : \A i \in DOMAIN cur_msg[s] :
          Len(cur_msg[s][i].data) \in 1..SizeGoal /\ cur_msg[s][i].frags \in 1..MAX_SKB_FRAGS
    /\ sk_wmem_queued \in [Senders -> Nat]
    /\ tx_in_use \in {0, 1}
    /\ csk_lock \in Threads \cup {NULL}
    /\ write_seq \in 0..(SeqSpace - 1)
    /\ cursor \in (0..Len(sk_write_queue)) \cup {NULL}
    /\ \A i \in DOMAIN sk_write_queue :
          sk_write_queue[i].seq \in 0..(SeqSpace - 1) /\ sk_write_queue[i].end_seq \in 0..(SeqSpace - 1)
    /\ nospace \in BOOLEAN /\ work_pending \in BOOLEAN
    /\ pc \in [Threads -> SendPC \cup TryPC]

\* One thread at a time is between the cmpxchg and the clearing of tx_in_use, and
\* the TCP socket is locked by the thread inside the loop; two threads meet in
\* try_send_from_psock because the flag is cleared before release_sock
\* (rakaiasock.c 465-512).
TxExclusive ==
    /\ \A t, u \in Threads :
          t # u /\ pc[t] \in TryPC \ {"try", "release"} => pc[u] \in SendPC \cup {"try", "release"}
    /\ tx_in_use = 1 <=> \E t \in Threads : pc[t] \in TryPC \ {"try", "release"}
    /\ \A t \in Threads :
          csk_lock = t <=> pc[t] \in TryPC \ {"try", "acquired"}

\* The skbs of the write queue that have been given sequence numbers are
\* contiguous modulo 2^32, from the bytes transmitted up to write_seq, though
\* the senders appended them without knowing write_seq (rakaiasock.c 485-494);
\* nothing is claimed once an skb with data was taken for an empty one.
SeqContiguous ==
  ~lost =>
    LET n == IF cursor = 0 THEN Len(sk_write_queue) ELSE cursor - 1
        SeqAt(i) == (Isn + Len(wire) + Len(Data(SubSeq(sk_write_queue, 1, i)))) % SeqSpace
    IN  /\ \A i \in 1..n : /\ sk_write_queue[i].seq = SeqAt(i - 1)
                           /\ sk_write_queue[i].end_seq = SeqAt(i)
        /\ write_seq = SeqAt(n)

\* A failed rakaia_sendmsg takes an skb with data for an empty one only if the
\* first byte of the skb has sequence number 0 (tcp_send.c 205-209).  The skb counts
\* its bytes in seq until the owner of the socket stores end_seq and then seq
\* (rakaiasock.c 485-494), and a failing sender compares the two without the lock.
EmptyOnlyAtZero ==
  ~lost =>
    \A s \in Senders : pc[s] = "remove" =>
        LET stream == wire \o Data(sk_write_queue)
        IN  \E p \in DOMAIN stream : /\ stream[p] = victim[s][1]
                                     /\ (Isn + p - 1) % SeqSpace = 0

Log == INSTANCE TxLog
         WITH log <- wire \o Data(sk_write_queue) \o Data(tx_wait_queue),
              sent <- Len(wire)

\* A reply enters the byte stream whole, once and uninterrupted by another one,
\* or not at all; TCP transmits the stream in order.  This covers the reuse of
\* the first skb, the splices and the failures (rakaiasock.c 578-756), up to the
\* moment when an skb with data is taken for an empty one: EmptyOnlyAtZero says
\* when that can be.
LogSpec == Log!Init /\ [][~lost' => Log!Next]_(Log!vars)

\* try_send_from_psock moves all skbs to the TCP queue: when no thread is in it or
\* about to call it, the wait queue is empty (the comments, rakaiasock.c 448-450
\* and 474).
WaitQueueDrained ==
    (\A t \in Threads : pc[t] \in SendPC) /\ ~work_pending => tx_wait_queue = <<>>

\* A failed rakaia_sendmsg removes the skb it added and could not fill "to consume
\* less memory" (the comment on tcp_remove_empty_skb, tcp_send.c 199-204): nothing
\* stays charged to a socket whose worker has left rakaia_sendmsg.
EmptySkbRemoved == \A s \in Senders : pc[s] # "copy" => sk_wmem_queued[s] = 0

\* tcp_remove_empty_skb removes an empty skb only (the comment on it, tcp_send.c
\* 199-204): no step makes bytes of the stream disappear.
BytesKept ==
    [][Len(Data(tx_wait_queue)) + Len(Data(sk_write_queue)) + Len(wire)
       <= Len(Data(tx_wait_queue')) + Len(Data(sk_write_queue')) + Len(wire')]_vars

\* A worker that replies gets out of rakaia_sendmsg, whoever else uses the
\* connection: no two threads wait for each other between the flag and the socket
\* lock.
SendReturns == \A s \in Senders : pc[s] = "copy" ~> (pc[s] = "idle" \/ lost)

\* A reply left behind in the wait queue is sent by the next thread that enters
\* try_send_from_psock with the flag clear.
DrainedByNextTry ==
    \A m \in Msgs :
        LET Waits == \E i \in DOMAIN tx_wait_queue : tx_wait_queue[i].data[1][1] = m
        IN  (Waits /\ tx_in_use = 0 /\ \E t \in Threads : pc[t] = "try") ~> ~Waits
=============================================================================
