----------------------------- MODULE PoolServer -----------------------------
(***************************************************************************)
(* One connection of the thread-pool server (common-linux-pool.c).  I/O    *)
(* threads wait on a shared level-triggered epoll and read requests into   *)
(* the job ring; workers answer them through the inbox of the connection.  *)
(* Whoever holds io_owned reads and flushes; who finds it held sets        *)
(* io_pending and, if a worker, asks for EPOLLOUT.                         *)
(*                                                                         *)
(* A thread is a stack of labels: its next step on top, then its return    *)
(* addresses.  There are several I/O threads: a closed connection is never *)
(* freed (release_retired_conns).                                          *)
(***************************************************************************)
EXTENDS Naturals, Sequences, SequencesExt, FiniteSets

CONSTANTS
    IoThreads,      \* the I/O threads
    Workers,        \* the worker threads
    Pieces,         \* what the client sends: <<id, whether the request ends>>
    Bad,            \* the requests with a bad magic or opcode
    MayClose,       \* whether the client may go away
    RespLen,        \* the bytes of a response
    SndBuf,         \* the bytes the socket takes before EAGAIN
    BUFSIZE,        \* the pieces conn->buf holds
    RING_CAPACITY,  \* the cells of the job ring
    NULL

Ids == {pc[1] : pc \in ToSet(Pieces)}
Threads == IoThreads \cup Workers

ASSUME PoolAssumption ==
    /\ {RespLen, SndBuf, BUFSIZE, RING_CAPACITY} \subseteq Nat \ {0}
    /\ Cardinality(IoThreads) > 1 /\ IoThreads \cap Workers = {}
    /\ Bad \subseteq Ids /\ NULL \notin Ids /\ MayClose \in BOOLEAN

VARIABLES
    unsent,       \* the pieces the client has yet to send
    unread,       \* the pieces in the receive buffer of the socket
    buf,          \* conn->buf: the pieces read and not consumed
    peer,         \* "open", "fin" or "reset"
    buffered,     \* the bytes in the send buffer
    wire,         \* the bytes sent: <<id, i>>
    closed, fd,   \* fd: whether conn->fd is open; FALSE is -1
    io_owned, io_pending,
    armed,        \* conn->epollout_armed
    epollout,     \* whether the shared epoll watches for EPOLLOUT
    inbox,        \* the inbox, newest first
    resp,         \* resp_head: responses [id, sent]
    state,        \* the request being read, or NULL
    ring,         \* the job ring: the jobs in the order of their slots
    job,          \* job[t]: the job t is about to push, or answers
    want,         \* want[t]: the argument of update_conn_events
    stack,        \* stack[t]
    taken         \* history: a thread cleared io_pending and did not get io_owned

netVars == <<unsent, unread, peer, buffered, wire>>
ioVars == <<io_owned, io_pending>>
evVars == <<armed, epollout, want>>
respVars == <<inbox, resp>>
jobVars == <<buf, state, ring, job>>
vars == <<netVars, closed, fd, ioVars, evVars, respVars, jobVars, stack, taken>>

Init ==
    /\ unsent = Pieces /\ unread = <<>> /\ peer = "open"
    /\ buffered = 0 /\ wire = <<>>
    /\ closed = FALSE /\ fd = TRUE
    /\ io_owned = FALSE /\ io_pending = FALSE
    /\ armed = FALSE /\ epollout = FALSE /\ want = [t \in Threads |-> FALSE]
    /\ inbox = <<>> /\ resp = <<>>
    /\ buf = <<>> /\ state = NULL /\ ring = <<>> /\ job = [t \in Threads |-> NULL]
    /\ stack = [t \in Threads |-> <<"idle">>] /\ taken = FALSE

\* t is at l; it goes on at ls; it returns.
At(t, l) == Head(stack[t]) = l
Goto(t, ls) == stack' = [stack EXCEPT ![t] = ls \o Tail(@)]
Return(t) == Goto(t, <<>>)

\* send and recv fail.
Broken == ~fd \/ peer = "reset"

\* update_conn_events(conn, w), then ls.
Update(t, w, ls) == Goto(t, <<"check">> \o ls) /\ want' = [want EXCEPT ![t] = w]
-----------------------------------------------------------------------------
(* The client, until the connection is closed.                             *)

ClientSend ==
    /\ unsent # <<>> /\ peer = "open" /\ fd
    /\ unsent' = Tail(unsent)
    /\ unread' = Append(unread, Head(unsent))
    /\ UNCHANGED <<peer, buffered, wire, closed, fd, ioVars, evVars, respVars, jobVars,
                   stack, taken>>

ClientReads ==
    /\ buffered > 0 /\ fd
    /\ buffered' = 0
    /\ UNCHANGED <<unsent, unread, peer, wire, closed, fd, ioVars, evVars, respVars,
                   jobVars, stack, taken>>

ClientCloses ==
    /\ MayClose /\ peer = "open" /\ fd
    /\ peer' \in {"fin", "reset"}
    /\ UNCHANGED <<unsent, unread, buffered, wire, closed, fd, ioVars, evVars, respVars,
                   jobVars, stack, taken>>
-----------------------------------------------------------------------------
(* io_thread_main.                                                         *)

\* epoll_wait: several threads may return with the same event.
EpollWait(t) ==
    /\ At(t, "idle") /\ fd
    /\ \/ peer = "reset" /\ Goto(t, <<"error", "idle">>)
       \/ /\ peer # "reset"
          /\ unread # <<>> \/ peer = "fin" \/ (epollout /\ buffered < SndBuf)
          /\ Goto(t, <<"event", "idle">>)
    /\ UNCHANGED <<netVars, closed, fd, ioVars, evVars, respVars, jobVars, taken>>

\* EPOLLERR or EPOLLHUP: close, or leave it to the owner.
IoError(t) ==
    /\ At(t, "error")
    /\ IF ~fd THEN Return(t) /\ UNCHANGED ioVars
       ELSE IF io_owned
            THEN Return(t) /\ io_pending' = TRUE /\ UNCHANGED io_owned
            ELSE /\ Goto(t, <<"close", "release">>)
                 /\ io_owned' = TRUE /\ UNCHANGED io_pending
    /\ UNCHANGED <<netVars, closed, fd, evVars, respVars, jobVars, taken>>

\* schedule_conn_drive.
IoEvent(t) ==
    /\ At(t, "event")
    /\ IF fd THEN Goto(t, <<"acquire">>) /\ io_pending' = TRUE
             ELSE Return(t) /\ UNCHANGED io_pending
    /\ UNCHANGED <<netVars, closed, fd, io_owned, evVars, respVars, jobVars, taken>>

IoAcquire(t) ==
    /\ At(t, "acquire")
    /\ IF io_owned THEN Return(t) ELSE Goto(t, <<"drive", "release", "recheck">>)
    /\ io_owned' = TRUE
    /\ UNCHANGED <<netVars, closed, fd, io_pending, evVars, respVars, jobVars, taken>>
-----------------------------------------------------------------------------
(* drive_conn, and what flush_owned_conn_from_worker has in common with it. *)

\* Mutant: the inbox is appended as it is, newest first.
drain_inbox_lifo(t) ==
    /\ At(t, "drive") \/ At(t, "answer")
    /\ io_pending' = FALSE
    /\ inbox' = <<>>
    /\ resp' = resp \o [i \in DOMAIN inbox |-> [id |-> inbox[i], sent |-> 0]]
    /\ Goto(t, IF At(t, "drive") THEN <<"flush", "reads">> ELSE <<"flush">>)
    /\ UNCHANGED <<netVars, closed, fd, io_owned, evVars, jobVars, taken>>

\* io_pending is cleared and drain_inbox empties the inbox, oldest first.  A thread at
\* "drive" goes through a whole round, one at "answer" only flushes.
drain_inbox(t) ==
    /\ At(t, "drive") \/ At(t, "answer")
    /\ io_pending' = FALSE
    /\ inbox' = <<>>
    /\ resp' = resp \o Reverse([i \in DOMAIN inbox |-> [id |-> inbox[i], sent |-> 0]])
    /\ Goto(t, IF At(t, "drive") THEN <<"flush", "reads">> ELSE <<"flush">>)
    /\ UNCHANGED <<netVars, closed, fd, io_owned, evVars, jobVars, taken>>

\* read_more_into_buffer, for the header of the next request: recv until EAGAIN or the
\* buffer is full.  The end of the stream is an error, whatever was read before it.
read_more_into_buffer(t) ==
    LET n == IF Len(unread) < BUFSIZE THEN Len(unread) ELSE BUFSIZE
    IN  /\ At(t, "reads") /\ state = NULL /\ buf = <<>> /\ ~Broken /\ unread # <<>>
        /\ peer = "open" \/ n = BUFSIZE
        /\ buf' = SubSeq(unread, 1, n)
        /\ unread' = SubSeq(unread, n + 1, Len(unread))
        /\ UNCHANGED <<unsent, peer, buffered, wire, closed, fd, ioVars, evVars, respVars,
                       state, ring, job, stack, taken>>

\* process_conn_reads takes the next piece from the buffer, or the rest of a request from
\* the socket; with the last piece of a request it has a job.
Read(t) ==
    LET q == IF buf = <<>> THEN unread ELSE buf
        id == Head(q)[1]
        last == Head(q)[2]
    IN  /\ At(t, "reads") /\ q # <<>> /\ id \notin Bad
        /\ buf = <<>> => state # NULL /\ ~Broken
        /\ IF buf = <<>> THEN unread' = Tail(unread) /\ UNCHANGED buf
                         ELSE buf' = Tail(buf) /\ UNCHANGED unread
        /\ state' = IF last THEN NULL ELSE id
        /\ job' = [job EXCEPT ![t] = IF last THEN id ELSE @]
        /\ Goto(t, IF last THEN <<"push", "reads">> ELSE <<"reads">>)
        /\ UNCHANGED <<unsent, peer, buffered, wire, closed, fd, ioVars, evVars, respVars,
                       ring, taken>>

\* A failed recv, the end of the stream, or a bad header.
ReadFails(t) ==
    /\ At(t, "reads")
    /\ \/ buf = <<>> /\ Broken
       \/ /\ buf = <<>> /\ peer = "fin"
          /\ unread = <<>> \/ (state = NULL /\ Len(unread) < BUFSIZE)
       \/ buf # <<>> /\ Head(buf)[1] \in Bad
    /\ Goto(t, <<"close">>)
    /\ UNCHANGED <<netVars, closed, fd, ioVars, evVars, respVars, jobVars, taken>>

\* EAGAIN; then drive_conn goes round again if io_pending was set meanwhile.
ReadDone(t) ==
    /\ At(t, "reads") /\ fd /\ peer = "open" /\ unread = <<>> /\ buf = <<>>
    /\ io_pending' = FALSE
    /\ Goto(t, IF io_pending THEN <<"drive">> ELSE <<>>)
    /\ UNCHANGED <<netVars, closed, fd, io_owned, evVars, respVars, jobVars, taken>>

\* enqueue_job: job_ring_push spins while the ring is full.
Push(t) ==
    /\ At(t, "push") /\ Len(ring) < RING_CAPACITY
    /\ ring' = Append(ring, job[t])
    /\ job' = [job EXCEPT ![t] = NULL]
    /\ Return(t)
    /\ UNCHANGED <<netVars, closed, fd, ioVars, evVars, respVars, buf, state, taken>>

\* drive_owned_conn_until_idle, and the end of flush_owned_conn_from_worker.
release_conn_io(t) ==
    /\ At(t, "release")
    /\ io_owned' = FALSE
    /\ Return(t)
    /\ UNCHANGED <<netVars, closed, fd, io_pending, evVars, respVars, jobVars, taken>>

Recheck(t) ==
    /\ At(t, "recheck") \/ At(t, "recheck_w")
    /\ io_pending' = FALSE
    /\ Goto(t, IF ~io_pending THEN <<>>
               ELSE IF At(t, "recheck") THEN <<"retry">> ELSE <<"retry_w">>)
    /\ UNCHANGED <<netVars, closed, fd, io_owned, evVars, respVars, jobVars, taken>>

Retry(t) ==
    /\ At(t, "retry") \/ At(t, "retry_w")
    /\ io_owned' = TRUE
    /\ \/ ~io_owned /\ Goto(t, <<"drive", "release", "recheck">>) /\ UNCHANGED want
       \/ io_owned /\ At(t, "retry") /\ Return(t) /\ UNCHANGED want
       \/ io_owned /\ At(t, "retry_w") /\ Update(t, TRUE, <<>>)
    /\ taken' = (taken \/ io_owned)
    /\ UNCHANGED <<netVars, closed, fd, io_pending, armed, epollout, respVars, jobVars>>
-----------------------------------------------------------------------------
(* flush_conn_responses.                                                   *)

Flush(t) ==
    LET r == Head(resp)
        n == IF RespLen - r.sent <= SndBuf - buffered
             THEN RespLen - r.sent ELSE SndBuf - buffered
    IN  /\ At(t, "flush") /\ ~Broken /\ resp # <<>> /\ buffered < SndBuf
        /\ wire' = wire \o [i \in 1..n |-> <<r.id, r.sent + i>>]
        /\ buffered' = buffered + n
        /\ resp' = IF r.sent + n < RespLen
                   THEN <<[r EXCEPT !.sent = @ + n]>> \o Tail(resp) ELSE Tail(resp)
        /\ UNCHANGED <<unsent, unread, peer, closed, fd, ioVars, evVars, inbox, jobVars,
                       stack, taken>>

\* All is sent, or EAGAIN.
FlushStops(t) ==
    /\ At(t, "flush")
    /\ \/ resp = <<>> /\ Update(t, FALSE, <<>>)
       \/ resp # <<>> /\ ~Broken /\ buffered = SndBuf /\ Update(t, TRUE, <<>>)
    /\ UNCHANGED <<netVars, closed, fd, ioVars, armed, epollout, respVars, jobVars, taken>>

\* An error: close_conn, and drive_conn returns.
FlushFails(t) ==
    /\ At(t, "flush") /\ resp # <<>> /\ Broken
    /\ stack' = [stack EXCEPT ![t] = <<"close">> \o
                    SelectSeq(Tail(@), LAMBDA l : l # "reads")]
    /\ UNCHANGED <<netVars, closed, fd, ioVars, evVars, respVars, jobVars, taken>>
-----------------------------------------------------------------------------
(* update_conn_events and close_conn.                                      *)

Check(t) ==
    /\ At(t, "check")
    /\ IF closed \/ ~fd \/ armed = want[t]
       THEN Return(t) /\ want' = [want EXCEPT ![t] = FALSE]
       ELSE Goto(t, <<"arm">>) /\ UNCHANGED want
    /\ UNCHANGED <<netVars, closed, fd, ioVars, armed, epollout, respVars, jobVars, taken>>

Arm(t) ==
    /\ At(t, "arm")
    /\ armed' = want[t]
    /\ Goto(t, <<"ctl">>)
    /\ UNCHANGED <<netVars, closed, fd, ioVars, want, epollout, respVars, jobVars, taken>>

epoll_ctl(t) ==
    /\ At(t, "ctl")
    /\ epollout' = (fd /\ want[t])
    /\ want' = [want EXCEPT ![t] = FALSE]
    /\ Return(t)
    /\ UNCHANGED <<netVars, closed, fd, ioVars, armed, respVars, jobVars, taken>>

Close(t) ==
    /\ At(t, "close")
    /\ IF fd THEN closed' = TRUE /\ Goto(t, <<"discard">>) ELSE Return(t) /\ UNCHANGED closed
    /\ UNCHANGED <<netVars, fd, ioVars, evVars, respVars, jobVars, taken>>

discard_conn_responses(t) ==
    /\ At(t, "discard")
    /\ resp' = <<>> /\ inbox' = <<>>
    /\ epollout' = FALSE /\ fd' = FALSE /\ unread' = <<>>
    /\ Return(t)
    /\ UNCHANGED <<unsent, peer, buffered, wire, closed, ioVars, armed, want, jobVars, taken>>
-----------------------------------------------------------------------------
(* worker_thread_main.                                                     *)

Pop(t) ==
    /\ At(t, "idle") /\ ring # <<>>
    /\ ring' = Tail(ring)
    /\ job' = [job EXCEPT ![t] = Head(ring)]
    /\ Goto(t, <<"work", "idle">>)
    /\ UNCHANGED <<netVars, closed, fd, ioVars, evVars, respVars, buf, state, taken>>

inbox_push(t) ==
    /\ At(t, "work")
    /\ inbox' = <<job[t]>> \o inbox
    /\ job' = [job EXCEPT ![t] = NULL]
    /\ Goto(t, <<"pushed">>)
    /\ UNCHANGED <<netVars, closed, fd, ioVars, evVars, resp, buf, state, ring, taken>>

\* Mutant: the worker relies on EPOLLOUT alone.
PushedUnmarked(t) ==
    /\ At(t, "pushed")
    /\ Goto(t, IF closed THEN <<"stale">> ELSE <<"acquire_w">>)
    /\ UNCHANGED <<netVars, closed, fd, ioVars, evVars, respVars, jobVars, taken>>

\* The response is there: whoever owns the connection must look again.
Pushed(t) ==
    /\ At(t, "pushed")
    /\ IF closed THEN Goto(t, <<"stale">>) /\ UNCHANGED io_pending
                 ELSE Goto(t, <<"acquire_w">>) /\ io_pending' = TRUE
    /\ UNCHANGED <<netVars, closed, fd, io_owned, evVars, respVars, jobVars, taken>>

\* The connection is closed: nobody else will empty the inbox.
Stale(t) ==
    /\ At(t, "stale")
    /\ inbox' = <<>>
    /\ Return(t)
    /\ UNCHANGED <<netVars, closed, fd, ioVars, evVars, resp, jobVars, taken>>

WorkerAcquire(t) ==
    /\ At(t, "acquire_w")
    /\ io_owned' = TRUE
    /\ \/ ~io_owned /\ Goto(t, <<"answer", "release", "recheck_w">>) /\ UNCHANGED want
       \/ io_owned /\ Update(t, TRUE, <<>>)
    /\ UNCHANGED <<netVars, closed, fd, io_pending, armed, epollout, respVars, jobVars, taken>>
-----------------------------------------------------------------------------
DriveStep(t) ==
    \/ drain_inbox(t) \/ Push(t)
    \/ read_more_into_buffer(t) \/ Read(t) \/ ReadFails(t) \/ ReadDone(t)
    \/ release_conn_io(t) \/ Recheck(t) \/ Retry(t)
    \/ Flush(t) \/ FlushStops(t) \/ FlushFails(t)
    \/ Check(t) \/ Arm(t) \/ epoll_ctl(t)
    \/ Close(t) \/ discard_conn_responses(t)

IoStep(t) == EpollWait(t) \/ IoError(t) \/ IoEvent(t) \/ IoAcquire(t) \/ DriveStep(t)

WorkerStep(t) ==
    \/ Pop(t) \/ inbox_push(t) \/ Pushed(t) \/ Stale(t) \/ WorkerAcquire(t)
    \/ DriveStep(t)

Next ==
    \/ ClientSend \/ ClientReads \/ ClientCloses
    \/ \E t \in IoThreads : IoStep(t)
    \/ \E t \in Workers : WorkerStep(t)

Spec == Init /\ [][Next]_vars
-----------------------------------------------------------------------------
(* Properties.                                                             *)

Labels == {"idle", "error", "event", "acquire", "drive", "answer", "flush",
           "reads", "push", "release", "recheck", "recheck_w", "retry", "retry_w",
           "check", "arm", "ctl", "close", "discard", "work", "pushed",
           "stale", "acquire_w"}

\* Every variable has its type.
TypeOK ==
    /\ unsent \in Seq(Ids \X BOOLEAN) /\ unread \in Seq(Ids \X BOOLEAN)
    /\ buf \in Seq(Ids \X BOOLEAN) /\ Len(buf) <= BUFSIZE
    /\ peer \in {"open", "fin", "reset"}
    /\ buffered \in 0..SndBuf /\ wire \in Seq(Ids \X (1..RespLen))
    /\ {closed, fd, io_owned, io_pending, armed, epollout} \subseteq BOOLEAN
    /\ inbox \in Seq(Ids) /\ resp \in Seq([id : Ids, sent : 0..(RespLen - 1)])
    /\ state \in Ids \cup {NULL} /\ ring \in Seq(Ids) /\ Len(ring) <= RING_CAPACITY
    /\ job \in [Threads -> Ids \cup {NULL}] /\ want \in [Threads -> BOOLEAN]
    /\ stack \in [Threads -> Seq(Labels)]

Quiet == \A t \in Threads : stack[t] = <<"idle">>

\* epollout_armed says that EPOLLOUT is asked for, and epoll does not watch for it: two
\* update_conn_events have crossed between their store and their epoll_ctl
\* (common-linux-pool.c:430-432).
Crossed == armed /\ ~epollout

\* No response is forgotten (common-linux-pool.c:632-682, 803-823): when every thread is
\* back in epoll_wait or waiting for a job, nobody owns the connection, a closed one has
\* an empty inbox, and what is left to send on an open one is waited for with EPOLLOUT.
\* There are two exceptions: two update_conn_events crossed, or a thread that had just
\* released the connection took the io_pending meant for the next owner.
NothingForgotten ==
    Quiet => /\ ~io_owned
             /\ ~fd => inbox = <<>>
             /\ fd /\ (inbox # <<>> \/ resp # <<>>) => epollout \/ Crossed \/ taken

Bytes(r) == [i \in 1..RespLen |-> <<r, i>>]

Queued ==
    LET rest == [k \in DOMAIN resp |-> SubSeq(Bytes(resp[k].id), resp[k].sent + 1, RespLen)]
        new == [k \in DOMAIN inbox |-> Bytes(inbox[k])]
    IN  wire \o FlattenSeq(rest) \o FlattenSeq(Reverse(new))

Log == INSTANCE TxLog WITH Msgs <- Ids, log <- Queued, sent <- Len(wire)

\* The client gets the responses whole and once, in the order in which the workers
\* pushed them, whichever threads flush and however the socket cuts them up
\* (common-linux-pool.c:333-361, 594-630).
WholeResponses == [][closed' \/ UNCHANGED <<wire, Queued>> \/ Log!Next]_vars

\* "Set closed before touching the fd so worker threads see it and skip epoll_ctl."
\* (common-linux-pool.c:387)
EpollCtlSkipped == ~fd => \A t \in Workers : ~At(t, "ctl")

\* "Drain whatever we (or other workers) pushed to prevent a leak."
\* (common-linux-pool.c:807): a closed connection keeps no response.
NoLeak == Quiet /\ ~fd => inbox = <<>> /\ resp = <<>>
=============================================================================
