------------------------------ MODULE RxSched ------------------------------
(***************************************************************************)
(* The receive scheduler of the Rakaia kernel module (plain-tcp build).    *)
(*                                                                         *)
(* A psock that has parsed a message pushes it to the per-socket queue     *)
(* rx_q of one of two randomly picked rakaia sockets, or hands it to a     *)
(* socket of the waiter list.  A worker thread owns one rakaia socket: it  *)
(* receives a message, processes it, sends the reply, and the send pulls   *)
(* the next message: from its own rx_q, else stolen from another rx_q,     *)
(* else the socket enters the waiter list.                                 *)
(*                                                                         *)
(* A step is a section of code between two accesses to shared state whose  *)
(* order another thread can observe.  A section that takes a spinlock and  *)
(* releases it with no such access in between is one step; rx_lock and     *)
(* waiters_lock record the sections that are not.                          *)
(***************************************************************************)
EXTENDS Naturals, Sequences, FiniteSets, Functions

CONSTANTS
    Socks,        \* the rakaia sockets, each with its worker thread
    Psocks,       \* the attached TCP connections, each pushing in softirq
    Msgs,         \* the messages the clients send
    Stream,       \* Stream[p]: the messages of connection p, in stream order
    Oversized,    \* the messages whose truesize reaches sk_rcvbuf
    MemPressure,  \* whether sk_rmem_schedule can fail
    SendMayFail,  \* whether a worker's recvmsg or sendmsg can fail
    NULL          \* no socket, no message, no lock holder

ASSUME ConstAssumption ==
    /\ NULL \notin Socks \cup Psocks \cup Msgs
    /\ Socks \cap Psocks = {}
    /\ Stream \in [Psocks -> Seq(Msgs)]
    /\ Oversized \subseteq Msgs
    /\ MemPressure \in BOOLEAN
    /\ SendMayFail \in BOOLEAN

\* A message is at one position of one stream.
ASSUME StreamAssumption ==
    \A m \in Msgs : \E p \in Psocks : \E i \in DOMAIN Stream[p] :
        /\ Stream[p][i] = m
        /\ \A q \in Psocks : \A j \in DOMAIN Stream[q] :
              Stream[q][j] = m => q = p /\ j = i

VARIABLES
    unread,           \* unread[p]: messages still in the TCP stream of p
    rx_q,             \* rx_q[k]: the queue of rakaia socket k
    rx_lock,          \* rx_lock[k]: holder of rx_q[k].lock
    rx_nonempty_bm,   \* bitmap of the sockets whose rx_q has messages
    ksk_waiters,      \* list of waiting sockets
    waiters_bm,       \* bitmap of waiting sockets
    waiters_lock,     \* holder of rakaia->waiters_lock
    sk_receive_queue, \* sk_receive_queue[k]: delivered, not yet received
    pc,               \* next step of each worker and psock
    skb,              \* the message a thread holds in a local variable
    chosen,           \* psock: the socket picked by the push
    new_ksk,          \* psock: the waiter popped by the push
    v1, v2, qlen2,    \* worker: the two candidates of a steal and one length
    lost,             \* messages dropped by rakaia_queue_rcv_skb
    done              \* messages a worker has finished with

rxVars == <<rx_q, rx_lock, rx_nonempty_bm>>
waitVars == <<ksk_waiters, waiters_bm, waiters_lock>>
stealVars == <<v1, v2, qlen2>>
pushVars == <<chosen, new_ksk>>
vars == <<unread, rxVars, waitVars, sk_receive_queue, pc, skb, pushVars,
          stealVars, lost, done>>

PushPC == {"detached", "idle", "push", "locked", "nowaiter", "handoff", "deliver"}
PullPC == {"pull", "steal", "cand", "cmp", "victim", "empty", "mark"}
WorkPC == {"create", "got", "epoll", "process"} \cup PullPC

Init ==
    /\ unread = Stream
    /\ rx_q = [k \in Socks |-> <<>>]
    /\ rx_lock = [k \in Socks |-> NULL]
    /\ rx_nonempty_bm = {}
    /\ ksk_waiters = <<>>
    /\ waiters_bm = {}
    /\ waiters_lock = NULL
    /\ sk_receive_queue = [k \in Socks |-> <<>>]
    /\ pc = [t \in Socks \cup Psocks |-> IF t \in Socks THEN "create" ELSE "detached"]
    /\ skb = [t \in Socks \cup Psocks |-> NULL]
    /\ chosen = [p \in Psocks |-> NULL]
    /\ new_ksk = [p \in Psocks |-> NULL]
    /\ v1 = [k \in Socks |-> NULL]
    /\ v2 = [k \in Socks |-> NULL]
    /\ qlen2 = [k \in Socks |-> 0]
    /\ lost = {}
    /\ done = {}

GoTo(t, from, to) ==
    /\ pc[t] = from
    /\ pc' = [pc EXCEPT ![t] = to]

\* rakaia_queue_rcv_skb(k, m).  Both error returns leave the skb in no queue,
\* and the callers ignore the error.  sk_rmem_alloc is the sum of the truesize
\* of the queued messages; it reaches sk_rcvbuf when an oversized one is queued.
rakaia_queue_rcv_skb(k, m) ==
    \/ /\ \/ \E i \in DOMAIN sk_receive_queue[k] : sk_receive_queue[k][i] \in Oversized
          \/ MemPressure
       /\ lost' = lost \cup {m}
       /\ UNCHANGED sk_receive_queue
    \/ /\ \A i \in DOMAIN sk_receive_queue[k] : sk_receive_queue[k][i] \notin Oversized
       /\ sk_receive_queue' = [sk_receive_queue EXCEPT ![k] = Append(@, m)]
       /\ UNCHANGED lost

\* Mutated Dequeue: the last message is taken and the bit stays set.
DequeueKeepsBit(k) ==
    /\ rx_q' = [rx_q EXCEPT ![k] = Tail(@)]
    /\ UNCHANGED <<rx_lock, rx_nonempty_bm>>

\* Mutated Dequeue: skb_peek, the message stays queued.
DequeuePeeks(k) == UNCHANGED rxVars

\* __skb_dequeue of rx_q[k] and clear_bit when the queue is left empty; the
\* caller holds, or in this step takes and releases, rx_q[k].lock.
Dequeue(k) ==
    /\ rx_q' = [rx_q EXCEPT ![k] = Tail(@)]
    /\ rx_nonempty_bm' = IF Len(rx_q[k]) = 1 THEN rx_nonempty_bm \ {k}
                                             ELSE rx_nonempty_bm
    /\ UNCHANGED rx_lock
-----------------------------------------------------------------------------
(* rakaia_push_skb_single_queue, run by psock p for a parsed message.  The *)
(* two picks may coincide, so every socket can be the chosen one whatever  *)
(* the unlocked lengths are.                                               *)

PushChoose(p) ==
    /\ GoTo(p, "idle", "push")
    /\ unread[p] # <<>>
    /\ unread' = [unread EXCEPT ![p] = Tail(@)]
    /\ skb' = [skb EXCEPT ![p] = Head(unread[p])]
    /\ \E k \in Socks : chosen' = [chosen EXCEPT ![p] = k]
    /\ UNCHANGED <<rxVars, waitVars, sk_receive_queue, new_ksk, stealVars, lost, done>>

\* The queue already has messages: append and return.
PushTail(p) ==
    /\ GoTo(p, "push", "idle")
    /\ rx_lock[chosen[p]] = NULL
    /\ Len(rx_q[chosen[p]]) >= 1
    /\ rx_q' = [rx_q EXCEPT ![chosen[p]] = Append(@, skb[p])]
    /\ skb' = [skb EXCEPT ![p] = NULL]
    /\ chosen' = [chosen EXCEPT ![p] = NULL]
    /\ UNCHANGED <<unread, rx_lock, rx_nonempty_bm, waitVars, sk_receive_queue,
                   new_ksk, stealVars, lost, done>>

PushLock(p) ==
    /\ GoTo(p, "push", "locked")
    /\ rx_lock[chosen[p]] = NULL
    /\ Len(rx_q[chosen[p]]) = 0
    /\ rx_lock' = [rx_lock EXCEPT ![chosen[p]] = p]
    /\ UNCHANGED <<unread, rx_q, rx_nonempty_bm, waitVars, sk_receive_queue, skb,
                   pushVars, stealVars, lost, done>>

\* The list without its i-th entry.
list_del_init(list, i) == SubSeq(list, 1, i - 1) \o SubSeq(list, i + 1, Len(list))

\* Mutated rakaia_get_avail_sk: the socket is not unlinked.
GetAvailKeepsWaiter(p, local) ==
    \E i \in DOMAIN ksk_waiters :
       /\ IF local \in waiters_bm THEN ksk_waiters[i] = local ELSE i = 1
       /\ new_ksk' = [new_ksk EXCEPT ![p] = ksk_waiters[i]]
       /\ UNCHANGED <<ksk_waiters, waiters_bm>>

\* rakaia_get_avail_sk(local): local if it waits, else the first of the list;
\* the socket leaves the list and the bitmap.
rakaia_get_avail_sk(p, local) ==
    \E i \in DOMAIN ksk_waiters :
       /\ IF local \in waiters_bm THEN ksk_waiters[i] = local ELSE i = 1
       /\ new_ksk' = [new_ksk EXCEPT ![p] = ksk_waiters[i]]
       /\ ksk_waiters' = list_del_init(ksk_waiters, i)
       /\ waiters_bm' = waiters_bm \ {ksk_waiters[i]}

\* The section under waiters_lock, entered with the list lock held.
PushAvail(p) ==
    /\ pc[p] = "locked"
    /\ waiters_lock = NULL
    /\ rx_q' = [rx_q EXCEPT ![chosen[p]] = Append(@, skb[p])]
    /\ \/ /\ ksk_waiters = <<>>
          /\ pc' = [pc EXCEPT ![p] = "nowaiter"]
          /\ UNCHANGED <<ksk_waiters, waiters_bm, new_ksk>>
       \/ /\ rakaia_get_avail_sk(p, chosen[p])
          /\ pc' = [pc EXCEPT ![p] = "handoff"]
    /\ skb' = [skb EXCEPT ![p] = NULL]
    /\ UNCHANGED <<unread, rx_lock, rx_nonempty_bm, waiters_lock, sk_receive_queue,
                   chosen, stealVars, lost, done>>

\* Mutated PushNoWaiter: the list lock is not released.
PushNoWaiterKeepsLock(p) ==
    /\ GoTo(p, "nowaiter", "idle")
    /\ rx_nonempty_bm' = rx_nonempty_bm \cup {chosen[p]}
    /\ chosen' = [chosen EXCEPT ![p] = NULL]
    /\ UNCHANGED <<unread, rx_q, rx_lock, waitVars, sk_receive_queue, skb, new_ksk,
                   stealVars, lost, done>>

\* Mutated PushNoWaiter: set_bit is forgotten.
PushNoWaiterNoBit(p) ==
    /\ GoTo(p, "nowaiter", "idle")
    /\ rx_lock' = [rx_lock EXCEPT ![chosen[p]] = NULL]
    /\ chosen' = [chosen EXCEPT ![p] = NULL]
    /\ UNCHANGED <<unread, rx_q, rx_nonempty_bm, waitVars, sk_receive_queue, skb,
                   new_ksk, stealVars, lost, done>>

\* Nobody waits: set_bit and release the list lock.
PushNoWaiter(p) ==
    /\ GoTo(p, "nowaiter", "idle")
    /\ rx_nonempty_bm' = rx_nonempty_bm \cup {chosen[p]}
    /\ rx_lock' = [rx_lock EXCEPT ![chosen[p]] = NULL]
    /\ chosen' = [chosen EXCEPT ![p] = NULL]
    /\ UNCHANGED <<unread, rx_q, waitVars, sk_receive_queue, skb, new_ksk,
                   stealVars, lost, done>>

\* A waiter was popped: take the message back, fix the bit, release the lock.
PushHandoff(p) ==
    /\ GoTo(p, "handoff", "deliver")
    /\ skb' = [skb EXCEPT ![p] = Head(rx_q[chosen[p]])]
    /\ rx_q' = [rx_q EXCEPT ![chosen[p]] = Tail(@)]
    /\ rx_nonempty_bm' = IF Len(rx_q[chosen[p]]) > 1
                         THEN rx_nonempty_bm \cup {chosen[p]}
                         ELSE rx_nonempty_bm \ {chosen[p]}
    /\ rx_lock' = [rx_lock EXCEPT ![chosen[p]] = NULL]
    /\ chosen' = [chosen EXCEPT ![p] = NULL]
    /\ UNCHANGED <<unread, waitVars, sk_receive_queue, new_ksk, stealVars, lost, done>>

PushDeliver(p) ==
    /\ GoTo(p, "deliver", "idle")
    /\ rakaia_queue_rcv_skb(new_ksk[p], skb[p])
    /\ skb' = [skb EXCEPT ![p] = NULL]
    /\ new_ksk' = [new_ksk EXCEPT ![p] = NULL]
    /\ UNCHANGED <<unread, rxVars, waitVars, chosen, stealVars, done>>
-----------------------------------------------------------------------------
(* The worker of rakaia socket k.                                          *)

\* The end of rakaia_create; the worker then calls the SIOCRAKAIAPULL ioctl.
Create(k) ==
    /\ GoTo(k, "create", "pull")
    /\ waiters_lock = NULL
    /\ waiters_bm' = waiters_bm \cup {k}
    /\ ksk_waiters' = Append(ksk_waiters, k)
    /\ UNCHANGED <<unread, rxVars, waiters_lock, sk_receive_queue, skb, pushVars,
                   stealVars, lost, done>>

\* rakaia_pull, label again: the local queue first.
PullLocal(k) ==
    /\ pc[k] = "pull"
    /\ rx_lock[k] = NULL
    /\ \/ /\ rx_q[k] # <<>>
          /\ skb' = [skb EXCEPT ![k] = Head(rx_q[k])]
          /\ Dequeue(k)
          /\ pc' = [pc EXCEPT ![k] = "got"]
       \/ /\ rx_q[k] = <<>>
          /\ pc' = [pc EXCEPT ![k] = "steal"]
          /\ UNCHANGED <<rxVars, skb>>
    /\ UNCHANGED <<unread, waitVars, sk_receive_queue, pushVars, stealVars, lost, done>>

\* rakaia_steal_skb, label retry: read the bitmap, pick two of its bits.
StealPick(k) ==
    /\ pc[k] = "steal"
    /\ \/ /\ rx_nonempty_bm = {}
          /\ pc' = [pc EXCEPT ![k] = "empty"]
          /\ UNCHANGED <<v1, v2>>
       \/ \E a, b \in rx_nonempty_bm :
             /\ a = b => rx_nonempty_bm = {a}
             /\ v1' = [v1 EXCEPT ![k] = a]
             /\ v2' = [v2 EXCEPT ![k] = b]
             /\ pc' = [pc EXCEPT ![k] = "cand"]
    /\ UNCHANGED <<unread, rxVars, waitVars, sk_receive_queue, skb, pushVars, qlen2,
                   lost, done>>

\* The two unlocked reads of qlen; v1 becomes the victim.
StealReadLen(k) ==
    /\ GoTo(k, "cand", "cmp")
    /\ qlen2' = [qlen2 EXCEPT ![k] = Len(rx_q[v2[k]])]
    /\ UNCHANGED <<unread, rxVars, waitVars, sk_receive_queue, skb, pushVars, v1, v2,
                   lost, done>>

StealCompare(k) ==
    /\ GoTo(k, "cmp", "victim")
    /\ v1' = [v1 EXCEPT ![k] = IF qlen2[k] > Len(rx_q[v1[k]]) THEN v2[k] ELSE @]
    /\ v2' = [v2 EXCEPT ![k] = NULL]
    /\ qlen2' = [qlen2 EXCEPT ![k] = 0]
    /\ UNCHANGED <<unread, rxVars, waitVars, sk_receive_queue, skb, pushVars, lost, done>>

\* Under the victim's list lock; the queue may have been emptied meanwhile.
StealTake(k) ==
    /\ pc[k] = "victim"
    /\ rx_lock[v1[k]] = NULL
    /\ \/ /\ rx_q[v1[k]] # <<>>
          /\ skb' = [skb EXCEPT ![k] = Head(rx_q[v1[k]])]
          /\ Dequeue(v1[k])
          /\ pc' = [pc EXCEPT ![k] = "got"]
       \/ /\ rx_q[v1[k]] = <<>>
          /\ pc' = [pc EXCEPT ![k] = "steal"]
          /\ UNCHANGED <<rxVars, skb>>
    /\ v1' = [v1 EXCEPT ![k] = NULL]
    /\ UNCHANGED <<unread, waitVars, sk_receive_queue, pushVars, v2, qlen2, lost, done>>

PullDeliver(k) ==
    /\ GoTo(k, "got", "epoll")
    /\ rakaia_queue_rcv_skb(k, skb[k])
    /\ skb' = [skb EXCEPT ![k] = NULL]
    /\ UNCHANGED <<unread, rxVars, waitVars, pushVars, stealVars, done>>

\* Nothing to steal: take waiters_lock and look at the bitmap once more.
PullCheck(k) ==
    /\ pc[k] = "empty"
    /\ waiters_lock = NULL
    /\ \/ /\ rx_nonempty_bm # {}
          /\ pc' = [pc EXCEPT ![k] = "pull"]
          /\ UNCHANGED waiters_lock
       \/ /\ rx_nonempty_bm = {}
          /\ pc' = [pc EXCEPT ![k] = "mark"]
          /\ waiters_lock' = k
    /\ UNCHANGED <<unread, rxVars, ksk_waiters, waiters_bm, sk_receive_queue, skb,
                   pushVars, stealVars, lost, done>>

\* Mutated PullMark: no test_bit before list_add_tail.
PullMarkNoTest(k) ==
    /\ GoTo(k, "mark", "epoll")
    /\ waiters_bm' = waiters_bm \cup {k}
    /\ ksk_waiters' = Append(ksk_waiters, k)
    /\ waiters_lock' = NULL
    /\ UNCHANGED <<unread, rxVars, sk_receive_queue, skb, pushVars, stealVars, lost, done>>

\* Mutated PullMark: the socket goes idle without being listed.
PullMarkNoList(k) ==
    /\ GoTo(k, "mark", "epoll")
    /\ waiters_lock' = NULL
    /\ UNCHANGED <<unread, rxVars, ksk_waiters, waiters_bm, sk_receive_queue, skb,
                   pushVars, stealVars, lost, done>>

PullMark(k) ==
    /\ GoTo(k, "mark", "epoll")
    /\ \/ k \in waiters_bm /\ UNCHANGED <<ksk_waiters, waiters_bm>>
       \/ /\ k \notin waiters_bm
          /\ waiters_bm' = waiters_bm \cup {k}
          /\ ksk_waiters' = Append(ksk_waiters, k)
    /\ waiters_lock' = NULL
    /\ UNCHANGED <<unread, rxVars, sk_receive_queue, skb, pushVars, stealVars, lost, done>>

\* epoll_wait reports the listening socket: accept, and attach the connection.
\* The first push therefore comes after the first pull of some worker.
Attach(k, p) ==
    /\ pc[k] = "epoll"
    /\ GoTo(p, "detached", "idle")
    /\ UNCHANGED <<unread, rxVars, waitVars, sk_receive_queue, skb, pushVars, stealVars,
                   lost, done>>

\* epoll_wait reports the socket readable; rakaia_recvmsg takes one message and
\* copies it to the worker.
Recvmsg(k) ==
    /\ GoTo(k, "epoll", "process")
    /\ sk_receive_queue[k] # <<>>
    /\ skb' = [skb EXCEPT ![k] = Head(sk_receive_queue[k])]
    /\ sk_receive_queue' = [sk_receive_queue EXCEPT ![k] = Tail(@)]
    /\ UNCHANGED <<unread, rxVars, waitVars, pushVars, stealVars, lost, done>>

\* Mutated Sendmsg: the message is released before its last use.
SendmsgAfterFree(k) ==
    /\ GoTo(k, "process", "pull")
    /\ skb' = [skb EXCEPT ![k] = NULL]
    /\ done' = done \cup {skb'[k]}
    /\ UNCHANGED <<unread, rxVars, waitVars, sk_receive_queue, pushVars, stealVars, lost>>

\* The request is processed and rakaia_sendmsg called: label out pulls, label
\* out_error returns without pulling.  So does a rakaia_recvmsg whose copy faults:
\* the message is freed, and there is nothing to reply to.
Sendmsg(k) ==
    /\ \/ GoTo(k, "process", "pull")
       \/ SendMayFail /\ GoTo(k, "process", "epoll")
    /\ done' = done \cup {skb[k]}
    /\ skb' = [skb EXCEPT ![k] = NULL]
    /\ UNCHANGED <<unread, rxVars, waitVars, sk_receive_queue, pushVars, stealVars, lost>>
-----------------------------------------------------------------------------
Push(p) ==
    \/ PushChoose(p) \/ PushTail(p) \/ PushLock(p) \/ PushAvail(p)
    \/ PushNoWaiter(p) \/ PushHandoff(p) \/ PushDeliver(p)

Pull(k) ==
    \/ PullLocal(k) \/ StealPick(k) \/ StealReadLen(k) \/ StealCompare(k)
    \/ StealTake(k) \/ PullDeliver(k) \/ PullCheck(k) \/ PullMark(k)

Worker(k) == Create(k) \/ Pull(k) \/ Recvmsg(k) \/ Sendmsg(k)

Next ==
    \/ \E p \in Psocks : Push(p)
    \/ \E k \in Socks : Worker(k) \/ \E p \in Psocks : Attach(k, p)

Spec == Init /\ [][Next]_vars

\* A started push runs to its end and a runnable worker is scheduled: spinlock
\* sections do not sleep, and epoll_wait returns once a message is queued.
\* Nothing obliges a client to send another message.
Fairness ==
    /\ \A p \in Psocks : WF_vars(pc[p] # "idle" /\ Push(p))
    /\ \A k \in Socks : WF_vars(Worker(k))

FairSpec == Spec /\ Fairness
-----------------------------------------------------------------------------
TypeOK ==
    /\ unread \in [Psocks -> Seq(Msgs)]
    /\ rx_q \in [Socks -> Seq(Msgs)]
    /\ rx_lock \in [Socks -> Psocks \cup {NULL}]
    /\ rx_nonempty_bm \subseteq Socks
    /\ ksk_waiters \in Seq(Socks)
    /\ waiters_bm \subseteq Socks
    /\ waiters_lock \in Socks \cup {NULL}
    /\ sk_receive_queue \in [Socks -> Seq(Msgs)]
    /\ pc \in [Socks \cup Psocks -> PushPC \cup WorkPC]
    /\ \A p \in Psocks : pc[p] \in PushPC
    /\ \A k \in Socks : pc[k] \in WorkPC
    /\ skb \in [Socks \cup Psocks -> Msgs \cup {NULL}]
    /\ chosen \in [Psocks -> Socks \cup {NULL}]
    /\ new_ksk \in [Psocks -> Socks \cup {NULL}]
    /\ v1 \in [Socks -> Socks \cup {NULL}]
    /\ v2 \in [Socks -> Socks \cup {NULL}]
    /\ qlen2 \in [Socks -> Nat]
    /\ lost \subseteq Msgs
    /\ done \subseteq Msgs

\* A list lock is held by the one push that chose the socket, from PushLock to
\* the end of its section; the queue under it is empty, or holds just the message
\* of that push, and its bit is clear.
ListLockInv ==
    /\ \A p \in Psocks : \A k \in Socks :
          rx_lock[k] = p <=> chosen[p] = k /\ pc[p] \in {"locked", "nowaiter", "handoff"}
    /\ \A k \in Socks : rx_lock[k] # NULL => k \notin rx_nonempty_bm
    /\ \A p \in Psocks :
          /\ pc[p] = "locked" => rx_q[chosen[p]] = <<>>
          /\ pc[p] \in {"nowaiter", "handoff"} => Len(rx_q[chosen[p]]) = 1

\* The locals of a thread are set exactly between their assignment and their last
\* use, and waiters_lock is held across two steps only by a pull about to mark.
PushLocalsInv(p) ==
    /\ chosen[p] # NULL <=> pc[p] \in {"push", "locked", "nowaiter", "handoff"}
    /\ new_ksk[p] # NULL <=> pc[p] \in {"handoff", "deliver"}
    /\ skb[p] # NULL <=> pc[p] \in {"push", "locked", "deliver"}

WorkLocalsInv(k) ==
    /\ waiters_lock = k <=> pc[k] = "mark"
    /\ skb[k] # NULL <=> pc[k] \in {"got", "process"}
    /\ v1[k] # NULL <=> pc[k] \in {"cand", "cmp", "victim"}
    /\ v2[k] # NULL <=> pc[k] \in {"cand", "cmp"}

LocalsInv ==
    /\ \A p \in Psocks : PushLocalsInv(p)
    /\ \A k \in Socks : WorkLocalsInv(k)

\* Both at once: who holds what, at every step of a push and of a pull.
LockInv == ListLockInv /\ LocalsInv

\* rx_nonempty_bm is updated outside waiters_lock and read with no lock at all;
\* it still equals the set of nonempty queues wherever no list lock is held.
\* A stale set bit would make rakaia_steal_skb retry forever, a stale clear bit
\* hides a queue from every thief (rakaiasock.c 176, 260, 265-269, 1081).
BitmapExact ==
    \A k \in Socks : rx_lock[k] = NULL => (k \in rx_nonempty_bm <=> rx_q[k] # <<>>)

\* The bitmap test in rakaia_pull and the one in rakaia_get_avail_sk stand for
\* membership of the list: a socket is never linked twice and never unlinked
\* while not linked (rakaiasock.c 202-210, 1100-1103, 1383-1384).
WaitersExact ==
    /\ waiters_bm = Range(ksk_waiters)
    /\ IsInjective(ksk_waiters)

\* What WaitersExact rests on: a socket rakaia_create is still building waits
\* nowhere (rakaiasock.c 1382-1385).
CreateInv == \A k \in Socks : pc[k] = "create" => k \notin waiters_bm

\* The places a message can be in, and what each of them holds.
Holders ==
    ({"unread"} \X Psocks) \cup ({"rx_q", "sk_receive_queue"} \X Socks)
    \cup ({"skb"} \X (Socks \cup Psocks)) \cup {<<"lost", NULL>>, <<"done", NULL>>}

held ==
    [h \in Holders |->
        CASE h[1] = "unread" -> Range(unread[h[2]])
          [] h[1] = "rx_q" -> Range(rx_q[h[2]])
          [] h[1] = "sk_receive_queue" -> Range(sk_receive_queue[h[2]])
          [] h[1] = "skb" -> {skb[h[2]]} \ {NULL}
          [] h[1] = "lost" -> lost
          [] h[1] = "done" -> done]

\* A message is in exactly one place and there once, whatever the race between push,
\* pull and steal: none disappears, none is processed twice, and none is dropped
\* and processed.
OneHolder ==
    /\ \A m \in Msgs : \E h \in Holders : m \in held[h]
    /\ \A g, h \in Holders : g # h => held[g] \cap held[h] = {}
    /\ \A p \in Psocks : IsInjective(unread[p])
    /\ \A k \in Socks : IsInjective(rx_q[k]) /\ IsInjective(sk_receive_queue[k])

\* What keeps socket k going: a delivered message, membership of the waiter
\* list, a push about to deliver to it, or its own thread not blocked.
Claims(k) ==
    Len(sk_receive_queue[k])
    + (IF k \in waiters_bm THEN 1 ELSE 0)
    + (IF pc[k] \notin {"create", "epoll"} THEN 1 ELSE 0)
    + Cardinality({p \in Psocks : new_ksk[p] = k})

\* A socket never has more than two messages waiting: rakaia_create lists it as
\* a waiter and the first pull runs all the same; afterwards a message is only
\* delivered in exchange for a pull or for a place in the waiter list.
AtMostTwo == \A k \in Socks : Claims(k) <= 2

\* The runs of the system in which no delivery and no send fails.
NoFailure == ~MemPressure /\ ~SendMayFail /\ Oversized = {}

\* The thread of socket k is not blocked in epoll_wait, or k is on the waiter
\* list, has a message queued, or was popped by a push that will deliver to it.
Accounted(k) ==
    \/ pc[k] # "epoll"
    \/ sk_receive_queue[k] # <<>>
    \/ k \in waiters_bm
    \/ \E p \in Psocks : new_ksk[p] = k

\* A worker is never forgotten, unless a delivery or a send failed: a pull that
\* finds nothing leaves the socket where the next push finds it (rakaiasock.c
\* 254-272, 1076-1105).
WorkerAccounted == NoFailure => \A k \in Socks : Accounted(k)

\* The stage of a message and its socket, read off the queues and the locals.
Stage(m) ==
    CASE m \in done -> "done"
      [] m \in lost -> "lost"
      [] \E k \in Socks : pc[k] = "process" /\ skb[k] = m -> "running"
      [] \E k \in Socks : m \in Range(sk_receive_queue[k]) -> "delivered"
      [] \E p \in Psocks : m \in Range(unread[p]) -> "unread"
      [] OTHER -> "queued"

Owner(m) ==
    LET Holds(k) == \/ pc[k] = "process" /\ skb[k] = m
                    \/ m \in Range(sk_receive_queue[k])
    IN  IF \E k \in Socks : Holds(k) THEN CHOOSE k \in Socks : Holds(k) ELSE NULL

stage == [m \in Msgs |-> Stage(m)]
owner == [m \in Msgs |-> Owner(m)]

Pool == INSTANCE MsgPool

\* Push, pull and steal together deliver every message at most once and to one
\* worker at a time.
PoolSpec == Pool!Spec

\* A socket enters the waiter list when the whole system is empty, and a push
\* that finds a waiter hands it the message.  So when no push is running and every
\* socket waits, no message is left in a queue (the comment of rakaia_pull,
\* rakaiasock.c 1094).
IdleOnlyWhenEmpty ==
    (/\ \A p \in Psocks : pc[p] \in {"detached", "idle"}
     /\ \A k \in Socks : k \in waiters_bm /\ pc[k] = "epoll" /\ sk_receive_queue[k] = <<>>)
    => \A k \in Socks : rx_q[k] = <<>>

\* The sockets of waiters_bm are idle: none of their workers processes a request
\* (the comment on waiters_bm, rakaia.h 166-167).
WaitersIdle == \A k \in waiters_bm : pc[k] # "process"

\* A push runs to its end: the nesting rx_q.lock, waiters_lock has no cycle.
PushReturns == \A p \in Psocks : pc[p] = "push" ~> pc[p] = "idle"

\* A pull returns: neither the retry of rakaia_steal_skb nor the goto again of
\* rakaia_pull spins forever.
PullReturns == \A k \in Socks : pc[k] \in PullPC \cup {"got"} ~> pc[k] = "epoll"

\* A message in a queue whose lock is free leaves it as long as some worker is
\* still processing a request: that worker pulls when it replies, and it does not
\* go idle while a bit is set.
ServedWhileBusy ==
    \A m \in Msgs :
        (/\ ~SendMayFail
         /\ \E k \in Socks : rx_lock[k] = NULL /\ m \in Range(rx_q[k])
         /\ \E j \in Socks : pc[j] \in {"process", "pull"})
        ~> \A k \in Socks : m \notin Range(rx_q[k])
=============================================================================
