----------------------------- MODULE Lifecycle -----------------------------
(***************************************************************************)
(* Creation and release of rakaia sockets, and attachment and release of   *)
(* TCP connections (plain-tcp build).                                      *)
(*                                                                         *)
(* A rakaia socket takes a slot of the array rakaia_socks and a place in   *)
(* the waiter list.  A connection is attached through some rakaia socket   *)
(* but belongs to none: its psock is in the global psock_list, and the     *)
(* release of the last rakaia socket walks that list and releases every    *)
(* psock.  The count is read under rakaia->lock, the list is walked after  *)
(* it, so a new socket can be created and used during the walk.            *)
(***************************************************************************)
EXTENDS Naturals, Sequences, FiniteSets, Functions

CONSTANTS
    Ksks,                \* the rakaia sockets a process can open, once each
    Csks,                \* the TCP sockets
    Unusable,            \* the TCP sockets that listen or are closed
    Psocks,              \* the psock allocations
    NUM_RAKAIA_SOCKETS,  \* the slots of rakaia_socks
    NULL

ASSUME LifecycleAssumption ==
    /\ Unusable \subseteq Csks
    /\ NUM_RAKAIA_SOCKETS \in Nat \ {0}
    /\ NULL \notin Ksks \cup Csks \cup Psocks \cup {"tcp", "psock"}

VARIABLES
    rakaia_socks,      \* the array
    rakaia_socks_cnt,
    index,             \* index[k]: the slot of k
    reopened,          \* history: a socket was opened after one was released
    waiters,           \* the sockets linked in ksk_waiters
    psock_list,        \* the psocks, the last attached first
    pstate,            \* pstate[p]: how far psock p has come
    psock_sk,          \* psock_sk[p]: psock->sk
    saved,             \* saved[p]: the callbacks p saved
    sk_user_data,      \* sk_user_data[c]
    callbacks,         \* callbacks[c]: whose sk_data_ready etc. c has
    tx_work,           \* the psocks whose tx_work is queued
    pc,                \* the next step of the thread of k
    tpsock, tmp, csk   \* its locals

sockVars == <<rakaia_socks, rakaia_socks_cnt, index, reopened>>
psockVars == <<psock_list, pstate, psock_sk, saved>>
cskVars == <<sk_user_data, callbacks>>
vars == <<sockVars, waiters, psockVars, cskVars, tx_work, pc, tpsock, tmp, csk>>

Slots == 0..(NUM_RAKAIA_SOCKETS - 1)

Init ==
    /\ rakaia_socks = [i \in Slots |-> NULL]
    /\ rakaia_socks_cnt = 0
    /\ index = [k \in Ksks |-> 0]
    /\ reopened = FALSE
    /\ waiters = {}
    /\ psock_list = <<>>
    /\ pstate = [p \in Psocks |-> "unused"]
    /\ psock_sk = [p \in Psocks |-> NULL]
    /\ saved = [p \in Psocks |-> NULL]
    /\ sk_user_data = [c \in Csks |-> NULL]
    /\ callbacks = [c \in Csks |-> "tcp"]
    /\ tx_work = {}
    /\ pc = [k \in Ksks |-> "none"]
    /\ tpsock = [k \in Ksks |-> NULL]
    /\ tmp = [k \in Ksks |-> NULL]
    /\ csk = [k \in Ksks |-> NULL]

GoTo(k, from, to) ==
    /\ pc[k] = from
    /\ pc' = [pc EXCEPT ![k] = to]
-----------------------------------------------------------------------------
(* rakaia_create: a slot under rakaia->lock, then the waiter list.         *)

Releasing == {"last", "del", "detach", "closed", "oops"}

CreateSlot(k) ==
    /\ GoTo(k, "none", "listing")
    /\ rakaia_socks_cnt < NUM_RAKAIA_SOCKETS
    /\ rakaia_socks' = [rakaia_socks EXCEPT ![rakaia_socks_cnt] = k]
    /\ index' = [index EXCEPT ![k] = rakaia_socks_cnt]
    /\ rakaia_socks_cnt' = rakaia_socks_cnt + 1
    /\ reopened' = (reopened \/ \E j \in Ksks : pc[j] \in Releasing)
    /\ UNCHANGED <<waiters, psockVars, cskVars, tx_work, tpsock, tmp, csk>>

\* -ENOMEM: the array is full.
CreateFails(k) ==
    /\ GoTo(k, "none", "refused")
    /\ rakaia_socks_cnt >= NUM_RAKAIA_SOCKETS
    /\ UNCHANGED <<sockVars, waiters, psockVars, cskVars, tx_work, tpsock, tmp, csk>>

CreateList(k) ==
    /\ GoTo(k, "listing", "open")
    /\ waiters' = waiters \cup {k}
    /\ UNCHANGED <<sockVars, psockVars, cskVars, tx_work, tpsock, tmp, csk>>
-----------------------------------------------------------------------------
(* What a push and a pull do to the waiter list; RxSched has the details.  *)

PopWaiter ==
    /\ \E k \in waiters : waiters' = waiters \ {k}
    /\ UNCHANGED <<sockVars, psockVars, cskVars, tx_work, pc, tpsock, tmp, csk>>

MarkIdle(k) ==
    /\ pc[k] = "open"
    /\ waiters' = waiters \cup {k}
    /\ UNCHANGED <<sockVars, psockVars, cskVars, tx_work, pc, tpsock, tmp, csk>>
-----------------------------------------------------------------------------
(* rakaia_attach of connection c through socket k.                         *)

\* The psock is listed before anything is checked.
AttachList(k, c) ==
    /\ GoTo(k, "open", "attach")
    /\ \E p \in Psocks :
          /\ pstate[p] = "unused"
          /\ pstate' = [pstate EXCEPT ![p] = "listed"]
          /\ psock_list' = <<p>> \o psock_list
          /\ tpsock' = [tpsock EXCEPT ![k] = p]
    /\ csk' = [csk EXCEPT ![k] = c]
    /\ UNCHANGED <<sockVars, waiters, psock_sk, saved, cskVars, tx_work, tmp>>

\* Mutated AttachInstall: sk_user_data is not checked.
AttachInstallNoCheck(k) ==
    LET p == tpsock[k]
        c == csk[k]
    IN  /\ GoTo(k, "attach", "open")
        /\ \/ /\ c \in Unusable
              /\ pstate' = [pstate EXCEPT ![p] = "refused"]
              /\ UNCHANGED <<psock_sk, saved, cskVars>>
           \/ /\ c \notin Unusable
              /\ psock_sk' = [psock_sk EXCEPT ![p] = c]
              /\ pstate' = [pstate EXCEPT ![p] = "attached"]
              /\ saved' = [saved EXCEPT ![p] = callbacks[c]]
              /\ sk_user_data' = [sk_user_data EXCEPT ![c] = p]
              /\ callbacks' = [callbacks EXCEPT ![c] = "psock"]
        /\ tpsock' = [tpsock EXCEPT ![k] = NULL]
        /\ csk' = [csk EXCEPT ![k] = NULL]
        /\ UNCHANGED <<sockVars, waiters, psock_list, tx_work, tmp>>

\* The rest, under lock_sock(csk) and, from the check of sk_user_data on, under
\* sk_callback_lock.  An unusable connection leaves the psock in the list with no
\* sk; one already attached frees the psock and leaves it in the list.
AttachInstall(k) ==
    LET p == tpsock[k]
        c == csk[k]
    IN  /\ GoTo(k, "attach", "open")
        /\ \/ /\ c \in Unusable
              /\ pstate' = [pstate EXCEPT ![p] = "refused"]
              /\ UNCHANGED <<psock_sk, saved, cskVars>>
           \/ /\ c \notin Unusable
              /\ sk_user_data[c] # NULL
              /\ psock_sk' = [psock_sk EXCEPT ![p] = c]
              /\ pstate' = [pstate EXCEPT ![p] = "dup"]
              /\ UNCHANGED <<saved, cskVars>>
           \/ /\ c \notin Unusable
              /\ sk_user_data[c] = NULL
              /\ psock_sk' = [psock_sk EXCEPT ![p] = c]
              /\ pstate' = [pstate EXCEPT ![p] = "attached"]
              /\ saved' = [saved EXCEPT ![p] = callbacks[c]]
              /\ sk_user_data' = [sk_user_data EXCEPT ![c] = p]
              /\ callbacks' = [callbacks EXCEPT ![c] = "psock"]
        /\ tpsock' = [tpsock EXCEPT ![k] = NULL]
        /\ csk' = [csk EXCEPT ![k] = NULL]
        /\ UNCHANGED <<sockVars, waiters, psock_list, tx_work, tmp>>

\* TCP calls sk_write_space of c; rakaia_wq runs the work item.
psock_write_space(c) ==
    /\ callbacks[c] = "psock" /\ sk_user_data[c] # NULL
    /\ tx_work' = tx_work \cup {sk_user_data[c]}
    /\ UNCHANGED <<sockVars, waiters, psockVars, cskVars, pc, tpsock, tmp, csk>>

rakaia_tx_work ==
    /\ \E p \in tx_work : tx_work' = tx_work \ {p}
    /\ UNCHANGED <<sockVars, waiters, psockVars, cskVars, pc, tpsock, tmp, csk>>
-----------------------------------------------------------------------------
(* rakaia_release.                                                         *)

\* Mutated ReleaseSlot: the count is decremented only for the last slot in use.
ReleaseSlotOnlyLast(k) ==
    /\ pc[k] = "open"
    /\ rakaia_socks' = [rakaia_socks EXCEPT ![index[k]] = NULL]
    /\ rakaia_socks_cnt' = IF index[k] = rakaia_socks_cnt - 1 THEN rakaia_socks_cnt - 1
                                                              ELSE rakaia_socks_cnt
    /\ pc' = [pc EXCEPT ![k] = IF rakaia_socks_cnt' = 0 THEN "last" ELSE "closed"]
    /\ UNCHANGED <<index, reopened, waiters, psockVars, cskVars, tx_work, tpsock, tmp, csk>>

\* Mutated ReleaseSlot: the slot of the last socket in the array is cleared.
ReleaseSlotByCount(k) ==
    /\ pc[k] = "open"
    /\ rakaia_socks' = [rakaia_socks EXCEPT ![rakaia_socks_cnt - 1] = NULL]
    /\ rakaia_socks_cnt' = rakaia_socks_cnt - 1
    /\ pc' = [pc EXCEPT ![k] = IF rakaia_socks_cnt' = 0 THEN "last" ELSE "closed"]
    /\ UNCHANGED <<index, reopened, waiters, psockVars, cskVars, tx_work, tpsock, tmp, csk>>

\* Mutated ReleaseSlot: the count is read before the decrement.
ReleaseSlotStaleCount(k) ==
    /\ pc[k] = "open"
    /\ rakaia_socks' = [rakaia_socks EXCEPT ![index[k]] = NULL]
    /\ rakaia_socks_cnt' = rakaia_socks_cnt - 1
    /\ pc' = [pc EXCEPT ![k] = IF rakaia_socks_cnt <= 2 THEN "last" ELSE "closed"]
    /\ UNCHANGED <<index, reopened, waiters, psockVars, cskVars, tx_work, tpsock, tmp, csk>>

\* Under rakaia->lock: the slot is cleared and the count read.
ReleaseSlot(k) ==
    /\ pc[k] = "open"
    /\ rakaia_socks' = [rakaia_socks EXCEPT ![index[k]] = NULL]
    /\ rakaia_socks_cnt' = rakaia_socks_cnt - 1
    /\ pc' = [pc EXCEPT ![k] = IF rakaia_socks_cnt' = 0 THEN "last" ELSE "closed"]
    /\ UNCHANGED <<index, reopened, waiters, psockVars, cskVars, tx_work, tpsock, tmp, csk>>

\* The successor of p in the list, NULL after the last one.
NextOf(p) ==
    IF \E i \in DOMAIN psock_list : i > 1 /\ psock_list[i - 1] = p
    THEN psock_list[CHOOSE i \in DOMAIN psock_list : i > 1 /\ psock_list[i - 1] = p]
    ELSE NULL

\* list_for_each_entry_safe, entered with no lock.
WalkStart(k) ==
    /\ pc[k] = "last"
    /\ IF psock_list = <<>>
       THEN pc' = [pc EXCEPT ![k] = "closed"] /\ UNCHANGED <<tpsock, tmp>>
       ELSE /\ pc' = [pc EXCEPT ![k] = "del"]
            /\ tpsock' = [tpsock EXCEPT ![k] = Head(psock_list)]
            /\ tmp' = [tmp EXCEPT ![k] = NextOf(Head(psock_list))]
    /\ UNCHANGED <<sockVars, waiters, psockVars, cskVars, tx_work, csk>>

\* release_psock, list_del_rcu under rakaia->lock.  The links of a psock deleted
\* before are poisoned; a psock freed by rakaia_attach may be intact or not.
DelPsock(k) ==
    LET p == tpsock[k]
    IN  /\ pc[k] = "del"
        /\ \/ \E i \in DOMAIN psock_list :
                 /\ psock_list[i] = p
                 /\ pc' = [pc EXCEPT ![k] = "detach"]
                 /\ psock_list' = SubSeq(psock_list, 1, i - 1)
                                  \o SubSeq(psock_list, i + 1, Len(psock_list))
           \/ /\ p \notin Range(psock_list) \/ pstate[p] = "dup"
              /\ pc' = [pc EXCEPT ![k] = "oops"]
              /\ UNCHANGED psock_list
        /\ UNCHANGED <<sockVars, waiters, pstate, psock_sk, saved, cskVars, tx_work,
                       tpsock, tmp, csk>>

\* Mutated DetachPsock: the loop reads its next element from the list after the
\* current one was deleted from it (list_for_each_entry instead of _safe).
DetachPsockNotSafe(k) ==
    LET p == tpsock[k]
        c == psock_sk[p]
    IN  \/ /\ GoTo(k, "detach", "oops")
           /\ c = NULL
           /\ UNCHANGED <<sockVars, waiters, psockVars, cskVars, tx_work, tpsock, tmp, csk>>
        \/ /\ GoTo(k, "detach", "closed")
           /\ c # NULL
           /\ sk_user_data' = [sk_user_data EXCEPT ![c] = NULL]
           /\ callbacks' = [callbacks EXCEPT ![c] = saved[p]]
           /\ pstate' = [pstate EXCEPT ![p] = IF @ = "dup" THEN @ ELSE "freed"]
           /\ tpsock' = [tpsock EXCEPT ![k] = NULL]
           /\ tmp' = [tmp EXCEPT ![k] = NULL]
           /\ UNCHANGED <<sockVars, waiters, psock_list, psock_sk, saved, tx_work, csk>>

\* The rest of release_psock: under the locks of csk its callbacks are restored,
\* then the psock is freed; and the step of the loop.
DetachPsock(k) ==
    LET p == tpsock[k]
        c == psock_sk[p]
    IN  \/ /\ GoTo(k, "detach", "oops")
           /\ c = NULL
           /\ UNCHANGED <<sockVars, waiters, psockVars, cskVars, tx_work, tpsock, tmp, csk>>
        \/ /\ GoTo(k, "detach", IF tmp[k] = NULL THEN "closed" ELSE "del")
           /\ c # NULL
           /\ sk_user_data' = [sk_user_data EXCEPT ![c] = NULL]
           /\ callbacks' = [callbacks EXCEPT ![c] = saved[p]]
           /\ pstate' = [pstate EXCEPT ![p] = IF @ = "dup" THEN @ ELSE "freed"]
           /\ tpsock' = [tpsock EXCEPT ![k] = tmp[k]]
           /\ tmp' = [tmp EXCEPT ![k] = NextOf(tmp[k])]
           /\ UNCHANGED <<sockVars, waiters, psock_list, psock_sk, saved, tx_work, csk>>
-----------------------------------------------------------------------------
rakaia_create(k) == CreateSlot(k) \/ CreateFails(k) \/ CreateList(k)

rakaia_attach(k) == AttachInstall(k) \/ \E c \in Csks : AttachList(k, c)

rakaia_release(k) == ReleaseSlot(k) \/ WalkStart(k) \/ DelPsock(k) \/ DetachPsock(k)

Next ==
    \/ \E k \in Ksks : rakaia_create(k) \/ rakaia_attach(k) \/ rakaia_release(k) \/ MarkIdle(k)
    \/ \E c \in Csks : psock_write_space(c)
    \/ PopWaiter \/ rakaia_tx_work

Spec == Init /\ [][Next]_vars
-----------------------------------------------------------------------------
Open == {k \in Ksks : pc[k] \in {"listing", "open", "attach"}}

TypeOK ==
    /\ rakaia_socks \in [Slots -> Ksks \cup {NULL}]
    /\ rakaia_socks_cnt \in 0..NUM_RAKAIA_SOCKETS
    /\ index \in [Ksks -> Slots]
    /\ reopened \in BOOLEAN
    /\ waiters \subseteq Ksks
    /\ psock_list \in Seq(Psocks) /\ IsInjective(psock_list)
    /\ pstate \in [Psocks -> {"unused", "listed", "attached", "refused", "dup", "freed"}]
    /\ psock_sk \in [Psocks -> Csks \cup {NULL}]
    /\ saved \in [Psocks -> {"tcp", "psock", NULL}]
    /\ sk_user_data \in [Csks -> Psocks \cup {NULL}]
    /\ callbacks \in [Csks -> {"tcp", "psock", NULL}]
    /\ tx_work \subseteq Psocks
    /\ pc \in [Ksks -> {"none", "refused", "listing", "open", "attach"} \cup Releasing]
    /\ tpsock \in [Ksks -> Psocks \cup {NULL}]
    /\ tmp \in [Ksks -> Psocks \cup {NULL}]
    /\ csk \in [Ksks -> Csks \cup {NULL}]

\* rakaia_socks_cnt, by which rakaia_create chooses the slot and rakaia_release
\* recognises the last socket, counts the sockets that are open, although slots
\* are cleared in any order and may be overwritten (rakaiasock.c 1224-1240,
\* 1350-1361).
CntExact == rakaia_socks_cnt = Cardinality(Open)

\* A slot never holds a released socket, and only the socket that has its index;
\* push and steal dereference the slots with no lock (rakaiasock.c 162-170,
\* 235-243, 1226, 1357).
NoDanglingSlot ==
    \A i \in Slots : rakaia_socks[i] # NULL =>
        rakaia_socks[i] \in Open /\ index[rakaia_socks[i]] = i

\* The callbacks installed on a connection find a psock that has not been freed
\* and belongs to the connection: two attaches of one connection, or an attach and
\* the release of the last socket, cannot leave it half installed (rakaiasock.c
\* 329-343, 1005-1032, 1169-1177).
ReceiverAlive ==
    \A c \in Csks :
        /\ callbacks[c] = "psock" <=> sk_user_data[c] # NULL
        /\ sk_user_data[c] # NULL => /\ pstate[sk_user_data[c]] = "attached"
                                     /\ psock_sk[sk_user_data[c]] = c

\* The array contains every open rakaia socket (the comment on rakaia_socks,
\* rakaia.h 155): a push can choose it and a thief can find its queue.  This holds
\* until a socket is opened after one was released: the new one is given the slot
\* rakaia_socks_cnt, which another may hold.
SlotOwned == ~reopened => \A k \in Open : rakaia_socks[index[k]] = k

\* A connection is detached only when the last rakaia socket is released and no
\* other exists (the comments of rakaia_release, rakaiasock.c 1189-1190, 1249),
\* until a socket is opened after one was released: that can be during the walk.
ReleaseOnlyWhenLast ==
    [][\A c \in Csks : ~reopened /\ sk_user_data[c] # NULL /\ sk_user_data'[c] = NULL => Open = {}]_vars

\* The walk over psock_list meets a psock it cannot release only if an attach
\* failed before, or a socket was opened after one was released: psocks are
\* released once, by one thread (rakaiasock.c 966-1022, 1157-1181, 1252-1259).
OopsOnlyAfterFailedAttach ==
    ~reopened /\ (\E k \in Ksks : pc[k] = "oops")
    => \E p \in Psocks : pstate[p] \in {"refused", "dup"}

\* After rakaia_release there is no reference to the rakaia socket left (the
\* comment in rakaia_release, rakaiasock.c 1261-1263).
NoOutsideRefs ==
    \A k \in Ksks : pc[k] = "closed" =>
        k \notin waiters /\ \A i \in Slots : rakaia_socks[i] # k

\* A tx_work that runs after the release just returns (the comment in
\* rakaia_release, rakaiasock.c 1212-1215): it is not queued for a freed psock.
TxWorkReturns == \A p \in tx_work : pstate[p] # "freed"

\* When the release of the last rakaia socket returns, every connection has its
\* own callbacks back (rakaiasock.c 1252-1259), unless a connection was attached
\* twice or a socket was opened after one was released.
LastDetachesAll ==
    [][\A k \in Ksks : pc[k] \in {"last", "detach"} /\ pc'[k] = "closed" /\ ~reopened =>
          \/ \A c \in Csks : sk_user_data'[c] = NULL /\ callbacks'[c] = "tcp"
          \/ \E p \in Psocks : pstate[p] = "dup"]_vars
=============================================================================
