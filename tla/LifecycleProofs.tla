-------------------------- MODULE LifecycleProofs --------------------------
(***************************************************************************)
(* The array of rakaia sockets and the callbacks of the connections stay   *)
(* consistent, for any number of sockets, connections and psocks, whatever *)
(* is created, attached and released at the same time.                     *)
(***************************************************************************)
EXTENDS Lifecycle, FiniteSetTheorems, TLAPS

OpenPC == {"listing", "open", "attach"}
PCs == {"none", "refused"} \cup OpenPC \cup Releasing

-----------------------------------------------------------------------------
(* The slots.  The count needs the finite set of open sockets.             *)

SlotIInv ==
    /\ rakaia_socks \in [Slots -> Ksks \cup {NULL}]
    /\ rakaia_socks_cnt \in Nat
    /\ index \in [Ksks -> Slots]
    /\ pc \in [Ksks -> PCs]
    /\ IsFiniteSet(Open)
    /\ CntExact
    /\ NoDanglingSlot

(* A step of k that touches no slot and leaves k as open as it was.        *)
LEMMA SlotFrame ==
    ASSUME SlotIInv, UNCHANGED sockVars, NEW k \in Ksks, NEW b \in PCs,
           pc' = [pc EXCEPT ![k] = b], pc[k] \in OpenPC <=> b \in OpenPC
    PROVE  SlotIInv'
<1>1. pc' \in [Ksks -> PCs]
  BY DEF SlotIInv
<1>2. Open' = Open
  BY DEF SlotIInv, Open, OpenPC
<1> QED
  BY <1>1, <1>2 DEF SlotIInv, CntExact, NoDanglingSlot, sockVars

LEMMA CreateSlotStep ==
    ASSUME SlotIInv, NEW k \in Ksks, CreateSlot(k)
    PROVE  SlotIInv'
<1>1. /\ pc[k] = "none" /\ pc' = [pc EXCEPT ![k] = "listing"]
      /\ rakaia_socks_cnt < NUM_RAKAIA_SOCKETS
      /\ rakaia_socks' = [rakaia_socks EXCEPT ![rakaia_socks_cnt] = k]
      /\ index' = [index EXCEPT ![k] = rakaia_socks_cnt]
      /\ rakaia_socks_cnt' = rakaia_socks_cnt + 1
  BY DEF CreateSlot, GoTo
<1>2. rakaia_socks_cnt \in Slots
  BY <1>1, LifecycleAssumption DEF SlotIInv, Slots
<1>3. pc' \in [Ksks -> PCs] /\ index' \in [Ksks -> Slots]
      /\ rakaia_socks' \in [Slots -> Ksks \cup {NULL}] /\ rakaia_socks_cnt' \in Nat
  BY <1>1, <1>2 DEF SlotIInv, PCs, OpenPC
<1>4. k \notin Open /\ Open' = Open \cup {k}
  BY <1>1 DEF SlotIInv, Open
<1>5. IsFiniteSet(Open') /\ Cardinality(Open') = Cardinality(Open) + 1
  BY <1>4, FS_AddElement DEF SlotIInv
<1>6. CntExact'
  BY <1>1, <1>5 DEF SlotIInv, CntExact
<1>7. NoDanglingSlot'
  BY <1>1, <1>2, <1>4 DEF SlotIInv, NoDanglingSlot
<1> QED
  BY <1>3, <1>5, <1>6, <1>7 DEF SlotIInv

LEMMA ReleaseSlotStep ==
    ASSUME SlotIInv, NEW k \in Ksks, ReleaseSlot(k)
    PROVE  SlotIInv'
<1>1. /\ pc[k] = "open" /\ \E b \in {"last", "closed"} : pc' = [pc EXCEPT ![k] = b]
      /\ rakaia_socks' = [rakaia_socks EXCEPT ![index[k]] = NULL]
      /\ rakaia_socks_cnt' = rakaia_socks_cnt - 1 /\ UNCHANGED index
  BY Zenon DEF ReleaseSlot
<1>2. k \in Open /\ Open' = Open \ {k}
  BY <1>1 DEF SlotIInv, Open
<1>3. IsFiniteSet(Open') /\ Cardinality(Open') = Cardinality(Open) - 1
  BY <1>2, FS_RemoveElement DEF SlotIInv
<1>4. Cardinality(Open') \in Nat
  BY <1>3, FS_CardinalityType
<1>5. CntExact' /\ rakaia_socks_cnt' \in Nat
  BY <1>1, <1>3, <1>4 DEF SlotIInv, CntExact
<1>6. pc' \in [Ksks -> PCs] /\ rakaia_socks' \in [Slots -> Ksks \cup {NULL}]
  BY <1>1 DEF SlotIInv, PCs, Releasing
<1>7. NoDanglingSlot'
  BY <1>1, <1>2 DEF SlotIInv, NoDanglingSlot
<1> QED
  BY <1>1, <1>3, <1>5, <1>6, <1>7 DEF SlotIInv

LEMMA SlotStep == SlotIInv /\ [Next]_vars => SlotIInv'
<1> SUFFICES ASSUME SlotIInv, [Next]_vars PROVE SlotIInv'
  OBVIOUS
<1> USE DEF GoTo, PCs, OpenPC, Releasing
<1>1. ASSUME NEW k \in Ksks, CreateSlot(k) PROVE SlotIInv'
  BY <1>1, CreateSlotStep
<1>2. ASSUME NEW k \in Ksks, CreateFails(k) PROVE SlotIInv'
  BY <1>2, SlotFrame, Zenon DEF CreateFails
<1>3. ASSUME NEW k \in Ksks, CreateList(k) PROVE SlotIInv'
  BY <1>3, SlotFrame, Zenon DEF CreateList
<1>4. ASSUME NEW k \in Ksks, NEW c \in Csks, AttachList(k, c) PROVE SlotIInv'
  BY <1>4, SlotFrame, Zenon DEF AttachList
<1>5. ASSUME NEW k \in Ksks, AttachInstall(k) PROVE SlotIInv'
  BY <1>5, SlotFrame, Zenon DEF AttachInstall
<1>6. ASSUME NEW k \in Ksks, ReleaseSlot(k) PROVE SlotIInv'
  BY <1>6, ReleaseSlotStep
<1>7. ASSUME NEW k \in Ksks, WalkStart(k) PROVE SlotIInv'
  <2>1. pc[k] = "last" /\ UNCHANGED sockVars /\ \E b \in {"closed", "del"} : pc' = [pc EXCEPT ![k] = b]
    BY <1>7 DEF WalkStart
  <2> QED
    BY <2>1, SlotFrame, Zenon
<1>8. ASSUME NEW k \in Ksks, DelPsock(k) PROVE SlotIInv'
  <2>1. pc[k] = "del" /\ UNCHANGED sockVars /\ \E b \in {"detach", "oops"} : pc' = [pc EXCEPT ![k] = b]
    BY <1>8 DEF DelPsock
  <2> QED
    BY <2>1, SlotFrame, Zenon
<1>9. ASSUME NEW k \in Ksks, DetachPsock(k) PROVE SlotIInv'
  <2>1. /\ pc[k] = "detach" /\ UNCHANGED sockVars
        /\ \E b \in {"oops", "closed", "del"} : pc' = [pc EXCEPT ![k] = b]
    BY <1>9 DEF DetachPsock
  <2> QED
    BY <2>1, SlotFrame, Zenon
<1>10. ASSUME UNCHANGED <<sockVars, pc>> PROVE SlotIInv'
  BY <1>10 DEF SlotIInv, CntExact, NoDanglingSlot, Open, sockVars
<1>11. ASSUME NEW k \in Ksks, MarkIdle(k) PROVE SlotIInv'
  BY <1>10, <1>11 DEF MarkIdle
<1>12. ASSUME NEW c \in Csks, psock_write_space(c) PROVE SlotIInv'
  BY <1>10, <1>12 DEF psock_write_space
<1>13. ASSUME PopWaiter \/ rakaia_tx_work \/ UNCHANGED vars PROVE SlotIInv'
  BY <1>10, <1>13 DEF PopWaiter, rakaia_tx_work, vars
<1> QED
  BY <1>1, <1>2, <1>3, <1>4, <1>5, <1>6, <1>7, <1>8, <1>9, <1>11, <1>12, <1>13
     DEF Next, rakaia_create, rakaia_attach, rakaia_release

LEMMA SlotInit == Init => SlotIInv
<1> SUFFICES ASSUME Init PROVE SlotIInv
  OBVIOUS
<1>1. Open = {}
  BY DEF Init, Open
<1>2. 0 \in Slots
  BY LifecycleAssumption DEF Slots
<1> QED
  BY <1>1, <1>2, FS_EmptySet DEF Init, SlotIInv, CntExact, NoDanglingSlot, PCs

(* rakaia_socks_cnt counts the open sockets, although slots are cleared in *)
(* any order and may be overwritten (rakaiasock.c 1224-1240, 1350-1361).   *)
THEOREM CountIsExact == Spec => []CntExact
<1>1. SlotIInv => CntExact
  BY DEF SlotIInv
<1> QED
  BY <1>1, SlotInit, SlotStep, PTL DEF Spec

(* A slot never holds a released socket, so what push and steal read from  *)
(* the array with no lock is a socket that is open (rakaiasock.c 162-170,  *)
(* 235-243, 1357).                                                         *)
THEOREM SlotsAreOpen == Spec => []NoDanglingSlot
<1>1. SlotIInv => NoDanglingSlot
  BY DEF SlotIInv
<1> QED
  BY <1>1, SlotInit, SlotStep, PTL DEF Spec

-----------------------------------------------------------------------------
(* The connections.  The argument follows the psock of a running attach:   *)
(* it is listed, has no connection yet, and no other attach has it, so a   *)
(* release that walks the list at the same time cannot free it.            *)

PStates == {"unused", "listed", "attached", "refused", "dup", "freed"}

PsockTypes ==
    /\ psock_list \in Seq(Psocks)
    /\ pstate \in [Psocks -> PStates]
    /\ psock_sk \in [Psocks -> Csks \cup {NULL}]
    /\ saved \in [Psocks -> {"tcp", "psock", NULL}]
    /\ sk_user_data \in [Csks -> Psocks \cup {NULL}]
    /\ callbacks \in [Csks -> {"tcp", "psock", NULL}]
    /\ pc \in [Ksks -> PCs]
    /\ tpsock \in [Ksks -> Psocks \cup {NULL}]
    /\ tmp \in [Ksks -> Psocks \cup {NULL}]
    /\ csk \in [Ksks -> Csks \cup {NULL}]

Attaching(k) ==
    pc[k] = "attach" => /\ tpsock[k] \in Psocks /\ csk[k] \in Csks
                        /\ pstate[tpsock[k]] = "listed"

OwnPsock ==
    \A j, k \in Ksks : pc[j] = "attach" /\ pc[k] = "attach" /\ tpsock[j] = tpsock[k] => j = k

Walking(k) == pc[k] \in {"del", "detach"} => tpsock[k] \in Psocks

PsockOK(p) ==
    /\ pstate[p] \in {"unused", "listed"} => psock_sk[p] = NULL
    /\ saved[p] # "psock"

Receiver(c) ==
    /\ callbacks[c] = "psock" <=> sk_user_data[c] # NULL
    /\ sk_user_data[c] # NULL => /\ pstate[sk_user_data[c]] = "attached"
                                 /\ psock_sk[sk_user_data[c]] = c

PsockIInv ==
    /\ PsockTypes
    /\ \A k \in Ksks : Attaching(k) /\ Walking(k)
    /\ OwnPsock
    /\ \A p \in Psocks : PsockOK(p)
    /\ \A c \in Csks : Receiver(c)

LEMMA NextOfType == PsockTypes => \A p : NextOf(p) \in Psocks \cup {NULL}
<1> SUFFICES ASSUME PsockTypes, NEW p PROVE NextOf(p) \in Psocks \cup {NULL}
  OBVIOUS
<1>1. CASE \E i \in DOMAIN psock_list : i > 1 /\ psock_list[i - 1] = p
  <2> DEFINE n == CHOOSE i \in DOMAIN psock_list : i > 1 /\ psock_list[i - 1] = p
  <2>1. n \in DOMAIN psock_list
    BY <1>1
  <2>2. psock_list[n] \in Psocks
    BY <2>1 DEF PsockTypes
  <2>3. NextOf(p) = psock_list[n]
    BY <1>1 DEF NextOf
  <2> QED
    BY <2>2, <2>3
<1>2. CASE ~\E i \in DOMAIN psock_list : i > 1 /\ psock_list[i - 1] = p
  BY <1>2 DEF NextOf
<1> QED
  BY <1>1, <1>2

(* A step of k outside attach that leaves psocks and connections alone.    *)
LEMMA PsockFrame ==
    ASSUME PsockIInv, PsockTypes', NEW k \in Ksks, pc[k] # "attach", pc'[k] # "attach",
           \A j \in Ksks \ {k} : pc'[j] = pc[j] /\ tpsock'[j] = tpsock[j] /\ csk'[j] = csk[j],
           UNCHANGED <<pstate, psock_sk, saved, cskVars>>,
           Walking(k)'
    PROVE  PsockIInv'
<1>1. \A j \in Ksks : Attaching(j)' /\ Walking(j)'
  BY DEF PsockIInv, Attaching, Walking
<1>2. OwnPsock'
  BY DEF PsockIInv, OwnPsock
<1>3. \A p \in Psocks : PsockOK(p)'
  BY DEF PsockIInv, PsockOK
<1>4. \A c \in Csks : Receiver(c)'
  BY DEF PsockIInv, Receiver, cskVars
<1> QED
  BY <1>1, <1>2, <1>3, <1>4 DEF PsockIInv

LEMMA PsockCreateSteps ==
    ASSUME PsockIInv, NEW k \in Ksks, rakaia_create(k) \/ ReleaseSlot(k)
    PROVE  PsockIInv'
<1>1. /\ UNCHANGED <<psockVars, cskVars, tpsock, tmp, csk>>
      /\ pc[k] # "attach"
      /\ \E b \in PCs \ {"attach", "del", "detach"} : pc' = [pc EXCEPT ![k] = b]
  <2>1. CASE rakaia_create(k)
    BY <2>1 DEF rakaia_create, CreateSlot, CreateFails, CreateList, GoTo, PCs, OpenPC, Releasing
  <2>2. CASE ReleaseSlot(k)
    BY <2>2, Zenon DEF ReleaseSlot, PCs, OpenPC, Releasing
  <2> QED
    BY <2>1, <2>2
<1>2. PsockTypes'
  BY <1>1 DEF PsockIInv, PsockTypes, psockVars, cskVars
<1> QED
  BY <1>1, <1>2, PsockFrame DEF PsockIInv, PsockTypes, Walking, psockVars

LEMMA PsockWalkSteps ==
    ASSUME PsockIInv, NEW k \in Ksks, WalkStart(k) \/ DelPsock(k)
    PROVE  PsockIInv'
<1> USE DEF PCs, OpenPC, Releasing
<1>1. CASE WalkStart(k)
  <2>1. /\ UNCHANGED <<psockVars, cskVars, csk>> /\ pc[k] = "last"
        /\ \/ pc' = [pc EXCEPT ![k] = "closed"] /\ UNCHANGED <<tpsock, tmp>>
           \/ /\ psock_list # <<>> /\ pc' = [pc EXCEPT ![k] = "del"]
              /\ tpsock' = [tpsock EXCEPT ![k] = Head(psock_list)]
              /\ tmp' = [tmp EXCEPT ![k] = NextOf(Head(psock_list))]
    BY <1>1 DEF WalkStart
  <2>2. psock_list # <<>> => Head(psock_list) \in Psocks
    BY DEF PsockIInv, PsockTypes
  <2>3. NextOf(Head(psock_list)) \in Psocks \cup {NULL}
    BY NextOfType DEF PsockIInv
  <2>4. PsockTypes' /\ Walking(k)'
    BY <2>1, <2>2, <2>3 DEF PsockIInv, PsockTypes, Walking, psockVars, cskVars
  <2> QED
    BY <2>1, <2>4, PsockFrame DEF PsockIInv, PsockTypes, psockVars
<1>2. CASE DelPsock(k)
  <2>1. /\ UNCHANGED <<pstate, psock_sk, saved, cskVars, tpsock, tmp, csk>> /\ pc[k] = "del"
        /\ \E b \in {"detach", "oops"} : pc' = [pc EXCEPT ![k] = b]
        /\ \/ UNCHANGED psock_list
           \/ \E i \in DOMAIN psock_list :
                 psock_list' = SubSeq(psock_list, 1, i - 1) \o SubSeq(psock_list, i + 1, Len(psock_list))
    BY <1>2, Zenon DEF DelPsock
  <2>2. psock_list' \in Seq(Psocks)
    <3>1. psock_list \in Seq(Psocks)
      BY DEF PsockIInv, PsockTypes
    <3>2. ASSUME NEW i \in DOMAIN psock_list,
                 psock_list' = SubSeq(psock_list, 1, i - 1) \o SubSeq(psock_list, i + 1, Len(psock_list))
          PROVE  psock_list' \in Seq(Psocks)
      <4>1. /\ SubSeq(psock_list, 1, i - 1) \in Seq(Psocks)
            /\ SubSeq(psock_list, i + 1, Len(psock_list)) \in Seq(Psocks)
        BY <3>1, <3>2
      <4> QED
        BY <3>2, <4>1
    <3> QED
      BY <2>1, <3>1, <3>2, Zenon
  <2>3. PsockTypes' /\ Walking(k)'
    BY <2>1, <2>2 DEF PsockIInv, PsockTypes, Walking, cskVars
  <2> QED
    BY <2>1, <2>3, PsockFrame DEF PsockIInv, PsockTypes
<1> QED
  BY <1>1, <1>2

LEMMA AttachListStep ==
    ASSUME PsockIInv, NEW k \in Ksks, NEW c \in Csks, AttachList(k, c)
    PROVE  PsockIInv'
<1>1. PICK p \in Psocks : /\ pstate[p] = "unused"
                          /\ pstate' = [pstate EXCEPT ![p] = "listed"]
                          /\ psock_list' = <<p>> \o psock_list
                          /\ tpsock' = [tpsock EXCEPT ![k] = p]
  BY Zenon DEF AttachList
<1>2. /\ pc[k] = "open" /\ pc' = [pc EXCEPT ![k] = "attach"]
      /\ csk' = [csk EXCEPT ![k] = c]
      /\ UNCHANGED <<psock_sk, saved, cskVars, tmp>>
  BY DEF AttachList, GoTo
<1>3. psock_list' \in Seq(Psocks)
  BY <1>1 DEF PsockIInv, PsockTypes
<1>4. PsockTypes'
  BY <1>1, <1>2, <1>3 DEF PsockIInv, PsockTypes, PStates, PCs, OpenPC, cskVars
<1>5. /\ pc'[k] = "attach" /\ tpsock'[k] = p /\ csk'[k] = c /\ pstate'[p] = "listed"
      /\ \A j \in Ksks \ {k} : pc'[j] = pc[j] /\ tpsock'[j] = tpsock[j] /\ csk'[j] = csk[j]
      /\ \A q \in Psocks \ {p} : pstate'[q] = pstate[q]
  BY <1>1, <1>2 DEF PsockIInv, PsockTypes
<1>6. \A j \in Ksks \ {k} : pc[j] = "attach" => tpsock[j] # p
  BY <1>1 DEF PsockIInv, Attaching
<1>7. ASSUME NEW j \in Ksks PROVE Attaching(j)' /\ Walking(j)'
  <2>1. CASE j = k
    BY <1>5, <2>1 DEF Attaching, Walking
  <2>2. CASE j # k
    BY <1>5, <1>6, <2>2 DEF PsockIInv, Attaching, Walking
  <2> QED
    BY <2>1, <2>2
<1>8. OwnPsock'
  BY <1>5, <1>6 DEF PsockIInv, OwnPsock
<1>9. \A q \in Psocks : PsockOK(q)'
  BY <1>1, <1>2, <1>5 DEF PsockIInv, PsockOK
<1>10. ASSUME NEW d \in Csks PROVE Receiver(d)'
  <2>1. sk_user_data[d] # NULL => sk_user_data[d] \in Psocks \ {p}
    BY <1>1 DEF PsockIInv, Receiver, PsockTypes
  <2> QED
    BY <1>2, <1>5, <2>1 DEF PsockIInv, Receiver, cskVars
<1> QED
  BY <1>4, <1>7, <1>8, <1>9, <1>10 DEF PsockIInv

LEMMA AttachInstallStep ==
    ASSUME PsockIInv, NEW k \in Ksks, AttachInstall(k)
    PROVE  PsockIInv'
<1> DEFINE p == tpsock[k]
           c == csk[k]
<1>1. /\ pc[k] = "attach" /\ pc' = [pc EXCEPT ![k] = "open"]
      /\ tpsock' = [tpsock EXCEPT ![k] = NULL] /\ csk' = [csk EXCEPT ![k] = NULL]
      /\ UNCHANGED <<psock_list, tmp>>
  BY DEF AttachInstall, GoTo
<1>2. p \in Psocks /\ c \in Csks /\ pstate[p] = "listed"
  BY <1>1 DEF PsockIInv, Attaching
<1>3. \A d \in Csks : sk_user_data[d] # p
  BY <1>2, LifecycleAssumption DEF PsockIInv, Receiver
<1>4. \/ /\ pstate' = [pstate EXCEPT ![p] = "refused"]
         /\ UNCHANGED <<psock_sk, saved, cskVars>>
      \/ /\ psock_sk' = [psock_sk EXCEPT ![p] = c]
         /\ pstate' = [pstate EXCEPT ![p] = "dup"]
         /\ UNCHANGED <<saved, cskVars>>
      \/ /\ sk_user_data[c] = NULL
         /\ psock_sk' = [psock_sk EXCEPT ![p] = c]
         /\ pstate' = [pstate EXCEPT ![p] = "attached"]
         /\ saved' = [saved EXCEPT ![p] = callbacks[c]]
         /\ sk_user_data' = [sk_user_data EXCEPT ![c] = p]
         /\ callbacks' = [callbacks EXCEPT ![c] = "psock"]
  BY DEF AttachInstall
<1>5. \A j \in Ksks \ {k} : pc[j] = "attach" => tpsock[j] # p
  BY <1>1 DEF PsockIInv, OwnPsock
<1> HIDE DEF p, c
<1>6. PsockTypes'
  BY <1>1, <1>2, <1>4 DEF PsockIInv, PsockTypes, PStates, PCs, OpenPC, cskVars
<1>7. /\ pc'[k] = "open" /\ \A j \in Ksks \ {k} : /\ pc'[j] = pc[j] /\ tpsock'[j] = tpsock[j]
                                                  /\ csk'[j] = csk[j]
  BY <1>1 DEF PsockIInv, PsockTypes
<1>8. /\ pstate'[p] \in {"refused", "dup", "attached"}
      /\ \A q \in Psocks \ {p} : pstate'[q] = pstate[q] /\ psock_sk'[q] = psock_sk[q] /\ saved'[q] = saved[q]
  BY <1>2, <1>4 DEF PsockIInv, PsockTypes
<1>9. ASSUME NEW j \in Ksks PROVE Attaching(j)' /\ Walking(j)'
  <2>1. CASE j = k
    BY <1>7, <2>1 DEF Attaching, Walking
  <2>2. CASE j # k
    BY <1>5, <1>7, <1>8, <2>2 DEF PsockIInv, Attaching, Walking
  <2> QED
    BY <2>1, <2>2
<1>10. OwnPsock'
  BY <1>7 DEF PsockIInv, OwnPsock
<1>11. saved'[p] # "psock"
  BY <1>2, <1>4 DEF PsockIInv, PsockTypes, PsockOK, Receiver
<1>12. \A q \in Psocks : PsockOK(q)'
  BY <1>8, <1>11 DEF PsockIInv, PsockOK
<1>13. ASSUME NEW d \in Csks PROVE Receiver(d)'
  <2>1. CASE sk_user_data'[d] = sk_user_data[d] /\ callbacks'[d] = callbacks[d]
    <3>1. sk_user_data[d] # NULL => sk_user_data[d] \in Psocks \ {p}
      BY <1>3 DEF PsockIInv, PsockTypes
    <3> QED
      BY <1>8, <2>1, <3>1 DEF PsockIInv, Receiver
  <2>2. CASE ~(sk_user_data'[d] = sk_user_data[d] /\ callbacks'[d] = callbacks[d])
    <3>1. /\ d = c /\ sk_user_data'[d] = p /\ callbacks'[d] = "psock" /\ pstate'[p] = "attached"
          /\ psock_sk'[p] = c
      BY <1>2, <1>4, <2>2 DEF PsockIInv, PsockTypes, cskVars
    <3>2. p # NULL
      BY <1>2, LifecycleAssumption
    <3> QED
      BY <3>1, <3>2 DEF Receiver
  <2> QED
    BY <2>1, <2>2
<1> QED
  BY <1>6, <1>9, <1>10, <1>12, <1>13 DEF PsockIInv

LEMMA DetachStep ==
    ASSUME PsockIInv, NEW k \in Ksks, DetachPsock(k)
    PROVE  PsockIInv'
<1> DEFINE p == tpsock[k]
           c == psock_sk[p]
<1>1. CASE pc' = [pc EXCEPT ![k] = "oops"] /\ UNCHANGED <<psockVars, cskVars, tpsock, tmp, csk>>
  <2>1. PsockTypes'
    BY <1>1 DEF PsockIInv, PsockTypes, PCs, Releasing, psockVars, cskVars
  <2>2. pc[k] = "detach"
    BY DEF DetachPsock, GoTo
  <2> QED
    BY <1>1, <2>1, <2>2, PsockFrame DEF PsockIInv, PsockTypes, Walking, psockVars
<1>2. CASE /\ pc' = [pc EXCEPT ![k] = IF tmp[k] = NULL THEN "closed" ELSE "del"]
           /\ c # NULL
           /\ sk_user_data' = [sk_user_data EXCEPT ![c] = NULL]
           /\ callbacks' = [callbacks EXCEPT ![c] = saved[p]]
           /\ pstate' = [pstate EXCEPT ![p] = IF @ = "dup" THEN @ ELSE "freed"]
           /\ tpsock' = [tpsock EXCEPT ![k] = tmp[k]]
           /\ tmp' = [tmp EXCEPT ![k] = NextOf(tmp[k])]
           /\ UNCHANGED <<psock_list, psock_sk, saved, csk>>
  <2>1. pc[k] = "detach" /\ p \in Psocks
    BY DEF DetachPsock, GoTo, PsockIInv, Walking
  <2>2. c \in Csks /\ saved[p] # "psock" /\ pstate[p] \notin {"unused", "listed"}
    BY <1>2, <2>1 DEF PsockIInv, PsockTypes, PsockOK
  <2>3. NextOf(tmp[k]) \in Psocks \cup {NULL}
    BY NextOfType DEF PsockIInv
  <2> HIDE DEF p, c
  <2>4. PsockTypes'
    BY <1>2, <2>1, <2>2, <2>3 DEF PsockIInv, PsockTypes, PStates, PCs, Releasing
  <2>5. /\ pc'[k] \in {"closed", "del"} /\ tpsock'[k] = tmp[k]
        /\ pc'[k] = "del" => tmp[k] \in Psocks
        /\ \A j \in Ksks \ {k} : pc'[j] = pc[j] /\ tpsock'[j] = tpsock[j] /\ csk'[j] = csk[j]
        /\ \A q \in Psocks \ {p} : pstate'[q] = pstate[q]
        /\ pstate'[p] \in {"dup", "freed"}
    BY <1>2, <2>1 DEF PsockIInv, PsockTypes
  <2>6. \A j \in Ksks : Attaching(j)' /\ Walking(j)'
    BY <2>1, <2>2, <2>5 DEF PsockIInv, Attaching, Walking
  <2>7. OwnPsock'
    BY <2>5 DEF PsockIInv, OwnPsock
  <2>8. \A q \in Psocks : PsockOK(q)'
    BY <1>2, <2>5 DEF PsockIInv, PsockOK
  <2>9. ASSUME NEW d \in Csks PROVE Receiver(d)'
    <3>1. CASE d = c
      BY <1>2, <2>2, <3>1 DEF PsockIInv, PsockTypes, Receiver
    <3>2. CASE d # c
      <4>1. sk_user_data'[d] = sk_user_data[d] /\ callbacks'[d] = callbacks[d]
        BY <1>2, <3>2 DEF PsockIInv, PsockTypes
      <4>2. sk_user_data[d] # NULL => sk_user_data[d] \in Psocks \ {p}
        BY <3>2 DEF PsockIInv, PsockTypes, Receiver, c
      <4> QED
        BY <1>2, <2>5, <4>1, <4>2 DEF PsockIInv, Receiver
    <3> QED
      BY <3>1, <3>2
  <2> QED
    BY <2>4, <2>6, <2>7, <2>8, <2>9 DEF PsockIInv
<1> QED
  BY <1>1, <1>2 DEF DetachPsock, GoTo

LEMMA PsockStep == PsockIInv /\ [Next]_vars => PsockIInv'
<1> SUFFICES ASSUME PsockIInv, [Next]_vars PROVE PsockIInv'
  OBVIOUS
<1>1. ASSUME NEW k \in Ksks, rakaia_create(k) \/ ReleaseSlot(k) PROVE PsockIInv'
  BY <1>1, PsockCreateSteps
<1>2. ASSUME NEW k \in Ksks, WalkStart(k) \/ DelPsock(k) PROVE PsockIInv'
  BY <1>2, PsockWalkSteps
<1>3. ASSUME NEW k \in Ksks, DetachPsock(k) PROVE PsockIInv'
  BY <1>3, DetachStep
<1>4. ASSUME NEW k \in Ksks, rakaia_attach(k) PROVE PsockIInv'
  BY <1>4, AttachListStep, AttachInstallStep DEF rakaia_attach
<1>5. ASSUME UNCHANGED <<psockVars, cskVars, pc, tpsock, tmp, csk>> PROVE PsockIInv'
  BY <1>5 DEF PsockIInv, PsockTypes, Attaching, Walking, OwnPsock, PsockOK, Receiver,
              psockVars, cskVars
<1>6. ASSUME NEW k \in Ksks, MarkIdle(k) PROVE PsockIInv'
  BY <1>5, <1>6 DEF MarkIdle
<1>7. ASSUME NEW c \in Csks, psock_write_space(c) PROVE PsockIInv'
  BY <1>5, <1>7 DEF psock_write_space
<1>8. ASSUME PopWaiter \/ rakaia_tx_work \/ UNCHANGED vars PROVE PsockIInv'
  BY <1>5, <1>8 DEF PopWaiter, rakaia_tx_work, vars
<1> QED
  BY <1>1, <1>2, <1>3, <1>4, <1>6, <1>7, <1>8 DEF Next, rakaia_release

LEMMA PsockInit == Init => PsockIInv
<1> SUFFICES ASSUME Init PROVE PsockIInv
  OBVIOUS
<1>1. PsockTypes
  BY DEF Init, PsockTypes, PStates, PCs
<1>2. (\A k \in Ksks : Attaching(k) /\ Walking(k)) /\ OwnPsock
  BY DEF Init, Attaching, Walking, OwnPsock
<1>3. \A p \in Psocks : PsockOK(p)
  BY LifecycleAssumption DEF Init, PsockOK
<1>4. \A c \in Csks : Receiver(c)
  BY DEF Init, Receiver
<1> QED
  BY <1>1, <1>2, <1>3, <1>4 DEF PsockIInv

(* The callbacks of a connection find a psock that belongs to it and has   *)
(* not been freed, whatever attaches and releases run at the same time     *)
(* (rakaiasock.c 329-343, 1005-1032, 1169-1177).                           *)
THEOREM ReceiversAreAlive == Spec => []ReceiverAlive
<1>1. PsockIInv => ReceiverAlive
  BY DEF PsockIInv, Receiver, ReceiverAlive
<1> QED
  BY <1>1, PsockInit, PsockStep, PTL DEF Spec
-----------------------------------------------------------------------------
(* As long as no socket is opened after one was released (~reopened).      *)

WalkPC == {"last", "del", "detach"}

Owned == \A k \in Open : rakaia_socks[index[k]] = k

\* Until the first release the slots from the count on are free, and the walk over
\* psock_list is done by one thread, when no socket is open.
Fresh ==
    (\A j \in Ksks : pc[j] \notin Releasing) =>
        \A i \in Slots : i >= rakaia_socks_cnt => rakaia_socks[i] = NULL

WalkerAlone ==
    \A k \in Ksks : pc[k] \in WalkPC => /\ Open = {}
                                        /\ \A j \in Ksks : pc[j] \in WalkPC => j = k

ServerIInv ==
    /\ SlotIInv
    /\ Owned
    /\ Fresh
    /\ WalkerAlone

(* A step of k that touches no slot and takes k neither in nor out of the  *)
(* open and the releasing sockets.                                         *)
LEMMA ServerFrame ==
    ASSUME ServerIInv, UNCHANGED sockVars, NEW k \in Ksks, NEW b \in PCs,
           pc' = [pc EXCEPT ![k] = b], pc[k] \in OpenPC <=> b \in OpenPC,
           pc[k] \in Releasing <=> b \in Releasing, b \in WalkPC => pc[k] \in WalkPC
    PROVE  ServerIInv'
<1>1. SlotIInv'
  BY SlotFrame, Zenon DEF ServerIInv
<1>2. pc \in [Ksks -> PCs]
  BY DEF ServerIInv, SlotIInv
<1>3. Open' = Open
  BY <1>2 DEF Open, OpenPC
<1>4. /\ \A j \in Ksks : pc'[j] \in Releasing <=> pc[j] \in Releasing
      /\ \A j \in Ksks : pc'[j] \in WalkPC => pc[j] \in WalkPC
  BY <1>2
<1>5. Owned' /\ Fresh'
  BY <1>3, <1>4 DEF ServerIInv, Owned, Fresh, sockVars
<1>6. WalkerAlone'
  BY <1>3, <1>4 DEF ServerIInv, WalkerAlone
<1> QED
  BY <1>1, <1>5, <1>6 DEF ServerIInv

LEMMA ServerCreate ==
    ASSUME ~reopened', ServerIInv, NEW k \in Ksks, CreateSlot(k)
    PROVE  ServerIInv'
<1>1. SlotIInv'
  BY CreateSlotStep DEF ServerIInv
<1>2. /\ \A j \in Ksks : pc[j] \notin Releasing
      /\ pc[k] = "none" /\ pc' = [pc EXCEPT ![k] = "listing"]
      /\ rakaia_socks' = [rakaia_socks EXCEPT ![rakaia_socks_cnt] = k]
      /\ index' = [index EXCEPT ![k] = rakaia_socks_cnt]
      /\ rakaia_socks_cnt < NUM_RAKAIA_SOCKETS
      /\ rakaia_socks_cnt' = rakaia_socks_cnt + 1
  BY DEF CreateSlot, GoTo
<1>t. /\ rakaia_socks \in [Slots -> Ksks \cup {NULL}] /\ rakaia_socks_cnt \in Nat
      /\ index \in [Ksks -> Slots] /\ pc \in [Ksks -> PCs]
      /\ rakaia_socks_cnt \in Slots
  BY <1>2, LifecycleAssumption DEF ServerIInv, SlotIInv, Slots
<1>3. Open' = Open \cup {k}
  BY <1>2, <1>t DEF Open
<1>4. rakaia_socks[rakaia_socks_cnt] = NULL
  BY <1>2, <1>t DEF ServerIInv, Fresh
<1>5. \A j \in Open : j # k /\ j \in Ksks /\ index[j] # rakaia_socks_cnt /\ rakaia_socks[index[j]] = j
  BY <1>2, <1>4, LifecycleAssumption DEF ServerIInv, Owned, Open
<1>6. Owned'
  BY <1>2, <1>3, <1>5, <1>t DEF Owned
<1>7. Fresh'
  <2>1. \A i \in Slots : i >= rakaia_socks_cnt + 1 => i # rakaia_socks_cnt /\ rakaia_socks[i] = NULL
    BY <1>2, <1>t DEF ServerIInv, Fresh, Slots
  <2> QED
    BY <1>2, <1>t, <2>1 DEF Fresh
<1>8. \A j \in Ksks : pc'[j] \notin WalkPC
  BY <1>2, <1>t DEF WalkPC, Releasing
<1>9. WalkerAlone'
  BY <1>8 DEF WalkerAlone
<1> QED
  BY <1>1, <1>6, <1>7, <1>9 DEF ServerIInv

LEMMA ServerRelease ==
    ASSUME ServerIInv, NEW k \in Ksks, ReleaseSlot(k)
    PROVE  ServerIInv'
<1>1. SlotIInv'
  BY ReleaseSlotStep DEF ServerIInv
<1>2. /\ pc[k] = "open"
      /\ pc' = [pc EXCEPT ![k] = IF rakaia_socks_cnt' = 0 THEN "last" ELSE "closed"]
      /\ rakaia_socks' = [rakaia_socks EXCEPT ![index[k]] = NULL] /\ UNCHANGED index
  BY DEF ReleaseSlot
<1>t. /\ rakaia_socks \in [Slots -> Ksks \cup {NULL}]
      /\ index \in [Ksks -> Slots] /\ pc \in [Ksks -> PCs]
  BY DEF ServerIInv, SlotIInv
<1>3. k \in Open /\ Open' = Open \ {k} /\ Open \subseteq Ksks
  BY <1>2, <1>t DEF Open
<1>4. \A j \in Open \ {k} : index[j] # index[k] /\ rakaia_socks[index[j]] = j
  BY <1>3 DEF ServerIInv, Owned
<1>5. Owned'
  BY <1>2, <1>3, <1>4, <1>t DEF Owned
<1>6. pc'[k] \in {"last", "closed"} /\ \A j \in Ksks \ {k} : pc'[j] = pc[j] /\ pc[j] \notin WalkPC
  BY <1>2, <1>3, <1>t DEF ServerIInv, WalkerAlone
<1>7. Fresh'
  BY <1>6 DEF Fresh, Releasing
<1>8. pc'[k] = "last" => Open' = {}
  <2>1. pc'[k] = "last" => rakaia_socks_cnt' = 0
    BY <1>2, <1>t
  <2>2. IsFiniteSet(Open') /\ rakaia_socks_cnt' = Cardinality(Open')
    BY <1>1 DEF SlotIInv, CntExact
  <2> QED
    BY <2>1, <2>2, FS_EmptySet
<1>9. WalkerAlone'
  BY <1>6, <1>8 DEF WalkerAlone, WalkPC
<1> QED
  BY <1>1, <1>5, <1>7, <1>9 DEF ServerIInv

LEMMA ServerStep == ~reopened' /\ ServerIInv /\ [Next]_vars => ServerIInv'
<1> SUFFICES ASSUME ~reopened', ServerIInv, [Next]_vars PROVE ServerIInv'
  OBVIOUS
<1> USE DEF GoTo, PCs, OpenPC, Releasing, WalkPC
<1>1. ASSUME NEW k \in Ksks, CreateSlot(k) PROVE ServerIInv'
  BY <1>1, ServerCreate
<1>2. ASSUME NEW k \in Ksks, CreateFails(k) PROVE ServerIInv'
  BY <1>2, ServerFrame, Zenon DEF CreateFails
<1>3. ASSUME NEW k \in Ksks, CreateList(k) PROVE ServerIInv'
  BY <1>3, ServerFrame, Zenon DEF CreateList
<1>4. ASSUME NEW k \in Ksks, NEW c \in Csks, AttachList(k, c) PROVE ServerIInv'
  BY <1>4, ServerFrame, Zenon DEF AttachList
<1>5. ASSUME NEW k \in Ksks, AttachInstall(k) PROVE ServerIInv'
  BY <1>5, ServerFrame, Zenon DEF AttachInstall
<1>6. ASSUME NEW k \in Ksks, ReleaseSlot(k) PROVE ServerIInv'
  BY <1>6, ServerRelease
<1>7. ASSUME NEW k \in Ksks, WalkStart(k) PROVE ServerIInv'
  <2>1. pc[k] = "last" /\ UNCHANGED sockVars /\ \E b \in {"closed", "del"} : pc' = [pc EXCEPT ![k] = b]
    BY <1>7 DEF WalkStart
  <2> QED
    BY <2>1, ServerFrame, Zenon
<1>8. ASSUME NEW k \in Ksks, DelPsock(k) PROVE ServerIInv'
  <2>1. pc[k] = "del" /\ UNCHANGED sockVars /\ \E b \in {"detach", "oops"} : pc' = [pc EXCEPT ![k] = b]
    BY <1>8 DEF DelPsock
  <2> QED
    BY <2>1, ServerFrame, Zenon
<1>9. ASSUME NEW k \in Ksks, DetachPsock(k) PROVE ServerIInv'
  <2>1. /\ pc[k] = "detach" /\ UNCHANGED sockVars
        /\ \E b \in {"oops", "closed", "del"} : pc' = [pc EXCEPT ![k] = b]
    BY <1>9 DEF DetachPsock
  <2> QED
    BY <2>1, ServerFrame, Zenon
<1>10. ASSUME UNCHANGED <<sockVars, pc>> PROVE ServerIInv'
  BY <1>10 DEF ServerIInv, SlotIInv, CntExact, NoDanglingSlot, Owned, Fresh, WalkerAlone,
               Open, sockVars
<1>11. ASSUME NEW k \in Ksks, MarkIdle(k) PROVE ServerIInv'
  BY <1>10, <1>11 DEF MarkIdle
<1>12. ASSUME NEW c \in Csks, psock_write_space(c) PROVE ServerIInv'
  BY <1>10, <1>12 DEF psock_write_space
<1>13. ASSUME PopWaiter \/ rakaia_tx_work \/ UNCHANGED vars PROVE ServerIInv'
  BY <1>10, <1>13 DEF PopWaiter, rakaia_tx_work, vars
<1> QED
  BY <1>1, <1>2, <1>3, <1>4, <1>5, <1>6, <1>7, <1>8, <1>9, <1>11, <1>12, <1>13
     DEF Next, rakaia_create, rakaia_attach, rakaia_release

LEMMA ServerInit == Init => ServerIInv
<1> SUFFICES ASSUME Init PROVE ServerIInv
  OBVIOUS
<1>1. SlotIInv
  BY SlotInit
<1>2. Open = {} /\ \A k \in Ksks : pc[k] \notin WalkPC
  BY DEF Init, Open, WalkPC
<1> QED
  BY <1>1, <1>2 DEF Init, ServerIInv, Owned, Fresh, WalkerAlone

ServerInv == ~reopened => ServerIInv

(* Nothing resets reopened.                                                *)
LEMMA ReopenedStays == [Next]_vars /\ ~reopened' => ~reopened
  BY DEF Next, rakaia_create, rakaia_attach, rakaia_release, CreateSlot, CreateFails, CreateList,
         AttachList, AttachInstall, ReleaseSlot, WalkStart, DelPsock, DetachPsock, MarkIdle,
         psock_write_space, PopWaiter, rakaia_tx_work, vars, sockVars

LEMMA ServerAlways == Spec => []ServerInv
<1>1. Init => ServerInv
  BY ServerInit DEF ServerInv
<1>2. ServerInv /\ [Next]_vars => ServerInv'
  BY ServerStep, ReopenedStays DEF ServerInv
<1> QED
  BY <1>1, <1>2, PTL DEF Spec

(* The array contains every open rakaia socket until one is opened after   *)
(* another was released (rakaia.h 155, rakaiasock.c 1224-1240, 1350-1361). *)
THEOREM SlotsAreOwned == Spec => []SlotOwned
<1>1. ServerInv => SlotOwned
  BY DEF ServerInv, ServerIInv, SlotOwned, Owned
<1> QED
  BY <1>1, ServerAlways, PTL

(* A connection loses its psock only in the release of the last rakaia     *)
(* socket, when no other is open, until a socket is opened after one was   *)
(* released (rakaiasock.c 1189-1190, 1249).                                *)
THEOREM DetachedByTheLast == Spec => ReleaseOnlyWhenLast
<1>1. PsockIInv /\ ServerInv /\ [Next]_vars
      => [\A c \in Csks : ~reopened /\ sk_user_data[c] # NULL /\ sk_user_data'[c] = NULL
                         => Open = {}]_vars
  <2> SUFFICES ASSUME PsockIInv, ServerIInv, [Next]_vars, NEW c \in Csks,
                      sk_user_data[c] # NULL, sk_user_data'[c] = NULL
               PROVE  Open = {}
    BY DEF vars, ServerInv
  <2>1. ASSUME NEW k \in Ksks, AttachInstall(k) PROVE FALSE
    <3>1. pc[k] = "attach" /\ tpsock[k] \in Psocks
      BY <2>1 DEF AttachInstall, GoTo, PsockIInv, Attaching
    <3>2. \/ UNCHANGED cskVars
          \/ sk_user_data' = [sk_user_data EXCEPT ![csk[k]] = tpsock[k]]
      BY <2>1 DEF AttachInstall
    <3> QED
      BY <3>1, <3>2, LifecycleAssumption DEF PsockIInv, PsockTypes, cskVars
  <2>2. ASSUME NEW k \in Ksks, DetachPsock(k) PROVE Open = {}
    BY <2>2 DEF DetachPsock, GoTo, ServerIInv, WalkerAlone, WalkPC
  <2>3. ASSUME UNCHANGED cskVars PROVE FALSE
    BY <2>3 DEF cskVars
  <2> QED
    BY <2>1, <2>2, <2>3, Zenon DEF Next, rakaia_create, rakaia_attach, rakaia_release, CreateSlot,
       CreateFails, CreateList, AttachList, ReleaseSlot, WalkStart, DelPsock, MarkIdle,
       psock_write_space, PopWaiter, rakaia_tx_work, vars
<1> QED
  BY <1>1, ServerAlways, PsockInit, PsockStep, PTL DEF Spec, ReleaseOnlyWhenLast

(* psock_list during the walk: the walker is at its head, and what it      *)
(* cannot release is what a failed attach left there.                      *)

FailedAttach == \E p \in Psocks : pstate[p] \in {"refused", "dup"}

OopsExplained == (\E k \in Ksks : pc[k] = "oops") => \E p \in Psocks : pstate[p] \in {"refused", "dup"}

Linked(p) ==
    /\ pstate[p] \in {"listed", "attached", "refused", "dup"}
    /\ pstate[p] = "listed" => \E k \in Ksks : pc[k] = "attach" /\ tpsock[k] = p

HasSk(p) == /\ pstate[p] \in {"attached", "dup"} => psock_sk[p] # NULL
            /\ pstate[p] = "refused" => psock_sk[p] = NULL

Second == IF Len(psock_list) >= 2 THEN psock_list[2] ELSE NULL

AtHead(k) ==
    /\ pc[k] = "del" => psock_list # <<>> /\ tpsock[k] = Head(psock_list) /\ tmp[k] = Second
    /\ pc[k] = "detach" =>
          /\ pstate[tpsock[k]] \in {"attached", "refused", "dup"}
          /\ tpsock[k] \notin Range(psock_list)
          /\ tmp[k] = IF psock_list = <<>> THEN NULL ELSE Head(psock_list)

ListIInv ==
    /\ IsInjective(psock_list)
    /\ \A p \in Range(psock_list) : Linked(p)
    /\ \A p \in Psocks : HasSk(p)
    /\ \A k \in Ksks : AtHead(k)
    /\ OopsExplained

(* After the head of the list comes its second element.                    *)
LEMMA NextOfHead ==
    ASSUME psock_list \in Seq(Psocks), IsInjective(psock_list), psock_list # <<>>
    PROVE  NextOf(Head(psock_list)) = Second
<1>1. Head(psock_list) = psock_list[1] /\ DOMAIN psock_list = 1..Len(psock_list) /\ Len(psock_list) \in Nat
  OBVIOUS
<1>2. \A i \in DOMAIN psock_list : i > 1 /\ psock_list[i - 1] = psock_list[1] <=> i = 2
  BY <1>1 DEF IsInjective
<1>3. CASE Len(psock_list) >= 2
  <2>1. 2 \in DOMAIN psock_list
    BY <1>1, <1>3
  <2>2. (CHOOSE i \in DOMAIN psock_list : i > 1 /\ psock_list[i - 1] = psock_list[1]) = 2
    BY <1>2, <2>1
  <2> QED
    BY <1>1, <1>2, <1>3, <2>1, <2>2 DEF NextOf, Second
<1>4. CASE ~(Len(psock_list) >= 2)
  BY <1>1, <1>2, <1>4 DEF NextOf, Second
<1> QED
  BY <1>3, <1>4

(* A step that leaves the list and its psocks alone.  A walker keeps its   *)
(* place, and an attach in progress goes on.                               *)
LEMMA ListFrame ==
    ASSUME ListIInv, UNCHANGED <<psockVars, tpsock, tmp>>, NEW k \in Ksks, NEW b \in PCs,
           pc \in [Ksks -> PCs], pc' = [pc EXCEPT ![k] = b], pc[k] # "attach",
           b \notin {"del", "detach", "oops"}
    PROVE  ListIInv'
<1>1. \A j \in Ksks : /\ pc'[j] \in {"del", "detach", "oops"} => pc'[j] = pc[j]
                      /\ pc[j] = "attach" => pc'[j] = "attach"
  OBVIOUS
<1>2. \A p \in Psocks : HasSk(p)'
  BY DEF ListIInv, HasSk, psockVars
<1>3. \A p \in Range(psock_list') : Linked(p)'
  BY <1>1 DEF ListIInv, Linked, psockVars
<1>4. \A j \in Ksks : AtHead(j)'
  BY <1>1 DEF ListIInv, AtHead, Second, psockVars
<1>5. OopsExplained'
  BY <1>1 DEF ListIInv, OopsExplained, psockVars
<1> QED
  BY <1>2, <1>3, <1>4, <1>5 DEF ListIInv, psockVars

LEMMA ListAttach ==
    ASSUME ServerIInv, PsockIInv, ListIInv, NEW k \in Ksks, NEW c \in Csks, AttachList(k, c)
    PROVE  ListIInv'
<1>1. PICK p \in Psocks : /\ pstate[p] = "unused"
                          /\ pstate' = [pstate EXCEPT ![p] = "listed"]
                          /\ psock_list' = <<p>> \o psock_list
                          /\ tpsock' = [tpsock EXCEPT ![k] = p]
  BY Zenon DEF AttachList
<1>2. pc[k] = "open" /\ pc' = [pc EXCEPT ![k] = "attach"] /\ UNCHANGED psock_sk
  BY DEF AttachList, GoTo
<1>t. /\ psock_list \in Seq(Psocks) /\ pc \in [Ksks -> PCs] /\ pstate \in [Psocks -> PStates]
      /\ tpsock \in [Ksks -> Psocks \cup {NULL}]
  BY DEF PsockIInv, PsockTypes
<1>3. /\ DOMAIN psock_list' = 1..(Len(psock_list) + 1) /\ DOMAIN psock_list = 1..Len(psock_list)
      /\ Len(psock_list) \in Nat /\ psock_list'[1] = p
      /\ \A i \in 2..(Len(psock_list) + 1) : psock_list'[i] = psock_list[i - 1]
  BY <1>1, <1>t
<1>4. Range(psock_list) \subseteq Psocks \ {p} /\ Range(psock_list') = Range(psock_list) \cup {p}
  <2>1. Range(psock_list) \subseteq Psocks
    BY <1>t DEF Range
  <2>2. p \notin Range(psock_list)
    BY <1>1 DEF ListIInv, Linked
  <2>3. \A i \in 1..Len(psock_list) : i + 1 \in 2..(Len(psock_list) + 1) /\ (i + 1) - 1 = i
    BY <1>3
  <2>4. \A i \in 1..Len(psock_list) : psock_list[i] = psock_list'[i + 1] /\ i + 1 \in DOMAIN psock_list'
    BY <1>3, <2>3
  <2>7. Range(psock_list) \subseteq Range(psock_list')
    BY <1>3, <2>4 DEF Range
  <2>5. Range(psock_list') \subseteq Range(psock_list) \cup {p}
    BY <1>3 DEF Range
  <2>6. p \in Range(psock_list')
    BY <1>3 DEF Range
  <2> QED
    BY <2>1, <2>2, <2>5, <2>6, <2>7
<1>5. IsInjective(psock_list')
  <2>1. \A i \in 1..Len(psock_list) : psock_list[i] # p
    BY <1>3, <1>4 DEF Range
  <2> SUFFICES ASSUME NEW i \in DOMAIN psock_list', NEW j \in DOMAIN psock_list',
                      psock_list'[i] = psock_list'[j]
               PROVE  i = j
    BY DEF IsInjective
  <2>2. CASE i = 1 \/ j = 1
    <3>1. \A n \in 2..(Len(psock_list) + 1) : psock_list'[n] # p
      BY <1>3, <2>1
    <3> QED
      BY <1>3, <2>2, <3>1
  <2>3. CASE i # 1 /\ j # 1
    <3>1. /\ i - 1 \in DOMAIN psock_list /\ j - 1 \in DOMAIN psock_list
          /\ psock_list[i - 1] = psock_list[j - 1]
      BY <1>3, <2>3
    <3>2. i - 1 = j - 1
      BY <3>1 DEF ListIInv, IsInjective
    <3> QED
      BY <1>3, <3>2
  <2> QED
    BY <2>2, <2>3
<1>6. \A j \in Ksks \ {k} : pc'[j] = pc[j] /\ tpsock'[j] = tpsock[j]
  BY <1>1, <1>2, <1>t
<1>7. ASSUME NEW q \in Range(psock_list) PROVE Linked(q)'
  <2>1. Linked(q) /\ q \in Psocks /\ q # p /\ pstate'[q] = pstate[q]
    BY <1>1, <1>4, <1>t DEF ListIInv
  <2>2. \A j \in Ksks : pc[j] = "attach" => pc'[j] = "attach" /\ tpsock'[j] = tpsock[j]
    BY <1>2, <1>6
  <2> QED
    BY <2>1, <2>2 DEF Linked
<1>8. Linked(p)'
  BY <1>1, <1>2, <1>t DEF Linked
<1>9. \A q \in Range(psock_list') : Linked(q)'
  BY <1>4, <1>7, <1>8
<1>10. \A q \in Psocks : HasSk(q)'
  BY <1>1, <1>2, <1>t DEF ListIInv, HasSk
<1>11. \A j \in Ksks : pc'[j] \notin WalkPC
  <2>1. k \in Open
    BY <1>2 DEF Open
  <2> QED
    BY <1>2, <1>6, <1>t, <2>1 DEF ServerIInv, WalkerAlone, WalkPC
<1>12. \A j \in Ksks : AtHead(j)'
  BY <1>11, Zenon DEF AtHead, WalkPC
<1>13. OopsExplained'
  BY <1>1, <1>2, <1>6, <1>t DEF ListIInv, OopsExplained
<1> QED
  BY <1>5, <1>9, <1>10, <1>12, <1>13 DEF ListIInv

LEMMA ListInstall ==
    ASSUME ServerIInv, PsockIInv, ListIInv, NEW k \in Ksks, AttachInstall(k)
    PROVE  ListIInv'
<1> DEFINE p == tpsock[k]
           c == csk[k]
<1>1. /\ pc[k] = "attach" /\ pc' = [pc EXCEPT ![k] = "open"]
      /\ tpsock' = [tpsock EXCEPT ![k] = NULL] /\ UNCHANGED psock_list
  BY DEF AttachInstall, GoTo
<1>2. p \in Psocks /\ c \in Csks /\ pstate[p] = "listed" /\ c # NULL /\ psock_sk[p] = NULL
  BY <1>1, LifecycleAssumption DEF PsockIInv, Attaching, PsockOK
<1>3. \/ pstate' = [pstate EXCEPT ![p] = "refused"] /\ UNCHANGED psock_sk
      \/ /\ psock_sk' = [psock_sk EXCEPT ![p] = c]
         /\ \E b \in {"dup", "attached"} : pstate' = [pstate EXCEPT ![p] = b]
  BY DEF AttachInstall
<1>t. /\ psock_list \in Seq(Psocks) /\ pc \in [Ksks -> PCs] /\ pstate \in [Psocks -> PStates]
      /\ tpsock \in [Ksks -> Psocks \cup {NULL}] /\ psock_sk \in [Psocks -> Csks \cup {NULL}]
  BY DEF PsockIInv, PsockTypes
<1> HIDE DEF p, c
<1>4. /\ \A j \in Ksks \ {k} : pc'[j] = pc[j] /\ tpsock'[j] = tpsock[j]
      /\ \A q \in Psocks \ {p} : pstate'[q] = pstate[q] /\ psock_sk'[q] = psock_sk[q]
      /\ pstate'[p] \in {"refused", "dup", "attached"} /\ pc'[k] = "open"
  BY <1>1, <1>2, <1>3, <1>t
<1>5. ASSUME NEW q \in Range(psock_list) PROVE Linked(q)'
  <2>1. Linked(q) /\ q \in Psocks
    BY <1>t DEF ListIInv, Range
  <2>2. CASE q = p
    BY <1>4, <2>2 DEF Linked
  <2>3. CASE q # p
    <3>1. pstate'[q] = pstate[q] /\ tpsock[k] # q
      BY <1>4, <2>1, <2>3 DEF p
    <3> QED
      BY <1>4, <2>1, <3>1 DEF Linked
  <2> QED
    BY <2>2, <2>3
<1>6. \A q \in Range(psock_list') : Linked(q)'
  BY <1>1, <1>5
<1>7. ASSUME NEW q \in Psocks PROVE HasSk(q)'
  <2>1. CASE q = p
    BY <1>2, <1>3, <1>t, <2>1 DEF HasSk
  <2>2. CASE q # p
    BY <1>4, <2>2 DEF ListIInv, HasSk
  <2> QED
    BY <2>1, <2>2
<1>8. \A j \in Ksks : pc'[j] \notin WalkPC
  <2>1. k \in Open
    BY <1>1 DEF Open
  <2> QED
    BY <1>4, <2>1 DEF ServerIInv, WalkerAlone, WalkPC
<1>9. \A j \in Ksks : AtHead(j)'
  BY <1>8 DEF AtHead, WalkPC
<1>10. OopsExplained'
  BY <1>2, <1>4 DEF ListIInv, OopsExplained
<1> QED
  BY <1>1, <1>6, <1>7, <1>9, <1>10 DEF ListIInv

LEMMA ListWalkStart ==
    ASSUME ServerIInv, PsockIInv, ListIInv, NEW k \in Ksks, WalkStart(k)
    PROVE  ListIInv'
<1>1. /\ pc[k] = "last" /\ UNCHANGED psockVars
      /\ \/ pc' = [pc EXCEPT ![k] = "closed"] /\ UNCHANGED <<tpsock, tmp>>
         \/ /\ psock_list # <<>> /\ pc' = [pc EXCEPT ![k] = "del"]
            /\ tpsock' = [tpsock EXCEPT ![k] = Head(psock_list)]
            /\ tmp' = [tmp EXCEPT ![k] = NextOf(Head(psock_list))]
  BY DEF WalkStart
<1>t. /\ psock_list \in Seq(Psocks) /\ pc \in [Ksks -> PCs]
      /\ tpsock \in [Ksks -> Psocks \cup {NULL}] /\ tmp \in [Ksks -> Psocks \cup {NULL}]
  BY DEF PsockIInv, PsockTypes
<1>2. CASE pc' = [pc EXCEPT ![k] = "closed"] /\ UNCHANGED <<tpsock, tmp>>
  BY <1>1, <1>2, <1>t, ListFrame, Zenon DEF PCs, Releasing
<1>3. CASE /\ psock_list # <<>> /\ pc' = [pc EXCEPT ![k] = "del"]
           /\ tpsock' = [tpsock EXCEPT ![k] = Head(psock_list)]
           /\ tmp' = [tmp EXCEPT ![k] = NextOf(Head(psock_list))]
  <2>1. NextOf(Head(psock_list)) = Second
    BY <1>3, <1>t, NextOfHead DEF ListIInv
  <2>2. \A j \in Ksks \ {k} : pc'[j] = pc[j] /\ tpsock'[j] = tpsock[j] /\ tmp'[j] = tmp[j]
    BY <1>3, <1>t
  <2>3. \A p \in Psocks : HasSk(p)'
    BY <1>1 DEF ListIInv, HasSk, psockVars
  <2>4. ASSUME NEW q \in Range(psock_list') PROVE Linked(q)'
    <3>1. Linked(q) /\ pstate'[q] = pstate[q]
      BY <1>1 DEF ListIInv, psockVars
    <3> QED
      BY <1>1, <2>2, <3>1 DEF Linked
  <2>5. ASSUME NEW j \in Ksks PROVE AtHead(j)'
    <3>1. CASE j = k
      BY <1>1, <1>3, <1>t, <2>1, <3>1 DEF AtHead, Second, psockVars
    <3>2. CASE j # k
      BY <1>1, <2>2, <3>2 DEF ListIInv, AtHead, Second, psockVars
    <3> QED
      BY <3>1, <3>2
  <2>6. OopsExplained'
    BY <1>1, <1>3, <1>t, <2>2 DEF ListIInv, OopsExplained, psockVars
  <2> QED
    BY <1>1, <2>3, <2>4, <2>5, <2>6 DEF ListIInv, psockVars
<1> QED
  BY <1>1, <1>2, <1>3

LEMMA ListDel ==
    ASSUME ServerIInv, PsockIInv, ListIInv, NEW k \in Ksks, DelPsock(k)
    PROVE  ListIInv'
<1>1. /\ pc[k] = "del" /\ UNCHANGED <<pstate, psock_sk, tpsock, tmp>>
      /\ \/ \E i \in DOMAIN psock_list :
               /\ psock_list[i] = tpsock[k]
               /\ pc' = [pc EXCEPT ![k] = "detach"]
               /\ psock_list' = SubSeq(psock_list, 1, i - 1)
                                \o SubSeq(psock_list, i + 1, Len(psock_list))
         \/ /\ tpsock[k] \notin Range(psock_list) \/ pstate[tpsock[k]] = "dup"
            /\ pc' = [pc EXCEPT ![k] = "oops"]
            /\ UNCHANGED psock_list
  BY Zenon DEF DelPsock
<1>t. /\ psock_list \in Seq(Psocks) /\ pc \in [Ksks -> PCs] /\ pstate \in [Psocks -> PStates]
      /\ tpsock[k] \in Psocks
  BY <1>1 DEF PsockIInv, PsockTypes, Walking
<1>2. /\ psock_list # <<>> /\ tpsock[k] = psock_list[1] /\ tmp[k] = Second
      /\ DOMAIN psock_list = 1..Len(psock_list) /\ Len(psock_list) \in Nat \ {0}
  BY <1>1, <1>t DEF ListIInv, AtHead
<1>3. \A j \in Ksks : /\ j # k => pc'[j] = pc[j] /\ pc[j] \notin WalkPC \cup {"attach"}
                      /\ pc[j] # "attach"
  <2>1. Open = {} /\ \A j \in Ksks : pc[j] \in WalkPC => j = k
    BY <1>1 DEF ServerIInv, WalkerAlone, WalkPC
  <2> QED
    BY <1>1, <1>t, <2>1 DEF Open
<1>4. \A p \in Psocks : HasSk(p)'
  BY <1>1 DEF ListIInv, HasSk
<1>5. CASE /\ tpsock[k] \notin Range(psock_list) \/ pstate[tpsock[k]] = "dup"
           /\ pc' = [pc EXCEPT ![k] = "oops"]
           /\ UNCHANGED psock_list
  <2>1. pstate[tpsock[k]] = "dup"
    BY <1>2, <1>5 DEF Range
  <2>2. \A j \in Ksks : pc'[j] \notin WalkPC
    BY <1>3, <1>5, <1>t DEF WalkPC
  <2>3. \A j \in Ksks : AtHead(j)'
    BY <2>2 DEF AtHead, WalkPC
  <2>4. ASSUME NEW q \in Range(psock_list') PROVE Linked(q)'
    BY <1>1, <1>3, <1>5 DEF ListIInv, Linked
  <2>5. OopsExplained'
    BY <1>1, <1>t, <2>1 DEF OopsExplained
  <2> QED
    BY <1>4, <1>5, <2>3, <2>4, <2>5 DEF ListIInv
<1>6. CASE /\ pc' = [pc EXCEPT ![k] = "detach"]
           /\ \E i \in DOMAIN psock_list :
                 /\ psock_list[i] = tpsock[k]
                 /\ psock_list' = SubSeq(psock_list, 1, i - 1)
                                  \o SubSeq(psock_list, i + 1, Len(psock_list))
  <2>1. psock_list' = SubSeq(psock_list, 1, 0) \o SubSeq(psock_list, 2, Len(psock_list))
    <3>1. PICK i \in DOMAIN psock_list :
                 /\ psock_list[i] = tpsock[k]
                 /\ psock_list' = SubSeq(psock_list, 1, i - 1)
                                  \o SubSeq(psock_list, i + 1, Len(psock_list))
      BY <1>6, Zenon
    <3>2. i = 1
      <4>1. 1 \in DOMAIN psock_list /\ psock_list[i] = psock_list[1]
        BY <1>2, <3>1
      <4> QED
        BY <4>1 DEF ListIInv, IsInjective
    <3>3. i - 1 = 0 /\ i + 1 = 2
      BY <3>2
    <3> QED
      BY <3>1, <3>3
  <2>2. /\ DOMAIN psock_list' = 1..(Len(psock_list) - 1)
        /\ \A i \in 1..(Len(psock_list) - 1) : psock_list'[i] = psock_list[i + 1]
        /\ psock_list' \in Seq(Psocks) /\ Len(psock_list') = Len(psock_list) - 1
    BY <1>2, <1>t, <2>1
  <2>3. IsInjective(psock_list')
    <3> SUFFICES ASSUME NEW i \in DOMAIN psock_list', NEW j \in DOMAIN psock_list',
                        psock_list'[i] = psock_list'[j]
                 PROVE  i = j
      BY DEF IsInjective
    <3>1. /\ i + 1 \in DOMAIN psock_list /\ j + 1 \in DOMAIN psock_list
          /\ psock_list[i + 1] = psock_list[j + 1]
      BY <1>2, <2>2
    <3>2. i + 1 = j + 1
      BY <3>1 DEF ListIInv, IsInjective
    <3> QED
      BY <2>2, <3>2
  <2>4. Range(psock_list') \subseteq Range(psock_list) /\ tpsock[k] \notin Range(psock_list')
    <3>1. \A i \in 1..(Len(psock_list) - 1) : i + 1 \in DOMAIN psock_list /\ i + 1 # 1
      BY <1>2
    <3>2. \A i \in 1..(Len(psock_list) - 1) : psock_list[i + 1] # psock_list[1]
      BY <1>2, <3>1 DEF ListIInv, IsInjective
    <3>3. \A i \in DOMAIN psock_list' : psock_list'[i] \in Range(psock_list) /\ psock_list'[i] # tpsock[k]
      BY <1>2, <2>2, <3>1, <3>2 DEF Range
    <3> QED
      BY <3>3 DEF Range
  <2>5. ASSUME NEW q \in Range(psock_list') PROVE Linked(q)'
    BY <1>1, <1>3, <2>4 DEF ListIInv, Linked
  <2>6. pstate[tpsock[k]] \in {"attached", "refused", "dup"}
    <3>1. Linked(tpsock[k])
      BY <1>2 DEF ListIInv, Range
    <3> QED
      BY <1>3, <3>1 DEF Linked
  <2>7. tmp[k] = IF psock_list' = <<>> THEN NULL ELSE Head(psock_list')
    <3>1. CASE Len(psock_list) >= 2
      BY <1>2, <2>2, <3>1 DEF Second
    <3>2. CASE Len(psock_list) = 1
      BY <1>2, <2>2, <3>2 DEF Second
    <3> QED
      BY <1>2, <3>1, <3>2
  <2>8. ASSUME NEW j \in Ksks PROVE AtHead(j)'
    <3>1. CASE j = k
      BY <1>1, <1>6, <1>t, <2>4, <2>6, <2>7, <3>1, Zenon DEF AtHead
    <3>2. CASE j # k
      BY <1>3, <3>2 DEF AtHead, WalkPC
    <3> QED
      BY <3>1, <3>2
  <2>9. OopsExplained'
    BY <1>1, <1>3, <1>6, <1>t, Zenon DEF ListIInv, OopsExplained
  <2> QED
    BY <1>4, <2>3, <2>5, <2>8, <2>9 DEF ListIInv
<1> QED
  BY <1>1, <1>5, <1>6, Zenon

LEMMA ListDetach ==
    ASSUME ServerIInv, PsockIInv, ListIInv, NEW k \in Ksks, DetachPsock(k)
    PROVE  ListIInv'
<1>1. /\ pc[k] = "detach" /\ UNCHANGED <<psock_list, psock_sk>>
      /\ \/ /\ psock_sk[tpsock[k]] = NULL /\ pc' = [pc EXCEPT ![k] = "oops"]
            /\ UNCHANGED <<pstate, tpsock, tmp>>
         \/ /\ pc' = [pc EXCEPT ![k] = IF tmp[k] = NULL THEN "closed" ELSE "del"]
            /\ psock_sk[tpsock[k]] # NULL
            /\ pstate' = [pstate EXCEPT ![tpsock[k]] = IF @ = "dup" THEN @ ELSE "freed"]
            /\ tpsock' = [tpsock EXCEPT ![k] = tmp[k]]
            /\ tmp' = [tmp EXCEPT ![k] = NextOf(tmp[k])]
  BY DEF DetachPsock, GoTo, psockVars
<1>t. /\ psock_list \in Seq(Psocks) /\ pc \in [Ksks -> PCs] /\ pstate \in [Psocks -> PStates]
      /\ tpsock \in [Ksks -> Psocks \cup {NULL}] /\ tmp \in [Ksks -> Psocks \cup {NULL}]
      /\ tpsock[k] \in Psocks /\ psock_sk \in [Psocks -> Csks \cup {NULL}]
  BY <1>1 DEF PsockIInv, PsockTypes, Walking
<1>2. /\ pstate[tpsock[k]] \in {"attached", "refused", "dup"}
      /\ tpsock[k] \notin Range(psock_list)
      /\ tmp[k] = IF psock_list = <<>> THEN NULL ELSE Head(psock_list)
  BY <1>1 DEF ListIInv, AtHead
<1>3. \A j \in Ksks : /\ j # k => pc'[j] = pc[j] /\ pc[j] \notin WalkPC
                      /\ pc[j] # "attach"
  <2>1. Open = {} /\ \A j \in Ksks : pc[j] \in WalkPC => j = k
    BY <1>1 DEF ServerIInv, WalkerAlone, WalkPC
  <2> QED
    BY <1>1, <1>t, <2>1 DEF Open
<1>4. CASE /\ psock_sk[tpsock[k]] = NULL /\ pc' = [pc EXCEPT ![k] = "oops"]
           /\ UNCHANGED <<pstate, tpsock, tmp>>
  <2>1. pstate[tpsock[k]] = "refused"
    BY <1>2, <1>4, <1>t DEF ListIInv, HasSk
  <2>2. \A j \in Ksks : pc'[j] \notin WalkPC
    BY <1>3, <1>4, <1>t DEF WalkPC
  <2>3. \A j \in Ksks : AtHead(j)'
    BY <2>2 DEF AtHead, WalkPC
  <2>4. ASSUME NEW q \in Range(psock_list') PROVE Linked(q)'
    BY <1>1, <1>3, <1>4 DEF ListIInv, Linked
  <2>5. OopsExplained'
    BY <1>4, <1>t, <2>1 DEF OopsExplained
  <2>6. \A p \in Psocks : HasSk(p)'
    BY <1>1, <1>4 DEF ListIInv, HasSk
  <2> QED
    BY <1>1, <2>3, <2>4, <2>5, <2>6 DEF ListIInv
<1>5. CASE /\ pc' = [pc EXCEPT ![k] = IF tmp[k] = NULL THEN "closed" ELSE "del"]
           /\ psock_sk[tpsock[k]] # NULL
           /\ pstate' = [pstate EXCEPT ![tpsock[k]] = IF @ = "dup" THEN @ ELSE "freed"]
           /\ tpsock' = [tpsock EXCEPT ![k] = tmp[k]]
           /\ tmp' = [tmp EXCEPT ![k] = NextOf(tmp[k])]
  <2>1. pstate[tpsock[k]] \in {"attached", "dup"}
    BY <1>2, <1>5, <1>t DEF ListIInv, HasSk
  <2>2. /\ \A q \in Psocks \ {tpsock[k]} : pstate'[q] = pstate[q]
        /\ pstate'[tpsock[k]] \in {"dup", "freed"}
        /\ pstate[tpsock[k]] = "dup" => pstate'[tpsock[k]] = "dup"
    BY <1>5, <1>t
  <2>3. ASSUME NEW q \in Range(psock_list') PROVE Linked(q)'
    <3>1. Linked(q) /\ q \in Psocks /\ q # tpsock[k]
      BY <1>1, <1>2, <1>t DEF ListIInv, Range
    <3> QED
      BY <1>3, <2>2, <3>1 DEF Linked
  <2>4. \A p \in Psocks : HasSk(p)'
    BY <1>1, <1>5, <2>2 DEF ListIInv, HasSk
  <2>5. tmp[k] # NULL => /\ psock_list # <<>> /\ tmp[k] = Head(psock_list)
                         /\ NextOf(tmp[k]) = Second
    BY <1>2, <1>t, NextOfHead DEF ListIInv
  <2>6. ASSUME NEW j \in Ksks PROVE AtHead(j)'
    <3>1. CASE j = k
      <4>1. /\ pc'[k] = "del" => tmp[k] # NULL
            /\ pc'[k] \in {"del", "closed"} /\ tpsock'[k] = tmp[k] /\ tmp'[k] = NextOf(tmp[k])
        BY <1>5, <1>t
      <4>2. Second' = Second
        BY <1>1 DEF Second
      <4> QED
        BY <1>1, <2>5, <3>1, <4>1, <4>2 DEF AtHead
    <3>2. CASE j # k
      BY <1>3, <3>2 DEF AtHead, WalkPC
    <3> QED
      BY <3>1, <3>2
  <2>7. OopsExplained'
    <3>1. \A j \in Ksks : pc'[j] = "oops" => pc[j] = "oops"
      BY <1>3, <1>5, <1>t
    <3>2. FailedAttach => FailedAttach'
      BY <2>1, <2>2, <1>t DEF FailedAttach
    <3> QED
      BY <3>1, <3>2, Zenon DEF ListIInv, OopsExplained, FailedAttach
  <2> QED
    BY <1>1, <2>3, <2>4, <2>6, <2>7 DEF ListIInv
<1> QED
  BY <1>1, <1>4, <1>5

LEMMA ListStep == ServerIInv /\ PsockIInv /\ ListIInv /\ [Next]_vars => ListIInv'
<1> SUFFICES ASSUME ServerIInv, PsockIInv, ListIInv, [Next]_vars PROVE ListIInv'
  OBVIOUS
<1>t. pc \in [Ksks -> PCs]
  BY DEF PsockIInv, PsockTypes
<1>1. ASSUME NEW k \in Ksks, rakaia_create(k) \/ ReleaseSlot(k) PROVE ListIInv'
  <2>1. /\ UNCHANGED <<psockVars, tpsock, tmp>> /\ pc[k] # "attach"
        /\ \E b \in PCs \ {"del", "detach", "oops"} : pc' = [pc EXCEPT ![k] = b]
    <3>1. CASE rakaia_create(k)
      BY <3>1 DEF rakaia_create, CreateSlot, CreateFails, CreateList, GoTo, PCs, OpenPC, Releasing
    <3>2. CASE ReleaseSlot(k)
      BY <3>2, Zenon DEF ReleaseSlot, PCs, OpenPC, Releasing
    <3> QED
      BY <1>1, <3>1, <3>2
  <2> QED
    BY <1>t, <2>1, ListFrame, Zenon
<1>2. ASSUME NEW k \in Ksks, WalkStart(k) PROVE ListIInv'
  BY <1>2, ListWalkStart
<1>3. ASSUME NEW k \in Ksks, DelPsock(k) PROVE ListIInv'
  BY <1>3, ListDel
<1>4. ASSUME NEW k \in Ksks, DetachPsock(k) PROVE ListIInv'
  BY <1>4, ListDetach
<1>5. ASSUME NEW k \in Ksks, rakaia_attach(k) PROVE ListIInv'
  BY <1>5, ListAttach, ListInstall DEF rakaia_attach
<1>6. ASSUME UNCHANGED <<psockVars, pc, tpsock, tmp>> PROVE ListIInv'
  <2>1. /\ psock_list' = psock_list /\ pstate' = pstate /\ psock_sk' = psock_sk
        /\ pc' = pc /\ tpsock' = tpsock /\ tmp' = tmp
    BY <1>6 DEF psockVars
  <2>2. IsInjective(psock_list') /\ \A p \in Range(psock_list') : Linked(p)'
    BY <2>1, Zenon DEF ListIInv, Linked
  <2>3. \A p \in Psocks : HasSk(p)'
    BY <2>1, Zenon DEF ListIInv, HasSk
  <2>4. \A k \in Ksks : AtHead(k)'
    BY <2>1, Zenon DEF ListIInv, AtHead, Second
  <2>5. OopsExplained'
    BY <2>1, Zenon DEF ListIInv, OopsExplained
  <2> QED
    BY <2>2, <2>3, <2>4, <2>5, Zenon DEF ListIInv
<1>7. ASSUME NEW k \in Ksks, MarkIdle(k) PROVE ListIInv'
  BY <1>6, <1>7 DEF MarkIdle
<1>8. ASSUME NEW c \in Csks, psock_write_space(c) PROVE ListIInv'
  BY <1>6, <1>8 DEF psock_write_space
<1>9. ASSUME PopWaiter \/ rakaia_tx_work \/ UNCHANGED vars PROVE ListIInv'
  BY <1>6, <1>9 DEF PopWaiter, rakaia_tx_work, vars
<1> QED
  BY <1>1, <1>2, <1>3, <1>4, <1>5, <1>7, <1>8, <1>9 DEF Next, rakaia_release

LEMMA ListInit == Init => ListIInv
<1> SUFFICES ASSUME Init PROVE ListIInv
  OBVIOUS
<1>1. IsInjective(psock_list) /\ Range(psock_list) = {}
  BY DEF Init, IsInjective, Range
<1>2. (\A p \in Psocks : HasSk(p)) /\ (\A k \in Ksks : AtHead(k)) /\ OopsExplained
  BY DEF Init, HasSk, AtHead, OopsExplained
<1> QED
  BY <1>1, <1>2 DEF ListIInv

ListInv == ~reopened => ListIInv

(* The walk of the last rakaia_release meets a psock it cannot release     *)
(* only if an attach failed before, or a socket was opened after one was   *)
(* released: every psock is met once, by one thread (rakaiasock.c          *)
(* 966-1022, 1157-1181, 1252-1259).                                        *)
THEOREM WalkMeetsOnlyFailures == Spec => []OopsOnlyAfterFailedAttach
<1>1. Init => ListInv
  BY ListInit DEF ListInv
<1>2. ServerInv /\ PsockIInv /\ ListInv /\ [Next]_vars => ListInv'
  BY ListStep, ReopenedStays DEF ServerInv, ListInv
<1>3. ListInv => OopsOnlyAfterFailedAttach
  BY DEF ListInv, ListIInv, OopsExplained, OopsOnlyAfterFailedAttach
<1> QED
  BY <1>1, <1>2, <1>3, ServerAlways, PsockInit, PsockStep, PTL DEF Spec
=============================================================================
