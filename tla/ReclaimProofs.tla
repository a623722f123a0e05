---------------------------- MODULE ReclaimProofs ---------------------------
(***************************************************************************)
(* Silo's reclamation of memory is safe for any number of cores, any       *)
(* number of ticks and any length of the read-only and RCU ticks.          *)
(***************************************************************************)
EXTENDS Reclaim, TLAPS

(* Integer division by a positive number, on the naturals.                 *)
LEMMA DivMonotone ==
    ASSUME NEW m \in Nat \ {0}, NEW a \in Nat, NEW b \in Nat, a <= b
    PROVE  a \div m \in Nat /\ b \div m \in Nat /\ a \div m <= b \div m
<1> DEFINE qa == a \div m
           qb == b \div m
<1>1. qa \in Int /\ qb \in Int /\ m * qa <= a /\ b < m * (qb + 1) /\ 0 <= qa /\ 0 <= qb
  OBVIOUS
<1>2. qa <= qb
  OBVIOUS
<1> QED
  BY <1>1, <1>2

LEMMA RoTickMonotone ==
    ASSUME NEW a \in Nat, NEW b \in Nat, a <= b
    PROVE  /\ to_read_only_tick(a) \in Nat /\ to_read_only_tick(b) \in Nat
           /\ to_read_only_tick(a) <= to_read_only_tick(b)
BY DivMonotone, ReclaimAssumption DEF to_read_only_tick

LEMMA RcuTickMonotone ==
    ASSUME NEW a \in Nat, NEW b \in Nat, a <= b
    PROVE  /\ to_rcu_ticks(a) \in Nat /\ to_rcu_ticks(b) \in Nat
           /\ to_rcu_ticks(a) <= to_rcu_ticks(b)
BY DivMonotone, ReclaimAssumption DEF to_rcu_ticks

-----------------------------------------------------------------------------
(* The inductive invariant.  A core that is a tick behind has not been     *)
(* visited by the daemon, so the tick of an open region is never over.     *)

Late(c) == visit # 0 /\ visit <= c

DaemonInv ==
    /\ visit = 0 => last_tick_inclusive = current_tick - 1
    /\ visit # 0 => last_tick_inclusive = current_tick - 2

SlotInv(c) ==
    /\ ticks[c] \in {current_tick - 1, current_tick}
    /\ ticks[c] = current_tick - 1 => Late(c)
    /\ guard[c] # NULL =>
         /\ guard[c] \in {current_tick - 1, current_tick}
         /\ guard[c] = current_tick - 1 => ticks[c] = current_tick - 1

RegionInv(c) ==
    /\ stored[c] => guard[c] # NULL /\ ticks[c] = guard[c]
    /\ snap[c] # NULL => /\ stored[c]
                         /\ guard[c] <= snap[c] + 1
                         /\ snap[c] <= last_tick_inclusive + 1
    /\ epoch[c] # NULL => stored[c] /\ guard[c] <= epoch[c] /\ epoch[c] <= current_tick

(* Every region that may hold a pointer to a queued version keeps the      *)
(* queue's limit below the tick under which the version is queued.         *)
ObjInv(o) ==
    /\ \A d \in holders[o] :
         /\ guard[d] # NULL
         /\ where[o] = "gc" => to_read_only_tick(guard[d] - 1) <= at[o]
         /\ where[o] = "rcu" => to_rcu_ticks(guard[d]) <= at[o]
    /\ Freed(o) => holders[o] = {}
    /\ where[o] = "gcfreed" => at[o] < to_read_only_tick(last_tick_inclusive)

IInv ==
    /\ ReclaimTypeOK
    /\ DaemonInv
    /\ \A c \in Cores : SlotInv(c) /\ RegionInv(c)
    /\ \A o \in Objs : ObjInv(o)

LEMMA CoresNat == Cores \subseteq Nat \ {0} /\ \A c \in Cores : c <= NCores
BY TickerAssumption DEF Cores

(* The tick of an open region is not over.                                 *)
LEMMA OpenRegion ==
    ASSUME IInv, NEW c \in Cores, guard[c] # NULL
    PROVE  /\ guard[c] \in Nat /\ last_tick_inclusive \in Nat
           /\ last_tick_inclusive + 1 <= guard[c]
           /\ guard[c] <= current_tick
           /\ guard[c] - 1 \in Nat
BY CoresNat, TickerAssumption DEF IInv, ReclaimTypeOK, DaemonInv, SlotInv, Late

LEMMA InitInv == ReclaimInit => IInv
<1> SUFFICES ASSUME ReclaimInit PROVE IInv
  OBVIOUS
<1> USE TickerAssumption DEF ReclaimInit, TickerInit
<1>1. ReclaimTypeOK
  BY DEF ReclaimTypeOK
<1>2. DaemonInv
  BY DEF DaemonInv
<1>3. ASSUME NEW c \in Cores PROVE SlotInv(c) /\ RegionInv(c)
  BY DEF SlotInv, RegionInv, Late
<1>4. ASSUME NEW o \in Objs PROVE ObjInv(o)
  BY DEF ObjInv, Freed
<1> QED
  BY <1>1, <1>2, <1>3, <1>4 DEF IInv

-----------------------------------------------------------------------------
(* The daemon.                                                             *)

LEMMA DaemonStep == IInv /\ Daemon /\ UNCHANGED objVars => IInv'
<1> SUFFICES ASSUME IInv, Daemon, UNCHANGED objVars PROVE IInv'
  OBVIOUS
<1> USE TickerAssumption, CoresNat
<1>1. last_tick_inclusive <= last_tick_inclusive' /\ last_tick_inclusive' \in Nat
  BY DEF IInv, ReclaimTypeOK, DaemonInv, Daemon, BumpTick, VisitCore, PublishTick
<1>2. UNCHANGED regionVars
  BY DEF Daemon, BumpTick, VisitCore, PublishTick
<1>3. ReclaimTypeOK'
  BY <1>1, <1>2 DEF IInv, ReclaimTypeOK, Daemon, BumpTick, VisitCore, PublishTick, objVars, regionVars
<1>4. DaemonInv'
  BY DEF IInv, ReclaimTypeOK, DaemonInv, Daemon, BumpTick, VisitCore, PublishTick
<1>5. ASSUME NEW c \in Cores PROVE SlotInv(c)'
  <2>1. CASE BumpTick
    BY <2>1 DEF IInv, ReclaimTypeOK, BumpTick, SlotInv, Late, regionVars
  <2>2. CASE VisitCore
    BY <2>2 DEF IInv, ReclaimTypeOK, VisitCore, SlotInv, Late, regionVars
  <2>3. CASE PublishTick
    BY <2>3 DEF IInv, ReclaimTypeOK, PublishTick, SlotInv, Late, regionVars
  <2> QED
    BY <2>1, <2>2, <2>3 DEF Daemon
<1>6. ASSUME NEW c \in Cores PROVE RegionInv(c)'
  <2>1. CASE BumpTick
    BY <2>1 DEF IInv, ReclaimTypeOK, BumpTick, RegionInv, regionVars
  <2>2. CASE VisitCore
    BY <2>2 DEF IInv, ReclaimTypeOK, VisitCore, SlotInv, RegionInv, regionVars
  <2>3. CASE PublishTick
    BY <1>1, <2>3 DEF IInv, ReclaimTypeOK, PublishTick, RegionInv, regionVars
  <2> QED
    BY <2>1, <2>2, <2>3 DEF Daemon
<1>7. ASSUME NEW o \in Objs PROVE ObjInv(o)'
  <2>1. to_read_only_tick(last_tick_inclusive) <= to_read_only_tick(last_tick_inclusive')
        /\ to_read_only_tick(last_tick_inclusive) \in Nat
        /\ to_read_only_tick(last_tick_inclusive') \in Nat
    BY <1>1, RoTickMonotone DEF IInv, ReclaimTypeOK
  <2>2. at[o] \in Nat
    BY DEF IInv, ReclaimTypeOK
  <2> QED
    BY <1>2, <2>1, <2>2 DEF IInv, ObjInv, Freed, objVars, regionVars
<1> QED
  BY <1>3, <1>4, <1>5, <1>6, <1>7 DEF IInv

-----------------------------------------------------------------------------
(* Steps of a core that neither close a region nor move an object.         *)

LEMMA RegionSteps ==
    ASSUME IInv, NEW c \in Cores, RegionStep(c), UNCHANGED objVars
    PROVE  IInv'
<1> USE TickerAssumption, CoresNat
<1>1. UNCHANGED daemonVars
  BY DEF RegionStep, GuardLock, GuardStore, ReadLastTick, ReadCommitEpoch
<1>2. ReclaimTypeOK'
  <2> USE DEF IInv, ReclaimTypeOK, objVars, daemonVars
  <2>1. CASE GuardLock(c)
    BY <2>1 DEF GuardLock
  <2>2. CASE GuardStore(c)
    BY <2>2 DEF GuardStore
  <2>3. CASE ReadLastTick(c)
    BY <2>3 DEF ReadLastTick, global_last_tick_exclusive
  <2>4. CASE ReadCommitEpoch(c)
    BY <2>4 DEF ReadCommitEpoch
  <2> QED
    BY <2>1, <2>2, <2>3, <2>4 DEF RegionStep
<1>3. DaemonInv'
  BY <1>1 DEF IInv, DaemonInv, daemonVars
<1>4. ASSUME NEW d \in Cores PROVE SlotInv(d)' /\ RegionInv(d)'
  <2>1. CASE GuardLock(c)
    BY <2>1 DEF IInv, ReclaimTypeOK, GuardLock, SlotInv, RegionInv, Late, daemonVars
  <2>2. CASE GuardStore(c)
    BY <2>2 DEF IInv, ReclaimTypeOK, GuardStore, SlotInv, RegionInv, Late, daemonVars
  <2>3. CASE ReadLastTick(c)
    <3>1. guard[c] # NULL
      BY <2>3 DEF IInv, RegionInv, ReadLastTick
    <3>2. guard[c] <= last_tick_inclusive + 2
      BY <3>1, OpenRegion DEF IInv, DaemonInv, ReclaimTypeOK
    <3> QED
      BY <2>3, <3>2 DEF IInv, ReclaimTypeOK, ReadLastTick, SlotInv, RegionInv, Late, daemonVars,
                        global_last_tick_exclusive
  <2>4. CASE ReadCommitEpoch(c)
    BY <2>4 DEF IInv, ReclaimTypeOK, ReadCommitEpoch, SlotInv, RegionInv, Late, daemonVars
  <2> QED
    BY <2>1, <2>2, <2>3, <2>4 DEF RegionStep
<1>5. ASSUME NEW o \in Objs PROVE ObjInv(o)'
  <2>1. ASSUME NEW d \in holders[o] PROVE guard[d] # NULL /\ guard'[d] = guard[d]
    BY DEF IInv, ObjInv, ReclaimTypeOK, RegionStep, GuardLock, GuardStore, ReadLastTick, ReadCommitEpoch
  <2> QED
    BY <1>1, <2>1 DEF IInv, ObjInv, Freed, objVars, daemonVars
<1> QED
  BY <1>2, <1>3, <1>4, <1>5 DEF IInv

LEMMA ExitStep ==
    ASSUME IInv, NEW c \in Cores, GuardExit(c), Forget(c)
    PROVE  IInv'
<1> USE TickerAssumption, CoresNat
<1>1. ReclaimTypeOK'
  BY DEF IInv, ReclaimTypeOK, GuardExit, Forget, daemonVars
<1>2. DaemonInv'
  BY DEF IInv, DaemonInv, GuardExit, daemonVars
<1>3. ASSUME NEW d \in Cores PROVE SlotInv(d)' /\ RegionInv(d)'
  BY DEF IInv, ReclaimTypeOK, GuardExit, SlotInv, RegionInv, Late, daemonVars
<1>4. ASSUME NEW o \in Objs PROVE ObjInv(o)'
  <2>1. holders'[o] = holders[o] \ {c}
    BY DEF Forget
  <2>2. ASSUME NEW d \in holders'[o] PROVE guard'[d] = guard[d] /\ d \in holders[o]
    BY <2>1 DEF IInv, ReclaimTypeOK, GuardExit
  <2> QED
    BY <2>1, <2>2 DEF IInv, ObjInv, Freed, Forget, GuardExit, daemonVars
<1> QED
  BY <1>1, <1>2, <1>3, <1>4 DEF IInv

-----------------------------------------------------------------------------
(* Steps that move one object between the tree, the queues and the heap.   *)

(* What such a step leaves alone.                                          *)
LEMMA ObjStep ==
    ASSUME IInv, UNCHANGED tickerVars, ReclaimTypeOK', NEW o \in Objs, ObjInv(o)',
           \A p \in Objs \ {o} : /\ where'[p] = where[p] /\ at'[p] = at[p]
                                 /\ holders'[p] = holders[p]
    PROVE  IInv'
<1>1. DaemonInv'
  BY DEF IInv, DaemonInv, tickerVars, daemonVars
<1>2. ASSUME NEW d \in Cores PROVE SlotInv(d)' /\ RegionInv(d)'
  BY DEF IInv, SlotInv, RegionInv, Late, tickerVars, daemonVars, regionVars
<1>3. ASSUME NEW p \in Objs PROVE ObjInv(p)'
  <2>1. CASE p = o
    BY <2>1
  <2>2. CASE p # o
    BY <2>2 DEF IInv, ObjInv, Freed, tickerVars, daemonVars, regionVars
  <2> QED
    BY <2>1, <2>2
<1> QED
  BY <1>1, <1>2, <1>3 DEF IInv

LEMMA UnlinkSteps ==
    ASSUME IInv, UNCHANGED tickerVars, NEW c \in Cores, NEW o \in Objs, UnlinkStep(c, o)
    PROVE  IInv'
<1> USE TickerAssumption, CoresNat
<1>1. ASSUME NEW d \in Open
      PROVE  /\ d \in Cores /\ guard[d] # NULL /\ guard[d] \in Nat /\ guard[d] - 1 \in Nat
             /\ guard[d] <= current_tick /\ current_tick \in Nat
  BY OpenRegion DEF Open, IInv, ReclaimTypeOK
<1>2. Open \subseteq Cores
  BY DEF Open
<1>3. UNCHANGED <<guard, last_tick_inclusive>>
  BY DEF tickerVars, daemonVars, regionVars
<1>4. CASE Spill(c, o)
  <2>1. epoch[c] \in Nat /\ current_tick - 1 <= epoch[c]
    BY <1>4 DEF Spill, IInv, ReclaimTypeOK, RegionInv, SlotInv
  <2>2. to_read_only_tick(epoch[c]) \in Nat
    BY <2>1, RoTickMonotone
  <2>3. ReclaimTypeOK'
    BY <1>2, <1>4, <2>2 DEF Spill, IInv, ReclaimTypeOK, tickerVars, daemonVars, regionVars
  <2>4. /\ where'[o] = "gc" /\ at'[o] = to_read_only_tick(epoch[c]) /\ holders'[o] = Open
    BY <1>4 DEF Spill, IInv, ReclaimTypeOK
  <2>5. ASSUME NEW d \in Open PROVE to_read_only_tick(guard[d] - 1) <= to_read_only_tick(epoch[c])
    <3>1. guard[d] - 1 \in Nat /\ guard[d] - 1 <= epoch[c]
      BY <1>1, <2>1
    <3> QED
      BY <2>1, <3>1, RoTickMonotone
  <2>6. ObjInv(o)'
    BY <1>1, <1>3, <2>4, <2>5 DEF ObjInv, Freed
  <2> QED
    BY <1>4, <2>3, <2>6, ObjStep DEF Spill, IInv, ReclaimTypeOK
<1>5. CASE Replace(c, o)
  <2>1. ReclaimTypeOK'
    BY <1>2, <1>5 DEF Replace, IInv, ReclaimTypeOK, tickerVars, daemonVars, regionVars
  <2>2. where'[o] = "unlinked" /\ holders'[o] = Open
    BY <1>5 DEF Replace, IInv, ReclaimTypeOK
  <2>3. ObjInv(o)'
    BY <1>1, <1>3, <2>2 DEF ObjInv, Freed
  <2> QED
    BY <1>5, <2>1, <2>3, ObjStep DEF Replace, IInv, ReclaimTypeOK
<1>6. CASE free_with_fn(c, o)
  <2>1. ticks[c] + 1 \in Nat /\ current_tick <= ticks[c] + 1
    BY <1>6 DEF free_with_fn, IInv, ReclaimTypeOK, SlotInv
  <2>2. to_rcu_ticks(ticks[c] + 1) \in Nat
    BY <2>1, RcuTickMonotone
  <2>3. ReclaimTypeOK'
    BY <1>2, <1>6, <2>2 DEF free_with_fn, IInv, ReclaimTypeOK, tickerVars, daemonVars, regionVars
  <2>4. /\ where'[o] = "rcu" /\ at'[o] = to_rcu_ticks(ticks[c] + 1) /\ holders'[o] = Open
    BY <1>6 DEF free_with_fn, IInv, ReclaimTypeOK
  <2>5. ASSUME NEW d \in Open PROVE to_rcu_ticks(guard[d]) <= to_rcu_ticks(ticks[c] + 1)
    <3>1. guard[d] \in Nat /\ guard[d] <= ticks[c] + 1
      BY <1>1, <2>1
    <3> QED
      BY <2>1, <3>1, RcuTickMonotone
  <2>6. ObjInv(o)'
    BY <1>1, <1>3, <2>4, <2>5 DEF ObjInv, Freed
  <2> QED
    BY <1>6, <2>3, <2>6, ObjStep DEF free_with_fn, IInv, ReclaimTypeOK
<1> QED
  BY <1>4, <1>5, <1>6 DEF UnlinkStep

LEMMA ReapSteps ==
    ASSUME IInv, UNCHANGED tickerVars, NEW o \in Objs, ReapStep(o)
    PROVE  IInv'
<1> USE TickerAssumption, CoresNat
<1>1. UNCHANGED <<guard, last_tick_inclusive, holders>>
  BY DEF ReapStep, GcFree, RcuFree, Requeue, tickerVars, daemonVars, regionVars
<1>2. ASSUME NEW d \in holders[o]
      PROVE  /\ d \in Cores /\ guard[d] # NULL /\ guard[d] \in Nat /\ guard[d] - 1 \in Nat
             /\ last_tick_inclusive + 1 <= guard[d] /\ guard[d] <= current_tick
  <2>1. d \in Cores /\ guard[d] # NULL
    BY DEF IInv, ReclaimTypeOK, ObjInv
  <2> QED
    BY <2>1, OpenRegion
<1>3. at[o] \in Nat /\ last_tick_inclusive \in Nat /\ current_tick \in Nat
  BY DEF IInv, ReclaimTypeOK
<1>4. CASE Requeue(o)
  <2>1. to_read_only_tick(current_tick) \in Nat
    BY <1>3, RoTickMonotone
  <2>2. ReclaimTypeOK'
    BY <1>4, <2>1 DEF Requeue, IInv, ReclaimTypeOK, tickerVars, daemonVars, regionVars
  <2>3. where'[o] = "gc" /\ at'[o] = to_read_only_tick(current_tick)
    BY <1>4 DEF Requeue, IInv, ReclaimTypeOK
  <2>4. ASSUME NEW d \in holders[o]
        PROVE  to_read_only_tick(guard[d] - 1) <= to_read_only_tick(current_tick)
    <3>1. guard[d] - 1 \in Nat /\ guard[d] - 1 <= current_tick
      BY <1>2, <1>3
    <3> QED
      BY <1>3, <3>1, RoTickMonotone
  <2>5. ObjInv(o)'
    BY <1>1, <1>2, <2>3, <2>4 DEF ObjInv, Freed
  <2> QED
    BY <1>4, <2>2, <2>5, ObjStep DEF Requeue, IInv, ReclaimTypeOK
<1>5. CASE GcFree(o)
  <2>1. ReclaimTypeOK'
    BY <1>5 DEF GcFree, IInv, ReclaimTypeOK, tickerVars, daemonVars, regionVars
  <2>2. to_read_only_tick(last_tick_inclusive) \in Nat
        /\ at[o] < to_read_only_tick(last_tick_inclusive)
    <3>1. to_read_only_tick(last_tick_inclusive) \in Nat
      BY <1>3, RoTickMonotone
    <3>2. global_last_tick_exclusive - 1 = last_tick_inclusive
      BY <1>3 DEF global_last_tick_exclusive
    <3> QED
      BY <1>3, <1>5, <3>1, <3>2 DEF GcFree, ro_tick_geq
  <2>3. ASSUME NEW d \in holders[o] PROVE FALSE
    <3>1. last_tick_inclusive <= guard[d] - 1 /\ guard[d] - 1 \in Nat
      BY <1>2, <1>3
    <3>2. to_read_only_tick(last_tick_inclusive) <= to_read_only_tick(guard[d] - 1)
          /\ to_read_only_tick(guard[d] - 1) \in Nat
      BY <1>3, <3>1, RoTickMonotone
    <3>3. to_read_only_tick(guard[d] - 1) <= at[o]
      BY <1>5 DEF GcFree, IInv, ObjInv
    <3> QED
      BY <1>3, <2>2, <3>2, <3>3
  <2>4. where'[o] = "gcfreed"
    BY <1>5 DEF GcFree, IInv, ReclaimTypeOK
  <2>5. UNCHANGED <<last_tick_inclusive, at, holders>>
    BY <1>5 DEF GcFree, tickerVars, daemonVars
  <2>6. ObjInv(o)'
    BY <2>2, <2>3, <2>4, <2>5 DEF ObjInv, Freed
  <2> QED
    BY <1>5, <2>1, <2>6, ObjStep DEF GcFree, IInv, ReclaimTypeOK
<1>6. CASE RcuFree(o)
  <2>1. ReclaimTypeOK'
    BY <1>6 DEF RcuFree, IInv, ReclaimTypeOK, tickerVars, daemonVars, regionVars
  <2>2. to_rcu_ticks(last_tick_inclusive + 1) \in Nat
        /\ at[o] < to_rcu_ticks(last_tick_inclusive + 1)
    <3>1. to_rcu_ticks(last_tick_inclusive + 1) \in Nat
      BY <1>3, RcuTickMonotone
    <3> QED
      BY <1>3, <1>6, <3>1 DEF RcuFree, clean_tick, global_last_tick_exclusive
  <2>3. ASSUME NEW d \in holders[o] PROVE FALSE
    <3>1. to_rcu_ticks(last_tick_inclusive + 1) <= to_rcu_ticks(guard[d])
          /\ to_rcu_ticks(guard[d]) \in Nat
      BY <1>2, <1>3, RcuTickMonotone
    <3>2. to_rcu_ticks(guard[d]) <= at[o]
      BY <1>6 DEF RcuFree, IInv, ObjInv
    <3> QED
      BY <1>3, <2>2, <3>1, <3>2
  <2>4. where'[o] = "rcufreed" /\ holders'[o] = holders[o]
    BY <1>6 DEF RcuFree, IInv, ReclaimTypeOK
  <2>5. ObjInv(o)'
    BY <2>3, <2>4 DEF ObjInv, Freed
  <2> QED
    BY <1>6, <2>1, <2>5, ObjStep DEF RcuFree, IInv, ReclaimTypeOK
<1> QED
  BY <1>4, <1>5, <1>6 DEF ReapStep

-----------------------------------------------------------------------------
LEMMA NextInv == IInv /\ [ReclaimNext]_reclaimVars => IInv'
<1> SUFFICES ASSUME IInv, [ReclaimNext]_reclaimVars PROVE IInv'
  OBVIOUS
<1>1. CASE Daemon /\ UNCHANGED objVars
  BY <1>1, DaemonStep
<1>2. ASSUME NEW c \in Cores, RegionStep(c), UNCHANGED objVars PROVE IInv'
  BY <1>2, RegionSteps
<1>3. ASSUME NEW c \in Cores, GuardExit(c), Forget(c) PROVE IInv'
  BY <1>3, ExitStep
<1>4. ASSUME NEW c \in Cores, NEW o \in Objs, UnlinkStep(c, o), UNCHANGED tickerVars PROVE IInv'
  BY <1>4, UnlinkSteps
<1>5. ASSUME NEW o \in Objs, ReapStep(o), UNCHANGED tickerVars PROVE IInv'
  BY <1>5, ReapSteps
<1>6. CASE UNCHANGED reclaimVars
  BY <1>6 DEF reclaimVars, tickerVars, daemonVars, regionVars, objVars, IInv, ReclaimTypeOK,
              DaemonInv, SlotInv, RegionInv, ObjInv, Late, Freed
<1> QED
  BY <1>1, <1>2, <1>3, <1>4, <1>5, <1>6 DEF ReclaimNext

(* The tick of an open region is never published as over, and the last     *)
(* published tick moves at most once while a read-only transaction runs    *)
(* (the claim of txn_proto2_impl.h:1151-1153), for every number of cores.  *)
THEOREM TickHolds == ReclaimSpec => []AtMostOneTick
<1>1. IInv => AtMostOneTick
  <2> SUFFICES ASSUME IInv, NEW c \in Cores
               PROVE  /\ guard[c] # NULL => guard[c] > last_tick_inclusive
                      /\ snap[c] # NULL => global_last_tick_exclusive \in {snap[c], snap[c] + 1}
    BY DEF AtMostOneTick
  <2>1. guard[c] # NULL => guard[c] > last_tick_inclusive
    BY OpenRegion
  <2>2. ASSUME snap[c] # NULL PROVE global_last_tick_exclusive \in {snap[c], snap[c] + 1}
    <3>1. guard[c] # NULL /\ guard[c] <= snap[c] + 1 /\ snap[c] <= last_tick_inclusive + 1
          /\ snap[c] \in Nat
      BY <2>2 DEF IInv, RegionInv, ReclaimTypeOK
    <3>2. guard[c] \in Nat /\ last_tick_inclusive \in Nat /\ last_tick_inclusive + 1 <= guard[c]
      BY <3>1, OpenRegion
    <3> QED
      BY <3>1, <3>2 DEF global_last_tick_exclusive
  <2> QED
    BY <2>1, <2>2
<1> QED
  BY <1>1, InitInv, NextInv, PTL DEF ReclaimSpec

(* Neither the version collector nor RCU frees a version that an open      *)
(* region may still reach, for every number of cores and versions and for  *)
(* every length of a read-only tick and of an RCU tick.                    *)
THEOREM FreeingIsSafe == ReclaimSpec => []FreedUnreachable
<1>1. IInv => FreedUnreachable
  <2> SUFFICES ASSUME IInv, NEW o \in Objs
               PROVE  /\ Freed(o) => holders[o] = {}
                      /\ where[o] = "gcfreed" =>
                           \A c \in Cores : snap[c] # NULL => at[o] < to_read_only_tick(snap[c])
    BY DEF FreedUnreachable
  <2>1. Freed(o) => holders[o] = {}
    BY DEF IInv, ObjInv
  <2>2. ASSUME where[o] = "gcfreed", NEW c \in Cores, snap[c] # NULL
        PROVE  at[o] < to_read_only_tick(snap[c])
    <3>1. guard[c] # NULL /\ guard[c] <= snap[c] + 1 /\ snap[c] \in Nat
      BY <2>2 DEF IInv, RegionInv, ReclaimTypeOK
    <3>2. last_tick_inclusive \in Nat /\ last_tick_inclusive <= snap[c]
      BY <3>1, OpenRegion
    <3>3. to_read_only_tick(last_tick_inclusive) <= to_read_only_tick(snap[c])
          /\ to_read_only_tick(last_tick_inclusive) \in Nat /\ to_read_only_tick(snap[c]) \in Nat
      BY <3>1, <3>2, RoTickMonotone
    <3>4. at[o] \in Nat /\ at[o] < to_read_only_tick(last_tick_inclusive)
      BY <2>2 DEF IInv, ObjInv, ReclaimTypeOK
    <3> QED
      BY <3>3, <3>4
  <2> QED
    BY <2>1, <2>2
<1> QED
  BY <1>1, InitInv, NextInv, PTL DEF ReclaimSpec
=============================================================================
