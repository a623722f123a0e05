------------------------------- MODULE Reclaim ------------------------------
(***************************************************************************)
(* When Silo frees the memory of a record version.  Two queues per core    *)
(* hold what was unlinked from the tree or superseded in a version chain:  *)
(* the RCU queue (rcu.h, rcu.cc) and the queue of the version garbage      *)
(* collector (txn_proto2_impl.h, txn_proto2_impl.cc), which frees without  *)
(* RCU.  Both free on ticks alone, without knowing who reads; this module  *)
(* keeps, as history, the regions that were open when an object was        *)
(* unlinked and could hold a pointer to it.                                *)
(***************************************************************************)
EXTENDS Ticker

CONSTANTS Objs,                      \* record versions (dbtuple)
          ReadOnlyEpochMultiplier,   \* ticks per read-only tick
          EpochTimeMultiplier        \* ticks per RCU tick

ASSUME ReclaimAssumption ==
    /\ ReadOnlyEpochMultiplier \in Nat \ {0}
    /\ EpochTimeMultiplier \in Nat \ {0}

VARIABLES
    where,     \* "linked", "unlinked", queued ("gc", "rcu") or freed ("gcfreed", "rcufreed")
    at,        \* read-only or RCU tick under which the object is queued
    holders    \* history: open regions that may hold a pointer to it

objVars == <<where, at, holders>>
reclaimVars == <<tickerVars, objVars>>

to_read_only_tick(t) == t \div ReadOnlyEpochMultiplier
to_rcu_ticks(t) == t \div EpochTimeMultiplier

(* Regions that are open now.  One that has only taken the lock counts.    *)
Open == {d \in Cores : guard[d] # NULL}

ReclaimInit ==
    /\ TickerInit
    /\ where = [o \in Objs |-> "linked"]
    /\ at = [o \in Objs |-> 0]
    /\ holders = [o \in Objs |-> {}]

-----------------------------------------------------------------------------
(* on_dbtuple_spill: a commit supersedes version o.                        *)
Spill(c, o) ==
    /\ where[o] = "linked"
    /\ epoch[c] # NULL
    /\ where' = [where EXCEPT ![o] = "gc"]
    /\ at' = [at EXCEPT ![o] = to_read_only_tick(epoch[c])]
    /\ holders' = [holders EXCEPT ![o] = Open]

(* A deleted version, which has its own queue entry, is replaced as the    *)
(* head of its chain; on_dbtuple_spill returns early.                      *)
Replace(c, o) ==
    /\ where[o] = "linked"
    /\ epoch[c] # NULL
    /\ where' = [where EXCEPT ![o] = "unlinked"]
    /\ holders' = [holders EXCEPT ![o] = Open]
    /\ UNCHANGED at

(* clean_up_to_including finds that version no longer the latest and       *)
(* queues it once more.                                                    *)
Requeue(o) ==
    /\ where[o] = "unlinked"
    /\ where' = [where EXCEPT ![o] = "gc"]
    /\ at' = [at EXCEPT ![o] = to_read_only_tick(current_tick)]
    /\ UNCHANGED holders

(* dbtuple::release of a version removed from the tree.                    *)
free_with_fn(c, o) ==
    /\ where[o] = "linked"
    /\ stored[c]
    /\ where' = [where EXCEPT ![o] = "rcu"]
    /\ at' = [at EXCEPT ![o] = to_rcu_ticks(ticks[c] + 1)]
    /\ holders' = [holders EXCEPT ![o] = Open]

(* Variants with a fault: the collector forgets the tick a transaction may *)
(* lag, and RCU does not wait for the regions of the next tick.            *)
ro_tick_geq_eager == to_read_only_tick(global_last_tick_exclusive) - 1
clean_tick_eager == to_rcu_ticks(global_last_tick_exclusive)

(* on_post_rcu_region_completion: entries up to this tick are reaped.      *)
ro_tick_geq == to_read_only_tick(global_last_tick_exclusive - 1) - 1

(* rcu::sync::do_cleanup: entries up to this tick are freed.               *)
clean_tick == to_rcu_ticks(global_last_tick_exclusive) - 1

GcFree(o) ==
    /\ where[o] = "gc" /\ at[o] <= ro_tick_geq
    /\ where' = [where EXCEPT ![o] = "gcfreed"]
    /\ UNCHANGED <<at, holders>>

RcuFree(o) ==
    /\ where[o] = "rcu" /\ at[o] <= clean_tick
    /\ where' = [where EXCEPT ![o] = "rcufreed"]
    /\ UNCHANGED <<at, holders>>

(* The end of a region drops the pointers it held.                         *)
Forget(c) ==
    /\ holders' = [o \in Objs |-> holders[o] \ {c}]
    /\ UNCHANGED <<where, at>>

-----------------------------------------------------------------------------
RegionStep(c) ==
    \/ GuardLock(c) \/ GuardStore(c) \/ ReadLastTick(c) \/ ReadCommitEpoch(c)

UnlinkStep(c, o) == Spill(c, o) \/ Replace(c, o) \/ free_with_fn(c, o)

ReapStep(o) == Requeue(o) \/ GcFree(o) \/ RcuFree(o)

ReclaimNext ==
    \/ Daemon /\ UNCHANGED objVars
    \/ \E c \in Cores : RegionStep(c) /\ UNCHANGED objVars
    \/ \E c \in Cores : GuardExit(c) /\ Forget(c)
    \/ \E c \in Cores, o \in Objs : UnlinkStep(c, o) /\ UNCHANGED tickerVars
    \/ \E o \in Objs : ReapStep(o) /\ UNCHANGED tickerVars

ReclaimSpec == ReclaimInit /\ [][ReclaimNext]_reclaimVars

-----------------------------------------------------------------------------
ReclaimTypeOK ==
    /\ current_tick \in Nat \ {0} /\ last_tick_inclusive \in Nat
    /\ visit \in 0 .. NCores + 1
    /\ ticks \in [Cores -> Nat]
    /\ guard \in [Cores -> Nat \cup {NULL}]
    /\ stored \in [Cores -> BOOLEAN]
    /\ snap \in [Cores -> Nat \cup {NULL}]
    /\ epoch \in [Cores -> Nat \cup {NULL}]
    /\ where \in [Objs -> {"linked", "unlinked", "gc", "rcu", "gcfreed", "rcufreed"}]
    /\ at \in [Objs -> Nat]
    /\ holders \in [Objs -> SUBSET Cores]

Freed(o) == where[o] \in {"gcfreed", "rcufreed"}

(* Freed memory is out of every reader's reach, although neither queue     *)
(* looks at the regions: no region that was open when the version was      *)
(* unlinked is still open, and the commit that superseded a collected      *)
(* version lies before every open snapshot, so that no snapshot needs to   *)
(* walk past the superseding version (tuple.h:719-726).                    *)
FreedUnreachable ==
    \A o \in Objs :
        /\ Freed(o) => holders[o] = {}
        /\ where[o] = "gcfreed" =>
               \A c \in Cores : snap[c] # NULL => at[o] < to_read_only_tick(snap[c])
=============================================================================
