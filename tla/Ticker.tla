------------------------------- MODULE Ticker -------------------------------
(***************************************************************************)
(* The epoch clock of the Silo database (bench/servers/silo/ticker.h) and  *)
(* what a transaction reads from it.  One daemon bumps the global tick,    *)
(* visits every core in index order and, once each of them has moved to    *)
(* the new tick, publishes the tick that is over.  A core holds its own    *)
(* spinlock for as long as it is inside a guarded region (an RCU region,   *)
(* a transaction), which is what the daemon waits for.                     *)
(***************************************************************************)
EXTENDS Integers

CONSTANTS NCores,    \* size of percore<tickinfo> ticks_
          MaxTick,   \* bound: the daemon stops bumping here
          NULL

ASSUME TickerAssumption == NCores \in Nat \ {0} /\ MaxTick \in Nat /\ NULL \notin Int

Cores == 1 .. NCores

VARIABLES
    current_tick,          \* ticker::current_tick_
    last_tick_inclusive,   \* ticker::last_tick_inclusive_
    visit,                 \* the daemon: 0 asleep, c about to visit core c
    ticks,                 \* tickinfo::current_tick_ of every core
    guard,                 \* guard::tick_ while the core holds tickinfo::lock_, else NULL
    stored,                \* the guard has stored its tick (the region is open)
    snap,                  \* last tick, exclusive, that a read-only transaction started from
    epoch                  \* u_.commit_epoch of the region's committing transaction

daemonVars == <<current_tick, last_tick_inclusive, visit>>
regionVars == <<guard, stored, snap, epoch>>
tickerVars == <<daemonVars, ticks, regionVars>>

TickerInit ==
    /\ current_tick = 1
    /\ last_tick_inclusive = 0
    /\ visit = 0
    /\ ticks = [c \in Cores |-> 1]
    /\ guard = [c \in Cores |-> NULL]
    /\ stored = [c \in Cores |-> FALSE]
    /\ snap = [c \in Cores |-> NULL]
    /\ epoch = [c \in Cores |-> NULL]

-----------------------------------------------------------------------------
(* The daemon, tickerloop. *)

BumpTick ==
    /\ visit = 0
    /\ current_tick < MaxTick
    /\ current_tick' = current_tick + 1
    /\ visit' = 1
    /\ UNCHANGED <<last_tick_inclusive, ticks, regionVars>>

(* Variant with a fault: the daemon does not wait for the lock.            *)
VisitCoreNoLock ==
    /\ visit \in Cores
    /\ ticks' = [ticks EXCEPT ![visit] = current_tick]
    /\ visit' = visit + 1
    /\ UNCHANGED <<current_tick, last_tick_inclusive, regionVars>>

(* A core that has stored the new tick is passed without its lock; any     *)
(* other one is moved to the new tick under the lock, outside its regions. *)
VisitCore ==
    /\ visit \in Cores
    /\ \/ ticks[visit] = current_tick /\ UNCHANGED ticks
       \/ /\ ticks[visit] # current_tick
          /\ guard[visit] = NULL
          /\ ticks' = [ticks EXCEPT ![visit] = current_tick]
    /\ visit' = visit + 1
    /\ UNCHANGED <<current_tick, last_tick_inclusive, regionVars>>

PublishTick ==
    /\ visit = NCores + 1
    /\ last_tick_inclusive' = current_tick - 1
    /\ visit' = 0
    /\ UNCHANGED <<current_tick, ticks, regionVars>>

Daemon == BumpTick \/ VisitCore \/ PublishTick

-----------------------------------------------------------------------------
(* A core's region. *)

global_last_tick_exclusive == last_tick_inclusive + 1

(* guard::guard takes the lock and reads the global tick ...               *)
GuardLock(c) ==
    /\ guard[c] = NULL
    /\ guard' = [guard EXCEPT ![c] = current_tick]
    /\ UNCHANGED <<daemonVars, ticks, stored, snap, epoch>>

(* ... and stores it in the core's slot.                                   *)
GuardStore(c) ==
    /\ guard[c] # NULL /\ ~stored[c]
    /\ ticks' = [ticks EXCEPT ![c] = guard[c]]
    /\ stored' = [stored EXCEPT ![c] = TRUE]
    /\ UNCHANGED <<daemonVars, guard, snap, epoch>>

(* transaction_proto2's constructor, for a read-only transaction.          *)
ReadLastTick(c) ==
    /\ stored[c]
    /\ snap' = [snap EXCEPT ![c] = global_last_tick_exclusive]
    /\ UNCHANGED <<daemonVars, ticks, guard, stored, epoch>>

(* gen_commit_tid reads the epoch a transaction commits in.                *)
ReadCommitEpoch(c) ==
    /\ stored[c]
    /\ epoch' = [epoch EXCEPT ![c] = current_tick]
    /\ UNCHANGED <<daemonVars, ticks, guard, stored, snap>>

(* ~guard: the slot keeps its tick, the lock is released.                  *)
GuardExit(c) ==
    /\ stored[c]
    /\ guard' = [guard EXCEPT ![c] = NULL]
    /\ stored' = [stored EXCEPT ![c] = FALSE]
    /\ snap' = [snap EXCEPT ![c] = NULL]
    /\ epoch' = [epoch EXCEPT ![c] = NULL]
    /\ UNCHANGED <<daemonVars, ticks>>

-----------------------------------------------------------------------------
(* "global_last_tick_exclusive() can increase by at most one tick during a *)
(* transaction" (txn_proto2_impl.h:1151-1153), on which the distance the   *)
(* garbage collector keeps rests, and the assertion of ~guard that the     *)
(* tick of an open region is not over (ticker.h:126).                      *)
AtMostOneTick ==
    \A c \in Cores :
        /\ guard[c] # NULL => guard[c] > last_tick_inclusive
        /\ snap[c] # NULL => global_last_tick_exclusive \in {snap[c], snap[c] + 1}
=============================================================================
