------------------------------- MODULE SiloTxn ------------------------------
(***************************************************************************)
(* Transactions of the Silo database (bench/servers/silo): optimistic      *)
(* reads and writes, the commit protocol (txn_impl.h), transaction ids and *)
(* snapshots (txn_proto2_impl.h), version chains (tuple.h) and the         *)
(* collector of old versions (txn_proto2_impl.cc), on top of the ticker    *)
(* and of the reclamation of memory (modules Ticker and Reclaim).          *)
(*                                                                         *)
(* Data: a record is the tid of the transaction that wrote it, or EMPTY.   *)
(* The tree is a map from keys to tuples with one node version, bumped by  *)
(* every insertion and removal of a key (masstree's full version value).   *)
(***************************************************************************)
EXTENDS Reclaim, Sequences, SequencesExt

CONSTANTS Keys,          \* keys of the table
          Loaded,        \* sequence of the keys present at the start
          NTuples,       \* bound: tuples that are ever allocated
          MaxNum,        \* bound: sequence number of a tid within its epoch
          Workloads      \* what the cores run: w[c][i] is the set of the transactions
                         \* from which the i-th of core c is taken

VARIABLES
    tree,       \* key -> tuple or NULL
    node,       \* version of the tree node that covers the keys
    tup,        \* the tuples
    used,       \* tuples allocated so far
    txn,        \* per core, the transaction being run
    queue,      \* per core, threadctx::queue_ of the collector
    rcuq,       \* per core, rcu::sync::queue_
    lastTid,    \* per core, threadctx::last_commit_tid_
    work,       \* per core, the transactions still to run
    hist        \* history: what the committed transactions read and wrote

dbVars == <<tree, node, tup, used>>
siloVars == <<reclaimVars, dbVars, txn, queue, rcuq, lastTid, work, hist>>

EMPTY == 0
MIN_TID == 0

-----------------------------------------------------------------------------
(* Transaction ids, ordered by epoch, number and core.                     *)

MakeTid(core, num, e) == (e * (MaxNum + 1) + num) * (NCores + 1) + core
EpochId(t) == t \div ((MaxNum + 1) * (NCores + 1))
NumId(t) == (t \div (NCores + 1)) % (MaxNum + 1)
MAX_TID == MakeTid(NCores, MaxNum, MaxTick + 1)

ComputeReadOnlyTid(tickEx) ==
    LET b == to_read_only_tick(tickEx) * ReadOnlyEpochMultiplier
    IN IF b = 0 THEN MIN_TID ELSE MakeTid(NCores, MaxNum, b - 1)

(* Variant with a fault: a version is overwritten whatever its tick.       *)
can_overwrite_always(prev, cur) == TRUE

can_overwrite_record_tid(prev, cur) ==
    \/ to_read_only_tick(EpochId(prev)) = to_read_only_tick(EpochId(cur))
    \/ prev = MIN_TID

-----------------------------------------------------------------------------
(* Tuples.                                                                 *)

Tuple(ver, live, next, latest, lock) ==
    [ver |-> ver, live |-> live, next |-> next, latest |-> latest,
     lock |-> lock, intent |-> lock # NULL, mod |-> FALSE]

Value(t) == IF tup[t].live THEN tup[t].ver ELSE EMPTY

Lock(t, c, intent) == [tup EXCEPT ![t].lock = c, ![t].intent = intent]

Unlocked(r) == [r EXCEPT !.lock = NULL, !.intent = FALSE, !.mod = FALSE]

(* record_at and record_at_chain: the newest version not behind tid.  The  *)
(* read waits for a modified tuple, and unless it is a snapshot's for a    *)
(* write intent; its version checks make it atomic.                        *)
Readable(t, snapshot) == ~tup[t].mod /\ (snapshot \/ ~tup[t].intent)

Walk(t, tid) ==
    LET walk[u \in 1 .. NTuples] ==
            IF tup[u].ver <= tid \/ tup[u].next = NULL THEN <<u>>
            ELSE <<u>> \o walk[tup[u].next]
    IN walk[t]

record_at(t, tid) ==
    LET last == Last(Walk(t, tid))
    IN IF tup[last].ver <= tid THEN Value(last) ELSE EMPTY

(* is_latest_version, and stable_is_latest_version for the tuples of       *)
(* others, which gives up on a tuple that stays locked for writing.        *)
is_latest_version(t, tid) == tup[t].latest /\ tup[t].ver <= tid
stable_is_latest_version(t, tid) == ~tup[t].intent /\ is_latest_version(t, tid)

-----------------------------------------------------------------------------
Idle == [pc |-> "idle", ro |-> FALSE, ops |-> <<>>, found |-> NULL,
         reads |-> <<>>, writes |-> <<>>, absent |-> NULL, got |-> {}, torn |-> {},
         todo |-> <<>>, tid |-> NULL, ok |-> FALSE]

Init ==
    /\ ReclaimInit
    /\ tree = [k \in Keys |-> IF Contains(Loaded, k) THEN CHOOSE t \in 1 .. Len(Loaded) : Loaded[t] = k
                             ELSE NULL]
    /\ node = 0
    /\ tup = [t \in 1 .. NTuples |->
                Tuple(MakeTid(1, 1, 1), TRUE, NULL, t <= Len(Loaded), NULL)]
    /\ used = Len(Loaded)
    /\ txn = [c \in Cores |-> Idle]
    /\ queue = [c \in Cores |-> <<>>]
    /\ rcuq = [c \in Cores |-> <<>>]
    /\ lastTid = [c \in Cores |-> MIN_TID]
    /\ work \in Workloads
    /\ hist = <<[snap |-> NULL, tid |-> MakeTid(1, 1, 1), reads |-> {}, torn |-> {},
                 writes |-> {<<k, MakeTid(1, 1, 1)>> : k \in ToSet(Loaded)}]>>

At(c, pc) == txn[c].pc = pc
Upd(c, r) == txn' = [txn EXCEPT ![c] = r @@ @]
Go(c, pc) == Upd(c, [pc |-> pc])
Op(c) == Head(txn[c].ops)


(* The entries of a write set for these tuples, in the order of the        *)
(* commit's vector, which is sorted by address.                            *)
Sorted(writes, tuples) ==
    SortSeq(SelectSeq(writes, LAMBDA w : w.tuple \in tuples), LAMBDA v, w : v.tuple < w.tuple)

Held(c) == {t \in 1 .. used : tup[t].lock = c}

AbortHolding(c, tuples) ==
    Upd(c, [pc |-> "unlock", ok |-> FALSE, todo |-> Sorted(txn[c].writes, tuples)])

Abort(c) == AbortHolding(c, Held(c))

-----------------------------------------------------------------------------
(* Running a transaction.                                                  *)

Begin(c) ==
    /\ At(c, "idle")
    /\ work[c] # <<>>
    /\ GuardLock(c)
    /\ \E p \in Head(work[c]) : Upd(c, [pc |-> "store"] @@ p)
    /\ work' = [work EXCEPT ![c] = Tail(@)]
    /\ UNCHANGED <<objVars, dbVars, queue, rcuq, lastTid, hist>>

Store(c) ==
    /\ At(c, "store")
    /\ GuardStore(c)
    /\ Go(c, IF txn[c].ro THEN "snap" ELSE "run")
    /\ UNCHANGED <<objVars, dbVars, queue, rcuq, lastTid, work, hist>>

Snapshot(c) ==
    /\ At(c, "snap")
    /\ ReadLastTick(c)
    /\ Upd(c, [pc |-> "run", tid |-> ComputeReadOnlyTid(global_last_tick_exclusive)])
    /\ UNCHANGED <<objVars, dbVars, queue, rcuq, lastTid, work, hist>>

Got(c, v) == [pc |-> "run", found |-> NULL, ops |-> Tail(txn[c].ops),
              got |-> txn[c].got \cup {<<Op(c).key, v>>}]

(* do_search: the tree gives the tuple, or its node is read as absent.     *)
Search(c) ==
    /\ At(c, "run") /\ txn[c].ops # <<>> /\ Op(c).op = "get"
    /\ LET t == tree[Op(c).key] IN
       \/ t # NULL /\ Upd(c, [pc |-> "found", found |-> t])
       \/ /\ t = NULL
          /\ IF txn[c].ro THEN Upd(c, Got(c, EMPTY))
             ELSE IF txn[c].absent \in {NULL, node}
                  THEN Upd(c, [absent |-> node] @@ Got(c, EMPTY))
                  ELSE Abort(c)
    /\ UNCHANGED <<reclaimVars, dbVars, queue, rcuq, lastTid, work, hist>>

(* do_tuple_read: a tentative insertion reads as empty at MIN_TID.         *)
TupleRead(c) ==
    /\ At(c, "found")
    /\ LET t == txn[c].found
           note(tid, v) == IF txn[c].ro THEN Upd(c, Got(c, v))
                           ELSE Upd(c, [reads |-> Append(txn[c].reads, [tuple |-> t, tid |-> tid, key |-> Op(c).key])]
                                       @@ Got(c, v))
       IN \/ tup[t].ver = MAX_TID /\ note(MIN_TID, EMPTY)
          \/ /\ tup[t].ver # MAX_TID
             /\ Readable(t, txn[c].ro)
             /\ IF txn[c].ro THEN note(txn[c].tid, record_at(t, txn[c].tid))
                ELSE note(tup[t].ver, Value(t))
    /\ UNCHANGED <<reclaimVars, dbVars, queue, rcuq, lastTid, work, hist>>

Write(t, ins, o) == [tuple |-> t, key |-> o.key, op |-> o.op, ins |-> ins]

(* do_tree_put finds the tuple, or try_insert_new_tuple links a locked one *)
(* at MAX_TID and moves the node version the transaction has read.         *)
Put(c) ==
    /\ At(c, "run") /\ txn[c].ops # <<>> /\ Op(c).op # "get"
    /\ tree[Op(c).key] # NULL
    /\ Upd(c, [ops |-> Tail(txn[c].ops),
               writes |-> Append(txn[c].writes, Write(tree[Op(c).key], FALSE, Op(c)))])
    /\ UNCHANGED <<reclaimVars, dbVars, queue, rcuq, lastTid, work, hist>>

try_insert_new_tuple(c) ==
    /\ At(c, "run") /\ txn[c].ops # <<>> /\ Op(c).op # "get"
    /\ tree[Op(c).key] = NULL
    /\ used < NTuples
    /\ used' = used + 1
    /\ tree' = [tree EXCEPT ![Op(c).key] = used + 1]
    /\ tup' = [tup EXCEPT ![used + 1] = Tuple(MAX_TID, Op(c).op # "remove", NULL, TRUE, c)]
    /\ node' = node + 1
    /\ LET w == Append(txn[c].writes, Write(used + 1, TRUE, Op(c))) IN
       IF txn[c].absent \in {NULL, node}
       THEN Upd(c, [ops |-> Tail(txn[c].ops), writes |-> w,
                    absent |-> IF txn[c].absent = NULL THEN NULL ELSE node + 1])
       ELSE Upd(c, [pc |-> "unlock", ok |-> FALSE, writes |-> w,
                    todo |-> SelectSeq(w, LAMBDA x : x.ins)])
    /\ UNCHANGED <<reclaimVars, queue, rcuq, lastTid, work, hist>>

-----------------------------------------------------------------------------
(* commit                                                                  *)

Committed(c, tid) ==
    hist' = Append(hist,
        [snap |-> IF txn[c].ro THEN txn[c].tid ELSE NULL, tid |-> tid, reads |-> txn[c].got,
         torn |-> txn[c].torn,
         writes |-> {<<w.key, IF w.op = "remove" THEN EMPTY ELSE tid>> : w \in ToSet(txn[c].writes)}])

(* What follows the writes: the locked tuples are unlocked.                *)
Written(c) == [pc |-> "unlock", ok |-> TRUE, todo |-> Sorted(txn[c].writes, Held(c))]

Commit(c) ==
    /\ At(c, "run") /\ txn[c].ops = <<>>
    /\ IF txn[c].ro
       THEN Committed(c, NULL) /\ Upd(c, Written(c))
       ELSE /\ Upd(c, [pc |-> "lock",
                       todo |-> Sorted(txn[c].writes, 1 .. used \ Held(c))])
            /\ UNCHANGED hist
    /\ UNCHANGED <<reclaimVars, dbVars, queue, rcuq, lastTid, work>>

(* handle_last_tuple_in_group locks the written tuples in address order.   *)
LockTuple(c) ==
    /\ At(c, "lock") /\ txn[c].todo # <<>>
    /\ LET t == Head(txn[c].todo).tuple IN
       \/ tup[t].ver = MAX_TID /\ Abort(c) /\ UNCHANGED tup
       \/ /\ tup[t].ver # MAX_TID
          /\ tup[t].lock = NULL
          /\ tup' = Lock(t, c, TRUE)
          /\ IF tup[t].latest THEN Upd(c, [todo |-> Tail(txn[c].todo)])
             ELSE AbortHolding(c, Held(c) \cup {t})
    /\ UNCHANGED <<reclaimVars, tree, node, used, queue, rcuq, lastTid, work, hist>>

(* gen_commit_tid, once every lock is held.  A transaction that writes     *)
(* nothing takes no tid.                                                   *)
gen_commit_tid(c) ==
    LET mine == IF EpochId(lastTid[c]) = current_tick THEN lastTid[c] ELSE MakeTid(0, 0, current_tick)
        seen == {r.tid : r \in ToSet(txn[c].reads)}
                \cup {tup[w.tuple].ver : w \in {w \in ToSet(txn[c].writes) : ~w.ins}}
    IN MakeTid(c, NumId(Max({mine} \cup seen)) + 1, current_tick)

GenTid(c) ==
    /\ At(c, "lock") /\ txn[c].todo = <<>>
    /\ IF txn[c].writes = <<>>
       THEN Upd(c, [pc |-> "valid", todo |-> txn[c].reads]) /\ UNCHANGED <<tickerVars, lastTid>>
       ELSE /\ ReadCommitEpoch(c)
            /\ Upd(c, [pc |-> "valid", todo |-> txn[c].reads, tid |-> gen_commit_tid(c)])
            /\ lastTid' = [lastTid EXCEPT ![c] = gen_commit_tid(c)]
    /\ UNCHANGED <<objVars, dbVars, queue, rcuq, work, hist>>

(* Variant with a fault: reads are validated without looking at the locks  *)
(* of other transactions.                                                  *)
ReadValidUnlocked(c, r) == is_latest_version(r.tuple, r.tid)

ReadValid(c, r) ==
    IF \E w \in ToSet(txn[c].writes) : w.tuple = r.tuple
    THEN is_latest_version(r.tuple, r.tid)
    ELSE stable_is_latest_version(r.tuple, r.tid)

(* A tuple that the collector has taken out of the tree.                   *)
Removed(t) == \A k \in Keys : tree[k] # t

(* torn is history: the keys whose read was accepted although the          *)
(* collector had removed the tuple.                                        *)
ValidateRead(c) ==
    /\ At(c, "valid") /\ txn[c].todo # <<>>
    /\ LET r == Head(txn[c].todo) IN
       IF ReadValid(c, r)
       THEN Upd(c, [todo |-> Tail(txn[c].todo),
                    torn |-> txn[c].torn \cup (IF Removed(r.tuple) THEN {r.key} ELSE {})])
       ELSE Abort(c)
    /\ UNCHANGED <<reclaimVars, dbVars, queue, rcuq, lastTid, work, hist>>

(* The absent set is checked last; from here the commit cannot fail.       *)
ValidateAbsent(c) ==
    /\ At(c, "valid") /\ txn[c].todo = <<>>
    /\ IF txn[c].absent \in {NULL, node}
       THEN /\ Committed(c, txn[c].tid)
            /\ Upd(c, IF txn[c].writes = <<>> THEN Written(c)
                      ELSE [pc |-> "write", todo |-> txn[c].writes])
       ELSE Abort(c) /\ UNCHANGED hist
    /\ UNCHANGED <<reclaimVars, dbVars, queue, rcuq, lastTid, work>>

-----------------------------------------------------------------------------
(* write_record_at for the head of the write list.  The four ways to       *)
(* write: in place, in place after copying the old version behind the      *)
(* tuple, and by a new head, which is locked, linked and unlocked again    *)
(* while the old tuple stays locked.                                       *)

Entry(t, tick, del, k) == [tuple |-> t, tick |-> tick, del |-> del, key |-> k]

(* on_dbtuple_spill queues the old version rest, unless it is NULL, and    *)
(* on_logical_delete a deleted head.                                       *)
Enqueue(c, w, rest, head) ==
    LET tick == to_read_only_tick(epoch[c])
        spill == IF rest = NULL THEN <<>> ELSE <<Entry(rest, tick, FALSE, w.key)>>
        del == IF w.op = "remove" THEN <<Entry(head, tick, TRUE, w.key)>> ELSE <<>>
    IN queue' = [queue EXCEPT ![c] = @ \o spill \o del]

InPlace(c, w) == [tup EXCEPT ![w.tuple].ver = txn[c].tid, ![w.tuple].live = w.op # "remove",
                             ![w.tuple].mod = TRUE]

Overwrite(c, w) ==
    /\ tup' = InPlace(c, w)
    /\ Enqueue(c, w, NULL, w.tuple)
    /\ UNCHANGED <<objVars, tree, used>>

CopyBehind(c, w) ==
    LET t == w.tuple IN
    /\ used < NTuples
    /\ used' = used + 1
    /\ tup' = [InPlace(c, w) EXCEPT
                 ![used + 1] = Tuple(tup[t].ver, TRUE, tup[t].next, FALSE, NULL),
                 ![t].next = used + 1]
    /\ Spill(c, used + 1)
    /\ Enqueue(c, w, used + 1, t)
    /\ UNCHANGED tree

NewHead(c, w) ==
    LET t == w.tuple IN
    /\ used < NTuples
    /\ used' = used + 1
    /\ tup' = [tup EXCEPT ![used + 1] = Tuple(txn[c].tid, w.op # "remove", t, TRUE, NULL),
                          ![t].latest = FALSE]
    /\ tree' = [tree EXCEPT ![w.key] = used + 1]
    /\ IF tup[t].live THEN Spill(c, t) ELSE Replace(c, t)
    /\ Enqueue(c, w, IF tup[t].live THEN t ELSE NULL, used + 1)

write_record_at(c, w) ==
    LET t == w.tuple
        fits == w.op # "grow"
        over == can_overwrite_record_tid(tup[t].ver, txn[c].tid)
    IN \/ tup[t].live /\ fits /\ over /\ Overwrite(c, w)
       \/ tup[t].live /\ fits /\ ~over /\ CopyBehind(c, w)
       \/ ~(tup[t].live /\ fits) /\ NewHead(c, w)

WriteTuple(c) ==
    /\ At(c, "write")
    /\ LET w == Head(txn[c].todo) IN
       \/ /\ w.ins
          /\ tup' = [tup EXCEPT ![w.tuple].ver = txn[c].tid]
          /\ UNCHANGED <<objVars, tree, used, queue>>
       \/ ~w.ins /\ write_record_at(c, w)
    /\ IF Len(txn[c].todo) = 1 THEN Upd(c, Written(c)) ELSE Upd(c, [todo |-> Tail(txn[c].todo)])
    /\ UNCHANGED <<tickerVars, node, rcuq, lastTid, work, hist>>

(* The unlock loops of a commit and of an abort; an abort also takes its   *)
(* tentative insertions out of the tree (cleanup_inserted_tuple_marker).   *)
UnlockTuple(c) ==
    /\ At(c, "unlock") /\ txn[c].todo # <<>>
    /\ LET w == Head(txn[c].todo) IN
       \/ /\ txn[c].ok \/ ~w.ins
          /\ tup' = [tup EXCEPT ![w.tuple] = Unlocked(@)]
          /\ UNCHANGED <<objVars, tree, node, rcuq>>
       \/ /\ ~txn[c].ok /\ w.ins
          /\ tup' = [tup EXCEPT ![w.tuple] = [Unlocked(@) EXCEPT !.latest = FALSE]]
          /\ tree' = [tree EXCEPT ![w.key] = NULL]
          /\ node' = node + 1
          /\ free_with_fn(c, w.tuple)
          /\ rcuq' = [rcuq EXCEPT ![c] = Append(@, w.tuple)]
    /\ Upd(c, [todo |-> Tail(txn[c].todo)])
    /\ UNCHANGED <<tickerVars, used, queue, lastTid, work, hist>>

-----------------------------------------------------------------------------
(* ~transaction closes the region, frees what RCU allows and then reaps    *)
(* old versions.                                                           *)

Exit(c) ==
    /\ At(c, "unlock") /\ txn[c].todo = <<>>
    /\ GuardExit(c) /\ Forget(c)
    /\ txn' = [txn EXCEPT ![c] = [Idle EXCEPT !.pc = "rcu"]]
    /\ UNCHANGED <<dbVars, queue, rcuq, lastTid, work, hist>>

(* The leading entries of a queue that a limit allows (empty_accept_from), *)
(* where tick[i] is the tick of the i-th.                                  *)
Due(q, tick, limit) ==
    LET late == {i \in 1 .. Len(q) : tick[i] > limit}
    IN SubSeq(q, 1, Min(late \cup {Len(q) + 1}) - 1)

(* do_cleanup.  When clean_tick is still what it was at the last call, the   *)
(* early return, nothing is due.  The region that the deletes are in would   *)
(* only hold the ticker back.                                                *)
RcuStart(c) ==
    /\ At(c, "rcu")
    /\ LET due == Due(rcuq[c], [i \in DOMAIN rcuq[c] |-> at[rcuq[c][i]]], clean_tick) IN
       /\ Upd(c, [pc |-> "free", todo |-> due])
       /\ rcuq' = [rcuq EXCEPT ![c] = SubSeq(@, Len(due) + 1, Len(@))]
    /\ UNCHANGED <<reclaimVars, dbVars, queue, lastTid, work, hist>>

RcuDelete(c) ==
    /\ At(c, "free") /\ txn[c].todo # <<>>
    /\ RcuFree(Head(txn[c].todo))
    /\ Upd(c, [todo |-> Tail(txn[c].todo)])
    /\ UNCHANGED <<tickerVars, dbVars, queue, rcuq, lastTid, work, hist>>

(* on_post_rcu_region_completion and the start of clean_up_to_including.   *)
GcStart(c) ==
    /\ At(c, "free") /\ txn[c].todo = <<>>
    /\ LET due == Due(queue[c], [i \in DOMAIN queue[c] |-> queue[c][i].tick], ro_tick_geq) IN
       /\ Upd(c, [pc |-> IF due = <<>> THEN "idle" ELSE "reap", todo |-> due])
       /\ queue' = [queue EXCEPT ![c] = SubSeq(@, Len(due) + 1, Len(@))]
    /\ UNCHANGED <<reclaimVars, dbVars, rcuq, lastTid, work, hist>>

Reaping(c, del) == At(c, "reap") /\ txn[c].todo # <<>> /\ Head(txn[c].todo).del = del
Reaped(c) == Upd(c, [pc |-> "reap", todo |-> Tail(txn[c].todo)])

release_no_rcu(c) ==
    /\ Reaping(c, FALSE)
    /\ GcFree(Head(txn[c].todo).tuple)
    /\ Reaped(c)
    /\ UNCHANGED <<tickerVars, dbVars, queue, rcuq, lastTid, work, hist>>

(* A deleted version that a later write replaced is queued again.          *)
ReapReplaced(c) ==
    /\ Reaping(c, TRUE)
    /\ LET e == Head(txn[c].todo) IN
       /\ tup[e.tuple].lock = NULL
       /\ ~tup[e.tuple].latest
       /\ Requeue(e.tuple)
       /\ queue' = [queue EXCEPT
              ![c] = Append(@, Entry(e.tuple, to_read_only_tick(current_tick), FALSE, e.key))]
    /\ Reaped(c)
    /\ UNCHANGED <<tickerVars, dbVars, rcuq, lastTid, work, hist>>

(* One that is still the latest leaves the tree, inside an RCU region that *)
(* is opened, with the tuple locked, for the first such version.           *)
ReapLock(c) ==
    /\ Reaping(c, TRUE)
    /\ LET t == Head(txn[c].todo).tuple IN
       /\ tup[t].lock = NULL
       /\ tup[t].latest
       /\ tup' = Lock(t, c, FALSE)
    /\ IF guard[c] = NULL THEN GuardLock(c) /\ Go(c, "enter")
       ELSE UNCHANGED tickerVars /\ Go(c, "remove")
    /\ UNCHANGED <<objVars, tree, node, used, queue, rcuq, lastTid, work, hist>>

ReapEnter(c) ==
    /\ At(c, "enter")
    /\ GuardStore(c)
    /\ Go(c, "remove")
    /\ UNCHANGED <<objVars, dbVars, queue, rcuq, lastTid, work, hist>>

(* The key leaves the tree; the tuple, locked without a write intent, is   *)
(* still marked the latest version.                                        *)
ReapRemove(c) ==
    /\ At(c, "remove")
    /\ tree' = [tree EXCEPT ![Head(txn[c].todo).key] = NULL]
    /\ node' = node + 1
    /\ Go(c, "clear")
    /\ UNCHANGED <<reclaimVars, tup, used, queue, rcuq, lastTid, work, hist>>

clear_latest(c) ==
    /\ At(c, "clear")
    /\ LET t == Head(txn[c].todo).tuple IN
       /\ tup' = [tup EXCEPT ![t] = [Unlocked(@) EXCEPT !.latest = FALSE]]
       /\ free_with_fn(c, t)
       /\ rcuq' = [rcuq EXCEPT ![c] = Append(@, t)]
    /\ Reaped(c)
    /\ UNCHANGED <<tickerVars, tree, node, used, queue, lastTid, work, hist>>

ReapDone(c) ==
    /\ At(c, "reap") /\ txn[c].todo = <<>>
    /\ IF guard[c] = NULL THEN UNCHANGED reclaimVars ELSE GuardExit(c) /\ Forget(c)
    /\ Go(c, "idle")
    /\ UNCHANGED <<dbVars, queue, rcuq, lastTid, work, hist>>

-----------------------------------------------------------------------------
Tick == Daemon /\ UNCHANGED <<objVars, dbVars, txn, queue, rcuq, lastTid, work, hist>>

CoreStep(c) ==
    \/ Begin(c) \/ Store(c) \/ Snapshot(c)
    \/ Search(c) \/ TupleRead(c) \/ Put(c) \/ try_insert_new_tuple(c)
    \/ Commit(c) \/ LockTuple(c) \/ GenTid(c) \/ ValidateRead(c) \/ ValidateAbsent(c)
    \/ WriteTuple(c) \/ UnlockTuple(c)
    \/ Exit(c) \/ RcuStart(c) \/ RcuDelete(c) \/ GcStart(c)
    \/ release_no_rcu(c) \/ ReapReplaced(c) \/ ReapLock(c) \/ ReapEnter(c)
    \/ ReapRemove(c) \/ clear_latest(c) \/ ReapDone(c)

(* Nothing is left to do: the bounds on ticks and transactions are met.    *)
Finished ==
    /\ \A c \in Cores : At(c, "idle") /\ work[c] = <<>>
    /\ current_tick = MaxTick /\ visit = 0
    /\ UNCHANGED siloVars

Next == Tick \/ (\E c \in Cores : CoreStep(c)) \/ Finished

Spec == Init /\ [][Next]_siloVars

-----------------------------------------------------------------------------
(* Properties.                                                             *)

(* The value that a serial execution leaves under k.                       *)
Writers(order, k) == SelectSeq(order, LAMBDA h : \E w \in h.writes : w[1] = k)

After(order, k) ==
    IF Writers(order, k) = <<>> THEN EMPTY
    ELSE (CHOOSE w \in Last(Writers(order, k)).writes : w[1] = k)[2]

Conflict(g, h) == \E v \in g.writes, w \in h.writes : v[1] = w[1]

(* In the order p the writers of a key come in the order of their tids and *)
(* a transaction sees, of the reads that Seen picks, what the ones before  *)
(* it wrote.                                                               *)
SerialIn(p, Seen(_)) ==
    \A i \in 1 .. Len(hist) :
        LET before == [j \in 1 .. i - 1 |-> hist[p[j]]] IN
        /\ \A r \in Seen(hist[p[i]]) : r[2] = After(before, r[1])
        /\ \A g \in ToSet(before) : Conflict(g, hist[p[i]]) => g.tid < hist[p[i]].tid

(* There is such an order.  Most often it is that of the commits, so this  *)
(* one is tried first.                                                     *)
SerialOrder(Seen(_)) ==
    \/ SerialIn([i \in 1 .. Len(hist) |-> i], Seen)
    \/ \E p \in Permutations(1 .. Len(hist)) : SerialIn(p, Seen)

(* "This class implements a serializable, multi-version b-tree"            *)
(* (txn_btree.h:187).                                                      *)
Serializable == SerialOrder(LAMBDA h : h.reads)

(* The committed transactions, snapshots included, are serializable up to  *)
(* the reads that were validated while the collector was between the       *)
(* removal of the key and clear_latest: the optimistic commit (locks, then *)
(* tid, then validation of reads and of absent keys) lets no other cycle   *)
(* through, insertions and deletions included.                             *)
SerializableButTorn == SerialOrder(LAMBDA h : {r \in h.reads : r[1] \notin h.torn})

(* A snapshot read returns the newest version of its tick's past, and no   *)
(* later commit writes into that past: the version is not overwritten in   *)
(* place, not collected, and no transaction still commits at or before the *)
(* snapshot's tid.                                                         *)
SnapshotExact ==
    \A i \in 1 .. Len(hist) : hist[i].snap # NULL =>
        \A r \in hist[i].reads :
            LET past == {h \in ToSet(hist) :
                           h.tid # NULL /\ h.tid <= hist[i].snap /\ \E w \in h.writes : w[1] = r[1]}
            IN \/ past = {} /\ r[2] = EMPTY
               \/ \E h \in past : r \in h.writes /\ \A g \in past : g.tid <= h.tid

(* A transaction never touches a freed version: not through the tree, not  *)
(* through its read and write sets, and not by walking a chain to the      *)
(* version its snapshot needs, although next pointers to freed versions    *)
(* are left in place (tuple.h:142-144).                                    *)
NoFreedAccess ==
    /\ \A k \in Keys : tree[k] # NULL => ~Freed(tree[k])
    /\ \A c \in Cores : stored[c] =>
         /\ \A r \in ToSet(txn[c].reads) \cup ToSet(txn[c].writes) : ~Freed(r.tuple)
         /\ At(c, "found") => \A t \in ToSet(Walk(txn[c].found, IF txn[c].ro THEN txn[c].tid ELSE MAX_TID)) :
                                 ~Freed(t)
=============================================================================
