# Rakaia: a TLA+ verification project

Rakaia is a Linux kernel module that registers the address family `AF_RAKAIA`.
A server opens one rakaia socket per worker thread and *attaches* its accepted
TCP connections to the module. The module cuts the byte stream of each
connection into request messages, schedules whole messages over the workers
(join the shorter of two random queues, hand off to an idle worker, work
stealing), and accumulates the replies of all workers per connection before it
passes them to TCP. There are three copies of the module in
`src/rakaia/`: `plain-tcp`, `grpc` (HTTP/2 frames) and `tls` (kernel TLS). Beside
them `src/bench/servers` holds the servers that use it, the servers it is compared
with, and the Silo database as a workload.

This project models the concurrent paths of `plain-tcp` completely, what `grpc` and
`tls` do differently (frames, streams and flow control; the send path), the
thread-pool server, and of Silo the transactions, the epoch ticker and the
reclamation of memory. Line numbers below are of
`src/rakaia/plain-tcp/rakaiasock.c` unless another file is named.

## 1. Inventory

| Part | State | Operations | Talks to | What makes it hard | What must be true |
|---|---|---|---|---|---|
| Message scheduler (112-317, 1070-1106) | `rx_q` and its lock per socket, `rx_nonempty_bm`, `ksk_waiters`, `waiters_bm`, `waiters_lock`, receive queues | push, hand-off, steal, pull, mark idle, deliver | parser (push), worker (recvmsg, pull after sendmsg) | bitmap read with no lock, nested spinlocks, idle check against a push in flight, failing delivery | a message is in one place; the bitmap and the list do not lie; no worker is forgotten; no pull spins |
| Worker loop (`src/bench/servers/common-rakaia.c` 272-306) | blocked, processing, sending | create, first pull, epoll, recvmsg, sendmsg | scheduler, send path | create lists the socket as idle *before* the first pull | at most two messages wait at a worker |
| Send path (408-514, 516-762, `tcp_send.c`) | private skb list, `tx_wait_queue`, `tx_in_use`, TCP write queue, `write_seq` | copy, append, try to send, write space, `tx_work`, error exit | TCP, scheduler (pull) | a flag in place of a lock, several senders per connection, wrap of sequence numbers, failing copies | one thread sends; replies are whole and contiguous; nothing is stranded |
| Sockets and psocks (952-1068, 1148-1270, 1320-1388) | `rakaia_socks`, its count, waiter list, `psock_list`, saved callbacks, `sk_user_data`, queued work | create, attach, release | all of the above | walk over the psocks after the lock was dropped, failed attach, reopening | slots, count and callbacks name live objects |
| Stream parser (`strparser.c`, 365-396) | `skb_head`, `need_bytes`, timer, work item, `stopped` | data ready, work, timeout, abort, stop, done | TCP receive queue, scheduler | any segmentation, retry after ENOMEM, timer that fires while it is cancelled | deliveries are exactly the messages of the stream |
| HTTP/2 variant (`src/rakaia/grpc`) | stream table, connection windows | frame dispatch, stream flush, PING/SETTINGS/WINDOW_UPDATE replies | parser, send path | control frames sent from softirq, credit lost on allocation failure | requests are whole streams; credit is conserved |
| kTLS variant (`src/rakaia/tls`) | write queue per socket, wait queue per psock, `tx_in_use`, place in a message | `rakaia_sendmsg`, `rakaia_write_msgs`, `write_to_csock` | `sock_sendmsg` of the TLS socket | EAGAIN and hard errors in mid-message, batches, several workers per connection | one writer per connection; messages whole, once, in order |
| Thread-pool server (`src/bench/servers/common-linux-pool.c`) | `io_owned`, `io_pending`, `epollout_armed`, inbox, response list, job ring | event, drive, flush, read, push, answer, close | epoll, client | atomics instead of locks, level-triggered events returned to several threads, close against workers | responses whole and in order; none forgotten when all threads wait |
| Silo transactions (`src/bench/servers/silo`: `txn_impl.h`, `txn_proto2_impl.*`, `tuple.h`, `base_txn_btree.h`) | tuples and their chains, locks, read, write and absent sets, tids | get, put, insert, remove, snapshot, commit, abort, collect | ticker, RCU | validation against locks of others, insertions, in-place overwrites | serializable; snapshots exact; no access to freed versions |
| Silo ticker and RCU (`ticker.h`, `rcu.*`, `pxqueue.h`) | ticks, per-core locks, queues of pointers | bump, visit, publish, guard, queue, free | transactions | memory is freed on ticks alone | what is freed nobody can reach |

`PROJECT.json` lists all parts, also those left out, and under "hazards" the
places where these difficulties bite and a property covers them.

## 2. Modules

| Module | Models | Kind |
|---|---|---|
| `RxSched` | scheduler and worker loop | state machine |
| `MsgPool` | what the scheduler promises | abstract specification |
| `PsockTx` | send path of one connection | state machine |
| `TxLog` | what a send path promises | abstract specification, used for three of them |
| `Lifecycle` | create, attach, release | state machine |
| `Strparser` | parser of one connection | state machine |
| `H2Frames` | parser, flow control and send path of one `grpc` connection | state machine |
| `H2Requests` | what the HTTP/2 parser promises | abstract specification |
| `TlsTx`, `TlsTxLog` | send path of `tls`, and its mapping to `TxLog` | state machine |
| `PoolServer` | one connection of the thread-pool server | state machine |
| `Ticker`, `Reclaim` | Silo's epochs; when memory is freed | state machines, composed by `SiloTxn` |
| `SiloTxn` | Silo's transactions and its collector | state machine |
| `MC...` | instances for TLC | constants, symmetry |
| `RxSchedProofs`, `RxSchedClaims`, `RxSchedPlaces`, `RxSchedPool`, `PsockTxProofs`, `LifecycleProofs`, `TlsTxProofs`, `ReclaimProofs` | proofs | theorems |

Definitions placed before another one and commented as mutated, as a mutant or as a
variant with a fault (`DequeuePeeks`, `CopyLastAtHead`, ...) are deliberately wrong
versions of it. `PROJECT.json` pairs each with the property it breaks, to show that the
property can fail.

### RxSched

One step is a section of code between two accesses to shared state whose order
another thread can observe. `rx_lock` and `waiters_lock` record the sections
that span several steps.

* A connection (`Psocks`) pushes in softirq: `PushChoose` reads the two queue
  lengths without a lock (232-243), `PushTail`/`PushLock` is the section under
  the queue lock, `PushAvail` the nested one under `waiters_lock`;
  `PushNoWaiter` and `PushHandoff` follow it, and `PushDeliver` calls
  `rakaia_queue_rcv_skb` after all locks are released.
* A worker (`Socks`) runs `Create`, `PullLocal`, the steal in four steps
  (`StealPick` reads the bitmap, `StealReadLen` and `StealCompare` the two
  lengths, `StealTake` locks and dequeues or retries), `PullCheck` and
  `PullMark` under `waiters_lock`, then `Recvmsg` and `Sendmsg`.
* `MemPressure` and `Oversized` let deliveries fail, `SendMayFail` lets
  the worker's `rakaia_recvmsg` (copy to user space) or `rakaia_sendmsg` (`out_error`)
  return an error; both skip the pull.

`MsgPool` has one stage and one owner per message (unread, queued, delivered,
running, done or lost). `PoolSpec` is its specification under the mapping that
reads stage and owner off the queues and locals.

### PsockTx

`SendStart`, `CopyChunk`, `CopyLast`, `CopyFails` are `rakaia_sendmsg`: skbs hold
at most `SizeGoal` bytes and `MAX_SKB_FRAGS` fragments, the last chunk splices
the private list to `tx_wait_queue` under `tx_lock`, and an error exit calls
`tcp_remove_empty_skb` **without** the socket lock, as the code does: its test of the
tail is part of `CopyFails`, its unlinking the step `RemoveSkb`.
`TryAcquire` to `ReleaseSock` are the steps of `try_send_from_psock`; the stores of
`end_seq` and `seq` are separate steps, because the unlocked
`tcp_remove_empty_skb` reads both. A private skb keeps its length in `seq` and 0 in
`end_seq`, so after the store of `end_seq` an skb whose data starts at sequence
number 0 has equal fields and passes for empty. `lost` records that such an skb was
unlinked; the owner of the queue then goes on from the unlinked skb (`StoreFreed`), or
the sender unlinks what TCP has already freed ("fault"), and the model stops that thread,
because the code would follow a null or freed pointer. `Transmit` and `AckXmit` are TCP (external):
sending a prefix, on a push or on an acknowledgement. Sequence numbers are taken modulo
`SeqSpace`. `TxLog` is a log of whole messages and a transmitted prefix.

### Lifecycle

A psock goes through `pstate`: unused, listed, then attached or refused (unusable
connection) or dup (already attached), then freed. The release of a
socket is `ReleaseSlot` (under `rakaia->lock`), `WalkStart` (after it), then per psock
`DelPsock` and `DetachPsock`. `tmp` is the successor that
`list_for_each_entry_safe` read before the release. "oops" marks the release of
a psock that has no connection, where the code would follow a null or freed
pointer; the thread stops there. `reopened` is a history variable: a socket was opened
after one was released. The bundled servers open all sockets before they
close any, so it stays false in them; the properties that need this say so.

### Strparser

A byte is its position in the stream, a message its start and its length. The actions
of `__strp_recv` (`NeedHeader`, `NeedBytes`, `Deliver`, `ParserErr`, `MemFail`)
process the skb at the head of the receive queue. Reads run under the
socket lock and do not interleave; the timer does not take it until it runs.
Paths this build never enters (`strp_pause`, `-ESTRPIPE`) are left out.

### H2Frames and H2Requests

One connection of `src/rakaia/grpc`. A frame is its type, stream, END bit and
length; TCP may deliver it in two pieces. `csk_lock` is the lock of the TCP socket:
pieces that arrive while a process owns it go to the backlog, and `ReleaseSock`
processes the backlog and queues `strp_work`, as `strp_data_ready` does. `ReadPiece`
is `__strp_recv` for the softirq and the work alike, and calls `handle_h2_frame`, whose
fall through from RST_STREAM to DATA to HEADERS is kept. `FlowControl` counts and
returns credit; `lost` is the credit of updates that got no skb. `Serve`,
`TryEnter`, `TryPush` and `TryClear` carry replies and control frames through the wait
queue; what is on the wait queue is sent in one step, because its skbs are those of
`PsockTx`. `RelLock` and `RelDone` are `release_psock`, which calls `strp_done` with the
socket locked. The peer (external) respects windows and header blocks.

`H2Requests` knows only the frames of each stream and how many of them are in the
message being built or cut off: `RequestSpec` maps to it.

### TlsTx

A message is a sequence of skbs of bytes, and a queued message has the place at which its
write goes on (`started`, `skb`, `off` for `started_tx`, `frag_skb`,
`frag_offset`). `Sendmsg` has the three cases of MSG_BATCH, of a flush and of a queue
that is left alone; `SendmsgWaits` is a send that meets a shortage of memory and first writes out what a
batch left; `WriteMsg` to `WriteStop` are the loop of `rakaia_write_msgs`;
`SendBytes`, `SendFails` and `SendEmpty` are `write_to_csock`. A
failed write sets `tx_in_use` and returns, and nothing clears it, as in the code.

### PoolServer

A thread is a stack of labels, so that `drive_conn`, `flush_conn_responses`,
`update_conn_events` and `close_conn` are written once and return to their callers.
One step is one atomic access: `io_pending` and `io_owned` are exchanged
separately, `Check`, `Arm` and `epoll_ctl` are the test, the store and the system call of
`update_conn_events`. A request comes in pieces, the first of which is its header;
`read_more_into_buffer` fills `buf` up to `BUFSIZE` pieces for a header, and the rest of a
request is taken from the buffer and then from the socket. The end of the stream met while the buffer is filled
closes the connection with what was read before it. `taken` records that a thread cleared `io_pending` without getting
`io_owned`.

### Ticker, Reclaim, SiloTxn

`Ticker` is the daemon (`BumpTick`, `VisitCore`, `PublishTick`) and the region of a
core, whose lock the daemon waits for. Taking the lock with the global tick and
storing the tick are two steps. `Reclaim` adds the two queues that free memory, by
tick only, and a history variable `holders`: the regions that were open when the
object was unlinked. `SiloTxn` conjoins their actions with its own: a commit calls
`ReadCommitEpoch` and `Spill`, the collector `Requeue`, `GcFree` and `free_with_fn`.
Every action of `SiloTxn` conjoins an action of `Reclaim` or leaves `reclaimVars`
unchanged, so the theorems about `Reclaim` carry over to it.

A record is the tid of its writer. Each access to shared memory of a transaction
is a step: search, read, tentative insertion, each lock, tid, each validation, each
write, each unlock. Reads of a tuple are one step, since `record_at` retries until the
version is stable. The tree is a map with one node version that every insertion and
removal changes, which is what the absent set validates. The collector's removal of the key
(`ReapRemove`) and its mark on the tuple (`clear_latest`) are two steps. `hist` keeps what
committed transactions read and wrote, and which reads were validated between these
two steps (`torn`).

## 3. Runs

Passing runs:

| Run | Instance | Checks | Distinct states |
|---|---|---|---|
| `rx_sched` | 2 workers, 2 connections, 3 messages | `TypeOK BitmapExact WaitersExact WorkerAccounted`, `PushReturns PullReturns ServedWhileBusy` | 35,119 |
| `rx_failures` | 3 workers, 2 connections, 2 messages, failing deliveries and sends | `AtMostTwo`, `PoolSpec` | 30,248 |
| `tx_path` | 2 senders, 3 replies, failing sends, sequence numbers that wrap through 0 | `TxExclusive SeqContiguous EmptyOnlyAtZero`, `LogSpec DrainedByNextTry` | 38,775 |
| `life` | 3 sockets for 2 slots, 3 connections (one unusable), 3 psocks, reopening | `CntExact NoDanglingSlot ReceiverAlive SlotOwned OopsOnlyAfterFailedAttach`, `ReleaseOnlyWhenLast LastDetachesAll` | 1,417,010 |
| `strp` | lengths 4 2 5 2 with a limit of 4, header 2, segments up to 3, one failed allocation, timer | `Framing`, `WholeMessageDelivered NoDeliveryAfterStop` | 266,576 |
| `h2` | 2 streams, 3 stream frames and 1 control frame of every kind, split DATA, one failed allocation, bytes before attach, release | `CreditConserved NoStrandedControl`, `RequestSpec WindowReopens ArrivalsRead` | 230,101 |
| `tls_tx` | 2 workers, 2 connections, 6 messages, a batch, EAGAIN and closing peers | `TypeOK WriterExclusive BusyMeansWritten`, `LogSpec` | 98,576 |
| `pool` | 2 I/O threads, 1 worker, 3 requests (one split, one bad), read buffer of 2 pieces, closing client | `NothingForgotten`, `WholeResponses` | 776,028 |
| `silo` | 3 cores, 2 keys, 3 ticks, two workloads of 3 transactions; deadlock checked | `AtMostOneTick FreedUnreachable SerializableButTorn SnapshotExact NoFreedAccess` | 962,453 |

Three runs end in a counterexample. Each checks what a comment of the code says,
and `PROJECT.json` quotes it under "findings":

| Run | Property | What the code does |
|---|---|---|
| `life_work` | `TxWorkReturns` | `tx_work` is queued for a freed psock |
| `h2_release` | `DoneWithoutLock` | `release_psock` of `grpc` waits in `strp_done`, with the socket locked, for a work item that waits for that lock |
| `silo_reap` | `Serializable` | a read of a deleted tuple is validated after the collector removed the tuple from the tree and before it marks it as not the latest; meanwhile the key was inserted again |

The statements below are also made by comments, are definitions of the modules, and are
false of the code. Where a configuration is named, `tlc -config` on it shows the
counterexample; for the others add the definition to the configuration of the run.

* `IdleOnlyWhenEmpty` (1094; `RxSchedIdle.cfg`): every worker is idle and a message is
  queued, because the pusher gives up `waiters_lock` before it sets its bit.
* `WaitQueueDrained` (474; `PsockTxStranded.cfg`): a reply appended after the splice and
  before the flag is cleared stays in the wait queue until the next try.
* `EmptySkbRemoved` (`tcp_send.c` 199-204; `PsockTxLeak.cfg`): a failed first copy leaves its
  empty skb charged to the socket.
* `NoOutsideRefs` (1261-1263; `LifecycleRefs.cfg`): a released socket stays in the
  waiter list.
* `PingEchoed` (`grpc/strparser.c` 345; `H2Ping.cfg`): the payload of the PING reply
  is a buffer that was not written if the frame is in the linear part of its skb.
* `RetriedWhenSpace` (`tls/rakaiasock.c` 509-511; `TlsTxRetry.cfg`): a write that met EAGAIN is
  never tried again.
* `EpollCtlSkipped` (`common-linux-pool.c` 387; `PoolClose.cfg`): a worker that tested
  `closed` before the close calls `epoll_ctl` after it.
* `NoLeak` (`common-linux-pool.c` 807; `PoolLeak.cfg`): a worker that gets the connection after
  its close moves the inbox to the response list, which nobody frees.
* `WaitersIdle` (`rakaia.h` 166-167), in `RxSched.cfg`: a worker that
  processes a request is on the waiter list since its creation.
* `BytesKept` (`tcp_send.c` 199-204), in `PsockTx.cfg`: the unlocked `tcp_remove_empty_skb`
  takes an skb with data for empty when `write_seq` is 0 between the two stores.
  `EmptyOnlyAtZero` says that this is the only case, and `SeqContiguous`, `LogSpec` and
  `DrainedByNextTry` hold until it happens.
* `SlotOwned` without its condition `~reopened` (`rakaia.h` 155): a socket opened after a
  close overwrites the slot of an open one.
* `ReleaseOnlyWhenLast` without it (1189-1190, 1249): connections
  are detached while a socket that was opened during the walk is in use.
* `TimeoutWhileAssembling` (`strparser.c` 430), in `Strparser.cfg`: a timer
  that had fired aborts the parser after its message was delivered.

One more comment, `rcu.cc` 264 ("all threads are either at cur_tick or cur_tick + 1"), is not
exact: a region opened before the last bump is still at `cur_tick - 1`. The tick it
chooses is right all the same (`FreeingIsSafe`).

Further definitions hold in the same instances and can be added to a configuration:
`LockInv` and `OneHolder` (`RxSched`), `SendReturns` (`PsockTx`, `TlsTx` with `FairSpec`),
`NeedBytesBound` (`Strparser`), and every `TypeOK`.

### Bounds

Two workers suffice for a push to meet a pull of the chosen socket and a thief;
the third worker adds a pusher, an owner and a thief on one queue. Three messages
on two connections exceed two workers, so that a queue fills while the waiter
list is empty, and let one connection push while the other does. Reply sizes 4, 2 and
2 against skbs of 3 bytes and 2 fragments
give replies that end inside an skb and in a second one; `SeqSpace`
16 with `Isn` 14 makes a sequence number wrap inside an skb in some orders, and in others puts sequence
number 0 at the start of an skb, the case described under `BytesKept`.
Three sockets for two slots reach the refused creation and the reuse of a slot.
Of the four messages one is a header alone, one exceeds the limit, and one comes after
that; segments run from one byte to more than the shortest message, so that one
skb can end one message and hold the next. The real values (20 sockets, 2^32
sequence numbers, 24-byte headers) only scale these cases up.

In `h2` a window of 8 returns credit after two bytes: one DATA frame stays below that, two
reach it, and one RST_STREAM exceeds it. Three frames on streams give an interleaved request, one ended
by HEADERS, one with CONTINUATION and one reset. In `tls_tx` a message of two skbs meets
short ones, and a send buffer of 2 bytes stops it inside the first skb and after
it. In `pool` a send buffer of 3 bytes cuts the second of two responses of 2, and a read buffer
of 2 pieces fills in the middle of the second request; one worker pushes both responses, newest
first, so the order in the inbox matters, but two workers never push at once (with two, TLC does not
finish in minutes). `silo` has two workloads. In `Conflicting` the two
programs of the first core and the one of the second make read-write conflicts in both
directions, insertion against absence, deletion against collection, growth into a
new head, and a snapshot over all of it. In `Collecting` a third core reads while one deletes and
collects and another inserts again. Within three ticks both
queues free versions while transactions still run; `MaxNum` and `NTuples` are never
reached. Both multipliers are 1, against 25 or 10 in the code: with the real values a
read-only tick is longer, and no version would be collected within a few ticks. The
theorems of `ReclaimProofs` hold for all multipliers.

Deadlock is checked in `silo`, where `Finished` marks the end of the programs. In the other instances it is not, because each has a finite
supply of messages, replies or sockets and stops when it is used up; the
liveness properties state that operations return.

### Fairness

Weak fairness only, and only of code that has started: a softirq and a spinlock
section do not sleep, a runnable thread is scheduled, a queued work item runs, and in
`h2` TCP delivers the rest of a frame it began. The one
strong fairness is that of a read by `strp_work` in `h2`: `-ENOMEM` makes it try again, and memory is
not short every time. `life` has no fairness: `LastDetachesAll` says of every step that ends a walk
what it has detached.
Nothing obliges a client to send, TCP to receive an acknowledgement, or a
process to open, attach or close. (`TlsTxRetry.cfg` grants TCP acknowledgements, and the
write is still not tried again.) `pool` and `silo` state safety only; `NothingForgotten` is the safety form of "a
response is sent": whoever must go on has an event to wait for.

## 4. Proofs

`RxSchedProofs` proves, for every number of sockets, connections and messages and
with failures allowed, that `Spec` implies `[]TypeOK`, `[]LockInv`,
`[]BitmapExact`, `[]WaitersExact` and `[]WorkerAccounted` (the last is itself
conditional on `NoFailure`). The assumptions are
`ConstAssumption` of `RxSched` (the constants are sets and sequences of the right
kind, `NULL` is none of their members).

The inductive invariant `IInv` is the conjunction of the five and `CreateInv`.
`BitmapExact` says nothing about a queue whose lock is
held, so when the lock is released the proof needs `LockInv`: the queue under a
held lock is empty or holds just the pushed message, and its bit is clear.
`LockInv` in turn says which locals are set at which step, which types the
dereferences (`TypeStep`, `PushLocals`, `WorkLocals`). `WaitersExact` needs
`CreateInv`, so that `rakaia_create` does not link a socket twice, and
`WorkerAccounted` needs `LockInv`, which says that the socket popped by a push
stays in its `new_ksk` until the delivery.
Each conjunct has a step lemma with one case per action (`TypeStep`, `LocalsStep`,
`RxStep`, `WaitersStep`, `AccountedStep`). Frame lemmas
(`RxFrame`, `WaitersFrame`, `AccountedFrame`) settle the actions that do not touch
its variables. The module begins with the few facts about sequences that all of this uses.

`RxSchedClaims` proves `[]AtMostTwo` from `IInv` and a
second invariant, `ClaimOK`: the claims on a worker (its place on the waiter list, a push that
popped it, its own run, its queued messages) are finite sets whose cardinalities an
action moves from one to the next.

`RxSchedPlaces` and `RxSchedPool` prove `[]OneHolder` (a message is in exactly one place, and there
once) and the refinement `Spec => PoolSpec`. `RxSchedPlaces` names every place a message can be in and shows that each
action moves one message from one place to another, or none
(`Moves`, with `PushMotion` and `WorkMotion` per action). A message that is held in one place before such a move is
held in one place after it (`HolderStep`). `RxSchedPool` reads stage and owner off
the place (`stageOf`, `ownerOf`, `StageTable`), so that a move changes
the stage of one message and keeps all others (`OneChanges`, `OthersKeep`), and checks that the
change is an action of `MsgPool` (`PoolStep`).

`PsockTxProofs` proves `Spec => []TxExclusive` for every number of senders: the
conjunction of its three parts with the types of `pc` and `tx_in_use` (`TxInv`) is
inductive, because the flag and the lock are given up in the order in which `try_send_from_psock` does.

`LifecycleProofs` proves `CntExact`, `NoDanglingSlot` and `ReceiverAlive` for all numbers of
sockets, slots, connections and psocks. The first two are inductive with the types
of the slots and the finiteness of the set of open sockets (`SlotIInv`), since the
count is a cardinality. `ReceiverAlive` needs `PsockIInv`: a connection that has our
callbacks and the psock it points to name each other (`Receiver`), and the psock of a running attach is listed, has no
connection yet and is nobody else's (`Attaching`, `OwnPsock`), so that a release that
walks the list at the same time cannot free it.

Up to the first socket that is opened after a release (`~reopened`, which holds forever in the bundled
servers) it also proves `SlotOwned`, `ReleaseOnlyWhenLast` and `OopsOnlyAfterFailedAttach`. `ServerIInv` says that sockets take
the slots in order while they are opened, and that nothing is open once the walk of the psocks begins; `ListIInv` that
`psock_list` names each psock once, those not attached being listed by a running or a failed attach. Without
that condition the statements are false (section 3).

`TlsTxProofs` proves `WriterExclusive`, `BusyMeansWritten` and `TypeOK` of `TlsTx` for any workers,
connections and messages. The invariant says besides the types that a
worker in `write_to_csock` has a connection that is marked busy and others have none, that one whose write failed has left a
started message at the head (`Owner`), and that the place in a message is inside it (`FragAt`). Lemmas
state that `Txm`, `Resume`, `Advance` and concatenation keep the places inside.

`ReclaimProofs` proves `AtMostOneTick` and `FreedUnreachable` for any number of cores
and objects and all multipliers. `DaemonInv` says how far the published tick is behind the current one, in a round of the
daemon and between rounds; `SlotInv` that a core is at the
current tick or, if the daemon has not visited it, at the one before, so the tick that is over
is behind every open region; `RegionInv` bounds what a region has read from the clock; `ObjInv` says that an object is queued under a tick the queue
does not free while a region that may hold it is open. The lemmas `DivMonotone`, `RoTickMonotone` and
`RcuTickMonotone` carry this through the division by the multipliers.

Only model-checked: all liveness properties (temporal reasoning with `ENABLED`
is out of the prover's reach), the refinements `LogSpec`, `RequestSpec`,
and `WholeResponses`, `SeqContiguous`, `EmptyOnlyAtZero`, `LastDetachesAll`,
`Framing`, `CreditConserved` and `SerializableButTorn` (some are defined by folds and permutations, whose value for every input needs induction over
data), and everything about `Strparser`, `H2Frames` and `PoolServer`.

## 5. Not modelled

* The parser and the attach of `tls`: the code is that of `plain-tcp` apart from the
  callback that reads the length (hazard at `tls/rakaiasock.c` 383). The schedulers of
  `grpc` and `tls` are copies of the one modelled.
* `setsockopt` and `getsockopt` accept no option; `splice_read` is called by no server;
  statistics; the kernel patches (exported symbols); partial reads of a message by `recvmsg`
  (the servers read whole messages).
* `tls`: messages sent in parts (MSG_MORE and SEQPACKET without MSG_EOR, `tls/rakaiasock.c` 650-654,
  808-815, 827-833). No server sends so; a `Sendmsg` of the model is a whole message.
* `grpc`: the message timer of the parser (no server sets SO_RCVTIMEO, so it is never started), frames
  longer than the receive buffer and the parser abort they cause, and the error returns of attach, which leave the connection
  unattached.
* Reference counts of sockets and files; memory reuse after a free. In `PoolServer` the
  release of closed connections, which happens only with one I/O thread.
* Silo: the inside of masstree (the tree is an atomic map), range scans, a transaction that
  reads its own writes or writes a key twice, the RCU region around the cleanup of
  an abort, the early return of `do_cleanup` when nothing is due and the region it may be called in, the allocator, the benchmarks. The logger returns at once in this build
  (`txn_logger::Init`) and is dead code.
* The epoll, KCM and TLS servers share no state between their threads; request handlers, the harness
  and the plotting scripts are sequential. A large part of `src/` is of this kind,
  library code or generated, which is why the map covers a small share of its lines.

Hazards that these limits leave without a property:

* 750: the error exit of `rakaia_sendmsg` walks a list and frees each element before
  it reads the next pointer from it (memory reuse).
* 1034: attach takes a reference on the connection that no path of `release_psock` drops
  (reference counts).
* 235: a push draws one of `NUM_RAKAIA_SOCKETS` slots whether or not a socket is in it; the
  bundled servers open them all.
* 393: the length of a message is the 32-bit sum of two lengths of the wire, returned as
  `int`.
* `tls/rakaiasock.c` 383: a header that has not arrived whole is an error and not a
  wait for more.
* `grpc/strparser.c` 491: a window update wakes a sender only if `flow_stalled` is set, and
  nothing sets it; `send_quota` is never consulted.
* `common-linux-pool.c` 127: a worker that drives a connection pushes jobs itself; when the ring is full and
  every worker pushes, nobody pops. The instance has too few requests for that.

## 6. Future work

1. A composition of scheduler, parser, send path and life cycle: a request that
   arrives is answered, fewer sockets than slots, release with messages queued.
2. Proofs of `SeqContiguous`, `EmptyOnlyAtZero` and `LogSpec` of `PsockTx`, and of `LastDetachesAll`.
3. Two workers in `PoolServer` with close, with more symmetry than TLC offers here.
4. Sends of `tls` in parts (MSG_MORE, SEQPACKET).
