# SevenDB in TLA+

SevenDB is a reactive key-value database: clients watch queries, changes of
watched keys go through a raft log, and the resulting notifications
("emissions") are delivered, acknowledged and purged under the *emission
contract*. This directory models the server: the parts in which several
goroutines, nodes or crashes meet step by step, and the command evaluators as
operators on the store. TLC checks the models on small instances; TLAPS proves
the central results for every value of the constants.

`PROJECT.json` lists the components, the runs, the mutants, the lines of `src/`
each definition stands for, the hazards and the theorems.

## 1. The system and its modules

| Part | Source | Modules |
|---|---|---|
| Leader gate | `internal/shardmanager/leader_notifier.go` | `LeaderGate` |
| Peer connections | `internal/raft/grpc_transport.go` | `Transport` |
| Peer list, node ids, voters | `internal/raft/peers.go`, `shardmanager/main.go` | `ClusterConfig` |
| Shard raft node | `internal/raft/types.go` | `ShardRaft`, abstract `BucketAppend` |
| Raft files, shadow WAL | `internal/raft/persist.go`, `internal/raftwal/writer.go`, `wal_adapter.go` | `RaftDisk` |
| Bucket logs | `internal/bucket` | `BucketFile`; the raft-backed one in `ShardRaft` |
| Emission pipeline | `internal/emission` | `EmitSeq`, `Emission`, abstract `Delivery` |
| Watch subscriptions | `internal/server/ironhawk`, `internal/emission/notifier.go`, `outbox.go` | `Subscription` |
| Forge WAL | `internal/wal/wal_forge.go`, `internal/raft/wal_adapter_forge.go` | `ForgeWAL` |
| Start, manifest, replay | `server/main.go`, `internal/wal` | `Recovery` |
| Store | `internal/store`, `internal/shardthread` | `Store`, `StoreThreads` |
| Commands of the server | `internal/cmd` | `Commands`; EMITACK, EMITRECONNECT, WATCH in `Emission`, `Subscription` |
| Evaluation engine | `internal/eval` | `Eval`, `EvalCollections`, `EvalBits`, `EvalSketch`, `EvalEngine` |
| Lists of the engine | `internal/eval/deque.go`, `bytelist.go` | `Deque`, abstract `ListSpec` |

How the parts interact: an IO thread executes a command on the store and logs
it to the Forge WAL. A change of a watched key makes the watch manager propose
a DATA_EVENT to the shard's raft node. The ready loop of every node writes its
files, logs committed entries to the WAL, calls the replication handler (which
applies outbox records) and passes the record to the Applier through
`committedCh`. On the leader the Applier proposes the OUTBOX_WRITE; the notifier
sends pending entries through the leader gate and the emission bridge to the IO
thread of the subscribed client; EMITACK is proposed as an ACK, becomes an
OUTBOX_PURGE and removes the entry from all replicas. At a start the server
checks the manifest, replays the command log and restores subscriptions, and
each raft node loads its files.

What makes it hard: leadership moves between any two of these steps; outbox
records are applied twice, by the handler and later by the Applier; client
connections overlap and rebinds run under two locks; IO threads share the store
without a lock; WAL syncs are shared between threads; the state of a node is
spread over files that are written one after the other.

### The modules

**`LeaderGate`** One raft group; per node a gate and two polling goroutines
(`Start` is called by `NewShardManager` and by `Run`). Reading the status and
storing the gate are separate steps. Elections are external and unconstrained,
except that with `QuietStart` none falls inside a `Start`.

**`Transport`** One node's table entry for one peer, the goroutines that dial,
the reader of each installed connection and the ready loop in `Send`. The link
fails a bounded number of times and comes back. `removePeer` takes whatever is
in the table, as in the code.

**`ClusterConfig`** Every member parses a permutation of one peer list, in any
order of Go's map iteration, picks its id and its voters, and may restart.

**`ShardRaft`, `BucketAppend`** Both engines. Consensus is external: one
committed log, proposals in flight that may be lost, each node's view of who
leads. `ProposeAndWait` is four steps (refuse or enter, hand to raft, wait,
return or give up); an application is split at the unlock before the
replication handler; Close is split at its wait for the ready loop.
`BucketAppend` states what a caller may rely on, and a node alone implements it.

**`RaftDisk`** `entries.log`, `hardstate.json`, `snapshot.bin`, the segments of
the shadow WAL and the validator ring. Every file operation of `processReady` is
a step, the prune runs in the background, a crash falls anywhere and may tear
what it interrupts, and `Load` and `Replay` read what is left.

**`BucketFile`** One bucket's file, appends in two steps (flush, fsync), the
`Bucket.Run` loop that reads while appends go on, crashes, failed writes and
failed fsyncs.

**`EmitSeq`, `Emission`, `Delivery`** One shard and one subscription on all
nodes. `ReadyApply` is the ready loop with the handler and the bounded
`committedCh`; `Applier` reads it and blocks in `ProposeAndWait`; `Poll`, `Send`,
`Connect`, `Disconnect`, `ClientAck` and `Restart` are the controller, the
notifier, the client and the process. `Delivery` is the least the contract
promises whatever fails; `ImplementsDelivery` instantiates it.

**`Subscription`** One fingerprint on the leader: connections, their IO threads
(each command in the critical sections the code has), the watch manager's maps,
the outbox rebind, the steps of a notifier tick. Raft is the set of proposals
that are going to be applied.

**`ForgeWAL`** The process-wide log and the goroutines that share it: IO
threads, the ready loop and the prune of each shard's raft group, the tickers. A
record is an append with its segment and the number `lastIndexOfSegment` reads
from it; that it also has a group and a run of the process is for the properties
only. `sync()` is two steps under `wl.mu` (the fsync of the segment; the
replacement of the hardstate file). A crash keeps what was fsynced and, of each
segment, some prefix of the rest, the last of it possibly torn; after it raft
hands out again what was committed behind its snapshot, into the same segment.

**`Recovery`** The server around its log: start with manifest and preambles,
replay, IO threads that execute, log, sync and answer as separate steps, the
tickers, crashes. Here a sync is one step.

**`Store`, `Commands`, `StoreThreads`** The store's operations as operators on a
record; each command an operator from a store and its arguments to the set of
its outcomes, executed by IO threads with the shard's cron task in between. In
`StoreThreads` the same operations run in the small steps that are really
atomic, by concurrent threads and the cron task, on one key.

**`Eval*`, `EvalEngine`** The command set carried over from DiceDB, which tests
and `internal/ops` reach and the running server does not: strings, counters,
expiry, whole keys, hashes, sets, lists, sorted sets with their tree and map,
GEO, bits, count-min sketches, Bloom filters, HyperLogLogs. Texts are byte
sequences, integers are `IntHalf` wide so that overflow happens.

**`Deque`, `ListSpec`** Both list implementations on buffers of cells, their
iterators, and DUMP/RESTORE; each implements `ListSpec`.

**`MC*`** give the constants their values. Where several components that share
no state are in one MC module (`MCCluster`, `MCFiles`, `MCCommands`, `MCEval`), a
behaviour is one of a single component, chosen at the start. A variable
`setting`, `conf`, `mix`, `menu` or `bound` is chosen at the start among the
circumstances the run looks at and never changes.

## 2. Runs

| Run | Asks | Bounds |
|---|---|---|
| `cluster` | Two goroutines that share a gate never leave it wrong for good, and it follows the leadership; no connection is lost track of, and a peer is connected again and again; all members see the same ids, and a restart keeps a node's id | 2 nodes, 2 goroutines each, 3 elections, none inside a `Start`; 3 connections, 2 dialling goroutines, 2 link failures; peer lists of up to 3 entries, 2 starts |
| `emission` | Unacknowledged entries stay pending, a caught-up outbox is one replay of the log, the pipeline implements `Delivery`; while nothing disturbs it: order, one number per event, delivery and purge | 2 nodes, a channel of 3; 1 event, 1 ack, 1 election, 1 restart, 2 connects, and 2 events, 2 acks under one leader |
| `subscription_quiet` | What is skipped as sent was received; pending entries reach the client | 1 client, 3 connections, 2 events |
| `subscription_rebind` | No lost entry, no orphaned binding, whatever overlaps | 2 clients, 2 connections, 1 event; clients and connections symmetric |
| `forge_safe` | Durable before OK; a prune keeps what raft needs of the segments its group filled alone; every Sync returns | 2 threads, segments of 2, 2 timed rotations; commands alone, one group (with and without the tickers), and both together: up to 4 records, 3 raft indices, 1 crash; two groups that prune: 3 records, no crash |
| `shardraft` | Every waiter is kept and answered, commit indices agree, a node alone implements `BucketAppend` | 2 calls, 1 bucket, a channel of 1; a stub node, an etcd node alone, one that restarts, two nodes with elections, two with snapshots |
| `files` | What a raft node loads, what the shadow WAL holds, what a bucket applies, and what a restart restores | logs up to index 4, 2 crashes; 3 appends with each set of faults; a served log and one under a manifest |
| `commands` | The store's tables agree after every command, lazy and active expiry look the same, a failed command changes nothing it should not; reads are fresh and counters exact between threads | 3 keys, room for 2, six menus of commands; 2 threads and the sweep, 4 operations on a key |
| `eval` | Effects stay on the key and the fields they name, values read back, counters and ranges agree, sketches err on one side, panics have one of three named causes, both list layouts are lists | 2 keys, nine menus, integers of 5 bits, colliding hashes; nodes of 5 cells, lists of 4 |
| `emission_lost`, `shardraft_ack`, `restart_expired` | violated, see section 3 | as in `emission`, `shardraft`, `files` |

Why the bounds are enough. Every race here is between an actor and one other (two
goroutines on a gate, two threads on a key, two clients on a query, a prune and an
append), so two actors reach it; two events, two segments or two crashes are what it
takes for an order to go wrong or for a recovery to start from the result of another.
Limits (a channel, a segment, a store, a list node) are set so that they are hit. The
theorems of section 4 remove the bounds where it matters most.

Deadlock is checked in `commands` and `eval`. The other models have bounded inputs and
stop when these are used up.

### Fairness

* `LeaderGate`: polling goroutines are scheduled and their ticker fires.
* `Transport`: goroutines are scheduled, raft keeps sending (heartbeats), a link that
  failed comes back.
* `Emission`: raft commits what a leader proposes; ready loop, Applier, controller and
  notifier of a node run. Nothing is assumed of clients, elections or restarts.
* `Subscription`: IO threads finish their commands, raft applies what was proposed,
  the ticker fires.
* `ForgeWAL`: whoever holds `wl.mu` releases it (weak); a thread that keeps finding the
  lock free at times gets it (strong: Go's mutex hands itself to a starving waiter).
  `SyncReturns` holds because appends are bounded: `Sync` reads the newest LSN on every
  turn, so a thread could chase an endless stream of appends.
* `ShardRaft`: raft commits proposals; the ready loop and the stub's goroutines run, a
  call proceeds and returns when it can. Elections, Close, cancellation are never forced.
* `BucketFile`: an append that was flushed goes on to its fsync, the bucket's loop reads.

## 3. What disagrees

### The violated runs

* `emission_lost`: only the node that leads when its Applier reads a DATA_EVENT proposes
  the write (`applier.go:77`), so a change of leader loses the event.
* `shardraft_ack`: waiters are kept by a number each node counts on its own; the record
  of another node wakes the local waiter with that number (`types.go:1347`).
* `restart_expired`: the replay skips a GETEX PXAT whose deadline has passed; the SET
  before it is replayed, and the key is back without a deadline (`server/main.go:237`).

### Others that the models show

Each can be reproduced by giving the constants the value named.

* Leader gate: `Start` reads the status, the loop reads it again as `prev`; a change in
  between is never seen (`leader_notifier.go:89`). `QuietStart = FALSE` violates
  `SettledGateIsRight`.
* An event written again by a new leader or a restarted process has another epoch
  (`applier.go:82`, against `emission-contract.mdx:147`): `OneSeqPerEvent` without
  `Undisturbed`.
* GET.WATCH ends in `RebindClientForFP`, which evicts every other client of the
  fingerprint (`watch_manager.go:55`): `StaysSubscribed` with `Settings <- Watching`.
* Settings `takeover` and `clearInTick` violate `SentWasReceived`: a client that returns
  before its old thread has ended keeps the dead connection's watermark; a tick marks as
  sent, after the clearing, what it wrote before it.
* A failed `LogCommand` is only logged, the SET is answered OK (`iothread.go:171`):
  `AckedIsDurable` with `Settings <- DurableSets`. Prunes compare command LSNs with raft
  indices, so settings with `commands` and `prune` violate it too.
* All shards prune one log, and the last record of a segment decides for all of it
  (`wal_forge.go:409`, `shardmanager/main.go:103`). So the prune of one shard deletes
  entries that another one still needs, or entries an earlier run of the process logged,
  or entries behind which a command with a small LSN was logged, against
  `RAFT_ARCHITECTURE.md:10` ("prune only fully obsolete segments"):
  `PruneKeepsAboveFloor` with `Settings <- Mixed`, `Restarted` and `WithCommands`.
* The HardState is staged before its entries are appended (`types.go:1256`):
  `HardStateNotAhead` with `Settings <- Raft`. In the raft node's own files it is written
  before the entries as well (`persist.go:127`): `CommitCovered` with one crash.
* A list that was emptied does not come back from DUMP and RESTORE as it was
  (`deque.go:326`): `Restores = "all"` violates `DequeIsList`.

### Others met while modelling

*Raft node.* The stub engine applies in goroutine order and may send on a closed
`committedCh`. Snapshots carry no data, so `perBucketCommit` starts from zero behind one;
`lastAppliedIndex` may go back; the prune floor skips followers with Match 0; the ready
loop runs before the handler is registered; a failed `rn.Propose` leaves its waiter
behind; `RaftBucketLog.Read` and the Applier share one `committedCh`.

*Files.* `entries.log` after a conflict repeats or lacks indices; a torn last line hides
what is appended behind it; segments of the shadow WAL are ordered as strings;
`PruneThrough` races appends; `ValidateShadowTail` reports mismatches for replaced
tails; a bucket's commit index drifts after a torn tail or a failed fsync.

*Start and WAL.* `DetectFormat` looks for its magic in a marshalled element, so strict
directories are refused at every later start; a torn tail is not cut off, so durable
records behind it are unreadable; a GETEX EXAT in the past aborts the replay, a SET EXAT
in the past is skipped and an older value reappears; relative TTLs start again at the
replay; execution and log order may differ; `Stop` never syncs and the shutdown does not
call it; all shards share one WAL and one hardstate file.

*Transport, cluster.* `removePeer` goes by id, so the reader of an old connection removes
its successor, and two nodes may flap for ever; every `Send` without a connection starts
another dialling goroutine. Duplicate addresses are accepted and make a node's id depend
on map order; a failed parse leaves a single voter with id 0.

*Store and commands.* Two SETs of a new key count it twice; two DELs make RegMap's count
negative; a lazy expiry or the sweep may delete a SET that was just acknowledged.
Watchers are notified after SET, GETSET, DEL and RENAME only (`HGET.WATCH.md`); shared
nil results keep a stale fingerprint; ZADD stores an empty set before it validates;
GETDEL, GETEX and GETSET on a hash answer an error although they change the store
(`ActsAnyway`, which `FailsCleanly` exempts); DEL counts
and KEYS lists expired keys; HSET drops the TTL; PX is compared with the limit in
seconds; reversed ZRANGE gives wrong ranks. EMITRECONNECT and EMITACK carry epoch 0.

*Evaluation engine.* It is the command set SevenDB inherited; its tests and the shard
operations reach it, the running server does not. Numeric list elements of 21 or more digits panic; entry sizes are
off by one at 16383 and 2097151; COPY REPLACE deletes the target and then fails; the
`getBits` and `setBits` of BITFIELD disagree on the order of bits, and it loses changes;
GETBIT, BITCOUNT and BITFIELD panic on positions before the value; INCRBYFLOAT on a
new key leaves a value that panics later; HSCAN panics on a negative cursor; HSET, ZADD,
GEOADD, PFMERGE and BF.ADD may fail half done; ZADD INCR on a missing key is lost; LPUSH,
RPUSH, HDEL, HINCRBY and PFADD drop the TTL; EXPIRE 0 removes the expiry.

## 4. Proofs

| Theorem | States |
|---|---|
| `NodeProofs!GateTypeCorrect`, `SettledGate`, `GateHasOwner` | types; `SettledGateIsRight`; who will correct the gate |
| `NodeProofs!StreamsAccounted`, `InstalledIsWatched` | `NoStrayStream`; the installed connection has a reader |
| `EmissionProofs!EmissionTypeCorrect` | types, `committedCh` within its capacity |
| `EmissionProofs!NoInventedDelivery`, `OnlyAckRemoves`, `CompactionAcked` | `DeliveredWasCommitted`, `UnackedStaysPending`, `CompactedWasAcked` |
| `EmissionProofs!EmissionImplementsDelivery` | `Emission` implements `Delivery` |
| `EmissionProofs!AppliedTwiceIsOnce` | `SettledOutboxIsReplay` |
| `EmissionProofs!DeliveredOnceInOrder` | `StableDelivery` |
| `ThreadProofs!ThreadsCleanUp`, `RebindsLoseNothing` | `NoOrphan`, `KeptUntilAcked` |
| `ThreadProofs!SkippedWasReceived` | `SentWasReceived`, in the settings of `subscription_quiet` |
| `MemberProofs!ForgeTypeCorrect`, `DurableBeforeOK`, `PruneSparesEntries` | types; `AckedIsDurable` where `Apart`; `PruneSparesOwn` |
| `ShardRaftProofs!WaitersKept`, `CloseAnswers`, `EtcdClosesLast`, `SnapshotCoversPruned` | `WaiterIsKept`, `CloseAnswersAll`, `NoSendOnClosed`, `PrunedBehindSnapshot` |
| `ShardRaftProofs!CommitIndices` | `CommitIndicesAgree` |
| `ShardRaftProofs!AloneAppends` | `ImplementsAppend`: a node alone implements `BucketAppend` |
| `MemberProofs!AnswersGrow`, `RunAppliesInOrder` | answers grow and can be read back; `AppliedInOrder` |
| `NodeProofs!PreamblesNameManifest`, `PreambleNeverRefuses` | `PreambleIsManifest`; no start is refused for a preamble |
| `RaftDiskProofs!FilesFaithful`, `NeverDamaged` | `LoadFaithful`; `entries.log` has no gaps or repeats and reaches its snapshot |
| `NodeProofs!AnswersStay` | what was answered after a sync is in the fsynced part of the log |
| `NodeProofs!WatchesSurvive` | `WatchesRestored`, the subscriptions' half of `RestartRestores` |
| `MemberProofs!MembersAgree`, `RestartsKeepId` | `IdsAgree`, `RestartKeepsId`, for every peer list |
| `ThreadProofs!ReadsAreFresh`, `CountsAreExact` | `FreshReads`, `SerialCount` |
| `CommandsProofs!StoreTablesAgree` | `TablesAgree`: counter, expiry table and limit of a shard |
| `CommandViewProofs!CommandsStayConfined` | `CommandsConfined`: what a command leaves alone |
| `CommandViewProofs!CollectionInvisible` | `ExpiryInvisible`: replies do not depend on the cron task |

They hold for all values of the constants that satisfy the named assumptions
(`GateAssumption`, `TransportAssumption`, `EmissionAssumption`, `SubscriptionAssumption`,
`ForgeAssumption`, `SettingsAssumption`, `DiskAssumption`, `BucketAssumption`, `MixesAssumption`,
`MaxKeysAssumption`, `KeysAssumption`, `MenusAssumption`, `ClockAssumption`,
`ConfsAssumption`, `PeerListsAssumption`), which TLC evaluates in the runs. Every
inductive invariant below was checked by TLC on a small instance too.

*Leader gate.* `GateInv` adds to the types `StartView` (a goroutine between its two
readings holds the present status, which is what `QuietStart` gives) and `GateOwned`
(some goroutine is about to store the gate or last acted on what it shows).
`SettledGateIsRight` alone says nothing of a goroutine that is about to store.

*Transport.* `IInv` says where each connection is: in the table, or with the goroutine
that made it, or with the reader that removed it; it relates the states of reader,
dialler and connection, since the table alone does not tell who will close one.

*Emission.* `SafetyInv` says that every record proposed or committed is backed: a write
by a committed event at its index, a purge by an acknowledgement, an outbox entry by a
committed write. Applying a record a second time is safe because what backs it never
goes away. The refinement adds that acknowledged entries were seen; each step maps to a
step of `Delivery` or to a stutter. `SettledInv` is about the second application: the
channel holds a gap-free end of what the ready loop applied, and an outbox entry that no
record in the channel touches is what a replay gives; when the channel is empty that is
every entry. `StableInv` holds while nothing disturbs the pipeline: the writes proposed
and committed follow the order of their events under the leader's one epoch, so what the
notifier marks as sent was delivered, and everything before it.

*Subscription.* `BindInv` (connection states, who owns a thread, what is registered, what
is bound) gives `NoOrphan`; `KeptInv` adds the types of outbox entries and, for a rebind
between its two locks, where the entries it moves are. `SentInv` adds, for a client that
is alone (`Solo`), that one thread at a time serves it, that entries are sent in order
and that the watermark covers only what was sent to the present connection.

*Forge WAL.* `AckedIsDurable` rests on `Frontier`: only the current segment has records
that were not fsynced, and none while a sync is between its parts (`TailUnsynced`); a
thread in Sync has its record in a file, fsynced if it is at or below `durableLSN`
(`Waiting`). `Apart` leaves out the two circumstances in which the code loses
acknowledged commands (section 3); `Quiet` carries it through the steps. `PruneInv`: the
target of a prune is at most the floor of its group; records are told apart by their ids
(`Named`); the entries one group logs in one run of the process ascend (`Ascending`), the
one that waits for a rotation included (`OnItsWay`); a torn record is the last of its run
in its segment (`TornLast`). So the last index of a segment that one group filled alone
in one run is its greatest; with other groups, runs or commands in it, it need not be.

*Raft files.* `LoadFaithful` compares the files with the storage only between two Readys,
and with the application at every moment; neither is inductive. `DiskInv` says what each
step of `processReady` finds (`PhaseOk`): until the entries are written, Load gives back
the storage, which lacks exactly the Ready's entries; afterwards it gives back raft's
log; after the snapshot is written and before the entries are pruned it gives back the
log behind the snapshot. `FilesOk` is why Load can be reasoned about at all: the lines
of `entries.log` are consecutive, start at or below the snapshot and reach it, so that
adding a prefix of a Ready's entries (a crash inside the write), a new snapshot and a
prune each change what Load returns in one known way (`LoadMore`, `LoadSnap`,
`LoadPruned`). The committed entries of a Ready are in that log (`ComOk`), hence on disk
before the application sees them. All of it is under `Orderly`: no torn line, and no
leader that replaces the tail or sends a snapshot past the log, where the file does get
repeats and gaps (section 3). `NeverDamaged` shows that otherwise it never does.

*Shard raft node.* `WaitInv` (the shape of nodes and calls, what Close has taken, and
`WaiterIsKept`) is inductive by itself. `MarkInv` adds the log and the order of the
marks (pruned, snapshot, cursor). `CommitInv` adds that every record names a bucket
(`Addressed`), that a node's counters count its history (`Ledger`, `Dense`), and, with
the etcd engine, that a commit index is the rank of the log index among those counted
(`Ranked`), which makes it the same on all nodes that counted the same indices.
`AppendInv` is what the refinement needs of a node that is alone: calls have numbers of
their own (`Numbered`), each record in flight or in the log is a call's own and there
once (`InTransit`), what was counted has left the flight (`Counted`), waiters stand under
their call's number (`Registered`), and whoever is to be told an index is told that of
their own record (`Answers`). Counting maps to `Place`, entering to `Begin`, the answers
to `Succeed` and `Fail`; the restriction to one node is needed (`shardraft_ack`).

*Bucket file.* `AnswerInv` (types, where entries are in the file, what was answered) and
`ApplyInv`, which adds the position of the reader and what it counted.

*Command log.* `PreambleInv` adds to `PreambleIsManifest` that no preamble has id 0, so
that there is none before the manifest is made; that a start which got past its manifest
holds the id of the one on disk, which is what it writes into new segments; and that a
thread at work belongs to a server that is up. A crash keeps it because what is left of a
segment is a beginning of it and perhaps a torn record. `PreambleNeverRefuses` says that
the refusing branch of `verifyManifestPreambleIfPresent` is taken only for files that
something other than the server changed. `DurableInv` says that every segment but the
last is fsynced as a whole (`Sealed`: `rotateLog` syncs before it opens a new one), that
a thread waiting for its sync has its record in the log, that answered records are in the
fsynced part, and that the last answered watch or unwatch of a client is the last record
of that client in the log: a thread has one command at a time, so nothing of the client's
can be logged in between. Each step is classed by what it does to the log (`Keeps`,
`KeepsAll`, `AddsOnly`); a crash keeps the fsynced records and adds none.
`WatchesRestored` then follows at the replay: the segments one after the other keep the
order of the records (`JoinedFacts`), a watch record never stops a replay, and if none
before it does either, what `RestoreSubscription` and `RemoveSubscription` make of the
records up to it is decided by it. Later ticks of the clock only move the place where a
replay would stop forward (`BehindGrows`).

*Peer lists.* `ParsePeerSpecs` is written with sets: the k-th bare address in ascending
order gets the k-th unused id. `Reordered` says that it does not depend on the order of
the list: a bijection of the entries keeps the explicit ones, the bare ones and how many
of these lie below an address. `Ranks` and `BareCovers` (by a least counterexample) say
that every bare address has a place in the order, `AssignFacts` that every place has an
id; hence `EveryAddress`. `ConfigInv` says that each member holds what the configured
list gives, whatever order it saw, and an id among those `DetermineLocalID` may answer.

*Commands.* `StoreInv` says that the store is `Sound` (each key has an object of its own,
only such objects have an expiry, none of them is an unused one, the counter is the
number of keys and at most the limit) and that unused objects are blank. The proof goes
through a classification of what any command line can do to a sound store (`Ran`,
`Outcome`): look its key up, store a new object under it, write to the object in place,
set its expiry, remove keys it names, flush; one lemma for each command puts it there
with the statuses it can end in, and `TablesAgree` and `CommandsConfined` follow from the
classes. An error or an error status leaves the class of lookups only for the commands
that `ActsAnyway` names: ZADD, and GETDEL, GETEX and GETSET, which build their reply last. Confinement needs one turn more: a lookup that drops the expired key makes room,
so a Put evicts only if the lookup left the store as it was. For `ExpiryInvisible` the
commands are compared on two stores that show a client the same and are below the limit
(`Alike`): a lookup keeps them alike and finds the same value and expiry in both
(`Paired`), and each command then ends the same way in both (`Same`). This is more than
the property says, which is the case where one of the two is the other after the cron
task. `MenusAssumption` says that command lines reach the shard of their keys and that
the numbers in them are integers.

*Store threads.* `FreshInv` relates what an operation has in hand to the values written and
deleted since it began; `CountInv` adds that, until two writers overlap, the counters
are off by exactly what the one operation under way has still to add or subtract.

### Only model-checked

* Liveness under fairness: `GateFollowsLeadership`, `Reconnects`, `EventDelivered`,
  `AckPurges`, `PendingReaches`, `SyncReturns`, `CallReturns`, `AnsweredIsApplied`.
* Properties of recursive definitions on data, for which the provers have no induction:
  `DequeIsList`, `ShadowFaithful` (with the types of `RaftDisk`, whose bound on segment
  numbers depends on the bounds of the run), and those of the evaluation engine
  (`EffectsConfined`, `ValuesReadBack`, `CollectionsAgree`, `OneSidedErrors`,
  `PanicsExplained`). Of `RestartRestores` the half about keys, `PrefixRestored`: it
  compares two folds, that of the replay and that of each key's history.

## 5. Not modelled

* Evaluation engine: JSON commands (a path library applied to documents), PING, ECHO,
  HELLO, AUTH, SLEEP, COMMAND.
* Commands: a SET option without its value (`cmd_set.go:100` indexes past the end) or
  with one that is not an integer. Connections: a second HANDSHAKE with another id, and
  commands before the first one.
* Raft node: the leader named in a refusal (`lastKnownLeader`), Status, the test-only
  drivers. Files: seeding raft's storage from the WAL (`WALPrimaryRead`), the sidecar
  index, forced rotation, a node started from a damaged file; in `ShardRaft`, a snapshot
  that cannot be written, compacted or pruned after (`types.go:1465`).
* WAL: page loss that is not of a suffix, the directory fsync of a new segment,
  `ReplayItems` and `ReplayLastHardState`; a rotation that fails after its sync
  (`wal_forge.go:632`) and the write error that a buffer keeps; in `ForgeWAL`, snapshots
  that raft installs.
* Transport: `Close` (no caller), the server side, which keeps no state.
* The legacy watch manager, sessions, configuration, IO multiplexer, observability, the
  test harness, generated code; `internal/id` has no caller.
* Hazards without a property of their own: entry sizes of the list layout at the limits
  of their encoding (`deque.go:744`), the delay of the gate (`leader_notifier.go:43`),
  snapshots without data (`types.go:1463`), the prune floor of silent followers
  (`types.go:1564`), the ready loop before its handler (`types.go:1156`).

## 6. Running

`tlc -config X.cfg M` for a run (`PROJECT.json` pairs them), `tlapm M.tla` for a module of
proofs. Operators marked "Mutant" are plausible bugs of the definition that follows them:
put in its place, each makes TLC refute the property `PROJECT.json` names.
