------------------------------ MODULE ForgeWAL ------------------------------
(***************************************************************************)
(* The process-wide write-ahead log of internal/wal/wal_forge.go and the   *)
(* goroutines that share it: the IO threads that log commands and wait for *)
(* durability (group commit in Sync), the ready loops of the shards' raft  *)
(* groups, which all log HardStates and committed entries here through     *)
(* internal/raft/wal_adapter_forge.go, their background prunes, and the    *)
(* two tickers.                                                            *)
(*                                                                         *)
(* A record is [id, seg, at, kind, group, run]: id is its place in the     *)
(* order of all appends ever made, seg the segment file it is in, at what  *)
(* lastIndexOfSegment reads from it (the raft index, or the LSN of a plain *)
(* command).  The file does not say which group and which run of the       *)
(* process wrote it; only the properties look at these two.  A file holds  *)
(* its records in the order of their ids.  sync() is two steps under       *)
(* wl.mu, the fsync of the segment and the replacement of the hardstate    *)
(* file; a crash may come between them.                                    *)
(*                                                                         *)
(* Written bytes may reach the disk before they are fsynced (the buffer    *)
(* overflows, the kernel writes back), so a crash keeps the fsynced        *)
(* records and some prefix of the others.  A failed fsync loses nothing    *)
(* that a later one would not write.                                       *)
(***************************************************************************)
EXTENDS Naturals, FiniteSets, FiniteSetsExt

CONSTANTS Threads,      \* IO threads
          Groups,       \* raft groups of this process, one for each shard
          SegSize,      \* records that fit a segment (maxSegmentSizeBytes)
          MaxSeg,       \* bound: the segment index up to which the timer rotates
          Settings      \* the circumstances to look at, one of which holds throughout

ASSUME ForgeAssumption ==
    /\ {"none", "ticker", "rotator"} \cap (Threads \cup Groups) = {}
    /\ Threads \cap Groups = {}
    /\ SegSize \in Nat \ {0} /\ MaxSeg \in Nat
    /\ Settings \subseteq [commands : BOOLEAN,      \* IO threads log commands
                           raft : SUBSET Groups,    \* the groups that log their entries
                           prune : BOOLEAN,         \* raft takes snapshots and prunes
                           torn : BOOLEAN,          \* a crash may leave half a record
                           appendFails : BOOLEAN,   \* the sync inside an append may fail
                           sets : BOOLEAN,          \* durable commands are SETs, not WATCHes
                           timers : BOOLEAN,        \* the two tickers fire
                           records : Nat,           \* bound: appends
                           index : Nat,             \* bound: raft indices
                           crashes : Nat]           \* bound: crashes

VARIABLES
    setting,    \* the member of Settings that holds
    disk,       \* records written to segment files
    synced,     \* those of them that were fsynced
    seg,        \* csIdx, the current segment
    last,       \* id of the newest append
    lsn,        \* wl.lsn
    durableLSN, \* wl.durableLSN
    leader,     \* the thread that leads a sync, "none" if not wl.syncInProgress
    mu,         \* who holds wl.mu between the two steps of a sync, and the record
                \* it is going to append after it
    pc,         \* pc[t]: where thread t is in its command
    mine,       \* mine[t]: id of the record that t makes durable, 0 for none
    ok,         \* ids of the durable commands whose client was told OK
    pendingHS,  \* commit index in wl.pendingHS, 0 for none
    hs,         \* commit index in the hardstate file
    raftLog,    \* raftLog[g]: last index its ready loop has passed to the log, commit
                \* index it goes up to, index of its last snapshot
    pruner,     \* pruner[g]: the background prune: index, calls left, candidates of this call
    floor,      \* floor[g]: prunedThroughIndex
    crashes

logVars == <<disk, synced, seg, last, lsn>>
hsVars == <<pendingHS, hs>>
threadVars == <<leader, durableLSN, pc, mine, ok>>
raftVars == <<raftLog, pruner, floor>>
vars == <<setting, logVars, hsVars, threadVars, raftVars, mu, crashes>>

Kinds == {"command", "entry", "torn"}
Record(i, s, a, k, g) ==
    [id |-> i, seg |-> s, at |-> a, kind |-> k, group |-> g, run |-> crashes]
NoRecord == [id |-> 0, seg |-> 0, at |-> 0, kind |-> "torn", group |-> "none", run |-> 0]
Free == [by |-> "none", rec |-> NoRecord]
Resting == [target |-> 0, calls |-> 0, upto |-> 0]

Records == [id : Nat, seg : Nat, at : Nat, kind : Kinds,
            group : Groups \cup {"none"}, run : Nat]
RaftLogs == [index : Nat, commit : Nat, snap : Nat]
Pruners == [target : Nat, calls : 0..4, upto : Nat]
Holders == Threads \cup Groups \cup {"none", "ticker", "rotator"}

LogTypeOK ==
    /\ setting \in Settings
    /\ disk \subseteq Records /\ synced \subseteq disk
    /\ seg \in Nat /\ last \in Nat /\ lsn \in Nat
    /\ mu \in [by : Holders, rec : Records]

ThreadTypeOK ==
    /\ durableLSN \in 0..lsn
    /\ leader \in Threads \cup {"none"}
    /\ pc \in [Threads -> {"idle", "sync", "wait", "lead"}]
    /\ mine \in [Threads -> Nat]
    /\ ok \subseteq Nat

RaftTypeOK ==
    /\ pendingHS \in Nat /\ hs \in Nat
    /\ raftLog \in [Groups -> RaftLogs]
    /\ pruner \in [Groups -> Pruners]
    /\ floor \in [Groups -> Nat]
    /\ crashes \in Nat

TypeOK == LogTypeOK /\ ThreadTypeOK /\ RaftTypeOK

Init ==
    /\ setting \in Settings
    /\ disk = {} /\ synced = {} /\ seg = 0 /\ last = 0 /\ lsn = 0
    /\ durableLSN = 0 /\ leader = "none"
    /\ mu = Free
    /\ pc = [t \in Threads |-> "idle"]
    /\ mine = [t \in Threads |-> 0]
    /\ ok = {}
    /\ pendingHS = 0 /\ hs = 0
    /\ raftLog = [g \in Groups |-> [index |-> 0, commit |-> 0, snap |-> 0]]
    /\ pruner = [g \in Groups |-> Resting]
    /\ floor = [g \in Groups |-> 0]
    /\ crashes = 0

Goto(t, p) == pc' = [pc EXCEPT ![t] = p]

-----------------------------------------------------------------------------
(* Under wl.mu.                                                            *)

InSegment(s) == {r \in disk : r.seg = s}

\* The first part of sync(): flush and fsync of the current segment, for holder h
\* that is going to append r afterwards.
Fsync(h, r) ==
    /\ mu = Free
    /\ mu' = [by |-> h, rec |-> r]
    /\ synced' = synced \cup InSegment(seg)

\* The second part: the staged HardState replaces the file.
PersistHS(h) ==
    /\ mu.by = h
    /\ mu' = Free
    /\ hs' = IF pendingHS > 0 THEN pendingHS ELSE hs
    /\ pendingHS' = 0

\* sync() fails in its first part, or in its second: then the file may have been
\* replaced already, and the HardState stays staged.
SyncFails(h) ==
    /\ mu.by \in {"none", h}
    /\ mu' = Free
    /\ hs' = hs \/ (mu.by = h /\ pendingHS > 0 /\ hs' = pendingHS)
    /\ UNCHANGED <<synced, pendingHS>>

Full == Cardinality(InSegment(seg)) >= SegSize

\* writePayloadLocked into the current segment.
Write(r) == disk' = disk \cup {r} /\ UNCHANGED seg

\* rotateLog after its sync, and the write of the record that asked for it.
WriteNext(r) == seg' = seg + 1 /\ disk' = disk \cup {[r EXCEPT !.seg = seg + 1]}

-----------------------------------------------------------------------------
(* IO threads: a command is logged and, if that was asked for, synced.     *)

\* The command with record i is logged; it asks for durability or not.
Logged(t, i) ==
    \/ Goto(t, "sync") /\ mine' = [mine EXCEPT ![t] = i]
    \/ UNCHANGED <<pc, mine>>

Command == Record(last + 1, seg, lsn + 1, "command", "none")

\* LogCommand takes the next LSN.
TakeLSN(t) ==
    /\ setting.commands /\ pc[t] = "idle" /\ mu = Free
    /\ last < setting.records
    /\ last' = last + 1 /\ lsn' = lsn + 1

\* LogCommand in the current segment.
LogCommand(t) ==
    /\ TakeLSN(t) /\ ~Full
    /\ Write(Command)
    /\ Logged(t, Command.id)
    /\ UNCHANGED <<setting, synced, hsVars, leader, durableLSN, ok, raftVars, mu, crashes>>

\* LogCommand that has to rotate: sync() first.
LogCommandRotates(t) ==
    /\ TakeLSN(t) /\ Full
    /\ Fsync(t, Command)
    /\ UNCHANGED <<setting, disk, seg, hsVars, threadVars, raftVars, crashes>>

LogCommandRotated(t) ==
    /\ pc[t] = "idle" /\ PersistHS(t)
    /\ WriteNext(mu.rec)
    /\ Logged(t, mu.rec.id)
    /\ UNCHANGED <<setting, synced, last, lsn, leader, durableLSN, ok, raftVars, crashes>>

\* The sync inside LogCommand fails.  HandleWatch returns that error; the IO thread
\* only writes a line to its log, and the reply to a DURABLE SET stays OK.
LogCommandFails(t) ==
    /\ setting.appendFails
    /\ SyncFails(t)
    /\ \/ TakeLSN(t) /\ Full
       \/ pc[t] = "idle" /\ mu.by = t /\ UNCHANGED <<last, lsn>>
    /\ \/ setting.sets /\ ok' = ok \cup {last'}
       \/ UNCHANGED ok
    /\ UNCHANGED <<setting, disk, seg, leader, durableLSN, pc, mine, raftVars, crashes>>

\* A Sync of t returns.
Forget(t) == mine' = [mine EXCEPT ![t] = 0]

\* Sync: nothing to wait for.
SyncFast(t) ==
    /\ pc[t] = "sync" /\ mu = Free
    /\ durableLSN >= lsn
    /\ Goto(t, "idle") /\ Forget(t)
    /\ ok' = ok \cup {mine[t]}
    /\ UNCHANGED <<setting, logVars, hsVars, leader, durableLSN, raftVars, mu, crashes>>

\* Sync: another thread leads; wait for its channel to close.
SyncWait(t) ==
    /\ pc[t] = "sync" /\ mu = Free
    /\ durableLSN < lsn /\ leader # "none"
    /\ Goto(t, "wait")
    /\ UNCHANGED <<setting, logVars, hsVars, leader, durableLSN, mine, ok, raftVars, mu, crashes>>

\* Sync: become the leader; wl.mu is released before the sync takes it again.
SyncLead(t) ==
    /\ pc[t] = "sync" /\ mu = Free
    /\ durableLSN < lsn /\ leader = "none"
    /\ leader' = t
    /\ Goto(t, "lead")
    /\ UNCHANGED <<setting, logVars, hsVars, durableLSN, mine, ok, raftVars, mu, crashes>>

LeadSync(t) ==
    /\ pc[t] = "lead"
    /\ Fsync(t, NoRecord)
    /\ UNCHANGED <<setting, disk, seg, last, lsn, hsVars, threadVars, raftVars, crashes>>

\* The leader returns and closes the channel: waiting threads look again.
Wake(t) ==
    /\ leader' = "none"
    /\ pc' = [u \in Threads |-> IF u = t THEN "idle" ELSE IF pc[u] = "wait" THEN "sync" ELSE pc[u]]

LeadDone(t) ==
    /\ pc[t] = "lead" /\ PersistHS(t)
    /\ durableLSN' = lsn
    /\ Wake(t) /\ Forget(t)
    /\ ok' = ok \cup {mine[t]}
    /\ UNCHANGED <<setting, logVars, raftVars, crashes>>

\* Mutant: a failed sync advances the durable frontier.
LeadFailsAdvances(t) ==
    /\ pc[t] = "lead" /\ SyncFails(t)
    /\ durableLSN' = lsn
    /\ Wake(t) /\ Forget(t)
    /\ UNCHANGED <<setting, logVars, ok, raftVars, crashes>>

\* Mutant: the error path does not close the channel.
LeadFailsSilently(t) ==
    /\ pc[t] = "lead" /\ SyncFails(t)
    /\ leader' = "none" /\ Goto(t, "idle") /\ Forget(t)
    /\ UNCHANGED <<setting, logVars, durableLSN, ok, raftVars, crashes>>

LeadFails(t) ==
    /\ pc[t] = "lead" /\ SyncFails(t)
    /\ Wake(t) /\ Forget(t)
    /\ UNCHANGED <<setting, logVars, durableLSN, ok, raftVars, crashes>>

-----------------------------------------------------------------------------
(* The tickers.                                                            *)

\* periodicSyncBuffer, when there is something to write.
TickSync ==
    /\ setting.timers
    /\ ~(InSegment(seg) \subseteq synced) \/ pendingHS > 0
    /\ Fsync("ticker", NoRecord)
    /\ UNCHANGED <<setting, disk, seg, last, lsn, hsVars, threadVars, raftVars, crashes>>

TickDone ==
    /\ PersistHS("ticker")
    /\ UNCHANGED <<setting, logVars, threadVars, raftVars, crashes>>

\* periodicRotateSegment
TimedRotation ==
    /\ setting.timers
    /\ seg < MaxSeg /\ InSegment(seg) # {}
    /\ Fsync("rotator", NoRecord)
    /\ UNCHANGED <<setting, disk, seg, last, lsn, hsVars, threadVars, raftVars, crashes>>

TimedRotated ==
    /\ PersistHS("rotator")
    /\ seg' = seg + 1
    /\ UNCHANGED <<setting, disk, synced, last, lsn, threadVars, raftVars, crashes>>

TickerFails ==
    /\ mu.by \in {"ticker", "rotator"} /\ SyncFails(mu.by)
    /\ UNCHANGED <<setting, logVars, threadVars, raftVars, crashes>>

-----------------------------------------------------------------------------
(* Raft: processReady of group g, and the prune it schedules.  g holds     *)
(* wl.mu with an entry to append, or with none when it prunes.             *)

\* A Ready that commits up to k: its HardState is staged, before its entries, in
\* the place that all groups share.
StageHardState(g, k) ==
    /\ g \in setting.raft /\ mu = Free
    /\ raftLog[g].commit = raftLog[g].index
    /\ k > raftLog[g].index
    /\ pendingHS' = k
    /\ raftLog' = [raftLog EXCEPT ![g].commit = k]
    /\ UNCHANGED <<setting, logVars, hs, threadVars, pruner, floor, mu, crashes>>

Entry(g) == Record(last + 1, seg, raftLog[g].index + 1, "entry", g)

HasEntry(g) == raftLog[g].index < raftLog[g].commit

TakeEntry(g) ==
    /\ HasEntry(g) /\ mu = Free
    /\ last < setting.records
    /\ last' = last + 1 /\ lsn' = lsn + 1

EntryDone(g) == raftLog' = [raftLog EXCEPT ![g].index = @ + 1]

\* AppendEntry of the next committed entry.
LogEntry(g) ==
    /\ TakeEntry(g) /\ ~Full
    /\ Write(Entry(g))
    /\ EntryDone(g)
    /\ UNCHANGED <<setting, synced, hsVars, threadVars, pruner, floor, mu, crashes>>

LogEntryRotates(g) ==
    /\ TakeEntry(g) /\ Full
    /\ Fsync(g, Entry(g))
    /\ UNCHANGED <<setting, disk, seg, hsVars, threadVars, raftVars, crashes>>

LogEntryRotated(g) ==
    /\ mu.rec.kind = "entry" /\ PersistHS(g)
    /\ WriteNext(mu.rec)
    /\ EntryDone(g)
    /\ UNCHANGED <<setting, synced, last, lsn, threadVars, pruner, floor, crashes>>

\* A failed append is logged as a warning, and the ready loop goes on.
LogEntryFails(g) ==
    /\ setting.appendFails
    /\ SyncFails(g)
    /\ \/ TakeEntry(g) /\ Full
       \/ mu.by = g /\ mu.rec.kind = "entry" /\ UNCHANGED <<last, lsn>>
    /\ EntryDone(g)
    /\ UNCHANGED <<setting, disk, seg, threadVars, pruner, floor, crashes>>

\* The adapter leaves out an entry whose payload is not JSON: a configuration change.
SkipEntry(g) ==
    /\ HasEntry(g) /\ mu.by # g
    /\ EntryDone(g)
    /\ UNCHANGED <<setting, logVars, hsVars, threadVars, pruner, floor, mu, crashes>>

\* The snapshot at the end of a Ready: f is the lesser of its index and the least
\* match index of the followers.  A prune that is running is not scheduled again.
Snapshot(g, f) ==
    /\ setting.prune
    /\ raftLog[g].commit = raftLog[g].index
    /\ raftLog[g].index > raftLog[g].snap
    /\ raftLog' = [raftLog EXCEPT ![g].snap = raftLog[g].index]
    /\ floor' = [floor EXCEPT ![g] = IF f > @ THEN f ELSE @]
    /\ pruner' = [pruner EXCEPT ![g] =
          IF @ = Resting THEN [target |-> floor'[g], calls |-> 4, upto |-> 0] ELSE @]
    /\ UNCHANGED <<setting, logVars, hsVars, threadVars, mu, crashes>>

\* One of the four calls of PruneThrough: sync, then the list of older segments.
PruneSync(g) ==
    /\ pruner[g].calls > 0 /\ pruner[g].upto = 0
    /\ Fsync(g, NoRecord)
    /\ UNCHANGED <<setting, disk, seg, last, lsn, hsVars, threadVars, raftVars, crashes>>

Called(p) ==
    IF p.calls = 1 THEN Resting
    ELSE [target |-> p.target, calls |-> p.calls - 1, upto |-> 0]

PruneList(g) ==
    /\ pruner[g].calls > 0 /\ mu.rec = NoRecord /\ PersistHS(g)
    /\ pruner' = [pruner EXCEPT ![g] = IF seg = 0 THEN Called(@) ELSE [@ EXCEPT !.upto = seg]]
    /\ UNCHANGED <<setting, logVars, threadVars, raftLog, floor, crashes>>

\* Mutant: the index a segment begins with decides.
FirstIndex(s) ==
    LET all == InSegment(s)
    IN  IF all = {} THEN 0 ELSE (CHOOSE r \in all : \A q \in all : r.id <= q.id).at

\* lastIndexOfSegment: the newest record before any torn one, whoever wrote it; 0
\* if there is none.
LastIndex(s) ==
    LET whole == {r \in InSegment(s) : \A q \in InSegment(s) : q.kind = "torn" => r.id < q.id}
    IN  IF whole = {} THEN 0
        ELSE (CHOOSE r \in whole : \A q \in whole : q.id <= r.id).at

\* The oldest segment in the list that may go is removed.
PruneRemove(g) ==
    /\ pruner[g].calls > 0 /\ pruner[g].upto > 0
    /\ LET old == {s \in 0..(pruner[g].upto - 1) : LastIndex(s) \in 1..pruner[g].target}
           gone == IF old = {} THEN {} ELSE InSegment(Min(old))
       IN  disk' = disk \ gone /\ synced' = synced \ gone
    /\ pruner' = [pruner EXCEPT ![g] = Called(@)]
    /\ UNCHANGED <<setting, seg, last, lsn, hsVars, threadVars, raftLog, floor, mu, crashes>>

PruneFails(g) ==
    /\ pruner[g].calls > 0 /\ pruner[g].upto = 0 /\ mu.rec = NoRecord
    /\ SyncFails(g)
    /\ pruner' = [pruner EXCEPT ![g] = Resting]
    /\ UNCHANGED <<setting, logVars, threadVars, raftLog, floor, crashes>>

-----------------------------------------------------------------------------
(* A crash and the restart: Init appends to the last segment, LSNs start   *)
(* again.  Raft has kept its log, commit index and snapshot in files of    *)
(* its own and hands out again what was committed after the snapshot.      *)

\* What the files may hold: of each segment a prefix with all that was fsynced.
Survivors == {s \in SUBSET disk :
    /\ synced \subseteq s
    /\ \A r \in s, q \in disk : q.seg = r.seg /\ q.id < r.id => q \in s}

Crash ==
    /\ crashes < setting.crashes
    /\ crashes' = crashes + 1
    /\ \E s \in Survivors :
          \/ disk' = s
          \/ /\ setting.torn
             /\ \E r \in disk \ s : /\ \A q \in disk \ s : r.id <= q.id
                                    /\ disk' = s \cup {[r EXCEPT !.kind = "torn"]}
    /\ mu' = Free
    /\ lsn' = 0 /\ durableLSN' = 0 /\ leader' = "none"
    /\ pc' = [t \in Threads |-> "idle"]
    /\ mine' = [t \in Threads |-> 0]
    /\ pendingHS' = 0
    /\ raftLog' = [g \in Groups |-> [raftLog[g] EXCEPT !.index = raftLog[g].snap]]
    /\ pruner' = [g \in Groups |-> Resting]
    /\ floor' = [g \in Groups |-> 0]
    /\ UNCHANGED <<setting, synced, seg, last, hs, ok>>

-----------------------------------------------------------------------------
Sync(t) ==
    \/ SyncFast(t) \/ SyncWait(t) \/ SyncLead(t)
    \/ LeadSync(t) \/ LeadDone(t) \/ LeadFails(t)

\* Steps that end a critical section under way.
Release ==
    \/ TickDone \/ TimedRotated \/ TickerFails
    \/ \E g \in Groups : LogEntryRotated(g) \/ PruneList(g)
    \/ \E t \in Threads : LogCommandRotated(t)

Next ==
    \/ \E t \in Threads : \/ LogCommand(t) \/ LogCommandRotates(t)
                          \/ LogCommandFails(t) \/ Sync(t)
    \/ TickSync \/ TimedRotation
    \/ \E g \in Groups : \/ \E k \in 1..setting.index : StageHardState(g, k)
                         \/ LogEntry(g) \/ LogEntryRotates(g) \/ LogEntryFails(g)
                         \/ SkipEntry(g)
                         \/ \E f \in 1..raftLog[g].index : Snapshot(g, f)
                         \/ PruneSync(g) \/ PruneRemove(g) \/ PruneFails(g)
    \/ Release
    \/ Crash

Spec == Init /\ [][Next]_vars

\* Whoever holds wl.mu releases it, and a thread that wants it gets it in the end
\* (Go's mutex hands itself over to a goroutine that has waited too long).
Fairness == WF_vars(Release) /\ \A t \in Threads : SF_vars(Sync(t))

FairSpec == Spec /\ Fairness

-----------------------------------------------------------------------------
(* Properties.                                                             *)

\* Durable before OK: the record of a command that asked for durability, and whose
\* client was told OK, has been fsynced and is in a file, although threads share
\* each other's fsyncs, rotate in between and crash.
AckedIsDurable == \A i \in ok : \E r \in synced : r.id = i

\* Only the current segment holds records that were not fsynced, and it holds none
\* while a sync is between its two steps.
TailUnsynced == \A r \in disk : r \in synced \/ (r.seg = seg /\ mu.by = "none")

\* A thread in Sync has its record in a file, fsynced if its LSN is at or below
\* durableLSN; a command that rotates before it is written is above durableLSN.
Waiting ==
    /\ \A t \in Threads : pc[t] # "idle" =>
          \E r \in disk : r.id = mine[t] /\ r.at <= lsn /\ (r.at <= durableLSN => r \in synced)
    /\ mu.by \in Threads /\ pc[mu.by] = "idle" => mu.rec.at \in (durableLSN + 1)..lsn

\* What the group commit of Sync relies on when it compares one number, durableLSN,
\* with lsn: every record at or below it was fsynced, whichever thread, ticker or
\* rotation did that and whichever segment the record is in.
Frontier == TailUnsynced /\ Waiting

\* Segment s holds entries of group g alone, all logged in one run of the process.
FilledAlone(g, s) == \A r, q \in InSegment(s) : r.group = g /\ r.run = q.run

\* A prune takes from its own group only what raft no longer needs: where it removes
\* a segment that its group filled alone in one run of the process, no entry in it
\* is above the group's prune floor, whatever the other groups, the IO threads and
\* the tickers log, rotate and prune meanwhile, and whatever crashes came before.
PruneSparesOwn ==
    [][\A g \in Groups : pruner'[g] # pruner[g] /\ crashes' = crashes =>
          \A r \in disk \ disk' : r.kind = "entry" /\ FilledAlone(g, r.seg) => r.at <= floor[g]]_vars

\* Prunes take from every group only what raft no longer needs.  This is not so
\* where two groups log, or where a restart or commands mix other records into a
\* segment: the index of its last record, whoever wrote it, decides.
PruneKeepsAboveFloor ==
    [][\A r \in disk \ disk' : r.kind = "entry" /\ crashes' = crashes => r.at <= floor[r.group]]_vars

\* The HardState on disk never points past the last entry that was fsynced.
HardStateNotAhead ==
    \A g \in setting.raft : hs > floor[g] => \E r \in synced : r.kind = "entry" /\ r.at >= hs

\* Once no more commands are logged every Sync returns: no thread sleeps through
\* the end of the sync it waits for, a failed one included.
SyncReturns == \A t \in Threads : pc[t] # "idle" ~> pc[t] = "idle"
=============================================================================
