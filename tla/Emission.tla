------------------------------ MODULE Emission ------------------------------
(***************************************************************************)
(* The emission pipeline of one shard and one subscription, on all the     *)
(* nodes of its raft group (internal/emission, wired in                    *)
(* internal/shardmanager/main.go).                                         *)
(*                                                                         *)
(* A change of a watched key is proposed as a DATA_EVENT.  Each node runs  *)
(* committed records through two consumers: the replication handler, called*)
(* by the raft ready loop itself, and the Applier, a goroutine that reads  *)
(* the bounded channel committedCh and may lag behind.  Both apply         *)
(* OUTBOX_WRITE and OUTBOX_PURGE.  The Applier of the leader turns a       *)
(* DATA_EVENT into an OUTBOX_WRITE and an ACK into an OUTBOX_PURGE with    *)
(* ProposeAndWait, and is blocked until its own node has applied the       *)
(* proposal.  The Notifier sends pending entries to the client when the    *)
(* node's gate is open.                                                    *)
(*                                                                         *)
(* Consensus itself (etcd/raft) is external: the committed log is one      *)
(* sequence, a proposal that is not committed when the leader changes may  *)
(* be lost.  All records of a shard carry the shard id as bucket, so the   *)
(* per-bucket commit index of a record is its position in the log.         *)
(***************************************************************************)
EXTENDS EmitSeq, Sequences, FiniteSets

CONSTANTS Nodes,         \* members of the raft group
          NoNode,        \* "no leader", "not connected"
          StartEpoch,    \* StartEpoch[n]: UnixNano() when n was first started
          LastStart,     \* a time after all of these
          ChanCap,       \* capacity of committedCh (1024 in the code)
          MaxEvents,     \* bound: DATA_EVENTs proposed
          MaxAcks,       \* bound: acknowledgements sent, repeated ones included
          MaxElections,  \* bound: changes of leader
          MaxRestarts,   \* bound: process restarts
          MaxConnects    \* bound: connections of the client

ASSUME EmissionAssumption ==
    /\ NoNode \notin Nodes
    /\ LastStart \in Nat
    /\ StartEpoch \in [Nodes -> 1..LastStart]
    /\ ChanCap \in Nat \ {0}
    /\ {MaxEvents, MaxAcks, MaxElections, MaxRestarts, MaxConnects} \subseteq Nat

VARIABLES
    log,        \* committed records of the shard, the same on all nodes
    pend,       \* proposals in the leader's log that are not committed yet
    leader,     \* the node whose proposals can commit; Status().IsLeader
    applied,    \* applied[n]: entries n's ready loop has applied
    chan,       \* chan[n]: positions of the records in n's committedCh
    wait,       \* wait[n]: seq of the proposal n's Applier waits for, or 0
    nextSeq,    \* nextSeq[n]: node-local proposal counter
    epoch,      \* epoch[n]: epoch of n's Applier
    outbox,     \* outbox[n]: the pending entries, at most one per commit index
    lastAck,    \* lastAck[n]: Manager.lastAck
    compact,    \* compact[n]: Manager.compactThrough
    sent,       \* sent[n]: Notifier.sentThrough
    gate,       \* the nodes whose gate is open
    conn,       \* the node the client is connected to
    seen,       \* emit sequences the client has received
    acked,      \* emit sequences the client has acknowledged
    drops,      \* the nodes that dropped a record because committedCh was full
    counts      \* events, acks, elections, restarts and connections so far

vars == <<log, pend, leader, applied, chan, wait, nextSeq, epoch, outbox,
          lastAck, compact, sent, gate, conn, seen, acked, drops, counts>>

Ops == {"DATA_EVENT", "OUTBOX_WRITE", "ACK", "OUTBOX_PURGE"}
Records == [op : Ops, at : EmitSeqs, seq : Nat]

RaftTypeOK ==
    /\ log \in Seq(Records)
    /\ pend \in Seq(Records)
    /\ leader \in Nodes \cup {NoNode}
    /\ applied \in [Nodes -> Nat]
    /\ chan \in [Nodes -> SUBSET Nat]
    /\ wait \in [Nodes -> Nat]
    /\ nextSeq \in [Nodes -> Nat]
    /\ \A n \in Nodes : /\ applied[n] <= Len(log)
                        /\ chan[n] \subseteq 1..applied[n]
                        /\ IsFiniteSet(chan[n])
                        /\ Cardinality(chan[n]) <= ChanCap

EmissionTypeOK ==
    /\ epoch \in [Nodes -> Nat]
    /\ outbox \in [Nodes -> SUBSET EmitSeqs]
    /\ lastAck \in [Nodes -> EmitSeqs]
    /\ compact \in [Nodes -> EmitSeqs]
    /\ sent \in [Nodes -> EmitSeqs]
    /\ gate \subseteq Nodes
    /\ drops \subseteq Nodes

ClientTypeOK ==
    /\ conn \in Nodes \cup {NoNode}
    /\ seen \subseteq EmitSeqs
    /\ acked \subseteq EmitSeqs
    /\ counts \in [events : Nat, acks : Nat, elections : Nat, restarts : Nat,
                   connects : Nat]

\* Types; and committedCh holds committed records, no more than its capacity.
TypeOK == RaftTypeOK /\ EmissionTypeOK /\ ClientTypeOK

Init ==
    /\ log = <<>> /\ pend = <<>>
    /\ leader \in Nodes
    /\ applied = [n \in Nodes |-> 0]
    /\ chan = [n \in Nodes |-> {}]
    /\ wait = [n \in Nodes |-> 0]
    /\ nextSeq = [n \in Nodes |-> 0]
    /\ epoch = StartEpoch
    /\ outbox = [n \in Nodes |-> {}]
    /\ lastAck = [n \in Nodes |-> ZeroSeq]
    /\ compact = [n \in Nodes |-> ZeroSeq]
    /\ sent = [n \in Nodes |-> ZeroSeq]
    /\ gate = {} /\ drops = {}
    /\ conn = NoNode /\ seen = {} /\ acked = {}
    /\ counts = [events |-> 0, acks |-> 0, elections |-> 0, restarts |-> 0, connects |-> 0]

-----------------------------------------------------------------------------
(* Raft, as the emission layer sees it.                                    *)

\* ProposeAndWait on the leader: the record enters the leader's log under the
\* next node-local sequence number, which is what a waiter is keyed by.
Propose(n, op, at) ==
    /\ pend' = Append(pend, [op |-> op, at |-> at, seq |-> nextSeq[n] + 1])
    /\ nextSeq' = [nextSeq EXCEPT ![n] = @ + 1]

\* etcd/raft: the oldest proposal of the leader is committed.
Commit ==
    /\ leader # NoNode
    /\ pend # <<>>
    /\ log' = Append(log, Head(pend))
    /\ pend' = Tail(pend)
    /\ UNCHANGED <<leader, applied, chan, wait, nextSeq, epoch, outbox, lastAck,
                   compact, sent, gate, conn, seen, acked, drops, counts>>

\* etcd/raft: n becomes leader.  Of the uncommitted proposals it has a prefix;
\* the rest is overwritten.
Elect(n) ==
    /\ leader # n
    /\ counts.elections < MaxElections
    /\ leader' = n
    /\ \E k \in 0..Len(pend) : pend' = SubSeq(pend, 1, k)
    /\ counts' = [counts EXCEPT !.elections = @ + 1]
    /\ UNCHANGED <<log, applied, chan, wait, nextSeq, epoch, outbox, lastAck,
                   compact, sent, gate, conn, seen, acked, drops>>

-----------------------------------------------------------------------------
(* Manager: the outbox and its watermarks (outbox.go).                     *)

OutboxWrite(o, s) == {t \in o : t.idx # s.idx} \cup {s}

\* Mutant of OutboxPurge: the acknowledged entry itself stays.
OutboxPurgeBelow(o, s) == {t \in o : t.idx >= s.idx}

OutboxPurge(o, s) == {t \in o : t.idx > s.idx}

\* The part of a record that ApplyOutboxWrite and ApplyOutboxPurge consume;
\* it is what the replication handler does with a record.
ApplyOutbox(n, r) ==
    CASE r.op = "OUTBOX_WRITE" ->
            /\ outbox' = [outbox EXCEPT ![n] = OutboxWrite(@, r.at)]
            /\ UNCHANGED compact
      [] r.op = "OUTBOX_PURGE" ->
            /\ outbox' = [outbox EXCEPT ![n] = OutboxPurge(@, r.at)]
            /\ compact' = [compact EXCEPT ![n] = r.at]
      [] OTHER -> UNCHANGED <<outbox, compact>>

-----------------------------------------------------------------------------
(* The ready loop (processReady) and the Applier.                          *)

\* Mutant of ReadyApply: the waiter of an applied proposal is not signalled.
ReadyApplySilent(n) ==
    /\ applied[n] < Len(log)
    /\ applied' = [applied EXCEPT ![n] = @ + 1]
    /\ ApplyOutbox(n, log[applied[n] + 1])
    /\ chan' = [chan EXCEPT ![n] = @ \cup {applied[n] + 1}]
    /\ UNCHANGED <<log, pend, leader, wait, nextSeq, epoch, lastAck, sent, gate,
                   conn, seen, acked, drops, counts>>

\* processReady, for the next committed entry: the handler, then committedCh
\* (a record is dropped when the channel stays full), then the waiter that is
\* registered under the record's sequence number, whoever proposed it.
ReadyApply(n) ==
    /\ applied[n] < Len(log)
    /\ LET i == applied[n] + 1
           r == log[i]
       IN  /\ applied' = [applied EXCEPT ![n] = i]
           /\ ApplyOutbox(n, r)
           /\ \/ /\ Cardinality(chan[n]) < ChanCap
                 /\ chan' = [chan EXCEPT ![n] = @ \cup {i}]
                 /\ UNCHANGED drops
              \/ /\ Cardinality(chan[n]) >= ChanCap
                 /\ drops' = drops \cup {n}
                 /\ UNCHANGED chan
           /\ wait' = [wait EXCEPT ![n] = IF r.seq = @ THEN 0 ELSE @]
    /\ UNCHANGED <<log, pend, leader, nextSeq, epoch, lastAck, sent, gate,
                   conn, seen, acked, counts>>

\* Record i is the next one the Applier of n takes from the channel, which it
\* does only when it is not inside a ProposeAndWait.
Receives(n, i) ==
    /\ wait[n] = 0
    /\ i \in chan[n]
    /\ \A j \in chan[n] : i <= j
    /\ chan' = [chan EXCEPT ![n] = @ \ {i}]

ProposeAndWait(n, op, at) ==
    /\ Propose(n, op, at)
    /\ wait' = [wait EXCEPT ![n] = nextSeq[n] + 1]

\* Mutant of ApplyDataEvent: the entry is numbered like the record after it.
ApplyDataEventNext(n, i) ==
    /\ log[i].op = "DATA_EVENT"
    /\ Receives(n, i)
    /\ IF leader = n
       THEN ProposeAndWait(n, "OUTBOX_WRITE", [epoch |-> epoch[n], idx |-> i + 1])
       ELSE UNCHANGED <<pend, nextSeq, wait>>
    /\ UNCHANGED <<log, leader, applied, epoch, outbox, lastAck, compact, sent,
                   gate, conn, seen, acked, drops, counts>>

\* applyCommand, DATA_EVENT: the leader proposes the outbox write under its own
\* epoch and the commit index of the event; a follower does nothing.
ApplyDataEvent(n, i) ==
    /\ log[i].op = "DATA_EVENT"
    /\ Receives(n, i)
    /\ IF leader = n
       THEN ProposeAndWait(n, "OUTBOX_WRITE", [epoch |-> epoch[n], idx |-> i])
       ELSE UNCHANGED <<pend, nextSeq, wait>>
    /\ UNCHANGED <<log, leader, applied, epoch, outbox, lastAck, compact, sent,
                   gate, conn, seen, acked, drops, counts>>

\* Mutant of ApplyAgain: only writes are applied a second time.
ApplyAgainWrites(n, i) ==
    /\ log[i].op \in {"OUTBOX_WRITE", "OUTBOX_PURGE"}
    /\ Receives(n, i)
    /\ IF log[i].op = "OUTBOX_WRITE" THEN ApplyOutbox(n, log[i])
                                     ELSE UNCHANGED <<outbox, compact>>
    /\ UNCHANGED <<log, pend, leader, applied, wait, nextSeq, epoch, lastAck,
                   sent, gate, conn, seen, acked, drops, counts>>

\* applyCommand, OUTBOX_WRITE and OUTBOX_PURGE: applied a second time.
ApplyAgain(n, i) ==
    /\ log[i].op \in {"OUTBOX_WRITE", "OUTBOX_PURGE"}
    /\ Receives(n, i)
    /\ ApplyOutbox(n, log[i])
    /\ UNCHANGED <<log, pend, leader, applied, wait, nextSeq, epoch, lastAck,
                   sent, gate, conn, seen, acked, drops, counts>>

\* applyCommand, ACK: ValidateAck, then the leader proposes the purge.
ApplyAck(n, i) ==
    /\ log[i].op = "ACK"
    /\ Receives(n, i)
    /\ IF Newer(log[i].at, lastAck[n])
       THEN /\ lastAck' = [lastAck EXCEPT ![n] = log[i].at]
            /\ IF leader = n THEN ProposeAndWait(n, "OUTBOX_PURGE", log[i].at)
                             ELSE UNCHANGED <<pend, nextSeq, wait>>
       ELSE UNCHANGED <<lastAck, pend, nextSeq, wait>>
    /\ UNCHANGED <<log, leader, applied, epoch, outbox, compact, sent, gate,
                   conn, seen, acked, drops, counts>>

Applier(n) == \E i \in chan[n] :
    ApplyDataEvent(n, i) \/ ApplyAgain(n, i) \/ ApplyAck(n, i)

-----------------------------------------------------------------------------
(* The Notifier, its gate, and the client.                                 *)

\* A poll of the leader controller (LeaderGate has its races).
Poll(n) ==
    /\ (n \in gate) # (leader = n)
    /\ gate' = IF leader = n THEN gate \cup {n} ELSE gate \ {n}
    /\ UNCHANGED <<log, pend, leader, applied, chan, wait, nextSeq, epoch,
                   outbox, lastAck, compact, sent, conn, seen, acked, drops,
                   counts>>

\* The entries processTick does not skip: those after the sent watermark.
Unsent(n) == {s \in outbox[n] : Newer(s, sent[n])}

\* Mutant of Send: pending entries are taken in any order (a map's).
SendAnyOrder(n) == \E s \in Unsent(n) :
    /\ n \in gate
    /\ conn = n
    /\ seen' = seen \cup {s}
    /\ sent' = [sent EXCEPT ![n] = s]
    /\ UNCHANGED <<log, pend, leader, applied, chan, wait, nextSeq, epoch,
                   outbox, lastAck, compact, gate, conn, acked, drops, counts>>

\* Mutant of Send: an entry is removed when it is sent.
SendRemoves(n) == \E s \in Unsent(n) :
    /\ n \in gate
    /\ conn = n
    /\ \A t \in Unsent(n) : s.idx <= t.idx
    /\ seen' = seen \cup {s}
    /\ sent' = [sent EXCEPT ![n] = s]
    /\ outbox' = [outbox EXCEPT ![n] = @ \ {s}]
    /\ UNCHANGED <<log, pend, leader, applied, chan, wait, nextSeq, epoch,
                   lastAck, compact, gate, conn, acked, drops, counts>>

\* processTick: the first pending entry that is not skipped is sent, when the
\* gate is open and the client has a thread on this node, and then marked.
Send(n) == \E s \in Unsent(n) :
    /\ n \in gate
    /\ conn = n
    /\ \A t \in Unsent(n) : s.idx <= t.idx
    /\ seen' = seen \cup {s}
    /\ sent' = [sent EXCEPT ![n] = s]
    /\ UNCHANGED <<log, pend, leader, applied, chan, wait, nextSeq, epoch,
                   outbox, lastAck, compact, gate, conn, acked, drops, counts>>

\* A write to the watched key on the leader: NotifyWatchers proposes a
\* DATA_EVENT for the connected subscriber.
Publish ==
    /\ counts.events < MaxEvents
    /\ leader # NoNode /\ conn = leader
    /\ Propose(leader, "DATA_EVENT", ZeroSeq)
    /\ counts' = [counts EXCEPT !.events = @ + 1]
    /\ UNCHANGED <<log, leader, applied, chan, wait, epoch, outbox, lastAck,
                   compact, sent, gate, conn, seen, acked, drops>>

\* EMITACK for an entry the client has received, maybe again; the command names
\* the commit index only and is proposed with epoch 0.
ClientAck == \E s \in seen :
    /\ counts.acks < MaxAcks
    /\ leader # NoNode /\ conn = leader
    /\ Propose(leader, "ACK", [epoch |-> 0, idx |-> s.idx])
    /\ acked' = acked \cup {s}
    /\ counts' = [counts EXCEPT !.acks = @ + 1]
    /\ UNCHANGED <<log, leader, applied, chan, wait, epoch, outbox, lastAck,
                   compact, sent, gate, conn, seen, drops>>

\* The client connects to a node and watches again.
Connect(n) ==
    /\ conn = NoNode
    /\ counts.connects < MaxConnects
    /\ conn' = n
    /\ counts' = [counts EXCEPT !.connects = @ + 1]
    /\ UNCHANGED <<log, pend, leader, applied, chan, wait, nextSeq, epoch,
                   outbox, lastAck, compact, sent, gate, seen, acked, drops>>

\* The connection ends: ClearWatermarksForClient forgets what was sent.
Disconnect ==
    /\ conn # NoNode
    /\ conn' = NoNode
    /\ sent' = [sent EXCEPT ![conn] = ZeroSeq]
    /\ UNCHANGED <<log, pend, leader, applied, chan, wait, nextSeq, epoch,
                   outbox, lastAck, compact, gate, seen, acked, drops, counts>>

\* The process of n stops and starts again: everything in memory is lost, the
\* committed log is applied again from its beginning, and NewApplier takes a
\* new epoch.  A leader loses its leadership, and its proposals may be lost.
Restart(n) ==
    /\ counts.restarts < MaxRestarts
    /\ counts' = [counts EXCEPT !.restarts = @ + 1]
    /\ IF leader = n
       THEN /\ leader' = NoNode
            /\ \E k \in 0..Len(pend) : pend' = SubSeq(pend, 1, k)
       ELSE UNCHANGED <<leader, pend>>
    /\ applied' = [applied EXCEPT ![n] = 0]
    /\ chan' = [chan EXCEPT ![n] = {}]
    /\ wait' = [wait EXCEPT ![n] = 0]
    /\ nextSeq' = [nextSeq EXCEPT ![n] = 0]
    /\ epoch' = [epoch EXCEPT ![n] = LastStart + counts.restarts + 1]
    /\ outbox' = [outbox EXCEPT ![n] = {}]
    /\ lastAck' = [lastAck EXCEPT ![n] = ZeroSeq]
    /\ compact' = [compact EXCEPT ![n] = ZeroSeq]
    /\ sent' = [sent EXCEPT ![n] = ZeroSeq]
    /\ gate' = gate \ {n}
    /\ drops' = drops \ {n}
    /\ conn' = IF conn = n THEN NoNode ELSE conn
    /\ UNCHANGED <<log, seen, acked>>

Next ==
    \/ Commit \/ Publish \/ ClientAck \/ Disconnect
    \/ \E n \in Nodes : \/ Elect(n) \/ ReadyApply(n) \/ Applier(n) \/ Poll(n)
                        \/ Send(n) \/ Connect(n) \/ Restart(n)

Spec == Init /\ [][Next]_vars

\* The goroutines of a node run: ready loop, Applier, controller, notifier;
\* and raft commits what its leader proposes.
Fairness ==
    /\ WF_vars(Commit)
    /\ \A n \in Nodes : /\ WF_vars(ReadyApply(n))
                        /\ WF_vars(Applier(n))
                        /\ WF_vars(Poll(n))
                        /\ WF_vars(Send(n))

FairSpec == Spec /\ Fairness

-----------------------------------------------------------------------------
(* Safety, under every failover and restart.                               *)

Events == {i \in 1..Len(log) : log[i].op = "DATA_EVENT"}
Writes(k) == {i \in 1..k : log[i].op = "OUTBOX_WRITE"}
Delivered(i) == \E s \in seen : s.idx = i

\* A delivery is never invented: what the client has received is an entry that
\* a committed OUTBOX_WRITE put there for a committed DATA_EVENT, and the commit
\* index it carries is the position of that event.
DeliveredWasCommitted ==
    \A s \in seen : /\ s.idx \in Events
                    /\ \E i \in Writes(Len(log)) : log[i].at = s

\* A pending entry leaves an outbox only for an acknowledgement at or after it:
\* on every replica, an applied OUTBOX_WRITE above all that the client has
\* acknowledged is still pending (maybe under the epoch of a later leader).
UnackedStaysPending ==
    \A n \in Nodes : \A i \in Writes(applied[n]) :
        \/ \E s \in acked : s.idx >= log[i].at.idx
        \/ \E t \in outbox[n] : t.idx = log[i].at.idx

\* No replica says it has compacted beyond what the client has acknowledged
\* (Reconnect answers STALE from this watermark).
CompactedWasAcked ==
    \A n \in Nodes : \/ compact[n].idx = 0
                     \/ \E s \in acked : s.idx = compact[n].idx

\* What applying the first k records once, in order, leaves in the outbox.
Replay(k) ==
    {log[i].at : i \in {i \in Writes(k) : \A j \in i+1..k :
        /\ log[j].op = "OUTBOX_WRITE" => log[j].at.idx # log[i].at.idx
        /\ log[j].op = "OUTBOX_PURGE" => log[j].at.idx < log[i].at.idx}}

\* Every OUTBOX record is applied twice, by the replication handler and later by
\* the Applier.  When the Applier has caught up, and nothing was dropped, the
\* outbox is what one application in log order gives.
SettledOutboxIsReplay ==
    \A n \in Nodes : chan[n] = {} /\ n \notin drops => outbox[n] = Replay(applied[n])

\* The committed purges release the events at or before them.
Released == {i \in Events : \E j \in 1..Len(log) :
                log[j].op = "OUTBOX_PURGE" /\ log[j].at.idx >= i}

Contract == INSTANCE Delivery WITH
    events <- Events,
    delivered <- {s.idx : s \in seen},
    acknowledged <- {s.idx : s \in acked},
    released <- Released

\* The pipeline implements the least the contract promises, through every
\* failover, restart, drop and repeated application.
ImplementsDelivery == Contract!Spec

-----------------------------------------------------------------------------
(* Delivery, while the leader stays, no process restarts and the Appliers  *)
(* keep up with committedCh.                                               *)

Undisturbed == counts.elections = 0 /\ counts.restarts = 0 /\ drops = {}

\* While nothing disturbs the pipeline, the first delivery of an event comes
\* after the first delivery of every event committed before it.
DeliveredInOrder ==
    Undisturbed => \A s \in seen : \A i \in Events : i < s.idx => Delivered(i)

\* While nothing disturbs the pipeline, an event has one emit_seq: the client,
\* which drops what it has seen before by (epoch, commit index), never takes a
\* repeated delivery for a new event.
OneSeqPerEvent ==
    Undisturbed => \A s, t \in seen : s.idx = t.idx => s = t

\* An entry the notifier would skip as already sent was delivered.
SkippedWasDelivered ==
    Undisturbed =>
        \A n \in Nodes : \A s \in outbox[n] \ Unsent(n) : Delivered(s.idx)

\* While the leader stays, nothing is wrong with what the client receives: in
\* order, each event under one number, nothing skipped that it has not got.
StableDelivery == DeliveredInOrder /\ OneSeqPerEvent /\ SkippedWasDelivered

\* Committed events are delivered, if the client stays with the leader: again
\* and again there is a moment when it has them all.
AllDelivered == conn = leader => \A i \in Events : Delivered(i)
EventDelivered == []<>(Undisturbed => AllDelivered)

\* The same through failovers, which is what the emission contract says.
EventDeliveredAnyway == []<>AllDelivered

\* Acknowledged entries leave the outbox of every replica for good.
AckPurges ==
    <>[](Undisturbed => \A n \in Nodes : \A t \in outbox[n] : \A s \in acked : t.idx > s.idx)
=============================================================================
