------------------------------- MODULE ShardRaft -------------------------------
(***************************************************************************)
(* The shard node of internal/raft/types.go: proposals and their waiters,  *)
(* the apply pipeline, snapshots, and Close, for both engines.  The "etcd" *)
(* engine keeps waiters by the node's own sequence number, which travels   *)
(* in the record; the "stub" engine keeps them by raft index and applies   *)
(* every record in a goroutine of its own.  Consensus itself (etcd/raft)   *)
(* is external: a single committed log, proposals in flight that may be    *)
(* lost, and each node's view of who leads.                                *)
(***************************************************************************)
EXTENDS Integers, Sequences, FiniteSets, FiniteSetsExt

CONSTANTS
    Settings,      \* the deployments explored, one chosen at the start:
                   \* [engine, nodes, threshold, cap, elections, restarts, calls, uses]
                   \* where uses are the optional operations that occur
    Calls,         \* the calls of Propose and ProposeAndWait
    Buckets

ASSUME SettingsAssumption ==
    \A s \in Settings :
        /\ s.engine \in {"stub", "etcd"} /\ s.nodes \subseteq Nat \ {0} /\ IsFiniteSet(s.nodes)
        /\ s.threshold \in Nat /\ s.cap \in Nat \ {0}

VARIABLES
    setting,
    log,       \* the committed raft log (etcd engine)
    flying,    \* etcd: records handed to raft and not committed; stub: the
               \* goroutines "go s.apply(idx, rec)" that have not begun
    view,      \* view[n]: Status().Lead as node n sees it, 0 for none
    elections, \* changes of leader so far
    restarts,  \* restarts so far
    node,      \* node[n]: the fields of ShardRaftNode
    hand,      \* hand[n]: records past the locked part of their application
               \* and not yet signalled
    call,      \* call[c]: the progress of call c
    ch         \* ch[c]: the contents of the call's one-place result channel

vars == <<setting, log, flying, view, elections, restarts, node, hand, call, ch>>

Nobody == 0
Nil == [commit |-> 0, idx |-> 0]      \* the nil *ProposalResult
Nodes == setting.nodes
Etcd == setting.engine = "etcd"

Entry(kind, c, seq, b, n) ==
    [kind |-> kind, call |-> c, seq |-> seq, bucket |-> b, from |-> n]
NoCall == "no call"
NoBucket == "no bucket"
ASSUME BucketAssumption == NoBucket \notin Buckets

Noop == Entry("noop", NoCall, 0, NoBucket, 0)
Conf == Entry("conf", NoCall, 0, NoBucket, 0)

\* NewShardRaftNode: a node that loads the snapshot at index "snap".  raft
\* delivers the committed entries behind it again; last is the last index
\* found on disk, which Status reports as applied.
NewShardRaftNode(snap, last) ==
    [closed |-> FALSE, stopped |-> FALSE, sentClosed |-> FALSE, nextSeq |-> 0,
     waiters |-> {}, taken |-> {}, commit |-> [b \in Buckets |-> 0],
     lastApplied |-> last, cursor |-> snap, left |-> 0, since |-> 0,
     snap |-> snap, pruned |-> 0,
     handler |-> "Register" \notin setting.uses,   \* else registered later
     committed |-> <<>>, hist |-> <<>>]

Idle == [pc |-> "idle", node |-> 0, seq |-> 0, bucket |-> NoBucket, res |-> Nil]

\* StartNode(c, peers) writes the configuration of a new cluster as the
\* first entries of the log.
Init ==
    /\ setting \in Settings
    /\ log = IF Etcd THEN <<Conf>> ELSE <<>>
    /\ flying = {}
    /\ view = [n \in Nodes |-> Nobody]
    /\ elections = 0 /\ restarts = 0
    /\ node = [n \in Nodes |-> NewShardRaftNode(0, 0)]
    /\ hand = [n \in Nodes |-> {}]
    /\ call = [c \in Calls |-> Idle]
    /\ ch = [c \in Calls |-> <<>>]

-----------------------------------------------------------------------------
(* etcd/raft, external *)

\* Some node wins an election; proposals in flight may be lost with the old
\* leader, and the new one commits an empty entry first.
Elect(n) ==
    /\ Etcd /\ ~node[n].closed
    /\ elections < setting.elections
    /\ elections' = elections + 1
    /\ view' = [view EXCEPT ![n] = n]
    /\ \E kept \in IF Cardinality(Nodes) > 1 THEN SUBSET flying ELSE {flying} :
           flying' = kept \cup {Noop}
    /\ UNCHANGED <<setting, log, restarts, node, hand, call, ch>>

\* A node hears of a leader, or gives up the one it knew (CheckQuorum).
Hear(n) ==
    /\ Etcd /\ ~node[n].closed
    /\ \E m \in Nodes \cup {Nobody} :
           /\ m # n /\ m # view[n] /\ (m # Nobody => view[m] = m)
           /\ view' = [view EXCEPT ![n] = m]
    /\ UNCHANGED <<setting, log, flying, elections, restarts, node, hand, call, ch>>

\* Every committed entry was proposed, and is committed once.
CommitEntry ==
    /\ Etcd
    /\ \E e \in flying : log' = Append(log, e) /\ flying' = flying \ {e}
    /\ UNCHANGED <<setting, view, elections, restarts, node, hand, call, ch>>

-----------------------------------------------------------------------------
(* Proposals *)

IsLeader(n) == ~Etcd \/ (~node[n].closed /\ view[n] = n)

\* The server takes commands once the shard manager has set its nodes up.
Serving(c, n) == c \in setting.calls /\ call[c].pc = "idle" /\ node[n].handler

\* A node that does not lead refuses with NotLeaderError (the leader it
\* names in the error, lastKnownLeader, is left out).
Refuse(c, n) ==
    /\ Serving(c, n) /\ ~IsLeader(n)
    /\ call' = [call EXCEPT ![c].pc = "refused"]
    /\ UNCHANGED <<setting, log, flying, view, elections, restarts, node, hand, ch>>

\* ProposeAndWait up to the end of its locked part: a number is taken, the
\* waiter registered.  A node closed since the leadership test refuses.
Enter(c, n, b) ==
    LET seq == node[n].nextSeq + 1 IN
    /\ Serving(c, n) /\ (Etcd => view[n] = n)
    /\ IF node[n].closed
       THEN /\ call' = [call EXCEPT ![c].pc = "failed", ![c].node = n]
            /\ node' = IF Etcd THEN [node EXCEPT ![n].nextSeq = seq] ELSE node
       ELSE /\ call' = [call EXCEPT ![c].pc = "entered", ![c].node = n,
                                    ![c].bucket = b, ![c].seq = seq]
            /\ node' = [node EXCEPT ![n].nextSeq = seq,
                                    ![n].waiters = @ \cup {<<seq, c>>}]
    /\ UNCHANGED <<setting, log, flying, view, elections, restarts, hand, ch>>

\* rn.Propose, which forwards to the leader and fails when none is known (the
\* waiter stays behind), or "go s.apply" for the stub.
Propose(c) ==
    LET n == call[c].node
        ok == ~Etcd \/ (view[n] # Nobody /\ ~node[n].closed) IN
    /\ call[c].pc = "entered"
    /\ flying' = IF ok THEN flying \cup
                           {Entry("app", c, call[c].seq, call[c].bucket, n)}
                 ELSE flying
    /\ call' = [call EXCEPT ![c].pc = IF ok THEN "waiting" ELSE "failed"]
    /\ UNCHANGED <<setting, log, view, elections, restarts, node, hand, ch>>

\* Propose without a waiter: the record goes out and the caller does not wait.
ProposeOnly(c, n, b) ==
    LET seq == node[n].nextSeq + 1 IN
    /\ "Propose" \in setting.uses
    /\ Serving(c, n) /\ IsLeader(n) /\ ~node[n].closed
    /\ node' = [node EXCEPT ![n].nextSeq = seq]
    /\ flying' = flying \cup {Entry("app", c, seq, b, n)}
    /\ call' = [call EXCEPT ![c].pc = "sent", ![c].node = n, ![c].bucket = b,
                            ![c].seq = seq]
    /\ UNCHANGED <<setting, log, view, elections, restarts, hand, ch>>

\* The select of ProposeAndWait: a result in the channel, or ctx.Done.
Return(c) ==
    /\ call[c].pc = "waiting" /\ ch[c] # <<>>
    /\ call' = [call EXCEPT ![c].pc = IF Head(ch[c]) = Nil THEN "failed" ELSE "acked",
                            ![c].res = Head(ch[c])]
    /\ ch' = [ch EXCEPT ![c] = Tail(@)]
    /\ UNCHANGED <<setting, log, flying, view, elections, restarts, node, hand>>

Cancel(c) ==
    /\ "Cancel" \in setting.uses /\ call[c].pc = "waiting"
    /\ call' = [call EXCEPT ![c].pc = "failed"]
    /\ UNCHANGED <<setting, log, flying, view, elections, restarts, node, hand, ch>>

-----------------------------------------------------------------------------
(* Application *)

\* Mutants: the record's number is not looked at; nobody is found.
WaiterOfAny(n, seq) == node[n].waiters
WaiterOfNone(n, seq) == {}

WaiterOf(n, seq) == {w \in node[n].waiters : w[1] = seq}

\* Mutant: the proposer alone counts.
NextCommitIfWaited(n, e) ==
    node[n].commit[e.bucket] + Cardinality(WaiterOf(n, e.seq))
NextCommit(n, e) == node[n].commit[e.bucket] + 1

\* The locked part common to both engines: the bucket's next commit index, and
\* the waiter registered under the record's number.  hist is the history of
\* what was counted.
Take(n, e, idx, left) ==
    LET app == e.kind = "app"
        k == IF app THEN NextCommit(n, e) ELSE 0
        ws == WaiterOf(n, e.seq)
        counted == [idx |-> idx, call |-> e.call, bucket |-> e.bucket, commit |-> k]
        locked == [node[n] EXCEPT
            !.commit = IF app THEN [@ EXCEPT ![e.bucket] = k] ELSE @,
            !.hist = IF app THEN Append(@, counted) ELSE @,
            !.waiters = @ \ ws] IN
    /\ node' = [node EXCEPT ![n] =
           IF Etcd THEN [locked EXCEPT !.lastApplied = idx, !.cursor = idx, !.left = left,
                                       !.since = @ + 1]
           ELSE locked]
    /\ hand' = [hand EXCEPT ![n] = @ \cup
           {[idx |-> idx, app |-> app, commit |-> k, waiters |-> {w[2] : w \in ws}]}]

\* A configuration change is applied by raft itself; the node only counts it.
ApplyConf(n, idx, left) ==
    /\ node' = [node EXCEPT ![n].lastApplied = idx, ![n].cursor = idx, ![n].left = left,
                            ![n].since = @ + 1]
    /\ hand' = [hand EXCEPT ![n] =
           {[idx |-> idx, app |-> FALSE, commit |-> 0, waiters |-> {}]}]

\* processReady takes the next committed entry, up to the unlock: the first of
\* a Ready that holds some of the committed entries, discarded if the node is
\* closed, or one of the left entries of a Ready, closed or not.
ApplyEntry(n) ==
    LET next == node[n].cursor + 1 IN
    /\ Etcd /\ hand[n] = {} /\ next <= Len(log)
    /\ \E left \in IF node[n].left > 0 THEN {node[n].left - 1}
                   ELSE IF node[n].closed THEN {} ELSE 0..(Len(log) - next) :
           IF log[next].kind = "conf" THEN ApplyConf(n, next, left)
           ELSE Take(n, log[next], next, left)
    /\ UNCHANGED <<setting, log, flying, view, elections, restarts, call, ch>>

\* The stub's apply goroutine, up to the unlock; after Close it does nothing.
StubApply(n) ==
    /\ ~Etcd
    /\ \E e \in flying :
           /\ flying' = flying \ {e}
           /\ IF node[n].closed THEN UNCHANGED <<node, hand>> ELSE Take(n, e, e.seq, 0)
    /\ UNCHANGED <<setting, log, view, elections, restarts, call, ch>>

\* minFollowerMatchIndex on a leader whose raft status reports match[m] for
\* follower m (0: nothing acknowledged yet); 0 when this node does not lead.
minFollowerMatchIndex(n, match) ==
    LET known == Range(match) \ {0} IN
    IF view[n] = n /\ known # {} THEN Min(known) ELSE 0

Matches(n) ==
    {match \in [Nodes \ {n} -> 0..Len(log)] :
        \A m \in Nodes \ {n} : match[m] = 0 \/ match[m] >= node[m].cursor}

\* The end of processReady: past the threshold the node snapshots what it has
\* applied, compacts, and prunes up to the followers' floor.
EndReady(nd, mf) ==
    IF setting.threshold > 0 /\ nd.since >= setting.threshold /\ nd.lastApplied > nd.snap
    THEN [nd EXCEPT !.pruned = Max({@, IF mf > 0 THEN Min({mf, nd.lastApplied})
                                       ELSE nd.lastApplied}),
                    !.snap = nd.lastApplied, !.since = 0]
    ELSE nd

\* The committed channel: a full one drops the record after 100 ms.  A send on
\* a closed one is noted in sentClosed: the ready loop recovers from the panic
\* and the record is lost, a stub goroutine takes the process down (the model
\* lets it run on, which only adds behaviours).
ToCommittedCh(nd, idx) ==
    [nd EXCEPT !.sentClosed = @ \/ nd.stopped,
               !.committed = IF ~nd.stopped /\ Len(@) < setting.cap
                             THEN Append(@, idx) ELSE @]

\* The rest of the application: the replication handler (which in strict mode
\* may fail, and then the waiter hears nil), the committed channel and the
\* waiter; after the last entry of a Ready, its end.
Signal(n, fatal) ==
    /\ \E h \in hand[n], match \in Matches(n) :
           LET told == IF fatal THEN Nil ELSE [commit |-> h.commit, idx |-> h.idx]
               sent == IF h.app /\ ~fatal THEN ToCommittedCh(node[n], h.idx) ELSE node[n] IN
           /\ fatal => h.app /\ node[n].handler
           /\ hand' = [hand EXCEPT ![n] = @ \ {h}]
           /\ ch' = [c \in Calls |-> IF c \in h.waiters THEN <<told>> ELSE ch[c]]
           /\ node' = [node EXCEPT ![n] =
                  IF Etcd /\ node[n].left = 0
                  THEN EndReady(sent, minFollowerMatchIndex(n, match)) ELSE sent]
    /\ UNCHANGED <<setting, log, flying, view, elections, restarts, call>>

\* A reader of Committed() (the emission applier, RaftBucketLog.Read).
Consume(n) ==
    /\ "Committed" \in setting.uses /\ node[n].committed # <<>>
    /\ node' = [node EXCEPT ![n].committed = Tail(@)]
    /\ UNCHANGED <<setting, log, flying, view, elections, restarts, hand, call, ch>>

-----------------------------------------------------------------------------
(* Snapshots, registration, restart, Close *)

\* A follower behind the leader's compaction receives its snapshot, which
\* carries no data: storage.ApplySnapshot is all that happens.
InstallSnapshot(n) ==
    /\ Etcd /\ ~node[n].closed /\ hand[n] = {} /\ node[n].left = 0
    /\ \E m \in Nodes \ {n} :
           /\ view[m] = m /\ node[m].snap > node[n].cursor
           /\ node' = [node EXCEPT ![n].cursor = node[m].snap]
    /\ UNCHANGED <<setting, log, flying, view, elections, restarts, hand, call, ch>>

\* SetReplicationHandler, called by the shard manager on a node whose ready
\* loop already runs.
SetReplicationHandler(n) ==
    /\ ~node[n].handler
    /\ node' = [node EXCEPT ![n].handler = TRUE]
    /\ UNCHANGED <<setting, log, flying, view, elections, restarts, hand, call, ch>>

\* The process dies (Crash) and comes back: its calls are gone, the node loads
\* its snapshot and the entries it had stored, and counts from zero again.
Restart(n) ==
    /\ Etcd /\ restarts < setting.restarts
    /\ restarts' = restarts + 1
    /\ \E last \in node[n].cursor..Len(log) :
           node' = [node EXCEPT ![n] = NewShardRaftNode(node[n].snap, last)]
    /\ hand' = [hand EXCEPT ![n] = {}]
    /\ view' = [view EXCEPT ![n] = Nobody]
    /\ call' = [c \in Calls |-> IF call[c].node = n /\ call[c].pc \in {"entered", "waiting"}
                                THEN [call[c] EXCEPT !.pc = "dead"] ELSE call[c]]
    /\ UNCHANGED <<setting, log, flying, elections, ch>>

\* Mutant: the waiters are dropped, not taken.
CloseForgets(n) ==
    /\ "Close" \in setting.uses
    /\ ~node[n].closed /\ node[n].handler
    /\ node' = [node EXCEPT ![n].closed = TRUE, ![n].waiters = {}]
    /\ UNCHANGED <<setting, log, flying, view, elections, restarts, hand, call, ch>>

\* Close, under the lock: the node is closed and its waiters taken away.
Close(n) ==
    /\ "Close" \in setting.uses
    /\ ~node[n].closed /\ node[n].handler
    /\ node' = [node EXCEPT ![n].closed = TRUE, ![n].taken = node[n].waiters,
                            ![n].waiters = {}]
    /\ UNCHANGED <<setting, log, flying, view, elections, restarts, hand, call, ch>>

\* The rest of Close, once the ready loop has ended (the stub's goroutines are
\* not waited for): committedCh is closed and every waiter taken hears nil.
CloseWaiters(n) ==
    /\ node[n].closed /\ ~node[n].stopped
    /\ Etcd => hand[n] = {} /\ node[n].left = 0
    /\ ch' = [c \in Calls |-> IF \E w \in node[n].taken : w[2] = c THEN <<Nil>> ELSE ch[c]]
    /\ node' = [node EXCEPT ![n].stopped = TRUE, ![n].taken = {}]
    /\ UNCHANGED <<setting, log, flying, view, elections, restarts, hand, call>>

-----------------------------------------------------------------------------
NodeStep(n) ==
    \/ ApplyEntry(n) \/ StubApply(n) \/ CloseWaiters(n)
    \/ \E fatal \in BOOLEAN : Signal(n, fatal)

Next ==
    \/ CommitEntry
    \/ \E n \in Nodes :
           \/ Elect(n) \/ Hear(n) \/ NodeStep(n) \/ Consume(n) \/ InstallSnapshot(n)
           \/ SetReplicationHandler(n) \/ Restart(n) \/ Close(n)
           \/ \E c \in Calls : \/ Refuse(c, n)
                               \/ \E b \in Buckets : Enter(c, n, b) \/ ProposeOnly(c, n, b)
    \/ \E c \in Calls : Propose(c) \/ Return(c) \/ Cancel(c)

Spec == Init /\ [][Next]_vars

-----------------------------------------------------------------------------
(* Properties *)

\* The deployments in which one node serves alone and never restarts.
Alone == Cardinality(Nodes) = 1 /\ setting.restarts = 0

\* ProposeAndWait: "behaves like Propose but also waits until the entry is
\* applied": a call that returns success names a log entry that is its own.
AckedIsApplied ==
    \A c \in Calls : call[c].pc = "acked" /\ Etcd => log[call[c].res.idx].call = c

\* A call that waits is never forgotten: its waiter is registered or taken by
\* Close, or someone holds it and will signal it, or the answer is there.
WaiterIsKept ==
    \A c \in Calls : call[c].pc \in {"entered", "waiting"} =>
        LET n == call[c].node IN
        \/ ch[c] # <<>>
        \/ \E w \in node[n].waiters \cup node[n].taken : w[2] = c
        \/ \E h \in hand[n] : c \in h.waiters

\* Per-bucket commit indices are dense and gapless: what a node has counted for
\* a bucket since it started is 1, 2, 3, ... in the order of counting.
CommitDense ==
    \A n \in Nodes, b \in Buckets :
        LET hist == node[n].hist
            of == {i \in DOMAIN hist : hist[i].bucket = b} IN
        /\ {hist[i].commit : i \in of} = 1..node[n].commit[b]
        /\ \A i, j \in of : i < j => hist[i].commit < hist[j].commit

\* Replicas agree: nodes that have applied the whole log (no snapshot in place
\* of entries, no restart behind one) give an entry the same commit index.
Whole(n) ==
    {h.idx : h \in Range(node[n].hist)} = {k \in 1..node[n].cursor : log[k].kind = "app"}
ReplicasAgree ==
    \A m, n \in Nodes : Etcd /\ Whole(m) /\ Whole(n) =>
        \A g \in Range(node[m].hist), h \in Range(node[n].hist) :
            g.idx = h.idx => g.commit = h.commit

\* The commit index of a record is its place in its bucket, on every replica.
CommitIndicesAgree == CommitDense /\ ReplicasAgree

\* Close ends every call: once it has returned, whoever waited on the node has
\* an answer, or is held by a stub goroutine that is about to give one.
CloseAnswersAll ==
    \A c \in Calls : call[c].pc = "waiting" /\ node[call[c].node].stopped =>
        ch[c] # <<>> \/ (~Etcd /\ \E h \in hand[call[c].node] : c \in h.waiters)

\* The ready loop never sends on a closed committedCh, so that its recover()
\* never swallows a record that was applied.
NoSendOnClosed == \A n \in Nodes : Etcd => ~node[n].sentClosed

\* "snapshot before prune": what is pruned is behind the snapshot, and that
\* behind what raft has delivered.
PrunedBehindSnapshot ==
    \A n \in Nodes : node[n].pruned <= node[n].snap /\ node[n].snap <= node[n].cursor

\* The node that serves alone implements the appending of records to buckets.
Lone == Min(Nodes)
AtPlace(b, k) == CHOOSE h \in Range(node[Lone].hist) : h.bucket = b /\ h.commit = k
Order == [b \in Buckets |-> [k \in 1..node[Lone].commit[b] |-> AtPlace(b, k).call]]
Target == [c \in Calls |-> {call[c].bucket} \cap Buckets]
Answer == [c \in Calls |->
    IF call[c].bucket \notin Buckets THEN 0
    ELSE IF call[c].pc = "acked" THEN call[c].res.commit
    ELSE IF call[c].pc \in {"failed", "dead"} THEN -1 ELSE 0]
Contract == INSTANCE BucketAppend WITH order <- Order, asked <- Target, answer <- Answer
ImplementsAppend ==
    /\ Alone => Contract!AInit
    /\ [][Alone => Contract!ANext]_(Contract!avars)

\* Liveness, for a node that serves alone: a call that waits is answered.
Fairness ==
    /\ WF_vars(CommitEntry)
    /\ \A n \in UNION {s.nodes : s \in Settings} :
           WF_vars(n \in Nodes /\ NodeStep(n))
    /\ \A c \in Calls : WF_vars(Propose(c)) /\ WF_vars(Return(c))
FairSpec == Spec /\ Fairness
CallReturns ==
    \A c \in Calls : (Alone /\ call[c].pc = "waiting") ~> call[c].pc \in {"acked", "failed"}
=============================================================================
