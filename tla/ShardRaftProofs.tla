--------------------------- MODULE ShardRaftProofs ---------------------------
(* Theorems about ShardRaft, for both engines and any number of nodes,     *)
(* calls, elections, restarts and Closes: waiters are never forgotten,     *)
(* Close answers whoever waits, the etcd engine never sends on a closed    *)
(* channel, nothing is pruned that no snapshot covers, and commit indices  *)
(* are dense and the same everywhere.  A node that serves alone implements *)
(* the contract of BucketAppend.                                           *)
EXTENDS ShardRaft, FiniteSetTheorems, WellFoundedInduction, TLAPS

Fields == {"closed", "stopped", "sentClosed", "nextSeq", "waiters", "taken", "commit", "lastApplied",
           "cursor", "left", "since", "snap", "pruned", "handler", "committed", "hist"}

\* The variables that hold one value per node or call, and the nodes' records.
NodeShape ==
    /\ node = [n \in Nodes |-> node[n]] /\ hand = [n \in Nodes |-> hand[n]]
    /\ \A n \in Nodes : node[n] = [f \in Fields |-> node[n][f]]
CallShape ==
    /\ call = [c \in Calls |-> call[c]] /\ ch = [c \in Calls |-> ch[c]]
    /\ \A c \in Calls : call[c] = [f \in {"pc", "node", "seq", "bucket", "res"} |-> call[c][f]]
Shape == NodeShape /\ CallShape

\* What Close has done to the waiters, and the ready loop it waits for.
Closing(n) ==
    /\ node[n].closed => node[n].waiters = {}
    /\ ~node[n].closed => node[n].taken = {}
    /\ node[n].stopped => node[n].closed /\ node[n].taken = {}
    /\ Etcd /\ node[n].stopped => hand[n] = {} /\ node[n].left = 0

OnNodes == \A c \in Calls : call[c].pc \in {"entered", "waiting"} => call[c].node \in Nodes

WaitInv == Shape /\ OnNodes /\ (\A n \in Nodes : Closing(n)) /\ WaiterIsKept

\* The fields that waiting and closing read are fields of every node.
LEMMA NodeDomains ==
    ASSUME NodeShape
    PROVE  /\ DOMAIN node = Nodes
           /\ \A n \in Nodes : {"closed", "stopped", "waiters", "taken", "left"} \subseteq DOMAIN node[n]
<1>1. DOMAIN node = Nodes
    BY Zenon DEF NodeShape
<1>2. \A n \in Nodes : DOMAIN node[n] = Fields
    BY Zenon DEF NodeShape
<1> QED BY Zenon, <1>1, <1>2 DEF Fields

LEMMA WaitInit == Init => WaitInv
<1> SUFFICES ASSUME Init PROVE WaitInv
    BY Zenon
<1>1. Shape
    BY Zenon DEF Init, Shape, NodeShape, CallShape, Fields, NewShardRaftNode, Idle, Nodes
<1>2. OnNodes /\ WaiterIsKept
    BY Zenon DEF Init, OnNodes, WaiterIsKept, Idle
<1>3. ASSUME NEW n \in Nodes PROVE Closing(n)
    BY Zenon DEF Init, Closing, NewShardRaftNode
<1> QED BY Zenon, <1>1, <1>2, <1>3 DEF WaitInv

LEMMA ClosingStays ==
    ASSUME NEW n, Closing(n), UNCHANGED setting, node'[n] = node[n], hand'[n] = hand[n]
    PROVE  Closing(n)'
BY Zenon DEF Closing, Etcd

\* Steps that leave waiters, channels and Close alone.
LEMMA WaitStays ==
    ASSUME WaitInv, UNCHANGED <<setting, hand, ch>>, Shape',
           \A n \in Nodes : /\ node'[n].closed = node[n].closed
                            /\ node'[n].stopped = node[n].stopped
                            /\ node'[n].waiters = node[n].waiters
                            /\ node'[n].taken = node[n].taken
                            /\ node'[n].left = node[n].left \/ ~node[n].stopped,
           \A c \in Calls : call'[c].pc \in {"entered", "waiting"} =>
                call[c].pc \in {"entered", "waiting"} /\ call'[c].node = call[c].node
    PROVE  WaitInv'
<1>1. Nodes' = Nodes /\ (Etcd' <=> Etcd)
    BY Zenon DEF Nodes, Etcd
<1>2. OnNodes'
    BY Zenon, <1>1 DEF WaitInv, OnNodes
<1>3. ASSUME NEW n \in Nodes PROVE Closing(n)'
    BY <1>1 DEF WaitInv, Closing
<1>4. WaiterIsKept'
    BY <1>2, <1>1 DEF WaitInv, WaiterIsKept, OnNodes
<1> QED BY Zenon, <1>1, <1>2, <1>3, <1>4 DEF WaitInv

\* Steps of a call that has not entered, has failed, or has its answer.
LEMMA CallStep ==
    ASSUME WaitInv, NEW c \in Calls, Propose(c) \/ Return(c) \/ Cancel(c)
    PROVE  WaitInv'
<1>0. Nodes' = Nodes /\ (Etcd' <=> Etcd)
    BY Zenon DEF Nodes, Etcd, Propose, Return, Cancel
<1>1. CASE Propose(c) \/ Cancel(c)
    <2>1. /\ UNCHANGED <<setting, hand, ch, node>>
          /\ call[c].pc \in {"entered", "waiting"}
          /\ \E p \in {"waiting", "failed"} : call' = [call EXCEPT ![c].pc = p]
        BY Zenon, <1>1 DEF Propose, Cancel
    <2>a. PICK p \in {"waiting", "failed"} : call' = [call EXCEPT ![c].pc = p]
        BY Zenon, <2>1
    <2>b. CallShape'
        BY ZenonT(40), <2>1, <2>a DEF WaitInv, Shape, CallShape
    <2>2. Shape'
        BY Zenon, <1>0, <2>1, <2>b DEF WaitInv, Shape, NodeShape
    <2>3. \A d \in Calls : call'[d].pc \in {"entered", "waiting"} =>
             call[d].pc \in {"entered", "waiting"} /\ call'[d].node = call[d].node
        BY <2>1 DEF WaitInv, Shape, CallShape, NodeShape
    <2> QED BY Zenon, <2>1, <2>2, <2>3, WaitStays
<1>2. CASE Return(c)
    <2>1. UNCHANGED <<setting, hand, node>> /\ ch' = [ch EXCEPT ![c] = Tail(@)]
        BY Zenon, <1>2 DEF Return
    <2> DEFINE r == Head(ch[c])
               p == IF r = Nil THEN "failed" ELSE "acked"
    <2>a. p \in {"acked", "failed"} /\ call' = [call EXCEPT ![c].pc = p, ![c].res = r]
        BY Zenon, <1>2 DEF Return
    <2> HIDE DEF p, r
    <2>b. CallShape'
        <3>1. ch' = [d \in Calls |-> ch'[d]]
            BY Zenon, <2>1 DEF WaitInv, Shape, CallShape
        <3>2. /\ call' = [d \in Calls |-> call'[d]]
              /\ \A d \in Calls : call'[d] = [f \in {"pc", "node", "seq", "bucket", "res"} |-> call'[d][f]]
            BY Zenon, <2>a DEF WaitInv, Shape, CallShape
        <3> QED BY Zenon, <3>1, <3>2 DEF CallShape
    <2>2. Shape'
        BY Zenon, <1>0, <2>1, <2>b DEF WaitInv, Shape, NodeShape
    <2>3. /\ call'[c].pc \in {"acked", "failed"}
          /\ \A d \in Calls : d # c => call'[d] = call[d] /\ ch'[d] = ch[d]
        BY Zenon, <2>1, <2>a DEF WaitInv, Shape, CallShape
    <2>4. OnNodes' /\ WaiterIsKept'
        BY Zenon, <1>0, <2>1, <2>3 DEF WaitInv, OnNodes, WaiterIsKept
    <2>5. ASSUME NEW n \in Nodes PROVE Closing(n)'
        BY Zenon, <1>0, <2>1 DEF WaitInv, Closing
    <2> QED BY Zenon, <1>0, <2>2, <2>4, <2>5 DEF WaitInv
<1> QED BY Zenon, <1>1, <1>2

\* ProposeAndWait enters: its waiter is registered, or the node was closed.
LEMMA EnterStep ==
    ASSUME WaitInv, NEW c \in Calls, NEW n \in Nodes, NEW b, Enter(c, n, b)
    PROVE  WaitInv'
<1>0. Nodes' = Nodes /\ (Etcd' <=> Etcd)
    BY Zenon DEF Nodes, Etcd, Enter
<1>1. CASE node[n].closed
    <2>1. /\ UNCHANGED <<setting, hand, ch>>
          /\ call' = [call EXCEPT ![c].pc = "failed", ![c].node = n]
          /\ node' = node \/ \E q : node' = [node EXCEPT ![n].nextSeq = q]
        BY Zenon, <1>1 DEF Enter
    <2>a. CallShape'
        BY SMTT(30), <2>1 DEF WaitInv, Shape, CallShape
    <2>b. NodeShape'
        BY SMTT(30), <1>0, <2>1 DEF WaitInv, Shape, NodeShape, Fields
    <2>2. Shape'
        BY Zenon, <2>a, <2>b DEF Shape
    <2>3. \A d \in Calls : call'[d].pc \in {"entered", "waiting"} =>
             call[d].pc \in {"entered", "waiting"} /\ call'[d].node = call[d].node
        BY <2>1 DEF WaitInv, Shape, CallShape, NodeShape
    <2>4. \A m \in Nodes : /\ node'[m].closed = node[m].closed
                           /\ node'[m].stopped = node[m].stopped
                           /\ node'[m].waiters = node[m].waiters
                           /\ node'[m].taken = node[m].taken
                           /\ node'[m].left = node[m].left
        BY <2>1, NodeDomains DEF WaitInv, Shape
    <2> QED BY Zenon, <2>1, <2>2, <2>3, <2>4, WaitStays
<1>2. CASE ~node[n].closed
    <2>1. PICK q : 
          /\ UNCHANGED <<setting, hand, ch>>
          /\ call' = [call EXCEPT ![c].pc = "entered", ![c].node = n, ![c].bucket = b, ![c].seq = q]
          /\ node' = [node EXCEPT ![n].nextSeq = q, ![n].waiters = @ \cup {<<q, c>>}]
        BY Zenon, <1>2 DEF Enter
    <2>a. CallShape'
        BY Zenon, <2>1 DEF WaitInv, Shape, CallShape
    <2>b. NodeShape'
        BY Zenon, <1>0, <2>1 DEF WaitInv, Shape, NodeShape, Fields
    <2>2. Shape'
        BY <2>a, <2>b DEF Shape
    <2>3. /\ call'[c].node = n /\ \A d \in Calls : d # c => call'[d] = call[d]
          /\ \A m \in Nodes : m # n => node'[m] = node[m]
          /\ node'[n].waiters = node[n].waiters \cup {<<q, c>>}
          /\ node'[n].closed = node[n].closed /\ node'[n].stopped = node[n].stopped
          /\ node'[n].taken = node[n].taken /\ node'[n].left = node[n].left
        <3>1. call'[c].node = n /\ \A d \in Calls : d # c => call'[d] = call[d]
            BY <2>1 DEF WaitInv, Shape, CallShape
        <3>2. \A m \in Nodes : m # n => node'[m] = node[m]
            BY Zenon, <2>1 DEF WaitInv, Shape, NodeShape
        <3>3. node'[n].waiters = node[n].waiters \cup {<<q, c>>}
            BY Zenon, <2>1 DEF WaitInv, Shape, NodeShape, Fields
        <3>4. /\ node'[n].closed = node[n].closed /\ node'[n].stopped = node[n].stopped
              /\ node'[n].taken = node[n].taken /\ node'[n].left = node[n].left
            BY <2>1 DEF WaitInv, Shape, NodeShape, Fields
        <3> QED BY Zenon, <3>1, <3>2, <3>3, <3>4
    <2>4. OnNodes'
        BY Zenon, <1>0, <2>3 DEF WaitInv, OnNodes
    <2>5. ASSUME NEW m \in Nodes PROVE Closing(m)'
        <3>1. CASE m = n
            BY Zenon, <1>0, <1>2, <2>1, <2>3, <3>1 DEF WaitInv, Closing
        <3>2. CASE m # n
            BY Zenon, <1>0, <2>1, <2>3, <3>2, ClosingStays DEF WaitInv
        <3> QED BY Zenon, <3>1, <3>2
    <2>6. WaiterIsKept'
        <3>1. \A m \in Nodes : node[m].waiters \cup node[m].taken \subseteq node'[m].waiters \cup node'[m].taken
            BY Zenon, <2>3
        <3>2. <<q, c>> \in node'[n].waiters /\ <<q, c>>[2] = c
            BY Zenon, <2>3
        <3>3. ASSUME NEW d \in Calls, d # c, call[d].pc \in {"entered", "waiting"},
                     NEW m \in Nodes, m = call[d].node
              PROVE  \/ ch[d] # <<>>
                     \/ \E w \in node'[m].waiters \cup node'[m].taken : w[2] = d
                     \/ \E h \in hand[m] : d \in h.waiters
            <4>1. \/ ch[d] # <<>>
                  \/ \E w \in node[m].waiters \cup node[m].taken : w[2] = d
                  \/ \E h \in hand[m] : d \in h.waiters
                BY Zenon, <3>3 DEF WaitInv, WaiterIsKept
            <4> QED BY Zenon, <3>1, <4>1
        <3>4. ASSUME NEW d \in Calls, d # c, call[d].pc \in {"entered", "waiting"}
              PROVE  call[d].node \in Nodes
            BY Zenon, <3>4 DEF WaitInv, OnNodes
        <3> QED BY Zenon, <2>1, <2>3, <3>2, <3>3, <3>4 DEF WaiterIsKept
    <2> QED BY Zenon, <1>0, <2>2, <2>4, <2>5, <2>6 DEF WaitInv
<1> QED BY Zenon, <1>1, <1>2

\* A step of node n in which every waiter of n stays, is handed on or answered.
LEMMA WaitMoves ==
    ASSUME WaitInv, NEW n \in Nodes, UNCHANGED <<setting, call>>, Shape',
           \A m \in Nodes : m # n => node'[m] = node[m] /\ hand'[m] = hand[m],
           Closing(n)',
           \A c \in Calls : ch[c] # <<>> => ch'[c] # <<>>,
           \A c \in Calls : (\/ \E w \in node[n].waiters \cup node[n].taken : w[2] = c
                             \/ \E h \in hand[n] : c \in h.waiters)
                => \/ ch'[c] # <<>>
                   \/ \E w \in node'[n].waiters \cup node'[n].taken : w[2] = c
                   \/ \E h \in hand'[n] : c \in h.waiters
    PROVE  WaitInv'
<1>1. Nodes' = Nodes
    BY Zenon DEF Nodes
<1>2. OnNodes'
    BY Zenon, <1>1 DEF WaitInv, OnNodes
<1>3. ASSUME NEW m \in Nodes PROVE Closing(m)'
    BY Zenon, ClosingStays DEF WaitInv
<1>4. ASSUME NEW c \in Calls, call'[c].pc \in {"entered", "waiting"}
      PROVE  \/ ch'[c] # <<>>
             \/ \E w \in node'[call'[c].node].waiters \cup node'[call'[c].node].taken : w[2] = c
             \/ \E h \in hand'[call'[c].node] : c \in h.waiters
    <2>1. PICK m \in Nodes : m = call[c].node /\ m = call'[c].node
        BY Zenon, <1>4 DEF WaitInv, OnNodes
    <2>2. \/ ch[c] # <<>>
          \/ \E w \in node[m].waiters \cup node[m].taken : w[2] = c
          \/ \E h \in hand[m] : c \in h.waiters
        BY <1>4, <2>1 DEF WaitInv, WaiterIsKept
    <2>3. CASE m = n
        BY <2>1, <2>2, <2>3
    <2>4. CASE m # n
        BY <2>1, <2>2, <2>4
    <2> QED BY Zenon, <2>3, <2>4
<1>5. WaiterIsKept'
    BY Zenon, <1>4 DEF WaiterIsKept
<1> QED BY Zenon, <1>1, <1>2, <1>3, <1>5 DEF WaitInv

\* A record is counted: the waiter of its number goes into the hand.
LEMMA TakeStep ==
    ASSUME WaitInv, NEW n \in Nodes, NEW e, NEW idx, NEW left, Take(n, e, idx, left),
           UNCHANGED <<setting, call, ch>>,
           Etcd => ~node[n].stopped, ~Etcd => ~node[n].closed
    PROVE  WaitInv'
<1> DEFINE ws == WaiterOf(n, e.seq)
<1>0. Nodes' = Nodes /\ (Etcd' <=> Etcd)
    BY Zenon DEF Nodes, Etcd
<1> DEFINE a  == e.kind = "app"
           k  == IF a THEN NextCommit(n, e) ELSE 0
           g  == [idx |-> idx, app |-> a, commit |-> k, waiters |-> {w[2] : w \in ws}]
           cm == IF a THEN [node[n].commit EXCEPT ![e.bucket] = k] ELSE node[n].commit
           hi == IF a THEN Append(node[n].hist, [idx |-> idx, call |-> e.call,
                                                 bucket |-> e.bucket, commit |-> k])
                 ELSE node[n].hist
           locked == [node[n] EXCEPT !.commit = cm, !.hist = hi, !.waiters = @ \ ws]
           next == IF Etcd THEN [locked EXCEPT !.lastApplied = idx, !.cursor = idx, !.left = left,
                                               !.since = @ + 1]
                   ELSE locked
<1>1. hand' = [hand EXCEPT ![n] = @ \cup {g}] /\ g.waiters = {w[2] : w \in ws}
    BY Zenon DEF Take
<1>2. node' = [node EXCEPT ![n] = next]
    BY Zenon DEF Take
<1> HIDE DEF g, cm, hi
<1>a. /\ locked = [f \in Fields |-> locked[f]]
      /\ locked.waiters = node[n].waiters \ ws /\ locked.taken = node[n].taken
      /\ locked.closed = node[n].closed /\ locked.stopped = node[n].stopped
    BY ZenonT(40) DEF WaitInv, Shape, NodeShape, Fields
<1> HIDE DEF locked, ws
<1>b. /\ next = [f \in Fields |-> next[f]]
      /\ next.waiters = node[n].waiters \ ws /\ next.taken = node[n].taken
      /\ next.closed = node[n].closed /\ next.stopped = node[n].stopped
    BY Zenon, <1>a DEF Fields
<1> HIDE DEF next
<1>3. NodeShape'
    BY Zenon, <1>0, <1>1, <1>2, <1>b DEF WaitInv, Shape, NodeShape
<1>4. Shape'
    BY Zenon, <1>3 DEF WaitInv, Shape, CallShape
<1>5. /\ \A m \in Nodes : m # n => node'[m] = node[m] /\ hand'[m] = hand[m]
      /\ node'[n].waiters = node[n].waiters \ ws /\ node'[n].taken = node[n].taken
      /\ node'[n].closed = node[n].closed /\ node'[n].stopped = node[n].stopped
    BY Zenon, <1>1, <1>2, <1>b DEF WaitInv, Shape, NodeShape
<1>6. Closing(n)'
    BY Zenon, <1>0, <1>5 DEF WaitInv, Closing
<1>7. ASSUME NEW c \in Calls,
             \/ \E w \in node[n].waiters \cup node[n].taken : w[2] = c
             \/ \E h \in hand[n] : c \in h.waiters
      PROVE  \/ \E w \in node'[n].waiters \cup node'[n].taken : w[2] = c
             \/ \E h \in hand'[n] : c \in h.waiters
    <2>1. hand'[n] = hand[n] \cup {g} /\ g.waiters = {w[2] : w \in ws}
        BY Zenon, <1>1 DEF WaitInv, Shape, NodeShape
    <2>2. CASE \E w \in ws : w[2] = c
        BY Zenon, <2>1, <2>2
    <2>3. CASE ~\E w \in ws : w[2] = c
        BY Zenon, <1>5, <1>7, <2>1, <2>3
    <2> QED BY Zenon, <2>2, <2>3
<1> QED BY Zenon, <1>4, <1>5, <1>6, <1>7, WaitMoves

\* The fields Closing speaks of, and the shape, survive the end of a Ready.
LEMMA EndReadyFacts ==
    ASSUME NEW nd, nd = [f \in Fields |-> nd[f]], NEW mf, NEW r, r = EndReady(nd, mf)
    PROVE  /\ r = [f \in Fields |-> r[f]]
           /\ r.closed = nd.closed /\ r.stopped = nd.stopped /\ r.left = nd.left
           /\ r.waiters = nd.waiters /\ r.taken = nd.taken
           /\ r.cursor = nd.cursor /\ r.lastApplied = nd.lastApplied /\ r.sentClosed = nd.sentClosed
           /\ r.hist = nd.hist /\ r.commit = nd.commit
BY Zenon DEF EndReady, Fields

LEMMA ToCommittedFacts ==
    ASSUME NEW nd, nd = [f \in Fields |-> nd[f]], NEW i, NEW r, r = ToCommittedCh(nd, i)
    PROVE  /\ r = [f \in Fields |-> r[f]]
           /\ r.closed = nd.closed /\ r.stopped = nd.stopped /\ r.left = nd.left
           /\ r.waiters = nd.waiters /\ r.taken = nd.taken
           /\ r.cursor = nd.cursor /\ r.lastApplied = nd.lastApplied
           /\ r.snap = nd.snap /\ r.pruned = nd.pruned
           /\ r.hist = nd.hist /\ r.commit = nd.commit
           /\ r.sentClosed = (nd.sentClosed \/ nd.stopped)
BY Zenon DEF ToCommittedCh, Fields

LEMMA SignalStep ==
    ASSUME WaitInv, NEW n \in Nodes, NEW fatal, Signal(n, fatal)
    PROVE  WaitInv'
<1>0. Nodes' = Nodes /\ (Etcd' <=> Etcd) /\ UNCHANGED <<setting, call>>
    BY Zenon DEF Nodes, Etcd, Signal
<1>1. PICK h \in hand[n], match \in Matches(n) :
           LET told == IF fatal THEN Nil ELSE [commit |-> h.commit, idx |-> h.idx]
               sent == IF h.app /\ ~fatal THEN ToCommittedCh(node[n], h.idx) ELSE node[n] IN
           /\ hand' = [hand EXCEPT ![n] = @ \ {h}]
           /\ ch' = [c \in Calls |-> IF c \in h.waiters THEN <<told>> ELSE ch[c]]
           /\ node' = [node EXCEPT ![n] =
                  IF Etcd /\ node[n].left = 0
                  THEN EndReady(sent, minFollowerMatchIndex(n, match)) ELSE sent]
    BY Zenon DEF Signal
<1> DEFINE sent == IF h.app /\ ~fatal THEN ToCommittedCh(node[n], h.idx) ELSE node[n]
           mf == minFollowerMatchIndex(n, match)
           new == IF Etcd /\ node[n].left = 0 THEN EndReady(sent, mf) ELSE sent
<1>2. /\ sent = [f \in Fields |-> sent[f]]
      /\ sent.closed = node[n].closed /\ sent.stopped = node[n].stopped
      /\ sent.waiters = node[n].waiters /\ sent.taken = node[n].taken
    BY ToCommittedFacts DEF WaitInv, Shape, NodeShape
<1> HIDE DEF sent, mf
<1>3. /\ new = [f \in Fields |-> new[f]]
      /\ new.closed = node[n].closed /\ new.stopped = node[n].stopped
      /\ new.waiters = node[n].waiters /\ new.taken = node[n].taken
    BY <1>2, EndReadyFacts
<1>4. node' = [node EXCEPT ![n] = new]
    BY Zenon, <1>1 DEF sent, mf
<1> HIDE DEF new
<1>5. /\ hand'[n] = hand[n] \ {h}
      /\ \A c \in Calls : /\ c \in h.waiters => ch'[c] # <<>>
                          /\ ch[c] # <<>> => ch'[c] # <<>>
    <2>1. hand'[n] = hand[n] \ {h}
        BY Zenon, <1>1 DEF WaitInv, Shape, NodeShape
    <2>2. PICK told : ch' = [c \in Calls |-> IF c \in h.waiters THEN <<told>> ELSE ch[c]]
        BY Zenon, <1>1
    <2>3. <<told>> # << >>
        BY Zenon
    <2> QED BY Zenon, <2>1, <2>2, <2>3
<1>6. NodeShape'
    <2>1. hand' = [hand EXCEPT ![n] = @ \ {h}]
        BY Zenon, <1>1
    <2> QED BY Zenon, <1>0, <2>1, <1>3, <1>4 DEF WaitInv, Shape, NodeShape
<1>7. CallShape'
    BY Zenon, <1>0, <1>1 DEF WaitInv, Shape, CallShape
<1>8. Closing(n)'
    BY Zenon, <1>0, <1>1, <1>3, <1>4, <1>6 DEF WaitInv, Closing, Shape, NodeShape
<1>9. \A m \in Nodes : m # n => node'[m] = node[m] /\ hand'[m] = hand[m]
    BY Zenon, <1>1, <1>4 DEF WaitInv, Shape, NodeShape
<1>10. node'[n].waiters = node[n].waiters /\ node'[n].taken = node[n].taken
    BY Zenon, <1>3, <1>4 DEF WaitInv, Shape, NodeShape
<1> QED BY Zenon, <1>0, <1>5, <1>6, <1>7, <1>8, <1>9, <1>10, WaitMoves DEF Shape

\* The rest of the ready loop and of the stub's goroutines.
LEMMA ApplyStep ==
    ASSUME WaitInv, NEW n \in Nodes, ApplyEntry(n) \/ StubApply(n)
    PROVE  WaitInv'
<1>0. Nodes' = Nodes /\ (Etcd' <=> Etcd) /\ UNCHANGED <<setting, call, ch>>
    BY Zenon DEF Nodes, Etcd, ApplyEntry, StubApply
<1>1. CASE StubApply(n)
    <2>1. PICK e \in flying :
             IF node[n].closed THEN UNCHANGED <<node, hand>> ELSE Take(n, e, e.seq, 0)
        BY Zenon, <1>1 DEF StubApply
    <2>2. CASE node[n].closed
        <3>1. UNCHANGED <<node, hand>>
            BY Zenon, <2>1, <2>2
        <3>2. Shape'
            BY Zenon, <1>0, <3>1 DEF WaitInv, Shape, NodeShape, CallShape
        <3> QED BY Zenon, <1>0, <3>1, <3>2, WaitStays
    <2>3. CASE ~node[n].closed
        <3>1. ~Etcd /\ Take(n, e, e.seq, 0)
            BY Zenon, <1>1, <2>1, <2>3 DEF StubApply
        <3> QED BY Zenon, <1>0, <2>3, <3>1, TakeStep
    <2> QED BY Zenon, <2>2, <2>3
<1>2. CASE ApplyEntry(n)
    <2> DEFINE next == node[n].cursor + 1
    <2>1. PICK left : IF log[next].kind = "conf" THEN ApplyConf(n, next, left)
                      ELSE Take(n, log[next], next, left)
        BY Zenon, <1>2 DEF ApplyEntry
    <2>2. Etcd /\ hand[n] = {} /\ ~node[n].stopped
        BY <1>2 DEF ApplyEntry, WaitInv, Closing
    <2>3. CASE log[next].kind = "conf"
        <3>1. PICK g : hand' = [hand EXCEPT ![n] = {g}]
            BY Zenon, <2>1, <2>3 DEF ApplyConf
        <3>2. node' = [node EXCEPT ![n].lastApplied = next, ![n].cursor = next, ![n].left = left,
                            ![n].since = @ + 1]
            BY Zenon, <2>1, <2>3 DEF ApplyConf
        <3>3. NodeShape'
            BY ZenonT(40), <1>0, <3>1, <3>2 DEF WaitInv, Shape, NodeShape, Fields
        <3>4. /\ \A m \in Nodes : m # n => node'[m] = node[m] /\ hand'[m] = hand[m]
              /\ node'[n].waiters = node[n].waiters /\ node'[n].taken = node[n].taken
              /\ node'[n].closed = node[n].closed /\ node'[n].stopped = node[n].stopped
            BY <3>1, <3>2 DEF WaitInv, Shape, NodeShape, Fields
        <3>5. Closing(n)'
            BY Zenon, <1>0, <2>2, <3>4 DEF WaitInv, Closing
        <3>6. Shape'
            BY Zenon, <1>0, <3>3 DEF WaitInv, Shape, CallShape
        <3> QED BY Zenon, <1>0, <2>2, <3>4, <3>5, <3>6, WaitMoves
    <2>4. CASE log[next].kind # "conf"
        <3>1. Take(n, log[next], next, left)
            BY Zenon, <2>1, <2>4
        <3> QED BY Zenon, <1>0, <2>2, <3>1, TakeStep
    <2> QED BY Zenon, <2>3, <2>4
<1> QED BY Zenon, <1>1, <1>2

\* Both halves of Close: the waiters are taken, then answered.
LEMMA CloseStep ==
    ASSUME WaitInv, NEW n \in Nodes, Close(n) \/ CloseWaiters(n)
    PROVE  WaitInv'
<1>0. Nodes' = Nodes /\ (Etcd' <=> Etcd) /\ UNCHANGED <<setting, call, hand>>
    BY Zenon DEF Nodes, Etcd, Close, CloseWaiters
<1>1. CASE Close(n)
    <2>1. /\ UNCHANGED ch /\ ~node[n].closed
          /\ node' = [node EXCEPT ![n].closed = TRUE, ![n].taken = node[n].waiters, ![n].waiters = {}]
        BY Zenon, <1>1 DEF Close
    <2>2. NodeShape' /\ CallShape'
        BY ZenonT(40), <1>0, <2>1 DEF WaitInv, Shape, NodeShape, CallShape, Fields
    <2>3. /\ \A m \in Nodes : m # n => node'[m] = node[m]
          /\ node'[n].waiters = {} /\ node'[n].taken = node[n].waiters
          /\ node'[n].closed = TRUE /\ node'[n].stopped = node[n].stopped
        BY <2>1 DEF WaitInv, Shape, NodeShape, Fields
    <2>4. Closing(n)' /\ node[n].taken = {}
        BY Zenon, <1>0, <2>1, <2>3 DEF WaitInv, Closing
    <2> QED BY Zenon, <1>0, <2>1, <2>2, <2>3, <2>4, WaitMoves DEF Shape
<1>2. CASE CloseWaiters(n)
    <2>1. /\ ch' = [c \in Calls |-> IF \E w \in node[n].taken : w[2] = c THEN <<Nil>> ELSE ch[c]]
          /\ node' = [node EXCEPT ![n].stopped = TRUE, ![n].taken = {}]
          /\ node[n].closed /\ (Etcd => hand[n] = {} /\ node[n].left = 0)
        BY Zenon, <1>2 DEF CloseWaiters
    <2>2. NodeShape' /\ CallShape'
        BY ZenonT(40), <1>0, <2>1 DEF WaitInv, Shape, NodeShape, CallShape, Fields
    <2>3. /\ \A m \in Nodes : m # n => node'[m] = node[m]
          /\ node'[n].waiters = node[n].waiters /\ node'[n].taken = {}
          /\ node'[n].closed = node[n].closed /\ node'[n].stopped = TRUE
          /\ node'[n].left = node[n].left
        BY Zenon, <2>1, NodeDomains DEF WaitInv, Shape
    <2>4. Closing(n)'
        BY Zenon, <1>0, <2>1, <2>3 DEF WaitInv, Closing
    <2>5. <<Nil>> # << >>
        BY Zenon
    <2>6. \A c \in Calls : /\ ch[c] # <<>> => ch'[c] # <<>>
                           /\ (\E w \in node[n].taken : w[2] = c) => ch'[c] # <<>>
        BY Zenon, <2>1, <2>5
    <2> QED BY Zenon, <1>0, <2>2, <2>3, <2>4, <2>6, WaitMoves DEF Shape
<1> QED BY <1>1, <1>2

\* A restart takes the node's calls with it.
LEMMA RestartStep ==
    ASSUME WaitInv, NEW n \in Nodes, Restart(n)
    PROVE  WaitInv'
<1>0. Nodes' = Nodes /\ (Etcd' <=> Etcd) /\ UNCHANGED <<setting, ch>>
    BY Zenon DEF Nodes, Etcd, Restart
<1>1. PICK last : node' = [node EXCEPT ![n] = NewShardRaftNode(node[n].snap, last)]
    BY Zenon DEF Restart
<1>2. /\ hand' = [hand EXCEPT ![n] = {}]
      /\ call' = [c \in Calls |-> IF call[c].node = n /\ call[c].pc \in {"entered", "waiting"}
                                  THEN [call[c] EXCEPT !.pc = "dead"] ELSE call[c]]
    BY Zenon DEF Restart
<1> DEFINE new == NewShardRaftNode(node[n].snap, last)
<1>3. /\ new = [f \in Fields |-> new[f]]
      /\ ~new.closed /\ ~new.stopped /\ new.waiters = {} /\ new.taken = {}
    BY Zenon DEF NewShardRaftNode, Fields
<1> HIDE DEF new
<1>4. NodeShape'
    BY Zenon, <1>0, <1>1, <1>2, <1>3 DEF WaitInv, Shape, NodeShape, new
<1>5. CallShape'
    BY Zenon, <1>0, <1>2 DEF WaitInv, Shape, CallShape
<1>6. /\ \A m \in Nodes : m # n => node'[m] = node[m] /\ hand'[m] = hand[m]
      /\ node'[n] = new /\ hand'[n] = {}
    BY Zenon, <1>1, <1>2 DEF WaitInv, Shape, NodeShape, new
<1>7. ASSUME NEW m \in Nodes PROVE Closing(m)'
    <2>1. CASE m = n
        BY Zenon, <1>0, <1>3, <1>6, <2>1 DEF Closing
    <2>2. CASE m # n
        BY Zenon, <1>0, <1>6, <2>2, ClosingStays DEF WaitInv
    <2> QED BY Zenon, <2>1, <2>2
<1>8. \A c \in Calls : call'[c].pc \in {"entered", "waiting"} =>
         call'[c] = call[c] /\ call[c].node # n
    BY Zenon, <1>2 DEF WaitInv, Shape, CallShape
<1>9. OnNodes' /\ WaiterIsKept'
    BY <1>0, <1>6, <1>8 DEF WaitInv, OnNodes, WaiterIsKept
<1> QED BY Zenon, <1>0, <1>4, <1>5, <1>7, <1>9 DEF WaitInv, Shape

\* A step of node n that leaves the fields its waiters depend on.
Leaves ==
    /\ NodeShape'
    /\ \A m \in Nodes : /\ node'[m].closed = node[m].closed
                        /\ node'[m].stopped = node[m].stopped
                        /\ node'[m].waiters = node[m].waiters
                        /\ node'[m].taken = node[m].taken
                        /\ node'[m].left = node[m].left

LEMMA QuietStep ==
    ASSUME WaitInv, NEW n \in Nodes,
           \/ Consume(n) \/ InstallSnapshot(n) \/ SetReplicationHandler(n)
           \/ \E c \in Calls : Refuse(c, n) \/ \E b \in Buckets : ProposeOnly(c, n, b)
    PROVE  WaitInv'
<1>0. Nodes' = Nodes /\ UNCHANGED <<setting, hand, ch>>
    BY Zenon DEF Nodes, Consume, InstallSnapshot, SetReplicationHandler, Refuse, ProposeOnly
<1>a. \/ \E x : node' = [node EXCEPT ![n].committed = x]
      \/ \E x : node' = [node EXCEPT ![n].cursor = x]
      \/ \E x : node' = [node EXCEPT ![n].handler = x]
      \/ \E x : node' = [node EXCEPT ![n].nextSeq = x]
      \/ node' = node
    BY Zenon DEF Consume, InstallSnapshot, SetReplicationHandler, Refuse, ProposeOnly
<1>1. Leaves
    <2>1. ASSUME NEW x, NEW f \in {"committed", "cursor", "handler", "nextSeq"},
                 node' = [node EXCEPT ![n][f] = x]
          PROVE  Leaves
        <3>1. \A m \in Nodes : m # n => node'[m] = node[m]
            BY Zenon, <2>1 DEF WaitInv, Shape, NodeShape
        <3>2. node'[n] = [node[n] EXCEPT ![f] = x]
            BY Zenon, <2>1 DEF WaitInv, Shape, NodeShape
        <3>3. /\ node'[n] = [g \in Fields |-> node'[n][g]]
              /\ \A g \in Fields : g # f => node'[n][g] = node[n][g]
            BY Zenon, <3>2 DEF WaitInv, Shape, NodeShape, Fields
        <3>4. NodeShape'
            BY ZenonT(40), <1>0, <2>1, <3>1, <3>3 DEF WaitInv, Shape, NodeShape
        <3> QED BY Zenon, <3>1, <3>3, <3>4 DEF Leaves, Fields
    <2>2. ASSUME node' = node
          PROVE  Leaves
        <3>1. NodeShape'
            BY <1>0, <2>2 DEF WaitInv, Shape, NodeShape, Fields
        <3>2. \A m \in Nodes : /\ node'[m].closed = node[m].closed
                               /\ node'[m].stopped = node[m].stopped
                               /\ node'[m].waiters = node[m].waiters
                               /\ node'[m].taken = node[m].taken
                               /\ node'[m].left = node[m].left
            BY Zenon, <2>2 DEF WaitInv, Shape, NodeShape, Fields
        <3> QED BY Zenon, <3>1, <3>2 DEF Leaves
    <2> QED BY Zenon, <1>a, <2>1, <2>2
<1>2. /\ CallShape'
      /\ \A d \in Calls : call'[d].pc \in {"entered", "waiting"} => call'[d] = call[d]
    <2>1. CASE UNCHANGED call
        BY Zenon, <1>0, <2>1 DEF WaitInv, Shape, CallShape
    <2>2. ASSUME NEW c \in Calls, Refuse(c, n) PROVE <1>2!:
        BY Zenon, <1>0, <2>2 DEF Refuse, WaitInv, Shape, CallShape
    <2>3. ASSUME NEW c \in Calls, NEW b \in Buckets, ProposeOnly(c, n, b) PROVE <1>2!:
        <3>1. call' = [call EXCEPT ![c].pc = "sent", ![c].node = n, ![c].bucket = b,
                                   ![c].seq = node[n].nextSeq + 1]
            BY Zenon, <2>3 DEF ProposeOnly
        <3> QED BY <1>0, <3>1 DEF WaitInv, Shape, CallShape
    <2> QED BY Zenon, <2>1, <2>2, <2>3 DEF Consume, InstallSnapshot, SetReplicationHandler
<1> QED BY Zenon, <1>0, <1>1, <1>2, WaitStays DEF Shape, Leaves

LEMMA WaitStep ==
    ASSUME WaitInv, [Next]_vars
    PROVE  WaitInv'
<1>1. ASSUME UNCHANGED <<setting, node, hand, call, ch>> PROVE WaitInv'
    <2>1. Shape'
        BY Zenon, <1>1 DEF WaitInv, Shape, NodeShape, CallShape, Nodes
    <2> QED BY Zenon, <1>1, <2>1, WaitStays
<1>2. CASE CommitEntry \/ (\E n \in Nodes : Elect(n) \/ Hear(n)) \/ UNCHANGED vars
    BY Zenon, <1>1, <1>2 DEF CommitEntry, Elect, Hear, vars
<1>3. ASSUME NEW n \in Nodes, NodeStep(n) PROVE WaitInv'
    BY Zenon, <1>3, ApplyStep, CloseStep, SignalStep DEF NodeStep
<1> QED BY Zenon, <1>2, <1>3, CallStep, EnterStep, QuietStep, RestartStep, CloseStep DEF Next

\* types.go ProposeAndWait: whatever elections, closes, restarts and cancellations
\* happen, a call that waits has its answer, or its waiter is registered, taken by
\* Close, or held by the goroutine that is going to signal it.
THEOREM WaitersKept == Spec => []WaiterIsKept
<1>1. WaitInv => WaiterIsKept
    BY Zenon DEF WaitInv
<1> QED BY <1>1, WaitInit, WaitStep, PTL DEF Spec

\* types.go Close: once it has returned nobody is left waiting on the node
\* without an answer, but for waiters in the hands of the stub's goroutines.
THEOREM CloseAnswers == Spec => []CloseAnswersAll
<1>1. WaitInv => CloseAnswersAll
    BY Zenon DEF WaitInv, WaiterIsKept, OnNodes, Closing, CloseAnswersAll
<1> QED BY <1>1, WaitInit, WaitStep, PTL DEF Spec

-----------------------------------------------------------------------------
(* The marks a node keeps, and the channel it closes.                      *)

\* A set of natural numbers that is not empty has a least element.
LEMMA MinOf ==
    ASSUME NEW T \in SUBSET Nat, T # {}
    PROVE  Min(T) \in T /\ \A y \in T : Min(T) <= y
<1> DEFINE R == OpToRel(<, Nat)
<1>1. IsWellFoundedOn(R, Nat)
    BY Zenon, NatLessThanWellFounded
<1>2. PICK x \in T : \A y \in T : <<y, x>> \notin R
    BY Zenon, <1>1, WFMin
<1>3. R = {ss \in Nat \X Nat : ss[1] < ss[2]}
    BY Zenon DEF OpToRel
<1> HIDE DEF R
<1>4. ASSUME NEW y \in T PROVE x <= y
    <2>1. <<y, x>> \notin {ss \in Nat \X Nat : ss[1] < ss[2]}
        BY Zenon, <1>2, <1>3
    <2> QED BY <2>1
<1> QED BY Zenon, <1>4 DEF Min

LogIsSeq == \E S : log \in Seq(S)

\* Marks of node n in order; while the ready loop has an entry in its hand it has
\* applied exactly what raft delivered, which is what a snapshot then covers.
Marked(n) ==
    /\ node[n].pruned \in Nat /\ node[n].snap \in Nat /\ node[n].cursor \in Nat
    /\ node[n].pruned <= node[n].snap /\ node[n].snap <= node[n].cursor
    /\ Etcd /\ hand[n] # {} => node[n].lastApplied = node[n].cursor

NoneLate(n) == Etcd => node[n].sentClosed = FALSE

MarkInv == WaitInv /\ LogIsSeq /\ \A n \in Nodes : Marked(n) /\ NoneLate(n)

LEMMA MatchNat ==
    ASSUME LogIsSeq, NEW n, NEW match \in Matches(n)
    PROVE  minFollowerMatchIndex(n, match) \in Nat
<1> DEFINE known == Range(match) \ {0}
<1>1. Len(log) \in Nat
    BY DEF LogIsSeq
<1>2. known \subseteq Nat
    BY <1>1 DEF Matches, Range
<1>3. CASE known = {}
    BY Zenon, <1>3 DEF minFollowerMatchIndex
<1>4. CASE known # {}
    <2>1. Min(known) \in Nat
        BY Zenon, <1>2, <1>4, MinOf
    <2> QED BY Zenon, <2>1, <1>4 DEF minFollowerMatchIndex
<1> QED BY Zenon, <1>3, <1>4

\* The end of a Ready keeps the marks in order.
LEMMA EndReadyMarks ==
    ASSUME NEW nd, nd = [f \in Fields |-> nd[f]], NEW mf \in Nat,
           nd.pruned \in Nat, nd.snap \in Nat, nd.cursor \in Nat,
           nd.pruned <= nd.snap, nd.snap <= nd.cursor, nd.lastApplied = nd.cursor,
           NEW r, r = EndReady(nd, mf)
    PROVE  /\ r.pruned \in Nat /\ r.snap \in Nat /\ r.pruned <= r.snap /\ r.snap <= nd.cursor
<1> DEFINE L == nd.cursor
           floor == IF mf > 0 THEN Min({mf, L}) ELSE L
           high == Max({nd.pruned, floor})
<1>1. floor \in Nat /\ floor <= L
    BY DEF Min
<1> HIDE DEF floor
<1>2. high \in Nat /\ high <= L
    BY <1>1 DEF Max
<1> HIDE DEF high
<1>3. r = nd \/ r = [nd EXCEPT !.pruned = high, !.snap = L, !.since = 0]
    BY Zenon DEF EndReady, high, floor
<1>4. ASSUME r = [nd EXCEPT !.pruned = high, !.snap = L, !.since = 0]
      PROVE  r.pruned = high /\ r.snap = L
    BY Zenon, <1>4 DEF Fields
<1> QED BY <1>2, <1>3, <1>4

LEMMA MarksStay ==
    ASSUME MarkInv, UNCHANGED setting,
           NEW n \in Nodes, hand'[n] = hand[n],
           node'[n].pruned = node[n].pruned, node'[n].snap = node[n].snap,
           node'[n].cursor = node[n].cursor, node'[n].lastApplied = node[n].lastApplied,
           node'[n].sentClosed = node[n].sentClosed
    PROVE  (Marked(n) /\ NoneLate(n))'
BY Zenon DEF MarkInv, Marked, NoneLate, Etcd

LEMMA SignalMarks ==
    ASSUME MarkInv, NEW n \in Nodes, NEW fatal, Signal(n, fatal)
    PROVE  (Marked(n) /\ NoneLate(n))'
<1>0. (Etcd' <=> Etcd) /\ NodeShape /\ node[n] = [f \in Fields |-> node[n][f]]
    BY Zenon DEF Etcd, Signal, MarkInv, WaitInv, Shape, NodeShape
<1>1. PICK h \in hand[n], match \in Matches(n) :
           LET sent == IF h.app /\ ~fatal THEN ToCommittedCh(node[n], h.idx) ELSE node[n] IN
           /\ hand' = [hand EXCEPT ![n] = @ \ {h}]
           /\ node' = [node EXCEPT ![n] =
                  IF Etcd /\ node[n].left = 0
                  THEN EndReady(sent, minFollowerMatchIndex(n, match)) ELSE sent]
    BY Zenon DEF Signal
<1> DEFINE sent == IF h.app /\ ~fatal THEN ToCommittedCh(node[n], h.idx) ELSE node[n]
           mf == minFollowerMatchIndex(n, match)
<1>2. mf \in Nat
    BY Zenon, MatchNat DEF MarkInv
<1>3. /\ sent = [f \in Fields |-> sent[f]]
      /\ sent.cursor = node[n].cursor /\ sent.lastApplied = node[n].lastApplied
      /\ sent.snap = node[n].snap /\ sent.pruned = node[n].pruned
    BY <1>0, ToCommittedFacts
<1>4. Etcd => ~node[n].stopped
    BY Zenon DEF MarkInv, WaitInv, Closing
<1>5. Etcd => sent.sentClosed = FALSE
    <2> SUFFICES ASSUME Etcd PROVE sent.sentClosed = FALSE
        BY Zenon
    <2>1. node[n].sentClosed = FALSE /\ ~node[n].stopped
        BY Zenon, <1>4 DEF MarkInv, NoneLate
    <2>2. ToCommittedCh(node[n], h.idx).sentClosed = (node[n].sentClosed \/ node[n].stopped)
        BY <1>0, ToCommittedFacts
    <2>3. CASE h.app /\ ~fatal
        BY <2>1, <2>2, <2>3, Zenon
    <2>4. CASE ~(h.app /\ ~fatal)
        BY Zenon, <2>1, <2>4
    <2> QED BY Zenon, <2>3, <2>4
<1> HIDE DEF sent, mf
<1>6. CASE Etcd /\ node[n].left = 0
    <2>1. node'[n] = EndReady(sent, mf)
        BY Zenon, <1>0, <1>1, <1>6 DEF sent, mf, NodeShape
    <2>2. /\ node'[n].cursor = node[n].cursor /\ node'[n].lastApplied = node[n].lastApplied
          /\ node'[n].sentClosed = FALSE
        BY <2>1, <1>3, <1>5, <1>6, EndReadyFacts
    <2>3. /\ node[n].lastApplied = node[n].cursor /\ node[n].cursor \in Nat
          /\ node[n].pruned \in Nat /\ node[n].snap \in Nat
          /\ node[n].pruned <= node[n].snap /\ node[n].snap <= node[n].cursor
        BY Zenon, <1>6 DEF MarkInv, Marked
    <2>4. /\ node'[n].pruned \in Nat /\ node'[n].snap \in Nat
          /\ node'[n].pruned <= node'[n].snap /\ node'[n].snap <= node[n].cursor
        BY <2>1, <2>3, <1>2, <1>3, EndReadyMarks
    <2> QED BY Zenon, <1>0, <2>2, <2>3, <2>4 DEF Marked, NoneLate
<1>7. CASE ~(Etcd /\ node[n].left = 0)
    <2>1. node'[n] = sent /\ hand'[n] \subseteq hand[n]
        BY Zenon, <1>0, <1>1, <1>7 DEF sent, NodeShape
    <2>2. Marked(n)'
        BY Zenon, <1>0, <1>3, <2>1 DEF MarkInv, Marked
    <2>3. NoneLate(n)'
        BY Zenon, <1>0, <1>5, <2>1 DEF NoneLate
    <2> QED BY Zenon, <2>2, <2>3
<1> QED BY Zenon, <1>6, <1>7

\* The ready loop takes an entry.
LEMMA ApplyMarks ==
    ASSUME MarkInv, NEW n \in Nodes, ApplyEntry(n) \/ StubApply(n)
    PROVE  (Marked(n) /\ NoneLate(n))'
<1>0. /\ UNCHANGED setting /\ (Etcd' <=> Etcd)
      /\ NodeShape /\ node[n] = [f \in Fields |-> node[n][f]]
      /\ Marked(n) /\ NoneLate(n)
    BY Zenon DEF Etcd, ApplyEntry, StubApply, MarkInv, WaitInv, Shape, NodeShape
<1> DEFINE next == node[n].cursor + 1
<1>1. next \in Nat /\ node[n].snap <= next
    BY <1>0 DEF Marked
<1>2. ASSUME NEW e, NEW left, Etcd, Take(n, e, next, left) PROVE (Marked(n) /\ NoneLate(n))'
    <2> DEFINE ws == WaiterOf(n, e.seq)
               a  == e.kind = "app"
               k  == IF a THEN NextCommit(n, e) ELSE 0
               cm == IF a THEN [node[n].commit EXCEPT ![e.bucket] = k] ELSE node[n].commit
               hi == IF a THEN Append(node[n].hist, [idx |-> next, call |-> e.call,
                                                     bucket |-> e.bucket, commit |-> k])
                     ELSE node[n].hist
               locked == [node[n] EXCEPT !.commit = cm, !.hist = hi, !.waiters = @ \ ws]
    <2>1. node' = [node EXCEPT ![n] = [locked EXCEPT !.lastApplied = next, !.cursor = next,
                                          !.left = left, !.since = @ + 1]]
        BY Zenon, <1>2 DEF Take
    <2> HIDE DEF cm, hi, ws
    <2>2. /\ locked = [f \in Fields |-> locked[f]]
          /\ locked.pruned = node[n].pruned /\ locked.snap = node[n].snap
          /\ locked.sentClosed = node[n].sentClosed
        BY Zenon, <1>0 DEF Fields
    <2> HIDE DEF locked
    <2>3. /\ node'[n].pruned = node[n].pruned /\ node'[n].snap = node[n].snap
          /\ node'[n].sentClosed = node[n].sentClosed
          /\ node'[n].lastApplied = next /\ node'[n].cursor = next
        BY Zenon, <1>0, <2>1, <2>2 DEF NodeShape, Fields
    <2> QED BY Zenon, <1>0, <1>1, <2>3 DEF Marked, NoneLate
<1>3. ASSUME NEW left, ApplyConf(n, next, left) PROVE (Marked(n) /\ NoneLate(n))'
    <2>1. node' = [node EXCEPT ![n].lastApplied = next, ![n].cursor = next, ![n].left = left,
                            ![n].since = @ + 1]
        BY Zenon, <1>3 DEF ApplyConf
    <2>2. /\ node'[n].pruned = node[n].pruned /\ node'[n].snap = node[n].snap
          /\ node'[n].sentClosed = node[n].sentClosed
          /\ node'[n].lastApplied = next /\ node'[n].cursor = next
        BY Zenon, <1>0, <2>1 DEF NodeShape, Fields
    <2> QED BY <1>0, <1>1, <2>2 DEF Marked, NoneLate
<1>4. ASSUME NEW e, ~Etcd, Take(n, e, e.seq, 0) PROVE (Marked(n) /\ NoneLate(n))'
    <2> DEFINE ws == WaiterOf(n, e.seq)
               a  == e.kind = "app"
               k  == IF a THEN NextCommit(n, e) ELSE 0
               cm == IF a THEN [node[n].commit EXCEPT ![e.bucket] = k] ELSE node[n].commit
               hi == IF a THEN Append(node[n].hist, [idx |-> e.seq, call |-> e.call,
                                                     bucket |-> e.bucket, commit |-> k])
                     ELSE node[n].hist
    <2>1. node' = [node EXCEPT ![n] = [node[n] EXCEPT !.commit = cm, !.hist = hi, !.waiters = @ \ ws]]
        BY Zenon, <1>4 DEF Take
    <2> HIDE DEF cm, hi, ws
    <2>2. /\ node'[n].pruned = node[n].pruned /\ node'[n].snap = node[n].snap
          /\ node'[n].cursor = node[n].cursor
        BY Zenon, <1>0, <2>1 DEF NodeShape, Fields
    <2> QED BY Zenon, <1>0, <1>4, <2>2 DEF Marked, NoneLate
<1>5. CASE ApplyEntry(n)
    <2>1. Etcd /\ \E left : IF log[next].kind = "conf" THEN ApplyConf(n, next, left)
                            ELSE Take(n, log[next], next, left)
        BY Zenon, <1>5 DEF ApplyEntry
    <2> QED BY Zenon, <2>1, <1>2, <1>3
<1>6. CASE StubApply(n)
    <2>1. ~Etcd /\ \E e \in flying :
             IF node[n].closed THEN UNCHANGED <<node, hand>> ELSE Take(n, e, e.seq, 0)
        BY Zenon, <1>6 DEF StubApply
    <2> QED BY Zenon, <2>1, <1>0, <1>4, MarksStay
<1> QED BY Zenon, <1>5, <1>6

\* A snapshot is installed, or the node starts again from its own.
LEMMA SnapMarks ==
    ASSUME MarkInv, NEW n \in Nodes, InstallSnapshot(n) \/ Restart(n)
    PROVE  (Marked(n) /\ NoneLate(n))'
<1>0. /\ UNCHANGED setting /\ (Etcd' <=> Etcd)
      /\ NodeShape /\ node[n] = [f \in Fields |-> node[n][f]]
      /\ Marked(n) /\ NoneLate(n)
    BY Zenon DEF Etcd, InstallSnapshot, Restart, MarkInv, WaitInv, Shape, NodeShape
<1>1. CASE InstallSnapshot(n)
    <2>1. PICK m \in Nodes : /\ node[m].snap > node[n].cursor
                             /\ node' = [node EXCEPT ![n].cursor = node[m].snap]
        BY Zenon, <1>1 DEF InstallSnapshot
    <2>2. /\ node'[n].pruned = node[n].pruned /\ node'[n].snap = node[n].snap
          /\ node'[n].sentClosed = node[n].sentClosed /\ node'[n].cursor = node[m].snap
        BY Zenon, <1>0, <2>1 DEF NodeShape, Fields
    <2>3. hand'[n] = {} /\ node[m].snap \in Nat
        BY Zenon, <1>1 DEF InstallSnapshot, MarkInv, Marked
    <2> QED BY <1>0, <2>1, <2>2, <2>3 DEF Marked, NoneLate
<1>2. CASE Restart(n)
    <2>1. PICK last : node' = [node EXCEPT ![n] = NewShardRaftNode(node[n].snap, last)]
        BY Zenon, <1>2 DEF Restart
    <2>2. /\ node'[n].pruned = 0 /\ node'[n].snap = node[n].snap
          /\ node'[n].sentClosed = FALSE /\ node'[n].cursor = node[n].snap
        BY Zenon, <1>0, <2>1 DEF NodeShape, NewShardRaftNode
    <2>3. hand'[n] = {}
        BY Zenon, <1>0, <1>2 DEF Restart, NodeShape
    <2> QED BY <1>0, <2>2, <2>3 DEF Marked, NoneLate
<1> QED BY <1>1, <1>2

\* What one node does leaves the others alone.
LEMMA Elsewhere ==
    ASSUME MarkInv, NEW n \in Nodes, NEW m \in Nodes, m # n,
           \/ NodeStep(n) \/ Consume(n) \/ InstallSnapshot(n) \/ SetReplicationHandler(n)
           \/ Restart(n) \/ Close(n)
           \/ \E c \in Calls : \/ Refuse(c, n)
                               \/ \E b \in Buckets : Enter(c, n, b) \/ ProposeOnly(c, n, b)
    PROVE  node'[m] = node[m] /\ hand'[m] = hand[m]
<1>0. NodeShape
    BY Zenon DEF MarkInv, WaitInv, Shape
<1>2. node'[m] = node[m] /\ hand'[m] = hand[m]
    <2>1. CASE NodeStep(n)
        <3>1. ASSUME NEW e, NEW i, NEW left, Take(n, e, i, left)
              PROVE  node'[m] = node[m] /\ hand'[m] = hand[m]
            <4>1. \E x : node' = [node EXCEPT ![n] = x]
                BY Zenon, <3>1 DEF Take
            <4>2. \E x : hand' = [hand EXCEPT ![n] = x]
                BY Zenon, <3>1 DEF Take
            <4> QED BY Zenon, <1>0, <4>1, <4>2 DEF NodeShape
        <3>2. ASSUME NEW i, NEW left, ApplyConf(n, i, left)
              PROVE  node'[m] = node[m] /\ hand'[m] = hand[m]
            BY Zenon, <1>0, <3>2 DEF ApplyConf, NodeShape
        <3>3. CASE ApplyEntry(n)
            BY Zenon, <3>1, <3>2, <3>3 DEF ApplyEntry
        <3>4. CASE StubApply(n)
            BY Zenon, <3>1, <3>4 DEF StubApply
        <3>5. CASE CloseWaiters(n)
            BY Zenon, <1>0, <3>5 DEF CloseWaiters, NodeShape
        <3>6. ASSUME NEW fatal, Signal(n, fatal)
              PROVE  node'[m] = node[m] /\ hand'[m] = hand[m]
            <4>1. \E x : node' = [node EXCEPT ![n] = x]
                BY Zenon, <3>6 DEF Signal
            <4>2. \E x : hand' = [hand EXCEPT ![n] = x]
                BY Zenon, <3>6 DEF Signal
            <4> QED BY Zenon, <1>0, <4>1, <4>2 DEF NodeShape
        <3> QED BY Zenon, <2>1, <3>3, <3>4, <3>5, <3>6 DEF NodeStep
    <2>2. CASE Restart(n)
        BY Zenon, <1>0, <2>2 DEF Restart, NodeShape
    <2>3. CASE \/ Consume(n) \/ InstallSnapshot(n) \/ SetReplicationHandler(n) \/ Close(n)
               \/ \E c \in Calls : \/ Refuse(c, n)
                                   \/ \E b \in Buckets : Enter(c, n, b) \/ ProposeOnly(c, n, b)
        BY ZenonT(40), <1>0, <2>3 DEF Consume, InstallSnapshot, SetReplicationHandler, Close, Refuse, Enter,
                          ProposeOnly, NodeShape
    <2> QED BY Zenon, <2>1, <2>2, <2>3
<1> QED BY Zenon, <1>2

\* The steps of node n that touch neither its marks nor its counters.
LEMMA UnmarkedStep ==
    ASSUME MarkInv, NEW n \in Nodes,
           \/ CloseWaiters(n) \/ Consume(n) \/ SetReplicationHandler(n) \/ Close(n)
           \/ \E c \in Calls : \/ Refuse(c, n)
                               \/ \E b \in Buckets : Enter(c, n, b) \/ ProposeOnly(c, n, b)
    PROVE  /\ UNCHANGED <<setting, hand>>
           /\ node'[n].pruned = node[n].pruned /\ node'[n].snap = node[n].snap
           /\ node'[n].cursor = node[n].cursor /\ node'[n].lastApplied = node[n].lastApplied
           /\ node'[n].sentClosed = node[n].sentClosed
           /\ node'[n].hist = node[n].hist /\ node'[n].commit = node[n].commit
<1>0. NodeShape /\ node[n] = [f \in Fields |-> node[n][f]]
    BY Zenon DEF MarkInv, WaitInv, Shape, NodeShape
<1>1. UNCHANGED <<setting, hand>>
    BY ZenonT(40) DEF CloseWaiters, Consume, SetReplicationHandler, Close, Refuse, Enter, ProposeOnly
<1> DEFINE Kept == /\ node'[n].pruned = node[n].pruned /\ node'[n].snap = node[n].snap
                   /\ node'[n].cursor = node[n].cursor
                   /\ node'[n].lastApplied = node[n].lastApplied
                   /\ node'[n].sentClosed = node[n].sentClosed
                   /\ node'[n].hist = node[n].hist /\ node'[n].commit = node[n].commit
<1>2. CASE CloseWaiters(n) \/ Consume(n) \/ SetReplicationHandler(n) \/ Close(n)
    <2>1. ASSUME CloseWaiters(n) PROVE Kept
        BY Zenon, <1>0, <2>1 DEF CloseWaiters, NodeShape, Fields
    <2>2. ASSUME Consume(n) PROVE Kept
        BY Zenon, <1>0, <2>2 DEF Consume, NodeShape, Fields
    <2>3. ASSUME SetReplicationHandler(n) PROVE Kept
        BY Zenon, <1>0, <2>3 DEF SetReplicationHandler, NodeShape, Fields
    <2>4. ASSUME Close(n) PROVE Kept
        BY Zenon, <1>0, <2>4 DEF Close, NodeShape, Fields
    <2>5. Kept
        BY Zenon, <1>2, <2>1, <2>2, <2>3, <2>4
    <2> QED BY Zenon, <1>1, <2>5
<1>3. ASSUME NEW c \in Calls, Refuse(c, n) PROVE Kept
    BY Zenon, <1>0, <1>3 DEF Refuse, NodeShape, Fields
<1>4. ASSUME NEW c \in Calls, NEW b \in Buckets, Enter(c, n, b) PROVE Kept
    <2>1. CASE node[n].closed
        BY <1>0, <1>4, <2>1 DEF Enter, NodeShape, Fields
    <2>2. CASE ~node[n].closed
        <3> DEFINE seq == node[n].nextSeq + 1
                   ws == node[n].waiters \cup {<<seq, c>>}
        <3>1. node' = [node EXCEPT ![n] = [node[n] EXCEPT !.nextSeq = seq,
                                                          !.waiters = ws]]
            BY Zenon, <1>0, <1>4, <2>2 DEF Enter, NodeShape
        <3> HIDE DEF seq, ws
        <3> QED BY Zenon, <1>0, <3>1 DEF NodeShape, Fields
    <2> QED BY Zenon, <2>1, <2>2
<1>5. ASSUME NEW c \in Calls, NEW b \in Buckets, ProposeOnly(c, n, b) PROVE Kept
    BY Zenon, <1>0, <1>5 DEF ProposeOnly, NodeShape, Fields
<1>6. CASE \E c \in Calls : \/ Refuse(c, n)
                            \/ \E b \in Buckets : Enter(c, n, b) \/ ProposeOnly(c, n, b)
    <2>1. Kept
        BY Zenon, <1>3, <1>4, <1>5, <1>6
    <2> QED BY <1>1, <2>1
<1> QED BY Zenon, <1>2, <1>6

\* The setting is fixed, and only raft's commit extends the log.
LEMMA LogGrows ==
    ASSUME [Next]_vars
    PROVE  setting' = setting /\ (log' = log \/ \E e : log' = Append(log, e))
<1>1. ASSUME CommitEntry PROVE setting' = setting /\ \E e : log' = Append(log, e)
    BY Zenon, <1>1 DEF CommitEntry
<1>2. ASSUME NEW n \in Nodes, Elect(n) \/ Hear(n) \/ Consume(n) \/ InstallSnapshot(n)
             \/ SetReplicationHandler(n) \/ Restart(n) \/ Close(n)
      PROVE  setting' = setting /\ log' = log
    BY Zenon, <1>2 DEF Elect, Hear, Consume, InstallSnapshot, SetReplicationHandler, Restart, Close
<1>3. ASSUME NEW n \in Nodes, NodeStep(n) PROVE setting' = setting /\ log' = log
    BY Zenon, <1>3 DEF NodeStep, ApplyEntry, StubApply, CloseWaiters, Signal
<1>4. ASSUME NEW n \in Nodes, NEW c \in Calls, NEW b \in Buckets,
             Refuse(c, n) \/ Enter(c, n, b) \/ ProposeOnly(c, n, b)
      PROVE  setting' = setting /\ log' = log
    BY Zenon, <1>4 DEF Refuse, Enter, ProposeOnly
<1>5. ASSUME NEW n \in Nodes, NEW c \in Calls, Refuse(c, n)
      PROVE  setting' = setting /\ log' = log
    BY Zenon, <1>5 DEF Refuse
<1>6. ASSUME NEW c \in Calls, Propose(c) \/ Return(c) \/ Cancel(c)
      PROVE  setting' = setting /\ log' = log
    BY Zenon, <1>6 DEF Propose, Return, Cancel
<1>7. CASE UNCHANGED vars
    BY Zenon, <1>7 DEF vars
<1> QED BY Zenon, <1>1, <1>2, <1>3, <1>4, <1>5, <1>6, <1>7 DEF Next

LEMMA MarkStep ==
    ASSUME MarkInv, [Next]_vars
    PROVE  MarkInv'
<1>1. WaitInv' /\ UNCHANGED setting /\ Nodes' = Nodes
    <2>1. WaitInv'
        BY Zenon, WaitStep DEF MarkInv
    <2>2. UNCHANGED setting
        BY Zenon, LogGrows
    <2> QED BY Zenon, <2>1, <2>2 DEF Nodes
<1>2. LogIsSeq'
    <2>1. CASE UNCHANGED log
        BY Zenon, <2>1 DEF MarkInv, LogIsSeq
    <2>2. ASSUME NEW e, log' = Append(log, e) PROVE LogIsSeq'
        <3>1. PICK S : log \in Seq(S)
            BY Zenon DEF MarkInv, LogIsSeq
        <3>2. Append(log, e) \in Seq(S \cup {e})
            BY <3>1
        <3> QED BY Zenon, <2>2, <3>2 DEF LogIsSeq
    <2> QED BY Zenon, <2>1, <2>2, LogGrows
<1>3. ASSUME NEW m \in Nodes PROVE (Marked(m) /\ NoneLate(m))'
    <2>1. CASE UNCHANGED <<node, hand>>
        BY Zenon, <1>1, <2>1, MarksStay
    <2>2. ASSUME NEW n \in Nodes,
               \/ NodeStep(n) \/ Consume(n) \/ InstallSnapshot(n) \/ SetReplicationHandler(n)
               \/ Restart(n) \/ Close(n)
               \/ \E c \in Calls : \/ Refuse(c, n)
                                   \/ \E b \in Buckets : Enter(c, n, b) \/ ProposeOnly(c, n, b)
          PROVE (Marked(m) /\ NoneLate(m))'
        <3>1. CASE m # n
            <4>1. node'[m] = node[m] /\ hand'[m] = hand[m]
                BY Zenon, <2>2, <3>1, Elsewhere
            <4> QED BY Zenon, <1>1, <4>1, MarksStay
        <3>2. CASE m = n
            <4>1. CASE \/ CloseWaiters(n) \/ Consume(n) \/ SetReplicationHandler(n) \/ Close(n)
                       \/ \E c \in Calls : \/ Refuse(c, n)
                                           \/ \E b \in Buckets : Enter(c, n, b) \/ ProposeOnly(c, n, b)
                BY Zenon, <1>1, <3>2, <4>1, UnmarkedStep, MarksStay
            <4> QED BY Zenon, <2>2, <3>2, <4>1, SignalMarks, ApplyMarks, SnapMarks DEF NodeStep
        <3> QED BY Zenon, <3>1, <3>2
    <2>3. CASE \/ CommitEntry \/ UNCHANGED vars \/ (\E n \in Nodes : Elect(n) \/ Hear(n))
               \/ \E c \in Calls : Propose(c) \/ Return(c) \/ Cancel(c)
        BY Zenon, <2>1, <2>3 DEF CommitEntry, vars, Elect, Hear, Propose, Return, Cancel
    <2> QED BY Zenon, <2>2, <2>3 DEF Next
<1> QED BY Zenon, <1>1, <1>2, <1>3 DEF MarkInv

LEMMA MarkInit == Init => MarkInv
<1> SUFFICES ASSUME Init PROVE MarkInv
    OBVIOUS
<1>1. LogIsSeq
    <2>1. log = <<Conf>> \/ log = <<>>
        BY Zenon DEF Init
    <2>2. <<Conf>> \in Seq({Conf}) /\ <<>> \in Seq({Conf})
        <3>1. ASSUME NEW x PROVE <<x>> \in Seq({x}) /\ <<>> \in Seq({x})
            OBVIOUS
        <3> QED BY Zenon, <3>1
    <2> QED BY Zenon, <2>1, <2>2 DEF LogIsSeq
<1>2. ASSUME NEW n \in Nodes PROVE Marked(n) /\ NoneLate(n)
    BY DEF Init, Marked, NoneLate, NewShardRaftNode
<1> QED BY Zenon, <1>1, <1>2, WaitInit DEF MarkInv

\* types.go Close and the ready loop: with the etcd engine committedCh is closed only
\* when no entry is in anybody's hand any more, so nothing is sent on it afterwards.
THEOREM EtcdClosesLast == Spec => []NoSendOnClosed
<1>1. MarkInv => NoSendOnClosed
    BY Zenon DEF MarkInv, NoneLate, NoSendOnClosed
<1> QED BY <1>1, MarkInit, MarkStep, PTL DEF Spec

\* types.go, the snapshot at the end of processReady: what is pruned is behind the
\* snapshot, whatever the followers report, and the snapshot is behind what raft
\* has delivered, through restarts and installed snapshots.
THEOREM SnapshotCoversPruned == Spec => []PrunedBehindSnapshot
<1>1. MarkInv => PrunedBehindSnapshot
    BY Zenon DEF MarkInv, Marked, PrunedBehindSnapshot
<1> QED BY <1>1, MarkInit, MarkStep, PTL DEF Spec

-----------------------------------------------------------------------------
(* Commit indices *)

IsSeq(s) == \E S : s \in Seq(S)

\* Every record on its way names a bucket.
Addressed ==
    /\ \A c \in Calls : call[c].pc = "entered" => call[c].bucket \in Buckets
    /\ \A e \in flying : e.kind = "app" => e.bucket \in Buckets
    /\ \A i \in DOMAIN log : log[i].kind = "app" => log[i].bucket \in Buckets

\* What node n has counted, and its counters.
Ledger(n) ==
    /\ IsSeq(node[n].hist) /\ node[n].commit \in [Buckets -> Nat]
    /\ \A h \in Range(node[n].hist) : h.bucket \in Buckets /\ h.commit \in Nat

Dense(n, b) ==
    LET hist == node[n].hist
        of == {i \in DOMAIN hist : hist[i].bucket = b} IN
    /\ {hist[i].commit : i \in of} = 1..node[n].commit[b]
    /\ \A i, j \in of : i < j => hist[i].commit < hist[j].commit

\* The log indices that node n has counted for bucket b.
Held(n, b) == {h.idx : h \in {g \in Range(node[n].hist) : g.bucket = b}}

\* Counters are ranks among the log indices counted.
Ranked(n) ==
    /\ \A h \in Range(node[n].hist) :
           /\ h.idx \in 1..node[n].cursor /\ h.idx \in DOMAIN log
           /\ log[h.idx].kind = "app" /\ log[h.idx].bucket = h.bucket /\ log[h.idx].call = h.call
           /\ h.commit = Cardinality({k \in Held(n, h.bucket) : k <= h.idx})
    /\ \A b \in Buckets : node[n].commit[b] = Cardinality(Held(n, b))

CommitInv ==
    /\ MarkInv /\ Addressed
    /\ \A n \in Nodes : Ledger(n) /\ (\A b \in Buckets : Dense(n, b)) /\ (Etcd => Ranked(n))

LEMMA AppendFacts ==
    ASSUME NEW s, IsSeq(s), NEW e
    PROVE  /\ IsSeq(Append(s, e))
           /\ Len(s) \in Nat /\ DOMAIN s = 1..Len(s) /\ DOMAIN Append(s, e) = 1..(Len(s) + 1)
           /\ \A i \in 1..Len(s) : Append(s, e)[i] = s[i]
           /\ Append(s, e)[Len(s) + 1] = e
           /\ Range(Append(s, e)) = Range(s) \cup {e}
<1>1. PICK S : s \in Seq(S)
    BY Zenon DEF IsSeq
<1>2. s \in Seq(S \cup {e}) /\ Append(s, e) \in Seq(S \cup {e})
    BY <1>1
<1>3. /\ Len(s) \in Nat /\ DOMAIN s = 1..Len(s) /\ DOMAIN Append(s, e) = 1..(Len(s) + 1)
      /\ \A i \in 1..Len(s) : Append(s, e)[i] = s[i]
      /\ Append(s, e)[Len(s) + 1] = e
    BY <1>2
<1>4. Range(Append(s, e)) = Range(s) \cup {e}
    <2>1. \A i \in 1..(Len(s) + 1) : i \in 1..Len(s) \/ i = Len(s) + 1
        BY <1>3
    <2>2. Len(s) + 1 \in 1..(Len(s) + 1) /\ 1..Len(s) \subseteq 1..(Len(s) + 1)
        BY <1>3
    <2> QED BY Zenon, <1>3, <2>1, <2>2 DEF Range
<1>5. IsSeq(Append(s, e))
    BY Zenon, <1>2 DEF IsSeq
<1> QED BY Zenon, <1>3, <1>4, <1>5

\* The three things that can happen to the counters of a node.
Keeps(n) ==
    /\ node'[n].hist = node[n].hist /\ node'[n].commit = node[n].commit
    /\ Etcd => node'[n].cursor \in Nat /\ node'[n].cursor >= node[n].cursor
Resets(n) == node'[n].hist = <<>> /\ node'[n].commit = [b \in Buckets |-> 0]
Counts(n, e, idx) ==
    /\ e.kind = "app"
    /\ node'[n].commit = [node[n].commit EXCEPT ![e.bucket] = NextCommit(n, e)]
    /\ node'[n].hist = Append(node[n].hist, [idx |-> idx, call |-> e.call, bucket |-> e.bucket,
                                              commit |-> NextCommit(n, e)])
    /\ Etcd => /\ idx = node[n].cursor + 1 /\ node'[n].cursor = idx
               /\ idx \in DOMAIN log /\ e = log[idx]
    /\ ~Etcd => e \in flying

LEMMA TakeCounts ==
    ASSUME MarkInv, NEW n \in Nodes, NEW e, NEW idx, NEW left, Take(n, e, idx, left),
           Etcd => /\ idx = node[n].cursor + 1 /\ idx \in DOMAIN log /\ e = log[idx],
           ~Etcd => e \in flying
    PROVE  Keeps(n) \/ Counts(n, e, idx)
<1>0. /\ NodeShape /\ node[n] = [f \in Fields |-> node[n][f]]
      /\ node[n].cursor \in Nat
    BY Zenon DEF MarkInv, WaitInv, Shape, NodeShape, Marked
<1> DEFINE ws == WaiterOf(n, e.seq)
           a  == e.kind = "app"
           k  == IF a THEN NextCommit(n, e) ELSE 0
           cm == IF a THEN [node[n].commit EXCEPT ![e.bucket] = k] ELSE node[n].commit
           hi == IF a THEN Append(node[n].hist, [idx |-> idx, call |-> e.call,
                                                 bucket |-> e.bucket, commit |-> k])
                 ELSE node[n].hist
           locked == [node[n] EXCEPT !.commit = cm, !.hist = hi, !.waiters = @ \ ws]
<1>1. node' = [node EXCEPT ![n] =
          IF Etcd THEN [locked EXCEPT !.lastApplied = idx, !.cursor = idx, !.left = left, !.since = @ + 1]
          ELSE locked]
    BY Zenon DEF Take
<1>2. /\ a => cm = [node[n].commit EXCEPT ![e.bucket] = NextCommit(n, e)]
      /\ a => hi = Append(node[n].hist, [idx |-> idx, call |-> e.call, bucket |-> e.bucket,
                                         commit |-> NextCommit(n, e)])
      /\ ~a => cm = node[n].commit /\ hi = node[n].hist
    BY Zenon
<1> HIDE DEF cm, hi, ws, k
<1>3. /\ locked = [f \in Fields |-> locked[f]]
      /\ locked.commit = cm /\ locked.hist = hi /\ locked.cursor = node[n].cursor
    BY Zenon, <1>0 DEF Fields
<1> HIDE DEF locked
<1>4. /\ node'[n].commit = cm /\ node'[n].hist = hi
      /\ Etcd => node'[n].cursor = idx
    <2>1. CASE Etcd
        BY Zenon, <1>0, <1>1, <1>3, <2>1 DEF NodeShape, Fields
    <2>2. CASE ~Etcd
        BY Zenon, <1>0, <1>1, <1>3, <2>2 DEF NodeShape
    <2> QED BY Zenon, <2>1, <2>2
<1>5. CASE a
    BY Zenon, <1>2, <1>4, <1>5 DEF Counts
<1>6. CASE ~a
    BY <1>0, <1>2, <1>4, <1>6 DEF Keeps
<1> QED BY Zenon, <1>5, <1>6

LEMMA CounterCases ==
    ASSUME MarkInv, [Next]_vars, NEW n \in Nodes
    PROVE  Keeps(n) \/ Resets(n) \/ \E e, idx : Counts(n, e, idx)
<1>0. /\ NodeShape /\ node[n] = [f \in Fields |-> node[n][f]]
      /\ node[n].cursor \in Nat /\ LogIsSeq
    BY Zenon DEF MarkInv, WaitInv, Shape, NodeShape, Marked
<1>1. ASSUME node'[n] = node[n] PROVE Keeps(n)
    BY <1>0, <1>1 DEF Keeps
<1>2. CASE ApplyEntry(n)
    <2> DEFINE next == node[n].cursor + 1
    <2>1. PICK left : /\ Etcd /\ next <= Len(log)
                      /\ IF log[next].kind = "conf" THEN ApplyConf(n, next, left)
                         ELSE Take(n, log[next], next, left)
        BY Zenon, <1>2 DEF ApplyEntry
    <2>2. next \in DOMAIN log
        BY <1>0, <2>1 DEF LogIsSeq
    <2>3. ASSUME ApplyConf(n, next, left) PROVE Keeps(n)
        <3>1. /\ node'[n].hist = node[n].hist /\ node'[n].commit = node[n].commit
              /\ node'[n].cursor = next
            BY Zenon, <1>0, <2>3 DEF ApplyConf, NodeShape, Fields
        <3> QED BY <1>0, <3>1 DEF Keeps
    <2> HIDE DEF next
    <2>4. next = node[n].cursor + 1
        BY Zenon DEF next
    <2> QED BY Zenon, <2>1, <2>2, <2>3, <2>4, TakeCounts
<1>3. CASE StubApply(n)
    <2>1. ~Etcd /\ \E e \in flying :
             IF node[n].closed THEN UNCHANGED <<node, hand>> ELSE Take(n, e, e.seq, 0)
        BY Zenon, <1>3 DEF StubApply
    <2> QED BY Zenon, <1>1, <2>1, TakeCounts
<1>4. ASSUME NEW fatal, Signal(n, fatal) PROVE Keeps(n)
    <2>1. PICK h \in hand[n], match \in Matches(n) :
           LET sent == IF h.app /\ ~fatal THEN ToCommittedCh(node[n], h.idx) ELSE node[n] IN
           node' = [node EXCEPT ![n] =
                  IF Etcd /\ node[n].left = 0
                  THEN EndReady(sent, minFollowerMatchIndex(n, match)) ELSE sent]
        BY Zenon, <1>4 DEF Signal
    <2> DEFINE sent == IF h.app /\ ~fatal THEN ToCommittedCh(node[n], h.idx) ELSE node[n]
               mf == minFollowerMatchIndex(n, match)
    <2>2. /\ sent = [f \in Fields |-> sent[f]]
          /\ sent.cursor = node[n].cursor /\ sent.hist = node[n].hist /\ sent.commit = node[n].commit
        BY <1>0, ToCommittedFacts
    <2>3. node'[n] = EndReady(sent, mf) \/ node'[n] = sent
        BY Zenon, <1>0, <2>1 DEF NodeShape
    <2> HIDE DEF sent, mf
    <2>4. /\ EndReady(sent, mf).cursor = sent.cursor
          /\ EndReady(sent, mf).hist = sent.hist /\ EndReady(sent, mf).commit = sent.commit
        BY <2>2, EndReadyFacts
    <2> QED BY <1>0, <2>2, <2>3, <2>4 DEF Keeps
<1>5. CASE Restart(n)
    BY <1>0, <1>5 DEF Restart, NewShardRaftNode, Resets, NodeShape
<1>6. CASE InstallSnapshot(n)
    <2>1. PICK m \in Nodes : node[m].snap > node[n].cursor
                             /\ node' = [node EXCEPT ![n].cursor = node[m].snap]
        BY Zenon, <1>6 DEF InstallSnapshot
    <2>2. node[m].snap \in Nat
        BY Zenon DEF MarkInv, Marked
    <2>3. /\ node'[n].hist = node[n].hist /\ node'[n].commit = node[n].commit
          /\ node'[n].cursor = node[m].snap
        BY Zenon, <1>0, <2>1 DEF NodeShape, Fields
    <2> QED BY <1>0, <2>1, <2>2, <2>3 DEF Keeps
<1>7. CASE \/ CloseWaiters(n) \/ Consume(n) \/ SetReplicationHandler(n) \/ Close(n)
           \/ \E c \in Calls : \/ Refuse(c, n)
                               \/ \E b \in Buckets : Enter(c, n, b) \/ ProposeOnly(c, n, b)
    BY <1>0, <1>7, UnmarkedStep DEF Keeps
<1>8. ASSUME NEW m \in Nodes, m # n,
           \/ NodeStep(m) \/ Consume(m) \/ InstallSnapshot(m) \/ SetReplicationHandler(m)
           \/ Restart(m) \/ Close(m)
           \/ \E c \in Calls : \/ Refuse(c, m)
                               \/ \E b \in Buckets : Enter(c, m, b) \/ ProposeOnly(c, m, b)
      PROVE Keeps(n)
    BY Zenon, <1>1, <1>8, Elsewhere
<1>9. CASE \/ CommitEntry \/ UNCHANGED vars \/ (\E m \in Nodes : Elect(m) \/ Hear(m))
           \/ \E c \in Calls : Propose(c) \/ Return(c) \/ Cancel(c)
    BY Zenon, <1>1, <1>9 DEF CommitEntry, vars, Elect, Hear, Propose, Return, Cancel
<1>10. CASE NodeStep(n)
    BY Zenon, <1>2, <1>3, <1>4, <1>7, <1>10 DEF NodeStep
<1> QED BY Zenon, <1>5, <1>6, <1>7, <1>8, <1>9, <1>10 DEF Next

\* The values of one position more.
LEMMA OneMore ==
    ASSUME NEW S, NEW T, NEW last, T = S \cup {last}, NEW f, NEW g, NEW k,
           \A i \in S : f[i].commit = g[i].commit, f[last].commit = k
    PROVE  {f[i].commit : i \in T} = {g[i].commit : i \in S} \cup {k}
OBVIOUS

LEMMA DenseAs ==
    ASSUME NEW n, NEW b, NEW t, node'[n].hist = t,
           NEW of, of = {i \in DOMAIN t : t[i].bucket = b},
           {t[i].commit : i \in of} = 1..node'[n].commit[b],
           \A i, j \in of : i < j => t[i].commit < t[j].commit
    PROVE  Dense(n, b)'
BY DEF Dense

LEMMA LedgerStep ==
    ASSUME CommitInv, NEW n \in Nodes,
           Keeps(n) \/ Resets(n) \/ \E e, idx : Counts(n, e, idx)
    PROVE  Ledger(n)' /\ \A b \in Buckets : Dense(n, b)'
<1>0. Ledger(n) /\ \A b \in Buckets : Dense(n, b)
    BY Zenon DEF CommitInv
<1>1. CASE Keeps(n)
    BY <1>0, <1>1 DEF Ledger, Dense, Keeps
<1>2. CASE Resets(n)
    <2>1. IsSeq(<<>>) /\ DOMAIN <<>> = {}
        BY DEF IsSeq
    <2>2. Ledger(n)'
        BY <1>2, <2>1 DEF Resets, Ledger, Range
    <2>3. \A b \in Buckets : Dense(n, b)'
        BY <1>2, <2>1 DEF Resets, Dense
    <2> QED BY Zenon, <2>2, <2>3
<1>3. ASSUME NEW e, NEW idx, Counts(n, e, idx)
      PROVE  Ledger(n)' /\ \A b \in Buckets : Dense(n, b)'
    <2> DEFINE s == node[n].hist
               B == e.bucket
               k == node[n].commit[B] + 1
               rec == [idx |-> idx, call |-> e.call, bucket |-> B, commit |-> k]
    <2>1. B \in Buckets /\ k \in Nat /\ k = NextCommit(n, e)
        BY <1>0, <1>3 DEF Counts, CommitInv, Addressed, Ledger, NextCommit
    <2>2. node'[n].hist = Append(s, rec) /\ node'[n].commit = [node[n].commit EXCEPT ![B] = k]
        BY Zenon, <1>3, <2>1 DEF Counts
    <2>3. /\ IsSeq(Append(s, rec)) /\ Range(Append(s, rec)) = Range(s) \cup {rec}
          /\ Len(s) \in Nat /\ DOMAIN s = 1..Len(s) /\ DOMAIN Append(s, rec) = 1..(Len(s) + 1)
          /\ \A i \in 1..Len(s) : Append(s, rec)[i] = s[i]
          /\ Append(s, rec)[Len(s) + 1] = rec
        BY <1>0, AppendFacts DEF Ledger
    <2>4. rec.bucket = B /\ rec.commit = k
        BY Zenon
    <2>5. /\ node'[n].commit \in [Buckets -> Nat] /\ node'[n].commit[B] = k
          /\ \A b \in Buckets : b # B => node'[n].commit[b] = node[n].commit[b]
        BY Zenon, <1>0, <2>1, <2>2 DEF Ledger
    <2> HIDE DEF rec
    <2>6. Ledger(n)'
        BY <1>0, <2>1, <2>2, <2>3, <2>4, <2>5 DEF Ledger
    <2>7. ASSUME NEW b \in Buckets PROVE Dense(n, b)'
        <3> DEFINE t == Append(s, rec)
                   of == {i \in DOMAIN s : s[i].bucket = b}
                   ofT == {i \in DOMAIN t : t[i].bucket = b}
        <3>1. /\ {s[i].commit : i \in of} = 1..node[n].commit[b]
              /\ \A i, j \in of : i < j => s[i].commit < s[j].commit
            BY Zenon, <1>0 DEF Dense
        <3>2. \A i \in of : i \in ofT /\ t[i] = s[i] /\ i <= Len(s) /\ i \in Nat
            BY <2>3
        <3>a. node'[n].hist = t /\ ofT = {i \in DOMAIN t : t[i].bucket = b}
            BY Zenon, <2>2
        <3>3. CASE b # B
            <4>1. ofT = of
                BY <2>3, <2>4, <3>3
            <4>a. node'[n].commit[b] = node[n].commit[b]
                BY Zenon, <2>5, <3>3
            <4>b. {t[i].commit : i \in ofT} = {s[i].commit : i \in of}
                BY Zenon, <3>2, <4>1
            <4>2. {t[i].commit : i \in ofT} = 1..node'[n].commit[b]
                BY Zenon, <3>1, <4>a, <4>b
            <4>3. \A i, j \in ofT : i < j => t[i].commit < t[j].commit
                BY Zenon, <3>1, <3>2, <4>1
            <4> HIDE DEF t, ofT
            <4> QED BY <3>a, <4>2, <4>3, DenseAs
        <3>4. CASE b = B
            <4>1. ofT = of \cup {Len(s) + 1} /\ t[Len(s) + 1].commit = k
                BY <2>3, <2>4, <3>4
            <4>a. \A i \in of : i \in ofT /\ t[i].commit = s[i].commit
                BY Zenon, <3>2
            <4>b. PICK last : last = Len(s) + 1
                BY Zenon
            <4>c. ofT = of \cup {last} /\ t[last].commit = k
                BY Zenon, <4>1, <4>b
            <4> HIDE DEF t, of, ofT, s, k
            <4>2. {t[i].commit : i \in ofT} = {s[i].commit : i \in of} \cup {k}
                BY <4>a, <4>c, OneMore
            <4> USE DEF t, of, ofT, s, k
            <4>3. (1..node[n].commit[b]) \cup {k} = 1..node'[n].commit[b]
                BY <1>0, <2>1, <2>5, <3>4 DEF Ledger
            <4>4. ASSUME NEW i \in of PROVE t[i].commit < k /\ t[i].commit \in Nat
                <5>1. s[i].commit \in 1..node[n].commit[B] /\ t[i] = s[i]
                    BY Zenon, <3>1, <3>2, <3>4
                <5>2. node[n].commit[B] \in Nat
                    BY Zenon, <1>0, <2>1 DEF Ledger
                <5> QED BY <5>1, <5>2
            <4>5. \A i, j \in ofT : i < j => t[i].commit < t[j].commit
                BY SMTT(30), <2>3, <3>1, <3>2, <4>1, <4>4
            <4>6. {t[i].commit : i \in ofT} = 1..node'[n].commit[b]
                BY Zenon, <3>1, <4>2, <4>3
            <4> HIDE DEF t, ofT
            <4> QED BY <3>a, <4>5, <4>6, DenseAs
        <3> QED BY Zenon, <3>3, <3>4
    <2> QED BY Zenon, <2>6, <2>7
<1> QED BY Zenon, <1>1, <1>2, <1>3

LEMMA LogKept ==
    ASSUME LogIsSeq, [Next]_vars
    PROVE  \A i \in DOMAIN log : i \in DOMAIN log' /\ log'[i] = log[i]
<1>1. PICK S : log \in Seq(S)
    BY Zenon DEF LogIsSeq
<1>2. ASSUME NEW e, log' = Append(log, e), NEW i \in DOMAIN log
      PROVE  i \in DOMAIN log' /\ log'[i] = log[i]
    <2>1. log \in Seq(S \cup {e}) /\ e \in S \cup {e}
        BY <1>1
    <2> QED BY <1>2, <2>1
<1> QED BY Zenon, <1>2, LogGrows

LEMMA RankedStep ==
    ASSUME CommitInv, Etcd, NEW n \in Nodes,
           \A i \in DOMAIN log : i \in DOMAIN log' /\ log'[i] = log[i],
           Keeps(n) \/ Resets(n) \/ \E e, idx : Counts(n, e, idx)
    PROVE  Ranked(n)'
<1>0. Ledger(n) /\ Ranked(n) /\ node[n].cursor \in Nat
    BY Zenon DEF CommitInv, MarkInv, Marked
<1>1. CASE Keeps(n)
    <2>1. node'[n].cursor \in Nat /\ node'[n].cursor >= node[n].cursor
        BY Zenon, <1>1 DEF Keeps
    <2>2. ASSUME NEW h \in Range(node[n].hist) PROVE h.idx \in 1..node'[n].cursor
        <3>1. h.idx \in 1..node[n].cursor
            BY Zenon, <1>0 DEF Ranked
        <3> QED BY <1>0, <2>1, <3>1
    <2>3. \A b : Held(n, b)' = Held(n, b)
        BY Zenon, <1>1 DEF Keeps, Held
    <2> QED BY SMTT(30), <1>0, <1>1, <2>2, <2>3 DEF Keeps, Ranked
<1>2. CASE Resets(n)
    <2>1. Range(<<>>) = {}
        BY DEF Range
    <2>2. \A b \in Buckets : Held(n, b)' = {}
        BY Zenon, <1>2, <2>1 DEF Resets, Held
    <2> QED BY Zenon, <1>2, <2>1, <2>2, FS_EmptySet DEF Resets, Ranked
<1>3. ASSUME NEW e, NEW idx, Counts(n, e, idx) PROVE Ranked(n)'
    <2> DEFINE s == node[n].hist
               B == e.bucket
               k == node[n].commit[B] + 1
               rec == [idx |-> idx, call |-> e.call, bucket |-> B, commit |-> k]
    <2>1. /\ B \in Buckets /\ k = NextCommit(n, e) /\ e.kind = "app"
          /\ idx = node[n].cursor + 1 /\ node'[n].cursor = idx /\ idx \in DOMAIN log /\ e = log[idx]
        BY <1>0, <1>3 DEF Counts, CommitInv, Addressed, NextCommit
    <2>a. /\ node'[n].hist = Append(s, rec)
          /\ node'[n].commit = [node[n].commit EXCEPT ![B] = k]
        BY Zenon, <1>3, <2>1 DEF Counts
    <2>b. IsSeq(s) /\ node[n].commit \in [Buckets -> Nat]
        BY Zenon, <1>0 DEF Ledger
    <2>c. Range(node'[n].hist) = Range(s) \cup {rec}
        <3>1. PICK r : r = rec
            BY Zenon
        <3>2. node'[n].hist = Append(s, r)
            BY Zenon, <2>a, <3>1
        <3>3. Range(Append(s, r)) = Range(s) \cup {r}
            BY Zenon, <2>b, AppendFacts
        <3> QED BY Zenon, <3>1, <3>2, <3>3
    <2>2. /\ Range(node'[n].hist) = Range(s) \cup {rec}
          /\ node'[n].commit[B] = k
          /\ \A b \in Buckets : b # B => node'[n].commit[b] = node[n].commit[b]
        BY Zenon, <2>1, <2>a, <2>b, <2>c
    <2>3. rec.bucket = B /\ rec.commit = k /\ rec.idx = idx /\ rec.call = e.call
        BY Zenon
    <2> HIDE DEF rec
    <2>4. /\ \A b \in Buckets : b # B => Held(n, b)' = Held(n, b)
          /\ Held(n, B)' = Held(n, B) \cup {idx}
        BY <2>2, <2>3 DEF Held
    <2>5. Held(n, B) \subseteq 1..node[n].cursor
        BY Zenon, <1>0 DEF Ranked, Held
    <2>6. IsFiniteSet(Held(n, B)) /\ idx \notin Held(n, B)
        <3>1. IsFiniteSet(1..node[n].cursor)
            BY <1>0, FS_Interval
        <3>2. idx \notin 1..node[n].cursor
            BY <1>0, <2>1
        <3> QED BY Zenon, <2>5, <3>1, <3>2, FS_Subset
    <2>7. Cardinality(Held(n, B)') = k
        <3>1. Cardinality(Held(n, B) \cup {idx}) = Cardinality(Held(n, B)) + 1
            BY Zenon, <2>6, FS_AddElement
        <3> QED BY Zenon, <1>0, <2>1, <2>4, <3>1 DEF Ranked
    <2>8. \A b \in Buckets : node'[n].commit[b] = Cardinality(Held(n, b)')
        BY Zenon, <1>0, <2>2, <2>4, <2>7 DEF Ranked
    <2>9. ASSUME NEW h \in Range(s)
          PROVE  /\ h.idx \in 1..node'[n].cursor /\ h.idx \in DOMAIN log'
                 /\ log'[h.idx].kind = "app" /\ log'[h.idx].bucket = h.bucket
                 /\ log'[h.idx].call = h.call
                 /\ h.commit = Cardinality({j \in Held(n, h.bucket)' : j <= h.idx})
        <3>1. h.idx \in 1..node[n].cursor /\ h.bucket \in Buckets
            BY Zenon, <1>0 DEF Ranked, Ledger
        <3>2. {j \in Held(n, h.bucket)' : j <= h.idx} = {j \in Held(n, h.bucket) : j <= h.idx}
            <4>1. ~(idx <= h.idx)
                BY <1>0, <2>1, <3>1
            <4> QED BY Zenon, <2>4, <3>1, <4>1
        <3>3. h.idx \in 1..node'[n].cursor
            BY <1>0, <2>1, <3>1
        <3> QED BY Zenon, <1>0, <3>2, <3>3 DEF Ranked
    <2>10. {j \in Held(n, B)' : j <= idx} = Held(n, B)'
        BY <1>0, <2>1, <2>4, <2>5
    <2>11. idx \in 1..node'[n].cursor
        BY <1>0, <2>1
    <2>12. PICK r : r = rec
        BY Zenon
    <2>13. /\ log'[r.idx].kind = "app" /\ log'[r.idx].bucket = r.bucket
           /\ log'[r.idx].call = r.call /\ r.idx \in DOMAIN log' /\ r.idx \in 1..node'[n].cursor
        BY Zenon, <2>1, <2>3, <2>11, <2>12
    <2>14. r.commit = Cardinality({j \in Held(n, r.bucket)' : j <= r.idx})
        <3>1. r.bucket = B /\ r.commit = k /\ r.idx = idx
            BY Zenon, <2>3, <2>12
        <3> QED BY Zenon, <2>7, <2>10, <3>1
    <2> QED BY Zenon, <2>2, <2>8, <2>9, <2>12, <2>13, <2>14 DEF Ranked
<1> QED BY Zenon, <1>1, <1>2, <1>3

\* Records keep the bucket they were proposed with.
LEMMA AddressedStep ==
    ASSUME CommitInv, [Next]_vars
    PROVE  Addressed'
<1>0. Addressed /\ CallShape /\ LogIsSeq
    BY Zenon DEF CommitInv, MarkInv, WaitInv, Shape
<1> DEFINE Asked == \A c \in Calls : call[c].pc = "entered" => call[c].bucket \in Buckets
           Flying == \A e \in flying : e.kind = "app" => e.bucket \in Buckets
           Logged == \A i \in DOMAIN log : log[i].kind = "app" => log[i].bucket \in Buckets
<1>1. ASSUME UNCHANGED <<log, call>>, flying' \subseteq flying \cup {Noop} PROVE Addressed'
    BY <1>0, <1>1 DEF Addressed, Noop, Entry
<1>2. CASE CommitEntry
    <2>1. PICK e \in flying : log' = Append(log, e) /\ flying' = flying \ {e} /\ call' = call
        BY Zenon, <1>2 DEF CommitEntry
    <2>2. PICK S : log \in Seq(S)
        BY Zenon, <1>0 DEF LogIsSeq
    <2>3. log \in Seq(S \cup {e}) /\ e \in S \cup {e}
        BY <2>2
    <2>4. \A i \in DOMAIN log' : log'[i] = e \/ (i \in DOMAIN log /\ log'[i] = log[i])
        BY <2>1, <2>3
    <2> QED BY Zenon, <1>0, <2>1, <2>4 DEF Addressed
<1>3. ASSUME NEW n \in Nodes, Elect(n) \/ Hear(n) \/ NodeStep(n) \/ Consume(n) \/ InstallSnapshot(n)
             \/ SetReplicationHandler(n) \/ Close(n)
      PROVE  UNCHANGED <<log, call>> /\ flying' \subseteq flying \cup {Noop}
    BY Zenon, <1>3 DEF Elect, Hear, NodeStep, ApplyEntry, StubApply, CloseWaiters, Signal, Consume,
                InstallSnapshot, SetReplicationHandler, Close
<1>4. ASSUME NEW n \in Nodes, Restart(n) PROVE Addressed'
    <2>1. /\ UNCHANGED <<log, flying>>
          /\ \A c \in Calls : call'[c] = call[c] \/ call'[c] = [call[c] EXCEPT !.pc = "dead"]
        BY Zenon, <1>4 DEF Restart
    <2>2. \A c \in Calls : call'[c].pc = "entered" => call'[c] = call[c]
        BY Zenon, <1>0, <2>1 DEF CallShape
    <2> QED BY Zenon, <1>0, <2>1, <2>2 DEF Addressed
<1>5. ASSUME NEW n \in Nodes, NEW c \in Calls, Refuse(c, n) PROVE Addressed'
    <2>1. UNCHANGED <<log, flying>> /\ call' = [call EXCEPT ![c].pc = "refused"]
        BY Zenon, <1>5 DEF Refuse
    <2>2. \A d \in Calls : call'[d].pc = "entered" => call'[d] = call[d]
        BY Zenon, <1>0, <2>1 DEF CallShape
    <2> QED BY Zenon, <1>0, <2>1, <2>2 DEF Addressed
<1>6. ASSUME NEW n \in Nodes, NEW c \in Calls, NEW b \in Buckets, Enter(c, n, b) PROVE Addressed'
    <2>1. PICK q : /\ UNCHANGED <<log, flying>>
          /\ \/ call' = [call EXCEPT ![c].pc = "failed", ![c].node = n]
             \/ call' = [call EXCEPT ![c].pc = "entered", ![c].node = n, ![c].bucket = b, ![c].seq = q]
        BY Zenon, <1>6 DEF Enter
    <2>a. CASE call' = [call EXCEPT ![c].pc = "failed", ![c].node = n]
        BY <1>0, <2>1, <2>a DEF CallShape, Addressed
    <2>b. CASE call' = [call EXCEPT ![c].pc = "entered", ![c].node = n, ![c].bucket = b, ![c].seq = q]
        BY <1>0, <2>1, <2>b DEF CallShape, Addressed
    <2>2. Addressed'
        BY Zenon, <2>1, <2>a, <2>b
    <2> QED BY Zenon, <2>2
<1>7. ASSUME NEW n \in Nodes, NEW c \in Calls, NEW b \in Buckets, ProposeOnly(c, n, b)
      PROVE Addressed'
    <2>1. PICK q : /\ log' = log
          /\ flying' = flying \cup {Entry("app", c, q, b, n)}
          /\ call' = [call EXCEPT ![c].pc = "sent", ![c].node = n, ![c].bucket = b, ![c].seq = q]
        BY Zenon, <1>7 DEF ProposeOnly
    <2>2. \A d \in Calls : call'[d].pc = "entered" => call'[d] = call[d]
        BY <1>0, <2>1 DEF CallShape
    <2>3. Entry("app", c, q, b, n).bucket = b
        BY Zenon DEF Entry
    <2> QED BY Zenon, <1>0, <2>1, <2>2, <2>3 DEF Addressed
<1>8. ASSUME NEW c \in Calls, Propose(c) \/ Return(c) \/ Cancel(c) PROVE Addressed'
    <2>1. /\ log' = log
          /\ \A e \in flying' : e \in flying \/ (call[c].pc = "entered" /\ e.bucket = call[c].bucket)
        BY <1>8 DEF Propose, Return, Cancel, Entry
    <2>2. \E p \in {"waiting", "failed", "acked"} : \E r :
              call' = [call EXCEPT ![c].pc = p] \/ call' = [call EXCEPT ![c].pc = p, ![c].res = r]
        BY Zenon, <1>8 DEF Propose, Return, Cancel
    <2>3. \A d \in Calls : call'[d].pc = "entered" => call'[d] = call[d]
        BY <1>0, <2>2 DEF CallShape
    <2> QED BY Zenon, <1>0, <2>1, <2>3 DEF Addressed
<1>9. CASE UNCHANGED vars
    BY Zenon, <1>1, <1>9 DEF vars
<1> QED BY Zenon, <1>1, <1>2, <1>3, <1>4, <1>5, <1>6, <1>7, <1>8, <1>9 DEF Next

LEMMA CommitInit == Init => CommitInv
<1> SUFFICES ASSUME Init PROVE CommitInv
    OBVIOUS
<1>1. IsSeq(<<>>) /\ DOMAIN <<>> = {} /\ Range(<<>>) = {}
    BY DEF IsSeq, Range
<1>2. \A n \in Nodes : node[n].hist = <<>> /\ node[n].commit = [b \in Buckets |-> 0]
    BY Zenon DEF Init, NewShardRaftNode
<1>3. Addressed
    <2>1. \A i \in DOMAIN log : log[i] = Conf
        BY DEF Init
    <2> QED BY <2>1 DEF Init, Addressed, Idle, Conf, Entry
<1>4. ASSUME NEW n \in Nodes PROVE Ledger(n)
    BY <1>1, <1>2 DEF Ledger
<1>5. ASSUME NEW n \in Nodes, NEW b \in Buckets PROVE Dense(n, b)
    BY <1>1, <1>2 DEF Dense
<1>6. ASSUME NEW n \in Nodes PROVE Ranked(n)
    BY Zenon, <1>1, <1>2, FS_EmptySet DEF Ranked, Held
<1> QED BY Zenon, <1>3, <1>4, <1>5, <1>6, MarkInit DEF CommitInv

LEMMA CommitStep ==
    ASSUME CommitInv, [Next]_vars
    PROVE  CommitInv'
<1>1. MarkInv' /\ setting' = setting
    BY Zenon, MarkStep, LogGrows DEF CommitInv
<1>2. Nodes' = Nodes /\ (Etcd' <=> Etcd)
    BY Zenon, <1>1 DEF Nodes, Etcd
<1>3. ASSUME NEW n \in Nodes PROVE Keeps(n) \/ Resets(n) \/ \E e, idx : Counts(n, e, idx)
    BY Zenon, CounterCases DEF CommitInv
<1>4. ASSUME NEW n \in Nodes PROVE Ledger(n)' /\ \A b \in Buckets : Dense(n, b)'
    BY Zenon, <1>3, LedgerStep
<1>5. ASSUME NEW n \in Nodes, Etcd PROVE Ranked(n)'
    <2>1. \A i \in DOMAIN log : i \in DOMAIN log' /\ log'[i] = log[i]
        BY Zenon, LogKept DEF CommitInv, MarkInv
    <2> QED BY Zenon, <1>3, <1>5, <2>1, RankedStep
<1> QED BY Zenon, <1>1, <1>2, <1>4, <1>5, AddressedStep DEF CommitInv

\* Where two nodes have each counted every record up to their cursors, the records
\* of a bucket up to an index that both have are the same.
LEMMA SameRank ==
    ASSUME Etcd, CommitInv, NEW m \in Nodes, NEW n \in Nodes, Whole(m), Whole(n),
           NEW g \in Range(node[m].hist), NEW h \in Range(node[n].hist), g.idx = h.idx
    PROVE  g.commit = h.commit
<1> DEFINE i == g.idx
           b == log[i].bucket
           Upto == {k \in 1..i : log[k].kind = "app" /\ log[k].bucket = b}
<1>1. ASSUME NEW q \in Nodes, Whole(q), NEW f \in Range(node[q].hist), f.idx = i
      PROVE  f.commit = Cardinality(Upto)
    <2>1. Ranked(q) /\ node[q].cursor \in Nat
        BY Zenon DEF CommitInv, MarkInv, Marked
    <2>2. f.idx \in 1..node[q].cursor /\ f.bucket = b
        BY Zenon, <1>1, <2>1 DEF Ranked
    <2>3. i \in Nat /\ i <= node[q].cursor
        BY <1>1, <2>1, <2>2
    <2>4. ASSUME NEW k \in Held(q, b), k <= i PROVE k \in Upto
        <3>1. PICK e \in Range(node[q].hist) : e.bucket = b /\ k = e.idx
            BY Zenon, <2>4 DEF Held
        <3>2. k \in 1..node[q].cursor /\ log[k].kind = "app" /\ log[k].bucket = b
            BY Zenon, <2>1, <3>1 DEF Ranked
        <3> QED BY <2>1, <2>3, <2>4, <3>2
    <2>5. ASSUME NEW k \in Upto PROVE k \in Held(q, b) /\ k <= i
        <3>1. k \in 1..node[q].cursor /\ log[k].kind = "app" /\ log[k].bucket = b /\ k <= i
            BY <2>1, <2>3
        <3>2. PICK e \in Range(node[q].hist) : e.idx = k
            BY Zenon, <1>1, <3>1 DEF Whole
        <3>3. e.bucket = b
            BY Zenon, <2>1, <3>1, <3>2 DEF Ranked
        <3> QED BY Zenon, <3>1, <3>2, <3>3 DEF Held
    <2>6. {k \in Held(q, b) : k <= i} = Upto
        BY Zenon, <2>4, <2>5
    <2> QED BY <1>1, <2>1, <2>2, <2>6 DEF Ranked
<1> QED BY Zenon, <1>1

\* types.go, perBucketCommit in applyEntry and apply: a node numbers the records of a
\* bucket 1, 2, 3, ... in the order it counts them, with either engine and through
\* restarts; and two replicas that have applied the whole log give every record the
\* same number.  For the second half the counters are ranks: an entry's number is the
\* number of indices of its bucket, up to its own, that the node has counted.
THEOREM CommitIndices == Spec => []CommitIndicesAgree
<1>1. CommitInv => CommitDense
    BY Zenon DEF CommitInv, CommitDense, Dense
<1>2. CommitInv => ReplicasAgree
    BY Zenon, SameRank DEF ReplicasAgree
<1>3. CommitInv => CommitIndicesAgree
    BY Zenon, <1>1, <1>2 DEF CommitIndicesAgree
<1> QED BY <1>3, CommitInit, CommitStep, PTL DEF Spec

-----------------------------------------------------------------------------
(***************************************************************************)
(* A node that serves alone appends records to buckets: it implements the  *)
(* contract of BucketAppend, for both engines and any number of calls,     *)
(* restarts and Closes.                                                    *)
(***************************************************************************)

\* Call c names a bucket, and has handed its record on.
Begun(c) == call[c].bucket \in Buckets
Sent(c) == Begun(c) /\ call[c].pc # "entered"
Record(c) == Entry("app", c, call[c].seq, call[c].bucket, call[c].node)

\* Every call that has begun has a number of its own.
Numbered ==
    /\ node[Lone].nextSeq \in Nat
    /\ \A c \in Calls :
        /\ call[c].pc \in {"idle", "refused", "entered", "waiting", "sent", "acked", "failed"}
        /\ call[c].pc \in {"idle", "refused"} => ~Begun(c)
        /\ call[c].pc \in {"entered", "waiting", "sent", "acked"} => Begun(c)
        /\ Begun(c) => call[c].seq \in 1..node[Lone].nextSeq
    /\ \A c, d \in Calls : Begun(c) /\ Begun(d) /\ call[c].seq = call[d].seq => c = d

\* What is in flight or in the log is some call's record, there once, or has
\* nobody waiting for it.
Own(e) == (e.kind # "app" /\ e.seq = 0) \/ \E c \in Calls : Sent(c) /\ e = Record(c)
InTransit ==
    /\ \A e \in flying : Own(e)
    /\ \A i \in DOMAIN log : Own(log[i])
    /\ \A e \in flying, i \in DOMAIN log : e.kind = "app" => log[i] # e
    /\ \A i, j \in DOMAIN log : log[i].kind = "app" /\ log[i] = log[j] => i = j

\* What was counted is some call's record, and a stub's goroutine counts once.
Counted ==
    \A h \in Range(node[Lone].hist) :
        /\ h.call \in Calls /\ Sent(h.call) /\ h.bucket = call[h.call].bucket
        /\ ~Etcd => \A e \in flying : e.kind = "app" => e.call # h.call

\* Waiters are registered under the number of their call.
Registered ==
    \A w \in node[Lone].waiters \cup node[Lone].taken :
        \E c \in Calls : Begun(c) /\ w = <<call[c].seq, c>>

\* Whoever is to be told a commit index is told that of their own record.
HasPlace(c, k) == \E g \in Range(node[Lone].hist) : g.call = c /\ g.commit = k
Answers ==
    /\ \A h \in hand[Lone] : \A c \in h.waiters : c \in Calls /\ HasPlace(c, h.commit)
    /\ \A c \in Calls : \/ ch[c] = <<>> \/ ch[c] = <<Nil>>
                        \/ (ch[c] = <<Head(ch[c])>> /\ HasPlace(c, Head(ch[c]).commit))

AppendInv ==
    /\ CommitInv /\ setting \in Settings
    /\ Alone => restarts = 0 /\ Numbered /\ InTransit /\ Counted /\ Registered /\ Answers

LEMMA LoneIsAll ==
    ASSUME setting \in Settings, Alone
    PROVE  Nodes = {Lone} /\ Lone \in Nodes
<1>1. IsFiniteSet(Nodes) /\ Nodes \subseteq Nat
    BY Zenon, SettingsAssumption DEF Nodes
<1>2. PICK n : Nodes = {n}
    BY Zenon, <1>1, FS_Singleton DEF Alone
<1>3. Lone = n
    BY <1>1, <1>2, MinOf DEF Lone
<1> QED BY Zenon, <1>2, <1>3

\* The steps of a node that serves alone.
LoneNext ==
    \/ UNCHANGED vars \/ CommitEntry \/ Elect(Lone) \/ Hear(Lone)
    \/ ApplyEntry(Lone) \/ StubApply(Lone) \/ CloseWaiters(Lone) \/ (\E fatal : Signal(Lone, fatal))
    \/ Consume(Lone) \/ SetReplicationHandler(Lone) \/ Close(Lone)
    \/ \E c \in Calls : \/ Refuse(c, Lone) \/ Propose(c) \/ Return(c) \/ Cancel(c)
                        \/ \E b \in Buckets : Enter(c, Lone, b) \/ ProposeOnly(c, Lone, b)

LEMMA LoneStep ==
    ASSUME AppendInv, Alone, [Next]_vars
    PROVE  LoneNext
<1>1. Nodes = {Lone} /\ Lone \in Nodes
    BY Zenon, LoneIsAll DEF AppendInv
<1>2. ~Restart(Lone) /\ ~InstallSnapshot(Lone)
    <2>1. ~Restart(Lone)
        BY DEF AppendInv, Alone, Restart
    <2>2. Nodes \ {Lone} = {}
        BY Zenon, <1>1
    <2>3. ~InstallSnapshot(Lone)
        BY Zenon, <2>2 DEF InstallSnapshot
    <2> QED BY Zenon, <2>1, <2>3
<1>3. CASE UNCHANGED vars
    BY Zenon, <1>3 DEF LoneNext
<1>4. CASE Next
    <2>1. ASSUME NEW n \in Nodes,
               \/ Elect(n) \/ Hear(n) \/ NodeStep(n) \/ Consume(n) \/ InstallSnapshot(n)
               \/ SetReplicationHandler(n) \/ Restart(n) \/ Close(n)
               \/ \E c \in Calls : \/ Refuse(c, n)
                                   \/ \E b \in Buckets : Enter(c, n, b) \/ ProposeOnly(c, n, b)
          PROVE  LoneNext
        <3>1. n = Lone
            BY Zenon, <1>1
        <3> QED BY Zenon, <1>2, <2>1, <3>1 DEF LoneNext, NodeStep
    <2>2. CASE CommitEntry \/ \E c \in Calls : Propose(c) \/ Return(c) \/ Cancel(c)
        BY Zenon, <2>2 DEF LoneNext
    <2> QED BY Zenon, <1>4, <2>1, <2>2 DEF Next
<1> QED BY Zenon, <1>3, <1>4

LEMMA LoneShape ==
    ASSUME AppendInv, Alone
    PROVE  /\ Lone \in Nodes /\ node = [n \in Nodes |-> node[n]] /\ hand = [n \in Nodes |-> hand[n]]
           /\ node[Lone] = [f \in Fields |-> node[Lone][f]]
           /\ CallShape /\ MarkInv /\ Ledger(Lone) /\ \A b \in Buckets : Dense(Lone, b)
BY Zenon, LoneIsAll DEF AppendInv, CommitInv, MarkInv, WaitInv, Shape, NodeShape

LEMMA TakeMoves ==
    ASSUME AppendInv, Alone, NEW e, NEW idx, NEW left, Take(Lone, e, idx, left)
    PROVE  /\ node'[Lone].nextSeq = node[Lone].nextSeq /\ node'[Lone].taken = node[Lone].taken
           /\ node'[Lone].waiters = node[Lone].waiters \ WaiterOf(Lone, e.seq)
           /\ hand'[Lone] = hand[Lone] \cup
                  {[idx |-> idx, app |-> e.kind = "app",
                    commit |-> IF e.kind = "app" THEN NextCommit(Lone, e) ELSE 0,
                    waiters |-> {w[2] : w \in WaiterOf(Lone, e.seq)}]}
           /\ e.kind # "app" => /\ node'[Lone].hist = node[Lone].hist
                                /\ node'[Lone].commit = node[Lone].commit
           /\ e.kind = "app" =>
                /\ node'[Lone].commit = [node[Lone].commit EXCEPT ![e.bucket] = NextCommit(Lone, e)]
                /\ node'[Lone].hist = Append(node[Lone].hist,
                       [idx |-> idx, call |-> e.call, bucket |-> e.bucket, commit |-> NextCommit(Lone, e)])
<1>0. /\ Lone \in Nodes /\ node = [n \in Nodes |-> node[n]] /\ hand = [n \in Nodes |-> hand[n]]
      /\ node[Lone] = [f \in Fields |-> node[Lone][f]]
    BY Zenon, LoneShape
<1> DEFINE ws == WaiterOf(Lone, e.seq)
           a  == e.kind = "app"
           k  == IF a THEN NextCommit(Lone, e) ELSE 0
           cm == IF a THEN [node[Lone].commit EXCEPT ![e.bucket] = k] ELSE node[Lone].commit
           hi == IF a THEN Append(node[Lone].hist, [idx |-> idx, call |-> e.call,
                                                    bucket |-> e.bucket, commit |-> k])
                 ELSE node[Lone].hist
           locked == [node[Lone] EXCEPT !.commit = cm, !.hist = hi, !.waiters = @ \ ws]
           g == [idx |-> idx, app |-> a, commit |-> k, waiters |-> {w[2] : w \in ws}]
<1>1. node' = [node EXCEPT ![Lone] =
          IF Etcd THEN [locked EXCEPT !.lastApplied = idx, !.cursor = idx, !.left = left, !.since = @ + 1]
          ELSE locked]
    BY Zenon DEF Take
<1>2. hand' = [hand EXCEPT ![Lone] = @ \cup {g}]
    BY Zenon DEF Take
<1>3. /\ a => cm = [node[Lone].commit EXCEPT ![e.bucket] = NextCommit(Lone, e)]
      /\ a => hi = Append(node[Lone].hist, [idx |-> idx, call |-> e.call, bucket |-> e.bucket,
                                            commit |-> NextCommit(Lone, e)])
      /\ ~a => cm = node[Lone].commit /\ hi = node[Lone].hist
    BY Zenon
<1>4. hand'[Lone] = hand[Lone] \cup {g}
    <2> HIDE DEF g
    <2> QED BY Zenon, <1>0, <1>2
<1> HIDE DEF cm, hi, ws, k
<1>5. /\ locked = [f \in Fields |-> locked[f]]
      /\ locked.commit = cm /\ locked.hist = hi /\ locked.nextSeq = node[Lone].nextSeq
      /\ locked.waiters = node[Lone].waiters \ ws /\ locked.taken = node[Lone].taken
    BY Zenon, <1>0 DEF Fields
<1> HIDE DEF locked
<1>6. /\ node'[Lone].commit = cm /\ node'[Lone].hist = hi
      /\ node'[Lone].nextSeq = node[Lone].nextSeq
      /\ node'[Lone].waiters = node[Lone].waiters \ ws /\ node'[Lone].taken = node[Lone].taken
    <2>1. CASE Etcd
        BY Zenon, <1>0, <1>1, <1>5, <2>1 DEF Fields
    <2>2. CASE ~Etcd
        BY Zenon, <1>0, <1>1, <1>5, <2>2
    <2> QED BY Zenon, <2>1, <2>2
<1>7. hand'[Lone] = hand[Lone] \cup
          {[idx |-> idx, app |-> e.kind = "app",
            commit |-> IF e.kind = "app" THEN NextCommit(Lone, e) ELSE 0,
            waiters |-> {w[2] : w \in WaiterOf(Lone, e.seq)}]}
    BY Zenon, <1>4 DEF k, ws
<1>8. node'[Lone].waiters = node[Lone].waiters \ WaiterOf(Lone, e.seq)
    BY Zenon, <1>6 DEF ws
<1> QED BY Zenon, <1>3, <1>6, <1>7, <1>8

\* Steps that count nothing leave the history; Close and its end only move waiters.
Stands ==
    /\ node'[Lone].hist = node[Lone].hist /\ node'[Lone].commit = node[Lone].commit
    /\ node'[Lone].nextSeq = node[Lone].nextSeq
    /\ node'[Lone].waiters \cup node'[Lone].taken \subseteq node[Lone].waiters \cup node[Lone].taken

LEMMA StandingStep ==
    ASSUME AppendInv, Alone,
           \/ UNCHANGED vars \/ CommitEntry \/ Elect(Lone) \/ Hear(Lone) \/ CloseWaiters(Lone)
           \/ (\E fatal : Signal(Lone, fatal))
           \/ Consume(Lone) \/ SetReplicationHandler(Lone) \/ Close(Lone)
           \/ \E c \in Calls : Refuse(c, Lone) \/ Propose(c) \/ Return(c) \/ Cancel(c)
    PROVE  Stands
<1>0. /\ Lone \in Nodes /\ node = [n \in Nodes |-> node[n]]
      /\ node[Lone] = [f \in Fields |-> node[Lone][f]]
    BY Zenon, LoneShape
<1>1. ASSUME node' = node PROVE Stands
    BY Zenon, <1>1 DEF Stands
<1>2. CASE \/ UNCHANGED vars \/ CommitEntry \/ Elect(Lone) \/ Hear(Lone)
           \/ \E c \in Calls : Refuse(c, Lone) \/ Propose(c) \/ Return(c) \/ Cancel(c)
    <2>1. node' = node
        BY Zenon, <1>2 DEF vars, CommitEntry, Elect, Hear, Refuse, Propose, Return, Cancel
    <2> QED BY Zenon, <1>1, <2>1
<1>3. CASE CloseWaiters(Lone)
    BY Zenon, <1>0, <1>3 DEF CloseWaiters, Fields, Stands
<1>4. CASE Consume(Lone)
    BY Zenon, <1>0, <1>4 DEF Consume, Fields, Stands
<1>5. CASE SetReplicationHandler(Lone)
    BY Zenon, <1>0, <1>5 DEF SetReplicationHandler, Fields, Stands
<1>6. CASE Close(Lone)
    BY Zenon, <1>0, <1>6 DEF Close, Fields, Stands
<1>7. ASSUME NEW fatal, Signal(Lone, fatal) PROVE Stands
    <2>1. PICK h \in hand[Lone], match \in Matches(Lone) :
           LET sent == IF h.app /\ ~fatal THEN ToCommittedCh(node[Lone], h.idx) ELSE node[Lone] IN
           node' = [node EXCEPT ![Lone] =
                  IF Etcd /\ node[Lone].left = 0
                  THEN EndReady(sent, minFollowerMatchIndex(Lone, match)) ELSE sent]
        BY Zenon, <1>7 DEF Signal
    <2> DEFINE sent == IF h.app /\ ~fatal THEN ToCommittedCh(node[Lone], h.idx) ELSE node[Lone]
               mf == minFollowerMatchIndex(Lone, match)
    <2>2. /\ sent = [f \in Fields |-> sent[f]] /\ sent.nextSeq = node[Lone].nextSeq
          /\ sent.waiters = node[Lone].waiters /\ sent.taken = node[Lone].taken
          /\ sent.hist = node[Lone].hist /\ sent.commit = node[Lone].commit
        BY Zenon, <1>0 DEF ToCommittedCh, Fields
    <2>3. node'[Lone] = EndReady(sent, mf) \/ node'[Lone] = sent
        BY Zenon, <1>0, <2>1
    <2> HIDE DEF sent, mf
    <2>4. /\ EndReady(sent, mf).nextSeq = sent.nextSeq
          /\ EndReady(sent, mf).waiters = sent.waiters /\ EndReady(sent, mf).taken = sent.taken
          /\ EndReady(sent, mf).hist = sent.hist /\ EndReady(sent, mf).commit = sent.commit
        BY Zenon, <2>2 DEF EndReady, Fields
    <2> QED BY Zenon, <2>2, <2>3, <2>4 DEF Stands
<1> QED BY Zenon, <1>2, <1>3, <1>4, <1>5, <1>6, <1>7

\* The steps of a call: it moves on, it enters a closed node, or it begins.
Posts(c) ==
    /\ \A d \in Calls : d # c => call'[d] = call[d]
    /\ call'[c].bucket = call[c].bucket /\ call'[c].seq = call[c].seq
Begins(c, b) ==
    /\ call[c].pc = "idle" /\ call'[c].pc \in {"entered", "sent"}
    /\ \A d \in Calls : d # c => call'[d] = call[d]
    /\ call'[c].bucket = b /\ call'[c].seq = node[Lone].nextSeq + 1 /\ call'[c].node = Lone

LEMMA PostStep ==
    ASSUME AppendInv, Alone, NEW c \in Calls, Refuse(c, Lone) \/ Propose(c) \/ Return(c) \/ Cancel(c)
    PROVE  /\ Posts(c) /\ call'[c].node = call[c].node
           /\ Refuse(c, Lone) => call[c].pc = "idle" /\ call'[c].pc = "refused"
           /\ Propose(c) => call[c].pc = "entered" /\ call'[c].pc \in {"waiting", "failed"}
           /\ Return(c) => call[c].pc = "waiting" /\ call'[c].pc \in {"acked", "failed"}
           /\ Cancel(c) => call[c].pc = "waiting" /\ call'[c].pc = "failed"
<1>0. /\ call = [d \in Calls |-> call[d]]
      /\ call[c] = [f \in {"pc", "node", "seq", "bucket", "res"} |-> call[c][f]]
    BY Zenon, LoneShape DEF CallShape
<1>1. ASSUME NEW p, call' = [call EXCEPT ![c].pc = p]
      PROVE  Posts(c) /\ call'[c].node = call[c].node /\ call'[c].pc = p
    BY Zenon, <1>0, <1>1 DEF Posts
<1>2. ASSUME NEW p, NEW r, call' = [call EXCEPT ![c].pc = p, ![c].res = r]
      PROVE  Posts(c) /\ call'[c].node = call[c].node /\ call'[c].pc = p
    BY Zenon, <1>0, <1>2 DEF Posts
<1>3. Refuse(c, Lone) => call[c].pc = "idle" /\ call' = [call EXCEPT ![c].pc = "refused"]
    BY Zenon DEF Refuse, Serving
<1>4. Propose(c) => /\ call[c].pc = "entered"
                    /\ \E p \in {"waiting", "failed"} : call' = [call EXCEPT ![c].pc = p]
    BY Zenon DEF Propose
<1>5. Return(c) => /\ call[c].pc = "waiting"
                   /\ \E p \in {"acked", "failed"} : \E r :
                        call' = [call EXCEPT ![c].pc = p, ![c].res = r]
    <2> DEFINE p == IF Head(ch[c]) = Nil THEN "failed" ELSE "acked"
    <2>1. Return(c) => /\ call[c].pc = "waiting"
                       /\ call' = [call EXCEPT ![c].pc = p, ![c].res = Head(ch[c])]
        BY Zenon DEF Return
    <2>2. p \in {"acked", "failed"}
        BY Zenon
    <2> HIDE DEF p
    <2> QED BY Zenon, <2>1, <2>2
<1>6. Cancel(c) => call[c].pc = "waiting" /\ call' = [call EXCEPT ![c].pc = "failed"]
    BY Zenon DEF Cancel
<1> QED BY Zenon, <1>1, <1>2, <1>3, <1>4, <1>5, <1>6

LEMMA BeginStep ==
    ASSUME AppendInv, Alone, NEW c \in Calls, NEW b \in Buckets,
           (Enter(c, Lone, b) /\ ~node[Lone].closed) \/ ProposeOnly(c, Lone, b)
    PROVE  /\ Begins(c, b)
           /\ node'[Lone].hist = node[Lone].hist /\ node'[Lone].commit = node[Lone].commit
           /\ node'[Lone].nextSeq = node[Lone].nextSeq + 1
           /\ node'[Lone].waiters \cup node'[Lone].taken \subseteq
                  node[Lone].waiters \cup node[Lone].taken \cup {<<node[Lone].nextSeq + 1, c>>}
           /\ Enter(c, Lone, b) => call'[c].pc = "entered"
           /\ ProposeOnly(c, Lone, b) => call'[c].pc = "sent"
<1>0. /\ Lone \in Nodes /\ node = [n \in Nodes |-> node[n]]
      /\ node[Lone] = [f \in Fields |-> node[Lone][f]]
      /\ call = [d \in Calls |-> call[d]]
      /\ call[c] = [f \in {"pc", "node", "seq", "bucket", "res"} |-> call[c][f]]
    BY Zenon, LoneShape DEF CallShape
<1> DEFINE q == node[Lone].nextSeq + 1
           ws == node[Lone].waiters \cup {<<q, c>>}
<1>1. ASSUME NEW p \in {"entered", "sent"},
             call' = [call EXCEPT ![c].pc = p, ![c].node = Lone, ![c].bucket = b, ![c].seq = q],
             call[c].pc = "idle"
      PROVE  Begins(c, b) /\ call'[c].pc = p
    <2>1. q = node[Lone].nextSeq + 1
        BY Zenon
    <2> HIDE DEF q
    <2> QED BY Zenon, <1>0, <1>1, <2>1 DEF Begins
<1>2. CASE Enter(c, Lone, b) /\ ~node[Lone].closed
    <2>1. /\ call[c].pc = "idle"
          /\ call' = [call EXCEPT ![c].pc = "entered", ![c].node = Lone, ![c].bucket = b, ![c].seq = q]
          /\ node' = [node EXCEPT ![Lone] = [node[Lone] EXCEPT !.nextSeq = q, !.waiters = ws]]
        BY Zenon, <1>0, <1>2 DEF Enter, Serving
    <2>2. Begins(c, b) /\ call'[c].pc = "entered"
        <3> HIDE DEF q
        <3> QED BY Zenon, <1>1, <2>1
    <2>3. /\ node'[Lone].hist = node[Lone].hist /\ node'[Lone].commit = node[Lone].commit
          /\ node'[Lone].nextSeq = q /\ node'[Lone].taken = node[Lone].taken
          /\ node'[Lone].waiters = ws
        <3> HIDE DEF q, ws
        <3> QED BY Zenon, <1>0, <2>1 DEF Fields
    <2>4. ~ProposeOnly(c, Lone, b)
        BY <1>0, <2>2 DEF ProposeOnly
    <2> QED BY Zenon, <2>2, <2>3, <2>4
<1>3. CASE ProposeOnly(c, Lone, b)
    <2>1. /\ call[c].pc = "idle"
          /\ call' = [call EXCEPT ![c].pc = "sent", ![c].node = Lone, ![c].bucket = b, ![c].seq = q]
          /\ node' = [node EXCEPT ![Lone] = [node[Lone] EXCEPT !.nextSeq = q]]
        BY Zenon, <1>0, <1>3 DEF ProposeOnly, Serving
    <2>2. Begins(c, b) /\ call'[c].pc = "sent"
        <3> HIDE DEF q
        <3> QED BY Zenon, <1>1, <2>1
    <2>3. /\ node'[Lone].hist = node[Lone].hist /\ node'[Lone].commit = node[Lone].commit
          /\ node'[Lone].nextSeq = q /\ node'[Lone].taken = node[Lone].taken
          /\ node'[Lone].waiters = node[Lone].waiters
        <3> HIDE DEF q
        <3> QED BY Zenon, <1>0, <2>1 DEF Fields
    <2>4. ~Enter(c, Lone, b)
        BY <1>0, <1>3, <2>2 DEF Enter, ProposeOnly
    <2> QED BY Zenon, <2>2, <2>3, <2>4
<1> QED BY Zenon, <1>2, <1>3

LEMMA ClosedStep ==
    ASSUME AppendInv, Alone, NEW c \in Calls, NEW b \in Buckets,
           Enter(c, Lone, b), node[Lone].closed
    PROVE  /\ Posts(c) /\ call[c].pc = "idle" /\ call'[c].pc = "failed"
           /\ node'[Lone].hist = node[Lone].hist /\ node'[Lone].commit = node[Lone].commit
           /\ node'[Lone].nextSeq \in {node[Lone].nextSeq, node[Lone].nextSeq + 1}
           /\ node'[Lone].waiters = node[Lone].waiters /\ node'[Lone].taken = node[Lone].taken
<1>0. /\ Lone \in Nodes /\ node = [n \in Nodes |-> node[n]]
      /\ node[Lone] = [f \in Fields |-> node[Lone][f]]
      /\ call = [d \in Calls |-> call[d]]
      /\ call[c] = [f \in {"pc", "node", "seq", "bucket", "res"} |-> call[c][f]]
    BY Zenon, LoneShape DEF CallShape
<1> DEFINE q == node[Lone].nextSeq + 1
<1>1. /\ call[c].pc = "idle"
      /\ call' = [call EXCEPT ![c].pc = "failed", ![c].node = Lone]
      /\ node' = node \/ node' = [node EXCEPT ![Lone] = [node[Lone] EXCEPT !.nextSeq = q]]
    BY Zenon, <1>0 DEF Enter, Serving
<1>2. Posts(c) /\ call'[c].pc = "failed"
    BY Zenon, <1>0, <1>1 DEF Posts
<1>3. /\ node'[Lone].hist = node[Lone].hist /\ node'[Lone].commit = node[Lone].commit
      /\ node'[Lone].nextSeq \in {node[Lone].nextSeq, q}
      /\ node'[Lone].waiters = node[Lone].waiters /\ node'[Lone].taken = node[Lone].taken
    <2> HIDE DEF q
    <2> QED BY <1>0, <1>1 DEF Fields
<1> QED BY Zenon, <1>1, <1>2, <1>3

\* Calls that have begun keep their bucket, number and node.
Grows ==
    /\ \A c \in Calls : Begun(c) => /\ call'[c].bucket = call[c].bucket /\ call'[c].seq = call[c].seq
                                    /\ call'[c].node = call[c].node
    /\ \A c \in Calls : Sent(c) => call'[c].pc # "entered"

LEMMA GrowsFacts ==
    ASSUME Grows, NEW c \in Calls
    PROVE  /\ Begun(c) => Begun(c)' /\ call'[c].seq = call[c].seq
           /\ Sent(c) => Sent(c)' /\ Record(c)' = Record(c)
BY Zenon DEF Grows, Begun, Sent, Record, Entry

LEMMA CallsGrow ==
    ASSUME AppendInv, Alone, LoneNext
    PROVE  Grows
<1>0. \A c \in Calls : call[c].pc = "idle" => ~Begun(c)
    BY Zenon DEF AppendInv, Numbered
<1>1. ASSUME call' = call PROVE Grows
    BY Zenon, <1>1 DEF Grows, Sent
<1>2. CASE \/ UNCHANGED vars \/ CommitEntry \/ Elect(Lone) \/ Hear(Lone)
           \/ ApplyEntry(Lone) \/ StubApply(Lone) \/ CloseWaiters(Lone) \/ (\E fatal : Signal(Lone, fatal))
           \/ Consume(Lone) \/ SetReplicationHandler(Lone) \/ Close(Lone)
    <2>1. call' = call
        BY Zenon, <1>2 DEF vars, CommitEntry, Elect, Hear, ApplyEntry, StubApply, CloseWaiters, Signal, Consume,
                    SetReplicationHandler, Close
    <2> QED BY Zenon, <1>1, <2>1
<1>3. ASSUME NEW c \in Calls, Refuse(c, Lone) \/ Propose(c) \/ Return(c) \/ Cancel(c)
      PROVE  Grows
    <2>1. Posts(c) /\ call'[c].node = call[c].node /\ call'[c].pc # "entered"
        BY Zenon, <1>3, PostStep
    <2> QED BY Zenon, <2>1 DEF Posts, Grows, Sent
<1>4. ASSUME NEW c \in Calls, NEW b \in Buckets, Enter(c, Lone, b) \/ ProposeOnly(c, Lone, b)
      PROVE  Grows
    <2>1. CASE Enter(c, Lone, b) /\ node[Lone].closed
        BY <1>0, <2>1, ClosedStep DEF Posts, Grows, Sent
    <2>2. CASE (Enter(c, Lone, b) /\ ~node[Lone].closed) \/ ProposeOnly(c, Lone, b)
        BY <1>0, <2>2, BeginStep DEF Begins, Grows, Sent
    <2> QED BY Zenon, <1>4, <2>1, <2>2
<1> QED BY Zenon, <1>2, <1>3, <1>4 DEF LoneNext

LEMMA LoneStays == ASSUME setting' = setting PROVE Lone' = Lone /\ Nodes' = Nodes /\ (Alone' <=> Alone)
BY Zenon DEF Lone, Nodes, Alone

LEMMA NumberedStep ==
    ASSUME AppendInv, Alone, LoneNext, setting' = setting
    PROVE  Numbered'
<1>0. Numbered /\ Lone' = Lone
    BY Zenon, LoneStays DEF AppendInv
<1>1. ASSUME call' = call, node'[Lone].nextSeq = node[Lone].nextSeq PROVE Numbered'
    BY Zenon, <1>0, <1>1 DEF Numbered, Begun
<1>2. CASE \/ UNCHANGED vars \/ CommitEntry \/ Elect(Lone) \/ Hear(Lone)
           \/ CloseWaiters(Lone) \/ (\E fatal : Signal(Lone, fatal))
           \/ Consume(Lone) \/ SetReplicationHandler(Lone) \/ Close(Lone)
    <2>1. call' = call
        BY Zenon, <1>2 DEF vars, CommitEntry, Elect, Hear, CloseWaiters, Signal, Consume,
                    SetReplicationHandler, Close
    <2>2. Stands
        BY Zenon, <1>2, StandingStep
    <2> QED BY Zenon, <1>1, <2>1, <2>2 DEF Stands
<1>3. CASE ApplyEntry(Lone) \/ StubApply(Lone)
    <2>1. call' = call
        BY Zenon, <1>3 DEF ApplyEntry, StubApply
    <2>2. \/ node' = node \/ \E i, left : ApplyConf(Lone, i, left)
          \/ \E e, i, left : Take(Lone, e, i, left)
        BY Zenon, <1>3 DEF ApplyEntry, StubApply
    <2>3. ASSUME NEW i, NEW left, ApplyConf(Lone, i, left)
          PROVE  node'[Lone].nextSeq = node[Lone].nextSeq
        BY Zenon, <2>3, LoneShape DEF ApplyConf, Fields
    <2>4. node'[Lone].nextSeq = node[Lone].nextSeq
        BY Zenon, <2>2, <2>3, TakeMoves
    <2> QED BY Zenon, <1>1, <2>1, <2>4
<1>4. ASSUME NEW c \in Calls, Posts(c), node'[Lone].nextSeq \in {node[Lone].nextSeq, node[Lone].nextSeq + 1},
             call'[c].pc \in {"refused", "waiting", "acked", "failed"},
             call'[c].pc = "refused" => call[c].pc = "idle",
             call'[c].pc \in {"waiting", "acked"} => call[c].pc \in {"entered", "waiting"}
      PROVE  Numbered'
    <2>1. \A d \in Calls : call'[d].bucket = call[d].bucket /\ call'[d].seq = call[d].seq
        BY Zenon, <1>4 DEF Posts
    <2>2. \A d \in Calls : Begun(d)' <=> Begun(d)
        BY Zenon, <2>1 DEF Begun
    <2>3. /\ node'[Lone].nextSeq \in Nat
          /\ \A k \in 1..node[Lone].nextSeq : k \in 1..node'[Lone].nextSeq
        BY <1>0, <1>4 DEF Numbered
    <2>4. ASSUME NEW d \in Calls
          PROVE  /\ call'[d].pc \in {"idle", "refused", "entered", "waiting", "sent", "acked", "failed"}
                 /\ call'[d].pc \in {"idle", "refused"} => ~Begun(d)
                 /\ call'[d].pc \in {"entered", "waiting", "sent", "acked"} => Begun(d)
        BY Zenon, <1>0, <1>4 DEF Posts, Numbered
    <2>5. \A d \in Calls : Begun(d) => call'[d].seq \in 1..node'[Lone].nextSeq
        BY Zenon, <1>0, <2>1, <2>3 DEF Numbered
    <2> QED BY Zenon, <1>0, <2>1, <2>2, <2>3, <2>4, <2>5 DEF Numbered
<1>5. ASSUME NEW c \in Calls, Refuse(c, Lone) \/ Propose(c) \/ Return(c) \/ Cancel(c)
      PROVE  Numbered'
    <2>1. Stands
        BY Zenon, <1>5, StandingStep
    <2> QED BY Zenon, <1>4, <1>5, <2>1, PostStep DEF Stands
<1>6. ASSUME NEW c \in Calls, NEW b \in Buckets, Enter(c, Lone, b), node[Lone].closed
      PROVE  Numbered'
    BY Zenon, <1>4, <1>6, ClosedStep
<1>7. ASSUME NEW c \in Calls, NEW b \in Buckets,
             (Enter(c, Lone, b) /\ ~node[Lone].closed) \/ ProposeOnly(c, Lone, b)
      PROVE  Numbered'
    <2>1. Begins(c, b) /\ node'[Lone].nextSeq = node[Lone].nextSeq + 1
        BY Zenon, <1>7, BeginStep
    <2>2. node[Lone].nextSeq \in Nat /\ ~Begun(c) /\ Begun(c)'
        BY Zenon, <1>0, <2>1 DEF Numbered, Begins, Begun
    <2>3. \A d \in Calls : d # c => (Begun(d)' <=> Begun(d)) /\ call'[d] = call[d]
        BY Zenon, <2>1 DEF Begins, Begun
    <2>4. /\ node'[Lone].nextSeq \in Nat /\ call'[c].seq \in 1..node'[Lone].nextSeq
          /\ \A k \in 1..node[Lone].nextSeq : k \in 1..node'[Lone].nextSeq /\ k # call'[c].seq
        BY <2>1, <2>2 DEF Begins
    <2>5. ASSUME NEW d \in Calls
          PROVE  /\ call'[d].pc \in {"idle", "refused", "entered", "waiting", "sent", "acked", "failed"}
                 /\ call'[d].pc \in {"idle", "refused"} => ~Begun(d)'
                 /\ call'[d].pc \in {"entered", "waiting", "sent", "acked"} => Begun(d)'
        BY Zenon, <1>0, <2>1, <2>2, <2>3 DEF Begins, Numbered
    <2>6. \A d \in Calls : Begun(d)' => call'[d].seq \in 1..node'[Lone].nextSeq
        BY Zenon, <1>0, <2>3, <2>4 DEF Numbered
    <2>7. \A d, f \in Calls : Begun(d)' /\ Begun(f)' /\ call'[d].seq = call'[f].seq => d = f
        BY <1>0, <2>3, <2>4 DEF Numbered
    <2> QED BY Zenon, <1>0, <2>4, <2>5, <2>6, <2>7 DEF Numbered
<1> QED BY Zenon, <1>2, <1>3, <1>5, <1>6, <1>7 DEF LoneNext

LEMMA OwnStays == ASSUME Grows, NEW e, Own(e) PROVE Own(e)'
<1>1. CASE \E c \in Calls : Sent(c) /\ e = Record(c)
    <2>1. PICK c \in Calls : Sent(c) /\ e = Record(c)
        BY Zenon, <1>1
    <2>2. Sent(c)' /\ Record(c)' = Record(c)
        BY Zenon, <2>1, GrowsFacts
    <2> QED BY Zenon, <2>1, <2>2 DEF Own
<1>2. CASE e.kind # "app" /\ e.seq = 0
    BY Zenon, <1>2 DEF Own
<1> QED BY Zenon, <1>1, <1>2 DEF Own

LEMMA RecordFacts ==
    ASSUME NEW e, Own(e), e.kind = "app"
    PROVE  /\ e.call \in Calls /\ Sent(e.call) /\ e = Record(e.call)
           /\ e.bucket = call[e.call].bucket /\ e.seq = call[e.call].seq
BY DEF Own, Record, Entry

\* The record of a call that hands it on now is nowhere yet.
LEMMA FreshRecord ==
    ASSUME NEW c \in Calls, ~Sent(c), NEW e, Own(e), NEW q, NEW b, NEW n
    PROVE  e # Entry("app", c, q, b, n)
<1>1. ASSUME e = Entry("app", c, q, b, n) PROVE FALSE
    <2>1. e.kind = "app" /\ e.call = c
        BY Zenon, <1>1 DEF Entry
    <2> QED BY Zenon, <2>1, RecordFacts
<1> QED BY Zenon, <1>1

LEMMA Sends ==
    ASSUME InTransit, Counted, Grows, log' = log, NEW c \in Calls, ~Sent(c), Sent(c)',
           NEW q, NEW b, NEW n, Entry("app", c, q, b, n) = Record(c)',
           flying' = flying \cup {Entry("app", c, q, b, n)},
           Lone' = Lone, setting' = setting, node'[Lone].hist = node[Lone].hist
    PROVE  InTransit' /\ Counted'
<1> DEFINE r == Entry("app", c, q, b, n)
<1>1. Own(r)'
    BY Zenon DEF Own
<1>2. (\A e \in flying' : Own(e)') /\ (\A i \in DOMAIN log' : Own(log[i])')
    BY Zenon, <1>1, OwnStays DEF InTransit
<1>3. \A i \in DOMAIN log : log[i] # r
    BY Zenon, FreshRecord DEF InTransit
<1>4. InTransit'
    <2> HIDE DEF r
    <2> QED BY Zenon, <1>2, <1>3 DEF InTransit, r
<1>5. r.call = c
    BY Zenon DEF Entry
<1>6. ASSUME NEW h \in Range(node[Lone].hist)
      PROVE  /\ h.call \in Calls /\ Sent(h.call)' /\ h.bucket = call'[h.call].bucket
             /\ ~Etcd => \A e \in flying' : e.kind = "app" => e.call # h.call
    <2>1. h.call \in Calls /\ Sent(h.call) /\ h.bucket = call[h.call].bucket
        BY Zenon DEF Counted
    <2>2. Sent(h.call)' /\ call'[h.call].bucket = call[h.call].bucket
        BY Zenon, <2>1, GrowsFacts DEF Grows, Sent
    <2>3. h.call # c
        BY Zenon, <2>1
    <2> HIDE DEF r
    <2> QED BY Zenon, <1>5, <2>1, <2>2, <2>3 DEF Counted, r
<1>7. Counted'
    BY Zenon, <1>6 DEF Counted, Etcd
<1> QED BY Zenon, <1>4, <1>7

\* Steps that count nothing and send no record.
LEMMA TransitStays ==
    ASSUME InTransit, Counted, Grows, log' = log,
           \A e \in flying' : e \in flying \/ (e.kind # "app" /\ e.seq = 0),
           Lone' = Lone, setting' = setting, node'[Lone].hist = node[Lone].hist
    PROVE  InTransit' /\ Counted'
<1>1. \A e \in flying' : Own(e)'
    BY Zenon, OwnStays DEF InTransit, Own
<1>2. \A i \in DOMAIN log' : Own(log[i])'
    BY Zenon, OwnStays DEF InTransit
<1>3. InTransit'
    BY Zenon, <1>1, <1>2 DEF InTransit
<1>4. ASSUME NEW h \in Range(node[Lone].hist)
      PROVE  /\ h.call \in Calls /\ Sent(h.call)' /\ h.bucket = call'[h.call].bucket
             /\ ~Etcd => \A e \in flying' : e.kind = "app" => e.call # h.call
    <2>1. h.call \in Calls /\ Sent(h.call) /\ h.bucket = call[h.call].bucket
        BY Zenon DEF Counted
    <2>2. Sent(h.call)' /\ call'[h.call].bucket = call[h.call].bucket
        BY Zenon, <2>1, GrowsFacts DEF Grows, Sent
    <2> QED BY Zenon, <2>1, <2>2 DEF Counted
<1>5. Counted'
    BY Zenon, <1>4 DEF Counted, Etcd
<1> QED BY Zenon, <1>3, <1>5

LEMMA CommitTransit ==
    ASSUME AppendInv, Alone, Grows, CommitEntry
    PROVE  InTransit' /\ Counted'
<1>0. InTransit /\ Counted /\ LogIsSeq /\ Lone' = Lone /\ Etcd /\ setting' = setting /\ node' = node
    BY Zenon, LoneStays DEF AppendInv, CommitInv, MarkInv, CommitEntry
<1>1. PICK e \in flying : log' = Append(log, e) /\ flying' = flying \ {e}
    BY Zenon DEF CommitEntry
<1>2. /\ Len(log) \in Nat /\ DOMAIN log = 1..Len(log) /\ DOMAIN log' = 1..(Len(log) + 1)
      /\ \A i \in 1..Len(log) : log'[i] = log[i]
      /\ log'[Len(log) + 1] = e
    BY <1>0, <1>1, AppendFacts DEF LogIsSeq, IsSeq
<1>3. \A i \in DOMAIN log' : i \in DOMAIN log \/ (i = Len(log) + 1 /\ i \notin DOMAIN log)
    BY <1>2
<1>4. \A f \in flying : Own(f)'
    BY Zenon, <1>0, OwnStays DEF InTransit
<1>5. \A i \in DOMAIN log' : Own(log[i])'
    <2>1. ASSUME NEW i \in DOMAIN log' PROVE Own(log[i])'
        <3>1. PICK f : f = log'[i] /\ Own(f)
            BY Zenon, <1>0, <1>1, <1>2, <1>3 DEF InTransit
        <3>2. Own(f)'
            BY Zenon, <3>1, OwnStays
        <3> QED BY Zenon, <3>1, <3>2
    <2> QED BY Zenon, <2>1
<1>6. \A f \in flying', i \in DOMAIN log' : f.kind = "app" => log'[i] # f
    BY <1>0, <1>1, <1>2, <1>3 DEF InTransit
<1>7. \A i, j \in DOMAIN log' : log'[i].kind = "app" /\ log'[i] = log'[j] => i = j
    BY <1>0, <1>1, <1>2, <1>3 DEF InTransit
<1>8. InTransit'
    BY Zenon, <1>1, <1>4, <1>5, <1>6, <1>7 DEF InTransit
<1>9. ASSUME NEW h \in Range(node[Lone].hist)
      PROVE  h.call \in Calls /\ Sent(h.call)' /\ h.bucket = call'[h.call].bucket
    <2>1. h.call \in Calls /\ Sent(h.call) /\ h.bucket = call[h.call].bucket
        BY Zenon, <1>0 DEF Counted
    <2>2. Sent(h.call)' /\ call'[h.call].bucket = call[h.call].bucket
        BY Zenon, <2>1, GrowsFacts DEF Grows, Sent
    <2> QED BY Zenon, <2>1, <2>2
<1>10. Counted'
    BY Zenon, <1>0, <1>9 DEF Counted, Etcd
<1> QED BY Zenon, <1>8, <1>10

LEMMA TakeTransit ==
    ASSUME InTransit, Counted, IsSeq(node[Lone].hist), Lone' = Lone, setting' = setting,
           call' = call, log' = log, flying' \subseteq flying,
           NEW e, Own(e), e.kind = "app", ~Etcd => e \in flying \ flying',
           NEW h, h.call = e.call, h.bucket = e.bucket,
           node'[Lone].hist = Append(node[Lone].hist, h)
    PROVE  InTransit' /\ Counted'
<1>1. \A f : Own(f)' <=> Own(f)
    BY Zenon DEF Own, Record, Sent, Begun
<1>2. InTransit'
    BY Zenon, <1>1 DEF InTransit
<1>3. Range(node'[Lone].hist) = Range(node[Lone].hist) \cup {h}
    BY AppendFacts
<1>4. h.call \in Calls /\ Sent(h.call) /\ h.bucket = call[h.call].bucket /\ e = Record(h.call)
    BY Zenon, RecordFacts
<1>5. ASSUME ~Etcd, NEW f \in flying', f.kind = "app" PROVE f.call # h.call
    <2>1. f # e /\ f = Record(f.call)
        BY Zenon, <1>5, RecordFacts DEF InTransit
    <2> QED BY Zenon, <1>4, <2>1
<1>6. \A c : Sent(c)' <=> Sent(c)
    BY Zenon DEF Sent, Begun
<1>7. Counted'
    BY Zenon, <1>3, <1>4, <1>5, <1>6 DEF Counted, Etcd
<1> QED BY Zenon, <1>2, <1>7

\* What the two engines take: the next entry of the log, or one in flight.
LEMMA TakesOwn ==
    ASSUME AppendInv, Alone, ApplyEntry(Lone) \/ StubApply(Lone)
    PROVE  \/ UNCHANGED <<node, hand>>
           \/ \E i, left : ApplyConf(Lone, i, left)
           \/ \E e, i, left : /\ Take(Lone, e, i, left) /\ Own(e)
                              /\ ~Etcd => e \in flying \ flying'
                              /\ Etcd => i = node[Lone].cursor + 1 /\ i \in DOMAIN log /\ e = log[i]
<1>0. LogIsSeq /\ InTransit /\ node[Lone].cursor \in Nat
    BY Zenon, LoneIsAll DEF AppendInv, CommitInv, MarkInv, Marked
<1>1. CASE ApplyEntry(Lone)
    <2> DEFINE next == node[Lone].cursor + 1
    <2>1. PICK left : /\ Etcd /\ next <= Len(log)
                      /\ IF log[next].kind = "conf" THEN ApplyConf(Lone, next, left)
                         ELSE Take(Lone, log[next], next, left)
        BY Zenon, <1>1 DEF ApplyEntry
    <2>2. next \in DOMAIN log
        BY <1>0, <2>1 DEF LogIsSeq
    <2>3. Own(log[next])
        BY Zenon, <1>0, <2>2 DEF InTransit
    <2>4. PICK nx : nx = node[Lone].cursor + 1 /\ nx = next
        BY Zenon
    <2> HIDE DEF next
    <2> QED BY Zenon, <2>1, <2>2, <2>3, <2>4
<1>2. CASE StubApply(Lone)
    <2>1. PICK e \in flying :
             /\ ~Etcd /\ flying' = flying \ {e}
             /\ IF node[Lone].closed THEN UNCHANGED <<node, hand>> ELSE Take(Lone, e, e.seq, 0)
        BY Zenon, <1>2 DEF StubApply
    <2>2. Own(e) /\ e \in flying \ flying'
        BY Zenon, <1>0, <2>1 DEF InTransit
    <2> QED BY Zenon, <2>1, <2>2
<1> QED BY Zenon, <1>1, <1>2

LEMMA TransitStep ==
    ASSUME AppendInv, Alone, LoneNext, setting' = setting
    PROVE  InTransit' /\ Counted'
<1>0. InTransit /\ Counted /\ Lone' = Lone /\ Grows /\ IsSeq(node[Lone].hist) /\ Numbered
    BY Zenon, LoneStays, CallsGrow, LoneShape DEF AppendInv, Ledger
<1>1. CASE CommitEntry
    BY Zenon, <1>0, <1>1, CommitTransit
<1>2. CASE Elect(Lone)
    <2>1. \A e \in flying' : e \in flying \/ (e.kind # "app" /\ e.seq = 0)
        BY <1>2 DEF Elect, Noop, Entry
    <2>2. log' = log /\ node'[Lone].hist = node[Lone].hist
        BY Zenon, <1>2 DEF Elect
    <2> QED BY Zenon, <1>0, <2>1, <2>2, TransitStays
<1>3. CASE \/ UNCHANGED vars \/ Hear(Lone) \/ CloseWaiters(Lone) \/ (\E fatal : Signal(Lone, fatal))
           \/ Consume(Lone) \/ SetReplicationHandler(Lone) \/ Close(Lone)
           \/ \E c \in Calls : Refuse(c, Lone) \/ Return(c) \/ Cancel(c)
    <2>1. flying' = flying /\ log' = log
        BY Zenon, <1>3 DEF vars, Hear, CloseWaiters, Signal, Consume, SetReplicationHandler, Close, Refuse,
                    Return, Cancel
    <2>2. Stands
        BY Zenon, <1>3, StandingStep
    <2> QED BY Zenon, <1>0, <2>1, <2>2, TransitStays DEF Stands
<1>4. CASE ApplyEntry(Lone) \/ StubApply(Lone)
    <2>1. call' = call /\ log' = log /\ flying' \subseteq flying
        BY Zenon, <1>4 DEF ApplyEntry, StubApply
    <2>2. ASSUME node'[Lone].hist = node[Lone].hist PROVE InTransit' /\ Counted'
        BY Zenon, <1>0, <2>1, <2>2, TransitStays
    <2>3. ASSUME NEW i, NEW left, ApplyConf(Lone, i, left) PROVE InTransit' /\ Counted'
        <3>1. node'[Lone].hist = node[Lone].hist
            BY Zenon, <2>3, LoneShape DEF ApplyConf, Fields
        <3> QED BY Zenon, <2>2, <3>1
    <2>4. ASSUME NEW e, NEW i, NEW left, Take(Lone, e, i, left), Own(e), ~Etcd => e \in flying \ flying'
          PROVE  InTransit' /\ Counted'
        <3>1. CASE e.kind # "app"
            BY Zenon, <2>2, <2>4, <3>1, TakeMoves
        <3>2. CASE e.kind = "app"
            <4>1. PICK h : h = [idx |-> i, call |-> e.call, bucket |-> e.bucket, commit |-> NextCommit(Lone, e)]
                BY Zenon
            <4>2. node'[Lone].hist = Append(node[Lone].hist, h)
                BY Zenon, <2>4, <3>2, <4>1, TakeMoves
            <4>3. h.call = e.call /\ h.bucket = e.bucket
                BY Zenon, <4>1
            <4> QED BY Zenon, <1>0, <2>1, <2>4, <3>2, <4>2, <4>3, TakeTransit
        <3> QED BY Zenon, <3>1, <3>2
    <2> QED BY Zenon, <1>4, <2>2, <2>3, <2>4, TakesOwn
<1>5. ASSUME NEW c \in Calls, Propose(c) PROVE InTransit' /\ Counted'
    <2>1. /\ log' = log
          /\ \/ flying' = flying
             \/ flying' = flying \cup {Entry("app", c, call[c].seq, call[c].bucket, call[c].node)}
        BY Zenon, <1>5 DEF Propose
    <2>2. /\ Posts(c) /\ call'[c].node = call[c].node
          /\ call[c].pc = "entered" /\ call'[c].pc # "entered" /\ Begun(c)
        BY Zenon, <1>0, <1>5, PostStep DEF Numbered
    <2>3. /\ ~Sent(c) /\ Sent(c)'
          /\ Entry("app", c, call[c].seq, call[c].bucket, call[c].node) = Record(c)'
        BY Zenon, <2>2 DEF Posts, Sent, Begun, Record
    <2>4. Stands
        BY Zenon, <1>5, StandingStep
    <2>5. CASE flying' = flying
        BY Zenon, <1>0, <2>1, <2>4, <2>5, TransitStays DEF Stands
    <2>6. ASSUME NEW q, NEW b, NEW n, q = call[c].seq, b = call[c].bucket, n = call[c].node,
                 flying' = flying \cup {Entry("app", c, q, b, n)}
          PROVE  InTransit' /\ Counted'
        BY Zenon, <1>0, <2>1, <2>3, <2>4, <2>6, Sends DEF Stands
    <2> QED BY Zenon, <2>1, <2>5, <2>6
<1>6. ASSUME NEW c \in Calls, NEW b \in Buckets, ProposeOnly(c, Lone, b) PROVE InTransit' /\ Counted'
    <2>1. PICK q, n : q = node[Lone].nextSeq + 1 /\ n = Lone
        BY Zenon
    <2>2. log' = log /\ flying' = flying \cup {Entry("app", c, q, b, n)}
        BY Zenon, <1>6, <2>1 DEF ProposeOnly
    <2>3. Begins(c, b) /\ node'[Lone].hist = node[Lone].hist /\ call'[c].pc = "sent"
        BY Zenon, <1>6, BeginStep
    <2>4. ~Begun(c) /\ Sent(c)' /\ Entry("app", c, q, b, n) = Record(c)'
        BY Zenon, <1>0, <2>1, <2>3 DEF Begins, Numbered, Sent, Begun, Record
    <2> QED BY Zenon, <1>0, <2>2, <2>3, <2>4, Sends DEF Sent
<1>7. ASSUME NEW c \in Calls, NEW b \in Buckets, Enter(c, Lone, b) PROVE InTransit' /\ Counted'
    <2>1. log' = log /\ flying' = flying
        BY Zenon, <1>7 DEF Enter
    <2>2. node'[Lone].hist = node[Lone].hist
        BY Zenon, <1>7, BeginStep, ClosedStep
    <2> QED BY Zenon, <1>0, <2>1, <2>2, TransitStays
<1> QED BY Zenon, <1>1, <1>2, <1>3, <1>4, <1>5, <1>6, <1>7 DEF LoneNext

LEMMA RegisteredStep ==
    ASSUME AppendInv, Alone, LoneNext, setting' = setting
    PROVE  Registered'
<1>0. Registered /\ Lone' = Lone /\ Grows /\ Numbered
    BY Zenon, LoneStays, CallsGrow DEF AppendInv
<1>1. ASSUME NEW w \in node[Lone].waiters \cup node[Lone].taken
      PROVE  \E c \in Calls : Begun(c)' /\ w = <<call'[c].seq, c>>
    <2>1. PICK c \in Calls : Begun(c) /\ w = <<call[c].seq, c>>
        BY Zenon, <1>0 DEF Registered
    <2>2. Begun(c)' /\ call'[c].seq = call[c].seq
        BY Zenon, <1>0, <2>1, GrowsFacts
    <2> QED BY Zenon, <2>1, <2>2
<1>2. ASSUME node'[Lone].waiters \cup node'[Lone].taken \subseteq node[Lone].waiters \cup node[Lone].taken
      PROVE  Registered'
    BY Zenon, <1>0, <1>1, <1>2 DEF Registered
<1>3. CASE \/ UNCHANGED vars \/ CommitEntry \/ Elect(Lone) \/ Hear(Lone) \/ CloseWaiters(Lone)
           \/ (\E fatal : Signal(Lone, fatal))
           \/ Consume(Lone) \/ SetReplicationHandler(Lone) \/ Close(Lone)
           \/ \E c \in Calls : Refuse(c, Lone) \/ Propose(c) \/ Return(c) \/ Cancel(c)
    <2>1. Stands
        BY Zenon, <1>3, StandingStep
    <2> QED BY Zenon, <1>2, <2>1 DEF Stands
<1>4. CASE ApplyEntry(Lone) \/ StubApply(Lone)
    <2>1. ASSUME NEW i, NEW left, ApplyConf(Lone, i, left)
          PROVE  node'[Lone].waiters = node[Lone].waiters /\ node'[Lone].taken = node[Lone].taken
        BY Zenon, <2>1, LoneShape DEF ApplyConf, Fields
    <2>2. ASSUME NEW e, NEW i, NEW left, Take(Lone, e, i, left)
          PROVE  node'[Lone].waiters \subseteq node[Lone].waiters /\ node'[Lone].taken = node[Lone].taken
        BY Zenon, <2>2, TakeMoves
    <2>3. \/ node' = node \/ \E i, left : ApplyConf(Lone, i, left)
          \/ \E e, i, left : Take(Lone, e, i, left)
        BY Zenon, <1>4, TakesOwn
    <2>4. node'[Lone].waiters \subseteq node[Lone].waiters /\ node'[Lone].taken = node[Lone].taken
        BY Zenon, <2>1, <2>2, <2>3
    <2> QED BY Zenon, <1>2, <2>4
<1>5. ASSUME NEW c \in Calls, NEW b \in Buckets, Enter(c, Lone, b) /\ node[Lone].closed
      PROVE  Registered'
    BY Zenon, <1>2, <1>5, ClosedStep
<1>6. ASSUME NEW c \in Calls, NEW b \in Buckets,
             (Enter(c, Lone, b) /\ ~node[Lone].closed) \/ ProposeOnly(c, Lone, b)
      PROVE  Registered'
    <2>1. /\ Begins(c, b)
          /\ node'[Lone].waiters \cup node'[Lone].taken \subseteq
                  node[Lone].waiters \cup node[Lone].taken \cup {<<node[Lone].nextSeq + 1, c>>}
        BY Zenon, <1>6, BeginStep
    <2>2. Begun(c)' /\ <<node[Lone].nextSeq + 1, c>> = <<call'[c].seq, c>>
        BY Zenon, <2>1 DEF Begins, Begun
    <2> QED BY Zenon, <1>0, <1>1, <2>1, <2>2 DEF Registered
<1> QED BY Zenon, <1>3, <1>4, <1>5, <1>6 DEF LoneNext

\* A record is counted for the call that waits for it.
LEMMA TakeAnswers ==
    ASSUME AppendInv, Alone, setting' = setting, call' = call, ch' = ch,
           NEW e, NEW i, NEW left, Take(Lone, e, i, left), Own(e)
    PROVE  Answers'
<1>0. /\ Answers /\ Lone' = Lone /\ Numbered /\ Registered /\ IsSeq(node[Lone].hist)
    BY Zenon, LoneStays, LoneShape DEF AppendInv, Ledger
<1>a. PICK g : g = [idx |-> i, app |-> e.kind = "app",
                    commit |-> IF e.kind = "app" THEN NextCommit(Lone, e) ELSE 0,
                    waiters |-> {w[2] : w \in WaiterOf(Lone, e.seq)}]
    BY Zenon
<1>b. PICK h : h = [idx |-> i, call |-> e.call, bucket |-> e.bucket, commit |-> NextCommit(Lone, e)]
    BY Zenon
<1>1. /\ hand'[Lone] = hand[Lone] \cup {g}
      /\ e.kind # "app" => node'[Lone].hist = node[Lone].hist
      /\ e.kind = "app" => node'[Lone].hist = Append(node[Lone].hist, h)
    BY Zenon, <1>a, <1>b, TakeMoves
<1>2. /\ h.call = e.call /\ (e.kind = "app" => h.commit = g.commit)
      /\ g.waiters = {w[2] : w \in WaiterOf(Lone, e.seq)}
    BY Zenon, <1>a, <1>b
<1>3. /\ Range(node[Lone].hist) \subseteq Range(node'[Lone].hist)
      /\ e.kind = "app" => h \in Range(node'[Lone].hist)
    <2>1. CASE e.kind = "app"
        <3>1. Range(Append(node[Lone].hist, h)) = Range(node[Lone].hist) \cup {h}
            BY Zenon, <1>0, AppendFacts
        <3> QED BY Zenon, <1>1, <2>1, <3>1
    <2>2. CASE e.kind # "app"
        BY Zenon, <1>1, <2>2
    <2> QED BY Zenon, <2>1, <2>2
<1>4. \A c, j : HasPlace(c, j) => HasPlace(c, j)'
    BY Zenon, <1>0, <1>3 DEF HasPlace
<1>5. ASSUME NEW c \in g.waiters PROVE c \in Calls /\ HasPlace(c, g.commit)'
    <2>1. PICK w \in node[Lone].waiters : w[1] = e.seq /\ w[2] = c
        BY Zenon, <1>2 DEF WaiterOf
    <2>2. PICK d \in Calls : Begun(d) /\ w = <<call[d].seq, d>>
        BY Zenon, <1>0 DEF Registered
    <2>3. d = c /\ call[c].seq = e.seq /\ call[c].seq \in 1..node[Lone].nextSeq
        BY Zenon, <1>0, <2>1, <2>2 DEF Numbered
    <2>4. node[Lone].nextSeq \in Nat
        BY Zenon, <1>0 DEF Numbered
    <2>5. e.seq # 0
        BY <2>3, <2>4
    <2>6. e.kind = "app"
        BY <2>5, RecordFacts DEF Own, Record, Entry
    <2>7. e.call \in Calls /\ Begun(e.call) /\ e.seq = call[e.call].seq
        BY Zenon, <2>6, RecordFacts DEF Sent
    <2>8. e.call = c
        BY Zenon, <1>0, <2>2, <2>3, <2>7 DEF Numbered
    <2>9. h \in Range(node'[Lone].hist) /\ h.call = c /\ h.commit = g.commit
        BY Zenon, <1>2, <1>3, <2>6, <2>8
    <2> QED BY Zenon, <1>0, <2>2, <2>3, <2>9 DEF HasPlace
<1>6. \A x \in hand'[Lone] : \A c \in x.waiters : c \in Calls /\ HasPlace(c, x.commit)'
    BY Zenon, <1>0, <1>1, <1>4, <1>5 DEF Answers
<1>7. \A c \in Calls : \/ ch'[c] = <<>> \/ ch'[c] = <<Nil>>
                       \/ (ch'[c] = <<Head(ch'[c])>> /\ HasPlace(c, Head(ch[c]).commit)')
    BY Zenon, <1>0, <1>4 DEF Answers
<1> QED BY Zenon, <1>0, <1>6, <1>7 DEF Answers

LEMMA AnswersStep ==
    ASSUME AppendInv, Alone, LoneNext, setting' = setting
    PROVE  Answers'
<1>0. /\ Answers /\ Lone' = Lone /\ Lone \in Nodes /\ ch = [c \in Calls |-> ch[c]]
      /\ hand = [n \in Nodes |-> hand[n]]
    BY Zenon, LoneStays, LoneShape DEF AppendInv, CallShape
<1>1. ASSUME node'[Lone].hist = node[Lone].hist,
             \A h \in hand'[Lone] : h \in hand[Lone] \/ h.waiters = {},
             \A c \in Calls : \/ ch'[c] = ch[c] \/ ch'[c] = <<>> \/ ch'[c] = <<Nil>>
                              \/ \E h \in hand[Lone] : \E r : /\ c \in h.waiters /\ ch'[c] = <<r>>
                                                              /\ r.commit = h.commit
      PROVE  Answers'
    <2>1. \A c, k : HasPlace(c, k)' <=> HasPlace(c, k)
        BY Zenon, <1>0, <1>1 DEF HasPlace
    <2>2. \A h \in hand'[Lone] : \A c \in h.waiters : c \in Calls /\ HasPlace(c, h.commit)'
        BY Zenon, <1>0, <1>1, <2>1 DEF Answers
    <2>3. ASSUME NEW c \in Calls
          PROVE  \/ ch'[c] = <<>> \/ ch'[c] = <<Nil>>
                 \/ (ch'[c] = <<Head(ch'[c])>> /\ HasPlace(c, Head(ch[c]).commit)')
        <3>1. CASE ch'[c] = ch[c]
            BY Zenon, <1>0, <2>1, <3>1 DEF Answers
        <3>2. ASSUME NEW h \in hand[Lone], NEW r, c \in h.waiters, ch'[c] = <<r>>, r.commit = h.commit
              PROVE  ch'[c] = <<Head(ch'[c])>> /\ HasPlace(c, Head(ch[c]).commit)'
            <4>1. Head(ch'[c]) = r
                BY <3>2
            <4>2. HasPlace(c, r.commit)'
                BY Zenon, <1>0, <2>1, <3>2 DEF Answers
            <4> QED BY Zenon, <3>2, <4>1, <4>2
        <3> QED BY Zenon, <1>1, <3>1, <3>2
    <2> QED BY Zenon, <1>0, <2>2, <2>3 DEF Answers
<1>2. ASSUME UNCHANGED <<hand, ch>>, node'[Lone].hist = node[Lone].hist PROVE Answers'
    BY Zenon, <1>1, <1>2
<1>3. CASE \/ UNCHANGED vars \/ CommitEntry \/ Elect(Lone) \/ Hear(Lone)
           \/ Consume(Lone) \/ SetReplicationHandler(Lone) \/ Close(Lone)
           \/ \E c \in Calls : Refuse(c, Lone) \/ Propose(c) \/ Cancel(c)
    <2>1. UNCHANGED <<hand, ch>>
        BY Zenon, <1>3 DEF vars, CommitEntry, Elect, Hear, Consume, SetReplicationHandler, Close, Refuse,
                    Propose, Cancel
    <2>2. Stands
        BY Zenon, <1>3, StandingStep
    <2> QED BY Zenon, <1>2, <2>1, <2>2 DEF Stands
<1>4. CASE CloseWaiters(Lone)
    <2>1. /\ hand' = hand
          /\ \A c \in Calls : ch'[c] = ch[c] \/ ch'[c] = <<Nil>>
        BY Zenon, <1>0, <1>4 DEF CloseWaiters
    <2>2. Stands
        BY Zenon, <1>4, StandingStep
    <2> QED BY Zenon, <1>1, <2>1, <2>2 DEF Stands
<1>5. ASSUME NEW fatal, Signal(Lone, fatal) PROVE Answers'
    <2>1. PICK h \in hand[Lone] :
              LET told == IF fatal THEN Nil ELSE [commit |-> h.commit, idx |-> h.idx] IN
              /\ hand' = [hand EXCEPT ![Lone] = @ \ {h}]
              /\ ch' = [c \in Calls |-> IF c \in h.waiters THEN <<told>> ELSE ch[c]]
        BY Zenon, <1>5 DEF Signal
    <2>2. PICK told : /\ told = Nil \/ told.commit = h.commit
                      /\ ch' = [c \in Calls |-> IF c \in h.waiters THEN <<told>> ELSE ch[c]]
        <3> DEFINE t == IF fatal THEN Nil ELSE [commit |-> h.commit, idx |-> h.idx]
        <3>1. t = Nil \/ t.commit = h.commit
            BY Zenon
        <3>2. ch' = [c \in Calls |-> IF c \in h.waiters THEN <<t>> ELSE ch[c]]
            BY Zenon, <2>1
        <3> HIDE DEF t
        <3> QED BY Zenon, <3>1, <3>2
    <2>3. hand'[Lone] = hand[Lone] \ {h}
        BY Zenon, <1>0, <2>1
    <2>4. Stands
        BY Zenon, <1>5, StandingStep
    <2> QED BY Zenon, <1>1, <2>2, <2>3, <2>4 DEF Stands
<1>6. ASSUME NEW c \in Calls, Return(c) PROVE Answers'
    <2>1. /\ ch[c] # <<>> /\ hand' = hand
          /\ ch' = [ch EXCEPT ![c] = Tail(@)]
        BY Zenon, <1>6 DEF Return
    <2>2. PICK r : ch[c] = <<r>>
        BY Zenon, <1>0, <2>1 DEF Answers
    <2>3. Tail(<<r>>) = <<>>
        OBVIOUS
    <2>4. \A d \in Calls : ch'[d] = ch[d] \/ ch'[d] = <<>>
        BY Zenon, <1>0, <2>1, <2>2, <2>3
    <2>5. Stands
        BY Zenon, <1>6, StandingStep
    <2> QED BY Zenon, <1>1, <2>1, <2>4, <2>5 DEF Stands
<1>7. CASE ApplyEntry(Lone) \/ StubApply(Lone)
    <2>1. call' = call /\ ch' = ch
        BY Zenon, <1>7 DEF ApplyEntry, StubApply
    <2>2. ASSUME NEW i, NEW left, ApplyConf(Lone, i, left) PROVE Answers'
        <3>1. node'[Lone].hist = node[Lone].hist
            BY <2>2, LoneShape DEF ApplyConf, Fields
        <3>2. hand'[Lone] = {[idx |-> i, app |-> FALSE, commit |-> 0, waiters |-> {}]}
            BY Zenon, <1>0, <2>2 DEF ApplyConf
        <3>3. \A h \in hand'[Lone] : h.waiters = {}
            BY <3>2
        <3> QED BY Zenon, <1>1, <2>1, <3>1, <3>3
    <2>3. ASSUME NEW e, NEW i, NEW left, Take(Lone, e, i, left), Own(e) PROVE Answers'
        BY Zenon, <2>1, <2>3, TakeAnswers
    <2>4. ASSUME UNCHANGED <<node, hand>> PROVE Answers'
        BY Zenon, <1>2, <2>1, <2>4
    <2> QED BY Zenon, <1>7, <2>2, <2>3, <2>4, TakesOwn
<1>8. ASSUME NEW c \in Calls, NEW b \in Buckets, Enter(c, Lone, b) \/ ProposeOnly(c, Lone, b)
      PROVE  Answers'
    <2>1. UNCHANGED <<hand, ch>>
        BY Zenon, <1>8 DEF Enter, ProposeOnly
    <2>2. node'[Lone].hist = node[Lone].hist
        BY Zenon, <1>8, BeginStep, ClosedStep
    <2> QED BY Zenon, <1>2, <2>1, <2>2
<1> QED BY Zenon, <1>3, <1>4, <1>5, <1>6, <1>7, <1>8 DEF LoneNext

LEMMA AppendInit == Init => AppendInv
<1> SUFFICES ASSUME Init PROVE AppendInv
    BY Zenon
<1>1. CommitInv /\ setting \in Settings /\ restarts = 0
    BY Zenon, CommitInit DEF Init
<1>2. ASSUME Alone PROVE Numbered /\ InTransit /\ Counted /\ Registered /\ Answers
    <2>1. Lone \in Nodes
        BY Zenon, <1>1, <1>2, LoneIsAll
    <2>2. /\ node[Lone].nextSeq = 0 /\ node[Lone].waiters = {} /\ node[Lone].taken = {}
          /\ node[Lone].hist = <<>> /\ hand[Lone] = {} /\ flying = {}
          /\ \A c \in Calls : call[c].pc = "idle" /\ call[c].bucket = NoBucket /\ ch[c] = <<>>
        BY Zenon, <2>1 DEF Init, NewShardRaftNode, Idle
    <2>3. \A c \in Calls : ~Begun(c)
        BY Zenon, <2>2, BucketAssumption DEF Begun
    <2>4. Numbered
        BY <2>2, <2>3 DEF Numbered
    <2>5. DOMAIN <<>> = {} /\ DOMAIN <<Conf>> = {1} /\ <<Conf>>[1] = Conf
        OBVIOUS
    <2>6. Conf.kind # "app" /\ Conf.seq = 0
        BY Zenon DEF Conf, Entry
    <2>7. \A i \in DOMAIN log : log[i] = Conf
        BY Zenon, <2>5 DEF Init
    <2>8. InTransit
        BY Zenon, <2>2, <2>6, <2>7 DEF InTransit, Own
    <2>9. Counted /\ Registered /\ Answers
        BY Zenon, <2>2, <2>5 DEF Counted, Registered, Answers, Range
    <2> QED BY Zenon, <2>4, <2>8, <2>9
<1> QED BY Zenon, <1>1, <1>2 DEF AppendInv

LEMMA AppendStep ==
    ASSUME AppendInv, [Next]_vars
    PROVE  AppendInv'
<1>1. CommitInv' /\ setting' = setting /\ setting' \in Settings /\ (Alone' <=> Alone)
    BY Zenon, CommitStep, LogGrows, LoneStays DEF AppendInv
<1>2. ASSUME Alone PROVE restarts' = 0
    <2>1. LoneNext
        BY Zenon, <1>2, LoneStep
    <2>2. restarts' = restarts
        BY ZenonT(40), <2>1 DEF LoneNext, vars, CommitEntry, Elect, Hear, ApplyEntry, StubApply, CloseWaiters, Signal,
            Consume, SetReplicationHandler, Close, Refuse, Propose, Return, Cancel, Enter, ProposeOnly
    <2> QED BY Zenon, <1>2, <2>2 DEF AppendInv
<1>3. ASSUME Alone PROVE (Numbered /\ InTransit /\ Counted /\ Registered /\ Answers)'
    BY Zenon, <1>1, <1>3, LoneStep, NumberedStep, TransitStep, RegisteredStep, AnswersStep
<1> QED BY Zenon, <1>1, <1>2, <1>3 DEF AppendInv

\* A commit index names one record of its bucket.
LEMMA OnePlace ==
    ASSUME NEW s, IsSeq(s), NEW b,
           \A i \in DOMAIN s : s[i].bucket = b => s[i].commit \in Nat,
           \A i, j \in {x \in DOMAIN s : s[x].bucket = b} : i < j => s[i].commit < s[j].commit,
           NEW h \in Range(s), h.bucket = b
    PROVE  (CHOOSE g \in Range(s) : g.bucket = b /\ g.commit = h.commit) = h
<1>1. \A i \in DOMAIN s : i \in Nat
    BY DEF IsSeq
<1>2. ASSUME NEW g \in Range(s), g.bucket = b, g.commit = h.commit PROVE g = h
    <2>1. PICK i \in DOMAIN s : s[i] = g
        BY Zenon DEF Range
    <2>2. PICK j \in DOMAIN s : s[j] = h
        BY Zenon DEF Range
    <2>3. ~(i < j) /\ ~(j < i)
        BY <1>2, <2>1, <2>2
    <2> QED BY <1>1, <2>1, <2>2, <2>3
<1> QED BY Zenon, <1>2

LEMMA Placed ==
    ASSUME AppendInv, Alone
    PROVE  /\ node[Lone].commit \in [Buckets -> Nat] /\ IsSeq(node[Lone].hist)
           /\ \A b \in Buckets : \A i \in DOMAIN node[Lone].hist :
                  node[Lone].hist[i].bucket = b => node[Lone].hist[i].commit \in Nat
           /\ \A h \in Range(node[Lone].hist) :
                  /\ h.bucket \in Buckets /\ h.call \in Calls /\ h.commit \in 1..node[Lone].commit[h.bucket]
                  /\ AtPlace(h.bucket, h.commit) = h
           /\ \A b \in Buckets : \A k \in 1..node[Lone].commit[b] :
                  /\ AtPlace(b, k) \in Range(node[Lone].hist)
                  /\ AtPlace(b, k).bucket = b /\ AtPlace(b, k).commit = k
<1> DEFINE s == node[Lone].hist
<1>0. /\ Ledger(Lone) /\ (\A b \in Buckets : Dense(Lone, b)) /\ Counted
    BY Zenon, LoneShape DEF AppendInv
<1>1. /\ node[Lone].commit \in [Buckets -> Nat] /\ IsSeq(s)
      /\ \A h \in Range(s) : h.bucket \in Buckets /\ h.commit \in Nat /\ h.call \in Calls
    BY Zenon, <1>0 DEF Ledger, Counted
<1>2. \A i \in DOMAIN s : s[i] \in Range(s)
    BY Zenon DEF Range
<1>3. \A b \in Buckets : \A i, j \in {x \in DOMAIN s : s[x].bucket = b} : i < j => s[i].commit < s[j].commit
    BY Zenon, <1>0 DEF Dense
<1>4. ASSUME NEW h \in Range(s)
      PROVE  /\ h.commit \in 1..node[Lone].commit[h.bucket]
             /\ AtPlace(h.bucket, h.commit) = h
    <2>1. PICK i \in DOMAIN s : s[i] = h
        BY Zenon DEF Range
    <2>2. h.commit \in 1..node[Lone].commit[h.bucket]
        BY <1>0, <1>1, <2>1 DEF Dense
    <2> HIDE DEF s
    <2>3. (CHOOSE g \in Range(s) : g.bucket = h.bucket /\ g.commit = h.commit) = h
        BY <1>1, <1>2, <1>3, OnePlace
    <2> QED BY Zenon, <2>2, <2>3 DEF AtPlace, s
<1>5. ASSUME NEW b \in Buckets, NEW k \in 1..node[Lone].commit[b]
      PROVE  AtPlace(b, k) \in Range(s) /\ AtPlace(b, k).bucket = b /\ AtPlace(b, k).commit = k
    <2>1. PICK i \in DOMAIN s : s[i].bucket = b /\ s[i].commit = k
        BY Zenon, <1>0 DEF Dense
    <2>2. \E h \in Range(s) : h.bucket = b /\ h.commit = k
        BY Zenon, <1>2, <2>1
    <2> QED BY Zenon, <2>2 DEF AtPlace
<1> QED BY Zenon, <1>1, <1>2, <1>4, <1>5

\* Counting a record places it at the end of its bucket, and nothing else moves.
LEMMA OrderGrows ==
    ASSUME AppendInv, Alone, Lone' = Lone, NEW h, NEW B \in Buckets, h.bucket = B, h.call \in Calls,
           h.commit = node[Lone].commit[B] + 1,
           node'[Lone].hist = Append(node[Lone].hist, h),
           node'[Lone].commit = [node[Lone].commit EXCEPT ![B] = h.commit]
    PROVE  Order' = [Order EXCEPT ![B] = Append(@, h.call)]
<1> DEFINE s == node[Lone].hist
           cm == node[Lone].commit
           t == Append(s, h)
<1>1. /\ cm \in [Buckets -> Nat] /\ IsSeq(s) /\ h.commit \in Nat \ {0}
      /\ \A g \in Range(s) : g.bucket \in Buckets /\ g.call \in Calls /\ g.commit \in 1..cm[g.bucket]
    BY Placed
<1>2. /\ IsSeq(t) /\ Range(t) = Range(s) \cup {h}
      /\ Len(s) \in Nat /\ DOMAIN s = 1..Len(s) /\ DOMAIN t = 1..(Len(s) + 1)
      /\ \A i \in 1..Len(s) : t[i] = s[i]
      /\ t[Len(s) + 1] = h
    BY <1>1, AppendFacts
<1>3. \A b \in Buckets : \A i, j \in {x \in DOMAIN s : s[x].bucket = b} : i < j => s[i].commit < s[j].commit
    BY Zenon, LoneShape DEF Dense
<1>4. \A i \in DOMAIN s : s[i] \in Range(s)
    BY Zenon DEF Range
<1>5. \A i \in DOMAIN t : i \in DOMAIN s \/ i = Len(s) + 1
    BY <1>2
<1>6. \A b \in Buckets : \A i \in DOMAIN t : t[i].bucket = b => t[i].commit \in Nat
    BY SMTT(30), <1>1, <1>2, <1>4, <1>5
<1>7. ASSUME NEW b \in Buckets, NEW i \in DOMAIN t, NEW j \in DOMAIN t, t[i].bucket = b, t[j].bucket = b, i < j
      PROVE  t[i].commit < t[j].commit
    <2>a. i \in DOMAIN s
        BY <1>2, <1>7
    <2>b. t[i] = s[i] /\ s[i] \in Range(s) /\ s[i].bucket = b
        BY Zenon, <1>2, <1>4, <1>7, <2>a
    <2>1. i \in DOMAIN s /\ t[i] = s[i] /\ s[i].commit \in 1..cm[b]
        BY Zenon, <1>1, <2>a, <2>b
    <2>2. CASE j \in DOMAIN s
        BY SMTT(30), <1>2, <1>3, <1>7, <2>1, <2>2
    <2>3. CASE j = Len(s) + 1
        <3>1. b = B /\ t[j].commit = cm[B] + 1 /\ cm[B] \in Nat
            BY Zenon, <1>1, <1>2, <1>7, <2>3
        <3> QED BY SMTT(30), <2>1, <3>1
    <2> QED BY Zenon, <1>5, <2>2, <2>3
<1>8. ASSUME NEW g \in Range(t), g.bucket \in Buckets
      PROVE  (CHOOSE x \in Range(t) : x.bucket = g.bucket /\ x.commit = g.commit) = g
    <2> HIDE DEF t
    <2> QED BY <1>2, <1>6, <1>7, <1>8, OnePlace
<1>9. ASSUME NEW b \in Buckets, NEW k \in 1..cm[b] PROVE AtPlace(b, k)' = AtPlace(b, k)
    <2>1. PICK g \in Range(s) : g = AtPlace(b, k) /\ g.bucket = b /\ g.commit = k
        BY Placed
    <2>2. (CHOOSE x \in Range(t) : x.bucket = b /\ x.commit = k) = g
        BY <1>2, <1>8, <2>1
    <2> QED BY Zenon, <2>1, <2>2 DEF AtPlace
<1>10. AtPlace(B, h.commit)' = h
    <2>1. (CHOOSE x \in Range(t) : x.bucket = B /\ x.commit = h.commit) = h
        BY <1>2, <1>8
    <2> QED BY Zenon, <2>1 DEF AtPlace
<1>11. Order = [b \in Buckets |-> Order[b]] /\ \A b \in Buckets : Order[b] = [k \in 1..cm[b] |-> AtPlace(b, k).call]
    BY Zenon DEF Order
<1>12. /\ Order' = [b \in Buckets |-> Order'[b]]
       /\ \A b \in Buckets : Order'[b] = [k \in 1..node'[Lone].commit[b] |-> AtPlace(b, k)'.call]
    BY Zenon DEF Order
<1>13. ASSUME NEW b \in Buckets, b # B PROVE Order'[b] = Order[b]
    <2>1. PICK n : n = cm[b] /\ node'[Lone].commit[b] = n
        BY Zenon, <1>1, <1>13
    <2>2. PICK f : f = [k \in 1..n |-> AtPlace(b, k).call] /\ Order[b] = f
        BY Zenon, <1>11, <2>1
    <2>3. PICK g : g = [k \in 1..n |-> AtPlace(b, k)'.call] /\ Order'[b] = g
        BY Zenon, <1>12, <2>1
    <2>4. \A k \in 1..n : g[k] = f[k]
        BY <1>9, <2>1, <2>2, <2>3
    <2> QED BY <2>2, <2>3, <2>4
<1>14. Order'[B] = Append(Order[B], h.call)
    <2>1. PICK n \in Nat : n = cm[B] /\ h.commit = n + 1 /\ node'[Lone].commit[B] = n + 1
        BY Zenon, <1>1
    <2>2. Order[B] = [k \in 1..n |-> AtPlace(B, k).call]
        BY Zenon, <1>11, <2>1
    <2>3. \A k \in 1..n : AtPlace(B, k).call \in Calls
        BY Zenon, <1>1, <2>1, Placed
    <2>4. Order[B] \in Seq(Calls) /\ Len(Order[B]) = n
        BY <2>2, <2>3
    <2>5. Order'[B] = [k \in 1..(n + 1) |-> AtPlace(B, k)'.call]
        BY Zenon, <1>12, <2>1
    <2>6. \A k \in 1..n : Order'[B][k] = Order[B][k]
        BY <1>9, <2>1, <2>2, <2>5
    <2>7. Order'[B][n + 1] = h.call
        BY <1>10, <2>1, <2>5
    <2>8. \A k \in 1..(n + 1) : k \in 1..n \/ k = n + 1
        BY <2>1
    <2>9. Order'[B] \in Seq(Calls) /\ Len(Order'[B]) = n + 1
        <3>1. PICK f : f = Order'[B]
            BY Zenon
        <3>2. DOMAIN f = 1..(n + 1) /\ f = [k \in DOMAIN f |-> f[k]]
            BY Zenon, <2>5, <3>1
        <3>3. \A k \in 1..n : f[k] \in Calls
            BY <2>2, <2>3, <2>6, <3>1
        <3>4. \A k \in 1..(n + 1) : f[k] \in Calls
            BY Zenon, <2>7, <2>8, <3>1, <3>3
        <3>5. f \in [1..(n + 1) -> Calls]
            BY Zenon, <3>2, <3>4
        <3> QED BY <3>1, <3>5
    <2> QED BY <2>4, <2>6, <2>7, <2>8, <2>9
<1> QED BY Zenon, <1>11, <1>12, <1>13, <1>14

LEMMA OrderStands ==
    ASSUME Lone' = Lone, node'[Lone].hist = node[Lone].hist, node'[Lone].commit = node[Lone].commit
    PROVE  Order' = Order
BY DEF Order, AtPlace

LEMMA AnswerMoves ==
    ASSUME NEW c \in Calls, \A d \in Calls : d # c => call'[d] = call[d]
    PROVE  /\ Target' = [Target EXCEPT ![c] = Target'[c]] /\ Answer' = [Answer EXCEPT ![c] = Answer'[c]]
           /\ Target[c] = {call[c].bucket} \cap Buckets /\ Target'[c] = {call'[c].bucket} \cap Buckets
           /\ call[c].bucket \notin Buckets => Answer[c] = 0
           /\ call'[c].bucket \notin Buckets => Answer'[c] = 0
           /\ call[c].pc \in {"entered", "waiting"} => Answer[c] = 0
           /\ call'[c].pc \in {"entered", "waiting", "sent"} => Answer'[c] = 0
           /\ call'[c].bucket \in Buckets /\ call'[c].pc = "failed" => Answer'[c] = -1
           /\ call'[c].bucket \in Buckets /\ call'[c].pc = "acked" => Answer'[c] = call'[c].res.commit
<1>1. \A d \in Calls : d # c => Target'[d] = Target[d] /\ Answer'[d] = Answer[d]
    BY Zenon DEF Target, Answer
<1>2. /\ Target = [d \in Calls |-> Target[d]] /\ Target' = [d \in Calls |-> Target'[d]]
      /\ Answer = [d \in Calls |-> Answer[d]] /\ Answer' = [d \in Calls |-> Answer'[d]]
    BY Zenon DEF Target, Answer
<1>3. Target' = [Target EXCEPT ![c] = Target'[c]] /\ Answer' = [Answer EXCEPT ![c] = Answer'[c]]
    BY Zenon, <1>1, <1>2
<1>4. Target[c] = {call[c].bucket} \cap Buckets /\ Target'[c] = {call'[c].bucket} \cap Buckets
    BY Zenon DEF Target
<1>5. /\ call[c].bucket \notin Buckets => Answer[c] = 0
      /\ call'[c].bucket \notin Buckets => Answer'[c] = 0
      /\ call[c].pc \in {"entered", "waiting"} => Answer[c] = 0
      /\ call'[c].pc \in {"entered", "waiting", "sent"} => Answer'[c] = 0
      /\ call'[c].bucket \in Buckets /\ call'[c].pc = "failed" => Answer'[c] = -1
      /\ call'[c].bucket \in Buckets /\ call'[c].pc = "acked" => Answer'[c] = call'[c].res.commit
    BY Zenon DEF Answer
<1> QED BY Zenon, <1>3, <1>4, <1>5

LEMMA AnswerStands == ASSUME call' = call PROVE Target' = Target /\ Answer' = Answer
BY Zenon DEF Target, Answer

\* A call that begins to append, and one that fails.
LEMMA BeginMaps ==
    ASSUME AppendInv, Alone, Lone' = Lone, NEW c \in Calls, NEW b \in Buckets,
           (Enter(c, Lone, b) /\ ~node[Lone].closed) \/ ProposeOnly(c, Lone, b)
    PROVE  Contract!Begin(c, b)
<1>1. Begins(c, b) /\ Order' = Order
    BY Zenon, BeginStep, OrderStands
<1>2. call[c].bucket \notin Buckets
    BY Zenon, <1>1 DEF AppendInv, Numbered, Begins, Begun
<1>3. /\ Target' = [Target EXCEPT ![c] = Target'[c]] /\ Answer' = [Answer EXCEPT ![c] = Answer'[c]]
      /\ Target[c] = {} /\ Target'[c] = {b} /\ Answer[c] = 0 /\ Answer'[c] = 0
    BY <1>1, <1>2, AnswerMoves DEF Begins
<1>4. Answer' = Answer
    <2>1. Answer = [d \in Calls |-> Answer[d]]
        BY Zenon DEF Answer
    <2> QED BY Zenon, <1>3, <2>1
<1> QED BY Zenon, <1>1, <1>3, <1>4 DEF Contract!Begin

LEMMA FailMaps ==
    ASSUME AppendInv, Alone, Order' = Order, NEW c \in Calls, Posts(c),
           call[c].pc \in {"entered", "waiting"}, call'[c].pc = "failed"
    PROVE  Contract!Fail(c)
<1>1. call[c].bucket \in Buckets
    BY Zenon DEF AppendInv, Numbered, Begun
<1>2. /\ Target' = [Target EXCEPT ![c] = Target'[c]] /\ Answer' = [Answer EXCEPT ![c] = Answer'[c]]
      /\ Target[c] = {call[c].bucket} /\ Target'[c] = Target[c] /\ Answer[c] = 0 /\ Answer'[c] = -1
    BY Zenon, <1>1, AnswerMoves DEF Posts
<1>3. Target' = Target
    <2>1. Target = [d \in Calls |-> Target[d]]
        BY Zenon DEF Target
    <2> QED BY Zenon, <1>2, <2>1
<1>4. Target[c] # {}
    BY Zenon, <1>2
<1> QED BY Zenon, <1>2, <1>3, <1>4 DEF Contract!Fail, Contract!Open, Contract!Failed

\* A call that is told a commit index is told the place of its own record.
LEMMA SucceedMaps ==
    ASSUME AppendInv, Alone, Order' = Order, NEW c \in Calls, Return(c), call'[c].pc = "acked"
    PROVE  Contract!Succeed(c)
<1>1. /\ call[c].pc = "waiting" /\ ch[c] # <<>> /\ Head(ch[c]) # Nil /\ call'[c].res = Head(ch[c])
    <2>1. /\ call = [d \in Calls |-> call[d]]
          /\ call[c] = [f \in {"pc", "node", "seq", "bucket", "res"} |-> call[c][f]]
        BY Zenon, LoneShape DEF CallShape
    <2>2. PICK r : r = Head(ch[c])
        BY Zenon
    <2>3. call' = [call EXCEPT ![c].pc = IF r = Nil THEN "failed" ELSE "acked", ![c].res = r]
        BY Zenon, <2>2 DEF Return
    <2>4. call[c].pc = "waiting" /\ ch[c] # <<>>
        BY Zenon DEF Return
    <2>5. r # Nil
        BY Zenon, <2>1, <2>3
    <2>6. call'[c].res = r
        BY Zenon, <2>1, <2>3
    <2> QED BY Zenon, <2>2, <2>4, <2>5, <2>6
<1>2. HasPlace(c, call'[c].res.commit)
    <2>1. Head(<<Nil>>) = Nil
        OBVIOUS
    <2> QED BY Zenon, <1>1, <2>1 DEF AppendInv, Answers
<1>3. PICK h \in Range(node[Lone].hist) : h.call = c /\ h.commit = call'[c].res.commit
    BY Zenon, <1>2 DEF HasPlace
<1>4. PICK b \in Buckets : b = h.bucket /\ b = call[c].bucket
    BY Zenon, <1>3, Placed DEF AppendInv, Counted
<1>5. h.commit \in 1..node[Lone].commit[b] /\ AtPlace(b, h.commit).call = c
    BY Zenon, <1>3, <1>4, Placed
<1>6. h.commit \in Contract!Positions(b, c)
    BY Zenon, <1>5 DEF Contract!Positions, Order
<1>7. Posts(c)
    BY Zenon, PostStep
<1>8. /\ Target' = [Target EXCEPT ![c] = Target'[c]] /\ Answer' = [Answer EXCEPT ![c] = Answer'[c]]
      /\ Target[c] = {b} /\ Target'[c] = Target[c] /\ Answer[c] = 0 /\ Answer'[c] = h.commit
    BY ZenonT(40), <1>1, <1>3, <1>4, <1>7, AnswerMoves DEF Posts
<1>9. Target' = Target
    <2>1. Target = [d \in Calls |-> Target[d]]
        BY Zenon DEF Target
    <2> QED BY Zenon, <1>8, <2>1
<1>10. b \in Target[c] /\ Answer[c] = Contract!Open /\ Answer' = [Answer EXCEPT ![c] = h.commit]
    BY Zenon, <1>8 DEF Contract!Open
<1> QED BY Zenon, <1>6, <1>9, <1>10 DEF Contract!Succeed

\* A record that is counted is placed, and was not in its bucket before.
LEMMA PlaceMaps ==
    ASSUME AppendInv, Alone, Lone' = Lone, call' = call, NEW e, NEW i, NEW left, Take(Lone, e, i, left),
           Own(e), e.kind = "app", ~Etcd => e \in flying,
           Etcd => i = node[Lone].cursor + 1 /\ i \in DOMAIN log /\ e = log[i]
    PROVE  Contract!Place(e.call)
<1>0. /\ InTransit /\ Counted /\ node[Lone].commit \in [Buckets -> Nat] /\ Lone \in Nodes
      /\ node[Lone].cursor \in Nat
    BY Zenon, LoneIsAll, Placed DEF AppendInv, CommitInv, MarkInv, Marked
<1>1. PICK c \in Calls : c = e.call /\ Sent(c) /\ e = Record(c) /\ e.bucket = call[c].bucket
    BY Zenon, RecordFacts
<1>2. PICK b \in Buckets : b = e.bucket /\ b = call[c].bucket
    BY Zenon, <1>1 DEF Sent, Begun
<1>3. ASSUME NEW h \in Range(node[Lone].hist) PROVE h.call # c
    <2>1. CASE ~Etcd
        BY Zenon, <1>0, <1>1, <2>1 DEF Counted
    <2>2. CASE Etcd
        <3>1. Ranked(Lone)
            BY Zenon, <1>0, <2>2 DEF AppendInv, CommitInv
        <3>2. /\ h.idx \in 1..node[Lone].cursor /\ h.idx \in DOMAIN log
              /\ log[h.idx].kind = "app" /\ log[h.idx].call = h.call
            BY Zenon, <3>1 DEF Ranked
        <3>3. log[h.idx] = Record(h.call)
            BY <1>0, <3>2, RecordFacts DEF InTransit
        <3>4. h.call = c => h.idx = i
            BY Zenon, <1>0, <1>1, <2>2, <3>2, <3>3 DEF InTransit
        <3> QED BY <1>0, <2>2, <3>2, <3>4
    <2> QED BY Zenon, <2>1, <2>2
<1>4. Contract!Positions(b, c) = {}
    <2>1. ASSUME NEW p \in 1..node[Lone].commit[b], Order[b][p] = c PROVE FALSE
        <3>1. AtPlace(b, p) \in Range(node[Lone].hist) /\ AtPlace(b, p).call = c
            BY Zenon, <2>1, Placed DEF Order
        <3> QED BY Zenon, <1>3, <3>1
    <2>2. DOMAIN Order[b] = 1..node[Lone].commit[b]
        BY Zenon DEF Order
    <2> QED BY Zenon, <2>1, <2>2 DEF Contract!Positions
<1>5. PICK h : h = [idx |-> i, call |-> e.call, bucket |-> e.bucket, commit |-> NextCommit(Lone, e)]
    BY Zenon
<1>6. h.call = c /\ h.bucket = b /\ h.commit = node[Lone].commit[b] + 1
    BY Zenon, <1>1, <1>2, <1>5 DEF NextCommit
<1>7. /\ node'[Lone].hist = Append(node[Lone].hist, h)
      /\ node'[Lone].commit = [node[Lone].commit EXCEPT ![b] = h.commit]
    <2>1. h.commit = NextCommit(Lone, e) /\ e.bucket = b
        BY Zenon, <1>2, <1>5
    <2> QED BY Zenon, <1>5, <2>1, TakeMoves
<1>8. Order' = [Order EXCEPT ![b] = Append(@, c)]
    BY Zenon, <1>6, <1>7, OrderGrows
<1>9. b \in Target[c]
    BY Zenon, <1>2 DEF Target
<1> QED BY Zenon, <1>1, <1>4, <1>8, <1>9, AnswerStands DEF Contract!Place

LEMMA AppendRefines ==
    ASSUME AppendInv, Alone, [Next]_vars
    PROVE  Contract!ANext \/ UNCHANGED Contract!avars
<1>0. LoneNext /\ Lone' = Lone
    BY Zenon, LoneStep, LogGrows, LoneStays
<1> DEFINE Same == UNCHANGED Contract!avars
           Done == Contract!ANext \/ Same
<1>1. ASSUME node'[Lone].hist = node[Lone].hist, node'[Lone].commit = node[Lone].commit
      PROVE  Order' = Order
    BY Zenon, <1>0, <1>1, OrderStands
<1>2. ASSUME Order' = Order, call' = call PROVE Same
    BY Zenon, <1>2, AnswerStands DEF Contract!avars
<1>3. ASSUME NEW c \in Calls, Posts(c), Order' = Order, Answer[c] = Answer'[c] PROVE Same
    <2>1. /\ Target' = [Target EXCEPT ![c] = Target'[c]] /\ Answer' = [Answer EXCEPT ![c] = Answer'[c]]
          /\ Target'[c] = Target[c]
        BY Zenon, <1>3, AnswerMoves DEF Posts
    <2>2. Target = [d \in Calls |-> Target[d]] /\ Answer = [d \in Calls |-> Answer[d]]
        BY Zenon DEF Target, Answer
    <2>3. Target' = Target
        BY Zenon, <2>1, <2>2
    <2>4. Answer' = Answer
        BY Zenon, <1>3, <2>1, <2>2
    <2> QED BY Zenon, <1>3, <2>3, <2>4 DEF Contract!avars
<1>4. CASE \/ UNCHANGED vars \/ CommitEntry \/ Elect(Lone) \/ Hear(Lone) \/ CloseWaiters(Lone)
           \/ (\E fatal : Signal(Lone, fatal))
           \/ Consume(Lone) \/ SetReplicationHandler(Lone) \/ Close(Lone)
    <2>1. call' = call
        BY Zenon, <1>4 DEF vars, CommitEntry, Elect, Hear, CloseWaiters, Signal, Consume,
                    SetReplicationHandler, Close
    <2>2. Stands
        BY Zenon, <1>4, StandingStep
    <2> QED BY Zenon, <1>1, <1>2, <2>1, <2>2 DEF Stands
<1>5. CASE ApplyEntry(Lone) \/ StubApply(Lone)
    <2>1. call' = call
        BY Zenon, <1>5 DEF ApplyEntry, StubApply
    <2>2. ASSUME node' = node PROVE Done
        BY Zenon, <1>1, <1>2, <2>1, <2>2
    <2>3. ASSUME NEW i, NEW left, ApplyConf(Lone, i, left) PROVE Done
        <3>1. node'[Lone].hist = node[Lone].hist /\ node'[Lone].commit = node[Lone].commit
            BY Zenon, <2>3, LoneShape DEF ApplyConf, Fields
        <3> QED BY Zenon, <1>1, <1>2, <2>1, <3>1
    <2>4. ASSUME NEW e, NEW i, NEW left, Take(Lone, e, i, left), Own(e),
                 ~Etcd => e \in flying \ flying',
                 Etcd => i = node[Lone].cursor + 1 /\ i \in DOMAIN log /\ e = log[i]
          PROVE  Done
        <3>1. CASE e.kind = "app"
            <4>1. Contract!Place(e.call) /\ e.call \in Calls
                BY Zenon, <1>0, <2>1, <2>4, <3>1, PlaceMaps, RecordFacts
            <4> QED BY Zenon, <4>1 DEF Contract!ANext
        <3>2. CASE e.kind # "app"
            <4>1. node'[Lone].hist = node[Lone].hist /\ node'[Lone].commit = node[Lone].commit
                BY Zenon, <2>4, <3>2, TakeMoves
            <4> QED BY <1>1, <1>2, <2>1, <4>1
        <3> QED BY Zenon, <3>1, <3>2
    <2> HIDE DEF Done, Same
    <2>5. Done
        BY Zenon, <1>5, <2>2, <2>3, <2>4, TakesOwn
    <2> QED BY <2>5 DEF Done, Same
<1>6. ASSUME NEW c \in Calls, Refuse(c, Lone) \/ Propose(c) \/ Return(c) \/ Cancel(c)
      PROVE  Done
    <2>1. Stands /\ Posts(c)
        BY Zenon, <1>6, StandingStep, PostStep
    <2>2. Order' = Order
        BY Zenon, <1>1, <2>1 DEF Stands
    <2>3. CASE call[c].pc \in {"entered", "waiting"} /\ call'[c].pc = "failed"
        <3>1. Contract!Fail(c)
            BY Zenon, <2>1, <2>2, <2>3, FailMaps
        <3> QED BY Zenon, <3>1 DEF Contract!ANext
    <2>4. CASE Refuse(c, Lone)
        <3>1. call[c].bucket \notin Buckets /\ call'[c].bucket \notin Buckets
            BY Zenon, <2>1, <2>4, PostStep DEF AppendInv, Numbered, Begun, Posts
        <3>2. Answer[c] = Answer'[c]
            BY Zenon, <2>1, <3>1, AnswerMoves DEF Posts
        <3> QED BY Zenon, <1>3, <2>1, <2>2, <3>2
    <2>5. CASE Propose(c) /\ call'[c].pc = "waiting"
        <3>1. Answer[c] = Answer'[c]
            BY Zenon, <2>1, <2>5, PostStep, AnswerMoves DEF Posts
        <3> QED BY <1>3, <2>1, <2>2, <3>1
    <2>6. CASE Return(c) /\ call'[c].pc = "acked"
        <3>1. Contract!Succeed(c)
            BY Zenon, <2>2, <2>6, SucceedMaps
        <3> QED BY Zenon, <3>1 DEF Contract!ANext
    <2> HIDE DEF Done, Same
    <2> QED BY Zenon, <1>6, <2>3, <2>4, <2>5, <2>6, PostStep
<1>7. ASSUME NEW c \in Calls, NEW b \in Buckets, Enter(c, Lone, b), node[Lone].closed PROVE Done
    <2>1. /\ Posts(c) /\ call[c].pc = "idle" /\ call'[c].pc = "failed"
          /\ node'[Lone].hist = node[Lone].hist /\ node'[Lone].commit = node[Lone].commit
        BY Zenon, <1>7, ClosedStep
    <2>2. call[c].bucket \notin Buckets /\ call'[c].bucket \notin Buckets
        BY Zenon, <2>1 DEF AppendInv, Numbered, Begun, Posts
    <2>3. Answer[c] = Answer'[c]
        BY Zenon, <2>1, <2>2, AnswerMoves DEF Posts
    <2> QED BY Zenon, <1>1, <1>3, <2>1, <2>3
<1>8. ASSUME NEW c \in Calls, NEW b \in Buckets,
             (Enter(c, Lone, b) /\ ~node[Lone].closed) \/ ProposeOnly(c, Lone, b)
      PROVE  Done
    <2>1. Contract!Begin(c, b)
        BY Zenon, <1>0, <1>8, BeginMaps
    <2> QED BY Zenon, <2>1 DEF Contract!ANext
<1> HIDE DEF Done, Same
<1>9. Done
    BY Zenon, <1>0, <1>4, <1>5, <1>6, <1>7, <1>8 DEF LoneNext, Done, Same
<1> QED BY Zenon, <1>9 DEF Done, Same

\* types.go ProposeAndWait, apply and processReady: a node that serves alone and never
\* restarts implements the appending of records to buckets, with either engine: every
\* record is placed once, at the end of its bucket, and a call that succeeds is told the
\* place of its own record, whatever was cancelled, closed or refused meanwhile.
THEOREM AloneAppends == Spec => ImplementsAppend
<1>1. Init => (Alone => Contract!AInit)
    <2> SUFFICES ASSUME Init, Alone PROVE Contract!AInit
        BY Zenon
    <2>1. AppendInv /\ Lone \in Nodes
        BY Zenon, AppendInit, LoneIsAll DEF AppendInv
    <2>2. /\ node[Lone].commit = [b \in Buckets |-> 0]
          /\ \A c \in Calls : call[c].pc = "idle" /\ call[c].bucket = NoBucket
        BY Zenon, <2>1 DEF Init, NewShardRaftNode, Idle
    <2>3. Order = [b \in Buckets |-> <<>>]
        <3>1. \A b \in Buckets : Order[b] = <<>>
            <4>1. ASSUME NEW b \in Buckets PROVE Order[b] = <<>>
                <5>1. 1..node[Lone].commit[b] = {}
                    BY <2>2
                <5>2. Order[b] = [k \in {} |-> AtPlace(b, k).call]
                    BY Zenon, <5>1 DEF Order
                <5> QED BY <5>2
            <4> QED BY Zenon, <4>1
        <3>2. Order = [b \in Buckets |-> Order[b]]
            BY Zenon DEF Order
        <3> QED BY Zenon, <3>1, <3>2
    <2>4. Target = [c \in Calls |-> {}]
        BY <2>2, BucketAssumption DEF Target
    <2>5. Answer = [c \in Calls |-> 0]
        BY Zenon, <2>2, BucketAssumption DEF Answer
    <2> QED BY Zenon, <2>3, <2>4, <2>5 DEF Contract!AInit, Contract!Open
<1>2. AppendInv /\ [Next]_vars => [Alone => Contract!ANext]_(Contract!avars)
    BY Zenon, AppendRefines
<1>3. AppendInv /\ [Next]_vars => AppendInv'
    BY Zenon, AppendStep
<1> QED BY <1>1, <1>2, <1>3, AppendInit, PTL DEF Spec, ImplementsAppend
=============================================================================
