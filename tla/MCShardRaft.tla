------------------------------ MODULE MCShardRaft ------------------------------
(* Instances of ShardRaft: a stub node, one etcd node alone, one that restarts, *)
(* a cluster that snapshots, and a cluster that changes its leader.             *)
EXTENDS ShardRaft

CONSTANTS c1, c2
AllCalls == {c1, c2}

On(engine, nodes, threshold, terms, deaths, calls, uses) ==
    [engine |-> engine, nodes |-> nodes, threshold |-> threshold, cap |-> 1,
     elections |-> terms, restarts |-> deaths, calls |-> calls, uses |-> uses]

StubNode == On("stub", {1}, 0, 0, 0, AllCalls, {"Propose", "Committed", "Close", "Cancel"})
LoneNode == On("etcd", {1}, 2, 1, 0, AllCalls,
               {"Register", "Propose", "Committed", "Close", "Cancel"})
Restarting == On("etcd", {1}, 3, 2, 1, AllCalls, {"Register"})
Electing == On("etcd", {1, 2}, 0, 1, 0, AllCalls, {})
Snapshotting == On("etcd", {1, 2}, 2, 1, 0, {c1}, {"Register"})

Deployments == {StubNode, LoneNode, Restarting, Electing, Snapshotting}
OnlyCluster == {[Electing EXCEPT !.elections = 2]}
====
