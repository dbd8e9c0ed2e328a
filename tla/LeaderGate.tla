----------------------------- MODULE LeaderGate -----------------------------
(***************************************************************************)
(* The leader gate of the emission notifier                                *)
(* (internal/shardmanager/leader_notifier.go, started from main.go).       *)
(*                                                                         *)
(* Every node wraps its transport in a gatedSender: Send is refused while  *)
(* the gate is closed.  A leaderNotifierController polls the raft status   *)
(* and opens the gate on the leader and closes it on a follower.  The same *)
(* controller is started twice, once by NewShardManager and once by Run,   *)
(* so two polling goroutines share one gate.                               *)
(*                                                                         *)
(* A poll is not atomic: the status is read in one step and the gate is    *)
(* stored in a later one, and the goroutine of Start reads the status a    *)
(* second time, after Start has set the gate from the first reading.       *)
(***************************************************************************)
EXTENDS Naturals, FiniteSets

CONSTANTS Nodes,        \* the members of one raft group
          Controllers,  \* the polling goroutines of one node
          MaxTerms,     \* bound: number of elections
          QuietStart    \* TRUE: no leadership change while a Start is under way

ASSUME GateAssumption == /\ Controllers # {}
                         /\ MaxTerms \in Nat
                         /\ QuietStart \in BOOLEAN

VARIABLES isLeader,   \* isLeader[n]: what n's own raft Status() reports
          enabled,    \* enabled[n]: gatedSender.enabled
          gatePc,         \* gatePc[n][c]: where goroutine c of node n is
          prev,       \* prev[n][c]: the status c read last (st, then prev)
          terms       \* elections so far

vars == <<isLeader, enabled, gatePc, prev, terms>>

\* "new": Start not called; "set": Start has read the status; "go": the loop
\* goroutine is spawned but has not run; "loop": it waits for a tick;
\* "store": it saw a change and has not stored the gate yet.
Places == {"new", "set", "go", "loop", "store"}

TypeOK ==
    /\ isLeader \in [Nodes -> BOOLEAN]
    /\ enabled \in [Nodes -> BOOLEAN]
    /\ gatePc \in [Nodes -> [Controllers -> Places]]
    /\ prev \in [Nodes -> [Controllers -> BOOLEAN]]
    /\ terms \in Nat

\* newGatedSender(nil): the gate is closed, and no controller runs yet.
Init ==
    /\ isLeader = [n \in Nodes |-> FALSE]
    /\ enabled = [n \in Nodes |-> FALSE]
    /\ gatePc = [n \in Nodes |-> [c \in Controllers |-> "new"]]
    /\ prev = [n \in Nodes |-> [c \in Controllers |-> FALSE]]
    /\ terms = 0

-----------------------------------------------------------------------------
Goto(n, c, place) == gatePc' = [gatePc EXCEPT ![n][c] = place]

\* Start: st := c.rn.Status().  The two calls of Start follow each other.
StartRead(n, c) ==
    /\ gatePc[n][c] = "new"
    /\ \A d \in Controllers : gatePc[n][d] # "set"
    /\ prev' = [prev EXCEPT ![n][c] = isLeader[n]]
    /\ Goto(n, c, "set")
    /\ UNCHANGED <<isLeader, enabled, terms>>

\* Mutant of StartSet: the loop is spawned without setting the gate first.
StartWithoutSet(n, c) ==
    /\ gatePc[n][c] = "set"
    /\ Goto(n, c, "go")
    /\ UNCHANGED <<isLeader, enabled, prev, terms>>

\* Start: c.gate.SetEnabled(st.IsLeader); go c.loop(ctx)
StartSet(n, c) ==
    /\ gatePc[n][c] = "set"
    /\ enabled' = [enabled EXCEPT ![n] = prev[n][c]]
    /\ Goto(n, c, "go")
    /\ UNCHANGED <<isLeader, prev, terms>>

\* loop: prev := c.rn.Status().IsLeader, before the first tick
LoopEnter(n, c) ==
    /\ gatePc[n][c] = "go"
    /\ prev' = [prev EXCEPT ![n][c] = isLeader[n]]
    /\ Goto(n, c, "loop")
    /\ UNCHANGED <<isLeader, enabled, terms>>

\* Mutant of Tick: the change is remembered but the gate is never stored.
TickWithoutStore(n, c) ==
    /\ gatePc[n][c] = "loop"
    /\ isLeader[n] # prev[n][c]
    /\ prev' = [prev EXCEPT ![n][c] = isLeader[n]]
    /\ UNCHANGED <<isLeader, enabled, gatePc, terms>>

\* loop, on a tick: the status differs from prev, so prev is updated; a tick
\* that sees no change leaves everything as it is
Tick(n, c) ==
    /\ gatePc[n][c] = "loop"
    /\ isLeader[n] # prev[n][c]
    /\ prev' = [prev EXCEPT ![n][c] = isLeader[n]]
    /\ Goto(n, c, "store")
    /\ UNCHANGED <<isLeader, enabled, terms>>

\* loop, after a change: c.gate.SetEnabled(st.IsLeader)
Store(n, c) ==
    /\ gatePc[n][c] = "store"
    /\ enabled' = [enabled EXCEPT ![n] = prev[n][c]]
    /\ Goto(n, c, "loop")
    /\ UNCHANGED <<isLeader, prev, terms>>

\* No Start of node n is between its first and its second status reading.
NotStarting(n) == \A c \in Controllers : gatePc[n][c] \notin {"set", "go"}

\* etcd/raft: n wins an election.  Another node may still report itself as
\* leader until it hears of the new term.
Elect(n) ==
    /\ terms < MaxTerms
    /\ ~isLeader[n]
    /\ QuietStart => NotStarting(n)
    /\ isLeader' = [isLeader EXCEPT ![n] = TRUE]
    /\ terms' = terms + 1
    /\ UNCHANGED <<enabled, gatePc, prev>>

\* etcd/raft: n learns of a higher term, or loses its quorum (CheckQuorum).
StepDown(n) ==
    /\ isLeader[n]
    /\ QuietStart => NotStarting(n)
    /\ isLeader' = [isLeader EXCEPT ![n] = FALSE]
    /\ UNCHANGED <<enabled, gatePc, prev, terms>>

Controller(n, c) ==
    \/ StartRead(n, c) \/ StartSet(n, c) \/ LoopEnter(n, c)
    \/ Tick(n, c) \/ Store(n, c)

Next == \E n \in Nodes :
            \/ Elect(n) \/ StepDown(n)
            \/ \E c \in Controllers : Controller(n, c)

\* The goroutines are scheduled and the ticker fires every 100 ms; nothing is
\* assumed of the elections.
Fairness == \A n \in Nodes, c \in Controllers : WF_vars(Controller(n, c))

Spec == Init /\ [][Next]_vars /\ Fairness

-----------------------------------------------------------------------------
\* All goroutines of n wait for a tick and have seen the present status: no
\* tick will ever change the gate before the next change of leadership.
Settled(n) == \A c \in Controllers :
                  gatePc[n][c] = "loop" /\ prev[n][c] = isLeader[n]

\* leader_notifier.go:79-107.  A gate that no poll will correct any more is
\* right: open on the leader, closed on a follower.
SettledGateIsRight == \A n \in Nodes : Settled(n) => enabled[n] = isLeader[n]

\* The status on which a goroutine last acted is the one the gate shows, or
\* some goroutine is still on its way to store the gate.
GateOwned == \A n \in Nodes :
    \/ \A c \in Controllers : gatePc[n][c] = "new"
    \/ \E c \in Controllers : \/ gatePc[n][c] \in {"set", "store"}
                              \/ gatePc[n][c] = "loop" /\ prev[n][c] = enabled[n]
                              \/ gatePc[n][c] = "go" /\ prev[n][c] = enabled[n]
                                                 /\ prev[n][c] = isLeader[n]

\* leader_notifier.go:94-104.  When the leadership of a node stops changing,
\* its gate ends up, for good, where the leadership is.
GateFollowsLeadership == \A n \in Nodes, b \in BOOLEAN :
    <>[](isLeader[n] = b) => <>[](enabled[n] = b)
=============================================================================
