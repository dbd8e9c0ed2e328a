----------------------------- MODULE MCEmission -----------------------------
(* Emission for TLC.  One setting lets the leader change, a process restart *)
(* and the client reconnect; in the other the same leader serves more       *)
(* events and acknowledgements.                                             *)
EXTENDS Emission, TLC

CONSTANTS n1, n2,
          Bounds   \* the settings looked at

VARIABLE bound   \* the setting: how often what may happen

\* n1 was started before n2.
MCStartEpoch == (n1 :> 1) @@ (n2 :> 2)

Failover == [events |-> 1, acks |-> 1, elections |-> 1, restarts |-> 1, connects |-> 2]
Stable   == [events |-> 2, acks |-> 2, elections |-> 0, restarts |-> 0, connects |-> 1]

Both  == {Failover, Stable}
Moved == {[Failover EXCEPT !.acks = 2, !.restarts = 0]}

MCInit == Init /\ bound \in Bounds
MCNext == /\ Next
          /\ \A what \in DOMAIN bound : counts'[what] <= bound[what]
          /\ UNCHANGED bound

\* The bounds hold back none of the actions that fairness is about.
MCSpec == MCInit /\ [][MCNext]_<<vars, bound>> /\ Fairness
=============================================================================
