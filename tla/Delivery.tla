------------------------------ MODULE Delivery ------------------------------
(***************************************************************************)
(* What the emission contract promises a subscriber at the least, whatever *)
(* fails: only events that were committed are delivered, only delivered    *)
(* ones are acknowledged, and the server gives up its obligation for an    *)
(* event only for an acknowledgement at or after it.                       *)
(***************************************************************************)
EXTENDS Naturals

VARIABLES events,        \* commit indices of the committed events
          delivered,     \* those the client has received
          acknowledged,  \* those the client has acknowledged
          released       \* those the server has promised to forget

vars == <<events, delivered, acknowledged, released>>

Init == /\ events = {} /\ delivered = {}
        /\ acknowledged = {} /\ released = {}

\* A new event is committed, after all the others.
Produce == \E i \in events' \ events :
    /\ \A j \in events : j < i
    /\ events' = events \cup {i}
    /\ UNCHANGED <<delivered, acknowledged, released>>

Deliver == \E i \in events :
    /\ delivered' = delivered \cup {i}
    /\ UNCHANGED <<events, acknowledged, released>>

Acknowledge == \E i \in delivered :
    /\ acknowledged' = acknowledged \cup {i}
    /\ UNCHANGED <<events, delivered, released>>

\* Acknowledgements are cumulative.
Release == \E i \in acknowledged :
    /\ released' = released \cup {j \in events : j <= i}
    /\ UNCHANGED <<events, delivered, acknowledged>>

Next == Produce \/ Deliver \/ Acknowledge \/ Release

Spec == Init /\ [][Next]_vars
=============================================================================
