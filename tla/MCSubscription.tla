--------------------------- MODULE MCSubscription ---------------------------
(***************************************************************************)
(* Subscription for TLC: the settings the runs look at.                    *)
(***************************************************************************)
EXTENDS Subscription, TLC

\* Connections are interchangeable, and so are clients: no action tells them
\* apart, and Rebinding treats them alike.
Symmetry == Permutations(Clients) \cup Permutations(Conns)

Plain == [clients |-> Clients, conns |-> Conns, reconnect |-> FALSE,
          takeover |-> FALSE, clearInTick |-> FALSE]

\* Connections of a client follow each other; watermarks are cleared between ticks.
Quiet == {[Plain EXCEPT !.reconnect = TRUE]}

\* Clients that take the query over from each other, and a single client whose
\* connections overlap in every way.
Rebinding ==
    {Plain} \cup
    {[Plain EXCEPT !.clients = {c}, !.reconnect = TRUE, !.takeover = TRUE,
                   !.clearInTick = TRUE] : c \in Clients}

Watching == {Plain}
=============================================================================
