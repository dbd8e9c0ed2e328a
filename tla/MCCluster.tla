----------------------------- MODULE MCCluster ------------------------------
(* Instances of LeaderGate, Transport and ClusterConfig for TLC.  They     *)
(* share no state: a behaviour is one of the gate, of the transport (when  *)
(* it has a plan) or of the start of a cluster (when it has a peer list).  *)
EXTENDS LeaderGate, Transport, ClusterConfig

NoList == <<<<"bad">>>>
\* Lists of up to three entries over three ids and three addresses.
Entries  == {<<"at", 1, 1>>, <<"at", 2, 1>>, <<"at", 2, 3>>, <<"addr", 1>>, <<"addr", 2>>,
             <<"addr", 3>>}
AllLists == UNION {[1 .. n -> Entries] : n \in 0 .. 3} \cup {NoList}
AllPlans == {NoPlan, 2}

Gating  == plan = NoPlan /\ peerList = NoList
Joining == peerList # NoList

MCInit == /\ Init /\ TransportInit /\ ClusterInit
          /\ plan = NoPlan \/ peerList = NoList

GateStep(A)      == Gating /\ A /\ UNCHANGED <<ovars, cvars>>
TransportStep(A) == plan # NoPlan /\ A /\ UNCHANGED <<vars, cvars>>

MCNext == \/ GateStep(Next)
          \/ TransportStep(TransportNext)
          \/ Joining /\ ClusterNext /\ UNCHANGED <<vars, ovars>>

allVars == <<vars, ovars, cvars>>

MCSpec ==
  /\ MCInit /\ [][MCNext]_allVars
  /\ \A n \in Nodes, c \in Controllers : WF_allVars(GateStep(Controller(n, c)))
  /\ WF_allVars(TransportStep(Sending)) /\ WF_allVars(TransportStep(LinkBack))
  /\ \A d \in Dialers : WF_allVars(TransportStep(Dialling(d)))
  /\ \A c \in Conns : WF_allVars(TransportStep(Reading(c)))
=============================================================================
