--------------------------- MODULE ClusterConfig ----------------------------
(* How the members of a raft group come to agree on who they are: every    *)
(* node parses its own list of peers (internal/raft/peers.go), picks its   *)
(* id, and hands the ids to raft as voters (shardmanager/main.go and       *)
(* initEtcd), at every start.  The lists of a cluster have the same        *)
(* entries, in any order.                                                  *)
(*   A peer spec is <<"at", id, addr>> for id@addr, <<"addr", addr>> for a *)
(* bare address, or <<"bad">>; addresses are numbers in their string order *)
EXTENDS Integers, Sequences, FiniteSets, FiniteSetsExt

CONSTANTS Members,    \* nodes: the addresses they advertise
          PeerLists,  \* lists of peer specs
          MaxStarts   \* bound on starts of a node

VARIABLES peerList,   \* the entries of raft-nodes, the same set on every node
          member      \* node -> starts, and what NewShardManager made of them

cvars == <<peerList, member>>

PeerSpec == ({"at"} \X Nat \X Nat) \cup ({"addr"} \X Nat) \cup {<<"bad">>}

ASSUME PeerListsAssumption == PeerLists \subseteq Seq(PeerSpec)

NoId   == -1
Failed == [ok |-> FALSE, addrs |-> <<>>]
Idle   == [starts |-> 0, id |-> 0, addrs |-> <<>>, voters |-> {}, picked |-> NoId]

\* The entries of a list that give an id, and the addresses they give one to.
Explicit(specs)      == {i \in DOMAIN specs : specs[i][1] = "at"}
ExplicitAddrs(specs) == {specs[i][3] : i \in Explicit(specs)}

\* The entries that are given one: bare addresses that have none.
Implicit(specs) ==
  {i \in DOMAIN specs : specs[i][1] = "addr" /\ specs[i][2] \notin ExplicitAddrs(specs)}

\* Mutant: bare addresses are taken in the order of the list.
BareUnsorted(specs) ==
  LET nth(k) == Min({i \in Implicit(specs) : Cardinality(Implicit(specs) \cap 1 .. i) = k})
  IN  [k \in 1 .. Cardinality(Implicit(specs)) |-> specs[nth(k)][2]]

\* sort.Strings: the k-th of the bare addresses in ascending order is the
\* least one with k entries up to it.
UpTo(specs, addr) == {i \in Implicit(specs) : specs[i][2] <= addr}
Bare(specs) ==
  [k \in 1 .. Cardinality(Implicit(specs)) |->
     Min({addr \in {specs[i][2] : i \in Implicit(specs)} : Cardinality(UpTo(specs, addr)) >= k})]

\* How many of the ids from 1 to id are not in use.
Rank(id, used) == Cardinality((1 .. id) \ used)

\* The loop over the bare addresses: the k-th one gets the k-th unused id.
Assign(map, bare) ==
  LET used  == DOMAIN map
      given == {id \in (1 .. Cardinality(used) + Len(bare)) \ used : Rank(id, used) <= Len(bare)}
  IN  [id \in used \cup given |-> IF id \in used THEN map[id] ELSE bare[Rank(id, used)]]

\* The loop over the list: an entry that cannot be read, or an id given twice,
\* is an error.
Invalid(specs) ==
  \/ \E i \in DOMAIN specs : specs[i][1] = "bad"
  \/ \E i, j \in Explicit(specs) : i # j /\ specs[i][2] = specs[j][2]

ExplicitMap(specs) ==
  [id \in {specs[i][2] : i \in Explicit(specs)} |->
     CHOOSE addr \in ExplicitAddrs(specs) : \E i \in Explicit(specs) : specs[i] = <<"at", id, addr>>]

ParsePeerSpecs(specs) ==
  IF Invalid(specs) THEN Failed
  ELSE [ok |-> TRUE, addrs |-> Assign(ExplicitMap(specs), Bare(specs))]

\* The ids DetermineLocalID may answer; 0 stands for its error, which is
\* logged and leaves localRaftID at 0.  Which of several ids with the node's
\* address is found first is up to the iteration of a Go map.
Own(addr, addrs) == {id \in DOMAIN addrs : addrs[id] = addr}
DetermineLocalID(nodeID, addr, addrs) ==
  CASE nodeID # NoId -> IF nodeID \in DOMAIN addrs THEN {nodeID} ELSE {0}
    [] nodeID = NoId /\ Own(addr, addrs) # {} -> Own(addr, addrs)
    [] OTHER -> IF Cardinality(DOMAIN addrs) = 1 THEN DOMAIN addrs ELSE {0}

\* initEtcd: the ids of the canonical specs, and always the node itself.
Voters(id, addrs) == DOMAIN addrs \cup {id}

\* NewShardManager on the node that advertises a: no list at all makes it a
\* cluster of its own, and a list that does not parse leaves id 0 alone.
Parsed(a, list) ==
  IF list = <<>> THEN [ok |-> TRUE, addrs |-> [id \in {1} |-> a]] ELSE ParsePeerSpecs(list)
LocalIDs(a, list, nodeID) ==
  IF list = <<>> THEN {1}
  ELSE IF Parsed(a, list).ok THEN DetermineLocalID(nodeID, a, Parsed(a, list).addrs) ELSE {0}

NewShardManager(a, list, nodeID) ==
  \E id \in LocalIDs(a, list, nodeID) :
    member' = [member EXCEPT ![a] =
      [starts |-> @.starts + 1, id |-> id, addrs |-> Parsed(a, list).addrs,
       voters |-> Voters(id, Parsed(a, list).addrs), picked |-> nodeID]]

StartMember(a) ==
  /\ member[a].starts < MaxStarts
  /\ \E order \in Bijection(DOMAIN peerList, DOMAIN peerList), nodeID \in {NoId, 1} :
       NewShardManager(a, [i \in DOMAIN peerList |-> peerList[order[i]]], nodeID)
  /\ UNCHANGED peerList

ClusterInit == peerList \in PeerLists /\ member = [a \in Members |-> Idle]
ClusterNext == \E a \in Members : StartMember(a)
ClusterSpec == ClusterInit /\ [][ClusterNext]_cvars

(***************************************************************************)
(* Properties.                                                             *)
(***************************************************************************)
Knows(a) == member[a].starts > 0 /\ member[a].id # 0

\* Nodes that found their ids agree on every id and on the set of voters,
\* whatever the order of their lists: raft groups with different voters
\* would elect two leaders.
VotersAgree ==
  \A a, b \in Members : (Knows(a) /\ Knows(b) /\ peerList # <<>>) =>
    member[a].addrs = member[b].addrs /\ member[a].voters = member[b].voters

\* Two nodes of a cluster that found their ids by their addresses have
\* different ones, and every listed address has an id.
IdsDistinct ==
  \A a \in Members : (Knows(a) /\ peerList # <<>>) =>
    /\ \A i \in DOMAIN peerList :
         peerList[i][Len(peerList[i])] \in {member[a].addrs[id] : id \in DOMAIN member[a].addrs}
    /\ \A b \in Members \ {a} :
         (Knows(b) /\ Cardinality(DOMAIN member[a].addrs) > 1
            /\ member[a].picked = NoId /\ member[b].picked = NoId) => member[a].id # member[b].id

\* Raft sees one cluster: its nodes agree on ids and voters, and no two of them
\* go by the same id.
IdsAgree == VotersAgree /\ IdsDistinct

ListedOnce(a) == Cardinality(Own(a, member[a].addrs)) = 1

\* A node comes back from a restart with the id it had, under which it voted,
\* unless its list names its address twice.
RestartKeepsId ==
  [][\A a \in Members :
       (Knows(a) /\ ListedOnce(a) /\ member[a].picked = NoId /\ member'[a].picked = NoId)
          => member'[a].id = member[a].id]_cvars
=============================================================================
