---------------------------- MODULE ThreadProofs ----------------------------
(* Theorems about the threads of a server.  Of Subscription, for any number*)
(* of clients, connections and events and in every setting: threads leave  *)
(* no orphaned binding, rebinds lose no entry, and a client on its own is  *)
(* never skipped.  Of StoreThreads, for any number of threads and of       *)
(* operations: what a GET may answer while other threads write, delete and *)
(* expire the same key, and when the counters of the store are exact.      *)
EXTENDS Subscription, StoreThreads, FiniteSetTheorems, WellFoundedInduction, TLAPS

\* The places in which an IO thread is before its cleanup.
Working == {"idle", "bind", "move", "marks", "rmarks", "rbind"}

ConnTypes ==
    /\ pc \in [Conns -> PCs]
    /\ owner \in [Conns -> Clients \cup {None}]
    /\ thread \in [Clients -> Conns \cup {None}]
    /\ fpClients \subseteq Clients

\* A thread belongs to a client from the handshake to its end.
Owned == \A k \in Conns : pc[k] \in Working \cup {"clear"} => owner[k] \in Clients

\* Only a thread at work is registered, under the client it serves.
Registered == \A c \in Clients : thread[c] # None => owner[thread[c]] = c /\ pc[thread[c]] \in Working

\* A client is bound only while some thread works for it.
Bound == \A c \in fpClients : \E k \in Conns : owner[k] = c /\ pc[k] \in Working

BindInv == ConnTypes /\ Owned /\ Registered /\ Bound

\* A step of k's thread that stays at work changes nobody's place but its own.
LEMMA BindWorks ==
    ASSUME BindInv, NEW k \in Conns, pc[k] \in Working, NEW p \in Working,
           pc' = [pc EXCEPT ![k] = p], UNCHANGED owner,
           UNCHANGED thread \/ RegisterThread(k),
           fpClients' \subseteq fpClients \cup {owner[k]}
    PROVE  BindInv'
<1> USE SubscriptionAssumption
<1>1. /\ owner[k] \in Clients /\ pc'[k] \in Working
      /\ \A j \in Conns : j # k => pc'[j] = pc[j]
      /\ \A j \in Conns : pc[j] \in Working <=> pc'[j] \in Working
    BY Zenon DEF BindInv, ConnTypes, Owned
<1>2. ConnTypes'
    BY <1>1 DEF BindInv, ConnTypes, PCs, Working, RegisterThread
<1>3. Owned'
    BY Zenon, <1>1 DEF BindInv, Owned, Working
<1>4. Registered'
    BY <1>1 DEF BindInv, Registered, RegisterThread, ConnTypes
<1>5. Bound'
    BY Zenon, <1>1 DEF BindInv, Bound
<1> QED BY Zenon, <1>2, <1>3, <1>4, <1>5 DEF BindInv

\* The end of a connection.
LEMMA BindEnds ==
    ASSUME BindInv, NEW k \in Conns, Cleanup(k) \/ ClearWatermarks(k)
    PROVE  BindInv'
<1> USE SubscriptionAssumption
<1>1. CASE Cleanup(k) /\ thread[owner[k]] \in {None, k}
    <2>1. /\ owner[k] \in Clients /\ UNCHANGED owner
          /\ pc[k] = "idle" /\ pc' = [pc EXCEPT ![k] = "clear"]
          /\ thread' = [thread EXCEPT ![owner[k]] = None]
          /\ fpClients' = fpClients \ {owner[k]}
        BY Zenon, <1>1 DEF Cleanup, Goto, BindInv, Owned, Working
    <2>2. ConnTypes' /\ Owned'
        BY Zenon, <2>1 DEF BindInv, ConnTypes, Owned, PCs, Working
    <2>3. Registered'
        BY <1>1, <2>1 DEF BindInv, Registered, ConnTypes
    <2>4. Bound'
        BY Zenon, <2>1 DEF BindInv, Bound, ConnTypes
    <2> QED BY Zenon, <2>2, <2>3, <2>4 DEF BindInv
<1>2. CASE Cleanup(k) /\ thread[owner[k]] \notin {None, k}
    <2>1. /\ owner[k] \in Clients /\ owner' = [owner EXCEPT ![k] = None]
          /\ pc' = [pc EXCEPT ![k] = "done"]
          /\ UNCHANGED <<thread, fpClients>>
        BY Zenon, <1>2 DEF Cleanup, Ended, Goto, BindInv, Owned, Working
    <2>2. ConnTypes' /\ Owned'
        BY Zenon, <2>1 DEF BindInv, ConnTypes, Owned, PCs, Working
    <2>3. Registered'
        BY <1>2, <2>1 DEF BindInv, Registered, ConnTypes
    <2>4. ASSUME NEW c \in fpClients PROVE \E j \in Conns : owner'[j] = c /\ pc'[j] \in Working
        <3>1. CASE c = owner[k]
            <4> DEFINE j == thread[c]
            <4>1. j \in Conns /\ j # k /\ owner[j] = c /\ pc[j] \in Working
                BY Zenon, <1>2, <3>1, <2>1 DEF BindInv, ConnTypes, Registered
            <4> QED BY Zenon, <4>1, <2>1 DEF BindInv, ConnTypes
        <3>2. CASE c # owner[k]
            BY Zenon, <3>2, <2>1 DEF BindInv, ConnTypes, Bound
        <3> QED BY Zenon, <3>1, <3>2
    <2>5. Bound'
        BY Zenon, <2>1, <2>4 DEF Bound
    <2> QED BY <2>2, <2>3, <2>5 DEF BindInv
<1>3. CASE ClearWatermarks(k)
    <2>1. /\ pc[k] = "clear" /\ owner' = [owner EXCEPT ![k] = None]
          /\ pc' = [pc EXCEPT ![k] = "done"]
          /\ UNCHANGED <<thread, fpClients>>
        BY Zenon, <1>3 DEF ClearWatermarks, Ended, Goto, watchVars
    <2>2. ConnTypes' /\ Owned'
        BY Zenon, <2>1 DEF BindInv, ConnTypes, Owned, PCs, Working
    <2>3. Registered'
        BY <2>1 DEF BindInv, Registered, ConnTypes, Working
    <2>4. Bound'
        BY <2>1 DEF BindInv, Bound, ConnTypes, Working
    <2> QED BY <2>2, <2>3, <2>4 DEF BindInv
<1> QED BY Zenon, <1>1, <1>2, <1>3

LEMMA BindShakes ==
    ASSUME BindInv, NEW k \in Conns, NEW c \in Clients, Handshake(k, c)
    PROVE  BindInv'
<1> USE SubscriptionAssumption
<1>1. /\ pc[k] = "closed" /\ owner' = [owner EXCEPT ![k] = c]
      /\ pc' = [pc EXCEPT ![k] = "idle"]
      /\ thread' = [thread EXCEPT ![c] = k] /\ UNCHANGED fpClients
    BY Zenon DEF Handshake, Goto
<1>2. ConnTypes' /\ Owned'
    BY Zenon, <1>1 DEF BindInv, ConnTypes, Owned, PCs, Working
<1>3. Registered'
    BY <1>1 DEF BindInv, Registered, ConnTypes, Working
<1>4. Bound'
    BY <1>1 DEF BindInv, Bound, ConnTypes, Working
<1> QED BY Zenon, <1>2, <1>3, <1>4 DEF BindInv

LEMMA BindStays ==
    ASSUME BindInv, UNCHANGED <<pc, owner, thread, fpClients>>
    PROVE  BindInv'
BY Zenon DEF BindInv, ConnTypes, Owned, Registered, Bound

LEMMA BindStep ==
    ASSUME BindInv, [Next]_vars
    PROVE  BindInv'
<1>1. ASSUME NEW k \in Conns, Thread(k) PROVE BindInv'
    <2>1. CASE RebindClientForFP(k) \/ ReconnectBind(k)
        BY Zenon, <2>1, BindWorks DEF RebindClientForFP, ReconnectBind, Goto, Working
    <2>2. CASE WatchMove(k)
        BY Zenon, <2>2, BindWorks DEF WatchMove, MoveEntries, Goto, Working, watchVars
    <2>3. CASE WatchDone(k)
        BY Zenon, <2>3, BindWorks DEF WatchDone, Goto, Working
    <2>4. CASE ReconnectMarks(k)
        BY Zenon, <2>4, BindWorks DEF ReconnectMarks, Goto, Working
    <2> QED BY Zenon, <1>1, <2>1, <2>2, <2>3, <2>4, BindEnds DEF Thread
<1>2. ASSUME NEW k \in Conns, HandleWatch(k) PROVE BindInv'
    BY Zenon, <1>2, BindWorks DEF HandleWatch, Goto, Working
<1>3. ASSUME NEW k \in Conns, Unwatch(k) PROVE BindInv'
    <2>1. /\ pc[k] = "idle" /\ UNCHANGED <<pc, owner>> /\ RegisterThread(k)
          /\ fpClients' \subseteq fpClients
        BY Zenon, <1>3 DEF Unwatch, connVars
    <2>2. pc' = [pc EXCEPT ![k] = "idle"]
        BY Zenon, <2>1 DEF BindInv, ConnTypes
    <2> QED BY Zenon, <2>1, <2>2, BindWorks DEF Working
<1>4. ASSUME NEW k \in Conns, NEW c \in Clients, NEW i, EmitReconnect(k, c, i) PROVE BindInv'
    BY Zenon, <1>4, BindWorks DEF EmitReconnect, MoveEntries, Goto, Working, watchVars
<1>5. ASSUME NEW k \in Conns, Hangup(k) PROVE BindInv'
    BY Zenon, <1>5, BindStays DEF Hangup, watchVars
<1>6. CASE NotifyWatchers \/ OutboxWrite \/ Notifier \/ (\E c \in Clients, i \in 1..(next - 1) : EmitAck(c, i))
    BY Zenon, <1>6, BindStays DEF NotifyWatchers, OutboxWrite, Notifier, TickBegin, TickSub, TickSkip,
                           TickSend, TickMark, EmitAck, connVars, watchVars
<1>7. CASE UNCHANGED vars
    BY Zenon, <1>7, BindStays DEF vars, connVars, watchVars
<1> QED BY Zenon, <1>1, <1>2, <1>3, <1>4, <1>5, <1>6, <1>7, BindShakes DEF Next

\* watch_manager.go, startIOThread: however connections of a client overlap and
\* whatever command its threads are in the middle of, when all of them have been
\* through their cleanup neither a binding nor a registration of it is left.
THEOREM ThreadsCleanUp == Spec => []NoOrphan
<1>1. Init => BindInv
    BY DEF Init, BindInv, ConnTypes, PCs, Owned, Working, Registered, Bound
<1>2. BindInv => NoOrphan
    BY SubscriptionAssumption DEF BindInv, ConnTypes, Registered, Bound, NoOrphan, Served, Working
<1> QED BY <1>1, <1>2, BindStep, PTL DEF Spec

-----------------------------------------------------------------------------
(* Entries under rebinds.                                                  *)

EntryTypes ==
    /\ next \in Nat \ {0}
    /\ box \in [Clients -> SUBSET Nat]
    /\ lastAck \in [Clients -> Nat]
    /\ from \in [Conns -> Clients \cup {None}]
    /\ proposed \subseteq Clients \X Nat

\* Event i is on its way to an outbox, in one, or acknowledged.
Kept(i) ==
    \/ \E c \in Clients : <<c, i>> \in proposed \/ i \in box[c]
    \/ \E c \in Clients : i <= lastAck[c]

\* A thread between the two halves of a rebind took the entries of another client.
MovesAcross == \A k \in Conns : from[k] # None => pc[k] \in {"marks", "rmarks"} /\ from[k] # owner[k]

KeptInv == BindInv /\ EntryTypes /\ MovesAcross /\ KeptUntilAcked

\* The indices NotifyWatchers gives out are all the indices it passes over.
LEMMA AllGiven ==
    ASSUME NEW S, IsFiniteSet(S), NEW n \in Nat \ {0},
           NEW idx \in [S -> n..(n + Cardinality(S) - 1)],
           \A c, d \in S : c # d => idx[c] # idx[d],
           NEW i \in n..(n + Cardinality(S) - 1)
    PROVE  \E c \in S : idx[c] = i
<1> DEFINE T == n..(n + Cardinality(S) - 1)
<1>0. n \in Int
    OBVIOUS
<1>1. PICK b \in Int : b = n + Cardinality(S) - 1 /\ n + Cardinality(S) - 1 >= n - 1
    BY FS_CardinalityType
<1>a. IsFiniteSet(n..b) /\ Cardinality(n..b) = IF n > b THEN 0 ELSE b - n + 1
    BY Zenon, <1>0, <1>1, FS_Interval
<1>2. IsFiniteSet(T) /\ Cardinality(T) = Cardinality(S)
    BY <1>1, <1>a, FS_CardinalityType
<1>3. idx \in Injection(S, T)
    BY Zenon DEF Injection, IsInjective
<1>4. idx \in Surjection(S, T)
    BY Zenon, <1>2, <1>3, FS_Injection
<1> QED BY Zenon, <1>4 DEF Surjection

\* Marks move to the new subscription before the old one forgets them.
LEMMA MarksKept ==
    ASSUME KeptInv, NEW k \in Conns, pc[k] \in {"marks", "rmarks"}, MoveMarks(k)
    PROVE  /\ lastAck' \in [Clients -> Nat]
           /\ \A i \in Nat : (\E c \in Clients : i <= lastAck[c]) => \E c \in Clients : i <= lastAck'[c]
<1> DEFINE b == from[k]
           c == owner[k]
<1>1. CASE b = None
    BY Zenon, <1>1 DEF MoveMarks, KeptInv, EntryTypes
<1>2. CASE b # None
    <2>1. b \in Clients /\ c \in Clients /\ b # c
        BY Zenon, <1>2 DEF KeptInv, EntryTypes, MovesAcross, BindInv, Owned, Working
    <2>2. /\ lastAck[b] \in Nat /\ lastAck[c] \in Nat
          /\ lastAck' = [lastAck EXCEPT ![c] = Max({lastAck[c], lastAck[b]}), ![b] = 0]
        BY Zenon, <1>2, <2>1 DEF MoveMarks, KeptInv, EntryTypes
    <2>3. PICK m \in Nat : /\ m = Max({lastAck[c], lastAck[b]})
                           /\ m >= lastAck[b] /\ m >= lastAck[c]
        BY <2>2 DEF Max
    <2>4. /\ lastAck' \in [Clients -> Nat] /\ lastAck'[c] = m
          /\ \A d \in Clients : d # c /\ d # b => lastAck'[d] = lastAck[d]
        BY Zenon, <2>1, <2>2, <2>3 DEF KeptInv, EntryTypes
    <2>5. ASSUME NEW i \in Nat, NEW d \in Clients, i <= lastAck[d]
          PROVE  \E e \in Clients : i <= lastAck'[e]
        <3>1. CASE d \in {b, c}
            BY <2>1, <2>2, <2>3, <2>4, <2>5, <3>1
        <3>2. CASE d \notin {b, c}
            BY Zenon, <2>4, <2>5, <3>2
        <3> QED BY Zenon, <3>1, <3>2
    <2> QED BY Zenon, <2>4, <2>5
<1> QED BY Zenon, <1>1, <1>2

\* Entries move to the new subscription in the step that empties the old one.
LEMMA EntriesKept ==
    ASSUME KeptInv, NEW k \in Conns, owner[k] \in Clients, NEW named, NEW p \in {"marks", "rmarks"},
           MoveEntries(k, named, p), UNCHANGED <<owner, proposed, next, lastAck>>
    PROVE  EntryTypes' /\ MovesAcross' /\ KeptUntilAcked'
<1> DEFINE c == owner[k]
<1>1. pc' = [pc EXCEPT ![k] = p] /\ pc \in [Conns -> PCs]
    BY Zenon DEF MoveEntries, Goto, KeptInv, BindInv, ConnTypes
<1>2. ASSUME NEW b \in OldSubs(named) \ {c},
             box' = [box EXCEPT ![c] = @ \cup box[b], ![b] = {}],
             from' = [from EXCEPT ![k] = b]
      PROVE  EntryTypes' /\ MovesAcross' /\ KeptUntilAcked'
    <2>1. b \in Clients /\ b # c
        BY Zenon, <1>2, SubscriptionAssumption DEF OldSubs
    <2>2. EntryTypes' /\ MovesAcross'
        BY Zenon, <1>1, <1>2, <2>1 DEF KeptInv, EntryTypes, MovesAcross
    <2>3. ASSUME NEW i, NEW d \in Clients, i \in box[d] PROVE \E e \in Clients : i \in box'[e]
        <3>1. box'[c] = box[c] \cup box[b] /\ (d \notin {b, c} => box'[d] = box[d])
            BY Zenon, <1>2, <2>1 DEF KeptInv, EntryTypes
        <3> QED BY Zenon, <2>3, <3>1, <2>1
    <2>4. KeptUntilAcked'
        BY Zenon, <2>3 DEF KeptInv, KeptUntilAcked
    <2> QED BY Zenon, <2>2, <2>4
<1>3. ASSUME from' = [from EXCEPT ![k] = None], UNCHANGED box
      PROVE  EntryTypes' /\ MovesAcross' /\ KeptUntilAcked'
    BY Zenon, <1>1, <1>3 DEF KeptInv, EntryTypes, MovesAcross, KeptUntilAcked
<1> QED BY Zenon, <1>2, <1>3 DEF MoveEntries

\* Steps that touch neither entries nor watermarks nor a rebind under way.
LEMMA EntriesStay ==
    ASSUME KeptInv, UNCHANGED <<from, proposed, next, box, lastAck>>,
           \A k \in Conns : from[k] # None => pc'[k] = pc[k] /\ owner'[k] = owner[k]
    PROVE  EntryTypes' /\ MovesAcross' /\ KeptUntilAcked'
BY Zenon DEF KeptInv, EntryTypes, MovesAcross, KeptUntilAcked

LEMMA ThreadKeeps ==
    ASSUME KeptInv, NEW k \in Conns, Thread(k)
    PROVE  EntryTypes' /\ MovesAcross' /\ KeptUntilAcked'
<1>1. pc \in [Conns -> PCs] /\ owner \in [Conns -> Clients \cup {None}]
    BY Zenon DEF KeptInv, BindInv, ConnTypes
<1>2. CASE Cleanup(k) \/ ClearWatermarks(k) \/ RebindClientForFP(k) \/ ReconnectBind(k)
    <2>1. pc[k] \in {"idle", "clear", "bind", "rbind"} /\ UNCHANGED <<from, proposed, next, box, lastAck>>
        BY Zenon, <1>2 DEF Cleanup, ClearWatermarks, RebindClientForFP, ReconnectBind, raftVars, outboxVars
    <2>2. \A j \in Conns : j # k => pc'[j] = pc[j] /\ owner'[j] = owner[j]
        BY Zenon, <1>1, <1>2 DEF Cleanup, ClearWatermarks, RebindClientForFP, ReconnectBind, Ended, Goto
    <2>3. from[k] = None
        BY Zenon, <2>1 DEF KeptInv, MovesAcross
    <2> QED BY Zenon, <2>1, <2>2, <2>3, EntriesStay
<1>3. CASE WatchMove(k)
    <2>1. /\ MoveEntries(k, None, "marks") /\ UNCHANGED <<owner, proposed, next, lastAck>>
          /\ owner[k] \in Clients
        BY Zenon, <1>3 DEF WatchMove, raftVars, KeptInv, BindInv, Owned, Working
    <2> QED BY Zenon, <2>1, EntriesKept
<1>4. CASE WatchDone(k) \/ ReconnectMarks(k)
    <2>1. /\ pc[k] \in {"marks", "rmarks"} /\ MoveMarks(k)
          /\ from' = [from EXCEPT ![k] = None]
          /\ UNCHANGED <<owner, proposed, next, box>>
          /\ \A j \in Conns : j # k => pc'[j] = pc[j]
        BY Zenon, <1>1, <1>4 DEF WatchDone, ReconnectMarks, raftVars, Goto
    <2>2. /\ lastAck' \in [Clients -> Nat]
          /\ \A i \in Nat : (\E c \in Clients : i <= lastAck[c]) => \E c \in Clients : i <= lastAck'[c]
        BY Zenon, <2>1, MarksKept
    <2>3. EntryTypes' /\ MovesAcross'
        BY Zenon, <2>1, <2>2 DEF KeptInv, EntryTypes, MovesAcross
    <2>4. ASSUME NEW i \in 1..(next - 1) PROVE Kept(i)'
        <3>1. i \in Nat
            BY DEF KeptInv, EntryTypes
        <3>2. Kept(i)
            BY Zenon DEF KeptInv, KeptUntilAcked, Kept
        <3> QED BY Zenon, <3>1, <3>2, <2>1, <2>2 DEF Kept
    <2>5. KeptUntilAcked'
        BY Zenon, <2>1, <2>4 DEF KeptUntilAcked, Kept
    <2> QED BY Zenon, <2>3, <2>5
<1> QED BY Zenon, <1>2, <1>3, <1>4 DEF Thread

\* Events, their application and acknowledgements.
LEMMA EventKeeps ==
    ASSUME KeptInv, \/ NotifyWatchers \/ OutboxWrite
                    \/ \E c \in Clients, i \in 1..(next - 1) : EmitAck(c, i)
    PROVE  EntryTypes' /\ MovesAcross' /\ KeptUntilAcked'
<1>0. UNCHANGED <<from, pc, owner>>
    BY Zenon DEF NotifyWatchers, OutboxWrite, EmitAck, connVars
<1>1. MovesAcross'
    BY Zenon, <1>0 DEF KeptInv, MovesAcross
<1>2. CASE NotifyWatchers
    <2>1. IsFiniteSet(fpClients) /\ Cardinality(fpClients) \in Nat
        BY Zenon, SubscriptionAssumption, FS_Subset, FS_CardinalityType DEF KeptInv, BindInv, ConnTypes
    <2>2. PICK idx \in [fpClients -> next..(next + Cardinality(fpClients) - 1)] :
             /\ \A c, d \in fpClients : c # d => idx[c] # idx[d]
             /\ proposed' = proposed \cup {<<c, idx[c]>> : c \in fpClients}
        BY Zenon, <1>2 DEF NotifyWatchers
    <2>3. next' = next + Cardinality(fpClients) /\ UNCHANGED <<box, lastAck>>
        BY Zenon, <1>2 DEF NotifyWatchers, outboxVars
    <2>4. EntryTypes'
        <3>1. next \in Nat /\ next' \in Nat \ {0}
            BY <2>1, <2>3 DEF KeptInv, EntryTypes
        <3>2. \A c \in fpClients : idx[c] \in Nat /\ c \in Clients
            BY <3>1, <2>1 DEF KeptInv, BindInv, ConnTypes
        <3>3. proposed' \subseteq Clients \X Nat
            BY <2>2, <3>2 DEF KeptInv, EntryTypes
        <3> QED BY Zenon, <1>0, <2>3, <3>1, <3>3 DEF KeptInv, EntryTypes
    <2>5. ASSUME NEW i \in 1..(next' - 1)
          PROVE  Kept(i)'
        <3>0. i \in Nat /\ next \in Nat
            BY <2>1, <2>3 DEF KeptInv, EntryTypes
        <3>1. CASE i < next
            <4>1. i \in 1..(next - 1)
                BY <3>1, <2>1, <2>3 DEF KeptInv, EntryTypes
            <4> QED BY Zenon, <4>1, <2>2, <2>3 DEF KeptInv, KeptUntilAcked, Kept
        <3>2. CASE i >= next
            <4>1. i \in next..(next + Cardinality(fpClients) - 1) /\ next \in Nat \ {0}
                BY <3>2, <2>1, <2>3 DEF KeptInv, EntryTypes
            <4>2. \E c \in fpClients : idx[c] = i
                BY <4>1, <2>1, <2>2, AllGiven
            <4> QED BY <4>2, <2>2 DEF KeptInv, BindInv, ConnTypes, Kept
        <3> QED BY <3>0, <3>1, <3>2
    <2>6. KeptUntilAcked'
        BY Zenon, <2>5 DEF KeptUntilAcked, Kept
    <2> QED BY Zenon, <1>1, <2>4, <2>6
<1>3. CASE OutboxWrite
    <2>1. PICK e \in proposed : /\ proposed' = proposed \ {e}
                                /\ box' = [box EXCEPT ![e[1]] = @ \cup {e[2]}]
                                /\ next' = next /\ lastAck' = lastAck
        BY Zenon, <1>3 DEF OutboxWrite
    <2>2. e[1] \in Clients /\ e[2] \in Nat /\ e = <<e[1], e[2]>>
        BY DEF KeptInv, EntryTypes
    <2>3. EntryTypes'
        BY Zenon, <1>0, <2>1, <2>2 DEF KeptInv, EntryTypes
    <2>4. /\ \A c \in Clients : box[c] \subseteq box'[c]
          /\ e[2] \in box'[e[1]]
        BY Zenon, <2>1, <2>2 DEF KeptInv, EntryTypes
    <2>5. ASSUME NEW i \in 1..(next - 1), Kept(i) PROVE Kept(i)'
        <3>1. ASSUME NEW c \in Clients, <<c, i>> \in proposed PROVE Kept(i)'
            <4>1. CASE <<c, i>> = e
                BY Zenon, <4>1, <2>2, <2>4 DEF Kept
            <4>2. CASE <<c, i>> # e
                BY Zenon, <3>1, <4>2, <2>1 DEF Kept
            <4> QED BY Zenon, <4>1, <4>2
        <3> QED BY Zenon, <3>1, <2>5, <2>1, <2>4 DEF Kept
    <2>6. KeptUntilAcked'
        BY Zenon, <2>1, <2>5 DEF KeptInv, KeptUntilAcked, Kept
    <2> QED BY Zenon, <1>1, <2>3, <2>6
<1>4. ASSUME NEW c \in Clients, NEW i \in 1..(next - 1), EmitAck(c, i)
      PROVE  EntryTypes' /\ MovesAcross' /\ KeptUntilAcked'
    <2>1. /\ i > lastAck[c] /\ lastAck' = [lastAck EXCEPT ![c] = i]
          /\ box' = [box EXCEPT ![c] = {j \in @ : j > i}]
          /\ UNCHANGED <<proposed, next>>
        BY Zenon, <1>4 DEF EmitAck, raftVars
    <2>2. i \in Nat /\ EntryTypes'
        BY <1>0, <2>1 DEF KeptInv, EntryTypes
    <2>3. /\ lastAck'[c] = i /\ lastAck[c] < i
          /\ \A d \in Clients : d # c => lastAck'[d] = lastAck[d] /\ box'[d] = box[d]
          /\ box'[c] = {j \in box[c] : j > i}
        BY Zenon, <2>1, <2>2 DEF KeptInv, EntryTypes
    <2>4. ASSUME NEW j \in 1..(next - 1), Kept(j) PROVE Kept(j)'
        <3>1. j \in Nat /\ lastAck[c] \in Nat
            BY DEF KeptInv, EntryTypes
        <3>2. CASE j <= i
            BY Zenon, <2>3, <3>2 DEF Kept
        <3>3. CASE j > i
            <4>1. \A d \in Clients : j \in box[d] => j \in box'[d]
                BY Zenon, <2>3, <3>3
            <4>2. ASSUME NEW d \in Clients, j <= lastAck[d] PROVE d # c /\ j <= lastAck'[d]
                <5>1. d # c
                    BY <2>2, <2>3, <3>1, <3>3, <4>2
                <5> QED BY Zenon, <2>3, <4>2, <5>1
            <4> QED BY Zenon, <2>1, <2>4, <4>1, <4>2 DEF Kept
        <3> QED BY <2>2, <3>1, <3>2, <3>3
    <2>5. KeptUntilAcked'
        BY Zenon, <2>1, <2>4 DEF KeptInv, KeptUntilAcked, Kept
    <2> QED BY Zenon, <1>1, <2>2, <2>5
<1> QED BY Zenon, <1>2, <1>3, <1>4

LEMMA KeptStep ==
    ASSUME KeptInv, [Next]_vars
    PROVE  KeptInv'
<1>0. /\ BindInv'
      /\ pc \in [Conns -> PCs] /\ owner \in [Conns -> Clients \cup {None}]
    BY Zenon, BindStep DEF KeptInv, BindInv, ConnTypes
<1> SUFFICES EntryTypes' /\ MovesAcross' /\ KeptUntilAcked'
    BY Zenon, <1>0 DEF KeptInv
<1>1. ASSUME NEW k \in Conns, NEW c \in Clients, Handshake(k, c)
      PROVE  EntryTypes' /\ MovesAcross' /\ KeptUntilAcked'
    <2>1. pc[k] = "closed" /\ UNCHANGED <<from, proposed, next, box, lastAck>>
        BY Zenon, <1>1 DEF Handshake, raftVars, outboxVars
    <2>2. \A j \in Conns : j # k => pc'[j] = pc[j] /\ owner'[j] = owner[j]
        BY Zenon, <1>0, <1>1 DEF Handshake, Goto
    <2>3. from[k] = None
        BY Zenon, <2>1 DEF KeptInv, MovesAcross
    <2> QED BY Zenon, <2>1, <2>2, <2>3, EntriesStay
<1>2. ASSUME NEW k \in Conns, HandleWatch(k)
      PROVE  EntryTypes' /\ MovesAcross' /\ KeptUntilAcked'
    <2>1. pc[k] = "idle" /\ UNCHANGED <<owner, from, proposed, next, box, lastAck>>
        BY Zenon, <1>2 DEF HandleWatch, raftVars, outboxVars
    <2>2. \A j \in Conns : j # k => pc'[j] = pc[j]
        BY Zenon, <1>0, <1>2 DEF HandleWatch, Goto
    <2>3. from[k] = None
        BY Zenon, <2>1 DEF KeptInv, MovesAcross
    <2> QED BY Zenon, <2>1, <2>2, <2>3, EntriesStay
<1>3. ASSUME NEW k \in Conns, NEW c \in Clients, NEW i, EmitReconnect(k, c, i)
      PROVE  EntryTypes' /\ MovesAcross' /\ KeptUntilAcked'
    <2>1. /\ MoveEntries(k, c, "rmarks") /\ UNCHANGED <<owner, proposed, next, lastAck>>
          /\ owner[k] \in Clients
        BY Zenon, <1>3 DEF EmitReconnect, raftVars, KeptInv, BindInv, Owned, Working
    <2> QED BY Zenon, <2>1, EntriesKept
<1>4. ASSUME UNCHANGED <<pc, owner, from, proposed, next, box, lastAck>>
      PROVE  EntryTypes' /\ MovesAcross' /\ KeptUntilAcked'
    BY Zenon, <1>4, EntriesStay
<1>5. ASSUME NEW k \in Conns, Hangup(k) \/ Unwatch(k)
      PROVE  EntryTypes' /\ MovesAcross' /\ KeptUntilAcked'
    BY Zenon, <1>4, <1>5 DEF Hangup, Unwatch, connVars, raftVars, outboxVars
<1>6. CASE Notifier \/ UNCHANGED vars
    BY Zenon, <1>4, <1>6 DEF Notifier, TickBegin, TickSub, TickSkip, TickSend, TickMark, vars, connVars,
                      raftVars, outboxVars
<1> QED BY Zenon, <1>1, <1>2, <1>3, <1>5, <1>6, ThreadKeeps, EventKeeps DEF Next

\* outbox.go RebindByFingerprint: although the entries move under one lock and
\* the watermarks under another, with the commands of other threads in between,
\* an event that was committed is in some outbox until it is acknowledged.
THEOREM RebindsLoseNothing == Spec => []KeptUntilAcked
<1>1. Init => KeptInv
    <2> SUFFICES ASSUME Init PROVE KeptInv
        BY Zenon
    <2>1. BindInv
        BY Zenon DEF Init, BindInv, ConnTypes, PCs, Owned, Working, Registered, Bound
    <2>2. EntryTypes /\ MovesAcross /\ KeptUntilAcked
        BY DEF Init, EntryTypes, MovesAcross, KeptUntilAcked
    <2> QED BY Zenon, <2>1, <2>2 DEF KeptInv
<1>2. KeptInv => KeptUntilAcked
    BY Zenon DEF KeptInv
<1> QED BY <1>1, <1>2, KeptStep, PTL DEF Spec

-----------------------------------------------------------------------------
(* The watermark of the notifier, for a client whose connections follow    *)
(* each other and whose watermark is cleared between ticks.                *)

\* Client c alone connects, in the circumstances of the subscription_quiet run.
Solo(c) == setting.clients \subseteq {c} /\ ~setting.takeover /\ ~setting.clearInTick
Undisturbed == \E c \in Clients : Solo(c)

MarkTypes ==
    /\ compact \in [Clients -> Nat] /\ sent \in [Clients -> Nat]
    /\ got \in [Clients -> SUBSET Nat]
    /\ tick \in [subs : SUBSET Clients, cur : Clients \cup {None}, batch : SUBSET Nat,
                 unmarked : BOOLEAN]

\* Nobody else leaves a trace, and c has one connection at a time, registered
\* as long as its client end is open.
Single(c) ==
    /\ \A k \in Conns : owner[k] \in {c, None} /\ from[k] = None
    /\ \A j, k \in Conns : owner[j] = c /\ owner[k] = c => j = k
    /\ alive \subseteq {k \in Conns : pc[k] \in Working /\ thread[c] = k}
    /\ fpClients \subseteq {c} /\ tick.subs \subseteq {c}
    /\ \A d \in Clients \ {c} : box[d] = {} /\ lastAck[d] = 0 /\ compact[d] = 0

\* Entries are numbered in the order in which they reach the outbox.
InOrder(c) ==
    /\ sent[c] < next
    /\ \A e \in proposed : e[1] = c /\ e[2] > sent[c] /\ e[2] < next
    /\ \A i \in box[c] \cup tick.batch : i > 0 /\ i < next /\ \A e \in proposed : i < e[2]

\* The notifier's batch leaves out no newer entry in its range.
Covered(c) ==
    /\ tick.batch # {} => tick.cur = c
    /\ tick.unmarked => tick.batch # {} /\ sent[c] < Min(tick.batch)
    /\ \A i \in box[c], b \in tick.batch : sent[c] < i /\ i <= b => i \in tick.batch

\* Without a connection nothing counts as sent; while one is open, what was sent
\* was received.
Received(c) ==
    /\ Served(c) = {} => sent[c] = 0 /\ ~tick.unmarked
    /\ alive # {} => /\ \A i \in box[c] : i <= sent[c] => i \in got[c]
                     /\ tick.unmarked => Min(tick.batch) \in got[c]

Quietly(c) == MarkTypes /\ Single(c) /\ InOrder(c) /\ Covered(c) /\ Received(c)

SentInv == KeptInv /\ \A c \in Clients : Solo(c) => Quietly(c)

\* A set of natural numbers that is not empty has a least element.
LEMMA MinOf ==
    ASSUME NEW T \in SUBSET Nat, T # {}
    PROVE  Min(T) \in T /\ \A y \in T : Min(T) <= y
<1> DEFINE R == OpToRel(<, Nat)
<1>1. IsWellFoundedOn(R, Nat)
    BY Zenon, NatLessThanWellFounded
<1>2. PICK x \in T : \A y \in T : <<y, x>> \notin R
    BY Zenon, <1>1, WFMin
<1>3. R = {ss \in Nat \X Nat : ss[1] < ss[2]}
    BY Zenon DEF OpToRel
<1> HIDE DEF R
<1>4. ASSUME NEW y \in T PROVE x <= y
    <2>1. <<y, x>> \notin {ss \in Nat \X Nat : ss[1] < ss[2]}
        BY Zenon, <1>2, <1>3
    <2> QED BY <2>1
<1> QED BY Zenon, <1>4 DEF Min

\* Whoever has a connection open is c, and it is the only connection of c.
LEMMA OpenIsOnly ==
    ASSUME KeptInv, NEW c \in Clients, Quietly(c), NEW k \in alive
    PROVE  k \in Conns /\ owner[k] = c /\ thread[c] = k /\ Served(c) = {k}
<1>1. k \in Conns /\ pc[k] \in Working /\ thread[c] = k
    BY Zenon DEF Quietly, Single
<1>2. owner[k] = c
    BY <1>1, SubscriptionAssumption DEF KeptInv, BindInv, Owned, Quietly, Single
<1> QED BY <1>1, <1>2 DEF Quietly, Single, Served

\* When the client's thread has lost its client end, no connection is open.
LEMMA NoneOpen ==
    ASSUME KeptInv, NEW c \in Clients, Quietly(c), NEW k \in Conns, owner[k] = c, k \notin alive
    PROVE  alive = {}
<1>1. ASSUME NEW j \in alive PROVE j = k
    <2>1. j \in Conns /\ owner[j] = c
        BY Zenon, OpenIsOnly
    <2> QED BY Zenon, <2>1 DEF Quietly, Single
<1> QED BY Zenon, <1>1

\* A thread at work may register itself and bind or unbind its client.
LEMMA QuietWorks ==
    ASSUME KeptInv, NEW c \in Clients, Quietly(c), NEW k \in Conns, pc[k] \in Working,
           NEW p \in Working, pc' = [pc EXCEPT ![k] = p],
           UNCHANGED <<owner, alive, from, raftVars, outboxVars, sent, tick, got>>,
           UNCHANGED thread \/ RegisterThread(k),
           fpClients' \subseteq fpClients \cup {owner[k]}
    PROVE  Quietly(c)'
<1>1. owner[k] = c
    BY SubscriptionAssumption DEF KeptInv, BindInv, Owned, Quietly, Single
<1>2. \A j \in alive : j = k
    BY <1>1, OpenIsOnly DEF Served
<1>3. alive' \subseteq {j \in Conns : pc'[j] \in Working /\ thread'[c] = j}
    BY Zenon, <1>1, <1>2 DEF KeptInv, BindInv, ConnTypes, Quietly, Single, RegisterThread
<1>4. Single(c)'
    BY Zenon, <1>1, <1>3 DEF Quietly, Single, outboxVars
<1>5. MarkTypes' /\ InOrder(c)' /\ Covered(c)' /\ Received(c)'
    BY Zenon DEF Quietly, MarkTypes, InOrder, Covered, Received, Served, raftVars, outboxVars
<1> QED BY Zenon, <1>4, <1>5 DEF Quietly

\* No rebind finds another subscription to take entries or marks from.
LEMMA NothingMoves ==
    ASSUME KeptInv, NEW c \in Clients, Quietly(c), NEW k \in Conns, owner[k] = c,
           NEW named, NEW p, MoveEntries(k, named, p)
    PROVE  UNCHANGED <<box, from>> /\ pc' = [pc EXCEPT ![k] = p]
<1>1. OldSubs(named) \ {c} = {}
    BY DEF OldSubs, Quietly, Single, KeptInv, EntryTypes
<1>2. UNCHANGED box /\ from' = [from EXCEPT ![k] = None] /\ pc' = [pc EXCEPT ![k] = p]
    BY Zenon, <1>1 DEF MoveEntries, Goto
<1>3. from[k] = None /\ from \in [Conns -> Clients \cup {None}]
    BY Zenon DEF Quietly, Single, KeptInv, EntryTypes
<1> QED BY Zenon, <1>2, <1>3

LEMMA QuietThread ==
    ASSUME KeptInv, NEW c \in Clients, Solo(c), Quietly(c), NEW k \in Conns,
           \/ RebindClientForFP(k) \/ WatchMove(k) \/ WatchDone(k) \/ ReconnectMarks(k)
           \/ ReconnectBind(k) \/ HandleWatch(k) \/ Unwatch(k)
           \/ \E d \in Clients, i \in 0..(next - 1) : EmitReconnect(k, d, i)
    PROVE  Quietly(c)'
<1>1. pc \in [Conns -> PCs] /\ from[k] = None /\ from \in [Conns -> Clients \cup {None}]
    BY Zenon DEF KeptInv, BindInv, ConnTypes, EntryTypes, Quietly, Single
<1>2. pc[k] \in Working
    BY Zenon DEF RebindClientForFP, WatchMove, WatchDone, ReconnectMarks, ReconnectBind, HandleWatch,
           Unwatch, EmitReconnect, Working
<1>3. owner[k] = c
    BY Zenon, <1>2, SubscriptionAssumption DEF KeptInv, BindInv, Owned, Quietly, Single
<1>4. CASE RebindClientForFP(k) \/ ReconnectBind(k) \/ HandleWatch(k)
    BY Zenon, <1>2, <1>4, QuietWorks DEF RebindClientForFP, ReconnectBind, HandleWatch, Goto, Working
<1>5. CASE WatchMove(k)
    <2>1. UNCHANGED <<box, from>> /\ pc' = [pc EXCEPT ![k] = "marks"]
        BY Zenon, <1>3, <1>5, NothingMoves DEF WatchMove
    <2> QED BY Zenon, <1>2, <1>5, <2>1, QuietWorks DEF WatchMove, watchVars, raftVars, outboxVars, Working
<1>6. CASE WatchDone(k) \/ ReconnectMarks(k)
    <2>1. UNCHANGED <<lastAck, compact, from>>
        BY Zenon, <1>1, <1>6 DEF WatchDone, ReconnectMarks, MoveMarks
    <2>2. PICK p \in Working : pc' = [pc EXCEPT ![k] = p]
        BY Zenon, <1>6 DEF WatchDone, ReconnectMarks, Goto, Working
    <2> QED BY Zenon, <1>2, <1>6, <2>1, <2>2, QuietWorks DEF WatchDone, ReconnectMarks, raftVars, outboxVars
<1>7. CASE Unwatch(k)
    <2>1. pc' = [pc EXCEPT ![k] = "idle"]
        BY Zenon, <1>1, <1>7 DEF Unwatch, connVars
    <2> QED BY Zenon, <1>2, <1>7, <2>1, QuietWorks DEF Unwatch, connVars, Working
<1>8. ASSUME NEW d \in Clients, NEW i, EmitReconnect(k, d, i) PROVE Quietly(c)'
    <2>1. UNCHANGED <<box, from>> /\ pc' = [pc EXCEPT ![k] = "rmarks"]
        BY <1>3, <1>8, NothingMoves DEF EmitReconnect
    <2> QED BY Zenon, <1>2, <1>8, <2>1, QuietWorks DEF EmitReconnect, watchVars, raftVars, outboxVars, Working
<1> QED BY Zenon, <1>4, <1>5, <1>6, <1>7, <1>8

\* Connections come and go one after the other.
LEMMA QuietConns ==
    ASSUME KeptInv, NEW c \in Clients, Solo(c), Quietly(c), NEW k \in Conns,
           \/ Hangup(k) \/ Cleanup(k) \/ ClearWatermarks(k)
           \/ \E d \in Clients : Handshake(k, d)
    PROVE  Quietly(c)'
<1>0. /\ pc \in [Conns -> PCs] /\ owner \in [Conns -> Clients \cup {None}]
      /\ thread \in [Clients -> Conns \cup {None}]
    BY Zenon DEF KeptInv, BindInv, ConnTypes
<1> USE SubscriptionAssumption
<1>1. CASE Hangup(k)
    <2>1. alive' \subseteq alive /\ UNCHANGED <<owner, pc, from, watchVars, raftVars, outboxVars, sent, tick, got>>
        BY Zenon, <1>1 DEF Hangup
    <2> QED BY <2>1 DEF Quietly, MarkTypes, Single, InOrder, Covered, Received, Served, watchVars,
                        raftVars, outboxVars
<1>2. CASE Cleanup(k)
    <2>1. pc[k] = "idle" /\ k \notin alive
        BY Zenon, <1>2 DEF Cleanup
    <2>2. owner[k] = c
        BY Zenon, <2>1 DEF KeptInv, BindInv, Owned, Working, Quietly, Single
    <2>a. thread[c] # None => thread[c] \in Conns /\ owner[thread[c]] = c
        BY Zenon, <1>0 DEF KeptInv, BindInv, Registered
    <2>3. thread[c] \in {None, k}
        BY Zenon, <2>2, <2>a DEF Quietly, Single
    <2>4. alive = {}
        BY Zenon, <2>1, <2>2, NoneOpen
    <2>5. /\ fpClients' \subseteq fpClients
          /\ UNCHANGED <<owner, alive, from, raftVars, outboxVars, sent, tick, got>>
        BY Zenon, <1>2, <2>2, <2>3 DEF Cleanup
    <2>6. Single(c)'
        BY Zenon, <2>4, <2>5 DEF Quietly, Single, outboxVars
    <2>7. MarkTypes' /\ InOrder(c)' /\ Covered(c)' /\ Received(c)'
        BY Zenon, <2>4, <2>5 DEF Quietly, MarkTypes, InOrder, Covered, Received, Served, raftVars, outboxVars
    <2> QED BY Zenon, <2>6, <2>7 DEF Quietly
<1>3. CASE ClearWatermarks(k)
    <2>1. /\ pc[k] = "clear" /\ tick = Idle
          /\ owner' = [owner EXCEPT ![k] = None] /\ pc' = [pc EXCEPT ![k] = "done"]
          /\ sent' = [sent EXCEPT ![owner[k]] = 0]
          /\ UNCHANGED <<alive, from, watchVars, raftVars, outboxVars, tick, got>>
        BY Zenon, <1>3 DEF ClearWatermarks, Ended, Goto, Solo
    <2>2. owner[k] = c
        BY <2>1 DEF KeptInv, BindInv, Owned, Working, Quietly, Single
    <2>a. k \notin alive
        BY Zenon, <2>1 DEF Quietly, Single, Working
    <2>3. alive = {}
        BY Zenon, <2>a, <2>2, NoneOpen
    <2>4. /\ tick.batch = {} /\ ~tick.unmarked
          /\ sent' \in [Clients -> Nat] /\ sent'[c] = 0
        BY Zenon, <2>1, <2>2 DEF Idle, Quietly, MarkTypes
    <2>5. Single(c)'
        BY <1>0, <2>1, <2>3 DEF Quietly, Single, watchVars, outboxVars
    <2>6. MarkTypes' /\ Covered(c)' /\ Received(c)'
        BY Zenon, <2>1, <2>3, <2>4 DEF Quietly, MarkTypes, Covered, Received, outboxVars
    <2>7. InOrder(c)'
        <3>1. 0 < next /\ \A e \in proposed : e[2] > 0
            BY DEF Quietly, InOrder, MarkTypes, KeptInv, EntryTypes
        <3> QED BY Zenon, <2>1, <2>4, <3>1 DEF Quietly, InOrder, raftVars, outboxVars
    <2> QED BY Zenon, <2>5, <2>6, <2>7 DEF Quietly
<1>4. ASSUME NEW d \in Clients, Handshake(k, d) PROVE Quietly(c)'
    <2>1. /\ d = c /\ Served(c) = {} /\ (\A j \in alive : owner[j] # c)
          /\ owner' = [owner EXCEPT ![k] = c] /\ pc' = [pc EXCEPT ![k] = "idle"]
          /\ thread' = [thread EXCEPT ![c] = k] /\ alive' = alive \cup {k}
          /\ UNCHANGED <<from, fpClients, raftVars, outboxVars, sent, tick, got>>
        BY Zenon, <1>4 DEF Handshake, Goto, Solo
    <2>2. alive' = {k}
        BY Zenon, <2>1, OpenIsOnly
    <2>3. sent[c] = 0 /\ ~tick.unmarked
        BY Zenon, <2>1 DEF Quietly, Received
    <2>4. Single(c)'
        BY <1>0, <2>1, <2>2 DEF Quietly, Single, Served, outboxVars, Working
    <2>5. Received(c)'
        <3>1. k \in Served(c)'
            BY Zenon, <1>0, <2>1 DEF Served
        <3>2. \A i \in box[c] : ~(i <= 0)
            BY DEF Quietly, InOrder, KeptInv, EntryTypes
        <3> QED BY Zenon, <2>1, <2>3, <3>1, <3>2 DEF Received, outboxVars
    <2>6. MarkTypes' /\ InOrder(c)' /\ Covered(c)'
        BY Zenon, <2>1 DEF Quietly, MarkTypes, InOrder, Covered, raftVars, outboxVars
    <2> QED BY Zenon, <2>4, <2>5, <2>6 DEF Quietly
<1> QED BY Zenon, <1>1, <1>2, <1>3, <1>4

\* Events get indices above all others and reach the outbox in their order.
LEMMA QuietEvents ==
    ASSUME KeptInv, NEW c \in Clients, Quietly(c),
           \/ NotifyWatchers \/ OutboxWrite
           \/ \E d \in Clients, i \in 1..(next - 1) : EmitAck(d, i)
    PROVE  Quietly(c)'
<1>0. /\ UNCHANGED <<owner, alive, pc, from, thread, fpClients, sent, tick, got>>
      /\ next \in Nat /\ box \in [Clients -> SUBSET Nat] /\ lastAck \in [Clients -> Nat]
      /\ compact \in [Clients -> Nat] /\ tick.batch \in SUBSET Nat /\ proposed \subseteq Clients \X Nat
    BY Zenon DEF NotifyWatchers, OutboxWrite, EmitAck, connVars, watchVars, KeptInv, EntryTypes, Quietly,
           MarkTypes
<1>1. CASE NotifyWatchers
    <2>1. IsFiniteSet(fpClients) /\ Cardinality(fpClients) \in Nat
        BY Zenon, SubscriptionAssumption, FS_Subset, FS_CardinalityType DEF KeptInv, BindInv, ConnTypes
    <2>2. PICK idx \in [fpClients -> next..(next + Cardinality(fpClients) - 1)] :
             proposed' = proposed \cup {<<d, idx[d]>> : d \in fpClients}
        BY Zenon, <1>1 DEF NotifyWatchers
    <2>3. next' = next + Cardinality(fpClients) /\ UNCHANGED outboxVars
        BY Zenon, <1>1 DEF NotifyWatchers
    <2>4. next' \in Nat /\ next' >= next
        BY <1>0, <2>1, <2>3
    <2>5. ASSUME NEW e \in proposed' PROVE e[1] = c /\ e[2] > sent[c] /\ e[2] < next'
        <3>1. CASE e \in proposed
            <4>1. e[2] \in Nat /\ e[2] > sent[c] /\ e[2] < next /\ e[1] = c
                BY Zenon, <1>0, <3>1 DEF Quietly, InOrder
            <4> QED BY <1>0, <2>4, <3>1, <4>1
        <3>2. CASE e \notin proposed
            <4>1. PICK d \in fpClients : e = <<d, idx[d]>>
                BY Zenon, <2>2, <3>2
            <4>2. idx[d] \in next..(next + Cardinality(fpClients) - 1) /\ d = c
                BY Zenon DEF Quietly, Single
            <4>3. sent[c] \in Nat /\ sent[c] < next
                BY Zenon DEF Quietly, MarkTypes, InOrder
            <4> QED BY SMTT(30), <1>0, <2>1, <2>3, <4>1, <4>2, <4>3
        <3> QED BY Zenon, <3>1, <3>2
    <2>6. ASSUME NEW i \in box[c] \cup tick.batch
          PROVE  i > 0 /\ i < next' /\ \A e \in proposed' : i < e[2]
        <3>1. i \in Nat /\ i > 0 /\ i < next /\ \A e \in proposed : i < e[2]
            BY Zenon, <1>0 DEF Quietly, InOrder
        <3>2. ASSUME NEW e \in proposed', e \notin proposed PROVE i < e[2]
            <4>1. PICK d \in fpClients : e = <<d, idx[d]>>
                BY Zenon, <2>2, <3>2
            <4>2. idx[d] \in next..(next + Cardinality(fpClients) - 1)
                BY Zenon
            <4> QED BY <1>0, <2>1, <3>1, <4>1, <4>2
        <3> QED BY <1>0, <2>4, <3>1, <3>2
    <2>7. InOrder(c)'
        <3>1. sent[c] \in Nat /\ sent[c] < next
            BY Zenon DEF Quietly, MarkTypes, InOrder
        <3>2. sent'[c] < next'
            BY <1>0, <2>4, <3>1
        <3> QED BY Zenon, <1>0, <2>3, <2>5, <2>6, <3>2 DEF InOrder, outboxVars
    <2> QED BY <1>0, <2>3, <2>7 DEF Quietly, MarkTypes, Single, Covered, Received, Served, outboxVars
<1>2. CASE OutboxWrite
    <2>1. PICK e \in proposed : /\ \A f \in proposed : e[2] <= f[2]
                                /\ proposed' = proposed \ {e}
                                /\ box' = [box EXCEPT ![e[1]] = @ \cup {e[2]}]
                                /\ UNCHANGED <<next, lastAck, compact>>
        BY Zenon, <1>2 DEF OutboxWrite
    <2>2. /\ e[1] = c /\ e[2] \in Nat /\ e[2] < next /\ e = <<c, e[2]>>
          /\ sent[c] \in Nat /\ e[2] > sent[c]
        BY <1>0 DEF Quietly, InOrder, MarkTypes
    <2>3. /\ box'[c] = box[c] \cup {e[2]}
          /\ \A d \in Clients : d # c => box'[d] = box[d]
        BY Zenon, <1>0, <2>1, <2>2
    <2>4. \A i \in box[c] \cup tick.batch : i \in Nat /\ i < e[2]
        BY Zenon, <1>0 DEF Quietly, InOrder
    <2>5. e[2] > 0 /\ \A f \in proposed' : e[2] < f[2]
        <3>1. ASSUME NEW f \in proposed, f # e PROVE e[2] < f[2]
            <4>1. f = <<c, f[2]>> /\ f[2] \in Nat /\ e[2] <= f[2]
                BY <1>0, <2>1 DEF Quietly, InOrder
            <4> QED BY <2>2, <3>1, <4>1
        <3>2. e[2] > 0
            BY <2>2
        <3> QED BY Zenon, <2>1, <3>1, <3>2
    <2>6. InOrder(c)'
        BY <1>0, <2>1, <2>2, <2>3, <2>5 DEF Quietly, InOrder
    <2>7. Covered(c)'
        BY <1>0, <2>2, <2>3, <2>4 DEF Quietly, Covered
    <2>8. Received(c)'
        <3>1. ~(e[2] <= sent[c])
            BY <2>2
        <3> QED BY Zenon, <1>0, <2>3, <3>1 DEF Quietly, Received, Served
    <2>9. Single(c)' /\ MarkTypes'
        BY Zenon, <1>0, <2>1, <2>3 DEF Quietly, Single, MarkTypes
    <2> QED BY Zenon, <2>6, <2>7, <2>8, <2>9 DEF Quietly
<1>3. ASSUME NEW d \in Clients, NEW i \in 1..(next - 1), EmitAck(d, i) PROVE Quietly(c)'
    <2>1. /\ lastAck' = [lastAck EXCEPT ![d] = i] /\ compact' = [compact EXCEPT ![d] = i]
          /\ box' = [box EXCEPT ![d] = {j \in @ : j > i}] /\ UNCHANGED <<proposed, next>>
          /\ \E k \in alive : owner[k] = d
        BY Zenon, <1>3 DEF EmitAck, raftVars
    <2>2. d = c /\ i \in Nat
        BY <1>0, <2>1, OpenIsOnly
    <2>3. box'[c] \subseteq box[c] /\ \A b \in Clients : b # c => box'[b] = box[b]
        BY Zenon, <1>0, <2>1, <2>2
    <2>4. Single(c)' /\ MarkTypes'
        BY <1>0, <2>1, <2>2, <2>3 DEF Quietly, Single, MarkTypes
    <2>5. InOrder(c)' /\ Covered(c)' /\ Received(c)'
        BY Zenon, <1>0, <2>1, <2>3 DEF Quietly, InOrder, Covered, Received, Served
    <2> QED BY Zenon, <2>4, <2>5 DEF Quietly
<1> QED BY Zenon, <1>1, <1>2, <1>3

\* The notifier's tick.
LEMMA QuietTick ==
    ASSUME KeptInv, NEW c \in Clients, Quietly(c), Notifier
    PROVE  Quietly(c)'
<1>0. /\ UNCHANGED <<owner, alive, pc, from, thread, fpClients, raftVars, outboxVars>>
      /\ box \in [Clients -> SUBSET Nat] /\ tick.batch \in SUBSET Nat /\ sent \in [Clients -> Nat]
      /\ tick \in [subs : SUBSET Clients, cur : Clients \cup {None}, batch : SUBSET Nat,
                   unmarked : BOOLEAN]
    BY Zenon DEF Notifier, TickBegin, TickSub, TickSkip, TickSend, TickMark, connVars, watchVars, KeptInv,
           EntryTypes, Quietly, MarkTypes
<1>1. ASSUME NEW T \in [subs : SUBSET Clients, cur : Clients \cup {None}, batch : SUBSET Nat,
                        unmarked : BOOLEAN],
             tick' = T, T.subs \subseteq {c}, T.batch \subseteq box[c] \cup tick.batch,
             UNCHANGED sent, \A d \in Clients : got[d] \subseteq got'[d],
             got' \in [Clients -> SUBSET Nat],
             T.batch # {} => T.cur = c, T.unmarked => T.batch # {} /\ sent[c] < Min(T.batch),
             \A i \in box[c], b \in T.batch : sent[c] < i /\ i <= b => i \in T.batch,
             Served(c) = {} => ~T.unmarked,
             alive # {} /\ T.unmarked => Min(T.batch) \in got'[c]
      PROVE  Quietly(c)'
    <2>1. MarkTypes' /\ Single(c)'
        BY Zenon, <1>0, <1>1 DEF Quietly, MarkTypes, Single, outboxVars
    <2>2. InOrder(c)'
        BY Zenon, <1>0, <1>1 DEF Quietly, InOrder, raftVars, outboxVars
    <2>3. Covered(c)'
        BY Zenon, <1>0, <1>1 DEF Quietly, Covered, outboxVars
    <2>4. Received(c)'
        BY Zenon, <1>0, <1>1 DEF Quietly, Received, Served, outboxVars
    <2> QED BY Zenon, <2>1, <2>2, <2>3, <2>4 DEF Quietly
<1>2. ASSUME NEW B \in SUBSET Nat
      PROVE  /\ Rest(B) \in [subs : SUBSET Clients, cur : Clients \cup {None}, batch : SUBSET Nat,
                             unmarked : BOOLEAN]
             /\ Rest(B).subs \subseteq tick.subs /\ Rest(B).batch = B /\ ~Rest(B).unmarked
             /\ B # {} => Rest(B).cur = tick.cur
    BY Zenon, <1>0 DEF Rest, Idle
<1>3. CASE TickBegin
    <2>1. /\ tick = Idle /\ tick' = [tick EXCEPT !.subs = {d \in Clients : box[d] # {}}]
          /\ UNCHANGED <<sent, got>>
        BY Zenon, <1>3 DEF TickBegin
    <2>2. {d \in Clients : box[d] # {}} \subseteq {c}
        BY Zenon DEF Quietly, Single
    <2>3. tick' = [subs |-> {d \in Clients : box[d] # {}}, cur |-> None, batch |-> {}, unmarked |-> FALSE]
        BY Zenon, <2>1 DEF Idle
    <2> QED BY SMTT(30), <1>1, <2>1, <2>2, <2>3 DEF Quietly, MarkTypes
<1>4. ASSUME NEW d \in Clients, TickSub(d) PROVE Quietly(c)'
    <2>1. /\ d \in tick.subs /\ tick.batch = {} /\ UNCHANGED <<sent, got>>
          /\ \E u \in {None, d} : (box[d] # {} => u = d) /\
                 tick' = [tick EXCEPT !.subs = @ \ {d}, !.batch = box[d], !.cur = u]
        BY Zenon, <1>4 DEF TickSub
    <2>2. d = c /\ ~tick.unmarked
        BY Zenon, <2>1 DEF Quietly, Single, Covered
    <2>3. PICK u \in {None, c} : (box[c] # {} => u = c) /\
                 tick' = [subs |-> tick.subs \ {c}, cur |-> u, batch |-> box[c], unmarked |-> FALSE]
        BY Zenon, <1>0, <2>1, <2>2
    <2>4. [subs |-> tick.subs \ {c}, cur |-> u, batch |-> box[c], unmarked |-> FALSE] \in
             [subs : SUBSET Clients, cur : Clients \cup {None}, batch : SUBSET Nat, unmarked : BOOLEAN]
        BY Zenon, <1>0
    <2> QED BY Zenon, <1>1, <2>1, <2>3, <2>4 DEF Quietly, MarkTypes, Single
<1>5. CASE TickSkip
    <2> DEFINE m == Min(tick.batch)
               B == tick.batch \ {m}
    <2>1. /\ tick.batch # {} /\ m <= sent[tick.cur] /\ tick' = Rest(B) /\ UNCHANGED <<sent, got>>
        BY Zenon, <1>5 DEF TickSkip
    <2>2. m \in tick.batch /\ tick.cur = c /\ B \in SUBSET Nat
        BY Zenon, <1>0, <2>1, MinOf DEF Quietly, Covered
    <2> HIDE DEF m
    <2>3. \A i \in box[c], b \in B : sent[c] < i /\ i <= b => i \in B
        BY <1>0, <2>1, <2>2 DEF Quietly, Covered
    <2>4. PICK T : T = Rest(B)
        BY Zenon
    <2>5. /\ T \in [subs : SUBSET Clients, cur : Clients \cup {None}, batch : SUBSET Nat,
                    unmarked : BOOLEAN]
          /\ T.subs \subseteq {c} /\ T.batch = B /\ ~T.unmarked /\ (B # {} => T.cur = c)
        BY Zenon, <1>2, <2>2, <2>4 DEF Quietly, Single
    <2> QED BY Zenon, <1>1, <2>1, <2>3, <2>4, <2>5 DEF Quietly, MarkTypes
<1>6. CASE TickSend
    <2> DEFINE m == Min(tick.batch)
               Reached == {d \in Targets : thread[d] \in alive}
    <2>1. /\ tick.batch # {} /\ m > sent[tick.cur] /\ UNCHANGED sent
          /\ got' = [d \in Clients |-> IF d \in Reached THEN got[d] \cup {m} ELSE got[d]]
          /\ \/ Targets # {} /\ tick' = [tick EXCEPT !.unmarked = TRUE]
             \/ tick' = Rest({})
        BY Zenon, <1>6 DEF TickSend
    <2>2. m \in tick.batch /\ tick.cur = c /\ sent[c] < m
        <3>1. m \in tick.batch /\ tick.cur = c
            BY Zenon, <1>0, <2>1, MinOf DEF Quietly, Covered
        <3> QED BY Zenon, <1>0, <2>1, <3>1
    <2>3. got' \in [Clients -> SUBSET Nat] /\ \A d \in Clients : got[d] \subseteq got'[d]
        BY Zenon, <1>0, <2>1, <2>2 DEF Quietly, MarkTypes
    <2>4. CASE Targets # {} /\ tick' = [tick EXCEPT !.unmarked = TRUE]
        <3>1. c \in Targets /\ thread[c] # None
            BY Zenon, <2>4 DEF Targets, Quietly, Single
        <3>2. Served(c) # {}
            BY Zenon, <3>1 DEF KeptInv, BindInv, Registered, ConnTypes, Served
        <3>3. alive # {} => m \in got'[c]
            BY <2>1, <3>1, OpenIsOnly
        <3>4. PICK T : T = [subs |-> tick.subs, cur |-> tick.cur, batch |-> tick.batch, unmarked |-> TRUE]
            BY Zenon
        <3>5. /\ T = tick'
              /\ T \in [subs : SUBSET Clients, cur : Clients \cup {None}, batch : SUBSET Nat,
                        unmarked : BOOLEAN]
              /\ T.subs = tick.subs /\ T.cur = c /\ T.batch = tick.batch
            BY Zenon, <1>0, <2>2, <2>4, <3>4
        <3>6. \A i \in box[c], b \in T.batch : sent[c] < i /\ i <= b => i \in T.batch
            BY Zenon, <3>5 DEF Quietly, Covered
        <3> QED BY Zenon, <1>1, <2>1, <2>2, <2>3, <3>2, <3>3, <3>5, <3>6 DEF Quietly, Single
    <2>5. CASE tick' = Rest({})
        <3>1. PICK T : T = Rest({})
            BY Zenon
        <3>2. /\ T \in [subs : SUBSET Clients, cur : Clients \cup {None}, batch : SUBSET Nat,
                        unmarked : BOOLEAN]
              /\ T.subs \subseteq {c} /\ T.batch = {} /\ ~T.unmarked
            BY Zenon, <1>2, <3>1 DEF Quietly, Single
        <3> QED BY Zenon, <1>1, <2>1, <2>3, <2>5, <3>1, <3>2
    <2> QED BY Zenon, <2>1, <2>4, <2>5
<1>7. CASE TickMark
    <2> DEFINE m == Min(tick.batch)
               B == tick.batch \ {m}
    <2>1. /\ tick.unmarked /\ tick' = Rest(B) /\ UNCHANGED got
          /\ sent' = [sent EXCEPT ![tick.cur] = m]
        BY Zenon, <1>7 DEF TickMark
    <2>2. /\ m \in tick.batch /\ tick.cur = c /\ B \in SUBSET Nat /\ m \in Nat
          /\ \A b \in tick.batch : m <= b
          /\ sent[c] < m
        BY Zenon, <1>0, <2>1, MinOf DEF Quietly, Covered
    <2>3. sent' \in [Clients -> Nat] /\ sent'[c] = m
        BY Zenon, <1>0, <2>1, <2>2
    <2>4. Served(c) # {}
        BY Zenon, <2>1 DEF Quietly, Received
    <2>5. alive # {} => m \in got[c]
        BY Zenon, <2>1 DEF Quietly, Received
    <2> HIDE DEF m
    <2>6. ASSUME NEW i \in box[c], i <= m, alive # {} PROVE i \in got[c]
        <3>1. CASE i <= sent[c]
            BY Zenon, <2>6, <3>1 DEF Quietly, Received
        <3>2. CASE sent[c] < i
            <4>1. i \in tick.batch /\ i \in Nat
                BY Zenon, <1>0, <2>2, <2>6, <3>2 DEF Quietly, Covered
            <4> QED BY <2>2, <2>5, <2>6, <4>1
        <3>3. i \in Nat /\ sent[c] \in Nat
            BY Zenon, <1>0
        <3> QED BY <3>1, <3>2, <3>3
    <2>7. ASSUME NEW i \in box[c], NEW b \in B, m < i, i <= b PROVE i \in B
        <3>1. i \in Nat /\ sent[c] \in Nat
            BY Zenon, <1>0
        <3>2. sent[c] < i
            BY <2>2, <2>7, <3>1
        <3> QED BY <2>2, <2>7, <3>1, <3>2 DEF Quietly, Covered
    <2>8. PICK T : T = Rest(B)
        OBVIOUS
    <2>9. /\ T \in [subs : SUBSET Clients, cur : Clients \cup {None}, batch : SUBSET Nat,
                    unmarked : BOOLEAN]
          /\ T.subs \subseteq {c} /\ T.batch = B /\ ~T.unmarked /\ (B # {} => T.cur = c)
        BY Zenon, <1>2, <2>2, <2>8 DEF Quietly, Single
    <2>10. tick' = T
        BY Zenon, <2>1, <2>8
    <2>11. Single(c)' /\ MarkTypes'
        BY Zenon, <1>0, <2>1, <2>3, <2>9, <2>10 DEF Quietly, Single, MarkTypes, outboxVars
    <2>12. InOrder(c)'
        <3>1. m < next /\ \A e \in proposed : m < e[2]
            BY Zenon, <2>2 DEF Quietly, InOrder
        <3>2. \A e \in proposed : e[2] > m
            BY Zenon, <1>0, <2>2, <3>1 DEF KeptInv, EntryTypes
        <3> QED BY Zenon, <1>0, <2>3, <2>9, <2>10, <3>1, <3>2 DEF Quietly, InOrder, raftVars, outboxVars
    <2>13. Covered(c)'
        BY Zenon, <1>0, <2>3, <2>7, <2>9, <2>10 DEF Covered, outboxVars
    <2>14. Received(c)'
        BY Zenon, <1>0, <2>1, <2>3, <2>4, <2>6, <2>9, <2>10 DEF Received, Served, outboxVars
    <2> QED BY Zenon, <2>11, <2>12, <2>13, <2>14 DEF Quietly
<1> QED BY Zenon, <1>3, <1>4, <1>5, <1>6, <1>7 DEF Notifier

LEMMA SentStep ==
    ASSUME SentInv, [Next]_vars
    PROVE  SentInv'
<1>1. KeptInv' /\ KeptInv
    BY Zenon, KeptStep DEF SentInv
<1>2. setting' = setting
    BY Zenon DEF Next, Thread, Cleanup, ClearWatermarks, RebindClientForFP, WatchMove, WatchDone,
           ReconnectMarks, ReconnectBind, Handshake, Hangup, HandleWatch, Unwatch, EmitReconnect,
           NotifyWatchers, OutboxWrite, EmitAck, Notifier, TickBegin, TickSub, TickSkip, TickSend,
           TickMark, connVars, vars
<1>3. ASSUME NEW c \in Clients, Solo(c)' PROVE Quietly(c)'
    <2>1. Solo(c) /\ Quietly(c)
        BY Zenon, <1>2, <1>3 DEF Solo, SentInv
    <2>2. CASE UNCHANGED vars
        BY Zenon, <2>1, <2>2 DEF vars, connVars, watchVars, raftVars, outboxVars, Quietly, MarkTypes, Single,
                          InOrder, Covered, Received, Served
    <2> QED BY Zenon, <1>1, <2>1, <2>2, QuietThread, QuietConns, QuietEvents, QuietTick DEF Next, Thread
<1> QED BY Zenon, <1>1, <1>3 DEF SentInv

\* notifier.go sentThrough and ClearWatermarksForClient: when the connections of a
\* client follow each other and its watermark is cleared between two ticks, an entry
\* that is pending for the attached client and that the notifier skips as sent has
\* reached the client, whatever was under way when an earlier connection broke.
THEOREM SkippedWasReceived == Spec => [](Undisturbed => SentWasReceived)
<1>1. Init => SentInv
    <2> SUFFICES ASSUME Init PROVE SentInv
        OBVIOUS
    <2>1. BindInv
        BY DEF Init, BindInv, ConnTypes, PCs, Owned, Working, Registered, Bound
    <2>2. EntryTypes /\ MovesAcross /\ KeptUntilAcked
        BY DEF Init, EntryTypes, MovesAcross, KeptUntilAcked
    <2>3. ASSUME NEW c \in Clients PROVE Quietly(c)
        <3>1. MarkTypes
            BY Zenon DEF Init, Idle, MarkTypes
        <3>2. Single(c)
            BY Zenon, SubscriptionAssumption DEF Init, Idle, Single
        <3>3. InOrder(c) /\ Covered(c) /\ Received(c)
            BY DEF Init, Idle, InOrder, Covered, Received
        <3> QED BY Zenon, <3>1, <3>2, <3>3 DEF Quietly
    <2> QED BY Zenon, <2>1, <2>2, <2>3 DEF SentInv, KeptInv
<1>2. SentInv /\ Undisturbed => SentWasReceived
    <2> SUFFICES ASSUME SentInv, NEW c \in Clients, Solo(c),
                        NEW d \in Clients, Attached(d), NEW i \in box[d], i <= sent[d]
                 PROVE  i \in got[d]
        BY Zenon DEF Undisturbed, SentWasReceived
    <2>1. Quietly(c) /\ alive # {} /\ d \in fpClients
        BY Zenon DEF SentInv, Attached
    <2>2. d = c
        BY Zenon, <2>1 DEF Quietly, Single
    <2> QED BY Zenon, <2>1, <2>2 DEF Quietly, Received
<1>3. SentInv => (Undisturbed => SentWasReceived)
    BY Zenon, <1>2
<1> QED BY <1>1, <1>3, SentStep, PTL DEF Spec
-----------------------------------------------------------------------------
(* What a GET may answer while other threads change its key.               *)

StoreLabels == {"idle", "find", "check", "refind", "delete", "forget", "make", "lookup",
           "keep", "unexpire", "count", "counted", "put"}
JobType == [op : Kinds \cup {"none", "sweep"}, pc : StoreLabels, id : 0 .. MaxOps,
            cur : 0 .. MaxOps, n : Int, before : SUBSET Nat, stale : SUBSET Nat, got : Int]

StoreTypes ==
    /\ mix \in Mixes /\ time \in {0, 1} /\ tab \in 0 .. MaxOps /\ numKeys \in Int
    /\ deadline \in [Ids -> Nat]
    /\ job \in [Actors -> JobType]
    /\ ops \in [n : Nat, kind : [Ids -> Kinds \cup {"none"}], done : SUBSET Nat,
                superseded : SUBSET Nat, overlap : BOOLEAN, sweeps : Int]

\* What an answer "no such key" may rest on, S being the writes superseded.
MayBeGone(S) == Lapsed \/ 0 \notin S \/ Deletes \ S # {}

\* What actor a knows in job j, by where it stands.
Holds(a, j) ==
    /\ a = "cron" => j.op \in {"none", "sweep"} /\ j.id = 0
    /\ a # "cron" => j.op # "sweep"
    /\ a # "cron" /\ j.pc # "idle" =>
           j.id \in 1 .. ops.n /\ j.id \notin ops.done /\ ops.kind[j.id] = j.op
    /\ j.stale \subseteq ops.superseded /\ j.before \subseteq ops.done
    /\ j.pc \in {"check", "delete", "forget", "keep", "unexpire"} => j.cur \in Ids
    /\ j.pc \in {"make", "lookup", "keep", "unexpire", "put"} => IsSet(j.op)
    /\ j.pc \in {"count", "counted"} /\ j.cur = 0 => IsSet(j.op)
    /\ j.pc = "check" => j.op # "del"
    /\ j.pc = "check" /\ j.op = "get" => j.cur \notin j.stale
    /\ j.pc = "refind" => j.op = "sweep" /\ Lapsed
    \* only a DEL removes what has not expired
    /\ j.pc \in {"delete", "forget", "count", "counted"} /\ j.cur # 0 => j.op = "del" \/ Lapsed
    \* once a DEL has removed the key, what was there when it began is gone
    /\ j.op = "del" /\ j.pc \in {"forget", "count", "counted"} => tab = 0 \/ tab \notin j.before
    /\ j.op = "get" /\ j.got # -1 =>
           IF j.got # 0 THEN j.got \notin j.stale ELSE MayBeGone(j.stale)

\* The key itself: never back to what was superseded, and gone for a reason.
Current ==
    /\ ops.superseded \subseteq ops.done /\ ops.done \subseteq 0 .. ops.n /\ ops.n <= mix.n
    /\ tab # 0 => tab \notin ops.superseded
    /\ tab = 0 => MayBeGone(ops.superseded)
    /\ \A p \in Ids : deadline[p] # 0 => \E i \in Ids : ops.kind[i] = "setttl"
    /\ \A i \in Ids : i > ops.n => ops.kind[i] = "none"
    /\ \A a, b \in Workers :
           a # b /\ job[a].pc # "idle" /\ job[b].pc # "idle" => job[a].id # job[b].id

FreshInv == StoreTypes /\ Current /\ \A a \in Actors : Holds(a, job[a])

LEMMA FreshInit == ThreadsInit => FreshInv
<1> SUFFICES ASSUME ThreadsInit PROVE FreshInv
    OBVIOUS
<1>1. StoreTypes
    BY MixesAssumption DEF ThreadsInit, StoreTypes, NoJob, JobType, StoreLabels, Ids, Kinds
<1>2. Current
    <2>1. ops.n = 0 /\ ops.done = {0} /\ ops.superseded = {} /\ mix.n \in Nat
        BY MixesAssumption DEF ThreadsInit
    <2>2. \A i \in Ids : ops.kind[i] = "none" /\ deadline[i] = 0
        BY Zenon DEF ThreadsInit
    <2>3. \A a \in Workers : job[a].pc = "idle"
        BY Zenon DEF ThreadsInit, NoJob, Actors
    <2> QED BY <2>1, <2>2, <2>3 DEF Current, MayBeGone
<1>3. ASSUME NEW a \in Actors PROVE Holds(a, job[a])
    BY Zenon, MixesAssumption DEF ThreadsInit, Holds, NoJob, Actors
<1> QED BY Zenon, <1>1, <1>2, <1>3 DEF FreshInv

\* Whoever does not move keeps its place while the history grows.
LEMMA HoldsStays ==
    ASSUME NEW a, NEW j, Holds(a, j), Lapsed => Lapsed', Deletes \subseteq Deletes',
           ops.n \in Nat, ops'.n \in Nat, ops.n <= ops'.n,
           ops.superseded \subseteq ops'.superseded, ops.done \subseteq ops'.done,
           a # "cron" /\ j.pc # "idle" =>
               j.id \notin ops'.done /\ ops'.kind[j.id] = ops.kind[j.id],
           tab' = tab \/ tab' = 0 \/ tab' \notin ops.done
    PROVE  Holds(a, j)'
<1>1. MayBeGone(j.stale) => MayBeGone(j.stale)'
    BY Zenon DEF MayBeGone
<1>2. a # "cron" /\ j.pc # "idle" =>
          j.id \in 1 .. ops'.n /\ j.id \notin ops'.done /\ ops'.kind[j.id] = j.op
    BY DEF Holds
<1>3. j.stale \subseteq ops'.superseded /\ j.before \subseteq ops'.done
    BY Zenon DEF Holds
<1>4. j.op = "del" /\ j.pc \in {"forget", "count", "counted"} => tab' = 0 \/ tab' \notin j.before
    BY Zenon DEF Holds
<1> QED BY Zenon, <1>1, <1>2, <1>3, <1>4 DEF Holds

\* A step that touches neither the key nor the history.
LEMMA Quiet ==
    ASSUME FreshInv, NEW a \in Actors, NEW j \in JobType, Holds(a, j),
           job' = [job EXCEPT ![a] = j], j.id = job[a].id, job[a].pc # "idle",
           UNCHANGED <<mix, time, tab, ops>>, numKeys' \in Int, deadline' \in [Ids -> Nat],
           \A p \in Ids : deadline'[p] # 0 => \E i \in Ids : ops.kind[i] = "setttl"
    PROVE  FreshInv'
<1>1. job \in [Actors -> JobType] /\ ops.n \in Nat
    BY Zenon DEF FreshInv, StoreTypes
<1>2. StoreTypes'
    BY Zenon, <1>1 DEF FreshInv, StoreTypes
<1>3. \A b \in Actors : job'[b] = IF b = a THEN j ELSE job[b]
    BY Zenon, <1>1
<1>4. Current'
    <2>1. ASSUME NEW b \in Workers, NEW c \in Workers, b # c, job'[b].pc # "idle", job'[c].pc # "idle"
          PROVE  job'[b].id # job'[c].id
        <3>1. job[b].pc # "idle" /\ job[c].pc # "idle" /\ job'[b].id = job[b].id /\ job'[c].id = job[c].id
            BY Zenon, <1>3, <2>1 DEF Actors
        <3> QED BY Zenon, <2>1, <3>1 DEF FreshInv, Current
    <2>2. MayBeGone(ops.superseded)' <=> MayBeGone(ops.superseded)
        BY Zenon DEF MayBeGone, Lapsed, Deletes
    <2> QED BY Zenon, <2>1, <2>2 DEF FreshInv, Current
<1>5. ASSUME NEW b \in Actors PROVE Holds(b, job[b])' 
    <2>1. Holds(b, job'[b])
        BY Zenon, <1>3 DEF FreshInv
    <2> DEFINE k == job'[b]
    <2>2. Lapsed' = Lapsed /\ Deletes' = Deletes
        BY Zenon DEF Lapsed, Deletes
    <2>3. \A S : MayBeGone(S)' <=> MayBeGone(S)
        BY Zenon, <2>2 DEF MayBeGone
    <2> QED BY SMTT(30), <1>1, <2>1, <2>2, <2>3 DEF Holds
<1> QED BY Zenon, <1>2, <1>4, <1>5 DEF FreshInv

\* An answer supersedes what was answered before a write began; the key is then
\* what a SET has put, or not one of those.
LEMMA Answers ==
    ASSUME FreshInv, NEW a \in Actors, NEW v \in 0 .. MaxOps, Answer(a, v), job[a].pc # "idle",
           UNCHANGED <<mix, time, deadline>>, numKeys' \in Int,
           job[a].op = "get" => IF v # 0 THEN v \notin job[a].stale ELSE MayBeGone(job[a].stale),
           \/ tab' = job[a].id /\ IsSet(job[a].op)
           \/ /\ tab' = tab /\ ~IsSet(job[a].op)
              /\ job[a].op = "del" => tab = 0 \/ tab \notin job[a].before
    PROVE  FreshInv'
<1> DEFINE j == job[a]
           k == [NoJob EXCEPT !.op = j.op, !.stale = j.stale, !.got = v]
<1>1. /\ j \in JobType /\ job \in [Actors -> JobType] /\ Holds(a, j)
      /\ ops.n \in Nat /\ mix.n \in 0 .. MaxOps /\ MaxOps \in Nat
    BY Zenon, MixesAssumption DEF FreshInv, StoreTypes
<1>2. /\ k \in JobType /\ k.op = j.op /\ k.stale = j.stale /\ k.got = v /\ k.pc = "idle"
      /\ k.id = 0 /\ k.before = {}
    <2>1. /\ j.op \in Kinds \cup {"none", "sweep"} /\ j.stale \in SUBSET Nat
          /\ v \in Int /\ "idle" \in StoreLabels /\ 0 \in 0 .. MaxOps
        BY <1>1 DEF JobType, StoreLabels
    <2>2. NoJob \in JobType /\ NoJob.pc = "idle" /\ NoJob.id = 0 /\ NoJob.before = {}
        BY <2>1 DEF NoJob, JobType
    <2> QED BY Zenon, <2>1, <2>2 DEF JobType
<1>3. /\ \A b \in Actors : job'[b] = IF b = a THEN k ELSE job[b]
      /\ job' \in [Actors -> JobType]
    BY Zenon, <1>1, <1>2 DEF Answer
<1>4. /\ ops'.n = ops.n /\ ops'.kind = ops.kind /\ ops'.done = ops.done \cup {j.id}
      /\ ops'.superseded = IF IsWrite(j.op) THEN ops.superseded \cup j.before ELSE ops.superseded
      /\ Lapsed' = Lapsed /\ Deletes' = Deletes
    BY DEF Answer, FreshInv, StoreTypes, Lapsed, Deletes
<1>5. \/ a = "cron" /\ j.id = 0 /\ j.op \in {"none", "sweep"}
      \/ a \in Workers /\ a # "cron" /\ j.id \in 1 .. ops.n /\ j.id \notin ops.done /\ ops.kind[j.id] = j.op
    BY Zenon, <1>1, MixesAssumption DEF Holds, Actors
<1>6. StoreTypes'
    <2>1. ops' \in [n : Nat, kind : [Ids -> Kinds \cup {"none"}], done : SUBSET Nat,
                    superseded : SUBSET Nat, overlap : BOOLEAN, sweeps : Int]
        <3> DEFINE D == ops.done \cup {j.id}
                   U == IF IsWrite(j.op) THEN ops.superseded \cup j.before ELSE ops.superseded
        <3>1. D \in SUBSET Nat /\ U \in SUBSET Nat
            BY <1>1 DEF FreshInv, StoreTypes, JobType
        <3>2. ops' = [ops EXCEPT !.done = D, !.superseded = U]
            BY Zenon DEF Answer
        <3> HIDE DEF D, U
        <3> QED BY Zenon, <3>1, <3>2 DEF FreshInv, StoreTypes
    <2>2. tab' \in 0 .. MaxOps
        BY Zenon, <1>1 DEF FreshInv, StoreTypes, JobType
    <2> QED BY Zenon, <1>3, <2>1, <2>2 DEF FreshInv, StoreTypes
<1> HIDE DEF k
<1>7. Current'
    <2>1. ops'.superseded \subseteq ops'.done /\ ops'.done \subseteq 0 .. ops'.n /\ ops'.n <= mix'.n
        <3>1. j.before \subseteq ops.done /\ j.id \in 0 .. ops.n
            BY <1>1, <1>5 DEF Holds
        <3> QED BY Zenon, <1>4, <3>1 DEF FreshInv, Current
    <2>2. tab' # 0 => tab' \notin ops'.superseded
        <3>1. j.before \subseteq ops.done /\ ops.superseded \subseteq ops.done
            BY Zenon, <1>1 DEF Holds, FreshInv, Current
        <3>2. tab # 0 => tab \notin ops.superseded
            BY Zenon DEF FreshInv, Current
        <3> QED BY <1>4, <1>5, <3>1, <3>2 DEF IsWrite, IsSet
    <2>3. tab' = 0 => MayBeGone(ops.superseded)'
        <3> SUFFICES ASSUME tab' = 0 PROVE MayBeGone(ops.superseded)'
            BY Zenon
        <3>1. tab = 0 /\ ~IsSet(j.op)
            BY <1>5 DEF IsSet
        <3>2. CASE j.op = "del"
            <4>1. j.id \in Ids /\ j.id \in Deletes
                BY SMTT(30), <1>1, <1>5, <3>2 DEF Ids, Deletes, FreshInv, Current
            <4>2. j.id \notin ops'.superseded
                <5>1. j.id \notin ops.done
                    <6>1. "del" \notin {"none", "sweep"}
                        BY SMTT(30)
                    <6> QED BY Zenon, <1>5, <3>2, <6>1
                <5>2. ops.superseded \subseteq ops.done /\ j.before \subseteq ops.done
                    BY Zenon, <1>1 DEF Holds, FreshInv, Current
                <5> QED BY Zenon, <1>4, <5>1, <5>2
            <4> QED BY Zenon, <1>4, <4>1, <4>2 DEF MayBeGone
        <3>3. CASE j.op # "del"
            <4>1. ops'.superseded = ops.superseded
                BY Zenon, <1>4, <3>1, <3>3 DEF IsWrite
            <4>2. MayBeGone(ops.superseded)
                BY Zenon, <3>1 DEF FreshInv, Current
            <4> QED BY Zenon, <1>4, <4>1, <4>2 DEF MayBeGone
        <3> QED BY Zenon, <3>2, <3>3
    <2>4. ASSUME NEW b \in Workers, NEW c \in Workers, b # c, job'[b].pc # "idle", job'[c].pc # "idle"
          PROVE  job'[b].id # job'[c].id
        <3>1. job'[b] = job[b] /\ job'[c] = job[c]
            BY Zenon, <1>2, <1>3, <2>4 DEF Actors
        <3> QED BY Zenon, <2>4, <3>1 DEF FreshInv, Current
    <2>5. /\ \A p \in Ids : deadline'[p] # 0 => \E i \in Ids : ops'.kind[i] = "setttl"
          /\ \A i \in Ids : i > ops'.n => ops'.kind[i] = "none"
        BY Zenon, <1>4 DEF FreshInv, Current
    <2> QED BY Zenon, <2>1, <2>2, <2>3, <2>4, <2>5 DEF Current
<1>8. ASSUME NEW b \in Actors, b # a PROVE Holds(b, job[b])'
    <2>1. Holds(b, job[b]) /\ job'[b] = job[b]
        BY Zenon, <1>3, <1>8 DEF FreshInv
    <2>2. b # "cron" /\ job[b].pc # "idle" =>
              job[b].id \notin ops'.done /\ ops'.kind[job[b].id] = ops.kind[job[b].id]
        <3> SUFFICES ASSUME b # "cron", job[b].pc # "idle" PROVE job[b].id \notin ops'.done
            BY Zenon, <1>4
        <3>1. b \in Workers /\ job[b].id \in 1 .. ops.n /\ job[b].id \notin ops.done
            BY Zenon, <2>1 DEF Actors, Holds
        <3>2. job[b].id # j.id
            BY <1>5, <1>8, <3>1 DEF FreshInv, Current
        <3> QED BY Zenon, <1>4, <3>1, <3>2
    <2>3. tab' = tab \/ tab' \notin ops.done
        BY Zenon, <1>5 DEF IsSet
    <2>4. ops.superseded \subseteq ops'.superseded /\ ops.done \subseteq ops'.done
        BY Zenon, <1>4
    <2>5. ops'.n \in Nat /\ ops.n <= ops'.n
        BY <1>1, <1>4
    <2>6. ASSUME NEW x, x = job[b] PROVE Holds(b, x)'
        BY Zenon, <1>1, <1>4, <2>1, <2>2, <2>3, <2>4, <2>5, <2>6, HoldsStays
    <2> QED BY Zenon, <2>1, <2>6 DEF Holds
<1>9. Holds(a, job[a])'
    <2>1. a = "cron" => k.op \in {"none", "sweep"} /\ k.id = 0
        BY Zenon, <1>2, <1>5
    <2>2. a # "cron" => k.op # "sweep"
        BY Zenon, <1>1, <1>2 DEF Holds
    <2>3. k.stale \subseteq ops'.superseded /\ k.before \subseteq ops'.done
        BY Zenon, <1>1, <1>2, <1>4 DEF Holds
    <2>4. k.op = "get" /\ k.got # -1 =>
              IF k.got # 0 THEN k.got \notin k.stale ELSE MayBeGone(j.stale)
        BY Zenon, <1>2
    <2>5. MayBeGone(j.stale) => MayBeGone(job[a].stale)'
        BY Zenon, <1>2, <1>3, <1>4 DEF MayBeGone
    <2>6. job'[a] = k
        BY Zenon, <1>3
    <2> QED BY Zenon, <1>2, <2>1, <2>2, <2>3, <2>4, <2>5, <2>6 DEF Holds
<1> QED BY Zenon, <1>6, <1>7, <1>8, <1>9 DEF FreshInv

\* The small steps that touch the expiry table, the counter or nothing shared.
LEMMA QuietActions ==
    ASSUME FreshInv, NEW a \in Actors,
           Forget(a) \/ Make(a) \/ Lookup(a) \/ Keep(a) \/ Unexpire(a) \/ Count(a)
    PROVE  FreshInv'
<1> DEFINE j == job[a]
           Timed(d) == /\ d \in [Ids -> Nat]
                       /\ \A p \in Ids : d[p] # 0 => \E i \in Ids : ops.kind[i] = "setttl"
<1>1. /\ j \in JobType /\ job \in [Actors -> JobType] /\ Holds(a, j) /\ numKeys \in Int
      /\ tab \in 0 .. MaxOps /\ MaxOps \in Nat /\ time \in {0, 1} /\ Timed(deadline)
    BY Zenon, MixesAssumption DEF FreshInv, StoreTypes, Current
<1>2. j.pc \in {"make", "keep"} => j.id \in Ids /\ ops.kind[j.id] = j.op
    BY SMTT(30), <1>1, MixesAssumption DEF FreshInv, StoreTypes, Current, Holds, IsSet, Ids
<1>3. CASE Forget(a)
    <2> DEFINE k == [j EXCEPT !.pc = "count"]
    <2>1. /\ j.pc = "forget" /\ job' = [job EXCEPT ![a] = k]
          /\ UNCHANGED <<mix, time, tab, ops, numKeys>>
        BY Zenon, <1>1, <1>3 DEF Forget, GoTo, Stands
    <2>2. k \in JobType /\ k.id = j.id
        BY Zenon, <1>1 DEF StoreLabels, JobType
    <2>3. Holds(a, k)
        BY <1>1, <2>1 DEF Holds, JobType, Ids, IsSet
    <2>4. Timed(deadline')
        BY Zenon, <1>1, <1>3 DEF Forget
    <2> HIDE DEF k
    <2> QED BY Zenon, <1>1, <2>1, <2>2, <2>3, <2>4, Quiet
<1>4. CASE Make(a)
    <2> DEFINE k == [j EXCEPT !.cur = 0, !.pc = "lookup"]
    <2>1. /\ j.pc = "make" /\ job' = [job EXCEPT ![a] = k]
          /\ UNCHANGED <<mix, time, tab, ops, numKeys>>
        BY Zenon, <1>1, <1>4 DEF Make, GoTo, Stands
    <2>2. k \in JobType /\ k.id = j.id
        <3>1. 0 \in 0 .. MaxOps /\ "lookup" \in StoreLabels
            BY <1>1 DEF StoreLabels
        <3> QED BY Zenon, <1>1, <3>1 DEF JobType
    <2>3. Holds(a, k)
        BY Zenon, <1>1, <2>1 DEF Holds, JobType, Ids, IsSet
    <2>4. Timed(deadline')
        BY <1>1, <1>2, <1>4, <2>1 DEF Make
    <2> HIDE DEF k
    <2> QED BY Zenon, <1>1, <2>1, <2>2, <2>3, <2>4, Quiet
<1>5. CASE Lookup(a)
    <2> DEFINE k == [j EXCEPT !.cur = tab,
                            !.pc = IF tab = 0 THEN "count"
                                   ELSE IF j.op = "setkeep" THEN "keep" ELSE "unexpire"]
    <2>1. /\ j.pc = "lookup" /\ job' = [job EXCEPT ![a] = k]
          /\ UNCHANGED <<mix, time, tab, ops, numKeys>>
        BY Zenon, <1>1, <1>5 DEF Lookup, GoTo, Stands
    <2>2. k \in JobType /\ k.id = j.id
        <3> DEFINE l == IF tab = 0 THEN "count"
                        ELSE IF j.op = "setkeep" THEN "keep" ELSE "unexpire"
        <3>1. l \in StoreLabels
            BY Zenon DEF StoreLabels
        <3> HIDE DEF l
        <3>2. [j EXCEPT !.cur = tab, !.pc = l] \in JobType /\ [j EXCEPT !.cur = tab, !.pc = l].id = j.id
            BY Zenon, <1>1, <3>1 DEF JobType
        <3> QED BY Zenon, <3>2 DEF l
    <2>3. Holds(a, k)
        BY <1>1, <2>1 DEF Holds, JobType, Ids, IsSet
    <2>4. Timed(deadline')
        BY Zenon, <1>1, <1>5 DEF Lookup
    <2> HIDE DEF k
    <2> QED BY Zenon, <1>1, <2>1, <2>2, <2>3, <2>4, Quiet
<1>6. CASE Keep(a)
    <2> DEFINE k == [j EXCEPT !.pc = "unexpire"]
    <2>1. /\ j.pc = "keep" /\ job' = [job EXCEPT ![a] = k]
          /\ UNCHANGED <<mix, time, tab, ops, numKeys>>
        BY Zenon, <1>1, <1>6 DEF Keep, GoTo, Stands
    <2>2. k \in JobType /\ k.id = j.id
        BY Zenon, <1>1 DEF StoreLabels, JobType
    <2>3. Holds(a, k)
        BY Zenon, <1>1, <2>1 DEF Holds, JobType, Ids, IsSet
    <2>4. Timed(deadline')
        BY Zenon, <1>1, <1>2, <1>6, <2>1 DEF Keep, Holds
    <2> HIDE DEF k
    <2> QED BY Zenon, <1>1, <2>1, <2>2, <2>3, <2>4, Quiet
<1>7. CASE Unexpire(a)
    <2> DEFINE k == [j EXCEPT !.pc = "put"]
    <2>1. /\ j.pc = "unexpire" /\ job' = [job EXCEPT ![a] = k]
          /\ UNCHANGED <<mix, time, tab, ops, numKeys>>
        BY Zenon, <1>1, <1>7 DEF Unexpire, GoTo, Stands
    <2>2. k \in JobType /\ k.id = j.id
        BY Zenon, <1>1 DEF StoreLabels, JobType
    <2>3. Holds(a, k)
        BY Zenon, <1>1, <2>1 DEF Holds, JobType, Ids, IsSet
    <2>4. Timed(deadline')
        BY Zenon, <1>1, <1>7 DEF Unexpire
    <2> HIDE DEF k
    <2> QED BY Zenon, <1>1, <2>1, <2>2, <2>3, <2>4, Quiet
<1>8. CASE Count(a)
    <2> DEFINE k == [j EXCEPT !.n = numKeys, !.pc = "counted"]
    <2>1. /\ j.pc = "count" /\ job' = [job EXCEPT ![a] = k]
          /\ UNCHANGED <<mix, time, tab, ops, numKeys>>
        BY Zenon, <1>1, <1>8 DEF Count, GoTo, Stands
    <2>2. k \in JobType /\ k.id = j.id
        BY Zenon, <1>1 DEF StoreLabels, JobType
    <2>3. Holds(a, k)
        BY <1>1, <2>1 DEF Holds, JobType, Ids, IsSet
    <2>4. Timed(deadline')
        BY Zenon, <1>1, <1>8 DEF Count
    <2> HIDE DEF k
    <2> QED BY Zenon, <1>1, <2>1, <2>2, <2>3, <2>4, Quiet
<1> QED BY Zenon, <1>3, <1>4, <1>5, <1>6, <1>7, <1>8

\* A lookup that found nothing, or nothing that has expired, goes on or answers.
LEMMA FoundStep ==
    ASSUME FreshInv, NEW a \in Actors, NEW v \in 0 .. MaxOps, Found(a, v), job[a].pc # "idle",
           UNCHANGED <<mix, time, tab, deadline>>, numKeys' \in Int,
           job[a].op = "get" => IF v # 0 THEN v \notin job[a].stale ELSE MayBeGone(job[a].stale),
           job[a].op = "del" => tab = 0 \/ tab \notin job[a].before
    PROVE  FreshInv'
<1> DEFINE j == job[a]
           k == [j EXCEPT !.pc = "make"]
<1>1. CASE ~IsSet(j.op)
    BY Zenon, <1>1, Answers DEF Found
<1>2. CASE IsSet(j.op)
    <2>1. /\ j \in JobType /\ job \in [Actors -> JobType] /\ Holds(a, j)
          /\ deadline \in [Ids -> Nat]
          /\ \A p \in Ids : deadline[p] # 0 => \E i \in Ids : ops.kind[i] = "setttl"
        BY Zenon DEF FreshInv, StoreTypes, Current
    <2>2. job' = [job EXCEPT ![a] = k] /\ ops' = ops
        BY Zenon, <1>2, <2>1 DEF Found, GoTo
    <2>3. k \in JobType /\ k.id = j.id
        BY Zenon, <2>1 DEF JobType, StoreLabels
    <2>4. Holds(a, k)
        BY Zenon, <1>2, <2>1 DEF Holds, JobType, IsSet
    <2> HIDE DEF k
    <2> QED BY Zenon, <2>1, <2>2, <2>3, <2>4, Quiet
<1> QED BY Zenon, <1>1, <1>2

LEMMA LookupActions ==
    ASSUME FreshInv, NEW a \in Actors, Find(a) \/ CheckExpiry(a) \/ Refind(a) \/ Tally(a)
    PROVE  FreshInv'
<1> DEFINE j == job[a]
<1>1. /\ j \in JobType /\ job \in [Actors -> JobType] /\ Holds(a, j) /\ numKeys \in Int
      /\ tab \in 0 .. MaxOps /\ MaxOps \in Nat /\ time \in {0, 1} /\ deadline \in [Ids -> Nat]
      /\ \A p \in Ids : deadline[p] # 0 => \E i \in Ids : ops.kind[i] = "setttl"
      /\ tab # 0 => tab \notin ops.superseded
      /\ tab = 0 => MayBeGone(ops.superseded)
    BY Zenon, MixesAssumption DEF FreshInv, StoreTypes, Current
<1>2. ASSUME NEW k \in JobType, job' = [job EXCEPT ![a] = k], Holds(a, k), k.id = j.id, j.pc # "idle",
             UNCHANGED <<mix, time, tab, deadline, ops>>, numKeys' \in Int
      PROVE  FreshInv'
    BY Zenon, <1>1, <1>2, Quiet
<1>3. CASE Find(a)
    <2>0. j.pc = "find" /\ UNCHANGED <<mix, time, tab, deadline, numKeys>>
        BY Zenon, <1>3 DEF Find, Stands
    <2>1. CASE tab = 0
        <3>1. Found(a, 0)
            BY Zenon, <1>3, <2>1 DEF Find
        <3>2. MayBeGone(j.stale)
            BY Zenon, <1>1, <2>1 DEF Holds, MayBeGone
        <3> QED BY Zenon, <1>1, <2>0, <2>1, <3>1, <3>2, FoundStep
    <2>2. CASE tab # 0
        <3> DEFINE l == IF j.op = "del" THEN "delete" ELSE "check"
                   k == [j EXCEPT !.cur = tab, !.pc = l]
        <3>1. job' = [job EXCEPT ![a] = k] /\ ops' = ops
            BY Zenon, <1>1, <1>3, <2>2 DEF Find
        <3>2. l \in StoreLabels
            BY Zenon DEF StoreLabels
        <3>3. Holds(a, k)
            BY <1>1, <2>0, <2>2 DEF Holds, JobType, Ids
        <3> HIDE DEF l
        <3>4. k \in JobType /\ k.id = j.id
            BY Zenon, <1>1, <3>2 DEF JobType
        <3> HIDE DEF k
        <3> QED BY Zenon, <1>1, <1>2, <2>0, <3>1, <3>3, <3>4
    <2> QED BY Zenon, <2>1, <2>2
<1>4. CASE CheckExpiry(a)
    <2>0. j.pc = "check" /\ UNCHANGED <<mix, time, tab, deadline, numKeys>> /\ j.cur \in Ids
        BY Zenon, <1>1, <1>4 DEF CheckExpiry, Stands, Holds
    <2>1. CASE HasLapsed(j.cur)
        <3> DEFINE l == IF j.op = "sweep" THEN "refind" ELSE "delete"
                   k == [j EXCEPT !.pc = l]
        <3>0. Lapsed
            BY <1>1, <2>0, <2>1 DEF HasLapsed, Lapsed
        <3>1. job' = [job EXCEPT ![a] = k] /\ ops' = ops
            BY Zenon, <1>1, <1>4, <2>1 DEF CheckExpiry, GoTo
        <3>2. l \in StoreLabels
            BY Zenon DEF StoreLabels
        <3>3. Holds(a, k)
            BY Zenon, <1>1, <2>0, <3>0 DEF Holds, JobType
        <3> HIDE DEF l
        <3>4. k \in JobType /\ k.id = j.id
            BY Zenon, <1>1, <3>2 DEF JobType
        <3> HIDE DEF k
        <3> QED BY Zenon, <1>1, <1>2, <2>0, <3>1, <3>3, <3>4
    <2>2. CASE ~HasLapsed(j.cur)
        <3>1. Found(a, j.cur)
            BY Zenon, <1>4, <2>2 DEF CheckExpiry
        <3>2. j.cur \in 0 .. MaxOps /\ j.cur # 0 /\ (j.op = "get" => j.cur \notin j.stale) /\ j.op # "del"
            BY <1>1, <2>0 DEF Holds, Ids
        <3> QED BY Zenon, <1>1, <2>0, <3>1, <3>2, FoundStep
    <2> QED BY Zenon, <2>1, <2>2
<1>5. CASE Refind(a)
    <2>0. /\ j.pc = "refind" /\ UNCHANGED <<mix, time, tab, deadline, numKeys>>
          /\ j.op = "sweep" /\ Lapsed
        BY Zenon, <1>1, <1>5 DEF Refind, Stands, Holds
    <2>1. CASE tab # 0
        <3> DEFINE k == [j EXCEPT !.cur = tab, !.pc = "delete"]
        <3>1. job' = [job EXCEPT ![a] = k] /\ ops' = ops
            BY Zenon, <1>1, <1>5, <2>1 DEF Refind
        <3>2. k \in JobType /\ k.id = j.id
            BY Zenon, <1>1 DEF JobType, StoreLabels
        <3>3. Holds(a, k)
            BY <1>1, <2>0, <2>1 DEF Holds, JobType, Ids
        <3> HIDE DEF k
        <3> QED BY Zenon, <1>1, <1>2, <2>0, <3>1, <3>2, <3>3
    <2>2. CASE tab = 0
        <3>1. Answer(a, 0)
            BY Zenon, <1>5, <2>2 DEF Refind
        <3> QED BY <1>1, <2>0, <3>1, Answers DEF IsSet
    <2> QED BY Zenon, <2>1, <2>2
<1>6. CASE Tally(a)
    <2>0. /\ j.pc = "counted" /\ UNCHANGED <<mix, time, tab, deadline>> /\ j.n \in Int
        BY Zenon, <1>1, <1>6 DEF Tally, Stands, JobType
    <2>1. CASE j.cur = 0
        <3> DEFINE k == [j EXCEPT !.pc = "put"]
        <3>1. job' = [job EXCEPT ![a] = k] /\ ops' = ops /\ numKeys' = j.n + 1
            BY Zenon, <1>1, <1>6, <2>1 DEF Tally, GoTo
        <3>2. k \in JobType /\ k.id = j.id
            BY Zenon, <1>1 DEF JobType, StoreLabels
        <3>3. Holds(a, k)
            BY Zenon, <1>1, <2>0, <2>1 DEF Holds, JobType, IsSet
        <3>4. numKeys' \in Int /\ j.pc # "idle"
            BY <2>0, <3>1
        <3> HIDE DEF k, j
        <3> QED BY Zenon, <1>2, <2>0, <3>1, <3>2, <3>3, <3>4
    <2>2. CASE j.cur # 0
        <3>1. numKeys' = j.n - 1 /\ Found(a, 0)
            BY Zenon, <1>6, <2>2 DEF Tally
        <3>2. /\ j.op = "get" => MayBeGone(j.stale)
              /\ j.op = "del" => tab = 0 \/ tab \notin j.before
            BY Zenon, <1>1, <2>0, <2>2 DEF Holds, MayBeGone
        <3> QED BY <1>1, <2>0, <3>1, <3>2, FoundStep
    <2> QED BY Zenon, <2>1, <2>2
<1> QED BY Zenon, <1>3, <1>4, <1>5, <1>6

\* deleteKey removes whatever is there: for a DEL, or because a deadline passed.
LEMMA DeleteStep ==
    ASSUME FreshInv, NEW a \in Actors, Delete(a)
    PROVE  FreshInv'
<1> DEFINE j == job[a]
           k == [j EXCEPT !.pc = "forget"]
<1>1. /\ j \in JobType /\ job \in [Actors -> JobType] /\ Holds(a, j) /\ ops.n \in Nat
      /\ mix.n \in 0 .. MaxOps /\ MaxOps \in Nat
    BY Zenon, MixesAssumption DEF FreshInv, StoreTypes
<1>2. /\ j.pc = "delete" /\ tab' = 0 /\ job' = [job EXCEPT ![a] = k]
      /\ UNCHANGED <<mix, time, deadline, numKeys, ops>>
    BY Zenon, <1>1 DEF Delete, GoTo, Stands
<1>3. /\ k \in JobType /\ k.id = j.id /\ k.op = j.op /\ k.pc = "forget" /\ k.cur = j.cur
      /\ k.stale = j.stale /\ k.before = j.before /\ k.got = j.got
    BY Zenon, <1>1 DEF JobType, StoreLabels
<1> HIDE DEF k
<1>4. \A b \in Actors : job'[b] = IF b = a THEN k ELSE job[b]
    BY Zenon, <1>1, <1>2
<1>5. Lapsed' = Lapsed /\ Deletes' = Deletes
    BY Zenon, <1>2 DEF Lapsed, Deletes
<1>6. StoreTypes'
    BY <1>1, <1>2, <1>3 DEF FreshInv, StoreTypes
<1>7. MayBeGone(ops.superseded)
    <2>1. CASE j.op = "del"
        <3>1. j.id \in 1 .. ops.n /\ j.id \notin ops.done /\ ops.kind[j.id] = "del"
            BY Zenon, <1>1, <1>2, <2>1 DEF Holds
        <3>2. j.id \in Deletes /\ j.id \notin ops.superseded
            BY <1>1, <3>1 DEF Deletes, Ids, FreshInv, Current
        <3> QED BY Zenon, <3>2 DEF MayBeGone
    <2>2. CASE j.op # "del"
        BY <1>1, <1>2, <2>2 DEF Holds, Ids, MayBeGone
    <2> QED BY Zenon, <2>1, <2>2
<1>8. Current'
    <2>1. MayBeGone(ops.superseded)'
        BY Zenon, <1>2, <1>5, <1>7 DEF MayBeGone
    <2>2. ASSUME NEW b \in Workers, NEW c \in Workers, b # c, job'[b].pc # "idle", job'[c].pc # "idle"
          PROVE  job'[b].id # job'[c].id
        <3>1. job[b].pc # "idle" /\ job[c].pc # "idle" /\ job'[b].id = job[b].id /\ job'[c].id = job[c].id
            BY <1>2, <1>3, <1>4, <2>2 DEF Actors
        <3> QED BY Zenon, <2>2, <3>1 DEF FreshInv, Current
    <2> QED BY Zenon, <1>2, <2>1, <2>2 DEF FreshInv, Current
<1>9. ASSUME NEW b \in Actors PROVE Holds(b, job[b])'
    <2>1. CASE b # a
        <3>1. Holds(b, job[b]) /\ job'[b] = job[b]
            BY Zenon, <1>4, <2>1 DEF FreshInv
        <3>2. b # "cron" /\ job[b].pc # "idle" => job[b].id \notin ops.done
            BY Zenon, <3>1 DEF Holds
        <3>3. \A x : x = job[b] => Holds(b, x)'
            BY <1>1, <1>2, <1>5, <3>1, <3>2, HoldsStays
        <3> QED BY Zenon, <3>1, <3>3 DEF Holds
    <2>2. CASE b = a
        <3>1. MayBeGone(j.stale) => MayBeGone(job[a].stale)'
            BY Zenon, <1>2, <1>3, <1>4, <1>5 DEF MayBeGone
        <3>2. job'[a] = k
            BY Zenon, <1>4
        <3> QED BY Zenon, <1>1, <1>2, <1>3, <1>5, <2>2, <3>1, <3>2 DEF Holds
    <2> QED BY Zenon, <2>1, <2>2
<1> QED BY Zenon, <1>6, <1>8, <1>9 DEF FreshInv

LEMMA PutStep ==
    ASSUME FreshInv, NEW a \in Actors, PutObject(a)
    PROVE  FreshInv'
<1>1. job[a] \in JobType /\ Holds(a, job[a]) /\ numKeys \in Int
    BY Zenon DEF FreshInv, StoreTypes
<1>2. /\ job[a].pc = "put" /\ tab' = job[a].id /\ Answer(a, job[a].id)
      /\ UNCHANGED <<mix, time, deadline, numKeys>>
    BY Zenon DEF PutObject, Stands
<1>3. job[a].id \in 0 .. MaxOps /\ IsSet(job[a].op)
    BY Zenon, <1>1, <1>2 DEF Holds, JobType
<1>4. job[a].op # "get"
    BY Zenon, <1>3 DEF IsSet
<1> QED BY Zenon, <1>1, <1>2, <1>3, <1>4, Answers

\* A new job of actor a; the history may grow by the operation it begins.
LEMMA NewJob ==
    ASSUME FreshInv, NEW a \in Actors, NEW k \in JobType, job' = [job EXCEPT ![a] = k],
           k.pc = "find", k.got = -1, job[a].pc = "idle",
           UNCHANGED <<mix, time, tab, deadline, numKeys>>,
           ops' \in [n : Nat, kind : [Ids -> Kinds \cup {"none"}], done : SUBSET Nat,
                     superseded : SUBSET Nat, overlap : BOOLEAN, sweeps : Int],
           ops'.done = ops.done, ops'.superseded = ops.superseded,
           k.before \subseteq ops.done, k.stale \subseteq ops.superseded,
           \/ /\ a = "cron" /\ k.op = "sweep" /\ k.id = 0
              /\ ops'.n = ops.n /\ ops'.kind = ops.kind
           \/ /\ a \in Workers /\ a # "cron" /\ k.op # "sweep" /\ k.id = ops.n + 1 /\ ops.n < mix.n
              /\ ops'.n = k.id /\ ops'.kind = [ops.kind EXCEPT ![k.id] = k.op]
    PROVE  FreshInv'
<1>1. /\ job \in [Actors -> JobType] /\ ops.n \in Nat /\ mix.n \in 0 .. MaxOps /\ MaxOps \in Nat
      /\ ops.kind \in [Ids -> Kinds \cup {"none"}] /\ ops.n <= mix.n
      /\ ops.superseded \subseteq ops.done /\ ops.done \subseteq 0 .. ops.n
      /\ \A i \in Ids : i > ops.n => ops.kind[i] = "none"
    BY Zenon, MixesAssumption DEF FreshInv, StoreTypes, Current
<1>2. \A b \in Actors : job'[b] = IF b = a THEN k ELSE job[b]
    BY Zenon, <1>1
<1>3. /\ \A i \in Ids : i <= ops.n => ops'.kind[i] = ops.kind[i]
      /\ \A i \in Ids : ops.kind[i] # "none" => ops'.kind[i] = ops.kind[i]
      /\ \A i \in Ids : i > ops'.n => ops'.kind[i] = "none"
      /\ ops.n <= ops'.n /\ ops'.n <= mix.n
    <2>1. CASE ops'.n = ops.n /\ ops'.kind = ops.kind
        BY <1>1, <2>1
    <2>2. CASE /\ ops'.n = ops.n + 1 /\ ops.n < mix.n
               /\ ops'.kind = [ops.kind EXCEPT ![ops.n + 1] = k.op]
        <3>1. \A i \in Ids : ops'.kind[i] = IF i = ops.n + 1 THEN k.op ELSE ops.kind[i]
            BY <1>1, <2>2
        <3>2. \A i \in Ids : i \in Nat
            BY DEF Ids
        <3> QED BY <1>1, <2>2, <3>1, <3>2
    <2> QED BY Zenon, <2>1, <2>2
<1>4. (Lapsed => Lapsed') /\ Deletes \subseteq Deletes'
    BY <1>3 DEF Lapsed, Deletes
<1>5. \A S : MayBeGone(S) => Lapsed' \/ 0 \notin S \/ Deletes' \ S # {}
    BY Zenon, <1>4 DEF MayBeGone
<1>6. StoreTypes'
    BY Zenon, <1>1 DEF FreshInv, StoreTypes
<1>7. ASSUME NEW b \in Workers, b # a, job[b].pc # "idle"
      PROVE  job[b].id \in 1 .. ops.n /\ job[b].id \in Ids /\ job[b].id \notin ops.done
    <2>1. Holds(b, job[b]) /\ b # "cron"
        BY Zenon, MixesAssumption DEF FreshInv, Actors
    <2> QED BY SMTT(30), <1>1, <1>7, <2>1 DEF Holds, Ids
<1>8. Current'
    <2>1. ASSUME NEW b \in Workers, NEW c \in Workers, b # c, job'[b].pc # "idle", job'[c].pc # "idle"
          PROVE  job'[b].id # job'[c].id
        <3>1. CASE b # a /\ c # a
            BY <1>2, <2>1, <3>1 DEF FreshInv, Current, Actors
        <3>2. CASE b = a
            BY <1>1, <1>2, <1>7, <2>1, <3>2, MixesAssumption DEF Actors
        <3>3. CASE c = a
            BY <1>1, <1>2, <1>7, <2>1, <3>3, MixesAssumption DEF Actors
        <3> QED BY Zenon, <3>1, <3>2, <3>3
    <2>2. tab' = 0 => MayBeGone(ops.superseded)'
        BY Zenon, <1>5 DEF FreshInv, Current, MayBeGone
    <2>3. \A p \in Ids : deadline'[p] # 0 => \E i \in Ids : ops'.kind[i] = "setttl"
        BY <1>3 DEF FreshInv, Current
    <2>4. ops'.done \subseteq 0 .. ops'.n
        BY <1>1, <1>3
    <2> QED BY <1>1, <1>3, <2>1, <2>2, <2>3, <2>4 DEF FreshInv, Current
<1>9. ASSUME NEW b \in Actors PROVE Holds(b, job[b])'
    <2>1. CASE b # a
        <3>1. Holds(b, job[b]) /\ job'[b] = job[b]
            BY Zenon, <1>2, <2>1 DEF FreshInv
        <3>2. b # "cron" /\ job[b].pc # "idle" =>
                  job[b].id \notin ops'.done /\ ops'.kind[job[b].id] = ops.kind[job[b].id]
            BY <1>1, <1>3, <1>7, <2>1 DEF Actors
        <3>3. \A x : x = job[b] => Holds(b, x)'
            BY <1>1, <1>3, <1>4, <3>1, <3>2, HoldsStays
        <3> QED BY Zenon, <3>1, <3>3 DEF Holds
    <2>2. CASE b = a
        <3>1. job'[a] = k
            BY Zenon, <1>2
        <3>2. a # "cron" => k.id \in 1 .. ops'.n /\ k.id \notin ops'.done /\ ops'.kind[k.id] = k.op
            BY SMTT(30), <1>1 DEF Ids
        <3> QED BY <2>2, <3>1, <3>2 DEF Holds
    <2> QED BY Zenon, <2>1, <2>2
<1> QED BY Zenon, <1>6, <1>8, <1>9 DEF FreshInv

LEMMA BeginStep ==
    ASSUME FreshInv, NEW a \in Actors, Begin(a)
    PROVE  FreshInv'
<1>1. PICK op \in mix.ops :
         /\ a \in Workers /\ job[a].pc = "idle" /\ ops.n < mix.n
         /\ job' = [job EXCEPT ![a] = [NoJob EXCEPT !.op = op, !.pc = "find", !.id = ops.n + 1,
                       !.before = ops.done, !.stale = ops.superseded]]
         /\ ops' = [ops EXCEPT !.n = ops.n + 1, !.kind[ops.n + 1] = op,
                       !.overlap = @ \/ \E b \in Actors \ {a} : ~Stands(b, "idle")]
         /\ UNCHANGED <<mix, time, tab, deadline, numKeys>>
    BY Zenon DEF Begin, Stands
<1>2. /\ op \in Kinds /\ a # "cron" /\ ops.n \in Nat /\ ops.n + 1 \in 1 .. MaxOps /\ MaxOps \in Nat
      /\ ops.done \in SUBSET Nat /\ ops.superseded \in SUBSET Nat /\ op # "sweep"
    BY <1>1, MixesAssumption DEF FreshInv, StoreTypes, Kinds
<1> DEFINE k == [NoJob EXCEPT !.op = op, !.pc = "find", !.id = ops.n + 1,
                       !.before = ops.done, !.stale = ops.superseded]
<1>3. /\ k \in JobType /\ k.pc = "find" /\ k.got = -1 /\ k.before = ops.done
      /\ k.stale = ops.superseded /\ k.op = op /\ k.id = ops.n + 1
    <2>1. NoJob \in JobType /\ NoJob.got = -1
        BY <1>2 DEF NoJob, JobType, StoreLabels
    <2>2. "find" \in StoreLabels /\ ops.n + 1 \in 0 .. MaxOps
        BY <1>2 DEF StoreLabels
    <2> QED BY Zenon, <1>2, <2>1, <2>2 DEF JobType
<1> DEFINE w == ops.overlap \/ \E b \in Actors \ {a} : ~Stands(b, "idle")
           K == [ops.kind EXCEPT ![ops.n + 1] = op]
<1>4. ops' = [ops EXCEPT !.n = ops.n + 1, !.kind = K, !.overlap = w] /\ job' = [job EXCEPT ![a] = k]
    BY Zenon, <1>1
<1>5. w \in BOOLEAN /\ K \in [Ids -> Kinds \cup {"none"}] /\ ops.n + 1 \in Nat
    <2>1. w \in BOOLEAN
        BY Zenon
    <2>2. ops.kind \in [Ids -> Kinds \cup {"none"}]
        BY Zenon DEF FreshInv, StoreTypes
    <2>3. K \in [Ids -> Kinds \cup {"none"}]
        BY Zenon, <1>2, <2>2
    <2>4. ops.n + 1 \in Nat
        BY <1>2
    <2> QED BY Zenon, <2>1, <2>3, <2>4
<1> HIDE DEF w, k
<1>6. /\ ops' \in [n : Nat, kind : [Ids -> Kinds \cup {"none"}], done : SUBSET Nat,
                   superseded : SUBSET Nat, overlap : BOOLEAN, sweeps : Int]
      /\ ops'.done = ops.done /\ ops'.superseded = ops.superseded
      /\ ops'.n = ops.n + 1 /\ ops'.kind = K
    <2> HIDE DEF K
    <2> QED BY Zenon, <1>4, <1>5 DEF FreshInv, StoreTypes
<1>7. /\ ops.done \subseteq ops.done /\ a # "cron" /\ k.op # "sweep" /\ k.id = ops.n + 1
      /\ ops'.n = k.id /\ ops'.kind = [ops.kind EXCEPT ![k.id] = k.op]
    BY Zenon, <1>2, <1>3, <1>6
<1> HIDE DEF K
<1>8. k.before \subseteq ops.done /\ k.stale \subseteq ops.superseded
    BY Zenon, <1>3
<1>9. /\ a \in Workers /\ job[a].pc = "idle" /\ ops.n < mix.n
      /\ UNCHANGED <<mix, time, tab, deadline, numKeys>>
    BY Zenon, <1>1
<1>10. k \in JobType /\ k.pc = "find" /\ k.got = -1 /\ job' = [job EXCEPT ![a] = k]
    BY Zenon, <1>3, <1>4
<1>11. /\ ops' \in [n : Nat, kind : [Ids -> Kinds \cup {"none"}], done : SUBSET Nat,
                   superseded : SUBSET Nat, overlap : BOOLEAN, sweeps : Int]
       /\ ops'.done = ops.done /\ ops'.superseded = ops.superseded
    BY Zenon, <1>6
<1> QED BY Zenon, <1>7, <1>8, <1>9, <1>10, <1>11, NewJob

LEMMA SweepStep ==
    ASSUME FreshInv, Sweep
    PROVE  FreshInv'
<1> DEFINE k == [NoJob EXCEPT !.op = "sweep", !.pc = "find"]
           w == ops.overlap \/ \E b \in Workers : ~Stands(b, "idle")
<1>1. /\ job["cron"].pc = "idle" /\ job' = [job EXCEPT !["cron"] = k]
      /\ ops' = [ops EXCEPT !.sweeps = @ + 1, !.overlap = w]
      /\ UNCHANGED <<mix, time, tab, deadline, numKeys>>
    BY Zenon DEF Sweep, Stands
<1>2. /\ k \in JobType /\ k.pc = "find" /\ k.got = -1 /\ k.before = {} /\ k.stale = {}
      /\ k.op = "sweep" /\ k.id = 0
    <2>1. NoJob \in JobType /\ NoJob.got = -1 /\ NoJob.before = {} /\ NoJob.stale = {} /\ NoJob.id = 0
        BY MixesAssumption DEF NoJob, JobType, StoreLabels
    <2>2. "find" \in StoreLabels
        BY Zenon DEF StoreLabels
    <2> QED BY Zenon, <2>1, <2>2 DEF JobType
<1>3. w \in BOOLEAN
    BY Zenon
<1> HIDE DEF w, k
<1>4. ops.sweeps + 1 \in Int
    BY DEF FreshInv, StoreTypes
<1>5. /\ ops' \in [n : Nat, kind : [Ids -> Kinds \cup {"none"}], done : SUBSET Nat,
                   superseded : SUBSET Nat, overlap : BOOLEAN, sweeps : Int]
      /\ ops'.done = ops.done /\ ops'.superseded = ops.superseded
      /\ ops'.n = ops.n /\ ops'.kind = ops.kind
    BY Zenon, <1>1, <1>3, <1>4 DEF FreshInv, StoreTypes
<1>6. "cron" \in Actors
    BY Zenon DEF Actors
<1> QED BY Zenon, <1>1, <1>2, <1>5, <1>6, NewJob

LEMMA PassStep ==
    ASSUME FreshInv, Pass
    PROVE  FreshInv'
<1>1. time' = 1 /\ UNCHANGED <<mix, tab, deadline, numKeys, job, ops>> /\ ops.n \in Nat
    BY Zenon DEF Pass, FreshInv, StoreTypes
<1>2. (Lapsed => Lapsed') /\ Deletes' = Deletes
    BY Zenon, <1>1 DEF Lapsed, Deletes
<1>3. StoreTypes'
    BY Zenon, <1>1 DEF FreshInv, StoreTypes
<1>4. Current'
    <2>1. MayBeGone(ops.superseded) => MayBeGone(ops.superseded)'
        BY Zenon, <1>1, <1>2 DEF MayBeGone
    <2> QED BY Zenon, <1>1, <2>1 DEF FreshInv, Current
<1>5. ASSUME NEW b \in Actors PROVE Holds(b, job[b])'
    <2>1. Holds(b, job[b])
        BY Zenon DEF FreshInv
    <2>2. b # "cron" /\ job[b].pc # "idle" => job[b].id \notin ops.done
        BY Zenon, <2>1 DEF Holds
    <2>3. \A x : x = job[b] => Holds(b, x)'
        BY <1>1, <1>2, <2>1, <2>2, HoldsStays
    <2> QED BY Zenon, <1>1, <2>3 DEF Holds
<1> QED BY Zenon, <1>3, <1>4, <1>5 DEF FreshInv

LEMMA FreshReadStep == FreshInv /\ [ThreadsNext]_tvars => FreshInv'
<1> SUFFICES ASSUME FreshInv, [ThreadsNext]_tvars PROVE FreshInv'
    BY Zenon
<1>1. CASE UNCHANGED tvars
    <2>1. StoreTypes' /\ Current'
        BY Zenon, <1>1 DEF tvars, FreshInv, StoreTypes, Current, MayBeGone, Lapsed, Deletes
    <2>2. \A a \in Actors : Holds(a, job[a])'
        BY SMTT(30), <1>1 DEF tvars, FreshInv, Holds, MayBeGone, Lapsed, Deletes
    <2> QED BY Zenon, <2>1, <2>2 DEF FreshInv
<1>2. CASE \E a \in Actors :
             \/ Begin(a) \/ Find(a) \/ CheckExpiry(a) \/ Refind(a) \/ Delete(a) \/ Forget(a)
             \/ Make(a) \/ Lookup(a) \/ Keep(a) \/ Unexpire(a) \/ Count(a) \/ Tally(a) \/ PutObject(a)
    BY Zenon, <1>2, BeginStep, LookupActions, DeleteStep, QuietActions, PutStep
<1> QED BY Zenon, <1>1, <1>2, SweepStep, PassStep DEF ThreadsNext

\* store.go getHelper, putHelper and deleteKey, which IO threads run without a
\* lock: however the steps of any number of commands and of the expiry sweep
\* interleave, a GET never answers with a value that was replaced or deleted when
\* it began, and while no deadline has passed it misses no key.
THEOREM ReadsAreFresh == ThreadsSpec => []FreshReads
<1>1. FreshInv => FreshReads
    BY Zenon DEF FreshInv, Actors, Holds, MayBeGone, FreshReads
<1> QED BY <1>1, FreshInit, FreshReadStep, PTL DEF ThreadsSpec

-----------------------------------------------------------------------------
(* The counters, as long as no two operations overlap *)

Exact == numKeys = (IF tab = 0 THEN 0 ELSE 1) /\ size >= numKeys

\* What the counters are while the only operation under way is job j.
Midway(j) ==
    /\ j.pc \in {"find", "refind", "make", "lookup"} => Exact
    /\ j.pc \in {"check", "delete", "keep", "unexpire"} => Exact /\ tab # 0
    /\ j.pc = "forget" => tab = 0 /\ numKeys = 1 /\ size >= 0 /\ j.cur # 0
    /\ j.pc \in {"count", "counted"} =>
           tab = 0 /\ numKeys = (IF j.cur = 0 THEN 0 ELSE 1) /\ size >= 0
    /\ j.pc = "counted" => j.n = numKeys
    /\ j.pc = "put" => numKeys = 1 /\ size >= 0

\* One operation at a time, and the counters right for where it stands.
Serial ==
    /\ \A a, b \in Actors : a # b => Stands(a, "idle") \/ Stands(b, "idle")
    /\ \A a \in Actors : ~Stands(a, "idle") => Midway(job[a])
    /\ (\A a \in Actors : Stands(a, "idle")) => Exact

CountInv == FreshInv /\ size \in Int /\ (~ops.overlap => Serial)

\* The only operation under way takes a step.
LEMMA SerialMove ==
    ASSUME CountInv, NEW a \in Actors, NEW k, job' = [job EXCEPT ![a] = k],
           job[a].pc # "idle", ops'.overlap = ops.overlap, size' \in Int, FreshInv',
           Midway(job[a]) => IF job'[a].pc = "idle" THEN Exact' ELSE Midway(job[a])'
    PROVE  CountInv'
<1>1. \A b \in Actors : b # a => job'[b] = job[b]
    BY Zenon DEF CountInv, FreshInv, StoreTypes
<1>2. ASSUME ~ops.overlap PROVE Serial'
    <2>1. Serial /\ Midway(job[a])
        BY Zenon, <1>2 DEF CountInv, Serial, Stands
    <2>2. \A b \in Actors : b # a => job[b].pc = "idle"
        BY Zenon, <2>1 DEF Serial, Stands
    <2>3. \A b, c \in Actors : b # c => Stands(b, "idle")' \/ Stands(c, "idle")'
        BY Zenon, <1>1, <2>2 DEF Stands
    <2>4. \A b \in Actors : ~Stands(b, "idle")' => Midway(job[b])'
        <3> SUFFICES ASSUME NEW b \in Actors, ~Stands(b, "idle")' PROVE Midway(job[b])'
            BY Zenon
        <3>1. b = a
            BY Zenon, <1>1, <2>2 DEF Stands
        <3> QED BY Zenon, <2>1, <3>1 DEF Stands
    <2>5. (\A b \in Actors : Stands(b, "idle")') => Exact'
        BY Zenon, <2>1 DEF Stands
    <2> QED BY Zenon, <2>3, <2>4, <2>5 DEF Serial
<1> QED BY Zenon, <1>2 DEF CountInv

\* An answer or, for a SET, the step from its lookup to its object.
LEMMA SerialFound ==
    ASSUME CountInv, NEW a \in Actors, NEW v, Found(a, v) \/ Answer(a, v),
           job[a].pc # "idle", size' = size, Midway(job[a]) => Exact', FreshInv'
    PROVE  CountInv'
<1>1. /\ ops'.overlap = ops.overlap /\ size' \in Int
      /\ job \in [Actors -> JobType] /\ job[a] \in JobType
    BY Zenon DEF CountInv, FreshInv, StoreTypes, Found, Answer
<1>2. PICK k : job' = [job EXCEPT ![a] = k]
    BY Zenon DEF Found, GoTo, Answer
<1>3. job'[a].pc \in {"make", "idle"}
    <2>1. CASE job' = [job EXCEPT ![a].pc = "make"]
        BY Zenon, <1>1, <2>1 DEF JobType
    <2>2. CASE Answer(a, v)
        <3>1. job'[a] = [NoJob EXCEPT !.op = job[a].op, !.stale = job[a].stale, !.got = v]
            BY Zenon, <1>1, <2>2 DEF Answer
        <3> QED BY Zenon, <3>1 DEF NoJob
    <2> QED BY Zenon, <2>1, <2>2 DEF Found, GoTo
<1>4. Exact' /\ job'[a].pc = "make" => Midway(job[a])'
    BY Zenon DEF Midway, Exact
<1> QED BY Zenon, <1>1, <1>2, <1>3, <1>4, SerialMove

\* The steps of getHelper, Del and the sweep up to the deletion.
LEMMA SerialLookups ==
    ASSUME CountInv, NEW a \in Actors, Find(a) \/ CheckExpiry(a) \/ Refind(a), FreshInv'
    PROVE  CountInv'
<1>1. /\ job \in [Actors -> JobType] /\ job[a] \in JobType
      /\ job[a].pc \in {"find", "check", "refind"}
      /\ UNCHANGED <<tab, size, numKeys>> /\ size' \in Int
    BY Zenon DEF CountInv, FreshInv, StoreTypes, Find, CheckExpiry, Refind, Stands
<1>2. Midway(job[a]) => Exact'
    BY Zenon, <1>1 DEF Midway, Exact
<1>3. CASE \E v : Found(a, v) \/ Answer(a, v)
    BY Zenon, <1>1, <1>2, <1>3, SerialFound
<1>4. CASE /\ UNCHANGED ops /\ job'[a].pc \in {"check", "delete", "refind"}
           /\ \E k : job' = [job EXCEPT ![a] = k]
           /\ tab # 0 \/ job[a].pc = "check"
    <2>1. Midway(job[a]) => Midway(job[a])'
        BY Zenon, <1>1, <1>2, <1>4 DEF Midway, Exact
    <2> QED BY Zenon, <1>1, <1>4, <2>1, SerialMove
<1>5. CASE Find(a)
    BY <1>1, <1>3, <1>4, <1>5 DEF Find, JobType
<1>6. CASE CheckExpiry(a)
    BY <1>1, <1>3, <1>4, <1>6 DEF CheckExpiry, GoTo, Stands, JobType
<1>7. CASE Refind(a)
    BY <1>1, <1>3, <1>4, <1>7 DEF Refind, JobType
<1> QED BY Zenon, <1>5, <1>6, <1>7

\* deleteKey, putHelper and the two halves of the counter's update.
LEMMA SerialUpdates ==
    ASSUME CountInv, NEW a \in Actors, FreshInv',
           \/ Delete(a) \/ Forget(a) \/ Make(a) \/ Lookup(a) \/ Keep(a) \/ Unexpire(a)
           \/ Count(a) \/ Tally(a) \/ PutObject(a)
    PROVE  CountInv'
<1>1. /\ job \in [Actors -> JobType] /\ job[a] \in JobType /\ numKeys \in Int /\ size \in Int
      /\ Holds(a, job[a]) /\ 0 \notin Ids
    BY DEF CountInv, FreshInv, StoreTypes, Ids
<1> DEFINE Only == \E k : job' = [job EXCEPT ![a] = k]
<1>2. CASE Delete(a)
    <2>1. /\ Only /\ job'[a].pc = "forget" /\ job'[a].cur = job[a].cur
          /\ job[a].pc = "delete" /\ tab' = 0 /\ size' = size - 1 /\ UNCHANGED <<numKeys, ops>>
        BY Zenon, <1>1, <1>2 DEF Delete, GoTo, Stands, JobType
    <2>2. job[a].cur # 0
        BY Zenon, <1>1, <2>1 DEF Holds
    <2>3. Midway(job[a]) => Midway(job[a])'
        BY <1>1, <2>1, <2>2 DEF Midway, Exact
    <2>4. size' \in Int
        BY <1>1, <2>1
    <2> QED BY Zenon, <2>1, <2>3, <2>4, SerialMove
<1>3. CASE Forget(a)
    <2>1. /\ Only /\ job'[a].pc = "count" /\ job'[a].cur = job[a].cur
          /\ job[a].pc = "forget" /\ UNCHANGED <<tab, size, numKeys, ops>>
        BY Zenon, <1>1, <1>3 DEF Forget, GoTo, Stands, JobType
    <2>2. Midway(job[a]) => Midway(job[a])'
        BY Zenon, <1>1, <2>1 DEF Midway
    <2> QED BY Zenon, <1>1, <2>1, <2>2, SerialMove
<1>4. CASE Make(a)
    <2>1. /\ Only /\ job'[a].pc = "lookup" /\ job[a].pc = "make"
          /\ UNCHANGED <<tab, size, numKeys, ops>>
        BY Zenon, <1>1, <1>4 DEF Make, Stands, JobType
    <2>2. Midway(job[a]) => Midway(job[a])'
        BY Zenon, <1>1, <2>1 DEF Midway, Exact
    <2> QED BY Zenon, <1>1, <2>1, <2>2, SerialMove
<1>5. CASE Lookup(a)
    <2>1. /\ Only /\ job[a].pc = "lookup" /\ UNCHANGED <<tab, size, numKeys, ops>>
          /\ IF tab = 0 THEN job'[a].pc = "count" /\ job'[a].cur = 0
                        ELSE job'[a].pc \in {"keep", "unexpire"}
        BY Zenon, <1>1, <1>5 DEF Lookup, Stands, JobType
    <2>2. Midway(job[a]) => Midway(job[a])'
        BY Zenon, <1>1, <2>1 DEF Midway, Exact
    <2> QED BY Zenon, <1>1, <2>1, <2>2, SerialMove
<1>6. CASE Keep(a) \/ Unexpire(a)
    <2>1. /\ Only /\ UNCHANGED <<tab, size, numKeys, ops>>
          /\ \/ job[a].pc = "keep" /\ job'[a].pc = "unexpire"
             \/ job[a].pc = "unexpire" /\ job'[a].pc = "put"
        BY <1>1, <1>6 DEF Keep, Unexpire, GoTo, Stands, JobType
    <2>2. Midway(job[a]) => Midway(job[a])'
        BY <1>1, <2>1 DEF Midway, Exact
    <2> QED BY Zenon, <1>1, <2>1, <2>2, SerialMove
<1>7. CASE Count(a)
    <2>1. /\ Only /\ job[a].pc = "count" /\ UNCHANGED <<tab, size, numKeys, ops>>
          /\ job'[a].pc = "counted" /\ job'[a].n = numKeys /\ job'[a].cur = job[a].cur
        BY Zenon, <1>1, <1>7 DEF Count, Stands, JobType
    <2>2. Midway(job[a]) => Midway(job[a])'
        BY Zenon, <1>1, <2>1 DEF Midway
    <2> QED BY Zenon, <1>1, <2>1, <2>2, SerialMove
<1>8. CASE Tally(a)
    <2>1. CASE job[a].cur = 0
        <3>1. /\ Only /\ job'[a].pc = "put" /\ job[a].pc = "counted"
              /\ UNCHANGED <<tab, size, ops>> /\ numKeys' = job[a].n + 1
            BY <1>1, <1>8, <2>1 DEF Tally, GoTo, Stands, JobType
        <3>2. Midway(job[a]) => Midway(job[a])'
            BY <1>1, <2>1, <3>1 DEF Midway
        <3> QED BY Zenon, <1>1, <3>1, <3>2, SerialMove
    <2>2. CASE job[a].cur # 0
        <3>1. /\ Found(a, 0) /\ UNCHANGED <<tab, size>>
              /\ numKeys' = job[a].n - 1 /\ job[a].pc = "counted"
            BY Zenon, <1>8, <2>2 DEF Tally, Stands
        <3>2. Midway(job[a]) => Exact'
            BY <1>1, <2>2, <3>1 DEF Midway, Exact
        <3> QED BY Zenon, <3>1, <3>2, SerialFound
    <2> QED BY Zenon, <2>1, <2>2
<1>9. CASE PutObject(a)
    <2>1. /\ Only /\ job'[a].pc = "idle" /\ job[a].pc = "put" /\ ops'.overlap = ops.overlap
          /\ tab' = job[a].id /\ size' = size + 1 /\ numKeys' = numKeys
        BY Zenon, <1>1, <1>9 DEF PutObject, Answer, NoJob, Stands, CountInv, FreshInv, StoreTypes
    <2>2. job[a].id # 0
        BY SMTT(30), <1>1, <2>1 DEF Holds, IsSet, CountInv, FreshInv, StoreTypes
    <2>3. Midway(job[a]) => Exact'
        BY <1>1, <2>1, <2>2 DEF Midway, Exact
    <2>4. size' \in Int
        BY <1>1, <2>1
    <2> QED BY Zenon, <2>1, <2>3, <2>4, SerialMove
<1> QED BY Zenon, <1>2, <1>3, <1>4, <1>5, <1>6, <1>7, <1>8, <1>9

\* A command or a sweep begins: with another one under way, they overlap.
LEMMA SerialBegin ==
    ASSUME CountInv, Sweep \/ \E a \in Actors : Begin(a), FreshInv'
    PROVE  CountInv'
<1> DEFINE Starts(a) ==
         /\ \E k : job' = [job EXCEPT ![a] = k] /\ k.pc = "find"
         /\ job[a].pc = "idle" /\ UNCHANGED <<tab, size, numKeys>>
         /\ ops'.overlap = (ops.overlap \/ \E b \in Actors \ {a} : ~Stands(b, "idle"))
<1>1. PICK a \in Actors : Starts(a)
    <2>1. CASE Sweep
        <3>1. "cron" \in Actors /\ Actors \ {"cron"} = Workers
            BY Zenon, MixesAssumption DEF Actors
        <3>2. [NoJob EXCEPT !.op = "sweep", !.pc = "find"].pc = "find"
            BY Zenon DEF NoJob
        <3> QED BY Zenon, <2>1, <3>1, <3>2 DEF Sweep, Stands, CountInv, FreshInv, StoreTypes
    <2>2. ASSUME NEW a \in Actors, Begin(a) PROVE Starts(a)
        <3>1. PICK op \in mix.ops :
                /\ job' = [job EXCEPT ![a] = [NoJob EXCEPT !.op = op, !.pc = "find", !.id = ops.n + 1,
                              !.before = ops.done, !.stale = ops.superseded]]
                /\ ops' = [ops EXCEPT !.n = ops.n + 1, !.kind[ops.n + 1] = op,
                              !.overlap = @ \/ \E b \in Actors \ {a} : ~Stands(b, "idle")]
            BY Zenon, <2>2 DEF Begin
        <3>2. [NoJob EXCEPT !.op = op, !.pc = "find", !.id = ops.n + 1,
                   !.before = ops.done, !.stale = ops.superseded].pc = "find"
            BY Zenon DEF NoJob
        <3>3. ops'.overlap = (ops.overlap \/ \E b \in Actors \ {a} : ~Stands(b, "idle"))
            BY Zenon, <3>1 DEF CountInv, FreshInv, StoreTypes
        <3> QED BY Zenon, <2>2, <3>1, <3>2, <3>3 DEF Begin, Stands
    <2> QED BY Zenon, <2>1, <2>2
<1>2. ASSUME ~ops'.overlap PROVE Serial'
    <2>1. ~ops.overlap /\ \A b \in Actors : job[b].pc = "idle"
        BY Zenon, <1>1, <1>2 DEF Stands
    <2>2. Exact
        BY Zenon, <2>1 DEF CountInv, Serial, Stands
    <2>3. \A b \in Actors : job'[b].pc = IF b = a THEN "find" ELSE "idle"
        BY Zenon, <1>1, <2>1 DEF CountInv, FreshInv, StoreTypes
    <2>4. \A b \in Actors : ~Stands(b, "idle")' => Midway(job[b])'
        BY Zenon, <1>1, <2>2, <2>3 DEF Stands, Midway, Exact
    <2> QED BY Zenon, <2>3, <2>4 DEF Serial, Stands
<1> QED BY Zenon, <1>1, <1>2 DEF CountInv

LEMMA CountStep == CountInv /\ [ThreadsNext]_tvars => CountInv'
<1> SUFFICES ASSUME CountInv, [ThreadsNext]_tvars PROVE CountInv'
    OBVIOUS
<1>1. FreshInv'
    BY Zenon, FreshReadStep DEF CountInv
<1>2. CASE UNCHANGED tvars
    BY <1>1, <1>2 DEF tvars, CountInv, Serial, Midway, Exact, Stands
<1>3. CASE Pass
    BY <1>1, <1>3 DEF Pass, CountInv, Serial, Midway, Exact, Stands
<1>4. ASSUME NEW a \in Actors,
             \/ Begin(a) \/ Find(a) \/ CheckExpiry(a) \/ Refind(a) \/ Delete(a) \/ Forget(a)
             \/ Make(a) \/ Lookup(a) \/ Keep(a) \/ Unexpire(a) \/ Count(a) \/ Tally(a) \/ PutObject(a)
      PROVE  CountInv'
    BY Zenon, <1>1, <1>4, SerialBegin, SerialLookups, SerialUpdates
<1> QED BY Zenon, <1>1, <1>2, <1>3, <1>4, SerialBegin DEF ThreadsNext

\* store.go deleteKey, putHelper and deleteAllExpiredKeys, step by step: as long as
\* no two operations overlap, whatever their number and the threads they run on,
\* numKeys is the number of keys and RegMap's count not below it.
THEOREM CountsAreExact == ThreadsSpec => []SerialCount
<1>1. ThreadsInit => CountInv
    <2> SUFFICES ASSUME ThreadsInit PROVE CountInv
        OBVIOUS
    <2>1. FreshInv
        BY Zenon, FreshInit
    <2>2. \A a \in Actors : Stands(a, "idle")
        BY Zenon DEF ThreadsInit, NoJob, Stands
    <2> QED BY <2>1, <2>2 DEF CountInv, Serial, Exact, ThreadsInit
<1>2. CountInv => SerialCount
    BY Zenon DEF CountInv, Serial, Exact, SerialCount
<1> QED BY <1>1, <1>2, CountStep, PTL DEF ThreadsSpec
=============================================================================
