---------------------------- MODULE Subscription ----------------------------
(***************************************************************************)
(* One watched query (fingerprint) on the leader: the IO threads of the    *)
(* connections, the WatchManager, the outbox of the query's subscriptions  *)
(* and the notifier's tick (internal/server/ironhawk,                      *)
(* internal/emission/notifier.go and outbox.go).                           *)
(*                                                                         *)
(* A connection is served by an IO thread of its own; a client may have    *)
(* several, one after the other, under the same client id.  A subscription *)
(* id is a client id and the fingerprint, so here it is a client.  All     *)
(* entries carry the epoch of this process; an entry is its commit index.  *)
(* Raft is the set of proposals that are going to be applied.              *)
(***************************************************************************)
EXTENDS Naturals, FiniteSets, FiniteSetsExt

CONSTANTS Clients,
          Conns,
          None,        \* no connection, no subscription
          Epoch,       \* EpochCounter of this process: its start time
          MaxEvents,   \* bound: commit indices given to events
          Settings     \* the circumstances to look at, one of which holds throughout

ASSUME SubscriptionAssumption ==
    /\ None \notin Conns \cup Clients /\ IsFiniteSet(Clients)
    /\ Epoch \in Nat \ {0}
    /\ MaxEvents \in Nat
    /\ Settings \subseteq
         [clients : SUBSET Clients,   \* the clients that connect
          conns : SUBSET Conns,       \* bound: the connections they make
          reconnect : BOOLEAN,        \* they use EMITRECONNECT
          takeover : BOOLEAN,         \* they may return before the old thread has ended
          clearInTick : BOOLEAN]      \* watermarks may be cleared in the middle of a tick

VARIABLES
    setting,    \* the member of Settings that holds
    owner,      \* owner[k]: the client id of connection k while a thread serves it
    alive,      \* connections whose client end is open
    pc,         \* pc[k]: where the IO thread of k is
    from,       \* from[k]: the subscription that k's rebind has emptied
    reply,      \* reply[k]: the verdict on k's EMITRECONNECT under way
    thread,     \* WatchManager.clientWatchThreadMap
    fpClients,  \* WatchManager.fpClientMap of the fingerprint
    hasCmd,     \* whether WatchManager.fpCmdMap has the fingerprint
    proposed,   \* DATA_EVENTs under way: pairs of subscription and commit index
    next,       \* the next commit index
    box,        \* box[c]: pending entries of the subscription of c
    lastAck,    \* Manager.lastAck
    compact,    \* Manager.compactThrough
    sent,       \* Notifier.sentThrough
    tick,       \* processTick: subscriptions to visit, the one at hand, its
                \* entries still to handle, whether the first of them was sent
    got         \* got[c]: what has reached client c

connVars == <<setting, owner, alive, pc, from, reply>>
watchVars == <<thread, fpClients, hasCmd>>
raftVars == <<proposed, next>>
outboxVars == <<box, lastAck, compact>>
vars == <<connVars, watchVars, raftVars, outboxVars, sent, tick, got>>

PCs == {"closed", "idle", "bind", "move", "marks", "rmarks", "rbind", "clear", "done"}

TypeOK ==
    /\ setting \in Settings
    /\ owner \in [Conns -> Clients \cup {None}]
    /\ alive \subseteq {k \in Conns : pc[k] \notin {"closed", "clear", "done"}}
    /\ pc \in [Conns -> PCs]
    /\ from \in [Conns -> Clients \cup {None}]
    /\ reply \in [Conns -> {"none", "OK", "STALE", "INVALID"}]
    /\ thread \in [Clients -> Conns \cup {None}]
    /\ fpClients \subseteq Clients
    /\ hasCmd \in BOOLEAN
    /\ proposed \subseteq Clients \X (1..(next - 1))
    /\ next \in 1..(MaxEvents + Cardinality(Clients))
    /\ box \in [Clients -> SUBSET (1..(next - 1))]
    /\ lastAck \in [Clients -> 0..(next - 1)]
    /\ compact \in [Clients -> 0..(next - 1)]
    /\ sent \in [Clients -> 0..(next - 1)]
    /\ tick \in [subs : SUBSET Clients, cur : Clients \cup {None},
                 batch : SUBSET (1..(next - 1)), unmarked : BOOLEAN]
    /\ got \in [Clients -> SUBSET (1..(next - 1))]

Idle == [subs |-> {}, cur |-> None, batch |-> {}, unmarked |-> FALSE]

Init ==
    /\ setting \in Settings
    /\ owner = [k \in Conns |-> None]
    /\ alive = {}
    /\ pc = [k \in Conns |-> "closed"]
    /\ from = [k \in Conns |-> None]
    /\ reply = [k \in Conns |-> "none"]
    /\ thread = [c \in Clients |-> None]
    /\ fpClients = {}
    /\ hasCmd = FALSE
    /\ proposed = {}
    /\ next = 1
    /\ box = [c \in Clients |-> {}]
    /\ lastAck = [c \in Clients |-> 0]
    /\ compact = [c \in Clients |-> 0]
    /\ sent = [c \in Clients |-> 0]
    /\ tick = Idle
    /\ got = [c \in Clients |-> {}]

Goto(k, p) == pc' = [pc EXCEPT ![k] = p]

\* RegisterThread, which ends every command that did not fail.
RegisterThread(k) == thread' = [thread EXCEPT ![owner[k]] = k]

-----------------------------------------------------------------------------
(* Connections.                                                            *)

\* The IO threads that still serve client c.
Served(c) == {k \in Conns : owner[k] = c}

\* A connection shakes hands as client c.
Handshake(k, c) ==
    /\ pc[k] = "closed" /\ k \in setting.conns /\ c \in setting.clients
    /\ \A j \in alive : owner[j] # c
    /\ setting.takeover \/ Served(c) = {}
    /\ owner' = [owner EXCEPT ![k] = c]
    /\ alive' = alive \cup {k}
    /\ Goto(k, "idle")
    /\ thread' = [thread EXCEPT ![c] = k]
    /\ UNCHANGED <<setting, from, reply, fpClients, hasCmd, raftVars, outboxVars, sent, tick, got>>

\* The client's end of the connection closes.
Hangup(k) ==
    /\ k \in alive
    /\ alive' = alive \ {k}
    /\ UNCHANGED <<setting, owner, pc, from, reply, watchVars, raftVars, outboxVars, sent, tick, got>>

\* The IO thread of k ends.
Ended(k) == Goto(k, "done") /\ owner' = [owner EXCEPT ![k] = None]

\* Mutant: a thread that finds no registration leaves the bindings alone.
CleanupIfRegistered(k) ==
    /\ pc[k] = "idle" /\ k \notin alive
    /\ LET c == owner[k] IN
       \/ /\ thread[c] = k
          /\ thread' = [thread EXCEPT ![c] = None]
          /\ fpClients' = fpClients \ {c}
          /\ Goto(k, "clear")
          /\ UNCHANGED owner
       \/ /\ thread[c] # k
          /\ Ended(k)
          /\ UNCHANGED <<thread, fpClients>>
    /\ UNCHANGED <<setting, alive, from, reply, hasCmd, raftVars, outboxVars, sent, tick, got>>

\* startIOThread once Start has returned: CleanupThreadWatchSubscriptions
Cleanup(k) ==
    /\ pc[k] = "idle" /\ k \notin alive
    /\ LET c == owner[k] IN
       \/ /\ thread[c] \in {None, k}
          /\ thread' = [thread EXCEPT ![c] = None]
          /\ fpClients' = fpClients \ {c}
          /\ Goto(k, "clear")
          /\ UNCHANGED owner
       \/ /\ thread[c] \notin {None, k}
          /\ Ended(k)
          /\ UNCHANGED <<thread, fpClients>>
    /\ UNCHANGED <<setting, alive, from, reply, hasCmd, raftVars, outboxVars, sent, tick, got>>

\* Mutant: the watermarks of a client survive its connection.
KeepWatermarks(k) ==
    /\ pc[k] = "clear"
    /\ setting.clearInTick \/ tick = Idle
    /\ Ended(k)
    /\ UNCHANGED <<setting, alive, from, reply, watchVars, raftVars, outboxVars, sent, tick, got>>

\* startIOThread: ClearEmissionWatermarksForClient
ClearWatermarks(k) ==
    /\ pc[k] = "clear"
    /\ setting.clearInTick \/ tick = Idle
    /\ Ended(k)
    /\ sent' = [sent EXCEPT ![owner[k]] = 0]
    /\ UNCHANGED <<setting, alive, from, reply, watchVars, raftVars, outboxVars, tick, got>>

-----------------------------------------------------------------------------
(* The watch commands.                                                     *)

\* GET.WATCH: HandleWatch
HandleWatch(k) ==
    /\ pc[k] = "idle" /\ k \in alive
    /\ Goto(k, "bind")
    /\ fpClients' = fpClients \cup {owner[k]}
    /\ hasCmd' = TRUE
    /\ RegisterThread(k)
    /\ UNCHANGED <<setting, owner, alive, from, reply, raftVars, outboxVars, sent, tick, got>>

\* GET.WATCH: RebindClientForFP binds the fingerprint to this client alone.
RebindClientForFP(k) ==
    /\ pc[k] = "bind"
    /\ Goto(k, "move")
    /\ fpClients' = {owner[k]}
    /\ UNCHANGED <<setting, owner, alive, from, reply, thread, hasCmd, raftVars, outboxVars, sent,
                   tick, got>>

\* The subscriptions that RebindByFingerprint may take for the old one: the named
\* one if it is known; else any with entries; else any with a watermark.
OldSubs(named) ==
    LET Known == {c \in Clients : box[c] # {} \/ lastAck[c] > 0 \/ compact[c] > 0}
        Pending == {c \in Clients : box[c] # {}}
    IN  IF named \in Known THEN {named}
        ELSE IF Pending # {} THEN Pending
        ELSE Known

\* Mutant: the moved entries replace the ones the client already has.
ReplaceEntries(k, named, p) ==
    LET c == owner[k] IN
    \/ \E b \in OldSubs(named) \ {c} :
          /\ box' = [box EXCEPT ![c] = box[b], ![b] = {}]
          /\ from' = [from EXCEPT ![k] = b]
          /\ Goto(k, p)
    \/ /\ OldSubs(named) = {} \/ c \in OldSubs(named)
       /\ from' = [from EXCEPT ![k] = None]
       /\ Goto(k, p)
       /\ UNCHANGED box

\* RebindByFingerprint, the part under the outbox lock: the entries of some old
\* subscription go to client c.  from is None when there is nothing to move.
MoveEntries(k, named, p) ==
    LET c == owner[k] IN
    \/ \E b \in OldSubs(named) \ {c} :
          /\ box' = [box EXCEPT ![c] = @ \cup box[b], ![b] = {}]
          /\ from' = [from EXCEPT ![k] = b]
          /\ Goto(k, p)
    \/ /\ OldSubs(named) = {} \/ c \in OldSubs(named)
       /\ from' = [from EXCEPT ![k] = None]
       /\ Goto(k, p)
       /\ UNCHANGED box

\* RebindByFingerprint, the part under the manager's lock: the newer watermark stays.
MoveMarks(k) ==
    LET b == from[k]
        c == owner[k]
        Moved(m) == [m EXCEPT ![c] = Max({@, m[b]}), ![b] = 0]
    IN  IF b = None THEN UNCHANGED <<lastAck, compact>>
        ELSE lastAck' = Moved(lastAck) /\ compact' = Moved(compact)

\* GET.WATCH: the implicit EmissionRebindForKey names no old client.
WatchMove(k) ==
    /\ pc[k] = "move"
    /\ MoveEntries(k, None, "marks")
    /\ UNCHANGED <<setting, owner, alive, reply, watchVars, raftVars, lastAck, compact, sent, tick, got>>

\* GET.WATCH: the end of the rebind, the reply, RegisterThread.
WatchDone(k) ==
    /\ pc[k] = "marks"
    /\ Goto(k, "idle")
    /\ MoveMarks(k)
    /\ from' = [from EXCEPT ![k] = None]
    /\ \/ RegisterThread(k)
       \/ k \notin alive /\ UNCHANGED thread      \* the reply could not be written
    /\ UNCHANGED <<setting, owner, alive, reply, fpClients, hasCmd, raftVars, box, sent, tick, got>>

\* UNWATCH: HandleUnwatch, RegisterThread
Unwatch(k) ==
    /\ pc[k] = "idle" /\ k \in alive
    /\ fpClients' = fpClients \ {owner[k]}
    /\ hasCmd' = (hasCmd /\ fpClients' # {})
    /\ RegisterThread(k)
    /\ UNCHANGED <<connVars, raftVars, outboxVars, sent, tick, got>>

-----------------------------------------------------------------------------
(* EMITRECONNECT.                                                          *)

\* Manager.Reconnect for a position in the given epoch.
ReconnectStatus(epoch, last, sub) ==
    IF epoch # Epoch THEN "OK"
    ELSE IF lastAck[sub] > 0 /\ last > lastAck[sub] THEN "INVALID"
    ELSE IF last < compact[sub] THEN "STALE"
    ELSE "OK"

\* The command: the position is judged as one of epoch 0, and the rebind starts
\* whatever the verdict.  (With the epoch that differs the resume index is 0,
\* and SetResumeFrom(_, 0) only forgets a resume index that is never set.)
EmitReconnect(k, old, last) ==
    /\ setting.reconnect
    /\ pc[k] = "idle" /\ k \in alive
    /\ reply' = [reply EXCEPT ![k] = ReconnectStatus(0, last, old)]
    /\ MoveEntries(k, old, "rmarks")
    /\ UNCHANGED <<setting, owner, alive, watchVars, raftVars, lastAck, compact, sent, tick, got>>

\* The end of its rebind, and RegisterThread.
ReconnectMarks(k) ==
    /\ pc[k] = "rmarks"
    /\ Goto(k, IF reply[k] = "OK" THEN "rbind" ELSE "idle")
    /\ MoveMarks(k)
    /\ from' = [from EXCEPT ![k] = None]
    /\ reply' = [reply EXCEPT ![k] = "none"]
    /\ RegisterThread(k)
    /\ UNCHANGED <<setting, owner, alive, fpClients, hasCmd, raftVars, box, sent, tick, got>>

\* The IO thread's RebindClientForFP after a reconnect that was accepted.
ReconnectBind(k) ==
    /\ pc[k] = "rbind"
    /\ Goto(k, "idle")
    /\ fpClients' = {owner[k]}
    /\ UNCHANGED <<setting, owner, alive, from, reply, thread, hasCmd, raftVars, outboxVars, sent,
                   tick, got>>

-----------------------------------------------------------------------------
(* Events and acknowledgements.                                            *)

\* NotifyWatchers: one DATA_EVENT for every client bound to the fingerprint.
NotifyWatchers ==
    /\ next <= MaxEvents
    /\ hasCmd /\ fpClients # {}
    /\ \E idx \in [fpClients -> next..(next + Cardinality(fpClients) - 1)] :
          /\ \A c, d \in fpClients : c # d => idx[c] # idx[d]
          /\ proposed' = proposed \cup {<<c, idx[c]>> : c \in fpClients}
    /\ next' = next + Cardinality(fpClients)
    /\ UNCHANGED <<connVars, watchVars, outboxVars, sent, tick, got>>

\* ApplyOutboxWrite of the oldest event.
OutboxWrite ==
    \E e \in proposed :
       /\ \A f \in proposed : e[2] <= f[2]
       /\ proposed' = proposed \ {e}
       /\ box' = [box EXCEPT ![e[1]] = @ \cup {e[2]}]
       /\ UNCHANGED <<connVars, watchVars, next, lastAck, compact, sent, tick, got>>

\* EMITACK by client c for its own subscription, up to its purge.
EmitAck(c, i) ==
    /\ \E k \in alive : owner[k] = c /\ pc[k] = "idle"
    /\ i \in got[c] /\ i > lastAck[c]
    /\ lastAck' = [lastAck EXCEPT ![c] = i]
    /\ compact' = [compact EXCEPT ![c] = i]
    /\ box' = [box EXCEPT ![c] = {j \in @ : j > i}]
    /\ UNCHANGED <<connVars, watchVars, raftVars, sent, tick, got>>

-----------------------------------------------------------------------------
(* The notifier.                                                           *)

\* processTick: SubsWithPending
TickBegin ==
    /\ tick = Idle
    /\ \E c \in Clients : box[c] # {}
    /\ tick' = [tick EXCEPT !.subs = {c \in Clients : box[c] # {}}]
    /\ UNCHANGED <<connVars, watchVars, raftVars, outboxVars, sent, got>>

\* processTick: Pending of the next subscription.
TickSub(c) ==
    /\ c \in tick.subs /\ tick.batch = {}
    /\ tick' = [tick EXCEPT !.subs = @ \ {c}, !.batch = box[c],
                            !.cur = IF tick.subs = {c} /\ box[c] = {} THEN None ELSE c]
    /\ UNCHANGED <<connVars, watchVars, raftVars, outboxVars, sent, got>>

\* The tick with entries b of the subscription at hand left.
Rest(b) ==
    IF b = {} /\ tick.subs = {} THEN Idle
    ELSE [tick EXCEPT !.batch = b, !.unmarked = FALSE]

\* processTick: an entry at or below the watermark is skipped.
TickSkip ==
    /\ tick.batch # {} /\ ~tick.unmarked
    /\ Min(tick.batch) <= sent[tick.cur]
    /\ tick' = Rest(tick.batch \ {Min(tick.batch)})
    /\ UNCHANGED <<connVars, watchVars, raftVars, outboxVars, sent, got>>

\* BridgeSender.Send: every bound client that has a thread is written to.  A
\* write to a connection whose client has gone fails or is buffered and lost.
Targets == {c \in fpClients : thread[c] # None}

TickSend ==
    /\ tick.batch # {} /\ ~tick.unmarked
    /\ LET i == Min(tick.batch)
           Reached == {c \in Targets : thread[c] \in alive}
       IN  /\ i > sent[tick.cur]
           /\ got' = [c \in Clients |-> IF c \in Reached THEN got[c] \cup {i} ELSE got[c]]
           /\ \/ /\ Targets # {}                     \* at least one write succeeds
                 /\ tick' = [tick EXCEPT !.unmarked = TRUE]
              \/ /\ Reached = {}                     \* none does: next subscription
                 /\ tick' = Rest({})
    /\ UNCHANGED <<connVars, watchVars, raftVars, outboxVars, sent>>

\* Mutant: the watermark jumps to the last entry of the batch.
MarkBatch ==
    /\ tick.unmarked
    /\ sent' = [sent EXCEPT ![tick.cur] = Max(tick.batch)]
    /\ tick' = Rest(tick.batch \ {Min(tick.batch)})
    /\ UNCHANGED <<connVars, watchVars, raftVars, outboxVars, got>>

\* processTick: the watermark, if the entry was newer than the one read before.
TickMark ==
    /\ tick.unmarked
    /\ sent' = [sent EXCEPT ![tick.cur] = Min(tick.batch)]
    /\ tick' = Rest(tick.batch \ {Min(tick.batch)})
    /\ UNCHANGED <<connVars, watchVars, raftVars, outboxVars, got>>

-----------------------------------------------------------------------------
Thread(k) ==
    \/ Cleanup(k) \/ ClearWatermarks(k)
    \/ RebindClientForFP(k) \/ WatchMove(k) \/ WatchDone(k)
    \/ ReconnectMarks(k) \/ ReconnectBind(k)

Notifier == TickBegin \/ (\E c \in Clients : TickSub(c)) \/ TickSkip \/ TickSend \/ TickMark

Next ==
    \/ \E k \in Conns : Thread(k)
    \/ \E k \in Conns, c \in Clients : Handshake(k, c)
    \/ \E k \in Conns : Hangup(k) \/ HandleWatch(k) \/ Unwatch(k)
    \/ \E k \in Conns, c \in Clients, i \in 0..(next - 1) : EmitReconnect(k, c, i)
    \/ NotifyWatchers
    \/ OutboxWrite
    \/ \E c \in Clients, i \in 1..(next - 1) : EmitAck(c, i)
    \/ Notifier

Spec == Init /\ [][Next]_vars

\* IO threads go on, raft applies what was proposed, the ticker keeps firing.
Fairness ==
    /\ \A k \in Conns : WF_vars(Thread(k))
    /\ WF_vars(OutboxWrite)
    /\ WF_vars(Notifier)

FairSpec == Spec /\ Fairness

-----------------------------------------------------------------------------
(* Properties.                                                             *)

\* Client c is served by a connection that is up, registered and bound.
Attached(c) ==
    /\ c \in fpClients
    /\ thread[c] \in alive
    /\ pc[thread[c]] = "idle"

\* What the notifier skips as already sent has reached the client: an entry that
\* is pending for an attached client at or below its watermark was received.
\* (ClearWatermarksForClient exists so that a reconnecting client is not skipped.)
SentWasReceived ==
    \A c \in Clients : Attached(c) => \A i \in box[c] : i <= sent[c] => i \in got[c]

\* Threads leave nothing behind: once every IO thread of a client has gone through
\* its cleanup, the client is neither bound to the query nor has it a thread,
\* however its connections and half-done commands overlapped.
NoOrphan ==
    \A c \in Clients :
       (\A k \in Served(c) : pc[k] = "clear")
          => c \notin fpClients /\ thread[c] = None

\* A committed event stays in some outbox until an acknowledgement covers it: the
\* rebinds that move entries between subscriptions lose none.
KeptUntilAcked ==
    \A i \in 1..(next - 1) :
       \/ \E c \in Clients : <<c, i>> \in proposed \/ i \in box[c]
       \/ \E c \in Clients : i <= lastAck[c]

\* A client stays subscribed until it unwatches or its connection ends: nobody
\* else's command takes its binding away.
StaysSubscribed ==
    [][\A c \in fpClients \ fpClients' :
          \E k \in Conns : owner[k] = c /\ (Unwatch(k) \/ Cleanup(k))]_vars

\* An entry pending for an attached client reaches it, is acknowledged or moved,
\* or the client goes away: the tick never passes it over for ever.
PendingReaches ==
    \A c \in Clients : \A i \in 1..(MaxEvents + 1) :
       (Attached(c) /\ i \in box[c]) ~> (i \in got[c] \/ i \notin box[c] \/ ~Attached(c))
=============================================================================
