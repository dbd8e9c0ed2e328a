----------------------------- MODULE Transport ------------------------------
(* The outbound side of the raft gRPC transport (grpc_transport.go), as    *)
(* seen by one node for one peer.  Three kinds of goroutine share the      *)
(* table of peers: ensurePeerStream dials and installs a connection, one   *)
(* reader per installed connection waits for it to fail, and the raft      *)
(* ready loop sends.  Whoever meets a failure calls removePeer with the    *)
(* peer's id, which takes whatever connection is in the table by then.     *)
EXTENDS Integers

CONSTANTS MaxConns,    \* bound: connections that exist at the same time
          MaxDialers,  \* bound: ensurePeerStream goroutines
          Plans        \* how often the link may fail in a behaviour

ASSUME TransportAssumption == MaxConns \in Nat \ {0} /\ MaxDialers \in Nat \ {0}

VARIABLES plan,    \* faults left, or NoPlan
          up,      \* the peer can be reached
          started, \* Start was called
          table,   \* t.peers[id], or 0
          conn,    \* connection -> its state, its reader and what that removed
          dialer,  \* goroutine -> where it is in ensurePeerStream
          sender   \* the ready loop in Send

ovars == <<plan, up, started, table, conn, dialer, sender>>

NoPlan  == -1
Conns   == 1 .. MaxConns
Dialers == 1 .. MaxDialers
Unused  == [st |-> "none", reader |-> "none", hold |-> 0]
AtRest  == [at |-> "idle", hold |-> 0]

\* A "broken" connection fails at the next Recv; a Send may not notice.
TransportTypeOK ==
  /\ plan \in Int /\ up \in BOOLEAN /\ started \in BOOLEAN
  /\ table \in Conns \cup {0}
  /\ conn \in [Conns -> [st : {"none", "open", "broken", "closed"},
                         reader : {"none", "recv", "remove", "close", "done"},
                         hold : Conns \cup {0}]]
  /\ dialer \in [Dialers -> [at : {"idle", "check", "dial", "stream", "install", "drop"},
                             hold : Conns \cup {0}]]
  /\ sender \in [at : {"idle", "send", "remove", "close", "redial"}, hold : Conns \cup {0}]

\* cancel and conn.Close
Closed(cs, c) == [cs EXCEPT ![c].st = "closed"]

\* go t.ensurePeerStream(id).  Goroutines above the bound would do what the
\* ones below it do.
Spawned(ds) ==
  LET idle == {d \in Dialers : ds[d].at = "idle"}
  IN  IF idle = {} THEN ds
      ELSE [ds EXCEPT ![CHOOSE d \in idle : TRUE] = [at |-> "check", hold |-> 0]]

Held(c) == \/ \E d \in Dialers : dialer[d].hold = c
           \/ \E r \in Conns : conn[r].hold = c
           \/ sender.hold = c

Reusable == {c \in Conns : /\ conn[c].st \in {"none", "closed"}
                           /\ conn[c].reader \in {"none", "done"}
                           /\ ~Held(c) /\ table # c}

Start ==
  /\ ~started /\ started' = TRUE
  /\ dialer' = Spawned(dialer)
  /\ UNCHANGED <<plan, up, table, conn, sender>>

(***************************************************************************)
(* ensurePeerStream.                                                       *)
(***************************************************************************)
At(d, l)   == dialer[d].at = l
Move(d, l) == dialer' = [dialer EXCEPT ![d].at = l]
Return(d)  == dialer' = [dialer EXCEPT ![d] = AtRest]

\* "already connected"
Check(d) ==
  /\ At(d, "check")
  /\ IF table # 0 THEN Return(d) ELSE Move(d, "dial")
  /\ UNCHANGED <<plan, up, started, table, conn, sender>>

\* DialContext: fails while the peer is away, and is tried again.
Dial(d) ==
  /\ At(d, "dial")
  /\ \/ /\ up /\ Reusable # {}
        /\ LET c == CHOOSE r \in Reusable : TRUE
           IN  /\ conn' = [conn EXCEPT ![c] = [Unused EXCEPT !.st = "open"]]
               /\ dialer' = [dialer EXCEPT ![d] = [at |-> "stream", hold |-> c]]
     \/ ~up /\ Move(d, "check") /\ UNCHANGED conn
  /\ UNCHANGED <<plan, up, started, table, sender>>

\* MessageStream on the new connection; one that has broken may fail here.
OpenStream(d) ==
  /\ At(d, "stream")
  /\ \/ Move(d, "install") /\ UNCHANGED conn
     \/ /\ conn[dialer[d].hold].st = "broken"
        /\ conn' = Closed(conn, dialer[d].hold)
        /\ dialer' = [dialer EXCEPT ![d] = [at |-> "check", hold |-> 0]]
  /\ UNCHANGED <<plan, up, started, table, sender>>

\* Mutant: the connection in the table is replaced.
InstallOver(d) ==
  /\ At(d, "install")
  /\ table' = dialer[d].hold
  /\ conn' = [conn EXCEPT ![dialer[d].hold].reader = "recv"]
  /\ Return(d)
  /\ UNCHANGED <<plan, up, started, sender>>

\* setPeerIfAbsent, then the reader goroutine.
Install(d) ==
  /\ At(d, "install")
  /\ IF table # 0 THEN Move(d, "drop") /\ UNCHANGED <<table, conn>>
     ELSE /\ table' = dialer[d].hold
          /\ conn' = [conn EXCEPT ![dialer[d].hold].reader = "recv"]
          /\ Return(d)
  /\ UNCHANGED <<plan, up, started, sender>>

\* Another goroutine was faster.
Drop(d) ==
  /\ At(d, "drop")
  /\ conn' = Closed(conn, dialer[d].hold)
  /\ Return(d)
  /\ UNCHANGED <<plan, up, started, table, sender>>

(***************************************************************************)
(* The reader of connection c; removePeer is a step under the lock and a   *)
(* close after it.                                                         *)
(***************************************************************************)
RecvFails(c) ==
  /\ conn[c].reader = "recv" /\ conn[c].st # "open"
  /\ conn' = [conn EXCEPT ![c].reader = "remove"]
  /\ UNCHANGED <<plan, up, started, table, dialer, sender>>

ReaderRemoves(c) ==
  /\ conn[c].reader = "remove"
  /\ table' = 0
  /\ conn' = [conn EXCEPT ![c].hold = table,
                          ![c].reader = IF table = 0 THEN "done" ELSE "close"]
  /\ UNCHANGED <<plan, up, started, dialer, sender>>

ReaderCloses(c) ==
  /\ conn[c].reader = "close"
  /\ conn' = [Closed(conn, conn[c].hold) EXCEPT ![c].reader = "done", ![c].hold = 0]
  /\ UNCHANGED <<plan, up, started, table, dialer, sender>>

(***************************************************************************)
(* Send.                                                                   *)
(***************************************************************************)
\* Mutant: a message without a connection is dropped, and nobody dials.
SendLookupQuiet ==
  /\ sender.at = "idle"
  /\ sender' = IF table = 0 THEN sender ELSE [at |-> "send", hold |-> table]
  /\ UNCHANGED <<plan, up, started, table, conn, dialer>>

\* getPeer; without one the message is dropped and a dial is started.
SendLookup ==
  /\ sender.at = "idle"
  /\ IF table = 0 THEN dialer' = Spawned(dialer) /\ UNCHANGED sender
     ELSE sender' = [at |-> "send", hold |-> table] /\ UNCHANGED dialer
  /\ UNCHANGED <<plan, up, started, table, conn>>

\* stream.Send: the error of a broken stream may come with a later message.
SendOn ==
  /\ sender.at = "send"
  /\ \/ conn[sender.hold].st # "closed" /\ sender' = AtRest
     \/ conn[sender.hold].st # "open" /\ sender' = [at |-> "remove", hold |-> 0]
  /\ UNCHANGED <<plan, up, started, table, conn, dialer>>

SendRemoves ==
  /\ sender.at = "remove"
  /\ table' = 0
  /\ sender' = [at |-> IF table = 0 THEN "redial" ELSE "close", hold |-> table]
  /\ UNCHANGED <<plan, up, started, conn, dialer>>

SendCloses ==
  /\ sender.at = "close"
  /\ conn' = Closed(conn, sender.hold)
  /\ sender' = [at |-> "redial", hold |-> 0]
  /\ UNCHANGED <<plan, up, started, table, dialer>>

SendRedials ==
  /\ sender.at = "redial"
  /\ dialer' = Spawned(dialer)
  /\ sender' = AtRest
  /\ UNCHANGED <<plan, up, started, table, conn>>

(***************************************************************************)
(* The network.                                                            *)
(***************************************************************************)
\* One connection fails, or the peer goes away and takes all of them along.
Break(lost) ==
  conn' = [c \in Conns |-> IF c \in lost /\ conn[c].st = "open"
                           THEN [conn[c] EXCEPT !.st = "broken"] ELSE conn[c]]

LinkFails ==
  /\ plan > 0 /\ plan' = plan - 1
  /\ \/ \E c \in Conns : conn[c].st = "open" /\ Break({c}) /\ UNCHANGED up
     \/ up /\ up' = FALSE /\ Break(Conns)
  /\ UNCHANGED <<started, table, dialer, sender>>

LinkBack ==
  /\ ~up /\ up' = TRUE
  /\ UNCHANGED <<plan, started, table, conn, dialer, sender>>

TransportInit ==
  /\ plan \in Plans /\ up = TRUE /\ started = FALSE /\ table = 0
  /\ conn = [c \in Conns |-> Unused]
  /\ dialer = [d \in Dialers |-> AtRest]
  /\ sender = AtRest

Dialling(d) == Check(d) \/ Dial(d) \/ OpenStream(d) \/ Install(d) \/ Drop(d)
Reading(c)  == RecvFails(c) \/ ReaderRemoves(c) \/ ReaderCloses(c)
Sending     == SendLookup \/ SendOn \/ SendRemoves \/ SendCloses \/ SendRedials

TransportNext ==
  \/ Start \/ Sending \/ LinkFails \/ LinkBack
  \/ \E d \in Dialers : Dialling(d)
  \/ \E c \in Conns : Reading(c)

\* Goroutines are scheduled, raft keeps sending heartbeats, and the peer
\* comes back in the end.
TransportSpec ==
  /\ TransportInit /\ [][TransportNext]_ovars
  /\ WF_ovars(Sending) /\ WF_ovars(LinkBack)
  /\ \A d \in Dialers : WF_ovars(Dialling(d))
  /\ \A c \in Conns : WF_ovars(Reading(c))

(***************************************************************************)
(* Properties.                                                             *)
(***************************************************************************)
InHand(c) == \/ \E d \in Dialers : dialer[d].hold = c
             \/ \E r \in Conns : conn[r].reader = "close" /\ conn[r].hold = c
             \/ sender.at = "close" /\ sender.hold = c

\* No connection is left behind: one that has not been closed is the one in
\* the table, or some goroutine is still about to install or close it, although
\* removePeer names a peer and not a connection.
NoStrayStream == \A c \in Conns : conn[c].st \in {"open", "broken"} => c = table \/ InHand(c)

\* The connection in the table always has a reader that will remove it when
\* it fails; a reader that removed a later connection has left its own before.
TableWatched == table # 0 => conn[table].reader \in {"recv", "remove"}

\* As long as messages are sent, a working connection is installed again and
\* again, whatever failed in between.
Reconnects == plan # NoPlan ~> (table # 0 /\ conn[table].st = "open")
=============================================================================
