--------------------------- MODULE EmissionProofs ---------------------------
(***************************************************************************)
(* Proofs about the emission pipeline, for any set of nodes, any capacity  *)
(* of committedCh and any number of events, acknowledgements, elections,   *)
(* restarts and connections.                                               *)
(***************************************************************************)
EXTENDS Emission, FiniteSetTheorems, TLAPS

LEMMA RecordType ==
    ASSUME NEW op \in Ops, NEW at \in EmitSeqs, NEW seq \in Nat
    PROVE  [op |-> op, at |-> at, seq |-> seq] \in Records
BY Zenon DEF Records

LEMMA SeqType ==
    /\ ZeroSeq \in EmitSeqs
    /\ \A e, i \in Nat : [epoch |-> e, idx |-> i] \in EmitSeqs
    /\ \A s \in EmitSeqs : s.idx \in Nat /\ s.epoch \in Nat
BY Zenon DEF ZeroSeq, EmitSeqs

LEMMA RecordFields ==
    \A r \in Records : r.op \in Ops /\ r.at \in EmitSeqs /\ r.seq \in Nat
BY Zenon DEF Records

\* The records of the channel are records of the log.
LEMMA ChanInLog ==
    ASSUME RaftTypeOK, NEW n \in Nodes, NEW i \in chan[n]
    PROVE  i \in Nat /\ i \in 1..Len(log) /\ log[i] \in Records
BY DEF RaftTypeOK

\* A proposal leaves a sequence of records.
LEMMA ProposeType ==
    ASSUME RaftTypeOK, NEW n \in Nodes, NEW op \in Ops, NEW at \in EmitSeqs,
           Propose(n, op, at)
    PROVE  /\ pend' \in Seq(Records)
           /\ nextSeq' \in [Nodes -> Nat]
<1>1. [op |-> op, at |-> at, seq |-> nextSeq[n] + 1] \in Records
  BY RecordType DEF RaftTypeOK
<1> QED BY <1>1 DEF RaftTypeOK, Propose

\* A prefix of the proposals is one.
LEMMA PrefixType ==
    ASSUME RaftTypeOK, NEW k \in 0..Len(pend)
    PROVE  SubSeq(pend, 1, k) \in Seq(Records)
BY DEF RaftTypeOK

LEMMA ApplyOutboxType ==
    ASSUME EmissionTypeOK, NEW n \in Nodes, NEW r \in Records, ApplyOutbox(n, r)
    PROVE  /\ outbox' \in [Nodes -> SUBSET EmitSeqs]
           /\ compact' \in [Nodes -> EmitSeqs]
<1>1. r.at \in EmitSeqs
  BY Zenon, RecordFields
<1> QED BY <1>1 DEF ApplyOutbox, EmissionTypeOK, OutboxWrite, OutboxPurge

\* committedCh keeps its bound when a record is taken from it.
LEMMA ReceivesType ==
    ASSUME RaftTypeOK, NEW n \in Nodes, NEW i, Receives(n, i)
    PROVE  /\ chan' \in [Nodes -> SUBSET Nat]
           /\ \A m \in Nodes : /\ chan'[m] \subseteq chan[m]
                               /\ IsFiniteSet(chan'[m])
                               /\ Cardinality(chan'[m]) <= ChanCap
<1>1. IsFiniteSet(chan[n])
  BY Zenon DEF RaftTypeOK
<1>2. /\ IsFiniteSet(chan[n] \ {i})
      /\ Cardinality(chan[n] \ {i}) <= Cardinality(chan[n])
  BY Zenon, <1>1, FS_Subset
<1>3. Cardinality(chan[n]) \in Nat /\ Cardinality(chan[n] \ {i}) \in Nat
  BY Zenon, <1>1, <1>2, FS_CardinalityType
<1>4. ChanCap \in Nat
  BY Zenon, EmissionAssumption
<1>5. chan \in [Nodes -> SUBSET Nat] /\ chan' = [chan EXCEPT ![n] = chan[n] \ {i}]
  BY Zenon DEF RaftTypeOK, Receives
<1>6. ASSUME NEW m \in Nodes
      PROVE  /\ chan'[m] \subseteq chan[m]
             /\ IsFiniteSet(chan'[m])
             /\ Cardinality(chan'[m]) <= ChanCap
  <2>1. IsFiniteSet(chan[m]) /\ Cardinality(chan[m]) <= ChanCap
    BY Zenon DEF RaftTypeOK
  <2>2. Cardinality(chan[n]) <= ChanCap
    BY Zenon DEF RaftTypeOK
  <2>3. CASE m = n
    <3>1. chan'[m] = chan[n] \ {i}
      BY Zenon, <1>5, <2>3
    <3> QED BY <1>2, <1>3, <1>4, <2>2, <2>3, <3>1
  <2>4. CASE m # n
    <3>1. chan'[m] = chan[m]
      BY Zenon, <1>5, <2>4
    <3> QED BY Zenon, <2>1, <3>1
  <2> QED BY Zenon, <2>3, <2>4
<1> QED BY Zenon, <1>5, <1>6

\* committedCh keeps its bound when the ready loop applies an entry.
LEMMA ReadyChanType ==
    ASSUME RaftTypeOK, NEW n \in Nodes, ReadyApply(n)
    PROVE  /\ chan' \in [Nodes -> SUBSET Nat]
           /\ \A m \in Nodes : /\ chan'[m] \subseteq 1..applied'[m]
                               /\ IsFiniteSet(chan'[m])
                               /\ Cardinality(chan'[m]) <= ChanCap
<1> DEFINE i == applied[n] + 1
<1>1. /\ chan \in [Nodes -> SUBSET Nat]
      /\ applied \in [Nodes -> Nat]
      /\ \A m \in Nodes : /\ chan[m] \subseteq 1..applied[m]
                          /\ IsFiniteSet(chan[m])
                          /\ Cardinality(chan[m]) <= ChanCap
  BY Zenon DEF RaftTypeOK
<1>2. applied' = [applied EXCEPT ![n] = i]
  BY Zenon DEF ReadyApply
<1>3. CASE chan' = chan
  BY <1>1, <1>2, <1>3
<1>4. CASE /\ Cardinality(chan[n]) < ChanCap
           /\ chan' = [chan EXCEPT ![n] = chan[n] \cup {i}]
  <2>1. IsFiniteSet(chan[n] \cup {i})
    BY Zenon, <1>1, FS_AddElement
  <2>2. Cardinality(chan[n]) \in Nat /\ ChanCap \in Nat
    BY Zenon, <1>1, FS_CardinalityType, EmissionAssumption
  <2>3. Cardinality(chan[n] \cup {i}) <= ChanCap
    <3>1. \/ Cardinality(chan[n] \cup {i}) = Cardinality(chan[n])
          \/ Cardinality(chan[n] \cup {i}) = Cardinality(chan[n]) + 1
      BY Zenon, <1>1, FS_AddElement
    <3> QED BY <1>4, <2>2, <3>1
  <2>4. i \in Nat /\ chan[n] \cup {i} \subseteq 1..i
    BY <1>1
  <2>5. chan' \in [Nodes -> SUBSET Nat]
    BY Zenon, <1>1, <1>4, <2>4
  <2>6. ASSUME NEW m \in Nodes
        PROVE  /\ chan'[m] \subseteq 1..applied'[m]
               /\ IsFiniteSet(chan'[m])
               /\ Cardinality(chan'[m]) <= ChanCap
    <3>1. CASE m = n
      <4>1. chan'[m] = chan[n] \cup {i} /\ applied'[m] = i
        BY Zenon, <1>1, <1>2, <1>4, <3>1
      <4> QED BY Zenon, <2>1, <2>3, <2>4, <4>1
    <3>2. CASE m # n
      <4>1. chan'[m] = chan[m] /\ applied'[m] = applied[m]
        BY Zenon, <1>1, <1>2, <1>4, <3>2
      <4> QED BY Zenon, <1>1, <4>1
    <3> QED BY Zenon, <3>1, <3>2
  <2> QED BY Zenon, <2>5, <2>6
<1> QED BY Zenon, <1>3, <1>4 DEF ReadyApply

\* Types are preserved by every step.
LEMMA TypeStep == TypeOK /\ [Next]_vars => TypeOK'
<1> SUFFICES ASSUME RaftTypeOK, EmissionTypeOK, ClientTypeOK, [Next]_vars
             PROVE  RaftTypeOK' /\ EmissionTypeOK' /\ ClientTypeOK'
  BY Zenon DEF TypeOK
<1> USE SeqType
<1>1. CASE Commit
  <2>1. Head(pend) \in Records /\ Tail(pend) \in Seq(Records)
    BY <1>1 DEF Commit, RaftTypeOK
  <2>2. log' \in Seq(Records) /\ Len(log') = Len(log) + 1
    BY <1>1, <2>1 DEF Commit, RaftTypeOK
  <2>3. RaftTypeOK'
    BY <1>1, <2>1, <2>2 DEF Commit, RaftTypeOK
  <2> QED BY Zenon, <1>1, <2>3 DEF Commit, EmissionTypeOK, ClientTypeOK
<1>2. CASE Publish
  <2>1. leader \in Nodes /\ Propose(leader, "DATA_EVENT", ZeroSeq)
    BY Zenon, <1>2 DEF Publish, RaftTypeOK
  <2>2. pend' \in Seq(Records) /\ nextSeq' \in [Nodes -> Nat]
    BY Zenon, <2>1, ProposeType DEF Ops
  <2>3. RaftTypeOK'
    BY Zenon, <1>2, <2>2 DEF Publish, RaftTypeOK
  <2>4. ClientTypeOK'
    BY <1>2 DEF Publish, ClientTypeOK
  <2> QED BY Zenon, <1>2, <2>3, <2>4 DEF Publish, EmissionTypeOK
<1>3. CASE ClientAck
  <2>1. PICK s \in seen : /\ Propose(leader, "ACK", [epoch |-> 0, idx |-> s.idx])
                          /\ acked' = acked \cup {s}
    BY Zenon, <1>3 DEF ClientAck
  <2>2. leader \in Nodes /\ [epoch |-> 0, idx |-> s.idx] \in EmitSeqs
    BY Zenon, <1>3, <2>1 DEF ClientAck, RaftTypeOK, ClientTypeOK
  <2>3. pend' \in Seq(Records) /\ nextSeq' \in [Nodes -> Nat]
    BY Zenon, <2>1, <2>2, ProposeType DEF Ops
  <2>4. RaftTypeOK'
    BY Zenon, <1>3, <2>3 DEF ClientAck, RaftTypeOK
  <2>5. ClientTypeOK'
    BY <1>3, <2>1 DEF ClientAck, ClientTypeOK
  <2> QED BY Zenon, <1>3, <2>4, <2>5 DEF ClientAck, EmissionTypeOK
<1>4. CASE Disconnect
  <2>1. RaftTypeOK'
    BY Zenon, <1>4 DEF Disconnect, RaftTypeOK
  <2>2. EmissionTypeOK'
    BY Zenon, <1>4 DEF Disconnect, EmissionTypeOK
  <2> QED BY Zenon, <1>4, <2>1, <2>2 DEF Disconnect, ClientTypeOK
<1>5. ASSUME NEW n \in Nodes, Elect(n)
      PROVE  RaftTypeOK' /\ EmissionTypeOK' /\ ClientTypeOK'
  <2>1. pend' \in Seq(Records)
    BY Zenon, <1>5, PrefixType DEF Elect
  <2>2. RaftTypeOK'
    BY Zenon, <1>5, <2>1 DEF Elect, RaftTypeOK
  <2>3. ClientTypeOK'
    BY SMTT(30), <1>5 DEF Elect, ClientTypeOK
  <2> QED BY Zenon, <1>5, <2>2, <2>3 DEF Elect, EmissionTypeOK
<1>6. ASSUME NEW n \in Nodes, ReadyApply(n)
      PROVE  RaftTypeOK' /\ EmissionTypeOK' /\ ClientTypeOK'
  <2> DEFINE i == applied[n] + 1
  <2>1. i \in 1..Len(log) /\ log[i] \in Records
    BY <1>6 DEF ReadyApply, RaftTypeOK
  <2>2. /\ outbox' \in [Nodes -> SUBSET EmitSeqs]
        /\ compact' \in [Nodes -> EmitSeqs]
    BY Zenon, <1>6, <2>1, ApplyOutboxType DEF ReadyApply
  <2>3. EmissionTypeOK'
    BY Zenon, <1>6, <2>2 DEF ReadyApply, EmissionTypeOK
  <2>4. /\ chan' \in [Nodes -> SUBSET Nat]
        /\ \A m \in Nodes : /\ chan'[m] \subseteq 1..applied'[m]
                            /\ IsFiniteSet(chan'[m])
                            /\ Cardinality(chan'[m]) <= ChanCap
    BY Zenon, <1>6, ReadyChanType
  <2>5. /\ applied' \in [Nodes -> Nat]
        /\ wait' \in [Nodes -> Nat]
        /\ \A m \in Nodes : applied'[m] <= Len(log)
    BY <1>6, <2>1 DEF ReadyApply, RaftTypeOK
  <2>6. RaftTypeOK'
    BY Zenon, <1>6, <2>4, <2>5 DEF ReadyApply, RaftTypeOK
  <2> QED BY Zenon, <1>6, <2>3, <2>6 DEF ReadyApply, ClientTypeOK
<1>7. ASSUME NEW n \in Nodes, Applier(n)
      PROVE  RaftTypeOK' /\ EmissionTypeOK' /\ ClientTypeOK'
  <2>1. PICK i \in chan[n] : ApplyDataEvent(n, i) \/ ApplyAgain(n, i) \/ ApplyAck(n, i)
    BY Zenon, <1>7 DEF Applier
  <2>2. i \in Nat /\ log[i] \in Records
    BY Zenon, ChanInLog
  <2>3. /\ chan' \in [Nodes -> SUBSET Nat]
        /\ \A m \in Nodes : /\ chan'[m] \subseteq chan[m]
                            /\ IsFiniteSet(chan'[m])
                            /\ Cardinality(chan'[m]) <= ChanCap
    BY Zenon, <2>1, ReceivesType DEF ApplyDataEvent, ApplyAgain, ApplyAck
  <2>4. ASSUME pend' \in Seq(Records), nextSeq' \in [Nodes -> Nat],
               wait' \in [Nodes -> Nat], UNCHANGED <<log, leader, applied>>
        PROVE  RaftTypeOK'
    BY Zenon, <2>3, <2>4 DEF RaftTypeOK
  <2>5. ASSUME NEW op \in Ops, NEW at \in EmitSeqs, ProposeAndWait(n, op, at)
        PROVE  /\ pend' \in Seq(Records) /\ nextSeq' \in [Nodes -> Nat]
               /\ wait' \in [Nodes -> Nat]
    <3>1. pend' \in Seq(Records) /\ nextSeq' \in [Nodes -> Nat]
      BY Zenon, <2>5, ProposeType DEF ProposeAndWait
    <3>2. wait \in [Nodes -> Nat] /\ nextSeq[n] + 1 \in Nat
      BY DEF RaftTypeOK
    <3>3. wait' = [wait EXCEPT ![n] = nextSeq[n] + 1]
      BY Zenon, <2>5 DEF ProposeAndWait
    <3> QED BY Zenon, <3>1, <3>2, <3>3
  <2>6. ASSUME UNCHANGED <<pend, nextSeq, wait>>
        PROVE  /\ pend' \in Seq(Records) /\ nextSeq' \in [Nodes -> Nat]
               /\ wait' \in [Nodes -> Nat]
    BY Zenon, <2>6 DEF RaftTypeOK
  <2>7. CASE ApplyDataEvent(n, i)
    <3>1. [epoch |-> epoch[n], idx |-> i] \in EmitSeqs /\ "OUTBOX_WRITE" \in Ops
      BY Zenon, <2>2 DEF EmissionTypeOK, Ops
    <3>2. RaftTypeOK'
      BY Zenon, <2>4, <2>5, <2>6, <2>7, <3>1 DEF ApplyDataEvent
    <3>3. EmissionTypeOK'
      BY Zenon, <2>7 DEF ApplyDataEvent, EmissionTypeOK
    <3> QED BY Zenon, <2>7, <3>2, <3>3 DEF ApplyDataEvent, ClientTypeOK
  <2>8. CASE ApplyAgain(n, i)
    <3>1. RaftTypeOK'
      BY Zenon, <2>4, <2>6, <2>8 DEF ApplyAgain
    <3>2. /\ outbox' \in [Nodes -> SUBSET EmitSeqs]
          /\ compact' \in [Nodes -> EmitSeqs]
      BY Zenon, <2>2, <2>8, ApplyOutboxType DEF ApplyAgain
    <3> QED BY Zenon, <2>8, <3>1, <3>2 DEF ApplyAgain, EmissionTypeOK, ClientTypeOK
  <2>9. CASE ApplyAck(n, i)
    <3>1. log[i].at \in EmitSeqs /\ "OUTBOX_PURGE" \in Ops
      BY Zenon, <2>2, RecordFields DEF Ops
    <3>2. RaftTypeOK'
      BY Zenon, <2>4, <2>5, <2>6, <2>9, <3>1 DEF ApplyAck
    <3>3. lastAck' \in [Nodes -> EmitSeqs]
      BY Zenon, <2>9, <3>1 DEF ApplyAck, EmissionTypeOK
    <3>4. EmissionTypeOK'
      BY Zenon, <2>9, <3>3 DEF ApplyAck, EmissionTypeOK
    <3> QED BY Zenon, <2>9, <3>2, <3>4 DEF ApplyAck, ClientTypeOK
  <2> QED BY Zenon, <2>1, <2>7, <2>8, <2>9
<1>8. ASSUME NEW n \in Nodes, Poll(n)
      PROVE  RaftTypeOK' /\ EmissionTypeOK' /\ ClientTypeOK'
  <2>1. EmissionTypeOK'
    BY Zenon, <1>8 DEF Poll, EmissionTypeOK
  <2> QED BY Zenon, <1>8, <2>1 DEF Poll, RaftTypeOK, ClientTypeOK
<1>9. ASSUME NEW n \in Nodes, Send(n)
      PROVE  RaftTypeOK' /\ EmissionTypeOK' /\ ClientTypeOK'
  <2>1. PICK s \in outbox[n] : seen' = seen \cup {s} /\ sent' = [sent EXCEPT ![n] = s]
    BY Zenon, <1>9 DEF Send, Unsent
  <2>2. s \in EmitSeqs
    BY Zenon DEF EmissionTypeOK
  <2>3. EmissionTypeOK'
    BY Zenon, <1>9, <2>1, <2>2 DEF Send, EmissionTypeOK
  <2>4. ClientTypeOK'
    BY Zenon, <1>9, <2>1, <2>2 DEF Send, ClientTypeOK
  <2> QED BY Zenon, <1>9, <2>3, <2>4 DEF Send, RaftTypeOK
<1>10. ASSUME NEW n \in Nodes, Connect(n)
       PROVE  RaftTypeOK' /\ EmissionTypeOK' /\ ClientTypeOK'
  <2>1. ClientTypeOK'
    BY <1>10 DEF Connect, ClientTypeOK
  <2> QED BY Zenon, <1>10, <2>1 DEF Connect, RaftTypeOK, EmissionTypeOK
<1>11. ASSUME NEW n \in Nodes, Restart(n)
       PROVE  RaftTypeOK' /\ EmissionTypeOK' /\ ClientTypeOK'
  <2>1. IsFiniteSet({}) /\ Cardinality({}) = 0 /\ ChanCap \in Nat
    BY Zenon, FS_EmptySet, EmissionAssumption
  <2>2. pend' \in Seq(Records)
    BY Zenon, <1>11, PrefixType DEF Restart, RaftTypeOK
  <2>3. RaftTypeOK'
    BY SMTT(30), <1>11, <2>1, <2>2 DEF Restart, RaftTypeOK
  <2>4. LastStart + counts.restarts + 1 \in Nat
    BY EmissionAssumption DEF ClientTypeOK
  <2>5. EmissionTypeOK'
    BY Zenon, <1>11, <2>4 DEF Restart, EmissionTypeOK
  <2>6. ClientTypeOK'
    BY SMTT(30), <1>11 DEF Restart, ClientTypeOK
  <2> QED BY Zenon, <2>3, <2>5, <2>6
<1>12. CASE UNCHANGED vars
  BY Zenon, <1>12 DEF vars, RaftTypeOK, EmissionTypeOK, ClientTypeOK
<1> QED BY Zenon, <1>1, <1>2, <1>3, <1>4, <1>5, <1>6, <1>7, <1>8, <1>9, <1>10, <1>11, <1>12
        DEF Next

\* Type correctness of the pipeline, committedCh's bound included.
THEOREM EmissionTypeCorrect == Spec => []TypeOK
<1>1. Init => TypeOK
  <2> SUFFICES ASSUME Init PROVE RaftTypeOK /\ EmissionTypeOK /\ ClientTypeOK
    BY Zenon DEF TypeOK
  <2>1. IsFiniteSet({}) /\ Cardinality({}) = 0 /\ ChanCap \in Nat
    BY Zenon, FS_EmptySet, EmissionAssumption
  <2>2. <<>> \in Seq(Records) /\ Len(<<>>) = 0
    OBVIOUS
  <2>3. RaftTypeOK
    BY <2>1, <2>2 DEF Init, RaftTypeOK
  <2>4. StartEpoch \in [Nodes -> Nat]
    BY EmissionAssumption
  <2>5. EmissionTypeOK
    BY Zenon, <2>4, SeqType DEF Init, EmissionTypeOK
  <2> QED BY Zenon, <2>3, <2>5 DEF Init, ClientTypeOK
<1> QED BY <1>1, TypeStep, PTL DEF Spec

-----------------------------------------------------------------------------
(* Safety.  The properties are not inductive: a delivery comes from an     *)
(* outbox entry, that from a committed record, and that from a proposal.   *)
(* SafeRecord says what a record promises, committed or not.               *)

SafeRecord(r, ev, ack) ==
    /\ r.op = "OUTBOX_WRITE" => r.at.idx \in ev
    /\ r.op \in {"ACK", "OUTBOX_PURGE"} => \E s \in ack : s.idx = r.at.idx

SafeRecords ==
    /\ \A i \in 1..Len(log) : SafeRecord(log[i], Events, acked)
    /\ \A i \in 1..Len(pend) : SafeRecord(pend[i], Events, acked)

OutboxCommitted ==
    \A n \in Nodes : \A s \in outbox[n] : \E i \in Writes(Len(log)) : log[i].at = s

SafetyInv == /\ SafeRecords
             /\ OutboxCommitted
             /\ DeliveredWasCommitted
             /\ UnackedStaysPending
             /\ CompactedWasAcked

\* What a step keeps when the log and the acknowledgements only grow.
LEMMA Growth ==
    ASSUME RaftTypeOK, RaftTypeOK', acked \subseteq acked',
           Len(log) <= Len(log'), \A i \in 1..Len(log) : log'[i] = log[i]
    PROVE  /\ Events \subseteq Events'
           /\ \A k \in 0..Len(log) : Writes(k)' = Writes(k)
           /\ Writes(Len(log)) \subseteq Writes(Len(log))'
           /\ \A r : SafeRecord(r, Events, acked) => SafeRecord(r, Events', acked')
<1>1. Len(log) \in Nat /\ Len(log') \in Nat
  BY SMTT(30) DEF RaftTypeOK
<1>2. Events \subseteq Events'
  BY <1>1 DEF Events
<1>3. \A k \in 0..Len(log) : Writes(k)' = Writes(k)
  BY <1>1 DEF Writes
<1>4. Writes(Len(log)) \subseteq Writes(Len(log))'
  BY <1>1 DEF Writes
<1>5. \A r : SafeRecord(r, Events, acked) => SafeRecord(r, Events', acked')
  BY Zenon, <1>2 DEF SafeRecord
<1> QED BY Zenon, <1>2, <1>3, <1>4, <1>5

\* A step that leaves outboxes, deliveries and applied prefixes alone.
LEMMA FrameStep ==
    ASSUME RaftTypeOK, RaftTypeOK', SafetyInv, SafeRecords', acked \subseteq acked',
           Len(log) <= Len(log'), \A i \in 1..Len(log) : log'[i] = log[i],
           UNCHANGED <<applied, outbox, compact, seen>>
    PROVE  SafetyInv'
<1>1. /\ Events \subseteq Events'
      /\ \A k \in 0..Len(log) : Writes(k)' = Writes(k)
      /\ Writes(Len(log)) \subseteq Writes(Len(log))'
  BY Zenon, Growth
<1>2. \A k : Writes(k) \subseteq 1..k
  BY Zenon DEF Writes
<1>3. OutboxCommitted'
  BY Zenon, <1>1, <1>2 DEF SafetyInv, OutboxCommitted, RaftTypeOK
<1>4. DeliveredWasCommitted'
  BY Zenon, <1>1, <1>2 DEF SafetyInv, DeliveredWasCommitted, RaftTypeOK
<1>5. UnackedStaysPending'
  <2> SUFFICES ASSUME NEW n \in Nodes, NEW i \in Writes(applied[n])'
               PROVE  \/ \E s \in acked' : s.idx >= log'[i].at.idx
                      \/ \E t \in outbox'[n] : t.idx = log'[i].at.idx
    BY Zenon DEF UnackedStaysPending
  <2>1. applied[n] \in 0..Len(log)
    BY SMTT(60) DEF RaftTypeOK
  <2>2. i \in Writes(applied[n]) /\ i \in 1..Len(log) /\ log'[i] = log[i]
    BY SMTT(60), <2>1 DEF Writes
  <2> QED BY Zenon, <2>2 DEF SafetyInv, UnackedStaysPending
<1>6. CompactedWasAcked'
  BY Zenon DEF SafetyInv, CompactedWasAcked
<1> QED BY Zenon, <1>3, <1>4, <1>5, <1>6 DEF SafetyInv

\* A safe proposal keeps the records safe.
LEMMA ProposeSafe ==
    ASSUME RaftTypeOK, RaftTypeOK', SafeRecords, acked \subseteq acked', log' = log,
           NEW n \in Nodes, NEW op, NEW at, Propose(n, op, at),
           \A q : SafeRecord([op |-> op, at |-> at, seq |-> q], Events', acked')
    PROVE  SafeRecords'
<1> DEFINE r == [op |-> op, at |-> at, seq |-> nextSeq[n] + 1]
<1>1. \A x : SafeRecord(x, Events, acked) => SafeRecord(x, Events', acked')
  BY SMTT(60), Growth DEF RaftTypeOK
<1>2. pend' = Append(pend, r) /\ pend \in Seq(Records) /\ SafeRecord(r, Events', acked')
  BY Zenon DEF Propose, RaftTypeOK
<1>3. /\ Len(pend') = Len(pend) + 1
      /\ \A i \in 1..Len(pend) : pend'[i] = pend[i]
      /\ pend'[Len(pend) + 1] = r
  BY SMTT(60), <1>2
<1>4. \A i \in 1..Len(pend') : SafeRecord(pend'[i], Events', acked')
  BY <1>1, <1>2, <1>3 DEF SafeRecords
<1>5. \A i \in 1..Len(log) : SafeRecord(log'[i], Events', acked')
  BY Zenon, <1>1 DEF SafeRecords
<1> QED BY Zenon, <1>4, <1>5 DEF SafeRecords

\* Dropping a suffix of the proposals keeps the records safe.
LEMMA PrefixSafe ==
    ASSUME RaftTypeOK, RaftTypeOK', SafeRecords, UNCHANGED <<acked, log>>,
           NEW k \in 0..Len(pend), pend' = SubSeq(pend, 1, k)
    PROVE  SafeRecords'
<1>1. \A x : SafeRecord(x, Events, acked) => SafeRecord(x, Events', acked')
  BY Growth DEF RaftTypeOK
<1>2. Len(pend') = k /\ \A i \in 1..k : pend'[i] = pend[i]
  BY SMTT(60) DEF RaftTypeOK
<1>3. \A i \in 1..Len(pend') : SafeRecord(pend'[i], Events', acked')
  BY <1>1, <1>2 DEF SafeRecords, RaftTypeOK
<1>4. \A i \in 1..Len(log) : SafeRecord(log'[i], Events', acked')
  BY Zenon, <1>1 DEF SafeRecords
<1> QED BY Zenon, <1>3, <1>4 DEF SafeRecords

\* Applying a committed record, for the first or the second time, keeps outbox
\* entries committed, removes only what is acknowledged, and adds what it writes.
LEMMA ApplySafe ==
    ASSUME RaftTypeOK, EmissionTypeOK, ClientTypeOK, SafetyInv, NEW n \in Nodes,
           NEW i \in 1..Len(log), ApplyOutbox(n, log[i]), UNCHANGED <<log, acked>>
    PROVE  /\ OutboxCommitted'
           /\ CompactedWasAcked'
           /\ \A m \in Nodes : \A t \in outbox[m] :
                 \/ \E s \in acked : s.idx >= t.idx
                 \/ \E u \in outbox'[m] : u.idx = t.idx
           /\ log[i].op = "OUTBOX_WRITE" => \E u \in outbox'[n] : u.idx = log[i].at.idx
<1> DEFINE r == log[i]
<1>1. r \in Records /\ SafeRecord(r, Events, acked) /\ outbox \in [Nodes -> SUBSET EmitSeqs]
  BY SMTT(60) DEF RaftTypeOK, EmissionTypeOK, SafetyInv, SafeRecords
<1>2. r.at \in EmitSeqs /\ r.at.idx \in Nat
  BY Zenon, <1>1, RecordFields, SeqType
<1>3. CASE r.op = "OUTBOX_WRITE"
  <2>1. outbox' = [outbox EXCEPT ![n] = OutboxWrite(outbox[n], r.at)] /\ compact' = compact
    BY Zenon, <1>3 DEF ApplyOutbox
  <2>2. i \in Writes(Len(log))
    BY Zenon, <1>3 DEF Writes
  <2>3. OutboxCommitted'
    BY Zenon, <1>1, <2>1, <2>2 DEF SafetyInv, OutboxCommitted, OutboxWrite, Writes
  <2>4. CompactedWasAcked'
    BY Zenon, <2>1 DEF SafetyInv, CompactedWasAcked
  <2>5. \A m \in Nodes : \A t \in outbox[m] : \E u \in outbox'[m] : u.idx = t.idx
    BY Zenon, <1>1, <2>1 DEF OutboxWrite
  <2>6. \E u \in outbox'[n] : u.idx = r.at.idx
    BY Zenon, <1>1, <2>1 DEF OutboxWrite
  <2> QED BY Zenon, <2>3, <2>4, <2>5, <2>6
<1>4. CASE r.op = "OUTBOX_PURGE"
  <2>1. /\ outbox' = [outbox EXCEPT ![n] = OutboxPurge(outbox[n], r.at)]
        /\ compact' = [compact EXCEPT ![n] = r.at]
    BY Zenon, <1>4 DEF ApplyOutbox
  <2>2. PICK s \in acked : s.idx = r.at.idx
    BY Zenon, <1>1, <1>4 DEF SafeRecord
  <2>3. OutboxCommitted'
    BY Zenon, <1>1, <2>1 DEF SafetyInv, OutboxCommitted, OutboxPurge, Writes
  <2>4. CompactedWasAcked'
    BY Zenon, <2>1, <2>2 DEF SafetyInv, CompactedWasAcked, EmissionTypeOK
  <2>5. ASSUME NEW m \in Nodes, NEW t \in outbox[m]
        PROVE  \/ \E q \in acked : q.idx >= t.idx
               \/ \E u \in outbox'[m] : u.idx = t.idx
    <3>1. t.idx \in Nat /\ s.idx \in Nat
      BY Zenon, <1>1, <1>2, <2>2, SeqType
    <3>2. CASE t.idx > r.at.idx
      <4>1. t \in outbox'[m]
        BY Zenon, <1>1, <2>1, <3>2 DEF OutboxPurge
      <4> QED BY Zenon, <4>1
    <3>3. CASE ~(t.idx > r.at.idx)
      BY <1>2, <2>2, <3>1, <3>3
    <3> QED BY Zenon, <3>2, <3>3
  <2> QED BY Zenon, <1>4, <2>3, <2>4, <2>5
<1>5. CASE r.op \notin {"OUTBOX_WRITE", "OUTBOX_PURGE"}
  <2>1. UNCHANGED <<outbox, compact>>
    BY Zenon, <1>5 DEF ApplyOutbox
  <2>2. OutboxCommitted'
    BY Zenon, <2>1 DEF SafetyInv, OutboxCommitted, Writes
  <2> QED BY Zenon, <1>5, <2>1, <2>2 DEF SafetyInv, CompactedWasAcked
<1> QED BY Zenon, <1>3, <1>4, <1>5

\* Every step preserves the safety invariant.
LEMMA SafetyStep == TypeOK /\ TypeOK' /\ SafetyInv /\ [Next]_vars => SafetyInv'
<1> SUFFICES ASSUME RaftTypeOK, EmissionTypeOK, ClientTypeOK, RaftTypeOK', SafetyInv,
                    [Next]_vars
             PROVE  SafetyInv'
  BY Zenon DEF TypeOK
<1>0. SafeRecords /\ Len(log) \in Nat
  BY DEF SafetyInv, RaftTypeOK
<1>1. CASE Commit
  <2>1. /\ log' = Append(log, Head(pend)) /\ pend' = Tail(pend) /\ pend # <<>>
        /\ UNCHANGED <<acked, applied, outbox, compact, seen>>
    BY Zenon, <1>1 DEF Commit
  <2>2. /\ Len(log') = Len(log) + 1
        /\ \A i \in 1..Len(log) : log'[i] = log[i]
        /\ log'[Len(log) + 1] = pend[1]
    BY <2>1 DEF RaftTypeOK
  <2>3. /\ Len(pend') = Len(pend) - 1 /\ Len(pend) \in Nat \ {0}
        /\ \A i \in 1..Len(pend') : pend'[i] = pend[i + 1]
    BY <2>1 DEF RaftTypeOK
  <2>4. \A x : SafeRecord(x, Events, acked) => SafeRecord(x, Events', acked')
    BY <1>0, <2>1, <2>2, Growth
  <2>5. \A i \in 1..Len(log') : SafeRecord(log'[i], Events', acked')
    BY <1>0, <2>2, <2>3, <2>4 DEF SafeRecords
  <2>6. \A i \in 1..Len(pend') : SafeRecord(pend'[i], Events', acked')
    BY <1>0, <2>3, <2>4 DEF SafeRecords
  <2>7. SafeRecords'
    BY Zenon, <2>5, <2>6 DEF SafeRecords
  <2> QED BY <1>0, <2>1, <2>2, <2>7, FrameStep
<1>2. CASE Publish
  <2>1. leader \in Nodes /\ Propose(leader, "DATA_EVENT", ZeroSeq)
    BY Zenon, <1>2 DEF Publish, RaftTypeOK
  <2>2. UNCHANGED <<log, acked, applied, outbox, compact, seen>>
    BY Zenon, <1>2 DEF Publish
  <2>3. \A q : SafeRecord([op |-> "DATA_EVENT", at |-> ZeroSeq, seq |-> q], Events', acked')
    BY Zenon DEF SafeRecord
  <2>4. SafeRecords'
    BY Zenon, <1>0, <2>1, <2>2, <2>3, ProposeSafe
  <2> QED BY <1>0, <2>2, <2>4, FrameStep
<1>3. CASE ClientAck
  <2>1. PICK s \in seen : /\ Propose(leader, "ACK", [epoch |-> 0, idx |-> s.idx])
                          /\ acked' = acked \cup {s}
    BY Zenon, <1>3 DEF ClientAck
  <2>2. leader \in Nodes /\ UNCHANGED <<log, applied, outbox, compact, seen>>
    BY Zenon, <1>3 DEF ClientAck, RaftTypeOK
  <2>3. \A q : SafeRecord([op |-> "ACK", at |-> [epoch |-> 0, idx |-> s.idx], seq |-> q],
                          Events', acked')
    BY Zenon, <2>1 DEF SafeRecord
  <2>4. SafeRecords'
    BY Zenon, <1>0, <2>1, <2>2, <2>3, ProposeSafe
  <2> QED BY <1>0, <2>1, <2>2, <2>4, FrameStep
<1>4. CASE UNCHANGED <<log, pend, acked, applied, outbox, compact, seen>>
  <2>1. SafeRecords'
    BY Zenon, <1>0, <1>4 DEF SafeRecords, Events
  <2> QED BY <1>0, <1>4, <2>1, FrameStep
<1>5. ASSUME NEW n \in Nodes, Elect(n) PROVE SafetyInv'
  <2>1. SafeRecords'
    BY Zenon, <1>0, <1>5, PrefixSafe DEF Elect
  <2> QED BY <1>0, <1>5, <2>1, FrameStep DEF Elect
<1>6. ASSUME NEW n \in Nodes, ReadyApply(n) PROVE SafetyInv'
  <2> DEFINE k == applied[n] + 1
  <2>1. k \in 1..Len(log) /\ ApplyOutbox(n, log[k]) /\ applied' = [applied EXCEPT ![n] = k]
    BY SMTT(60), <1>6 DEF ReadyApply, RaftTypeOK
  <2>2. UNCHANGED <<log, pend, acked, seen>>
    BY Zenon, <1>6 DEF ReadyApply
  <2>3. /\ OutboxCommitted'
        /\ CompactedWasAcked'
        /\ \A m \in Nodes : \A t \in outbox[m] :
              \/ \E s \in acked : s.idx >= t.idx
              \/ \E u \in outbox'[m] : u.idx = t.idx
        /\ log[k].op = "OUTBOX_WRITE" => \E u \in outbox'[n] : u.idx = log[k].at.idx
    BY Zenon, <2>1, <2>2, ApplySafe
  <2>4. SafeRecords'
    BY Zenon, <1>0, <2>2 DEF SafeRecords, Events
  <2>5. DeliveredWasCommitted'
    BY Zenon, <2>2 DEF SafetyInv, DeliveredWasCommitted, Events, Writes
  <2>6. UnackedStaysPending'
    <3> SUFFICES ASSUME NEW m \in Nodes, NEW i \in Writes(applied[m])'
                 PROVE  \/ \E s \in acked : s.idx >= log[i].at.idx
                        \/ \E t \in outbox'[m] : t.idx = log[i].at.idx
      BY Zenon, <2>2 DEF UnackedStaysPending
    <3>1. CASE i \in Writes(applied[m])
      <4>1. \/ \E s \in acked : s.idx >= log[i].at.idx
            \/ \E t \in outbox[m] : t.idx = log[i].at.idx
        BY Zenon, <3>1 DEF SafetyInv, UnackedStaysPending
      <4> QED BY <2>3, <4>1
    <3>2. CASE i \notin Writes(applied[m])
      <4>1. m = n /\ i = k /\ log[k].op = "OUTBOX_WRITE"
        BY SMTT(60), <2>1, <2>2, <3>2 DEF Writes, RaftTypeOK
      <4> QED BY Zenon, <2>3, <4>1
    <3> QED BY Zenon, <3>1, <3>2
  <2> QED BY Zenon, <2>3, <2>4, <2>5, <2>6 DEF SafetyInv
<1>7. ASSUME NEW n \in Nodes, Applier(n) PROVE SafetyInv'
  <2>1. PICK i \in chan[n] : ApplyDataEvent(n, i) \/ ApplyAgain(n, i) \/ ApplyAck(n, i)
    BY Zenon, <1>7 DEF Applier
  <2>2. i \in 1..Len(log) /\ log[i] \in Records
    BY Zenon, ChanInLog
  <2>3. CASE ApplyDataEvent(n, i)
    <3>1. UNCHANGED <<log, acked, applied, outbox, compact, seen>>
      BY Zenon, <2>3 DEF ApplyDataEvent
    <3>2. i \in Events'
      BY Zenon, <2>2, <2>3 DEF ApplyDataEvent, Events
    <3>3. \A q : SafeRecord([op |-> "OUTBOX_WRITE", at |-> [epoch |-> epoch[n], idx |-> i],
                             seq |-> q], Events', acked')
      BY Zenon, <3>2 DEF SafeRecord
    <3>4. CASE Propose(n, "OUTBOX_WRITE", [epoch |-> epoch[n], idx |-> i])
      <4>1. SafeRecords'
        BY Zenon, <1>0, <3>1, <3>3, <3>4, ProposeSafe
      <4> QED BY <1>0, <3>1, <4>1, FrameStep
    <3> QED BY Zenon, <1>4, <2>3, <3>1, <3>4 DEF ApplyDataEvent, ProposeAndWait
  <2>4. CASE ApplyAgain(n, i)
    <3>1. ApplyOutbox(n, log[i]) /\ UNCHANGED <<log, pend, acked, applied, seen>>
      BY Zenon, <2>4 DEF ApplyAgain
    <3>2. /\ OutboxCommitted'
          /\ CompactedWasAcked'
          /\ \A m \in Nodes : \A t \in outbox[m] :
                \/ \E s \in acked : s.idx >= t.idx
                \/ \E u \in outbox'[m] : u.idx = t.idx
      BY Zenon, <2>2, <3>1, ApplySafe
    <3>3. SafeRecords'
      BY Zenon, <1>0, <3>1 DEF SafeRecords, Events
    <3>4. DeliveredWasCommitted'
      BY Zenon, <3>1 DEF SafetyInv, DeliveredWasCommitted, Events, Writes
    <3>5. UnackedStaysPending'
      <4> SUFFICES ASSUME NEW m \in Nodes, NEW j \in Writes(applied[m])
                   PROVE  \/ \E s \in acked : s.idx >= log[j].at.idx
                          \/ \E t \in outbox'[m] : t.idx = log[j].at.idx
        BY Zenon, <3>1 DEF UnackedStaysPending, Writes
      <4>1. \/ \E s \in acked : s.idx >= log[j].at.idx
            \/ \E t \in outbox[m] : t.idx = log[j].at.idx
        BY Zenon DEF SafetyInv, UnackedStaysPending
      <4> QED BY <3>2, <4>1
    <3> QED BY Zenon, <3>2, <3>3, <3>4, <3>5 DEF SafetyInv
  <2>5. CASE ApplyAck(n, i)
    <3>1. UNCHANGED <<log, acked, applied, outbox, compact, seen>>
      BY Zenon, <2>5 DEF ApplyAck
    <3>2. SafeRecord(log[i], Events, acked) /\ log[i].op = "ACK"
      BY Zenon, <1>0, <2>2, <2>5 DEF SafeRecords, ApplyAck
    <3>3. \A q : SafeRecord([op |-> "OUTBOX_PURGE", at |-> log[i].at, seq |-> q],
                            Events', acked')
      BY Zenon, <3>1, <3>2 DEF SafeRecord
    <3>4. CASE Propose(n, "OUTBOX_PURGE", log[i].at)
      <4>1. SafeRecords'
        BY Zenon, <1>0, <3>1, <3>3, <3>4, ProposeSafe
      <4> QED BY <1>0, <3>1, <4>1, FrameStep
    <3> QED BY Zenon, <1>4, <2>5, <3>1, <3>4 DEF ApplyAck, ProposeAndWait
  <2> QED BY Zenon, <2>1, <2>3, <2>4, <2>5
<1>8. ASSUME NEW n \in Nodes, Send(n) PROVE SafetyInv'
  <2>1. PICK s \in outbox[n] : seen' = seen \cup {s}
    BY Zenon, <1>8 DEF Send, Unsent
  <2>2. UNCHANGED <<log, pend, acked, applied, outbox, compact>>
    BY Zenon, <1>8 DEF Send
  <2>3. PICK i \in Writes(Len(log)) : log[i].at = s
    BY Zenon DEF SafetyInv, OutboxCommitted
  <2>4. s.idx \in Events
    BY Zenon, <1>0, <2>3 DEF SafeRecords, SafeRecord, Writes
  <2>5. DeliveredWasCommitted'
    BY ZenonT(40), <2>1, <2>2, <2>3, <2>4 DEF SafetyInv, DeliveredWasCommitted, Events, Writes
  <2>6. SafeRecords' /\ OutboxCommitted'
    BY Zenon, <1>0, <2>2 DEF SafetyInv, SafeRecords, OutboxCommitted, Events, Writes
  <2>7. UnackedStaysPending' /\ CompactedWasAcked'
    BY SMTT(60), <2>2 DEF SafetyInv, UnackedStaysPending, CompactedWasAcked, Writes
  <2> QED BY Zenon, <2>5, <2>6, <2>7 DEF SafetyInv
<1>9. ASSUME NEW n \in Nodes, Restart(n) PROVE SafetyInv'
  <2>1. /\ UNCHANGED <<log, acked, seen>>
        /\ applied' = [applied EXCEPT ![n] = 0]
        /\ outbox' = [outbox EXCEPT ![n] = {}]
        /\ compact' = [compact EXCEPT ![n] = ZeroSeq]
    BY Zenon, <1>9 DEF Restart
  <2>2. SafeRecords'
    <3>1. CASE pend' = pend
      BY Zenon, <1>0, <2>1, <3>1 DEF SafeRecords, Events
    <3>2. ASSUME NEW k \in 0..Len(pend), pend' = SubSeq(pend, 1, k) PROVE SafeRecords'
      BY Zenon, <1>0, <2>1, <3>2, PrefixSafe
    <3> QED BY Zenon, <1>9, <3>1, <3>2 DEF Restart
  <2>3. OutboxCommitted'
    BY Zenon, <2>1 DEF SafetyInv, OutboxCommitted, Writes, EmissionTypeOK
  <2>4. DeliveredWasCommitted'
    BY Zenon, <2>1 DEF SafetyInv, DeliveredWasCommitted, Events, Writes
  <2>5. UnackedStaysPending'
    <3> SUFFICES ASSUME NEW m \in Nodes, NEW i \in Writes(applied[m])'
                 PROVE  \/ \E s \in acked : s.idx >= log[i].at.idx
                        \/ \E t \in outbox'[m] : t.idx = log[i].at.idx
      BY SMTT(60), <2>1 DEF UnackedStaysPending
    <3>1. m # n
      BY SMTT(60), <2>1 DEF Writes, RaftTypeOK
    <3>2. outbox'[m] = outbox[m] /\ i \in Writes(applied[m])
      BY Zenon, <2>1, <3>1 DEF Writes, RaftTypeOK, EmissionTypeOK
    <3> QED BY Zenon, <3>2 DEF SafetyInv, UnackedStaysPending
  <2>6. CompactedWasAcked'
    BY Zenon, <2>1 DEF SafetyInv, CompactedWasAcked, EmissionTypeOK, ZeroSeq
  <2> QED BY Zenon, <2>2, <2>3, <2>4, <2>5, <2>6 DEF SafetyInv
<1>10. CASE Disconnect \/ (\E n \in Nodes : Poll(n) \/ Connect(n)) \/ UNCHANGED vars
  BY Zenon, <1>4, <1>10 DEF Disconnect, Poll, Connect, vars
<1> QED BY Zenon, <1>1, <1>2, <1>3, <1>5, <1>6, <1>7, <1>8, <1>9, <1>10 DEF Next

LEMMA SafetyHolds == Spec => []SafetyInv
<1>1. Init => SafetyInv
  BY SMTT(60) DEF Init, SafetyInv, SafeRecords, OutboxCommitted, DeliveredWasCommitted,
         UnackedStaysPending, CompactedWasAcked, Writes, ZeroSeq
<1> QED BY <1>1, SafetyStep, EmissionTypeCorrect, PTL DEF Spec

\* Under every failover and restart, a delivery is a committed outbox entry of a
\* committed event.
THEOREM NoInventedDelivery == Spec => []DeliveredWasCommitted
<1>1. SafetyInv => DeliveredWasCommitted
  BY Zenon DEF SafetyInv
<1> QED BY <1>1, SafetyHolds, PTL

\* Under every failover and restart, and although every record is applied twice,
\* only an acknowledgement removes a pending entry.
THEOREM OnlyAckRemoves == Spec => []UnackedStaysPending
<1>1. SafetyInv => UnackedStaysPending
  BY Zenon DEF SafetyInv
<1> QED BY <1>1, SafetyHolds, PTL

\* No replica claims to have compacted what was not acknowledged.
THEOREM CompactionAcked == Spec => []CompactedWasAcked
<1>1. SafetyInv => CompactedWasAcked
  BY Zenon DEF SafetyInv
<1> QED BY <1>1, SafetyHolds, PTL

-----------------------------------------------------------------------------
(* Refinement of Delivery.                                                 *)

AckedWasSeen == acked \subseteq seen

LEMMA AckedWasSeenHolds == Spec => []AckedWasSeen
<1>1. Init => AckedWasSeen
  BY Zenon DEF Init, AckedWasSeen
<1>2. AckedWasSeen /\ [Next]_vars => AckedWasSeen'
  BY ZenonT(40) DEF AckedWasSeen, Next, vars, Commit, Publish, ClientAck, Disconnect, Elect,
         ReadyApply, Applier, ApplyDataEvent, ApplyAgain, ApplyAck, Poll, Send,
         Connect, Restart
<1> QED BY <1>1, <1>2, PTL DEF Spec

\* A committed purge names a committed event.
LEMMA PurgeInLog ==
    ASSUME RaftTypeOK, SafetyInv, AckedWasSeen, NEW r, SafeRecord(r, Events, acked),
           r.op = "OUTBOX_PURGE"
    PROVE  r.at.idx \in Events /\ r.at.idx \in {s.idx : s \in acked}
BY Zenon DEF SafetyInv, AckedWasSeen, SafeRecord, DeliveredWasCommitted

LEMMA DeliveryStep ==
    TypeOK /\ SafetyInv /\ AckedWasSeen /\ [Next]_vars => [Contract!Next]_(Contract!vars)
<1> SUFFICES ASSUME RaftTypeOK, ClientTypeOK, SafetyInv, AckedWasSeen, [Next]_vars
             PROVE  Contract!Next \/ UNCHANGED Contract!vars
  BY Zenon DEF TypeOK
<1>0. Len(log) \in Nat /\ log \in Seq(Records) /\ SafeRecords
  BY DEF RaftTypeOK, SafetyInv
<1>1. CASE Commit
  <2> DEFINE k == Len(log) + 1
             r == pend[1]
  <2>1. /\ Len(log') = k
        /\ \A i \in 1..Len(log) : log'[i] = log[i]
        /\ log'[k] = r
        /\ UNCHANGED <<seen, acked>>
    BY SMTT(60), <1>0, <1>1 DEF Commit, RaftTypeOK
  <2>2. SafeRecord(r, Events, acked) /\ r \in Records
    BY <1>0, <1>1 DEF SafeRecords, Commit, RaftTypeOK
  <2>3. Events' = Events \cup {i \in {k} : r.op = "DATA_EVENT"}
    BY <1>0, <2>1 DEF Events
  <2>4. \A j \in 1..Len(log) : log[j].op = "OUTBOX_PURGE" => log[j].at.idx \in Events
    BY Zenon, <1>0, PurgeInLog DEF SafeRecords
  <2>5. Events \subseteq 1..Len(log)
    BY Zenon DEF Events
  <2>6. CASE r.op = "DATA_EVENT"
    <3>1. Events' = Events \cup {k} /\ k \notin Events /\ \A j \in Events : j < k
      BY <1>0, <2>3, <2>5, <2>6
    <3>2. Released' = Released
      <4>1. ASSUME NEW i \in Released' PROVE i \in Released
        <5>1. PICK j \in 1..k : log'[j].op = "OUTBOX_PURGE" /\ log'[j].at.idx >= i
          BY Zenon, <2>1, <4>1 DEF Released
        <5>2. j \in 1..Len(log) /\ log'[j] = log[j]
          BY SMTT(60), <1>0, <2>1, <2>6, <5>1
        <5>3. i \in Events' /\ log[j].at.idx \in Events
          BY Zenon, <2>4, <4>1, <5>1, <5>2 DEF Released
        <5>4. log[j].at.idx >= i /\ log[j].at.idx \in 1..Len(log) /\ i \in Events \cup {k}
          BY Zenon, <2>5, <3>1, <5>1, <5>2, <5>3
        <5>5. i \in Events
          BY <1>0, <2>5, <5>4
        <5> QED BY Zenon, <5>1, <5>2, <5>5 DEF Released
      <4>2. ASSUME NEW i \in Released PROVE i \in Released'
        <5>1. PICK j \in 1..Len(log) : log[j].op = "OUTBOX_PURGE" /\ log[j].at.idx >= i
          BY Zenon, <4>2 DEF Released
        <5>2. j \in 1..Len(log') /\ log'[j] = log[j]
          BY <1>0, <2>1, <5>1
        <5> QED BY Zenon, <3>1, <4>2, <5>1, <5>2 DEF Released
      <4> QED BY Zenon, <4>1, <4>2
    <3>3. Contract!Produce
      BY Zenon, <2>1, <3>1, <3>2 DEF Contract!Produce
    <3> QED BY Zenon, <3>3 DEF Contract!Next
  <2>7. CASE r.op = "OUTBOX_PURGE"
    <3>1. Events' = Events
      BY Zenon, <2>3, <2>7
    <3>2. r.at.idx \in {s.idx : s \in acked} /\ r.at.idx \in Nat
      BY Zenon, <2>2, <2>7, PurgeInLog, RecordFields, SeqType
    <3>3. Released' = Released \cup {j \in Events : j <= r.at.idx}
      BY SMTT(60), <1>0, <2>1, <2>5, <2>7, <3>1, <3>2 DEF Released
    <3>4. Contract!Release
      BY Zenon, <2>1, <3>1, <3>2, <3>3 DEF Contract!Release
    <3> QED BY Zenon, <3>4 DEF Contract!Next
  <2>8. CASE r.op \notin {"DATA_EVENT", "OUTBOX_PURGE"}
    <3>1. Events' = Events
      BY Zenon, <2>3, <2>8
    <3>2. Released' = Released
      BY <1>0, <2>1, <2>8, <3>1 DEF Released
    <3> QED BY Zenon, <2>1, <3>1, <3>2 DEF Contract!vars
  <2> QED BY Zenon, <2>6, <2>7, <2>8
<1>2. CASE UNCHANGED <<log, seen, acked>>
  BY Zenon, <1>2 DEF Contract!vars, Events, Released
<1>3. CASE ClientAck
  <2>1. PICK s \in seen : acked' = acked \cup {s} /\ UNCHANGED <<log, seen>>
    BY Zenon, <1>3 DEF ClientAck
  <2>2. {q.idx : q \in acked'} = {q.idx : q \in acked} \cup {s.idx}
    BY Zenon, <2>1
  <2>3. Contract!Acknowledge
    BY Zenon, <2>1, <2>2 DEF Contract!Acknowledge, Events, Released
  <2> QED BY Zenon, <2>3 DEF Contract!Next
<1>4. ASSUME NEW n \in Nodes, Send(n) PROVE Contract!Next
  <2>1. PICK s \in outbox[n] : seen' = seen \cup {s} /\ UNCHANGED <<log, acked>>
    BY Zenon, <1>4 DEF Send, Unsent
  <2>2. {q.idx : q \in seen'} = {q.idx : q \in seen} \cup {s.idx}
    BY Zenon, <2>1
  <2>3. PICK i \in Writes(Len(log)) : log[i].at = s
    BY Zenon DEF SafetyInv, OutboxCommitted
  <2>4. s.idx \in Events
    BY Zenon, <1>0, <2>3 DEF SafeRecords, SafeRecord, Writes
  <2>5. Contract!Deliver
    BY Zenon, <2>1, <2>2, <2>4 DEF Contract!Deliver, Events, Released
  <2> QED BY Zenon, <2>5 DEF Contract!Next
<1>5. CASE Publish \/ Disconnect \/ UNCHANGED vars
  BY Zenon, <1>2, <1>5 DEF Publish, Disconnect, vars
<1>6. ASSUME NEW n \in Nodes,
             Elect(n) \/ ReadyApply(n) \/ Applier(n) \/ Poll(n) \/ Connect(n) \/ Restart(n)
      PROVE  UNCHANGED <<log, seen, acked>>
  BY Zenon, <1>6 DEF Elect, ReadyApply, Applier, ApplyDataEvent, ApplyAgain, ApplyAck, Poll,
              Connect, Restart
<1> QED BY Zenon, <1>1, <1>2, <1>3, <1>4, <1>5, <1>6 DEF Next

\* The pipeline implements the abstract delivery contract.
THEOREM EmissionImplementsDelivery == Spec => ImplementsDelivery
<1>1. Init => Contract!Init
  BY SMTT(60) DEF Init, Contract!Init, Events, Released
<1> QED BY <1>1, DeliveryStep, EmissionTypeCorrect, SafetyHolds, AckedWasSeenHolds, PTL
        DEF Spec, ImplementsDelivery, Contract!Spec

-----------------------------------------------------------------------------
(* The second application of every record.                                 *)

\* Record r writes or purges the entry of event x.
Touches(r, x) == \/ r.op = "OUTBOX_WRITE" /\ r.at.idx = x
                 \/ r.op = "OUTBOX_PURGE" /\ r.at.idx >= x

\* The first k records, applied once in order, leave entry t.
Replayed(t, k) ==
    \E i \in Writes(k) : log[i].at = t /\ \A j \in i+1..k : ~Touches(log[j], t.idx)

\* committedCh holds the last records applied, without a gap.
Lagging(n) == \A i \in chan[n] : i..applied[n] \subseteq chan[n]

\* An entry that no record in committedCh touches is as one application leaves it.
Settled(n) ==
    \A t \in EmitSeqs : (\A j \in chan[n] : ~Touches(log[j], t.idx))
                            => (t \in outbox[n] <=> Replayed(t, applied[n]))

OutboxApplied(n) == \A t \in outbox[n] : \E i \in Writes(applied[n]) : log[i].at = t

SettledInv ==
    \A n \in Nodes : OutboxApplied(n) /\ (n \notin drops => Lagging(n) /\ Settled(n))

LEMMA LogTypes ==
    ASSUME RaftTypeOK, NEW n \in Nodes
    PROVE  /\ applied[n] \in 0..Len(log) /\ chan[n] \subseteq 1..applied[n]
           /\ Len(log) \in Nat
           /\ \A i \in 1..Len(log) : log[i] \in Records /\ log[i].at \in EmitSeqs
                                     /\ log[i].at.idx \in Nat
<1>1. /\ log \in Seq(Records) /\ applied[n] \in Nat /\ applied[n] <= Len(log)
      /\ chan[n] \subseteq 1..applied[n]
  BY Zenon DEF RaftTypeOK
<1>2. Len(log) \in Nat /\ \A i \in 1..Len(log) : log[i] \in Records
  BY <1>1
<1> QED BY <1>1, <1>2, RecordFields, SeqType

\* What the application of a record does to one entry.
LEMMA ApplyEffect ==
    ASSUME EmissionTypeOK, NEW n \in Nodes, NEW r \in Records, ApplyOutbox(n, r),
           NEW t \in EmitSeqs
    PROVE  /\ \A m \in Nodes \ {n} : outbox'[m] = outbox[m]
           /\ ~Touches(r, t.idx) => (t \in outbox'[n] <=> t \in outbox[n])
           /\ Touches(r, t.idx) =>
                (t \in outbox'[n] <=> r.op = "OUTBOX_WRITE" /\ r.at = t)
<1>1. outbox \in [Nodes -> SUBSET EmitSeqs] /\ r.at.idx \in Nat /\ t.idx \in Nat
  BY Zenon, RecordFields, SeqType DEF EmissionTypeOK
<1>2. CASE r.op = "OUTBOX_WRITE"
  <2>1. outbox' = [outbox EXCEPT ![n] = OutboxWrite(outbox[n], r.at)]
    BY Zenon, <1>2 DEF ApplyOutbox
  <2>2. outbox'[n] = {u \in outbox[n] : u.idx # r.at.idx} \cup {r.at}
    BY Zenon, <1>1, <2>1 DEF OutboxWrite
  <2>3. Touches(r, t.idx) <=> r.at.idx = t.idx
    BY Zenon, <1>2 DEF Touches
  <2> QED BY Zenon, <1>1, <1>2, <2>1, <2>2, <2>3
<1>3. CASE r.op = "OUTBOX_PURGE"
  <2>1. outbox' = [outbox EXCEPT ![n] = OutboxPurge(outbox[n], r.at)]
    BY Zenon, <1>3 DEF ApplyOutbox
  <2>2. outbox'[n] = {u \in outbox[n] : u.idx > r.at.idx}
    BY Zenon, <1>1, <2>1 DEF OutboxPurge
  <2>3. Touches(r, t.idx) <=> r.at.idx >= t.idx
    BY Zenon, <1>3 DEF Touches
  <2> QED BY <1>1, <1>3, <2>1, <2>2, <2>3
<1>4. CASE r.op \notin {"OUTBOX_WRITE", "OUTBOX_PURGE"}
  <2>1. outbox' = outbox
    BY Zenon, <1>4 DEF ApplyOutbox
  <2> QED BY Zenon, <1>4, <2>1 DEF Touches
<1> QED BY Zenon, <1>2, <1>3, <1>4

\* The last record that touches an entry decides.
LEMMA LastDecides ==
    ASSUME RaftTypeOK, NEW k \in 0..Len(log), NEW i \in 1..k, NEW t \in EmitSeqs,
           Touches(log[i], t.idx), \A j \in i+1..k : ~Touches(log[j], t.idx)
    PROVE  Replayed(t, k) <=> log[i].op = "OUTBOX_WRITE" /\ log[i].at = t
<1>1. k \in Nat /\ i \in Nat
  BY DEF RaftTypeOK
<1>2. ASSUME log[i].op = "OUTBOX_WRITE", log[i].at = t PROVE Replayed(t, k)
  BY Zenon, <1>2 DEF Replayed, Writes
<1>3. ASSUME Replayed(t, k) PROVE log[i].op = "OUTBOX_WRITE" /\ log[i].at = t
  <2>1. PICK w \in Writes(k) : log[w].at = t /\ \A j \in w+1..k : ~Touches(log[j], t.idx)
    BY Zenon, <1>3 DEF Replayed
  <2>2. w \in 1..k /\ log[w].op = "OUTBOX_WRITE" /\ Touches(log[w], t.idx)
    BY Zenon, <2>1 DEF Writes, Touches
  <2>3. w = i
    BY <1>1, <2>1, <2>2
  <2> QED BY Zenon, <2>1, <2>2, <2>3
<1> QED BY Zenon, <1>2, <1>3

\* A record that does not touch an entry changes nothing for it.
LEMMA UntouchedNext ==
    ASSUME NEW k \in Nat, NEW t \in EmitSeqs, ~Touches(log[k + 1], t.idx)
    PROVE  Replayed(t, k + 1) <=> Replayed(t, k)
<1>1. ASSUME Replayed(t, k) PROVE Replayed(t, k + 1)
  <2>1. PICK w \in Writes(k) : log[w].at = t /\ \A j \in w+1..k : ~Touches(log[j], t.idx)
    BY Zenon, <1>1 DEF Replayed
  <2>2. w \in Writes(k + 1) /\ \A j \in w+1..k+1 : j = k + 1 \/ j \in w+1..k
    BY DEF Writes
  <2> QED BY Zenon, <2>1, <2>2 DEF Replayed
<1>2. ASSUME Replayed(t, k + 1) PROVE Replayed(t, k)
  <2>1. PICK w \in Writes(k + 1) :
            log[w].at = t /\ \A j \in w+1..k+1 : ~Touches(log[j], t.idx)
    BY Zenon, <1>2 DEF Replayed
  <2>2. w # k + 1
    BY Zenon, <2>1 DEF Writes, Touches
  <2>3. w \in Writes(k) /\ \A j \in w+1..k : j \in w+1..k+1
    BY <2>2 DEF Writes
  <2> QED BY Zenon, <2>1, <2>3 DEF Replayed
<1> QED BY Zenon, <1>1, <1>2

\* A node that a step leaves alone stays settled, whatever the log gains.
LEMMA SettledFrame ==
    ASSUME RaftTypeOK, NEW n \in Nodes, Len(log) <= Len(log'),
           \A i \in 1..Len(log) : log'[i] = log[i],
           outbox'[n] = outbox[n], applied'[n] = applied[n], chan'[n] = chan[n]
    PROVE  /\ OutboxApplied(n) => OutboxApplied(n)'
           /\ Lagging(n) => Lagging(n)'
           /\ Settled(n) => Settled(n)'
<1>1. /\ applied[n] \in 0..Len(log) /\ chan[n] \subseteq 1..applied[n]
      /\ Len(log) \in Nat
  BY Zenon, LogTypes
<1>2. \A i \in 1..applied[n] : log'[i] = log[i]
  BY <1>1
<1>3. Writes(applied[n])' = Writes(applied[n]) /\ Writes(applied[n]) \subseteq 1..applied[n]
  BY Zenon, <1>2 DEF Writes
<1>4. ASSUME NEW t \in EmitSeqs PROVE Replayed(t, applied[n])' = Replayed(t, applied[n])
  <2>1. \A i \in Writes(applied[n]) : \A j \in i+1..applied[n] : log'[j] = log[j]
    BY <1>1, <1>2, <1>3
  <2> QED BY ZenonT(40), <1>2, <1>3, <2>1 DEF Replayed
<1>5. \A j \in chan[n] : log'[j] = log[j]
  BY Zenon, <1>1, <1>2
<1>6. Settled(n) => Settled(n)'
  BY Zenon, <1>4, <1>5 DEF Settled
<1> QED BY Zenon, <1>2, <1>3, <1>6 DEF OutboxApplied, Lagging

\* The ready loop applies a record and hands it to the Applier.
LEMMA ReadySettled ==
    ASSUME RaftTypeOK, EmissionTypeOK, SettledInv, NEW n \in Nodes, ReadyApply(n)
    PROVE  OutboxApplied(n)' /\ (n \notin drops' => Lagging(n)' /\ Settled(n)')
<1>0. PICK k \in Nat : k = applied[n]
  BY LogTypes
<1>1. /\ k + 1 \in 1..Len(log) /\ log[k + 1] \in Records /\ Len(log) \in Nat
      /\ ApplyOutbox(n, log[k + 1])
  BY <1>0, LogTypes DEF ReadyApply
<1>2. applied'[n] = k + 1 /\ log' = log
  BY Zenon, <1>0 DEF ReadyApply, RaftTypeOK
<1>3. OutboxApplied(n)'
  <2> SUFFICES ASSUME NEW t \in outbox'[n]
               PROVE  \E i \in Writes(k + 1) : log[i].at = t
    BY Zenon, <1>2 DEF OutboxApplied, Writes
  <2>1. t \in EmitSeqs
    BY Zenon, <1>1, ApplyOutboxType
  <2>2. CASE Touches(log[k + 1], t.idx)
    BY <1>1, <2>1, <2>2, ApplyEffect DEF Writes
  <2>3. CASE ~Touches(log[k + 1], t.idx)
    <3>1. PICK i \in Writes(k) : log[i].at = t
      BY Zenon, <1>0, <1>1, <2>1, <2>3, ApplyEffect DEF SettledInv, OutboxApplied
    <3> QED BY <3>1 DEF Writes
  <2> QED BY Zenon, <2>2, <2>3
<1>4. ASSUME n \notin drops' PROVE Lagging(n)' /\ Settled(n)'
  <2>1. n \notin drops /\ chan'[n] = chan[n] \cup {k + 1}
    BY Zenon, <1>0, <1>4 DEF ReadyApply, RaftTypeOK
  <2>2. Lagging(n) /\ Settled(n) /\ chan[n] \subseteq 1..k
    BY Zenon, <1>0, <2>1, LogTypes DEF SettledInv
  <2>3. Lagging(n)'
    <3> SUFFICES ASSUME NEW i \in chan'[n], NEW j \in i..k+1
                 PROVE  j \in chan'[n]
      BY Zenon, <1>2 DEF Lagging
    <3>1. CASE j = k + 1
      BY Zenon, <2>1, <3>1
    <3>2. CASE j # k + 1
      <4>1. i \in chan[n] /\ j \in i..k
        BY <2>1, <2>2, <3>2
      <4> QED BY Zenon, <1>0, <2>1, <2>2, <4>1 DEF Lagging
    <3> QED BY Zenon, <3>1, <3>2
  <2>4. Settled(n)'
    <3> SUFFICES ASSUME NEW t \in EmitSeqs, \A j \in chan'[n] : ~Touches(log[j], t.idx)
                 PROVE  t \in outbox'[n] <=> Replayed(t, k + 1)
      BY Zenon, <1>2 DEF Settled, Replayed, Writes
    <3>1. ~Touches(log[k + 1], t.idx) /\ \A j \in chan[n] : ~Touches(log[j], t.idx)
      BY Zenon, <2>1
    <3>2. t \in outbox'[n] <=> t \in outbox[n]
      BY Zenon, <1>1, <3>1, ApplyEffect
    <3>3. Replayed(t, k + 1) <=> Replayed(t, k)
      BY Zenon, <3>1, UntouchedNext
    <3> QED BY Zenon, <1>0, <2>2, <3>1, <3>2, <3>3 DEF Settled
  <2> QED BY Zenon, <2>3, <2>4
<1> QED BY Zenon, <1>3, <1>4

\* The Applier takes the oldest record of committedCh.
LEMMA ApplierSettled ==
    ASSUME RaftTypeOK, EmissionTypeOK, SettledInv, NEW n \in Nodes, Applier(n)
    PROVE  /\ OutboxApplied(n)' /\ (n \notin drops' => Lagging(n)' /\ Settled(n)')
           /\ \A m \in Nodes \ {n} : outbox'[m] = outbox[m] /\ chan'[m] = chan[m]
           /\ UNCHANGED <<log, applied, drops>>
<1>1. PICK i \in chan[n] : ApplyDataEvent(n, i) \/ ApplyAgain(n, i) \/ ApplyAck(n, i)
  BY Zenon DEF Applier
<1>2. PICK k \in Nat : k = applied[n]
  BY LogTypes
<1>3. /\ i \in 1..k /\ k \in 0..Len(log) /\ log[i] \in Records
      /\ Len(log) \in Nat /\ chan[n] \subseteq 1..k
  BY <1>2, LogTypes
<1>4. UNCHANGED <<log, applied, drops>> /\ Receives(n, i)
  BY Zenon, <1>1 DEF ApplyDataEvent, ApplyAgain, ApplyAck
<1>5. /\ chan'[n] = chan[n] \ {i} /\ \A m \in Nodes \ {n} : chan'[m] = chan[m]
      /\ \A j \in chan[n] : i <= j
  BY Zenon, <1>4 DEF Receives, RaftTypeOK
<1>6. \/ ApplyOutbox(n, log[i])
      \/ outbox' = outbox /\ \A x : ~Touches(log[i], x)
  BY Zenon, <1>1 DEF ApplyDataEvent, ApplyAgain, ApplyAck, Touches
<1>7. ASSUME NEW t \in EmitSeqs
      PROVE  /\ ~Touches(log[i], t.idx) => (t \in outbox'[n] <=> t \in outbox[n])
             /\ Touches(log[i], t.idx) =>
                  (t \in outbox'[n] <=> log[i].op = "OUTBOX_WRITE" /\ log[i].at = t)
  BY ZenonT(40), <1>3, <1>6, ApplyEffect
<1>8. \A m \in Nodes \ {n} : outbox'[m] = outbox[m]
  BY Zenon, <1>3, <1>6, ApplyEffect, SeqType
<1>9. OutboxApplied(n)'
  <2> SUFFICES ASSUME NEW t \in outbox'[n]
               PROVE  \E w \in Writes(k) : log[w].at = t
    BY Zenon, <1>2, <1>4 DEF OutboxApplied, Writes
  <2>1. t \in EmitSeqs
    BY Zenon, <1>3, <1>6, ApplyOutboxType DEF EmissionTypeOK
  <2>2. CASE Touches(log[i], t.idx)
    BY Zenon, <1>3, <1>7, <2>1, <2>2 DEF Writes
  <2>3. CASE ~Touches(log[i], t.idx)
    BY Zenon, <1>2, <1>7, <2>1, <2>3 DEF SettledInv, OutboxApplied
  <2> QED BY Zenon, <2>2, <2>3
<1>10. ASSUME n \notin drops' PROVE Lagging(n)' /\ Settled(n)'
  <2>1. Lagging(n) /\ Settled(n)
    BY Zenon, <1>4, <1>10 DEF SettledInv
  <2>2. \A a \in chan[n] : a..k \subseteq chan[n]
    BY Zenon, <1>2, <2>1 DEF Lagging
  <2>3. Lagging(n)'
    <3> SUFFICES ASSUME NEW a \in chan'[n], NEW j \in a..k
                 PROVE  j \in chan'[n]
      BY Zenon, <1>2, <1>4 DEF Lagging
    <3>1. j \in chan[n] /\ a \in Nat /\ a > i
      BY <1>3, <1>5, <2>2
    <3> QED BY <1>3, <1>5, <3>1
  <2>4. Settled(n)'
    <3> SUFFICES ASSUME NEW t \in EmitSeqs, \A j \in chan'[n] : ~Touches(log[j], t.idx)
                 PROVE  t \in outbox'[n] <=> Replayed(t, k)
      BY Zenon, <1>2, <1>4 DEF Settled, Replayed, Writes
    <3>1. CASE ~Touches(log[i], t.idx)
      <4>1. \A j \in chan[n] : ~Touches(log[j], t.idx)
        BY Zenon, <1>5, <3>1
      <4> QED BY Zenon, <1>2, <1>7, <2>1, <3>1, <4>1 DEF Settled
    <3>2. CASE Touches(log[i], t.idx)
      <4>1. \A j \in i+1..k : j \in chan'[n]
        BY <1>3, <1>5, <2>2
      <4>2. Replayed(t, k) <=> log[i].op = "OUTBOX_WRITE" /\ log[i].at = t
        BY Zenon, <1>3, <3>2, <4>1, LastDecides
      <4> QED BY Zenon, <1>7, <3>2, <4>2
    <3> QED BY Zenon, <3>1, <3>2
  <2> QED BY Zenon, <2>3, <2>4
<1> QED BY Zenon, <1>4, <1>5, <1>8, <1>9, <1>10

LEMMA SettledStep == TypeOK /\ SettledInv /\ [Next]_vars => SettledInv'
<1> SUFFICES ASSUME RaftTypeOK, EmissionTypeOK, SettledInv, [Next]_vars,
                    NEW m \in Nodes
             PROVE  OutboxApplied(m)' /\ (m \notin drops' => Lagging(m)' /\ Settled(m)')
  BY Zenon DEF TypeOK, SettledInv
<1>0. OutboxApplied(m) /\ (m \notin drops => Lagging(m) /\ Settled(m))
  BY Zenon DEF SettledInv
<1>1. ASSUME Len(log) <= Len(log'), \A i \in 1..Len(log) : log'[i] = log[i],
             outbox'[m] = outbox[m], applied'[m] = applied[m], chan'[m] = chan[m],
             m \notin drops' => m \notin drops
      PROVE  OutboxApplied(m)' /\ (m \notin drops' => Lagging(m)' /\ Settled(m)')
  BY Zenon, <1>0, <1>1, SettledFrame
<1>2. Len(log) \in Nat
  BY Zenon, LogTypes
<1>3. CASE Commit
  <2>1. Len(log') = Len(log) + 1 /\ \A i \in 1..Len(log) : log'[i] = log[i]
    BY <1>3 DEF Commit, RaftTypeOK
  <2> QED BY <1>1, <1>2, <1>3, <2>1 DEF Commit
<1>4. CASE UNCHANGED <<log, applied, chan, outbox, drops>>
  BY <1>1, <1>2, <1>4
<1>5. ASSUME NEW n \in Nodes, ReadyApply(n)
      PROVE  OutboxApplied(m)' /\ (m \notin drops' => Lagging(m)' /\ Settled(m)')
  <2>1. CASE m = n
    BY Zenon, <1>5, <2>1, ReadySettled
  <2>2. CASE m # n
    <3>1. log' = log /\ applied'[m] = applied[m] /\ chan'[m] = chan[m]
      BY Zenon, <1>5, <2>2 DEF ReadyApply, RaftTypeOK
    <3>2. outbox'[m] = outbox[m]
      <4>1. PICK r : r = log[applied[n] + 1] /\ ApplyOutbox(n, r)
        BY Zenon, <1>5 DEF ReadyApply
      <4>2. applied[n] + 1 \in 1..Len(log)
        BY <1>5, LogTypes DEF ReadyApply
      <4>3. r \in Records /\ r.at \in EmitSeqs
        BY Zenon, <4>1, <4>2, LogTypes
      <4>4. EmissionTypeOK
        BY Zenon DEF TypeOK
      <4> QED BY Zenon, <2>2, <4>1, <4>3, <4>4, ApplyEffect
    <3>3. m \notin drops' => m \notin drops
      BY Zenon, <1>5 DEF ReadyApply
    <3> QED BY <1>1, <1>2, <3>1, <3>2, <3>3
  <2> QED BY Zenon, <2>1, <2>2
<1>6. ASSUME NEW n \in Nodes, Applier(n)
      PROVE  OutboxApplied(m)' /\ (m \notin drops' => Lagging(m)' /\ Settled(m)')
  BY <1>1, <1>2, <1>6, ApplierSettled
<1>7. ASSUME NEW n \in Nodes, Restart(n)
      PROVE  OutboxApplied(m)' /\ (m \notin drops' => Lagging(m)' /\ Settled(m)')
  <2>1. CASE m = n
    <3>1. applied'[m] = 0 /\ chan'[m] = {} /\ outbox'[m] = {}
      BY Zenon, <1>7, <2>1 DEF Restart, RaftTypeOK, EmissionTypeOK
    <3>2. \A t : ~Replayed(t, 0)'
      BY DEF Replayed, Writes
    <3> QED BY Zenon, <3>1, <3>2 DEF OutboxApplied, Lagging, Settled
  <2>2. CASE m # n
    <3>1. /\ log' = log /\ applied'[m] = applied[m] /\ chan'[m] = chan[m]
          /\ outbox'[m] = outbox[m] /\ (m \notin drops' => m \notin drops)
      BY Zenon, <1>7, <2>2 DEF Restart, RaftTypeOK, EmissionTypeOK
    <3> QED BY <1>1, <1>2, <3>1
  <2> QED BY <2>1, <2>2
<1>8. ASSUME NEW n \in Nodes, Elect(n) \/ Poll(n) \/ Send(n) \/ Connect(n)
      PROVE  UNCHANGED <<log, applied, chan, outbox, drops>>
  BY Zenon, <1>8 DEF Elect, Poll, Send, Connect
<1>9. Publish \/ ClientAck \/ Disconnect \/ UNCHANGED vars
        => UNCHANGED <<log, applied, chan, outbox, drops>>
  BY Zenon DEF Publish, ClientAck, Disconnect, vars
<1> QED BY Zenon, <1>3, <1>4, <1>5, <1>6, <1>7, <1>8, <1>9 DEF Next

LEMMA SettledInvariant == Spec => []SettledInv
<1>1. Init => SettledInv
  <2> SUFFICES ASSUME Init, NEW n \in Nodes
               PROVE  OutboxApplied(n) /\ Lagging(n) /\ Settled(n)
    BY Zenon DEF SettledInv
  <2>1. applied[n] = 0 /\ chan[n] = {} /\ outbox[n] = {}
    BY Zenon DEF Init
  <2>2. \A t : ~Replayed(t, 0)
    BY DEF Replayed, Writes
  <2> QED BY Zenon, <2>1, <2>2 DEF OutboxApplied, Lagging, Settled
<1> QED BY <1>1, SettledStep, EmissionTypeCorrect, PTL DEF Spec

\* Both consumers apply every OUTBOX record, the Applier maybe long after the
\* handler: once it has caught up and has missed nothing, the outbox of a node is
\* what one application of its records in log order gives.
THEOREM AppliedTwiceIsOnce == Spec => []SettledOutboxIsReplay
<1>1. TypeOK /\ SettledInv => SettledOutboxIsReplay
  <2> SUFFICES ASSUME RaftTypeOK, EmissionTypeOK, SettledInv, NEW n \in Nodes,
                      chan[n] = {}, n \notin drops
               PROVE  outbox[n] = Replay(applied[n])
    BY Zenon DEF TypeOK, SettledOutboxIsReplay
  <2>1. PICK k : k = applied[n] /\ k \in 0..Len(log) /\ Len(log) \in Nat
    BY Zenon, LogTypes
  <2>2. \A t \in EmitSeqs : t \in outbox[n] <=> Replayed(t, k)
    BY Zenon, <2>1 DEF SettledInv, Settled
  <2>3. outbox[n] \subseteq EmitSeqs
    BY Zenon DEF EmissionTypeOK
  <2>4. \A i \in 1..k : log[i].at \in EmitSeqs /\ log[i].at.idx \in Nat
    BY <2>1, LogTypes
  <2>5. ASSUME NEW t \in EmitSeqs PROVE t \in Replay(k) <=> Replayed(t, k)
    <3>1. ASSUME NEW i \in Writes(k), log[i].at = t
          PROVE  (\A j \in i+1..k : ~Touches(log[j], t.idx)) <=>
                    \A j \in i+1..k :
                        /\ log[j].op = "OUTBOX_WRITE" => log[j].at.idx # log[i].at.idx
                        /\ log[j].op = "OUTBOX_PURGE" => log[j].at.idx < log[i].at.idx
      <4>1. i \in 1..k /\ t.idx \in Nat
        BY Zenon, <2>4, <3>1 DEF Writes
      <4>2. \A j \in i+1..k : log[j].at.idx \in Nat
        BY <2>1, <2>4, <4>1
      <4> QED BY <3>1, <4>1, <4>2 DEF Touches
    <3> QED BY Zenon, <3>1 DEF Replay, Replayed
  <2>6. \A t \in Replay(k) : t \in EmitSeqs
    BY Zenon, <2>4 DEF Replay, Writes
  <2> QED BY Zenon, <2>1, <2>2, <2>3, <2>5, <2>6
<1> QED BY <1>1, SettledInvariant, EmissionTypeCorrect, PTL

-----------------------------------------------------------------------------
(* Delivery while the leader stays.                                        *)

\* What is committed or on its way to be.
Queue == log \o pend
QueuedWrites == {a \in 1..Len(Queue) : Queue[a].op = "OUTBOX_WRITE"}

\* The events that the leader's Applier has handled.
Handled == {i \in 1..applied[leader] : i \notin chan[leader]}

\* The leader's Applier proposes the writes of the events in their order, each
\* under the leader's epoch.
WritesInOrder ==
    /\ \A a \in QueuedWrites : Queue[a].at.epoch = epoch[leader] /\ Queue[a].at.idx \in Handled
    /\ \A a, b \in QueuedWrites : a < b => Queue[a].at.idx < Queue[b].at.idx
    /\ \A i \in Events \cap Handled : \E a \in QueuedWrites : Queue[a].at.idx = i

SentWasSeen == \A n \in Nodes : sent[n] = ZeroSeq \/ sent[n] \in seen

StableInv ==
    Undisturbed => /\ leader \in Nodes /\ epoch[leader] > 0
                   /\ WritesInOrder /\ SentWasSeen /\ DeliveredInOrder

LEMMA QueueType ==
    ASSUME RaftTypeOK
    PROVE  /\ Queue \in Seq(Records) /\ Len(Queue) = Len(log) + Len(pend)
           /\ Len(log) \in Nat /\ Len(pend) \in Nat
           /\ \A a \in 1..Len(log) : Queue[a] = log[a]
           /\ \A a \in 1..Len(Queue) : Queue[a] \in Records /\ Queue[a].at.idx \in Nat
<1>1. log \in Seq(Records) /\ pend \in Seq(Records)
  BY Zenon DEF RaftTypeOK
<1>2. /\ Queue \in Seq(Records) /\ Len(Queue) = Len(log) + Len(pend)
      /\ Len(log) \in Nat /\ Len(pend) \in Nat
      /\ \A a \in 1..Len(log) : Queue[a] = log[a]
  BY <1>1 DEF Queue
<1>3. \A a \in 1..Len(Queue) : Queue[a] \in Records
  BY <1>2
<1> QED BY Zenon, <1>2, <1>3, RecordFields, SeqType

\* Committing moves the head of the proposals to the end of the log.
LEMMA CommitKeepsQueue ==
    ASSUME RaftTypeOK, Commit
    PROVE  Queue' = Queue
<1>1. log \in Seq(Records) /\ pend \in Seq(Records) /\ pend # <<>>
  BY Zenon DEF RaftTypeOK, Commit
<1>2. Head(pend) \in Records /\ Tail(pend) \in Seq(Records) /\ pend = <<Head(pend)>> \o Tail(pend)
  BY <1>1
<1>3. Append(log, Head(pend)) \o Tail(pend) = log \o (<<Head(pend)>> \o Tail(pend))
  BY <1>1, <1>2
<1> QED BY Zenon, <1>2, <1>3 DEF Queue, Commit

LEMMA ProposeExtends ==
    ASSUME RaftTypeOK, NEW n \in Nodes, NEW op \in Ops, NEW at \in EmitSeqs,
           Propose(n, op, at), log' = log
    PROVE  \E r \in Records : r.op = op /\ r.at = at /\ Queue' = Append(Queue, r)
<1>0. [op |-> op, at |-> at, seq |-> nextSeq[n] + 1] \in Records
  BY RecordType DEF RaftTypeOK
<1>1. PICK r \in Records : r = [op |-> op, at |-> at, seq |-> nextSeq[n] + 1]
  BY Zenon, <1>0
<1>2. log \in Seq(Records) /\ pend \in Seq(Records) /\ pend' = Append(pend, r)
  BY Zenon, <1>1 DEF RaftTypeOK, Propose
<1>3. log \o Append(pend, r) = Append(log \o pend, r)
  BY <1>1, <1>2
<1> QED BY Zenon, <1>1, <1>2, <1>3 DEF Queue

\* The leader's Applier has handled a prefix of what its ready loop applied.
LEMMA HandledPrefix ==
    ASSUME RaftTypeOK, leader \in Nodes, Lagging(leader), NEW i \in Handled,
           NEW j \in 1..i
    PROVE  j \in Handled
<1>1. applied[leader] \in Nat /\ chan[leader] \subseteq 1..applied[leader]
  BY LogTypes
<1>2. i \in 1..applied[leader] /\ i \notin chan[leader]
  BY Zenon DEF Handled
<1>3. j \in 1..applied[leader] /\ i \in j..applied[leader]
  BY <1>1, <1>2
<1> QED BY Zenon, <1>2, <1>3 DEF Handled, Lagging

LEMMA OrderFrame ==
    ASSUME WritesInOrder, UNCHANGED <<leader, epoch>>, Queue' = Queue,
           Handled' = Handled, (Events \cap Handled)' \subseteq Events
    PROVE  WritesInOrder'
BY Zenon DEF WritesInOrder, QueuedWrites

\* A record joins the proposals.
LEMMA OrderAppend ==
    ASSUME RaftTypeOK, WritesInOrder, UNCHANGED <<leader, epoch, log>>,
           NEW r \in Records, Queue' = Append(Queue, r), Handled \subseteq Handled',
           r.op = "OUTBOX_WRITE" =>
                /\ r.at.epoch = epoch[leader] /\ r.at.idx \in Handled'
                /\ \A h \in Handled : h < r.at.idx,
           \A i \in Events \cap Handled' :
                i \in Handled \/ (r.op = "OUTBOX_WRITE" /\ r.at.idx = i)
    PROVE  WritesInOrder'
<1>1. PICK k \in Nat : k = Len(Queue)
  BY QueueType
<1>2. /\ Len(Queue') = k + 1 /\ Queue'[k + 1] = r
      /\ \A a \in 1..k : Queue'[a] = Queue[a]
  BY <1>1, QueueType
<1>3. QueuedWrites \subseteq 1..k /\ \A a \in QueuedWrites : Queue'[a] = Queue[a]
  BY Zenon, <1>1, <1>2 DEF QueuedWrites
<1>4. \A a \in QueuedWrites' : a \in QueuedWrites \/ (a = k + 1 /\ r.op = "OUTBOX_WRITE")
  BY <1>1, <1>2 DEF QueuedWrites
<1>5. /\ QueuedWrites \subseteq QueuedWrites'
      /\ r.op = "OUTBOX_WRITE" => k + 1 \in QueuedWrites'
  BY <1>1, <1>2 DEF QueuedWrites
<1>6. \A a \in QueuedWrites' : Queue'[a].at.epoch = epoch'[leader'] /\ Queue'[a].at.idx \in Handled'
  BY ZenonT(40), <1>2, <1>3, <1>4 DEF WritesInOrder
<1>7. ASSUME NEW a \in QueuedWrites', NEW b \in QueuedWrites', a < b
      PROVE  Queue'[a].at.idx < Queue'[b].at.idx
  <2>0. (a \in 1..k \/ a = k + 1) /\ (b \in 1..k \/ b = k + 1)
    BY Zenon, <1>3, <1>4, <1>7
  <2>a. a # k + 1
    BY <1>7, <2>0
  <2>1. a \in QueuedWrites
    BY Zenon, <1>4, <1>7, <2>a
  <2>2. CASE b \in QueuedWrites
    BY Zenon, <1>3, <1>7, <2>1, <2>2 DEF WritesInOrder
  <2>3. CASE b = k + 1 /\ r.op = "OUTBOX_WRITE"
    BY Zenon, <1>2, <1>3, <2>1, <2>3 DEF WritesInOrder
  <2> QED BY Zenon, <1>4, <2>2, <2>3
<1>8. ASSUME NEW i \in (Events \cap Handled)'
      PROVE  \E a \in QueuedWrites' : Queue'[a].at.idx = i
  <2>1. i \in Events \cap Handled'
    BY Zenon DEF Events
  <2>2. CASE i \in Handled
    BY Zenon, <1>3, <1>5, <2>1, <2>2 DEF WritesInOrder
  <2>3. CASE r.op = "OUTBOX_WRITE" /\ r.at.idx = i
    BY Zenon, <1>2, <1>5, <2>3
  <2> QED BY Zenon, <2>1, <2>2, <2>3
<1> QED BY Zenon, <1>6, <1>7, <1>8 DEF WritesInOrder

\* Entries and deliveries carry the epoch of the leader.
LEMMA OneEpoch ==
    ASSUME RaftTypeOK, SafetyInv, WritesInOrder
    PROVE  /\ \A s \in seen : s.epoch = epoch[leader]
           /\ \A n \in Nodes : \A s \in outbox[n] : s.epoch = epoch[leader]
<1>1. ASSUME NEW w \in Writes(Len(log)) PROVE log[w].at.epoch = epoch[leader]
  <2>1. w \in 1..Len(log) /\ w \in 1..Len(Queue) /\ Queue[w] = log[w]
    BY QueueType DEF Writes
  <2>2. w \in QueuedWrites
    BY Zenon, <2>1 DEF Writes, QueuedWrites
  <2> QED BY Zenon, <2>1, <2>2 DEF WritesInOrder
<1> QED BY <1>1 DEF SafetyInv, OutboxCommitted, DeliveredWasCommitted

\* What the notifier skips has been delivered.
LEMMA SkippedSeen ==
    ASSUME TypeOK, SafetyInv, Undisturbed, StableInv, NEW n \in Nodes,
           NEW s \in outbox[n], s \notin Unsent(n)
    PROVE  Delivered(s.idx)
<1>1. /\ s \in EmitSeqs /\ s.idx \in Nat /\ s.epoch \in Nat
      /\ sent[n].idx \in Nat /\ sent[n].epoch \in Nat
  BY Zenon, SeqType DEF TypeOK, EmissionTypeOK
<1>2. ~Newer(s, sent[n])
  BY Zenon DEF Unsent
<1>3. WritesInOrder /\ epoch[leader] > 0 /\ SentWasSeen /\ DeliveredInOrder
  BY Zenon DEF StableInv
<1>4. s.epoch = epoch[leader] /\ \A t \in seen : t.epoch = epoch[leader]
  BY Zenon, <1>3, OneEpoch DEF TypeOK
<1>5. sent[n] \in seen
  <2>1. CASE sent[n] = ZeroSeq
    BY <1>1, <1>2, <1>3, <1>4, <2>1 DEF Newer, ZeroSeq
  <2> QED BY Zenon, <1>3, <2>1 DEF SentWasSeen
<1>6. s.idx <= sent[n].idx
  BY <1>1, <1>2, <1>4, <1>5 DEF Newer
<1>7. s.idx \in Events
  <2>1. PICK w \in Writes(Len(log)) : log[w].at = s
    BY Zenon DEF SafetyInv, OutboxCommitted
  <2> QED BY Zenon, <2>1 DEF SafetyInv, SafeRecords, SafeRecord, Writes
<1>8. CASE s.idx = sent[n].idx
  BY Zenon, <1>5, <1>8 DEF Delivered
<1>9. CASE s.idx < sent[n].idx
  BY Zenon, <1>3, <1>5, <1>7, <1>9 DEF DeliveredInOrder
<1> QED BY <1>1, <1>6, <1>8, <1>9

\* The delivery of the first unsent entry keeps the deliveries in order.
LEMMA SendInOrder ==
    ASSUME TypeOK, SafetyInv, SettledInv, AckedWasSeen, Undisturbed, StableInv,
           NEW n \in Nodes, NEW s \in Unsent(n), \A t \in Unsent(n) : s.idx <= t.idx,
           NEW i \in Events, i < s.idx
    PROVE  Delivered(i)
<1>1. /\ RaftTypeOK /\ EmissionTypeOK /\ WritesInOrder /\ DeliveredInOrder
      /\ leader \in Nodes /\ leader \notin drops
  BY Zenon DEF TypeOK, StableInv, Undisturbed
<1>2. PICK w \in Writes(applied[n]) : log[w].at = s
  BY Zenon DEF SettledInv, OutboxApplied, Unsent
<1>3. /\ applied[n] \in 0..Len(log) /\ Len(log) \in Nat
      /\ w \in 1..applied[n] /\ w \in 1..Len(log)
  BY <1>1, <1>2, LogTypes DEF Writes
<1>4. w \in QueuedWrites /\ Queue[w] = log[w]
  <2>1. w \in 1..Len(Queue) /\ Queue[w] = log[w]
    BY <1>1, <1>3, QueueType
  <2> QED BY Zenon, <1>2, <2>1 DEF QueuedWrites, Writes
<1>5. s.idx \in Handled /\ s.idx \in Nat /\ i \in Nat /\ i >= 1
  BY <1>1, <1>2, <1>3, <1>4, LogTypes DEF WritesInOrder, Events
<1>6. i \in Handled
  BY <1>1, <1>5, HandledPrefix DEF SettledInv
<1>7. PICK a \in QueuedWrites : Queue[a].at.idx = i
  BY Zenon, <1>1, <1>6 DEF WritesInOrder
<1>8. a < w
  <2>1. a \in 1..Len(Queue) /\ Len(Queue) \in Nat
    BY <1>1, QueueType DEF QueuedWrites
  <2>2. w < a => Queue[w].at.idx < Queue[a].at.idx
    BY Zenon, <1>1, <1>4 DEF WritesInOrder
  <2> QED BY <1>2, <1>3, <1>4, <1>5, <1>7, <2>1, <2>2
<1>9. a \in Writes(applied[n]) /\ log[a].at.idx = i
  <2>1. a \in 1..Len(log) /\ a \in 1..applied[n] /\ Queue[a] = log[a]
    BY <1>1, <1>3, <1>8, QueueType DEF QueuedWrites
  <2> QED BY Zenon, <1>7, <2>1 DEF QueuedWrites, Writes
<1>10. CASE \E u \in acked : u.idx >= i
  <2>1. PICK u \in seen : u.idx >= i /\ u.idx \in Nat
    BY Zenon, <1>10, SeqType DEF AckedWasSeen, TypeOK, ClientTypeOK
  <2>2. CASE u.idx = i
    BY Zenon, <2>2 DEF Delivered
  <2>3. CASE i < u.idx
    BY Zenon, <1>1, <2>3 DEF DeliveredInOrder
  <2> QED BY <1>5, <2>1, <2>2, <2>3
<1>11. CASE \E t \in outbox[n] : t.idx = i
  <2>1. PICK t \in outbox[n] : t.idx = i
    BY Zenon, <1>11
  <2>2. t \notin Unsent(n)
    BY <1>5, <2>1
  <2> QED BY Zenon, <2>1, <2>2, SkippedSeen
<1> QED BY Zenon, <1>9, <1>10, <1>11 DEF SafetyInv, UnackedStaysPending

\* A step that delivers nothing and leaves the log alone.
LEMMA StableFrame ==
    ASSUME StableInv, Undisturbed, UNCHANGED <<leader, epoch, log, seen>>,
           WritesInOrder', SentWasSeen'
    PROVE  StableInv'
BY Zenon DEF StableInv, DeliveredInOrder, Delivered, Events

LEMMA StableStep ==
    TypeOK /\ SafetyInv /\ SettledInv /\ AckedWasSeen /\ StableInv /\ TypeOK' /\ [Next]_vars
        => StableInv'
<1> SUFFICES ASSUME TypeOK, SafetyInv, SettledInv, AckedWasSeen, StableInv,
                    TypeOK', [Next]_vars, Undisturbed'
             PROVE  StableInv'
  BY Zenon DEF StableInv
<1>0. ASSUME NEW n \in Nodes, Elect(n) \/ Restart(n) PROVE FALSE
  <2>1. counts \in [events : Nat, acks : Nat, elections : Nat, restarts : Nat, connects : Nat]
    BY Zenon DEF TypeOK, ClientTypeOK
  <2>2. counts'.elections = counts.elections + 1 \/ counts'.restarts = counts.restarts + 1
    BY Zenon, <1>0, <2>1 DEF Elect, Restart
  <2> QED BY <2>1, <2>2 DEF Undisturbed
<1>1. Undisturbed
  <2>1. ASSUME UNCHANGED <<counts, drops>> PROVE Undisturbed
    BY Zenon, <2>1 DEF Undisturbed
  <2>2. ASSUME UNCHANGED <<counts.elections, counts.restarts, drops>> PROVE Undisturbed
    BY Zenon, <2>2 DEF Undisturbed
  <2>3. counts \in [events : Nat, acks : Nat, elections : Nat, restarts : Nat, connects : Nat]
    BY Zenon DEF TypeOK, ClientTypeOK
  <2>4. CASE Publish \/ ClientAck \/ \E n \in Nodes : Connect(n)
    BY Zenon, <2>2, <2>3, <2>4 DEF Publish, ClientAck, Connect
  <2>5. ASSUME NEW n \in Nodes, ReadyApply(n) PROVE Undisturbed
    BY Zenon, <2>5 DEF ReadyApply, Undisturbed
  <2>6. ASSUME NEW n \in Nodes, Applier(n) \/ Poll(n) \/ Send(n)
        PROVE  UNCHANGED <<counts, drops>>
    BY Zenon, <2>6 DEF Applier, ApplyDataEvent, ApplyAgain, ApplyAck, Poll, Send
  <2>7. CASE Commit \/ Disconnect \/ UNCHANGED vars
    BY Zenon, <2>1, <2>7 DEF Commit, Disconnect, vars
  <2> QED BY Zenon, <1>0, <2>1, <2>4, <2>5, <2>6, <2>7 DEF Next
<1>2. /\ RaftTypeOK /\ EmissionTypeOK /\ leader \in Nodes /\ epoch[leader] > 0
      /\ WritesInOrder /\ SentWasSeen /\ DeliveredInOrder
      /\ Lagging(leader) /\ leader \notin drops
  BY Zenon, <1>1 DEF TypeOK, StableInv, SettledInv, Undisturbed
<1>3. /\ Len(log) \in Nat /\ applied[leader] \in 0..Len(log)
      /\ chan[leader] \subseteq 1..applied[leader]
  BY Zenon, <1>2, LogTypes
<1>4. ASSUME UNCHANGED <<leader, epoch, log, seen, sent, pend, applied, chan>>
      PROVE  StableInv'
  <2>1. SentWasSeen'
    BY Zenon, <1>2, <1>4 DEF SentWasSeen
  <2>2. WritesInOrder'
    BY Zenon, <1>2, <1>4, OrderFrame DEF Queue, Handled, Events
  <2> QED BY Zenon, <1>1, <1>4, <2>1, <2>2, StableFrame
<1>5. CASE Commit
  <2>1. /\ Len(log') = Len(log) + 1 /\ \A i \in 1..Len(log) : log'[i] = log[i]
        /\ UNCHANGED <<leader, applied, chan, epoch, seen, sent>>
    BY <1>2, <1>5 DEF Commit, RaftTypeOK
  <2>2. \A i \in Events' : i \in 1..Len(log) => i \in Events
    BY Zenon, <2>1 DEF Events
  <2>3. Handled' = Handled /\ Handled \subseteq 1..Len(log)
    BY <1>3, <2>1 DEF Handled
  <2>4. WritesInOrder'
    BY Zenon, <1>2, <1>5, <2>1, <2>2, <2>3, CommitKeepsQueue, OrderFrame
  <2>5. SentWasSeen'
    BY Zenon, <1>2, <2>1 DEF SentWasSeen
  <2>6. DeliveredInOrder'
    <3> SUFFICES ASSUME NEW s \in seen, NEW i \in Events', i < s.idx
                 PROVE  Delivered(i)
      BY Zenon, <2>1 DEF DeliveredInOrder, Delivered
    <3>1. s.idx \in Events /\ s.idx \in 1..Len(log)
      BY Zenon DEF SafetyInv, DeliveredWasCommitted, Events
    <3>2. i \in Nat /\ i >= 1
      BY <1>3, <2>1 DEF Events
    <3>3. i \in Events
      BY <1>3, <2>2, <3>1, <3>2
    <3> QED BY Zenon, <1>1, <1>2, <3>3 DEF DeliveredInOrder
  <2> QED BY Zenon, <1>2, <2>1, <2>4, <2>5, <2>6 DEF StableInv
<1>6. ASSUME NEW op \in Ops, NEW at \in EmitSeqs, Propose(leader, op, at),
             op # "OUTBOX_WRITE", UNCHANGED <<leader, epoch, log, seen, sent>>,
             Handled \subseteq Handled', Events \cap Handled' \subseteq Handled
      PROVE  StableInv'
  <2>1. PICK r \in Records : r.op = op /\ r.at = at /\ Queue' = Append(Queue, r)
    BY ZenonT(40), <1>2, <1>6, ProposeExtends
  <2>2. WritesInOrder'
    <3>1. r.op # "OUTBOX_WRITE" /\ \A i \in Events \cap Handled' : i \in Handled
      BY Zenon, <1>6, <2>1
    <3> QED BY Zenon, <1>2, <1>6, <2>1, <3>1, OrderAppend
  <2>3. SentWasSeen'
    BY Zenon, <1>2, <1>6 DEF SentWasSeen
  <2> QED BY Zenon, <1>1, <1>6, <2>2, <2>3, StableFrame
<1>7. CASE Publish
  <2>1. Propose(leader, "DATA_EVENT", ZeroSeq) /\ "DATA_EVENT" \in Ops /\ ZeroSeq \in EmitSeqs
    BY Zenon, <1>7, SeqType DEF Publish, Ops
  <2>2. UNCHANGED <<leader, epoch, log, seen, sent, applied, chan>>
    BY Zenon, <1>7 DEF Publish
  <2>3. Handled' = Handled
    BY Zenon, <2>2 DEF Handled
  <2> QED BY Zenon, <1>6, <2>1, <2>2, <2>3
<1>8. CASE ClientAck
  <2>1. PICK s \in seen : Propose(leader, "ACK", [epoch |-> 0, idx |-> s.idx])
    BY Zenon, <1>8 DEF ClientAck
  <2>2. [epoch |-> 0, idx |-> s.idx] \in EmitSeqs /\ "ACK" \in Ops
    BY Zenon, SeqType DEF TypeOK, ClientTypeOK, Ops
  <2>3. UNCHANGED <<leader, epoch, log, seen, sent, applied, chan>>
    BY Zenon, <1>8 DEF ClientAck
  <2>4. Handled' = Handled
    BY Zenon, <2>3 DEF Handled
  <2> QED BY Zenon, <1>6, <2>1, <2>2, <2>3, <2>4
<1>9. CASE Disconnect
  <2>1. /\ UNCHANGED <<leader, epoch, log, seen, pend, applied, chan>>
        /\ \A n \in Nodes : sent'[n] = sent[n] \/ sent'[n] = ZeroSeq
    BY Zenon, <1>2, <1>9 DEF Disconnect, EmissionTypeOK
  <2>2. SentWasSeen'
    BY Zenon, <1>2, <2>1 DEF SentWasSeen
  <2>3. WritesInOrder'
    BY Zenon, <1>2, <2>1, OrderFrame DEF Queue, Handled, Events
  <2> QED BY Zenon, <1>1, <2>1, <2>2, <2>3, StableFrame
<1>10. ASSUME NEW n \in Nodes, ReadyApply(n) PROVE StableInv'
  <2>1. UNCHANGED <<leader, epoch, log, seen, sent, pend>>
    BY Zenon, <1>10 DEF ReadyApply
  <2>2. Handled' = Handled
    <3>1. CASE n = leader
      <4>1. /\ applied'[leader] = applied[leader] + 1
            /\ chan'[leader] = chan[leader] \cup {applied[leader] + 1}
        BY Zenon, <1>2, <1>10, <3>1 DEF ReadyApply, RaftTypeOK, Undisturbed
      <4> QED BY <1>3, <2>1, <4>1 DEF Handled
    <3>2. CASE n # leader
      <4>1. applied'[leader] = applied[leader] /\ chan'[leader] = chan[leader]
        BY Zenon, <1>2, <1>10, <3>2 DEF ReadyApply, RaftTypeOK
      <4> QED BY Zenon, <2>1, <4>1 DEF Handled
    <3> QED BY Zenon, <3>1, <3>2
  <2>3. WritesInOrder'
    BY Zenon, <1>2, <2>1, <2>2, OrderFrame DEF Queue, Events
  <2>4. SentWasSeen'
    BY Zenon, <1>2, <2>1 DEF SentWasSeen
  <2> QED BY Zenon, <1>1, <2>1, <2>3, <2>4, StableFrame
<1>11. ASSUME NEW n \in Nodes, Applier(n) PROVE StableInv'
  <2>1. PICK i \in chan[n] : ApplyDataEvent(n, i) \/ ApplyAgain(n, i) \/ ApplyAck(n, i)
    BY Zenon, <1>11 DEF Applier
  <2>2. /\ UNCHANGED <<leader, epoch, log, seen, sent, applied>>
        /\ Receives(n, i)
    BY Zenon, <2>1 DEF ApplyDataEvent, ApplyAgain, ApplyAck
  <2>3. SentWasSeen'
    BY Zenon, <1>2, <2>2 DEF SentWasSeen
  <2>4. CASE n # leader
    <3>1. chan'[leader] = chan[leader] /\ pend' = pend
      BY Zenon, <1>2, <2>1, <2>2, <2>4
         DEF Receives, RaftTypeOK, ApplyDataEvent, ApplyAgain, ApplyAck
    <3>2. WritesInOrder'
      BY Zenon, <1>2, <2>2, <3>1, OrderFrame DEF Queue, Handled, Events
    <3> QED BY Zenon, <1>1, <2>2, <2>3, <3>2, StableFrame
  <2>5. CASE n = leader
    <3>1. /\ chan'[leader] = chan[leader] \ {i} /\ \A j \in chan[leader] : i <= j
          /\ i \in 1..applied[leader] /\ i \in chan[leader]
      BY Zenon, <1>2, <1>3, <2>2, <2>5 DEF Receives, RaftTypeOK
    <3>2. Handled' = Handled \cup {i}
      BY Zenon, <2>2, <3>1 DEF Handled
    <3>3. log[i].op # "DATA_EVENT" => Events \cap Handled' \subseteq Handled
      BY Zenon, <3>2 DEF Events
    <3>4. ASSUME pend' = pend, log[i].op # "DATA_EVENT" PROVE StableInv'
      <4>1. WritesInOrder'
        <5>1. Queue' = Queue /\ Events' = Events
          BY Zenon, <2>2, <3>4 DEF Queue, Events
        <5>2. QueuedWrites' = QueuedWrites
          BY Zenon, <5>1 DEF QueuedWrites
        <5> QED BY Zenon, <1>2, <2>2, <3>2, <3>3, <3>4, <5>1, <5>2 DEF WritesInOrder
      <4> QED BY <1>1, <2>2, <2>3, <4>1, StableFrame
    <3>5. CASE ApplyAgain(n, i)
      BY Zenon, <3>4, <3>5 DEF ApplyAgain
    <3>6. CASE ApplyAck(n, i)
      <4>1. log[i].op = "ACK"
        BY Zenon, <3>6 DEF ApplyAck
      <4>2. log[i].at \in EmitSeqs /\ "OUTBOX_PURGE" \in Ops
        BY <1>2, <1>3, <3>1, LogTypes DEF Ops
      <4>3. pend' = pend \/ Propose(leader, "OUTBOX_PURGE", log[i].at)
        BY Zenon, <2>5, <3>6 DEF ApplyAck, ProposeAndWait
      <4> QED BY Zenon, <1>6, <2>2, <3>2, <3>3, <3>4, <4>1, <4>2, <4>3
    <3>7. CASE ApplyDataEvent(n, i)
      <4>0. [epoch |-> epoch[leader], idx |-> i] \in EmitSeqs
        BY <1>2, <1>3, <3>1, SeqType DEF EmissionTypeOK
      <4>1. PICK at \in EmitSeqs : at = [epoch |-> epoch[leader], idx |-> i]
        BY Zenon, <4>0
      <4>2. Propose(leader, "OUTBOX_WRITE", at) /\ "OUTBOX_WRITE" \in Ops
        BY Zenon, <2>5, <3>7, <4>1 DEF ApplyDataEvent, ProposeAndWait, Ops
      <4>3. PICK r \in Records : r.op = "OUTBOX_WRITE" /\ r.at = at /\ Queue' = Append(Queue, r)
        BY ZenonT(40), <1>2, <2>2, <4>2, ProposeExtends
      <4>4. r.at.epoch = epoch[leader] /\ r.at.idx = i
        BY <4>1, <4>3
      <4>5. \A h \in Handled : h < i
        BY <1>2, <1>3, <3>1 DEF Handled, Lagging
      <4>6. WritesInOrder'
        <5>1. Handled \subseteq Handled' /\ r.at.idx \in Handled'
          BY Zenon, <3>2, <4>4
        <5>2. \A h \in Handled : h < r.at.idx
          BY Zenon, <4>4, <4>5
        <5>3. \A j \in Events \cap Handled' :
                j \in Handled \/ (r.op = "OUTBOX_WRITE" /\ r.at.idx = j)
          BY Zenon, <3>2, <4>3, <4>4
        <5> QED BY Zenon, <1>2, <2>2, <4>3, <4>4, <5>1, <5>2, <5>3, OrderAppend
      <4> QED BY Zenon, <1>1, <2>2, <2>3, <4>6, StableFrame
    <3> QED BY Zenon, <2>1, <3>5, <3>6, <3>7
  <2> QED BY Zenon, <2>4, <2>5
<1>12. ASSUME NEW n \in Nodes, Send(n) PROVE StableInv'
  <2>1. PICK s \in Unsent(n) : /\ \A t \in Unsent(n) : s.idx <= t.idx
                               /\ seen' = seen \cup {s} /\ sent' = [sent EXCEPT ![n] = s]
    BY Zenon, <1>12 DEF Send
  <2>2. UNCHANGED <<leader, epoch, log, pend, applied, chan>>
    BY Zenon, <1>12 DEF Send
  <2>3. SentWasSeen'
    BY Zenon, <1>2, <2>1 DEF SentWasSeen, EmissionTypeOK
  <2>4. WritesInOrder'
    BY Zenon, <1>2, <2>2, OrderFrame DEF Queue, Handled, Events
  <2>5. \A i \in Events : i < s.idx => Delivered(i)
    BY Zenon, <1>1, <2>1, SendInOrder
  <2>6. DeliveredInOrder'
    BY Zenon, <1>1, <1>2, <2>1, <2>2, <2>5 DEF DeliveredInOrder, Delivered, Events
  <2> QED BY Zenon, <1>2, <2>2, <2>3, <2>4, <2>6 DEF StableInv
<1>13. ASSUME NEW n \in Nodes, Poll(n) \/ Connect(n) PROVE StableInv'
  BY Zenon, <1>4, <1>13 DEF Poll, Connect
<1>14. CASE UNCHANGED vars
  BY Zenon, <1>4, <1>14 DEF vars
<1> QED BY Zenon, <1>0, <1>5, <1>7, <1>8, <1>9, <1>10, <1>11, <1>12, <1>13, <1>14 DEF Next

\* While the leader stays, no process restarts and no Applier misses a record,
\* the client receives the events in the order of the log, each under one
\* emit_seq, and the notifier skips nothing the client has not got.
THEOREM DeliveredOnceInOrder == Spec => []StableDelivery
<1>1. Init => StableInv
  <2> SUFFICES ASSUME Init PROVE StableInv
    BY Zenon
  <2>a. leader \in Nodes
    BY Zenon DEF Init
  <2>1. leader \in Nodes /\ epoch[leader] > 0
    BY <2>a, EmissionAssumption DEF Init
  <2>2. Queue = <<>> /\ Len(log) = 0
    BY DEF Init, Queue
  <2>3. QueuedWrites = {} /\ Events = {}
    BY <2>2 DEF QueuedWrites, Events
  <2>4. WritesInOrder
    BY Zenon, <2>3 DEF WritesInOrder
  <2>5. SentWasSeen /\ DeliveredInOrder
    BY Zenon DEF Init, SentWasSeen, DeliveredInOrder
  <2> QED BY Zenon, <2>1, <2>4, <2>5 DEF StableInv
<1>2. TypeOK /\ SafetyInv /\ StableInv => StableDelivery
  <2> SUFFICES ASSUME TypeOK, SafetyInv, StableInv PROVE StableDelivery
    BY Zenon
  <2>1. DeliveredInOrder
    BY Zenon DEF StableInv, DeliveredInOrder
  <2>2. OneSeqPerEvent
    <3> SUFFICES ASSUME Undisturbed, NEW s \in seen, NEW t \in seen, s.idx = t.idx
                 PROVE  s = t
      BY Zenon DEF OneSeqPerEvent
    <3>1. s.epoch = t.epoch
      BY Zenon, OneEpoch DEF StableInv, TypeOK
    <3> QED BY <3>1 DEF TypeOK, ClientTypeOK, EmitSeqs
  <2>3. SkippedWasDelivered
    BY Zenon, SkippedSeen DEF SkippedWasDelivered
  <2> QED BY Zenon, <2>1, <2>2, <2>3 DEF StableDelivery
<1> QED BY <1>1, <1>2, StableStep, EmissionTypeCorrect, SafetyHolds, SettledInvariant,
           AckedWasSeenHolds, PTL DEF Spec
=============================================================================
